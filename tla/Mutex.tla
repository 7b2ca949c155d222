------------------------------- MODULE Mutex -------------------------------
(***************************************************************************)
(* ucxx::Mutex (src/src/Mutex.cpp, src/Mutex.h) as a value: the thread     *)
(* that owns it and how many times that thread has locked it.  Both        *)
(* builds make a recursive mutex: POSIX sets PTHREAD_MUTEX_RECURSIVE(_NP), *)
(* and a Windows mutex (CreateMutex) is recursive by nature.               *)
(*                                                                         *)
(* The builds differ when the owner ends without unlocking.  A POSIX       *)
(* mutex stays locked for ever.  A Windows mutex is abandoned: the next    *)
(* WaitForSingleObject acquires it and returns WAIT_ABANDONED, and lock()  *)
(* then asserts that the result was WAIT_OBJECT_0.  The caller passes the  *)
(* set `dead` of threads whose ownership the OS hands on: the ended        *)
(* threads on Windows, and none on POSIX.                                  *)
(***************************************************************************)
EXTENDS Naturals

CONSTANT NoOwner

\* Mutex() (lines 14-34): a fresh mutex that nobody holds.
UnlockedMutex == [owner |-> NoOwner, depth |-> 0]

CanLockNoAbandon(m, t, dead) == m.owner \in {NoOwner, t}

\* lock() (lines 45-54) returns for t: the mutex is free, t already holds
\* it (recursive), or its owner is a thread the OS declared dead.
CanLock(m, t, dead) == m.owner \in {NoOwner, t} \cup dead

\* WaitForSingleObject's result (line 49): WAIT_ABANDONED when the mutex is
\* taken over from a dead owner; assert(dwWaitResult == WAIT_OBJECT_0) at
\* line 50 then fails.
Abandoned(m, dead) == m.owner \in dead

\* The mutex after lock() by t.
lock(m, t) ==
    [owner |-> t, depth |-> IF m.owner = t THEN m.depth + 1 ELSE 1]

\* unlock() (lines 56-63): the owner's last unlock frees the mutex.  A
\* thread that does not own it gets EPERM (POSIX) or FALSE (ReleaseMutex),
\* and the mutex is unchanged.
unlock(m, t) ==
    CASE m.owner # t  -> m
      [] m.depth = 1  -> UnlockedMutex
      [] OTHER        -> [m EXCEPT !.depth = @ - 1]

=============================================================================
