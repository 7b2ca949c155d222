------------------------------- MODULE Thread -------------------------------
(***************************************************************************)
(* One ucxx::Thread object (src/Thread.cpp) and the two threads that touch *)
(* it: the OS thread running threadRunner, and the client thread that owns *)
(* the object and calls start(), isRunning(), terminate(), join() and      *)
(* finally destroys it.  The build (OS, and whether asserts are compiled  *)
(* in) is chosen once, in Init, from Builds and AssertModes.              *)
(*                                                                         *)
(* Build "posix": the runner blocks on m_pStartSemaphore until start();    *)
(* terminate() is pthread_cancel, a deferred cancellation that acts only   *)
(* at a cancellation point: the sem_wait at line 34, and inside run() when *)
(* the runnable's code has one (RunCancellable).                           *)
(* Build "win": the runner is created suspended and start() resumes it;    *)
(* terminate() is TerminateThread, which stops the runner wherever it is,  *)
(* also while it holds m_pMutex inside setRunning.  The mutex is then      *)
(* abandoned (module Mutex): the next isRunning() takes it over, and       *)
(* Mutex::lock's assert fails on WAIT_ABANDONED unless built with NDEBUG. *)
(*                                                                         *)
(* The client calls each operation at most once, isRunning() at most      *)
(* MaxPolls times, and destroys the object only after join() returned, or *)
(* (when DestroyUnstarted) without ever starting it.                       *)
(***************************************************************************)
EXTENDS Naturals

CONSTANTS
    Builds,           \* the builds checked, a subset of {"posix", "win"}
    AssertModes,      \* whether assert() is compiled in: a subset of BOOLEAN
    RunCancellable,   \* run() reaches a cancellation point
    MayTerminate,     \* the client may call terminate()
    DestroyUnstarted, \* the client may destroy a Thread it never started
    MaxPolls,         \* bound: isRunning() calls
    Runner, Client, NoOwner

INSTANCE Mutex

VARIABLES
    build,        \* "posix" or "win", fixed for a behaviour
    asserts,      \* assert() is compiled in (no NDEBUG), fixed too
    rpc,          \* where the runner is in threadRunner
    cpc,          \* where the client is
    running,      \* m_running
    mutex,        \* *m_pMutex
    startSem,     \* POSIX: m_pStartSemaphore's count; win: resumed
    started,      \* start() was called
    cancelled,    \* terminate() was called
    joined,       \* join() returned
    alive,        \* the Thread object (its mutex and semaphore) exists
    polls         \* isRunning() calls made

vars == <<build, asserts, rpc, cpc, running, mutex, startSem, started, cancelled,
          joined, alive, polls>>

RunnerPC == {"waitStart", "lockTrue", "setTrue", "run", "lockFalse",
             "setFalse", "exited"}

TypeOK ==
    /\ build \in Builds
    /\ asserts \in AssertModes
    /\ rpc \in RunnerPC
    /\ cpc \in {"idle", "polling", "joining", "gone", "aborted"}
    /\ running \in BOOLEAN
    /\ mutex \in [owner : {Runner, Client, NoOwner}, depth : 0..1]
    /\ startSem \in Nat
    /\ {started, cancelled, joined, alive} \subseteq BOOLEAN
    /\ polls \in 0..MaxPolls

\* Thread::Thread (lines 44-70): m_running = false, a fresh mutex and start
\* semaphore; pthread_create starts threadRunner (CreateThread suspended on
\* win), which is at once waiting to be started.
Init ==
    /\ build \in Builds
    /\ asserts \in AssertModes
    /\ rpc = "waitStart"
    /\ cpc = "idle"
    /\ running = FALSE
    /\ mutex = UnlockedMutex
    /\ startSem = 0
    /\ started = FALSE
    /\ cancelled = FALSE
    /\ joined = FALSE
    /\ alive = TRUE
    /\ polls = 0

\* The threads whose hold on a mutex the OS hands on: a Windows thread that
\* has ended.  A POSIX mutex whose owner ended stays locked.
Dead == IF build = "win" /\ rpc = "exited" THEN {Runner} ELSE {}

RGoto(from, to) == rpc = from /\ rpc' = to

----------------------------------------------------------------------------
(* threadRunner (lines 18-39)                                              *)

\* Line 34 (posix: sem_wait succeeds), or ResumeThread has run (win).
StartWait ==
    /\ RGoto("waitStart", "lockTrue")
    /\ startSem > 0
    /\ startSem' = IF build = "posix" THEN startSem - 1 ELSE startSem
    /\ UNCHANGED <<build, asserts, cpc, running, mutex, started, cancelled, joined, alive, polls>>

\* setRunning(true) (lines 35, 82-86): MutexLocker locks, assign, unlock.
LockTrue ==
    /\ RGoto("lockTrue", "setTrue")
    /\ CanLock(mutex, Runner, Dead)
    /\ mutex' = lock(mutex, Runner)
    /\ UNCHANGED <<build, asserts, cpc, running, startSem, started, cancelled, joined, alive, polls>>

SetTrueNoUnlock ==
    /\ RGoto("setTrue", "run")
    /\ running' = TRUE
    /\ UNCHANGED <<build, asserts, cpc, mutex, startSem, started, cancelled, joined, alive, polls>>

SetTrue ==
    /\ RGoto("setTrue", "run")
    /\ running' = TRUE
    /\ mutex' = unlock(mutex, Runner)
    /\ UNCHANGED <<build, asserts, cpc, startSem, started, cancelled, joined, alive, polls>>

\* run() (lines 36, 97-103) returns.
RunBody ==
    /\ RGoto("run", "lockFalse")
    /\ UNCHANGED <<build, asserts, cpc, running, mutex, startSem, started, cancelled, joined, alive, polls>>

RunnerExitEarly ==
    /\ RGoto("lockFalse", "exited")
    /\ UNCHANGED <<build, asserts, cpc, running, mutex, startSem, started, cancelled, joined, alive, polls>>

\* setRunning(false) (line 37).
LockFalse ==
    /\ RGoto("lockFalse", "setFalse")
    /\ CanLock(mutex, Runner, Dead)
    /\ mutex' = lock(mutex, Runner)
    /\ UNCHANGED <<build, asserts, cpc, running, startSem, started, cancelled, joined, alive, polls>>

\* ... and the routine returns (line 38).
SetFalse ==
    /\ RGoto("setFalse", "exited")
    /\ running' = FALSE
    /\ mutex' = unlock(mutex, Runner)
    /\ UNCHANGED <<build, asserts, cpc, startSem, started, cancelled, joined, alive, polls>>

\* posix: a pending pthread_cancel acts at a cancellation point and the
\* thread exits there, leaving m_running as it was.
CancelPoint ==
    /\ build = "posix"
    /\ cancelled
    /\ \/ rpc = "waitStart"
       \/ rpc = "run" /\ RunCancellable
    /\ rpc' = "exited"
    /\ UNCHANGED <<build, asserts, cpc, running, mutex, startSem, started, cancelled, joined, alive, polls>>

Runner_ == StartWait \/ LockTrue \/ SetTrue \/ RunBody \/ LockFalse \/ SetFalse
           \/ CancelPoint

----------------------------------------------------------------------------
(* The client                                                              *)

CIdle == cpc = "idle" /\ alive

StartNoPost ==
    /\ CIdle /\ ~started
    /\ started' = TRUE
    /\ UNCHANGED <<build, asserts, rpc, cpc, running, mutex, startSem, cancelled, joined, alive, polls>>

\* start() (lines 88-95): notify the start semaphore / ResumeThread.
Start ==
    /\ CIdle /\ ~started
    /\ started' = TRUE
    /\ startSem' = startSem + 1
    /\ UNCHANGED <<build, asserts, rpc, cpc, running, mutex, cancelled, joined, alive, polls>>

\* isRunning() (lines 105-109) is called ...
PollCall ==
    /\ CIdle /\ polls < MaxPolls
    /\ cpc' = "polling"
    /\ polls' = polls + 1
    /\ UNCHANGED <<build, asserts, rpc, running, mutex, startSem, started, cancelled, joined, alive>>

\* ... and returns once MutexLocker gets m_pMutex; it unlocks on return.
PollReturn ==
    /\ cpc = "polling"
    /\ CanLock(mutex, Client, Dead)
    /\ ~(asserts /\ Abandoned(mutex, Dead))
    /\ cpc' = "idle"
    /\ mutex' = unlock(lock(mutex, Client), Client)
    /\ UNCHANGED <<build, asserts, rpc, running, startSem, started, cancelled, joined, alive, polls>>

\* ... or, taking over an abandoned mutex, fails Mutex::lock's assert
\* (Mutex.cpp line 50) and the process aborts.
PollAbort ==
    /\ cpc = "polling"
    /\ asserts
    /\ Abandoned(mutex, Dead)
    /\ cpc' = "aborted"
    /\ UNCHANGED <<build, asserts, rpc, running, mutex, startSem, started, cancelled, joined, alive, polls>>

\* terminate() (lines 111-118).  posix: the cancel is pending.  win: the
\* runner stops at once; a mutex it holds is abandoned.
Terminate ==
    /\ CIdle /\ MayTerminate /\ ~cancelled
    /\ cancelled' = TRUE
    /\ rpc' = IF build = "win" THEN "exited" ELSE rpc
    /\ UNCHANGED <<build, asserts, cpc, running, mutex, startSem, started, joined, alive, polls>>

\* join() (lines 120-127), on a started thread.
JoinCall ==
    /\ CIdle /\ started /\ ~joined
    /\ cpc' = "joining"
    /\ UNCHANGED <<build, asserts, rpc, running, mutex, startSem, started, cancelled, joined, alive, polls>>

\* pthread_join / WaitForSingleObject returns when the runner has exited.
JoinReturn ==
    /\ cpc = "joining"
    /\ rpc = "exited"
    /\ cpc' = "idle"
    /\ joined' = TRUE
    /\ UNCHANGED <<build, asserts, rpc, running, mutex, startSem, started, cancelled, alive, polls>>

\* ~Thread (lines 72-80): delete m_pStartSemaphore (posix) and m_pMutex.
Destroy ==
    /\ CIdle
    /\ joined \/ (DestroyUnstarted /\ ~started)
    /\ alive' = FALSE
    /\ cpc' = "gone"
    /\ UNCHANGED <<build, asserts, rpc, running, mutex, startSem, started, cancelled, joined, polls>>

Client_ == PollReturn \/ PollAbort \/ JoinReturn

Next ==
    \/ Runner_
    \/ Start \/ PollCall \/ Terminate \/ JoinCall \/ Destroy
    \/ Client_

\* Both threads are scheduled while they have a step to take; the client is
\* never forced to make a call.
Spec == Init /\ [][Next]_vars /\ WF_vars(Runner_) /\ WF_vars(Client_)

----------------------------------------------------------------------------

\* The runner is using the object: it is between line 34 and its return,
\* blocked inside sem_wait on m_pStartSemaphore included (posix).
UsesObject ==
    \/ rpc \in RunnerPC \ {"waitStart", "exited"}
    \/ rpc = "waitStart" /\ build = "posix"

\* No use after free: once ~Thread has deleted the semaphore and the mutex
\* (lines 77-79), the runner never again uses them.
NoUseAfterFree == ~alive => ~UsesObject

\* After join() returns on a thread that was not terminated, isRunning()
\* reports false: threadRunner clears m_running (line 37) before it exits.
FlagClearedOnExit == (joined /\ ~cancelled) => ~running

\* start() only posts the start semaphore (or resumes the thread), so the
\* runner sets m_running later (line 35); still it does so eventually,
\* unless terminate() came first.  The premise is the window between
\* start() and the runner passing wait(): a poll may miss the run, but the
\* run itself is never lost.
StartedRuns == started /\ rpc = "waitStart" ~> running \/ cancelled

\* join() on a started thread returns.
JoinReturns == cpc = "joining" ~> cpc = "idle"

\* No assert of the library fails: Mutex::lock's wait result is always
\* WAIT_OBJECT_0 (Mutex.cpp line 50), whatever the client calls.
NoAssertFailure == cpc # "aborted"

\* isRunning() never blocks for good: m_pMutex is never left locked, on
\* Windows also when TerminateThread stopped the runner inside setRunning;
\* it returns, or a build with asserts aborts at Mutex.cpp line 50.
IsRunningReturns == cpc = "polling" ~> cpc \in {"idle", "aborted"}

=============================================================================
