-------------------------------- MODULE Queue --------------------------------
(***************************************************************************)
(* ucxx::Queue<T> (src/src/Queue.h): a FIFO guarded by a recursive Mutex   *)
(* and paired with a counting Semaphore whose counter is meant to mirror   *)
(* the number of queued items.  The Semaphore is the POSIX build           *)
(* (src/Semaphore.cpp, sem_t branch) or the Windows build (a kernel        *)
(* semaphore plus a shadow counter m_count under its own m_pMutex), and    *)
(* the Mutex the pthread build (src/src/Mutex.cpp).  The m_pMutex sections *)
(* of the Windows build make no call that blocks, so each is one step.     *)
(*                                                                         *)
(* Every thread is a program counter; each step of a method that touches   *)
(* shared state (mutex, semaphore, std::queue) is one action, so every     *)
(* interleaving the OS scheduler can produce between those steps is        *)
(* explored.  Items are the numbers 1..MaxItems, handed out in the order   *)
(* the enqueue critical sections push them.                                *)
(***************************************************************************)
EXTENDS Naturals, Sequences, FiniteSets, FiniteSetsExt

CONSTANTS
    Producers,     \* threads calling enqueue() repeatedly
    Consumers,     \* threads calling dequeue() in a loop
    Clearers,      \* threads calling clear() repeatedly
    Observers,     \* threads calling head() or count() repeatedly
    MaxItems,      \* bound on the number of enqueue() calls
    Interruptible, \* TRUE: a signal handler may interrupt sem_wait (EINTR)
    Build,         \* "posix" (sem_t) or "win" (WIN32 branch of Semaphore.cpp)
    NoOwner        \* model value: the mutex is not held

Threads == Producers \cup Consumers \cup Clearers \cup Observers

ASSUME /\ MaxItems \in Nat \ {0}
       /\ Interruptible \in BOOLEAN
       /\ Build \in {"posix", "win"}
       /\ Build = "win" => ~Interruptible   \* WaitForSingleObject has no EINTR
       /\ NoOwner \notin Threads

VARIABLES
    queue,      \* m_queue, the std::queue<T>
    sem,        \* the counter of m_semaphore (sem_t, or the kernel semaphore)
    mcount,     \* Windows build: the shadow counter m_count that value() returns
    owner,      \* holder of m_mutex, or NoOwner
    pc,         \* program counter of every thread
    drained,    \* clear(): loop variable i of each clearer
    pushed,     \* number of items pushed so far (the next item is pushed+1)
    delivered   \* items returned by dequeue(), in return order (history)

vars == <<queue, sem, owner, pc, drained, pushed, delivered, mcount>>

Items == 1..MaxItems

ProducerPC == {"idle", "push", "notify", "unlock"}
ConsumerPC == {"wait", "shadow", "lock", "pop", "unlock", "undefined"}
ClearerPC  == {"idle", "loop", "shadow", "unlock"}
ObserverPC == {"idle", "head", "count", "undefined"}

TypeOK ==
    /\ queue \in Seq(Items)
    /\ sem \in Nat
    /\ mcount \in Int
    /\ owner \in Threads \cup {NoOwner}
    /\ pc \in [Threads -> ProducerPC \cup ConsumerPC \cup ClearerPC \cup ObserverPC]
    /\ drained \in [Clearers -> Nat]
    /\ pushed \in 0..MaxItems
    /\ delivered \in Seq(Items)

Init ==
    /\ queue = <<>>
    /\ sem = 0                    \* Semaphore(int value = 0)
    /\ mcount = 0                 \* m_count = value (Windows build)
    /\ owner = NoOwner
    /\ pc = [t \in Threads |-> IF t \in Consumers THEN "wait" ELSE "idle"]
    /\ drained = [k \in Clearers |-> 0]
    /\ pushed = 0
    /\ delivered = <<>>

-----------------------------------------------------------------------------
(* Mutex::lock / MutexLocker: pthread_mutex_lock blocks while another      *)
(* thread holds the mutex.  Mutex::unlock releases it.                     *)
Acquire(t) == /\ owner = NoOwner
              /\ owner' = t
Release(t) == owner' = NoOwner

-----------------------------------------------------------------------------
(* enqueue(t): MutexLocker; m_queue.push(t); m_semaphore.notify(1);        *)
(* the locker's destructor unlocks.                                        *)
EnqueueLock(t) ==
    /\ pc[t] = "idle"
    /\ pushed < MaxItems
    /\ Acquire(t)
    /\ pc' = [pc EXCEPT ![t] = "push"]
    /\ UNCHANGED <<queue, sem, drained, pushed, delivered, mcount>>

EnqueuePush(t) ==
    /\ pc[t] = "push"
    /\ queue' = Append(queue, pushed + 1)
    /\ pushed' = pushed + 1
    /\ pc' = [pc EXCEPT ![t] = "notify"]
    /\ UNCHANGED <<sem, owner, drained, delivered, mcount>>

\* Mutants of EnqueueNotify: notify(2) and notify(0).
EnqueueNotifyTwice(t) ==
    /\ pc[t] = "notify"
    /\ sem' = sem + 2
    /\ pc' = [pc EXCEPT ![t] = "unlock"]
    /\ UNCHANGED <<queue, owner, drained, pushed, delivered, mcount>>

EnqueueNotifyNone(t) ==
    /\ pc[t] = "notify"
    /\ pc' = [pc EXCEPT ![t] = "unlock"]
    /\ UNCHANGED <<queue, sem, owner, drained, pushed, delivered, mcount>>

\* Semaphore::notify(1): one sem_post; on Windows, under m_pMutex,
\* ReleaseSemaphore(m_semaphore, 1, &cnt) and m_count = cnt + 1, where cnt
\* is the kernel count before the release.
EnqueueNotify(t) ==
    /\ pc[t] = "notify"
    /\ sem' = sem + 1
    /\ mcount' = IF Build = "win" THEN sem + 1 ELSE mcount
    /\ pc' = [pc EXCEPT ![t] = "unlock"]
    /\ UNCHANGED <<queue, owner, drained, pushed, delivered>>

EnqueueUnlock(t) ==
    /\ pc[t] = "unlock"
    /\ Release(t)
    /\ pc' = [pc EXCEPT ![t] = "idle"]
    /\ UNCHANGED <<queue, sem, drained, pushed, delivered, mcount>>

-----------------------------------------------------------------------------
(* dequeue(): m_semaphore.wait(); MutexLocker; element = m_queue.front();  *)
(* m_queue.pop(); return element.  The result of wait() is ignored.        *)

\* Mutant of DequeueWait: the wait succeeds on a zero counter.
DequeueWaitOnZero(c) ==
    /\ pc[c] = "wait"
    /\ sem >= 0
    /\ sem' = sem - 1
    /\ pc' = [pc EXCEPT ![c] = "lock"]
    /\ UNCHANGED <<queue, owner, drained, pushed, delivered, mcount>>

\* Semaphore::wait(0): sem_wait returns 0 once the counter is positive;
\* on Windows WaitForSingleObject(INFINITE) takes a kernel unit, and
\* m_count is decremented in a later step (WaitShadow).
DequeueWait(c) ==
    /\ pc[c] = "wait"
    /\ sem > 0
    /\ sem' = sem - 1
    /\ pc' = [pc EXCEPT ![c] = IF Build = "win" THEN "shadow" ELSE "lock"]
    /\ UNCHANGED <<queue, owner, drained, pushed, delivered, mcount>>

\* Mutant of WaitShadow: m_count-- left out.
WaitShadowNoDecrement(t, next) ==
    /\ pc[t] = "shadow"
    /\ pc' = [pc EXCEPT ![t] = next]
    /\ UNCHANGED <<queue, sem, owner, drained, pushed, delivered, mcount>>

\* Windows wait(), after WaitForSingleObject: lock m_pMutex, m_count--,
\* unlock, return true; the caller goes on at next.
WaitShadow(t, next) ==
    /\ pc[t] = "shadow"
    /\ mcount' = mcount - 1
    /\ pc' = [pc EXCEPT ![t] = next]
    /\ UNCHANGED <<queue, sem, owner, drained, pushed, delivered>>

\* sem_wait interrupted by a signal handler returns -1/EINTR without
\* decrementing; wait(0) returns false and dequeue() goes on regardless.
\* The signal may also win against a post that raced the blocked waiter,
\* so the counter may be positive by then.
DequeueInterrupted(c) ==
    /\ Interruptible
    /\ pc[c] = "wait"
    /\ pc' = [pc EXCEPT ![c] = "lock"]
    /\ UNCHANGED <<queue, sem, owner, drained, pushed, delivered, mcount>>

DequeueLock(c) ==
    /\ pc[c] = "lock"
    /\ Acquire(c)
    /\ pc' = [pc EXCEPT ![c] = "pop"]
    /\ UNCHANGED <<queue, sem, drained, pushed, delivered, mcount>>

\* front() and pop() on an empty std::queue are undefined behaviour: the
\* thread leaves the modelled behaviour ("undefined") and is not followed.
DequeuePop(c) ==
    /\ pc[c] = "pop"
    /\ \/ /\ queue # <<>>
          /\ delivered' = Append(delivered, Head(queue))
          /\ queue' = Tail(queue)
          /\ pc' = [pc EXCEPT ![c] = "unlock"]
       \/ /\ queue = <<>>
          /\ pc' = [pc EXCEPT ![c] = "undefined"]
          /\ UNCHANGED <<queue, delivered, mcount>>
    /\ UNCHANGED <<sem, owner, drained, pushed, mcount>>

DequeueUnlock(c) ==
    /\ pc[c] = "unlock"
    /\ Release(c)
    /\ pc' = [pc EXCEPT ![c] = "wait"]
    /\ UNCHANGED <<queue, sem, drained, pushed, delivered, mcount>>

-----------------------------------------------------------------------------
(* clear(): MutexLocker; for (i = 0; i < m_queue.size(); ++i)              *)
(* m_semaphore.wait(); m_queue = std::queue<T>();                          *)
ClearLock(k) ==
    /\ pc[k] = "idle"
    /\ Acquire(k)
    /\ drained' = [drained EXCEPT ![k] = 0]
    /\ pc' = [pc EXCEPT ![k] = "loop"]
    /\ UNCHANGED <<queue, sem, pushed, delivered, mcount>>

\* One iteration: wait(0) blocks while the counter is zero, holding m_mutex.
\* On Windows the iteration ends with WaitShadow.
ClearWait(k) ==
    /\ pc[k] = "loop"
    /\ drained[k] < Len(queue)
    /\ sem > 0
    /\ sem' = sem - 1
    /\ drained' = [drained EXCEPT ![k] = @ + 1]
    /\ pc' = [pc EXCEPT ![k] = IF Build = "win" THEN "shadow" ELSE "loop"]
    /\ UNCHANGED <<queue, owner, pushed, delivered, mcount>>

\* The iteration's sem_wait fails with EINTR: i is incremented anyway.
ClearWaitInterrupted(k) ==
    /\ Interruptible
    /\ pc[k] = "loop"
    /\ drained[k] < Len(queue)
    /\ drained' = [drained EXCEPT ![k] = @ + 1]
    /\ UNCHANGED <<queue, sem, owner, pc, pushed, delivered, mcount>>

\* Mutant of ClearReset: the loop stops one iteration early.
ClearResetEarly(k) ==
    /\ pc[k] = "loop"
    /\ drained[k] >= Len(queue) - 1
    /\ queue' = <<>>
    /\ pc' = [pc EXCEPT ![k] = "unlock"]
    /\ UNCHANGED <<sem, owner, drained, pushed, delivered, mcount>>

ClearReset(k) ==
    /\ pc[k] = "loop"
    /\ drained[k] >= Len(queue)
    /\ queue' = <<>>
    /\ pc' = [pc EXCEPT ![k] = "unlock"]
    /\ UNCHANGED <<sem, owner, drained, pushed, delivered, mcount>>

ClearUnlock(k) ==
    /\ pc[k] = "unlock"
    /\ Release(k)
    /\ pc' = [pc EXCEPT ![k] = "idle"]
    /\ UNCHANGED <<queue, sem, drained, pushed, delivered, mcount>>

-----------------------------------------------------------------------------
(* head(): MutexLocker; return m_queue.front();                           *)
(* count(): MutexLocker; return m_queue.size();                           *)
(* The value read is returned to the caller and changes no state; the     *)
(* locker's destructor unlocks.                                           *)
HeadLock(o) ==
    /\ pc[o] = "idle"
    /\ Acquire(o)
    /\ pc' = [pc EXCEPT ![o] = "head"]
    /\ UNCHANGED <<queue, sem, drained, pushed, delivered, mcount>>

\* front() on an empty std::queue is undefined behaviour, as in dequeue().
HeadReturn(o) ==
    /\ pc[o] = "head"
    /\ \/ queue # <<>> /\ Release(o) /\ pc' = [pc EXCEPT ![o] = "idle"]
       \/ queue = <<>> /\ pc' = [pc EXCEPT ![o] = "undefined"] /\ UNCHANGED owner
    /\ UNCHANGED <<queue, sem, drained, pushed, delivered, mcount>>

CountLock(o) ==
    /\ pc[o] = "idle"
    /\ Acquire(o)
    /\ pc' = [pc EXCEPT ![o] = "count"]
    /\ UNCHANGED <<queue, sem, drained, pushed, delivered, mcount>>

CountReturn(o) ==
    /\ pc[o] = "count"
    /\ Release(o)
    /\ pc' = [pc EXCEPT ![o] = "idle"]
    /\ UNCHANGED <<queue, sem, drained, pushed, delivered, mcount>>

-----------------------------------------------------------------------------
Producer(t) == EnqueueLock(t) \/ EnqueuePush(t) \/ EnqueueNotify(t)
               \/ EnqueueUnlock(t)
Consumer(c) == DequeueWait(c) \/ WaitShadow(c, "lock") \/ DequeueInterrupted(c)
               \/ DequeueLock(c) \/ DequeuePop(c) \/ DequeueUnlock(c)
Clearer(k)  == ClearLock(k) \/ ClearWait(k) \/ WaitShadow(k, "loop")
               \/ ClearWaitInterrupted(k) \/ ClearReset(k) \/ ClearUnlock(k)
Observer(o) == HeadLock(o) \/ HeadReturn(o) \/ CountLock(o) \/ CountReturn(o)

Next ==
    \/ \E t \in Producers : Producer(t)
    \/ \E c \in Consumers : Consumer(c)
    \/ \E k \in Clearers : Clearer(k)
    \/ \E o \in Observers : Observer(o)

\* Preemptive OS threads: every thread that can run eventually runs.
\* pthread mutexes and sem_t give no FIFO hand-off, so only weak fairness.
Fairness == /\ \A t \in Producers : WF_vars(Producer(t))
            /\ \A c \in Consumers : WF_vars(Consumer(c))
            /\ \A k \in Clearers : WF_vars(Clearer(k))
            /\ \A o \in Observers : WF_vars(Observer(o))

Spec == Init /\ [][Next]_vars
FairSpec == Spec /\ Fairness

-----------------------------------------------------------------------------
(* Threads whose step on the semaphore and on m_queue is not yet matched.  *)
PendingNotify == {t \in Producers : pc[t] = "notify"}
PendingPop    == {c \in Consumers : pc[c] \in {"shadow", "lock", "pop"}}
DrainedSoFar  == {k \in Clearers : pc[k] \in {"loop", "shadow"}}
PendingShadow == {t \in Threads : pc[t] = "shadow"}


(* The counter of m_semaphore equals the length of m_queue once the steps  *)
(* still in flight are accounted for: pushes not yet notified, semaphore   *)
(* decrements of dequeue() not yet popped, and the waits clear() made      *)
(* before resetting the queue (Queue.h: enqueue, dequeue, clear).  This is *)
(* the invariant the design rests on.                                      *)
SemaphoreTracksLength ==
    sem + Cardinality(PendingNotify) + Cardinality(PendingPop)
        + MapThenSumSet(LAMBDA k : drained[k], DrainedSoFar) = Len(queue)

(* Windows build: value() never reports more units than there are.  A     *)
(* wait() that has taken a kernel unit but not yet decremented m_count     *)
(* still counts in m_count, so m_count is at most the kernel count plus    *)
(* those waits; it may fall below, because notify() overwrites m_count     *)
(* with the kernel count (Semaphore.cpp 157-160) and the pending           *)
(* decrement (line 57) is then taken a second time.                        *)
ValueNeverAhead == mcount <= sem + Cardinality(PendingShadow)

(* Windows build: value() never returns a negative counter.  TLC finds it  *)
(* violated with Build = "win" (README, observations): two waits and one   *)
(* notify() are enough.                                                    *)
ValueNonNegative == Build = "win" => mcount >= 0

(* dequeue() never reaches m_queue.front()/pop() on an empty queue, which  *)
(* is undefined behaviour (Queue.h: dequeue ignores the result of wait()). *)
NoPopOnEmpty ==
    \A c \in Consumers : pc[c] = "pop" => queue # <<>>

(* With signals interrupting sem_wait, the counter may run ahead of the    *)
(* queue but never behind it: every queued item not yet claimed by a       *)
(* dequeue() or by clear()'s loop has a unit waiting for it.  EINTR only   *)
(* loses waits (dequeue and clear ignore wait()'s false, Queue.h 35 and    *)
(* 82), never posts, so the harm is a pop on an empty queue and not an     *)
(* item stranded while consumers sleep.                                    *)
SemaphoreNeverBehind ==
    Len(queue) <= sem + Cardinality(PendingNotify) + Cardinality(PendingPop)
                      + MapThenSumSet(LAMBDA k : drained[k], DrainedSoFar)

(* No item is left stranded: eventually it is never the case that the      *)
(* queue holds an item while a consumer sits blocked in sem_wait           *)
(* (Queue.h: enqueue's notify wakes a waiting dequeue).                    *)
NoStrandedItems ==
    <>[](queue # <<>> => \A c \in Consumers : pc[c] # "wait")

(* clear() always returns: a thread that has locked the mutex in clear()   *)
(* eventually unlocks it (Queue.h: clear waits on the semaphore while      *)
(* holding the mutex).                                                     *)
ClearReturns ==
    \A k \in Clearers : pc[k] = "loop" ~> pc[k] = "idle"
=============================================================================
