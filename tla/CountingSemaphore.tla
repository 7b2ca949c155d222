------------------------- MODULE CountingSemaphore -------------------------
(***************************************************************************)
(* What ucxx::Semaphore promises its callers (src/src/Semaphore.h), as an  *)
(* abstract specification every platform build should implement:           *)
(*   - notify() adds units to the counter;                                 *)
(*   - wait(0) blocks until it can take one unit and then returns true;    *)
(*   - wait(ms) with ms > 0 does the same, or gives up and returns false.  *)
(* Taking a unit is atomic.  A thread inside wait is "waiting"; the mode   *)
(* of its call is "infinite" for wait(0) and "timed" otherwise.            *)
(***************************************************************************)
EXTENDS Naturals

CONSTANTS
    Waiters,    \* threads that call wait()
    Modes       \* subset of {"infinite", "timed"}: the calls they make

VARIABLES
    count,      \* the semaphore counter
    apc,        \* apc[t] \in {"idle", "waiting"}
    mode        \* mode[t]: the mode of t's current (or last) wait call

avars == <<count, apc, mode>>

ATypeOK ==
    /\ count \in Nat
    /\ apc \in [Waiters -> {"idle", "waiting"}]
    /\ mode \in [Waiters -> Modes]

\* Semaphore(0), no thread inside wait().
AInit ==
    /\ count = 0
    /\ apc = [t \in Waiters |-> "idle"]
    /\ mode \in [Waiters -> Modes]

\* A thread enters wait(ms).
Call(t, m) ==
    /\ apc[t] = "idle"
    /\ apc' = [apc EXCEPT ![t] = "waiting"]
    /\ mode' = [mode EXCEPT ![t] = m]
    /\ UNCHANGED count

\* wait() takes a unit and returns true.
Acquire(t) ==
    /\ apc[t] = "waiting"
    /\ count > 0
    /\ count' = count - 1
    /\ apc' = [apc EXCEPT ![t] = "idle"]
    /\ UNCHANGED mode

\* A timed wait() gives up and returns false; an untimed one never does.
GiveUp(t) ==
    /\ apc[t] = "waiting"
    /\ mode[t] = "timed"
    /\ apc' = [apc EXCEPT ![t] = "idle"]
    /\ UNCHANGED <<count, mode>>

\* notify() adds one unit (notify(n) is n such steps).
Post ==
    /\ count' = count + 1
    /\ UNCHANGED <<apc, mode>>

ANext ==
    \/ \E t \in Waiters, m \in Modes : Call(t, m)
    \/ \E t \in Waiters : Acquire(t) \/ GiveUp(t)
    \/ Post

\* The safety part: only these steps, in any order.
ASafe == AInit /\ [][ANext]_avars

\* A waiter that can take a unit for as long as it waits does take one.
ASpec == ASafe /\ \A t \in Waiters : WF_avars(Acquire(t))

=============================================================================
