--------------------------- MODULE SemaphoreApple ---------------------------
(***************************************************************************)
(* The __APPLE__ build of ucxx::Semaphore (src/Semaphore.cpp): a counter   *)
(* m_count guarded by m_countMutex, and a condition variable m_waitCond    *)
(* with its own mutex m_waitMutex that waiters sleep on.                   *)
(*                                                                         *)
(* A section that holds only m_countMutex and cannot block inside is one   *)
(* atomic step; m_waitMutex is modelled as an owner, because waiters block *)
(* on it and on the condition variable.  notify(n) is n rounds of          *)
(* "increment under m_countMutex, then pthread_cond_signal" (the signal is *)
(* sent without holding m_waitMutex).  POSIX allows spurious wake-ups from *)
(* pthread_cond_wait; the constant Spurious enables them.                  *)
(***************************************************************************)
EXTENDS Naturals

CONSTANTS
    Waiters,      \* threads calling wait()
    Notifiers,    \* threads calling notify()
    Modes,        \* the calls waiters make: "infinite" = wait(0), "timed" = wait(ms > 0)
    Increments,   \* the arguments notify() is called with
    MaxPosts,     \* bound: total units all notify() calls may add
    MaxCalls,     \* bound: wait() calls each waiter makes
    Spurious,     \* whether pthread_cond_wait may wake without a signal
    NoOwner

VARIABLES
    count,        \* m_count
    waitOwner,    \* holder of m_waitMutex
    sleeping,     \* threads blocked on m_waitCond
    pc,           \* program counter of each waiter
    mode,         \* mode of each waiter's current call
    cres,         \* cres: result of the cond wait ("ok" or "timedout")
    npc,          \* program counter of each notifier
    left,         \* iterations left in the notify() loop
    posted,       \* units added so far (bounded by MaxPosts)
    calls         \* wait() calls made by each waiter (bounded by MaxCalls)

vars == <<count, waitOwner, sleeping, pc, mode, cres, npc, left, posted, calls>>

WaiterPC == {"idle", "check", "lockWait", "condWait", "blocked", "relock",
             "unlockWait", "recheck"}

TypeOK ==
    /\ count \in Nat
    /\ waitOwner \in Waiters \cup {NoOwner}
    /\ sleeping \subseteq Waiters
    /\ pc \in [Waiters -> WaiterPC]
    /\ mode \in [Waiters -> Modes]
    /\ cres \in [Waiters -> {"ok", "timedout"}]
    /\ npc \in [Notifiers -> {"idle", "incr", "signal"}]
    /\ left \in [Notifiers -> Nat]
    /\ posted \in 0..MaxPosts
    /\ calls \in [Waiters -> 0..MaxCalls]

\* Semaphore(0): the constructor (lines 25-29), with every thread outside.
Init ==
    /\ count = 0
    /\ waitOwner = NoOwner
    /\ sleeping = {}
    /\ pc = [t \in Waiters |-> "idle"]
    /\ mode \in [Waiters -> Modes]
    /\ cres = [t \in Waiters |-> "ok"]
    /\ npc = [n \in Notifiers |-> "idle"]
    /\ left = [n \in Notifiers |-> 0]
    /\ posted = 0
    /\ calls = [t \in Waiters |-> 0]

Goto(t, from, to) == pc[t] = from /\ pc' = [pc EXCEPT ![t] = to]

----------------------------------------------------------------------------
(* wait(milliseconds)                                                      *)

WaitCall(t, m) ==
    /\ calls[t] < MaxCalls
    /\ Goto(t, "idle", "check")
    /\ mode' = [mode EXCEPT ![t] = m]
    /\ calls' = [calls EXCEPT ![t] = @ + 1]
    /\ UNCHANGED <<count, waitOwner, sleeping, cres, npc, left, posted>>

\* Lines 66-71: a unit is there; take it and return true.
WaitTake(t) ==
    /\ Goto(t, "check", "idle")
    /\ count > 0
    /\ count' = count - 1
    /\ UNCHANGED <<waitOwner, sleeping, mode, cres, npc, left, posted, calls>>

\* Lines 66-72: none is there; release m_countMutex and go to sleep.
WaitMiss(t) ==
    /\ Goto(t, "check", "lockWait")
    /\ count = 0
    /\ UNCHANGED <<count, waitOwner, sleeping, mode, cres, npc, left, posted, calls>>

\* Line 74.
WaitLock(t) ==
    /\ Goto(t, "lockWait", "condWait")
    /\ waitOwner = NoOwner
    /\ waitOwner' = t
    /\ UNCHANGED <<count, sleeping, mode, cres, npc, left, posted, calls>>

\* Lines 76-77 and 88: pthread_cond_(timed)wait releases m_waitMutex and
\* blocks, in one step.
CondWait(t) ==
    /\ Goto(t, "condWait", "blocked")
    /\ waitOwner' = NoOwner
    /\ sleeping' = sleeping \cup {t}
    /\ UNCHANGED <<count, mode, cres, npc, left, posted, calls>>

\* Line 88: the deadline passes; pthread_cond_timedwait returns ETIMEDOUT.
TimedOut(t) ==
    /\ Goto(t, "blocked", "relock")
    /\ mode[t] = "timed"
    /\ t \in sleeping
    /\ sleeping' = sleeping \ {t}
    /\ cres' = [cres EXCEPT ![t] = "timedout"]
    /\ UNCHANGED <<count, waitOwner, mode, npc, left, posted, calls>>

\* A spurious wake-up: the cond wait returns 0 with no signal.
SpuriousWake(t) ==
    /\ Spurious
    /\ Goto(t, "blocked", "relock")
    /\ t \in sleeping
    /\ sleeping' = sleeping \ {t}
    /\ cres' = [cres EXCEPT ![t] = "ok"]
    /\ UNCHANGED <<count, waitOwner, mode, npc, left, posted, calls>>

\* The woken cond wait takes m_waitMutex back before it returns.
Relock(t) ==
    /\ Goto(t, "relock", "unlockWait")
    /\ waitOwner = NoOwner
    /\ waitOwner' = t
    /\ UNCHANGED <<count, sleeping, mode, cres, npc, left, posted, calls>>

WaitUnlockKeep(t) ==
    /\ Goto(t, "unlockWait", "recheck")
    /\ UNCHANGED <<count, waitOwner, sleeping, mode, cres, npc, left, posted, calls>>

\* Line 90.
WaitUnlock(t) ==
    /\ Goto(t, "unlockWait", "recheck")
    /\ waitOwner' = NoOwner
    /\ UNCHANGED <<count, sleeping, mode, cres, npc, left, posted, calls>>

RecheckTakeUnguarded(t) ==
    /\ Goto(t, "recheck", "idle")
    /\ cres[t] = "ok"
    /\ count' = count - 1
    /\ UNCHANGED <<waitOwner, sleeping, mode, cres, npc, left, posted, calls>>

\* Lines 92-97: woken, and a unit is there; take it and return true.
RecheckTake(t) ==
    /\ Goto(t, "recheck", "idle")
    /\ cres[t] = "ok"
    /\ count > 0
    /\ count' = count - 1
    /\ UNCHANGED <<waitOwner, sleeping, mode, cres, npc, left, posted, calls>>

\* Lines 99-102: timed out, or woken to find the counter at zero (another
\* thread took the unit, or the wake-up was spurious): return false.
RecheckFail(t) ==
    /\ Goto(t, "recheck", "idle")
    /\ cres[t] = "timedout" \/ count = 0
    /\ UNCHANGED <<count, waitOwner, sleeping, mode, cres, npc, left, posted, calls>>

----------------------------------------------------------------------------
(* notify(increment)                                                       *)

NotifyCall(n, inc) ==
    /\ npc[n] = "idle"
    /\ posted + inc <= MaxPosts
    /\ npc' = [npc EXCEPT ![n] = "incr"]
    /\ left' = [left EXCEPT ![n] = inc]
    /\ posted' = posted + inc
    /\ UNCHANGED <<count, waitOwner, sleeping, pc, mode, cres, calls>>

\* Lines 166-168.
NotifyIncrement(n) ==
    /\ npc[n] = "incr"
    /\ npc' = [npc EXCEPT ![n] = "signal"]
    /\ count' = count + 1
    /\ UNCHANGED <<waitOwner, sleeping, pc, mode, cres, left, posted, calls>>

\* Line 169, then the loop test at 164.
NextRound(n) ==
    /\ left' = [left EXCEPT ![n] = @ - 1]
    /\ npc' = [npc EXCEPT ![n] = IF left[n] = 1 THEN "idle" ELSE "incr"]

\* pthread_cond_signal wakes one sleeper ...
NotifySignalWake(n, w) ==
    /\ npc[n] = "signal"
    /\ w \in sleeping
    /\ sleeping' = sleeping \ {w}
    /\ pc' = [pc EXCEPT ![w] = "relock"]
    /\ cres' = [cres EXCEPT ![w] = "ok"]
    /\ NextRound(n)
    /\ UNCHANGED <<count, waitOwner, mode, posted, calls>>

\* ... or, with nobody asleep on m_waitCond, has no effect at all.
NotifySignalLost(n) ==
    /\ npc[n] = "signal"
    /\ sleeping = {}
    /\ NextRound(n)
    /\ UNCHANGED <<count, waitOwner, sleeping, pc, mode, cres, posted, calls>>

----------------------------------------------------------------------------

Waiter(t) ==
    \/ WaitTake(t) \/ WaitMiss(t) \/ WaitLock(t) \/ CondWait(t)
    \/ TimedOut(t) \/ Relock(t) \/ WaitUnlock(t)
    \/ RecheckTake(t) \/ RecheckFail(t)

Notifier(n) ==
    \/ NotifyIncrement(n)
    \/ \E w \in Waiters : NotifySignalWake(n, w)
    \/ NotifySignalLost(n)

Next ==
    \/ \E t \in Waiters, m \in Modes : WaitCall(t, m)
    \/ \E t \in Waiters : Waiter(t) \/ SpuriousWake(t)
    \/ \E n \in Notifiers, inc \in Increments : NotifyCall(n, inc)
    \/ \E n \in Notifiers : Notifier(n)

\* Every thread that is inside wait() or notify() is eventually scheduled,
\* and a timed wait's deadline eventually passes.  Nobody is forced to call
\* wait() or notify() again, and spurious wake-ups are never forced.  Weak
\* fairness is all a pthread mutex gives: with MaxCalls bounding the calls,
\* a waiter cannot be overtaken on m_waitMutex for ever.
Fairness ==
    /\ \A t \in Waiters : WF_vars(Waiter(t))
    /\ \A n \in Notifiers : WF_vars(Notifier(n))

Spec == Init /\ [][Next]_vars
FairSpec == Spec /\ Fairness

----------------------------------------------------------------------------
(* Refinement: the build as an implementation of CountingSemaphore.        *)

Abs == INSTANCE CountingSemaphore WITH
          apc <- [t \in Waiters |-> IF pc[t] = "idle" THEN "idle" ELSE "waiting"]

\* Every behaviour of the Apple build is one the semaphore contract allows:
\* a unit is only taken when there is one (lines 67-68 and 94-95), and
\* wait() returns false only from a timed call.
Refines == Abs!ASafe

\* No lost wake-up: a thread that sleeps on m_waitCond for good does so only
\* when the counter stays at zero; the increment and the signal of notify()
\* (lines 166-169) never leave a sleeper behind while m_count > 0.
NoLostWakeup == \A t \in Waiters : <>[](t \in sleeping) => <>[](count = 0)

\* A timed wait() always returns: the sleep at line 88 ends by the deadline,
\* and m_waitMutex (lines 74 and 90) is always released again.
TimedWaitReturns == \A t \in Waiters : pc[t] # "idle" ~> pc[t] = "idle"

=============================================================================
