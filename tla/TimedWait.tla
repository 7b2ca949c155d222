----------------------------- MODULE TimedWait -----------------------------
(***************************************************************************)
(* The absolute deadlines ucxx computes for pthread_cond_timedwait and     *)
(* sem_timedwait: "now" read from the clock, plus a timeout given in       *)
(* milliseconds, normalised to a timespec <<tv_sec, tv_nsec>>.  The same   *)
(* computation is written four times:                                      *)
(*   "semApple"   Semaphore::wait, __APPLE__   (src/Semaphore.cpp 79-86)    *)
(*   "semPosix"   Semaphore::wait, POSIX       (src/Semaphore.cpp 113-118)  *)
(*   "sleepApple" Thread::sleep, __APPLE__     (src/Thread.cpp 140-153)     *)
(*   "sleepPosix" Thread::sleep, POSIX         (src/Thread.cpp 147-153)     *)
(* The Apple sites read gettimeofday (microseconds), the POSIX ones        *)
(* clock_gettime (nanoseconds); the start instants used here are whole     *)
(* microseconds, so both clocks read the same instant.  All intermediate   *)
(* values stay below 2^31, so no width is lost in TLC or in a 32-bit long. *)
(***************************************************************************)
EXTENDS Integers

CONSTANTS
    Sites,      \* which of the four computations are run
    Millis,     \* timeouts passed in (unsigned int milliseconds)
    Nanos       \* tv_nsec of the starting instant (whole microseconds)

VARIABLES
    clock,      \* the instant the code reads: <<tv_sec, tv_nsec>>
    site,       \* the site computing a deadline
    ms,         \* the timeout it was given
    deadline    \* the timespec it computed, or NoDeadline before that

vars == <<clock, site, ms, deadline>>

Billion == 1000000000
NoDeadline == <<-1, -1>>

NormaliseNoCarry(sec, nsec) == <<sec, nsec>>

\* ts.tv_sec += ts.tv_nsec / 1000000000; ts.tv_nsec %= 1000000000;
Normalise(sec, nsec) == <<sec + nsec \div Billion, nsec % Billion>>

\* Semaphore.cpp 82-86: tv_usec * 1000 + (milliseconds % 1000) * 1000.
SemAppleDeadline(c, m) ==
    LET tvUsec == c[2] \div 1000
    IN  Normalise(c[1] + m \div 1000, tvUsec * 1000 + (m % 1000) * 1000)

\* Semaphore.cpp 114-118.
SemPosixDeadline(c, m) ==
    Normalise(c[1] + m \div 1000, c[2] + (m % 1000) * 1000000)

SleepPosixDeadlineMicro(c, m) ==
    Normalise(c[1] + m \div 1000, c[2] + (m % 1000) * 1000)

\* Thread.cpp 141-145, 152-153.
SleepAppleDeadline(c, m) ==
    LET tvUsec == c[2] \div 1000
    IN  Normalise(c[1] + m \div 1000, tvUsec * 1000 + (m % 1000) * 1000000)

\* Thread.cpp 147-149, 152-153.
SleepPosixDeadline(c, m) ==
    Normalise(c[1] + m \div 1000, c[2] + (m % 1000) * 1000000)

DeadlineAt(s, c, m) ==
    CASE s = "semApple"   -> SemAppleDeadline(c, m)
      [] s = "semPosix"   -> SemPosixDeadline(c, m)
      [] s = "sleepApple" -> SleepAppleDeadline(c, m)
      [] s = "sleepPosix" -> SleepPosixDeadline(c, m)

TypeOK ==
    /\ clock \in (Nat \X Nanos)
    /\ site \in Sites
    /\ ms \in Millis
    /\ deadline \in {NoDeadline} \cup (Nat \X (0..(Billion - 1)))

Init ==
    /\ clock \in {1} \X Nanos
    /\ site \in Sites
    /\ ms \in Millis
    /\ deadline = NoDeadline

\* The site reads the clock and computes the deadline it will wait until.
Arm ==
    /\ deadline = NoDeadline
    /\ deadline' = DeadlineAt(site, clock, ms)
    /\ UNCHANGED <<clock, site, ms>>

Next == Arm

\* Once armed, nothing more happens.
Spec == Init /\ [][Next]_vars

\* The deadline is exactly the timeout after the instant read: its distance
\* from the start is ms milliseconds, so a timed Semaphore::wait or a
\* Thread::sleep lasts as long as it was asked to.
DeadlineIsTimeout ==
    deadline # NoDeadline =>
        LET dns == deadline[2] - clock[2]
        IN  /\ dns % 1000000 = 0
            /\ (deadline[1] - clock[1]) * 1000 + dns \div 1000000 = ms

=============================================================================
