\* The three deadline computations that use whole milliseconds, over
\* timeouts around the second boundary and start instants near its end.
CONSTANTS
    Sites = {"semPosix", "sleepApple", "sleepPosix"}
    Millis = {1, 999, 1000, 1001, 1500, 1999, 2000, 65535, 2000000000}
    Nanos = {0, 1000, 500000000, 999000000, 999999000}
SPECIFICATION Spec
INVARIANTS TypeOK DeadlineIsTimeout
\* A run computes one deadline and stops.
CHECK_DEADLOCK FALSE
