\* Two threads in timed waits, one notifier calling notify(1) or notify(2),
\* spurious wake-ups allowed.
CONSTANTS
    w1 = w1
    w2 = w2
    n1 = n1
    NoOwner = NoOwner
    Waiters = {w1, w2}
    Notifiers = {n1}
    Modes = {"timed"}
    Increments = {1, 2}
    MaxPosts = 2
    MaxCalls = 2
    Spurious = TRUE
SPECIFICATION FairSpec
INVARIANT TypeOK
PROPERTY TimedWaitReturns
\* Each waiter makes MaxCalls calls and then stops.
CHECK_DEADLOCK FALSE
