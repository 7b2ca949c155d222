\* One thread in wait(0), one notify(1), no spurious wake-ups.
CONSTANTS
    w1 = w1
    w2 = w2
    n1 = n1
    NoOwner = NoOwner
    Waiters = {w1}
    Notifiers = {n1}
    Modes = {"infinite"}
    Increments = {1}
    MaxPosts = 1
    MaxCalls = 2
    Spurious = FALSE
SPECIFICATION FairSpec
PROPERTY NoLostWakeup
\* Once the one notify is spent the waiter may stay blocked for good.
CHECK_DEADLOCK FALSE
