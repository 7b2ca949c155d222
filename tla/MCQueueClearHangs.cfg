\* clear() racing a dequeue() that has already passed the semaphore.
CONSTANTS
    p1 = p1
    p2 = p2
    c1 = c1
    c2 = c2
    k1 = k1
    o1 = o1
    NoOwner = NoOwner
    Producers = {p1}
    Consumers = {c1, c2}
    Clearers = {k1}
    Observers = {}
    MaxItems = 5
    Interruptible = FALSE
    Build = "posix"
SPECIFICATION FairSpec
PROPERTY ClearReturns
\* The hang is a state with no successor; it is checked as a liveness
\* violation of ClearReturns rather than reported as a deadlock.
CHECK_DEADLOCK FALSE
