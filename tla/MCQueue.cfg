\* Two producers and two consumers, no clear(): the wake-up path.
CONSTANTS
    p1 = p1
    p2 = p2
    c1 = c1
    c2 = c2
    k1 = k1
    o1 = o1
    NoOwner = NoOwner
    Producers = {p1, p2}
    Consumers = {c1, c2}
    Clearers = {}
    Observers = {}
    MaxItems = 5
    Interruptible = FALSE
    Build = "posix"
SPECIFICATION FairSpec
INVARIANT TypeOK
INVARIANT NoPopOnEmpty
PROPERTY NoStrandedItems
\* Once MaxItems items are delivered every consumer blocks in sem_wait for
\* ever: dequeue() has no timeout or cancellation, so the program stops.
CHECK_DEADLOCK FALSE
