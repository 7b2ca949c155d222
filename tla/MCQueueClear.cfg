\* Two producers, two consumers, a thread calling clear() and one calling
\* head() or count().
CONSTANTS
    p1 = p1
    p2 = p2
    c1 = c1
    c2 = c2
    k1 = k1
    o1 = o1
    NoOwner = NoOwner
    Producers = {p1, p2}
    Consumers = {c1, c2}
    Clearers = {k1}
    Observers = {o1}
    MaxItems = 5
    Interruptible = FALSE
    Build = "win"
SPECIFICATION Spec
INVARIANT SemaphoreTracksLength
INVARIANT ValueNeverAhead
INVARIANT NoPopOnEmpty
\* Consumers block for ever once the items run out, and clear() can block
\* for ever holding the mutex (run queue_clear_hangs): the program stops.
CHECK_DEADLOCK FALSE
