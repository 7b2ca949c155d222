\* Interrupted semaphore waits in dequeue() and clear(): the counter never
\* falls behind the queue.
CONSTANTS
    p1 = p1
    p2 = p2
    c1 = c1
    c2 = c2
    k1 = k1
    o1 = o1
    NoOwner = NoOwner
    Producers = {p1, p2}
    Consumers = {c1, c2}
    Clearers = {k1}
    Observers = {}
    MaxItems = 5
    Interruptible = TRUE
    Build = "posix"
SPECIFICATION Spec
INVARIANT SemaphoreNeverBehind
\* A consumer that reaches front() on an empty queue is not followed further
\* (undefined behaviour), and consumers block for ever once the items run out.
CHECK_DEADLOCK FALSE
