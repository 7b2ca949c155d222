\* Two threads, three TcpSocket objects, two free descriptor numbers
\* (0-2 are taken by the standard streams), three operations per thread.
CONSTANTS
    Threads = {t1, t2}
    Objs = {o1, o2, o3}
    t1 = t1
    t2 = t2
    o1 = o1
    o2 = o2
    o3 = o3
    Fds = {3, 4}
    MaxOps = 3
    Free = Free
    NoObj = NoObj
    NoOwner = NoOwner
SPECIFICATION Spec
SYMMETRY Symmetry
INVARIANT NoForeignDescriptorUse
\* Every thread stops after MaxOps calls.
CHECK_DEADLOCK FALSE
