\* Both builds, with and without asserts: a client that starts, may poll, terminate
\* and join, then destroys; run() has a cancellation point.
CONSTANTS
    Runner = Runner
    Client = Client
    NoOwner = NoOwner
    MaxPolls = 2
    Builds = {"posix", "win"}
    AssertModes = {FALSE, TRUE}
    RunCancellable = TRUE
    MayTerminate = TRUE
    DestroyUnstarted = FALSE
SPECIFICATION Spec
INVARIANT FlagClearedOnExit
PROPERTIES JoinReturns IsRunningReturns StartedRuns
\* The client makes finitely many calls and then stops.
CHECK_DEADLOCK FALSE
