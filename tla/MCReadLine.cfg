\* An accepted socket (receive timeout set) whose peer may close after its
\* bytes; sizes below, at and above the line lengths.
CONSTANTS
    cr = cr
    lf = lf
    nul = nul
    CR <- cr
    LF <- lf
    NUL <- nul
    Inputs <- MCInputs
    Sizes = {1, 2, 3}
    RecvTimeout = TRUE
    PeerMayClose = TRUE
    MaxEofReads = 2
SPECIFICATION Spec
INVARIANT LineIsFirstLine

\* readLine returns once, and then there is nothing more to do.
CHECK_DEADLOCK FALSE
