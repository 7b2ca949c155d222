\* Every Variant type, pushed, popped, reset and reloaded complete or cut,
\* and received arrays that no pushValue writes.
CONSTANTS
    Values <- MCValues
    Garbled <- MCGarbled
    Garbage = Garbage
    MaxBytes = 8
SPECIFICATION Spec
INVARIANT CursorInBounds
PROPERTY DecodeFaithful
