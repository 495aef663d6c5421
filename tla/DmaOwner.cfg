SPECIFICATION DmaSpec
CONSTANTS
    PageCount = 3
    Frames = {"f1", "f2", "f3"}
    NoFrame = "none"
\* A device closed without a drain is stuck for good: that is its contract.
CHECK_DEADLOCK FALSE
INVARIANTS
    DmaTablesAgree
    DmaCoherent
PROPERTIES
    DmaResetsDrained
    DmaFailsClosed
    DmaImplementsArena
