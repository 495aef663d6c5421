SPECIFICATION Spec
CONSTANTS
    Operands <- MCOperands
    BadOperand = Bad
    Stale = Stale
    NoRequest = NoRequest
    Error = Error
    Counts = 2
    MaxFaults = 1
    Tokens = {1, 2}
    Fed = {1}
    Capacity = 3
    Block = 1
    Jobs <- MCJobs
    Argmax <- MCArgmax
    MaxOps = 2
CHECK_DEADLOCK FALSE
INVARIANTS
    DrvInStep
    RtCacheSound
PROPERTIES
    DrvBuffersQuiet
    DrvImplementsSession
