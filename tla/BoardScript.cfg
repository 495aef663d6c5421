CONSTANTS
    Rounds = 3
    MaxInterrupts = 1
SPECIFICATION BoardSpec
INVARIANTS
    BoardEvidence
    BoardMemory
