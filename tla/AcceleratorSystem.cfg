SPECIFICATION AccSpec
CONSTANTS
    StagingRegs <- MCRegs
    Lanes <- MCLanes
    NoPmCommand <- MCZero
    PmCommands = {}
    CounterSize = 3
    TransferAccesses <- MCAccesses
    EngineAccesses <- MCEngineAccesses
INVARIANTS
    AccCredit
    AccAnswers
