SPECIFICATION HsSpec
CONSTANTS
    Transfers = {"Gemm", "Sfpu"}
    Leaves = {"Leaf"}
    NoJob = "NoJob"
    SeqSize = 3
    MaxContext = 3
    Prompts = {1, 2}
    Generations = {1, 2}
    MaxCalls = 4
INVARIANT HsReport
PROPERTIES
    HsImplementsCalls
    HsFinishes
