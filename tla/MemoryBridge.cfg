SPECIFICATION BrFairSpec
CONSTANTS
    MaxWords = 2
    PageBytes = 8
    SpaceBytes = 64
    ArenaBase = 32
    MaxArenaBytes = 16
    CacheEntries = 1
    a = a
    b = b
    none = none
    Commands = {}
    Words = {a, b}
    NoWord = none
    Requests <- MCRequests
    Configs <- MCConfigs
    PageTables <- MCPageTables
INVARIANTS
    BrConfined
    BrHonest
    AxiDrained
PROPERTIES
    BrAnswers
    BrImplementsPort
    AxiOffersStand
