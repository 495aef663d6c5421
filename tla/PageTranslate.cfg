SPECIFICATION TrSpec
CONSTANTS
    MaxWords = 3
    PageBytes = 16
    SpaceBytes = 128
    ArenaBase = 64
    MaxArenaBytes = 48
    CacheEntries = 2
    Requests <- MCRequests
    Configs <- MCConfigs
    PageTables <- MCPageTables
INVARIANT TrCorrect
