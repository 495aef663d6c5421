SPECIFICATION GmFairSpec
CONSTANTS
    MaxM = 3
    MaxN = 2
    MaxK = 3
    NarrowK = 2
    EnableWide = TRUE
    PhysicalRows = 2
    KPerWord = 2
    Groups = 2
    RowWords = 1
    PipeDepth = 3
    Shapes <- GemmDescriptors
    MaxSubmits = 3
INVARIANTS
    GmResults
PROPERTIES
    GmImplementsEngine
    GmServes
