SPECIFICATION StFairSpec
CONSTANTS
    MaxWords = 2
    PageBytes = 8
    SpaceBytes = 256
    ArenaBase = 32
    MaxArenaBytes = 32
    MaxPacket = 4
    Unruly = TRUE
    Descriptors <- MCDescriptors
INVARIANTS
    StGathers
PROPERTIES
    StImplementsClient
    StImplementsMover
    StSettles
