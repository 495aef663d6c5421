SPECIFICATION AlSpec
CONSTANTS
    Addrs = {1, 2}
    Words = {1, 2}
    Concurrent = TRUE
INVARIANT AlOneOutstanding
