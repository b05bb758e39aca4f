SPECIFICATION PrngSpec
CONSTANTS
    Gen = {g, h}
    Seed = {s}
    BlockBytes = 2
    BuffBlocks = 2
    Lengths = {1, 2}
    MaxBytes = 2
    Garbage = {0, 1}
INVARIANTS SameSeedSameStream
CHECK_DEADLOCK FALSE
