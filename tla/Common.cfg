SPECIFICATION Spec
CONSTANTS
    Producer = {p, q}
    Node = {n1, n2, n3, n4}
    NULL = NULL
    MaxItem = 2
    Gen = {g, h}
    Seed = {s, t}
    BlockBytes = 2
    BuffBlocks = 2
    Lengths = {1, 2, 5}
    MaxBytes = 7
    Garbage = {0, 1}
    Starts <- StartRange
    Thresholds <- ThresholdRange
INVARIANTS OutInOrder NodesSafe StreamKept BinFits
CHECK_DEADLOCK FALSE
