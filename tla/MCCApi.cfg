SPECIFICATION CApiSpec
CONSTANTS
    Threads = {t1, t2}
    Ids = {i1, i2}
    NULL = NULL
    Shapes <- MCShapes
    Ladder <- MCLadder
    Runs = {"avx2", "sse2"}
    Forcible = {"avx512", "sse2"}
    MaxDepth = 2
SYMMETRY Symmetry
INVARIANTS
    NoExceptionCrosses
CHECK_DEADLOCK FALSE
