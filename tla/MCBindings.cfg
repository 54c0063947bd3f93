SPECIFICATION Spec
CONSTANTS
    Threads = {t1, t2}
    Ids = {i1, i2}
    NULL = NULL
    None = None
    Objects = {o1, o2}
    Errors = {e1, e2}
    Hosts = {"c", "python", "napi", "wasm", "julia", "matlab"}
    Main = t1
    Concurrent = {"c", "julia"}
    Shapes <- MCShapes
    Ladder <- MCLadder
    Runs = {"avx2", "sse2"}
    Forcible = {"avx512", "sse2"}
    MaxDepth = 2
SYMMETRY Symmetry
INVARIANTS
    EvaluatorsOwned
    Reported
    TypedAnswers
    RungRuns
    HandlesOwned
    AnswersEvaluated
PROPERTIES
    SurfacesFirstError
CONSTRAINT Bound
CHECK_DEADLOCK FALSE
