CONSTANTS
    Roots = {m, n}
    Main = m
    Children = {c}
    Tasks = {t1, t2, t3}
    Reporters = {r1, r2}
    Free = Free
    Named = {m, c}
    MaxBuilds = 2
    MaxOps = 3
    MaxMishaps = 1
CHECK_DEADLOCK FALSE
SPECIFICATION Spec
SYMMETRY Callers
INVARIANTS
    OneWriter
    MemoryMatchesFile
    ChildrenGoFirst
    DeletedIsGone
    ReportedOnce
    NeverStuck
