SPECIFICATION Spec
CONSTANTS
    o1 = o1
    v1 = v1
    Tasks = {t1, t2}
    CodeTasks = {t1}
    Owner <- OwnerOfEach
    Reviewers = {r1}
    Ids = {i1, i2}
    Procs = {p1, p2}
    Versions = {v1, v2}
    NoAssignment = NoAssignment
    NoVersion = NoVersion
    NoProc = NoProc
CONSTRAINTS FewSteps OneAtATime
SYMMETRY Interchangeable
INVARIANTS TypeOK AgentExclusive SubjectRetained
PROPERTIES PrunedWhenClosed ImplementsEngagement
CHECK_DEADLOCK FALSE
