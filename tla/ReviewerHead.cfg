SPECIFICATION Spec
CONSTANTS
    o1 = o1
    v1 = v1
    Tasks = {t1, t2}
    CodeTasks = {t1}
    Owner <- OwnerOfEach
    Reviewers = {r1}
    Ids = {i1, i2}
    Procs = {p1}
    Versions = {v1, v2}
    NoAssignment = NoAssignment
    NoVersion = NoVersion
    NoProc = NoProc
PROPERTY ReviewerAtSubject
CHECK_DEADLOCK FALSE
