SPECIFICATION Spec
CONSTANTS
    t1 = t1
    a1 = a1
    v1 = v1
    Tasks = {t1, t2, t3}
    Agents = {a1, a2, a3}
    Writers = {w1, w2}
    Versions = {v1, v2}
    MaxActive = 2
    MaxReviews = 2
    NoTask = NoTask
    NoVersion = NoVersion
CONSTRAINTS AdmissionOrOneTask Undisturbed
SYMMETRY Processes
INVARIANTS TypeOK AcceptedByReview ClosureJustified ProjectionsFollowRecord WipLimit
PROPERTIES LifecycleSteps ImplementsDelivery
CHECK_DEADLOCK FALSE
