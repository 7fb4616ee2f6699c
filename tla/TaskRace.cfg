SPECIFICATION Spec
CONSTANTS
    t1 = t1
    a1 = a1
    v1 = v1
    Tasks = {t1, t2}
    Agents = {a1, a2}
    Writers = {w1, w2}
    Versions = {v1}
    MaxActive = 2
    MaxReviews = 0
    NoTask = NoTask
    NoVersion = NoVersion
CONSTRAINT AdmissionOnly
INVARIANT WipLimit
CHECK_DEADLOCK FALSE
