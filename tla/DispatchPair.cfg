SPECIFICATION Spec
CONSTANTS
    Procs = {p1, p2}
    Attempts = {a1, a2}
    MaxReplies = 2
    NoAttempt = NoAttempt
CONSTRAINT TwoAnswers
SYMMETRY Interchangeable
INVARIANTS TypeOK WriteAhead DeliveredIsReal ResultHasProvenance
PROPERTY ImplementsPostbox
CHECK_DEADLOCK FALSE
