SPECIFICATION LiveSpec
CONSTANTS
    Procs = {p1}
    Attempts = {a1, a2, a3}
    MaxReplies = 2
    NoAttempt = NoAttempt
INVARIANT OneUnsettled
PROPERTY UnknownResolves
CHECK_DEADLOCK FALSE
