SPECIFICATION Spec
CONSTANTS
    Procs = {p1}
    Attempts = {a1, a2, a3}
    MaxReplies = 1
    NoAttempt = NoAttempt
INVARIANT OneDelivered
CHECK_DEADLOCK FALSE
