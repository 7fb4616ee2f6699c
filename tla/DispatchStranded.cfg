SPECIFICATION Spec
CONSTANTS
    Procs = {p1}
    Attempts = {a1, a2, a3}
    MaxReplies = 1
    NoAttempt = NoAttempt
INVARIANT PendingIsReconcilable
CHECK_DEADLOCK FALSE
