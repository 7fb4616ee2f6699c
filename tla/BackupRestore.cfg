SPECIFICATION Spec
CONSTANTS
    b1 = b1
    f1 = f1
    NumComponents = 3
    FileComponents = {1}
    Files = {f1, k1, s1}
    SecretNamed = {s1}
    CredentialShaped = {k1}
    BackupIds = {b1, b2}
    Procs = {p1, p2}
    NoBackup = NoBackup
CONSTRAINT OneInteresting
SYMMETRY Interchangeable
INVARIANTS TypeOK RestoredIsSound AllOrNothing NoMixture
PROPERTY OthersKept
CHECK_DEADLOCK FALSE
