SPECIFICATION Spec
CONSTANTS
    Procs = {p1, p2}
    Tasks = {t1, t2}
    NumGrants = 2
    NoTask = NoTask
INVARIANT TypeOK
PROPERTIES KeepsWhatItFound RegistryTruthful
CONSTRAINT OneCommand
SYMMETRY Interchangeable
