SPECIFICATION Spec
CONSTANTS
    Procs = {p1, p2}
    Revisions = {r1, r2}
    Snapshots = {s1, s2}
    NoRevision = NoRevision
    Mixed = Mixed
INVARIANTS TypeOK MetadataHonest RestorePointFirst WorkloadUnderIsolation
PROPERTY CatalogFollowsCluster
CONSTRAINT OneApplies
SYMMETRY Interchangeable
CHECK_DEADLOCK FALSE
