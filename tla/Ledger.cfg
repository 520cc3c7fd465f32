CONSTANTS
    Procs = {p1, p2}
    Resellers = {r1}
    Customers = {c1}
    Plans = {h1, h2}
    Names = {n1}
    Services = {"sqlDatabases"}
    Limits <- WithheldOrOne
    MaxUse = 2
    Operations <- WithoutResellerUpdate
    Failing = {"admin", "domain"}
    None = none
SPECIFICATION Spec
SYMMETRY Symmetry
INVARIANT TypeOK
PROPERTY OverusedByOverlap
PROPERTY OrphanedByOverlap
PROPERTY NamesakesByOverlap
PROPERTY CountersFollow
PROPERTY DeletionStands
CHECK_DEADLOCK FALSE
