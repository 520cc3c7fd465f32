CONSTANTS
    Procs = {p1, p2}
    Tokens = {t1}
    Customers = {c1}
    Resellers = {r1}
    Limit = 1
    DefaultAllowed = FALSE
    Operations <- AccountOperations
    Outcomes = {}
    MaxTtl = 1
    MaxTime = 0
SPECIFICATION Spec
SYMMETRY Symmetry
INVARIANT ServedWithinAccess
PROPERTY RevokedByRight
