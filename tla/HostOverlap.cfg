CONSTANTS
    Workers = {w1, w2}
    Aliases = {a1, a2}
    Subs = {s1}
    Names = {n1, n2}
    Acct = acct
    Dmn = dmn
    None = none
    AliasLimit = 1
    SubLimit = 0
    Defaults = TRUE
    Operations <- OverlapOperations
    MaxLostPokes = 0
    MaxHosts = 2
SPECIFICATION OverlapSpec
SYMMETRY Symmetry
INVARIANT TypeOK
INVARIANT NamesDoubledByOverlap
INVARIANT HostTablesByOverlap
PROPERTY PendingWrittenByOverlap
PROPERTY LimitPassedByOverlap
CHECK_DEADLOCK FALSE
