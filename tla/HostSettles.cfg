CONSTANTS
    Workers = {w1}
    Aliases = {a1}
    Subs = {s1}
    Names = {n1, n2}
    Acct = acct
    Dmn = dmn
    None = none
    AliasLimit = 0
    SubLimit = 0
    Defaults = TRUE
    Operations <- VerbOperations
    MaxLostPokes = 0
SPECIFICATION FairSpec
PROPERTY EventuallySettled
CHECK_DEADLOCK FALSE
