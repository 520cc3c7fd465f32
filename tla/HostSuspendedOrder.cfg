CONSTANTS
    Workers = {w1}
    Aliases = {a1}
    Subs = {}
    Names = {n1}
    Acct = acct
    Dmn = dmn
    None = none
    AliasLimit = 0
    SubLimit = 0
    Defaults = TRUE
    Operations <- SuspensionOperations
    MaxLostPokes = 0
SPECIFICATION Spec
SYMMETRY Symmetry
PROPERTY OnlyApprovalProvisions
CHECK_DEADLOCK FALSE
