CONSTANTS
    Workers = {w1, w2}
    Aliases = {a1}
    Subs = {}
    Names = {n1}
    Acct = acct
    Dmn = dmn
    None = none
    AliasLimit = 0
    SubLimit = 0
    Defaults = TRUE
    Operations <- AllOperations
    MaxLostPokes = 1
SPECIFICATION Spec
SYMMETRY Symmetry
INVARIANT OrdersHaveNoMail
INVARIANT NoStrandedWork
PROPERTY BuiltAliasesLeaveThroughDaemon
PROPERTY OrdersAwaitDecision
CHECK_DEADLOCK FALSE
