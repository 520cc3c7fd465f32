CONSTANTS
    Workers = {w1, w2, w3}
    Buckets = {minute}
    Keys = {k1}
    Classes = {ordinary}
    minute = minute
    hour = hour
    ordinary = ordinary
    trusted = trusted
    Limit <- OneHit
    Length <- ShortWindow
    UseApcu = TRUE
    MaxTime = 3
    MaxStall = 3
    MaxCharges = 6
    MaxEvictions = 1
    MaxRefusals = 2
SPECIFICATION Spec
SYMMETRY Symmetry
INVARIANT AllowanceBounded
CHECK_DEADLOCK FALSE
