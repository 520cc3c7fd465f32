CONSTANTS
    Workers = {w1, w2}
    Buckets = {minute, hour}
    Keys = {k1}
    Classes = {ordinary, trusted}
    minute = minute
    hour = hour
    ordinary = ordinary
    trusted = trusted
    Limit <- TwoClasses
    Length <- TwoLengths
    UseApcu = FALSE
    MaxTime = 3
    MaxStall = 2
    MaxCharges = 4
    MaxEvictions = 0
    MaxRefusals = 0
SPECIFICATION Spec
SYMMETRY Symmetry
INVARIANT TypeOK
INVARIANT RetrySuffices
PROPERTY KeepsPromise
CHECK_DEADLOCK FALSE
