CONSTANTS
    Procs = {p1, p2}
    Resellers = {r1}
    Customers = {c1, c2}
    Plans = {}
    Names = {}
    Services = {"ftpUsers"}
    Limits <- WithheldOrTwo
    MaxUse = 1
    Operations <- ChangesOfLimits
    Failing = {"domain"}
    None = none
SPECIFICATION Spec
SYMMETRY Symmetry
PROPERTY OversoldByOverlap
CHECK_DEADLOCK FALSE
