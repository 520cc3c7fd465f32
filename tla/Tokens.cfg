CONSTANTS
    Procs = {p1, p2}
    Tokens = {t1, t2}
    Customers = {c1}
    Resellers = {}
    Limit = 1
    DefaultAllowed = FALSE
    Operations <- TokenOperations
    Outcomes <- PasswordOutcomes
    MaxTtl = 1
    MaxTime = 1
SPECIFICATION Spec
SYMMETRY Symmetry
INVARIANT TypeOK
INVARIANT RefusedStaysRefused
INVARIANT WithdrawalSweeps
INVARIANT OverrunBounded
INVARIANT LivenessAgrees
