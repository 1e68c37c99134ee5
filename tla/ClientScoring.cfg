SPECIFICATION Spec
CONSTANTS
    PlayerId = {"me"}
    K = 2
    Points = {3}
    Values = {1}
    Coeffs <- MCCoeffs
    IntBits = 8
    MaxPuts = 1
INVARIANTS
    ScoringNotDropped
