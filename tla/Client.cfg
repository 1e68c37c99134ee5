SPECIFICATION FairSpec
CONSTANTS
    PlayerId = {"me"}
    K = 2
    Points = {3}
    Values = {1}
    Coeffs <- MCCoeffs
    IntBits = 8
    MaxPuts = 2
INVARIANTS
    TypeOK
    NeverPenalized
    PutsCounted
    CopyMatchesServer
    LogsPrinted
PROPERTIES
    BestPutTaken
    PlaysOn
    ClientEnds
