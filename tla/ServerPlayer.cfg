SPECIFICATION Spec
CONSTANTS
    FD = {1}
    Addr = {a1, a2}
    PlayerId = {"abc"}
    Delay <- MCDelay
    K = 1
    M = 2
    Points = {0, 2}
    Values = {1}
    CoeffLines = 1
    MaxLines = 4
SYMMETRY AddrSymmetry
PROPERTIES
    ServesSessions
INVARIANTS
    TypeOK
    RestOnlyAtHead
    CoeffFirst
    AnswerLedger
    NewestStateIsCurrent
    ScoringLast
