SPECIFICATION FairSpec
CONSTANTS
    FD = {1}
    Addr = {a1}
    PlayerId = {"Ab"}
    Delay <- MCDelay
    K = 1
    M = 2
    Points = {0}
    Values = {1, 6}
    CoeffLines = 2
    MaxLines = 4
PROPERTIES
    SilentClientLeaves
    PutAnswered
    GameRestarts
