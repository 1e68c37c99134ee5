SPECIFICATION RoundSpec
CONSTANTS
    FD = {1}
    Addr = {a1, a2}
    PlayerId = {"Ab"}
    Delay <- MCDelay
    K = 1
    M = 2
    Points = {0}
    Values = {1}
    CoeffLines = 2
    MaxLines = 4
SYMMETRY AddrSymmetry
INVARIANTS
    EndsAfterMPuts
