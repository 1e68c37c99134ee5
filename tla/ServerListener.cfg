SPECIFICATION Spec
CONSTANTS
    FD = {1, 2}
    Addr = {a1, a2}
    PlayerId = {"Ab"}
    Delay <- MCDelay
    K = 1
    M = 2
    Points = {0}
    Values = {1}
    CoeffLines = 1
    MaxLines = 3
SYMMETRY AddrSymmetry
INVARIANTS
    WriteTargetConnected
