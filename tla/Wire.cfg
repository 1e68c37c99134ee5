SPECIFICATION Spec
CONSTANTS
    max_fractional_digits = 1
    max_n = 2
    max_k = 1
    max_coeff = 100
    IntBits = 5
    Letters <- MCLetters
    Samples <- MCSamples
    RawSymbols = {" ", "-", ".", "2", "b", "CR"}
    MaxRaw = 5
    MaxSent = 2
INVARIANTS
    Understood
    NoLineWaits
    CanBeSaidAgain
CHECK_DEADLOCK FALSE
