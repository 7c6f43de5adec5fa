SPECIFICATION Spec
CONSTANTS
    Atoms = {a}
    NoAtom = none
    MaxInt = 15
    Width = 64
    Samples <- MCSamples
    Replacements = {0, 1, 2, 3, 11}
INVARIANTS
    RoundTrip
    NothingBrokenArrives
    TargetStaysWellFormed
\* an exchange ends
CHECK_DEADLOCK FALSE
