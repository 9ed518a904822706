CONSTANTS
    MaxAnonce = 2
    ANonces <- MCANonces
    MaxSnonce = 2
    MaxRc = 5
    g1 = g1
    GKeys = {g1}
    NoKey = NoKey
    NoFrame = NoFrame
    PairwiseUpdateCount = 2
    MaxRequest = 1
    DenyPtk0Rekey = FALSE
    PtkRekey = TRUE
    LateFrames = FALSE
    Roam = TRUE
    Pmf = FALSE
    Kdes <- MCKdes
SPECIFICATION Spec
INVARIANTS SessionKeysAgree
PROPERTY ImplementsAgreement
