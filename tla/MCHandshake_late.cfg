CONSTANTS
    MaxAnonce = 2
    ANonces <- MCANonces
    MaxSnonce = 3
    MaxRc = 7
    g1 = g1
    GKeys = {g1}
    NoKey = NoKey
    NoFrame = NoFrame
    PairwiseUpdateCount = 3
    MaxRequest = 0
    DenyPtk0Rekey = FALSE
    PtkRekey = FALSE
    LateFrames = TRUE
    Roam = FALSE
    Pmf = TRUE
    Kdes <- MCKdes
SPECIFICATION LateSpec
INVARIANT SessionKeysAgree
