CONSTANTS
    MaxAnonce = 3
    ANonces <- MCANonces
    MaxSnonce = 2
    MaxRc = 8
    g1 = g1
    GKeys = {g1}
    NoKey = NoKey
    Frames <- AllFrames
    PairwiseUpdateCount = 2
    DisableRetries = FALSE
    DenyPtk0Rekey = FALSE
    PtkRekey = TRUE
    Pmf = FALSE
    GroupKdes <- MCKdes
    Faults = {"none", "data", "ie", "key"}
SPECIFICATION FairSpec
INVARIANTS TypeOK NoReinstall NegotiatingHasTimer
PROPERTY HandshakeEnds
CHECK_DEADLOCK FALSE
