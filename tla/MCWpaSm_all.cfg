CONSTANTS
    ANonces = {a1}
    MaxSnonce = 2
    MaxRc = 3
    g1 = g1
    g2 = g2
    GKeys = {g1, g2}
    NoKey = NoKey
    NoFrame = NoFrame
    Frames <- AllFrames
    MaxRequest = 1
    Confs <- BothConfs
    PtkRekey = TRUE
    Roam = FALSE
    Faults = {"none", "decrypt", "data", "oci", "ptk", "tx", "send", "gtk", "igtk", "bigtk", "keyid"}
SPECIFICATION FairSpec
INVARIANTS TypeOK NoReinstall InstalledInDriver GroupInDriver RekeyTimerHasPtk GroupAfterFourWay
PROPERTIES ReplayMonotone AssocSettles
