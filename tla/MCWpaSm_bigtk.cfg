CONSTANTS
    ANonces = {a1}
    MaxSnonce = 2
    MaxRc = 3
    g1 = g1
    g2 = g2
    GKeys = {g1, g2}
    NoKey = NoKey
    NoFrame = NoFrame
    Frames <- AllFrames
    MaxRequest = 1
    Confs <- RsnConf
    PtkRekey = FALSE
    Roam = FALSE
    Faults = {"none"}
SPECIFICATION Spec
INVARIANT KeysDropped
