SPECIFICATION FairSpec
CONSTANTS
  Ifaces = {w0, w1}
  None = None
  MaxActive = 2
  MaxQueue = 3
  MaxAdds = 3
  Envs <- MCEnvs
INVARIANTS TypeOK ActiveCount WorkPointers RadioShared NoStall
PROPERTY Drains
CHECK_DEADLOCK FALSE
