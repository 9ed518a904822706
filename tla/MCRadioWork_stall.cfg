SPECIFICATION Spec
CONSTANTS
  Ifaces = {w0}
  None = None
  MaxActive = 2
  MaxQueue = 2
  MaxAdds = 2
  Envs <- StallEnvs
INVARIANT CallbackCalled
CHECK_DEADLOCK FALSE
