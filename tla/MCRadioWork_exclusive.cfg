SPECIFICATION Spec
CONSTANTS
  Ifaces = {w0}
  None = None
  MaxActive = 2
  MaxQueue = 3
  MaxAdds = 3
  Envs <- PlainEnvs
INVARIANT RadioExclusive
CHECK_DEADLOCK FALSE
