SPECIFICATION Spec
CONSTANTS
  None = None
  Nonces = {n1, n2, n3, n4, n5, n6, n7}
  IdMod = 4
  RandIds = {3}
  Cap = 1
  MaxStart = 1
  MaxLoop = 100
  MaxSteps = 100
  Outcomes = {"pending", "fail", "COND_SUCC", "UNCOND_SUCC"}
  ReAuthMax = 1
  MaxRetrans = 1
  Verdicts = {"ok", "fail"}
  MaxEvents = 2
INVARIANTS TypeOK SuppQuiescent AnsweredOnce KeyRunFresh KeysAgree ResponseFresh LoopsEnd TickRuns
CHECK_DEADLOCK FALSE
