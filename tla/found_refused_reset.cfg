CONSTANTS
  t1 = t1
  t2 = t2
  a1 = a1
  a2 = a2
  Threads = {t1, t2}
  Sessions = {a1, a2}
  NoSession = NoSession
  Services = {"reset"}
  ParamChoices <- DefaultParams
SPECIFICATION Spec
INVARIANTS RefusedLeavesReset
