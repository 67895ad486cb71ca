CONSTANTS
  t1 = t1
  t2 = t2
  t3 = t3
  a1 = a1
  a2 = a2
  Threads = {t1, t2, t3}
  Sessions = {a1, a2}
  NoSession = NoSession
  Services = {"enable", "reset", "zero_g_on", "zero_g_off", "reconnect", "get_status"}
  ParamChoices <- TinyRates
SPECIFICATION Spec
SYMMETRY BothSymmetries
INVARIANTS TypeOK CallbackExclusion ArmOwned PortReleased ActiveWasEnabled
PROPERTIES NodeRefined TeardownSilences
