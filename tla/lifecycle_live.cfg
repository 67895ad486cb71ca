CONSTANTS
  t1 = t1
  t2 = t2
  a1 = a1
  a2 = a2
  Threads = {t1, t2}
  Sessions = {a1, a2}
  NoSession = NoSession
  Services = {"zero_g_on", "reconnect"}
  ParamChoices <- BadTopicOrNames
SPECIFICATION FairSpec
INVARIANTS SilentUnlessActive
PROPERTIES NothingStarts TransitionsEnd DeactivationQuiesces InterruptEnds
