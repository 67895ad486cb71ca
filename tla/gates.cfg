CONSTANTS
  arm = arm
  bench = bench
  NotFinite = NotFinite
  Axes <- TwoArms
  Requests <- AllRequests
  Params <- SomeParams
  SdkTimeout = 1
SPECIFICATION FairSpec
INVARIANTS TypeOK RevokedStops SentInRange FramesFit
PROPERTIES StopIsServed
