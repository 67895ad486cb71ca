CONSTANTS
  Devices = {seven, one}
  NoDevice = NoDevice
  StatusTimer = TRUE
SPECIFICATION FairSpec
INVARIANTS TypeOK OwnFrames
PROPERTIES JointsNamed ReportsSettle
