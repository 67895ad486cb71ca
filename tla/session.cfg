CONSTANTS
  Devices = {seven, one}
  NoDevice = NoDevice
  Percents = {40, 101}
SPECIFICATION Spec
INVARIANTS TypeOK LicenseKnown SpeedTracksGovernor
