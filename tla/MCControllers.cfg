SPECIFICATION FairSpec
CONSTANTS
  MaxRequests = 2
  Sizes = {0, 9, 11, 18, 22, 24, 30}
INVARIANTS
  CalibrationRight
  RumbleTimers
PROPERTIES
  SetupEnds
