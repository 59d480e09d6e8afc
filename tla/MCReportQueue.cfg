SPECIFICATION FairSpec
CONSTANTS
  Size = 3
  MaxReports = 7
  MaxCid = 4
INVARIANTS
  SomeoneWaits
  QueueInv
PROPERTIES
  LineSpec
  QueueDrains
