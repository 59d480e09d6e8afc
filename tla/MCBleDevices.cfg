SPECIFICATION FairSpec
CONSTANTS
  N = 2
  Addrs = {a1, a2, a3}
  Handles = {0, 1}
INVARIANTS
  TypeOK
  BleInv
  ScanPaused
PROPERTY
  ScanResumes
