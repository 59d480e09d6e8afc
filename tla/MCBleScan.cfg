SPECIFICATION Spec
CONSTANTS
  N = 1
  Addrs = {a1}
  Handles = {0}
INVARIANT
  ScanNotForgotten
