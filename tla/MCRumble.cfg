SPECIFICATION Spec
CONSTANTS
  MaxRequests = 1
  Sizes = {0, 24}
INVARIANTS
  StopsInProgress
