SPECIFICATION FairRequests
CONSTANTS
  Callers = {loop, btstack}
  Btstack = btstack
  Max = 2
  MaxCalls = 3
  N = 2
  Pending = 2
  MaxControllers = 2
  MaxRequests = 3
INVARIANTS
  NoneLost
  OwnRegistration
  Aimed
PROPERTIES
  AllExecuted
  RequestsTaken
