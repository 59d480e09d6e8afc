SPECIFICATION Spec
CONSTANTS
  N = 2
  Addrs = {a1, a2}
  Ds4 = {a1}
  ByName = {a2}
  Callers = {a2}
  Eager = FALSE
INVARIANTS
  TypeOK
  OnePlace
  PlacesKept
  SeatsMatch
