SPECIFICATION Spec
CONSTANTS
  Calls = {c1, c2, c3}
  Sources = {cam}
  Reasons = {rate_limit, bus_full}
  Tokens = {edge}
  MaxClock = 2
SYMMETRY CallSymmetry
INVARIANTS CountsExact DigestSound
CHECK_DEADLOCK FALSE
