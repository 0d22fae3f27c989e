SPECIFICATION Spec
CONSTANTS
  Session = {s1, s2}
  ResetToken = {k1, k2, k3}
  Handler = {h1, h2}
  NoRequest = NoRequest
  MaxRotations = 2
  MaxResets = 2
  ResetLimit = 1
SYMMETRY Symmetry
INVARIANTS
  UsedOnce
PROPERTIES
  ImplementsTokenChain
CHECK_DEADLOCK FALSE
