\* Three calls against a limit of two, clocks one tick off either way.
SPECIFICATION Spec
CONSTANTS
  Calls = {c1, c2, c3}
  Limit = 2
  Window = 1
  MaxAttempts = 2
  Skew = 1
  MaxTime = 3
  MaxResets = 1
SYMMETRY CallSymmetry
INVARIANTS
  NeverPastLimit
PROPERTY WindowKept
