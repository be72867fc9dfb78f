\* Two logins at once, clocks one tick off either way; no symmetry: liveness.
SPECIFICATION Spec
CONSTANTS
  Attempts = {a1, a2}
  Threshold = 2
  Duration = 3
  Retention = 2
  MaxAttempts = 2
  Skew = 1
  MaxTime = 3
  MaxGuesses = 4
INVARIANTS
  LateGuessesBounded
  CountsEveryFailure
PROPERTIES
  MemoryKept
  LoginsAnswered
CHECK_DEADLOCK FALSE
