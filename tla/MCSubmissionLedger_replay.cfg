\* Two requests with one key, two payloads; clocks one tick off either way.
\* Liveness needs the unreduced state space, so no symmetry.
SPECIFICATION LiveSpec
CONSTANTS
  Requests = {r1, r2}
  Prints = {p1, p2}
  NoPrint = none
  Horizon = 1
  Retention = 2
  Skew = 1
  MaxTime = 4
  MaxRuns = 2
INVARIANTS
  LedgerInv
  ReplayMatchesPayload
PROPERTIES
  SpacedExecutions
  ProcessingEnds
