\* Two processes, two executions of which any may lie outside the decision;
\* one other turn, one crash or failed insert.  No symmetry: liveness.
SPECIFICATION FairSpec
CONSTANTS
  Workers = {w1, w2}
  Executions = {e1, e2}
  MaxTurns = 1
  MaxFaults = 1
INVARIANTS
  WrittenMeansHeld
  MissedIsResumable
PROPERTIES
  DecisionGrows
  PendingRecovered
CHECK_DEADLOCK FALSE
