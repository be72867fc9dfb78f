\* Two prepared executions behind a breaker that has just opened.
SPECIFICATION ProbeSpec
CONSTANTS
  Workers = {w1, w2}
  Executions = {e1, e2}
  NoExecution = none
  Threshold = 1
  Window = 1
  ProbeLease = 2
  ClaimLease = 2
  Budget = 1
  Skew = 0
  MaxTime = 3
  MaxVersion = 1
  MaxBreakerRevision = 3
SYMMETRY ProbeSymmetry
INVARIANT BreakerInv
PROPERTIES
  ProbeLeaseRespected
  OpenNeverClosesDirectly
