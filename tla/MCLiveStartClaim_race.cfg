\* One execution, two workers whose clocks may be one tick off either way;
\* another turn of the conversation may write once.
SPECIFICATION Spec
CONSTANTS
  Workers = {w1, w2}
  Executions = {e1}
  NoExecution = none
  Threshold = 1
  Window = 2
  ProbeLease = 2
  ClaimLease = 2
  Budget = 1
  Skew = 1
  MaxTime = 3
  MaxVersion = 2
  MaxBreakerRevision = 0
SYMMETRY WorkerSymmetry
INVARIANTS
  ConsumedWithClaim
  ClaimInv
  AtMostOnePost
PROPERTIES
  LeaseRespected
  StaleCapabilityRejected
  OneLogicalExecution
