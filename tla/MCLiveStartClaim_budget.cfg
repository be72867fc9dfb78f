\* One half-open probe that answers late.
SPECIFICATION Spec
CONSTANTS
  Workers = {w1}
  Executions = {e1}
  NoExecution = none
  Threshold = 1
  Window = 2
  ProbeLease = 3
  ClaimLease = 3
  Budget = 2
  Skew = 0
  MaxTime = 5
  MaxVersion = 1
  MaxBreakerRevision = 1
INVARIANT BudgetRefusalBeforeTransport
