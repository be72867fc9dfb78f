\* Two processes, three offers in slices of two, the second malformed; one failed
\* read or write, one crash.  No symmetry: liveness.
SPECIFICATION FairSpec
CONSTANTS
  k1 = k1
  k2 = k2
  Processes = {p1, p2}
  Keys = {k1, k2}
  NoKey = NoKey
  Requests <- some_requests
  Queries <- some_queries
  Records = 3
  Limit = 2
  Malformed = {2}
  MaxAttempts = 2
  MaxRuns = 2
  MaxFaults = 1
  MaxCrashes = 1
INVARIANTS
  NothingSkipped
  HistoryComplete
PROPERTIES
  LettersKept
  RunsEnd
CHECK_DEADLOCK FALSE
