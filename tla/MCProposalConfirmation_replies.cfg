\* Four replies, two at a time; two proposals, two tries to save, one crash.
SPECIFICATION Spec
CONSTANTS
  Requests = {r1, r2}
  Attempts = 2
  MaxAsks = 4
  MaxProposals = 2
  MaxCrashes = 1
SYMMETRY RequestSymmetry
INVARIANTS
  OneAuthorizationPerProposal
PROPERTIES
  FinalStays
  OneStartPerProposal
CHECK_DEADLOCK FALSE
