\* One account, two requests; the operations of each scene.
SPECIFICATION SceneSpec
CONSTANTS
  Requests = {r1, r2}
  Ops <- AllOps
  Sessions = {s1, s2}
  Resets = {k1}
  Verifications = {v1}
  Changes = {c1, c2}
  Watchlists = {w1}
  Emails = {e1, e2}
  First = e1
  Expiring = {s1, s2, k1, c1, c2}
SYMMETRY IdSymmetry
INVARIANTS
  TokenSpentForEffect
  VerifiedMeansProven
  NoticeOnce
  DeletionLeavesNothing
PROPERTIES
  ChangeAfterRevoke
CHECK_DEADLOCK FALSE
