\* Three imports of files of up to two rows, one after another or at once; one
\* crash; the comparison lists one offer.
SPECIFICATION Spec
CONSTANTS
  row1 = row1
  row2 = row2
  bad = bad
  odd = odd
  f1 = f1
  f2 = f2
  k1 = k1
  Processes = {p1, p2}
  Contents = {row1, row2, bad, odd}
  Invalid = {bad}
  Unpriced = {odd}
  Listing = 1
  Files = {f1, f2}
  Keys = {k1}
  NoKey = NoKey
  Requests <- some_requests
  Payloads <- short_files
  MaxImports = 3
  MaxCrashes = 1
INVARIANTS
  KnownAgain
  AcceptedMeansStored
CHECK_DEADLOCK FALSE
