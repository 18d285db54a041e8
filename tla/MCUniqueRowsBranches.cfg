SPECIFICATION Spec
CONSTANTS
  r1 = r1
  r2 = r2
  Requests <- TwoRequests
  Calls <- BranchCalls
  Keys <- MCKeys
  Seeded <- CleanRows
INVARIANT
  BranchCodesDiffer
