SPECIFICATION Spec
CONSTANTS
  r1 = r1
  r2 = r2
  Requests <- TwoRequests
  Calls <- BadFileCalls
  Keys <- MCKeys
  Seeded <- SeededRows
INVARIANT
  BadRowIsIsolated
