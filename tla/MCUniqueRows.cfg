SPECIFICATION FairSpec
CONSTANTS
  r1 = r1
  r2 = r2
  Requests <- TwoRequests
  Calls <- AllCalls
  Keys <- MCKeys
  Seeded <- SeededRows
INVARIANTS
  OneRowPerKey
  GroupsAreWhole
  ReportIsTrue
PROPERTY
  EveryRequestEnds
