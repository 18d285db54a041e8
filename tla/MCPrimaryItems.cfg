SPECIFICATION Spec
CONSTANTS
  r1 = r1
  r2 = r2
  r3 = r3
  g1 = g1
  g2 = g2
  g3 = g3
  NoCode = NoCode
  Requests <- MCRequests
  Given <- MCGiven
  GivenItems <- MCGivenItems
  KeyOrder <- MCKeyOrder
  Owners <- MCOwners
  Calls <- MCCalls
INVARIANTS
  TwoPrimariesOverlapped
  NoLockCycle
PROPERTIES
  PrimaryIsReplaced
