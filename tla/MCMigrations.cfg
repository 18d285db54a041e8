SPECIFICATION Spec
CONSTANTS
  u1 = u1
  u2 = u2
  p1 = p1
  Users <- MCUsers
  Products <- MCProducts
  MaxCrashes = 1
INVARIANTS
  TypeOK
  HeadIsModels
  RevisionTellsSchema
  RunsFailOnlyInUse
  OwnerMayDoAll
PROPERTIES
  RolesAreKept
