SPECIFICATION Spec
CONSTANTS
  r1 = r1
  r2 = r2
  r3 = r3
  r4 = r4
  Requests <- ThreeRequests
  Columns <- VariantColumns
  NameColumns <- VariantNameColumns
  Values <- VariantValues
  Calls <- VariantCalls
  InitialFields <- VariantFields
INVARIANTS
  StaleIsRefused
  ConflictIsReal
  NameAgrees
PROPERTY
  EditsSpec
