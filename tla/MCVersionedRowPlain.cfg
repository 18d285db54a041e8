SPECIFICATION PlainSpec
CONSTANTS
  r1 = r1
  r2 = r2
  r3 = r3
  r4 = r4
  Requests <- FourRequests
  Columns <- PlainColumns
  NameColumns <- NoNameColumns
  Values <- VariantValues
  Calls <- PlainCalls
  InitialFields <- PlainFields
SYMMETRY RequestSymmetry
INVARIANTS
  EveryColumnLands
  StaleOnlyBehindPlainWrite
