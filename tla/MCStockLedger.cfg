SPECIFICATION Spec
CONSTANTS
  r1 = r1
  r2 = r2
  r3 = r3
  v1 = v1
  p1 = p1
  Requests <- MCRequests
  Warehouses <- MCWarehouses
  Variants <- MCVariants
  Products <- MCProducts
  ProductOf <- MCProductOf
  Opening <- MCOpening
  Calls <- MCCalls
  Policies <- MCPolicies
  MinInt <- MCMinInt
  MaxInt <- MCMaxInt
SYMMETRY RequestSymmetry
INVARIANTS
  LedgerExplainsBalance
  AllOrNothing
  NegativeOnlyByPolicy
  InsufficientIsCurrent
  NoLockCycle
  StockConserved
