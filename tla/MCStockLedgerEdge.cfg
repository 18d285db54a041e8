SPECIFICATION FairSpec
CONSTANTS
  r1 = r1
  r2 = r2
  r3 = r3
  v1 = v1
  p1 = p1
  Requests <- TwoRequests
  Warehouses <- MCWarehouses
  Variants <- MCVariants
  Products <- MCProducts
  ProductOf <- MCProductOf
  Opening <- MCOpening
  Calls <- MCEdgeCalls
  Policies <- MCPolicies
  MinInt <- MCMinInt
  MaxInt <- MCMaxInt
PROPERTIES
  BookSpec
  EveryRequestEnds
