CONSTANTS
  OID <- MCOID
  Kind <- MCKind
  Child <- MCChild
  Request <- MCRequest
SPECIFICATION Spec
INVARIANTS
  ReturnsRequested
  CacheSound
  LookupsSucceed
