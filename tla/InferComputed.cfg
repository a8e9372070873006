CONSTANTS
  Databases <- OneDatabase
  Queries <- ComputedQuery
  Computed = 0
SPECIFICATION Spec
INVARIANTS
  NullSound
