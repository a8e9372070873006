CONSTANTS
  Databases <- TwoDatabases
  Queries <- MCQueries
  Computed = 0
SPECIFICATION Spec
INVARIANTS
  ColumnsAreCatalogs
  TableColumnsNullSound
