CONSTANTS
  null = null
  NULL = null
  Column <- MCColumn
  Row <- MCRow
  SortSpec <- SingleNullable
  PageSize = 1
  MaxWrites = 0
SPECIFICATION Spec
INVARIANT NoRowTwice
