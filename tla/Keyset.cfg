CONSTANTS
  null = null
  NULL = null
  Column <- MCColumn
  Row <- MCRow
  SortSpec <- MCSortSpec
  PageSize = 1
  MaxWrites = 1
SPECIFICATION FairSpec
INVARIANTS
  NoRowTwice
  WalkWhole
PROPERTIES
  WalkEnds
