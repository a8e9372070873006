CONSTANTS
  MaxPieces = 1
  Files <- CommentHole
  Tables <- MCTables
  Results <- MCResults
  Values <- MCValues
SPECIFICATION Spec
INVARIANT BoundClientSide
