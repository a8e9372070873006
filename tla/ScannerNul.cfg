CONSTANTS
  MaxPieces = 1
  Source <- NulFile
SPECIFICATION Spec
INVARIANT TokensAdvance
