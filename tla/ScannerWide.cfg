CONSTANTS
  MaxPieces = 1
  Source <- WideDollar
SPECIFICATION Spec
INVARIANT TokenGrammar
