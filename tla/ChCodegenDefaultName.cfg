CONSTANTS
  Packages <- DefaultName
  InlineParamCount = 2
  UpperName <- MCUpperName
  MaxRows = 2
SPECIFICATION Spec
INVARIANT DeclaredOnce
