CONSTANTS
  Packages <- MCPackages
  InlineParamCount = 2
  UpperName <- MCUpperName
  MaxRows = 2
SPECIFICATION Spec
INVARIANTS
  ChPackageFits
  DispatchesToKey
  BindsCallersValues
  WholeOrError
