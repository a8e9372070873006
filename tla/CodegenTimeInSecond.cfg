CONSTANTS
  Catalog <- MCCatalog
  FileLists <- TimeInSecond
  InlineParamCount = 1
SPECIFICATION Spec
INVARIANT
  ImportsExact
