CONSTANTS
  Catalog <- MCCatalog
  FileLists <- NullableMany
  InlineParamCount = 1
SPECIFICATION Spec
INVARIANT
  NullScannable
