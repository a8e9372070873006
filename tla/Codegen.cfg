CONSTANTS
  Catalog <- MCCatalog
  FileLists <- MCFileLists
  InlineParamCount = 1
SPECIFICATION Spec
INVARIANTS
  PackageFits
  OutputsDistinct
  DiskFollowsEmission
