SPECIFICATION Spec
CONSTANTS
  MaxFiles = 4
  Names <- MCNames
  Files <- MCFiles
  SourceDirs <- MCSourceDirs
  SearchPaths <- MCSearchPaths
INVARIANTS
  CallsMeanTheFirst
  LookupsAgree
  PrivateStaysPrivate
  PackagesFindThemselves
PROPERTIES
  ShadowedComeForward
