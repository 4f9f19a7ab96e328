SPECIFICATION VMFairSpec
CONSTANTS
  Arms = 1
  MCFamilies <- MCSmall
  Programs <- MCPrograms
  Codes <- MCCodes
  Sites <- MCSites
  Labels <- MCLabels
  Errors = {"e1"}
  Internal = "internal"
  HostErrors = {"host"}
  NoError = "none"
  MaxLen = 2
INVARIANTS
  VMTypeOK
  HandlersMatch
  EmittedCodeIsDisciplined
  NoInternalError
PROPERTIES
  ErrorsEscapeOnlyUnprotected
  ForLoopsTerminate
