SPECIFICATION Spec
CONSTANTS
  Arms = 1
  MCFamilies <- MCContinueInTry
  MCParting = {"continue_in_try"}
  Programs <- MCPrograms
  Codes <- MCCodes
  Sites <- MCSites
  Labels <- MCLabels
  Errors = {"e1"}
  Internal = "internal"
  HostErrors = {}
  NoError = "none"
  MaxLen = 1
  MaxEvents = 5
INVARIANTS
  EnginesAgree
