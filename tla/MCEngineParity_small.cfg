SPECIFICATION Spec
CONSTANTS
  Arms = 2
  MCFamilies <- MCSmall
  MCParting = {}
  Programs <- MCPrograms
  Codes <- MCCodes
  Sites <- MCSites
  Labels <- MCLabels
  Errors = {"e1", "e2"}
  Internal = "internal"
  HostErrors = {}
  NoError = "none"
  MaxLen = 2
  MaxEvents = 4
INVARIANTS
  TypeOK
  EnginesAgree
