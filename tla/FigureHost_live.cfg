SPECIFICATION Spec
CONSTANTS
  Handles = {1, 2}
  Styles = {"hidden", "normal", "docked"}
  MaxFlushes = 3
  MaxMisses = 1
  ClockAdvances = TRUE
  Failures = {"write"}
INVARIANTS
  TypeOK
  ClosedFiguresAreReported
  WindowsAreCurrent
  BrowserReplacesHost
CHECK_DEADLOCK FALSE
