SPECIFICATION FairSpec
CONSTANTS
  Handles = {1, 2}
  Styles = {"hidden", "normal"}
  MaxFlushes = 3
  MaxMisses = 1
  ClockAdvances = FALSE
  Failures = {"create", "page", "write", "flush"}
PROPERTIES
  HonoursCloses
  HostIsSeenOrGone
CHECK_DEADLOCK FALSE
