SPECIFICATION Spec
CONSTANTS
  FirstAxes = 4
  FirstSeries = 10
  FirstAnnotation = 14
  Requests = {1, 4}
  Rows = {1, 2}
  Columns = {1, 2}
  MaxTiles = 2
  Dims = {"x"}
  Limits = {1, 2}
  MaxCalls = 6
  MaxFigure = 5
  MaxAxes = 6
  MaxSeries = 11
  MaxAnnotation = 14
INVARIANTS
  TypeOK
  HandlesAreUnique
  LinksAreSound
  LinkedLimitsAgree
  CurrentIsOwn
  DeletesAreWhole
CHECK_DEADLOCK FALSE
