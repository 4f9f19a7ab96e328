SPECIFICATION Spec
CONSTANTS
  FileCount = 4
  Roots = {1, 2}
  Unnamed = {1, 4}
  Name <- MCName
  Graphs <- MCGraphs
  Vars = {"x"}
  Files = {"s"}
  MaxDepth = 2
  None = None
INVARIANTS
  BundlesAreWhole
  NumbersAreBacked
  HandlesKeepTheirMeaning
