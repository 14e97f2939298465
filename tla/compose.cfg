SPECIFICATION CSpec
CONSTANTS
  Nodes = {1, 2, 3}
  Items = {1, 2, 3, 4}
  Outside = 0
  Graphs <- ComposeGraphs
  Weight <- MCWeight
  Curve <- MCCurve
  Values <- MCValues
  MaxCalls = 2
INVARIANTS IInv ResolutionIsOrder CyclesThrow CTypeOK ChainRuleIsExact
CHECK_DEADLOCK FALSE
