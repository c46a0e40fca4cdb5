CONSTANTS
  Vars = {"x", "y"}
  Values = {0, 1}
  Sources <- OrSources
SPECIFICATION ModelSpec
INVARIANTS SameOutputs
CHECK_DEADLOCK FALSE
