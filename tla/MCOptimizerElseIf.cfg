CONSTANTS
  Vars = {"x", "y"}
  Values = {0, 1}
  Sources <- ElseIfSources
SPECIFICATION ModelSpec
INVARIANTS SameOutputs
CHECK_DEADLOCK FALSE
