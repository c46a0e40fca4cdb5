CONSTANTS
  Vars = {"x", "y"}
  Values = {0, 1}
  Sources <- ModelSources
SPECIFICATION ModelSpec
INVARIANTS ModelTypeOK ThenIsNext RulesMet NeighboursMirror SameOutputs ReturnsAsCalled
CHECK_DEADLOCK FALSE
