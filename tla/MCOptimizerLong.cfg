CONSTANTS
  Vars = {"x", "y"}
  Values = {0, 1}
  Sources <- LongSources
SPECIFICATION ModelSpec
INVARIANTS RulesMet
CHECK_DEADLOCK FALSE
