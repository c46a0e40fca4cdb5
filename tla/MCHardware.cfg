\* Every program is translated, then it runs beside the circuit.
CONSTANTS
  Vars = {"x", "y"}
  Values = {0, 1}
  Programs <- AllPrograms
  encodeArch <- TurnItself
SPECIFICATION HardwareFairSpec
INVARIANTS
  TypeOK
  BranchOpen
  StackFitsPath
  OperationsAreFeasible
  WhileIndexFitsPath
  SpuriousRepeats
  ColoredOnce
  OperationsValid
  SlavesServed
  OneApplies
  HardwareFollows
  NotifiedIsOffered
  ListsAgree
PROPERTY Stops
