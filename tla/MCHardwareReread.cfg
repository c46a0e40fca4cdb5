CONSTANTS Vars = {"x", "y"}
          Values = {0, 1}
          Programs <- RereadPrograms
          encodeArch <- TurnItself
SPECIFICATION HardwareSpec
INVARIANT OneApplies
