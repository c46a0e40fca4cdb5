CONSTANTS Vars = {"x", "y"}
          Values = {0, 1}
          Programs <- FewPrograms
          encodeArch <- TurnItself
SPECIFICATION Spec
INVARIANT AllStatesSearched
