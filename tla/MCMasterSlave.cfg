\* Two channels in a chain, every legal pairing of ports on each.
SPECIFICATION FairSpec
CONSTANTS
  Proc = {"p1", "p2", "p3"}
  NoProc = "none"
  Chan = {"a", "b"}
  Data = {0, 1}
  Reader <- ChainReader
  Writer <- ChainWriter
  Ops = {"assign", "pause"}
INVARIANTS TypeOK AllowedPairings MasterCallsFind NoLostNotification
PROPERTIES MasterWriteIsRendezvous MasterCallsReturn
