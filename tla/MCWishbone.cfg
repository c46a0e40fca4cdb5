\* One master, two slaves, any number of requests.
SPECIFICATION WishboneFairSpec
CONSTANTS
  NSlave = 2
  Request <- SomeRequests
  Reply <- SomeReplies
  FirstMaster <- HarmlessMaster
  FirstSlave <- HarmlessSlave
  Data <- Messages
  Proc <- Process
  NoProc = NoProc
  Chan <- BlockingChan
  Shared <- SharedChan
  Reader <- BusReader
  Writer <- BusWriter
  Ops <- BusOps
INVARIANT WishboneTypeOK
PROPERTIES ImplementsBus EdgesRead RequestsAnswered
