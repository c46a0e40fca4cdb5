\* One master, two slaves: does the interconnect wait for the master?
SPECIFICATION WishboneFairSpec
CONSTANTS
  NSlave = 2
  Request <- SomeRequests
  Reply <- SomeReplies
  FirstMaster <- HarmlessMaster
  FirstSlave <- HarmlessSlave
  Data <- Messages
  Proc <- Process
  NoProc = NoProc
  Chan <- BlockingChan
  Shared <- SharedChan
  Reader <- BusReader
  Writer <- BusWriter
  Ops <- BusOps
PROPERTY MasterHasRead
