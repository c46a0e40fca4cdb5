\* Every call on one channel; the processes of another may keep each other runnable.
SPECIFICATION FairSpec
CONSTANTS
  Proc = {"reader", "writer", "source", "sink"}
  NoProc = "none"
  Chan = {"polled", "busy"}
  Data = {0, 1}
  Reader <- Readers
  Writer <- Writers
  Ops <- CallsOf
INVARIANTS TypeOK AssertsHold NoLostNotification IInv
PROPERTIES SuccessMeansTaken ImplementsRendezvous WriteReturns
