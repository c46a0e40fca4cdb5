\* Five values through a buffer of two: it fills, wraps and empties.
SPECIFICATION FifoFairSpec
CONSTANTS
  Proc = {"source", "fifo", "sink"}
  NoProc = "none"
  Chan = {"producer", "consumer"}
  N = 2
  MaxSent = 5
  Data = {0, 1, 2, 3, 4, 5}
  Reader <- FifoReader
  Writer <- FifoWriter
  Ops <- FifoOps
INVARIANTS NothingLost PollHolds
PROPERTY Delivered
