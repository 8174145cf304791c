\* The requests and the blocks of an instance are finite: in the end nothing happens.
CHECK_DEADLOCK FALSE
CONSTANTS
  Thread = {w1, w2}
  Event = {e1, e2, e3}
  NoEvent = NoEvent
  CommandBound = 4
  BlockBound = 2
SPECIFICATION MinerFairSpec
INVARIANTS MinerTypeOK BusyMeansMining StaleWorkIsCancelled
PROPERTIES NoStaleBlock MiningEnds
