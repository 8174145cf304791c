CONSTANTS
  g = g  t = t  a2 = a2  a3 = a3  c2 = c2  c3 = c3  c4 = c4
  na = na  nb = nb  nc = nc
  NoBlock = NoBlock
  Genesis = g
  Root = {g}
  Block <- NewcomerBlocks
  Parent <- MCParent
  Work <- MCWork
  Txs <- MCTxs
  TxId = {}
  Node = {na, nc}
  Dial <- PairDial
  FirstTip <- NewcomerTips
  Miner <- MCMiner
  HostOf <- MCHost
  Self = self
  Oversize = {}
  Window = 2
  LocalWindow = 3
  RateLimit = 50
SPECIFICATION SyncSpec
INVARIANT LinkedNodesAgree
\* Blocks and connections are finite: in the end nothing happens.
CHECK_DEADLOCK FALSE
