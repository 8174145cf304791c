CONSTANTS
  g = g  t = t  a2 = a2  a3 = a3  c2 = c2  c3 = c3  c4 = c4
  na = na  nb = nb  nc = nc
  NoBlock = NoBlock
  Genesis = g
  Root = {g}
  Block <- LineBlocks
  Parent <- MCParent
  Work <- MCWork
  Txs <- MCTxs
  TxId = {}
  Node = {na, nb, nc}
  Dial <- LineDial
  FirstTip <- LineTips
  Miner <- MCMiner
  HostOf <- MCHost
  Self = self
  Oversize = {c3}
  Window = 2
  LocalWindow = 3
  RateLimit = 50
SPECIFICATION SyncFairSpec
INVARIANTS SyncTypeOK PeersCatchUp
PROPERTIES ComesToRest
\* Blocks and connections are finite: in the end nothing happens.
CHECK_DEADLOCK FALSE
