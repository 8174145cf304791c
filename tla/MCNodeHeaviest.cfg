CONSTANTS
  g = g  a1 = a1  a2 = a2  a3 = a3  b3 = b3  b4 = b4  bogus = bogus
  p = p  q = q  alice = alice  bob = bob  mine = mine  t0 = t0  t1 = t1  t2 = t2
  NoBlock = NoBlock
  Genesis = g
  Root = {g}
  Block <- MCBlock
  Parent <- MCParent
  Work <- MCWork
  OrphanBound = 3
  TxId = {t0, t1, t2}
  Account = {alice, bob, mine}
  TxFrom <- MCFrom
  TxTo <- MCTo
  TxAmount <- MCAmount
  TxFee <- MCFee
  TxNonce <- MCNonce
  Txs <- ForkTxs
  Coinbases <- ForkCoinbases
  Peer = {p, q}
  Sendable <- ForkSends
  WellFormed <- MCWellFormed
  Reward = 5
SPECIFICATION NodeSpec
INVARIANT HeaviestGoodAdopted
