CONSTANTS
  g = g  a1 = a1  a2 = a2  a3 = a3  b2 = b2  b3 = b3  c1 = c1  r = r
  t1 = t1  t2 = t2
  NoBlock = NoBlock
  Genesis = g
  Block <- MCBlock
  Root <- MCRoot
  Parent <- MCParent
  Work <- MCWork
  TxId = {t1, t2}
  Txs <- MCTxs
  OrphanBound = 2
SPECIFICATION Spec
INVARIANTS TypeOK MainChainIsLineage BestTipIsHeaviest NoStrandedOrphan TxIndexIsExact
PROPERTIES NoBlockForgotten ReorgIsReported ImplementsHeaviestChain
