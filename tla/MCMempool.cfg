CONSTANTS
  g = g  a1 = a1  b1 = b1  b2 = b2  t0 = t0  t1 = t1
  p = p  q = q  alice = alice  bob = bob  mine = mine
  NoBlock = NoBlock
  Genesis = g
  Root = {g}
  Block <- MCBlock
  Parent <- MCParent
  Work <- MCWork
  TxId = {t0, t1}
  Txs <- MCTxs
  Account = {alice, bob, mine}
  TxFrom <- MCFrom
  TxTo <- MCTo
  TxAmount <- MCAmount
  TxFee <- MCFee
  TxNonce <- MCNonce
  Coinbases <- MCCoinbases
  Source = {p, q}
  Submission <- MCSubmission
  Precheck <- MCPrecheck
  MaxItems = 4
  QueueMax = 5
SPECIFICATION MempoolFairSpec
INVARIANTS MempoolTypeOK AcceptedIsKnown AcceptedNotConfirmed TemplateValidOnTrunk
PROPERTIES Decided
