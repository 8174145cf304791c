CONSTANTS
  k1 = k1  k2 = k2  k3 = k3  shop = shop  mixed = mixed  single = single
  Wallet <- ThreeKeys
  Outside = shop
  FirstBalance <- ThreeBalances
  Job = {mixed, single}
  Splits <- ThreeSplits
  Single = {single}
  TroubleBound = 0
  FinalDepth = 2
  MaxReorg = 2
  DepthBound = 3
SPECIFICATION PaySpec
INVARIANT PlanCoversShares
\* When the jobs are done and their payments final, nothing happens.
CHECK_DEADLOCK FALSE
