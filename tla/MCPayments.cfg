CONSTANTS
  k1 = k1  k2 = k2  k3 = k3  shop = shop  mixed = mixed  single = single
  Wallet <- ThreeKeys
  Outside = shop
  FirstBalance <- MixBalances
  Job = {mixed, single}
  Splits <- MixSplits
  Single = {single}
  TroubleBound = 1
  FinalDepth = 2
  MaxReorg = 2
  DepthBound = 3
SPECIFICATION PayFairSpec
INVARIANTS MainAfterInternal AloneNotRefused SuccessMeansPaid GivenUpStaysOut
 
\* When the jobs are done and their payments final, nothing happens.
CHECK_DEADLOCK FALSE
