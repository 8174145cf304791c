----------------------------- MODULE MCPayments -----------------------------
(* Instances of Payments.  One unit is the smallest internal fee, 0.01; a   *)
(* share of 10 wants a balance of 11.                                       *)
EXTENDS Payments, TLC

CONSTANTS k1, k2, k3, shop, mixed, single

Share(k, a) == [key |-> k, amount |-> a]

(* The first address can help the second, which has nothing; the third has  *)
(* enough, or is not in the plan.                                           *)
ThreeKeys == <<k1, k2, k3>>
MixBalances == (k1 :> 40) @@ (k2 :> 0) @@ (k3 :> 11)
Jobs(m, s) == (mixed :> m) @@ (single :> s)
MixSplits ==
  { Jobs(<<Share(k2, 10), Share(k1, 10)>>, <<Share(k1, 1)>>),
    Jobs(<<Share(k2, 10), Share(k3, 20), Share(k1, 10)>>, <<>>),
    Jobs(<<Share(k1, 10), Share(k3, 10)>>, <<>>),
    Jobs(<<Share(k1, 20)>>, <<Share(k1, 50)>>) }

(* The second is short itself, and has more than the first lacks.           *)
ThreeBalances == (k1 :> 0) @@ (k2 :> 100) @@ (k3 :> 300)
ThreeSplits ==
  {Jobs(<<Share(k1, 10), Share(k2, 100), Share(k3, 10)>>, <<>>)}
=============================================================================
