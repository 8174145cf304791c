------------------------------ MODULE MCMinerCtl ------------------------------
(* The constants of MinerCtl are sets of model values given in the cfgs:    *)
(* two mining threads at one time are enough for a thread that ends, and    *)
(* starts its successor, beside one that was started meanwhile.             *)
EXTENDS MinerCtl
=============================================================================
