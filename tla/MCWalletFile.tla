---------------------------- MODULE MCWalletFile ----------------------------
(* An instance of WalletFile: two threads, two passwords; threads, and      *)
(* passwords, are interchangeable.                                          *)
EXTENDS WalletFile, TLC

Symmetric == Permutations(Thread) \cup Permutations(Password)
=============================================================================
