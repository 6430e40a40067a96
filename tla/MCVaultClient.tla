--------------------------- MODULE MCVaultClient ---------------------------
(* Instances of VaultClient for TLC: all its constants are plain values.   *)
EXTENDS VaultClient, TLC

CONSTANTS w1, w2

Symmetric == Permutations(Threads)
=============================================================================
