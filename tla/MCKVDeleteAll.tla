--------------------------- MODULE MCKVDeleteAll ---------------------------
(* Small pools of `kv-store-entry delete --all`. *)
EXTENDS KVDeleteAll, TLC

Symmetry == Permutations(Keys) \cup Permutations(Workers)
=============================================================================
