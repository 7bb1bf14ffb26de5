----------------------------- MODULE MCKVUpload -----------------------------
(* Four files, two at a time. *)
EXTENDS KVUpload, TLC

Symmetry == Permutations(Files)
=============================================================================
