------------------------------ MODULE MCDeploy ------------------------------
(* `compute deploy` with few failures and a short status check. *)
EXTENDS Deploy
=============================================================================
