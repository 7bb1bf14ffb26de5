--------------------------- MODULE MCAccountObjects ---------------------------
(* Every command that works on an account, run by every client.              *)
EXTENDS AccountObjects, StoreCommands, AccountCommands, NgwafCommands, TLC

MCCommands == StoreCommands \cup AccountCommands \cup NgwafCommands

\* Nothing tells the clients apart, and the run checks invariants only.
MCSymmetry == Permutations(Clients)

=============================================================================
