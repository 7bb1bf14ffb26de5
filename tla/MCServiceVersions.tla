-------------------------- MODULE MCServiceVersions --------------------------
(* Every command that selects a version of a service, run by every client.  *)
EXTENDS ServiceVersions, LoggingCommands, ServiceCommands, TLC

MCCommands == LoggingCommands \cup ServiceCommands

\* The commands there are keep two of the rules on the order of their steps; the third,
\* ChecksFirst, is what RefusedUntouched shows of them.
ASSUME RulesAssumption == SelectsFirst /\ FreezesLast

\* Nothing tells the clients apart, and the run checks invariants only.
MCSymmetry == Permutations(Clients)

=============================================================================
