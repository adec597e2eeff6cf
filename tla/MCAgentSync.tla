------------------------------ MODULE MCAgentSync ------------------------------
(* Small instances of AgentSync for TLC. *)
EXTENDS AgentSync, TLC

CONSTANTS server, cli, f, g

(* Nothing tells callers apart; the properties are invariants.             *)
SyncerSymmetry == Permutations(Syncers)

(* A call may name one of the files.                                       *)
NamedFiles == {{f}}

=============================================================================
