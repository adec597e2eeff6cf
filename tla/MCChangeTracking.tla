--------------------------- MODULE MCChangeTracking ---------------------------
(* Small instances of ChangeTracking for TLC. *)
EXTENDS ChangeTracking

Named(name) == [name |-> name, at |-> Unqualified]

(* Two threads of the server and one command line. *)
TwoProcesses ==
  [c \in Callers |-> IF c = "cli" THEN "cli" ELSE "server"]

(* An agent, and someone on the machine called "local". *)
AgentAndLocal == {<<Named("coder"), "desk">>, <<Named("ana"), "local">>}

=============================================================================
