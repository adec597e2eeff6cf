--------------------------- MODULE MCMachineRegistry ---------------------------
(* Small instances of MachineRegistry for TLC. *)
EXTENDS MachineRegistry

(* A window on a laptop, and others on the machine of the host. *)
LaptopAndDesk == [c \in Clients |-> IF c = "w1" THEN "laptop" ELSE "desk"]

=============================================================================
