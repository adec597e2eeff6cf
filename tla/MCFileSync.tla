------------------------------ MODULE MCFileSync ------------------------------
(***************************************************************************)
(* Instances of FileSync for TLC.                                          *)
(***************************************************************************)
EXTENDS FileSync, TLC

\* Two files side by side.
FlatTree == [p \in 1 .. 2 |-> {}]

\* A folder (1) and a file in it (2).
FolderWithFile == [p \in 1 .. 2 |-> IF p = 2 THEN {1} ELSE {}]

OneFile == [p \in 1 .. 1 |-> {}]
=============================================================================
