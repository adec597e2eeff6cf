----------------------------- MODULE MCMigrations -----------------------------
(* The migrations of Harmony for TLC. *)
EXTENDS Migrations, Schema

=============================================================================
