---------------------------- MODULE MCMigrations ----------------------------
(***************************************************************************)
(* Two users and one product meet every run between two revisions.         *)
(***************************************************************************)
EXTENDS Migrations

CONSTANTS u1, u2, p1

MCUsers == {u1, u2}
MCProducts == {p1}
=============================================================================
