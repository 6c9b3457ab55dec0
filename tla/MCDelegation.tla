---------------------------- MODULE MCDelegation ----------------------------
(* Delegation for TLC: an installation that passes a password and a         *)
(* migration, each with its own frontend, and one daemon.                   *)
EXTENDS Delegation, TLC

CONSTANTS install, migrate

TwoOps == {install, migrate}
Install == {install}
Migrate == {migrate}
=============================================================================
