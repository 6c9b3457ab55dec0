----------------------------- MODULE MCTakeover -----------------------------
(* Small instances of Takeover: two host services, which the code treats    *)
(* alike.                                                                   *)
EXTENDS Takeover

(* Without errors, what nobody confirms is undone: the host gets its network *)
(* services back, a reinit its old configuration (arm_recovery, rollback).   *)
UnconfirmedIsUndone == HostNetworkReturns /\ OldConfigReturns
=============================================================================
