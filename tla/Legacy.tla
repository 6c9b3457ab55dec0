------------------------------- MODULE Legacy -------------------------------
(***************************************************************************)
(* Migration under names of its own, to stand beside the other transactions *)
(* of lkit.                                                                *)
(***************************************************************************)
CONSTANTS MaxDeaths, MaxFailures

VARIABLES kind, old, new, migration, procs, spoiled, deaths, failures

M == INSTANCE Migration WITH
       MaxCrashes <- MaxDeaths, MaxErrors <- MaxFailures,
       tx <- migration, proc <- procs, crashes <- deaths, errors <- failures

oldVars == <<kind, old, new, migration, procs, spoiled, deaths, failures>>

-----------------------------------------------------------------------------
(* A migration ends with the managed router or with the old one, whole, the *)
(* two are never both set to start at boot, and nothing is touched before   *)
(* the backup is recorded (migrate_legacy, rollback_migration).             *)
MigrationInvariant == M!TypeOK /\ M!EndsWithRouter /\ M!NotBothAtBoot /\ M!BackedUpFirst
=============================================================================
