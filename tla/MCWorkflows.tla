---------------------------- MODULE MCWorkflows ----------------------------
(***************************************************************************)
(* The transactions on the install root that are no switch, in one run: a  *)
(* behaviour is one of Lifecycle or of Migration, chosen in its first      *)
(* state; the variables of the other stay in an initial state.             *)
(***************************************************************************)
EXTENDS Lifecycle, Legacy

VARIABLE part   \* which of the two it is

all == <<part, vars, oldVars>>

(* The part that is not the chosen one rests: on an empty root, or with an  *)
(* old deployment nobody migrates.                                          *)
OnePart ==
  /\ part \in {"lifecycle", "migration"}
  /\ Init /\ M!Init
  /\ part # "lifecycle" => disk.current = 0 /\ disk.tx.target = 1
  /\ part # "migration" => kind = "none"

Lives == part = "lifecycle" /\ UNCHANGED <<part, oldVars>>
Migrates == part = "migration" /\ UNCHANGED <<part, vars>>

Steps == \/ Lives /\ Next
         \/ Migrates /\ M!Next

(* The fairness of the two specifications. *)
Goes ==
  /\ WF_all(Lives /\ (Step \/ BackupMissing \/ Recover))
  /\ \A p \in M!Processes : WF_all(Migrates /\ (M!Step(p) \/ M!StepRefused(p)))
  /\ WF_all(Migrates /\ M!LoadPrepared) /\ WF_all(Migrates /\ M!FrontReturns)
  /\ WF_all(Migrates /\ M!Recover)

Workflows == OnePart /\ [][Steps]_all /\ Goes

-----------------------------------------------------------------------------
(* Interrupted transactions of both kinds are ended by whoever gets the     *)
(* lock next (recovery_cycle, recover_interrupted), outside the windows the *)
(* two modules name.                                                        *)
RecoverySettles == Settles /\ M!Settles
=============================================================================
