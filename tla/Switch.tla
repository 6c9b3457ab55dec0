------------------------------- MODULE Switch -------------------------------
(***************************************************************************)
(* lkit switch: replace the running Landscape version by a newer one       *)
(* inside a transaction, roll back when a step fails, and recover when the *)
(* process that ran it disappeared.  One action per call that changes the  *)
(* host; a crash, a reboot or an error may come between any two.           *)
(***************************************************************************)
EXTENDS Deployment

CONSTANT AllowNoBackup   \* the command line says --allow-no-backup
ASSUME AllowNoBackupAssumption == AllowNoBackup \in BOOLEAN

-----------------------------------------------------------------------------
(* The forward pipeline *)

(* Checks, then begin.  What data/ holds now is what must not be lost. *)
Begin(target) ==
  LET stopped == ~Active
      new == [phase |-> "preparing", from |-> state, target |-> target,
              backup |-> FALSE, noBackup |-> stopped,
              before |-> None, resolv |-> None]
  IN  /\ Goto("command", "build")
      /\ ~Unfinished
      /\ LoadState
      /\ target > state
      /\ Initialised
      /\ releases[state] = "complete"
      /\ stopped => AllowNoBackup
      /\ tx' = new /\ mem' = new /\ prev' = state
      /\ snapshot' = None /\ aside' = "absent" /\ data' = "user"
      /\ UNCHANGED <<current, releases, state, hostVars, lock, job, outcome,
                     boundVars>>

(* A target directory that is already complete is reused. *)
BuildRelease ==
  /\ Goto("build", IF mem.noBackup THEN "capture" ELSE "backup")
  /\ releases[mem.target] # "partial"
  /\ releases' = [releases EXCEPT ![mem.target] = "complete"]
  /\ UNCHANGED <<tx, current, state, snapshot, data, aside, hostVars,
                 lock, job, mem, prev, outcome, boundVars>>

(* Exports the configuration from the running instance. *)
CreateBackup ==
  /\ Goto("backup", "capture")
  /\ Active
  /\ mem' = [mem EXCEPT !.backup = TRUE]
  /\ UNCHANGED <<diskVars, hostVars, lock, job, prev, outcome, boundVars>>

(* Mutant: does not record the backup of resolv.conf. *)
CaptureNoResolv ==
  /\ Goto("capture", IF mem.noBackup THEN "mark_prepared" ELSE "snapshot")
  /\ mem' = [mem EXCEPT !.before = CaptureBefore]
  /\ UNCHANGED <<diskVars, hostVars, lock, job, prev, outcome, boundVars>>

Capture ==
  /\ Goto("capture", IF mem.noBackup THEN "mark_prepared" ELSE "snapshot")
  /\ mem' = [mem EXCEPT !.before = CaptureBefore, !.resolv = resolv]
  /\ UNCHANGED <<diskVars, hostVars, lock, job, prev, outcome, boundVars>>

WriteSnapshot ==
  /\ Goto("snapshot", "mark_prepared")
  /\ snapshot' = prev
  /\ UNCHANGED <<tx, current, releases, state, data, aside, hostVars,
                 lock, job, mem, prev, outcome, boundVars>>

Mark(here, phase, there) ==
  /\ Goto(here, there)
  /\ MarkPhase(phase)
  /\ UNCHANGED <<current, releases, state, snapshot, data, aside, hostVars,
                 lock, job, mem, prev, outcome, boundVars>>

MarkPrepared == Mark("mark_prepared", "prepared", "mark_stopping")
MarkStopping == Mark("mark_stopping", "stopping", "stop")
MarkActivating == Mark("mark_activating", "activating", "activate")
MarkVerifying == Mark("mark_verifying", "verifying", "health")

Stop ==
  /\ Goto("stop", "mark_activating")
  /\ StopService
  /\ UNCHANGED <<diskVars, resolv, lock, job, mem, prev, outcome, boundVars>>

ActivateCurrent ==
  /\ Goto("activate", "register")
  /\ current' = mem.target
  /\ UNCHANGED <<tx, releases, state, snapshot, data, aside, hostVars,
                 lock, job, mem, prev, outcome, boundVars>>

Register(here, there) ==
  /\ Goto(here, there)
  /\ svc' = [svc EXCEPT !.reg = TRUE, !.enabled = TRUE]
  /\ UNCHANGED <<diskVars, resolv, lock, job, mem, prev, outcome, boundVars>>

Start(here, there) ==
  /\ Goto(here, there)
  /\ StartService
  /\ UNCHANGED <<tx, current, releases, state, snapshot, aside,
                 lock, job, mem, prev, outcome, boundVars>>

HealthCheck ==
  /\ Goto("health", "write_state")
  /\ Active
  /\ UNCHANGED <<diskVars, hostVars, lock, job, mem, prev, outcome, boundVars>>

WriteState ==
  /\ Goto("write_state", "mark_committed")
  /\ state' = mem.target
  /\ UNCHANGED <<tx, current, releases, snapshot, data, aside, hostVars,
                 lock, job, mem, prev, outcome, boundVars>>

MarkCommitted ==
  /\ pc = "mark_committed"
  /\ MarkPhase("committed")
  /\ Finish("committed")
  /\ UNCHANGED <<current, releases, state, snapshot, data, aside, hostVars,
                 boundVars>>

Forward ==
  \/ \E target \in Versions : Begin(target)
  \/ BuildRelease \/ CreateBackup \/ Capture \/ WriteSnapshot
  \/ MarkPrepared \/ MarkStopping \/ Stop
  \/ MarkActivating \/ ActivateCurrent
  \/ Register("register", "start") \/ Start("start", "mark_verifying")
  \/ MarkVerifying \/ HealthCheck \/ WriteState \/ MarkCommitted

-----------------------------------------------------------------------------
(* A forward step fails *)

(* Mutant: the flag activated is set only after the link has changed. *)
PreActivationLate == {"build", "backup", "capture", "snapshot", "mark_prepared",
                      "mark_stopping", "stop", "mark_activating", "activate",
                      "register"}

PreActivation == {"build", "backup", "capture", "snapshot", "mark_prepared",
                  "mark_stopping", "stop", "mark_activating"}
Activated == {"activate", "register", "start", "mark_verifying", "health",
              "write_state", "mark_committed"}

StepFails ==
  /\ Error
  /\ \/ pc \in PreActivation /\ pc' = "abort"
     \/ pc \in Activated /\ pc' = "rb_mark"
  /\ UNCHANGED <<diskVars, hostVars, lock, job, mem, prev, outcome, crashes>>

(* build_release refuses a target directory it cannot trust. *)
ReleaseExists ==
  /\ Goto("build", "abort")
  /\ releases[mem.target] = "partial"
  /\ UNCHANGED <<diskVars, hostVars, lock, job, mem, prev, outcome, boundVars>>

(* Before activation: put the service and resolv.conf back, mark failed.   *)
(* Both may fail; the transaction is then left to the next recovery.       *)
Abort ==
  /\ \/ /\ Goto("abort", "abort_mark")
        /\ mem.before = None
        /\ UNCHANGED <<svc, data, resolv, errors>>
     \/ /\ Goto("abort", "abort_mark")
        /\ mem.before # None
        /\ RestoreBefore(mem.before)
        /\ resolv' = mem.resolv
        /\ UNCHANGED errors
     \/ /\ Goto("abort", "abort_mark_unrestored")
        /\ mem.before # None /\ Error
        /\ UNCHANGED <<svc, data, resolv>>
  /\ UNCHANGED <<tx, current, releases, state, snapshot, aside,
                 lock, job, mem, prev, outcome, crashes>>

AbortMark ==
  /\ \/ pc = "abort_mark" /\ Finish("error")
     \/ pc = "abort_mark_unrestored" /\ Finish("rollback_failed")
  /\ \/ MarkPhase("failed") /\ UNCHANGED errors
     \/ Error /\ UNCHANGED tx
  /\ UNCHANGED <<current, releases, state, snapshot, data, aside, hostVars,
                 crashes>>

-----------------------------------------------------------------------------
(* Rollback: from the .lkb backup, or (no backup) by undoing the switch.   *)

RbMark == Mark("rb_mark", "rolling_back", "rb_stop")

(* Mutant: starts the old version without rebuilding data/ and release. *)
RbStopNoRebuild ==
  /\ Goto("rb_stop", IF mem.backup THEN "rb_current" ELSE "rb_unit")
  /\ StopService
  /\ UNCHANGED <<diskVars, resolv, lock, job, mem, prev, outcome, boundVars>>

RbStop ==
  /\ Goto("rb_stop", IF mem.backup THEN "rb_aside" ELSE "rb_unit")
  /\ StopService
  /\ UNCHANGED <<diskVars, resolv, lock, job, mem, prev, outcome, boundVars>>

(* Mutant: a second attempt overwrites what the first one put aside. *)
MoveDataAsideOverwrites ==
  /\ Goto("rb_aside", "rb_release")
  /\ aside' = data /\ data' = "empty"
  /\ UNCHANGED <<tx, current, releases, state, snapshot, hostVars,
                 lock, job, mem, prev, outcome, boundVars>>

(* move_data_aside keeps the first failed-data; a later attempt throws its *)
(* own half-built data/ away.                                              *)
MoveDataAside ==
  /\ Goto("rb_aside", "rb_release")
  /\ aside' = IF aside = "absent" THEN data ELSE aside
  /\ data' = "empty"
  /\ UNCHANGED <<tx, current, releases, state, snapshot, hostVars,
                 lock, job, mem, prev, outcome, boundVars>>

(* rebuild_release_from_backup moves releases/<from> away, then copies. *)
ClearRelease ==
  /\ Goto("rb_release", "rb_copy")
  /\ releases' = [releases EXCEPT ![mem.from] = "partial"]
  /\ UNCHANGED <<tx, current, state, snapshot, data, aside, hostVars,
                 lock, job, mem, prev, outcome, boundVars>>

CopyRelease ==
  /\ Goto("rb_copy", "rb_seed")
  /\ releases' = [releases EXCEPT ![mem.from] = "complete"]
  /\ UNCHANGED <<tx, current, state, snapshot, data, aside, hostVars,
                 lock, job, mem, prev, outcome, boundVars>>

(* geo_tmp and landscape_init.toml from the backup. *)
SeedData ==
  /\ Goto("rb_seed", "rb_current")
  /\ data' = "seeded"
  /\ UNCHANGED <<tx, current, releases, state, snapshot, aside, hostVars,
                 lock, job, mem, prev, outcome, boundVars>>

(* Without a backup: registration and enablement as before, not started. *)
RestoreUnit ==
  /\ Goto("rb_unit", "rb_current")
  /\ mem.before # None
  /\ svc' = [svc EXCEPT !.reg = mem.before.reg, !.enabled = mem.before.enabled]
  /\ resolv' = mem.resolv
  /\ UNCHANGED <<diskVars, lock, job, mem, prev, outcome, boundVars>>

RestoreCurrent ==
  /\ Goto("rb_current",
          IF mem.backup THEN "rb_register"
          ELSE IF mem.before.active THEN "rb_start" ELSE "rb_state")
  /\ current' = mem.from
  /\ UNCHANGED <<tx, releases, state, snapshot, data, aside, hostVars,
                 lock, job, mem, prev, outcome, boundVars>>

(* init_required: Landscape must have initialised data/ again. *)
RbHealth ==
  /\ Goto("rb_health", "rb_state")
  /\ Active /\ Initialised
  /\ UNCHANGED <<diskVars, hostVars, lock, job, mem, prev, outcome, boundVars>>

(* Mutant: the old state is not committed again. *)
RbStateForgotten ==
  /\ Goto("rb_state", "rb_done")
  /\ UNCHANGED <<diskVars, hostVars, lock, job, mem, prev, outcome, boundVars>>

(* With a backup the state is rebuilt for from_version; without one it is  *)
(* the caller's previous state.                                            *)
RbState ==
  /\ Goto("rb_state", "rb_done")
  /\ state' = IF mem.backup THEN mem.from ELSE prev
  /\ UNCHANGED <<tx, current, releases, snapshot, data, aside, hostVars,
                 lock, job, mem, prev, outcome, boundVars>>

RbDone ==
  /\ pc = "rb_done"
  /\ MarkPhase("rolled_back")
  /\ IF job = "recovery" THEN FinishRecovery ELSE Finish("rolled_back")
  /\ UNCHANGED <<current, releases, state, snapshot, data, aside, hostVars,
                 boundVars>>

RollBack ==
  \/ RbMark \/ RbStop \/ MoveDataAside \/ ClearRelease \/ CopyRelease
  \/ SeedData \/ RestoreUnit \/ RestoreCurrent
  \/ Register("rb_register", "rb_start") \/ Start("rb_start", "rb_health")
  \/ RbHealth \/ RbState \/ RbDone

RollBackSteps == {"rb_mark", "rb_stop", "rb_aside", "rb_release", "rb_copy",
                  "rb_seed", "rb_unit", "rb_current", "rb_register",
                  "rb_start", "rb_state", "rb_done"}

RollBackReport == IF job = "recovery" THEN "error" ELSE "rollback_failed"

(* Only a failed health check after a backup rollback marks the transaction; *)
(* any other error leaves it in rolling_back.                                *)
RollBackFails ==
  /\ Error
  /\ \/ pc \in RollBackSteps /\ UNCHANGED tx
     \/ pc = "rb_health" /\ IF mem.backup THEN MarkPhase("failed") ELSE UNCHANGED tx
  /\ Finish(RollBackReport)
  /\ UNCHANGED <<current, releases, state, snapshot, data, aside, hostVars,
                 crashes>>

-----------------------------------------------------------------------------
(* recover_switch: what the next holder does with an unfinished switch.    *)

(* Mutant: no branch for verifying. *)
RecoverPlanNoVerifying ==
  /\ pc = "recover"
  /\ \/ tx.phase = "preparing" /\ pc' = "rc_clean"
     \/ tx.phase \in {"prepared", "stopping"} /\ pc' = "rc_unit"
     \/ tx.phase \in {"activating", "rolling_back"} /\ tx.backup /\ pc' = "rb_mark"
  /\ prev' = snapshot
  /\ UNCHANGED <<diskVars, hostVars, lock, job, mem, outcome, boundVars>>

RecoverPlan ==
  /\ pc = "recover"
  /\ \/ tx.phase = "preparing" /\ pc' = "rc_clean" /\ prev' = None
     \/ tx.phase \in {"prepared", "stopping"} /\ pc' = "rc_unit" /\ prev' = None
     \/ /\ tx.phase \in {"activating", "verifying", "rolling_back"}
        /\ pc' = "rb_mark"
        /\ \/ tx.backup /\ snapshot # None /\ prev' = snapshot
           \/ ~tx.backup /\ tx.noBackup /\ LoadState /\ prev' = state
  /\ UNCHANGED <<diskVars, hostVars, lock, job, mem, outcome, boundVars>>

(* load_state refuses the link that this very switch has changed: the       *)
(* command or the recovery cycle gives up.                                  *)
RecoverRefused ==
  /\ pc = "recover"
  /\ tx.phase \in {"activating", "verifying", "rolling_back"}
  /\ ~tx.backup /\ tx.noBackup /\ ~LoadState
  /\ Finish("error")
  /\ UNCHANGED <<diskVars, hostVars, boundVars>>

RcUnit ==
  /\ Goto("rc_unit", "rc_clean")
  /\ IF mem.before = None
     THEN UNCHANGED <<svc, data, resolv>>
     ELSE /\ RestoreBefore(mem.before)
          /\ resolv' = IF mem.before.active /\ ~Active THEN "router" ELSE resolv
  /\ UNCHANGED <<tx, current, releases, state, snapshot, aside,
                 lock, job, mem, prev, outcome, boundVars>>

(* An error while the directory is removed is ignored; part of it stays. *)
RcClean ==
  /\ Goto("rc_clean", "rc_mark")
  /\ \/ /\ releases' = [releases EXCEPT ![mem.target] = "absent"]
        /\ UNCHANGED errors
     \/ /\ releases[mem.target] # "absent" /\ Error
        /\ releases' = [releases EXCEPT ![mem.target] = "partial"]
  /\ UNCHANGED <<tx, current, state, snapshot, data, aside, hostVars,
                 lock, job, mem, prev, outcome, crashes>>

RcMark ==
  /\ pc = "rc_mark"
  /\ MarkPhase("failed")
  /\ FinishRecovery
  /\ UNCHANGED <<current, releases, state, snapshot, data, aside, hostVars,
                 boundVars>>

RecoverSwitch == RecoverPlan \/ RecoverRefused \/ RcUnit \/ RcClean \/ RcMark

(* An error in recovery is returned; the transaction keeps its phase. *)
RecoverFails ==
  /\ Error
  /\ pc \in {"recover", "rc_unit", "rc_mark"}
  /\ Finish("error")
  /\ UNCHANGED <<diskVars, hostVars, crashes>>

-----------------------------------------------------------------------------
(* The command is refused, or was another one that changes nothing here. *)
Refuse ==
  /\ pc = "command"
  /\ Finish("refused")
  /\ UNCHANGED <<diskVars, hostVars, boundVars>>

Init ==
  /\ tx = None /\ snapshot = None /\ aside = "absent"
  /\ \E v \in Versions :
       /\ current = v /\ state = v
       /\ releases = [w \in Versions |-> IF w = v THEN "complete" ELSE "absent"]
       /\ svc \in [reg: {TRUE}, enabled: BOOLEAN, running: {v, None}]
  /\ resolv \in Writers
  /\ data = "user"
  /\ lock = "free" /\ pc = "idle" /\ job = "none" /\ mem = None /\ prev = None
  /\ outcome = "none"
  /\ crashes = 0 /\ errors = 0

(* What the lock holder does when nothing goes wrong. *)
Progress == Forward \/ ReleaseExists \/ Abort \/ AbortMark \/ RollBack \/ RecoverSwitch \/ Refuse

Next ==
  \/ \E holder \in {"cli", "daemon"} : Acquire(holder)
  \/ Progress
  \/ StepFails \/ RollBackFails \/ RecoverFails
  \/ Crash \/ Reboot \/ Operator

Spec == Init /\ [][Next]_vars

(* The daemon tries again every two seconds, and a process that holds the  *)
(* lock keeps running; operators promise nothing.                          *)
Fairness == WF_vars(Acquire("daemon")) /\ WF_vars(Progress)

LiveSpec == Spec /\ Fairness

-----------------------------------------------------------------------------
(* Properties *)

Pcs == {"idle", "command", "recover", "abort", "abort_mark",
        "abort_mark_unrestored", "rb_health", "rc_unit", "rc_clean", "rc_mark"}
       \cup PreActivation \cup Activated \cup RollBackSteps

Reports == {"none", "committed", "rolled_back", "rollback_failed", "error",
            "refused"}

(* Every variable keeps its type. *)
TypeOK ==
  /\ tx \in Transactions \cup {None}
  /\ current \in Versions /\ state \in Versions
  /\ releases \in [Versions -> {"absent", "partial", "complete"}]
  /\ snapshot \in Versions \cup {None}
  /\ svc \in Services
  /\ resolv \in Writers
  /\ data \in DataKinds /\ aside \in DataKinds
  /\ lock \in {"free", "cli", "daemon"}
  /\ pc \in Pcs
  /\ job \in {"none", "command", "recovery"}
  /\ mem \in Transactions \cup {None}
  /\ prev \in Versions \cup {None}
  /\ outcome \in Reports
  /\ crashes \in 0..MaxCrashes /\ errors \in 0..MaxErrors

(* Wherever a switch ends, current shows the version its end promises, and  *)
(* a complete release stands behind it (recover_switch, restore_current).   *)
LinkEnds ==
  /\ tx # None /\ tx.phase = "committed" => current = tx.target
  /\ tx # None /\ tx.phase \in {"rolled_back", "failed"} => current = tx.from
  /\ ~Unfinished => releases[current] = "complete"

(* A switch ends all or nothing (recover_switch, rollback_switch): what the *)
(* state file records agrees with the link after a commit, and after a      *)
(* rollback from a backup.  A rollback without one writes back the state    *)
(* it finds, which may be the new one already (recover_switch).             *)
EndsWhole ==
  /\ LinkEnds
  /\ tx # None /\ tx.phase = "committed" => state = tx.target
  /\ tx # None /\ tx.phase = "rolled_back" /\ ~tx.noBackup => state = tx.from

(* The directory data/ as the switch found it is never thrown away, however *)
(* often its rollback is interrupted and started again (move_data_aside).   *)
UserDataKept ==
  tx # None => {data, aside} \cap {"user", "touched"} # {}

(* After a switch with a backup the old version never runs on data that the *)
(* newer version has migrated: rollback_switch rebuilds data/ first, and    *)
(* starts the old version only after current is restored.                   *)
OldNeverOnMigratedData ==
  tx # None /\ tx.backup /\ svc.running = tx.from => data # "touched"

(* The step that ends a transaction leaves the service as promised: the     *)
(* target after a commit, the old version after a backup rollback, and as   *)
(* systemd_before recorded it otherwise, unless the command reported that   *)
(* its restore failed or a rollback itself was unhealthy.                   *)
ServiceAsPromised ==
  [][ Unfinished /\ ~Unfinished' =>
        /\ tx'.phase = "committed" => svc'.running = tx.target
        /\ tx'.phase = "rolled_back" /\ tx.backup => svc'.running = tx.from
        /\ tx'.phase = "rolled_back" /\ ~tx.backup =>
             (svc'.running # None) = tx.before.active
        /\ /\ tx'.phase = "failed" /\ tx'.before # None
           /\ tx.phase # "rolling_back" /\ outcome' # "rollback_failed"
           => (svc'.running # None) = tx'.before.active ]_vars

(* While a switch is open its host counts as the old version; the link and *)
(* the state file count again when it has ended, the state file only if    *)
(* there was a backup to roll back from.                                   *)
LinkedVersion == IF Unfinished THEN tx.from ELSE current
RecordedVersion ==
  IF Unfinished THEN tx.from
  ELSE IF tx # None /\ tx.noBackup THEN current ELSE state
OpenTarget == IF Unfinished THEN tx.target ELSE None
LastResult == IF Unfinished \/ tx = None THEN None ELSE tx.phase

Deployed == INSTANCE AtomicDeployment WITH
  linked <- LinkedVersion, recorded <- RecordedVersion,
  pending <- OpenTarget, result <- LastResult

(* Begin, commit, rollback and failure of a switch, interrupted or not,    *)
(* look atomic from outside (switch_version, recover_switch), and the step *)
(* that ends it leaves the service as promised.                            *)
SwitchIsAtomic == Deployed!Spec /\ ServiceAsPromised

(* Every interrupted switch is brought to an end by the daemon's recovery   *)
(* cycle or by the next command (recovery_cycle, recover_interrupted). One  *)
(* without a backup may be refused by every recovery, when the link has     *)
(* moved and the state file has not (check_current in recover_switch).      *)
Settles == Unfinished /\ ~tx.noBackup ~> ~Unfinished
=============================================================================
