---------------------------- MODULE SwitchProofs ----------------------------
(***************************************************************************)
(* Proofs about Switch, for every set of versions and every bound on       *)
(* crashes and errors, with a backup and without: types, the fate of       *)
(* data/, the all-or-nothing end of a switch, that the old version never   *)
(* meets migrated data, and that a switch implements AtomicDeployment.     *)
(***************************************************************************)
EXTENDS Switch, TLAPS

(* Once the service has been captured, resolv.conf has been recorded too;   *)
(* the holder has its transaction in memory after begin or recover, and the *)
(* previous state while a rollback may still need it.                       *)
Recorded(t) == t # None /\ t.before # None => t.resolv # None

TypeInv ==
  /\ TypeOK
  /\ Recorded(tx) /\ Recorded(mem)
  /\ pc \notin {"idle", "command"} => mem # None
  /\ pc \in PreActivation \cup Activated \cup RollBackSteps \cup {"rb_health"}
       => prev # None

(* What the first rollback attempt put aside is what the switch found, and *)
(* data/ is emptied only after that.                                       *)
KeptInv ==
  /\ aside \in {"absent", "user", "touched"}
  /\ aside = "absent" => data \in {"user", "touched"}
  /\ pc \in {"rb_release", "rb_copy", "rb_seed"} => aside # "absent"

(* The phases before and after current may change. *)
Early == {"preparing", "prepared", "stopping"}
Late == {"activating", "verifying", "rolling_back"}

(* Which phase the transaction file shows at each step of the holder. *)
PhaseInv ==
  /\ pc \in {"build", "backup", "capture", "snapshot", "mark_prepared"}
       => tx.phase = "preparing"
  /\ pc = "mark_stopping" => tx.phase = "prepared"
  /\ pc \in {"stop", "mark_activating"} => tx.phase = "stopping"
  /\ pc \in {"activate", "register", "start", "mark_verifying"}
       => tx.phase = "activating"
  /\ pc \in {"health", "write_state", "mark_committed"} => tx.phase = "verifying"
  /\ pc \in {"abort", "abort_mark", "abort_mark_unrestored",
             "rc_unit", "rc_clean", "rc_mark"} => tx.phase \in Early
  /\ pc = "recover" => tx.phase \in Early \cup Late
  /\ pc = "rb_mark" => tx.phase \in Late
  /\ pc \in (RollBackSteps \cup {"rb_health"}) \ {"rb_mark"}
       => tx.phase = "rolling_back"

(* The files, as the phase of the transaction promises them: current may   *)
(* change only once there is a backup or the command line has waived it,   *)
(* and a switch without a backup never takes its old release apart.        *)
FilesInv ==
  /\ tx # None =>
       /\ tx.from # tx.target
       /\ tx.noBackup => ~tx.backup
       /\ tx.phase = "preparing" => ~tx.backup /\ tx.before = None
       /\ tx.phase \in Early => /\ current = tx.from /\ state = tx.from
                                /\ releases[tx.from] = "complete"
       /\ tx.phase \in Late => /\ tx.backup <=> ~tx.noBackup
                               /\ tx.noBackup => releases[tx.from] = "complete"
                               /\ ~tx.noBackup => state \in {tx.from, tx.target}
  /\ EndsWhole

(* The holder works on the open transaction: its copy agrees with the file  *)
(* once prepared has been written, and has the backup, unless it was        *)
(* waived, from the capture of the service on.                              *)
HolderInv ==
  IF pc \in {"idle", "command"}
  THEN pc = "command" => ~Unfinished
  ELSE /\ mem # None /\ tx # None
       /\ mem.from = tx.from /\ mem.target = tx.target
       /\ mem.noBackup = tx.noBackup
       /\ mem.noBackup => ~mem.backup
       /\ tx.phase # "preparing" => mem.backup = tx.backup /\ mem.before = tx.before
       /\ pc = "recover" => mem = tx
       /\ pc = "backup" => ~mem.noBackup
       /\ pc = "rb_unit" => ~mem.backup
       /\ pc \in {"rb_aside", "rb_release", "rb_copy", "rb_seed", "rb_register"}
            => mem.backup
       /\ pc \in (PreActivation \ {"build", "backup"}) \cup Activated
                 \cup RollBackSteps \cup {"rb_health"}
            => (mem.backup <=> ~mem.noBackup)

(* What the steps already taken have achieved. *)
DoneInv ==
  /\ pc \in (PreActivation \ {"build"}) \cup Activated
       => releases[mem.target] = "complete"
  /\ pc \in Activated \ {"activate"} => current = mem.target
  /\ pc = "mark_committed" => state = mem.target
  /\ pc \in {"rb_seed", "rb_current", "rb_register", "rb_start", "rb_health",
             "rb_state", "rb_done"} => releases[mem.from] = "complete"
  /\ pc \in {"rb_register", "rb_start", "rb_health", "rb_state", "rb_done"}
       => current = mem.from
  /\ pc = "rb_done" /\ mem.backup => state = mem.from

WholeInv == FilesInv /\ PhaseInv /\ HolderInv /\ DoneInv

(* Until current changes, nobody but the old version has opened data/; what *)
(* the target has migrated stays with the target until it is put aside.     *)
MigratedInv ==
  /\ tx # None /\ tx.phase \in Early => data = "user"
  /\ tx # None /\ tx.backup /\ data = "touched"
       => current = tx.target /\ svc.running # tx.from
  /\ pc = "rb_current" /\ mem.backup => data = "seeded"

(* Which version runs at each step, and that only a command that a user can *)
(* be told about holds the lock in the forward pipeline.                    *)
ServiceInv ==
  /\ pc \in PreActivation \cup Activated
           \cup {"command", "abort", "abort_mark", "abort_mark_unrestored"}
       => lock = "cli"
  /\ pc \in {"mark_activating", "activate", "register", "start", "rb_aside",
             "rb_release", "rb_copy", "rb_seed", "rb_unit", "rb_current",
             "rb_register", "rb_start"} => svc.running = None
  /\ pc \in {"mark_verifying", "health", "write_state", "mark_committed"}
       => svc.running = mem.target
  /\ pc = "rb_health" => svc.running = mem.from
  /\ pc \in {"rb_current", "rb_start", "rb_health", "rb_state", "rb_done"}
       => mem.backup \/ mem.before # None
  /\ pc \in {"rb_start", "rb_health"} => mem.backup \/ mem.before.active
  /\ pc \in {"rb_state", "rb_done"}
       => svc.running = IF mem.backup \/ mem.before.active THEN mem.from ELSE None
  /\ pc \in {"abort_mark", "rc_clean", "rc_mark"} /\ mem.before # None
       => Active = mem.before.active

-----------------------------------------------------------------------------
(* Records: what an update of a transaction or of the service keeps. *)

USE VersionsAssumption, BoundsAssumption, NoneAssumption, AllowNoBackupAssumption

(* The fields of a transaction file have the types mod.rs gives them. *)
LEMMA TransactionFields ==
  ASSUME NEW t \in Transactions
  PROVE  /\ t # None
         /\ t.phase \in Phases /\ t.from \in Versions /\ t.target \in Versions
         /\ t.backup \in BOOLEAN /\ t.noBackup \in BOOLEAN
         /\ t.before \in Before \cup {None} /\ t.resolv \in Writers \cup {None}
  BY DEF Transactions

(* begin writes a well-formed transaction. *)
LEMMA NewTransaction ==
  ASSUME NEW from \in Versions, NEW target \in Versions, NEW stopped \in BOOLEAN
  PROVE  [phase |-> "preparing", from |-> from, target |-> target,
          backup |-> FALSE, noBackup |-> stopped,
          before |-> None, resolv |-> None] \in Transactions
  BY DEF Transactions, Phases

(* mark_phase changes the phase and nothing else. *)
LEMMA Phased ==
  ASSUME NEW t \in Transactions, NEW p \in Phases
  PROVE  LET u == [t EXCEPT !.phase = p]
         IN  /\ u \in Transactions
             /\ u.phase = p
             /\ u.from = t.from /\ u.target = t.target
             /\ u.backup = t.backup /\ u.noBackup = t.noBackup
             /\ u.before = t.before /\ u.resolv = t.resolv
  BY DEF Transactions

(* A backup is recorded and nothing else changes. *)
LEMMA BackedUp ==
  ASSUME NEW t \in Transactions
  PROVE  LET u == [t EXCEPT !.backup = TRUE]
         IN  /\ u \in Transactions
             /\ u.phase = t.phase
             /\ u.from = t.from /\ u.target = t.target
             /\ u.backup /\ u.noBackup = t.noBackup
             /\ u.before = t.before /\ u.resolv = t.resolv
<1>1. [t EXCEPT !.backup = TRUE] \in Transactions
  BY Zenon DEF Transactions
<1> QED
  BY <1>1, Zenon DEF Transactions

(* capture_before records a ServiceBefore. *)
LEMMA CaptureType == svc \in Services => CaptureBefore \in Before
  BY DEF CaptureBefore, Before, Active, Services

(* Service and resolv.conf are recorded together. *)
LEMMA Captured ==
  ASSUME mem \in Transactions, svc \in Services, resolv \in Writers, Capture
  PROVE  /\ mem' \in Transactions
         /\ mem'.phase = mem.phase
         /\ mem'.from = mem.from /\ mem'.target = mem.target
         /\ mem'.backup = mem.backup /\ mem'.noBackup = mem.noBackup
         /\ mem'.resolv = resolv
<1> DEFINE u == [mem EXCEPT !.before = CaptureBefore, !.resolv = resolv]
<1>1. CaptureBefore \in Before
  BY CaptureType
<1>2. u \in Transactions /\ u.resolv = resolv
  BY <1>1, Zenon DEF Transactions
<1>3. /\ u.phase = mem.phase /\ u.from = mem.from /\ u.target = mem.target
      /\ u.backup = mem.backup /\ u.noBackup = mem.noBackup
  BY Zenon DEF Transactions
<1>4. mem' = u
  BY DEF Capture
<1> HIDE DEF u
<1> QED
  BY <1>2, <1>3, <1>4

(* Registering, starting, stopping and restoring keep the service's type. *)
LEMMA ServiceType ==
  ASSUME NEW s \in Services, NEW r \in BOOLEAN, NEW e \in BOOLEAN,
         NEW v \in Versions \cup {None}
  PROVE  /\ [s EXCEPT !.reg = r, !.enabled = e] \in Services
         /\ [s EXCEPT !.running = v] \in Services
  BY Zenon DEF Services

LEMMA StartedType ==
  ASSUME NEW s \in Services, current \in Versions
  PROVE  Started(s) \in Services /\ Stopped(s) \in Services
  BY ServiceType DEF Started, Stopped

(* Opening data/ keeps its type. *)
LEMMA OpenedType ==
  ASSUME NEW d \in DataKinds, NEW b \in BOOLEAN
  PROVE  Opened(d, b) \in DataKinds
  BY DEF Opened, DataKinds

(* restore_before keeps the types of the service and of data/. *)
LEMMA RestoredType ==
  ASSUME svc \in Services, data \in DataKinds, current \in Versions,
         NEW before \in Before, RestoreBefore(before)
  PROVE  svc' \in Services /\ data' \in DataKinds
<1> DEFINE registered == [svc EXCEPT !.reg = before.reg, !.enabled = before.enabled]
<1>1. registered \in Services
  BY ServiceType DEF Before
<1>2. svc' = Started(registered) \/ svc' = Stopped(registered)
  BY DEF RestoreBefore
<1>3. svc' \in Services
  <2> HIDE DEF registered
  <2> QED
    BY <1>1, <1>2, StartedType
<1>4. data' \in DataKinds
  BY OpenedType DEF RestoreBefore, RunsTarget
<1> QED
  BY <1>3, <1>4

-----------------------------------------------------------------------------
(* Types *)

(* The initial host is well typed (Init). *)
LEMMA TypeInit == Init => TypeInv
<1> SUFFICES ASSUME Init PROVE TypeInv
  OBVIOUS
<1> PICK v \in Versions :
       /\ current = v /\ state = v
       /\ releases = [w \in Versions |-> IF w = v THEN "complete" ELSE "absent"]
       /\ svc \in [reg: {TRUE}, enabled: BOOLEAN, running: {v, None}]
  BY DEF Init
<1>1. svc \in Services
  BY Zenon DEF Services
<1>2. pc \in Pcs /\ pc = "idle"
  BY DEF Init, Pcs
<1> QED
  BY <1>1, <1>2 DEF Init, TypeInv, TypeOK, Recorded, PreActivation, Activated,
     RollBackSteps, Reports, DataKinds

(* Every step of a command, of recovery and of the host keeps it (Next). *)
LEMMA TypeStep == TypeInv /\ [Next]_vars => TypeInv'
<1> SUFFICES ASSUME TypeInv, [Next]_vars PROVE TypeInv'
  OBVIOUS
<1> USE DEF TypeInv, TypeOK, Recorded, Pcs, PreActivation, Activated,
            RollBackSteps, Reports, DataKinds,
            diskVars, hostVars, procVars, boundVars, Goto
<1>a. mem # None => /\ mem \in Transactions
                    /\ mem.from \in Versions /\ mem.target \in Versions
                    /\ mem.before \in Before \cup {None}
                    /\ mem.resolv \in Writers \cup {None}
  BY TransactionFields
<1>b. tx # None => tx \in Transactions
  OBVIOUS
<1>1. CASE UNCHANGED vars
  BY <1>1 DEF vars
<1>2. ASSUME NEW holder \in {"cli", "daemon"}, Acquire(holder) PROVE TypeInv'
  BY <1>2 DEF Acquire, Unfinished
<1>3. ASSUME NEW target \in Versions, Begin(target) PROVE TypeInv'
  <2> DEFINE new == [phase |-> "preparing", from |-> state, target |-> target,
                     backup |-> FALSE, noBackup |-> ~Active,
                     before |-> None, resolv |-> None]
  <2>1. new \in Transactions /\ new.before = None
    BY NewTransaction
  <2>2. tx' = new /\ mem' = new /\ prev' = state
    BY <1>3 DEF Begin
  <2> HIDE DEF new
  <2> QED
    BY <1>3, <2>1, <2>2 DEF Begin
<1>4. CASE BuildRelease
  BY <1>4, <1>a DEF BuildRelease
<1>5. CASE CreateBackup
  BY <1>5, <1>a, BackedUp DEF CreateBackup
<1>6. CASE Capture
  BY <1>6, <1>a, Captured DEF Capture
<1>7. CASE WriteSnapshot
  BY <1>7 DEF WriteSnapshot
<1>8. CASE MarkPrepared \/ MarkStopping \/ MarkActivating \/ MarkVerifying \/ RbMark
  <2>1. ASSUME NEW p \in Phases, mem # None, MarkPhase(p)
        PROVE  tx' \in Transactions /\ Recorded(tx')
    BY <2>1, <1>a, Phased DEF MarkPhase
  <2> QED
    BY <1>8, <2>1 DEF MarkPrepared, MarkStopping, MarkActivating, MarkVerifying,
       RbMark, Mark, Phases
<1>9. CASE Stop \/ RbStop
  BY <1>9, StartedType DEF Stop, RbStop, StopService
<1>10. CASE ActivateCurrent \/ RestoreCurrent
  BY <1>10, <1>a DEF ActivateCurrent, RestoreCurrent
<1>11. CASE Register("register", "start") \/ Register("rb_register", "rb_start")
  <2>1. [svc EXCEPT !.reg = TRUE, !.enabled = TRUE] \in Services
    BY ServiceType
  <2> QED
    BY <1>11, <2>1 DEF Register
<1>12. CASE Start("start", "mark_verifying") \/ Start("rb_start", "rb_health")
  <2>1. svc' \in Services
    BY <1>12, StartedType DEF Start, StartService
  <2>2. data' \in DataKinds
    BY <1>12, OpenedType DEF Start, StartService, RunsTarget
  <2>3. resolv' \in Writers
    BY <1>12 DEF Start, StartService, Writers
  <2> QED
    BY <1>12, <2>1, <2>2, <2>3 DEF Start
<1>13. CASE HealthCheck \/ RbHealth
  BY <1>13 DEF HealthCheck, RbHealth
<1>14. CASE WriteState \/ RbState
  BY <1>14, <1>a DEF WriteState, RbState
<1>15. CASE MarkCommitted \/ RbDone \/ RcMark
  <2>1. ASSUME NEW p \in Phases, mem # None, MarkPhase(p)
        PROVE  tx' \in Transactions /\ Recorded(tx')
    BY <2>1, <1>a, Phased DEF MarkPhase
  <2> QED
    BY <1>15, <2>1 DEF MarkCommitted, RbDone, RcMark, Phases, Finish,
       FinishRecovery, LeaveLock
<1>16. CASE StepFails \/ ReleaseExists
  BY <1>16 DEF StepFails, ReleaseExists, Error
<1>17. CASE Abort
  <2>1. ASSUME mem.before # None, mem # None, RestoreBefore(mem.before)
        PROVE  svc' \in Services /\ data' \in DataKinds
    BY <2>1, <1>a, RestoredType
  <2> QED
    BY <1>17, <1>a, <2>1 DEF Abort, Error
<1>18. CASE AbortMark
  <2>1. ASSUME mem # None, MarkPhase("failed")
        PROVE  tx' \in Transactions /\ Recorded(tx')
    BY <2>1, <1>a, Phased DEF MarkPhase, Phases
  <2> QED
    BY <1>18, <2>1 DEF AbortMark, Error, Finish, LeaveLock
<1>19. CASE MoveDataAside \/ ClearRelease \/ CopyRelease \/ SeedData
  BY <1>19, <1>a DEF MoveDataAside, ClearRelease, CopyRelease, SeedData
<1>20. CASE RestoreUnit
  <2>1. mem.before \in Before /\ mem.resolv \in Writers
    BY <1>20, <1>a DEF RestoreUnit
  <2>2. svc' \in Services
    BY <1>20, <2>1, ServiceType DEF RestoreUnit, Before
  <2> QED
    BY <1>20, <2>1, <2>2 DEF RestoreUnit
<1>21. CASE RollBackFails
  <2>1. ASSUME mem # None, MarkPhase("failed")
        PROVE  tx' \in Transactions /\ Recorded(tx')
    BY <2>1, <1>a, Phased DEF MarkPhase, Phases
  <2> QED
    BY <1>21, <2>1 DEF RollBackFails, RollBackReport, Error, Finish, LeaveLock
<1>22. CASE RecoverPlan \/ RecoverRefused \/ RecoverFails \/ Refuse
  BY <1>22 DEF RecoverPlan, RecoverRefused, RecoverFails, Refuse, Error,
     Finish, LeaveLock
<1>23. CASE RcUnit
  <2>1. ASSUME mem.before # None, mem # None, RestoreBefore(mem.before)
        PROVE  svc' \in Services /\ data' \in DataKinds
    BY <2>1, <1>a, RestoredType
  <2>2. "router" \in Writers
    BY DEF Writers
  <2> QED
    BY <1>23, <2>1, <2>2 DEF RcUnit
<1>24. CASE RcClean
  BY <1>24, <1>a DEF RcClean, Error
<1>25. CASE Crash
  BY <1>25 DEF Crash, LeaveLock
<1>26. CASE Reboot
  <2>1. svc' \in Services
    BY <1>26, ServiceType DEF Reboot
  <2>2. data' \in DataKinds
    BY <1>26, OpenedType DEF Reboot, RunsTarget
  <2>3. resolv' \in Writers
    BY <1>26 DEF Reboot, Writers
  <2> QED
    BY <1>26, <2>1, <2>2, <2>3 DEF Reboot, LeaveLock
<1>27. CASE Operator
  <2>1. svc' \in Services
    BY <1>27, StartedType DEF Operator, StartService, StopService
  <2>2. data' \in DataKinds
    BY <1>27, OpenedType DEF Operator, StartService, StopService, RunsTarget
  <2>3. resolv' \in Writers
    BY <1>27 DEF Operator, StartService, Writers
  <2> QED
    BY <1>27, <2>1, <2>2, <2>3 DEF Operator
<1> QED
  BY <1>1, <1>2, <1>3, <1>4, <1>5, <1>6, <1>7, <1>8, <1>9, <1>10, <1>11, <1>12,
     <1>13, <1>14, <1>15, <1>16, <1>17, <1>18, <1>19, <1>20, <1>21, <1>22,
     <1>23, <1>24, <1>25, <1>26, <1>27
  DEF Next, Progress, Forward, RollBack, RecoverSwitch

(* Every reachable state is well typed, for any versions and any number of  *)
(* crashes and errors (switch_version, rollback_switch, recover_switch).    *)
THEOREM TypeCorrect == Spec => []TypeOK
<1>1. TypeInv => TypeOK
  BY DEF TypeInv
<1> QED
  BY TypeInit, TypeStep, <1>1, PTL DEF Spec

-----------------------------------------------------------------------------
(* The user's data *)

(* Whatever a started service does to data/, it stays the user's. *)
LEMMA OpenedUser ==
  ASSUME NEW d \in {"user", "touched"}, NEW b \in BOOLEAN
  PROVE  Opened(d, b) \in {"user", "touched"}
  BY DEF Opened

(* No step loses what the switch found in data/ (move_data_aside). *)
LEMMA KeptStep == KeptInv /\ [Next]_vars => KeptInv'
<1> SUFFICES ASSUME KeptInv, [Next]_vars PROVE KeptInv'
  OBVIOUS
<1> USE DEF KeptInv, diskVars, hostVars, procVars, boundVars, Goto
<1>a. \A v : RunsTarget(v) \in BOOLEAN
  BY DEF RunsTarget
<1>b. ASSUME StartService
      PROVE  data \in {"user", "touched"} => data' \in {"user", "touched"}
  BY <1>b, <1>a, OpenedUser DEF StartService
<1>c. ASSUME NEW before, RestoreBefore(before)
      PROVE  data \in {"user", "touched"} => data' \in {"user", "touched"}
  BY <1>c, <1>a, OpenedUser DEF RestoreBefore
<1>1. CASE UNCHANGED vars
  BY <1>1 DEF vars
<1>2. ASSUME NEW holder \in {"cli", "daemon"}, Acquire(holder) PROVE KeptInv'
  BY <1>2 DEF Acquire
<1>3. ASSUME NEW target \in Versions, Begin(target) PROVE KeptInv'
  BY <1>3 DEF Begin
<1>4. CASE BuildRelease \/ CreateBackup \/ Capture \/ WriteSnapshot
           \/ MarkPrepared \/ MarkStopping \/ Stop \/ MarkActivating
           \/ ActivateCurrent \/ Register("register", "start") \/ MarkVerifying
           \/ HealthCheck \/ WriteState \/ MarkCommitted
  BY <1>4 DEF BuildRelease, CreateBackup, Capture, WriteSnapshot, MarkPrepared,
     MarkStopping, Stop, MarkActivating, ActivateCurrent, Register,
     MarkVerifying, HealthCheck, WriteState, MarkCommitted, Mark, Finish, LeaveLock
<1>5. CASE Start("start", "mark_verifying") \/ Start("rb_start", "rb_health")
  BY <1>5, <1>b DEF Start
<1>6. CASE StepFails \/ ReleaseExists \/ AbortMark \/ RecoverFails \/ Refuse
           \/ RollBackFails \/ Crash
  BY <1>6 DEF StepFails, ReleaseExists, AbortMark, RecoverFails, Refuse,
     RollBackFails, Crash, Finish, LeaveLock
<1>7. CASE Abort \/ RcUnit
  BY <1>7, <1>c DEF Abort, RcUnit
<1>8. CASE MoveDataAside
  BY <1>8 DEF MoveDataAside
<1>9. CASE SeedData
  BY <1>9 DEF SeedData
<1>10. CASE RbMark \/ RbStop \/ ClearRelease \/ CopyRelease \/ RestoreUnit
            \/ RestoreCurrent \/ Register("rb_register", "rb_start")
            \/ RbHealth \/ RbState \/ RbDone
  BY <1>10 DEF RbMark, RbStop, ClearRelease, CopyRelease, RestoreUnit,
     RestoreCurrent, Register, RbHealth, RbState, RbDone, Mark, Finish,
     FinishRecovery, LeaveLock
<1>11. CASE RecoverPlan \/ RecoverRefused \/ RcClean \/ RcMark
  BY <1>11 DEF RecoverPlan, RecoverRefused, RcClean, RcMark, Finish,
     FinishRecovery, LeaveLock
<1>12. CASE Reboot
  BY <1>12, <1>a, OpenedUser DEF Reboot, LeaveLock
<1>13. CASE Operator
  BY <1>13, <1>b DEF Operator
<1> QED
  BY <1>1, <1>2, <1>3, <1>4, <1>5, <1>6, <1>7, <1>8, <1>9, <1>10, <1>11, <1>12,
     <1>13
  DEF Next, Progress, Forward, RollBack, RecoverSwitch

(* However often a rollback is interrupted and repeated, data/ as the       *)
(* switch found it survives in data/ or in failed-data (move_data_aside).   *)
THEOREM DataKept == Spec => []UserDataKept
<1>1. Init => KeptInv
  BY DEF Init, KeptInv
<1>2. KeptInv => UserDataKept
  BY DEF KeptInv, UserDataKept
<1> QED
  BY KeptStep, <1>1, <1>2, PTL DEF Spec

-----------------------------------------------------------------------------
(* A switch ends all or nothing *)

(* The initial host has no transaction and one complete release. *)
LEMMA WholeInit == Init => WholeInv
  BY DEF Init, WholeInv, FilesInv, PhaseInv, HolderInv, DoneInv, EndsWhole,
     LinkEnds, Unfinished, PreActivation, Activated, RollBackSteps

(* Every step keeps it. *)
LEMMA WholeStep == TypeInv /\ WholeInv /\ [Next]_vars => WholeInv'
<1> SUFFICES ASSUME TypeInv, WholeInv, [Next]_vars PROVE WholeInv'
  OBVIOUS
<1> USE DEF WholeInv, FilesInv, PhaseInv, HolderInv, DoneInv, EndsWhole,
            LinkEnds, Early, Late, Unfinished, IsTerminal, PreActivation, Activated, RollBackSteps,
            diskVars, hostVars, procVars, boundVars, Goto
<1>a. /\ current \in Versions /\ state \in Versions
      /\ releases \in [Versions -> {"absent", "partial", "complete"}]
  BY DEF TypeInv, TypeOK
<1>b. mem # None => /\ mem \in Transactions
                    /\ mem.from \in Versions /\ mem.target \in Versions
  BY TransactionFields DEF TypeInv, TypeOK
<1>c. tx # None => /\ tx \in Transactions /\ tx.phase \in Phases
                   /\ tx.from \in Versions /\ tx.target \in Versions
  BY TransactionFields DEF TypeInv, TypeOK
<1>1. CASE UNCHANGED vars
  BY <1>1 DEF vars
<1>2. ASSUME NEW holder \in {"cli", "daemon"}, Acquire(holder) PROVE WholeInv'
  BY <1>2, <1>c DEF Acquire, Phases
<1>3. ASSUME NEW target \in Versions, Begin(target) PROVE WholeInv'
  <2> DEFINE new == [phase |-> "preparing", from |-> state, target |-> target,
                     backup |-> FALSE, noBackup |-> ~Active,
                     before |-> None, resolv |-> None]
  <2>0. new \in Transactions
    BY <1>a, NewTransaction, Zenon
  <2>1. /\ new # None
        /\ new.from = state /\ new.target = target /\ new.phase = "preparing"
    BY <2>0
  <2>2. ~new.backup /\ new.before = None
    OBVIOUS
  <2>4. tx' = new /\ mem' = new
    BY <1>3 DEF Begin
  <2>5. state # target
    BY <1>3, <1>a DEF Begin
  <2> HIDE DEF new
  <2> QED
    BY <1>3, <1>a, <2>1, <2>2, <2>4, <2>5 DEF Begin, LoadState, CheckCurrent
<1>4. CASE BuildRelease
  BY <1>4, <1>a, <1>b DEF BuildRelease
<1>5. CASE CreateBackup
  BY <1>5, <1>b, BackedUp DEF CreateBackup
<1>6. CASE Capture
  <2>1. /\ mem' \in Transactions
        /\ mem'.from = mem.from /\ mem'.target = mem.target
        /\ mem'.noBackup = mem.noBackup /\ mem'.backup = mem.backup
    BY <1>6, <1>b, Captured DEF Capture, TypeInv, TypeOK
  <2> QED
    BY <1>6, <2>1 DEF Capture
<1>7. CASE WriteSnapshot
  BY <1>7 DEF WriteSnapshot
<1>8. ASSUME NEW p \in Phases, mem # None, MarkPhase(p)
      PROVE  /\ tx' # None /\ tx'.phase = p
             /\ tx'.from = mem.from /\ tx'.target = mem.target
             /\ tx'.backup = mem.backup /\ tx'.noBackup = mem.noBackup
             /\ tx'.before = mem.before
  BY <1>8, <1>b, Phased, TransactionFields DEF MarkPhase
<1>9. CASE MarkPrepared \/ MarkStopping
  BY <1>9, <1>8 DEF MarkPrepared, MarkStopping, Mark, Phases
<1>10. CASE MarkActivating \/ MarkVerifying
  BY <1>10, <1>8 DEF MarkActivating, MarkVerifying, Mark, Phases
<1>11. CASE Stop \/ RbStop
  BY <1>11 DEF Stop, RbStop
<1>12. CASE ActivateCurrent
  BY <1>12 DEF ActivateCurrent
<1>13. CASE Register("register", "start") \/ Register("rb_register", "rb_start")
  BY <1>13 DEF Register
<1>14. CASE Start("start", "mark_verifying") \/ Start("rb_start", "rb_health")
  BY <1>14 DEF Start
<1>15. CASE HealthCheck \/ RbHealth
  BY <1>15 DEF HealthCheck, RbHealth
<1>16. CASE WriteState
  BY <1>16 DEF WriteState
<1>17. CASE MarkCommitted
  BY <1>17, <1>8 DEF MarkCommitted, Phases, Finish, LeaveLock
<1>18. CASE StepFails \/ ReleaseExists
  BY <1>18 DEF StepFails, ReleaseExists
<1>19. CASE Abort \/ RcUnit
  BY <1>19 DEF Abort, RcUnit
<1>20. CASE AbortMark
  BY <1>20, <1>8 DEF AbortMark, Phases, Finish, LeaveLock
<1>21. CASE RbMark
  BY <1>21, <1>8 DEF RbMark, Mark, Phases
<1>22. CASE MoveDataAside \/ SeedData
  BY <1>22 DEF MoveDataAside, SeedData
<1>23. CASE ClearRelease \/ CopyRelease
  BY <1>23, <1>a, <1>b DEF ClearRelease, CopyRelease
<1>24. CASE RestoreUnit
  BY <1>24 DEF RestoreUnit
<1>25. CASE RestoreCurrent
  BY <1>25 DEF RestoreCurrent
<1>26. CASE RbState
  BY <1>26 DEF RbState
<1>27. CASE RbDone
  BY <1>27, <1>8 DEF RbDone, Phases, Finish, FinishRecovery, LeaveLock
<1>28. CASE RollBackFails
  BY <1>28, <1>8 DEF RollBackFails, Phases, Finish, LeaveLock
<1>29. CASE RecoverPlan
  BY <1>29 DEF RecoverPlan
<1>30. CASE RecoverRefused \/ RecoverFails \/ Refuse \/ Crash
  BY <1>30 DEF RecoverRefused, RecoverFails, Refuse, Crash, Finish, LeaveLock
<1>31. CASE RcClean
  BY <1>31, <1>a, <1>b DEF RcClean
<1>32. CASE RcMark
  BY <1>32, <1>8 DEF RcMark, Phases, Finish, FinishRecovery, LeaveLock
<1>33. CASE Reboot
  BY <1>33 DEF Reboot, LeaveLock
<1>34. CASE Operator
  BY <1>34 DEF Operator
<1> QED
  BY <1>1, <1>2, <1>3, <1>4, <1>5, <1>6, <1>7, <1>9, <1>10, <1>11, <1>12,
     <1>13, <1>14, <1>15, <1>16, <1>17, <1>18, <1>19, <1>20, <1>21, <1>22,
     <1>23, <1>24, <1>25, <1>26, <1>27, <1>28, <1>29, <1>30, <1>31, <1>32,
     <1>33, <1>34
  DEF Next, Progress, Forward, RollBack, RecoverSwitch

(* A switch ends all or nothing, wherever it crashed, rebooted or failed,   *)
(* and however often its recovery had to start again; without a backup the  *)
(* link does (switch_version, rollback_switch, recover_switch).             *)
THEOREM SwitchEndsWhole == Spec => []EndsWhole
<1>1. WholeInv => EndsWhole
  BY DEF WholeInv, FilesInv
<1> QED
  BY TypeInit, TypeStep, WholeInit, WholeStep, <1>1, PTL DEF Spec

-----------------------------------------------------------------------------
(* The old version and migrated data *)

(* begin writes a transaction without a backup. *)
LEMMA Begun ==
  ASSUME state \in Versions, NEW target \in Versions, Begin(target)
  PROVE  /\ tx' # None /\ tx'.phase = "preparing"
         /\ tx'.from = state /\ tx'.target = target /\ ~tx'.backup
<1> DEFINE new == [phase |-> "preparing", from |-> state, target |-> target,
                   backup |-> FALSE, noBackup |-> ~Active,
                   before |-> None, resolv |-> None]
<1>1. new \in Transactions
  BY NewTransaction
<1>2. new # None
  BY <1>1
<1>3. tx' = new
  BY DEF Begin
<1> QED
  BY <1>2, <1>3

(* mark_phase writes what the holder remembers. *)
LEMMA Marked ==
  ASSUME mem \in Transactions, NEW p \in Phases, MarkPhase(p)
  PROVE  /\ tx' # None /\ tx'.phase = p
         /\ tx'.from = mem.from /\ tx'.target = mem.target
         /\ tx'.backup = mem.backup /\ tx'.noBackup = mem.noBackup
         /\ tx'.before = mem.before
  BY Phased, TransactionFields DEF MarkPhase

(* Starting, stopping and changing the registration of the service decide   *)
(* what runs as their names say.                                            *)
LEMMA Running ==
  ASSUME NEW s \in Services, NEW r \in BOOLEAN, NEW e \in BOOLEAN,
         NEW v \in Versions \cup {None}
  PROVE  /\ [s EXCEPT !.reg = r, !.enabled = e].running = s.running
         /\ [s EXCEPT !.running = v].running = v
  BY Zenon DEF Services

LEMMA StartedRuns ==
  ASSUME NEW s \in Services, current \in Versions
  PROVE  /\ Started(s).running = IF s.running # None THEN s.running ELSE current
         /\ Stopped(s).running = None
  BY Running DEF Started, Stopped

(* restore_before starts or stops as it was recorded, and opens data/ only  *)
(* when it starts what was stopped.                                         *)
LEMMA RestoredRuns ==
  ASSUME svc \in Services, current \in Versions,
         NEW before \in Before, RestoreBefore(before)
  PROVE  /\ svc'.running =
              IF before.active THEN IF Active THEN svc.running ELSE current
              ELSE None
         /\ data' = IF before.active /\ ~Active
                    THEN Opened(data, RunsTarget(current)) ELSE data
<1> DEFINE registered == [svc EXCEPT !.reg = before.reg, !.enabled = before.enabled]
<1>1. /\ registered \in Services /\ registered.running = svc.running
      /\ before.active \in BOOLEAN
  BY ServiceType, Running DEF Before
<1>2. /\ svc' = IF before.active THEN Started(registered) ELSE Stopped(registered)
      /\ data' = IF before.active /\ ~Active
                 THEN Opened(data, RunsTarget(current)) ELSE data
  BY DEF RestoreBefore
<1> HIDE DEF registered
<1> QED
  BY <1>1, <1>2, StartedRuns DEF Active

(* What the target has migrated is put aside before the old version may     *)
(* open data/ again.                                                        *)
LEMMA MigratedStep == TypeInv /\ WholeInv /\ MigratedInv /\ [Next]_vars => MigratedInv'
<1> SUFFICES ASSUME TypeInv, WholeInv, MigratedInv, [Next]_vars PROVE MigratedInv'
  OBVIOUS
<1> USE DEF MigratedInv, Early, diskVars, hostVars, procVars, boundVars, Goto
<1>a. /\ current \in Versions /\ state \in Versions /\ svc \in Services
      /\ svc.running \in Versions \cup {None}
  BY DEF TypeInv, TypeOK, Services
<1>b. mem # None => /\ mem \in Transactions
                    /\ mem.from \in Versions /\ mem.target \in Versions
                    /\ mem.before \in Before \cup {None}
  BY TransactionFields DEF TypeInv, TypeOK
<1>c. tx # None => /\ tx.from # tx.target /\ tx.from \in Versions
                   /\ tx.target \in Versions
                   /\ tx.phase \in Early => current = tx.from
  BY TransactionFields DEF TypeInv, TypeOK, WholeInv, FilesInv
<1>d. pc \notin {"idle", "command"} =>
        /\ mem # None /\ tx # None
        /\ mem.from = tx.from /\ mem.target = tx.target
        /\ tx.phase # "preparing" => mem.backup = tx.backup
  BY DEF WholeInv, HolderInv
<1>e. /\ pc \in {"mark_prepared", "mark_stopping", "mark_activating", "stop"}
           => tx.phase \in Early
      /\ pc \in {"abort", "abort_mark", "abort_mark_unrestored", "rc_unit",
                 "rc_clean", "rc_mark"} => tx.phase \in Early
      /\ pc \in {"start", "mark_verifying", "rb_mark", "rb_aside", "rb_seed",
                 "rb_start", "rb_health", "rb_current", "rb_unit", "rb_state",
                 "rb_done", "activate", "write_state", "mark_committed"}
           => tx.phase \notin Early
      /\ pc = "mark_activating" => tx.phase = "stopping"
      /\ pc = "rb_unit" => ~mem.backup
  BY DEF WholeInv, PhaseInv, HolderInv, Late, RollBackSteps
(* Starting the service. *)
<1>f. ASSUME UNCHANGED <<tx, current>>, UNCHANGED pc \/ pc' # "rb_current",
             \/ data' = data /\ (svc'.running \in {svc.running, None}
                                \/ svc'.running = current)
             \/ /\ data' = Opened(data, RunsTarget(current))
                /\ svc'.running = current,
             pc' = "rb_current" => data' = data /\ UNCHANGED mem
      PROVE  MigratedInv'
  BY <1>f, <1>a, <1>c DEF Opened, RunsTarget
<1>1. CASE UNCHANGED vars
  BY <1>1 DEF vars
<1>2. ASSUME NEW holder \in {"cli", "daemon"}, Acquire(holder) PROVE MigratedInv'
  BY <1>2 DEF Acquire
<1>3. ASSUME NEW target \in Versions, Begin(target) PROVE MigratedInv'
  BY <1>3, <1>a, Begun DEF Begin
<1>4. CASE BuildRelease \/ CreateBackup \/ Capture \/ WriteSnapshot
           \/ HealthCheck \/ WriteState
  BY <1>4 DEF BuildRelease, CreateBackup, Capture, WriteSnapshot, HealthCheck,
     WriteState
<1>5. CASE MarkPrepared \/ MarkStopping \/ MarkActivating \/ MarkVerifying
           \/ RbMark
  BY <1>5, <1>b, <1>d, <1>e, Marked DEF MarkPrepared, MarkStopping,
     MarkActivating, MarkVerifying, RbMark, Mark, Phases
<1>6. CASE MarkCommitted \/ RbDone \/ RcMark
  BY <1>6, <1>b, <1>d, <1>e, Marked DEF MarkCommitted, RbDone, RcMark, Phases,
     Finish, FinishRecovery, LeaveLock
<1>7. CASE AbortMark
  BY <1>7, <1>b, <1>d, <1>e, Marked DEF AbortMark, Phases, Finish, LeaveLock
<1>8. CASE RollBackFails
  BY <1>8, <1>b, <1>d, <1>e, Marked DEF RollBackFails, Phases, Finish, LeaveLock
<1>9. CASE Stop \/ RbStop
  BY <1>9, <1>a, <1>f, StartedRuns DEF Stop, RbStop, StopService
<1>10. CASE ActivateCurrent
  BY <1>10, <1>c, <1>d, <1>e DEF ActivateCurrent
<1>11. CASE Register("register", "start") \/ Register("rb_register", "rb_start")
  <2>1. svc'.running = svc.running
    BY <1>11, <1>a, Running DEF Register
  <2> QED
    BY <1>11, <2>1 DEF Register
<1>12. CASE Start("start", "mark_verifying") \/ Start("rb_start", "rb_health")
           \/ Operator
  <2>1. ASSUME StartService
        PROVE  \/ data' = data /\ svc'.running = svc.running
               \/ /\ data' = Opened(data, RunsTarget(current))
                  /\ svc'.running = current
    BY <2>1, <1>a, StartedRuns DEF StartService, Active
  <2>2. ASSUME StopService PROVE svc'.running = None
    BY <2>2, <1>a, StartedRuns DEF StopService
  <2>3. pc = "rb_current" => Unfinished
    BY <1>d DEF WholeInv, PhaseInv, RollBackSteps, Unfinished, IsTerminal
  <2> QED
    BY <1>12, <1>f, <2>1, <2>2, <2>3 DEF Start, Operator
<1>13. CASE StepFails \/ ReleaseExists \/ RecoverFails \/ Refuse \/ Crash
           \/ RecoverPlan \/ RecoverRefused \/ RcClean \/ ClearRelease
           \/ CopyRelease \/ RbHealth \/ RbState
  BY <1>13 DEF StepFails, ReleaseExists, RecoverFails, Refuse, Crash,
     RecoverPlan, RecoverRefused, RcClean, ClearRelease, CopyRelease, RbHealth,
     RbState, Finish, LeaveLock
<1>14. CASE Abort \/ RcUnit
  <2>1. \/ UNCHANGED <<svc, data>>
        \/ mem.before # None /\ RestoreBefore(mem.before)
    BY <1>14 DEF Abort, RcUnit
  <2>2. ASSUME mem.before # None, RestoreBefore(mem.before)
        PROVE  \/ data' = data /\ svc'.running \in {svc.running, None}
               \/ /\ data' = Opened(data, RunsTarget(current))
                  /\ svc'.running = current
    <3>1. mem.before \in Before
      BY <2>2, <1>14, <1>b, <1>d DEF Abort, RcUnit
    <3> QED
      BY <2>2, <3>1, <1>a, RestoredRuns
  <2> QED
    BY <1>14, <1>f, <2>1, <2>2 DEF Abort, RcUnit
<1>15. CASE MoveDataAside \/ SeedData
  BY <1>15, <1>d, <1>e DEF MoveDataAside, SeedData
<1>16. CASE RestoreUnit
  <2>1. svc'.running = svc.running
    BY <1>16, <1>a, <1>b, <1>d, Running DEF RestoreUnit, Before
  <2> QED
    BY <1>16, <2>1, <1>e DEF RestoreUnit
<1>17. CASE RestoreCurrent
  BY <1>17, <1>d, <1>e DEF RestoreCurrent
<1>18. CASE Reboot
  <2>1. \/ data' = data /\ svc'.running = None
        \/ /\ data' = Opened(data, RunsTarget(current))
           /\ svc'.running = current
    BY <1>18, <1>a, Running DEF Reboot
  <2> QED
    BY <1>18, <1>f, <2>1 DEF Reboot, LeaveLock
<1> QED
  BY <1>1, <1>2, <1>3, <1>4, <1>5, <1>6, <1>7, <1>8, <1>9, <1>10, <1>11, <1>12,
     <1>13, <1>14, <1>15, <1>16, <1>17, <1>18
  DEF Next, Progress, Forward, RollBack, RecoverSwitch

(* After a switch with a backup the old version never runs on data the new  *)
(* one has migrated, whatever crashed or failed (rollback_switch).          *)
THEOREM OldOnOldData == Spec => []OldNeverOnMigratedData
<1>1. Init => MigratedInv
  BY DEF Init, MigratedInv
<1>2. MigratedInv => OldNeverOnMigratedData
  BY DEF MigratedInv, OldNeverOnMigratedData
<1> QED
  BY TypeInit, TypeStep, WholeInit, WholeStep, MigratedStep, <1>1, <1>2, PTL
  DEF Spec

-----------------------------------------------------------------------------
(* The service at the end of a switch *)

(* Every step keeps what runs in line with the step the holder is at. *)
LEMMA ServiceStep == TypeInv /\ WholeInv /\ ServiceInv /\ [Next]_vars => ServiceInv'
<1> SUFFICES ASSUME TypeInv, WholeInv, ServiceInv, [Next]_vars PROVE ServiceInv'
  OBVIOUS
<1> USE DEF ServiceInv, PreActivation, Activated,
            diskVars, hostVars, procVars, boundVars, Goto
<1>a. /\ current \in Versions /\ state \in Versions /\ svc \in Services
      /\ svc.running \in Versions \cup {None}
  BY DEF TypeInv, TypeOK, Services
<1>b. mem # None => /\ mem \in Transactions
                    /\ mem.from \in Versions /\ mem.target \in Versions
                    /\ mem.before \in Before \cup {None}
                    /\ mem.before # None => mem.before.active \in BOOLEAN
                    /\ mem.backup \in BOOLEAN
  BY TransactionFields DEF TypeInv, TypeOK, Before
<1>d. pc \notin {"idle", "command"} => mem # None /\ tx # None
  BY DEF WholeInv, HolderInv
<1>e. /\ pc = "start" => current = mem.target
      /\ pc = "rb_start" => current = mem.from
      /\ pc = "recover" /\ tx.phase = "preparing" => mem.before = None
      /\ pc = "rb_unit" => ~mem.backup
      /\ pc \in {"rb_aside", "rb_register"} => mem.backup
  BY DEF WholeInv, HolderInv, DoneInv, FilesInv
<1>1. CASE UNCHANGED vars
  BY <1>1 DEF vars, Active
<1>2. ASSUME NEW holder \in {"cli", "daemon"}, Acquire(holder) PROVE ServiceInv'
  BY <1>2 DEF Acquire
<1>3. ASSUME NEW target \in Versions, Begin(target) PROVE ServiceInv'
  BY <1>3 DEF Begin
<1>4. CASE BuildRelease \/ CreateBackup \/ Capture \/ WriteSnapshot
           \/ MarkPrepared \/ MarkStopping
  BY <1>4 DEF BuildRelease, CreateBackup, Capture, WriteSnapshot, MarkPrepared,
     MarkStopping, Mark
<1>5. CASE MarkActivating \/ ActivateCurrent \/ MarkVerifying \/ HealthCheck
           \/ WriteState
  BY <1>5 DEF MarkActivating, MarkVerifying, HealthCheck, WriteState,
     ActivateCurrent, Mark
<1>6. CASE MarkCommitted \/ RbDone \/ RcMark \/ AbortMark \/ RollBackFails
           \/ RecoverRefused \/ RecoverFails \/ Refuse \/ Crash
  BY <1>6 DEF MarkCommitted, RbDone, RcMark, AbortMark, RollBackFails,
     RecoverRefused, RecoverFails, Refuse, Crash, Finish, FinishRecovery, LeaveLock
<1>7. CASE Stop \/ RbStop
  BY <1>7, <1>a, StartedRuns DEF Stop, RbStop, StopService
<1>8. CASE Register("register", "start") \/ Register("rb_register", "rb_start")
  <2>1. svc'.running = svc.running
    BY <1>8, <1>a, Running DEF Register
  <2> QED
    BY <1>8, <2>1, <1>e DEF Register
<1>9. CASE Start("start", "mark_verifying") \/ Start("rb_start", "rb_health")
  <2>1. svc'.running = current
    BY <1>9, <1>a, StartedRuns DEF Start, StartService
  <2> QED
    BY <1>9, <1>b, <1>e, <2>1 DEF Start
<1>10. CASE StepFails \/ ReleaseExists
  BY <1>10 DEF StepFails, ReleaseExists
<1>11. CASE Abort \/ RcUnit
  <2>1. \/ mem.before = None /\ UNCHANGED svc
        \/ mem.before # None /\ RestoreBefore(mem.before)
        \/ pc' = "abort_mark_unrestored"
    BY <1>11 DEF Abort, RcUnit
  <2>2. ASSUME mem.before # None, RestoreBefore(mem.before)
        PROVE  (svc'.running # None) = mem.before.active
    <3>1. mem.before \in Before
      BY <2>2, <1>11, <1>b, <1>d DEF Abort, RcUnit
    <3> QED
      BY <2>2, <3>1, <1>a, RestoredRuns DEF Active, Before
  <2> QED
    BY <1>11, <2>1, <2>2 DEF Abort, RcUnit, Active
<1>12. CASE RbMark \/ MoveDataAside \/ ClearRelease \/ CopyRelease \/ SeedData
  BY <1>12, <1>e DEF RbMark, Mark, MoveDataAside, ClearRelease, CopyRelease,
     SeedData, WholeInv, HolderInv
<1>13. CASE RestoreUnit
  <2>1. svc'.running = svc.running
    BY <1>13, <1>a, <1>b, <1>d, Running DEF RestoreUnit, Before
  <2> QED
    BY <1>13, <2>1, <1>e DEF RestoreUnit
<1>14. CASE RestoreCurrent
  BY <1>14 DEF RestoreCurrent
<1>15. CASE RbHealth \/ RbState
  BY <1>15 DEF RbHealth, RbState
<1>16. CASE RecoverPlan
  BY <1>16, <1>e DEF RecoverPlan
<1>17. CASE RcClean
  BY <1>17 DEF RcClean, Active
<1>18. CASE Reboot
  BY <1>18 DEF Reboot, LeaveLock
<1>19. CASE Operator
  <2>1. pc \in {"idle", "command"}
    BY <1>19 DEF Operator, WholeInv, PhaseInv, HolderInv, Unfinished, IsTerminal,
       Early, Late, RollBackSteps, TypeInv, TypeOK, Pcs
  <2> QED
    BY <1>19, <2>1 DEF Operator
<1> QED
  BY <1>1, <1>2, <1>3, <1>4, <1>5, <1>6, <1>7, <1>8, <1>9, <1>10, <1>11, <1>12,
     <1>13, <1>14, <1>15, <1>16, <1>17, <1>18, <1>19
  DEF Next, Progress, Forward, RollBack, RecoverSwitch

(* The steps that write a terminal phase. *)
FailingStep ==
  /\ MarkPhase("failed")
  /\ RcMark \/ AbortMark \/ (RollBackFails /\ pc = "rb_health" /\ mem.backup)

(* A step begins a switch, ends it, leaves the transaction file, the link    *)
(* and the state file alone, or keeps the switch open.                       *)
LEMMA StepKinds ==
  TypeInv /\ WholeInv /\ [Next]_vars =>
    \/ \E target \in Versions : Begin(target)
    \/ MarkCommitted \/ RbDone \/ FailingStep
    \/ UNCHANGED <<tx, current, state>>
    \/ /\ Unfinished /\ Unfinished'
       /\ tx'.from = tx.from /\ tx'.target = tx.target
<1> DEFINE Still == UNCHANGED <<tx, current, state>>
           Open == /\ Unfinished /\ Unfinished'
                   /\ tx'.from = tx.from /\ tx'.target = tx.target
<1> SUFFICES ASSUME TypeInv, WholeInv, [Next]_vars
             PROVE  \/ \E target \in Versions : Begin(target)
                    \/ MarkCommitted \/ RbDone \/ FailingStep \/ Still \/ Open
  BY Zenon
<1> USE DEF diskVars, hostVars, procVars, boundVars, Goto
<1>b. mem # None => mem \in Transactions
  BY DEF TypeInv, TypeOK
<1>d. pc \notin {"idle", "command"} =>
        /\ mem # None /\ tx # None
        /\ mem.from = tx.from /\ mem.target = tx.target
  BY DEF WholeInv, HolderInv
<1>e. pc \in PreActivation \cup Activated \cup RollBackSteps => Unfinished
  BY <1>d DEF WholeInv, PhaseInv, Unfinished, IsTerminal, PreActivation,
     Activated, RollBackSteps, Late
<1>1. CASE UNCHANGED vars
  BY <1>1 DEF vars
<1>2. ASSUME NEW holder \in {"cli", "daemon"}, Acquire(holder) PROVE Still
  BY <1>2 DEF Acquire
<1>3. CASE BuildRelease \/ CreateBackup \/ Capture \/ WriteSnapshot \/ Stop
           \/ Register("register", "start") \/ Start("start", "mark_verifying")
           \/ HealthCheck \/ StepFails \/ ReleaseExists \/ Abort
  BY <1>3 DEF BuildRelease, CreateBackup, Capture, WriteSnapshot, Stop, Register,
     Start, HealthCheck, StepFails, ReleaseExists, Abort
<1>4. CASE MarkPrepared \/ MarkStopping \/ MarkActivating \/ MarkVerifying
           \/ RbMark
  <2>1. ASSUME NEW p \in Phases, ~IsTerminal(p), MarkPhase(p),
               pc \in PreActivation \cup Activated \cup RollBackSteps
        PROVE  Open
    BY <2>1, <1>b, <1>d, <1>e, Marked DEF Unfinished, PreActivation, Activated,
       RollBackSteps
  <2> QED
    BY <1>4, <2>1 DEF MarkPrepared, MarkStopping, MarkActivating, MarkVerifying,
       RbMark, Mark, Phases, IsTerminal, PreActivation, Activated, RollBackSteps
<1>5. CASE ActivateCurrent \/ WriteState \/ RestoreCurrent \/ RbState
  BY <1>5, <1>e DEF ActivateCurrent, WriteState, RestoreCurrent, RbState,
     Unfinished, PreActivation, Activated, RollBackSteps
<1>6. CASE RbStop \/ MoveDataAside \/ ClearRelease \/ CopyRelease \/ SeedData
           \/ RestoreUnit \/ Register("rb_register", "rb_start")
           \/ Start("rb_start", "rb_health") \/ RbHealth
  BY <1>6 DEF RbStop, MoveDataAside, ClearRelease, CopyRelease, SeedData,
     RestoreUnit, Register, Start, RbHealth
<1>7. CASE AbortMark \/ RollBackFails
  BY <1>7 DEF AbortMark, RollBackFails, FailingStep
<1>8. CASE RcMark
  BY <1>8 DEF RcMark, FailingStep
<1>9. CASE RecoverPlan \/ RecoverRefused \/ RcUnit \/ RcClean \/ RecoverFails
           \/ Refuse \/ Crash \/ Reboot \/ Operator
  BY <1>9 DEF RecoverPlan, RecoverRefused, RcUnit, RcClean, RecoverFails,
     Refuse, Crash, Reboot, Operator
<1> QED
  BY <1>1, <1>2, <1>3, <1>4, <1>5, <1>6, <1>7, <1>8, <1>9
  DEF Next, Progress, Forward, RollBack, RecoverSwitch

(* The step that ends a switch finds the service as the end promises it. *)
LEMMA PromisedStep ==
  ASSUME TypeInv, WholeInv, ServiceInv, [Next]_vars, Unfinished, ~Unfinished'
  PROVE  /\ tx'.phase = "committed" => svc'.running = tx.target
         /\ tx'.phase = "rolled_back" /\ tx.backup => svc'.running = tx.from
         /\ tx'.phase = "rolled_back" /\ ~tx.backup =>
              (svc'.running # None) = tx.before.active
         /\ /\ tx'.phase = "failed" /\ tx'.before # None
            /\ tx.phase # "rolling_back" /\ outcome' # "rollback_failed"
            => (svc'.running # None) = tx'.before.active
<1> USE DEF diskVars, hostVars, procVars, boundVars, Goto
<1>b. mem # None => /\ mem \in Transactions
                    /\ mem.from \in Versions
                    /\ mem.before \in Before \cup {None}
  BY TransactionFields DEF TypeInv, TypeOK
<1>d. pc \notin {"idle", "command"} =>
        /\ mem # None /\ tx # None
        /\ mem.from = tx.from /\ mem.target = tx.target
        /\ tx.phase # "preparing" => mem.backup = tx.backup /\ mem.before = tx.before
  BY DEF WholeInv, HolderInv
<1>1. CASE MarkCommitted
  <2>1. tx'.phase = "committed" /\ svc' = svc /\ svc.running = tx.target
    BY <1>1, <1>b, <1>d, Marked DEF MarkCommitted, ServiceInv, Phases
  <2> QED
    BY <2>1
<1>2. CASE RbDone
  <2>1. tx'.phase = "rolled_back" /\ svc' = svc
    BY <1>2, <1>b, <1>d, Marked DEF RbDone, Phases
  <2>2. mem.backup = tx.backup /\ mem.before = tx.before /\ mem.from = tx.from
    BY <1>2, <1>d DEF RbDone, WholeInv, PhaseInv, RollBackSteps
  <2>3. /\ mem.backup \/ mem.before # None
        /\ svc.running = IF mem.backup \/ mem.before.active THEN mem.from ELSE None
        /\ mem.before # None => mem.before.active \in BOOLEAN
    BY <1>2, <1>b, <1>d DEF RbDone, ServiceInv, Before
  <2> QED
    BY <2>1, <2>2, <2>3, <1>2, <1>b, <1>d DEF RbDone
<1>3. CASE FailingStep
  <2>1. /\ pc \notin {"idle", "command"} /\ svc' = svc
        /\ \/ pc \in {"abort_mark", "rc_mark"}
           \/ pc = "abort_mark_unrestored" /\ lock = "cli"
              /\ outcome' = "rollback_failed"
           \/ pc = "rb_health"
    BY <1>3 DEF FailingStep, RcMark, AbortMark, RollBackFails, ServiceInv, Finish
  <2>2. tx'.phase = "failed" /\ tx'.before = mem.before
    BY <1>3, <2>1, <1>b, <1>d, Marked DEF FailingStep, Phases
  <2>3. pc = "rb_health" => tx.phase = "rolling_back"
    BY DEF WholeInv, PhaseInv
  <2> QED
    BY <2>1, <2>2, <2>3 DEF ServiceInv, Active
<1>4. ASSUME NEW target \in Versions, Begin(target) PROVE FALSE
  BY <1>4 DEF Begin
<1> QED
  BY <1>1, <1>2, <1>3, <1>4, StepKinds DEF Unfinished

-----------------------------------------------------------------------------
(* A switch looks atomic *)

(* The first state is one of AtomicDeployment. *)
LEMMA AtomicInit == Init => Deployed!Init
  BY DEF Init, Deployed!Init, Unfinished, LinkedVersion, RecordedVersion,
     OpenTarget, LastResult

(* Every step is a step of AtomicDeployment, or changes nothing there. *)
LEMMA AtomicStep ==
  TypeInv /\ WholeInv /\ WholeInv' /\ [Next]_vars => [Deployed!Next]_(Deployed!vars)
<1> SUFFICES ASSUME TypeInv, WholeInv, WholeInv', [Next]_vars
             PROVE  [Deployed!Next]_(Deployed!vars)
  OBVIOUS
<1> USE DEF Deployed!vars, Deployed!Next, Deployed!End, LinkedVersion,
            RecordedVersion, OpenTarget, LastResult
<1>a. /\ tx # None => tx.target \in Versions /\ tx.target # None
      /\ mem # None => mem \in Transactions
      /\ state \in Versions
  BY TransactionFields DEF TypeInv, TypeOK
<1>d. pc \notin {"idle", "command"} =>
        /\ mem # None /\ tx # None
        /\ mem.from = tx.from /\ mem.target = tx.target
        /\ mem.noBackup = tx.noBackup
  BY DEF WholeInv, HolderInv
<1>1. ASSUME NEW target \in Versions, Begin(target) PROVE Deployed!Begin
  <2>1. /\ ~Unfinished /\ current = state
        /\ Unfinished' /\ tx'.from = state /\ tx'.target = target
    BY <1>1, <1>a, Begun DEF Begin, LoadState, CheckCurrent, Unfinished, IsTerminal
  <2> QED
    BY <2>1, <1>a DEF Deployed!Begin
<1>2. CASE MarkCommitted
  <2>1. /\ Unfinished /\ ~Unfinished'
        /\ tx' # None /\ tx'.phase = "committed" /\ tx'.target = tx.target
    BY <1>2, <1>a, <1>d, Marked DEF MarkCommitted, WholeInv, PhaseInv, Phases,
       Unfinished, IsTerminal
  <2>2. current' = tx.target /\ state' = tx.target
    BY <2>1 DEF WholeInv, FilesInv, EndsWhole, LinkEnds
  <2>3. Deployed!Commit
    BY <2>1, <2>2, <1>a DEF Deployed!Commit, Unfinished
  <2> QED
    BY <2>3
<1>3. CASE RbDone
  <2>1. /\ Unfinished /\ ~Unfinished'
        /\ tx' # None /\ tx'.phase = "rolled_back" /\ tx'.from = tx.from
    BY <1>3, <1>a, <1>d, Marked DEF RbDone, WholeInv, PhaseInv, RollBackSteps,
       Phases, Unfinished, IsTerminal
  <2>2. current' = tx.from /\ (~tx'.noBackup => state' = tx.from)
    BY <2>1 DEF WholeInv, FilesInv, EndsWhole, LinkEnds
  <2>3. Deployed!RollBack
    BY <2>1, <2>2, <1>a DEF Deployed!RollBack, Unfinished
  <2> QED
    BY <2>3
<1>4. CASE FailingStep
  <2>0. /\ pc \in {"rc_mark", "abort_mark", "abort_mark_unrestored", "rb_health"}
        /\ state' = state
        /\ MarkPhase("failed")
    BY <1>4 DEF FailingStep, RcMark, AbortMark, RollBackFails
  <2>1. /\ Unfinished /\ ~Unfinished'
        /\ tx' # None /\ tx'.phase = "failed"
        /\ tx'.from = tx.from /\ tx'.noBackup = tx.noBackup
    BY <2>0, <1>a, <1>d, Marked DEF WholeInv, PhaseInv, RollBackSteps, Phases,
       Early, Unfinished, IsTerminal
  <2>2. current' = tx.from
    BY <2>1 DEF WholeInv, FilesInv, EndsWhole, LinkEnds
  <2>3. ~tx.noBackup => state' \in {tx.from, tx.target}
    BY <2>0, <2>1, <1>d DEF WholeInv, FilesInv, PhaseInv, Late
  <2>4. Deployed!Fail
    BY <2>1, <2>2, <2>3, <1>a DEF Deployed!Fail, Unfinished
  <2> QED
    BY <2>4
<1>5. CASE UNCHANGED <<tx, current, state>>
  BY <1>5 DEF Unfinished
<1>6. CASE /\ Unfinished /\ Unfinished'
           /\ tx'.from = tx.from /\ tx'.target = tx.target
  BY <1>6
<1> QED
  BY <1>1, <1>2, <1>3, <1>4, <1>5, <1>6, StepKinds

(* Whatever crashes, reboots and errors come between its steps, a switch    *)
(* implements the atomic deployment its caller sees, and the step that ends *)
(* it leaves the service as promised (switch_version, rollback_switch,      *)
(* recover_switch).                                                         *)
THEOREM SwitchAtomic == Spec => SwitchIsAtomic
<1>1. Init => ServiceInv
  BY DEF Init, ServiceInv, PreActivation, Activated
<1>2. TypeInv /\ WholeInv /\ ServiceInv /\ [Next]_vars =>
        [ Unfinished /\ ~Unfinished' =>
            /\ tx'.phase = "committed" => svc'.running = tx.target
            /\ tx'.phase = "rolled_back" /\ tx.backup => svc'.running = tx.from
            /\ tx'.phase = "rolled_back" /\ ~tx.backup =>
                 (svc'.running # None) = tx.before.active
            /\ /\ tx'.phase = "failed" /\ tx'.before # None
               /\ tx.phase # "rolling_back" /\ outcome' # "rollback_failed"
               => (svc'.running # None) = tx'.before.active ]_vars
  BY PromisedStep
<1> QED
  BY TypeInit, TypeStep, WholeInit, WholeStep, ServiceStep, AtomicInit,
     AtomicStep, <1>1, <1>2, PTL
  DEF Spec, SwitchIsAtomic, ServiceAsPromised, Deployed!Spec

=============================================================================
