------------------------------ MODULE Lifecycle ------------------------------
(***************************************************************************)
(* The operations of lkit that run inside one transaction besides switch   *)
(* and takeover: first installation, restore from a backup, uninstall, and *)
(* the repairs of pages and backend.  Each is a script of steps; every     *)
(* step is one change of the disk or of the host,                          *)
(* and an error, the death of the process or a reboot may come between any *)
(* two.  What an error does depends on the script and on whether           *)
(* "activating" has been passed; what recovery does depends only on the    *)
(* transaction file.                                                       *)
(*                                                                         *)
(* Contents (a data directory, a backend, pages) are numbered by the       *)
(* operation that made them, 0 standing for an absent one.                 *)
(***************************************************************************)
EXTENDS Naturals, Sequences, FiniteSets, LifecycleScripts

CONSTANTS Versions,   \* stable versions of Landscape
          MaxOps, MaxCrashes, MaxErrors

(* 0 stands for no version. *)
ASSUME LifecycleAssumption == 0 \notin Versions /\ MaxOps \in Nat

VARIABLES
  disk,     \* what survives a crash: install root, host, transaction, backups
  proc,     \* the holder of the install lock and its place in its script
  before,   \* disk when the transaction began
  kept,     \* the running uninstall was given --keep-data
  hurt,     \* a rollback, a recovery or the last mark met an error
  robbed,   \* the user deleted the backup of the unfinished transaction
  ops, crashes, errors

history == <<before, kept, hurt, robbed>>
bounds == <<ops, crashes, errors>>
vars == <<disk, proc, history, bounds>>

-----------------------------------------------------------------------------
(* The disk *)

NoRelease == [bin |-> 0, pages |-> 0, zip |-> 0]
Whole(release) == 0 \notin {release.bin, release.pages, release.zip}

Phases == {"preparing", "prepared", "stopping", "activating", "verifying",
           "rolling_back", "committed", "rolled_back", "failed"}
Terminal == {"committed", "rolled_back", "failed"}
Operations == {"install", "restore", "uninstall", "repair_static", "repair_binary"}

tx == disk.tx
Unfinished == tx.phase \notin Terminal

(* load_state: the version it records is the one current points to. *)
Loaded ==
  /\ disk.state # 0
  /\ disk.current = disk.state
  /\ disk.releases[disk.current] # NoRelease

(* A backup holds the release and the configuration of what runs. *)
Lkb(by) == [by |-> by, version |-> disk.state, release |-> disk.releases[disk.state]]

Stored(by) == \E lkb \in disk.store : lkb.by = by

(* What each operation records of versions; 0 is an absent field. *)
FromOf(op) == IF op \in {"restore", "uninstall", "repair_binary"} THEN disk.state ELSE 0
TargetOf(op, version) == CASE op \in {"install", "restore"} -> version
                           [] op = "repair_binary"          -> disk.state
                           [] OTHER                         -> 0

NoBefore == [kept |-> FALSE, reg |-> FALSE, on |-> FALSE, run |-> FALSE, resolv |-> "host"]

NewTransaction(op, version) ==
  [id |-> ops + 2, op |-> op, phase |-> "preparing", from |-> FromOf(op),
   target |-> TargetOf(op, version), backup |-> 0, noBackup |-> FALSE,
   restores |-> FALSE, statics |-> FALSE, before |-> NoBefore]

-----------------------------------------------------------------------------
(* The rules a transaction file must satisfy to be read again *)

Early(t) == t.phase \in {"preparing", "failed"}
HasBackup(t) == t.backup # 0

(* A backup and its absence exclude each other. *)
OneProtection(t) == ~(t.noBackup /\ HasBackup(t))

ValidInstall(t) ==
  /\ t.from = 0 /\ t.target # 0
  /\ ~HasBackup(t) /\ ~t.restores /\ ~t.statics

ValidRestore(t) ==
  /\ t.from # 0 /\ t.target # 0
  /\ ~t.statics /\ OneProtection(t)
  /\ t.restores \/ Early(t)

ValidUninstall(t) ==
  /\ t.from # 0 /\ t.target = 0
  /\ ~t.restores /\ ~t.statics /\ OneProtection(t)
  /\ t.noBackup \/ HasBackup(t) \/ Early(t)

(* Of the backend, of the pages, or of what is observed. *)
ValidRepair(t) ==
  /\ HasBackup(t) => t.from # 0 /\ t.target # 0
  /\ t.statics => t.from = 0 /\ t.target = 0
  /\ ~t.restores /\ ~t.noBackup
  /\ \/ ~HasBackup(t) /\ ~t.statics /\ t.from = 0
     \/ HasBackup(t) # t.statics
     \/ Early(t)

Valid(t) ==
  CASE t.op = "install"   -> ValidInstall(t)
    [] t.op = "restore"   -> ValidRestore(t)
    [] t.op = "uninstall" -> ValidUninstall(t)
    [] OTHER              -> ValidRepair(t)

-----------------------------------------------------------------------------
(* The holder of the lock *)

Idle == [script |-> "idle", i |-> 1, keep |-> FALSE]
Free == proc.script = "idle"
Runs(script, keep) == [script |-> script, i |-> 1, keep |-> keep]

At(step) == ~Free /\ Scripts[proc.script][proc.i] = step

Advanced ==
  IF proc.i = Len(Scripts[proc.script]) THEN Idle ELSE [proc EXCEPT !.i = @ + 1]

(* The holder of the lock takes one step and leaves the disk like this. *)
Do(step, after) ==
  /\ At(step)
  /\ disk' = after
  /\ proc' = Advanced
  /\ UNCHANGED <<history, bounds>>

-----------------------------------------------------------------------------
(* The service *)

Stopped(d) == [d EXCEPT !.svc.run = FALSE]

(* Landscape makes data/ if it is missing and writes resolv.conf. *)
Fresh == MaxOps + 2
Started(d) ==
  IF d.svc.run THEN d
  ELSE [d EXCEPT !.svc.run = TRUE, !.resolv = "router",
                 !.data = IF @ = 0 THEN Fresh ELSE @]

(* The unit starts current/landscape-webserver, pages or no pages. *)
CanStart(d) == d.current # 0 /\ d.releases[d.current].bin # 0

Registered(d, was) == [d EXCEPT !.svc.reg = was.reg, !.svc.on = was.on]

(* restore_before: registration, enablement, then start or stop. *)
ServiceBack(d, was) ==
  IF was.run THEN Started(Registered(d, was)) ELSE Stopped(Registered(d, was))

(* resolv.conf is copied into the transaction's directory, and back. *)
ResolvSaved == disk.resolv
ResolvBack(d) == [d EXCEPT !.resolv = tx.before.resolv]

Capture == Do("capture", [disk EXCEPT !.tx.before =
             [kept |-> TRUE, reg |-> disk.svc.reg, on |-> disk.svc.on,
              run |-> disk.svc.run, resolv |-> ResolvSaved]])

Stop == Do("stop", Stopped(disk))
Register == Do("register", [disk EXCEPT !.svc.reg = TRUE, !.svc.on = TRUE])
Start == CanStart(disk) /\ Do("start", Started(disk))
Health == disk.svc.run /\ Do("health", disk)
Deactivate == Do("deactivate", [disk EXCEPT !.svc = [reg |-> FALSE, on |-> FALSE, run |-> FALSE]])

(* Mutant: registration and enablement only. *)
PreActivationUnstarted ==
  Do("service_back", IF tx.before.kept THEN Registered(disk, tx.before) ELSE disk)

(* Back to what was captured; nothing has been captured yet before that. *)
PreActivationBack ==
  /\ tx.before.run => CanStart(disk)
  /\ Do("service_back", IF tx.before.kept THEN ServiceBack(disk, tx.before) ELSE disk)

HostBack ==
  /\ tx.before.run => CanStart(disk)
  /\ Do("host_back",
        IF tx.before.kept THEN ResolvBack(ServiceBack(disk, tx.before)) ELSE disk)

UnitBack == Do("unit_back", ResolvBack(Registered(disk, tx.before)))
StartBack ==
  /\ tx.before.run => CanStart(disk)
  /\ Do("start_back", IF tx.before.run THEN Started(disk) ELSE disk)
HealthBack ==
  /\ tx.before.run => disk.svc.run
  /\ Do("health_back", disk)

ServiceSteps ==
  \/ Capture \/ Stop \/ Register \/ Start \/ Health \/ Deactivate
  \/ PreActivationBack \/ HostBack \/ UnitBack \/ StartBack \/ HealthBack

-----------------------------------------------------------------------------
(* Backups *)

(* The protection backup: exported from the running instance. *)
Protected == [disk EXCEPT !.tx.backup = tx.id, !.store = @ \cup {Lkb(tx.id)}]

(* An export that fails is only a warning under --allow-no-backup. *)
Protect ==
  \/ disk.svc.run /\ Do("protect", Protected)
  \/ Do("protect", [disk EXCEPT !.tx.noBackup = TRUE])

Export == disk.svc.run /\ Do("export", Protected)

(* The backup to restore is recorded once it is verified. *)
Choose == Do("choose", [disk EXCEPT !.tx.restores = TRUE])

WriteSnapshot == Do("snapshot", [disk EXCEPT !.snap = disk.state])

(* rollback_switch reads the .lkb after it has moved data/ away. *)
Extract == Stored(tx.backup) /\ Do("extract", disk)

BackupSteps == Protect \/ Export \/ Choose \/ WriteSnapshot \/ Extract

-----------------------------------------------------------------------------
(* Releases, link, data and state file *)

MadeBy(id) == [bin |-> id, pages |-> id, zip |-> id]

Rebuilds == IF proc.script = "rollback_switch" THEN tx.from ELSE tx.target

(* What the backup in use holds: the one protecting this transaction, or   *)
(* the chosen one, whose files are new on this host.                       *)
Unpacked ==
  IF proc.script = "rollback_switch"
  THEN (CHOOSE lkb \in disk.store : lkb.by = tx.backup).release
  ELSE MadeBy(tx.id)

BuildRelease == Do("build", [disk EXCEPT !.releases[tx.target] =
                     IF @ = NoRelease THEN MadeBy(tx.id) ELSE @])

ClearRelease ==
  LET old == disk.releases[Rebuilds]
  IN  Do("clear_release",
         [disk EXCEPT !.replaced = IF old = NoRelease THEN @ ELSE old,
                      !.releases[Rebuilds] = NoRelease])

CopyRelease == Do("copy_release", [disk EXCEPT !.releases[Rebuilds] = Unpacked])

(* The release that was replaced comes back if it is of the same version. *)
SameVersion == tx.from = tx.target /\ disk.replaced # NoRelease
ReleaseRemoved ==
  Do("release_rm", IF SameVersion THEN [disk EXCEPT !.releases[tx.target] = NoRelease] ELSE disk)
ReleaseBack ==
  Do("release_mv", IF SameVersion
                   THEN [disk EXCEPT !.releases[tx.target] = disk.replaced,
                                     !.replaced = NoRelease]
                   ELSE disk)

RemoveTarget == Do("rm_target", [disk EXCEPT !.releases[tx.target] = NoRelease])
RemoveReleases == Do("rm_releases", [disk EXCEPT !.releases = [v \in Versions |-> NoRelease]])

Link == Do("link", [disk EXCEPT !.current = tx.target])
LinkBack == Do("link_back", [disk EXCEPT !.current = tx.from])
RemoveLink == Do("rm_link", [disk EXCEPT !.current = IF @ = tx.target THEN 0 ELSE @])
RemoveCurrent == Do("rm_current", [disk EXCEPT !.current = 0])

ReleaseSteps ==
  \/ BuildRelease \/ ClearRelease \/ CopyRelease \/ ReleaseRemoved \/ ReleaseBack
  \/ RemoveTarget \/ RemoveReleases \/ Link \/ LinkBack \/ RemoveLink \/ RemoveCurrent

(* data/ exists afterwards with nothing but landscape_init.toml in it, or   *)
(* as it was.                                                               *)
WriteInitConfig == Do("init", [disk EXCEPT !.data = IF @ = 0 THEN tx.id ELSE @])

(* Mutant: a later attempt overwrites what the first one put aside. *)
MoveDataAsideAgain == Do("move_aside", [disk EXCEPT !.aside = disk.data, !.data = Fresh])

MoveDataAside ==
  Do("move_aside", [disk EXCEPT !.aside = IF @ = 0 THEN disk.data ELSE @, !.data = Fresh])

Seed == Do("seed", [disk EXCEPT !.data = tx.id])

(* restore_previous_data, in two steps. *)
DataRemoved == Do("data_rm", IF disk.aside # 0 THEN [disk EXCEPT !.data = 0] ELSE disk)
DataBack ==
  Do("data_mv", IF disk.aside # 0 THEN [disk EXCEPT !.data = disk.aside, !.aside = 0] ELSE disk)

RemoveData == Do("rm_data", [disk EXCEPT !.data = IF proc.keep THEN @ ELSE 0])
RemoveInit == Do("rm_init", disk)

(* The directory of the transaction, and everything put aside in it. *)
RemoveTxDir == Do("rm_txdir", [disk EXCEPT !.aside = 0, !.replaced = NoRelease,
                                           !.saved = 0, !.snap = 0])

WriteState == Do("write_state", [disk EXCEPT !.state = IF tx.target = 0 THEN @ ELSE tx.target])

StateBack ==
  Do("state_back", [disk EXCEPT !.state =
       IF proc.script = "rollback_restore" THEN disk.snap ELSE tx.from])
RemoveState == Do("rm_state", [disk EXCEPT !.state = 0])

DataSteps ==
  \/ WriteInitConfig \/ MoveDataAside \/ Seed \/ DataRemoved \/ DataBack
  \/ RemoveData \/ RemoveInit \/ RemoveTxDir \/ WriteState \/ StateBack \/ RemoveState

-----------------------------------------------------------------------------
(* Repairs in place *)

Live(d) == d.releases[d.current]

(* Official pages renew static.zip; a custom frontend leaves it alone. *)
RefreshZip ==
  \/ Do("refresh_zip", [disk EXCEPT !.releases[disk.current].zip = tx.id])
  \/ Do("refresh_zip", disk)

SavePages == Do("save_pages", [disk EXCEPT !.saved = Live(disk).pages, !.tx.statics = TRUE])
PagesOut == Do("pages_out", [disk EXCEPT !.releases[disk.current].pages = 0])
PagesIn == Do("pages_in", [disk EXCEPT !.releases[disk.current].pages = tx.id])
PagesRemoved == Do("pages_rm", [disk EXCEPT !.releases[disk.current].pages = 0])
PagesBack == Do("pages_copy", [disk EXCEPT !.releases[disk.current].pages = disk.saved])

SaveBinary == Do("save_binary", [disk EXCEPT !.saved = Live(disk).bin])
ReplaceBinary == Do("replace_binary", [disk EXCEPT !.releases[tx.from].bin = tx.id])

RepairSteps ==
  \/ RefreshZip \/ SavePages \/ PagesOut \/ PagesIn \/ PagesRemoved \/ PagesBack
  \/ SaveBinary \/ ReplaceBinary

MarkPhase == \E phase \in Phases : Do(phase, [disk EXCEPT !.tx.phase = phase])

Step == ServiceSteps \/ BackupSteps \/ ReleaseSteps \/ DataSteps \/ RepairSteps \/ MarkPhase

-----------------------------------------------------------------------------
(* Commands *)

(* An install needs a host without install state and with free ports; every *)
(* other command a state it can load, a restore a backup that verifies.     *)
PortsFree == ~disk.svc.run
MayInstall == disk.state = 0 /\ PortsFree
MayRestore(version) == Loaded /\ \E lkb \in disk.store : lkb.version = version
MayUninstall == Loaded
MayRepair == Loaded

(* Checks, confirmation, begin. *)
Begin(op, version, keep) ==
  /\ Free /\ ~Unfinished /\ ops < MaxOps
  /\ CASE op = "install"   -> MayInstall
       [] op = "restore"   -> MayRestore(version)
       [] op = "uninstall" -> MayUninstall
       [] OTHER            -> MayRepair
  /\ keep => op = "uninstall"
  /\ disk' = [disk EXCEPT !.tx = NewTransaction(op, version), !.aside = 0,
                          !.replaced = NoRelease, !.saved = 0, !.snap = 0]
  /\ proc' = Runs(op, keep)
  /\ before' = disk /\ kept' = keep
  /\ hurt' = FALSE /\ robbed' = FALSE
  /\ ops' = ops + 1
  /\ UNCHANGED <<crashes, errors>>

(* lkit backup create, which recovers first and needs a running instance. *)
CreateBackup ==
  /\ Free /\ ~Unfinished /\ Loaded /\ disk.svc.run /\ ops < MaxOps
  /\ disk' = [disk EXCEPT !.store = @ \cup {Lkb(ops + 2)}]
  /\ ops' = ops + 1
  /\ UNCHANGED <<proc, history, crashes, errors>>

(* lkit backup delete takes the lock and looks at no transaction. *)
DeleteBackup(lkb) ==
  /\ Free /\ disk.state # 0
  /\ disk' = [disk EXCEPT !.store = @ \ {lkb}]
  /\ robbed' = (robbed \/ (Unfinished /\ lkb.by = tx.backup))
  /\ UNCHANGED <<proc, before, kept, hurt, bounds>>

(* The operator starts or stops the service. *)
Operator ==
  /\ Free /\ ~Unfinished /\ disk.svc.reg /\ CanStart(disk)
  /\ disk' = IF disk.svc.run THEN Stopped(disk) ELSE Started(disk)
  /\ UNCHANGED <<proc, history, bounds>>

-----------------------------------------------------------------------------
(* Errors, crashes, recovery *)

Passed(step) == \E j \in 1..(proc.i - 1) : Scripts[proc.script][j] = step
Activated == Passed("activating")

(* What an operation does when a step of it returns an error.  Up to a      *)
(* point restore and uninstall just return, and leave the rest to recovery. *)
Handler ==
  CASE proc.script = "install"       -> "cleanup"
    [] proc.script = "restore"       -> IF Activated THEN "rollback_restore"
                                        ELSE IF Passed("prepared") THEN "abort" ELSE "idle"
    [] proc.script = "repair_static" -> IF Activated THEN "static_back" ELSE "fail"
    [] proc.script = "repair_binary" -> IF Activated THEN "rollback_switch" ELSE "fail"
    [] proc.script = "uninstall"     -> IF Passed("capture") /\ ~At("committed")
                                        THEN "fail" ELSE "idle"

(* A rollback that fails marks the transaction failed, except where only a  *)
(* mark fails, in rollback_switch outside its health check, and in recovery. *)
GivesUp ==
  CASE proc.script \in {"cleanup", "abort"} -> IF At("failed") THEN "idle" ELSE "fail"
    [] proc.script = "rollback_restore" -> IF At("rolling_back") THEN "idle" ELSE "fail"
    [] proc.script = "static_back"      -> IF At("rolled_back") THEN "idle" ELSE "fail"
    [] proc.script = "rollback_switch"  -> IF At("health_back") THEN "fail" ELSE "idle"
    [] OTHER                            -> "idle"

(* Removals whose result is ignored do not fail. *)
MayFail == ~Free /\ ~(\E s \in {"rm_txdir", "rm_target", "rm_link", "rm_init", "pages_rm"} : At(s))

StepFails ==
  /\ MayFail
  /\ errors < MaxErrors /\ errors' = errors + 1
  /\ proc' = Runs(IF proc.script \in Operations THEN Handler ELSE GivesUp, FALSE)
  /\ hurt' = (hurt \/ proc.script \notin Operations \/ At("committed"))
  /\ UNCHANGED <<disk, before, kept, robbed, ops, crashes>>

(* A backup that cannot be made, or is not there, stops the operation. *)
NoBackupPossible ==
  \/ At("protect")
  \/ At("export") /\ ~disk.svc.run
  \/ At("extract") /\ ~Stored(tx.backup)

BackupMissing ==
  /\ NoBackupPossible
  /\ proc' = Runs(IF proc.script \in Operations THEN "fail" ELSE "idle", FALSE)
  /\ hurt' = (hurt \/ At("extract"))
  /\ UNCHANGED <<disk, before, kept, robbed, bounds>>

Crash ==
  /\ ~Free
  /\ crashes < MaxCrashes /\ crashes' = crashes + 1
  /\ proc' = Idle
  /\ UNCHANGED <<disk, history, ops, errors>>

(* init starts the service if it is enabled and there is something to run. *)
Reboot ==
  /\ crashes < MaxCrashes /\ crashes' = crashes + 1
  /\ proc' = Idle
  /\ disk' = IF disk.svc.reg /\ disk.svc.on /\ CanStart(disk)
             THEN Started(Stopped(disk)) ELSE Stopped(disk)
  /\ UNCHANGED <<history, ops, errors>>

(* Mutant: a transaction in "stopping" is left alone. *)
EarlyOrIgnored(script) ==
  CASE tx.phase = "preparing" -> "clean"
    [] tx.phase = "prepared"  -> "pre_activation"
    [] tx.phase = "stopping"  -> "idle"
    [] OTHER                  -> script

EarlyOr(script) ==
  CASE tx.phase = "preparing"              -> "clean"
    [] tx.phase \in {"prepared", "stopping"} -> "pre_activation"
    [] OTHER                               -> script

(* recover_interrupted: from the transaction file alone. *)
RecoverPlan ==
  CASE tx.op = "install"       -> IF Loaded /\ disk.state = tx.target THEN "commit" ELSE "cleanup"
    [] tx.op = "uninstall"     -> IF tx.phase = "preparing" THEN "fail" ELSE "complete"
    [] tx.op = "restore"       -> EarlyOr("rollback_restore")
    [] tx.op = "repair_binary" -> EarlyOr(IF HasBackup(tx) THEN "rollback_switch" ELSE "fail")
    [] tx.op = "repair_static" -> EarlyOr(IF tx.statics THEN "recover_static" ELSE "fail")

(* The next command, or the daemon's recovery cycle, finds it unfinished. *)
Recover ==
  /\ Free /\ Unfinished
  /\ Valid(tx)
  /\ proc' = Runs(RecoverPlan, FALSE)
  /\ UNCHANGED <<disk, history, bounds>>

-----------------------------------------------------------------------------
(* An installation that runs, or an empty host. *)
Init ==
  /\ \E version \in Versions, run \in BOOLEAN, empty \in BOOLEAN :
       disk = [current  |-> IF empty THEN 0 ELSE version,
               releases |-> [v \in Versions |-> IF v = version /\ ~empty
                                                THEN MadeBy(1) ELSE NoRelease],
               data     |-> IF empty THEN 0 ELSE 1,
               state    |-> IF empty THEN 0 ELSE version,
               svc      |-> [reg |-> ~empty, on |-> ~empty, run |-> run /\ ~empty],
               resolv   |-> IF run /\ ~empty THEN "router" ELSE "host",
               tx       |-> [id |-> 1, op |-> "install", phase |-> "committed",
                             from |-> 0, target |-> version, backup |-> 0,
                             noBackup |-> FALSE, restores |-> FALSE,
                             statics |-> FALSE, before |-> NoBefore],
               aside |-> 0, replaced |-> NoRelease, saved |-> 0, snap |-> 0,
               store |-> {[by |-> 1, version |-> v, release |-> MadeBy(1)] : v \in Versions}]
  /\ proc = Idle
  /\ before = disk /\ kept = FALSE
  /\ hurt = FALSE /\ robbed = FALSE
  /\ ops = 0 /\ crashes = 0 /\ errors = 0

Commands ==
  \/ \E op \in Operations, version \in Versions, keep \in BOOLEAN : Begin(op, version, keep)
  \/ CreateBackup
  \/ \E lkb \in disk.store : DeleteBackup(lkb)
  \/ Operator

Next == Step \/ Commands \/ StepFails \/ BackupMissing \/ Crash \/ Reboot \/ Recover

Spec == Init /\ [][Next]_vars

(* The holder of the lock goes on, and the daemon recovers what it finds. *)
FairSpec == Spec /\ WF_vars(Step \/ BackupMissing \/ Recover)

-----------------------------------------------------------------------------
(* Properties *)

Stamps == 0..(MaxOps + 2)
Releases == [bin: Stamps, pages: Stamps, zip: Stamps]

(* Types; a script is never past its end. *)
TypeOK ==
  /\ disk.current \in Versions \cup {0} /\ disk.state \in Versions \cup {0}
  /\ disk.snap \in Versions \cup {0}
  /\ disk.releases \in [Versions -> Releases] /\ disk.replaced \in Releases
  /\ {disk.data, disk.aside, disk.saved} \subseteq Stamps
  /\ disk.svc \in [reg: BOOLEAN, on: BOOLEAN, run: BOOLEAN]
  /\ disk.resolv \in {"host", "router"}
  /\ tx.phase \in Phases /\ tx.op \in Operations
  /\ proc.script \in DOMAIN Scripts
  /\ ~Free => proc.i \in 1..Len(Scripts[proc.script])

Quiet == Free /\ ~Unfinished

(* Whatever an operation other than uninstall does, and wherever it is cut  *)
(* off, the data directory it found is in data/ or in the directory of the  *)
(* transaction.                                                             *)
UserDataKept ==
  tx.op # "uninstall" /\ before.data # 0 => before.data \in {disk.data, disk.aside}

(* Every transaction file that may be found again passes the validation     *)
(* that reads it: no operation locks itself out of its own recovery.        *)
TransactionReadable == Valid(tx)

(* A root as commands leave it that met no error while undoing: releases    *)
(* are whole, and it is empty or registered and enabled.                    *)
Sound(d) ==
  /\ \A v \in Versions : d.releases[v] = NoRelease \/ Whole(d.releases[v])
  /\ IF d.state = 0 THEN d.current = 0 ELSE d.svc.reg /\ d.svc.on

Installed(version) ==
  /\ disk.state = version /\ disk.current = version
  /\ Whole(disk.releases[version])
  /\ disk.data # 0 \/ before.data = 0
  /\ disk.svc.reg \/ (tx.op = "repair_static" /\ ~before.svc.reg)

AsBefore ==
  /\ disk.state = before.state /\ disk.current = before.current
  /\ \A v \in {disk.current} \ {0} :
       [disk.releases[v] EXCEPT !.zip = 0] = [before.releases[v] EXCEPT !.zip = 0]
  /\ disk.svc.reg = before.svc.reg /\ disk.svc.on = before.svc.on

Gone == /\ disk.state = 0 /\ disk.current = 0 /\ ~disk.svc.reg /\ ~disk.svc.run
        /\ \A v \in Versions : disk.releases[v] = NoRelease

Committed == IF tx.op = "uninstall" THEN Gone
             ELSE Installed(IF tx.target = 0 THEN before.state ELSE tx.target)

(* A transaction ends one way: committed with the whole installation it     *)
(* promised (or nothing, after an uninstall), otherwise with the link, the  *)
(* state file, the release and the registration it found.  Excepted are an  *)
(* uninstall that failed, a rollback that failed itself, and a commit whose *)
(* mark failed, which recovery may find half undone.                        *)
EndsAsMarked ==
  Quiet /\ ops > 0 /\ Sound(before) =>
    \/ tx.phase = "committed" /\ (Committed \/ hurt \/ tx.id = 1)
    \/ tx.phase = "rolled_back" /\ AsBefore
    \/ tx.phase = "failed" /\ (AsBefore \/ hurt \/ tx.op = "uninstall")

(* Transactions on the install root keep the data directory they found, end *)
(* one way (see EndsAsMarked), and leave transaction files that pass the    *)
(* validation that reads them again (move_data_aside, validate_transaction, *)
(* recover_interrupted).                                                    *)
RootInvariant == TypeOK /\ UserDataKept /\ TransactionReadable /\ EndsAsMarked

(* An uninstall --keep-data leaves data/ where it is.                       *)
KeepDataKept == tx.op = "uninstall" /\ kept => disk.data = before.data

(* An uninstall or a backend repair that meets an error once it has begun   *)
(* to stop the router is marked failed as it stands: nothing is undone.     *)
LeftAsItStands ==
  /\ proc.script = "fail"
  /\ tx.op \in {"uninstall", "repair_binary"}
  /\ tx.phase \in {"stopping", "activating"}

(* When a transaction ends rolled back or failed, a router that ran before  *)
(* it runs again, unless the rollback itself met an error or there was no   *)
(* rollback: the error came to an uninstall or a backend repair while the   *)
(* router was stopped (LeftAsItStands).  The same transaction cut off there *)
(* by a crash is undone or completed by recovery.                           *)
RouterRunsAgain ==
  [][ /\ Unfinished /\ disk'.tx.phase \in {"rolled_back", "failed"}
      /\ ~hurt /\ ~LeftAsItStands
      /\ Sound(before) /\ before.svc.run /\ before.svc.on
      => disk'.svc.run ]_vars

(* An unfinished transaction is ended by whoever finds it, unless the user   *)
(* has deleted the backup its rollback needs.                                *)
Settles == Unfinished ~> (~Unfinished \/ robbed)
=============================================================================
