------------------------------ MODULE Takeover ------------------------------
(***************************************************************************)
(* Taking over the host's network and giving it back: a first installation *)
(* with --takeover-network and a reinit, the units that roll an unconfirmed*)
(* one back (a timer, the service it starts and a boot service), network   *)
(* confirm, network rollback, and the daemon's recovery. Every command     *)
(* holds the install lock while it runs; it is killed, or the host reboots,*)
(* between any two of its steps.                                           *)
(***************************************************************************)
EXTENDS Naturals, FiniteSets

CONSTANTS
  None,
  HostServices,     \* the host's own network services
  MaxTx,            \* bound on transactions
  MaxCrashes,       \* bound on killed commands
  MaxReboots,       \* bound on reboots
  MaxErrors         \* bound on failing calls and health checks

ASSUME TakeoverBounds ==
  MaxTx \in Nat \ {0} /\ MaxCrashes \in Nat /\ MaxReboots \in Nat /\ MaxErrors \in Nat

Ids == 1..MaxTx
Units == {"timer", "boot"}
Configs == Ids \cup {None}
Jobs == {"install", "reinit", "confirm", "rollback", "recovery"}

Terminal == {"committed", "rolled_back", "failed"}
Phases == {"preparing", "prepared", "stopping", "activating", "verifying",
           "awaiting", "finalizing", "rolling_back"} \cup Terminal

(* The transaction file; had and unit are data/ and the router as it found  *)
(* them (unknown: not recorded yet), before the host services that were off *)
(* already, confirmed whether a confirm has got past its checks.            *)
TxType ==
  [id : Ids, kind : {"install", "reinit"}, phase : Phases, net : BOOLEAN, from : Configs,
   had : Configs, unit : {"unknown", "absent", "stopped", "running"}, before : SUBSET HostServices,
   confirmed : BOOLEAN]

ASSUME TakeoverNone ==
  None \notin Ids /\ None \notin Jobs /\ None \notin TxType /\ None \notin Ids \X Units

VARIABLES
  tx,               \* the last transaction file
  router,           \* the landscape-router service; queued: systemd starts it in this boot
  current,          \* the current link and the release it names exist
  data, previous,   \* the configuration, named for the transaction that wrote it, in
                    \* data/ and in each transaction's previous-data/
  state, pending,   \* the one install-state.json and pending-install-state.json belong to
  stopped,          \* host services that are stopped, disabled and masked
  armed,            \* enabled recovery units, as <<transaction, unit>>
  ticking, due,     \* running timers; rollback services systemd (re)starts
  booting,          \* boot rollback services still to run in this boot
  expired,          \* the confirmation deadline of tx has passed
  job, by, pc,      \* the command that holds the lock, the unit it runs for, its step
  crashes, reboots, errors

hostVars == <<router, stopped>>
files == <<current, data, previous, state, pending>>
units == <<armed, ticking, due, booting>>
jobVars == <<job, by, pc>>
bounds == <<crashes, reboots, errors>>
vars == <<tx, hostVars, files, units, expired, jobVars, bounds>>

Unfinished == tx # None /\ tx.phase \notin Terminal
Idle == job = None
Confirmable == Unfinished /\ tx.net /\ tx.phase \in {"awaiting", "finalizing"}

-----------------------------------------------------------------------------
(* Building blocks *)

At(op, here) == job \in op /\ pc = here
Goto(there) == pc' = there /\ UNCHANGED <<job, by>>
Mark(phase) == tx' = [tx EXCEPT !.phase = phase]

(* The command ends and releases the lock; a rollback service that fails is *)
(* started again (Restart=on-failure), one that succeeds is done.           *)
Leave == job' = None /\ by' = None /\ pc' = "idle"

UnitsOf(id) == {u \in armed : u[1] = id}

(* The boot service is ordered before landscape-router: systemd holds every *)
(* start of the router back until no boot service is waiting or running.    *)
StartAllowed == booting = {} /\ (by # None => by[2] # "boot")

(* The commands that take the lock *)

NextId == IF tx = None THEN 1 ELSE tx.id + 1

NewTx(kind) ==
  [id |-> NextId, kind |-> kind, phase |-> "preparing", net |-> kind = "install",
   from |-> state, had |-> data, unit |-> "unknown", before |-> stopped, confirmed |-> FALSE]

BeginWork(op, kind) ==
  /\ Idle /\ ~Unfinished /\ NextId \in Ids
  /\ tx' = NewTx(kind) /\ expired' = FALSE /\ pending' = None
  /\ job' = op /\ by' = None /\ pc' = "prepare"
  /\ UNCHANGED <<hostVars, current, data, previous, state, units, bounds>>

(* A takeover needs an empty data/, and the release must not exist. *)
BeginInstall == state = None /\ data = None /\ ~current /\ BeginWork("install", "install")

(* reinit is refused unless every host service is masked. *)
BeginReinit == state # None /\ stopped = HostServices /\ BeginWork("reinit", "reinit")

(* The user empties the install root after a failed installation. *)
EmptyRoot ==
  /\ Idle /\ ~Unfinished /\ state = None /\ (data # None \/ current)
  /\ data' = None /\ current' = FALSE
  /\ UNCHANGED <<tx, hostVars, previous, state, pending, units, expired, jobVars, bounds>>

-----------------------------------------------------------------------------
(* first_install_impl and reinit_installation *)

Worker == {"install", "reinit"}

(* Mutant: the state systemd reports is recorded as it is. *)
CaptureRaw ==
  /\ At(Worker, "prepare")
  /\ tx' = [tx EXCEPT !.unit = router] /\ expired' = FALSE
  /\ Goto("captured")
  /\ UNCHANGED <<hostVars, files, units, bounds>>

(* capture_before: a router that systemd has yet to start in this boot is    *)
(* not active, so early in a boot it is recorded as stopped.                 *)
CaptureBefore ==
  /\ At(Worker, "prepare")
  /\ tx' = [tx EXCEPT !.unit = IF router = "queued" THEN "stopped" ELSE router]
  /\ expired' = FALSE /\ Goto("captured")
  /\ UNCHANGED <<hostVars, files, units, bounds>>

Prepare ==
  /\ At(Worker, "captured")
  /\ Mark("prepared")
  /\ Goto(IF job = "install" THEN "arm_boot" ELSE "stop_router")
  /\ UNCHANGED <<hostVars, files, units, expired, bounds>>

(* arm_recovery enables the boot service, then the timer, then starts it. *)
ArmBoot ==
  /\ At(Worker, "arm_boot")
  /\ armed' = armed \cup {<<tx.id, "boot">>}
  /\ Goto("arm_timer")
  /\ UNCHANGED <<tx, hostVars, files, ticking, due, booting, expired, bounds>>

ArmTimer ==
  /\ At(Worker, "arm_timer")
  /\ armed' = armed \cup {<<tx.id, "timer">>}
  /\ Goto("start_timer")
  /\ UNCHANGED <<tx, hostVars, files, ticking, due, booting, expired, bounds>>

(* Mutant: the timer is enabled for the next boot and not started. *)
StartTimerNot ==
  /\ At(Worker, "start_timer")
  /\ IF job = "install" THEN Mark("stopping") /\ Goto("stop_host")
     ELSE Mark("awaiting") /\ Leave
  /\ UNCHANGED <<hostVars, files, units, expired, bounds>>

StartTimer ==
  /\ At(Worker, "start_timer")
  /\ ticking' = ticking \cup {tx.id}
  /\ IF job = "install" THEN Mark("stopping") /\ Goto("stop_host")
     ELSE Mark("awaiting") /\ Leave
  /\ UNCHANGED <<hostVars, files, armed, due, booting, expired, bounds>>

StopHost(s) ==
  /\ At({"install"}, "stop_host") /\ s \in HostServices \ stopped
  /\ stopped' = stopped \cup {s}
  /\ UNCHANGED <<tx, router, files, units, expired, jobVars, bounds>>

ClearLan ==
  /\ At({"install"}, "stop_host") /\ stopped = HostServices
  /\ Mark("activating") /\ Goto("link")
  /\ UNCHANGED <<hostVars, files, units, expired, bounds>>

ActivateCurrent ==
  /\ At({"install"}, "link")
  /\ current' = TRUE /\ Goto("register")
  /\ UNCHANGED <<tx, hostVars, data, previous, state, pending, units, expired, bounds>>

Register ==
  /\ At({"install"}, "register")
  /\ router' = "stopped" /\ Goto("start")
  /\ UNCHANGED <<tx, stopped, files, units, expired, bounds>>

StopRouter ==
  /\ At({"reinit"}, "stop_router")
  /\ IF tx.phase = "prepared"
     THEN Mark("stopping") /\ Goto("stop_router") /\ UNCHANGED router
     ELSE Mark("activating") /\ Goto("move_data") /\ router' = "stopped"
  /\ UNCHANGED <<stopped, files, units, expired, bounds>>

MoveDataAside ==
  /\ At({"reinit"}, "move_data")
  /\ previous' = [previous EXCEPT ![tx.id] = data] /\ data' = tx.id /\ Goto("start")
  /\ UNCHANGED <<tx, hostVars, current, state, pending, units, expired, bounds>>

(* The started webserver initialises data/ from landscape_init.toml. *)
StartRouter ==
  /\ At(Worker, "start") /\ StartAllowed
  /\ router' = "running" /\ data' = tx.id
  /\ Mark("verifying") /\ Goto("pending")
  /\ UNCHANGED <<stopped, current, previous, state, pending, units, expired, bounds>>

(* Healthy and stable: the state to commit waits for the confirmation. A   *)
(* reinit records its takeover only now, and arms the units after that.    *)
WritePending ==
  /\ At(Worker, "pending")
  /\ pending' = tx.id
  /\ IF job = "install" THEN Mark("awaiting") /\ Leave /\ UNCHANGED expired
     ELSE tx' = [tx EXCEPT !.net = TRUE] /\ expired' = FALSE /\ Goto("arm_boot")
  /\ UNCHANGED <<hostVars, current, data, previous, state, units, bounds>>

-----------------------------------------------------------------------------
(* cleanup_failed_first_install and cleanup_failed_takeover, for a failed   *)
(* installation and for the recovery of an interrupted one                  *)

MarkFailing ==
  /\ At({"install"}, "f_mark")
  /\ Mark("rolling_back") /\ Goto("f_first")
  /\ UNCHANGED <<hostVars, files, units, expired, bounds>>

(* restore_before, when what was found has been recorded *)
AsFound == IF tx.unit = "unknown" THEN router ELSE tx.unit

CleanupFirst ==
  /\ At({"install", "recovery"}, "f_first")
  /\ tx.unit = "running" => StartAllowed
  /\ router' = AsFound /\ current' = FALSE /\ state' = None
  /\ Goto("f_host")
  /\ UNCHANGED <<tx, stopped, data, previous, pending, units, expired, bounds>>

(* restore_host_service, one service after the other *)
RestoreHost(s) ==
  /\ pc \in {"f_host", "x_host"} /\ s \in stopped \ tx.before
  /\ stopped' = stopped \ {s}
  /\ UNCHANGED <<tx, router, files, units, expired, jobVars, bounds>>

(* Mutant: the units go before the host services are back. *)
HostRestoredEarly ==
  /\ pc \in {"f_host", "x_host"}
  /\ Goto(IF pc = "f_host" THEN "f_timer" ELSE "x_timer")
  /\ UNCHANGED <<tx, hostVars, files, units, expired, bounds>>

HostRestored ==
  /\ pc \in {"f_host", "x_host"} /\ stopped \subseteq tx.before
  /\ Goto(IF pc = "f_host" THEN "f_timer" ELSE "x_timer")
  /\ UNCHANGED <<tx, hostVars, files, units, expired, bounds>>

(* remove_recovery_units: the timer first, then the boot service, then the *)
(* rollback service. An automatic rollback does not stop them: without     *)
(* their files they start nothing.                                         *)
RemoveTimer ==
  /\ pc \in {"f_timer", "x_timer", "c_timer"}
  /\ armed' = armed \ {<<tx.id, "timer">>} /\ ticking' = ticking \ {tx.id}
  /\ Goto(CASE pc = "f_timer" -> "f_boot" [] pc = "x_timer" -> "x_boot" [] OTHER -> "c_boot")
  /\ UNCHANGED <<tx, hostVars, files, due, booting, expired, bounds>>

RemoveBoot ==
  /\ pc \in {"f_boot", "x_boot", "c_boot"}
  /\ armed' = armed \ {<<tx.id, "boot">>} /\ due' = due \ {tx.id}
  /\ Goto(CASE pc = "f_boot" -> "f_end"
            [] pc = "x_boot" /\ tx.kind = "install" -> "x_clean"
            [] pc = "x_boot" /\ tx.kind # "install" -> "x_end"
            [] OTHER -> "c_state")
  /\ UNCHANGED <<tx, hostVars, files, ticking, booting, expired, bounds>>

MarkFailed ==
  /\ At({"install", "recovery"}, "f_end")
  /\ Mark("failed") /\ Leave
  /\ UNCHANGED <<hostVars, files, units, expired, bounds>>

-----------------------------------------------------------------------------
(* rollback_reinit_inner, for a failed reinit, its recovery and rollback *)

MarkReinit ==
  /\ pc = "b_mark"
  /\ Mark("rolling_back") /\ Goto("b_stop")
  /\ UNCHANGED <<hostVars, files, units, expired, bounds>>

ReinitStop ==
  /\ pc = "b_stop"
  /\ router' = "stopped" /\ Goto("b_data")
  /\ UNCHANGED <<tx, stopped, files, units, expired, bounds>>

(* Mutant: what was moved aside is removed with the new data. *)
ReinitDataLost ==
  /\ pc = "b_data"
  /\ previous' = [previous EXCEPT ![tx.id] = None] /\ Goto("b_start")
  /\ UNCHANGED <<tx, hostVars, current, data, state, pending, units, expired, bounds>>

(* restore_previous_data: nothing to move back means it is back already. *)
ReinitData ==
  /\ pc = "b_data"
  /\ data' = IF previous[tx.id] # None THEN previous[tx.id] ELSE data
  /\ previous' = [previous EXCEPT ![tx.id] = None] /\ Goto("b_start")
  /\ UNCHANGED <<tx, hostVars, current, state, pending, units, expired, bounds>>

ReinitStart ==
  /\ pc = "b_start" /\ StartAllowed
  /\ router' = "running" /\ Goto("b_state")
  /\ UNCHANGED <<tx, stopped, files, units, expired, bounds>>

ReinitState ==
  /\ pc = "b_state"
  /\ state' = tx.from /\ Goto("b_end")
  /\ UNCHANGED <<tx, hostVars, current, data, previous, pending, units, expired, bounds>>

(* Rolled back; only network rollback goes on to remove the units. *)
ReinitEnd ==
  /\ pc = "b_end"
  /\ Mark("rolled_back")
  /\ IF job = "rollback" THEN Goto("x_timer") ELSE Leave
  /\ UNCHANGED <<hostVars, files, units, expired, bounds>>

(* A reinit that failed before it activated anything. *)
RestoreBefore ==
  /\ At({"reinit", "recovery"}, "n_restore")
  /\ tx.unit = "running" => StartAllowed
  /\ router' = AsFound /\ Mark("failed") /\ Leave
  /\ UNCHANGED <<stopped, files, units, expired, bounds>>

-----------------------------------------------------------------------------
(* network confirm *)

BeginConfirm ==
  /\ Idle /\ Confirmable
  /\ tx.phase = "awaiting" => ~expired /\ router = "running"
  /\ tx' = [tx EXCEPT !.phase = "finalizing", !.confirmed = TRUE]
  /\ job' = "confirm" /\ by' = None /\ pc' = "c_timer"
  /\ UNCHANGED <<hostVars, files, units, expired, bounds>>

CommitState ==
  /\ At({"confirm"}, "c_state")
  /\ IF pending # None THEN state' = pending /\ Goto("c_end") ELSE Leave /\ UNCHANGED state
  /\ UNCHANGED <<tx, hostVars, current, data, previous, pending, units, expired, bounds>>

CommitTx ==
  /\ At({"confirm"}, "c_end")
  /\ Mark("committed") /\ pending' = None /\ Leave
  /\ UNCHANGED <<hostVars, current, data, previous, state, units, expired, bounds>>

-----------------------------------------------------------------------------
(* network rollback, by hand or by a unit of the transaction i *)

BeginRollback(unit) ==
  /\ Idle /\ Unfinished /\ tx.net
  /\ tx.phase \in {"awaiting", "finalizing", "rolling_back"}
  /\ Mark("rolling_back")
  /\ job' = "rollback" /\ by' = unit
  /\ pc' = IF tx.kind = "install" THEN "x_check" ELSE "b_stop"

ManualRollback ==
  /\ BeginRollback(None)
  /\ UNCHANGED <<hostVars, files, units, expired, bounds>>

(* The units of every transaction run the same command, which takes the     *)
(* unfinished transaction, whichever it is. The timer's rollback service is *)
(* restarted until it succeeds.                                             *)
TimerRollback(i) ==
  /\ i \in due /\ BeginRollback(<<i, "timer">>)
  /\ UNCHANGED <<hostVars, files, units, expired, bounds>>

(* The boot service is not restarted: it gives up when there is nothing to  *)
(* roll back, or when a command or a recovery cycle holds the lock.         *)
BootRollback(i) ==
  /\ i \in booting /\ booting' = booting \ {i}
  /\ BeginRollback(<<i, "boot">>) \/ UNCHANGED <<tx, jobVars>>
  /\ UNCHANGED <<hostVars, files, armed, ticking, due, expired, bounds>>

(* validate_network_takeover_rollback *)
CheckUncommitted ==
  /\ At({"rollback"}, "x_check")
  /\ IF state = None THEN Goto("x_router") /\ UNCHANGED tx ELSE Mark("failed") /\ Leave
  /\ UNCHANGED <<hostVars, files, units, expired, bounds>>

RestoreRouter ==
  /\ At({"rollback"}, "x_router")
  /\ tx.unit = "running" => StartAllowed
  /\ router' = AsFound /\ Goto("x_host")
  /\ UNCHANGED <<tx, stopped, files, units, expired, bounds>>

(* cleanup_uncommitted_network_install removes current, the release, the    *)
(* pending state and data/.                                                 *)
CleanUncommitted ==
  /\ At({"rollback"}, "x_clean")
  /\ current' = FALSE /\ pending' = None /\ data' = None
  /\ Goto("x_end")
  /\ UNCHANGED <<tx, hostVars, previous, state, units, expired, bounds>>

EndRollback ==
  /\ At({"rollback"}, "x_end")
  /\ Mark("rolled_back") /\ Leave
  /\ due' = IF by = None THEN due ELSE due \ {by[1]}
  /\ UNCHANGED <<hostVars, files, armed, ticking, booting, expired, bounds>>

-----------------------------------------------------------------------------
(* The daemon: recovery_cycle and recover_interrupted *)

Recoverable ==
  Unfinished /\ (tx.net => tx.phase \notin {"awaiting", "finalizing", "rolling_back"})

RecoverPlan ==
  IF tx.kind = "install" THEN "f_first"
  ELSE CASE tx.phase = "preparing"                   -> "f_end"
         [] tx.phase \in {"prepared", "stopping"}    -> "n_restore"
         [] tx.phase \in {"activating", "verifying"} -> "b_mark"

(* recover_reinit refuses a rolling_back reinit even when network rollback  *)
(* cannot take it.                                                          *)
Recover ==
  /\ Idle /\ Recoverable
  /\ tx.kind = "reinit" => tx.phase \notin {"awaiting", "finalizing", "rolling_back"}
  /\ job' = "recovery" /\ by' = None /\ pc' = RecoverPlan
  /\ UNCHANGED <<tx, hostVars, files, units, expired, bounds>>

-----------------------------------------------------------------------------
(* Errors, crashes, reboots and the clock *)

CleanupSteps == {"f_mark", "f_first", "f_host", "f_timer", "f_boot", "f_end"}

(* Where a failing call of a command leads. *)
Fails ==
  /\ ~Idle /\ errors < MaxErrors /\ errors' = errors + 1
  /\ CASE job = "install" /\ pc \notin CleanupSteps -> Goto("f_mark") /\ UNCHANGED tx
       [] job = "reinit" /\ pc = "prepare"         -> Leave /\ (Mark("failed") \/ UNCHANGED tx)
       [] job = "reinit" /\ pc = "stop_router"     -> Goto("n_restore") /\ UNCHANGED tx
       [] job = "reinit" /\ pc \in {"move_data", "start", "pending", "arm_boot", "arm_timer", "start_timer"}
                                                   -> Goto("b_mark") /\ UNCHANGED tx
       [] \/ job \in {"reinit", "recovery"} /\ pc \in {"b_stop", "b_data", "b_start", "b_state", "b_end"}
          \/ job = "reinit" /\ pc = "n_restore"
          \/ job = "rollback" /\ pc # "x_end"      -> Mark("failed") /\ Leave
       [] OTHER                                    -> Leave /\ UNCHANGED tx
  /\ UNCHANGED <<hostVars, files, units, expired, crashes, reboots>>

Crash ==
  /\ ~Idle /\ crashes < MaxCrashes /\ crashes' = crashes + 1
  /\ Leave
  /\ UNCHANGED <<tx, hostVars, files, units, expired, reboots, errors>>

(* What is enabled is started: the timers anew, the boot services, and the  *)
(* router once they have finished.                                          *)
Reboot ==
  /\ reboots < MaxReboots /\ reboots' = reboots + 1
  /\ Leave
  /\ router' = IF router = "absent" THEN "absent" ELSE "queued"
  /\ ticking' = {i \in Ids : <<i, "timer">> \in armed}
  /\ booting' = {i \in Ids : <<i, "boot">> \in armed}
  /\ due' = {}
  /\ UNCHANGED <<tx, stopped, files, armed, expired, crashes, errors>>

BootRouter ==
  /\ router = "queued" /\ StartAllowed /\ router' = "running"
  /\ UNCHANGED <<tx, stopped, files, units, expired, jobVars, bounds>>

Expire ==
  /\ Unfinished /\ ~expired /\ expired' = TRUE
  /\ UNCHANGED <<tx, hostVars, files, units, jobVars, bounds>>

(* A timer is started after the deadline was set, for the same time. *)
TimerFires(i) ==
  /\ i \in ticking
  /\ Unfinished /\ tx.id = i => expired
  /\ ticking' = ticking \ {i} /\ due' = due \cup {i}
  /\ UNCHANGED <<tx, hostVars, files, armed, booting, expired, jobVars, bounds>>

Init ==
  /\ tx = None /\ router = "absent" /\ current = FALSE
  /\ data = None /\ previous = [i \in Ids |-> None] /\ state = None /\ pending = None
  /\ stopped = {} /\ armed = {} /\ ticking = {} /\ due = {} /\ booting = {}
  /\ expired = FALSE /\ job = None /\ by = None /\ pc = "idle"
  /\ crashes = 0 /\ reboots = 0 /\ errors = 0

WorkStep ==
  \/ CaptureBefore \/ Prepare \/ ArmBoot \/ ArmTimer \/ StartTimer
  \/ (\E s \in HostServices : StopHost(s)) \/ ClearLan \/ ActivateCurrent \/ Register \/ StopRouter \/ MoveDataAside \/ StartRouter
  \/ WritePending

CleanupStep ==
  \/ MarkFailing \/ CleanupFirst \/ (\E s \in HostServices : RestoreHost(s)) \/ HostRestored
  \/ RemoveTimer \/ RemoveBoot \/ MarkFailed

ReinitRollbackStep ==
  MarkReinit \/ ReinitStop \/ ReinitData \/ ReinitStart \/ ReinitState \/ ReinitEnd \/ RestoreBefore

NetworkStep ==
  CommitState \/ CommitTx \/ CheckUncommitted \/ RestoreRouter \/ CleanUncommitted \/ EndRollback

JobStep == WorkStep \/ CleanupStep \/ ReinitRollbackStep \/ NetworkStep

Next ==
  \/ BeginInstall \/ BeginReinit \/ EmptyRoot \/ BeginConfirm \/ ManualRollback
  \/ (\E i \in Ids : TimerRollback(i) \/ BootRollback(i) \/ TimerFires(i))
  \/ JobStep \/ Recover \/ Fails \/ Crash \/ Reboot \/ BootRouter \/ Expire

Spec == Init /\ [][Next]_vars

(* A command that runs goes on; the daemon's cycle, systemd's timers and its *)
(* restarts of a failed rollback service come round again. Nothing obliges   *)
(* the user to confirm, to roll back or to start anything.                   *)
Fairness ==
  /\ WF_vars(JobStep) /\ WF_vars(Recover) /\ WF_vars(BootRouter) /\ WF_vars(Expire)
  /\ \A i \in Ids : WF_vars(TimerFires(i)) /\ WF_vars(TimerRollback(i)) /\ WF_vars(BootRollback(i))

LiveSpec == Spec /\ Fairness

-----------------------------------------------------------------------------
(* Every variable has its type. *)
TypeOK ==
  /\ tx \in TxType \cup {None}
  /\ router \in {"absent", "stopped", "queued", "running"} /\ current \in BOOLEAN
  /\ data \in Configs /\ previous \in [Ids -> Configs] /\ state \in Configs /\ pending \in Configs
  /\ stopped \subseteq HostServices /\ armed \subseteq Ids \X Units
  /\ ticking \subseteq Ids /\ due \subseteq Ids /\ booting \subseteq Ids
  /\ expired \in BOOLEAN
  /\ job \in Jobs \cup {None} /\ by \in (Ids \X Units) \cup {None}
  /\ job = None <=> pc = "idle"
  /\ crashes \in 0..MaxCrashes /\ reboots \in 0..MaxReboots /\ errors \in 0..MaxErrors

(* A transaction ends one way or the other whatever interrupted it. A       *)
(* committed one has its own configuration and state, the host's network    *)
(* services off and none of its recovery units left. A rolled back           *)
(* installation left nothing: no state, data, link or unit, and the host     *)
(* services as they were. A rolled back reinit has the data and the state    *)
(* from before it.                                                           *)
EndsOneWay ==
  tx # None /\ Idle =>
    /\ tx.phase = "committed" =>
         state = tx.id /\ data = tx.id /\ stopped = HostServices /\ UnitsOf(tx.id) = {}
    /\ tx.phase = "rolled_back" /\ tx.kind = "install" =>
         /\ state = None /\ pending = None /\ data = None /\ ~current
         /\ stopped \subseteq tx.before /\ UnitsOf(tx.id) = {}
         /\ tx.unit = "absent" => router = "absent"
    /\ tx.phase = "rolled_back" /\ tx.kind = "reinit" =>
         state = tx.from /\ data = tx.had /\ stopped = HostServices

(* A configuration is never lost: until a reinit is committed the one it   *)
(* found is in data/ or in a transaction's previous-data/, and a committed  *)
(* installation never has its data/ removed by the rollback of a takeover.  *)
ConfigKept ==
  /\ tx # None /\ tx.kind = "reinit" /\ tx.phase # "committed" =>
       tx.had \in {data} \cup {previous[i] : i \in Ids}
  /\ state # None => data # None

(* Transactions end one of two ways and no configuration is lost (confirm,   *)
(* rollback, rollback_reinit_inner).                                         *)
TakeoverInvariant == EndsOneWay /\ ConfigKept

(* The host is never left without a way back: while an unconfirmed takeover  *)
(* keeps host services off, its timer runs or its rollback service is due,   *)
(* at every step of every command and after every crash and reboot.          *)
ReturnPath ==
  /\ Unfinished /\ tx.kind = "install" /\ ~tx.confirmed /\ ~(stopped \subseteq tx.before)
  => tx.id \in ticking \cup due

(* Without errors, a host whose services an unconfirmed takeover turned off *)
(* gets them back, or its user confirms.                                    *)
HostNetworkReturns ==
  LET taken == Unfinished /\ tx.kind = "install" /\ ~tx.confirmed /\ ~(stopped \subseteq tx.before)
  IN  taken ~> (~taken \/ errors > 0)

(* Without errors, a reinit nobody confirms is rolled back, unless it is the *)
(* boot service that sets about it (RebootRollsBack).                        *)
OldConfigReturns ==
  LET unconfirmed == Unfinished /\ tx.kind = "reinit" /\ tx.phase = "awaiting"
      settled == tx # None /\ tx.phase \in {"finalizing", "rolled_back"}
      atBoot == by # None /\ by[2] = "boot"
  IN  unconfirmed ~> (settled \/ atBoot \/ errors > 0)

(* docs/network/reinit.md: a reboot before the confirmation rolls a reinit   *)
(* back: it stops the router, moves the old data/ back, starts the old       *)
(* configuration and marks the transaction rolled back.                      *)
RebootRollsBack ==
  LET rolling == tx # None /\ tx.kind = "reinit" /\ job = "rollback"
  IN  rolling ~> ~rolling
=============================================================================
