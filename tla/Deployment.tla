----------------------------- MODULE Deployment -----------------------------
(***************************************************************************)
(* The host that every lkit command works on, and the rules all commands   *)
(* share: the install lock, the transaction file, the install root         *)
(* (releases, current, data), the committed install state, the managed     *)
(* Landscape service, and the two ways to lose the process that holds the  *)
(* lock (a crash, a reboot of the host).                                   *)
(*                                                                         *)
(* The variables of the first group survive a crash, those of the second   *)
(* live in the process that holds the lock.  flock() admits one holder at  *)
(* a time, so there is one pc and one in-memory transaction.               *)
(***************************************************************************)
EXTENDS Naturals

CONSTANTS
  Versions,       \* stable Landscape versions, ordered as numbers
  None,           \* an absent file, link target or optional field
  MaxCrashes,     \* bound on crashes and reboots
  MaxErrors       \* bound on calls that return an error

ASSUME VersionsAssumption == Versions \subseteq Nat /\ None \notin Versions
ASSUME BoundsAssumption == MaxCrashes \in Nat /\ MaxErrors \in Nat

VARIABLES
  tx,         \* the last transaction file; every earlier one is terminal
  current,    \* the version the link current points to
  releases,   \* releases/<version>: absent, partial or complete
  state,      \* active_version of state/install-state.json
  snapshot,   \* active_version in backups/<tx>/previous-state.json
  svc,        \* landscape-router: registered, enabled, running version
  resolv,     \* who wrote /etc/resolv.conf last
  data,       \* what data/ holds
  aside,      \* what transactions/<tx>/failed-data holds
  lock,       \* holder of run/install.lock
  pc,         \* where the holder is
  job,        \* whether it runs its own command or recovers another one
  mem,        \* its TransactionFile
  prev,       \* its copy of the install state from before the change
  outcome,    \* what the last command reported
  crashes, errors

diskVars == <<tx, current, releases, state, snapshot, data, aside>>
hostVars == <<svc, resolv>>
procVars == <<lock, pc, job, mem, prev, outcome>>
boundVars == <<crashes, errors>>
vars == <<diskVars, hostVars, procVars, boundVars>>

-----------------------------------------------------------------------------
(* Transactions *)

Phases == {"preparing", "prepared", "stopping", "activating", "verifying",
           "rolling_back", "committed", "rolled_back", "failed"}

IsTerminal(phase) == phase \in {"committed", "rolled_back", "failed"}

(* ServiceBefore, and the two programs that write /etc/resolv.conf. *)
Before == [reg: BOOLEAN, enabled: BOOLEAN, active: BOOLEAN]
Writers == {"host", "router"}

(* The part of the transaction file that decides how it is recovered. *)
Transactions ==
  [phase: Phases, from: Versions, target: Versions, backup: BOOLEAN,
   noBackup: BOOLEAN, before: Before \cup {None}, resolv: Writers \cup {None}]

ASSUME NoneAssumption == None \notin Transactions \cup Before \cup Writers

Unfinished == tx # None /\ ~IsTerminal(tx.phase)

(* mark_phase writes the whole in-memory transaction, not only its phase. *)
MarkPhase(phase) == tx' = [mem EXCEPT !.phase = phase]

-----------------------------------------------------------------------------
(* The install root and the state file *)

(* load_state refuses a state whose version is not the one current shows. *)
CheckCurrent ==
  /\ current # None
  /\ releases[current] # "absent"
  /\ current = state

LoadState == state # None /\ CheckCurrent

DataKinds == {"absent", "user", "touched", "empty", "seeded", "rebuilt"}

(* data/landscape_init.lock exists: Landscape has initialised this data. *)
Initialised == data \in {"user", "touched", "rebuilt"}

-----------------------------------------------------------------------------
(* The managed service *)

Services == [reg: BOOLEAN, enabled: BOOLEAN, running: Versions \cup {None}]

Active == svc.running # None

Stopped(s) == [s EXCEPT !.running = None]

(* Starting a unit that is already active changes nothing. *)
Started(s) == IF s.running # None THEN s ELSE [s EXCEPT !.running = current]

(* Landscape opens data/ when it starts: a version other than the one that *)
(* wrote it migrates it, and a seeded directory is initialised.  It also   *)
(* takes over /etc/resolv.conf.                                            *)
Opened(d, isTarget) ==
  CASE d = "user" /\ isTarget -> "touched"
    [] d = "seeded"           -> "rebuilt"
    [] OTHER                  -> d

RunsTarget(v) == tx # None /\ v = tx.target

StartService ==
  /\ releases[current] = "complete"
  /\ svc' = Started(svc)
  /\ data' = IF Active THEN data ELSE Opened(data, RunsTarget(current))
  /\ resolv' = "router"

StopService == svc' = Stopped(svc)

CaptureBefore == [reg |-> svc.reg, enabled |-> svc.enabled, active |-> Active]

(* restore_before: registration and enablement, then start or stop. *)
RestoreBefore(before) ==
  LET registered == [svc EXCEPT !.reg = before.reg, !.enabled = before.enabled]
  IN  /\ before.active => releases[current] = "complete"
      /\ svc' = IF before.active THEN Started(registered) ELSE Stopped(registered)
      /\ data' = IF before.active /\ ~Active
                 THEN Opened(data, RunsTarget(current)) ELSE data

-----------------------------------------------------------------------------
(* The lock and its holder *)

Goto(here, there) == pc = here /\ pc' = there

(* A call of the holder returns an error. *)
Error == errors < MaxErrors /\ errors' = errors + 1

(* A command or the daemon's recovery cycle takes the lock and looks for an *)
(* unfinished transaction; the daemon has nothing else to do with it.       *)
Acquire(holder) ==
  /\ lock = "free"
  /\ lock' = holder
  /\ \/ /\ Unfinished
        /\ pc' = "recover" /\ job' = "recovery" /\ mem' = tx
     \/ /\ ~Unfinished /\ holder = "cli"
        /\ pc' = "command" /\ job' = "command" /\ mem' = None
  /\ outcome' = IF holder = "cli" THEN "none" ELSE outcome
  /\ prev' = None
  /\ UNCHANGED <<diskVars, hostVars, boundVars>>

LeaveLock ==
  /\ lock' = "free" /\ pc' = "idle" /\ job' = "none"
  /\ mem' = None /\ prev' = None

(* The holder ends its operation and reports to whoever ran it. *)
Finish(report) ==
  /\ LeaveLock
  /\ outcome' = IF lock = "cli" THEN report ELSE outcome

(* A command whose recovery succeeded goes on with its own work. *)
FinishRecovery ==
  IF lock = "cli"
  THEN /\ pc' = "command" /\ job' = "command" /\ mem' = None /\ prev' = None
       /\ UNCHANGED <<lock, outcome>>
  ELSE Finish("none")

(* The holder dies; the kernel drops its flock. *)
Crash ==
  /\ lock # "free"
  /\ crashes < MaxCrashes /\ crashes' = crashes + 1
  /\ LeaveLock
  /\ UNCHANGED <<diskVars, hostVars, outcome, errors>>

(* The host restarts: init starts the service if it is enabled. *)
Reboot ==
  LET boots == svc.reg /\ svc.enabled /\ current # None
               /\ releases[current] = "complete"
  IN  /\ crashes < MaxCrashes /\ crashes' = crashes + 1
      /\ LeaveLock
      /\ svc' = [svc EXCEPT !.running = IF boots THEN current ELSE None]
      /\ data' = IF boots THEN Opened(data, RunsTarget(current)) ELSE data
      /\ resolv' = IF boots THEN "router" ELSE resolv
      /\ UNCHANGED <<tx, current, releases, state, snapshot, aside,
                     outcome, errors>>

(* The operator starts or stops the service while no command runs. *)
Operator ==
  /\ lock = "free" /\ ~Unfinished /\ CheckCurrent
  /\ \/ Active /\ StopService /\ UNCHANGED <<data, resolv>>
     \/ ~Active /\ svc.reg /\ StartService
  /\ UNCHANGED <<tx, current, releases, state, snapshot, aside,
                 procVars, boundVars>>
=============================================================================
