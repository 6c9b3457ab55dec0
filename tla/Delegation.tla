----------------------------- MODULE Delegation -----------------------------
(***************************************************************************)
(* How a command is delegated to the lkit daemon: the frontend writes      *)
(* <id>.request.json, the daemon claims it, runs it as a child process,    *)
(* watches for <id>.cancel and writes <id>.result.json; the frontend polls *)
(* for the result, for Ctrl+C and for a dead daemon, and removes the files.*)
(* The files are all that frontend, daemon and child share.                *)
(***************************************************************************)
EXTENDS Naturals, FiniteSets

CONSTANTS
  Ops,              \* delegated commands, each with its own frontend
  Migrations,       \* those whose cancellation waits for the child
  Secrets,          \* those that pass a credential file
  None,
  Respawn,          \* the init system starts a dead daemon again
  DeadPolls,        \* polls without a daemon before the frontend gives up
  MaxRestarts,      \* bound on stops and crashes of the daemon
  MaxFaults         \* bound on infrastructure errors

ASSUME OpsAssumption == Migrations \subseteq Ops /\ Secrets \subseteq Ops
ASSUME DelegationBounds ==
  Respawn \in BOOLEAN /\ DeadPolls \in Nat \ {0} /\ MaxRestarts \in Nat /\ MaxFaults \in Nat
ASSUME NoOp == None \notin Ops \cup {"ok", "failed"}

VARIABLES
  request, cancel, secret,   \* which operations have this file
  result,                    \* the exit code in <id>.result.json
  front,                     \* where the frontend is
  seen,                      \* the phase it has read from the presentation file
  ctrlC,                     \* operations whose user has pressed Ctrl+C
  dead,                      \* consecutive polls without a daemon
  report,                    \* what the frontend returned
  child,                     \* the child process of each operation
  signalled,                 \* children that got SIGTERM and handle it
  spawns,                    \* how often each operation was started
  alive, binary,             \* the daemon runs; its executable is still there
  at, op, batch,             \* its step, current request and scanned requests
  restarts, faults

files == <<request, cancel, secret, result>>
frontVars == <<front, seen, ctrlC, dead, report>>
childVars == <<child, signalled, spawns>>
daemonVars == <<alive, binary, at, op, batch>>
limits == <<restarts, faults>>
delegationVars == <<files, frontVars, childVars, daemonVars, limits>>

Running(o) == child[o] \in {"preparing", "downloading", "applying"}

-----------------------------------------------------------------------------
(* The frontend: delegate and wait_for_result *)

Return(o, what) == report' = [report EXCEPT ![o] = what]

Goes(o, here, there) == front[o] = here /\ front' = [front EXCEPT ![o] = there]

(* seen and dead are locals of wait_for_result. *)
Leave(o, there) ==
  /\ Goes(o, "waiting", there)
  /\ seen' = [seen EXCEPT ![o] = "preparing"] /\ dead' = [dead EXCEPT ![o] = 0]

Delegate(o) ==
  /\ \/ alive /\ binary /\ Goes(o, "start", "prepared") /\ UNCHANGED report
     \/ ~(alive /\ binary) /\ Goes(o, "start", "ended") /\ Return(o, "refused")
  /\ UNCHANGED <<files, seen, ctrlC, dead, childVars, daemonVars, limits>>

WriteSecret(o) ==
  /\ o \in Secrets \ secret
  /\ front[o] = "prepared"
  /\ secret' = secret \cup {o}
  /\ UNCHANGED <<request, cancel, result, frontVars, childVars, daemonVars, limits>>

WriteRequest(o) ==
  /\ o \in Secrets => o \in secret
  /\ Goes(o, "prepared", "asked")
  /\ request' = request \cup {o}
  /\ UNCHANGED <<cancel, secret, result, seen, ctrlC, dead, report,
                 childVars, daemonVars, limits>>

(* Ctrl+C before the first poll cancels whatever the operation is doing. *)
FirstLook(o) ==
  /\ \/ /\ o \in ctrlC /\ Goes(o, "asked", "clean")
        /\ cancel' = cancel \cup {o} /\ Return(o, "cancelled")
     \/ /\ o \notin ctrlC /\ Goes(o, "asked", "waiting")
        /\ UNCHANGED <<cancel, report>>
  /\ UNCHANGED <<request, secret, result, seen, ctrlC, dead,
                 childVars, daemonVars, limits>>

(* The presentation file shows the phase the child has reached. *)
Drain(o) ==
  /\ front[o] = "waiting" /\ Running(o) /\ seen[o] # child[o]
  /\ seen' = [seen EXCEPT ![o] = child[o]]
  /\ UNCHANGED <<files, front, ctrlC, dead, report, childVars, daemonVars, limits>>

IsCancellable(o) == seen[o] = "downloading" \/ o \in Migrations

(* Ctrl+C while waiting: a migration is waited for, any other operation is *)
(* left to the daemon, and a phase that must not stop ignores it.          *)
OnInterrupt(o) ==
  /\ front[o] = "waiting" /\ o \in ctrlC
  /\ \/ /\ ~IsCancellable(o)
        /\ ctrlC' = ctrlC \ {o} /\ UNCHANGED <<front, seen, dead, cancel, report>>
     \/ /\ o \in Migrations
        /\ cancel' = cancel \cup {o}
        /\ ctrlC' = ctrlC \ {o} /\ UNCHANGED <<front, seen, dead, report>>
     \/ /\ IsCancellable(o) /\ o \notin Migrations
        /\ cancel' = cancel \cup {o}
        /\ Leave(o, "clean") /\ Return(o, "cancelled")
        /\ UNCHANGED ctrlC
  /\ UNCHANGED <<request, secret, result, childVars, daemonVars, limits>>

TakeResult(o) ==
  /\ Leave(o, "clean")
  /\ result[o] # None
  /\ Return(o, result[o])
  /\ UNCHANGED <<files, ctrlC, childVars, daemonVars, limits>>

(* A result or an event that cannot be read ends the wait with an error. *)
WaitFails(o) ==
  /\ faults < MaxFaults /\ faults' = faults + 1
  /\ Leave(o, "clean") /\ Return(o, "error")
  /\ UNCHANGED <<files, ctrlC, childVars, daemonVars, restarts>>

(* Mutant: gives up one poll too late. *)
LookForDaemonLate(o) ==
  /\ front[o] = "waiting" /\ result[o] = None
  /\ \/ /\ alive /\ dead[o] # 0
        /\ dead' = [dead EXCEPT ![o] = 0] /\ UNCHANGED <<front, seen, report>>
     \/ /\ ~alive /\ dead[o] < DeadPolls
        /\ dead' = [dead EXCEPT ![o] = @ + 1] /\ UNCHANGED <<front, seen, report>>
     \/ /\ ~alive /\ dead[o] >= DeadPolls
        /\ Leave(o, "clean") /\ Return(o, "error")
  /\ UNCHANGED <<files, ctrlC, childVars, daemonVars, limits>>

(* Mutant: looks for the daemon only before it starts to wait. *)
LookForDaemonNever(o) ==
  /\ front[o] = "waiting" /\ result[o] = None /\ alive /\ dead[o] # 0
  /\ dead' = [dead EXCEPT ![o] = 0]
  /\ UNCHANGED <<files, front, seen, ctrlC, report, childVars, daemonVars, limits>>

(* daemon_is_running, with the counter that is reset by any live daemon. *)
LookForDaemon(o) ==
  /\ front[o] = "waiting" /\ result[o] = None
  /\ \/ /\ alive /\ dead[o] # 0
        /\ dead' = [dead EXCEPT ![o] = 0] /\ UNCHANGED <<front, seen, report>>
     \/ /\ ~alive /\ dead[o] + 1 < DeadPolls
        /\ dead' = [dead EXCEPT ![o] = @ + 1] /\ UNCHANGED <<front, seen, report>>
     \/ /\ ~alive /\ dead[o] + 1 >= DeadPolls
        /\ Leave(o, "clean") /\ Return(o, "error")
  /\ UNCHANGED <<files, ctrlC, childVars, daemonVars, limits>>

(* cleanup_files removes the request first and the credential last. *)
CleanRequest(o) ==
  /\ Goes(o, "clean", "clean_rest")
  /\ request' = request \ {o} /\ result' = [result EXCEPT ![o] = None]
  /\ UNCHANGED <<cancel, secret, seen, ctrlC, dead, report,
                 childVars, daemonVars, limits>>

CleanRest(o) ==
  /\ Goes(o, "clean_rest", "ended")
  /\ cancel' = cancel \ {o} /\ secret' = secret \ {o}
  /\ UNCHANGED <<request, result, seen, ctrlC, dead, report,
                 childVars, daemonVars, limits>>

Frontend(o) ==
  \/ Delegate(o) \/ WriteSecret(o) \/ WriteRequest(o) \/ FirstLook(o) \/ Drain(o)
  \/ OnInterrupt(o) \/ TakeResult(o) \/ LookForDaemon(o)
  \/ CleanRequest(o) \/ CleanRest(o)

(* The user presses Ctrl+C; a lost session kills the frontend anywhere. *)
PressCtrlC(o) ==
  /\ front[o] \in {"prepared", "asked", "waiting"} /\ o \notin ctrlC
  /\ ctrlC' = ctrlC \cup {o}
  /\ UNCHANGED <<files, front, seen, dead, report, childVars, daemonVars, limits>>

Vanish(o) ==
  /\ \/ Leave(o, "gone")
     \/ /\ front[o] \notin {"start", "waiting", "ended", "gone"}
        /\ front' = [front EXCEPT ![o] = "gone"] /\ UNCHANGED <<seen, dead>>
  /\ UNCHANGED <<files, ctrlC, report, childVars, daemonVars, limits>>

-----------------------------------------------------------------------------
(* The daemon: execute_pending_requests and execute_request *)

Scan ==
  /\ alive /\ at = "idle" /\ request # {}
  /\ at' = "next" /\ batch' = request
  /\ UNCHANGED <<files, frontVars, childVars, alive, binary, op, limits>>

(* execute_request is left: the next request of the batch is next. *)
Drop == op' = None /\ at' = "next"

Read(o) ==
  /\ alive /\ at = "next" /\ o \in batch
  /\ batch' = batch \ {o}
  /\ IF o \in request THEN op' = o /\ at' = "claim" ELSE UNCHANGED <<op, at>>
  /\ UNCHANGED <<files, frontVars, childVars, alive, binary, limits>>

EndCycle ==
  /\ alive /\ at = "next" /\ batch = {}
  /\ at' = "idle"
  /\ UNCHANGED <<files, frontVars, childVars, alive, binary, op, batch, limits>>

(* Mutant: the request is removed only when it has been carried out. *)
ClaimLater ==
  /\ alive /\ at = "claim"
  /\ IF op \in request THEN at' = "spawn" /\ UNCHANGED op ELSE Drop
  /\ UNCHANGED <<files, frontVars, childVars, alive, binary, batch, limits>>

(* Mutant: the error of removing the request is ignored. *)
ClaimAnyway ==
  /\ alive /\ at = "claim"
  /\ request' = request \ {op} /\ at' = "spawn"
  /\ UNCHANGED <<cancel, secret, result, frontVars, childVars, alive, binary, op, batch, limits>>

(* Removing the request file decides who owns it: a frontend that removed  *)
(* it first has cancelled the operation.                                   *)
Claim ==
  /\ alive /\ at = "claim"
  /\ IF op \in request
     THEN request' = request \ {op} /\ at' = "spawn" /\ UNCHANGED op
     ELSE Drop /\ UNCHANGED request
  /\ UNCHANGED <<cancel, secret, result, frontVars, childVars, alive, binary, batch, limits>>

(* A frontend that cancelled in between has taken the credential away; a   *)
(* daemon without its executable cannot start a child. Neither leaves a    *)
(* result, and the guard removes the credential.                           *)
Spawn ==
  /\ alive /\ at = "spawn"
  /\ IF binary /\ (op \in Secrets => op \in secret)
     THEN /\ at' = "watch" /\ UNCHANGED <<op, secret>>
          /\ child' = [child EXCEPT ![op] = "preparing"]
          /\ spawns' = [spawns EXCEPT ![op] = @ + 1]
     ELSE Drop /\ secret' = secret \ {op} /\ UNCHANGED <<child, spawns>>
  /\ UNCHANGED <<request, cancel, result, frontVars, signalled, alive, binary, batch, limits>>

(* wait_for_child sees the cancel file: SIGTERM ends every child but a     *)
(* migration that has installed its handler.                               *)
SeeCancel ==
  /\ alive /\ at = "watch"
  /\ op \in cancel \ signalled /\ Running(op)
  /\ signalled' = signalled \cup {op}
  /\ child' = IF op \in Migrations /\ child[op] # "preparing" THEN child ELSE [child EXCEPT ![op] = "killed"]
  /\ UNCHANGED <<files, frontVars, spawns, daemonVars, limits>>

(* 25 polls after SIGTERM comes SIGKILL. *)
Kill ==
  /\ alive /\ at = "watch"
  /\ op \in signalled /\ Running(op)
  /\ child' = [child EXCEPT ![op] = "killed"]
  /\ UNCHANGED <<files, frontVars, signalled, spawns, daemonVars, limits>>

(* Mutant: unwrap_or(0) for a child that died of a signal. *)
ExitCodeZero(o) == IF child[o] = "failed" THEN "failed" ELSE "ok"

ExitCode(o) == IF child[o] = "ok" THEN "ok" ELSE "failed"

WriteResult ==
  /\ alive /\ at = "watch" /\ ~Running(op)
  /\ result' = [result EXCEPT ![op] = ExitCode(op)]
  /\ at' = "close"
  /\ UNCHANGED <<request, cancel, secret, frontVars, childVars, alive, binary, op, batch, limits>>

Close ==
  /\ alive /\ at = "close"
  /\ cancel' = cancel \ {op} /\ secret' = secret \ {op}
  /\ Drop
  /\ UNCHANGED <<request, result, frontVars, childVars, alive, binary, batch, limits>>

(* The log cannot be opened, the child not started or the result not        *)
(* written: the error goes to the journal and no result appears.            *)
InfrastructureError ==
  /\ alive /\ faults < MaxFaults /\ faults' = faults + 1
  /\ \/ at = "spawn"
     \/ at = "watch" /\ ~Running(op)
  /\ secret' = secret \ {op}
  /\ Drop
  /\ UNCHANGED <<request, cancel, result, frontVars, childVars, alive, binary, batch, restarts>>

(* The executable of the running daemon is deleted (worker_executable_     *)
(* available turns false).                                                 *)
LoseBinary ==
  /\ binary /\ faults < MaxFaults /\ faults' = faults + 1
  /\ binary' = FALSE
  /\ UNCHANGED <<files, frontVars, childVars, alive, at, op, batch, restarts>>

Daemon ==
  \/ Scan \/ (\E o \in Ops : Read(o)) \/ EndCycle \/ Claim \/ Spawn \/ SeeCancel
  \/ WriteResult \/ Close

(* KillMode=process lets children outlive the daemon; Restart=always starts *)
(* it again, if its executable is there.                                    *)
DaemonDies ==
  /\ alive /\ restarts < MaxRestarts /\ restarts' = restarts + 1
  /\ alive' = FALSE /\ at' = "idle" /\ op' = None /\ batch' = {}
  /\ UNCHANGED <<files, frontVars, childVars, binary, faults>>

DaemonStarts ==
  /\ ~alive /\ Respawn /\ binary /\ alive' = TRUE
  /\ UNCHANGED <<files, frontVars, childVars, binary, at, op, batch, limits>>

-----------------------------------------------------------------------------
(* The child: downloads, then changes the host, then exits. *)
ChildStep(o) ==
  /\ Running(o)
  /\ child' = [child EXCEPT ![o] = CASE @ = "preparing"   -> "downloading"
                                     [] @ = "downloading" -> "applying"
                                     [] OTHER             -> "ok"]
  /\ UNCHANGED <<files, frontVars, signalled, spawns, daemonVars, limits>>

ChildFails(o) ==
  /\ Running(o)
  /\ child' = [child EXCEPT ![o] = "failed"]
  /\ UNCHANGED <<files, frontVars, signalled, spawns, daemonVars, limits>>

DelegationInit ==
  /\ request = {} /\ cancel = {} /\ secret = {}
  /\ result = [o \in Ops |-> None]
  /\ front = [o \in Ops |-> "start"] /\ seen = [o \in Ops |-> "preparing"]
  /\ ctrlC = {} /\ dead = [o \in Ops |-> 0] /\ report = [o \in Ops |-> "none"]
  /\ child = [o \in Ops |-> "none"] /\ signalled = {}
  /\ spawns = [o \in Ops |-> 0]
  /\ alive \in BOOLEAN /\ binary = TRUE /\ at = "idle" /\ op = None /\ batch = {}
  /\ restarts = 0 /\ faults = 0

DelegationNext ==
  \/ \E o \in Ops : Frontend(o) \/ WaitFails(o) \/ PressCtrlC(o) \/ Vanish(o)
                    \/ ChildStep(o) \/ ChildFails(o)
  \/ Daemon \/ Kill \/ InfrastructureError \/ LoseBinary \/ DaemonDies \/ DaemonStarts

DelegationSpec == DelegationInit /\ [][DelegationNext]_delegationVars

(* Frontends poll every 200 ms, a daemon that lives cycles every 2 s, and   *)
(* children end; users, errors and the restart of a daemon promise nothing. *)
Fairness ==
  /\ \A o \in Ops : /\ WF_delegationVars(Frontend(o) /\ front[o] # "start")
                    /\ WF_delegationVars(ChildStep(o))
                    /\ WF_delegationVars(TakeResult(o)) /\ WF_delegationVars(LookForDaemon(o))
  /\ WF_delegationVars(Daemon)

LiveSpec == DelegationSpec /\ Fairness

-----------------------------------------------------------------------------
(* Properties *)

Codes == {"ok", "failed"}

(* Every variable keeps its type. *)
DelegationTypeOK ==
  /\ request \subseteq Ops /\ cancel \subseteq Ops /\ secret \subseteq Secrets
  /\ result \in [Ops -> Codes \cup {None}]
  /\ front \in [Ops -> {"start", "prepared", "asked", "waiting", "clean",
                        "clean_rest", "ended", "gone"}]
  /\ seen \in [Ops -> {"preparing", "downloading", "applying"}]
  /\ ctrlC \subseteq Ops
  /\ dead \in [Ops -> 0..(DeadPolls - 1)]
  /\ report \in [Ops -> Codes \cup {"none", "cancelled", "error", "refused"}]
  /\ child \in [Ops -> Codes \cup {"none", "preparing", "downloading",
                                   "applying", "killed"}]
  /\ signalled \subseteq Ops
  /\ spawns \in [Ops -> Nat]
  /\ alive \in BOOLEAN /\ binary \in BOOLEAN
  /\ at \in {"idle", "next", "claim", "spawn", "watch", "close"}
  /\ op \in Ops \cup {None}
  /\ batch \subseteq Ops
  /\ restarts \in 0..MaxRestarts /\ faults \in 0..MaxFaults

(* A delegated command is started at most once, whoever crashes and         *)
(* whenever it is cancelled (execute_request_inner claims before it runs).  *)
StartedOnce == \A o \in Ops : spawns[o] <= 1

(* The exit code a frontend returns is the one its own child ended with,    *)
(* and a child that died of a signal is never reported as a success         *)
(* (wait_for_child, WorkerResult, wait_for_result).                         *)
ReportIsTrue ==
  \A o \in Ops :
    /\ report[o] = "ok" => child[o] = "ok"
    /\ report[o] = "failed" => child[o] \in {"failed", "killed"}

(* No credential file outlives the frontend that returned, nor the child    *)
(* that was to read it, unless a daemon died in between (cleanup_files,     *)
(* RemoveFile).                                                             *)
NoSecretLeft ==
  \A o \in secret :
    /\ front[o] # "ended"
    /\ child[o] # "none" /\ op # o => restarts > 0

(* Exit codes are those of the child, and no credential outlives its use     *)
(* (wait_for_child, RemoveFile).                                             *)
DelegationInvariant == ReportIsTrue /\ NoSecretLeft

Claimed(o) == op = o /\ at = "spawn"

(* Once its frontend has removed the request no daemon claims a command any *)
(* more, and only one that had claimed it before may still start it (the    *)
(* claim in execute_request_inner).                                         *)
NoStartAfterCancel ==
  [][ \A o \in Ops : front[o] \in {"clean_rest", "ended"} =>
        /\ Claimed(o)' => Claimed(o)
        /\ spawns'[o] # spawns[o] => Claimed(o) ]_delegationVars

(* Every frontend that delegates returns to its user, whenever the daemon   *)
(* dies (wait_for_result), and the request of one that has disappeared is   *)
(* carried out all the same if there is a daemon                            *)
(* (execute_pending_requests).  Excepted are a failed call of the daemon    *)
(* and a daemon that takes the place of another one: both may leave a       *)
(* claimed request without a result.                                        *)
DelegationEnds ==
  LET returned(o) == front[o] = "ended"
      carriedOut(o) == front[o] = "gone" /\ (~alive \/ (o \notin request /\ ~Running(o)))
      replaced == restarts > 0 /\ alive
  IN  \A o \in Ops : front[o] = "prepared"
                     ~> returned(o) \/ carriedOut(o) \/ replaced \/ faults > 0
=============================================================================
