------------------------------ MODULE Migration ------------------------------
(***************************************************************************)
(* lkit migrate: an unmanaged Landscape becomes a managed one.  The        *)
(* frontend holds the install lock, backs the running instance up, marks   *)
(* the transaction "prepared" and hands it to a worker of the daemon,      *)
(* which takes no lock; without a daemon it goes on itself.  The switch    *)
(* stops the old unit, rebuilds the installation from the backup and       *)
(* starts the managed service; from "stopping" on, an error rolls back.    *)
(*                                                                         *)
(* Either process may die, the host may reboot, the frontend may be        *)
(* interrupted while the worker goes on, and whoever gets the lock next    *)
(* recovers what it finds unfinished.                                      *)
(***************************************************************************)
EXTENDS Naturals, Sequences

CONSTANTS MaxCrashes, MaxErrors

VARIABLES
  kind,     \* where the unit of the old deployment is, see Kinds
  old,      \* that unit: place of its file, masked, enabled, running
  new,      \* what the migration makes, and the managed service
  tx,       \* the transaction file; before and legacy are what it records
  proc,     \* the holder of the lock and the worker
  spoiled,  \* one of the windows named below was hit
  crashes, errors

world == <<kind, old, new, tx>>
vars == <<world, proc, spoiled, crashes, errors>>

-----------------------------------------------------------------------------
(* "managed": a plain file on the path lkit registers its own unit under;   *)
(* "etc": another unit in /etc; "lib": elsewhere, so it is masked and not   *)
(* moved; "none": no unit, the user stops the process.                      *)
Kinds == {"managed", "etc", "lib", "none"}
Moved == kind \in {"managed", "etc"}

Terminal == {"none", "committed", "rolled_back", "failed"}
Unfinished == tx.phase \notin Terminal

Nothing == [release |-> FALSE, data |-> FALSE, link |-> FALSE, state |-> FALSE,
            reg |-> FALSE, on |-> FALSE, run |-> FALSE]

-----------------------------------------------------------------------------
(* The scripts *)

PrepareScript == <<"backup", "prepared">>

StopOld ==
  IF kind = "none" THEN <<"note_legacy">>
  ELSE <<"unit_stop", "unit_disable", "unit_away", "note_legacy">>

(* A unit on the managed path goes first, or registration would refuse.     *)
SwitchScript ==
  <<"stopping">>
  \o (IF kind = "managed" THEN StopOld \o <<"note_before">> ELSE <<"note_before">> \o StopOld)
  \o <<"activating", "release", "data", "link", "register", "start", "verifying",
       "health", "state", "committed">>

RollbackScript ==
  <<"rolling_back", "new_off", "rm_new", "unit_back", "unit_on", "rm_data", "rolled_back">>

EarlyScript == <<"unit_back", "unit_on", "new_off", "failed">>

Script(name) ==
  CASE name = "prepare"  -> PrepareScript
    [] name = "switch"   -> SwitchScript
    [] name = "rollback" -> RollbackScript
    [] name = "early"    -> EarlyScript
    [] name = "fail"     -> <<"failed">>
    [] OTHER             -> <<>>

Processes == {"front", "worker"}

(* before and legacy are the process's own copy of the transaction. *)
Idle == [script |-> "idle", i |-> 1, before |-> FALSE, legacy |-> FALSE]
Runs(name) == [script |-> name, i |-> 1, before |-> tx.before, legacy |-> tx.legacy]

Steps(p) == proc[p].script \notin {"idle", "waiting"}
At(p, step) == Steps(p) /\ Script(proc[p].script)[proc[p].i] = step
Passed(p, step) == \E j \in 1..(proc[p].i - 1) : Script(proc[p].script)[j] = step

(* After "prepared" the frontend delegates, or goes on without a daemon. *)
Ends(p) == IF proc[p].script = "prepare" THEN {Runs("waiting"), Runs("switch")} ELSE {Idle}

Advances(p) ==
  IF proc[p].i = Len(Script(proc[p].script))
  THEN \E q \in Ends(p) : proc' = [proc EXCEPT ![p] = q]
  ELSE proc' = [proc EXCEPT ![p].i = @ + 1]

Counters == <<spoiled, crashes, errors>>

(* A step that changes neither the transaction file nor the old unit. *)
Makes(p, step, after) ==
  At(p, step) /\ new' = after /\ Advances(p) /\ UNCHANGED <<kind, old, tx, Counters>>

TurnsOld(p, step, after) ==
  At(p, step) /\ old' = after /\ Advances(p) /\ UNCHANGED <<kind, new, tx, Counters>>

(* Every write of the file writes all of the process's copy. *)
Writes(p, phase, before, legacy) ==
  /\ tx' = [tx EXCEPT !.phase = phase, !.before = before, !.legacy = legacy]
  /\ UNCHANGED <<kind, old, new, Counters>>

MarkPhase(p) ==
  \E phase \in {"prepared", "stopping", "activating", "verifying", "rolling_back",
                "committed", "rolled_back", "failed"} :
    At(p, phase) /\ Writes(p, phase, proc[p].before, proc[p].legacy) /\ Advances(p)

(* The copy was taken in "prepared", and that is what persist writes back. *)
Notes(p, step, before, legacy) ==
  /\ At(p, step)
  /\ Writes(p, "prepared", before, legacy)
  /\ proc' = [proc EXCEPT ![p].i = @ + 1, ![p].before = before, ![p].legacy = legacy]

-----------------------------------------------------------------------------
(* Preparation and hand-over *)

(* The instance is found by its ports and serves the directory. *)
Begin ==
  /\ proc["front"].script = "idle" /\ tx.phase = "none"
  /\ old.run
  /\ tx' = [tx EXCEPT !.phase = "preparing"]
  /\ proc' = [proc EXCEPT !["front"] = Runs("prepare")]
  /\ UNCHANGED <<kind, old, new, Counters>>

CreateBackup(p) ==
  /\ At(p, "backup")
  /\ old.run
  /\ tx' = [tx EXCEPT !.backup = TRUE]
  /\ Advances(p)
  /\ UNCHANGED <<kind, old, new, Counters>>

(* The worker claims what the frontend waits for. *)
LoadPrepared ==
  /\ proc["worker"].script = "idle" /\ proc["front"].script = "waiting"
  /\ tx.phase = "prepared" /\ tx.backup
  /\ old.run
  /\ proc' = [proc EXCEPT !["worker"] = Runs("switch")]
  /\ UNCHANGED <<world, Counters>>

(* The worker has ended, or there is nothing left for it to claim. *)
FrontReturns ==
  /\ proc["front"].script = "waiting" /\ proc["worker"].script = "idle"
  /\ ~(tx.phase = "prepared" /\ old.run)
  /\ proc' = [proc EXCEPT !["front"] = Idle]
  /\ UNCHANGED <<world, Counters>>

(* Ctrl+C, or the end of the session, while the worker goes on. *)
FrontLeaves ==
  /\ proc["front"].script = "waiting"
  /\ proc' = [proc EXCEPT !["front"] = Idle]
  /\ UNCHANGED <<world, Counters>>

-----------------------------------------------------------------------------
(* The old unit *)

StopUnit(p) == TurnsOld(p, "unit_stop", [old EXCEPT !.run = FALSE])
DisableUnit(p) == TurnsOld(p, "unit_disable", [old EXCEPT !.on = FALSE])

(* Moved into the transaction's directory, or masked where it is. *)
PutUnitAway(p) ==
  TurnsOld(p, "unit_away", IF Moved THEN [old EXCEPT !.place = "aside"]
                           ELSE [old EXCEPT !.masked = TRUE])

(* Mutant: what was moved is not recorded. *)
NoteLegacyForgets(p) == Notes(p, "note_legacy", proc[p].before, FALSE)

NoteLegacy(p) == Notes(p, "note_legacy", proc[p].before, kind # "none")

NoteBefore(p) == Notes(p, "note_before", TRUE, proc[p].legacy)

(* move_file finds nothing where the file was moved from once already.      *)
UnitIsBack == Moved /\ old.place = "in"
PutUnitBack(p) ==
  /\ proc[p].legacy => ~UnitIsBack
  /\ TurnsOld(p, "unit_back", IF proc[p].legacy THEN [old EXCEPT !.place = "in"] ELSE old)

RestoreLegacyUnit(p) ==
  TurnsOld(p, "unit_on", IF proc[p].legacy
                         THEN [old EXCEPT !.masked = FALSE, !.on = TRUE, !.run = TRUE]
                         ELSE old)

(* Whoever started the process in the foreground stops it. *)
UserStopsOld ==
  /\ kind = "none" /\ old.run /\ tx.phase \notin Terminal
  /\ old' = [old EXCEPT !.run = FALSE]
  /\ UNCHANGED <<kind, new, tx, proc, Counters>>

-----------------------------------------------------------------------------
(* The new installation *)

RebuildRelease(p) == Makes(p, "release", [new EXCEPT !.release = TRUE])
SeedData(p) == Makes(p, "data", [new EXCEPT !.data = TRUE])
RestoreCurrent(p) == Makes(p, "link", [new EXCEPT !.link = TRUE])

(* Both own the path of the managed unit. *)
PathTaken == kind = "managed" /\ old.place = "in"

Register(p) == ~PathTaken /\ Makes(p, "register", [new EXCEPT !.reg = TRUE, !.on = TRUE])
Start(p) == Makes(p, "start", [new EXCEPT !.run = new.reg /\ new.link])

(* The ports must belong to the process of the managed service. *)
WaitForHealth(p) == new.run /\ ~old.run /\ Makes(p, "health", new)
WriteState(p) == Makes(p, "state", [new EXCEPT !.state = TRUE])

(* Unregistered, disabled, stopped: what it was before, if that was noted. *)
RestoreBefore(p) ==
  /\ proc[p].before => ~PathTaken
  /\ Makes(p, "new_off", IF proc[p].before
                         THEN [new EXCEPT !.reg = FALSE, !.on = FALSE, !.run = FALSE]
                         ELSE new)

CleanupFirstInstall(p) ==
  Makes(p, "rm_new", [new EXCEPT !.release = FALSE, !.link = FALSE, !.state = FALSE])
CleanupRoot(p) == Makes(p, "rm_data", [new EXCEPT !.data = FALSE])

Step(p) ==
  \/ CreateBackup(p) \/ MarkPhase(p)
  \/ StopUnit(p) \/ DisableUnit(p) \/ PutUnitAway(p) \/ NoteLegacy(p) \/ NoteBefore(p)
  \/ PutUnitBack(p) \/ RestoreLegacyUnit(p)
  \/ RebuildRelease(p) \/ SeedData(p) \/ RestoreCurrent(p) \/ Register(p) \/ Start(p)
  \/ WaitForHealth(p) \/ WriteState(p)
  \/ RestoreBefore(p) \/ CleanupFirstInstall(p) \/ CleanupRoot(p)

-----------------------------------------------------------------------------
(* Errors, cancellation, crashes, recovery *)

(* Before "stopping" the transaction is only marked; after it the rollback  *)
(* reads the file again, and returns if another process has ended it.       *)
Handler(p) ==
  CASE proc[p].script = "prepare"  -> Runs("fail")
    [] proc[p].script = "switch"   -> IF ~Passed(p, "stopping") THEN Runs("fail")
                                      ELSE IF Unfinished THEN Runs("rollback") ELSE Idle
    [] proc[p].script = "rollback" -> IF Passed(p, "rolling_back") THEN Runs("fail") ELSE Idle
    [] OTHER                       -> Idle

(* Windows the transaction file cannot tell apart.  The old unit has been   *)
(* touched and the file does not say so yet; or it is back in its place and *)
(* the file does not say so yet, so that undoing it again is refused.       *)
InWindow(p) ==
  \/ proc[p].script = "switch" /\ Passed(p, "unit_stop") /\ ~Passed(p, "note_legacy")
  \/ proc[p].script \in {"rollback", "early"} /\ proc[p].legacy /\ Passed(p, "unit_back")

Undoes(p) == proc[p].script \in {"rollback", "early"}

(* A step returns an error, or finds the cancellation. *)
StepFails(p) ==
  /\ Steps(p)
  /\ errors < MaxErrors /\ errors' = errors + 1
  /\ proc' = [proc EXCEPT ![p] = Handler(p)]
  /\ spoiled' = (spoiled \/ InWindow(p) \/ Undoes(p))
  /\ UNCHANGED <<world, crashes>>

(* What a step needs is not there. *)
Stuck(p) ==
  \/ At(p, "backup") /\ ~old.run
  \/ At(p, "unit_back") /\ proc[p].legacy /\ UnitIsBack
  \/ At(p, "register") /\ PathTaken
  \/ At(p, "health") /\ (old.run \/ ~new.run)
  \/ At(p, "new_off") /\ proc[p].before /\ PathTaken

(* A refusal while undoing is the second window met: recovery meets it      *)
(* without a crash where the old file is on the managed path.               *)
StepRefused(p) ==
  /\ Stuck(p)
  /\ proc' = [proc EXCEPT ![p] = Handler(p)]
  /\ spoiled' = (spoiled \/ Undoes(p))
  /\ UNCHANGED <<world, crashes, errors>>

Crash(p) ==
  /\ proc[p].script # "idle"
  /\ crashes < MaxCrashes /\ crashes' = crashes + 1
  /\ proc' = [proc EXCEPT ![p] = Idle]
  /\ spoiled' = (spoiled \/ InWindow(p))
  /\ UNCHANGED <<world, errors>>

Reboot ==
  /\ crashes < MaxCrashes /\ crashes' = crashes + 1
  /\ proc' = [p \in Processes |-> Idle]
  /\ old' = [old EXCEPT !.run = old.on /\ old.place = "in" /\ ~old.masked]
  /\ new' = [new EXCEPT !.run = new.reg /\ new.on /\ new.link]
  /\ spoiled' = (spoiled \/ \E p \in Processes : InWindow(p))
  /\ UNCHANGED <<kind, tx, errors>>

(* recover_migrate, for whoever gets the lock; the worker holds none. *)
Recover ==
  /\ proc["front"].script = "idle" /\ Unfinished
  /\ proc' = [proc EXCEPT !["front"] =
                CASE tx.phase = "preparing"                -> Runs("fail")
                  [] tx.phase \in {"prepared", "stopping"} -> Runs("early")
                  [] OTHER                                 -> Runs("rollback")]
  /\ spoiled' = (spoiled \/ Steps("worker"))
  /\ UNCHANGED <<world, crashes, errors>>

-----------------------------------------------------------------------------
Init ==
  /\ kind \in Kinds
  /\ old = [place |-> "in", masked |-> FALSE, on |-> kind # "none", run |-> TRUE]
  /\ new = Nothing
  /\ tx = [phase |-> "none", backup |-> FALSE, before |-> FALSE, legacy |-> FALSE]
  /\ proc = [p \in Processes |-> Idle]
  /\ spoiled = FALSE
  /\ crashes = 0 /\ errors = 0

Next ==
  \/ Begin \/ LoadPrepared \/ FrontReturns \/ FrontLeaves \/ UserStopsOld
  \/ \E p \in Processes : Step(p) \/ StepFails(p) \/ StepRefused(p) \/ Crash(p)
  \/ Reboot \/ Recover

Spec == Init /\ [][Next]_vars

(* Processes go on, the daemon starts the worker and recovers. *)
FairSpec ==
  /\ Spec
  /\ \A p \in Processes : WF_vars(Step(p) \/ StepRefused(p))
  /\ WF_vars(LoadPrepared) /\ WF_vars(FrontReturns) /\ WF_vars(Recover)

-----------------------------------------------------------------------------
(* Properties *)

(* Types; a script is never past its end. *)
TypeOK ==
  /\ kind \in Kinds
  /\ old \in [place: {"in", "aside"}, masked: BOOLEAN, on: BOOLEAN, run: BOOLEAN]
  /\ DOMAIN new = DOMAIN Nothing /\ \A f \in DOMAIN new : new[f] \in BOOLEAN
  /\ tx.phase \in Terminal \cup {"preparing", "prepared", "stopping", "activating",
                                 "verifying", "rolling_back"}
  /\ \A p \in Processes : Steps(p) => proc[p].i \in 1..Len(Script(proc[p].script))

Quiet == ~Unfinished /\ \A p \in Processes : proc[p].script = "idle"

(* Outside the windows a migration ends one way: committed with the managed *)
(* router whole and running and the old unit out of the way, or with        *)
(* nothing of the new one left and the old unit in place, enabled, running. *)
EndsWithRouter ==
  Quiet /\ ~spoiled =>
    IF tx.phase = "committed"
    THEN /\ \A f \in DOMAIN new : new[f]
         /\ ~old.on /\ ~old.run /\ (old.place = "aside" \/ old.masked \/ kind = "none")
    ELSE /\ new = Nothing
         /\ kind # "none" => old = [place |-> "in", masked |-> FALSE, on |-> TRUE, run |-> TRUE]

(* The two routers are never both set to start with the host.               *)
NotBothAtBoot ==
  ~spoiled => ~(new.reg /\ new.on /\ old.on /\ old.place = "in" /\ ~old.masked)

(* The old deployment is not touched, and nothing of the new one made,      *)
(* before the backup of the old one is recorded.                            *)
BackedUpFirst ==
  tx.backup \/ (new = Nothing /\ old.place = "in" /\ old.on = (kind # "none"))

(* An unfinished migration is ended, outside the windows, by whoever has it *)
(* or by recovery.                                                          *)
Settles == Unfinished ~> (~Unfinished \/ spoiled)
=============================================================================
