-------------------------------- MODULE Host --------------------------------
(***************************************************************************)
(* The parts of lkit that change the host and keep no transaction, side by *)
(* side: a behaviour is one of Mirrors, HostNet, Self or Backups, chosen   *)
(* in its first state; the variables of the others stay as they are.       *)
(***************************************************************************)
EXTENDS Backups, Integers

CONSTANTS
  Mirror, Layouts, MaxSwitches,                        \* Mirrors
  Main, Extra, Contents, Selections, MaxEdits,         \* HostNet
  MaxErrors, MaxCrashes,                               \* both
  Release, PageSize, MaxPages, MaxCalls, MaxMishaps    \* Self

VARIABLES
  part,
  host, files, backup, op, before, whole, last, switches, errors, crashes,   \* Mirrors
  interfaces, copies, edit, original, ours, replaced, late, told, edits, faults, cuts,   \* HostNet
  manager, sys, bin, staged, at, verb, want, listing, clean, removed, calls, mishaps   \* Self

(* Candidates are numbered; a thousand of one version is what Self's order  *)
(* of releases can tell apart.  A page has entries.                         *)
ASSUME ReleaseNumbers ==
  /\ Release \subseteq [base: Nat, rc: 0..998, plain: BOOLEAN, flag: BOOLEAN, draft: BOOLEAN, valid: BOOLEAN]
  /\ PageSize \in Nat \ {0} /\ MaxPages \in Nat

ASSUME TwoFiles == Main # Extra

M == INSTANCE Mirrors

N == INSTANCE HostNet WITH
  files <- interfaces, backup <- copies, op <- edit, last <- told, errors <- faults, crashes <- cuts

S == INSTANCE Self WITH
  MaxCommands <- MaxCalls, MaxTrouble <- MaxMishaps,
  pc <- at, op <- verb, commands <- calls, trouble <- mishaps

mirrorVars == <<host, files, backup, op, before, whole, last, switches, errors, crashes>>
netVars == <<interfaces, copies, edit, original, ours, replaced, late, told, edits, faults, cuts>>
selfVars == <<manager, sys, bin, staged, at, verb, want, listing, clean, removed, calls, mishaps>>
backupVars == vars
all == <<part, mirrorVars, netVars, selfVars, backupVars>>

Parts ==
  /\ part \in {"mirrors", "net", "self", "backups"}
  /\ M!Init /\ N!Init /\ S!Init /\ Init

Steps ==
  \/ part = "mirrors" /\ M!Next /\ UNCHANGED <<part, netVars, selfVars, backupVars>>
  \/ part = "net" /\ N!Next /\ UNCHANGED <<part, mirrorVars, selfVars, backupVars>>
  \/ part = "self" /\ S!Next /\ UNCHANGED <<part, mirrorVars, netVars, backupVars>>
  \/ part = "backups" /\ Next /\ UNCHANGED <<part, mirrorVars, netVars, selfVars>>

SideBySide == Parts /\ [][Steps]_all

-----------------------------------------------------------------------------
(* A switch of mirrors can be undone, undoes itself when it fails, and      *)
(* leaves the host its sources and components (run_apply, restore).  This   *)
(* and the next two are looked at in the behaviours of their own part: in   *)
(* the others it rests in one of the initial states seen there.             *)
MirrorsInvariant ==
  part = "mirrors" =>
    M!TypeOK /\ M!Undoable /\ M!FailureUndone /\ M!SourcesKept /\ M!ComponentsKept

(* Releasing interfaces from ifupdown releases those and no others, can be  *)
(* undone at every step but for an edit made after the last look, and       *)
(* leaves nothing behind when it fails (plan_unmanage,                      *)
(* replace_if_unchanged, restore_if_unchanged).                             *)
HostNetInvariant ==
  part = "net" =>
    N!TypeOK /\ N!ReleasedAndNothingElse /\ N!AlwaysRestorable /\ N!FailureLeavesNothing

(* lkit's own binary always runs, upgrade takes the release that was asked  *)
(* for, and a removed daemon stays away (self install, upgrade, remove).    *)
SelfInvariant ==
  part = "self" => S!TypeOK /\ S!BinaryRuns /\ S!SelectsWhatWasAsked /\ S!RemovedStaysGone

(* No step replaces what is not lkit's to replace: an administrator's edit  *)
(* that was there when lkit last looked, a foreign unit, a backup or an output file; and an install or an upgrade *)
(* that reports success has the daemon it speaks of running.                *)
StepsKeepPromises ==
  /\ N!NoEditOverwritten /\ S!ForeignKept /\ NeverReplaced
  /\ S!InstalledMeansRunning /\ S!UpgradedDaemonRunsNew
=============================================================================
