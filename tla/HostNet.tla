------------------------------- MODULE HostNet -------------------------------
(***************************************************************************)
(* lkit-hostnet: the interfaces Landscape takes over are taken out of the  *)
(* hands of ifupdown.  The files reachable from /etc/network/interfaces    *)
(* are collected, an edit of each is planned, the originals are saved with *)
(* a manifest, the files are replaced one after the other, and ifup        *)
(* --no-act judges the result.  What fails after the backup is undone, but *)
(* never over somebody else's edit.                                        *)
(*                                                                         *)
(* A file is the sequence of its logical lines; file mode and owner go     *)
(* with the content.                                                       *)
(***************************************************************************)
EXTENDS Naturals, Sequences, SequencesExt, FiniteSets, Functions, HostNetLines

CONSTANTS
  Main, Extra,   \* the files: Main is /etc/network/interfaces
  Contents,      \* for each file, what an administrator may write there
  Selections,    \* the sets of interfaces lkit may be asked to release
  MaxEdits, MaxErrors, MaxCrashes

VARIABLES
  files,         \* what is on disk
  backup,        \* the backup directory: what is saved, and the manifest
  op,            \* the running operation
  original,      \* the files when the operation began
  ours,          \* the files whose content lkit put there
  replaced,      \* what each of these held when lkit replaced it
  late,          \* files edited between lkit's last look and its rename, and which
  last,          \* how the last operation ended
  edits, errors, crashes

vars == <<files, backup, op, original, ours, replaced, late, last, edits, errors, crashes>>

-----------------------------------------------------------------------------
(* Lines *)

None == Comment

Files == {Main, Extra}
Order == <<Main, Extra>>

TopLevel == {"iface", "auto", "mapping", "rename", "source"}

(* An option belongs to the last top-level line before it. *)
Owner(content, j) == SelectLastInSubSeq(content, 1, j, LAMBDA l : l.k \in TopLevel)
OptionsOf(content, i) == {j \in DOMAIN content : content[j].k = "option" /\ Owner(content, j) = i}

(* An option outside of a stanza is an error. *)
Parses(content) ==
  \A j \in DOMAIN content :
    content[j].k = "option" =>
      Owner(content, j) # 0 /\ content[Owner(content, j)].k \in {"iface", "mapping"}

Wildcard == "*"
Matches(pattern, i) == pattern = Wildcard \/ pattern = i

-----------------------------------------------------------------------------
(* The files reachable through source lines *)

Sourced(fs, S) == S \cup {g \in Files : \E f \in S : Source(g) \in Range(fs[f])}
Collect(fs) ==
  LET step[n \in 0..Cardinality(Files)] ==
        IF n = 0 THEN {Main} ELSE Sourced(fs, step[n - 1])
  IN  step[Cardinality(Files)]

Blocks(content) == {i \in DOMAIN content : content[i].k = "iface"}
NameOf(content, i) == CHOOSE n \in content[i].names : TRUE

AmbiguousMapping(content, selected) ==
  \E j \in DOMAIN content, i \in selected :
    LET l == content[j]
    IN  \/ l.k \in {"mapping", "rename"} /\ \E p \in l.names : Matches(p, i)
        \/ l.k = "rename" /\ l.ref = i

PortKeys == {"bridge_ports", "bond-slaves"}

(* Another interface is built from a selected one. *)
SelectedDependency(content, selected) ==
  \E b \in Blocks(content) :
    /\ NameOf(content, b) \notin selected
    /\ \/ content[b].ref \in selected
       \/ \E j \in OptionsOf(content, b) :
            /\ content[j].arg \in PortKeys
            /\ content[j].ref = "all" \/ \E i \in selected : Matches(content[j].ref, i)

ManagedIn(fs, set, selected) ==
  {i \in selected : \E f \in set : \E b \in Blocks(fs[f]) : NameOf(fs[f], b) = i}

-----------------------------------------------------------------------------
(* The edit of one file *)

Bare(content, b) ==
  content[b].arg = "manual" /\ content[b].ref = "none" /\ OptionsOf(content, b) = {}
Released(content, managed) == {b \in Blocks(content) : NameOf(content, b) \in managed /\ ~Bare(content, b)}

Refuses(content, selected, managed) ==
  \/ ~Parses(content)
  \/ AmbiguousMapping(content, selected)
  \/ SelectedDependency(content, selected)
  \/ \E b \in Blocks(content) : NameOf(content, b) \in managed /\ content[b].arg = "ppp"
  \/ \E j \in DOMAIN content :
       content[j].k = "auto" /\ Wildcard \in content[j].names /\ managed # {}

NewLine(content, managed, j) ==
  IF content[j].k = "iface" /\ j \in Released(content, managed)
  THEN Iface(NameOf(content, j), "manual", "none")
  ELSE IF content[j].k = "auto" THEN [content[j] EXCEPT !.names = @ \ managed] ELSE content[j]

(* Options of a released stanza and selections left empty go. *)
Removed(content, managed, j) ==
  \/ content[j].k = "option" /\ Owner(content, j) \in Released(content, managed)
  \/ content[j].k = "auto" /\ content[j].names \cap managed # {} /\ content[j].names \subseteq managed

Edited(content, managed) ==
  LET kept == {j \in DOMAIN content : ~Removed(content, managed, j)}
  IN  [k \in 1..Cardinality(kept) |->
         NewLine(content, managed, CHOOSE j \in kept : Cardinality({i \in kept : i <= j}) = k)]

Unplanned == [f \in Files |-> <<None>>]
PlanUnmanage(fs, set, selected) ==
  LET managed == ManagedIn(fs, set, selected)
  IN  [f \in Files |->
         IF f \in set /\ Edited(fs[f], managed) # fs[f] THEN Edited(fs[f], managed) ELSE <<None>>]
Refused(fs, set, selected) ==
  \E f \in set : Refuses(fs[f], selected, ManagedIn(fs, set, selected))

-----------------------------------------------------------------------------
(* The operation *)

Idle == [phase |-> "idle", set |-> {}, selected |-> {}, plan |-> Unplanned, was |-> Unplanned,
         i |-> 1, pending |-> {}, conflict |-> FALSE]
Running == op.phase # "idle"
Planned(f) == op.plan[f] # <<None>>
file == Order[op.i]
Go(phase) == op' = [op EXCEPT !.phase = phase, !.i = 1]
End(how) == op' = Idle /\ last' = how
Counters == <<edits, errors, crashes>>
Ghosts == <<original, ours, replaced, late>>

Start(selected) ==
  /\ ~Running
  /\ op' = [Idle EXCEPT !.phase = "plan", !.set = Collect(files), !.selected = selected]
  /\ original' = files /\ last' = "none"
  /\ UNCHANGED <<files, backup, ours, replaced, late, Counters>>

Plan ==
  /\ op.phase = "plan"
  /\ LET plan == PlanUnmanage(files, op.set, op.selected)
     IN  IF Refused(files, op.set, op.selected) THEN End("refused")
         ELSE IF plan = Unplanned THEN End("nothing")
         ELSE /\ op' = [op EXCEPT !.phase = "backup", !.plan = plan,
                                  !.was = [f \in Files |-> IF plan[f] # <<None>> THEN files[f] ELSE <<None>>]]
              /\ UNCHANGED last
  /\ UNCHANGED <<files, backup, Ghosts, Counters>>

AsPlanned == \A f \in Files : Planned(f) => files[f] = op.was[f]

(* A destination that exists is refused, and files edited since the plan.   *)
BeginBackup ==
  /\ op.phase = "backup"
  /\ IF backup.dir \/ ~AsPlanned THEN End("refused") /\ UNCHANGED backup
     ELSE /\ backup' = [dir |-> TRUE, saved |-> Unplanned, manifest |-> FALSE]
          /\ Go("save") /\ UNCHANGED last
  /\ UNCHANGED <<files, Ghosts, Counters>>

Advance(next) ==
  op' = IF op.i < Len(Order) THEN [op EXCEPT !.i = @ + 1] ELSE [op EXCEPT !.phase = next, !.i = 1]

Save ==
  /\ op.phase = "save"
  /\ backup' = [backup EXCEPT !.saved[file] = op.was[file]]
  /\ Advance("manifest")
  /\ UNCHANGED <<files, Ghosts, last, Counters>>

(* Mutant: the manifest comes after the edit of the files. *)
WriteManifestLate ==
  /\ op.phase = "manifest"
  /\ UNCHANGED backup
  /\ Go("check")
  /\ UNCHANGED <<files, Ghosts, last, Counters>>

WriteManifest ==
  /\ op.phase = "manifest"
  /\ backup' = [backup EXCEPT !.manifest = TRUE]
  /\ Go("check")
  /\ UNCHANGED <<files, Ghosts, last, Counters>>

(* apply looks at all files before the first is replaced. *)
CheckAll ==
  /\ op.phase = "check"
  /\ IF AsPlanned THEN Go("verify") ELSE Go("inspect")
  /\ UNCHANGED <<files, backup, Ghosts, last, Counters>>

Verify ==
  /\ op.phase = "verify"
  /\ IF ~Planned(file) THEN Advance("validate")
     ELSE IF files[file] = op.was[file] THEN op' = [op EXCEPT !.phase = "rename"]
     ELSE Go("inspect")
  /\ UNCHANGED <<files, backup, Ghosts, last, Counters>>

RenameInto(f, content) ==
  /\ files' = [files EXCEPT ![f] = content]
  /\ replaced' = [replaced EXCEPT ![f] = files[f]]

Replace ==
  /\ op.phase = "rename"
  /\ RenameInto(file, op.plan[file]) /\ ours' = ours \cup {file}
  /\ op' = IF op.i < Len(Order) THEN [op EXCEPT !.phase = "verify", !.i = @ + 1]
           ELSE [op EXCEPT !.phase = "validate", !.i = 1]
  /\ UNCHANGED <<backup, original, late, last, Counters>>

(* ifup may be missing, then nothing is learnt. *)
Validate(verdict) ==
  /\ op.phase = "validate"
  /\ IF verdict = "failed" THEN Go("inspect") /\ UNCHANGED last ELSE End("done")
  /\ UNCHANGED <<files, backup, Ghosts, Counters>>

(* restore_if_unchanged: which files are as the plan left them.  A file     *)
(* edited after this look ends the recovery, and the ones after it stay.    *)
Inspect ==
  /\ op.phase = "inspect"
  /\ LET pending == {f \in Files : Planned(f) /\ files[f] # op.was[f] /\ files[f] = op.plan[f]}
         conflict == \E f \in Files : Planned(f) /\ files[f] \notin {op.was[f], op.plan[f]}
     IN  op' = [op EXCEPT !.phase = "undo", !.i = 1, !.pending = pending, !.conflict = conflict]
  /\ UNCHANGED <<files, backup, Ghosts, last, Counters>>

Undo ==
  /\ op.phase = "undo"
  /\ IF file \notin op.pending
     THEN IF op.i < Len(Order) THEN Advance("undo") /\ UNCHANGED last
          ELSE End(IF op.conflict THEN "conflict" ELSE "failed")
     ELSE IF files[file] = op.plan[file] THEN op' = [op EXCEPT !.phase = "put_back"] /\ UNCHANGED last
     ELSE End("recovery_failed")
  /\ UNCHANGED <<files, backup, Ghosts, Counters>>

PutBack ==
  /\ op.phase = "put_back"
  /\ RenameInto(file, backup.saved[file]) /\ ours' = ours \ {file}
  /\ op' = [op EXCEPT !.phase = "undo", !.pending = @ \ {file}]
  /\ UNCHANGED <<backup, original, late, last, Counters>>

(* The explicit restore goes by the manifest and overwrites. *)
Restore ==
  /\ ~Running /\ backup.manifest
  /\ op' = [Idle EXCEPT !.phase = "restore"]
  /\ last' = "none"
  /\ UNCHANGED <<files, backup, Ghosts, Counters>>

RestoreFile ==
  /\ op.phase = "restore"
  /\ IF backup.saved[file] = <<None>> THEN UNCHANGED <<files, ours>>
     ELSE files' = [files EXCEPT ![file] = backup.saved[file]] /\ ours' = ours \ {file}
  /\ IF op.i < Len(Order) THEN Advance("restore") /\ UNCHANGED last ELSE End("restored")
  /\ UNCHANGED <<backup, original, replaced, late, Counters>>

-----------------------------------------------------------------------------
(* Faults, and the administrator *)

StepFails ==
  /\ Running /\ errors < MaxErrors /\ errors' = errors + 1
  /\ CASE op.phase \in {"plan", "backup"} -> End("refused") /\ UNCHANGED backup
       [] op.phase \in {"save", "manifest"} ->
            End("refused") /\ backup' = [dir |-> FALSE, saved |-> Unplanned, manifest |-> FALSE]
       [] op.phase \in {"check", "verify", "rename", "validate"} -> Go("inspect") /\ UNCHANGED <<last, backup>>
       [] OTHER -> End("recovery_failed") /\ UNCHANGED backup
  /\ UNCHANGED <<files, Ghosts, edits, crashes>>

Crash ==
  /\ Running /\ crashes < MaxCrashes /\ crashes' = crashes + 1
  /\ End("crashed")
  /\ UNCHANGED <<files, backup, Ghosts, edits, errors>>

(* Between verify_snapshot and the rename nobody looks any more. *)
InWindow(f) == op.phase \in {"rename", "put_back"} /\ f = file

Edit(f, content) ==
  /\ edits < MaxEdits /\ edits' = edits + 1
  /\ Running /\ op.phase # "restore"
  /\ content # files[f]
  /\ files' = [files EXCEPT ![f] = content] /\ ours' = ours \ {f}
  /\ late' = IF InWindow(f) THEN late \cup {<<f, op.phase>>} ELSE late
  /\ UNCHANGED <<backup, op, original, replaced, last, errors, crashes>>

-----------------------------------------------------------------------------
Init ==
  /\ files \in {fs \in [Files -> UNION Range(Contents)] : \A f \in Files : fs[f] \in Contents[f]}
  /\ backup = [dir |-> FALSE, saved |-> Unplanned, manifest |-> FALSE]
  /\ op = Idle /\ original = files /\ ours = {} /\ replaced = Unplanned /\ late = {}
  /\ last = "none" /\ edits = 0 /\ errors = 0 /\ crashes = 0

Next ==
  \/ \E selected \in Selections : Start(selected)
  \/ Plan \/ BeginBackup \/ Save \/ WriteManifest \/ CheckAll \/ Verify \/ Replace
  \/ \E verdict \in {"clean", "unavailable", "failed"} : Validate(verdict)
  \/ Inspect \/ Undo \/ PutBack \/ Restore \/ RestoreFile
  \/ StepFails \/ Crash
  \/ \E f \in Files : \E content \in Contents[f] : Edit(f, content)

Spec == Init /\ [][Next]_vars

-----------------------------------------------------------------------------
(* Properties *)

(* Types; the walk never leaves the files. *)
TypeOK ==
  /\ op.phase \in {"idle", "plan", "backup", "save", "manifest", "check", "verify", "rename", "validate",
                   "inspect", "undo", "put_back", "restore"}
  /\ op.i \in 1..Len(Order) /\ ours \subseteq Files
  /\ last \in {"none", "refused", "nothing", "done", "failed", "conflict", "recovery_failed", "restored", "crashed"}

(* What ifupdown makes of the files: the stanzas of an interface with what  *)
(* they inherit, and whether it is brought up at boot.                      *)
StanzasOf(fs, i) ==
  UNION {{<<f, fs[f][b].arg, fs[f][b].ref, {fs[f][j] : j \in OptionsOf(fs[f], b)}>> :
            b \in {c \in Blocks(fs[f]) : NameOf(fs[f], c) = i}} : f \in Collect(fs)}
Inherited(fs, i) == UNION {StanzasOf(fs, s[3]) : s \in StanzasOf(fs, i)}
Wanted(fs, i) ==
  \E f \in Collect(fs) : \E j \in DOMAIN fs[f] :
    fs[f][j].k = "auto" /\ \E p \in fs[f][j].names : Matches(p, i)
ConfigOf(fs, i) == <<StanzasOf(fs, i), Inherited(fs, i), Wanted(fs, i)>>

Interfaces ==
  UNION Selections \cup UNION {{NameOf(files[f], b) : b \in Blocks(files[f])} : f \in Files}

(* When the operation before the plan is through, ifupdown neither brings   *)
(* up nor configures an interface of the selection that it had a stanza     *)
(* for; to every other interface it does what it did; and planning the same *)
(* again finds nothing to do.                                               *)
ReleasedAndNothingElse ==
  op.phase = "validate" /\ edits = 0 =>
    /\ \A i \in ManagedIn(original, op.set, op.selected) :
         /\ ~Wanted(files, i)
         /\ \A s \in StanzasOf(files, i) : s[2] = "manual" /\ s[3] = "none" /\ s[4] = {}
    /\ \A i \in Interfaces \ op.selected : ConfigOf(files, i) = ConfigOf(original, i)
    /\ ~Refused(files, op.set, op.selected) /\ PlanUnmanage(files, op.set, op.selected) = Unplanned

(* Whatever failed, died or was edited: a file with content of lkit's has a *)
(* complete manifest beside it, and what lkit replaced there is in it; all  *)
(* but an edit made after verify_snapshot and before the rename, which is   *)
(* in no backup.                                                            *)
AlwaysRestorable ==
  \A f \in ours :
    backup.manifest /\ (backup.saved[f] = replaced[f] \/ <<f, "rename">> \in late)

(* An operation that reports failure has left nothing of its own behind; if *)
(* it reports that others had edited files meanwhile, those are the only    *)
(* ones it has not restored.                                                *)
FailureLeavesNothing ==
  ~Running =>
    /\ last = "failed" => \A f \in Files : f \notin ours /\ (edits = 0 => files[f] = original[f])
    /\ last = "conflict" => ours = {} /\ edits > 0

(* A step of lkit replaces only what lkit has read or written itself.  An   *)
(* edit of the administrator is overwritten in one case: it fell between    *)
(* the last look at this file and this rename (edit.rs checks, then         *)
(* renames).  The explicit restore is meant to overwrite.                   *)
NoEditOverwritten ==
  [][\A f \in Files :
       /\ files'[f] # files[f] /\ op.phase \in {"rename", "put_back"} /\ edits' = edits
       /\ <<f, op.phase>> \notin late
       => files[f] = IF op.phase = "rename" THEN op.was[f] ELSE op.plan[f]]_vars
=============================================================================
