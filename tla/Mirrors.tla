------------------------------- MODULE Mirrors -------------------------------
(***************************************************************************)
(* lkit set-mirror: the files that say where packages come from are        *)
(* rewritten to another mirror.  The rewriting of all files is computed    *)
(* first; then the old backup is removed, the files are saved, and one     *)
(* after the other is replaced.  A failed replacement is rolled back from  *)
(* the backup; --restore does the same on request.  Nothing is recorded    *)
(* about an operation that is cut off.                                     *)
(*                                                                         *)
(* A file is the sequence of its entries: an apt line (kinds "deb",        *)
(* "cdrom", "blank"), a dnf section ("repo", or "off" when its header is   *)
(* commented out), a line of pacman or apk ("server").                     *)
(***************************************************************************)
EXTENDS Naturals, Sequences, SequencesExt, FiniteSets, FiniteSetsExt, MirrorLines

CONSTANTS
  Mirror,      \* the recognised public mirrors
  Layouts,     \* for each family, what its source files may hold at first
  MaxSwitches, \* how often a switch is asked for
  MaxErrors, MaxCrashes

VARIABLES
  host,        \* family and whether os-release names a release
  files,       \* the source files
  backup,      \* the backup directory: whether it exists, and its files
  op,          \* the running operation
  before,      \* the files when the last switch that changes any began
  whole,       \* whether the backup holds all of them ("yes", "no"), or one as an
               \* empty placeholder ("blanked")
  last,        \* how the last operation ended
  switches, errors, crashes

vars == <<host, files, backup, op, before, whole, last, switches, errors, crashes>>

-----------------------------------------------------------------------------
Families == {"apt", "dnf", "pacman", "apk"}

Targets == Mirror \cup {"official"}
(* sources.list, mirrorlist or repositories, then what is in the directory *)
Order == <<"list", "extra">>
Files == {"list", "extra"}
Managed(f) == files[f] # Absent /\ (f = "list" \/ host.family \in {"apt", "dnf"})

-----------------------------------------------------------------------------
(* Rewriting *)

(* The recognised hosts turn into the target; the security repository only  *)
(* on request, or back to the official one.                                 *)
RewriteHost(e, target, security) ==
  IF /\ e.kind \in {"deb", "repo", "server"}
     /\ e.host \in Targets
     /\ e.repo = "security" => security \/ target = "official"
  THEN target ELSE e.host

RewriteEntries(content, target, security) ==
  [i \in DOMAIN content |->
     [content[i] EXCEPT !.host = RewriteHost(content[i], target, security)]]

Twins(content, i, j) ==
  /\ content[i].on /\ content[j].on
  /\ content[i].kind = content[j].kind /\ content[i].kind \in {"deb", "cdrom"}
  /\ content[i].host = content[j].host /\ content[i].repo = content[j].repo

(* Of the twins one with the most components is kept, the first of them.    *)
Keeper(content, i) ==
  LET group == {j \in DOMAIN content : Twins(content, i, j)}
      most == Max({Cardinality(content[j].comps) : j \in group})
  IN  Min({j \in group : Cardinality(content[j].comps) = most})

Duplicate(content, i) ==
  /\ Twins(content, i, i)
  /\ Keeper(content, i) # i
  /\ content[i].comps \subseteq content[Keeper(content, i)].comps

Dedup(content) ==
  LET kept == {i \in DOMAIN content : ~Duplicate(content, i)}
  IN  [k \in 1..Cardinality(kept) |->
         content[CHOOSE i \in kept : Cardinality({j \in kept : j <= i}) = k]]

CommentCdrom(content) ==
  [i \in DOMAIN content |-> [content[i] EXCEPT !.on = @ /\ content[i].kind # "cdrom"]]

HasCdrom(content) == \E i \in DOMAIN content : content[i].kind = "cdrom" /\ content[i].on

(* A blank line counts as an enabled entry here. *)
AnyEnabled(content) == \E i \in DOMAIN content : content[i].on

RewriteApt(content, ask) ==
  LET out == Dedup(RewriteEntries(content, ask.target, ask.security))
      quiet == CommentCdrom(out)
  IN  IF ask.disableCdrom /\ HasCdrom(out) /\ AnyEnabled(quiet) THEN quiet ELSE out

(* The first enabled cdrom entry becomes the target's. *)
ConvertCdrom(content, ask) ==
  LET first == Min({i \in DOMAIN content : content[i].kind = "cdrom" /\ content[i].on})
  IN  [content EXCEPT ![first] = Deb(TRUE, ask.target, "main", content[first].comps)]

SynthLines(ask) ==
  <<Deb(TRUE, ask.target, "main", Comps),
    Deb(TRUE, IF ask.security THEN ask.target ELSE "official", "security", {"main"})>>

(* A section with a base URL, commented out or not, has it enabled and its  *)
(* mirror list disabled; Fedora's placeholder host is resolved.             *)
DnfHost(e, ask) == IF e.host = "placeholder" THEN ask.target ELSE RewriteHost(e, ask.target, FALSE)
HasBaseurl(e) == e.kind = "repo" /\ e.host # "none"
DnfChanges(e, ask) == HasBaseurl(e) /\ (DnfHost(e, ask) # e.host \/ e.list)

(* Mutant: a section without a base URL loses its mirror list too. *)
TransformLineAlways(e, ask) ==
  IF e.kind = "repo" THEN [e EXCEPT !.on = TRUE, !.host = DnfHost(e, ask), !.list = FALSE] ELSE e

TransformLine(e, ask) ==
  IF HasBaseurl(e) THEN [e EXCEPT !.on = TRUE, !.host = DnfHost(e, ask), !.list = FALSE] ELSE e

RewriteDnf(content, ask) ==
  IF \E i \in DOMAIN content : DnfChanges(content[i], ask)
  THEN [i \in DOMAIN content |-> TransformLine(content[i], ask)]
  ELSE content

RewriteApk(content, ask) ==
  [i \in DOMAIN content |->
     IF content[i].on THEN [content[i] EXCEPT !.host = RewriteHost(content[i], ask.target, FALSE)]
     ELSE content[i]]

MirrorlistContent(ask) == <<Server(TRUE, ask.target)>>

Rewrite(content, ask) ==
  CASE host.family = "apt"    -> RewriteApt(content, ask)
    [] host.family = "dnf"    -> RewriteDnf(content, ask)
    [] host.family = "apk"    -> RewriteApk(content, ask)
    [] host.family = "pacman" -> MirrorlistContent(ask)

AlreadyTarget(content, ask) == \E i \in DOMAIN content : content[i].host = ask.target

-----------------------------------------------------------------------------
(* The plan of a switch: what to write to which file *)

ManagedFiles == {f \in Files : Managed(f)}
Unplanned == [f \in Files |-> Keep]

Rewrites(ask) ==
  [f \in Files |->
     LET new == Rewrite(files[f], ask)
     IN  IF Managed(f) /\ (host.family = "pacman" \/ new # files[f]) THEN new ELSE Keep]

AlreadyMatched(ask) ==
  \E f \in ManagedFiles : Rewrites(ask)[f] = Keep /\ AlreadyTarget(files[f], ask)

FirstFile(S) == IF "list" \in S THEN "list" ELSE "extra"

(* What apt does when nothing can be rewritten: the cdrom entry of the      *)
(* first file that has one, or new lines in sources.list, or in             *)
(* lkit-mirror.list, for which "extra" stands.                              *)
Fallback(ask) ==
  LET cd == {f \in ManagedFiles : HasCdrom(files[f])}
      f == FirstFile(cd)
  IN  IF cd # {}
      THEN [Unplanned EXCEPT ![f] = IF ask.disableCdrom
                                    THEN CommentCdrom(files[f]) \o SynthLines(ask)
                                    ELSE ConvertCdrom(files[f], ask)]
      ELSE IF files["list"] # Absent
      THEN [Unplanned EXCEPT !["list"] = files["list"] \o SynthLines(ask)]
      ELSE [Unplanned EXCEPT !["extra"] =
              (IF files["extra"] = Absent THEN <<>> ELSE files["extra"]) \o SynthLines(ask)]

(* Only new lines need the name of the release. *)
FallbackPossible(ask) ==
  host.codename \/ (~ask.disableCdrom /\ \E f \in ManagedFiles : HasCdrom(files[f]))

-----------------------------------------------------------------------------
(* Whether the mirror carries this release: 404 from every place it could   *)
(* be says no; anything else than a hit says nothing.                       *)
Answers == {"ok", "404", "other"}
Probe(answers) ==
  IF "ok" \in answers THEN "available"
  ELSE IF "other" \in answers \/ answers = {} THEN "unknown" ELSE "unavailable"

Idle == [phase |-> "idle", i |-> 1, plan |-> Unplanned, fresh |-> FALSE, undo |-> FALSE]
Running == op.phase # "idle"

Asks == [target: Targets, security: BOOLEAN, disableCdrom: BOOLEAN]

Unchanged == <<host, switches, errors, crashes>>

(* The switch begins: it may find nothing to do, or nothing it can do.      *)
Apply(ask) ==
  LET plan == Rewrites(ask)
      nothing == plan = Unplanned
      apt == host.family = "apt"
  IN
  /\ ~Running /\ switches < MaxSwitches /\ switches' = switches + 1
  /\ host.family # "apt" => ~ask.security /\ ask.disableCdrom
  /\ \/ /\ IF apt \/ host.family = "dnf" THEN nothing /\ AlreadyMatched(ask)
           ELSE host.family = "apk" /\ nothing /\ Managed("list")
        /\ last' = "unchanged"
        /\ UNCHANGED <<op, before, whole>>
     \/ /\ ~apt /\ nothing /\ ~AlreadyMatched(ask)
        /\ host.family = "apk" => ~Managed("list")
        /\ last' = "refused"
        /\ UNCHANGED <<op, before, whole>>
     \/ /\ ~nothing \/ (apt /\ ~AlreadyMatched(ask))
        /\ op' = [phase |-> "clear", i |-> 1, undo |-> FALSE,
                  fresh |-> nothing /\ files["list"] = Absent /\ ~\E f \in ManagedFiles : HasCdrom(files[f]),
                  plan |-> IF ~nothing THEN plan
                           ELSE IF FallbackPossible(ask) THEN Fallback(ask) ELSE Unplanned]
        /\ before' = files /\ whole' = "no"
        /\ last' = "none"
  /\ UNCHANGED <<files, backup, host, errors, crashes>>

(* A mirror known not to carry the release is refused before anything else; *)
(* one that could not be asked is not.  The official one is not asked.      *)
RunApply(ask, unavailable) ==
  IF ask.target # "official" /\ unavailable
  THEN /\ ~Running /\ last' = "refused"
       /\ UNCHANGED <<files, backup, op, before, whole, Unchanged>>
  ELSE Apply(ask)

-----------------------------------------------------------------------------
(* Each phase goes through the files in order *)

f_ == Order[op.i]
NextPhase(phase) ==
  CASE phase = "clear" -> "save" [] phase = "save" -> "write" [] phase = "write" -> "idle"
    [] phase = "copy" -> "drop"  [] phase = "drop" -> "idle"

Advance ==
  op' = IF op.i < Len(Order) THEN [op EXCEPT !.i = @ + 1]
        ELSE IF NextPhase(op.phase) = "idle" THEN Idle
        ELSE [op EXCEPT !.phase = NextPhase(op.phase), !.i = 1]

Ends(how) == last' = IF op.i = Len(Order) THEN how ELSE last

(* remove_dir_all of the backup before, then create_dir_all *)
ClearBackup ==
  /\ op.phase = "clear"
  /\ backup' = [dir |-> TRUE, file |-> [backup.file EXCEPT ![f_] = Absent]]
  /\ Advance
  /\ UNCHANGED <<files, before, whole, last, Unchanged>>

(* The file the new lines go to when there is no sources.list is saved as   *)
(* an empty one, even if it exists and holds something.                     *)
Blanks == op.fresh /\ op.plan[f_] # Keep /\ files[f_] \notin {Absent, <<>>}

SaveFile ==
  /\ op.phase = "save" /\ op.plan # Unplanned
  /\ backup' = IF op.fresh /\ op.plan[f_] # Keep THEN [backup EXCEPT !.file[f_] = <<>>]
               ELSE IF Managed(f_) THEN [backup EXCEPT !.file[f_] = files[f_]]
               ELSE backup
  /\ whole' = IF Blanks THEN "blanked"
              ELSE IF op.i = Len(Order) /\ whole # "blanked" THEN "yes" ELSE whole
  /\ Advance
  /\ UNCHANGED <<files, before, last, Unchanged>>

(* No release name: the new backup is removed and the switch refused. *)
GiveUp ==
  /\ op.phase = "save" /\ op.plan = Unplanned
  /\ backup' = [dir |-> FALSE, file |-> [f \in Files |-> Absent]]
  /\ op' = Idle /\ last' = "refused"
  /\ UNCHANGED <<files, before, whole, Unchanged>>

(* A temporary file beside it and a rename. *)
WriteFile ==
  /\ op.phase = "write"
  /\ files' = IF op.plan[f_] = Keep THEN files ELSE [files EXCEPT ![f_] = op.plan[f_]]
  /\ Advance /\ Ends("switched")
  /\ UNCHANGED <<backup, before, whole, Unchanged>>

(* fs::copy writes in place: the file is torn on the way. *)
CopyBack ==
  /\ op.phase = "copy"
  /\ IF backup.file[f_] = Absent THEN Advance /\ UNCHANGED files
     ELSE IF files[f_] # Torn THEN files' = [files EXCEPT ![f_] = Torn] /\ UNCHANGED op
     ELSE files' = [files EXCEPT ![f_] = backup.file[f_]] /\ Advance
  /\ UNCHANGED <<backup, before, whole, last, Unchanged>>

DropBackup ==
  /\ op.phase = "drop"
  /\ backup' = [dir |-> op.i < Len(Order), file |-> [backup.file EXCEPT ![f_] = Absent]]
  /\ Advance /\ Ends(IF op.undo THEN "failed" ELSE "restored")
  /\ UNCHANGED <<files, before, whole, Unchanged>>

Restore ==
  /\ ~Running /\ backup.dir
  /\ op' = [Idle EXCEPT !.phase = "copy"]
  /\ last' = "none"
  /\ UNCHANGED <<files, backup, before, whole, Unchanged>>

(* An error in a write rolls back; any other error ends the operation.      *)
StepFails ==
  /\ Running /\ errors < MaxErrors /\ errors' = errors + 1
  /\ IF op.phase = "write"
     THEN op' = [op EXCEPT !.phase = "copy", !.i = 1, !.undo = TRUE] /\ UNCHANGED last
     ELSE op' = Idle /\ last' = IF op.phase \in {"clear", "save"} THEN "failed" ELSE "stuck"
  /\ UNCHANGED <<host, files, backup, before, whole, switches, crashes>>

Crash ==
  /\ Running /\ crashes < MaxCrashes /\ crashes' = crashes + 1
  /\ op' = Idle /\ last' = "stuck"
  /\ UNCHANGED <<host, files, backup, before, whole, switches, errors>>

-----------------------------------------------------------------------------
(* os-release tells the family and, for apt, may tell the release. *)
Init ==
  /\ host \in [family: Families, codename: BOOLEAN]
  /\ host.family # "apt" => ~host.codename
  /\ files \in Layouts[host.family]
  /\ backup = [dir |-> FALSE, file |-> [f \in Files |-> Absent]]
  /\ op = Idle
  /\ before = files /\ whole = "yes"
  /\ last = "none" /\ switches = 0 /\ errors = 0 /\ crashes = 0

Next ==
  \/ /\ ~Running
     /\ \E ask \in Asks, unavailable \in {Probe(answers) = "unavailable" : answers \in SUBSET Answers} :
          RunApply(ask, unavailable)
  \/ ClearBackup \/ SaveFile \/ GiveUp \/ WriteFile \/ CopyBack \/ DropBackup
  \/ Restore \/ StepFails \/ Crash

Spec == Init /\ [][Next]_vars

-----------------------------------------------------------------------------
(* Properties *)

(* Types; the walk never leaves the files. *)
TypeOK ==
  /\ op.phase \in {"idle", "clear", "save", "write", "copy", "drop"} /\ op.i \in 1..Len(Order)
  /\ backup.dir \in BOOLEAN /\ whole \in {"yes", "no", "blanked"}
  /\ last \in {"none", "unchanged", "refused", "switched", "failed", "restored", "stuck"}

Same(a, b) == a = b \/ {a, b} = {Absent, <<>>}

(* Whatever errors and deaths came in between, a file that is not as it was *)
(* when the last switch began has its former content in the backup, so that *)
(* --restore brings it back.  Two cases are excepted.  A backup cut off     *)
(* while it replaced the one before is not all there; the switch has        *)
(* touched no file by then.  And without a sources.list a lkit-mirror.list  *)
(* that holds nothing to rewrite is appended to while its saved copy is     *)
(* overwritten by the empty placeholder ("blanked").  A file that a         *)
(* restore cut off has left torn counts as it is when the next switch       *)
(* begins, which removes the backup that has it whole.                      *)
Undoable ==
  whole = "yes" => \A f \in Files : ~Same(files[f], before[f]) => backup.dir /\ Same(backup.file[f], before[f])

(* A switch that reports failure has left the files as they were, the       *)
(* blanked lkit-mirror.list apart.                                          *)
FailureUndone ==
  ~Running /\ last = "failed" /\ whole # "blanked" =>
    \A f \in Files : Same(files[f], before[f])

Works(e) ==
  CASE e.kind \in {"deb", "cdrom", "server"} -> e.on
    [] e.kind = "repo" -> e.list \/ (e.on /\ e.host \notin {"none", "placeholder"})
    [] OTHER -> FALSE

SomeSource(fs) == \E f \in Files : fs[f] # Absent /\ \E i \in DOMAIN fs[f] : Works(fs[f][i])

Switched == ~Running /\ last = "switched"

(* A switch never leaves a host without any source it could install from,   *)
(* and with dnf no section that worked stops working.                       *)
SourcesKept ==
  Switched =>
    /\ SomeSource(before) => SomeSource(files)
    /\ host.family = "dnf" =>
         \A f \in Files : before[f] # Absent =>
           \A i \in DOMAIN before[f] : Works(before[f][i]) => Works(files[f][i])

Offered(fs, repo) ==
  UNION {UNION {{<<e.host, c>> : c \in e.comps} : e \in {x \in Range(fs[f]) : x.kind = "deb" /\ x.on /\ x.repo = repo}} :
           f \in {g \in Files : fs[g] # Absent}}

(* After a switch every component an apt host was offered is still offered, *)
(* by the new mirror if it came from a recognised one: merging the entries  *)
(* that have become equal loses none.                                       *)
ComponentsKept ==
  Switched /\ host.family = "apt" =>
    /\ \A p \in Offered(before, "main") :
         <<p[1], p[2]>> \in Offered(files, "main")
         \/ (p[1] \in Targets /\ \E t \in Targets : <<t, p[2]>> \in Offered(files, "main"))
    /\ \A p \in Offered(files, "main"), q \in Offered(files, "main") :
         p[1] \in Targets /\ q[1] \in Targets => p[1] = q[1]
=============================================================================
