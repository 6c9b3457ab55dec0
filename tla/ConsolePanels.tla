--------------------------- MODULE ConsolePanels ---------------------------
(***************************************************************************)
(* The panels of the interactive console that act on an installation: the *)
(* backup list, the update form, the package mirror list and the software *)
(* list (src/lkit-cli/src/console).  A panel is a record of the fields its *)
(* struct keeps; XKey(p, k, w) is the set of outcomes of its key handler   *)
(* on panel p and key k in world w, XUpdate(p, w) the set of panels that a *)
(* round of the main loop can leave (a worker has answered, failed, died   *)
(* or is still busy), XTakes(p, k, s) whether the handler consumes the key *)
(* (returns Some) when the snapshot of the installation is s.              *)
(* Text is abstracted to its length, a version to a member of Versions,    *)
(* notices and layout are left out.                                        *)
(***************************************************************************)
EXTENDS Naturals, Sequences, FiniteSets, SequencesExt

CONSTANTS Backup,      \* identifiers of backups
          MirrorName,  \* the mirrors of the list, in the order shown
          Source,      \* the sources Docker can be installed from
          Package,     \* the base packages, in the order shown
          MaxText      \* stands for the length limits of the text fields

Chars == {"l", "r", "d", "v", "c", "f", "e", "s", "x", "Space"}
Key == Chars \cup {"Enter", "Esc", "Up", "Down", "Left", "Right", "Tab", "Backspace"}

\* What a key handler hands over: nothing, or a command and its arguments.
NoCmd == [cmd |-> "none", arg |-> <<>>]
Cmd(c, a) == [cmd |-> c, arg |-> a]

Outcome(p, w, o) == {[p |-> p, w |-> w, out |-> o]}
Keep(p, w) == Outcome(p, w, NoCmd)

\* Editing a text field: a character is appended below the limit.
Typed(n, k) == IF k = "Backspace" THEN IF n > 0 THEN n - 1 ELSE 0
               ELSE IF k \in Chars /\ n < MaxText THEN n + 1 ELSE n

Bounded(n, low, high) == IF n < low THEN low ELSE IF n > high THEN high ELSE n
Along(s, x, d) ==      \* the neighbour of x in the sequence s, without wrapping
  LET at == IF \E i \in DOMAIN s : s[i] = x THEN CHOOSE i \in DOMAIN s : s[i] = x ELSE 1
  IN  s[Bounded(at + d, 1, Len(s))]
Around(s, x, d) ==     \* the same, wrapping; an x that is gone counts as before s[1]
  IF \E i \in DOMAIN s : s[i] = x
    THEN s[(((CHOOSE i \in DOMAIN s : s[i] = x) - 1 + d + Len(s)) % Len(s)) + 1]
    ELSE IF d > 0 THEN s[1] ELSE s[Len(s)]

-----------------------------------------------------------------------------
(* Backups: w.store says of each backup whether its file is absent, good,   *)
(* damaged (metadata readable, full verification fails) or unreadable.      *)

Idle == [st |-> "Idle", of |-> "none"]
NewBackup ==
  [list |-> "NotRun", rows |-> <<>>, selected |-> 0, editing |-> FALSE, remark |-> 0,
   details |-> 0, verify |-> Idle, corrupt |-> FALSE, create |-> FALSE,
   restoring |-> FALSE, deleting |-> FALSE, target |-> "none"]

\* load_backups: one row per file, without metadata when it cannot be read.
Listed(w) ==
  LET there == SetToSeq({b \in Backup : w.store[b] # "absent"})
  IN  [i \in DOMAIN there |-> [id |-> there[i], meta |-> w.store[there[i]] # "unreadable"]]

StartList(b) == IF b.list = "Running" THEN b
                ELSE [NewBackup EXCEPT !.list = "Running"]

NoRow == [id |-> "none", meta |-> FALSE]
Row(b, i) == IF b.list = "Complete" /\ i \in DOMAIN b.rows THEN b.rows[i] ELSE NoRow
SelectedEntry(b) == Row(b, b.selected)
DetailsEntry(b) == Row(b, b.details)

\* start_backup_verify: the entry of the details page, else the selected one.
StartVerify(b) ==
  LET entry == IF DetailsEntry(b) # NoRow THEN DetailsEntry(b) ELSE SelectedEntry(b)
  IN  IF entry = NoRow \/ b.verify.st = "Running" THEN b
      ELSE [b EXCEPT !.verify = [st |-> "Running", of |-> entry.id]]

\* BackupPanel::poll, list part: entries, an error, or nothing yet.
PollList(b, w) ==
  IF b.list # "Running" THEN {b}
  ELSE {b, [b EXCEPT !.list = "Failed"],
        [b EXCEPT !.list = "Complete", !.rows = Listed(w), !.details = 0]}

\* Verification part: the worker reads and unpacks the whole file.
PollVerify(b, w) ==
  IF b.verify.st # "Running" THEN {b}
  ELSE {b, [b EXCEPT !.verify.st = "Bad"]}
       \cup (IF w.store[b.verify.of] = "good" THEN {[b EXCEPT !.verify.st = "Ok"]} ELSE {})

\* Mutant: the finished worker is not forgotten.
PollCreateAgain(b) == IF ~b.create THEN {b} ELSE {b, [b EXCEPT !.list = "NotRun"]}

\* Creation part: success has the list loaded again.
PollCreate(b) ==
  IF ~b.create THEN {b}
  ELSE {b, [b EXCEPT !.create = FALSE], [b EXCEPT !.create = FALSE, !.list = "NotRun"]}

PollBackup(b, w) ==
  UNION {UNION {PollCreate(v) : v \in PollVerify(l, w)} : l \in PollList(b, w)}

\* ConsoleApp::update: entering the menu forgets the list that was loaded.
BackupUpdate(b, w, here, entered) ==
  LET fresh == IF entered THEN [b EXCEPT !.list = "NotRun"] ELSE b
      begun == IF here /\ fresh.list = "NotRun" THEN StartList(fresh) ELSE fresh
  IN  PollBackup(begun, w)

BackupLayer(b) ==
  IF b.corrupt THEN "corrupt" ELSE IF b.restoring THEN "restore" ELSE IF b.deleting THEN "delete"
  ELSE IF b.editing THEN "editing" ELSE IF b.details # 0 THEN "details" ELSE "list"

\* Enter on the restore layer: verify first, then ask for the restore.
RestoreEnter(b, w) ==
  LET entry == SelectedEntry(b) IN
  IF entry = NoRow \/ ~entry.meta THEN Keep([b EXCEPT !.restoring = FALSE], w)
  ELSE CASE b.verify.st = "Ok" -> Outcome([b EXCEPT !.restoring = FALSE], w,
                                          Cmd("restore", <<entry.id>>))
         [] b.verify.st = "Bad" -> Keep([b EXCEPT !.restoring = FALSE, !.corrupt = TRUE], w)
         [] b.verify.st = "Running" -> Keep(b, w)
         [] b.verify.st = "Idle" -> Keep(StartVerify(b), w)

\* R on a row or in the details: refused when the last verification failed.
AskRestore(b, entry, w) ==
  Keep(IF ~entry.meta THEN b
       ELSE IF b.verify.st = "Bad" THEN [b EXCEPT !.corrupt = TRUE]
       ELSE [b EXCEPT !.restoring = TRUE], w)

AskDelete(b, entry, w) ==
  Keep(IF ~entry.meta THEN b ELSE [b EXCEPT !.deleting = TRUE, !.target = entry.id], w)

\* delete_backup: the list is loaded again after a success; the install lock
\* may be taken or the file gone, which leaves the panel as it is.
DeleteEnter(b, w) ==
  LET closed == [b EXCEPT !.deleting = FALSE, !.target = "none"]
  IN  Keep(closed, w)
      \cup IF b.target = "none" \/ w.store[b.target] = "absent" THEN {}
           ELSE Keep([closed EXCEPT !.details = 0, !.list = "NotRun"],
                     [w EXCEPT !.store[b.target] = "absent"])

BackupDetailsKey(b, k, w) ==
  CASE k = "Esc" -> Keep([b EXCEPT !.details = 0, !.verify = Idle, !.corrupt = FALSE], w)
    [] k = "v" -> Keep(StartVerify(b), w)
    [] k = "r" -> AskRestore(b, DetailsEntry(b), w)
    [] k = "d" -> AskDelete(b, DetailsEntry(b), w)
    [] OTHER -> Keep(b, w)

BackupListKey(b, k, w) ==
  LET entry == SelectedEntry(b)
      rows == IF b.list = "Complete" THEN Len(b.rows) ELSE 0
  IN  CASE k = "Up" -> Keep([b EXCEPT !.selected = Bounded(@ - 1, 0, @)], w)
        [] k = "Down" -> Keep([b EXCEPT !.selected = Bounded(@ + 1, 0, rows)], w)
        [] k = "Enter" /\ b.selected = 0 -> Keep([b EXCEPT !.editing = TRUE, !.remark = 0], w)
        [] k = "Enter" /\ b.selected # 0 ->
             Keep(IF entry.meta
                    THEN StartVerify([b EXCEPT !.details = b.selected, !.verify = Idle])
                    ELSE b, w)
        [] k = "r" -> AskRestore(b, entry, w)
        [] k = "d" -> AskDelete(b, entry, w)

BackupTakes(b, k, snap) ==
  BackupLayer(b) # "list" \/ (snap = "Installed" /\ k \in {"Up", "Down", "Enter", "r", "d"})

\* Enter in the remark editor: validate_remark may refuse what was typed.
RemarkEnter(b, w) ==
  Keep([b EXCEPT !.editing = FALSE, !.remark = 0, !.create = TRUE], w)
  \cup IF b.remark > 0 THEN Keep(b, w) ELSE {}

\* handle_backup_key: the topmost layer takes the key.
BackupKey(b, k, w) ==
  LET layer == BackupLayer(b) IN
  CASE layer = "corrupt" -> Keep([b EXCEPT !.corrupt = @ /\ k \notin {"Enter", "Esc"}], w)
    [] layer = "restore" -> IF k = "Enter" THEN RestoreEnter(b, w)
                            ELSE Keep([b EXCEPT !.restoring = k # "Esc"], w)
    [] layer = "delete" -> IF k = "Enter" THEN DeleteEnter(b, w)
                           ELSE IF k = "Esc" THEN Keep([b EXCEPT !.deleting = FALSE,
                                                                 !.target = "none"], w)
                           ELSE Keep(b, w)
    [] layer = "editing" -> IF k = "Enter" THEN RemarkEnter(b, w)
                            ELSE Keep(IF k = "Esc" THEN [b EXCEPT !.editing = FALSE, !.remark = 0]
                                      ELSE [b EXCEPT !.remark = Typed(@, k)], w)
    [] layer = "details" -> BackupDetailsKey(b, k, w)
    [] layer = "list" -> BackupListKey(b, k, w)

\* The layers render() draws for the panel, the last one on top; what each shows.
BackupDialog(b) ==
  IF b.create THEN <<"creating">> ELSE IF b.editing THEN <<"remark">>
  ELSE IF b.corrupt THEN <<"corrupt">>
  ELSE IF b.deleting /\ b.target \in {Row(b, i).id : i \in DOMAIN b.rows} THEN <<"delete", b.target>>
  ELSE IF b.restoring /\ SelectedEntry(b).meta THEN <<"restore", SelectedEntry(b).id>>
  ELSE <<>>

-----------------------------------------------------------------------------
(* Update: the form, the worker that resolves the target, and the            *)
(* confirmation.  w.latest is the newest release, w.source whether           *)
(* config.toml names a repository, w.version the installed version.          *)

Versions == {"latest", "v1", "v2", "bad"}
Newer(a, b) == <<b, a>> \in {<<"v1", "v2">>, <<"v1", "v3">>, <<"v2", "v3">>}

NoRequest == <<"none", "none", "none">>
NewUpdate ==
  [version |-> "latest", repo |-> "Github", url |-> "good", sel |-> "Version",
   editing |-> FALSE, source |-> FALSE, resolving |-> FALSE, asked |-> NoRequest,
   confirming |-> FALSE, target |-> "none"]

\* load_config, each time the Update menu is entered.
LoadConfig(u, w) ==
  IF w.source THEN [u EXCEPT !.repo = IF u.source THEN @ ELSE "Current", !.source = TRUE]
  ELSE [u EXCEPT !.repo = IF @ = "Current" THEN "Github" ELSE @, !.source = FALSE]

RepositoryOptions(u) ==
  (IF u.source THEN <<"Current">> ELSE <<>>) \o <<"Github", "Mirror", "Custom">>
ChangeRepository(u, d) == [u EXCEPT !.repo = Around(RepositoryOptions(u), @, d)]

VisibleFields(u) ==
  <<"Version", "Repository">> \o (IF u.repo = "Custom" THEN <<"Url">> ELSE <<>>) \o <<"Start">>

\* What the confirmed request carries: the text of the form, not the release
\* that was resolved from it.
Request(u) == <<u.version, u.repo, IF u.repo = "Custom" THEN u.url ELSE "none">>

\* start_update_resolution, with the checks it makes first.
StartResolution(u) ==
  IF u.version = "bad" \/ (u.repo = "Custom" /\ u.url = "bad") \/ (u.repo = "Current" /\ ~u.source)
    THEN u ELSE [u EXCEPT !.resolving = TRUE, !.asked = Request(u)]

\* poll and apply_resolution: only a newer version opens the confirmation.
PollUpdate(u, w) ==
  IF ~u.resolving THEN {u}
  ELSE LET done == [u EXCEPT !.resolving = FALSE, !.asked = NoRequest]
           target == IF u.asked[1] = "latest" THEN w.latest ELSE u.asked[1]
       IN  {u, done, IF Newer(target, w.version)
                       THEN [done EXCEPT !.confirming = TRUE, !.target = target] ELSE done}

UpdateUpdate(u, w, entered) == PollUpdate(IF entered THEN LoadConfig(u, w) ELSE u, w)

\* A key in a text field: what is written there afterwards.
EditUpdate(u, k) ==
  IF k \in {"Enter", "Esc"} THEN {[u EXCEPT !.editing = FALSE]}
  ELSE IF k \notin Chars \cup {"Backspace"} THEN {u}
  ELSE IF u.sel = "Version" THEN {[u EXCEPT !.version = v] : v \in Versions}
  ELSE IF u.sel = "Url" /\ u.repo = "Custom" THEN {[u EXCEPT !.url = x] : x \in {"good", "bad"}}
  ELSE {u}

UpdateFormKey(u, k) ==
  CASE k = "Up" -> IF u.sel \in Range(VisibleFields(u))
                     THEN [u EXCEPT !.sel = Along(VisibleFields(u), @, -1)] ELSE u
    [] k = "Down" -> [u EXCEPT !.sel = Along(VisibleFields(u), @, 1)]
    [] k = "Right" -> IF u.sel = "Repository" THEN ChangeRepository(u, 1) ELSE u
    [] k = "Left" -> IF u.sel = "Repository" THEN ChangeRepository(u, -1) ELSE u
    [] OTHER -> IF u.sel \in {"Version", "Url"} THEN [u EXCEPT !.editing = TRUE]
                ELSE IF u.sel = "Repository" THEN ChangeRepository(u, 1)
                ELSE StartResolution(u)

UpdateTakes(u, k, snap) ==
  \/ u.confirming \/ u.resolving \/ u.editing
  \/ snap = "Installed" /\ k \in {"Up", "Down", "Left", "Right", "Enter", "Space"}

\* handle_update_key.
UpdateKey(u, k, w) ==
  IF u.confirming
    THEN IF k = "Enter" THEN Outcome([u EXCEPT !.confirming = FALSE, !.target = "none"], w,
                                     Cmd("update", Request(u)))
         ELSE Keep(IF k = "Esc" THEN [u EXCEPT !.confirming = FALSE, !.target = "none"] ELSE u, w)
  ELSE IF u.resolving THEN Keep(u, w)
  ELSE IF u.editing THEN UNION {Keep(e, w) : e \in EditUpdate(u, k)}
  ELSE Keep(UpdateFormKey(u, k), w)

UpdateDialog(u) == IF u.confirming THEN <<"update", u.target>> ELSE <<>>

-----------------------------------------------------------------------------
(* Reinit: overview, network wizard, credentials, confirmation.             *)

NoPlan == [wan |-> "none", uplink |-> "none", lan |-> {}]
NewReinit ==
  [step |-> "Overview", wizard |-> FALSE, plan |-> NoPlan, user |-> 1, password |-> 0,
   again |-> 0, sel |-> "AdminUser", editing |-> FALSE, confirming |-> FALSE]

ReinitFields == <<"AdminUser", "Password", "PasswordConfirmation", "Start">>

\* validate_credentials: a user, two equal passwords of sufficient strength.
ValidCredentials(r) == r.user > 0 /\ r.password = r.again /\ r.password >= MaxText

ReinitAction(r) == Cmd("reinit", <<r.plan, r.password>>)

EditReinit(r, k) ==
  IF k \in {"Enter", "Esc"} THEN [r EXCEPT !.editing = FALSE]
  ELSE CASE r.sel = "AdminUser" -> [r EXCEPT !.user = Typed(@, k)]
         [] r.sel = "Password" -> [r EXCEPT !.password = Typed(@, k)]
         [] r.sel = "PasswordConfirmation" -> [r EXCEPT !.again = Typed(@, k)]
         [] r.sel = "Start" -> r

ReinitTakes(r, k) ==
  \/ r.confirming \/ r.editing
  \/ k \in {"Enter", "Space"}
  \/ r.step = "Credentials" /\ k \in {"Up", "Down"}

\* handle_reinit_key, the part that stays in the panel (Enter on the overview
\* opens the network wizard, which the console does).
ReinitKey(r, k, w) ==
  IF r.confirming
    THEN IF k = "Enter" THEN Outcome([r EXCEPT !.confirming = FALSE], w, ReinitAction(r))
         ELSE Keep([r EXCEPT !.confirming = k # "Esc"], w)
  ELSE IF r.editing THEN Keep(EditReinit(r, k), w)
  ELSE IF r.step = "Overview" THEN Keep(r, w)
  ELSE Keep(CASE k = "Up" -> [r EXCEPT !.sel = "AdminUser"]
              [] k = "Down" -> [r EXCEPT !.sel = Along(ReinitFields, @, 1)]
              [] OTHER -> IF r.sel # "Start" THEN [r EXCEPT !.editing = TRUE]
                          ELSE [r EXCEPT !.confirming = r.plan # NoPlan /\ ValidCredentials(r)], w)

ReinitDialog(r) == IF r.confirming THEN <<"reinit">> ELSE <<>>
=============================================================================
