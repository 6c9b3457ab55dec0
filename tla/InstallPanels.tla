--------------------------- MODULE InstallPanels ---------------------------
(***************************************************************************)
(* The parts of the console that lead to an installation: environment     *)
(* checks and the preparation of cgroups (console/preflight.rs, cgroup.rs),*)
(* the form (install_form.rs), the network wizard (network_wizard) and the *)
(* dialogs for the rescue code (daemon_panel.rs, flare_panel.rs), in the   *)
(* style of ConsolePanels.  w.checks is what the checks would report now:  *)
(* "pass", "daemon" (the daemon is not running), "cgroup" or "error".      *)
(***************************************************************************)
EXTENDS ConsolePanels

CONSTANTS Iface,       \* the network interfaces, in the order shown
          StaticIface  \* those with an address and a default route to take over

NewPreflight == [st |-> "NotRun", report |-> "none", expanded |-> FALSE, dialog |-> FALSE, cgroup |-> "Idle"]

StartChecks(p) == IF p.st = "Running" \/ p.cgroup = "Running" THEN p
                  ELSE [p EXCEPT !.cgroup = "Idle", !.st = "Running", !.report = "none"]
RestartChecks(p) == IF p.cgroup = "Running" THEN p
                    ELSE StartChecks([p EXCEPT !.st = "NotRun", !.report = "none", !.expanded = FALSE])

Gate(p) == IF p.st \in {"NotRun", "Running"} THEN "Waiting"
           ELSE IF p.st = "Complete" /\ p.report = "pass" THEN "Open" ELSE "Dialog"
DaemonBlocked(p) == p.st = "Complete" /\ p.report = "daemon"
CgroupBlocked(p) == p.st = "Complete" /\ p.report = "cgroup"

\* poll_preflight: the preparation's report replaces that of the checks and
\* closes the dialog when it lets the installation pass.
PollChecks(p, w) ==
  IF p.cgroup = "Running"
    THEN {p, [p EXCEPT !.cgroup = "Failed"]}
         \cup {LET q == [p EXCEPT !.cgroup = "Idle", !.st = "Complete", !.report = r]
               IN  [q EXCEPT !.dialog = @ /\ Gate(q) # "Open"] :
                 r \in {w.checks, IF w.checks = "cgroup" THEN "pass" ELSE w.checks}}
  ELSE IF p.st = "Running"
    THEN {p, [p EXCEPT !.st = "Failed"], [p EXCEPT !.st = "Complete", !.report = w.checks]}
  ELSE {p}

PreflightUpdate(p, w, here) ==
  PollChecks(IF here /\ p.st = "NotRun" THEN StartChecks(p) ELSE p, w)

\* The keys of the blocked-installation dialog; "deploy" in out asks for the
\* deploy dialog.
PreflightDialogKey(p, k, w) ==
  IF p.cgroup = "Confirming"
    THEN Keep([p EXCEPT !.cgroup = IF k = "Enter" THEN "Running" ELSE IF k = "Esc" THEN "Idle" ELSE @], w)
  ELSE IF p.cgroup = "Running" THEN Keep(p, w)
  ELSE IF DaemonBlocked(p) /\ k \in {"Enter", "d"}
    THEN Outcome([p EXCEPT !.dialog = FALSE], w, Cmd("deploy dialog", <<>>))
  ELSE IF CgroupBlocked(p) /\ k \in {"Enter", "c"} THEN Keep([p EXCEPT !.cgroup = "Confirming"], w)
  ELSE Keep(CASE k = "Enter" -> [p EXCEPT !.dialog = FALSE, !.expanded = @ \/ p.st = "Complete"]
              [] k = "Esc" -> [p EXCEPT !.dialog = FALSE]
              [] k = "r" -> RestartChecks([p EXCEPT !.dialog = FALSE])
              [] OTHER -> p, w)

ExpandedKey(p, k) == IF k = "Esc" THEN [p EXCEPT !.expanded = FALSE]
                     ELSE IF k = "r" THEN StartChecks(p) ELSE p

\* Drawn only when there is something to say.
PreflightDialog(p) ==
  IF ~p.dialog THEN <<>>
  ELSE IF p.cgroup \in {"Confirming", "Running"} THEN <<"cgroup">>
  ELSE IF p.st \in {"Failed", "Complete"} THEN <<"blocked">> ELSE <<>>

-----------------------------------------------------------------------------
(* The form.  "text" stands for version, repository URL and user.  The      *)
(* install root is only checked by the final command.                       *)
NewForm == [repo |-> "Default", text |-> "good", password |-> 0, again |-> 0,
            sel |-> "Version", checks |-> TRUE, editing |-> FALSE]

\* Default stands for the three modes without a URL, which behave alike.
RepositoryModes == <<"Default", "Custom">>
FormFields(f) ==
  <<"Version", "Repository">> \o (IF f.repo = "Custom" THEN <<"RepositoryUrl">> ELSE <<>>)
    \o <<"InstallRoot", "AdminUser", "Password", "PasswordConfirmation", "StartInstallation">>

SelectPrevious(f) ==
  IF f.checks THEN f
  ELSE IF f.sel = "Version" THEN [f EXCEPT !.checks = TRUE]
  ELSE [f EXCEPT !.sel = Along(FormFields(f), @, -1)]
SelectNext(f) ==
  IF f.checks THEN [f EXCEPT !.checks = FALSE, !.sel = "Version"]
  ELSE [f EXCEPT !.sel = Along(FormFields(f), @, 1)]
ChangeChoice(f, d) ==
  IF f.sel = "Repository" THEN [f EXCEPT !.repo = Around(RepositoryModes, @, d)] ELSE f
Activate(f) ==
  IF f.sel = "Repository" THEN ChangeChoice(f, 1)
  ELSE IF f.sel = "RepositoryUrl" /\ f.repo # "Custom" THEN f
  ELSE [f EXCEPT !.editing = TRUE]

EditForm(f, k) ==
  IF k \in {"Enter", "Esc"} THEN {[f EXCEPT !.editing = FALSE]}
  ELSE IF k \notin Chars \cup {"Backspace"} THEN {f}
  ELSE CASE f.sel = "Password" -> {[f EXCEPT !.password = Typed(@, k)]}
         [] f.sel = "PasswordConfirmation" -> {[f EXCEPT !.again = Typed(@, k)]}
         [] f.sel = "InstallRoot" -> {f}
         [] OTHER -> {[f EXCEPT !.text = x] : x \in {"good", "bad"}}

ValidForm(f) == f.text = "good" /\ f.password = f.again /\ f.password >= MaxText

\* command_with_network_plan: refused while the daemon cannot take the
\* command, or when the install root is not usable; the password leaves the
\* form with the command.
InstallCommand(f, plan, w) ==
  Keep(f, w) \cup IF w.daemon /\ ValidForm(f)
                    THEN Outcome([f EXCEPT !.password = 0, !.again = 0], w,
                                 Cmd("install", <<plan, f.password>>))
                    ELSE {}

-----------------------------------------------------------------------------
(* The network wizard.                                                     *)
NoWizard == [open |-> FALSE, wan |-> 1, step |-> "Wan", mode |-> "Static", address |-> "bad",
             gateway |-> "bad", focus |-> 0, lan |-> {}, cursor |-> 1, management |-> "good",
             start |-> "empty", end |-> "bad", editing |-> FALSE, cancelling |-> FALSE]
Discover == [NoWizard EXCEPT !.open = TRUE]

LanCandidates(z) == SelectSeq(Iface, LAMBDA i : i # Iface[z.wan])
SetWan(z, i) == [z EXCEPT !.wan = i, !.lan = {}, !.cursor = 1, !.focus = 0, !.cancelling = FALSE]
ApplyWanSelection(z) ==
  LET v == IF Iface[z.wan] \in StaticIface THEN "good" ELSE "bad"
  IN  [z EXCEPT !.cancelling = FALSE, !.address = v, !.gateway = v,
                !.mode = IF v = "good" THEN "Static" ELSE "Dhcp"]
Back(z) ==
  [z EXCEPT !.editing = FALSE, !.cancelling = FALSE,
            !.step = CASE @ = "WanConfig" -> "Wan" [] @ = "Lan" -> "WanConfig"
                       [] @ = "LanDhcp" -> "Lan"
                       [] @ = "Confirm" -> IF z.lan = {} THEN "Lan" ELSE "LanDhcp"
                       [] @ = "Wan" -> "Wan"]

FocusMax(z) == IF z.step = "WanConfig" /\ z.mode = "Dhcp" THEN 1
               ELSE IF z.step \in {"WanConfig", "LanDhcp"} THEN 3 ELSE 0
FocusIsField(z) == \/ z.step = "WanConfig" /\ z.mode = "Static" /\ z.focus \in 1..2
                   \/ z.step = "LanDhcp" /\ z.focus <= 2
MoveFocus(z, d) ==
  LET y == [z EXCEPT !.focus = IF d < 0 THEN Bounded(@ + d, 0, @) ELSE Bounded(@ + d, 0, FocusMax(z))]
  IN  [y EXCEPT !.editing = FocusIsField(y)]
EnterLanDhcp(z) ==
  LET filled == IF z.start = "empty" /\ z.management = "good"
                  THEN [z EXCEPT !.start = "good", !.end = "good"] ELSE z
  IN  [filled EXCEPT !.step = "LanDhcp", !.focus = 0, !.editing = TRUE]

\* advance_after_edit, and Enter while editing: a bad value keeps the editor open.
AdvanceAfterEdit(z) ==
  LET next == [z EXCEPT !.focus = @ + 1, !.editing = z.focus + 1 <= 2]
      good == CASE z.step = "WanConfig" /\ z.focus = 1 -> z.address = "good"
                [] z.step = "WanConfig" /\ z.focus = 2 -> z.address = "good" /\ z.gateway = "good"
                [] z.step = "LanDhcp" /\ z.focus = 0 -> z.management = "good"
                [] z.step = "LanDhcp" /\ z.focus = 1 -> z.start = "good"
                [] z.step = "LanDhcp" /\ z.focus = 2 -> z.end = "good"
  IN  IF good THEN next ELSE z

EditWizard(z, k) ==
  LET texts == {"good", "bad"} IN
  CASE k = "Up" -> {MoveFocus(z, -1)}
    [] k = "Down" -> {MoveFocus(z, 1)}
    [] k = "Enter" -> {AdvanceAfterEdit(z)}
    [] k \in Chars \cup {"Backspace"} ->
        (CASE z.step = "WanConfig" /\ z.focus = 1 -> {[z EXCEPT !.address = x] : x \in texts}
           [] z.step = "WanConfig" /\ z.focus = 2 -> {[z EXCEPT !.gateway = x] : x \in texts}
           [] z.step = "LanDhcp" /\ z.focus = 0 -> {[z EXCEPT !.management = x] : x \in texts}
           [] z.step = "LanDhcp" /\ z.focus = 1 -> {[z EXCEPT !.start = x] : x \in texts \cup {"empty"}}
           [] z.step = "LanDhcp" /\ z.focus = 2 -> {[z EXCEPT !.end = x] : x \in texts}
           [] OTHER -> {z})
    [] OTHER -> {z}

\* plan: every part parsed again, and validated as a whole, which may fail too.
\* A plan says its WAN, its mode and its LANs.
Plan(z) == [wan |-> Iface[z.wan], uplink |-> z.mode, lan |-> z.lan]
PlanOk(z) == /\ z.mode = "Static" => z.address = "good" /\ z.gateway = "good"
             /\ z.lan # {} => z.management = "good" /\ z.start = "good" /\ z.end = "good"

\* The steps of the wizard below Esc and editing, except Enter on the last.
WizardStepKey(z, k) ==
  CASE z.step = "Wan" ->
         (CASE k = "Up" -> SetWan(z, Bounded(z.wan - 1, 1, z.wan))
            [] k = "Down" -> SetWan(z, Bounded(z.wan + 1, 1, Len(Iface)))
            [] k = "Enter" -> [ApplyWanSelection(z) EXCEPT !.step = "WanConfig", !.focus = 0]
            [] OTHER -> z)
    [] z.step = "WanConfig" ->
         (CASE k = "Up" -> MoveFocus(z, -1)
            [] k = "Down" -> MoveFocus(z, 1)
            [] k \in {"Left", "Right"} /\ z.focus = 0 ->
                 [z EXCEPT !.mode = IF @ = "Static" THEN "Dhcp" ELSE "Static"]
            [] k = "Enter" /\ z.focus = 0 -> MoveFocus(z, 1)
            [] k = "Enter" /\ z.focus = FocusMax(z)
                 /\ (z.mode = "Static" => z.address = "good" /\ z.gateway = "good") ->
                 [z EXCEPT !.step = "Lan", !.focus = 0]
            [] OTHER -> z)
    [] z.step = "Lan" ->
         (CASE k = "Up" -> [z EXCEPT !.cursor = Bounded(@ - 1, 1, @)]
            [] k = "Down" -> [z EXCEPT !.cursor = Bounded(@ + 1, 1, Len(LanCandidates(z)))]
            [] k = "Space" -> LET i == LanCandidates(z)[z.cursor]
                              IN  [z EXCEPT !.lan = IF i \in @ THEN @ \ {i} ELSE @ \cup {i}]
            [] k = "Enter" -> IF z.lan # {} THEN EnterLanDhcp(z)
                              ELSE [z EXCEPT !.step = "Confirm", !.editing = FALSE]
            [] OTHER -> z)
    [] z.step = "LanDhcp" ->
         (CASE k = "Up" -> MoveFocus(z, -1)
            [] k = "Down" -> MoveFocus(z, 1)
            [] k = "Enter" /\ z.focus = FocusMax(z)
                 /\ z.management = "good" /\ z.start = "good" /\ z.end = "good" ->
                 [z EXCEPT !.step = "Confirm", !.focus = 0]
            [] OTHER -> z)
    [] OTHER -> z

WizardKey(z, k) ==
  IF z.cancelling THEN {IF k = "Enter" THEN NoWizard ELSE [z EXCEPT !.cancelling = k # "Esc"]}
  ELSE IF k = "Esc" THEN {IF z.step = "Wan" THEN [z EXCEPT !.cancelling = TRUE] ELSE Back(z)}
  ELSE IF z.editing THEN EditWizard(z, k)
  ELSE {WizardStepKey(z, k)}

WizardDone(z, k) == z.step = "Confirm" /\ ~z.cancelling /\ ~z.editing /\ k = "Enter"

-----------------------------------------------------------------------------
(* Dialogs for the rescue code: deploy the daemon with one, view and change *)
(* it, and the flare dialog.  w.psk is the code in config.toml.  Opening a  *)
(* dialog overwrites all its fields, so a closed one is NoPsk.              *)
NoPsk == [open |-> FALSE, psk |-> 0, again |-> 0, field |-> "Psk", editing |-> FALSE]
OpenPsk(w) == [NoPsk EXCEPT !.open = TRUE, !.psk = w.psk]
PskFields == <<"Psk", "Confirmation", "Action", "Cancel">>

EditPsk(d, k) == CASE d.field = "Psk" -> [d EXCEPT !.psk = Typed(@, k)]
                   [] d.field = "Confirmation" -> [d EXCEPT !.again = Typed(@, k)]
                   [] OTHER -> d

\* handle_deploy_psk_key and handle_show_psk_key, up to the action row.
PskKey(d, k) ==
  IF d.editing
    THEN IF k \in {"Enter", "Esc"} THEN [d EXCEPT !.editing = FALSE] ELSE EditPsk(d, k)
  ELSE CASE k = "Enter" /\ d.field \in {"Psk", "Confirmation"} -> [d EXCEPT !.editing = TRUE]
         [] k = "Esc" \/ (k = "Enter" /\ d.field = "Cancel") -> NoPsk
         [] k = "Up" -> [d EXCEPT !.field = Around(PskFields, @, -1)]
         [] k \in {"Down", "Tab"} -> [d EXCEPT !.field = Around(PskFields, @, 1)]
         [] k \in Chars /\ d.field \in {"Psk", "Confirmation"} ->
              EditPsk([d EXCEPT !.editing = TRUE], k)
         [] OTHER -> d
PastePsk(d) == EditPsk([d EXCEPT !.editing = TRUE], "x")
PskAct(d, k) == ~d.editing /\ d.field = "Action" /\ k = "Enter"

\* deploy_with_validated_psk: an empty code is allowed, the daemon makes one.
DeployAccepts(d) == d.psk = 0 \/ (d.psk >= MaxText /\ d.again = d.psk)
\* save_show_psk_dialog: not here.
ShowAccepts(d) == d.psk >= MaxText /\ d.again = d.psk

NoFlare == [open |-> FALSE, psk |-> 0, editing |-> FALSE]
FlareKey(d, k) ==
  IF d.editing THEN IF k \in {"Enter", "Esc"} THEN [d EXCEPT !.editing = FALSE]
                    ELSE [d EXCEPT !.psk = Typed(@, k)]
  ELSE CASE k \in {"Enter", "e"} -> [d EXCEPT !.editing = TRUE]
         [] k = "Esc" -> NoFlare
         [] OTHER -> d
FlareSaves(d, k) == ~d.editing /\ k = "s" /\ d.psk >= MaxText
=============================================================================
