------------------------------- MODULE Console -------------------------------
(***************************************************************************)
(* The interactive console (src/lkit-cli/src/console): one loop that polls *)
(* the background workers and draws (Update), then hands one key to the    *)
(* topmost dialog, to the focused panel, or to the menu.  The panels are   *)
(* those of ConsolePanels, PackagePanels and InstallPanels.  "world" is    *)
(* what the console reads and changes outside itself; other programs       *)
(* change it at any time (WorldChange).  "out" is what the loop returns: a *)
(* command for the command line to run, or quit; it ends the console.      *)
(***************************************************************************)
EXTENDS PackagePanels, InstallPanels

CONSTANTS Sessions,    \* the sets of panels of which a session shows one set
          MaxChanges   \* bound: how often the world or the terminal's size changes

VARIABLES app,       \* menu, focus, exit_state, snapshot, takeover_choice, menu flags, deployment
          form, wizard, preflight,
          backup, update, mirror, software, reinit,
          deploy, show, flare,
          world, out, turn, session, changes,
          small,     \* the terminal has less than 72 columns or 18 lines
          stranded   \* panels whose dialog was open when the menu was taken away

panels == <<backup, update, mirror, software, reinit>>
install == <<form, wizard, preflight>>
codes == <<deploy, show, flare>>
aux == <<session, changes, small>>
vars == <<app, install, panels, codes, world, out, turn, aux, stranded>>

Menu == <<"Overview", "Install", "Backup", "Update", "Mirror", "Software", "Reinit">>
Awaits(snap) == snap \in {"Awaiting", "RollingBack"}
InstallAvailable(snap) == snap # "Installed" /\ ~Awaits(snap)
\* menu_available; whether the host's network services are masked is asked anew each time.
MenuAvailable(m, snap, w) ==
  /\ m \in session \cup {"Overview"}
  /\ CASE m = "Install" -> InstallAvailable(snap)
       [] m = "Update" -> snap = "Installed"
       [] m = "Reinit" -> snap = "Installed" /\ w.masked
       [] OTHER -> TRUE

MenuPosition(m) == CHOOSE i \in DOMAIN Menu : Menu[i] = m
\* select_next_menu and select_previous_menu.
SelectMenu(d) ==
  LET at == MenuPosition(app.menu)
      free == {i \in DOMAIN Menu : /\ MenuAvailable(Menu[i], app.snap, world)
                                   /\ IF d > 0 THEN i > at ELSE i < at}
  IN  IF free = {} THEN app.menu
      ELSE Menu[CHOOSE i \in free : \A j \in free : IF d > 0 THEN i <= j ELSE i >= j]

EditingAnyField == \/ form.editing \/ backup.editing \/ update.editing \/ reinit.editing
                   \/ deploy.editing \/ show.editing \/ flare.editing \/ wizard.editing
LanguageSwitchAvailable ==
  /\ app.exit # "Confirming" /\ preflight.cgroup # "Running"
  /\ ~deploy.open /\ ~show.open /\ ~flare.open /\ ~EditingAnyField

-----------------------------------------------------------------------------
(* What is drawn, and who gets the keys.                                    *)

PanelDialog(m) == CASE m = "Backup" -> BackupDialog(backup) [] m = "Update" -> UpdateDialog(update)
                    [] m = "Mirror" -> MirrorDialog(mirror) [] m = "Software" -> SoftwareDialog(software)
                    [] m = "Reinit" -> ReinitDialog(reinit) [] OTHER -> <<>>

\* render: later layers cover earlier ones; the topmost with what it shows.
\* A terminal that is too small shows a notice and, at most, the exit dialog.
Screen ==
  IF small THEN IF app.exit = "Confirming" THEN <<"exit">> ELSE <<"small">>
  ELSE IF Awaits(app.snap) THEN <<"takeover">>
  ELSE IF wizard.open THEN <<"wizard">>
  ELSE IF app.deploying THEN <<"deploying">>
  ELSE IF flare.open THEN <<"flare">>
  ELSE IF app.menu = "Overview" /\ show.open THEN <<"show">>
  ELSE IF deploy.open THEN <<"deploy">>
  ELSE IF PanelDialog(app.menu) # <<>> THEN PanelDialog(app.menu)
  ELSE IF PreflightDialog(preflight) # <<>> THEN PreflightDialog(preflight)
  ELSE IF app.exit = "Confirming" THEN <<"exit">> ELSE <<>>

\* handle_key: who consumes the keys before the panel and the menu do.
Owner ==
  IF Awaits(app.snap) THEN "takeover"
  ELSE IF wizard.open THEN "wizard"
  ELSE IF backup.create THEN "creating"
  ELSE IF SoftwareRunning(software) THEN "running"
  ELSE IF app.menu = "Software" /\ software.choosing THEN "base"
  ELSE IF app.deploying THEN "deploying"
  ELSE IF flare.open THEN "flare"
  ELSE IF show.open THEN "show"
  ELSE IF deploy.open THEN "deploy"
  ELSE IF preflight.dialog THEN "preflight"
  ELSE IF app.exit = "Confirming" THEN "exit" ELSE "panel"

OnPanel(m) == app.menu = m /\ app.focus = "Panel" /\ Owner = "panel"
PanelTakes(k) ==
  \/ OnPanel("Backup") /\ BackupTakes(backup, k, app.snap)
  \/ OnPanel("Update") /\ UpdateTakes(update, k, app.snap)
  \/ OnPanel("Mirror") /\ MirrorTakes(mirror, k)
  \/ OnPanel("Software") /\ SoftwareTakes(software, k)
  \/ OnPanel("Reinit") /\ ReinitTakes(reinit, k)
  \/ OnPanel("Overview") /\ k \in {"Enter", "Space", "f"}

-----------------------------------------------------------------------------
(* Keys.  Every handler below runs with turn = "key" (see HandleKey).       *)

Quit == out' = Cmd("quit", <<>>)
Stay == out' = NoCmd

\* toggle_language: the installation is looked at again, and a menu that is
\* no longer available is left; checks and probe run again in the new language.
ToggleLanguage ==
  LET snap == world.snap
      lost == ~MenuAvailable(app.menu, snap, world)
  IN  /\ app' = [app EXCEPT !.exit = "Idle", !.snap = snap,
                            !.menu = IF lost THEN "Overview" ELSE @,
                            !.focus = IF lost THEN "Navigation" ELSE @]
      /\ stranded' = IF lost /\ PanelDialog(app.menu) # <<>> THEN stranded \cup {app.menu} ELSE stranded
      /\ preflight' = IF InstallAvailable(snap) /\ preflight.st # "NotRun"
                        THEN RestartChecks(preflight) ELSE preflight
      /\ mirror' = IF mirror.detected THEN RestartProbe(mirror) ELSE mirror
      /\ Stay /\ UNCHANGED <<form, wizard, backup, update, software, reinit, codes, world>>

\* handle_takeover_pending_key: 0 is "later", 1 is "confirm".
TakeoverKey(k) ==
  LET allowed == app.snap = "Awaiting" IN
  /\ app' = [app EXCEPT !.choice = CASE k = "Up" -> 0
                                     [] k = "Down" /\ allowed -> 1
                                     [] k = "Tab" /\ allowed -> 1 - @
                                     [] OTHER -> @]
  /\ IF k \in {"Enter", "Space"} /\ app.choice = 1 /\ allowed THEN out' = Cmd("confirm", <<>>)
     ELSE IF k \in {"Enter", "Space", "Esc"} THEN Quit ELSE Stay
  /\ UNCHANGED <<install, panels, codes, world, stranded>>

\* handle_network_wizard_key; the wizard of a reinit hands its plan to the panel.
WizardStepTaken(k) ==
  /\ ~WizardDone(wizard, k)
  /\ wizard' \in WizardKey(wizard, k)
  /\ reinit' = IF wizard'.open THEN reinit ELSE [reinit EXCEPT !.wizard = FALSE, !.step = "Overview"]
  /\ Stay /\ UNCHANGED <<app, form, preflight, backup, update, mirror, software, codes, world, stranded>>
WizardFinish ==
  /\ \/ /\ UNCHANGED <<form, wizard, reinit, world>> /\ Stay      \* the plan is refused
     \/ /\ PlanOk(wizard) /\ reinit.wizard
        /\ wizard' = NoWizard
        /\ reinit' = [reinit EXCEPT !.wizard = FALSE, !.plan = Plan(wizard), !.step = "Credentials",
                                    !.sel = "AdminUser", !.editing = FALSE]
        /\ Stay /\ UNCHANGED <<form, world>>
     \/ /\ PlanOk(wizard) /\ ~reinit.wizard
        /\ \E r \in InstallCommand(form, Plan(wizard), world) :
             /\ form' = r.p /\ out' = r.out /\ world' = r.w
             /\ wizard' = IF r.out = NoCmd THEN wizard ELSE NoWizard
        /\ UNCHANGED reinit
  /\ UNCHANGED <<app, preflight, backup, update, mirror, software, codes, stranded>>

RunningStep(k) ==
  /\ software' = RunningKey(software, k)
  /\ Stay /\ UNCHANGED <<app, install, backup, update, mirror, reinit, codes, world, stranded>>

\* Creating a backup and deploying the daemon swallow every key.
Swallow == Stay /\ UNCHANGED <<app, install, panels, codes, world, stranded>>

FlareStep(k) ==
  /\ IF FlareSaves(flare, k)
       THEN \/ world' = [world EXCEPT !.psk = flare.psk] /\ flare' = NoFlare
            \/ UNCHANGED <<world, flare>>
       ELSE flare' = FlareKey(flare, k) /\ UNCHANGED world
  /\ Stay /\ UNCHANGED <<app, install, panels, deploy, show, stranded>>

ShowStep(k) ==
  /\ IF PskAct(show, k)
       THEN \/ ShowAccepts(show) /\ world' = [world EXCEPT !.psk = show.psk] /\ show' = NoPsk
            \/ UNCHANGED <<world, show>>
       ELSE show' = PskKey(show, k) /\ UNCHANGED world
  /\ Stay /\ UNCHANGED <<app, install, panels, deploy, flare, stranded>>

DeployStep(k) ==
  /\ IF PskAct(deploy, k)
       THEN IF DeployAccepts(deploy)
              THEN deploy' = NoPsk /\ app' = [app EXCEPT !.deploying = TRUE, !.code = deploy.psk]
              ELSE UNCHANGED <<deploy, app>>
       ELSE deploy' = PskKey(deploy, k) /\ UNCHANGED app
  /\ Stay /\ UNCHANGED <<install, panels, show, flare, world, stranded>>

PreflightStep(k) ==
  /\ \E r \in PreflightDialogKey(preflight, k, world) :
       /\ preflight' = r.p
       /\ deploy' = IF r.out = NoCmd THEN deploy ELSE OpenPsk(world)
  /\ Stay /\ UNCHANGED <<app, form, wizard, panels, show, flare, world, stranded>>

ExitStep(k) ==
  /\ app' = IF k = "Esc" THEN [app EXCEPT !.exit = "Idle"] ELSE app
  /\ IF k = "Enter" THEN Quit ELSE Stay
  /\ UNCHANGED <<install, panels, codes, world, stranded>>

-----------------------------------------------------------------------------
(* The panel that has the focus.                                           *)

Released(m) == stranded' = IF PanelDialog(m)' = <<>> THEN stranded \ {m} ELSE stranded

BackupStep(k) ==
  /\ \E r \in BackupKey(backup, k, world) : backup' = r.p /\ world' = r.w /\ out' = r.out
  /\ UNCHANGED <<app, install, update, mirror, software, reinit, codes>> /\ Released("Backup")

UpdateStep(k) ==
  /\ \E r \in UpdateKey(update, k, world) : update' = r.p /\ out' = r.out
  /\ UNCHANGED <<app, install, backup, mirror, software, reinit, codes, world>> /\ Released("Update")

MirrorStep(k) ==
  /\ \E r \in MirrorKey(mirror, k, world) : mirror' = r.p /\ world' = r.w /\ out' = r.out
  /\ UNCHANGED <<app, install, backup, update, software, reinit, codes>> /\ Released("Mirror")

SoftwareStep(k) ==
  /\ \E r \in SoftwareKey(software, k, world) : software' = r.p /\ out' = r.out
  /\ UNCHANGED <<app, install, backup, update, mirror, reinit, codes, world>> /\ Released("Software")

\* Enter on the overview of reinit discovers the interfaces, which may fail.
ReinitStep(k) ==
  /\ \/ /\ reinit.step = "Overview" /\ ~reinit.confirming /\ ~reinit.editing
        /\ wizard' = Discover /\ reinit' = [reinit EXCEPT !.wizard = TRUE] /\ Stay
     \/ /\ \E r \in ReinitKey(reinit, k, world) : reinit' = r.p /\ out' = r.out
        /\ UNCHANGED wizard
  /\ UNCHANGED <<app, form, preflight, backup, update, mirror, software, codes, world>>
  /\ Released("Reinit")

\* handle_overview_key; without root no dialog opens.
OverviewStep(k) ==
  /\ CASE app.snap = "RootRequired" -> UNCHANGED codes
       [] app.snap # "RootRequired" /\ k = "f" ->
            flare' = [NoFlare EXCEPT !.open = TRUE, !.psk = world.psk] /\ UNCHANGED <<deploy, show>>
       [] app.snap # "RootRequired" /\ k # "f" /\ ~world.daemon ->
            deploy' = OpenPsk(world) /\ UNCHANGED <<show, flare>>
       [] app.snap # "RootRequired" /\ k # "f" /\ world.daemon ->
            show' = OpenPsk(world) /\ UNCHANGED <<deploy, flare>>
  /\ Stay /\ UNCHANGED <<app, install, panels, world, stranded>>

-----------------------------------------------------------------------------
(* Keys no dialog and no panel took: checks, form, focus and menu.          *)

Disarmed == IF app.exit = "Armed" THEN [app EXCEPT !.exit = "Idle"] ELSE app

ExpandedStep(k) == /\ preflight' = ExpandedKey(preflight, k)
                   /\ Stay /\ UNCHANGED <<app, form, wizard, panels, codes, world, stranded>>
EditingStep(k) == /\ form' \in EditForm(form, k)
                  /\ Stay /\ UNCHANGED <<app, wizard, preflight, panels, codes, world, stranded>>

EscStep ==
  /\ app' = IF app.focus = "Panel" THEN [app EXCEPT !.exit = "Idle", !.focus = "Navigation"]
            ELSE [app EXCEPT !.exit = IF @ = "Idle" THEN "Armed" ELSE "Confirming"]
  /\ Stay /\ UNCHANGED <<install, panels, codes, world, stranded>>

\* Enter on "start installation": only past the gate of the checks.
StartInstallation ==
  CASE Gate(preflight) = "Open" -> (\/ ValidForm(form) /\ wizard' = Discover
                                    \/ UNCHANGED wizard) /\ UNCHANGED <<form, preflight>>
    [] Gate(preflight) = "Waiting" -> UNCHANGED install
    [] Gate(preflight) = "Dialog" -> preflight' = [preflight EXCEPT !.dialog = TRUE]
                                     /\ UNCHANGED <<form, wizard>>

\* The form, with the focus on it.
FormStep(k) ==
  /\ app' = IF k = "Tab" \/ (k = "Left" /\ form.checks)
              THEN [Disarmed EXCEPT !.focus = "Navigation"] ELSE Disarmed
  /\ CASE k = "r" -> preflight' = StartChecks(preflight) /\ UNCHANGED <<form, wizard>>
       [] k = "Up" -> form' = SelectPrevious(form) /\ UNCHANGED <<wizard, preflight>>
       [] k = "Down" /\ form.checks ->
            (CASE Gate(preflight) = "Open" -> form' = SelectNext(form) /\ UNCHANGED <<wizard, preflight>>
               [] Gate(preflight) = "Waiting" -> UNCHANGED install
               [] Gate(preflight) = "Dialog" -> preflight' = [preflight EXCEPT !.dialog = TRUE]
                                                /\ UNCHANGED <<form, wizard>>)
       [] k = "Down" /\ ~form.checks -> form' = SelectNext(form) /\ UNCHANGED <<wizard, preflight>>
       [] k \in {"Right", "Enter", "Space"} /\ form.checks ->
            preflight' = [preflight EXCEPT !.expanded = TRUE] /\ UNCHANGED <<form, wizard>>
       [] k \in {"Left", "Right"} /\ ~form.checks ->
            form' = ChangeChoice(form, IF k = "Right" THEN 1 ELSE -1) /\ UNCHANGED <<wizard, preflight>>
       [] k \in {"Enter", "Space"} /\ ~form.checks ->
            (IF form.sel = "StartInstallation" THEN StartInstallation
             ELSE form' = Activate(form) /\ UNCHANGED <<wizard, preflight>>)
       [] OTHER -> UNCHANGED install
  /\ Stay /\ UNCHANGED <<panels, codes, world, stranded>>

\* The menu, and the keys of a panel that has nothing to do with them.
MenuStep(k) ==
  /\ app' = CASE k = "Tab" -> [Disarmed EXCEPT !.focus = IF @ = "Panel" THEN "Navigation" ELSE "Panel"]
              [] k = "Left" /\ app.focus = "Panel" -> [Disarmed EXCEPT !.exit = "Idle", !.focus = "Navigation"]
              [] k \in {"Right", "Enter"} /\ app.focus = "Navigation" ->
                   [Disarmed EXCEPT !.focus = IF MenuAvailable(app.menu, app.snap, world) THEN "Panel" ELSE @]
              [] k \in {"Up", "Down"} /\ app.focus = "Navigation" ->
                   [Disarmed EXCEPT !.menu = SelectMenu(IF k = "Down" THEN 1 ELSE -1)]
              [] OTHER -> Disarmed
  /\ Stay /\ UNCHANGED <<install, panels, codes, world, stranded>>

FreeKey(k) ==
  IF preflight.expanded /\ app.menu = "Install" THEN ExpandedStep(k)
  ELSE IF form.editing /\ OnPanel("Install") THEN EditingStep(k)
  ELSE IF k = "Esc" THEN EscStep
  ELSE IF OnPanel("Install") THEN FormStep(k) ELSE MenuStep(k)

\* Bound: the dialogs of the overview are visited by a session of their own,
\* the language is switched under the wizard only where no checks rerun, and
\* the texts of the wizard are typed in the session of the installation.  Once
\* something has changed outside, that session only goes through the wizard
\* (Enter) or leaves it (Esc).
Skipped(k) == \/ OnPanel("Overview") /\ "Overview" \notin session /\ k \in {"Enter", "Space", "f"}
              \/ wizard.open /\ "Install" \in session /\ k = "l"
              \/ wizard.editing /\ "Install" \notin session /\ k \in Chars \cup {"Backspace"}
              \/ wizard.open /\ "Install" \in session /\ changes > 0 /\ k \notin {"Enter", "Esc"}

\* handle_key.
HandleKey(k) ==
  /\ turn = "key" /\ out = NoCmd
  /\ ~Skipped(k)
  /\ turn' = "update"
  /\ UNCHANGED aux
  /\ LET owner == Owner
         taken == PanelTakes(k)
     IN  IF LanguageSwitchAvailable /\ k = "l" THEN ToggleLanguage
         ELSE \/ owner = "takeover" /\ TakeoverKey(k)
              \/ owner = "wizard" /\ WizardStepTaken(k)
              \/ owner = "wizard" /\ WizardDone(wizard, k) /\ WizardFinish
              \/ owner = "running" /\ RunningStep(k)
              \/ owner \in {"creating", "deploying"} /\ Swallow
              \/ owner = "base" /\ SoftwareStep(k)
              \/ owner = "flare" /\ FlareStep(k)
              \/ owner = "show" /\ ShowStep(k)
              \/ owner = "deploy" /\ DeployStep(k)
              \/ owner = "preflight" /\ PreflightStep(k)
              \/ owner = "exit" /\ ExitStep(k)
              \/ taken /\ app.menu = "Backup" /\ BackupStep(k)
              \/ taken /\ app.menu = "Update" /\ UpdateStep(k)
              \/ taken /\ app.menu = "Mirror" /\ MirrorStep(k)
              \/ taken /\ app.menu = "Software" /\ SoftwareStep(k)
              \/ taken /\ app.menu = "Reinit" /\ ReinitStep(k)
              \/ taken /\ app.menu = "Overview" /\ OverviewStep(k)
              \/ owner = "panel" /\ ~taken /\ FreeKey(k)

\* handle_paste: into the open code dialog, the wizard's or the form's field.
Paste ==
  /\ turn = "key" /\ out = NoCmd /\ turn' = "update" /\ Stay
  /\ app.exit # "Confirming" /\ ~Skipped("x")
  /\ UNCHANGED <<panels, preflight, world, aux, stranded>>
  /\ CASE deploy.open -> deploy' = PastePsk(deploy) /\ UNCHANGED <<show, flare, form, wizard, app>>
       [] ~deploy.open /\ show.open -> show' = PastePsk(show) /\ UNCHANGED <<deploy, flare, form, wizard, app>>
       [] ~deploy.open /\ ~show.open /\ flare.open ->
            flare' = [flare EXCEPT !.psk = Typed(@, "x")] /\ UNCHANGED <<deploy, show, form, wizard, app>>
       [] ~deploy.open /\ ~show.open /\ ~flare.open /\ wizard.open ->
            /\ wizard' \in IF wizard.editing THEN EditWizard(wizard, "x") ELSE {wizard}
            /\ UNCHANGED <<codes, form, app>>
       [] ~deploy.open /\ ~show.open /\ ~flare.open /\ ~wizard.open ->
            /\ app' = Disarmed
            /\ form' \in IF form.editing /\ app.menu = "Install" /\ app.focus = "Panel"
                           THEN EditForm(form, "x") ELSE {form}
            /\ UNCHANGED <<codes, wizard>>

\* Ctrl+C ends the console from anywhere.
Interrupt == /\ turn = "key" /\ out = NoCmd /\ Quit /\ turn' = "update"
             /\ UNCHANGED <<app, install, panels, codes, world, aux, stranded>>

-----------------------------------------------------------------------------
(* The round of the loop before the next key.                               *)

\* poll_daemon_deploy: a success has the checks run again.
PollDeploy ==
  IF ~app.deploying THEN {[a |-> app, p |-> preflight, w |-> world]}
  ELSE LET done == [app EXCEPT !.deploying = FALSE, !.code = 0]
       IN  {[a |-> app, p |-> preflight, w |-> world],
            [a |-> done, p |-> preflight, w |-> world],
            [a |-> done, p |-> RestartChecks(preflight),
             w |-> [world EXCEPT !.daemon = TRUE,
                                 !.checks = IF @ = "daemon" THEN world.behind ELSE @,
                                 !.psk = IF app.code > 0 THEN app.code ELSE IF @ > 0 THEN @ ELSE MaxText]]}

\* ConsoleApp::update; nothing is polled on the takeover screen.
Update ==
  /\ out = NoCmd
  /\ turn' = "key"
  /\ IF Awaits(app.snap) THEN UNCHANGED <<app, preflight, panels, deploy, world>>
     ELSE \E d \in PollDeploy :
          /\ app' = [d.a EXCEPT !.inBackup = app.menu = "Backup", !.inUpdate = app.menu = "Update"]
          /\ preflight' \in PreflightUpdate(d.p, d.w, app.menu = "Install" /\ InstallAvailable(app.snap))
          /\ backup' \in BackupUpdate(backup, d.w, app.menu = "Backup", app.menu = "Backup" /\ ~app.inBackup)
          /\ update' \in UpdateUpdate(update, d.w, app.menu = "Update" /\ ~app.inUpdate)
          /\ mirror' \in MirrorUpdate(mirror, d.w, app.menu = "Mirror")
          /\ \E e \in SoftwareUpdate(software, d.w, app.menu = "Software") :
               software' = e.s /\ world' = e.w
          /\ deploy' = IF app.deploying /\ ~app'.deploying THEN NoPsk ELSE deploy
          /\ UNCHANGED reinit
  /\ UNCHANGED <<form, wizard, show, flare, out, aux, stranded>>

\* Every worker that runs has answered or died.
Answered ==
  /\ Update
  /\ ~Awaits(app.snap) =>
       /\ ~(app.deploying /\ app'.deploying)
       /\ ~(backup.create /\ backup'.create)
       /\ ~(software.install # NoRun /\ software'.install # NoRun)
       /\ ~(software.baseRun # NoBase /\ software'.baseRun # NoBase)

\* What other programs do meanwhile, as far as the panels of the session look.
\* Bounds: while the wizard of an installation is open, which looks at nothing
\* else, only the daemon comes or goes; and the session of an installation sees
\* of other commands only that one has installed the router.
Looks(ms) == session \cap ms # {}
InWizard == wizard.open /\ Looks({"Install"})
OtherSnaps == IF Looks({"Install"}) THEN {"Installed"}
              ELSE {"NotInstalled", "Installed", "Awaiting", "RollingBack", "Unavailable"}
WorldChange ==
  /\ out = NoCmd /\ changes < MaxChanges
  /\ changes' = changes + 1
  /\ \/ /\ world.root /\ ~InWizard /\ Looks({"Overview", "Install", "Backup", "Update"})
        /\ \E s \in OtherSnaps : world' = [world EXCEPT !.snap = s]
     \/ Looks({"Overview", "Install"}) /\ \E d \in BOOLEAN :
          world' = [world EXCEPT !.daemon = d, !.checks = IF d THEN world.behind ELSE "daemon"]
     \/ Looks({"Install"}) /\ ~InWizard /\ world.daemon /\ \E c \in {"pass", "error"} :
          world' = [world EXCEPT !.checks = c]
     \/ Looks({"Reinit"}) /\ world' = [world EXCEPT !.masked = ~@]
     \/ Looks({"Backup"}) /\ \E b \in Backup, s \in {"absent", "good", "damaged", "unreadable"} :
          world' = [world EXCEPT !.store[b] = s]
     \/ Looks({"Update"}) /\ \E v \in {"v2", "v3"} : world' = [world EXCEPT !.latest = v]
     \/ Looks({"Update"}) /\ world' = [world EXCEPT !.source = ~@]
     \/ Looks({"Mirror"}) /\ \E m \in Range(MirrorName) : world' = [world EXCEPT !.gone = {m}]
  /\ world' # world
  /\ UNCHANGED <<app, install, panels, codes, out, turn, session, small, stranded>>

\* The terminal is resized; the loop only draws again (Event::Resize).
Resize ==
  /\ out = NoCmd /\ changes < MaxChanges /\ ~InWizard
  /\ changes' = changes + 1 /\ small' = ~small
  /\ UNCHANGED <<app, install, panels, codes, world, out, turn, session, stranded>>

Init ==
  /\ session \in Sessions
  /\ \E s \in {"NotInstalled"} \cup IF Looks({"Install", "Mirror", "Software"}) THEN {}
                                     ELSE {"RootRequired", "Installed", "Awaiting"},
        source \in IF Looks({"Update"}) THEN BOOLEAN ELSE {TRUE} :
       /\ world = [snap |-> s, root |-> s # "RootRequired", masked |-> TRUE, daemon |-> ~Looks({"Install"}),
                   checks |-> IF Looks({"Install"}) THEN "daemon" ELSE "pass",
                   behind |-> IF Looks({"Install"}) THEN "cgroup" ELSE "pass",  \* once the daemon runs
                   store |-> [b \in Backup |-> "good"], source |-> source, version |-> "v1",
                   latest |-> "v2", psk |-> 0, host |-> "Debian", gone |-> {},
                   mirror |-> <<"none", FALSE, FALSE>>, docker |-> FALSE, base |-> {}]
       /\ app = [menu |-> "Overview", focus |-> "Navigation", exit |-> "Idle", snap |-> s, choice |-> 0,
                 inBackup |-> FALSE, inUpdate |-> FALSE, deploying |-> FALSE, code |-> 0]
  /\ form = NewForm /\ wizard = NoWizard /\ preflight = NewPreflight
  /\ backup = NewBackup /\ update = NewUpdate /\ mirror = NewMirror
  /\ software = NewSoftware /\ reinit = NewReinit
  /\ deploy = NoPsk /\ show = NoPsk /\ flare = NoFlare
  /\ out = NoCmd /\ turn = "update" /\ changes = 0 /\ small = FALSE /\ stranded = {}

Next == (\E k \in Key : HandleKey(k)) \/ Paste \/ Interrupt \/ Update \/ WorldChange \/ Resize

Spec == Init /\ [][Next]_vars
\* Workers end (each has its own time limits or can be cancelled) and the loop
\* goes round every 100 ms.
LiveSpec == Spec /\ WF_vars(Answered)

-----------------------------------------------------------------------------
(* Properties.                                                             *)

\* load_config takes a custom source back while the cursor is on the row of its
\* address, which is then hidden and still has the cursor (update.rs:258-284).
CursorOnHiddenRow == update.sel = "Url" /\ update.repo \in {"Current", "Github"}

\* Types of what every round looks at.  Cursors stay in their lists, but for the
\* one case of CursorOnHiddenRow; no key puts a cursor on a row that is hidden,
\* and no base package is both installed and marked for installation.
TypeOK ==
  /\ app.menu \in Range(Menu) /\ app.focus \in {"Navigation", "Panel"}
  /\ app.exit \in {"Idle", "Armed", "Confirming"} /\ app.choice \in 0..1
  /\ update.sel \in Range(VisibleFields(update)) \/ CursorOnHiddenRow
  /\ form.sel \in Range(FormFields(form))
  /\ wizard.wan \in DOMAIN Iface /\ software.cursor \in 1..(Len(Package) + 1)
  /\ backup.selected \in 0..Cardinality(Backup) /\ software.marked \cap software.there = {}

\* What has to be on top of the screen for the handler that takes the keys.
Expected ==
  CASE Owner = "running" -> {<<"docker running">>, <<"base running">>}
    [] Owner = "base" -> {<<"base", software.marked>>}
    [] Owner = "preflight" -> {<<"blocked">>, <<"cgroup">>}
    [] Owner = "panel" -> {IF app.focus = "Panel" THEN PanelDialog(app.menu) ELSE <<>>}
    [] OTHER -> {<<Owner>>}

\* The dialog on top of the screen is the one that gets the next key, and a
\* key never goes to a dialog that is not drawn: render's order of layers and
\* handle_key's order of handlers agree (render.rs:33, events.rs:38).  Three
\* exceptions of the code are left out by name: a terminal that is too small
\* draws nothing but the exit dialog, though every dialog still takes keys
\* (render.rs:34-45); the dialog of a blocked installation is not drawn while
\* 'l' has the checks run again; and a dialog whose menu a language switch took
\* away is drawn again without the focus.
OwnerIsOnScreen ==
  \/ turn = "update" \/ out # NoCmd
  \/ small /\ Owner # "exit"
  \/ Owner = "preflight" /\ preflight.st = "Running"
  \/ app.menu \in stranded
  \/ Screen \in Expected

\* A key acts on what the screen showed when it was pressed: the backup that is
\* restored or deleted, the mirror and the options written, the source and the
\* packages installed are those of the dialog on top, however the lists and
\* workers moved below it, and so is a version that was typed.  Two cases are
\* left out by name: of an update to "latest" the dialog shows the release it
\* was resolved to, but the command carries "latest" and resolves it again
\* (update_action, update.rs:549-583), so only the form's text is claimed of
\* it; and a terminal that is too small shows no dialog while keys still act.
DoesWhatIsShown ==
  [][~small =>
     /\ out'.cmd = "restore" => Screen = <<"restore", out'.arg[1]>>
     /\ out'.cmd = "update" => /\ Screen[1] = "update" /\ out'.arg[1] = update.version
                               /\ out'.arg[1] # "latest" => out'.arg[1] = Screen[2]
     /\ out'.cmd = "reinit" => Screen = <<"reinit">>
     /\ \A b \in Backup : (turn = "key" /\ turn' = "update" /\ world'.store[b] # world.store[b])
                           => Screen = <<"delete", b>>
     /\ world'.mirror # world.mirror => Screen = <<"mirror">> \o world'.mirror
     /\ (software.install = NoRun /\ software'.install # NoRun)
          => Screen = <<"docker", software'.install.of>>
     /\ (software.baseRun = NoBase /\ software'.baseRun # NoBase)
          => Screen = <<"base", software'.baseRun.of>>]_vars

Fields == <<form, backup, update, reinit, deploy, show, flare, wizard>>
\* A character typed while a field is being edited goes to that field and
\* nowhere else: it is no command, does not switch the language, does not move
\* the focus and does not end the editing (editing_any_field, app.rs:456).
TypingStaysInTheField ==
  [][(/\ turn = "key" /\ EditingAnyField
      /\ ~(/\ out' = NoCmd /\ UNCHANGED <<app, preflight, mirror, software, world>>
           /\ \A i \in DOMAIN Fields : IF Fields[i].editing THEN Fields[i].editing' ELSE UNCHANGED Fields[i]))
        => \A k \in Chars : ~HandleKey(k)]_vars

\* What leaves the console is complete: an installation or a reinit carries a
\* plan whose uplink is none of its LAN ports and whose address is known, and a
\* password typed twice, which the form then forgets; a rescue code that is
\* deployed or saved by the dialogs of the daemon was typed twice, one saved by
\* the flare dialog, which asks once, has the required length (flare_panel.rs:37).
CommandsAreComplete ==
  [][/\ out'.cmd \in {"install", "reinit"} =>
          LET plan == out'.arg[1]
          IN  /\ plan.wan \in Range(Iface) /\ plan.lan \subseteq Range(Iface) \ {plan.wan}
              /\ out'.arg[2] = (IF out'.cmd = "install" THEN form.again ELSE reinit.again)
              /\ out'.arg[2] >= MaxText
     /\ out'.cmd = "install" => /\ form'.password = 0 /\ form'.again = 0
                                /\ wizard.mode = "Static" => wizard.address = "good"
     /\ (~app.deploying /\ app'.deploying) => app'.code \in {0, deploy.again}
     /\ (turn = "key" /\ turn' = "update" /\ world'.psk # world.psk) =>
          IF show.open THEN world'.psk = show.again
          ELSE flare.open /\ ~flare.editing /\ world'.psk = flare.psk /\ world'.psk >= MaxText]_vars

\* The keyboard comes back: creating a backup, installing software and
\* deploying the daemon, which swallow the keys, end (events.rs:55-122).
KeysComeBack == (Owner \in {"creating", "running", "deploying"}) ~>
                   (Owner \notin {"creating", "running", "deploying"} \/ out # NoCmd)
=============================================================================
