--------------------------- MODULE PackagePanels ---------------------------
(***************************************************************************)
(* The two panels of the console that change packages of the host: the    *)
(* mirror list (src/lkit-cli/src/console/mirror.rs) and the software list  *)
(* with its base package dialog (software.rs, software/base.rs), in the   *)
(* style of ConsolePanels.  The world says whether the session is root    *)
(* (w.root), what the host is (w.host), which mirrors do not carry it     *)
(* (w.gone), what was last applied (w.mirror), and what is installed.     *)
(***************************************************************************)
EXTENDS ConsolePanels

NoChoice == [what |-> "none", security |-> FALSE, cdrom |-> FALSE, toggle |-> 0]

NewMirror ==
  [host |-> "none", detected |-> FALSE, known |-> FALSE, gone |-> {}, probing |-> FALSE,
   refreshing |-> FALSE, sel |-> MirrorName[1], confirming |-> NoChoice]

\* start_probe and restart_probe: a probe answers for the host that was detected.
StartProbe(m) == IF m.probing \/ m.known \/ m.host \in {"none", "error"} THEN m
                 ELSE [m EXCEPT !.probing = TRUE]
RestartProbe(m) == StartProbe([m EXCEPT !.known = FALSE, !.gone = {}, !.probing = FALSE])

EnsureMirror(m, w) ==
  IF m.detected THEN m ELSE StartProbe([m EXCEPT !.detected = TRUE, !.host = w.host])

\* poll: a worker that dies leaves every mirror selectable.
PollProbe(m, w) ==
  IF ~m.probing THEN {m}
  ELSE {m, [m EXCEPT !.probing = FALSE],
        [m EXCEPT !.probing = FALSE, !.known = TRUE, !.gone = w.gone]}
PollRefresh(m) == IF m.refreshing THEN {m, [m EXCEPT !.refreshing = FALSE]} ELSE {m}

\* ConsoleApp::update runs these only while the Mirror menu is shown.
MirrorUpdate(m, w, here) ==
  IF ~here THEN {m} ELSE UNION {PollRefresh(p) : p \in PollProbe(EnsureMirror(m, w), w)}

MirrorRows(m) == SelectSeq(MirrorName, LAMBDA n : n \notin m.gone) \o <<"Restore">>
ToggleRows(m) == CASE m.host = "Debian" -> <<"cdrom", "security">>
                   [] m.host = "Ubuntu" -> <<"cdrom">>
                   [] OTHER -> <<>>

\* execute_mirror: applying and restoring may fail; a change of the sources
\* starts a refresh of the index.
ExecuteMirror(m, w) ==
  LET c == m.confirming IN
  IF m.host \in {"none", "error"} \/ m.refreshing \/ ~w.root \/ c.what \in m.gone
    THEN {[m |-> m, w |-> w]}
  ELSE {[m |-> m, w |-> w],
        [m |-> [m EXCEPT !.refreshing = TRUE],
         w |-> [w EXCEPT !.mirror = <<c.what, c.security, c.cdrom>>]]}

\* Up, Down, Space, Left and Right on the confirmation of a mirror.
MirrorToggle(m, k) ==
  LET rows == ToggleRows(m)
      c == m.confirming
      row == IF c.toggle + 1 \in DOMAIN rows THEN rows[c.toggle + 1] ELSE "none"
      new == CASE k = "Up" -> [c EXCEPT !.toggle = Bounded(@ - 1, 0, @)]
               [] k = "Down" -> [c EXCEPT !.toggle = Bounded(@ + 1, 0, Bounded(Len(rows) - 1, 0, 9))]
               [] OTHER -> [c EXCEPT !.security = (row = "security") # @, !.cdrom = (row = "cdrom") # @]
  IN  IF c.what = "Restore" THEN m ELSE [m EXCEPT !.confirming = new]

\* Mutant: the confirmation consumes only the keys it knows.
MirrorTakesSome(m, k) == k \in {"Up", "Down", "Enter", "Space"}
MirrorTakes(m, k) == m.confirming # NoChoice \/ k \in {"Up", "Down", "Enter", "Space"}

\* handle_mirror_key.
MirrorKey(m, k, w) ==
  IF m.confirming # NoChoice
    THEN CASE k = "Enter" -> {[p |-> [e.m EXCEPT !.confirming = NoChoice], w |-> e.w, out |-> NoCmd] :
                                 e \in ExecuteMirror(m, w)}
           [] k = "Esc" -> Keep([m EXCEPT !.confirming = NoChoice], w)
           [] k \in {"Up", "Down", "Space", "Left", "Right"} -> Keep(MirrorToggle(m, k), w)
           [] OTHER -> Keep(m, w)
  ELSE CASE k = "Up" -> Keep([m EXCEPT !.sel = Along(MirrorRows(m), @, -1)], w)
         [] k = "Down" -> Keep([m EXCEPT !.sel = Along(MirrorRows(m), @, 1)], w)
         [] OTHER -> Keep(IF m.sel \in m.gone THEN m
                          ELSE [m EXCEPT !.confirming =
                                  [what |-> m.sel, security |-> FALSE, toggle |-> 0,
                                   cdrom |-> m.sel # "Restore"]], w)

MirrorDialog(m) ==
  LET c == m.confirming
  IN  IF c = NoChoice THEN <<>> ELSE <<"mirror", c.what, c.security, c.cdrom>>

-----------------------------------------------------------------------------
NoRun == [of |-> "none", cancel |-> FALSE]
NoBase == [of |-> {}, cancel |-> FALSE]

NewSoftware ==
  [detected |-> FALSE, host |-> "none", docker |-> FALSE, base |-> {}, sel |-> "Docker",
   confirming |-> "none", choosing |-> FALSE, cursor |-> 1, marked |-> {}, there |-> {},
   chosen |-> {}, install |-> NoRun, baseRun |-> NoBase, stopping |-> FALSE, baseStopping |-> FALSE]

RefreshStatus(s, w) == [s EXCEPT !.docker = w.docker, !.base = w.base]
EnsureSoftware(s, w) ==
  IF s.detected THEN s ELSE RefreshStatus([s EXCEPT !.detected = TRUE, !.host = w.host], w)

\* start_install and start_base_install: nothing is started when not root.
StartInstall(s, w) ==
  IF s.install # NoRun \/ s.host \in {"none", "error"} \/ ~w.root THEN s
  ELSE [s EXCEPT !.install = [of |-> s.confirming, cancel |-> FALSE]]
StartBase(s, w) ==
  IF s.chosen = {} \/ s.baseRun # NoBase \/ ~w.root THEN s
  ELSE [s EXCEPT !.baseRun = [of |-> s.chosen, cancel |-> FALSE]]

\* The base package dialog: opened with what is missing and wanted by default,
\* an installed package cannot be marked, the last row confirms.
OpenBase(s, w) ==
  [s EXCEPT !.choosing = TRUE, !.cursor = 1, !.there = w.base,
            !.marked = {Package[1]} \ w.base]
ToggleBase(s) ==
  LET p == Package[s.cursor]
  IN  IF p \in s.there THEN s
      ELSE [s EXCEPT !.marked = IF p \in @ THEN @ \ {p} ELSE @ \cup {p}]
\* Mutant: the installation is started before the choice is taken over.
ConfirmBaseLate(s, w) ==
  [StartBase(s, w) EXCEPT !.choosing = FALSE, !.chosen = s.marked \ s.there, !.marked = {}, !.there = {}]
ConfirmBase(s, w) ==
  StartBase([s EXCEPT !.choosing = FALSE, !.chosen = s.marked \ s.there, !.marked = {}, !.there = {}], w)

BaseDialogKey(s, k, w) ==
  CASE k = "Up" -> [s EXCEPT !.cursor = Bounded(@ - 1, 1, @)]
    [] k = "Down" -> [s EXCEPT !.cursor = Bounded(@ + 1, 1, Len(Package) + 1)]
    [] k \in {"Enter", "Space"} -> IF s.cursor > Len(Package) THEN ConfirmBase(s, w) ELSE ToggleBase(s)
    [] k = "Esc" -> [s EXCEPT !.choosing = FALSE, !.marked = {}, !.there = {}]
    [] OTHER -> s

\* poll: the outcomes of the two workers.  A finished worker may have
\* installed what it was asked for, a cancelled or failed one too.
PollInstall(s, w) ==
  IF s.install = NoRun THEN {[s |-> s, w |-> w]}
  ELSE {[s |-> s, w |-> w]}
       \cup {LET v == [w EXCEPT !.docker = @ \/ ok]
             IN  [s |-> RefreshStatus([s EXCEPT !.install = NoRun, !.stopping = FALSE], v), w |-> v] :
               ok \in BOOLEAN}
PollBase(s, w) ==
  IF s.baseRun = NoBase THEN {[s |-> s, w |-> w]}
  ELSE {[s |-> s, w |-> w]}
       \cup {LET v == [w EXCEPT !.base = @ \cup got]
             IN  [s |-> RefreshStatus([s EXCEPT !.baseRun = NoBase, !.baseStopping = FALSE], v), w |-> v] :
               got \in {{}, s.baseRun.of}}
SoftwareUpdate(s, w, here) ==
  UNION {PollBase(e.s, e.w) : e \in PollInstall(IF here THEN EnsureSoftware(s, w) ELSE s, w)}

\* The rows of a running installation take every key before any panel does.
RunningKey(s, k) ==
  IF s.stopping
    THEN CASE k = "Enter" -> [s EXCEPT !.stopping = FALSE,
                                       !.install.cancel = @ \/ s.install # NoRun]
           [] k = "Esc" -> [s EXCEPT !.stopping = FALSE]
           [] OTHER -> s
  ELSE IF s.install # NoRun THEN [s EXCEPT !.stopping = k = "Esc"]
  ELSE IF s.baseStopping
    THEN CASE k = "Enter" -> [s EXCEPT !.baseStopping = FALSE,
                                       !.baseRun.cancel = @ \/ s.baseRun # NoBase]
           [] k = "Esc" -> [s EXCEPT !.baseStopping = FALSE]
           [] OTHER -> s
  ELSE [s EXCEPT !.baseStopping = k = "Esc"]
SoftwareRunning(s) == s.stopping \/ s.install # NoRun \/ s.baseStopping \/ s.baseRun # NoBase

SoftwareTakes(s, k) ==
  s.choosing \/ s.confirming # "none" \/ k \in {"Up", "Down", "Enter", "Space"}

\* handle_software_key, below the running installations.
SoftwareKey(s, k, w) ==
  IF s.choosing THEN Keep(BaseDialogKey(s, k, w), w)
  ELSE IF s.confirming # "none"
    THEN Keep(CASE k = "Enter" -> [StartInstall(s, w) EXCEPT !.confirming = "none"]
                [] k = "Esc" -> [s EXCEPT !.confirming = "none"]
                [] k \in {"Space", "Right"} -> [s EXCEPT !.confirming = Around(Source, @, 1)]
                [] k = "Left" -> [s EXCEPT !.confirming = Around(Source, @, -1)]
                [] OTHER -> s, w)
  ELSE Keep(CASE k = "Up" -> [s EXCEPT !.sel = "Docker"]
              [] k = "Down" -> [s EXCEPT !.sel = "BasePackages"]
              [] OTHER -> IF s.sel = "BasePackages" THEN OpenBase(s, w)
                          ELSE IF s.docker THEN s ELSE [s EXCEPT !.confirming = Source[1]], w)

BaseLayer(s) == IF s.baseRun # NoBase THEN <<"base running">>
                ELSE IF s.choosing THEN <<"base", s.marked>> ELSE <<>>
DockerLayer(s) == IF s.install # NoRun THEN <<"docker running">>
                  ELSE IF s.confirming # "none" THEN <<"docker", s.confirming>> ELSE <<>>
SoftwareDialog(s) == IF BaseLayer(s) # <<>> THEN BaseLayer(s) ELSE DockerLayer(s)
=============================================================================
