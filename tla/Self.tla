-------------------------------- MODULE Self --------------------------------
(***************************************************************************)
(* lkit self install, upgrade and remove (src/lkit-cli/src/commands/self.rs) *)
(* and the three service backends they drive for lkit's own daemon          *)
(* (service/systemd.rs, openrc.rs, sysvinit.rs).  The commands exclude each  *)
(* other by the install lock; between any two of their steps the process    *)
(* may be killed, the host may be started again, and the daemon may die.    *)
(* What the service managers do is external, modelled from the definitions  *)
(* lkit renders for them (Restart=always under systemd, start-stop-daemon   *)
(* with and without --retry in the init scripts).                           *)
(***************************************************************************)
EXTENDS Integers, Sequences, FiniteSets

CONSTANTS Release,      \* releases as the API lists them
          PageSize,     \* entries of a page (per_page=100)
          MaxPages,     \* pages that are read (100)
          MaxCommands,  \* bound: how many commands are run
          MaxTrouble    \* bound: failed calls, kills, deaths of the daemon

VARIABLES manager,  \* which service manager the host runs
          sys,      \* what it has: the link, the definition, enabled, the process
          bin,      \* /usr/local/bin/lkit: its version, and whether it runs
          staged,   \* the downloaded file beside it
          pc, op,   \* where the command is, and which one it is
          want,     \* the release upgrade has settled on
          listing,  \* what the API has answered: the query and the entries
          clean,    \* no call of this command has failed so far
          removed,  \* the daemon has been removed and not installed since
          commands, trouble
host == <<manager, sys>>
file == <<bin, staged>>
counts == <<commands, trouble>>
vars == <<host, file, pc, op, want, listing, clean, removed, counts>>

NoFile == [ver |-> 0, runs |-> FALSE]
NoRelease == [base |-> 0, rc |-> 0, plain |-> FALSE, flag |-> FALSE, draft |-> FALSE, valid |-> FALSE]
NoListing == [mode |-> "none", asked |-> NoRelease, entries |-> <<>>]

-----------------------------------------------------------------------------
(* Which release (fetch_release, eligible_release_version).  A version is a  *)
(* base and, for a candidate, its number, written rcN (plain) or rc.N.       *)

Version(r) == [base |-> r.base, rc |-> r.rc, plain |-> r.plain]
Eligible(r, prereleases) ==
  /\ ~r.draft /\ (prereleases \/ ~r.flag)
  /\ r.valid                                \* parse_upgrade_version
  /\ prereleases \/ r.rc = 0
Precedence(r) == r.base * 1000 + (IF r.rc = 0 THEN 999 ELSE r.rc)

\* The entries that are read, page by page; a full last page means giving up.
Exceeds(entries) == Len(entries) \div PageSize >= MaxPages
\* One entry after the other; an equal one does not replace what was found.
Best(entries) ==
  LET found[i \in 0..Len(entries)] ==
        IF i = 0 THEN NoRelease
        ELSE LET r == entries[i]
                 best == found[i - 1]
             IN  IF Eligible(r, TRUE) /\ (best = NoRelease \/ Precedence(r) > Precedence(best)) THEN r ELSE best
  IN  IF Exceeds(entries) THEN NoRelease ELSE found[Len(entries)]
Select(l) ==
  CASE l.mode = "newest" -> Best(l.entries)
    [] l.mode = "latest" -> IF Eligible(l.entries[1], FALSE) THEN l.entries[1] ELSE NoRelease
    [] l.mode = "tag" -> IF Eligible(l.entries[1], TRUE) /\ Version(l.entries[1]) = Version(l.asked)
                         THEN l.entries[1] ELSE NoRelease

-----------------------------------------------------------------------------
(* The service managers.  proc: "none", "running", under systemd "waiting"   *)
(* for its automatic restart, under OpenRC "crashed", under sysvinit "dying" *)
(* after a stop that does not wait.                                         *)

Defined(s) == \/ s.reg = "ours" /\ s.origin
              \/ s.reg \in {"other", "file"}
IsActive(s) == CASE manager = "systemd" -> s.proc = "running"
                 [] manager = "openrc" -> Defined(s) /\ s.proc = "running"
                 [] manager = "sysvinit" -> s.proc \in {"running", "dying"}
\* rc-service status knows a third answer; the code takes it for an error.
IsActiveFails(s) == manager = "openrc" /\ Defined(s) /\ s.proc = "crashed"
\* rc_d_link_exists lists the directory named "/etc/rc?.d", which there is not.
IsEnabled(s) == /\ manager # "sysvinit" /\ s.enabled
                /\ manager = "systemd" => Defined(s)

\* Mutant: whatever lies there is replaced under systemd too.
RegisterAnyway(s) == {[s EXCEPT !.reg = "ours"]}
\* register: the results it may have; none when it refuses.
Register(s) ==
  IF manager = "systemd" /\ s.reg \in {"other", "file"} THEN {} ELSE {[s EXCEPT !.reg = "ours"]}
Unregister(s) ==
  CASE s.reg = "ours" -> {[s EXCEPT !.reg = "missing",
                                    !.proc = IF manager = "systemd" /\ @ = "waiting" THEN "none" ELSE @]}
    [] s.reg = "missing" -> {s}
    [] OTHER -> {}
Started(s, v) == [s EXCEPT !.proc = "running", !.ver = v]
Start(s, v) == IF Defined(s) /\ s.proc # "dying" THEN {Started(s, v)} ELSE {}
Gone(s) == [s EXCEPT !.proc = "none", !.ver = 0]
\* A stop under sysvinit only sends the signal, and fails when nothing runs.
Stop(s) ==
  IF ~Defined(s) /\ ~(manager = "systemd" /\ s.proc # "none") THEN {}
  ELSE IF manager # "sysvinit" THEN {Gone(s)}
  ELSE IF s.proc \in {"running", "dying"} THEN {Gone(s), [s EXCEPT !.proc = "dying"]}
  ELSE {}
\* sysvinit's restart is a stop and at once a start, which finds the old process.
Restart(s, v) == IF Defined(s) THEN {Started(s, v)} ELSE {}
RestartFails(s) == IF manager = "sysvinit" /\ Defined(s) THEN {[s EXCEPT !.proc = "dying"]} ELSE {}

-----------------------------------------------------------------------------
Running == pc # "idle"
Ends == /\ pc' = "idle" /\ op' = "none" /\ want' = NoRelease /\ listing' = NoListing
Goto(l) == pc' = l /\ UNCHANGED <<op, want, listing>>
\* A call that fails for a reason of its own.
Trouble == trouble < MaxTrouble /\ trouble' = trouble + 1 /\ UNCHANGED commands

Begin(o) ==
  /\ ~Running /\ commands < MaxCommands
  /\ commands' = commands + 1
  /\ op' = o /\ clean' = TRUE
  /\ pc' = (CASE o = "install" -> "write" [] o = "upgrade" -> "fetch" [] o = "remove" -> "stop")
  /\ removed' = (removed /\ o # "install")
  /\ UNCHANGED <<host, file, want, listing, trouble>>

\* install: the definition is written beside its name and renamed.
WriteOrigin ==
  /\ pc = "write"
  /\ \/ sys' = [sys EXCEPT !.origin = TRUE] /\ Goto("register") /\ UNCHANGED <<clean, counts>>
     \/ Trouble /\ Ends /\ clean' = FALSE /\ UNCHANGED sys
  /\ UNCHANGED <<manager, file, removed>>

\* A call of install's second half: an error leads to cleanup_partial_install.
Call(at, results, next) ==
  /\ pc = at
  /\ \/ sys' \in results /\ Goto(next) /\ UNCHANGED <<clean, counts>>
     \/ results = {} /\ Goto("undo_stop") /\ clean' = FALSE /\ UNCHANGED <<sys, counts>>
     \/ Trouble /\ Goto("undo_stop") /\ clean' = FALSE /\ UNCHANGED sys
  /\ UNCHANGED <<manager, file, removed>>
DoRegister == Call("register", Register(sys), "enable")
DoEnable == Call("enable", {[sys EXCEPT !.enabled = TRUE]}, "launch")
Launch ==
  Call("launch", IF IsActiveFails(sys) THEN {} ELSE IF IsActive(sys) THEN Restart(sys, bin.ver) ELSE Start(sys, bin.ver), "pid")
LaunchRace ==
  /\ pc = "launch" /\ IsActive(sys)
  /\ sys' \in RestartFails(sys) /\ Goto("undo_stop") /\ clean' = FALSE
  /\ UNCHANGED <<manager, file, removed, counts>>
\* Thirty looks in three seconds; a process that is on its way out counts.
AwaitPid ==
  /\ pc = "pid"
  /\ IF sys.proc \in {"running", "dying"} THEN Ends ELSE Goto("undo_stop")
  /\ UNCHANGED <<host, file, clean, removed, counts>>

\* cleanup_partial_install: every error is ignored.
Undo(at, results, next) ==
  /\ pc = at
  /\ \/ sys' \in results /\ UNCHANGED <<clean, counts>>
     \/ results = {} /\ clean' = FALSE /\ UNCHANGED <<sys, counts>>
     \/ Trouble /\ clean' = FALSE /\ UNCHANGED sys
  /\ IF next = "idle" THEN Ends ELSE Goto(next)
  /\ UNCHANGED <<manager, file, removed>>
Disabled(s) == IF IsEnabled(s) THEN {[s EXCEPT !.enabled = FALSE]} ELSE {s}
CleanupPartialInstall ==
  \/ Undo("undo_stop", Stop(sys), "undo_disable")
  \/ Undo("undo_disable", Disabled(sys), "undo_unregister")
  \/ Undo("undo_unregister", Unregister(sys), "undo_origin")
  \/ Undo("undo_origin", {[sys EXCEPT !.origin = FALSE]}, "idle")

\* The daemon runs, or is about to, and is_active says it does not: systemd waits
\* to restart it, or OpenRC no longer has its script.
Overlooked == sys.proc \in {"running", "waiting"} /\ ~IsActive(sys)

\* remove.  Only the stop and the last deletion can make it fail.
RemoveStop ==
  /\ pc = "stop"
  /\ \/ /\ ~IsActiveFails(sys)
        /\ IF IsActive(sys) THEN sys' \in Stop(sys) /\ Goto("exit") ELSE UNCHANGED sys /\ Goto("disable")
        /\ clean' = ~Overlooked /\ UNCHANGED counts
     \/ /\ IsActiveFails(sys) \/ (IsActive(sys) /\ Stop(sys) = {})
        /\ Ends /\ clean' = FALSE /\ UNCHANGED <<sys, counts>>
     \/ Trouble /\ Ends /\ clean' = FALSE /\ UNCHANGED sys
  /\ UNCHANGED <<manager, file, removed>>
\* stop_and_wait: for six seconds.
RemoveExit ==
  /\ pc = "exit"
  /\ IF IsActive(sys) THEN Ends ELSE Goto("disable")
  /\ UNCHANGED <<host, file, clean, removed, counts>>
RemoveRest ==
  \/ Undo("disable", Disabled(sys), "unregister")
  \/ Undo("unregister", Unregister(sys), "delete")
\* The definition is deleted and the command says it is done.
RemoveDelete ==
  /\ pc = "delete"
  /\ \/ /\ sys' = [sys EXCEPT !.origin = FALSE] /\ Ends
        /\ removed' = (removed \/ clean)
        /\ UNCHANGED <<clean, counts>>
     \/ Trouble /\ Ends /\ clean' = FALSE /\ UNCHANGED <<sys, removed>>
  /\ UNCHANGED <<manager, file>>

-----------------------------------------------------------------------------
(* upgrade.                                                                *)
Listings ==
  [mode : {"newest"}, asked : {NoRelease}, entries : UNION {[1..n -> Release] : n \in 0..3}]
    \cup [mode : {"latest"}, asked : {NoRelease}, entries : [1..1 -> Release]]
    \cup [mode : {"tag"}, asked : {r \in Release : r.valid}, entries : [1..1 -> Release]]
\* A page that cannot be read ends the command: no incomplete list is used.
Fetch ==
  /\ pc = "fetch"
  /\ \/ \E l \in Listings :
          LET r == Select(l) IN
          /\ listing' = l /\ want' = r /\ pc' = "compare"
          /\ UNCHANGED <<op, clean, counts>>
     \/ Trouble /\ Ends /\ clean' = FALSE
  /\ UNCHANGED <<host, file, removed>>
\* No release, the version that runs already, or no single asset and checksum.
\* What runs is the first version of the bin; the others are numbered by release.
Number(r) == 10 * Precedence(r) + (IF r.plain THEN 1 ELSE 0)
Compare ==
  /\ pc = "compare"
  /\ \/ /\ want # NoRelease /\ Number(want) # bin.ver
        /\ pc' = "download" /\ listing' = NoListing /\ UNCHANGED <<op, want>>
     \/ Ends
  /\ UNCHANGED <<host, file, clean, removed, counts>>
\* The file is complete when its checksum is right; the release itself may be
\* one that does not run on this host.
Download ==
  /\ pc = "download"
  /\ \/ \E runs \in BOOLEAN : staged' = [ver |-> Number(want), runs |-> runs]
        /\ Goto("verify") /\ UNCHANGED <<clean, counts>>
     \/ Trouble /\ staged' = NoFile /\ Ends /\ clean' = FALSE
  /\ UNCHANGED <<host, bin, removed>>
\* Mutant: the answer of the program is not looked at.
VerifyAnything ==
  /\ pc = "verify" /\ Goto("rename") /\ UNCHANGED <<host, file, clean, removed, counts>>
Verify ==
  /\ pc = "verify"
  /\ IF staged.runs THEN Goto("rename") /\ UNCHANGED staged ELSE staged' = NoFile /\ Ends
  /\ UNCHANGED <<host, bin, clean, removed, counts>>
InstallStaged ==
  /\ pc = "rename"
  /\ \/ bin' = staged /\ staged' = NoFile /\ Goto("refresh") /\ UNCHANGED <<clean, counts>>
     \/ Trouble /\ staged' = NoFile /\ Ends /\ clean' = FALSE /\ UNCHANGED bin
  /\ UNCHANGED <<host, removed>>
\* refresh_daemon: only a running daemon behind a link is restarted.
RefreshDaemon ==
  /\ pc = "refresh" /\ Ends
  /\ LET due == sys.reg \in {"ours", "other"} /\ IsActive(sys)
         fails == sys.reg \in {"ours", "other"} /\ IsActiveFails(sys)
     IN  \/ ~due /\ ~fails /\ UNCHANGED <<sys, clean, counts>>
         \/ due /\ sys' \in Restart(sys, bin.ver) /\ UNCHANGED <<clean, counts>>
         \/ due /\ sys' \in RestartFails(sys) /\ clean' = FALSE /\ UNCHANGED counts
         \/ (fails \/ (due /\ ~Defined(sys))) /\ clean' = FALSE /\ UNCHANGED <<sys, counts>>
         \/ Trouble /\ clean' = FALSE /\ UNCHANGED sys
  /\ UNCHANGED <<manager, file, removed>>

-----------------------------------------------------------------------------
(* The rest of the host.                                                   *)
\* What was being downloaded stays under a name of its own; nobody reads it.
Killed == /\ Running /\ Trouble /\ Ends /\ clean' = FALSE
          /\ staged' = NoFile /\ UNCHANGED <<host, bin, removed>>
DaemonDies ==
  /\ sys.proc = "running" /\ Trouble
  /\ sys' = [Gone(sys) EXCEPT !.proc = CASE manager = "systemd" -> "waiting" [] manager = "openrc" -> "crashed" [] OTHER -> "none"]
  /\ UNCHANGED <<manager, file, pc, op, want, listing, clean, removed, commands>>
AutoRestart ==
  /\ sys.proc = "waiting" /\ sys' = Started(sys, bin.ver)
  /\ UNCHANGED <<manager, file, pc, op, want, listing, clean, removed, counts>>
Exits ==
  /\ sys.proc = "dying" /\ sys' = Gone(sys)
  /\ UNCHANGED <<manager, file, pc, op, want, listing, clean, removed, counts>>
Boot ==
  /\ Trouble /\ Ends /\ clean' = FALSE
  /\ sys' = IF sys.enabled /\ Defined(sys) THEN Started(sys, bin.ver) ELSE Gone(sys)
  /\ staged' = NoFile /\ UNCHANGED <<manager, bin, removed>>

Init ==
  /\ manager \in {"systemd", "openrc", "sysvinit"}
  /\ \E r \in {"missing", "other", "file"} :
       sys = [reg |-> r, origin |-> FALSE, enabled |-> FALSE, proc |-> "none", ver |-> 0]
  /\ bin = [ver |-> 1, runs |-> TRUE] /\ staged = NoFile
  /\ pc = "idle" /\ op = "none" /\ want = NoRelease /\ listing = NoListing
  /\ clean = TRUE /\ removed = FALSE /\ commands = 0 /\ trouble = 0

Install == WriteOrigin \/ DoRegister \/ DoEnable \/ Launch \/ LaunchRace \/ AwaitPid \/ CleanupPartialInstall
Remove == RemoveStop \/ RemoveExit \/ RemoveRest \/ RemoveDelete
Upgrade == Fetch \/ Compare \/ Download \/ Verify \/ InstallStaged \/ RefreshDaemon
Next ==
  \/ \E o \in {"install", "upgrade", "remove"} : Begin(o)
  \/ Install \/ Remove \/ Upgrade
  \/ Killed \/ DaemonDies \/ AutoRestart \/ Exits \/ Boot

Spec == Init /\ [][Next]_vars

-----------------------------------------------------------------------------
(* Properties.                                                             *)

\* Types; a staged file exists only while an upgrade looks at it, and a process
\* has a version.
TypeOK ==
  /\ sys.reg \in {"missing", "ours", "other", "file"}
  /\ sys.proc \in {"none", "running", "waiting", "crashed", "dying"}
  /\ sys.proc \in {"running", "dying"} <=> sys.ver # 0
  /\ staged # NoFile => pc \in {"verify", "rename"}
  /\ (op = "none") = (pc = "idle")

\* Whatever the API lists, whatever is downloaded and wherever upgrade is killed,
\* /usr/local/bin/lkit is a program that has answered --version.
BinaryRuns == bin.runs

Newer(a, b) == a.base > b.base \/ (a.base = b.base /\ b.rc # 0 /\ (a.rc = 0 \/ a.rc > b.rc))
\* upgrade takes what was asked for: never a draft, only a final release unless
\* candidates are wanted, the very version that was named, and with
\* --include-prerelease one that no other listed release is newer than, candidates
\* compared by number; it gives up only when there is none or the list is too long.
SelectsWhatWasAsked ==
  pc = "compare" =>
    LET entries == {listing.entries[i] : i \in DOMAIN listing.entries}
        usable == {r \in entries : r.valid /\ ~r.draft}
    IN  /\ want # NoRelease => want \in usable
        /\ listing.mode = "latest" /\ want # NoRelease => want.rc = 0 /\ ~want.flag
        /\ listing.mode = "tag" /\ want # NoRelease => Version(want) = Version(listing.asked)
        /\ listing.mode = "newest" /\ want # NoRelease => \A r \in usable : ~Newer(r, want)
        /\ listing.mode = "newest" /\ want = NoRelease => usable = {} \/ Exceeds(listing.entries)

\* An install that reports success has left a registered, enabled definition and a
\* daemon that runs the binary of now, whichever steps of earlier commands failed.
InstalledMeansRunning ==
  [][(pc = "pid" /\ pc' = "idle" /\ clean') =>
       /\ sys'.reg = "ours" /\ sys'.origin /\ sys'.enabled
       /\ sys'.proc = "running" /\ sys'.ver = bin.ver]_vars

\* An upgrade that reports success does not leave the old program running behind a
\* link, and never starts a daemon that did not run (refresh_daemon).
UpgradedDaemonRunsNew ==
  [][(pc = "refresh" /\ pc' = "idle" /\ clean' /\ sys'.proc = "running") =>
       /\ sys.proc \in {"running", "dying"}
       /\ sys'.reg # "file" /\ Defined(sys') => sys'.ver = bin.ver]_vars

\* After a remove in which no call failed, over a link that was lkit's, no daemon
\* runs until the next install: not when the old one is slow to exit, not after a
\* reboot, and nothing of it is left.  Excepted is a daemon is_active overlooked
\* and, of what is left, the start links of sysvinit.
RemovedStaysGone ==
  removed => /\ sys.proc \notin {"running", "waiting", "dying"}
             /\ sys.reg = "missing" /\ ~sys.origin
             /\ (trouble = 0 /\ manager # "sysvinit") => ~sys.enabled

\* Under systemd a unit that is not lkit's is neither replaced nor removed.
ForeignKept == [][(manager = "systemd" /\ sys.reg \in {"other", "file"}) => sys'.reg = sys.reg]_vars
=============================================================================
