------------------------------ MODULE Settings ------------------------------
(***************************************************************************)
(* lkit's config.toml and the programs that share it                        *)
(* (src/lkit-cli/src/deployment/config.rs, commands/frontend.rs,            *)
(* commands/flare.rs, daemon.rs): the frontend commands, lkit flare setup   *)
(* (and the console and self install, which write the same section), the    *)
(* console's language switch, and the daemon, which makes up a rescue code   *)
(* when there is none and hosts the flare server with what it has read.     *)
(* Nobody takes a lock.  A write goes to run/config.toml.tmp, the same name *)
(* for every program, which is opened with truncate and renamed: so files   *)
(* are modelled as inodes, and a program keeps the inode it has opened.     *)
(*                                                                         *)
(* A document is abstracted to whether it is TOML at all (kind), whether it *)
(* also is what lkit's types demand (base), and its three sections.         *)
(***************************************************************************)
EXTENDS Naturals, FiniteSets

CONSTANTS Writer,       \* the programs that are started by hand
          Source,       \* identifiers of custom frontends
          MaxOps,       \* bound: how many commands are run
          MaxTrouble    \* bound: hand edits, kills, failed writes and broken links

ASSUME Programs == IsFiniteSet(Writer) /\ "daemon" \notin Writer

VARIABLES inode,    \* inode -> document
          config, tmp,   \* the inode behind each name, 0 when there is none
          pc,       \* program -> where it is
          op,       \* program -> the command it runs
          section,  \* program -> what load_* gave it, with its change
          doc,      \* program -> the document save_* has read
          held,     \* program -> the inode it has open, 0 when none
          overlap,  \* two programs, or one and an editor, have worked at once
          task, hosted,       \* the flare server: its state, and its section
          ops, trouble,
          edited    \* somebody has edited the file
files == <<inode, config, tmp>>
progs == <<pc, op, section, doc, held>>
host == <<task, hosted>>
counts == <<ops, trouble, edited>>
vars == <<files, progs, overlap, host, counts>>

Daemon == "daemon"
Prog == Writer \cup {Daemon}
Inodes == 1..(Cardinality(Prog) + 2)

\* A flare section: psk and one field that stands for the others, the device.
NoSection == [psk |-> "none", dev |-> "any"]
NoFrontend == [active |-> "official", sources |-> {}]
NoDoc == [kind |-> "none", base |-> FALSE, flare |-> NoSection, front |-> NoFrontend, lang |-> "none"]
Minimal == [NoDoc EXCEPT !.kind = "toml", !.base = TRUE]
Empty == [NoDoc EXCEPT !.kind = "toml"]
Junk == [NoDoc EXCEPT !.kind = "junk"]
Current == IF config = 0 THEN NoDoc ELSE inode[config]

\* load_flare: tolerant, what does not parse counts as not configured.
LoadFlare == IF Current.base THEN Current.flare ELSE NoSection
\* validate_frontend, load_frontend: strict, a broken file stops the command.
ValidateFrontend(f) == f.active = "official" \/ f.active \in f.sources
LoadFrontendFails == Current.kind # "none" /\ ~(Current.base /\ ValidateFrontend(Current.front))
LoadFrontend == IF Current.front.sources = {} THEN NoFrontend ELSE Current.front

-----------------------------------------------------------------------------
(* The commands.  <<name, argument>>; the outcome of the first part of a    *)
(* command is a section to be saved, or an error.                           *)
Commands == {<<"add", s>> : s \in Source} \cup {<<"activate", s>> : s \in Source}
              \cup {<<"select", s>> : s \in Source \cup {"official"}} \cup {<<"remove", s>> : s \in Source}
              \cup {<<"psk", p>> : p \in {"p1"}} \cup {<<"dev", d>> : d \in {"any", "ghost"}}
              \cup {<<"language", l>> : l \in {"zh"}}

Refused(c) ==
  LET f == LoadFrontend
  IN  CASE c[1] \in {"add", "activate"} -> LoadFrontendFails \/ c[2] \in f.sources
        [] c[1] = "select" -> LoadFrontendFails \/ c[2] \notin f.sources \cup {"official"}
        [] c[1] = "remove" -> LoadFrontendFails \/ c[2] \notin f.sources \/ c[2] = f.active
        [] OTHER -> FALSE
Changed(c) ==
  LET f == LoadFrontend
      r == LoadFlare
  IN  CASE c[1] = "add" -> [f EXCEPT !.sources = @ \cup {c[2]}]
        [] c[1] = "activate" -> [f EXCEPT !.sources = @ \cup {c[2]}, !.active = c[2]]
        [] c[1] = "select" -> [f EXCEPT !.active = c[2]]
        [] c[1] = "remove" -> [f EXCEPT !.sources = @ \ {c[2]}]
        [] c[1] = "psk" -> [r EXCEPT !.psk = c[2]]
        [] c[1] = "dev" -> [r EXCEPT !.dev = c[2]]
        [] c[1] = "language" -> [lang |-> c[2]]

Idle(p) == pc[p] = "idle"
Busy == {p \in Prog : pc[p] \in {"save", "open", "write", "rename"}}

\* A command is started: what it needs is loaded, and changed in memory.  The
\* programs are alike: any one that does not run will do.
Start(c) ==
  LET w == CHOOSE x \in Writer : Idle(x) IN
  /\ \E x \in Writer : Idle(x)
  /\ ops < MaxOps /\ ~Refused(c)
  /\ ops' = ops + 1
  /\ pc' = [pc EXCEPT ![w] = "save"]
  /\ op' = [op EXCEPT ![w] = c]
  /\ section' = [section EXCEPT ![w] = Changed(c)]
  /\ overlap' = (overlap \/ Busy # {})
  /\ UNCHANGED <<files, doc, held, host, trouble, edited>>

\* A file without a name that nobody has open is gone.
Unlink == inode' = [i \in Inodes |-> IF i \in {config', tmp'} \cup {held'[q] : q \in Prog}
                                      THEN inode[i] ELSE NoDoc]

\* A command ends, well or with an error; the daemon goes on with its section.
Close(p, next) ==
  /\ held' = [held EXCEPT ![p] = 0]
  /\ doc' = [doc EXCEPT ![p] = NoDoc]
  /\ section' = IF next = "spawn" THEN section ELSE [section EXCEPT ![p] = NoSection]
  /\ op' = [op EXCEPT ![p] = <<"none", "none">>]
  /\ pc' = [pc EXCEPT ![p] = next]

\* The document with the section a command has changed; every field of the
\* section is written.
WithSection(d, c, s) ==
  CASE c[1] \in {"psk", "dev", "generate"} -> [d EXCEPT !.flare = s]
    [] c[1] = "language" -> [d EXCEPT !.lang = s.lang]
    [] OTHER -> [d EXCEPT !.front = s]
\* What is saved into: a missing file becomes the minimal one.
Base == IF Current.kind = "none" THEN Minimal ELSE Current

\* Mutant: a file that does not parse is treated like a missing one.
SaveOverJunk(p) ==
  LET d == IF Current.kind \in {"none", "junk"} THEN Minimal ELSE Current
  IN  /\ pc[p] = "save"
      /\ doc' = [doc EXCEPT ![p] = WithSection(d, op[p], section[p])]
      /\ pc' = [pc EXCEPT ![p] = "open"]
      /\ UNCHANGED <<files, op, section, held, overlap, host, counts>>

\* save_flare, save_frontend and write_language read the file (again); what is
\* no TOML is refused.
Save(p) ==
  /\ pc[p] = "save"
  /\ IF Current.kind = "junk"
       THEN Close(p, IF p = Daemon THEN "down" ELSE "idle")
       ELSE /\ doc' = [doc EXCEPT ![p] = WithSection(Base, op[p], section[p])]
            /\ pc' = [pc EXCEPT ![p] = "open"]
            /\ UNCHANGED <<op, section, held>>
  /\ UNCHANGED <<files, overlap, host, counts>>

\* atomic_write.
Free == CHOOSE i \in Inodes : i \notin {config, tmp} \cup {held[p] : p \in Prog}
\* Mutant: the file gets its name before it is written.
OpenNamed(p) ==
  /\ pc[p] = "open"
  /\ inode' = [inode EXCEPT ![Free] = Empty]
  /\ config' = Free
  /\ held' = [held EXCEPT ![p] = Free]
  /\ pc' = [pc EXCEPT ![p] = "write"]
  /\ UNCHANGED <<tmp, op, section, doc, overlap, host, counts>>
Open(p) ==
  LET i == IF tmp = 0 THEN Free ELSE tmp IN
  /\ pc[p] = "open"
  /\ inode' = [inode EXCEPT ![i] = Empty]
  /\ tmp' = i
  /\ held' = [held EXCEPT ![p] = i]
  /\ pc' = [pc EXCEPT ![p] = "write"]
  /\ UNCHANGED <<config, op, section, doc, overlap, host, counts>>
\* What another program wrote into the same inode meanwhile may stick out.
Write(p) ==
  /\ pc[p] = "write"
  /\ \E d \in {doc[p]} \cup (IF inode[held[p]] = Empty THEN {} ELSE {Junk}) :
       inode' = [inode EXCEPT ![held[p]] = d]
  /\ pc' = [pc EXCEPT ![p] = "rename"]
  /\ UNCHANGED <<config, tmp, op, section, doc, held, overlap, host, counts>>
\* The name may be gone: another program has renamed it already.
Rename(p) ==
  /\ pc[p] = "rename"
  /\ IF tmp = 0 THEN UNCHANGED <<config, tmp>> ELSE config' = tmp /\ tmp' = 0
  /\ Close(p, IF p = Daemon THEN IF tmp = 0 THEN "down" ELSE "spawn" ELSE "idle") /\ Unlink
  /\ UNCHANGED <<overlap, host, counts>>
\* No space, or an I/O error: the temporary file is removed.
WriteFails(p) ==
  /\ pc[p] \in {"write", "rename"} /\ trouble < MaxTrouble
  /\ trouble' = trouble + 1
  /\ tmp' = 0
  /\ Close(p, IF p = Daemon THEN "down" ELSE "idle") /\ UNCHANGED config /\ Unlink
  /\ UNCHANGED <<overlap, host, ops, edited>>
\* A program is killed; the daemon is started again by the service manager.
Killed(p) ==
  /\ pc[p] # (IF p = Daemon THEN "start" ELSE "idle") /\ trouble < MaxTrouble
  /\ trouble' = trouble + 1
  /\ Close(p, IF p = Daemon THEN "start" ELSE "idle") /\ UNCHANGED <<config, tmp>> /\ Unlink
  /\ IF p = Daemon THEN task' = "none" /\ hosted' = NoSection ELSE UNCHANGED host
  /\ UNCHANGED <<overlap, ops, edited>>

-----------------------------------------------------------------------------
(* The daemon.                                                             *)

\* effective_flare_config: a code is made up when none can be read.
InitialFlare ==
  /\ pc[Daemon] = "start"
  /\ IF LoadFlare.psk # "none"
       THEN /\ pc' = [pc EXCEPT ![Daemon] = "spawn"]
            /\ section' = [section EXCEPT ![Daemon] = LoadFlare]
            /\ UNCHANGED <<op, overlap>>
       ELSE /\ pc' = [pc EXCEPT ![Daemon] = "save"]
            /\ op' = [op EXCEPT ![Daemon] = <<"generate", "none">>]
            /\ section' = [section EXCEPT ![Daemon] = [LoadFlare EXCEPT !.psk = "made"]]
            /\ overlap' = (overlap \/ Busy # {})
  /\ UNCHANGED <<files, doc, held, host, counts>>

\* spawn_flare_from; the section it was started with is kept beside the task.
SpawnFlare ==
  /\ pc[Daemon] = "spawn"
  /\ task' = "running"
  /\ hosted' = section[Daemon]
  /\ pc' = [pc EXCEPT ![Daemon] = "up"]
  /\ section' = [section EXCEPT ![Daemon] = NoSection]
  /\ UNCHANGED <<files, op, doc, held, overlap, counts>>

\* run_serve ends: at once when the device is not there, and whenever the link breaks.
ServerEnds ==
  /\ pc[Daemon] = "up" /\ task = "running"
  /\ \/ hosted.dev = "ghost" /\ UNCHANGED trouble
     \/ trouble < MaxTrouble /\ trouble' = trouble + 1
  /\ task' = "finished"
  /\ UNCHANGED <<files, progs, overlap, hosted, ops, edited>>

\* Mutant: only the code is compared.
FlareNeedsNewCode(old, new) == new.psk # "none" /\ new.psk # old.psk
FlareNeedsRestart(old, new) == new.psk # "none" /\ new # old

\* reload_flare, once per cycle.  A server that has ended is started with the
\* section it had; the file is only looked at when the server runs.
ReloadFlare ==
  /\ pc[Daemon] = "up" /\ task # "none"
  /\ IF task = "finished" THEN task' = "running" /\ UNCHANGED hosted
     ELSE IF Current.base /\ FlareNeedsRestart(hosted, Current.flare)
       THEN hosted' = Current.flare /\ task' = (IF Current.flare.psk = "none" THEN "none" ELSE "running")
     ELSE UNCHANGED host
  /\ UNCHANGED <<files, progs, overlap, counts>>

\* Someone edits the file: it is broken, mended, no longer what lkit expects,
\* loses its code, or is deleted.
Edit ==
  /\ trouble < MaxTrouble
  /\ trouble' = trouble + 1 /\ edited' = TRUE
  /\ overlap' = (overlap \/ Busy # {})
  /\ \/ config' = 0 /\ UNCHANGED <<tmp, held>> /\ Unlink
     \/ /\ config # 0
        /\ \E d \in {Junk, Minimal, [Current EXCEPT !.base = FALSE], [Current EXCEPT !.flare = NoSection]} :
             inode' = [inode EXCEPT ![config] = d]
        /\ UNCHANGED <<config, tmp, held>>
  /\ UNCHANGED <<pc, op, section, doc, host, ops>>

Init ==
  /\ inode = [i \in Inodes |-> NoDoc] /\ config = 0 /\ tmp = 0
  /\ pc = [p \in Prog |-> IF p = Daemon THEN "start" ELSE "idle"]
  /\ op = [p \in Prog |-> <<"none", "none">>]
  /\ section = [p \in Prog |-> NoSection]
  /\ doc = [p \in Prog |-> NoDoc]
  /\ held = [p \in Prog |-> 0]
  /\ overlap = FALSE
  /\ task = "none" /\ hosted = NoSection
  /\ ops = 0 /\ trouble = 0 /\ edited = FALSE

Step(p) == Save(p) \/ Open(p) \/ Write(p) \/ Rename(p)
Next ==
  \/ \E c \in Commands : Start(c)
  \/ \E p \in Prog : Step(p) \/ WriteFails(p) \/ Killed(p)
  \/ InitialFlare \/ SpawnFlare \/ ServerEnds \/ ReloadFlare \/ Edit

Spec == Init /\ [][Next]_vars

\* Programs that run go on, the service manager starts the daemon, and its loop
\* comes round every two seconds.  A device that is not there ends the server at
\* once, long before the next round.
Fairness ==
  /\ \A p \in Prog : WF_vars(Step(p))
  /\ WF_vars(InitialFlare) /\ WF_vars(SpawnFlare)
  /\ WF_vars(ReloadFlare) /\ WF_vars(ServerEnds /\ hosted.dev = "ghost")
LiveSpec == Spec /\ Fairness

-----------------------------------------------------------------------------
(* Properties.                                                             *)

\* Types; an inode is free again when no name and no program refers to it.
TypeOK ==
  /\ config \in Inodes \cup {0} /\ tmp \in Inodes \cup {0} /\ (tmp # 0 => tmp # config)
  /\ \A p \in Prog : held[p] \in Inodes \cup {0} /\ (held[p] # 0 <=> pc[p] \in {"write", "rename"})
  /\ task \in {"none", "running", "finished"} /\ (task # "none" => pc[Daemon] = "up")

\* As long as no two programs have worked at once and nobody has edited the file,
\* a reader finds a document lkit's types accept, or no file: whichever write
\* failed and whoever was killed in the middle of one (atomic_write).
AlwaysReadable == (~overlap /\ ~edited) => (Current.kind = "none" \/ Current.base)

\* What a program may make of the file: its own section is another one; the
\* daemon makes up a code where it can read none.
ChangesOwn(p) ==
  LET old == Base
      new == Current'
  IN  /\ old.kind # "junk" /\ new.base = old.base
      /\ op[p][1] \in {"psk", "dev", "generate"} => new = [old EXCEPT !.flare = new.flare]
      /\ op[p][1] = "language" => new = [old EXCEPT !.lang = new.lang]
      /\ op[p][1] \in {"add", "activate", "select", "remove"} => new = [old EXCEPT !.front = new.front]
      /\ (p = Daemon /\ old.base) => old.flare = [new.flare EXCEPT !.psk = "none"]
\* Programs that do not overlap change nothing but their own section, never
\* replace a file that does not parse, and the daemon makes up a code only where
\* it can read none (save_flare, save_frontend, write_language).
KeepsTheRest ==
  [][\A p \in Prog :
       (pc[p] = "rename" /\ pc'[p] # "rename" /\ config' # config /\ ~overlap) => ChangesOwn(p)]_vars

\* Whatever programs overlap, the selected frontend is one that is registered:
\* no interleaving of add, select and remove makes load_frontend refuse the file
\* for good.
FrontendStaysSound == \A i \in Inodes : ValidateFrontend(inode[i].front)

\* Once the daemon hosts the flare server it keeps a server with a code as long
\* as it runs, whatever happens to the file ("never cut the rescue channel",
\* reload_flare).
KeepsHosting ==
  [][(pc[Daemon] = "up" /\ task # "none" /\ pc'[Daemon] = "up") => (task' # "none" /\ hosted'.psk # "none")]_vars

\* Readers of config.toml find a document they accept, and the selected frontend
\* is registered, whatever writes fail or overlap (atomic_write, save_frontend).
SettingsInvariant == TypeOK /\ AlwaysReadable /\ FrontendStaysSound

\* A program changes its own section only, and a hosted server is never given up
\* (save_flare, write_language, reload_flare).
SettingsSteps == KeepsTheRest /\ KeepsHosting

Wanted == pc[Daemon] = "up" /\ task # "none" /\ Current.base /\ Current.flare.psk # "none"
\* When the changes stop, a server that can run ends up with the section of the
\* file (reload_flare compares them in every round).
PicksUpWhileServing == <>[]((Wanted /\ hosted.dev # "ghost") => hosted = Current.flare)
=============================================================================
