------------------------------ MODULE Backups -------------------------------
(***************************************************************************)
(* The store of .lkb backups (src/lkit-cli/src/backup/lkb/write.rs, read.rs, *)
(* export.rs, commands/backup/).  backup create and backup delete hold the   *)
(* install lock; backup list, show and verify and the console's list read    *)
(* the same directory without one; the router goes on writing its files      *)
(* while they are archived; a command may be killed between any two steps,   *)
(* and a file may be damaged from outside.                                   *)
(*                                                                         *)
(* An archive is abstracted to the state of the files it was made from: the  *)
(* version of the pages in static.zip and in static/, and of geo_tmp, and    *)
(* whether it can be read to its end.                                        *)
(***************************************************************************)
EXTENDS Naturals, FiniteSets

CONSTANTS Id,            \* backup identifiers (a time and a random suffix)
          MaxAttempts,   \* BACKUP_ID_ATTEMPTS (8)
          MaxCommands,   \* bound: commands that take the lock
          MaxReads,      \* bound: commands that only read
          MaxTrouble     \* bound: failed calls, kills, damage, writes of the router

\* At least one identifier is tried (BACKUP_ID_ATTEMPTS).
ASSUME BackupBounds == MaxAttempts \in Nat \ {0}

VARIABLES live,     \* the files that are archived: the versions of static/ and geo_tmp
          store,    \* backups/<id>.lkb
          tmp,      \* backups/.tmp/<id>.tmp
          scratch,  \* how many other files lie in backups/.tmp
          output,   \* the file --output has named
          pc, id, attempt, archive, wants,   \* the command that holds the lock
          rd, mode, todo, rows, stayed,      \* the command that only reads
          damaged,  \* the backups somebody has damaged
          killed,   \* a command has been killed
          commands, reads, trouble
disk == <<store, tmp, scratch, output>>
cmd == <<pc, id, attempt, archive, wants>>
reader == <<rd, mode, todo, rows, stayed>>
counts == <<commands, reads, trouble>>
vars == <<live, disk, cmd, reader, damaged, killed, counts>>

NoArchive == [zip |-> 0, static |-> 0, geo |-> 0, whole |-> FALSE]
NoLkb == [exists |-> FALSE, head |-> FALSE, sum |-> NoArchive, body |-> NoArchive, strict |-> FALSE]
NoId == 0

\* validate_backup_file: a regular file of the user's, not broader than 0600.
ValidateBackupFile(f) == f.exists /\ f.strict
\* validate_lkb_header, parse_metadata_json, validate_metadata.
HeaderOk(f) == f.exists /\ f.head
VerifyLkb(f) == HeaderOk(f) /\ f.sum = f.body
\* extract_lkb: the archive is read to its end and holds every required entry.
ExtractLkb(f) == VerifyLkb(f) /\ f.body.whole

\* read_verified for backup list and verify; read_metadata_only for the console;
\* show looks at the checksum and not at the entries.
Verdict(m, f) ==
  /\ ValidateBackupFile(f)
  /\ CASE m = "quick" -> HeaderOk(f) [] m = "show" -> VerifyLkb(f) [] OTHER -> ExtractLkb(f)

-----------------------------------------------------------------------------
(* backup create.                                                          *)
Trouble == trouble < MaxTrouble /\ trouble' = trouble + 1 /\ UNCHANGED <<commands, reads>>
Goto(l) == pc' = l
Ends == /\ pc' = "idle" /\ id' = NoId /\ attempt' = 0 /\ archive' = NoArchive /\ wants' = FALSE

\* The lock, the checks, the export of the configuration: nothing is written.
BeginCreate ==
  /\ pc = "idle" /\ commands < MaxCommands /\ commands' = commands + 1
  /\ Goto("zip") /\ wants' \in BOOLEAN
  /\ UNCHANGED <<live, disk, id, attempt, archive, reader, damaged, killed, reads, trouble>>

\* pack_static_zip, into a file of its own.
PackStaticZip ==
  /\ pc = "zip"
  /\ archive' = [archive EXCEPT !.zip = live.static] /\ scratch' = scratch + 1
  /\ Goto("static")
  /\ UNCHANGED <<live, store, tmp, output, id, attempt, wants, reader, damaged, killed, counts>>
\* stream_tar_gz: the trees, file by file.
AppendStatic ==
  /\ pc = "static"
  /\ archive' = [archive EXCEPT !.static = live.static] /\ scratch' = scratch + 1
  /\ Goto("geo")
  /\ UNCHANGED <<live, store, tmp, output, id, attempt, wants, reader, damaged, killed, counts>>
\* The header of an entry is written with the length the file has at that moment,
AppendHeader ==
  /\ pc = "geo"
  /\ archive' = [archive EXCEPT !.geo = live.geo] /\ Goto("copy")
  /\ UNCHANGED <<live, disk, id, attempt, wants, reader, damaged, killed, counts>>
\* and then the file is copied to its end: a file that has changed meanwhile is not
\* noticed, and what follows it cannot be read.
AppendFile ==
  /\ pc = "copy"
  /\ archive' = [archive EXCEPT !.geo = live.geo, !.whole = (archive.geo = live.geo)]
  /\ attempt' = 1 /\ Goto("container")
  /\ UNCHANGED <<live, disk, id, wants, reader, damaged, killed, counts>>

\* new_backup_id, write_lkb_container: the checksum is the one computed while the
\* archive was written.
WriteContainer ==
  /\ pc = "container"
  /\ \E i \in Id : /\ ~tmp[i].exists
                   /\ id' = i
                   /\ tmp' = [tmp EXCEPT ![i] = [exists |-> TRUE, head |-> TRUE, sum |-> archive,
                                                 body |-> archive, strict |-> TRUE]]
  /\ Goto("verify")
  /\ UNCHANGED <<live, store, scratch, output, attempt, archive, wants, reader, damaged, killed, counts>>
\* Mutant: what was written is not read again.
VerifyNothing ==
  /\ pc = "verify" /\ Goto("link") /\ UNCHANGED <<tmp, scratch, id, attempt, archive, wants>>
  /\ UNCHANGED <<live, store, output, reader, damaged, killed, counts>>
\* What comes back from the disk is looked at; it may not be what was written.
VerifyWritten ==
  /\ pc = "verify"
  /\ \/ VerifyLkb(tmp[id]) /\ Goto("link") /\ UNCHANGED <<tmp, scratch, id, attempt, archive, wants>>
     \/ ~VerifyLkb(tmp[id]) /\ tmp' = [tmp EXCEPT ![id] = NoLkb] /\ scratch' = scratch - 2 /\ Ends
  /\ UNCHANGED <<live, store, output, reader, damaged, killed, counts>>
BadSector ==
  /\ pc = "verify" /\ Trouble
  /\ tmp' = [tmp EXCEPT ![id].body = NoArchive]
  /\ UNCHANGED <<live, store, scratch, output, cmd, reader, damaged, killed>>

\* publish_no_replace: a link, never over an existing name; another identifier is
\* tried a limited number of times.
Link ==
  /\ pc = "link"
  /\ IF store[id].exists
       THEN /\ tmp' = [tmp EXCEPT ![id] = NoLkb] /\ UNCHANGED store
            /\ IF attempt < MaxAttempts
                 THEN attempt' = attempt + 1 /\ Goto("container") /\ UNCHANGED <<scratch, id, archive, wants>>
                 ELSE scratch' = scratch - 2 /\ Ends
       ELSE store' = [store EXCEPT ![id] = tmp[id]] /\ Goto("unlink") /\ UNCHANGED <<tmp, scratch, id, attempt, archive, wants>>
  /\ UNCHANGED <<live, output, reader, damaged, killed, counts>>
\* When the temporary name cannot be removed the backup is taken back.  The two
\* other files go when create_backup returns.
Unlink ==
  /\ pc = "unlink"
  /\ tmp' = [tmp EXCEPT ![id] = NoLkb] /\ scratch' = scratch - 2
  /\ \/ Goto(IF wants THEN "copyout" ELSE "check") /\ UNCHANGED <<store, id, attempt, archive, wants, stayed, counts>>
     \/ Trouble /\ store' = [store EXCEPT ![id] = NoLkb] /\ stayed' = stayed \ {id} /\ Ends
  /\ UNCHANGED <<live, output, rd, mode, todo, rows, damaged, killed>>
\* copy_backup_to_output: beside the name, then published like a backup.
CopyOutput ==
  /\ pc = "copyout"
  /\ \/ ~output.exists /\ output' = store[id] /\ Goto("check") /\ UNCHANGED <<id, attempt, archive, wants, counts>>
     \/ output.exists /\ Ends /\ UNCHANGED <<output, counts>>
     \/ Trouble /\ Ends /\ UNCHANGED output
  /\ UNCHANGED <<live, store, tmp, scratch, reader, damaged, killed>>
\* The last look; the command reports the backup, or that it is damaged.
FinalCheck ==
  /\ pc = "check" /\ Ends
  /\ UNCHANGED <<live, disk, reader, damaged, killed, counts>>
\* Any other call fails: TmpCleanup removes what was begun.
CreateFails ==
  /\ pc \in {"zip", "static", "geo", "copy", "container", "verify", "link"} /\ Trouble
  /\ tmp' = (IF id \in Id THEN [tmp EXCEPT ![id] = NoLkb] ELSE tmp)
  /\ scratch' = scratch - (CASE pc = "zip" -> 0 [] pc = "static" -> 1 [] OTHER -> 2) /\ Ends
  /\ UNCHANGED <<live, store, output, reader, damaged, killed>>
\* The process is killed: what it has begun stays, and is never looked at again.
Killed ==
  /\ pc # "idle" /\ Trouble /\ killed' = TRUE /\ Ends
  /\ UNCHANGED <<live, disk, reader, damaged>>

\* backup delete.
DeleteBackup(i) ==
  /\ pc = "idle" /\ commands < MaxCommands /\ commands' = commands + 1
  /\ ValidateBackupFile(store[i])
  /\ store' = [store EXCEPT ![i] = NoLkb]
  /\ stayed' = stayed \ {i} /\ damaged' = damaged \ {i}
  /\ UNCHANGED <<live, tmp, scratch, output, cmd, rd, mode, todo, rows, killed, reads, trouble>>

-----------------------------------------------------------------------------
(* The readers.                                                            *)
\* backup list and the console's list: the names, then one file after the other.
BeginList(m) ==
  /\ rd = "idle" /\ reads < MaxReads /\ reads' = reads + 1
  /\ rd' = "list" /\ mode' = m
  /\ todo' = {i \in Id : store[i].exists} /\ stayed' = todo' /\ rows' = {}
  /\ UNCHANGED <<live, disk, cmd, damaged, killed, commands, trouble>>
EndRead == rd' = "idle" /\ mode' = "none" /\ todo' = {} /\ rows' = {} /\ stayed' = {}
\* A name that has gone before its file is looked at is left out; one that goes
\* between that look and the reading ends the whole list with an error.
ListOne ==
  /\ rd = "list"
  /\ \E i \in todo :
       /\ todo' = todo \ {i}
       /\ rows' = IF store[i].exists THEN rows \cup {<<i, Verdict(mode, store[i])>>} ELSE rows
  /\ UNCHANGED <<live, disk, cmd, rd, mode, stayed, damaged, killed, counts>>
ListFails ==
  /\ rd = "list" /\ \E i \in todo : ~store[i].exists
  /\ EndRead /\ UNCHANGED <<live, disk, cmd, damaged, killed, counts>>
ListEnds ==
  /\ rd = "list" /\ todo = {}
  /\ EndRead /\ UNCHANGED <<live, disk, cmd, damaged, killed, counts>>
\* show and verify read the file once and say what it is.
Inspect(m, i) ==
  /\ rd = "idle" /\ reads < MaxReads /\ reads' = reads + 1
  /\ store[i].exists
  /\ rd' = "told" /\ mode' = m /\ rows' = {<<i, Verdict(m, store[i])>>} /\ stayed' = {i}
  /\ UNCHANGED <<live, disk, cmd, todo, damaged, killed, commands, trouble>>
InspectEnds ==
  /\ rd = "told" /\ EndRead /\ UNCHANGED <<live, disk, cmd, damaged, killed, counts>>

\* The router writes its files.
RouterWrites ==
  /\ Trouble
  /\ live' \in {[live EXCEPT !.static = 3 - @], [live EXCEPT !.geo = 3 - @]}
  /\ UNCHANGED <<disk, cmd, reader, damaged, killed>>
\* Somebody damages a backup, or makes it readable for others.
Damage ==
  /\ Trouble
  /\ \E i \in {j \in Id : store[j].exists} :
       /\ store' \in {[store EXCEPT ![i].head = FALSE], [store EXCEPT ![i].body = NoArchive], [store EXCEPT ![i].strict = FALSE]}
       /\ damaged' = damaged \cup {i}
       /\ stayed' = stayed \ {i}
  /\ UNCHANGED <<live, tmp, scratch, output, cmd, rd, mode, todo, rows, killed>>

Init ==
  /\ live = [static |-> 1, geo |-> 1]
  /\ store = [i \in Id |-> NoLkb] /\ tmp = [i \in Id |-> NoLkb] /\ scratch = 0 /\ output = NoLkb
  /\ pc = "idle" /\ id = NoId /\ attempt = 0 /\ archive = NoArchive /\ wants = FALSE
  /\ rd = "idle" /\ mode = "none" /\ todo = {} /\ rows = {} /\ stayed = {}
  /\ damaged = {} /\ killed = FALSE /\ commands = 0 /\ reads = 0 /\ trouble = 0

Create == BeginCreate \/ PackStaticZip \/ AppendStatic \/ AppendHeader \/ AppendFile \/ WriteContainer
            \/ VerifyWritten \/ Link \/ Unlink \/ CopyOutput \/ FinalCheck
Read == ListOne \/ ListFails \/ ListEnds \/ InspectEnds
Next ==
  \/ Create \/ CreateFails \/ BadSector \/ Killed
  \/ \E i \in Id : DeleteBackup(i) \/ Inspect("show", i) \/ Inspect("verify", i)
  \/ BeginList("full") \/ BeginList("quick") \/ Read
  \/ RouterWrites \/ Damage

Spec == Init /\ [][Next]_vars

-----------------------------------------------------------------------------
(* Properties.                                                             *)

\* Types; no more identifiers are tried than allowed (BACKUP_ID_ATTEMPTS).
TypeOK ==
  /\ attempt \in 0..MaxAttempts
  /\ id \in Id \cup {NoId}
  /\ mode \in {"none", "full", "quick", "show", "verify"}
  /\ todo \subseteq Id /\ stayed \subseteq Id

\* A name in the store stands for a complete backup from the moment it appears,
\* whatever failed and whoever was killed: its checksum is right and, unless a file
\* was changed while it was copied, it can be unpacked (create_backup).
PublishedIsWhole ==
  \A i \in Id : (store[i].exists /\ i \notin damaged) =>
    VerifyLkb(store[i]) /\ (trouble = 0 => ExtractLkb(store[i]))

\* No backup and no output file is ever replaced by another one; it stays what it
\* is until it is deleted, whatever identifiers are drawn (publish_no_replace).
NeverReplaced ==
  [][/\ \A i \in Id : (store[i].exists /\ store'[i].exists /\ i \notin damaged') => store'[i] = store[i]
     /\ output.exists => output' = output]_vars

\* A create that reports success has left the backup it names, unless it was
\* damaged since, and its copy: nobody can delete it before the report.
ReportedIsThere ==
  pc = "check" => /\ store[id].exists
                  /\ wants => output.exists
                  /\ id \notin damaged => VerifyLkb(store[id]) /\ (wants => output = store[id])

\* Commands that failed leave nothing in backups/.tmp; only killed ones do.
NoLeftovers == (pc = "idle" /\ ~killed) => (scratch = 0 /\ \A i \in Id : ~tmp[i].exists)

\* A list that does not fail shows every backup that was there all the time, and
\* says valid of exactly those that can be unpacked; so does verify.  (The
\* console's list only looks at the header.)
ListIsTrue ==
  ((rd = "list" /\ todo = {}) \/ rd = "told") =>
    \A i \in stayed :
      /\ \E v \in BOOLEAN : <<i, v>> \in rows
      /\ mode \in {"full", "verify"} => (<<i, TRUE>> \in rows => ExtractLkb(store[i]))
      /\ <<i, FALSE>> \in rows => ~(ValidateBackupFile(store[i]) /\ ExtractLkb(store[i]))

\* A backup in the store is whole, the one create names is there, failures leave
\* nothing behind, and list and verify say what is true.
BackupsInvariant == TypeOK /\ PublishedIsWhole /\ ReportedIsThere /\ NoLeftovers /\ ListIsTrue
=============================================================================
