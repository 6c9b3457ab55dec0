----------------------------- MODULE HostProofs -----------------------------
(***************************************************************************)
(* Proofs about the parts of lkit that keep no transaction: Backups for    *)
(* any identifiers, commands, readers and troubles; Self for any releases, *)
(* pages, calls and mishaps; HostNet for any contents of the files, any    *)
(* selections, edits, errors and crashes.                                  *)
(***************************************************************************)
EXTENDS Host, Sequences, NaturalsInduction, WellFoundedInduction, TLAPS

-----------------------------------------------------------------------------
(* Backups: the state *)

Lives == [static : {1, 2}, geo : {1, 2}]
Archives == [zip : {0, 1, 2}, static : {0, 1, 2}, geo : {0, 1, 2}, whole : BOOLEAN]
Lkbs == [exists : BOOLEAN, head : BOOLEAN, sum : Archives, body : Archives, strict : BOOLEAN]
Named == {"verify", "link", "unlink", "copyout", "check"}
Pcs == {"idle", "zip", "static", "geo", "copy", "container"} \cup Named

Types ==
  /\ live \in Lives /\ archive \in Archives /\ output \in Lkbs
  /\ store \in [Id -> Lkbs] /\ tmp \in [Id -> Lkbs] /\ scratch \in Int
  /\ pc \in Pcs /\ attempt \in 0..MaxAttempts /\ id \in Id \cup {NoId}
  /\ pc \in Named => id \in Id
  /\ wants \in BOOLEAN /\ trouble \in Nat

(* What the command that holds the lock has made so far. *)
MadeInv ==
  /\ pc = "copy" /\ trouble = 0 => archive.geo = live.geo
  /\ pc \in {"container", "verify", "link"} /\ trouble = 0 => archive.whole
  /\ pc = "verify" => HeaderOk(tmp[id]) /\ tmp[id].sum = archive
  /\ pc \in {"link", "unlink"} => VerifyLkb(tmp[id])
  /\ pc = "link" => tmp[id].sum = archive
  /\ pc \in {"unlink", "copyout", "check"} => store[id].exists

(* What lies in backups/.tmp while no command has been killed. *)
Laid == CASE pc \in {"idle", "zip", "copyout", "check"} -> 0 [] pc = "static" -> 1 [] OTHER -> 2
TmpInv ==
  ~killed => /\ scratch = Laid
             /\ \A i \in Id : tmp[i].exists => i = id /\ pc \in {"verify", "link", "unlink"}

(* What a reader has said of backups nobody has touched since it began. *)
SaysGood(r, i) == <<i, TRUE>> \in r
SaysBad(r, i) == <<i, FALSE>> \in r
ReadInv ==
  /\ rd \in {"idle", "list", "told"}
  /\ mode \in {"none", "full", "quick", "show", "verify"}
  /\ todo \subseteq Id /\ stayed \subseteq Id
  /\ rd = "idle" => stayed = {}
  /\ \A i \in stayed :
       /\ store[i].exists
       /\ (rd = "list" /\ i \in todo) \/ SaysGood(rows, i) \/ SaysBad(rows, i)
       /\ SaysGood(rows, i) => Verdict(mode, store[i])
       /\ SaysBad(rows, i) => ~Verdict(mode, store[i])

BackupsInv == Types /\ MadeInv /\ TmpInv /\ ReadInv /\ PublishedIsWhole /\ ReportedIsThere

-----------------------------------------------------------------------------
(* Archives and files *)

LEMMA Blank ==
  /\ NoArchive \in Archives
  /\ NoLkb \in Lkbs /\ ~NoLkb.exists
  /\ FALSE \in BOOLEAN /\ TRUE \in BOOLEAN
<1>1. FALSE \in BOOLEAN /\ TRUE \in BOOLEAN
  OBVIOUS
<1>2. NoArchive \in Archives
  BY <1>1, Zenon DEF NoArchive, Archives
<1>3. NoLkb \in Lkbs /\ ~NoLkb.exists
  BY <1>1, <1>2, Zenon DEF NoLkb, Lkbs
<1> QED
  BY <1>1, <1>2, <1>3

LEMMA NewLkb ==
  ASSUME NEW a \in Archives, NEW f,
         f = [exists |-> TRUE, head |-> TRUE, sum |-> a, body |-> a, strict |-> TRUE]
  PROVE  f \in Lkbs /\ f.exists /\ f.head /\ f.sum = a /\ f.body = a
<1>1. FALSE \in BOOLEAN /\ TRUE \in BOOLEAN
  OBVIOUS
<1> QED
  BY <1>1, Zenon DEF Lkbs

LEMMA BodyLost ==
  ASSUME NEW f \in Lkbs, NEW g, g = [f EXCEPT !.body = NoArchive]
  PROVE  g \in Lkbs /\ g.exists = f.exists /\ g.head = f.head /\ g.sum = f.sum
  BY Blank DEF Lkbs
LEMMA HeadLost ==
  ASSUME NEW f \in Lkbs, NEW g, g = [f EXCEPT !.head = FALSE]
  PROVE  g \in Lkbs /\ g.exists = f.exists
  BY Blank DEF Lkbs
LEMMA Opened ==
  ASSUME NEW f \in Lkbs, NEW g, g = [f EXCEPT !.strict = FALSE]
  PROVE  g \in Lkbs /\ g.exists = f.exists
  BY Blank DEF Lkbs

LEMMA Zipped ==
  ASSUME NEW a \in Archives, NEW n \in {1, 2}, NEW b, b = [a EXCEPT !.zip = n]
  PROVE  b \in Archives
  BY DEF Archives
LEMMA Appended ==
  ASSUME NEW a \in Archives, NEW n \in {1, 2}, NEW b, b = [a EXCEPT !.static = n]
  PROVE  b \in Archives
  BY DEF Archives
LEMMA Headed ==
  ASSUME NEW a \in Archives, NEW n \in {1, 2}, NEW b, b = [a EXCEPT !.geo = n]
  PROVE  b \in Archives /\ b.geo = n
  BY DEF Archives
LEMMA Copied ==
  ASSUME NEW a \in Archives, NEW n \in {1, 2}, NEW w \in BOOLEAN, NEW b,
         b = [a EXCEPT !.geo = n, !.whole = w]
  PROVE  b \in Archives /\ b.whole = w
  BY DEF Archives

LEMMA VerdictSays ==
  ASSUME NEW m, NEW f
  PROVE  /\ m \in {"full", "verify"} /\ Verdict(m, f) => ExtractLkb(f)
         /\ ValidateBackupFile(f) /\ ExtractLkb(f) => Verdict(m, f)
<1>1. CASE m = "quick"
  BY <1>1 DEF Verdict, ExtractLkb, VerifyLkb
<1>2. CASE m = "show"
  BY <1>2 DEF Verdict, ExtractLkb
<1>3. CASE m \notin {"quick", "show"}
  BY <1>3 DEF Verdict
<1> QED
  BY <1>1, <1>2, <1>3

-----------------------------------------------------------------------------
(* What steps leave alone *)

LEMMA ReadKept ==
  ASSUME ReadInv, rd' = rd, mode' = mode, todo' = todo, rows' = rows, stayed' \subseteq stayed,
         \A i \in stayed' : store'[i] = store[i]
  PROVE  ReadInv'
<1>1. \A i \in stayed' : i \in stayed
  OBVIOUS
<1>2. \A i \in stayed' :
       /\ store'[i].exists
       /\ (rd' = "list" /\ i \in todo') \/ SaysGood(rows', i) \/ SaysBad(rows', i)
       /\ SaysGood(rows', i) => Verdict(mode', store'[i])
       /\ SaysBad(rows', i) => ~Verdict(mode', store'[i])
  BY <1>1 DEF ReadInv
<1> QED
  BY <1>2 DEF ReadInv, Verdict, ValidateBackupFile, HeaderOk, VerifyLkb, ExtractLkb

LEMMA PublishedKept ==
  ASSUME PublishedIsWhole, trouble' = 0 => trouble = 0,
         \A i \in Id : i \notin damaged' /\ store'[i].exists => i \notin damaged /\ store'[i] = store[i]
  PROVE  PublishedIsWhole'
  BY DEF PublishedIsWhole, VerifyLkb, ExtractLkb, HeaderOk

LEMMA ReadsOnly ==
  ASSUME BackupsInv, live' = live, store' = store, tmp' = tmp, scratch' = scratch,
         output' = output, pc' = pc, id' = id, attempt' = attempt, archive' = archive,
         wants' = wants, damaged' = damaged, killed' = killed, trouble' = trouble, ReadInv'
  PROVE  BackupsInv'
<1>1. Types' /\ MadeInv' /\ TmpInv'
  BY DEF BackupsInv, Types, MadeInv, TmpInv, Laid, HeaderOk, VerifyLkb
<1>2. PublishedIsWhole'
  BY PublishedKept DEF BackupsInv
<1>3. ReportedIsThere'
  BY DEF BackupsInv, ReportedIsThere, VerifyLkb, HeaderOk
<1> QED
  BY <1>1, <1>2, <1>3 DEF BackupsInv

LEMMA MakesOnly ==
  ASSUME BackupsInv, store' = store, damaged' = damaged, rd' = rd, mode' = mode, todo' = todo,
         rows' = rows, stayed' = stayed, trouble' \in {trouble, trouble + 1},
         Types', MadeInv', TmpInv', ReportedIsThere'
  PROVE  BackupsInv'
<1>1. ReadInv'
  BY ReadKept DEF BackupsInv
<1>2. trouble' = 0 => trouble = 0
  BY DEF BackupsInv, Types
<1>3. PublishedIsWhole'
  BY <1>2, PublishedKept DEF BackupsInv
<1> QED
  BY <1>1, <1>3 DEF BackupsInv

-----------------------------------------------------------------------------
(* backup create *)

LEMMA ArchiveKept ==
  ASSUME BackupsInv, BeginCreate \/ PackStaticZip \/ AppendStatic \/ AppendHeader
  PROVE  BackupsInv'
<1>t. /\ Types /\ MadeInv /\ TmpInv /\ live.static \in {1, 2} /\ live.geo \in {1, 2}
  BY DEF BackupsInv, Types, Lives
<1>f. /\ live' = live /\ store' = store /\ tmp' = tmp /\ output' = output /\ id' = id
      /\ attempt' = attempt /\ damaged' = damaged /\ killed' = killed /\ trouble' = trouble
      /\ rd' = rd /\ mode' = mode /\ todo' = todo /\ rows' = rows /\ stayed' = stayed
      /\ wants' \in BOOLEAN
  BY <1>t DEF BeginCreate, PackStaticZip, AppendStatic, AppendHeader, disk, reader, counts, Types
<1>1. /\ archive' \in Archives /\ (pc' = "copy" => archive'.geo = live'.geo)
      /\ pc' \in {"zip", "static", "geo", "copy"}
      /\ scratch' \in Int /\ (scratch = Laid => scratch' = Laid')
      /\ pc \notin {"verify", "link", "unlink"}
  <2>1. CASE BeginCreate
    BY <1>t, <2>1 DEF BeginCreate, Goto, disk, Types, Laid
  <2>2. CASE PackStaticZip
    BY <1>t, <2>2, Zipped DEF PackStaticZip, Goto, Types, Laid
  <2>3. CASE AppendStatic
    BY <1>t, <2>3, Appended DEF AppendStatic, Goto, Types, Laid
  <2>4. CASE AppendHeader
    BY <1>t, <2>4, Headed DEF AppendHeader, Goto, disk, Types, Laid
  <2> QED
    BY <2>1, <2>2, <2>3, <2>4
<1>2. Types'
  BY <1>1, <1>f, <1>t DEF Types, Pcs, Named
<1>3. MadeInv'
  BY <1>1, <1>f, <1>t DEF MadeInv
<1>4. TmpInv'
  BY <1>1, <1>f, <1>t DEF TmpInv
<1>5. ReportedIsThere'
  BY <1>1 DEF ReportedIsThere
<1> QED
  BY <1>2, <1>3, <1>4, <1>5, <1>f, MakesOnly

LEMMA AppendFileKept ==
  ASSUME BackupsInv, AppendFile
  PROVE  BackupsInv'
<1>t. /\ Types /\ MadeInv /\ TmpInv /\ live.geo \in {1, 2} /\ archive \in Archives
      /\ pc = "copy" /\ pc' = "container" /\ attempt' = 1 /\ 1 \in 0..MaxAttempts
  BY BackupBounds DEF BackupsInv, Types, Lives, AppendFile, Goto
<1>f. /\ live' = live /\ store' = store /\ tmp' = tmp /\ output' = output /\ id' = id
      /\ damaged' = damaged /\ killed' = killed /\ trouble' = trouble /\ wants' = wants
      /\ scratch' = scratch
      /\ rd' = rd /\ mode' = mode /\ todo' = todo /\ rows' = rows /\ stayed' = stayed
  BY DEF AppendFile, disk, reader, counts
<1> DEFINE w == archive.geo = live.geo
<1>1. archive' = [archive EXCEPT !.geo = live.geo, !.whole = w] /\ w \in BOOLEAN
  BY DEF AppendFile
<1>w. trouble = 0 => w
  BY <1>t DEF MadeInv
<1> HIDE DEF w
<1>2. archive' \in Archives /\ archive'.whole = w
  BY <1>1, <1>t, Copied
<1>3. Types'
  BY <1>2, <1>f, <1>t DEF Types, Pcs, Named
<1>4. MadeInv'
  BY <1>2, <1>w, <1>f, <1>t DEF MadeInv
<1>5. TmpInv'
  BY <1>f, <1>t DEF TmpInv, Laid
<1>6. ReportedIsThere'
  BY <1>t DEF ReportedIsThere
<1> QED
  BY <1>3, <1>4, <1>5, <1>6, <1>f, MakesOnly

LEMMA WriteContainerKept ==
  ASSUME BackupsInv, WriteContainer
  PROVE  BackupsInv'
<1>t. /\ Types /\ MadeInv /\ TmpInv /\ archive \in Archives
      /\ pc = "container" /\ pc' = "verify"
  BY DEF BackupsInv, Types, WriteContainer, Goto
<1>f. /\ live' = live /\ store' = store /\ output' = output /\ scratch' = scratch
      /\ attempt' = attempt /\ archive' = archive /\ wants' = wants
      /\ damaged' = damaged /\ killed' = killed /\ trouble' = trouble
      /\ rd' = rd /\ mode' = mode /\ todo' = todo /\ rows' = rows /\ stayed' = stayed
  BY DEF WriteContainer, reader, counts
<1> DEFINE f == [exists |-> TRUE, head |-> TRUE, sum |-> archive, body |-> archive, strict |-> TRUE]
<1>1. PICK i \in Id : id' = i /\ tmp' = [tmp EXCEPT ![i] = f]
  BY DEF WriteContainer
<1>2. f \in Lkbs /\ f.exists /\ f.head /\ f.sum = archive
  BY <1>t, NewLkb
<1> HIDE DEF f
<1>3. tmp' \in [Id -> Lkbs] /\ tmp'[i] = f /\ \A j \in Id \ {i} : tmp'[j] = tmp[j]
  BY <1>1, <1>2, <1>t DEF Types
<1>4. Types'
  BY <1>1, <1>3, <1>f, <1>t DEF Types, Pcs, Named
<1>5. MadeInv'
  BY <1>1, <1>2, <1>3, <1>f, <1>t DEF MadeInv, HeaderOk
<1>6. TmpInv'
  BY <1>1, <1>3, <1>f, <1>t DEF TmpInv, Laid
<1>7. ReportedIsThere'
  BY <1>t DEF ReportedIsThere
<1> QED
  BY <1>4, <1>5, <1>6, <1>7, <1>f, MakesOnly

(* A command that ends leaves nothing of itself in memory. *)
LEMMA EndsMade ==
  ASSUME Types, Ends, live' = live, output' = output, store' \in [Id -> Lkbs],
         tmp' \in [Id -> Lkbs], scratch' \in Int, trouble' \in Nat
  PROVE  Types' /\ MadeInv' /\ ReportedIsThere'
<1>0. 0 \in 0..MaxAttempts
  BY BackupBounds
<1>1. pc' = "idle" /\ id' = NoId /\ attempt' = 0 /\ archive' = NoArchive /\ wants' \in BOOLEAN
  BY Blank, Zenon DEF Ends
<1>2. Types'
  BY <1>0, <1>1, Blank DEF Types, Pcs, Named
<1> QED
  BY <1>1, <1>2 DEF MadeInv, ReportedIsThere

LEMMA Removed ==
  ASSUME Types, NEW i \in Id, tmp' = [tmp EXCEPT ![i] = NoLkb]
  PROVE  /\ tmp' \in [Id -> Lkbs] /\ ~tmp'[i].exists
         /\ \A j \in Id : tmp'[j].exists => j # i /\ tmp[j].exists
<1>1. tmp' \in [Id -> Lkbs] /\ tmp'[i] = NoLkb /\ \A j \in Id \ {i} : tmp'[j] = tmp[j]
  BY Blank DEF Types
<1> QED
  BY <1>1, Blank

LEMMA VerifyWrittenKept ==
  ASSUME BackupsInv, VerifyWritten
  PROVE  BackupsInv'
<1>t. /\ Types /\ MadeInv /\ TmpInv /\ pc = "verify" /\ id \in Id
  BY DEF BackupsInv, Types, VerifyWritten, Named
<1>f. /\ live' = live /\ store' = store /\ output' = output /\ damaged' = damaged
      /\ killed' = killed /\ trouble' = trouble
      /\ rd' = rd /\ mode' = mode /\ todo' = todo /\ rows' = rows /\ stayed' = stayed
  BY DEF VerifyWritten, reader, counts
<1>1. CASE VerifyLkb(tmp[id]) /\ pc' = "link" /\ UNCHANGED <<tmp, scratch, id, attempt, archive, wants>>
  <2>1. Types' /\ MadeInv' /\ TmpInv'
    BY <1>1, <1>f, <1>t DEF Types, MadeInv, TmpInv, Laid, Pcs, Named, VerifyLkb, HeaderOk
  <2>2. ReportedIsThere'
    BY <1>1 DEF ReportedIsThere
  <2> QED
    BY <2>1, <2>2, <1>f, MakesOnly
<1>2. CASE tmp' = [tmp EXCEPT ![id] = NoLkb] /\ scratch' = scratch - 2 /\ Ends
  <2>1. tmp' \in [Id -> Lkbs] /\ \A j \in Id : tmp'[j].exists => j # id /\ tmp[j].exists
    BY <1>2, <1>t, Removed
  <2>2. scratch' \in Int /\ store' \in [Id -> Lkbs] /\ trouble' \in Nat
    BY <1>2, <1>f, <1>t DEF Types
  <2>3. Types' /\ MadeInv' /\ ReportedIsThere'
    BY <1>2, <2>1, <2>2, <1>f, <1>t, EndsMade
  <2>4. TmpInv'
    BY <1>2, <2>1, <1>f, <1>t DEF TmpInv, Laid, Ends
  <2> QED
    BY <2>3, <2>4, <1>f, MakesOnly
<1> QED
  BY <1>1, <1>2 DEF VerifyWritten, Goto

LEMMA BadSectorKept ==
  ASSUME BackupsInv, BadSector
  PROVE  BackupsInv'
<1>t. /\ Types /\ MadeInv /\ TmpInv /\ pc = "verify" /\ id \in Id /\ trouble' = trouble + 1
  BY DEF BackupsInv, Types, BadSector, Named, Trouble
<1>f. /\ live' = live /\ store' = store /\ output' = output /\ damaged' = damaged
      /\ killed' = killed /\ scratch' = scratch /\ pc' = pc /\ id' = id /\ attempt' = attempt
      /\ archive' = archive /\ wants' = wants
      /\ rd' = rd /\ mode' = mode /\ todo' = todo /\ rows' = rows /\ stayed' = stayed
  BY DEF BadSector, reader, cmd
<1> DEFINE g == [tmp[id] EXCEPT !.body = NoArchive]
<1>1. tmp' = [tmp EXCEPT ![id] = g] /\ tmp[id] \in Lkbs
  BY <1>t DEF BadSector, Types
<1>2. g \in Lkbs /\ g.exists = tmp[id].exists /\ g.head = tmp[id].head /\ g.sum = tmp[id].sum
  BY <1>1, BodyLost
<1> HIDE DEF g
<1>3. tmp' \in [Id -> Lkbs] /\ tmp'[id] = g /\ \A j \in Id \ {id} : tmp'[j] = tmp[j]
  BY <1>1, <1>2, <1>t DEF Types
<1>4. Types'
  BY <1>3, <1>f, <1>t DEF Types, Pcs, Named
<1>5. MadeInv'
  BY <1>2, <1>3, <1>f, <1>t DEF MadeInv, HeaderOk, Types
<1>6. TmpInv'
  BY <1>3, <1>f, <1>t DEF TmpInv, Laid
<1>7. ReportedIsThere'
  BY <1>f, <1>t DEF ReportedIsThere
<1> QED
  BY <1>4, <1>5, <1>6, <1>7, <1>f, <1>t, MakesOnly

LEMMA LinkKept ==
  ASSUME BackupsInv, Link
  PROVE  BackupsInv'
<1>t. /\ Types /\ MadeInv /\ TmpInv /\ ReadInv /\ PublishedIsWhole /\ pc = "link" /\ id \in Id
      /\ tmp[id] \in Lkbs /\ VerifyLkb(tmp[id]) /\ tmp[id].sum = archive /\ trouble \in Nat
      /\ store \in [Id -> Lkbs]
  BY DEF BackupsInv, Types, Link, Named, MadeInv
<1>f. /\ live' = live /\ output' = output /\ damaged' = damaged
      /\ killed' = killed /\ trouble' = trouble
      /\ rd' = rd /\ mode' = mode /\ todo' = todo /\ rows' = rows /\ stayed' = stayed
  BY DEF Link, reader, counts
<1>1. CASE store[id].exists
  <2>1. tmp' = [tmp EXCEPT ![id] = NoLkb] /\ store' = store
    BY <1>1 DEF Link
  <2>2. tmp' \in [Id -> Lkbs] /\ \A j \in Id : tmp'[j].exists => j # id /\ tmp[j].exists
    BY <2>1, <1>t, Removed
  <2>3. CASE attempt < MaxAttempts
    <3>1. /\ attempt' = attempt + 1 /\ pc' = "container" /\ scratch' = scratch /\ id' = id
          /\ archive' = archive /\ wants' = wants
      BY <1>1, <2>3 DEF Link, Goto
    <3>2. attempt' \in 0..MaxAttempts
      BY <2>3, <3>1, <1>t, BackupBounds DEF Types
    <3>3. Types'
      BY <2>1, <2>2, <3>1, <3>2, <1>f, <1>t DEF Types, Pcs, Named
    <3>4. MadeInv' /\ TmpInv' /\ ReportedIsThere'
      BY <2>1, <2>2, <3>1, <1>f, <1>t DEF MadeInv, TmpInv, Laid, ReportedIsThere
    <3> QED
      BY <2>1, <3>3, <3>4, <1>f, MakesOnly
  <2>4. CASE ~(attempt < MaxAttempts)
    <3>1. scratch' = scratch - 2 /\ Ends
      BY <1>1, <2>4 DEF Link
    <3>2. scratch' \in Int /\ store' \in [Id -> Lkbs] /\ trouble' \in Nat
      BY <2>1, <3>1, <1>f, <1>t DEF Types
    <3>3. Types' /\ MadeInv' /\ ReportedIsThere'
      BY <2>2, <3>1, <3>2, <1>f, <1>t, EndsMade
    <3>4. TmpInv'
      BY <2>2, <3>1, <1>f, <1>t DEF TmpInv, Laid, Ends
    <3> QED
      BY <2>1, <3>3, <3>4, <1>f, MakesOnly
  <2> QED
    BY <2>3, <2>4
<1>2. CASE ~store[id].exists
  <2>1. /\ store' = [store EXCEPT ![id] = tmp[id]] /\ pc' = "unlink" /\ tmp' = tmp
        /\ scratch' = scratch /\ id' = id /\ attempt' = attempt /\ archive' = archive
        /\ wants' = wants
    BY <1>2 DEF Link, Goto
  <2>2. /\ store' \in [Id -> Lkbs] /\ store'[id] = tmp[id]
        /\ \A j \in Id \ {id} : store'[j] = store[j]
    BY <2>1, <1>t
  <2>3. Types'
    BY <2>1, <2>2, <1>f, <1>t DEF Types, Pcs, Named
  <2>4. MadeInv' /\ TmpInv' /\ ReportedIsThere'
    BY <2>1, <2>2, <1>f, <1>t DEF MadeInv, TmpInv, Laid, ReportedIsThere, VerifyLkb, HeaderOk
  <2>5. ReadInv'
    <3>1. \A i \in stayed' : i \in Id /\ i # id
      BY <1>2, <1>f, <1>t DEF ReadInv
    <3> QED
      BY <2>2, <3>1, <1>f, <1>t, ReadKept
  <2>6. PublishedIsWhole'
    <3>1. trouble = 0 => tmp[id].body.whole
      BY <1>t DEF MadeInv, VerifyLkb
    <3> QED
      BY <2>2, <3>1, <1>f, <1>t DEF PublishedIsWhole, VerifyLkb, HeaderOk, ExtractLkb
  <2> QED
    BY <2>3, <2>4, <2>5, <2>6 DEF BackupsInv
<1> QED
  BY <1>1, <1>2

LEMMA UnlinkKept ==
  ASSUME BackupsInv, Unlink
  PROVE  BackupsInv'
<1>t. /\ Types /\ MadeInv /\ TmpInv /\ ReadInv /\ PublishedIsWhole /\ pc = "unlink" /\ id \in Id
      /\ store[id].exists /\ store \in [Id -> Lkbs] /\ trouble \in Nat
  BY DEF BackupsInv, Types, Unlink, Named, MadeInv
<1>f. /\ live' = live /\ output' = output /\ damaged' = damaged /\ killed' = killed
      /\ scratch' = scratch - 2 /\ tmp' = [tmp EXCEPT ![id] = NoLkb]
      /\ rd' = rd /\ mode' = mode /\ todo' = todo /\ rows' = rows
  BY DEF Unlink
<1>g. scratch' \in Int
  BY <1>f, <1>t DEF Types
<1>r. tmp' \in [Id -> Lkbs] /\ \A j \in Id : tmp'[j].exists => j # id /\ tmp[j].exists
  BY <1>f, <1>t, Removed
<1>1. CASE /\ pc' = (IF wants THEN "copyout" ELSE "check")
           /\ UNCHANGED <<store, id, attempt, archive, wants, stayed, counts>>
  <2>0. pc' \in {"copyout", "check"} /\ (pc' = "check" => ~wants) /\ trouble' = trouble
    BY <1>1 DEF counts
  <2>1. Types'
    BY <1>1, <2>0, <1>r, <1>f, <1>g, <1>t DEF Types, Pcs, Named
  <2>2. MadeInv'
    BY <1>1, <2>0, <1>t DEF MadeInv
  <2>3. TmpInv'
    BY <1>1, <2>0, <1>r, <1>f, <1>t DEF TmpInv, Laid
  <2>4. ReportedIsThere'
    BY <1>1, <2>0, <1>f, <1>t DEF ReportedIsThere, PublishedIsWhole, VerifyLkb, HeaderOk
  <2> QED
    BY <1>1, <2>0, <2>1, <2>2, <2>3, <2>4, <1>f, MakesOnly
<1>2. CASE Trouble /\ store' = [store EXCEPT ![id] = NoLkb] /\ stayed' = stayed \ {id} /\ Ends
  <2>1. /\ store' \in [Id -> Lkbs] /\ store'[id] = NoLkb /\ \A j \in Id \ {id} : store'[j] = store[j]
        /\ trouble' = trouble + 1 /\ trouble' \in Nat /\ trouble' # 0
    BY <1>2, <1>t, Blank DEF Trouble
  <2>2. Types' /\ MadeInv' /\ ReportedIsThere'
    BY <1>2, <2>1, <1>r, <1>f, <1>g, <1>t, EndsMade
  <2>3. TmpInv'
    BY <1>2, <1>r, <1>f, <1>t DEF TmpInv, Laid, Ends
  <2>4. ReadInv'
    <3>1. \A i \in stayed' : i \in Id /\ i # id
      BY <1>2, <1>t DEF ReadInv
    <3> QED
      BY <1>2, <2>1, <3>1, <1>f, <1>t, ReadKept
  <2>5. PublishedIsWhole'
    BY <2>1, <1>f, <1>t, PublishedKept, Blank
  <2> QED
    BY <2>2, <2>3, <2>4, <2>5 DEF BackupsInv
<1> QED
  BY <1>1, <1>2 DEF Unlink, Goto

LEMMA CopyOutputKept ==
  ASSUME BackupsInv, CopyOutput
  PROVE  BackupsInv'
<1>t. /\ Types /\ MadeInv /\ TmpInv /\ PublishedIsWhole /\ pc = "copyout" /\ id \in Id
      /\ store[id].exists /\ store \in [Id -> Lkbs] /\ store[id] \in Lkbs /\ trouble \in Nat
  BY DEF BackupsInv, Types, CopyOutput, Named, MadeInv
<1>f. /\ live' = live /\ store' = store /\ tmp' = tmp /\ scratch' = scratch
      /\ damaged' = damaged /\ killed' = killed
      /\ rd' = rd /\ mode' = mode /\ todo' = todo /\ rows' = rows /\ stayed' = stayed
  BY DEF CopyOutput, reader
<1>1. CASE /\ output' = store[id] /\ pc' = "check" /\ UNCHANGED <<id, attempt, archive, wants, counts>>
  <2>0. trouble' = trouble
    BY <1>1 DEF counts
  <2>1. Types' /\ MadeInv'
    BY <1>1, <2>0, <1>f, <1>t DEF Types, MadeInv, Pcs, Named
  <2>2. TmpInv'
    BY <1>1, <1>f, <1>t DEF TmpInv, Laid
  <2>3. ReportedIsThere'
    BY <1>1, <1>f, <1>t DEF ReportedIsThere, PublishedIsWhole, VerifyLkb, HeaderOk
  <2> QED
    BY <2>0, <2>1, <2>2, <2>3, <1>f, MakesOnly
<1>2. CASE Ends /\ output' = output /\ trouble' \in {trouble, trouble + 1}
  <2>1. tmp' \in [Id -> Lkbs] /\ store' \in [Id -> Lkbs] /\ scratch' \in Int /\ trouble' \in Nat
    BY <1>2, <1>f, <1>t DEF Types
  <2>2. Types' /\ MadeInv' /\ ReportedIsThere'
    BY <1>2, <2>1, <1>f, <1>t, EndsMade
  <2>3. TmpInv'
    BY <1>2, <1>f, <1>t DEF TmpInv, Laid, Ends
  <2> QED
    BY <1>2, <2>2, <2>3, <1>f, MakesOnly
<1> QED
  BY <1>1, <1>2 DEF CopyOutput, Goto, Trouble, counts

LEMMA FinalCheckKept ==
  ASSUME BackupsInv, FinalCheck
  PROVE  BackupsInv'
<1>f. /\ live' = live /\ store' = store /\ tmp' = tmp /\ scratch' = scratch /\ output' = output
      /\ damaged' = damaged /\ killed' = killed /\ trouble' = trouble /\ Ends /\ pc = "check"
      /\ rd' = rd /\ mode' = mode /\ todo' = todo /\ rows' = rows /\ stayed' = stayed
  BY DEF FinalCheck, reader, disk, counts
<1>1. Types /\ tmp' \in [Id -> Lkbs] /\ store' \in [Id -> Lkbs] /\ scratch' \in Int /\ trouble' \in Nat
  BY <1>f DEF BackupsInv, Types
<1>2. Types' /\ MadeInv' /\ ReportedIsThere'
  BY <1>1, <1>f, EndsMade
<1>3. TmpInv'
  BY <1>f DEF BackupsInv, TmpInv, Laid, Ends
<1> QED
  BY <1>2, <1>3, <1>f, MakesOnly

LEMMA CreateFailsKept ==
  ASSUME BackupsInv, CreateFails
  PROVE  BackupsInv'
<1>t. /\ Types /\ TmpInv /\ trouble \in Nat /\ tmp \in [Id -> Lkbs]
      /\ pc \in {"zip", "static", "geo", "copy", "container", "verify", "link"}
  BY DEF BackupsInv, Types, CreateFails
<1> DEFINE n == CASE pc = "zip" -> 0 [] pc = "static" -> 1 [] OTHER -> 2
<1>f. /\ live' = live /\ store' = store /\ output' = output /\ damaged' = damaged
      /\ killed' = killed /\ trouble' = trouble + 1 /\ Ends /\ scratch' = scratch - n
      /\ tmp' = (IF id \in Id THEN [tmp EXCEPT ![id] = NoLkb] ELSE tmp)
      /\ rd' = rd /\ mode' = mode /\ todo' = todo /\ rows' = rows /\ stayed' = stayed
  BY DEF CreateFails, reader, Trouble
<1>n. n \in Int /\ n = Laid
  BY <1>t DEF Laid
<1> HIDE DEF n
<1>1. tmp' \in [Id -> Lkbs] /\ \A j \in Id : tmp'[j].exists => j # id /\ tmp[j].exists
  <2>1. CASE id \in Id
    BY <2>1, <1>f, <1>t, Removed
  <2>2. CASE id \notin Id
    BY <2>2, <1>f, <1>t
  <2> QED
    BY <2>1, <2>2
<1>2. store' \in [Id -> Lkbs] /\ scratch' \in Int /\ trouble' \in Nat
  BY <1>n, <1>f, <1>t DEF Types
<1>3. Types' /\ MadeInv' /\ ReportedIsThere'
  BY <1>1, <1>2, <1>f, <1>t, EndsMade
<1>4. TmpInv'
  <2>1. Laid' = 0
    BY <1>f DEF Laid, Ends
  <2>2. ~killed => scratch' = 0
    BY <1>n, <1>f, <1>t DEF TmpInv
  <2> QED
    BY <1>1, <2>1, <2>2, <1>f, <1>t DEF TmpInv
<1> QED
  BY <1>3, <1>4, <1>f, MakesOnly

LEMMA KilledKept ==
  ASSUME BackupsInv, Killed
  PROVE  BackupsInv'
<1>f. /\ live' = live /\ store' = store /\ tmp' = tmp /\ scratch' = scratch /\ output' = output
      /\ damaged' = damaged /\ killed' = TRUE /\ trouble' = trouble + 1 /\ Ends
      /\ rd' = rd /\ mode' = mode /\ todo' = todo /\ rows' = rows /\ stayed' = stayed
  BY DEF Killed, reader, disk, Trouble
<1>1. Types /\ tmp' \in [Id -> Lkbs] /\ store' \in [Id -> Lkbs] /\ scratch' \in Int /\ trouble' \in Nat
  BY <1>f DEF BackupsInv, Types
<1>2. Types' /\ MadeInv' /\ ReportedIsThere'
  BY <1>1, <1>f, EndsMade
<1>3. TmpInv'
  BY <1>f DEF TmpInv
<1> QED
  BY <1>2, <1>3, <1>f, MakesOnly

-----------------------------------------------------------------------------
(* Deletion, damage, the router's own writes *)

LEMMA DeleteBackupKept ==
  ASSUME BackupsInv, NEW i \in Id, DeleteBackup(i)
  PROVE  BackupsInv'
<1>t. Types /\ MadeInv /\ TmpInv /\ ReadInv /\ PublishedIsWhole /\ pc = "idle"
  BY DEF BackupsInv, DeleteBackup
<1>f. /\ live' = live /\ tmp' = tmp /\ scratch' = scratch /\ output' = output
      /\ pc' = pc /\ id' = id /\ attempt' = attempt /\ archive' = archive /\ wants' = wants
      /\ killed' = killed /\ trouble' = trouble /\ damaged' = damaged \ {i}
      /\ rd' = rd /\ mode' = mode /\ todo' = todo /\ rows' = rows /\ stayed' = stayed \ {i}
      /\ store' = [store EXCEPT ![i] = NoLkb]
  BY DEF DeleteBackup, cmd
<1>1. /\ store' \in [Id -> Lkbs] /\ store'[i] = NoLkb /\ ~store'[i].exists
      /\ \A j \in Id \ {i} : store'[j] = store[j]
  BY <1>f, <1>t, Blank DEF Types
<1>2. Types'
  BY <1>1, <1>f, <1>t DEF Types, Named
<1>3. MadeInv' /\ TmpInv' /\ ReportedIsThere'
  BY <1>f, <1>t DEF MadeInv, TmpInv, Laid, ReportedIsThere
<1>4. ReadInv'
  <2>1. \A j \in stayed' : j \in Id /\ j # i
    BY <1>f, <1>t DEF ReadInv
  <2> QED
    BY <1>1, <2>1, <1>f, <1>t, ReadKept
<1>5. PublishedIsWhole'
  BY <1>1, <1>f, <1>t, PublishedKept
<1> QED
  BY <1>2, <1>3, <1>4, <1>5 DEF BackupsInv

LEMMA RouterWritesKept ==
  ASSUME BackupsInv, RouterWrites
  PROVE  BackupsInv'
<1>t. Types /\ MadeInv /\ TmpInv /\ trouble \in Nat
  BY DEF BackupsInv, Types
<1>f. /\ store' = store /\ tmp' = tmp /\ scratch' = scratch /\ output' = output
      /\ pc' = pc /\ id' = id /\ attempt' = attempt /\ archive' = archive /\ wants' = wants
      /\ damaged' = damaged /\ killed' = killed /\ trouble' = trouble + 1
      /\ rd' = rd /\ mode' = mode /\ todo' = todo /\ rows' = rows /\ stayed' = stayed
  BY DEF RouterWrites, disk, cmd, reader, Trouble
<1>1. live' \in Lives
  <2>1. live \in Lives
    BY <1>t DEF Types
  <2>2. \A x \in {1, 2} : 3 - x \in {1, 2}
    OBVIOUS
  <2>3. live.static \in {1, 2} /\ live.geo \in {1, 2}
    BY <2>1 DEF Lives
  <2>4. CASE live' = [live EXCEPT !.static = 3 - @]
    BY <2>1, <2>2, <2>3, <2>4 DEF Lives
  <2>5. CASE live' = [live EXCEPT !.geo = 3 - @]
    BY <2>1, <2>2, <2>3, <2>5 DEF Lives
  <2> QED
    BY <2>4, <2>5 DEF RouterWrites
<1>2. Types'
  BY <1>1, <1>f, <1>t DEF Types
<1>3. MadeInv' /\ TmpInv'
  BY <1>f, <1>t DEF MadeInv, TmpInv, Laid, VerifyLkb, HeaderOk
<1>4. ReportedIsThere'
  BY <1>f DEF BackupsInv, ReportedIsThere, VerifyLkb, HeaderOk
<1> QED
  BY <1>2, <1>3, <1>4, <1>f, MakesOnly

LEMMA DamageKept ==
  ASSUME BackupsInv, Damage
  PROVE  BackupsInv'
<1>t. /\ Types /\ MadeInv /\ TmpInv /\ ReadInv /\ PublishedIsWhole /\ ReportedIsThere
      /\ trouble \in Nat /\ store \in [Id -> Lkbs]
  BY DEF BackupsInv, Types
<1>1. PICK i \in Id :
        /\ store[i].exists
        /\ store' \in {[store EXCEPT ![i].head = FALSE], [store EXCEPT ![i].body = NoArchive],
                       [store EXCEPT ![i].strict = FALSE]}
        /\ damaged' = damaged \cup {i} /\ stayed' = stayed \ {i}
  BY DEF Damage
<1>f. /\ live' = live /\ tmp' = tmp /\ scratch' = scratch /\ output' = output
      /\ pc' = pc /\ id' = id /\ attempt' = attempt /\ archive' = archive /\ wants' = wants
      /\ killed' = killed /\ trouble' = trouble + 1
      /\ rd' = rd /\ mode' = mode /\ todo' = todo /\ rows' = rows
  BY DEF Damage, cmd, Trouble
<1>2. PICK g : store' = [store EXCEPT ![i] = g] /\ g \in Lkbs /\ g.exists = store[i].exists
  <2>0. store[i] \in Lkbs
    BY <1>t
  <2>1. CASE store' = [store EXCEPT ![i].head = FALSE]
    <3> DEFINE h == [store[i] EXCEPT !.head = FALSE]
    <3>1. h \in Lkbs /\ h.exists = store[i].exists
      BY <2>0, HeadLost
    <3>2. store' = [store EXCEPT ![i] = h]
      BY <2>1, <1>t
    <3> QED
      BY <3>1, <3>2
  <2>2. CASE store' = [store EXCEPT ![i].body = NoArchive]
    <3> DEFINE h == [store[i] EXCEPT !.body = NoArchive]
    <3>1. h \in Lkbs /\ h.exists = store[i].exists
      BY <2>0, BodyLost
    <3>2. store' = [store EXCEPT ![i] = h]
      BY <2>2, <1>t
    <3> QED
      BY <3>1, <3>2
  <2>3. CASE store' = [store EXCEPT ![i].strict = FALSE]
    <3> DEFINE h == [store[i] EXCEPT !.strict = FALSE]
    <3>1. h \in Lkbs /\ h.exists = store[i].exists
      BY <2>0, Opened
    <3>2. store' = [store EXCEPT ![i] = h]
      BY <2>3, <1>t
    <3> QED
      BY <3>1, <3>2
  <2> QED
    BY <1>1, <2>1, <2>2, <2>3
<1>3. /\ store' \in [Id -> Lkbs] /\ store'[i].exists /\ \A j \in Id \ {i} : store'[j] = store[j]
  BY <1>1, <1>2, <1>t
<1>4. Types'
  BY <1>3, <1>f, <1>t DEF Types
<1>5. MadeInv' /\ TmpInv'
  BY <1>3, <1>f, <1>t DEF MadeInv, TmpInv, Laid, VerifyLkb, HeaderOk, Types, Named
<1>6. ReportedIsThere'
  BY <1>1, <1>3, <1>f, <1>t DEF ReportedIsThere, VerifyLkb, HeaderOk, Types, Named
<1>7. ReadInv'
  <2>1. \A j \in stayed' : j \in Id /\ j # i
    BY <1>1, <1>t DEF ReadInv
  <2> QED
    BY <1>1, <1>3, <2>1, <1>f, <1>t, ReadKept
<1>8. PublishedIsWhole'
  BY <1>1, <1>3, <1>f, <1>t, PublishedKept
<1> QED
  BY <1>4, <1>5, <1>6, <1>7, <1>8 DEF BackupsInv

-----------------------------------------------------------------------------
(* The readers *)

LEMMA RowAdded ==
  ASSUME NEW r, NEW i, NEW j
  PROVE  /\ SaysGood(r \cup {<<i, TRUE>>}, j) <=> SaysGood(r, j) \/ j = i
         /\ SaysBad(r \cup {<<i, TRUE>>}, j) <=> SaysBad(r, j)
         /\ SaysGood(r \cup {<<i, FALSE>>}, j) <=> SaysGood(r, j)
         /\ SaysBad(r \cup {<<i, FALSE>>}, j) <=> SaysBad(r, j) \/ j = i
<1>1. /\ <<j, TRUE>> = <<i, TRUE>> <=> j = i
      /\ <<j, FALSE>> = <<i, FALSE>> <=> j = i
      /\ <<j, FALSE>> # <<i, TRUE>> /\ <<j, TRUE>> # <<i, FALSE>>
  BY Zenon
<1> QED
  BY <1>1, Zenon DEF SaysGood, SaysBad

LEMMA VerdictIs ==
  ASSUME NEW m, NEW f
  PROVE  /\ Verdict(m, f) => Verdict(m, f) = TRUE
         /\ ~Verdict(m, f) => Verdict(m, f) = FALSE
  BY Zenon DEF Verdict

LEMMA NoRows ==
  ASSUME NEW i
  PROVE  ~SaysGood({}, i) /\ ~SaysBad({}, i)
  BY DEF SaysGood, SaysBad

LEMMA ReaderKept ==
  ASSUME BackupsInv,
         Read \/ BeginList("full") \/ BeginList("quick")
           \/ \E i \in Id : Inspect("show", i) \/ Inspect("verify", i)
  PROVE  BackupsInv'
<1>t. /\ ReadInv /\ todo \subseteq Id /\ stayed \subseteq Id
      /\ mode \in {"none", "full", "quick", "show", "verify"}
  BY DEF BackupsInv, ReadInv
<1>f. /\ live' = live /\ store' = store /\ tmp' = tmp /\ scratch' = scratch /\ output' = output
      /\ pc' = pc /\ id' = id /\ attempt' = attempt /\ archive' = archive /\ wants' = wants
      /\ damaged' = damaged /\ killed' = killed /\ trouble' = trouble
  BY DEF Read, BeginList, Inspect, ListOne, ListFails, ListEnds, InspectEnds, disk, cmd, counts
<1> DEFINE Told(i) ==
      /\ store[i].exists
      /\ (rd' = "list" /\ i \in todo') \/ SaysGood(rows', i) \/ SaysBad(rows', i)
      /\ SaysGood(rows', i) => Verdict(mode', store[i])
      /\ SaysBad(rows', i) => ~Verdict(mode', store[i])
<1>s. ASSUME rd' \in {"idle", "list", "told"}, todo' \subseteq Id, stayed' \subseteq Id,
             mode' \in {"none", "full", "quick", "show", "verify"},
             rd' = "idle" => stayed' = {}, \A i \in stayed' : Told(i)
      PROVE  ReadInv'
  BY <1>s, <1>f DEF ReadInv, Verdict, ValidateBackupFile, HeaderOk, VerifyLkb, ExtractLkb
<1>1. ASSUME NEW m \in {"full", "quick"}, BeginList(m) PROVE ReadInv'
  <2>1. /\ rd' = "list" /\ mode' = m /\ stayed' = todo' /\ rows' = {}
        /\ todo' = {i \in Id : store[i].exists}
    BY <1>1 DEF BeginList
  <2>2. \A i \in stayed' : Told(i)
    BY <2>1, NoRows
  <2> QED
    BY <2>1, <2>2, <1>s
<1>2. ASSUME ListOne PROVE ReadInv'
  <2>0. /\ rd' = rd /\ mode' = mode /\ stayed' = stayed /\ rd = "list"
    BY <1>2 DEF ListOne
  <2>1. PICK i \in todo :
          /\ todo' = todo \ {i}
          /\ rows' = IF store[i].exists THEN rows \cup {<<i, Verdict(mode, store[i])>>} ELSE rows
    BY <1>2 DEF ListOne
  <2>2. CASE ~store[i].exists
    <3>1. i \notin stayed /\ rows' = rows
      BY <2>1, <2>2, <1>t DEF ReadInv
    <3>2. \A j \in stayed' : Told(j)
      BY <2>0, <2>1, <3>1, <1>t DEF ReadInv
    <3> QED
      BY <2>0, <2>1, <3>2, <1>s, <1>t
  <2>3. CASE store[i].exists /\ Verdict(mode, store[i])
    <3>1. rows' = rows \cup {<<i, TRUE>>}
      BY <2>1, <2>3, VerdictIs, Zenon
    <3>2. \A j : /\ SaysGood(rows', j) <=> SaysGood(rows, j) \/ j = i
                 /\ SaysBad(rows', j) <=> SaysBad(rows, j)
      BY <3>1, RowAdded
    <3>3. \A j \in stayed' : Told(j)
      BY <2>0, <2>1, <2>3, <3>2, <1>t DEF ReadInv
    <3> QED
      BY <2>0, <2>1, <3>3, <1>s, <1>t
  <2>4. CASE store[i].exists /\ ~Verdict(mode, store[i])
    <3>1. rows' = rows \cup {<<i, FALSE>>}
      BY <2>1, <2>4, VerdictIs, Zenon
    <3>2. \A j : /\ SaysGood(rows', j) <=> SaysGood(rows, j)
                 /\ SaysBad(rows', j) <=> SaysBad(rows, j) \/ j = i
      BY <3>1, RowAdded
    <3>3. \A j \in stayed' : Told(j)
      BY <2>0, <2>1, <2>4, <3>2, <1>t DEF ReadInv
    <3> QED
      BY <2>0, <2>1, <3>3, <1>s, <1>t
  <2> QED
    BY <2>2, <2>3, <2>4
<1>3. ASSUME ListFails \/ ListEnds \/ InspectEnds PROVE ReadInv'
  BY <1>3 DEF ListFails, ListEnds, InspectEnds, EndRead, ReadInv
<1>4. ASSUME NEW m \in {"show", "verify"}, NEW i \in Id, Inspect(m, i) PROVE ReadInv'
  <2>0. /\ rd' = "told" /\ mode' = m /\ stayed' = {i} /\ todo' = todo /\ store[i].exists
        /\ rows' = {<<i, Verdict(m, store[i])>>}
    BY <1>4 DEF Inspect
  <2>1. CASE Verdict(m, store[i])
    <3>1. rows' = {} \cup {<<i, TRUE>>}
      BY <2>0, <2>1, VerdictIs, Zenon
    <3>2. SaysGood(rows', i) /\ ~SaysBad(rows', i)
      BY <3>1, RowAdded, NoRows
    <3>3. \A j \in stayed' : Told(j)
      BY <2>0, <2>1, <3>2
    <3> QED
      BY <2>0, <3>3, <1>s, <1>t
  <2>2. CASE ~Verdict(m, store[i])
    <3>1. rows' = {} \cup {<<i, FALSE>>}
      BY <2>0, <2>2, VerdictIs, Zenon
    <3>2. SaysBad(rows', i) /\ ~SaysGood(rows', i)
      BY <3>1, RowAdded, NoRows
    <3>3. \A j \in stayed' : Told(j)
      BY <2>0, <2>2, <3>2
    <3> QED
      BY <2>0, <3>3, <1>s, <1>t
  <2> QED
    BY <2>1, <2>2
<1>5. ReadInv'
  BY <1>1, <1>2, <1>3, <1>4 DEF Read
<1> QED
  BY <1>5, <1>f, ReadsOnly

-----------------------------------------------------------------------------
(* The theorems *)

LEMMA BackupsInvStarts ==
  ASSUME Init
  PROVE  BackupsInv
<1>0. 0 \in 0..MaxAttempts
  BY BackupBounds
<1>1. live \in Lives
  BY DEF Init, Lives
<1>2. wants \in BOOLEAN
  BY Blank, Zenon DEF Init
<1>3. store \in [Id -> Lkbs] /\ tmp \in [Id -> Lkbs] /\ \A i \in Id : ~store[i].exists /\ ~tmp[i].exists
  BY Blank DEF Init
<1>4. Types
  BY <1>0, <1>1, <1>2, <1>3, Blank DEF Init, Types, Pcs, Named
<1>5. MadeInv /\ TmpInv /\ ReportedIsThere
  BY <1>3 DEF Init, MadeInv, TmpInv, Laid, ReportedIsThere
<1>6. ReadInv
  BY DEF Init, ReadInv
<1>7. PublishedIsWhole
  BY <1>3 DEF PublishedIsWhole
<1> QED
  BY <1>4, <1>5, <1>6, <1>7 DEF BackupsInv

LEMMA BackupsInvKept ==
  ASSUME BackupsInv, [Next]_vars
  PROVE  BackupsInv'
<1>1. CASE Create
  BY <1>1, ArchiveKept, AppendFileKept, WriteContainerKept, VerifyWrittenKept, LinkKept,
     UnlinkKept, CopyOutputKept, FinalCheckKept DEF Create
<1>2. CASE CreateFails \/ BadSector \/ Killed
  BY <1>2, CreateFailsKept, BadSectorKept, KilledKept
<1>3. CASE \E i \in Id : DeleteBackup(i)
  BY <1>3, DeleteBackupKept
<1>4. CASE Read \/ BeginList("full") \/ BeginList("quick")
             \/ \E i \in Id : Inspect("show", i) \/ Inspect("verify", i)
  BY <1>4, ReaderKept
<1>5. CASE RouterWrites \/ Damage
  BY <1>5, RouterWritesKept, DamageKept
<1>6. CASE UNCHANGED vars
  <2>1. /\ live' = live /\ store' = store /\ tmp' = tmp /\ scratch' = scratch /\ output' = output
        /\ pc' = pc /\ id' = id /\ attempt' = attempt /\ archive' = archive /\ wants' = wants
        /\ damaged' = damaged /\ killed' = killed /\ trouble' = trouble
        /\ rd' = rd /\ mode' = mode /\ todo' = todo /\ rows' = rows /\ stayed' = stayed
    BY <1>6 DEF vars, disk, cmd, reader, counts
  <2>2. ReadInv'
    BY <2>1, ReadKept DEF BackupsInv
  <2> QED
    BY <2>1, <2>2, ReadsOnly
<1> QED
  BY <1>1, <1>2, <1>3, <1>4, <1>5, <1>6 DEF Next

(* The inductive invariant: what the command that holds the lock has made,   *)
(* what lies in backups/.tmp, and what readers have said (create_backup).    *)
THEOREM BackupsInductive == Spec => []BackupsInv
<1>1. Init => BackupsInv
  BY BackupsInvStarts
<1>2. BackupsInv /\ [Next]_vars => BackupsInv'
  BY BackupsInvKept
<1> QED
  BY <1>1, <1>2, PTL DEF Spec

(* Whatever fails, is killed or damaged, for any identifiers, commands and   *)
(* readers: a name in the store stands for a complete backup, create has     *)
(* left the one it names, failed commands leave nothing in backups/.tmp, and *)
(* list and verify say what is true of the backups nobody touched meanwhile  *)
(* (create_backup, publish_no_replace, TmpCleanup, read_verified).           *)
THEOREM BackupsHold == Spec => []BackupsInvariant
<1>1. ASSUME BackupsInv PROVE BackupsInvariant
  <2>1. TypeOK
    BY <1>1 DEF BackupsInv, Types, ReadInv, TypeOK
  <2>2. NoLeftovers
    BY <1>1 DEF BackupsInv, TmpInv, Laid, NoLeftovers
  <2>3. ListIsTrue
    <3>1. SUFFICES ASSUME (rd = "list" /\ todo = {}) \/ rd = "told", NEW i \in stayed
                   PROVE  /\ \E v \in BOOLEAN : <<i, v>> \in rows
                          /\ mode \in {"full", "verify"} => (<<i, TRUE>> \in rows => ExtractLkb(store[i]))
                          /\ <<i, FALSE>> \in rows => ~(ValidateBackupFile(store[i]) /\ ExtractLkb(store[i]))
      BY DEF ListIsTrue
    <3>2. /\ SaysGood(rows, i) \/ SaysBad(rows, i)
          /\ SaysGood(rows, i) => Verdict(mode, store[i])
          /\ SaysBad(rows, i) => ~Verdict(mode, store[i])
      BY <1>1, <3>1 DEF BackupsInv, ReadInv
    <3>3. \E v \in BOOLEAN : <<i, v>> \in rows
      BY <3>2, Blank, Zenon DEF SaysGood, SaysBad
    <3>4. mode \in {"full", "verify"} => (<<i, TRUE>> \in rows => ExtractLkb(store[i]))
      BY <3>2, VerdictSays, Zenon DEF SaysGood
    <3>5. <<i, FALSE>> \in rows => ~(ValidateBackupFile(store[i]) /\ ExtractLkb(store[i]))
      BY <3>2, VerdictSays, Zenon DEF SaysBad
    <3> QED
      BY <3>3, <3>4, <3>5
  <2> QED
    BY <1>1, <2>1, <2>2, <2>3 DEF BackupsInv, BackupsInvariant
<1> QED
  BY <1>1, BackupsInductive, PTL

LEMMA StoreChanges ==
  ASSUME BackupsInv, [Next]_vars
  PROVE  \/ store' = store
         \/ pc = "link" /\ ~store[id].exists /\ store' = [store EXCEPT ![id] = tmp[id]]
         \/ \E i \in Id : store' = [store EXCEPT ![i] = NoLkb]
         \/ \E i \in Id : /\ i \in damaged' /\ \A j \in Id \ {i} : store'[j] = store[j]
<1>t. Types
  BY DEF BackupsInv
<1>1. CASE Link
  BY <1>1 DEF Link
<1>2. CASE Unlink
  BY <1>2, <1>t DEF Unlink, Types, Named
<1>3. CASE \E i \in Id : DeleteBackup(i)
  BY <1>3 DEF DeleteBackup
<1>4. CASE Damage
  BY <1>4, <1>t DEF Damage, Types
<1>5. CASE Create /\ ~Link /\ ~Unlink
  BY <1>5 DEF Create, BeginCreate, PackStaticZip, AppendStatic, AppendHeader, AppendFile,
              WriteContainer, VerifyWritten, CopyOutput, FinalCheck, disk
<1>6. CASE CreateFails \/ BadSector \/ Killed \/ RouterWrites \/ UNCHANGED vars
  BY <1>6 DEF CreateFails, BadSector, Killed, RouterWrites, vars, disk
<1>7. CASE Read \/ BeginList("full") \/ BeginList("quick")
             \/ \E i \in Id : Inspect("show", i) \/ Inspect("verify", i)
  BY <1>7 DEF Read, BeginList, Inspect, ListOne, ListFails, ListEnds, InspectEnds, disk
<1> QED
  BY <1>1, <1>2, <1>3, <1>4, <1>5, <1>6, <1>7 DEF Next

LEMMA OutputChanges ==
  ASSUME [Next]_vars, output.exists
  PROVE  output' = output
<1>1. CASE CopyOutput
  BY <1>1 DEF CopyOutput
<1>2. CASE Create /\ ~CopyOutput
  BY <1>2 DEF Create, BeginCreate, PackStaticZip, AppendStatic, AppendHeader, AppendFile,
              WriteContainer, VerifyWritten, Link, Unlink, FinalCheck, disk
<1>3. CASE CreateFails \/ BadSector \/ Killed \/ RouterWrites \/ Damage \/ UNCHANGED vars
  BY <1>3 DEF CreateFails, BadSector, Killed, RouterWrites, Damage, vars, disk
<1>4. CASE Read \/ BeginList("full") \/ BeginList("quick")
             \/ \E i \in Id : Inspect("show", i) \/ Inspect("verify", i) \/ DeleteBackup(i)
  BY <1>4 DEF Read, BeginList, Inspect, ListOne, ListFails, ListEnds, InspectEnds, DeleteBackup, disk
<1> QED
  BY <1>1, <1>2, <1>3, <1>4 DEF Next

(* No backup and no output file is ever replaced by another one, whatever    *)
(* identifiers are drawn and whoever reads, deletes or dies meanwhile        *)
(* (publish_no_replace).                                                     *)
THEOREM BackupsNeverReplaced == Spec => NeverReplaced
<1>1. ASSUME BackupsInv, [Next]_vars
      PROVE  /\ \A i \in Id : (store[i].exists /\ store'[i].exists /\ i \notin damaged') => store'[i] = store[i]
             /\ output.exists => output' = output
  <2>t. store \in [Id -> Lkbs] /\ (pc = "link" => id \in Id)
    BY <1>1 DEF BackupsInv, Types, Named
  <2>1. ASSUME NEW i \in Id, store[i].exists, store'[i].exists, i \notin damaged'
        PROVE  store'[i] = store[i]
    <3>1. CASE pc = "link" /\ ~store[id].exists /\ store' = [store EXCEPT ![id] = tmp[id]]
      BY <2>1, <2>t, <3>1
    <3>2. CASE \E j \in Id : store' = [store EXCEPT ![j] = NoLkb]
      BY <2>1, <2>t, <3>2, Blank
    <3>3. CASE \E k \in Id : k \in damaged' /\ \A j \in Id \ {k} : store'[j] = store[j]
      BY <2>1, <3>3
    <3> QED
      BY <1>1, <3>1, <3>2, <3>3, StoreChanges
  <2> QED
    BY <1>1, <2>1, OutputChanges
<1> QED
  BY <1>1, BackupsInductive, PTL DEF Spec, NeverReplaced

-----------------------------------------------------------------------------
(* The parts beside each other: each goes its own way *)

LEMMA EachGoesOn ==
  [Steps]_all => [M!Next]_mirrorVars /\ [N!Next]_netVars /\ [S!Next]_selfVars /\ [Next]_vars
<1> SUFFICES ASSUME [Steps]_all
             PROVE  [M!Next]_mirrorVars /\ [N!Next]_netVars /\ [S!Next]_selfVars /\ [Next]_vars
  OBVIOUS
<1> QED
  BY DEF Steps, all, backupVars

(* A backup is made beside the other parts as it is alone. *)
LEMMA BackupsBeside == SideBySide => Spec
<1>1. Parts => Init
  BY DEF Parts
<1> QED
  BY <1>1, EachGoesOn, PTL DEF SideBySide, Spec

-----------------------------------------------------------------------------
(* lkit itself: which release *)

LEMMA Induction ==
  ASSUME NEW T \in SUBSET Nat, 0 \in T, \A n \in T : n + 1 \in T
  PROVE  T = Nat
<1> DEFINE R == {p \in Nat \X Nat : p[1] < p[2]}
           U == Nat \ T
<1>1. IsWellFoundedOn(R, Nat)
  BY NatLessThanWellFounded DEF OpToRel
<1>2. SUFFICES ASSUME U # {} PROVE FALSE
  OBVIOUS
<1>3. U \subseteq Nat
  OBVIOUS
<1>4. PICK n \in U : \A k \in U : ~(<<k, n>> \in R)
  <2> HIDE DEF R, U
  <2> QED
    BY <1>1, <1>2, <1>3, WFMin
<1>5. \A k \in U : ~(k < n)
  BY <1>4
<1>6. n \in Nat /\ n # 0 /\ n - 1 \in Nat /\ n - 1 < n /\ n = (n - 1) + 1
  BY <1>4
<1>7. n - 1 \in T
  BY <1>5, <1>6
<1> QED
  BY <1>4, <1>6, <1>7

LEMMA PrecedenceIsNewer ==
  ASSUME NEW a \in Release, NEW b \in Release, S!Newer(a, b)
  PROVE  S!Precedence(a) > S!Precedence(b)
<1>1. a.base \in Nat /\ b.base \in Nat /\ a.rc \in 0..998 /\ b.rc \in 0..998
  BY ReleaseNumbers
<1>2. a.base > b.base \/ (a.base = b.base /\ b.rc # 0 /\ (a.rc = 0 \/ a.rc > b.rc))
  BY DEF S!Newer
<1> DEFINE pa == IF a.rc = 0 THEN 999 ELSE a.rc
           pb == IF b.rc = 0 THEN 999 ELSE b.rc
<1>3. /\ pa \in 1..999 /\ pb \in 1..999
      /\ a.base = b.base => pa > pb
  BY <1>1, <1>2
<1> HIDE DEF pa, pb
<1>4. a.base * 1000 + pa > b.base * 1000 + pb
  BY <1>1, <1>2, <1>3
<1> QED
  BY <1>4 DEF S!Precedence, pa, pb

LEMMA PrecedenceIsNumber ==
  ASSUME NEW a \in Release
  PROVE  S!Precedence(a) \in Nat \ {0}
  BY ReleaseNumbers DEF S!Precedence

Better(r, best) ==
  IF S!Eligible(r, TRUE) /\ (best = S!NoRelease \/ S!Precedence(r) > S!Precedence(best)) THEN r ELSE best

(* What the loop has found after each entry. *)
IsScan(g, entries) ==
  g = [i \in 0..Len(entries) |-> IF i = 0 THEN S!NoRelease ELSE Better(entries[i], g[i - 1])]

LEMMA ScanExists ==
  ASSUME NEW entries \in Seq(Release)
  PROVE  \E g : IsScan(g, entries)
<1> DEFINE P(n) == \E g : g = [i \in 0..n |-> IF i = 0 THEN S!NoRelease ELSE Better(entries[i], g[i - 1])]
           T == {n \in Nat : P(n)}
<1>1. 0 \in T
  <2> DEFINE g == [i \in 0..0 |-> S!NoRelease]
  <2>1. g = [i \in 0..0 |-> IF i = 0 THEN S!NoRelease ELSE Better(entries[i], g[i - 1])]
    OBVIOUS
  <2> QED
    BY <2>1
<1>2. ASSUME NEW n \in T PROVE n + 1 \in T
  <2>1. PICK g : g = [i \in 0..n |-> IF i = 0 THEN S!NoRelease ELSE Better(entries[i], g[i - 1])]
    OBVIOUS
  <2> DEFINE h == [i \in 0..(n + 1) |-> IF i = n + 1 THEN Better(entries[n + 1], g[n]) ELSE g[i]]
  <2>2. ASSUME NEW i \in 0..(n + 1)
        PROVE  h[i] = IF i = 0 THEN S!NoRelease ELSE Better(entries[i], h[i - 1])
    <3>1. CASE i = n + 1
      BY <3>1
    <3>2. CASE i # n + 1
      <4>1. i \in 0..n /\ (i # 0 => i - 1 \in 0..n /\ i - 1 # n + 1 /\ i - 1 \in 0..(n + 1))
        BY <3>2
      <4>2. h[i] = g[i] /\ (i # 0 => h[i - 1] = g[i - 1])
        BY <4>1, <3>2
      <4>3. g[i] = IF i = 0 THEN S!NoRelease ELSE Better(entries[i], g[i - 1])
        BY <4>1, <2>1
      <4> QED
        BY <4>2, <4>3
    <3> QED
      BY <3>1, <3>2
  <2>3. h = [i \in 0..(n + 1) |-> IF i = 0 THEN S!NoRelease ELSE Better(entries[i], h[i - 1])]
    BY <2>2
  <2>4. n + 1 \in Nat /\ P(n + 1)
    BY <2>3
  <2> QED
    BY <2>4
<1>3. T = Nat
  <2> HIDE DEF P
  <2>1. T \in SUBSET Nat
    OBVIOUS
  <2> HIDE DEF T
  <2> QED
    BY <1>1, <1>2, <2>1, Induction
<1>4. P(Len(entries))
  BY <1>3
<1> QED
  BY <1>4 DEF IsScan

LEMMA BestIsScan ==
  ASSUME NEW entries, NEW g, IsScan(g, entries), ~S!Exceeds(entries)
  PROVE  \E h : IsScan(h, entries) /\ S!Best(entries) = h[Len(entries)]
  BY Zenon DEF S!Best, IsScan, Better

(* Nothing was found among the first n, or one that precedes none of them.  *)
Leads(r, entries, n) ==
  /\ r = S!NoRelease => \A j \in 1..n : ~S!Eligible(entries[j], TRUE)
  /\ r # S!NoRelease =>
       /\ \E j \in 1..n : r = entries[j] /\ S!Eligible(r, TRUE)
       /\ \A j \in 1..n : S!Eligible(entries[j], TRUE) => S!Precedence(entries[j]) <= S!Precedence(r)

LEMMA ScanLeads ==
  ASSUME NEW entries \in Seq(Release), NEW g, IsScan(g, entries)
  PROVE  Leads(g[Len(entries)], entries, Len(entries))
<1> DEFINE T == {n \in Nat : n <= Len(entries) => Leads(g[n], entries, n)}
<1>a. Len(entries) \in Nat /\ \A j \in 1..Len(entries) : entries[j] \in Release
  OBVIOUS
<1>1. 0 \in T
  <2>1. g[0] = S!NoRelease
    BY <1>a DEF IsScan
  <2>2. Leads(g[0], entries, 0)
    BY <2>1 DEF Leads
  <2> QED
    BY <2>2
<1>2. ASSUME NEW n \in T PROVE n + 1 \in T
  <2>1. SUFFICES ASSUME n + 1 <= Len(entries) PROVE Leads(g[n + 1], entries, n + 1)
    OBVIOUS
  <2>2. n \in Nat /\ n + 1 \in 1..Len(entries) /\ n + 1 \in 0..Len(entries) /\ n + 1 # 0 /\ (n + 1) - 1 = n
    BY <1>a, <2>1
  <2>3. Leads(g[n], entries, n)
    BY <2>1, <1>a
  <2>4. g[n + 1] = Better(entries[n + 1], g[n])
    <3> DEFINE k == n + 1
    <3>1. k \in 0..Len(entries) /\ k # 0 /\ k - 1 = n
      BY <2>2
    <3> HIDE DEF k
    <3>2. g[k] = Better(entries[k], g[k - 1])
      BY <3>1 DEF IsScan
    <3> QED
      BY <3>1, <3>2 DEF k
  <2> DEFINE r == entries[n + 1]
             b == g[n]
  <2>5. r \in Release /\ \A j \in 1..n : entries[j] \in Release
    BY <1>a, <2>2
  <2>6. \A j \in 1..(n + 1) : j \in 1..n \/ j = n + 1
    BY <2>2
  <2>7. \A j \in 1..n : j \in 1..(n + 1)
    BY <2>2
  <2>8. b # S!NoRelease => b \in Release
    BY <2>3, <2>5 DEF Leads
  <2>9. S!Eligible(r, TRUE) => r # S!NoRelease
    BY DEF S!Eligible, S!NoRelease
  <2>p. \A a \in Release : S!Precedence(a) \in Int
    BY PrecedenceIsNumber
  <2>l. Leads(b, entries, n)
    BY <2>3
  <2> HIDE DEF r, b
  <2>10. CASE S!Eligible(r, TRUE) /\ (b = S!NoRelease \/ S!Precedence(r) > S!Precedence(b))
    <3>1. g[n + 1] = r
      BY <2>4, <2>10 DEF Better, r, b
    <3>2. \A j \in 1..n : S!Eligible(entries[j], TRUE) => S!Precedence(entries[j]) <= S!Precedence(r)
      <4>1. CASE b = S!NoRelease
        BY <4>1, <2>l DEF Leads
      <4>2. CASE b # S!NoRelease
        <5>1. \A j \in 1..n : S!Eligible(entries[j], TRUE) => S!Precedence(entries[j]) <= S!Precedence(b)
          BY <4>2, <2>l DEF Leads
        <5>2. S!Precedence(b) \in Int /\ S!Precedence(r) \in Int /\ S!Precedence(r) > S!Precedence(b)
          BY <4>2, <2>5, <2>8, <2>p, <2>10
        <5>3. \A j \in 1..n : S!Precedence(entries[j]) \in Int
          BY <2>5, <2>p
        <5> DEFINE p(j) == S!Precedence(entries[j])
                   e(j) == S!Eligible(entries[j], TRUE)
                   pb == S!Precedence(b)
                   pr == S!Precedence(r)
        <5>4. /\ \A j \in 1..n : e(j) => p(j) <= pb
              /\ pb \in Int /\ pr \in Int /\ pr > pb
              /\ \A j \in 1..n : p(j) \in Int
          BY <5>1, <5>2, <5>3
        <5> HIDE DEF p, e, pb, pr
        <5>5. \A j \in 1..n : e(j) => p(j) <= pr
          BY <5>4
        <5> QED
          BY <5>5 DEF p, e, pr
      <4> QED
        BY <4>1, <4>2
    <3>3. S!Precedence(r) <= S!Precedence(r)
      BY <2>5, <2>p DEF r
    <3>4. \A j \in 1..(n + 1) : S!Eligible(entries[j], TRUE) => S!Precedence(entries[j]) <= S!Precedence(r)
      BY <3>2, <3>3, <2>6 DEF r
    <3>5. n + 1 \in 1..(n + 1)
      BY <2>2
    <3> QED
      BY <3>1, <3>4, <3>5, <2>9, <2>10 DEF Leads, r
  <2>11. CASE ~(S!Eligible(r, TRUE) /\ (b = S!NoRelease \/ S!Precedence(r) > S!Precedence(b)))
    <3>1. g[n + 1] = b
      BY <2>4, <2>11 DEF Better, r, b
    <3>2. CASE b = S!NoRelease
      <4>1. \A j \in 1..n : ~S!Eligible(entries[j], TRUE)
        BY <3>2, <2>l DEF Leads
      <4>2. ~S!Eligible(entries[n + 1], TRUE)
        BY <3>2, <2>11 DEF r
      <4> QED
        BY <4>1, <4>2, <3>1, <3>2, <2>6 DEF Leads
    <3>3. CASE b # S!NoRelease
      <4>1. S!Eligible(r, TRUE) => S!Precedence(r) <= S!Precedence(b)
        <5>1. S!Precedence(r) \in Int /\ S!Precedence(b) \in Int
          BY <2>5, <2>8, <2>p, <3>3
        <5>2. S!Eligible(r, TRUE) => ~(S!Precedence(r) > S!Precedence(b))
          BY <2>11
        <5> DEFINE pb == S!Precedence(b)
                   pr == S!Precedence(r)
                   e == S!Eligible(r, TRUE)
        <5>3. pr \in Int /\ pb \in Int /\ (e => ~(pr > pb))
          BY <5>1, <5>2
        <5> HIDE DEF pb, pr, e
        <5>4. e => pr <= pb
          BY <5>3
        <5> QED
          BY <5>4 DEF pb, pr, e
      <4> QED
        BY <4>1, <3>1, <3>3, <2>3, <2>6, <2>7 DEF Leads, r, b
    <3> QED
      BY <3>2, <3>3
  <2> QED
    BY <2>10, <2>11
<1>3. T = Nat
  <2>1. T \in SUBSET Nat
    OBVIOUS
  <2> HIDE DEF T
  <2> QED
    BY <1>1, <1>2, <2>1, Induction
<1> QED
  BY <1>3, <1>a

(* Newest of those that may be taken, whatever the API lists. *)
LEMMA BestIsNewest ==
  ASSUME NEW entries \in Seq(Release)
  PROVE  \/ S!Exceeds(entries) /\ S!Best(entries) = S!NoRelease
         \/ Leads(S!Best(entries), entries, Len(entries))
<1>1. CASE S!Exceeds(entries)
  BY <1>1 DEF S!Best
<1>2. CASE ~S!Exceeds(entries)
  <2>1. PICK g : IsScan(g, entries)
    BY ScanExists
  <2>2. PICK h : IsScan(h, entries) /\ S!Best(entries) = h[Len(entries)]
    BY <1>2, <2>1, BestIsScan
  <2> QED
    BY <2>2, ScanLeads
<1> QED
  BY <1>1, <1>2
-----------------------------------------------------------------------------
(* lkit itself: its state *)

Regs == {"missing", "ours", "other", "file"}
SelfPlaces ==
  {"idle", "write", "register", "enable", "launch", "pid",
   "undo_stop", "undo_disable", "undo_unregister", "undo_origin",
   "stop", "exit", "disable", "unregister", "delete",
   "fetch", "compare", "download", "verify", "rename", "refresh"}
InstallPlaces ==
  {"write", "register", "enable", "launch", "pid",
   "undo_stop", "undo_disable", "undo_unregister", "undo_origin"}
Processes == {"none", "running", "waiting", "crashed", "dying"}
Systems == [reg: Regs, origin: BOOLEAN, enabled: BOOLEAN, proc: Processes, ver: Nat]
Programs == [ver: Nat, runs: BOOLEAN]

SelfTypes ==
  /\ manager \in {"systemd", "openrc", "sysvinit"}
  /\ sys \in Systems /\ bin \in Programs /\ staged \in Programs
  /\ at \in SelfPlaces
  /\ clean \in BOOLEAN /\ removed \in BOOLEAN /\ mishaps \in Nat
  /\ (verb = "none") = (at = "idle")

(* Processes: which states a manager knows, and what they run. *)
ProcInv ==
  /\ sys.proc = "waiting" => manager = "systemd"
  /\ sys.proc = "crashed" => manager = "openrc"
  /\ sys.proc = "dying" => manager = "sysvinit"
  /\ (sys.proc \in {"running", "dying"}) = (sys.ver # 0)

(* How far an upgrade has come. *)
UpgradeInv ==
  /\ bin.ver # 0 /\ bin.runs
  /\ staged # S!NoFile => at \in {"verify", "rename"}
  /\ at = "compare" => listing \in S!Listings /\ want = S!Select(listing)
  /\ at \in {"download", "verify", "rename"} => want \in Release
  /\ at \in {"verify", "rename"} => staged.ver # 0
  /\ at = "rename" => staged.runs

(* How far an install has come. *)
InstallInv ==
  /\ at \in {"register", "enable", "launch", "pid"} => sys.origin
  /\ at \in {"enable", "launch", "pid"} => sys.reg = "ours"
  /\ at \in {"launch", "pid"} => sys.enabled
  /\ at = "pid" => sys.proc # "dying" /\ (sys.proc = "running" => sys.ver = bin.ver)

(* How far a remove has come, and what a removed daemon has left.  Without  *)
(* troubles systemd has nothing enabled that is not there.                  *)
Unarmed == mishaps = 0 /\ manager # "sysvinit" => ~sys.enabled
RemoveInv ==
  /\ manager = "systemd" /\ mishaps = 0 /\ sys.enabled => S!Defined(sys)
  /\ at \in {"undo_unregister", "undo_origin", "unregister", "delete"} => Unarmed
  /\ at = "exit" => sys.proc \in {"none", "dying"}
  /\ at \in {"disable", "unregister", "delete"} /\ clean => sys.proc \notin {"running", "waiting", "dying"}
  /\ at = "delete" /\ clean => sys.reg = "missing"
  /\ removed => /\ at \notin InstallPlaces
                /\ sys.proc \notin {"running", "waiting", "dying"}
                /\ sys.reg = "missing" /\ ~sys.origin /\ Unarmed

SelfInv == SelfTypes /\ ProcInv /\ UpgradeInv /\ InstallInv /\ RemoveInv

LEMMA Truth == TRUE \in BOOLEAN /\ FALSE \in BOOLEAN
  OBVIOUS

LEMMA SetOrigin ==
  ASSUME NEW s \in Systems, NEW b \in BOOLEAN, NEW d, d = [s EXCEPT !.origin = b]
  PROVE  /\ d \in Systems /\ d.origin = b
         /\ d.reg = s.reg /\ d.enabled = s.enabled /\ d.proc = s.proc /\ d.ver = s.ver
  BY DEF Systems

LEMMA SetEnabled ==
  ASSUME NEW s \in Systems, NEW b \in BOOLEAN, NEW d, d = [s EXCEPT !.enabled = b]
  PROVE  /\ d \in Systems /\ d.enabled = b
         /\ d.reg = s.reg /\ d.origin = s.origin /\ d.proc = s.proc /\ d.ver = s.ver
  BY DEF Systems

LEMMA SetReg ==
  ASSUME NEW s \in Systems, NEW r \in Regs, NEW d, d = [s EXCEPT !.reg = r]
  PROVE  /\ d \in Systems /\ d.reg = r
         /\ d.origin = s.origin /\ d.enabled = s.enabled /\ d.proc = s.proc /\ d.ver = s.ver
  BY DEF Systems

LEMMA SetProc ==
  ASSUME NEW s \in Systems, NEW p \in Processes, NEW d, d = [s EXCEPT !.proc = p]
  PROVE  /\ d \in Systems /\ d.proc = p
         /\ d.reg = s.reg /\ d.origin = s.origin /\ d.enabled = s.enabled /\ d.ver = s.ver
  BY DEF Systems

LEMMA Registered ==
  ASSUME NEW s \in Systems, NEW d \in S!Register(s)
  PROVE  /\ d \in Systems /\ d.reg = "ours"
         /\ d.origin = s.origin /\ d.enabled = s.enabled /\ d.proc = s.proc /\ d.ver = s.ver
         /\ manager = "systemd" => s.reg \notin {"other", "file"}
<1>1. d = [s EXCEPT !.reg = "ours"] /\ (manager = "systemd" => s.reg \notin {"other", "file"})
  BY DEF S!Register
<1>2. "ours" \in Regs
  BY DEF Regs
<1> QED
  BY <1>1, <1>2, SetReg

LEMMA Unregistered ==
  ASSUME NEW s \in Systems, NEW d \in S!Unregister(s)
  PROVE  /\ d \in Systems /\ s.reg \in {"ours", "missing"} /\ d.reg = "missing"
         /\ d.origin = s.origin /\ d.enabled = s.enabled /\ d.ver = s.ver
         /\ d.proc = s.proc \/ (s.proc = "waiting" /\ d.proc = "none")
<1>1. CASE s.reg = "ours"
  <2> DEFINE p == IF manager = "systemd" /\ s.proc = "waiting" THEN "none" ELSE s.proc
  <2>1. d = [s EXCEPT !.reg = "missing", !.proc = p]
    BY <1>1 DEF S!Unregister
  <2>2. "missing" \in Regs /\ p \in Processes /\ (p = s.proc \/ (s.proc = "waiting" /\ p = "none"))
    BY DEF Regs, Processes, Systems
  <2> HIDE DEF p
  <2> QED
    BY <1>1, <2>1, <2>2 DEF Systems
<1>2. CASE s.reg = "missing"
  BY <1>2 DEF S!Unregister
<1>3. CASE s.reg \notin {"ours", "missing"}
  BY <1>3 DEF S!Unregister
<1> QED
  BY <1>1, <1>2, <1>3

LEMMA StartedIs ==
  ASSUME NEW s \in Systems, NEW v \in Nat, NEW d, d = S!Started(s, v)
  PROVE  /\ d \in Systems /\ d.proc = "running" /\ d.ver = v
         /\ d.reg = s.reg /\ d.origin = s.origin /\ d.enabled = s.enabled
<1>1. "running" \in Processes
  BY DEF Processes
<1>2. d = [s EXCEPT !.proc = "running", !.ver = v]
  BY DEF S!Started
<1> QED
  BY <1>1, <1>2 DEF Systems

LEMMA GoneIs ==
  ASSUME NEW s \in Systems, NEW d, d = S!Gone(s)
  PROVE  /\ d \in Systems /\ d.proc = "none" /\ d.ver = 0
         /\ d.reg = s.reg /\ d.origin = s.origin /\ d.enabled = s.enabled
<1>1. "none" \in Processes /\ 0 \in Nat
  BY DEF Processes
<1>2. d = [s EXCEPT !.proc = "none", !.ver = 0]
  BY DEF S!Gone
<1> QED
  BY <1>1, <1>2 DEF Systems

LEMMA DyingIs ==
  ASSUME NEW s \in Systems, NEW d, d = [s EXCEPT !.proc = "dying"]
  PROVE  /\ d \in Systems /\ d.proc = "dying" /\ d.ver = s.ver
         /\ d.reg = s.reg /\ d.origin = s.origin /\ d.enabled = s.enabled
<1>1. "dying" \in Processes
  BY DEF Processes
<1> QED
  BY <1>1, SetProc

LEMMA Stopped ==
  ASSUME NEW s \in Systems, NEW d \in S!Stop(s)
  PROVE  /\ d \in Systems
         /\ d.reg = s.reg /\ d.origin = s.origin /\ d.enabled = s.enabled
         /\ \/ d.proc = "none" /\ d.ver = 0
            \/ /\ manager = "sysvinit" /\ s.proc \in {"running", "dying"}
               /\ d.proc = "dying" /\ d.ver = s.ver
<1>1. d = S!Gone(s) \/ (manager = "sysvinit" /\ s.proc \in {"running", "dying"} /\ d = [s EXCEPT !.proc = "dying"])
  BY DEF S!Stop
<1> QED
  BY <1>1, GoneIs, DyingIs

LEMMA DisabledIs ==
  ASSUME NEW s \in Systems, NEW d \in S!Disabled(s)
  PROVE  /\ d \in Systems
         /\ d.reg = s.reg /\ d.origin = s.origin /\ d.proc = s.proc /\ d.ver = s.ver
         /\ d.enabled => s.enabled
         /\ d.enabled => ~S!IsEnabled(s)
<1>1. CASE S!IsEnabled(s)
  <2>1. d = [s EXCEPT !.enabled = FALSE]
    BY <1>1 DEF S!Disabled
  <2> QED
    BY <2>1, SetEnabled, Truth
<1>2. CASE ~S!IsEnabled(s)
  BY <1>2 DEF S!Disabled
<1> QED
  BY <1>1, <1>2

LEMMA LaunchIs ==
  ASSUME NEW s \in Systems, NEW v \in Nat, NEW d, d \in S!Restart(s, v) \cup S!Start(s, v)
  PROVE  /\ d \in Systems /\ d.proc = "running" /\ d.ver = v
         /\ d.reg = s.reg /\ d.origin = s.origin /\ d.enabled = s.enabled
<1>1. d = S!Started(s, v)
  BY DEF S!Restart, S!Start
<1> QED
  BY <1>1, StartedIs

LEMMA RaceIs ==
  ASSUME NEW s \in Systems, NEW d \in S!RestartFails(s)
  PROVE  /\ d \in Systems /\ d.proc = "dying" /\ d.ver = s.ver /\ manager = "sysvinit"
         /\ d.reg = s.reg /\ d.origin = s.origin /\ d.enabled = s.enabled
<1>1. manager = "sysvinit" /\ d = [s EXCEPT !.proc = "dying"]
  BY DEF S!RestartFails
<1> QED
  BY <1>1, DyingIs

LEMMA SelfInitially == S!Init => SelfInv
<1> SUFFICES ASSUME S!Init PROVE SelfInv
  OBVIOUS
<1> USE DEF S!Init
<1>1. PICK r \in {"missing", "other", "file"} :
        sys = [reg |-> r, origin |-> FALSE, enabled |-> FALSE, proc |-> "none", ver |-> 0]
  OBVIOUS
<1>2. sys \in Systems /\ ~sys.origin /\ ~sys.enabled /\ sys.proc = "none" /\ sys.ver = 0
  BY <1>1, Truth DEF Systems, Regs, Processes
<1>3. bin \in Programs /\ staged \in Programs /\ bin.ver # 0 /\ bin.runs
  BY Truth DEF Programs, S!NoFile
<1>4. SelfTypes
  BY <1>2, <1>3, Truth DEF SelfTypes, SelfPlaces
<1>5. ProcInv
  BY <1>2 DEF ProcInv
<1>6. UpgradeInv
  BY <1>3 DEF UpgradeInv
<1>7. InstallInv
  BY DEF InstallInv
<1>8. RemoveInv
  BY <1>2 DEF RemoveInv
<1> QED
  BY <1>4, <1>5, <1>6, <1>7, <1>8 DEF SelfInv



(* Steps of lkit self *)
Stays == manager' = manager /\ bin' = bin /\ removed' = removed
Counts == mishaps' = mishaps \/ mishaps' = mishaps + 1
Goes(l) == at' = l /\ verb' = verb /\ staged' = staged /\ Stays /\ Counts /\ clean' \in BOOLEAN
Leaves ==
  /\ at' = "idle" /\ verb' = "none" /\ staged' = S!NoFile
  /\ Stays /\ Counts /\ clean' \in BOOLEAN

(* What every step but those of an upgrade has in common. *)
LEMMA NoFileIs == S!NoFile \in Programs
  BY Truth DEF S!NoFile, Programs

LEMMA CountsIs ==
  ASSUME SelfTypes, Counts
  PROVE  mishaps' \in Nat /\ (mishaps' = 0 => mishaps = 0)
  BY DEF SelfTypes, Counts

LEMMA GoesTypes ==
  ASSUME SelfInv, NEW l \in SelfPlaces \ {"idle", "compare", "download", "verify", "rename"},
         at \notin {"idle", "verify", "rename"}, Goes(l), sys' \in Systems
  PROVE  SelfTypes' /\ UpgradeInv' /\ (mishaps' = 0 => mishaps = 0)
<1>1. mishaps' \in Nat /\ (mishaps' = 0 => mishaps = 0)
  BY CountsIs DEF SelfInv, Goes
<1>2. SelfTypes'
  BY <1>1, SMT DEF SelfInv, SelfTypes, Goes, Stays
<1>3. UpgradeInv'
  BY SMT DEF SelfInv, UpgradeInv, Goes, Stays
<1> QED
  BY <1>1, <1>2, <1>3

LEMMA LeavesKeeps ==
  ASSUME SelfInv, Leaves, sys' = sys
  PROVE  SelfInv'
<1>1. mishaps' \in Nat /\ (mishaps' = 0 => mishaps = 0)
  BY CountsIs DEF SelfInv, Leaves
<1>2. SelfTypes'
  BY <1>1, NoFileIs DEF SelfInv, SelfTypes, Leaves, Stays, SelfPlaces
<1>3. ProcInv'
  BY DEF SelfInv, ProcInv, Leaves, Stays
<1>4. UpgradeInv'
  BY DEF SelfInv, UpgradeInv, Leaves, Stays
<1>5. InstallInv'
  BY DEF InstallInv, Leaves
<1>6. RemoveInv'
  BY <1>1 DEF SelfInv, RemoveInv, Leaves, Stays, Unarmed, InstallPlaces, S!Defined
<1> QED
  BY <1>2, <1>3, <1>4, <1>5, <1>6 DEF SelfInv




LEMMA CallSteps ==
  ASSUME SelfInv, NEW a, NEW STATE R, NEW n, S!Call(a, R, n)
  PROVE  /\ at = a
         /\ \/ sys' \in R /\ Goes(n)
            \/ sys' = sys /\ Goes("undo_stop")
<1>1. /\ at = a
      /\ \/ sys' \in R /\ at' = n /\ clean' = clean /\ mishaps' = mishaps
         \/ sys' = sys /\ at' = "undo_stop" /\ clean' = FALSE /\ mishaps' = mishaps
         \/ sys' = sys /\ at' = "undo_stop" /\ clean' = FALSE /\ mishaps' = mishaps + 1
      /\ verb' = verb /\ manager' = manager /\ bin' = bin /\ staged' = staged /\ removed' = removed
  BY DEF S!Call, S!Goto, S!Trouble, S!counts, S!file
<1>2. clean' \in BOOLEAN /\ Counts /\ Stays
  BY <1>1, Truth DEF SelfInv, SelfTypes, Counts, Stays
<1> QED
  BY <1>1, <1>2 DEF Goes

LEMMA UndoSteps ==
  ASSUME SelfInv, NEW a, NEW STATE R, NEW n, S!Undo(a, R, n), a \notin {"verify", "rename"}
  PROVE  /\ at = a
         /\ n # "idle" => Goes(n)
         /\ n = "idle" => Leaves
         /\ \/ sys' \in R /\ clean' = clean
            \/ sys' = sys /\ ~clean' /\ (R = {} \/ mishaps' # 0)
<1>1. /\ at = a
      /\ \/ sys' \in R /\ clean' = clean /\ mishaps' = mishaps
         \/ sys' = sys /\ clean' = FALSE /\ R = {} /\ mishaps' = mishaps
         \/ sys' = sys /\ clean' = FALSE /\ mishaps' = mishaps + 1
      /\ IF n = "idle" THEN at' = "idle" /\ verb' = "none" ELSE at' = n /\ verb' = verb
      /\ manager' = manager /\ bin' = bin /\ staged' = staged /\ removed' = removed
  BY DEF S!Undo, S!Goto, S!Ends, S!Trouble, S!counts, S!file
<1>2. staged = S!NoFile
  BY <1>1 DEF SelfInv, UpgradeInv
<1>3. mishaps \in Nat /\ clean \in BOOLEAN
  BY DEF SelfInv, SelfTypes
<1>4. mishaps' = mishaps + 1 => mishaps' # 0
  BY <1>3
<1>5. clean' \in BOOLEAN /\ Counts /\ Stays
  BY <1>1, <1>3, Truth DEF Counts, Stays
<1> QED
  BY <1>1, <1>2, <1>4, <1>5 DEF Goes, Leaves

(* An install that has failed, or a call of it, goes to its cleanup. *)
LEMMA CleansUp ==
  ASSUME SelfInv, at \in {"register", "enable", "launch", "pid"}, Goes("undo_stop"), sys' = sys
  PROVE  SelfInv'
<1>1. SelfTypes' /\ UpgradeInv' /\ (mishaps' = 0 => mishaps = 0)
  BY GoesTypes DEF SelfInv, SelfTypes, SelfPlaces
<1>2. ProcInv'
  BY DEF SelfInv, ProcInv, Goes, Stays
<1>3. InstallInv'
  BY DEF InstallInv, Goes
<1>4. RemoveInv'
  BY <1>1 DEF SelfInv, RemoveInv, Goes, Stays, InstallPlaces, S!Defined
<1> QED
  BY <1>1, <1>2, <1>3, <1>4 DEF SelfInv

LEMMA WriteOriginKeeps ==
  ASSUME SelfInv, S!WriteOrigin
  PROVE  SelfInv'
<1>0. staged = S!NoFile /\ sys \in Systems /\ clean \in BOOLEAN /\ at = "write"
  BY DEF SelfInv, SelfTypes, UpgradeInv, S!WriteOrigin
<1>1. (Leaves /\ sys' = sys) \/ (Goes("register") /\ sys' = [sys EXCEPT !.origin = TRUE])
  <2>1. CASE sys' = sys /\ S!Trouble /\ S!Ends /\ clean' = FALSE
    BY <1>0, <2>1, Truth DEF S!WriteOrigin, S!Trouble, S!Ends, S!file, Leaves, Stays, Counts
  <2>2. CASE sys' = [sys EXCEPT !.origin = TRUE] /\ S!Goto("register") /\ UNCHANGED <<clean, S!counts>>
    BY <1>0, <2>2 DEF S!WriteOrigin, S!Goto, S!counts, S!file, Goes, Stays, Counts
  <2> QED
    BY <2>1, <2>2 DEF S!WriteOrigin
<1>2. CASE Leaves /\ sys' = sys
  BY <1>2, LeavesKeeps
<1>3. CASE Goes("register") /\ sys' = [sys EXCEPT !.origin = TRUE]
  <2>1. /\ sys' \in Systems /\ sys'.origin
        /\ sys'.reg = sys.reg /\ sys'.enabled = sys.enabled /\ sys'.proc = sys.proc /\ sys'.ver = sys.ver
    BY <1>0, <1>3, SetOrigin, Truth
  <2>2. Goes("register")
    BY <1>3
  <2>3. SelfTypes' /\ UpgradeInv' /\ (mishaps' = 0 => mishaps = 0)
    BY <1>0, <2>1, <2>2, GoesTypes DEF SelfPlaces
  <2>4. ProcInv'
    BY <2>1, <2>2 DEF SelfInv, ProcInv, Goes, Stays
  <2>5. InstallInv'
    BY <2>1, <2>2 DEF InstallInv, Goes
  <2>6. RemoveInv'
    BY <1>0, <2>1, <2>2, <2>3 DEF SelfInv, RemoveInv, Goes, Stays, InstallPlaces, S!Defined
  <2> QED
    BY <2>3, <2>4, <2>5, <2>6 DEF SelfInv
<1> QED
  BY <1>1, <1>2, <1>3

LEMMA DoRegisterKeeps ==
  ASSUME SelfInv, S!DoRegister
  PROVE  SelfInv'
<1>0. sys \in Systems
  BY DEF SelfInv, SelfTypes
<1>1. at = "register" /\ ((sys' \in S!Register(sys) /\ Goes("enable")) \/ (sys' = sys /\ Goes("undo_stop")))
  BY CallSteps DEF S!DoRegister
<1>2. CASE sys' = sys /\ Goes("undo_stop")
  BY <1>1, <1>2, CleansUp
<1>3. CASE sys' \in S!Register(sys) /\ Goes("enable")
  <2>1. /\ sys' \in Systems /\ sys'.reg = "ours"
        /\ sys'.origin = sys.origin /\ sys'.enabled = sys.enabled /\ sys'.proc = sys.proc /\ sys'.ver = sys.ver
    BY <1>0, <1>3, Registered
  <2>2. SelfTypes' /\ UpgradeInv' /\ (mishaps' = 0 => mishaps = 0)
    BY <1>1, <1>3, <2>1, GoesTypes DEF SelfPlaces
  <2>3. Goes("enable")
    BY <1>3
  <2>4. ProcInv'
    BY <2>1, <2>3 DEF SelfInv, ProcInv, Goes, Stays
  <2>5. InstallInv'
    BY <1>1, <2>1, <2>3 DEF SelfInv, InstallInv, Goes
  <2>6. RemoveInv'
    BY <1>1, <2>1, <2>2, <2>3 DEF SelfInv, InstallInv, RemoveInv, Goes, Stays, InstallPlaces, S!Defined
  <2> QED
    BY <2>2, <2>4, <2>5, <2>6 DEF SelfInv
<1> QED
  BY <1>1, <1>2, <1>3

LEMMA DoEnableKeeps ==
  ASSUME SelfInv, S!DoEnable
  PROVE  SelfInv'
<1>0. sys \in Systems
  BY DEF SelfInv, SelfTypes
<1>1. at = "enable" /\ ((sys' \in {[sys EXCEPT !.enabled = TRUE]} /\ Goes("launch")) \/ (sys' = sys /\ Goes("undo_stop")))
  BY CallSteps DEF S!DoEnable
<1>2. CASE sys' = sys /\ Goes("undo_stop")
  BY <1>1, <1>2, CleansUp
<1>3. CASE sys' = [sys EXCEPT !.enabled = TRUE] /\ Goes("launch")
  <2>1. /\ sys' \in Systems /\ sys'.enabled
        /\ sys'.reg = sys.reg /\ sys'.origin = sys.origin /\ sys'.proc = sys.proc /\ sys'.ver = sys.ver
    BY <1>0, <1>3, SetEnabled, Truth
  <2>2. SelfTypes' /\ UpgradeInv' /\ (mishaps' = 0 => mishaps = 0)
    BY <1>1, <1>3, <2>1, GoesTypes DEF SelfPlaces
  <2>3. Goes("launch")
    BY <1>3
  <2>4. ProcInv'
    BY <2>1, <2>3 DEF SelfInv, ProcInv, Goes, Stays
  <2>5. InstallInv'
    BY <1>1, <2>1, <2>3 DEF SelfInv, InstallInv, Goes
  <2>6. RemoveInv'
    BY <1>1, <2>1, <2>2, <2>3 DEF SelfInv, InstallInv, RemoveInv, Goes, Stays, InstallPlaces, S!Defined
  <2> QED
    BY <2>2, <2>4, <2>5, <2>6 DEF SelfInv
<1> QED
  BY <1>1, <1>2, <1>3

LEMMA LaunchKeeps ==
  ASSUME SelfInv, S!Launch
  PROVE  SelfInv'
<1>0. sys \in Systems /\ bin.ver \in Nat /\ bin.ver # 0
  BY DEF SelfInv, SelfTypes, UpgradeInv, Programs
<1>1. at = "launch" /\ ((sys' \in S!Restart(sys, bin.ver) \cup S!Start(sys, bin.ver) /\ Goes("pid"))
                        \/ (sys' = sys /\ Goes("undo_stop")))
  <2> DEFINE R == IF S!IsActiveFails(sys) THEN {} ELSE IF S!IsActive(sys) THEN S!Restart(sys, bin.ver) ELSE S!Start(sys, bin.ver)
  <2>1. S!Call("launch", R, "pid")
    BY DEF S!Launch
  <2>2. R \subseteq S!Restart(sys, bin.ver) \cup S!Start(sys, bin.ver)
    OBVIOUS
  <2> HIDE DEF R
  <2> QED
    BY <2>1, <2>2, CallSteps
<1>2. CASE sys' = sys /\ Goes("undo_stop")
  BY <1>1, <1>2, CleansUp
<1>3. CASE sys' \in S!Restart(sys, bin.ver) \cup S!Start(sys, bin.ver) /\ Goes("pid")
  <2>1. /\ sys' \in Systems /\ sys'.proc = "running" /\ sys'.ver = bin.ver
        /\ sys'.reg = sys.reg /\ sys'.origin = sys.origin /\ sys'.enabled = sys.enabled
    BY <1>0, <1>3, LaunchIs
  <2>2. SelfTypes' /\ UpgradeInv' /\ (mishaps' = 0 => mishaps = 0)
    BY <1>1, <1>3, <2>1, GoesTypes DEF SelfPlaces
  <2>3. Goes("pid")
    BY <1>3
  <2>4. ProcInv'
    BY <1>0, <2>1, <2>3 DEF SelfInv, ProcInv, Goes, Stays
  <2>5. InstallInv'
    BY <1>1, <2>1, <2>3 DEF SelfInv, InstallInv, Goes, Stays
  <2>6. RemoveInv'
    BY <1>1, <2>1, <2>2, <2>3 DEF SelfInv, InstallInv, RemoveInv, Goes, Stays, InstallPlaces, S!Defined
  <2> QED
    BY <2>2, <2>4, <2>5, <2>6 DEF SelfInv
<1> QED
  BY <1>1, <1>2, <1>3

LEMMA LaunchRaceKeeps ==
  ASSUME SelfInv, S!LaunchRace
  PROVE  SelfInv'
<1>0. sys \in Systems /\ at = "launch" /\ sys' \in S!RestartFails(sys) /\ S!IsActive(sys)
  BY DEF SelfInv, SelfTypes, S!LaunchRace
<1>1. Goes("undo_stop")
  BY Truth DEF S!LaunchRace, S!Goto, S!counts, S!file, Goes, Stays, Counts
<1>2. /\ sys' \in Systems /\ sys'.proc = "dying" /\ sys'.ver = sys.ver /\ manager = "sysvinit"
      /\ sys'.reg = sys.reg /\ sys'.origin = sys.origin /\ sys'.enabled = sys.enabled
  BY <1>0, RaceIs
<1>3. sys.proc \in {"running", "dying"}
  BY <1>0, <1>2 DEF S!IsActive
<1>4. SelfTypes' /\ UpgradeInv' /\ (mishaps' = 0 => mishaps = 0)
  BY <1>0, <1>1, <1>2, GoesTypes DEF SelfPlaces
<1>5. ProcInv'
  BY <1>1, <1>2, <1>3 DEF SelfInv, ProcInv, Goes, Stays
<1>6. InstallInv'
  BY <1>1 DEF InstallInv, Goes
<1>7. RemoveInv'
  BY <1>0, <1>1, <1>2, <1>4 DEF SelfInv, RemoveInv, Goes, Stays, InstallPlaces, S!Defined
<1> QED
  BY <1>4, <1>5, <1>6, <1>7 DEF SelfInv

LEMMA AwaitPidKeeps ==
  ASSUME SelfInv, S!AwaitPid
  PROVE  SelfInv'
<1>0. staged = S!NoFile /\ clean \in BOOLEAN /\ at = "pid"
  BY DEF SelfInv, SelfTypes, UpgradeInv, S!AwaitPid
<1>1. sys' = sys /\ (Leaves \/ Goes("undo_stop"))
  BY <1>0 DEF S!AwaitPid, S!Ends, S!Goto, S!counts, S!file, S!host, Leaves, Goes, Stays, Counts
<1> QED
  BY <1>0, <1>1, LeavesKeeps, CleansUp

LEMMA StopKeeps ==
  ASSUME SelfInv, S!Undo("undo_stop", S!Stop(sys), "undo_disable")
  PROVE  SelfInv'
<1>0. sys \in Systems
  BY DEF SelfInv, SelfTypes
<1>1. /\ at = "undo_stop" /\ Goes("undo_disable")
      /\ \/ sys' \in S!Stop(sys) /\ clean' = clean
         \/ sys' = sys /\ ~clean' /\ (S!Stop(sys) = {} \/ mishaps' # 0)
  BY UndoSteps
<1>2. /\ sys' \in Systems
      /\ sys'.reg = sys.reg /\ sys'.origin = sys.origin /\ sys'.enabled = sys.enabled
      /\ \/ sys'.proc = "none" /\ sys'.ver = 0
         \/ /\ manager = "sysvinit" /\ sys.proc \in {"running", "dying"}
            /\ sys'.proc = "dying" /\ sys'.ver = sys.ver
         \/ sys'.proc = sys.proc /\ sys'.ver = sys.ver
  BY <1>0, <1>1, Stopped
<1>3. SelfTypes' /\ UpgradeInv' /\ (mishaps' = 0 => mishaps = 0)
  BY <1>1, <1>2, GoesTypes DEF SelfPlaces
<1>4. ProcInv'
  BY <1>1, <1>2 DEF SelfInv, ProcInv, Goes, Stays
<1>5. InstallInv'
  BY <1>1 DEF InstallInv, Goes
<1>6. RemoveInv'
  BY <1>1, <1>2, <1>3 DEF SelfInv, SelfTypes, ProcInv, RemoveInv, Goes, Stays, Unarmed, InstallPlaces, S!Defined
<1> QED
  BY <1>3, <1>4, <1>5, <1>6 DEF SelfInv

LEMMA DisabledExists == S!Disabled(sys) # {}
  BY DEF S!Disabled

LEMMA DisableKeeps ==
  ASSUME SelfInv, S!Undo("undo_disable", S!Disabled(sys), "undo_unregister")
  PROVE  SelfInv'
<1>0. sys \in Systems
  BY DEF SelfInv, SelfTypes
<1>1. /\ at = "undo_disable" /\ Goes("undo_unregister")
      /\ \/ sys' \in S!Disabled(sys) /\ clean' = clean
         \/ sys' = sys /\ ~clean' /\ (S!Disabled(sys) = {} \/ mishaps' # 0)
  BY UndoSteps
<1>2. /\ sys' \in Systems
      /\ sys'.reg = sys.reg /\ sys'.origin = sys.origin /\ sys'.proc = sys.proc /\ sys'.ver = sys.ver
      /\ sys'.enabled => sys.enabled
      /\ sys'.enabled => ~S!IsEnabled(sys) \/ mishaps' # 0
  BY <1>0, <1>1, DisabledIs, DisabledExists
<1>e. manager \in {"systemd", "openrc"} /\ sys.enabled /\ (manager = "systemd" => S!Defined(sys)) => S!IsEnabled(sys)
  BY DEF S!IsEnabled
<1>3. SelfTypes' /\ UpgradeInv' /\ (mishaps' = 0 => mishaps = 0)
  BY <1>1, <1>2, GoesTypes DEF SelfPlaces
<1>4. ProcInv'
  BY <1>1, <1>2 DEF SelfInv, ProcInv, Goes, Stays
<1>5. InstallInv'
  BY <1>1 DEF InstallInv, Goes
<1>6. RemoveInv'
  BY <1>1, <1>2, <1>3, <1>e DEF SelfInv, SelfTypes, ProcInv, RemoveInv, Goes, Stays, Unarmed, InstallPlaces, S!Defined
<1> QED
  BY <1>3, <1>4, <1>5, <1>6 DEF SelfInv

LEMMA UnregisterKeeps ==
  ASSUME SelfInv, S!Undo("undo_unregister", S!Unregister(sys), "undo_origin")
  PROVE  SelfInv'
<1>0. sys \in Systems
  BY DEF SelfInv, SelfTypes
<1>1. /\ at = "undo_unregister" /\ Goes("undo_origin")
      /\ \/ sys' \in S!Unregister(sys) /\ clean' = clean
         \/ sys' = sys /\ ~clean' /\ (S!Unregister(sys) = {} \/ mishaps' # 0)
  BY UndoSteps
<1>2. /\ sys' \in Systems
      /\ sys'.origin = sys.origin /\ sys'.enabled = sys.enabled /\ sys'.ver = sys.ver
      /\ sys'.proc = sys.proc \/ (sys.proc = "waiting" /\ sys'.proc = "none")
      /\ sys'.reg \in {sys.reg, "missing"} /\ (clean' => sys'.reg = "missing" /\ clean)
  BY <1>0, <1>1, Unregistered
<1>3. SelfTypes' /\ UpgradeInv' /\ (mishaps' = 0 => mishaps = 0)
  BY <1>1, <1>2, GoesTypes DEF SelfPlaces
<1>4. ProcInv'
  BY <1>1, <1>2 DEF SelfInv, ProcInv, Goes, Stays
<1>5. InstallInv'
  BY <1>1 DEF InstallInv, Goes
<1>6. RemoveInv'
  BY <1>1, <1>2, <1>3 DEF SelfInv, SelfTypes, ProcInv, RemoveInv, Goes, Stays, Unarmed, InstallPlaces, S!Defined
<1> QED
  BY <1>3, <1>4, <1>5, <1>6 DEF SelfInv

LEMMA RemoveDisableKeeps ==
  ASSUME SelfInv, S!Undo("disable", S!Disabled(sys), "unregister")
  PROVE  SelfInv'
<1>0. sys \in Systems
  BY DEF SelfInv, SelfTypes
<1>1. /\ at = "disable" /\ Goes("unregister")
      /\ \/ sys' \in S!Disabled(sys) /\ clean' = clean
         \/ sys' = sys /\ ~clean' /\ (S!Disabled(sys) = {} \/ mishaps' # 0)
  BY UndoSteps
<1>2. /\ sys' \in Systems
      /\ sys'.reg = sys.reg /\ sys'.origin = sys.origin /\ sys'.proc = sys.proc /\ sys'.ver = sys.ver
      /\ sys'.enabled => sys.enabled
      /\ sys'.enabled => ~S!IsEnabled(sys) \/ mishaps' # 0
  BY <1>0, <1>1, DisabledIs, DisabledExists
<1>e. manager \in {"systemd", "openrc"} /\ sys.enabled /\ (manager = "systemd" => S!Defined(sys)) => S!IsEnabled(sys)
  BY DEF S!IsEnabled
<1>3. SelfTypes' /\ UpgradeInv' /\ (mishaps' = 0 => mishaps = 0)
  BY <1>1, <1>2, GoesTypes DEF SelfPlaces
<1>4. ProcInv'
  BY <1>1, <1>2 DEF SelfInv, ProcInv, Goes, Stays
<1>5. InstallInv'
  BY <1>1 DEF InstallInv, Goes
<1>6. RemoveInv'
  BY <1>1, <1>2, <1>3, <1>e DEF SelfInv, SelfTypes, ProcInv, RemoveInv, Goes, Stays, Unarmed, InstallPlaces, S!Defined
<1> QED
  BY <1>3, <1>4, <1>5, <1>6 DEF SelfInv

LEMMA RemoveUnregisterKeeps ==
  ASSUME SelfInv, S!Undo("unregister", S!Unregister(sys), "delete")
  PROVE  SelfInv'
<1>0. sys \in Systems
  BY DEF SelfInv, SelfTypes
<1>1. /\ at = "unregister" /\ Goes("delete")
      /\ \/ sys' \in S!Unregister(sys) /\ clean' = clean
         \/ sys' = sys /\ ~clean' /\ (S!Unregister(sys) = {} \/ mishaps' # 0)
  BY UndoSteps
<1>2. /\ sys' \in Systems
      /\ sys'.origin = sys.origin /\ sys'.enabled = sys.enabled /\ sys'.ver = sys.ver
      /\ sys'.proc = sys.proc \/ (sys.proc = "waiting" /\ sys'.proc = "none")
      /\ sys'.reg \in {sys.reg, "missing"} /\ (clean' => sys'.reg = "missing" /\ clean)
  BY <1>0, <1>1, Unregistered
<1>3. SelfTypes' /\ UpgradeInv' /\ (mishaps' = 0 => mishaps = 0)
  BY <1>1, <1>2, GoesTypes DEF SelfPlaces
<1>4. ProcInv'
  BY <1>1, <1>2 DEF SelfInv, ProcInv, Goes, Stays
<1>5. InstallInv'
  BY <1>1 DEF InstallInv, Goes
<1>6. RemoveInv'
  BY <1>1, <1>2, <1>3 DEF SelfInv, SelfTypes, ProcInv, RemoveInv, Goes, Stays, Unarmed, InstallPlaces, S!Defined
<1> QED
  BY <1>3, <1>4, <1>5, <1>6 DEF SelfInv

LEMMA UndoOriginKeeps ==
  ASSUME SelfInv, S!Undo("undo_origin", {[sys EXCEPT !.origin = FALSE]}, "idle")
  PROVE  SelfInv'
<1>0. sys \in Systems
  BY DEF SelfInv, SelfTypes
<1>1. /\ at = "undo_origin" /\ Leaves
      /\ sys' \in {[sys EXCEPT !.origin = FALSE]} \/ sys' = sys
  BY UndoSteps
<1>2. CASE sys' = sys
  BY <1>1, <1>2, LeavesKeeps
<1>3. CASE sys' = [sys EXCEPT !.origin = FALSE]
  <2>1. /\ sys' \in Systems /\ ~sys'.origin
        /\ sys'.reg = sys.reg /\ sys'.enabled = sys.enabled /\ sys'.proc = sys.proc /\ sys'.ver = sys.ver
    BY <1>0, <1>3, SetOrigin, Truth
  <2>2. at = "undo_origin" /\ Leaves
    BY <1>1
  <2>3. mishaps' \in Nat /\ (mishaps' = 0 => mishaps = 0)
    BY <2>2, CountsIs DEF SelfInv, Leaves
  <2>4. SelfTypes'
    BY <2>1, <2>2, <2>3, NoFileIs DEF SelfInv, SelfTypes, Leaves, Stays, SelfPlaces
  <2>5. ProcInv'
    BY <2>1, <2>2 DEF SelfInv, ProcInv, Leaves, Stays
  <2>6. UpgradeInv'
    BY <2>2 DEF SelfInv, UpgradeInv, Leaves, Stays
  <2>7. InstallInv'
    BY <2>2 DEF InstallInv, Leaves
  <2>8. RemoveInv'
    BY <2>1, <2>2, <2>3 DEF SelfInv, RemoveInv, Leaves, Stays, Unarmed, InstallPlaces, S!Defined
  <2> QED
    BY <2>4, <2>5, <2>6, <2>7, <2>8 DEF SelfInv
<1> QED
  BY <1>1, <1>2, <1>3

LEMMA CleanupKeeps ==
  ASSUME SelfInv, S!CleanupPartialInstall
  PROVE  SelfInv'
  BY StopKeeps, DisableKeeps, UnregisterKeeps, UndoOriginKeeps DEF S!CleanupPartialInstall

LEMMA RemoveStopKeeps ==
  ASSUME SelfInv, S!RemoveStop
  PROVE  SelfInv'
<1>0. sys \in Systems /\ at = "stop" /\ staged = S!NoFile
  BY DEF SelfInv, SelfTypes, UpgradeInv, S!RemoveStop
<1>b. S!Overlooked \in BOOLEAN
  BY DEF S!Overlooked
<1>1. \/ sys' = sys /\ Leaves
      \/ S!IsActive(sys) /\ sys' \in S!Stop(sys) /\ Goes("exit")
      \/ ~S!IsActive(sys) /\ sys' = sys /\ Goes("disable") /\ clean' = ~S!Overlooked
  <2>1. CASE S!Ends /\ clean' = FALSE /\ sys' = sys /\ (S!Trouble \/ UNCHANGED S!counts)
    <3>1. Counts
      BY <2>1 DEF S!Trouble, S!counts, Counts
    <3>2. Stays /\ staged' = staged
      BY DEF S!RemoveStop, S!file, Stays
    <3> QED
      BY <1>0, <2>1, <3>1, <3>2, Truth DEF S!Ends, Leaves
  <2>2. ASSUME IF S!IsActive(sys) THEN sys' \in S!Stop(sys) /\ S!Goto("exit") ELSE UNCHANGED sys /\ S!Goto("disable"),
               clean' = ~S!Overlooked, UNCHANGED S!counts
        PROVE  \/ S!IsActive(sys) /\ sys' \in S!Stop(sys) /\ Goes("exit")
               \/ ~S!IsActive(sys) /\ sys' = sys /\ Goes("disable") /\ clean' = ~S!Overlooked
    <3>1. Counts
      BY <2>2 DEF S!counts, Counts
    <3>2. Stays /\ staged' = staged
      BY DEF S!RemoveStop, S!file, Stays
    <3>3. clean' \in BOOLEAN
      BY <1>b, <2>2
    <3> QED
      BY <2>2, <3>1, <3>2, <3>3 DEF S!Goto, Goes
  <2> QED
    BY <2>1, <2>2 DEF S!RemoveStop
<1>2. CASE sys' = sys /\ Leaves
  BY <1>2, LeavesKeeps
<1>3. CASE S!IsActive(sys) /\ sys' \in S!Stop(sys) /\ Goes("exit")
  <2>1. /\ sys' \in Systems
        /\ sys'.reg = sys.reg /\ sys'.origin = sys.origin /\ sys'.enabled = sys.enabled
        /\ \/ sys'.proc = "none" /\ sys'.ver = 0
           \/ /\ manager = "sysvinit" /\ sys.proc \in {"running", "dying"}
              /\ sys'.proc = "dying" /\ sys'.ver = sys.ver
    BY <1>0, <1>3, Stopped
  <2>2. Goes("exit")
    BY <1>3
  <2>3. SelfTypes' /\ UpgradeInv' /\ (mishaps' = 0 => mishaps = 0)
    BY <1>0, <2>1, <2>2, GoesTypes DEF SelfPlaces
  <2>4. ProcInv'
    BY <2>1, <2>2 DEF SelfInv, ProcInv, Goes, Stays
  <2>5. InstallInv'
    BY <2>2 DEF InstallInv, Goes
  <2>6. ~removed
    BY <1>3 DEF SelfInv, RemoveInv, S!IsActive, SelfTypes
  <2>7. RemoveInv'
    BY <1>0, <2>1, <2>2, <2>3, <2>6 DEF SelfInv, RemoveInv, Goes, Stays, Unarmed, InstallPlaces, S!Defined
  <2> QED
    BY <2>3, <2>4, <2>5, <2>7 DEF SelfInv
<1>4. CASE ~S!IsActive(sys) /\ sys' = sys /\ Goes("disable") /\ clean' = ~S!Overlooked
  <2>1. sys' = sys /\ Goes("disable")
    BY <1>4
  <2>2. SelfTypes' /\ UpgradeInv' /\ (mishaps' = 0 => mishaps = 0)
    BY <1>0, <2>1, GoesTypes DEF SelfPlaces
  <2>3. ProcInv'
    BY <2>1 DEF SelfInv, ProcInv, Goes, Stays
  <2>4. InstallInv'
    BY <2>1 DEF InstallInv, Goes
  <2>5. clean' => sys.proc \notin {"running", "waiting", "dying"}
    BY <1>4 DEF S!Overlooked, S!IsActive, SelfInv, ProcInv
  <2>6. RemoveInv'
    BY <1>0, <2>1, <2>2, <2>5 DEF SelfInv, RemoveInv, Goes, Stays, Unarmed, InstallPlaces, S!Defined
  <2> QED
    BY <2>2, <2>3, <2>4, <2>6 DEF SelfInv
<1> QED
  BY <1>1, <1>2, <1>3, <1>4

LEMMA RemoveExitKeeps ==
  ASSUME SelfInv, S!RemoveExit
  PROVE  SelfInv'
<1>0. sys \in Systems /\ at = "exit" /\ staged = S!NoFile /\ clean \in BOOLEAN /\ sys.proc \in {"none", "dying"}
  BY DEF SelfInv, SelfTypes, UpgradeInv, RemoveInv, S!RemoveExit
<1>1. sys' = sys /\ (Leaves \/ (~S!IsActive(sys) /\ Goes("disable")))
  BY <1>0 DEF S!RemoveExit, S!Ends, S!Goto, S!counts, S!file, S!host, Leaves, Goes, Stays, Counts
<1>2. CASE Leaves
  BY <1>1, <1>2, LeavesKeeps
<1>3. CASE ~S!IsActive(sys) /\ Goes("disable")
  <2>1. sys' = sys /\ Goes("disable")
    BY <1>1, <1>3
  <2>2. SelfTypes' /\ UpgradeInv' /\ (mishaps' = 0 => mishaps = 0)
    BY <1>0, <2>1, GoesTypes DEF SelfPlaces
  <2>3. ProcInv'
    BY <2>1 DEF SelfInv, ProcInv, Goes, Stays
  <2>4. InstallInv'
    BY <2>1 DEF InstallInv, Goes
  <2>5. sys.proc \notin {"running", "waiting", "dying"}
    BY <1>0, <1>3 DEF S!IsActive, SelfInv, ProcInv
  <2>6. RemoveInv'
    BY <1>0, <2>1, <2>2, <2>5 DEF SelfInv, RemoveInv, Goes, Stays, Unarmed, InstallPlaces, S!Defined
  <2> QED
    BY <2>2, <2>3, <2>4, <2>6 DEF SelfInv
<1> QED
  BY <1>1, <1>2, <1>3

LEMMA RemoveRestKeeps ==
  ASSUME SelfInv, S!RemoveRest
  PROVE  SelfInv'
  BY RemoveDisableKeeps, RemoveUnregisterKeeps DEF S!RemoveRest

LEMMA RemoveDeleteKeeps ==
  ASSUME SelfInv, S!RemoveDelete
  PROVE  SelfInv'
<1>0. sys \in Systems /\ at = "delete" /\ staged = S!NoFile /\ clean \in BOOLEAN /\ removed \in BOOLEAN
  BY DEF SelfInv, SelfTypes, UpgradeInv, S!RemoveDelete
<1>1. CASE S!Trouble /\ S!Ends /\ clean' = FALSE /\ UNCHANGED <<sys, removed>>
  <2>1. Leaves /\ sys' = sys
    BY <1>0, <1>1, Truth DEF S!RemoveDelete, S!Trouble, S!Ends, S!file, Leaves, Stays, Counts
  <2> QED
    BY <2>1, LeavesKeeps
<1>2. CASE /\ sys' = [sys EXCEPT !.origin = FALSE] /\ S!Ends
           /\ removed' = (removed \/ clean)
           /\ UNCHANGED <<clean, S!counts>>
  <2>1. /\ sys' \in Systems /\ ~sys'.origin
        /\ sys'.reg = sys.reg /\ sys'.enabled = sys.enabled /\ sys'.proc = sys.proc /\ sys'.ver = sys.ver
    BY <1>0, <1>2, SetOrigin, Truth
  <2>2. /\ at' = "idle" /\ verb' = "none" /\ staged' = S!NoFile /\ bin' = bin /\ manager' = manager
        /\ clean' = clean /\ mishaps' = mishaps /\ removed' = (removed \/ clean)
    BY <1>0, <1>2 DEF S!RemoveDelete, S!Ends, S!counts, S!file
  <2>3. removed' \in BOOLEAN
    BY <1>0, <2>2
  <2>4. SelfTypes'
    BY <2>1, <2>2, <2>3, NoFileIs DEF SelfInv, SelfTypes, SelfPlaces
  <2>5. ProcInv'
    BY <2>1, <2>2 DEF SelfInv, ProcInv
  <2>6. UpgradeInv'
    BY <2>2 DEF SelfInv, UpgradeInv
  <2>7. InstallInv'
    BY <2>2 DEF InstallInv
  <2>8. RemoveInv'
    BY <1>0, <2>1, <2>2 DEF SelfInv, RemoveInv, Unarmed, InstallPlaces, S!Defined
  <2> QED
    BY <2>4, <2>5, <2>6, <2>7, <2>8 DEF SelfInv
<1> QED
  BY <1>1, <1>2 DEF S!RemoveDelete



LEMMA BeginKeeps ==
  ASSUME SelfInv, NEW o \in {"install", "upgrade", "remove"}, S!Begin(o)
  PROVE  SelfInv'
<1>1. /\ at = "idle" /\ sys' = sys /\ bin' = bin /\ staged' = staged /\ manager' = manager
      /\ mishaps' = mishaps /\ verb' = o /\ clean' = TRUE
      /\ at' = (CASE o = "install" -> "write" [] o = "upgrade" -> "fetch" [] o = "remove" -> "stop")
      /\ removed' = (removed /\ o # "install")
  BY DEF S!Begin, S!Running, S!host, S!file
<1>2. at' \in {"write", "fetch", "stop"} /\ (at' = "write" => ~removed') /\ (removed' => removed)
  BY <1>1
<1>3. removed' \in BOOLEAN /\ clean' \in BOOLEAN
  BY <1>1, Truth DEF SelfInv, SelfTypes
<1>4. SelfTypes'
  BY <1>1, <1>2, <1>3 DEF SelfInv, SelfTypes, SelfPlaces
<1>5. ProcInv'
  BY <1>1 DEF SelfInv, ProcInv
<1>6. UpgradeInv'
  BY <1>1, <1>2 DEF SelfInv, UpgradeInv
<1>7. InstallInv'
  BY <1>2 DEF InstallInv
<1>8. RemoveInv'
  BY <1>1, <1>2 DEF SelfInv, RemoveInv, Unarmed, InstallPlaces, S!Defined
<1> QED
  BY <1>4, <1>5, <1>6, <1>7, <1>8 DEF SelfInv

LEMMA DaemonDiesKeeps ==
  ASSUME SelfInv, S!DaemonDies
  PROVE  SelfInv'
<1> DEFINE p == CASE manager = "systemd" -> "waiting" [] manager = "openrc" -> "crashed" [] OTHER -> "none"
<1>0. sys \in Systems /\ mishaps \in Nat /\ manager \in {"systemd", "openrc", "sysvinit"}
  BY DEF SelfInv, SelfTypes
<1>1. /\ sys.proc = "running" /\ mishaps' = mishaps + 1 /\ sys' = [S!Gone(sys) EXCEPT !.proc = p]
      /\ manager' = manager /\ bin' = bin /\ staged' = staged /\ at' = at /\ verb' = verb
      /\ want' = want /\ listing' = listing /\ clean' = clean /\ removed' = removed
  BY DEF S!DaemonDies, S!Trouble, S!file
<1>2. /\ p \in Processes /\ p \notin {"running", "dying"}
      /\ (p = "waiting" => manager = "systemd") /\ (p = "crashed" => manager = "openrc")
  BY <1>0 DEF Processes
<1> HIDE DEF p
<1>3. /\ sys' \in Systems /\ sys'.proc = p /\ sys'.ver = 0
      /\ sys'.reg = sys.reg /\ sys'.origin = sys.origin /\ sys'.enabled = sys.enabled
  <2> DEFINE g == S!Gone(sys)
  <2>1. /\ g \in Systems /\ g.ver = 0
        /\ g.reg = sys.reg /\ g.origin = sys.origin /\ g.enabled = sys.enabled
    BY <1>0, GoneIs
  <2>2. sys' = [g EXCEPT !.proc = p]
    BY <1>1
  <2> HIDE DEF g
  <2> QED
    BY <1>2, <2>1, <2>2, SetProc
<1>9. mishaps' \in Nat /\ mishaps' # 0
  BY <1>0, <1>1
<1>4. SelfTypes'
  BY <1>1, <1>3, <1>9 DEF SelfInv, SelfTypes
<1>5. ProcInv'
  BY <1>1, <1>2, <1>3 DEF SelfInv, ProcInv
<1>6. UpgradeInv'
  BY <1>1 DEF SelfInv, UpgradeInv
<1>7. InstallInv'
  BY <1>1, <1>2, <1>3 DEF SelfInv, InstallInv
<1>8. RemoveInv'
  BY <1>1, <1>3, <1>9 DEF SelfInv, RemoveInv, Unarmed, InstallPlaces, S!Defined
<1> QED
  BY <1>4, <1>5, <1>6, <1>7, <1>8 DEF SelfInv

LEMMA AutoRestartKeeps ==
  ASSUME SelfInv, S!AutoRestart
  PROVE  SelfInv'
<1>0. sys \in Systems /\ bin.ver \in Nat /\ bin.ver # 0
  BY DEF SelfInv, SelfTypes, UpgradeInv, Programs
<1>1. /\ sys.proc = "waiting" /\ mishaps' = mishaps
      /\ manager' = manager /\ bin' = bin /\ staged' = staged /\ at' = at /\ verb' = verb
      /\ want' = want /\ listing' = listing /\ clean' = clean /\ removed' = removed
  BY DEF S!AutoRestart, S!counts, S!file
<1>2. /\ sys' \in Systems /\ sys'.proc = "running" /\ sys'.ver = bin.ver
      /\ sys'.reg = sys.reg /\ sys'.origin = sys.origin /\ sys'.enabled = sys.enabled
  BY <1>0, StartedIs DEF S!AutoRestart
<1>4. SelfTypes'
  BY <1>1, <1>2 DEF SelfInv, SelfTypes
<1>5. ProcInv'
  BY <1>0, <1>1, <1>2 DEF SelfInv, ProcInv
<1>6. UpgradeInv'
  BY <1>1 DEF SelfInv, UpgradeInv
<1>7. InstallInv'
  BY <1>1, <1>2 DEF SelfInv, InstallInv
<1>8. RemoveInv'
  BY <1>1, <1>2 DEF SelfInv, RemoveInv, Unarmed, InstallPlaces, S!Defined
<1> QED
  BY <1>4, <1>5, <1>6, <1>7, <1>8 DEF SelfInv

LEMMA ExitsKeeps ==
  ASSUME SelfInv, S!Exits
  PROVE  SelfInv'
<1>0. sys \in Systems
  BY DEF SelfInv, SelfTypes
<1>1. /\ sys.proc = "dying" /\ mishaps' = mishaps
      /\ manager' = manager /\ bin' = bin /\ staged' = staged /\ at' = at /\ verb' = verb
      /\ want' = want /\ listing' = listing /\ clean' = clean /\ removed' = removed
  BY DEF S!Exits, S!counts, S!file
<1>2. /\ sys' \in Systems /\ sys'.proc = "none" /\ sys'.ver = 0
      /\ sys'.reg = sys.reg /\ sys'.origin = sys.origin /\ sys'.enabled = sys.enabled
  BY <1>0, GoneIs DEF S!Exits
<1>4. SelfTypes'
  BY <1>1, <1>2 DEF SelfInv, SelfTypes
<1>5. ProcInv'
  BY <1>1, <1>2 DEF SelfInv, ProcInv
<1>6. UpgradeInv'
  BY <1>1 DEF SelfInv, UpgradeInv
<1>7. InstallInv'
  BY <1>1, <1>2 DEF SelfInv, InstallInv
<1>8. RemoveInv'
  BY <1>1, <1>2 DEF SelfInv, RemoveInv, Unarmed, InstallPlaces, S!Defined
<1> QED
  BY <1>4, <1>5, <1>6, <1>7, <1>8 DEF SelfInv

LEMMA KilledKeeps ==
  ASSUME SelfInv, S!Killed
  PROVE  SelfInv'
<1>1. Leaves /\ sys' = sys
  BY Truth DEF S!Killed, S!Trouble, S!Ends, S!host, Leaves, Stays, Counts
<1> QED
  BY <1>1, LeavesKeeps

LEMMA BootKeeps ==
  ASSUME SelfInv, S!Boot
  PROVE  SelfInv'
<1>0. sys \in Systems /\ bin.ver \in Nat /\ bin.ver # 0 /\ mishaps \in Nat
  BY DEF SelfInv, SelfTypes, UpgradeInv, Programs
<1>1. Leaves /\ mishaps' = mishaps + 1
  BY Truth DEF S!Boot, S!Trouble, S!Ends, Leaves, Stays, Counts
<1>2. /\ sys' \in Systems
      /\ sys'.reg = sys.reg /\ sys'.origin = sys.origin /\ sys'.enabled = sys.enabled
      /\ \/ S!Defined(sys) /\ sys'.proc = "running" /\ sys'.ver = bin.ver
         \/ sys'.proc = "none" /\ sys'.ver = 0
  <2>1. CASE sys.enabled /\ S!Defined(sys)
    <3>1. sys' = S!Started(sys, bin.ver)
      BY <2>1 DEF S!Boot
    <3> QED
      <4>1. /\ sys' \in Systems /\ sys'.proc = "running" /\ sys'.ver = bin.ver
            /\ sys'.reg = sys.reg /\ sys'.origin = sys.origin /\ sys'.enabled = sys.enabled
        BY <1>0, <3>1, StartedIs
      <4> QED
        BY <2>1, <4>1, Zenon
  <2>2. CASE ~(sys.enabled /\ S!Defined(sys))
    <3>1. sys' = S!Gone(sys)
      BY <2>2 DEF S!Boot
    <3> QED
      BY <1>0, <3>1, GoneIs
  <2> QED
    BY <2>1, <2>2
<1>3. mishaps' \in Nat /\ mishaps' # 0
  BY <1>0, <1>1
<1>4. SelfTypes'
  BY <1>1, <1>2, <1>3, NoFileIs DEF SelfInv, SelfTypes, Leaves, Stays, SelfPlaces
<1>5. ProcInv'
  BY <1>0, <1>1, <1>2 DEF SelfInv, ProcInv, Leaves, Stays
<1>6. UpgradeInv'
  BY <1>1 DEF SelfInv, UpgradeInv, Leaves, Stays
<1>7. InstallInv'
  BY <1>1 DEF InstallInv, Leaves
<1>8. RemoveInv'
  BY <1>1, <1>2, <1>3 DEF SelfInv, RemoveInv, Leaves, Stays, Unarmed, InstallPlaces, S!Defined
<1> QED
  BY <1>4, <1>5, <1>6, <1>7, <1>8 DEF SelfInv

(* Steps of an upgrade that go on leave the service alone. *)
Moves(l) ==
  /\ at' = l /\ verb' = verb /\ sys' = sys /\ clean' = clean /\ mishaps' = mishaps
  /\ manager' = manager /\ removed' = removed

LEMMA MovesKeeps ==
  ASSUME SelfInv, NEW l \in {"compare", "download", "verify", "rename", "refresh"},
         at \in {"fetch", "compare", "download", "verify", "rename"}, Moves(l),
         bin' \in Programs, staged' \in Programs
  PROVE  SelfTypes' /\ ProcInv' /\ InstallInv' /\ RemoveInv'
<1>1. SelfTypes'
  BY DEF SelfInv, SelfTypes, SelfPlaces, Moves
<1>2. ProcInv'
  BY DEF SelfInv, ProcInv, Moves
<1>3. InstallInv'
  BY DEF InstallInv, Moves
<1>4. RemoveInv'
  BY DEF SelfInv, RemoveInv, Moves, Unarmed, InstallPlaces, S!Defined
<1> QED
  BY <1>1, <1>2, <1>3, <1>4

LEMMA FetchKeeps ==
  ASSUME SelfInv, S!Fetch
  PROVE  SelfInv'
<1>0. at = "fetch" /\ staged = S!NoFile /\ bin \in Programs /\ staged \in Programs /\ bin.ver # 0 /\ bin.runs
  BY DEF SelfInv, SelfTypes, UpgradeInv, S!Fetch
<1>1. CASE S!Trouble /\ S!Ends /\ clean' = FALSE
  <2>1. Leaves /\ sys' = sys
    BY <1>0, <1>1, Truth DEF S!Fetch, S!Trouble, S!Ends, S!host, S!file, Leaves, Stays, Counts
  <2> QED
    BY <2>1, LeavesKeeps
<1>2. ASSUME NEW l \in S!Listings, listing' = l, want' = S!Select(l), at' = "compare",
             UNCHANGED <<verb, clean, S!counts>>
      PROVE  SelfInv'
  <2>1. Moves("compare") /\ bin' = bin /\ staged' = staged
    BY <1>2 DEF S!Fetch, S!host, S!file, S!counts, Moves
  <2>2. SelfTypes' /\ ProcInv' /\ InstallInv' /\ RemoveInv'
    BY <1>0, <2>1, MovesKeeps
  <2>3. UpgradeInv'
    BY <1>0, <1>2, <2>1 DEF UpgradeInv
  <2> QED
    BY <2>2, <2>3 DEF SelfInv
<1> QED
  BY <1>1, <1>2 DEF S!Fetch

LEMMA ListedEntries ==
  ASSUME NEW l \in S!Listings
  PROVE  l.entries \in Seq(Release) /\ (l.mode # "newest" => l.entries[1] \in Release /\ Len(l.entries) = 1)
<1>1. CASE \E n \in 0..3 : l.entries \in [1..n -> Release] /\ l.mode = "newest"
  BY <1>1
<1>2. CASE l.entries \in [1..1 -> Release]
  <2> DEFINE e == l.entries
  <2> HIDE DEF e
  <2>1. e \in [1..1 -> Release] /\ 1 \in Nat
    BY <1>2 DEF e
  <2>2. e \in Seq(Release)
    BY <2>1
  <2>3. Len(e) = 1
    BY <2>1, <2>2
  <2>4. e[1] \in Release
    BY <2>2, <2>3
  <2> QED
    BY <2>2, <2>3, <2>4 DEF e
<1>3. \/ l \in [mode : {"newest"}, asked : {S!NoRelease}, entries : UNION {[1..n -> Release] : n \in 0..3}]
      \/ l \in [mode : {"latest"}, asked : {S!NoRelease}, entries : [1..1 -> Release]]
      \/ l \in [mode : {"tag"}, asked : {r \in Release : r.valid}, entries : [1..1 -> Release]]
  BY DEF S!Listings
<1>4. ASSUME l \in [mode : {"newest"}, asked : {S!NoRelease}, entries : UNION {[1..n -> Release] : n \in 0..3}]
      PROVE  \E n \in 0..3 : l.entries \in [1..n -> Release] /\ l.mode = "newest"
  <2>1. l.mode = "newest" /\ l.entries \in UNION {[1..n -> Release] : n \in 0..3}
    BY <1>4
  <2> QED
    BY <2>1
<1>5. ASSUME \/ l \in [mode : {"latest"}, asked : {S!NoRelease}, entries : [1..1 -> Release]]
             \/ l \in [mode : {"tag"}, asked : {r \in Release : r.valid}, entries : [1..1 -> Release]]
      PROVE  l.entries \in [1..1 -> Release]
  BY <1>5
<1> QED
  BY <1>1, <1>2, <1>3, <1>4, <1>5

LEMMA SelectedIsListed ==
  ASSUME NEW l \in S!Listings, S!Select(l) # S!NoRelease
  PROVE  S!Select(l) \in Release
<1>1. l.mode \in {"newest", "latest", "tag"}
  BY DEF S!Listings
<1>2. CASE l.mode = "newest"
  <2>1. S!Select(l) = S!Best(l.entries)
    BY <1>2 DEF S!Select
  <2>2. Leads(S!Best(l.entries), l.entries, Len(l.entries))
    BY <2>1, BestIsNewest, ListedEntries
  <2>3. PICK j \in 1..Len(l.entries) : S!Best(l.entries) = l.entries[j]
    BY <2>1, <2>2 DEF Leads
  <2> QED
    BY <2>1, <2>3, ListedEntries
<1>3. CASE l.mode = "latest"
  BY <1>3, ListedEntries DEF S!Select
<1>4. CASE l.mode = "tag"
  BY <1>4, ListedEntries DEF S!Select
<1> QED
  BY <1>1, <1>2, <1>3, <1>4

LEMMA CompareKeeps ==
  ASSUME SelfInv, S!Compare
  PROVE  SelfInv'
<1>0. at = "compare" /\ staged = S!NoFile /\ bin \in Programs /\ staged \in Programs /\ clean \in BOOLEAN
  BY DEF SelfInv, SelfTypes, UpgradeInv, S!Compare
<1>1. CASE S!Ends
  <2>1. Leaves /\ sys' = sys
    BY <1>0, <1>1 DEF S!Compare, S!Ends, S!host, S!file, S!counts, Leaves, Stays, Counts
  <2> QED
    BY <2>1, LeavesKeeps
<1>2. CASE want # S!NoRelease /\ at' = "download" /\ UNCHANGED <<verb, want>>
  <2>1. Moves("download") /\ bin' = bin /\ staged' = staged /\ want' = want
    BY <1>2 DEF S!Compare, S!host, S!file, S!counts, Moves
  <2>2. SelfTypes' /\ ProcInv' /\ InstallInv' /\ RemoveInv'
    BY <1>0, <2>1, MovesKeeps
  <2>3. want \in Release
    BY <1>0, <1>2, SelectedIsListed DEF SelfInv, UpgradeInv
  <2>4. UpgradeInv'
    BY <1>0, <1>2, <2>1, <2>3 DEF SelfInv, UpgradeInv
  <2> QED
    BY <2>2, <2>4 DEF SelfInv
<1> QED
  BY <1>1, <1>2 DEF S!Compare

LEMMA DownloadKeeps ==
  ASSUME SelfInv, S!Download
  PROVE  SelfInv'
<1>0. at = "download" /\ bin \in Programs /\ want \in Release
  BY DEF SelfInv, SelfTypes, UpgradeInv, S!Download
<1>1. CASE S!Trouble /\ staged' = S!NoFile /\ S!Ends /\ clean' = FALSE
  <2>1. Leaves /\ sys' = sys
    BY <1>1, Truth DEF S!Download, S!Trouble, S!Ends, S!host, Leaves, Stays, Counts
  <2> QED
    BY <2>1, LeavesKeeps
<1>2. ASSUME NEW r \in BOOLEAN, staged' = [ver |-> S!Number(want), runs |-> r],
             S!Goto("verify"), UNCHANGED <<clean, S!counts>>
      PROVE  SelfInv'
  <2>1. Moves("verify") /\ bin' = bin /\ want' = want
    BY <1>2 DEF S!Download, S!Goto, S!host, S!counts, Moves
  <2>2. S!Number(want) \in Nat /\ S!Number(want) # 0
    BY <1>0, PrecedenceIsNumber DEF S!Number
  <2>3. staged' \in Programs /\ staged'.ver # 0
    BY <1>2, <2>2 DEF Programs
  <2>4. SelfTypes' /\ ProcInv' /\ InstallInv' /\ RemoveInv'
    BY <1>0, <2>1, <2>3, MovesKeeps
  <2>5. UpgradeInv'
    BY <1>0, <2>1, <2>3 DEF SelfInv, UpgradeInv, Moves
  <2> QED
    BY <2>4, <2>5 DEF SelfInv
<1> QED
  BY <1>1, <1>2 DEF S!Download

LEMMA VerifyKeeps ==
  ASSUME SelfInv, S!Verify
  PROVE  SelfInv'
<1>0. at = "verify" /\ bin \in Programs /\ staged \in Programs /\ clean \in BOOLEAN
  BY DEF SelfInv, SelfTypes, S!Verify
<1>1. CASE staged.runs
  <2>1. Moves("rename") /\ bin' = bin /\ staged' = staged /\ want' = want
    BY <1>1 DEF S!Verify, S!Goto, S!host, S!counts, Moves
  <2>2. SelfTypes' /\ ProcInv' /\ InstallInv' /\ RemoveInv'
    BY <1>0, <2>1, MovesKeeps
  <2>3. UpgradeInv'
    BY <1>0, <1>1, <2>1 DEF SelfInv, UpgradeInv, Moves
  <2> QED
    BY <2>2, <2>3 DEF SelfInv
<1>2. CASE ~staged.runs
  <2>1. Leaves /\ sys' = sys
    BY <1>0, <1>2 DEF S!Verify, S!Ends, S!host, S!counts, Leaves, Stays, Counts
  <2> QED
    BY <2>1, LeavesKeeps
<1> QED
  BY <1>1, <1>2

LEMMA InstallStagedKeeps ==
  ASSUME SelfInv, S!InstallStaged
  PROVE  SelfInv'
<1>0. at = "rename" /\ staged \in Programs /\ staged.ver # 0 /\ staged.runs
  BY DEF SelfInv, SelfTypes, UpgradeInv, S!InstallStaged
<1>1. CASE S!Trouble /\ staged' = S!NoFile /\ S!Ends /\ clean' = FALSE /\ UNCHANGED bin
  <2>1. Leaves /\ sys' = sys
    BY <1>1, Truth DEF S!InstallStaged, S!Trouble, S!Ends, S!host, Leaves, Stays, Counts
  <2> QED
    BY <2>1, LeavesKeeps
<1>2. CASE bin' = staged /\ staged' = S!NoFile /\ S!Goto("refresh") /\ UNCHANGED <<clean, S!counts>>
  <2>1. Moves("refresh") /\ bin' = staged /\ staged' = S!NoFile
    BY <1>2 DEF S!InstallStaged, S!Goto, S!host, S!counts, Moves
  <2>2. SelfTypes' /\ ProcInv' /\ InstallInv' /\ RemoveInv'
    BY <1>0, <2>1, NoFileIs, MovesKeeps
  <2>3. UpgradeInv'
    BY <1>0, <2>1 DEF SelfInv, UpgradeInv, Moves
  <2> QED
    BY <2>2, <2>3 DEF SelfInv
<1> QED
  BY <1>1, <1>2 DEF S!InstallStaged

LEMMA RefreshKeeps ==
  ASSUME SelfInv, S!RefreshDaemon
  PROVE  SelfInv'
<1>0. sys \in Systems /\ at = "refresh" /\ staged = S!NoFile /\ clean \in BOOLEAN /\ bin.ver \in Nat /\ bin.ver # 0
  BY DEF SelfInv, SelfTypes, UpgradeInv, Programs, S!RefreshDaemon
<1> DEFINE due == sys.reg \in {"ours", "other"} /\ S!IsActive(sys)
<1>1. /\ \/ sys' = sys /\ (clean' = clean \/ clean' = FALSE)
         \/ due /\ sys' \in S!Restart(sys, bin.ver) /\ clean' = clean
         \/ due /\ sys' \in S!RestartFails(sys) /\ clean' = FALSE
      /\ mishaps' = mishaps \/ mishaps' = mishaps + 1
  BY DEF S!RefreshDaemon, S!Trouble, S!counts
<1>2. clean' \in BOOLEAN
  BY <1>0, <1>1, Truth
<1>3. Leaves
  BY <1>0, <1>1, <1>2 DEF S!RefreshDaemon, S!Ends, S!file, Leaves, Stays, Counts
<1>4. CASE sys' = sys
  BY <1>3, <1>4, LeavesKeeps
<1>5. CASE due /\ sys' \in S!Restart(sys, bin.ver) \cup S!RestartFails(sys)
  <2>1. /\ sys' \in Systems
        /\ sys'.reg = sys.reg /\ sys'.origin = sys.origin /\ sys'.enabled = sys.enabled
        /\ \/ sys'.proc = "running" /\ sys'.ver = bin.ver
           \/ sys'.proc = "dying" /\ sys'.ver = sys.ver /\ manager = "sysvinit"
    BY <1>0, <1>5, LaunchIs, RaceIs
  <2>2. manager = "sysvinit" => sys.proc \in {"running", "dying"}
    BY <1>5 DEF S!IsActive
  <2>3. sys.reg \in {"ours", "other"}
    BY <1>5
  <2> HIDE DEF due
  <2>4. mishaps' \in Nat /\ (mishaps' = 0 => mishaps = 0)
    BY <1>3, CountsIs DEF SelfInv, Leaves
  <2>5. SelfTypes'
    BY <1>3, <2>1, <2>4, NoFileIs DEF SelfInv, SelfTypes, Leaves, Stays, SelfPlaces
  <2>6. ProcInv'
    BY <1>0, <1>3, <2>1, <2>2 DEF SelfInv, ProcInv, Leaves, Stays
  <2>7. UpgradeInv'
    BY <1>3 DEF SelfInv, UpgradeInv, Leaves, Stays
  <2>8. InstallInv'
    BY <1>3 DEF InstallInv, Leaves
  <2>9. RemoveInv'
    BY <1>3, <2>1, <2>3, <2>4 DEF SelfInv, RemoveInv, Leaves, Stays, Unarmed, InstallPlaces, S!Defined
  <2> QED
    BY <2>5, <2>6, <2>7, <2>8, <2>9 DEF SelfInv
<1> QED
  BY <1>1, <1>4, <1>5

LEMMA SelfTurns == SelfInv /\ [S!Next]_selfVars => SelfInv'
<1> SUFFICES ASSUME SelfInv, [S!Next]_selfVars PROVE SelfInv'
  OBVIOUS
<1>1. CASE S!Install
  BY <1>1, WriteOriginKeeps, DoRegisterKeeps, DoEnableKeeps, LaunchKeeps, LaunchRaceKeeps, AwaitPidKeeps, CleanupKeeps
     DEF S!Install
<1>2. CASE S!Remove
  BY <1>2, RemoveStopKeeps, RemoveExitKeeps, RemoveRestKeeps, RemoveDeleteKeeps DEF S!Remove
<1>3. CASE S!Upgrade
  BY <1>3, FetchKeeps, CompareKeeps, DownloadKeeps, VerifyKeeps, InstallStagedKeeps, RefreshKeeps DEF S!Upgrade
<1>4. CASE S!Killed \/ S!DaemonDies \/ S!AutoRestart \/ S!Exits \/ S!Boot
  BY <1>4, KilledKeeps, DaemonDiesKeeps, AutoRestartKeeps, ExitsKeeps, BootKeeps
<1>5. CASE \E o \in {"install", "upgrade", "remove"} : S!Begin(o)
  BY <1>5, BeginKeeps
<1>6. CASE UNCHANGED selfVars
  <2>1. SelfTypes'
    BY <1>6 DEF selfVars, SelfInv, SelfTypes
  <2>2. ProcInv'
    BY <1>6 DEF selfVars, SelfInv, ProcInv
  <2>3. UpgradeInv'
    BY <1>6 DEF selfVars, SelfInv, UpgradeInv
  <2>4. InstallInv'
    BY <1>6 DEF selfVars, SelfInv, InstallInv
  <2>5. RemoveInv'
    BY <1>6 DEF selfVars, SelfInv, RemoveInv, Unarmed, S!Defined
  <2> QED
    BY <2>1, <2>2, <2>3, <2>4, <2>5 DEF SelfInv
<1> QED
  BY <1>1, <1>2, <1>3, <1>4, <1>5, <1>6 DEF S!Next

LEMMA SelfInductive == SideBySide => []SelfInv
<1>1. Parts => SelfInv
  BY SelfInitially DEF Parts
<1>2. SelfInv /\ [Steps]_all => SelfInv'
  BY SelfTurns, EachGoesOn
<1> QED
  BY <1>1, <1>2, PTL DEF SideBySide

LEMMA SelectsAsAsked ==
  ASSUME SelfInv
  PROVE  S!SelectsWhatWasAsked
<1>1. SUFFICES ASSUME at = "compare" PROVE
    LET entries == {listing.entries[i] : i \in DOMAIN listing.entries}
        usable == {r \in entries : r.valid /\ ~r.draft}
    IN  /\ want # S!NoRelease => want \in usable
        /\ listing.mode = "latest" /\ want # S!NoRelease => want.rc = 0 /\ ~want.flag
        /\ listing.mode = "tag" /\ want # S!NoRelease => S!Version(want) = S!Version(listing.asked)
        /\ listing.mode = "newest" /\ want # S!NoRelease => \A r \in usable : ~S!Newer(r, want)
        /\ listing.mode = "newest" /\ want = S!NoRelease => usable = {} \/ S!Exceeds(listing.entries)
  BY DEF S!SelectsWhatWasAsked
<1> DEFINE e == listing.entries
           entries == {listing.entries[i] : i \in DOMAIN listing.entries}
           usable == {r \in entries : r.valid /\ ~r.draft}
<1>2. listing \in S!Listings /\ want = S!Select(listing)
  BY <1>1 DEF SelfInv, UpgradeInv
<1>3. e \in Seq(Release) /\ (listing.mode # "newest" => e[1] \in Release /\ Len(e) = 1)
  BY <1>2, ListedEntries
<1>4. DOMAIN e = 1..Len(e) /\ Len(e) \in Nat /\ \A j \in 1..Len(e) : e[j] \in Release
  BY <1>3
<1>5. \A r : S!Eligible(r, TRUE) => r.valid /\ ~r.draft
  BY DEF S!Eligible
<1>6. \A r : r.valid /\ ~r.draft => S!Eligible(r, TRUE)
  BY DEF S!Eligible
<1>7. \A j \in 1..Len(e) : S!Eligible(e[j], TRUE) => e[j] \in usable
  BY <1>4, <1>5
<1>8. \A r \in usable : r \in Release /\ \E j \in 1..Len(e) : r = e[j] /\ S!Eligible(e[j], TRUE)
  BY <1>4, <1>6
<1>9. CASE listing.mode = "newest"
  <2>1. want = S!Best(e)
    BY <1>2, <1>9 DEF S!Select
  <2>2. CASE S!Exceeds(e) /\ want = S!NoRelease
    BY <1>9, <2>2
  <2>3. CASE Leads(want, e, Len(e))
    <3>1. CASE want = S!NoRelease
      <4>1. \A j \in 1..Len(e) : ~S!Eligible(e[j], TRUE)
        BY <2>3, <3>1 DEF Leads
      <4>2. usable = {}
        BY <4>1, <1>8
      <4> QED
        BY <1>9, <3>1, <4>2
    <3>2. CASE want # S!NoRelease
      <4>1. PICK k \in 1..Len(e) : want = e[k] /\ S!Eligible(want, TRUE)
        BY <2>3, <3>2 DEF Leads
      <4>2. want \in usable /\ want \in Release
        BY <4>1, <1>4, <1>7
      <4>3. \A j \in 1..Len(e) : S!Eligible(e[j], TRUE) => S!Precedence(e[j]) <= S!Precedence(want)
        BY <2>3, <3>2 DEF Leads
      <4>4. ASSUME NEW r \in usable, S!Newer(r, want) PROVE FALSE
        <5>1. S!Precedence(r) <= S!Precedence(want) /\ r \in Release
          BY <1>8, <4>3
        <5>2. S!Precedence(r) > S!Precedence(want)
          BY <4>2, <4>4, <5>1, PrecedenceIsNewer
        <5>3. S!Precedence(r) \in Nat /\ S!Precedence(want) \in Nat
          BY <4>2, <5>1, PrecedenceIsNumber
        <5> DEFINE p == S!Precedence(r)
                   q == S!Precedence(want)
        <5>4. p <= q /\ p > q /\ p \in Nat /\ q \in Nat
          BY <5>1, <5>2, <5>3
        <5> HIDE DEF p, q
        <5> QED
          BY <5>4
      <4> QED
        BY <1>9, <3>2, <4>2, <4>4
    <3> QED
      BY <3>1, <3>2
  <2> QED
    BY <2>1, <2>2, <2>3, <1>3, BestIsNewest
<1>10. CASE listing.mode = "latest"
  <2>1. want = IF S!Eligible(e[1], FALSE) THEN e[1] ELSE S!NoRelease
    BY <1>2, <1>10 DEF S!Select
  <2>2. S!Eligible(e[1], FALSE) => S!Eligible(e[1], TRUE) /\ e[1].rc = 0 /\ ~e[1].flag
    BY DEF S!Eligible
  <2>3. 1 \in 1..Len(e)
    BY <1>3, <1>10
  <2> QED
    BY <1>7, <1>10, <2>1, <2>2, <2>3
<1>11. CASE listing.mode = "tag"
  <2>1. want = IF S!Eligible(e[1], TRUE) /\ S!Version(e[1]) = S!Version(listing.asked) THEN e[1] ELSE S!NoRelease
    BY <1>2, <1>11 DEF S!Select
  <2>2. 1 \in 1..Len(e)
    BY <1>3, <1>11
  <2> QED
    BY <1>7, <1>11, <2>1, <2>2
<1>12. listing.mode \in {"newest", "latest", "tag"}
  BY <1>2 DEF S!Listings
<1> QED
  BY <1>9, <1>10, <1>11, <1>12

(* Whatever the service manager, the releases listed and the calls that      *)
(* fail, lkit's own binary answers --version, upgrade takes the release that *)
(* was asked for, and a removed daemon stays away (fetch_release,            *)
(* install_staged_binary, remove_daemon).                                    *)
THEOREM SelfHolds == SideBySide => []SelfInvariant
<1>1. SelfInv => SelfInvariant
  <2> SUFFICES ASSUME SelfInv PROVE SelfInvariant
    OBVIOUS
  <2>1. S!TypeOK
    BY DEF SelfInv, SelfTypes, ProcInv, UpgradeInv, Systems, Regs, Processes, S!TypeOK
  <2>2. S!BinaryRuns
    BY DEF SelfInv, UpgradeInv, S!BinaryRuns
  <2>3. S!RemovedStaysGone
    BY DEF SelfInv, RemoveInv, Unarmed, S!RemovedStaysGone
  <2> QED
    BY <2>1, <2>2, <2>3, SelectsAsAsked DEF SelfInvariant
<1> QED
  BY <1>1, SelfInductive, PTL


LEMMA RegKept ==
  ASSUME SelfInv, [S!Next]_selfVars
  PROVE  sys'.reg = sys.reg \/ sys' \in S!Register(sys) \/ sys' \in S!Unregister(sys)
<1>0. sys \in Systems /\ bin.ver \in Nat
  BY DEF SelfInv, SelfTypes, Programs
<1>1. CASE S!WriteOrigin \/ S!RemoveDelete \/ S!DoEnable
  <2>1. sys' = sys \/ sys' = [sys EXCEPT !.origin = TRUE] \/ sys' = [sys EXCEPT !.origin = FALSE]
          \/ sys' = [sys EXCEPT !.enabled = TRUE]
    BY <1>1 DEF S!WriteOrigin, S!RemoveDelete, S!DoEnable, S!Call
  <2> QED
    <3>1. CASE sys' = [sys EXCEPT !.origin = TRUE]
      BY <1>0, <3>1, SetOrigin, Truth
    <3>2. CASE sys' = [sys EXCEPT !.origin = FALSE]
      BY <1>0, <3>2, SetOrigin, Truth
    <3>3. CASE sys' = [sys EXCEPT !.enabled = TRUE]
      BY <1>0, <3>3, SetEnabled, Truth
    <3> QED
      BY <2>1, <3>1, <3>2, <3>3
<1>2. CASE S!DoRegister
  BY <1>2 DEF S!DoRegister, S!Call
<1>3. CASE S!Launch \/ S!LaunchRace \/ S!RefreshDaemon
  <2>1. sys' = sys \/ sys' \in S!Restart(sys, bin.ver) \cup S!Start(sys, bin.ver) \/ sys' \in S!RestartFails(sys)
    BY <1>3 DEF S!Launch, S!Call, S!LaunchRace, S!RefreshDaemon
  <2> QED
    BY <1>0, <2>1, LaunchIs, RaceIs
<1>4. CASE S!CleanupPartialInstall \/ S!RemoveRest
  <2>1. \/ sys' = sys \/ sys' \in S!Stop(sys) \/ sys' \in S!Disabled(sys) \/ sys' \in S!Unregister(sys)
        \/ sys' = [sys EXCEPT !.origin = FALSE]
    BY <1>4 DEF S!CleanupPartialInstall, S!RemoveRest, S!Undo
  <2> QED
    <3>1. CASE sys' = [sys EXCEPT !.origin = FALSE]
      BY <1>0, <3>1, SetOrigin, Truth
    <3>2. CASE sys' \in S!Stop(sys)
      BY <1>0, <3>2, Stopped
    <3>3. CASE sys' \in S!Disabled(sys)
      BY <1>0, <3>3, DisabledIs
    <3> QED
      BY <2>1, <3>1, <3>2, <3>3
<1>5. CASE S!RemoveStop
  <2>1. sys' = sys \/ sys' \in S!Stop(sys)
    BY <1>5 DEF S!RemoveStop
  <2> QED
    BY <1>0, <2>1, Stopped
<1>6. CASE S!DaemonDies
  <2> DEFINE p == CASE manager = "systemd" -> "waiting" [] manager = "openrc" -> "crashed" [] OTHER -> "none"
             g == S!Gone(sys)
  <2>1. sys' = [g EXCEPT !.proc = p] /\ p \in Processes
    BY <1>6 DEF S!DaemonDies, Processes
  <2>2. g \in Systems /\ g.reg = sys.reg
    BY <1>0, GoneIs
  <2> HIDE DEF g, p
  <2> QED
    BY <2>1, <2>2, SetProc
<1>7. CASE S!AutoRestart \/ S!Exits \/ S!Boot
  <2>1. sys' = S!Started(sys, bin.ver) \/ sys' = S!Gone(sys)
    BY <1>7 DEF S!AutoRestart, S!Exits, S!Boot
  <2> QED
    BY <1>0, <2>1, StartedIs, GoneIs
<1>8. CASE \/ \E o \in {"install", "upgrade", "remove"} : S!Begin(o)
           \/ S!AwaitPid \/ S!RemoveExit \/ S!Killed
           \/ S!Fetch \/ S!Compare \/ S!Download \/ S!Verify \/ S!InstallStaged \/ UNCHANGED selfVars
  BY <1>8 DEF S!Begin, S!AwaitPid, S!RemoveExit, S!Killed, S!Fetch, S!Compare, S!Download, S!Verify,
              S!InstallStaged, S!host, selfVars
<1> QED
  BY <1>1, <1>2, <1>3, <1>4, <1>5, <1>6, <1>7, <1>8 DEF S!Next, S!Install, S!Remove, S!Upgrade

LEMMA ForeignStays ==
  ASSUME SelfInv, [S!Next]_selfVars, manager = "systemd", sys.reg \in {"other", "file"}
  PROVE  sys'.reg = sys.reg
<1>1. sys \in Systems
  BY DEF SelfInv, SelfTypes
<1>2. S!Register(sys) = {} /\ S!Unregister(sys) = {}
  BY DEF S!Register, S!Unregister
<1> QED
  BY <1>2, RegKept

(* Which steps a command at its last place may take. *)
LEMMA LastSteps ==
  ASSUME [S!Next]_selfVars, at \in {"pid", "refresh"}, at' = "idle"
  PROVE  \/ at = "pid" /\ S!AwaitPid
         \/ at = "refresh" /\ S!RefreshDaemon
         \/ clean' = FALSE
<1>1. CASE S!Install /\ ~S!AwaitPid
  BY <1>1 DEF S!Install, S!WriteOrigin, S!DoRegister, S!DoEnable, S!Launch, S!LaunchRace, S!CleanupPartialInstall, S!Call, S!Undo
<1>2. CASE S!Remove
  BY <1>2 DEF S!Remove, S!RemoveStop, S!RemoveExit, S!RemoveRest, S!RemoveDelete, S!Undo
<1>3. CASE S!Upgrade /\ ~S!RefreshDaemon
  BY <1>3 DEF S!Upgrade, S!Fetch, S!Compare, S!Download, S!Verify, S!InstallStaged
<1>4. CASE S!Killed \/ S!Boot
  BY <1>4 DEF S!Killed, S!Boot
<1>5. CASE S!DaemonDies \/ S!AutoRestart \/ S!Exits \/ UNCHANGED selfVars
  BY <1>5 DEF S!DaemonDies, S!AutoRestart, S!Exits, selfVars
<1>6. CASE \E o \in {"install", "upgrade", "remove"} : S!Begin(o)
  BY <1>6 DEF S!Begin, S!Running
<1>7. S!AwaitPid => at = "pid"
  BY DEF S!AwaitPid
<1>8. S!RefreshDaemon => at = "refresh"
  BY DEF S!RefreshDaemon
<1> QED
  BY <1>1, <1>2, <1>3, <1>4, <1>5, <1>6, <1>7, <1>8 DEF S!Next

LEMMA InstalledRuns ==
  ASSUME SelfInv, [S!Next]_selfVars, at = "pid", at' = "idle", clean'
  PROVE  /\ sys'.reg = "ours" /\ sys'.origin /\ sys'.enabled
         /\ sys'.proc = "running" /\ sys'.ver = bin.ver
<1>1. S!AwaitPid
  BY LastSteps
<1>2. sys' = sys /\ sys.proc \in {"running", "dying"}
  BY <1>1 DEF S!AwaitPid, S!Goto, S!host
<1> QED
  BY <1>2 DEF SelfInv, InstallInv

LEMMA RefreshedRunsNew ==
  ASSUME SelfInv, [S!Next]_selfVars, at = "refresh", at' = "idle", clean', sys'.proc = "running"
  PROVE  /\ sys.proc \in {"running", "dying"}
         /\ sys'.reg # "file" /\ S!Defined(sys') => sys'.ver = bin.ver
<1>0. sys \in Systems /\ bin.ver \in Nat /\ manager \in {"systemd", "openrc", "sysvinit"}
  BY DEF SelfInv, SelfTypes, Programs
<1>1. S!RefreshDaemon
  BY LastSteps
<1> DEFINE due == sys.reg \in {"ours", "other"} /\ S!IsActive(sys)
<1>2. \/ ~due /\ sys' = sys
      \/ due /\ sys' \in S!Restart(sys, bin.ver)
  BY <1>1 DEF S!RefreshDaemon
<1>3. CASE ~due /\ sys' = sys
  <2>1. ~(sys.reg # "file" /\ S!Defined(sys))
    BY <1>0, <1>3 DEF S!IsActive, S!Defined
  <2> QED
    BY <1>3, <2>1
<1>4. CASE due /\ sys' \in S!Restart(sys, bin.ver)
  <2>1. sys'.ver = bin.ver
    BY <1>0, <1>4, LaunchIs
  <2>2. sys.proc \in {"running", "dying"}
    BY <1>0, <1>4 DEF S!IsActive
  <2> QED
    BY <2>1, <2>2
<1> QED
  BY <1>2, <1>3, <1>4

-----------------------------------------------------------------------------
(* Host network configuration: the state *)

NetPhases ==
  {"idle", "plan", "backup", "save", "manifest", "check", "verify", "rename", "validate",
   "inspect", "undo", "put_back", "restore"}
Ways == {"none", "refused", "nothing", "done", "failed", "conflict", "recovery_failed", "restored", "crashed"}
EditFields == {"phase", "set", "selected", "plan", "was", "i", "pending", "conflict"}
Pair == {Main, Extra}

NetTypes ==
  /\ DOMAIN interfaces = Pair /\ DOMAIN replaced = Pair /\ DOMAIN original = Pair /\ ours \subseteq Pair
  /\ DOMAIN copies = {"dir", "saved", "manifest"} /\ DOMAIN copies.saved = Pair
  /\ DOMAIN edit = EditFields /\ edit.phase \in NetPhases /\ edit.i \in {1, 2} /\ edit.pending \subseteq Pair
  /\ told \in Ways /\ edits \in Nat

(* Whether a file is before f in the walk. *)
Place(f) == IF f = Main THEN 1 ELSE 2
Walked(f) == Place(f) < edit.i

(* The backup.  From the look at all files on it is complete; what lkit has *)
(* replaced is in it.                                                       *)
Armed == {"check", "verify", "rename", "validate", "inspect", "undo", "put_back"}
Late(f, phase) == <<f, phase>> \in late
CopiesInv ==
  /\ copies.manifest => copies.dir
  /\ edit.phase \in {"save", "manifest"} => copies.dir /\ ~copies.manifest
  /\ edit.phase = "save" => \A f \in Pair : Walked(f) => copies.saved[f] = edit.was[f]
  /\ edit.phase \in {"manifest"} \cup Armed => \A f \in Pair : copies.saved[f] = edit.was[f]
  /\ edit.phase \in Armed => copies.manifest
  /\ \A f \in ours : copies.manifest /\ (copies.saved[f] = replaced[f] \/ Late(f, "rename"))

(* What lkit has put into the files. *)
PlannedIn(f) == edit.plan[f] # <<N!None>>
EditInv ==
  /\ edit.phase \in {"backup", "save", "manifest"} \cup Armed =>
       \A f \in Pair : PlannedIn(f) => edit.plan[f] # edit.was[f]
  /\ edit.phase = "check" => ours = {}
  /\ edit.phase \in Armed => \A f \in ours : PlannedIn(f) /\ interfaces[f] = edit.plan[f]
  /\ edit.phase = "rename" =>
       /\ PlannedIn(N!file) /\ N!file \notin ours
       /\ interfaces[N!file] = edit.was[N!file] \/ Late(N!file, "rename")
  /\ edit.phase \in {"undo", "put_back"} => \A f \in ours : f \in edit.pending /\ ~Walked(f)
  /\ edit.phase \in {"undo", "put_back"} => \A f \in edit.pending : PlannedIn(f)
  /\ edit.phase = "put_back" =>
       /\ N!file \in edit.pending
       /\ interfaces[N!file] = edit.plan[N!file] \/ Late(N!file, "put_back")

(* While nobody has edited, the files are as they were but for that. *)
UneditedInv ==
  edits = 0 =>
    /\ edit.phase \in {"plan", "backup", "save", "manifest", "check"} =>
         \A f \in Pair : interfaces[f] = original[f]
    /\ edit.phase \in {"backup", "save", "manifest"} \cup Armed =>
         \A f \in Pair : PlannedIn(f) => edit.was[f] = original[f]
    /\ edit.phase \in Armed =>
         \A f \in Pair : interfaces[f] = IF f \in ours THEN edit.plan[f] ELSE original[f]
    /\ edit.phase \in {"undo", "put_back"} => ~edit.conflict

(* How the last operation ended. *)
ToldInv ==
  edit.phase = "idle" =>
    /\ told = "failed" => ours = {} /\ (edits = 0 => \A f \in Pair : interfaces[f] = original[f])
    /\ told = "conflict" => ours = {} /\ edits > 0

NetInv == NetTypes /\ CopiesInv /\ EditInv /\ UneditedInv /\ ToldInv

(* What a step leaves of the operation. *)
SameWork(d, c) ==
  /\ DOMAIN d = EditFields /\ d.plan = c.plan /\ d.was = c.was
  /\ d.set = c.set /\ d.selected = c.selected

LEMMA MovesTo ==
  ASSUME NEW c, DOMAIN c = EditFields, NEW p, NEW n, NEW d, d = [c EXCEPT !.phase = p, !.i = n]
  PROVE  SameWork(d, c) /\ d.phase = p /\ d.i = n /\ d.pending = c.pending /\ d.conflict = c.conflict
  BY DEF SameWork, EditFields

LEMMA MovesPhase ==
  ASSUME NEW c, DOMAIN c = EditFields, NEW p, NEW d, d = [c EXCEPT !.phase = p]
  PROVE  SameWork(d, c) /\ d.phase = p /\ d.i = c.i /\ d.pending = c.pending /\ d.conflict = c.conflict
  BY DEF SameWork, EditFields

LEMMA MovesOn ==
  ASSUME NEW c, DOMAIN c = EditFields, NEW n, NEW d, d = [c EXCEPT !.i = n]
  PROVE  SameWork(d, c) /\ d.phase = c.phase /\ d.i = n /\ d.pending = c.pending /\ d.conflict = c.conflict
  BY DEF SameWork, EditFields

LEMMA AtRest ==
  /\ DOMAIN N!Idle = EditFields /\ N!Idle.phase = "idle" /\ N!Idle.i = 1 /\ N!Idle.pending = {}
  /\ N!Files = Pair /\ DOMAIN N!Unplanned = Pair
  BY DEF N!Idle, EditFields, N!Files, Pair, N!Unplanned

LEMMA InHand ==
  ASSUME edit.i \in {1, 2}
  PROVE  /\ N!file \in Pair /\ Place(N!file) = edit.i /\ Len(N!Order) = 2
         /\ edit.i = 1 => N!file = Main
         /\ edit.i = 2 => N!file = Extra
  BY TwoFiles DEF N!file, N!Order, Pair, Place

(* Taking the next file, or going over to the next phase. *)
LEMMA Advances ==
  ASSUME NetTypes, NEW p, N!Advance(p)
  PROVE  /\ SameWork(edit', edit) /\ edit'.pending = edit.pending /\ edit'.conflict = edit.conflict
         /\ \/ edit.i = 1 /\ edit'.i = 2 /\ edit'.phase = edit.phase
            \/ edit.i = 2 /\ edit'.i = 1 /\ edit'.phase = p
<1>1. DOMAIN edit = EditFields /\ edit.i \in {1, 2} /\ Len(N!Order) = 2
  BY DEF NetTypes, N!Order
<1>2. CASE edit.i = 1
  <2>1. edit' = [edit EXCEPT !.i = edit.i + 1] /\ edit.i + 1 = 2
    BY <1>1, <1>2 DEF N!Advance
  <2> QED
    BY <1>1, <1>2, <2>1, MovesOn
<1>3. CASE edit.i = 2
  <2>1. edit' = [edit EXCEPT !.phase = p, !.i = 1]
    BY <1>1, <1>3 DEF N!Advance
  <2>2. /\ SameWork(edit', edit) /\ edit'.pending = edit.pending /\ edit'.conflict = edit.conflict
        /\ edit'.phase = p /\ edit'.i = 1
    BY <1>1, <2>1 DEF SameWork, EditFields
  <2> QED
    BY <1>3, <2>2
<1> QED
  BY <1>1, <1>2, <1>3

LEMMA NetStarts ==
  ASSUME N!Init
  PROVE  NetInv
<1>1. /\ edit = N!Idle /\ ours = {} /\ edits = 0 /\ told = "none"
      /\ original = interfaces /\ DOMAIN interfaces = Pair /\ replaced = N!Unplanned /\ late = {}
      /\ copies = [dir |-> FALSE, saved |-> N!Unplanned, manifest |-> FALSE]
  BY DEF N!Init, N!Files, Pair
<1>2. /\ DOMAIN edit = EditFields /\ edit.phase = "idle" /\ edit.i = 1 /\ edit.pending = {}
  BY <1>1, AtRest
<1>3. DOMAIN copies = {"dir", "saved", "manifest"} /\ DOMAIN copies.saved = Pair /\ ~copies.manifest
  BY <1>1, AtRest
<1>4. NetTypes
  BY <1>1, <1>2, <1>3, AtRest DEF NetTypes, NetPhases, Ways
<1>5. CopiesInv /\ EditInv
  BY <1>1, <1>2, <1>3 DEF CopiesInv, EditInv, Armed
<1>6. UneditedInv /\ ToldInv
  BY <1>1, <1>2 DEF UneditedInv, ToldInv, Armed
<1> QED
  BY <1>4, <1>5, <1>6 DEF NetInv

(* An operation that ends. *)
LEMMA NetEnds ==
  ASSUME NetInv, edit' = N!Idle, told' \in Ways,
         UNCHANGED <<interfaces, ours, replaced, late, original, edits, copies>>,
         told' = "failed" => ours = {} /\ (edits = 0 => \A f \in Pair : interfaces[f] = original[f]),
         told' = "conflict" => ours = {} /\ edits > 0
  PROVE  NetInv'
<1>1. /\ DOMAIN edit' = EditFields /\ edit'.phase = "idle" /\ edit'.i = 1 /\ edit'.pending = {}
  BY AtRest
<1>2. NetTypes'
  BY <1>1 DEF NetInv, NetTypes, NetPhases
<1>3. CopiesInv'
  BY <1>1 DEF NetInv, CopiesInv, Armed, Late
<1>4. EditInv' /\ UneditedInv' /\ ToldInv'
  BY <1>1 DEF EditInv, UneditedInv, ToldInv, Armed
<1> QED
  BY <1>2, <1>3, <1>4 DEF NetInv

LEMMA NetStart ==
  ASSUME NetInv, NEW selected, N!Start(selected)
  PROVE  NetInv'
<1>1. /\ edit.phase = "idle" /\ original' = interfaces /\ told' = "none"
      /\ UNCHANGED <<interfaces, copies, ours, replaced, late, edits>>
  BY DEF N!Start, N!Running, N!Counters
<1>2. /\ DOMAIN edit' = EditFields /\ edit'.phase = "plan" /\ edit'.i = 1 /\ edit'.pending = {}
  BY AtRest DEF N!Start, EditFields
<1>3. NetTypes'
  BY <1>1, <1>2 DEF NetInv, NetTypes, NetPhases, Ways
<1>4. CopiesInv'
  BY <1>1, <1>2 DEF NetInv, CopiesInv, Armed, Late
<1>5. EditInv' /\ UneditedInv' /\ ToldInv'
  BY <1>1, <1>2 DEF EditInv, UneditedInv, ToldInv, Armed
<1> QED
  BY <1>3, <1>4, <1>5 DEF NetInv
LEMMA NetPlan ==
  ASSUME NetInv, N!Plan
  PROVE  NetInv'
<1>1. /\ edit.phase = "plan"
      /\ UNCHANGED <<interfaces, copies, original, ours, replaced, late, edits>>
  BY DEF N!Plan, N!Ghosts, N!Counters
<1> DEFINE plan == N!PlanUnmanage(interfaces, edit.set, edit.selected)
<1>2. CASE edit' = N!Idle /\ told' \in {"refused", "nothing"}
  BY <1>1, <1>2, NetEnds DEF Ways
<1>3. CASE /\ edit' = [edit EXCEPT !.phase = "backup", !.plan = plan,
                 !.was = [f \in N!Files |-> IF plan[f] # <<N!None>> THEN interfaces[f] ELSE <<N!None>>]]
           /\ told' = told
  <2>1. \A f \in Pair : plan[f] # <<N!None>> => plan[f] # interfaces[f]
    BY AtRest DEF N!PlanUnmanage
  <2> HIDE DEF plan
  <2>2. /\ DOMAIN edit' = EditFields /\ edit'.phase = "backup" /\ edit'.i = edit.i
        /\ edit'.pending = edit.pending /\ edit'.plan = plan
        /\ edit'.was = [f \in N!Files |-> IF plan[f] # <<N!None>> THEN interfaces[f] ELSE <<N!None>>]
    BY <1>3 DEF NetInv, NetTypes, EditFields
  <2>3. \A f \in Pair : edit'.plan[f] # <<N!None>> =>
          edit'.plan[f] # edit'.was[f] /\ edit'.was[f] = interfaces[f]
    BY <2>1, <2>2, AtRest
  <2>4. NetTypes'
    BY <1>1, <1>3, <2>2 DEF NetInv, NetTypes, NetPhases
  <2>5. CopiesInv'
    BY <1>1, <2>2 DEF NetInv, CopiesInv, Armed, Late
  <2>6. EditInv'
    BY <2>2, <2>3 DEF EditInv, Armed, PlannedIn
  <2>7. UneditedInv'
    BY <1>1, <2>2, <2>3 DEF NetInv, UneditedInv, Armed, PlannedIn
  <2>8. ToldInv'
    BY <2>2 DEF ToldInv
  <2> QED
    BY <2>4, <2>5, <2>6, <2>7, <2>8 DEF NetInv
<1> QED
  BY <1>2, <1>3 DEF N!Plan, N!End

LEMMA NetBeginBackup ==
  ASSUME NetInv, N!BeginBackup
  PROVE  NetInv'
<1>1. /\ edit.phase = "backup"
      /\ UNCHANGED <<interfaces, original, ours, replaced, late, edits>>
  BY DEF N!BeginBackup, N!Ghosts, N!Counters
<1>2. CASE edit' = N!Idle /\ told' = "refused" /\ copies' = copies
  BY <1>1, <1>2, NetEnds DEF Ways
<1>3. CASE /\ ~copies.dir /\ copies' = [dir |-> TRUE, saved |-> N!Unplanned, manifest |-> FALSE]
           /\ N!Go("save") /\ told' = told
  <2>1. edit' = [edit EXCEPT !.phase = "save", !.i = 1] /\ DOMAIN edit = EditFields
    BY <1>3 DEF N!Go, NetInv, NetTypes
  <2>2. SameWork(edit', edit) /\ edit'.phase = "save" /\ edit'.i = 1 /\ edit'.pending = edit.pending
    BY <2>1 DEF SameWork, EditFields
  <2>3. /\ DOMAIN copies' = {"dir", "saved", "manifest"} /\ DOMAIN copies'.saved = Pair
        /\ copies'.dir /\ ~copies'.manifest
    BY <1>3, AtRest
  <2>4. ours = {}
    BY <1>3 DEF NetInv, CopiesInv
  <2>5. NetTypes'
    BY <1>1, <1>3, <2>2, <2>3 DEF NetInv, NetTypes, NetPhases, SameWork
  <2>6. CopiesInv'
    BY <1>1, <2>2, <2>3, <2>4 DEF CopiesInv, Armed, Walked, Place
  <2>7. EditInv'
    BY <1>1, <2>2, <2>4 DEF NetInv, EditInv, Armed, Late, PlannedIn, SameWork
  <2>8. UneditedInv'
    BY <1>1, <2>2 DEF NetInv, UneditedInv, Armed, PlannedIn, SameWork
  <2>9. ToldInv'
    BY <2>2 DEF ToldInv
  <2> QED
    BY <2>5, <2>6, <2>7, <2>8, <2>9 DEF NetInv
<1> QED
  BY <1>2, <1>3 DEF N!BeginBackup, N!End

LEMMA NetSave ==
  ASSUME NetInv, N!Save
  PROVE  NetInv'
<1>1. /\ edit.phase = "save" /\ N!Advance("manifest")
      /\ UNCHANGED <<interfaces, original, ours, replaced, late, edits, told>>
  BY DEF N!Save, N!Ghosts, N!Counters
<1>2. /\ SameWork(edit', edit) /\ edit'.pending = edit.pending
      /\ \/ edit.i = 1 /\ edit'.i = 2 /\ edit'.phase = "save"
         \/ edit.i = 2 /\ edit'.i = 1 /\ edit'.phase = "manifest"
  BY <1>1, Advances DEF NetInv
<1>3. /\ N!file \in Pair /\ Place(N!file) = edit.i
      /\ edit.i = 1 => N!file = Main
      /\ edit.i = 2 => N!file = Extra
  BY InHand DEF NetInv, NetTypes
<1>4. /\ DOMAIN copies' = {"dir", "saved", "manifest"} /\ DOMAIN copies'.saved = Pair
      /\ copies'.dir = copies.dir /\ copies'.manifest = copies.manifest
      /\ \A f \in Pair : copies'.saved[f] = IF f = N!file THEN edit.was[f] ELSE copies.saved[f]
  <2> DEFINE g == N!file
  <2>1. copies' = [copies EXCEPT !.saved = [@ EXCEPT ![g] = edit.was[g]]] /\ g \in Pair
    BY <1>3 DEF N!Save
  <2>2. DOMAIN copies = {"dir", "saved", "manifest"} /\ DOMAIN copies.saved = Pair
    BY DEF NetInv, NetTypes
  <2> HIDE DEF g
  <2>3. copies'.saved = [copies.saved EXCEPT ![g] = edit.was[g]]
    BY <2>1, <2>2
  <2>4. DOMAIN copies' = {"dir", "saved", "manifest"} /\ copies'.dir = copies.dir /\ copies'.manifest = copies.manifest
    BY <2>1, <2>2
  <2> QED
    BY <2>1, <2>2, <2>3, <2>4 DEF g
<1>5. copies.dir /\ ~copies.manifest /\ ours = {}
  BY <1>1 DEF NetInv, CopiesInv
<1>6. \A f \in Pair : Place(f) < edit.i => copies.saved[f] = edit.was[f]
  BY <1>1 DEF NetInv, CopiesInv, Walked
<1>7. NetTypes'
  BY <1>1, <1>2, <1>4 DEF NetInv, NetTypes, NetPhases, SameWork
<1>8. CopiesInv'
  <2>1. ASSUME edit.i = 1
        PROVE  \A f \in Pair : Place(f) < 2 => copies'.saved[f] = edit.was[f]
    BY <2>1, <1>3, <1>4 DEF Pair, Place
  <2>2. ASSUME edit.i = 2
        PROVE  \A f \in Pair : copies'.saved[f] = edit.was[f]
    BY <2>2, <1>3, <1>4, <1>6 DEF Pair, Place
  <2> QED
    BY <2>1, <2>2, <1>1, <1>2, <1>4, <1>5 DEF CopiesInv, Armed, Walked, SameWork
<1>9. EditInv'
  BY <1>1, <1>2, <1>5 DEF NetInv, EditInv, Armed, Late, PlannedIn, SameWork
<1>10. UneditedInv'
  BY <1>1, <1>2 DEF NetInv, UneditedInv, Armed, PlannedIn, SameWork
<1>11. ToldInv'
  BY <1>2 DEF ToldInv
<1> QED
  BY <1>7, <1>8, <1>9, <1>10, <1>11 DEF NetInv

LEMMA NetWriteManifest ==
  ASSUME NetInv, N!WriteManifest
  PROVE  NetInv'
<1>1. /\ edit.phase = "manifest" /\ edit' = [edit EXCEPT !.phase = "check", !.i = 1]
      /\ copies' = [copies EXCEPT !.manifest = TRUE]
      /\ UNCHANGED <<interfaces, original, ours, replaced, late, edits, told>>
  BY DEF N!WriteManifest, N!Ghosts, N!Counters, N!Go
<1>2. SameWork(edit', edit) /\ edit'.phase = "check" /\ edit'.i = 1 /\ edit'.pending = edit.pending
  BY <1>1 DEF SameWork, EditFields, NetInv, NetTypes
<1>3. /\ DOMAIN copies' = {"dir", "saved", "manifest"} /\ copies'.saved = copies.saved
      /\ copies'.dir = copies.dir /\ copies'.manifest
  BY <1>1 DEF NetInv, NetTypes
<1>4. ~copies.manifest /\ ours = {}
  BY <1>1 DEF NetInv, CopiesInv
<1>5. NetTypes'
  BY <1>1, <1>2, <1>3 DEF NetInv, NetTypes, NetPhases, SameWork
<1>6. CopiesInv'
  BY <1>1, <1>2, <1>3, <1>4 DEF NetInv, CopiesInv, Armed, Late, SameWork
<1>7. EditInv'
  BY <1>1, <1>2, <1>4 DEF NetInv, EditInv, Armed, Late, PlannedIn, SameWork
<1>8. UneditedInv'
  BY <1>1, <1>2, <1>4 DEF NetInv, UneditedInv, Armed, PlannedIn, SameWork
<1>9. ToldInv'
  BY <1>2 DEF ToldInv
<1> QED
  BY <1>5, <1>6, <1>7, <1>8, <1>9 DEF NetInv

(* What fails between the manifest and the end is looked at. *)
LEMMA NetLooks ==
  ASSUME NetInv, edit.phase \in {"check", "verify", "rename", "validate"}, N!Go("inspect"),
         UNCHANGED <<interfaces, original, ours, replaced, late, edits, told, copies>>
  PROVE  NetInv'
<1>1. edit' = [edit EXCEPT !.phase = "inspect", !.i = 1] /\ DOMAIN edit = EditFields
  BY DEF N!Go, NetInv, NetTypes
<1>2. SameWork(edit', edit) /\ edit'.phase = "inspect" /\ edit'.i = 1 /\ edit'.pending = edit.pending
  BY <1>1 DEF SameWork, EditFields
<1>3. NetTypes'
  BY <1>2 DEF NetInv, NetTypes, NetPhases, SameWork
<1>4. CopiesInv'
  BY <1>2 DEF NetInv, CopiesInv, Armed, Late, SameWork
<1>5. EditInv'
  BY <1>2 DEF NetInv, EditInv, Armed, Late, PlannedIn, SameWork
<1>6. UneditedInv'
  BY <1>2 DEF NetInv, UneditedInv, Armed, PlannedIn, SameWork
<1>7. ToldInv'
  BY <1>2 DEF ToldInv
<1> QED
  BY <1>3, <1>4, <1>5, <1>6, <1>7 DEF NetInv

LEMMA NetCheckAll ==
  ASSUME NetInv, N!CheckAll
  PROVE  NetInv'
<1>1. /\ edit.phase = "check"
      /\ UNCHANGED <<interfaces, original, ours, replaced, late, edits, told, copies>>
  BY DEF N!CheckAll, N!Ghosts, N!Counters
<1>2. CASE N!Go("inspect")
  BY <1>1, <1>2, NetLooks
<1>3. CASE N!Go("verify")
  <2>1. edit' = [edit EXCEPT !.phase = "verify", !.i = 1] /\ DOMAIN edit = EditFields
    BY <1>3 DEF N!Go, NetInv, NetTypes
  <2>2. SameWork(edit', edit) /\ edit'.phase = "verify" /\ edit'.i = 1 /\ edit'.pending = edit.pending
    BY <2>1 DEF SameWork, EditFields
  <2>3. NetTypes'
    BY <1>1, <2>2 DEF NetInv, NetTypes, NetPhases, SameWork
  <2>4. CopiesInv'
    BY <1>1, <2>2 DEF NetInv, CopiesInv, Armed, Late, SameWork
  <2>5. EditInv'
    BY <1>1, <2>2 DEF NetInv, EditInv, Armed, Late, PlannedIn, SameWork
  <2>6. UneditedInv'
    BY <1>1, <2>2 DEF NetInv, UneditedInv, Armed, PlannedIn, SameWork
  <2>7. ToldInv'
    BY <2>2 DEF ToldInv
  <2> QED
    BY <2>3, <2>4, <2>5, <2>6, <2>7 DEF NetInv
<1> QED
  BY <1>2, <1>3 DEF N!CheckAll

LEMMA NetVerify ==
  ASSUME NetInv, N!Verify
  PROVE  NetInv'
<1>1. /\ edit.phase = "verify"
      /\ UNCHANGED <<interfaces, original, ours, replaced, late, edits, told, copies>>
  BY DEF N!Verify, N!Ghosts, N!Counters
<1>2. CASE N!Go("inspect")
  BY <1>1, <1>2, NetLooks
<1>3. CASE N!Advance("validate")
  <2>1. /\ SameWork(edit', edit) /\ edit'.phase \in {"verify", "validate"} /\ edit'.i \in {1, 2}
        /\ edit'.pending = edit.pending
    BY <1>1, <1>3, Advances DEF NetInv
  <2>3. NetTypes'
    BY <1>1, <2>1 DEF NetInv, NetTypes, NetPhases, SameWork
  <2>4. CopiesInv'
    BY <1>1, <2>1 DEF NetInv, CopiesInv, Armed, Late, SameWork
  <2>5. EditInv'
    BY <1>1, <2>1 DEF NetInv, EditInv, Armed, Late, PlannedIn, SameWork
  <2>6. UneditedInv'
    BY <1>1, <2>1 DEF NetInv, UneditedInv, Armed, PlannedIn, SameWork
  <2>7. ToldInv'
    BY <2>1 DEF ToldInv
  <2> QED
    BY <2>3, <2>4, <2>5, <2>6, <2>7 DEF NetInv
<1>4. CASE /\ N!Planned(N!file) /\ interfaces[N!file] = edit.was[N!file]
           /\ edit' = [edit EXCEPT !.phase = "rename"]
  <2>1. SameWork(edit', edit) /\ edit'.phase = "rename" /\ edit'.i = edit.i /\ edit'.pending = edit.pending
    BY <1>4 DEF SameWork, EditFields, NetInv, NetTypes
  <2>2. N!file \in Pair /\ N!file' = N!file /\ PlannedIn(N!file)
    BY <1>4, <2>1, InHand DEF NetInv, NetTypes, N!file, PlannedIn, N!Planned
  <2>3. NetTypes'
    BY <1>1, <2>1 DEF NetInv, NetTypes, NetPhases, SameWork
  <2>4. CopiesInv'
    BY <1>1, <2>1 DEF NetInv, CopiesInv, Armed, Late, SameWork
  <2>5. EditInv'
    <3>1. N!file \notin ours
      BY <1>1, <1>4, <2>2 DEF NetInv, EditInv, Armed, Late
    <3>2. PlannedIn(N!file)' /\ interfaces'[N!file'] = edit'.was[N!file'] /\ N!file' \notin ours'
      BY <1>1, <1>4, <2>1, <2>2, <3>1 DEF PlannedIn, SameWork
    <3> QED
      BY <1>1, <2>1, <3>2 DEF NetInv, EditInv, Armed, Late, PlannedIn, SameWork
  <2>6. UneditedInv'
    BY <1>1, <2>1 DEF NetInv, UneditedInv, Armed, PlannedIn, SameWork
  <2>7. ToldInv'
    BY <2>1 DEF ToldInv
  <2> QED
    BY <2>3, <2>4, <2>5, <2>6, <2>7 DEF NetInv
<1> QED
  BY <1>2, <1>3, <1>4 DEF N!Verify

LEMMA NetReplace ==
  ASSUME NetInv, N!Replace
  PROVE  NetInv'
<1> DEFINE g == N!file
<1>1. /\ edit.phase = "rename" /\ g \in Pair /\ ours' = ours \cup {g}
      /\ UNCHANGED <<original, late, edits, told, copies>>
  BY InHand DEF N!Replace, N!Counters, NetInv, NetTypes
<1>2. PlannedIn(g) /\ g \notin ours /\ (interfaces[g] = edit.was[g] \/ Late(g, "rename"))
  BY <1>1 DEF NetInv, EditInv
<1>3. /\ DOMAIN interfaces' = Pair /\ DOMAIN replaced' = Pair
      /\ \A f \in Pair : interfaces'[f] = IF f = g THEN edit.plan[f] ELSE interfaces[f]
      /\ \A f \in Pair : replaced'[f] = IF f = g THEN interfaces[f] ELSE replaced[f]
  <2>1. /\ interfaces' = [interfaces EXCEPT ![g] = edit.plan[g]]
        /\ replaced' = [replaced EXCEPT ![g] = interfaces[g]]
    BY DEF N!Replace, N!RenameInto
  <2>2. DOMAIN interfaces = Pair /\ DOMAIN replaced = Pair
    BY DEF NetInv, NetTypes
  <2> HIDE DEF g
  <2> QED
    BY <2>1, <2>2, <1>2
<1>4. /\ SameWork(edit', edit) /\ edit'.phase \in {"verify", "validate"} /\ edit'.i \in {1, 2}
      /\ edit'.pending = edit.pending
  <2>1. DOMAIN edit = EditFields /\ edit.i \in {1, 2} /\ Len(N!Order) = 2
    BY DEF NetInv, NetTypes, N!Order
  <2>2. CASE edit.i = 1
    <3>1. edit' = [edit EXCEPT !.phase = "verify", !.i = edit.i + 1] /\ edit.i + 1 = 2
      BY <2>1, <2>2 DEF N!Replace
    <3> QED
      BY <2>1, <3>1 DEF SameWork, EditFields
  <2>3. CASE edit.i = 2
    <3>1. edit' = [edit EXCEPT !.phase = "validate", !.i = 1]
      BY <2>1, <2>3 DEF N!Replace
    <3> QED
      BY <2>1, <3>1 DEF SameWork, EditFields
  <2> QED
    BY <2>1, <2>2, <2>3
<1> HIDE DEF g
<1>5. NetTypes'
  BY <1>1, <1>3, <1>4 DEF NetInv, NetTypes, NetPhases, SameWork
<1>6. CopiesInv'
  <2>1. copies.manifest /\ \A f \in Pair : copies.saved[f] = edit.was[f]
    BY <1>1 DEF NetInv, CopiesInv, Armed, Late
  <2>2. \A f \in ours' : copies.saved[f] = replaced'[f] \/ Late(f, "rename")
    BY <1>1, <1>2, <1>3, <2>1 DEF NetInv, NetTypes, CopiesInv
  <2> QED
    BY <1>1, <1>4, <2>1, <2>2 DEF NetInv, CopiesInv, Armed, SameWork, Late
<1>7. EditInv'
  <2>1. \A f \in ours' : PlannedIn(f) /\ interfaces'[f] = edit.plan[f]
    BY <1>1, <1>2, <1>3 DEF NetInv, NetTypes, EditInv, Armed
  <2> QED
    BY <1>1, <1>4, <2>1 DEF NetInv, EditInv, Armed, Late, PlannedIn, SameWork
<1>8. UneditedInv'
  <2>1. edits = 0 =>
          \A f \in Pair : interfaces'[f] = IF f \in ours' THEN edit.plan[f] ELSE original[f]
    BY <1>1, <1>3 DEF NetInv, UneditedInv, Armed
  <2> QED
    BY <1>1, <1>4, <2>1 DEF NetInv, UneditedInv, Armed, PlannedIn, SameWork
<1>9. ToldInv'
  BY <1>4 DEF ToldInv
<1> QED
  BY <1>5, <1>6, <1>7, <1>8, <1>9 DEF NetInv

LEMMA NetValidate ==
  ASSUME NetInv, NEW verdict, N!Validate(verdict)
  PROVE  NetInv'
<1>1. /\ edit.phase = "validate"
      /\ UNCHANGED <<interfaces, original, ours, replaced, late, edits, copies>>
  BY DEF N!Validate, N!Ghosts, N!Counters
<1>2. CASE N!Go("inspect") /\ told' = told
  BY <1>1, <1>2, NetLooks
<1>3. CASE edit' = N!Idle /\ told' = "done"
  BY <1>1, <1>3, NetEnds DEF Ways
<1> QED
  BY <1>2, <1>3 DEF N!Validate, N!End

LEMMA NetInspect ==
  ASSUME NetInv, N!Inspect
  PROVE  NetInv'
<1> DEFINE pending == {f \in N!Files : N!Planned(f) /\ interfaces[f] # edit.was[f] /\ interfaces[f] = edit.plan[f]}
           conflict == \E f \in N!Files : N!Planned(f) /\ interfaces[f] \notin {edit.was[f], edit.plan[f]}
<1>1. /\ edit.phase = "inspect"
      /\ edit' = [edit EXCEPT !.phase = "undo", !.i = 1, !.pending = pending, !.conflict = conflict]
      /\ UNCHANGED <<interfaces, original, ours, replaced, late, edits, told, copies>>
  BY DEF N!Inspect, N!Ghosts, N!Counters
<1>2. pending \subseteq Pair /\ \A f \in pending : PlannedIn(f)
  BY AtRest DEF PlannedIn, N!Planned
<1>3. \A f \in ours : f \in pending
  BY <1>1, AtRest DEF NetInv, NetTypes, EditInv, Armed, PlannedIn, N!Planned
<1>4. edits = 0 => ~conflict
  <2>1. ASSUME edits = 0, NEW f \in Pair, PlannedIn(f)
        PROVE  interfaces[f] \in {edit.was[f], edit.plan[f]}
    BY <1>1, <2>1 DEF NetInv, UneditedInv, Armed
  <2> QED
    BY <2>1, AtRest DEF PlannedIn, N!Planned
<1> HIDE DEF pending, conflict
<1>5. /\ SameWork(edit', edit) /\ edit'.phase = "undo" /\ edit'.i = 1
      /\ edit'.pending = pending /\ edit'.conflict = conflict
  BY <1>1 DEF SameWork, EditFields, NetInv, NetTypes
<1>6. NetTypes'
  BY <1>1, <1>2, <1>5 DEF NetInv, NetTypes, NetPhases, SameWork
<1>7. CopiesInv'
  BY <1>1, <1>5 DEF NetInv, CopiesInv, Armed, Late, SameWork
<1>8. EditInv'
  <2>1. \A f \in ours : ~(Place(f) < 1)
    BY DEF Place
  <2>2. (\A f \in ours : f \in edit.pending /\ ~Walked(f))'
    BY <1>1, <1>3, <1>5, <2>1 DEF Walked
  <2>3. (\A f \in edit.pending : PlannedIn(f))'
    BY <1>2, <1>5 DEF PlannedIn, SameWork
  <2> QED
    BY <1>1, <1>5, <2>2, <2>3 DEF NetInv, EditInv, Armed, Late, PlannedIn, SameWork
<1>9. UneditedInv'
  BY <1>1, <1>4, <1>5 DEF NetInv, UneditedInv, Armed, PlannedIn, SameWork
<1>10. ToldInv'
  BY <1>5 DEF ToldInv
<1> QED
  BY <1>6, <1>7, <1>8, <1>9, <1>10 DEF NetInv

LEMMA NetUndo ==
  ASSUME NetInv, N!Undo
  PROVE  NetInv'
<1> DEFINE g == N!file
<1>1. /\ edit.phase = "undo" /\ g \in Pair /\ Place(g) = edit.i /\ edit.i \in {1, 2} /\ Len(N!Order) = 2
      /\ edit.i = 1 => g = Main
      /\ edit.i = 2 => g = Extra
      /\ UNCHANGED <<interfaces, original, ours, replaced, late, edits, copies>>
  BY InHand DEF N!Undo, N!Ghosts, N!Counters, NetInv, NetTypes
<1>o. \A f \in ours : f \in edit.pending /\ ~(Place(f) < edit.i) /\ f \in Pair
  BY <1>1 DEF NetInv, NetTypes, EditInv, Walked
<1>2. CASE g \notin edit.pending /\ edit.i = 1
  <2>1. N!Advance("undo") /\ told' = told
    BY <1>1, <1>2 DEF N!Undo
  <2>2. /\ SameWork(edit', edit) /\ edit'.phase = "undo" /\ edit'.i = 2
        /\ edit'.pending = edit.pending /\ edit'.conflict = edit.conflict
    BY <1>1, <1>2, <2>1, Advances DEF NetInv
  <2>3. NetTypes'
    BY <1>1, <2>1, <2>2 DEF NetInv, NetTypes, NetPhases, SameWork
  <2>4. CopiesInv'
    BY <1>1, <2>2 DEF NetInv, CopiesInv, Armed, Late, SameWork
  <2>5. EditInv'
    <3>1. \A f \in ours : ~(Place(f) < 2)
      BY <1>1, <1>2, <1>o DEF Place
    <3>2. (\A f \in ours : f \in edit.pending /\ ~Walked(f))'
      BY <1>1, <1>o, <2>2, <3>1 DEF Walked
    <3> QED
      BY <1>1, <2>2, <3>2 DEF NetInv, EditInv, Armed, Late, PlannedIn, SameWork
  <2>6. UneditedInv'
    BY <1>1, <2>2 DEF NetInv, UneditedInv, Armed, PlannedIn, SameWork
  <2>7. ToldInv'
    BY <2>2 DEF ToldInv
  <2> QED
    BY <2>3, <2>4, <2>5, <2>6, <2>7 DEF NetInv
<1>3. CASE g \notin edit.pending /\ edit.i = 2
  <2>1. edit' = N!Idle /\ told' = IF edit.conflict THEN "conflict" ELSE "failed"
    BY <1>1, <1>3 DEF N!Undo, N!End
  <2>2. ours = {}
    BY <1>1, <1>3, <1>o DEF Place, Pair
  <2>3. edits = 0 => ~edit.conflict /\ \A f \in Pair : interfaces[f] = original[f]
    BY <1>1, <2>2 DEF NetInv, UneditedInv, Armed
  <2>4. edits \in Nat
    BY DEF NetInv, NetTypes
  <2>5. told' = "conflict" => edits > 0
    BY <2>1, <2>3, <2>4
  <2> QED
    BY <1>1, <2>1, <2>2, <2>3, <2>5, NetEnds DEF Ways
<1>4. CASE /\ g \in edit.pending /\ interfaces[g] = edit.plan[g]
           /\ edit' = [edit EXCEPT !.phase = "put_back"] /\ told' = told
  <2>1. /\ SameWork(edit', edit) /\ edit'.phase = "put_back" /\ edit'.i = edit.i
        /\ edit'.pending = edit.pending /\ edit'.conflict = edit.conflict
    BY <1>4 DEF SameWork, EditFields, NetInv, NetTypes
  <2>2. N!file' = N!file
    BY <2>1 DEF N!file
  <2>3. NetTypes'
    BY <1>1, <1>4, <2>1 DEF NetInv, NetTypes, NetPhases, SameWork
  <2>4. CopiesInv'
    BY <1>1, <2>1 DEF NetInv, CopiesInv, Armed, Late, SameWork
  <2>5. EditInv'
    <3>1. (interfaces[N!file] = edit.plan[N!file] /\ N!file \in edit.pending)'
      BY <1>1, <1>4, <2>1, <2>2 DEF SameWork
    <3>2. (\A f \in ours : f \in edit.pending /\ ~Walked(f))'
      BY <1>1, <1>o, <2>1 DEF Walked
    <3> QED
      BY <1>1, <2>1, <3>1, <3>2 DEF NetInv, EditInv, Armed, Late, PlannedIn, SameWork
  <2>6. UneditedInv'
    BY <1>1, <2>1 DEF NetInv, UneditedInv, Armed, PlannedIn, SameWork
  <2>7. ToldInv'
    BY <2>1 DEF ToldInv
  <2> QED
    BY <2>3, <2>4, <2>5, <2>6, <2>7 DEF NetInv
<1>5. CASE edit' = N!Idle /\ told' = "recovery_failed"
  BY <1>1, <1>5, NetEnds DEF Ways
<1> QED
  BY <1>1, <1>2, <1>3, <1>4, <1>5 DEF N!Undo, N!End

LEMMA NetPutBack ==
  ASSUME NetInv, N!PutBack
  PROVE  NetInv'
<1> DEFINE g == N!file
<1>1. /\ edit.phase = "put_back" /\ g \in Pair /\ ours' = ours \ {g}
      /\ UNCHANGED <<original, late, edits, told, copies>>
  BY InHand DEF N!PutBack, N!Counters, NetInv, NetTypes
<1>2. PlannedIn(g) /\ copies.saved[g] = edit.was[g]
  BY <1>1 DEF NetInv, EditInv, CopiesInv, Armed
<1>3. /\ DOMAIN interfaces' = Pair /\ DOMAIN replaced' = Pair
      /\ \A f \in Pair : interfaces'[f] = IF f = g THEN edit.was[f] ELSE interfaces[f]
      /\ \A f \in Pair : f # g => replaced'[f] = replaced[f]
  <2>1. /\ interfaces' = [interfaces EXCEPT ![g] = copies.saved[g]]
        /\ replaced' = [replaced EXCEPT ![g] = interfaces[g]]
    BY DEF N!PutBack, N!RenameInto
  <2>2. DOMAIN interfaces = Pair /\ DOMAIN replaced = Pair
    BY DEF NetInv, NetTypes
  <2> HIDE DEF g
  <2> QED
    BY <2>1, <2>2, <1>2
<1>4. /\ SameWork(edit', edit) /\ edit'.phase = "undo" /\ edit'.i = edit.i
      /\ edit'.pending = edit.pending \ {g} /\ edit'.conflict = edit.conflict
  <2>1. edit' = [edit EXCEPT !.phase = "undo", !.pending = edit.pending \ {g}] /\ DOMAIN edit = EditFields
    BY DEF N!PutBack, NetInv, NetTypes
  <2> HIDE DEF g
  <2> QED
    BY <2>1 DEF SameWork, EditFields
<1> HIDE DEF g
<1>5. NetTypes'
  BY <1>1, <1>3, <1>4 DEF NetInv, NetTypes, NetPhases, SameWork
<1>6. CopiesInv'
  <2>1. \A f \in ours' : copies.manifest /\ (copies.saved[f] = replaced'[f] \/ Late(f, "rename"))
    BY <1>1, <1>3 DEF NetInv, NetTypes, CopiesInv
  <2> QED
    BY <1>1, <1>4, <2>1 DEF NetInv, CopiesInv, Armed, SameWork, Late
<1>7. EditInv'
  <2>1. \A f \in ours' : PlannedIn(f) /\ interfaces'[f] = edit.plan[f]
    BY <1>1, <1>3 DEF NetInv, NetTypes, EditInv, Armed
  <2>2. (\A f \in ours : f \in edit.pending /\ ~Walked(f))'
    BY <1>1, <1>4 DEF NetInv, EditInv, Walked
  <2>3. (\A f \in edit.pending : PlannedIn(f))'
    BY <1>1, <1>4 DEF NetInv, EditInv, PlannedIn, SameWork
  <2> QED
    BY <1>1, <1>4, <2>1, <2>2, <2>3 DEF NetInv, EditInv, Armed, Late, PlannedIn, SameWork
<1>8. UneditedInv'
  <2>1. edits = 0 =>
          \A f \in Pair : interfaces'[f] = IF f \in ours' THEN edit.plan[f] ELSE original[f]
    BY <1>1, <1>2, <1>3 DEF NetInv, UneditedInv, Armed
  <2> QED
    BY <1>1, <1>4, <2>1 DEF NetInv, UneditedInv, Armed, PlannedIn, SameWork
<1>9. ToldInv'
  BY <1>4 DEF ToldInv
<1> QED
  BY <1>5, <1>6, <1>7, <1>8, <1>9 DEF NetInv

LEMMA NetRestore ==
  ASSUME NetInv, N!Restore
  PROVE  NetInv'
<1>1. /\ edit.phase = "idle" /\ told' = "none"
      /\ UNCHANGED <<interfaces, original, copies, ours, replaced, late, edits>>
  BY DEF N!Restore, N!Running, N!Ghosts, N!Counters
<1>2. /\ DOMAIN edit' = EditFields /\ edit'.phase = "restore" /\ edit'.i = 1 /\ edit'.pending = {}
  BY AtRest DEF N!Restore, EditFields
<1>3. NetTypes'
  BY <1>1, <1>2 DEF NetInv, NetTypes, NetPhases, Ways
<1>4. CopiesInv'
  BY <1>1, <1>2 DEF NetInv, CopiesInv, Armed, Late
<1>5. EditInv' /\ UneditedInv' /\ ToldInv'
  BY <1>1, <1>2 DEF EditInv, UneditedInv, ToldInv, Armed
<1> QED
  BY <1>3, <1>4, <1>5 DEF NetInv

LEMMA NetRestoreFile ==
  ASSUME NetInv, N!RestoreFile
  PROVE  NetInv'
<1> DEFINE g == N!file
<1>1. /\ edit.phase = "restore" /\ UNCHANGED <<copies, original, replaced, late, edits>>
      /\ g \in Pair /\ edit.i \in {1, 2} /\ Len(N!Order) = 2
  BY InHand DEF N!RestoreFile, N!Counters, NetInv, NetTypes
<1>2. DOMAIN interfaces' = Pair /\ ours' \subseteq ours
  BY <1>1 DEF N!RestoreFile, NetInv, NetTypes
<1>3. /\ DOMAIN edit' = EditFields /\ edit'.phase \in {"restore", "idle"} /\ edit'.i \in {1, 2}
      /\ edit'.pending \subseteq Pair /\ told' \in Ways
      /\ edit'.phase = "idle" => told' = "restored"
  <2>1. CASE edit.i = 1
    <3>1. N!Advance("restore") /\ told' = told
      BY <1>1, <2>1 DEF N!RestoreFile
    <3> QED
      BY <1>1, <2>1, <3>1, Advances DEF NetInv, NetTypes, SameWork
  <2>2. CASE edit.i = 2
    <3>1. edit' = N!Idle /\ told' = "restored"
      BY <1>1, <2>2 DEF N!RestoreFile, N!End
    <3> QED
      BY <3>1, AtRest DEF Ways
  <2> QED
    BY <1>1, <2>1, <2>2
<1>4. NetTypes'
  BY <1>1, <1>2, <1>3 DEF NetInv, NetTypes, NetPhases
<1>5. CopiesInv'
  BY <1>1, <1>2, <1>3 DEF NetInv, CopiesInv, Armed, Late
<1>6. EditInv' /\ UneditedInv' /\ ToldInv'
  BY <1>3 DEF EditInv, UneditedInv, ToldInv, Armed
<1> QED
  BY <1>4, <1>5, <1>6 DEF NetInv

LEMMA NetStepFails ==
  ASSUME NetInv, N!StepFails
  PROVE  NetInv'
<1>1. /\ edit.phase # "idle" /\ edit.phase \in NetPhases
      /\ UNCHANGED <<interfaces, original, ours, replaced, late, edits>>
  BY DEF N!StepFails, N!Running, N!Ghosts, NetInv, NetTypes
<1>2. CASE edit.phase \in {"plan", "backup"}
  <2>1. edit' = N!Idle /\ told' = "refused" /\ copies' = copies
    BY <1>2 DEF N!StepFails, N!End
  <2> QED
    BY <1>1, <2>1, NetEnds DEF Ways
<1>3. CASE edit.phase \in {"save", "manifest"}
  <2>1. /\ edit' = N!Idle /\ told' = "refused"
        /\ copies' = [dir |-> FALSE, saved |-> N!Unplanned, manifest |-> FALSE]
    BY <1>3 DEF N!StepFails, N!End
  <2>2. /\ DOMAIN edit' = EditFields /\ edit'.phase = "idle" /\ edit'.i = 1 /\ edit'.pending = {}
    BY <2>1, AtRest
  <2>3. DOMAIN copies' = {"dir", "saved", "manifest"} /\ DOMAIN copies'.saved = Pair /\ ~copies'.manifest
    BY <2>1, AtRest
  <2>4. ours = {}
    BY <1>3 DEF NetInv, CopiesInv
  <2>5. NetTypes'
    BY <1>1, <2>1, <2>2, <2>3 DEF NetInv, NetTypes, NetPhases, Ways
  <2>6. CopiesInv'
    BY <1>1, <2>2, <2>3, <2>4 DEF CopiesInv, Armed
  <2>7. EditInv' /\ UneditedInv' /\ ToldInv'
    BY <2>1, <2>2 DEF EditInv, UneditedInv, ToldInv, Armed
  <2> QED
    BY <2>5, <2>6, <2>7 DEF NetInv
<1>4. CASE edit.phase \in {"check", "verify", "rename", "validate"}
  <2>1. N!Go("inspect") /\ told' = told /\ copies' = copies
    BY <1>4 DEF N!StepFails
  <2> QED
    BY <1>1, <1>4, <2>1, NetLooks
<1>5. CASE edit.phase \in {"inspect", "undo", "put_back", "restore"}
  <2>1. edit' = N!Idle /\ told' = "recovery_failed" /\ copies' = copies
    BY <1>5 DEF N!StepFails, N!End
  <2> QED
    BY <1>1, <2>1, NetEnds DEF Ways
<1> QED
  BY <1>1, <1>2, <1>3, <1>4, <1>5 DEF NetPhases

LEMMA NetCrash ==
  ASSUME NetInv, N!Crash
  PROVE  NetInv'
<1>1. /\ edit' = N!Idle /\ told' = "crashed"
      /\ UNCHANGED <<interfaces, original, copies, ours, replaced, late, edits>>
  BY DEF N!Crash, N!End, N!Ghosts
<1> QED
  BY <1>1, NetEnds DEF Ways

LEMMA NetEdit ==
  ASSUME NetInv, NEW f \in N!Files, NEW content, N!Edit(f, content)
  PROVE  NetInv'
<1>1. /\ edit.phase # "idle" /\ f \in Pair /\ edits' = edits + 1 /\ edits \in Nat /\ ours' = ours \ {f}
      /\ UNCHANGED <<copies, edit, original, replaced, told>>
  BY AtRest DEF N!Edit, N!Running, NetInv, NetTypes
<1>2. DOMAIN interfaces' = Pair /\ \A h \in Pair : h # f => interfaces'[h] = interfaces[h]
  BY <1>1 DEF N!Edit, NetInv, NetTypes
<1>3. edits' \in Nat /\ edits' # 0
  BY <1>1
<1>4. N!file \in Pair /\ N!file' = N!file
  BY <1>1, InHand DEF NetInv, NetTypes, N!file
<1>5. NetTypes'
  BY <1>1, <1>2, <1>3 DEF NetInv, NetTypes
<1>9. /\ \A h, phase : Late(h, phase) => Late(h, phase)'
      /\ edit.phase \in {"rename", "put_back"} /\ f = N!file => Late(f, edit.phase)'
  BY DEF N!Edit, N!InWindow, Late
<1>6. CopiesInv'
  BY <1>1, <1>9 DEF NetInv, CopiesInv, Walked
<1>7. EditInv'
  <2>1. \A h \in Pair : PlannedIn(h)' = PlannedIn(h)
    BY <1>1 DEF PlannedIn
  <2>2. \A h \in ours' : h \in Pair /\ h # f /\ h \in ours
    BY <1>1 DEF NetInv, NetTypes
  <2>3. edit.phase \in Armed => \A h \in ours' : PlannedIn(h) /\ interfaces'[h] = edit.plan[h]
    BY <1>2, <2>2 DEF NetInv, EditInv
  <2>4. edit.phase = "rename" =>
          /\ PlannedIn(N!file) /\ N!file \notin ours'
          /\ interfaces'[N!file] = edit.was[N!file] \/ Late(N!file, "rename")'
    BY <1>1, <1>2, <1>4, <1>9 DEF NetInv, EditInv
  <2>5. edit.phase \in {"undo", "put_back"} =>
          /\ \A h \in ours' : h \in edit.pending /\ ~Walked(h)'
          /\ \A h \in edit.pending : PlannedIn(h) /\ h \in Pair
    BY <1>1, <2>2 DEF NetInv, NetTypes, EditInv, Walked
  <2>6. edit.phase = "put_back" =>
          /\ N!file \in edit.pending
          /\ interfaces'[N!file] = edit.plan[N!file] \/ Late(N!file, "put_back")'
    BY <1>1, <1>2, <1>4, <1>9 DEF NetInv, EditInv
  <2>7. edit.phase = "check" => ours' = {}
    BY <1>1 DEF NetInv, EditInv
  <2>8. edit.phase \in {"backup", "save", "manifest"} \cup Armed =>
          \A h \in Pair : PlannedIn(h) => edit.plan[h] # edit.was[h]
    BY DEF NetInv, EditInv
  <2> QED
    BY <1>1, <1>4, <2>1, <2>2, <2>3, <2>4, <2>5, <2>6, <2>7, <2>8 DEF EditInv
<1>8. UneditedInv' /\ ToldInv'
  BY <1>1, <1>3 DEF UneditedInv, ToldInv
<1> QED
  BY <1>5, <1>6, <1>7, <1>8 DEF NetInv

LEMMA NetTurns ==
  ASSUME NetInv, N!Next
  PROVE  NetInv'
  BY NetStart, NetPlan, NetBeginBackup, NetSave, NetWriteManifest, NetCheckAll, NetVerify, NetReplace,
     NetValidate, NetInspect, NetUndo, NetPutBack, NetRestore, NetRestoreFile, NetStepFails, NetCrash, NetEdit
     DEF N!Next

LEMMA NetStands ==
  ASSUME NetInv, UNCHANGED netVars
  PROVE  NetInv'
<1>1. NetTypes'
  BY DEF netVars, NetInv, NetTypes
<1>2. CopiesInv'
  BY DEF netVars, NetInv, CopiesInv, Walked, Late
<1>3. EditInv'
  BY DEF netVars, NetInv, EditInv, Walked, PlannedIn, N!file, Late
<1>4. UneditedInv' /\ ToldInv'
  BY DEF netVars, NetInv, UneditedInv, ToldInv, PlannedIn
<1> QED
  BY <1>1, <1>2, <1>3, <1>4 DEF NetInv

LEMMA NetInductive == SideBySide => []NetInv
<1>1. Parts => NetInv
  BY NetStarts DEF Parts
<1>2. NetInv /\ [Steps]_all => NetInv'
  BY NetTurns, NetStands, EachGoesOn
<1> QED
  BY <1>1, <1>2, PTL DEF SideBySide

(* Whatever the files hold, whatever is selected, edited, fails or dies: a   *)
(* file with content of lkit's has a complete manifest beside it and what    *)
(* lkit replaced there in it, but for an edit made between the last look and *)
(* the rename; an operation that reports failure has left nothing of its own *)
(* behind (replace_if_unchanged, restore_if_unchanged).                      *)
THEOREM HostNetRestorable ==
  SideBySide => [](N!TypeOK /\ N!AlwaysRestorable /\ N!FailureLeavesNothing)
<1>1. NetInv => N!TypeOK /\ N!AlwaysRestorable /\ N!FailureLeavesNothing
  <2> SUFFICES ASSUME NetInv PROVE N!TypeOK /\ N!AlwaysRestorable /\ N!FailureLeavesNothing
    OBVIOUS
  <2>1. Len(N!Order) = 2 /\ 1..2 = {1, 2}
    BY DEF N!Order
  <2>2. N!TypeOK
    BY <2>1, AtRest DEF NetInv, NetTypes, NetPhases, Ways, N!TypeOK
  <2>3. N!AlwaysRestorable
    BY DEF NetInv, CopiesInv, N!AlwaysRestorable, Late
  <2>4. N!FailureLeavesNothing
    BY AtRest DEF NetInv, ToldInv, N!FailureLeavesNothing, N!Running
  <2> QED
    BY <2>2, <2>3, <2>4
<1> QED
  BY <1>1, NetInductive, PTL

(* A step that replaces a file looks at that one only. *)
LEMMA OthersStay ==
  ASSUME NetInv, N!Next, edit.phase \in {"rename", "put_back"}, edits' = edits,
         NEW f \in Pair, interfaces'[f] # interfaces[f]
  PROVE  f = N!file
<1>0. DOMAIN interfaces = Pair /\ edits \in Nat
  BY DEF NetInv, NetTypes
<1>1. CASE N!Replace \/ N!PutBack
  <2>1. PICK c : interfaces' = [interfaces EXCEPT ![N!file] = c]
    BY <1>1 DEF N!Replace, N!PutBack, N!RenameInto
  <2> QED
    BY <1>0, <2>1
<1>2. CASE \E g \in N!Files : \E content \in Contents[g] : N!Edit(g, content)
  BY <1>0, <1>2 DEF N!Edit
<1>3. CASE N!RestoreFile
  BY <1>3 DEF N!RestoreFile
<1>4. CASE \/ \E selected \in Selections : N!Start(selected)
           \/ N!Plan \/ N!BeginBackup \/ N!Save \/ N!WriteManifest \/ N!CheckAll \/ N!Verify
           \/ \E verdict \in {"clean", "unavailable", "failed"} : N!Validate(verdict)
           \/ N!Inspect \/ N!Undo \/ N!Restore \/ N!StepFails \/ N!Crash
  BY <1>4 DEF N!Start, N!Plan, N!BeginBackup, N!Save, N!WriteManifest, N!CheckAll, N!Verify,
              N!Validate, N!Inspect, N!Undo, N!Restore, N!StepFails, N!Crash
<1> QED
  BY <1>1, <1>2, <1>3, <1>4 DEF N!Next

LEMMA NoEditLost ==
  ASSUME NetInv, [N!Next]_netVars, NEW f \in Pair, interfaces'[f] # interfaces[f],
         edit.phase \in {"rename", "put_back"}, edits' = edits, ~Late(f, edit.phase)
  PROVE  interfaces[f] = IF edit.phase = "rename" THEN edit.was[f] ELSE edit.plan[f]
<1>1. f = N!file
  BY OthersStay DEF netVars
<1> QED
  BY <1>1 DEF NetInv, EditInv

-----------------------------------------------------------------------------
(* What no step does *)

(* No step replaces an administrator's edit that was there when lkit last    *)
(* looked, a foreign unit, a backup or an output file, and an install or an upgrade that reports success has the    *)
(* daemon it speaks of running (replace_if_unchanged, install_daemon,        *)
(* refresh_after_upgrade, publish_no_replace).                               *)
THEOREM PromisesKept == SideBySide => StepsKeepPromises
<1>1. ASSUME NetInv, [N!Next]_netVars
      PROVE  \A f \in N!Files :
               /\ interfaces'[f] # interfaces[f] /\ edit.phase \in {"rename", "put_back"} /\ edits' = edits
               /\ <<f, edit.phase>> \notin late
               => interfaces[f] = IF edit.phase = "rename" THEN edit.was[f] ELSE edit.plan[f]
  BY <1>1, NoEditLost, AtRest DEF Late
<1>2. SideBySide => N!NoEditOverwritten
  BY <1>1, NetInductive, EachGoesOn, PTL DEF SideBySide, N!NoEditOverwritten, netVars, N!vars
<1>3. ASSUME SelfInv, [S!Next]_selfVars
      PROVE  (manager = "systemd" /\ sys.reg \in {"other", "file"}) => sys'.reg = sys.reg
  BY <1>3, ForeignStays
<1>4. SideBySide => S!ForeignKept
  BY <1>3, SelfInductive, EachGoesOn, PTL DEF SideBySide, S!ForeignKept, selfVars, S!vars, S!host
<1>5. ASSUME SelfInv, [S!Next]_selfVars
      PROVE  (at = "pid" /\ at' = "idle" /\ clean') =>
               /\ sys'.reg = "ours" /\ sys'.origin /\ sys'.enabled
               /\ sys'.proc = "running" /\ sys'.ver = bin.ver
  BY <1>5, InstalledRuns
<1>6. SideBySide => S!InstalledMeansRunning
  BY <1>5, SelfInductive, EachGoesOn, PTL DEF SideBySide, S!InstalledMeansRunning, selfVars, S!vars, S!host
<1>7. ASSUME SelfInv, [S!Next]_selfVars
      PROVE  (at = "refresh" /\ at' = "idle" /\ clean' /\ sys'.proc = "running") =>
               /\ sys.proc \in {"running", "dying"}
               /\ sys'.reg # "file" /\ S!Defined(sys') => sys'.ver = bin.ver
  BY <1>7, RefreshedRunsNew
<1>8. SideBySide => S!UpgradedDaemonRunsNew
  BY <1>7, SelfInductive, EachGoesOn, PTL DEF SideBySide, S!UpgradedDaemonRunsNew, selfVars, S!vars, S!host
<1>9. SideBySide => NeverReplaced
  BY BackupsBeside, BackupsNeverReplaced, PTL
<1> QED
  BY <1>2, <1>4, <1>6, <1>8, <1>9, PTL DEF StepsKeepPromises
=============================================================================
