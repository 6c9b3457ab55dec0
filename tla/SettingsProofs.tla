--------------------------- MODULE SettingsProofs ---------------------------
(***************************************************************************)
(* Proofs about Settings for any number of programs, frontends and         *)
(* commands: what readers of config.toml find, what a program changes of   *)
(* it, and that the daemon keeps hosting.                                  *)
(***************************************************************************)
EXTENDS Settings, FiniteSetTheorems, TLAPS

Flares == [psk : {"none", "p1", "made"}, dev : {"any", "ghost"}]
Fronts == [active : Source \cup {"official"}, sources : SUBSET Source]
Words == [lang : {"zh"}]
Docs == [kind : {"none", "toml", "junk"}, base : BOOLEAN, flare : Flares, front : Fronts,
         lang : {"none", "zh"}]
Calls == Commands \cup {<<"generate", "none">>, <<"none", "none">>}
BusyPcs == {"save", "open", "write", "rename"}

(* A document readers can make something of. *)
Sane(d) == d \in Docs /\ ValidateFrontend(d.front) /\ (d.kind = "none" => d = NoDoc)
Shapes ==
  /\ inode \in [Inodes -> Docs] /\ doc \in [Prog -> Docs]
  /\ \A i \in Inodes : Sane(inode[i])
  /\ \A p \in Prog : Sane(doc[p])
  /\ config \in Inodes \cup {0} /\ tmp \in Inodes \cup {0} /\ held \in [Prog -> Inodes \cup {0}]
  /\ pc \in [Prog -> {"idle", "start", "spawn", "up", "down"} \cup BusyPcs]
  /\ op \in [Prog -> Calls] /\ section \in [Prog -> Flares \cup Fronts \cup Words]
  /\ hosted \in Flares

(* Names and open files. *)
HeldInv ==
  /\ tmp # 0 => tmp # config
  /\ \A p \in Prog : held[p] # 0 <=> pc[p] \in {"write", "rename"}

(* What a program works with fits its command. *)
Fits(c, s) ==
  \/ c[1] \in {"psk", "dev", "generate"} /\ s \in Flares
  \/ c[1] = "language" /\ s \in Words
  \/ c[1] \in {"add", "activate", "select", "remove"} /\ s \in Fronts /\ ValidateFrontend(s)

(* A program that works: what it saves is the file as it still is, with its *)
(* own section, as long as nobody else works; the temporary file is its own. *)
SavedInv(p) ==
  pc[p] \in {"open", "write", "rename"} =>
    Current.kind # "junk" /\ doc[p] = WithSection(Base, op[p], section[p])
TmpInv(p) ==
  pc[p] \in {"write", "rename"} =>
    tmp = held[p] /\ inode[held[p]] = IF pc[p] = "write" THEN Empty ELSE doc[p]
MadeInv(p) ==
  p = Daemon => LoadFlare.psk = "none" /\ section[p] = [LoadFlare EXCEPT !.psk = "made"]
OwnInv(p) ==
  pc[p] \in BusyPcs =>
    /\ Fits(op[p], section[p])
    /\ p = Daemon => op[p] = <<"generate", "none">> /\ section[p].psk = "made"
    /\ ~overlap => SavedInv(p) /\ TmpInv(p) /\ MadeInv(p)

AloneInv == ~overlap => \A p, q \in Prog : pc[p] \in BusyPcs /\ pc[q] \in BusyPcs => p = q

HostInv ==
  /\ task \in {"none", "running", "finished"}
  /\ task # "none" <=> pc[Daemon] = "up"
  /\ pc[Daemon] = "up" => hosted.psk # "none"
  /\ pc[Daemon] = "spawn" => section[Daemon] \in Flares /\ section[Daemon].psk # "none"

SettingsInv ==
  /\ Shapes /\ HeldInv /\ HostInv /\ AloneInv /\ AlwaysReadable
  /\ \A p \in Prog : OwnInv(p)

-----------------------------------------------------------------------------
(* Documents *)

LEMMA Blank ==
  /\ NoSection \in Flares /\ NoSection.psk = "none"
  /\ NoFrontend \in Fronts /\ ValidateFrontend(NoFrontend)
  /\ NoDoc \in Docs /\ NoDoc.kind = "none" /\ ~NoDoc.base /\ NoDoc.flare = NoSection
  /\ NoDoc.front = NoFrontend /\ NoDoc.lang = "none"
<1>1. /\ NoSection \in Flares /\ NoSection.psk = "none"
      /\ NoFrontend \in Fronts /\ ValidateFrontend(NoFrontend)
  BY DEF NoSection, Flares, NoFrontend, Fronts, ValidateFrontend
<1>2. FALSE \in BOOLEAN
  OBVIOUS
<1>3. /\ NoDoc \in Docs /\ NoDoc.kind = "none" /\ ~NoDoc.base /\ NoDoc.flare = NoSection
      /\ NoDoc.front = NoFrontend /\ NoDoc.lang = "none"
  BY <1>1, <1>2, Zenon DEF NoDoc, Docs
<1> QED
  BY <1>1, <1>3

LEMMA KindOf ==
  ASSUME NEW d \in Docs, NEW k \in {"none", "toml", "junk"}
  PROVE  LET e == [d EXCEPT !.kind = k]
         IN  /\ e \in Docs /\ e.kind = k /\ e.base = d.base /\ e.flare = d.flare
             /\ e.front = d.front /\ e.lang = d.lang
  BY DEF Docs

LEMMA BaseOf ==
  ASSUME NEW d \in Docs, NEW b \in BOOLEAN
  PROVE  LET e == [d EXCEPT !.base = b]
         IN  /\ e \in Docs /\ e.kind = d.kind /\ e.base = b /\ e.flare = d.flare
             /\ e.front = d.front /\ e.lang = d.lang
  BY DEF Docs

LEMMA FlareOf ==
  ASSUME NEW d \in Docs, NEW x \in Flares
  PROVE  LET e == [d EXCEPT !.flare = x]
         IN  /\ e \in Docs /\ e.kind = d.kind /\ e.base = d.base /\ e.flare = x
             /\ e.front = d.front /\ e.lang = d.lang
  BY DEF Docs

LEMMA FrontOf ==
  ASSUME NEW d \in Docs, NEW x \in Fronts
  PROVE  LET e == [d EXCEPT !.front = x]
         IN  /\ e \in Docs /\ e.kind = d.kind /\ e.base = d.base /\ e.flare = d.flare
             /\ e.front = x /\ e.lang = d.lang
  BY DEF Docs

LEMMA LangOf ==
  ASSUME NEW d \in Docs, NEW x \in {"none", "zh"}
  PROVE  LET e == [d EXCEPT !.lang = x]
         IN  /\ e \in Docs /\ e.kind = d.kind /\ e.base = d.base /\ e.flare = d.flare
             /\ e.front = d.front /\ e.lang = x
  BY DEF Docs

LEMMA SameBase ==
  ASSUME NEW d \in Docs, d.base = FALSE
  PROVE  [d EXCEPT !.base = FALSE] = d
  BY DEF Docs

LEMMA SameFlare ==
  ASSUME NEW d \in Docs, NEW x \in Flares, d.flare = x
  PROVE  [d EXCEPT !.flare = x] = d
  BY DEF Docs

LEMMA Blanks ==
  /\ Sane(NoDoc) /\ Sane(Minimal) /\ Sane(Empty) /\ Sane(Junk)
  /\ Minimal.kind = "toml" /\ Minimal.base /\ Minimal.flare = NoSection
  /\ Empty.kind = "toml" /\ Junk.kind = "junk"
<1>1. /\ Empty \in Docs /\ Empty.kind = "toml" /\ Empty.front = NoFrontend
      /\ Empty.flare = NoSection
  BY Blank, KindOf DEF Empty
<1>2. Junk \in Docs /\ Junk.kind = "junk" /\ Junk.front = NoFrontend
  BY Blank, KindOf DEF Junk
<1>3. /\ Minimal \in Docs /\ Minimal.kind = "toml" /\ Minimal.base
      /\ Minimal.flare = NoSection /\ Minimal.front = NoFrontend
  <2>1. Minimal = [Empty EXCEPT !.base = TRUE]
    BY Blank DEF Minimal, Empty, Docs
  <2>2. TRUE \in BOOLEAN
    OBVIOUS
  <2> QED
    BY <1>1, <2>1, <2>2, BaseOf
<1> QED
  BY <1>1, <1>2, <1>3, Blank DEF Sane

LEMMA WithSectionSane ==
  ASSUME NEW d, Sane(d), d.kind # "none", NEW c, NEW s, Fits(c, s)
  PROVE  LET e == WithSection(d, c, s)
         IN  Sane(e) /\ e.kind = d.kind /\ e.base = d.base
<1>0. d \in Docs /\ ValidateFrontend(d.front)
  BY DEF Sane
<1>1. CASE c[1] \in {"psk", "dev", "generate"}
  <2>1. WithSection(d, c, s) = [d EXCEPT !.flare = s] /\ s \in Flares
    BY <1>1 DEF WithSection, Fits
  <2> QED
    BY <1>0, <2>1, FlareOf DEF Sane
<1>2. CASE c[1] = "language"
  <2> DEFINE l == s.lang
  <2>1. WithSection(d, c, s) = [d EXCEPT !.lang = l]
    BY <1>2 DEF WithSection
  <2>2. l \in {"none", "zh"}
    BY <1>2 DEF Fits, Words
  <2> HIDE DEF l
  <2> DEFINE e == [d EXCEPT !.lang = l]
  <2>3. e \in Docs /\ e.kind = d.kind /\ e.base = d.base /\ e.front = d.front
    BY <1>0, <2>2, LangOf
  <2> HIDE DEF e
  <2>4. WithSection(d, c, s) = e
    BY <2>1 DEF e
  <2> QED
    BY <1>0, <2>3, <2>4 DEF Sane
<1>3. CASE c[1] \in {"add", "activate", "select", "remove"}
  <2>1. /\ WithSection(d, c, s) = [d EXCEPT !.front = s]
        /\ s \in Fronts /\ ValidateFrontend(s)
    BY <1>3 DEF WithSection, Fits
  <2> QED
    BY <1>0, <2>1, FrontOf DEF Sane
<1> QED
  BY <1>1, <1>2, <1>3 DEF Fits

LEMMA CurrentSane ==
  ASSUME Shapes
  PROVE  /\ Sane(Current) /\ Sane(Base) /\ Base.kind # "none"
         /\ LoadFlare \in Flares
         /\ Current.kind # "none" => Base = Current
<1>1. Sane(Current)
  BY Blanks DEF Current, Shapes
<1>2. Current.flare \in Flares
  BY <1>1 DEF Sane, Docs
<1> QED
  BY <1>1, <1>2, Blank, Blanks DEF Base, LoadFlare

-----------------------------------------------------------------------------
(* Inodes: there is always a free one *)

LEMMA ProgramsFinite == IsFiniteSet(Prog) /\ Cardinality(Prog) \in Nat
<1>1. IsFiniteSet(Prog)
  BY Programs, FS_AddElement DEF Prog
<1> QED
  BY <1>1, FS_CardinalityType

LEMMA FreeIs ==
  ASSUME Shapes, tmp = 0
  PROVE  /\ Free \in Inodes /\ Free # config /\ Free # 0
         /\ \A p \in Prog : Free # held[p]
<1> DEFINE H == {held[p] : p \in Prog}
           U == H \cup {config}
<1>0. 0 \notin Inodes
  BY ProgramsFinite DEF Inodes
<1>1. IsFiniteSet(H) /\ Cardinality(H) <= Cardinality(Prog)
  <2>1. [p \in Prog |-> held[p]] \in Surjection(Prog, H)
    BY DEF Surjection
  <2> HIDE DEF H
  <2> QED
    BY <2>1, ProgramsFinite, FS_Surjection
<1>2. /\ IsFiniteSet(U) /\ Cardinality(U) \in Nat /\ Cardinality(H) \in Nat
      /\ Cardinality(U) <= Cardinality(H) + 1
  <2> HIDE DEF H
  <2>1. IsFiniteSet(U)
    BY <1>1, FS_AddElement
  <2>2. Cardinality(U) \in Nat /\ Cardinality(H) \in Nat
    BY <1>1, <2>1, FS_CardinalityType
  <2>3. Cardinality(U) = IF config \in H THEN Cardinality(H) ELSE Cardinality(H) + 1
    BY <1>1, FS_AddElement
  <2> QED
    BY <2>1, <2>2, <2>3
<1>3. \E i \in Inodes : i \notin U
  <2>1. SUFFICES ASSUME Inodes \subseteq U PROVE FALSE
    OBVIOUS
  <2> HIDE DEF U
  <2>2. IsFiniteSet(Inodes) /\ Cardinality(Inodes) = Cardinality(Prog) + 2
    BY ProgramsFinite, FS_Interval DEF Inodes
  <2>3. Cardinality(Inodes) <= Cardinality(U)
    BY <1>2, <2>1, FS_Subset
  <2> QED
    BY <1>1, <1>2, <2>2, <2>3, ProgramsFinite
<1>4. \E i \in Inodes : i \notin {config, tmp} \cup {held[p] : p \in Prog}
  BY <1>0, <1>3
<1>5. Free \in Inodes /\ Free \notin {config, tmp} \cup {held[p] : p \in Prog}
  BY <1>4 DEF Free
<1> QED
  BY <1>0, <1>5

-----------------------------------------------------------------------------
(* What a step leaves alone *)

Pcs == {"idle", "start", "spawn", "up", "down"} \cup BusyPcs

(* A program that another one's step does not touch. *)
Same(p) ==
  /\ pc'[p] = pc[p] /\ op'[p] = op[p] /\ section'[p] = section[p] /\ doc'[p] = doc[p]
  /\ held'[p] = held[p]

LEMMA Untouched ==
  ASSUME NEW p \in Prog, OwnInv(p), Same(p),
         ~overlap' /\ pc[p] \in BusyPcs =>
           /\ ~overlap /\ Current' = Current /\ tmp' = tmp
           /\ pc[p] \in {"write", "rename"} => inode'[held[p]] = inode[held[p]]
  PROVE  OwnInv(p)'
<1>1. CASE pc[p] \in BusyPcs
  <2>1. /\ Fits(op'[p], section'[p])
        /\ p = Daemon => op'[p] = <<"generate", "none">> /\ section'[p].psk = "made"
    BY <1>1 DEF OwnInv, Same
  <2>2. ASSUME ~overlap' PROVE SavedInv(p)' /\ TmpInv(p)' /\ MadeInv(p)'
    <3>1. SavedInv(p) /\ TmpInv(p) /\ MadeInv(p) /\ Current' = Current /\ tmp' = tmp
      BY <1>1, <2>2 DEF OwnInv
    <3>2. Base' = Base /\ LoadFlare' = LoadFlare
      BY <3>1 DEF Base, LoadFlare
    <3>3. SavedInv(p)'
      BY <3>1, <3>2 DEF SavedInv, Same
    <3>4. TmpInv(p)'
      BY <1>1, <2>2, <3>1 DEF TmpInv, Same
    <3>5. MadeInv(p)'
      BY <3>1, <3>2 DEF MadeInv, Same
    <3> QED
      BY <3>3, <3>4, <3>5
  <2> QED
    BY <2>1, <2>2 DEF OwnInv
<1>2. CASE pc[p] \notin BusyPcs
  BY <1>2 DEF OwnInv, Same
<1> QED
  BY <1>1, <1>2

(* The others while one program works. *)
LEMMA OthersRest ==
  ASSUME AloneInv, NEW q \in Prog, pc[q] \in BusyPcs, overlap' = overlap,
         \A p \in Prog \ {q} : OwnInv(p) /\ Same(p)
  PROVE  \A p \in Prog \ {q} : OwnInv(p)'
<1>1. SUFFICES ASSUME NEW p \in Prog \ {q} PROVE OwnInv(p)'
  OBVIOUS
<1>2. ~(~overlap' /\ pc[p] \in BusyPcs)
  BY DEF AloneInv
<1> QED
  BY <1>2, Untouched

(* At most one program works after a step that starts none. *)
LEMMA StaysAlone ==
  ASSUME AloneInv, ~overlap' => ~overlap,
         \A p \in Prog : pc'[p] \in BusyPcs => pc[p] \in BusyPcs
  PROVE  AloneInv'
  BY DEF AloneInv

LEMMA Closing ==
  ASSUME Shapes, NEW p \in Prog, NEW n \in {"idle", "start", "spawn", "down"}, Close(p, n)
  PROVE  /\ held' \in [Prog -> Inodes \cup {0}] /\ doc' \in [Prog -> Docs]
         /\ \A q \in Prog : Sane(doc'[q])
         /\ section' \in [Prog -> Flares \cup Fronts \cup Words] /\ op' \in [Prog -> Calls]
         /\ pc' \in [Prog -> Pcs]
         /\ pc'[p] = n /\ held'[p] = 0 /\ (n = "spawn" => section' = section)
         /\ \A q \in Prog \ {p} : Same(q)
<1>1. held' = [held EXCEPT ![p] = 0] /\ held' \in [Prog -> Inodes \cup {0}]
  BY DEF Close, Shapes
<1>2. doc' = [doc EXCEPT ![p] = NoDoc] /\ doc' \in [Prog -> Docs]
  BY Blank DEF Close, Shapes
<1>3. \A q \in Prog : Sane(doc'[q])
  BY <1>2, Blanks DEF Shapes
<1>4. /\ section' \in [Prog -> Flares \cup Fronts \cup Words]
      /\ (n = "spawn" => section' = section)
      /\ \A q \in Prog \ {p} : section'[q] = section[q]
  BY Blank DEF Close, Shapes
<1>5. op' = [op EXCEPT ![p] = <<"none", "none">>] /\ op' \in [Prog -> Calls]
  BY DEF Close, Shapes, Calls
<1>6. pc' = [pc EXCEPT ![p] = n] /\ pc' \in [Prog -> Pcs]
  BY DEF Close, Shapes, Pcs
<1>7. \A q \in Prog \ {p} : Same(q)
  BY <1>1, <1>2, <1>4, <1>5, <1>6 DEF Same, Shapes
<1> QED
  BY <1>1, <1>2, <1>3, <1>4, <1>5, <1>6, <1>7 DEF Shapes

LEMMA Unlinking ==
  ASSUME Shapes, Unlink, config' \in Inodes \cup {0}
  PROVE  /\ inode' \in [Inodes -> Docs] /\ \A i \in Inodes : Sane(inode'[i])
         /\ config' # 0 => inode'[config'] = inode[config']
         /\ \A p \in Prog : held'[p] \in Inodes => inode'[held'[p]] = inode[held'[p]]
         /\ config' = config => Current' = Current
<1>1. inode' \in [Inodes -> Docs] /\ \A i \in Inodes : Sane(inode'[i])
  BY Blank, Blanks DEF Unlink, Shapes
<1>2. config' # 0 => inode'[config'] = inode[config']
  BY DEF Unlink, Shapes
<1>3. \A p \in Prog : held'[p] \in Inodes => inode'[held'[p]] = inode[held'[p]]
  BY DEF Unlink, Shapes
<1>4. config' = config => Current' = Current
  BY <1>2 DEF Current
<1> QED
  BY <1>1, <1>2, <1>3, <1>4

-----------------------------------------------------------------------------
(* The commands *)

LEMMA CallsAre ==
  ASSUME NEW c \in Commands
  PROVE  \/ c[1] \in {"add", "activate", "remove"} /\ c[2] \in Source
         \/ c[1] = "select" /\ c[2] \in Source \cup {"official"}
         \/ c[1] = "psk" /\ c[2] = "p1"
         \/ c[1] = "dev" /\ c[2] \in {"any", "ghost"}
         \/ c[1] = "language" /\ c[2] = "zh"
  BY DEF Commands

LEMMA FrontLoaded ==
  ASSUME Shapes
  PROVE  LoadFrontend \in Fronts /\ ValidateFrontend(LoadFrontend)
  BY CurrentSane, Blank DEF LoadFrontend, Sane, Docs

LEMMA FrontFields ==
  ASSUME NEW f \in Fronts
  PROVE  f.sources \in SUBSET Source /\ f.active \in Source \cup {"official"}
  BY DEF Fronts

LEMMA SourcesChange ==
  ASSUME NEW f \in Fronts, NEW S \in SUBSET Source, NEW g, g = [f EXCEPT !.sources = S]
  PROVE  g \in Fronts /\ g.active = f.active /\ g.sources = S
  BY DEF Fronts

LEMMA ActiveChanges ==
  ASSUME NEW f \in Fronts, NEW a \in Source \cup {"official"}, NEW g, g = [f EXCEPT !.active = a]
  PROVE  g \in Fronts /\ g.active = a /\ g.sources = f.sources
  BY DEF Fronts

LEMMA CodeChanges ==
  ASSUME NEW r \in Flares, NEW k \in {"none", "p1", "made"}, NEW g, g = [r EXCEPT !.psk = k]
  PROVE  g \in Flares /\ g.psk = k /\ (r.psk = "none" => [g EXCEPT !.psk = "none"] = r)
  BY DEF Flares

LEMMA DeviceChanges ==
  ASSUME NEW r \in Flares, NEW d \in {"any", "ghost"}, NEW g, g = [r EXCEPT !.dev = d]
  PROVE  g \in Flares
  BY DEF Flares

(* What a command makes of the section it has loaded fits it. *)
LEMMA ChangedFits ==
  ASSUME Shapes, NEW c \in Commands, ~Refused(c)
  PROVE  Fits(c, Changed(c)) /\ Changed(c) \in Flares \cup Fronts \cup Words
<1> DEFINE f == LoadFrontend
           r == LoadFlare
           x == c[2]
           g == Changed(c)
<1>1. f \in Fronts /\ ValidateFrontend(f) /\ f.sources \in SUBSET Source /\ r \in Flares
  BY FrontLoaded, CurrentSane, FrontFields
<1>2. CASE c[1] = "add"
  <2> DEFINE S == f.sources \cup {x}
  <2>1. g = [f EXCEPT !.sources = S] /\ S \in SUBSET Source /\ f.sources \subseteq S
    BY <1>1, <1>2, CallsAre DEF Changed
  <2> HIDE DEF f, x, g, S
  <2>2. g \in Fronts /\ g.active = f.active /\ g.sources = S
    BY <1>1, <2>1, SourcesChange
  <2>3. Fits(c, g) /\ g \in Fronts
    BY <1>1, <1>2, <2>1, <2>2 DEF Fits, ValidateFrontend
  <2> QED
    BY <2>3 DEF g
<1>3. CASE c[1] = "activate"
  <2> DEFINE S == f.sources \cup {x}
             h == [f EXCEPT !.sources = S]
  <2>1. g = [h EXCEPT !.active = x] /\ S \in SUBSET Source /\ x \in S
        /\ x \in Source \cup {"official"}
    BY <1>1, <1>3, CallsAre DEF Changed
  <2> HIDE DEF f, x, g, S
  <2>h. h \in Fronts /\ h.sources = S
    BY <1>1, <2>1, SourcesChange
  <2> HIDE DEF h
  <2>2. g \in Fronts /\ g.active = x /\ g.sources = S
    BY <2>1, <2>h, ActiveChanges
  <2>3. Fits(c, g) /\ g \in Fronts
    BY <1>3, <2>1, <2>2 DEF Fits, ValidateFrontend
  <2> QED
    BY <2>3 DEF g
<1>4. CASE c[1] = "select"
  <2>1. g = [f EXCEPT !.active = x] /\ x \in Source \cup {"official"}
    BY <1>4, CallsAre DEF Changed
  <2>2. x \in f.sources \cup {"official"}
    BY <1>4 DEF Refused
  <2> HIDE DEF f, x, g
  <2>3. g \in Fronts /\ g.active = x /\ g.sources = f.sources
    BY <1>1, <2>1, ActiveChanges
  <2>4. Fits(c, g) /\ g \in Fronts
    BY <1>4, <2>2, <2>3 DEF Fits, ValidateFrontend
  <2> QED
    BY <2>4 DEF g
<1>5. CASE c[1] = "remove"
  <2> DEFINE S == f.sources \ {x}
  <2>1. g = [f EXCEPT !.sources = S] /\ S \in SUBSET Source
    BY <1>1, <1>5 DEF Changed
  <2>2. f.active \in f.sources => f.active \in S
    BY <1>5 DEF Refused
  <2> HIDE DEF f, x, g, S
  <2>a. f \in Fronts
    BY <1>1
  <2>3. g \in Fronts /\ g.active = f.active /\ g.sources = S
    BY <2>1, <2>a, SourcesChange
  <2>4. Fits(c, g) /\ g \in Fronts
    BY <1>1, <1>5, <2>2, <2>3 DEF Fits, ValidateFrontend
  <2> QED
    BY <2>4 DEF g
<1>6. CASE c[1] = "psk"
  <2>1. g = [r EXCEPT !.psk = x] /\ x = "p1"
    BY <1>6, CallsAre DEF Changed
  <2> HIDE DEF r, x, g
  <2>2. g \in Flares
    BY <1>1, <2>1, CodeChanges
  <2> QED
    BY <1>6, <2>2 DEF Fits, g
<1>7. CASE c[1] = "dev"
  <2>1. g = [r EXCEPT !.dev = x] /\ x \in {"any", "ghost"}
    BY <1>7, CallsAre DEF Changed
  <2> HIDE DEF r, x, g
  <2>2. g \in Flares
    BY <1>1, <2>1, DeviceChanges
  <2> QED
    BY <1>7, <2>2 DEF Fits, g
<1>8. CASE c[1] = "language"
  <2>1. g = [lang |-> x] /\ x = "zh"
    BY <1>8, CallsAre DEF Changed
  <2>2. g \in Words
    BY <2>1 DEF Words
  <2> HIDE DEF g
  <2> QED
    BY <1>8, <2>2 DEF Fits, g
<1> QED
  BY <1>2, <1>3, <1>4, <1>5, <1>6, <1>7, <1>8, CallsAre

LEMMA StartKept ==
  ASSUME SettingsInv, NEW c \in Commands, Start(c)
  PROVE  SettingsInv'
<1>0. PICK w \in Writer : w = (CHOOSE x \in Writer : Idle(x)) /\ Idle(w)
  BY DEF Start
<1>1. pc[w] = "idle" /\ w \in Prog /\ w # Daemon /\ Daemon \in Prog
  BY <1>0, Programs DEF Idle, Prog, Daemon
<1>2. /\ pc' = [pc EXCEPT ![w] = "save"] /\ op' = [op EXCEPT ![w] = c]
      /\ section' = [section EXCEPT ![w] = Changed(c)] /\ doc' = doc /\ held' = held
      /\ overlap' = (overlap \/ Busy # {}) /\ ~Refused(c)
      /\ inode' = inode /\ config' = config /\ tmp' = tmp /\ task' = task /\ hosted' = hosted
      /\ edited' = edited
  BY <1>0 DEF Start, files, host
<1>t. Shapes /\ Current' = Current
  BY <1>2 DEF SettingsInv, Current
<1>3. Fits(c, Changed(c)) /\ Changed(c) \in Flares \cup Fronts \cup Words
  BY <1>2, <1>t, ChangedFits
<1>4. Shapes'
  BY <1>1, <1>2, <1>3, <1>t DEF Shapes, BusyPcs, Calls
<1>5. \A p \in Prog \ {w} : Same(p)
  BY <1>1, <1>2, <1>t DEF Same, Shapes
<1>6. pc'[w] = "save" /\ op'[w] = c /\ section'[w] = Changed(c)
  BY <1>1, <1>2, <1>t DEF Shapes
<1>7. ~overlap' => ~overlap /\ \A p \in Prog : pc[p] \notin BusyPcs
  BY <1>2 DEF Busy, BusyPcs
<1>8. HeldInv'
  BY <1>1, <1>2, <1>5, <1>6 DEF SettingsInv, HeldInv, Same
<1>9. HostInv'
  BY <1>1, <1>2, <1>5 DEF SettingsInv, HostInv, Same
<1>10. AloneInv'
  BY <1>5, <1>7 DEF AloneInv, Same
<1>11. AlwaysReadable'
  BY <1>2, <1>7, <1>t DEF SettingsInv, AlwaysReadable
<1>12. \A p \in Prog \ {w} : OwnInv(p)'
  BY <1>2, <1>5, <1>7, <1>t, Untouched DEF SettingsInv
<1>13. OwnInv(w)'
  BY <1>1, <1>3, <1>6 DEF OwnInv, SavedInv, TmpInv, MadeInv
<1> QED
  BY <1>4, <1>8, <1>9, <1>10, <1>11, <1>12, <1>13 DEF SettingsInv

-----------------------------------------------------------------------------
(* A program that works *)

(* It gives up, or is killed: its own part of the invariant has no more to say. *)
LEMMA ClosesOwn ==
  ASSUME NEW p \in Prog, pc'[p] \notin BusyPcs
  PROVE  OwnInv(p)'
  BY DEF OwnInv

LEMMA SaveKept ==
  ASSUME SettingsInv, NEW q \in Prog, Save(q)
  PROVE  SettingsInv'
<1>t. /\ Shapes /\ pc[q] = "save" /\ pc[q] \in BusyPcs /\ OwnInv(q) /\ Daemon \in Prog
      /\ \A p \in Prog : OwnInv(p)
  BY DEF SettingsInv, Save, BusyPcs, Prog, Daemon
<1>f. /\ inode' = inode /\ config' = config /\ tmp' = tmp /\ overlap' = overlap /\ task' = task
      /\ hosted' = hosted /\ edited' = edited
  BY DEF Save, files, host, counts
<1>c. Current' = Current
  BY <1>f DEF Current
<1>r. AlwaysReadable'
  BY <1>f, <1>c DEF SettingsInv, AlwaysReadable
<1>1. CASE Current.kind = "junk"
  <2> DEFINE n == IF q = Daemon THEN "down" ELSE "idle"
  <2>1. Close(q, n)
    BY <1>1 DEF Save
  <2>2. n \in {"idle", "start", "spawn", "down"} /\ n \notin BusyPcs /\ n # "up" /\ n # "spawn"
    BY DEF BusyPcs
  <2> HIDE DEF n
  <2>3. /\ held' \in [Prog -> Inodes \cup {0}] /\ doc' \in [Prog -> Docs]
        /\ \A p \in Prog : Sane(doc'[p])
        /\ section' \in [Prog -> Flares \cup Fronts \cup Words] /\ op' \in [Prog -> Calls]
        /\ pc' \in [Prog -> Pcs] /\ pc'[q] = n /\ held'[q] = 0
        /\ \A p \in Prog \ {q} : Same(p)
    BY <1>t, <2>1, <2>2, Closing
  <2>4. Shapes'
    BY <1>f, <1>t, <2>3 DEF Shapes, Pcs
  <2>5. HeldInv'
    BY <1>f, <2>2, <2>3 DEF SettingsInv, HeldInv, Same, BusyPcs
  <2>6. HostInv'
    BY <1>f, <1>t, <2>2, <2>3 DEF SettingsInv, HostInv, Same, BusyPcs
  <2>7. AloneInv'
    BY <1>f, <1>t, <2>3, StaysAlone DEF SettingsInv, Same
  <2>8. \A p \in Prog \ {q} : OwnInv(p)'
    BY <1>f, <1>t, <2>3, OthersRest DEF SettingsInv
  <2>9. OwnInv(q)'
    BY <2>2, <2>3, ClosesOwn
  <2> QED
    BY <1>r, <2>4, <2>5, <2>6, <2>7, <2>8, <2>9 DEF SettingsInv
<1>2. CASE Current.kind # "junk"
  <2> DEFINE e == WithSection(Base, op[q], section[q])
  <2>1. /\ doc' = [doc EXCEPT ![q] = e] /\ pc' = [pc EXCEPT ![q] = "open"]
        /\ op' = op /\ section' = section /\ held' = held
    BY <1>2 DEF Save
  <2>2. Sane(e)
    BY <1>t, CurrentSane, WithSectionSane DEF OwnInv
  <2>3. /\ doc'[q] = e /\ pc'[q] = "open" /\ pc' \in [Prog -> Pcs]
        /\ doc' \in [Prog -> Docs] /\ \A p \in Prog : Sane(doc'[p])
    <3> HIDE DEF e
    <3>1. e \in Docs
      BY <2>2 DEF Sane
    <3> QED
      BY <1>t, <2>1, <2>2, <3>1 DEF Shapes, Pcs, BusyPcs
  <2>4. Shapes'
    BY <1>f, <1>t, <2>1, <2>3 DEF Shapes, Pcs
  <2>5. \A p \in Prog \ {q} : Same(p)
    BY <1>t, <2>1 DEF Same, Shapes
  <2>6. HeldInv'
    BY <1>f, <1>t, <2>1, <2>3, <2>5 DEF SettingsInv, HeldInv, Same
  <2>7. HostInv'
    BY <1>f, <1>t, <2>1, <2>3, <2>5 DEF SettingsInv, HostInv, Same
  <2>8. AloneInv'
    BY <1>f, <1>t, <2>5, StaysAlone DEF SettingsInv, Same
  <2>9. \A p \in Prog \ {q} : OwnInv(p)'
    BY <1>f, <1>t, <2>5, OthersRest DEF SettingsInv
  <2>10. OwnInv(q)'
    <3>1. Base' = Base /\ LoadFlare' = LoadFlare
      BY <1>c DEF Base, LoadFlare
    <3>2. SavedInv(q)'
      BY <1>2, <1>c, <2>1, <2>3, <3>1 DEF SavedInv
    <3>3. TmpInv(q)'
      BY <2>3 DEF TmpInv
    <3>4. ASSUME ~overlap' PROVE MadeInv(q)'
      BY <1>f, <1>t, <2>1, <3>1, <3>4 DEF OwnInv, MadeInv
    <3> QED
      BY <1>t, <2>1, <3>2, <3>3, <3>4 DEF OwnInv
  <2> QED
    BY <1>r, <2>4, <2>6, <2>7, <2>8, <2>9, <2>10 DEF SettingsInv
<1> QED
  BY <1>1, <1>2

LEMMA OpenKept ==
  ASSUME SettingsInv, NEW q \in Prog, Open(q)
  PROVE  SettingsInv'
<1>t. /\ Shapes /\ pc[q] = "open" /\ pc[q] \in BusyPcs /\ OwnInv(q) /\ Daemon \in Prog
      /\ \A p \in Prog : OwnInv(p)
  BY DEF SettingsInv, Open, BusyPcs, Prog, Daemon
<1>i. PICK i \in Inodes : /\ i = (IF tmp = 0 THEN Free ELSE tmp)
                          /\ i # config /\ i # 0
  <2>1. CASE tmp = 0
    BY <1>t, <2>1, FreeIs
  <2>2. CASE tmp # 0
    BY <1>t, <2>2 DEF Shapes, SettingsInv, HeldInv
  <2> QED
    BY <2>1, <2>2
<1>f. /\ inode' = [inode EXCEPT ![i] = Empty] /\ tmp' = i /\ held' = [held EXCEPT ![q] = i]
      /\ pc' = [pc EXCEPT ![q] = "write"] /\ config' = config /\ op' = op /\ section' = section
      /\ doc' = doc /\ overlap' = overlap /\ task' = task /\ hosted' = hosted /\ edited' = edited
  BY <1>i DEF Open, host, counts
<1>1. /\ inode' \in [Inodes -> Docs] /\ inode'[i] = Empty /\ \A j \in Inodes : Sane(inode'[j])
      /\ held' \in [Prog -> Inodes \cup {0}] /\ held'[q] = i /\ pc'[q] = "write"
      /\ pc' \in [Prog -> Pcs]
  <2>1. Empty \in Docs /\ Sane(Empty)
    BY Blanks DEF Sane
  <2> QED
    BY <1>f, <1>t, <2>1 DEF Shapes, Pcs, BusyPcs
<1>c. Current' = Current
  BY <1>f, <1>i, <1>t DEF Current, Shapes
<1>2. Shapes'
  BY <1>1, <1>f, <1>t DEF Shapes, Pcs
<1>3. \A p \in Prog \ {q} : Same(p)
  BY <1>f, <1>t DEF Same, Shapes
<1>4. HeldInv'
  BY <1>1, <1>3, <1>f, <1>i DEF SettingsInv, HeldInv, Same
<1>5. HostInv'
  BY <1>1, <1>3, <1>f, <1>t DEF SettingsInv, HostInv, Same
<1>6. AloneInv'
  BY <1>3, <1>f, <1>t, StaysAlone DEF SettingsInv, Same
<1>7. AlwaysReadable'
  BY <1>c, <1>f DEF SettingsInv, AlwaysReadable
<1>8. \A p \in Prog \ {q} : OwnInv(p)'
  BY <1>3, <1>f, <1>t, OthersRest DEF SettingsInv
<1>9. OwnInv(q)'
  <2>1. Base' = Base /\ LoadFlare' = LoadFlare
    BY <1>c DEF Base, LoadFlare
  <2>2. ASSUME ~overlap' PROVE SavedInv(q)'
    BY <1>c, <1>f, <1>t, <2>1, <2>2 DEF OwnInv, SavedInv
  <2>3. TmpInv(q)'
    BY <1>1, <1>f DEF TmpInv
  <2>4. ASSUME ~overlap' PROVE MadeInv(q)'
    BY <1>f, <1>t, <2>1, <2>4 DEF OwnInv, MadeInv
  <2> QED
    BY <1>f, <1>t, <2>2, <2>3, <2>4 DEF OwnInv
<1> QED
  BY <1>2, <1>4, <1>5, <1>6, <1>7, <1>8, <1>9 DEF SettingsInv

LEMMA WriteKept ==
  ASSUME SettingsInv, NEW q \in Prog, Write(q)
  PROVE  SettingsInv'
<1>t. /\ Shapes /\ pc[q] = "write" /\ pc[q] \in BusyPcs /\ OwnInv(q) /\ Daemon \in Prog
      /\ held[q] \in Inodes /\ \A p \in Prog : OwnInv(p)
  BY DEF SettingsInv, HeldInv, Shapes, Write, BusyPcs, Prog, Daemon
<1>d. PICK d \in {doc[q]} \cup (IF inode[held[q]] = Empty THEN {} ELSE {Junk}) :
        inode' = [inode EXCEPT ![held[q]] = d]
  BY DEF Write
<1>f. /\ tmp' = tmp /\ held' = held
      /\ pc' = [pc EXCEPT ![q] = "rename"] /\ config' = config /\ op' = op /\ section' = section
      /\ doc' = doc /\ overlap' = overlap /\ task' = task /\ hosted' = hosted /\ edited' = edited
  BY DEF Write, host, counts
<1>1. /\ inode' \in [Inodes -> Docs] /\ inode'[held[q]] = d /\ \A j \in Inodes : Sane(inode'[j])
      /\ pc'[q] = "rename" /\ pc' \in [Prog -> Pcs]
  <2>1. d \in Docs /\ Sane(d)
    BY <1>d, <1>t, Blanks DEF Sane, Shapes
  <2> QED
    BY <1>d, <1>f, <1>t, <2>1 DEF Shapes, Pcs, BusyPcs
<1>2. ~overlap => tmp = held[q] /\ d = doc[q] /\ Current' = Current
  <2>1. ~overlap => tmp = held[q] /\ inode[held[q]] = Empty
    BY <1>t DEF OwnInv, TmpInv
  <2>2. tmp = held[q] => held[q] # config
    BY <1>t, ProgramsFinite DEF SettingsInv, HeldInv, Inodes
  <2> QED
    BY <1>d, <1>f, <1>t, <2>1, <2>2 DEF Current, Shapes
<1>3. Shapes'
  BY <1>1, <1>f, <1>t DEF Shapes, Pcs
<1>4. \A p \in Prog \ {q} : Same(p)
  BY <1>f, <1>t DEF Same, Shapes
<1>5. HeldInv'
  BY <1>1, <1>4, <1>f, <1>t DEF SettingsInv, HeldInv, Same
<1>6. HostInv'
  BY <1>1, <1>4, <1>f, <1>t DEF SettingsInv, HostInv, Same
<1>7. AloneInv'
  BY <1>4, <1>f, <1>t, StaysAlone DEF SettingsInv, Same
<1>8. AlwaysReadable'
  BY <1>2, <1>f DEF SettingsInv, AlwaysReadable
<1>9. \A p \in Prog \ {q} : OwnInv(p)'
  BY <1>4, <1>f, <1>t, OthersRest DEF SettingsInv
<1>10. OwnInv(q)'
  <2>1. ASSUME ~overlap' PROVE SavedInv(q)' /\ TmpInv(q)' /\ MadeInv(q)'
    <3>0. Current' = Current /\ tmp = held[q] /\ d = doc[q]
      BY <1>2, <1>f, <2>1
    <3>1. Base' = Base /\ LoadFlare' = LoadFlare
      BY <3>0 DEF Base, LoadFlare
    <3>2. SavedInv(q)'
      BY <1>f, <1>t, <2>1, <3>0, <3>1 DEF OwnInv, SavedInv
    <3>3. TmpInv(q)'
      BY <1>1, <1>f, <3>0 DEF TmpInv
    <3>4. MadeInv(q)'
      BY <1>f, <1>t, <2>1, <3>1 DEF OwnInv, MadeInv
    <3> QED
      BY <3>2, <3>3, <3>4
  <2> QED
    BY <1>f, <1>t, <2>1 DEF OwnInv
<1> QED
  BY <1>3, <1>5, <1>6, <1>7, <1>8, <1>9, <1>10 DEF SettingsInv

(* A program that works without others renames what it has saved. *)
LEMMA RenamesOwn ==
  ASSUME SettingsInv, NEW q \in Prog, Rename(q), ~overlap
  PROVE  /\ tmp = held[q] /\ tmp # 0 /\ config' = tmp /\ Current' = doc[q]
         /\ Current.kind # "junk" /\ doc[q] = WithSection(Base, op[q], section[q])
         /\ doc[q].base = Base.base
<1>1. Shapes /\ pc[q] = "rename" /\ OwnInv(q) /\ held[q] \in Inodes /\ held[q] # 0
  BY DEF SettingsInv, HeldInv, Shapes, Rename
<1>2. /\ tmp = held[q] /\ inode[held[q]] = doc[q] /\ Fits(op[q], section[q])
      /\ Current.kind # "junk" /\ doc[q] = WithSection(Base, op[q], section[q])
  BY <1>1 DEF OwnInv, SavedInv, TmpInv, BusyPcs
<1>3. config' = tmp /\ Unlink
  BY <1>1, <1>2 DEF Rename
<1>4. Current' = doc[q]
  <2>1. config' # 0 => inode'[config'] = inode[config']
    BY <1>1, <1>2, <1>3, Unlinking
  <2> QED
    BY <1>1, <1>2, <1>3, <2>1 DEF Current
<1>5. doc[q].base = Base.base
  BY <1>1, <1>2, CurrentSane, WithSectionSane
<1> QED
  BY <1>1, <1>2, <1>3, <1>4, <1>5

LEMMA RenameKept ==
  ASSUME SettingsInv, NEW q \in Prog, Rename(q)
  PROVE  SettingsInv'
<1>t. /\ Shapes /\ pc[q] = "rename" /\ pc[q] \in BusyPcs /\ OwnInv(q) /\ Daemon \in Prog
      /\ \A p \in Prog : OwnInv(p)
  BY DEF SettingsInv, Rename, BusyPcs, Prog, Daemon
<1> DEFINE n == IF q = Daemon THEN IF tmp = 0 THEN "down" ELSE "spawn" ELSE "idle"
<1>f. /\ Close(q, n) /\ Unlink /\ overlap' = overlap /\ task' = task /\ hosted' = hosted
      /\ edited' = edited
      /\ \/ tmp = 0 /\ config' = config /\ tmp' = tmp
         \/ tmp # 0 /\ config' = tmp /\ tmp' = 0
  BY DEF Rename, host, counts
<1>n. /\ n \in {"idle", "start", "spawn", "down"} /\ n \notin BusyPcs /\ n # "up"
      /\ n = "spawn" => q = Daemon
  BY DEF BusyPcs
<1> HIDE DEF n
<1>1. /\ held' \in [Prog -> Inodes \cup {0}] /\ doc' \in [Prog -> Docs]
      /\ \A p \in Prog : Sane(doc'[p])
      /\ section' \in [Prog -> Flares \cup Fronts \cup Words] /\ op' \in [Prog -> Calls]
      /\ pc' \in [Prog -> Pcs] /\ pc'[q] = n /\ held'[q] = 0 /\ (n = "spawn" => section' = section)
      /\ \A p \in Prog \ {q} : Same(p)
  BY <1>f, <1>n, <1>t, Closing
<1>2. config' \in Inodes \cup {0} /\ tmp' \in Inodes \cup {0} /\ (tmp' # 0 => tmp' # config')
  BY <1>f, <1>t DEF Shapes
<1>3. inode' \in [Inodes -> Docs] /\ \A i \in Inodes : Sane(inode'[i])
  BY <1>2, <1>f, <1>t, Unlinking
<1>4. Shapes'
  BY <1>1, <1>2, <1>3, <1>f, <1>t DEF Shapes, Pcs
<1>5. HeldInv'
  BY <1>1, <1>2, <1>n DEF SettingsInv, HeldInv, Same, BusyPcs
<1>6. HostInv'
  <2>1. n = "spawn" => section'[Daemon] \in Flares /\ section'[Daemon].psk # "none"
    BY <1>1, <1>n, <1>t DEF OwnInv, Fits
  <2> QED
    BY <1>1, <1>f, <1>n, <1>t, <2>1 DEF SettingsInv, HostInv, Same, BusyPcs
<1>7. AloneInv'
  BY <1>1, <1>f, <1>t, StaysAlone DEF SettingsInv, Same
<1>8. AlwaysReadable'
  <2>1. SUFFICES ASSUME ~overlap, ~edited PROVE Current'.base
    BY <1>f DEF AlwaysReadable
  <2>2. Base.base
    BY <2>1, Blanks DEF SettingsInv, AlwaysReadable, Base
  <2> QED
    BY <2>1, <2>2, RenamesOwn
<1>9. \A p \in Prog \ {q} : OwnInv(p)'
  BY <1>1, <1>f, <1>t, OthersRest DEF SettingsInv
<1>10. OwnInv(q)'
  BY <1>1, <1>n, ClosesOwn
<1> QED
  BY <1>4, <1>5, <1>6, <1>7, <1>8, <1>9, <1>10 DEF SettingsInv

-----------------------------------------------------------------------------
(* Failures, the daemon, and an editor *)

LEMMA WriteFailsKept ==
  ASSUME SettingsInv, NEW q \in Prog, WriteFails(q)
  PROVE  SettingsInv'
<1>t. /\ Shapes /\ pc[q] \in BusyPcs /\ Daemon \in Prog /\ \A p \in Prog : OwnInv(p)
  BY DEF SettingsInv, WriteFails, BusyPcs, Prog, Daemon
<1> DEFINE n == IF q = Daemon THEN "down" ELSE "idle"
<1>f. /\ Close(q, n) /\ Unlink /\ overlap' = overlap /\ task' = task /\ hosted' = hosted
      /\ edited' = edited /\ config' = config /\ tmp' = 0
  BY DEF WriteFails, host
<1>n. n \in {"idle", "start", "spawn", "down"} /\ n \notin BusyPcs /\ n # "up" /\ n # "spawn"
  BY DEF BusyPcs
<1> HIDE DEF n
<1>1. /\ held' \in [Prog -> Inodes \cup {0}] /\ doc' \in [Prog -> Docs]
      /\ \A p \in Prog : Sane(doc'[p])
      /\ section' \in [Prog -> Flares \cup Fronts \cup Words] /\ op' \in [Prog -> Calls]
      /\ pc' \in [Prog -> Pcs] /\ pc'[q] = n /\ held'[q] = 0
      /\ \A p \in Prog \ {q} : Same(p)
  BY <1>f, <1>n, <1>t, Closing
<1>3. /\ inode' \in [Inodes -> Docs] /\ \A i \in Inodes : Sane(inode'[i])
      /\ config' \in Inodes \cup {0} /\ Current' = Current
  <2>1. config' \in Inodes \cup {0}
    BY <1>f, <1>t DEF Shapes
  <2> QED
    BY <1>f, <1>t, <2>1, Unlinking
<1>4. Shapes'
  BY <1>1, <1>3, <1>f, <1>t DEF Shapes, Pcs
<1>5. HeldInv'
  BY <1>1, <1>f, <1>n DEF SettingsInv, HeldInv, Same, BusyPcs
<1>6. HostInv'
  BY <1>1, <1>f, <1>n, <1>t DEF SettingsInv, HostInv, Same, BusyPcs
<1>7. AloneInv'
  BY <1>1, <1>f, <1>t, StaysAlone DEF SettingsInv, Same
<1>8. AlwaysReadable'
  BY <1>3, <1>f DEF SettingsInv, AlwaysReadable
<1>9. \A p \in Prog \ {q} : OwnInv(p)'
  BY <1>1, <1>f, <1>t, OthersRest DEF SettingsInv
<1>10. OwnInv(q)'
  BY <1>1, <1>n, ClosesOwn
<1> QED
  BY <1>4, <1>5, <1>6, <1>7, <1>8, <1>9, <1>10 DEF SettingsInv

LEMMA KilledKept ==
  ASSUME SettingsInv, NEW q \in Prog, Killed(q)
  PROVE  SettingsInv'
<1>t. Shapes /\ Daemon \in Prog /\ \A p \in Prog : OwnInv(p)
  BY DEF SettingsInv, Prog, Daemon
<1> DEFINE n == IF q = Daemon THEN "start" ELSE "idle"
<1>f. /\ Close(q, n) /\ Unlink /\ overlap' = overlap /\ edited' = edited /\ config' = config
      /\ tmp' = tmp
      /\ IF q = Daemon THEN task' = "none" /\ hosted' = NoSection
         ELSE task' = task /\ hosted' = hosted
  BY DEF Killed, host
<1>n. n \in {"idle", "start", "spawn", "down"} /\ n \notin BusyPcs /\ n # "up" /\ n # "spawn"
  BY DEF BusyPcs
<1> HIDE DEF n
<1>1. /\ held' \in [Prog -> Inodes \cup {0}] /\ doc' \in [Prog -> Docs]
      /\ \A p \in Prog : Sane(doc'[p])
      /\ section' \in [Prog -> Flares \cup Fronts \cup Words] /\ op' \in [Prog -> Calls]
      /\ pc' \in [Prog -> Pcs] /\ pc'[q] = n /\ held'[q] = 0
      /\ \A p \in Prog \ {q} : Same(p)
  BY <1>f, <1>n, <1>t, Closing
<1>3. /\ inode' \in [Inodes -> Docs] /\ \A i \in Inodes : Sane(inode'[i])
      /\ config' \in Inodes \cup {0} /\ Current' = Current
      /\ \A p \in Prog : held'[p] \in Inodes => inode'[held'[p]] = inode[held'[p]]
  <2>1. config' \in Inodes \cup {0}
    BY <1>f, <1>t DEF Shapes
  <2> QED
    BY <1>f, <1>t, <2>1, Unlinking
<1>4. Shapes'
  BY <1>1, <1>3, <1>f, <1>t, Blank DEF Shapes, Pcs
<1>5. HeldInv'
  BY <1>1, <1>f, <1>n DEF SettingsInv, HeldInv, Same, BusyPcs
<1>6. HostInv'
  BY <1>1, <1>f, <1>n, <1>t DEF SettingsInv, HostInv, Same, BusyPcs
<1>7. AloneInv'
  BY <1>1, <1>f, <1>n, StaysAlone DEF SettingsInv, Same
<1>8. AlwaysReadable'
  BY <1>3, <1>f DEF SettingsInv, AlwaysReadable
<1>9. ASSUME NEW p \in Prog \ {q} PROVE OwnInv(p)'
  <2>1. Same(p) /\ OwnInv(p)
    BY <1>1, <1>t
  <2>2. pc[p] \in {"write", "rename"} => inode'[held[p]] = inode[held[p]]
    BY <1>3, <1>t, <2>1 DEF Same, SettingsInv, HeldInv, Shapes
  <2> QED
    BY <1>3, <1>f, <2>1, <2>2, Untouched
<1>10. OwnInv(q)'
  BY <1>1, <1>n, ClosesOwn
<1> QED
  BY <1>4, <1>5, <1>6, <1>7, <1>8, <1>9, <1>10 DEF SettingsInv

LEMMA InitialFlareKept ==
  ASSUME SettingsInv, InitialFlare
  PROVE  SettingsInv'
<1>t. /\ Shapes /\ Daemon \in Prog /\ pc[Daemon] = "start" /\ \A p \in Prog : OwnInv(p)
      /\ LoadFlare \in Flares
  BY CurrentSane DEF SettingsInv, InitialFlare, Prog, Daemon
<1>f. /\ inode' = inode /\ config' = config /\ tmp' = tmp /\ task' = task /\ hosted' = hosted
      /\ edited' = edited /\ doc' = doc /\ held' = held
  BY DEF InitialFlare, files, host, counts
<1>c. Current' = Current /\ LoadFlare' = LoadFlare
  BY <1>f DEF Current, LoadFlare
<1>1. CASE LoadFlare.psk # "none"
  <2>1. /\ pc' = [pc EXCEPT ![Daemon] = "spawn"] /\ op' = op /\ overlap' = overlap
        /\ section' = [section EXCEPT ![Daemon] = LoadFlare]
    BY <1>1 DEF InitialFlare
  <2>2. /\ pc'[Daemon] = "spawn" /\ section'[Daemon] = LoadFlare /\ pc' \in [Prog -> Pcs]
        /\ section' \in [Prog -> Flares \cup Fronts \cup Words]
        /\ \A p \in Prog \ {Daemon} : Same(p)
    BY <1>f, <1>t, <2>1 DEF Shapes, Pcs, Same
  <2>3. Shapes'
    BY <1>f, <1>t, <2>1, <2>2 DEF Shapes, Pcs
  <2>4. HeldInv'
    BY <1>f, <1>t, <2>2 DEF SettingsInv, HeldInv, Same
  <2>5. HostInv'
    BY <1>1, <1>f, <1>t, <2>2 DEF SettingsInv, HostInv
  <2>6. AloneInv'
    BY <2>1, <2>2, StaysAlone DEF SettingsInv, Same, BusyPcs
  <2>7. AlwaysReadable'
    BY <1>c, <1>f, <2>1 DEF SettingsInv, AlwaysReadable
  <2>8. \A p \in Prog \ {Daemon} : OwnInv(p)'
    BY <1>c, <1>f, <1>t, <2>1, <2>2, Untouched
  <2>9. \A p \in Prog : p = Daemon => OwnInv(p)'
    BY <2>2 DEF OwnInv, BusyPcs
  <2> QED
    BY <2>3, <2>4, <2>5, <2>6, <2>7, <2>8, <2>9 DEF SettingsInv
<1>2. CASE LoadFlare.psk = "none"
  <2> DEFINE g == [LoadFlare EXCEPT !.psk = "made"]
  <2>1. /\ pc' = [pc EXCEPT ![Daemon] = "save"] /\ overlap' = (overlap \/ Busy # {})
        /\ op' = [op EXCEPT ![Daemon] = <<"generate", "none">>]
        /\ section' = [section EXCEPT ![Daemon] = g]
    BY <1>2 DEF InitialFlare
  <2>g. g \in Flares /\ g.psk = "made" /\ g = [LoadFlare' EXCEPT !.psk = "made"]
    BY <1>c, <1>t, CodeChanges
  <2> HIDE DEF g
  <2>2. /\ pc'[Daemon] = "save" /\ section'[Daemon] = g /\ pc' \in [Prog -> Pcs]
        /\ section' \in [Prog -> Flares \cup Fronts \cup Words]
        /\ op'[Daemon] = <<"generate", "none">> /\ op' \in [Prog -> Calls]
        /\ \A p \in Prog \ {Daemon} : Same(p)
    BY <1>f, <1>t, <2>1, <2>g DEF Shapes, Pcs, BusyPcs, Same, Calls
  <2>3. Shapes'
    BY <1>f, <1>t, <2>2 DEF Shapes, Pcs
  <2>4. HeldInv'
    BY <1>f, <1>t, <2>2 DEF SettingsInv, HeldInv, Same
  <2>5. HostInv'
    BY <1>f, <1>t, <2>2 DEF SettingsInv, HostInv
  <2>6. ~overlap' => ~overlap /\ \A p \in Prog : pc[p] \notin BusyPcs
    BY <2>1 DEF Busy, BusyPcs
  <2>7. AloneInv'
    BY <2>2, <2>6 DEF AloneInv, Same
  <2>8. AlwaysReadable'
    BY <1>c, <1>f, <2>6 DEF SettingsInv, AlwaysReadable
  <2>9. \A p \in Prog \ {Daemon} : OwnInv(p)'
    BY <1>c, <1>f, <1>t, <2>2, <2>6, Untouched
  <2>10. ASSUME NEW p \in Prog, p = Daemon PROVE OwnInv(p)'
    <3>0. op'[p] = <<"generate", "none">> /\ section'[p] = g
      BY <2>2, <2>10
    <3>a. op'[p][1] = "generate"
      BY <3>0
    <3>b. section'[p] \in Flares /\ section'[p].psk = "made"
      BY <2>g, <3>0
    <3>1. Fits(op'[p], section'[p]) /\ op'[p] = <<"generate", "none">> /\ section'[p].psk = "made"
      BY <3>0, <3>a, <3>b DEF Fits
    <3>2. SavedInv(p)' /\ TmpInv(p)'
      BY <2>2, <2>10 DEF SavedInv, TmpInv
    <3>3. MadeInv(p)'
      BY <1>2, <1>c, <2>2, <2>10, <2>g DEF MadeInv
    <3> QED
      BY <3>1, <3>2, <3>3 DEF OwnInv
  <2> QED
    BY <2>3, <2>4, <2>5, <2>7, <2>8, <2>9, <2>10 DEF SettingsInv
<1> QED
  BY <1>1, <1>2

LEMMA HostingKept ==
  ASSUME SettingsInv, SpawnFlare \/ ServerEnds \/ ReloadFlare \/ UNCHANGED vars
  PROVE  SettingsInv'
<1>t. /\ Shapes /\ Daemon \in Prog /\ \A p \in Prog : OwnInv(p) /\ Current.flare \in Flares
  BY CurrentSane DEF SettingsInv, Prog, Daemon, Sane, Docs
<1>f. /\ inode' = inode /\ config' = config /\ tmp' = tmp /\ overlap' = overlap
      /\ edited' = edited /\ doc' = doc /\ held' = held /\ op' = op
  BY DEF SpawnFlare, ServerEnds, ReloadFlare, vars, files, progs, counts
<1>c. Current' = Current
  BY <1>f DEF Current
<1>1. /\ pc' \in [Prog -> Pcs] /\ section' \in [Prog -> Flares \cup Fronts \cup Words]
      /\ \A p \in Prog \ {Daemon} : Same(p)
      /\ Same(Daemon) \/ (pc[Daemon] = "spawn" /\ pc'[Daemon] = "up")
  <2>1. CASE SpawnFlare
    <3>1. /\ pc' = [pc EXCEPT ![Daemon] = "up"]
          /\ section' = [section EXCEPT ![Daemon] = NoSection] /\ pc[Daemon] = "spawn"
      BY <2>1 DEF SpawnFlare
    <3> QED
      BY <1>f, <1>t, <3>1, Blank DEF Shapes, Pcs, Same
  <2>2. CASE pc' = pc /\ section' = section
    BY <1>f, <1>t, <2>2 DEF Shapes, Pcs, Same
  <2> QED
    BY <2>1, <2>2 DEF ServerEnds, ReloadFlare, vars, progs
<1>2. HostInv' /\ hosted' \in Flares
  <2>1. CASE SpawnFlare
    BY <1>t, <2>1 DEF SettingsInv, HostInv, SpawnFlare, Shapes
  <2>2. CASE ServerEnds
    BY <1>t, <2>2 DEF SettingsInv, HostInv, ServerEnds, Shapes, progs
  <2>3. CASE ReloadFlare
    BY <1>t, <2>3 DEF SettingsInv, HostInv, ReloadFlare, FlareNeedsRestart, Shapes, progs, host
  <2>4. CASE UNCHANGED vars
    BY <1>t, <2>4 DEF SettingsInv, HostInv, Shapes, vars, progs, host
  <2> QED
    BY <2>1, <2>2, <2>3, <2>4
<1>3. Shapes'
  BY <1>1, <1>2, <1>f, <1>t DEF Shapes, Pcs
<1>4. HeldInv'
  BY <1>1, <1>f, <1>t DEF SettingsInv, HeldInv, Same
<1>5. AloneInv'
  BY <1>1, <1>f, StaysAlone DEF SettingsInv, Same, BusyPcs
<1>6. AlwaysReadable'
  BY <1>c, <1>f DEF SettingsInv, AlwaysReadable
<1>7. \A p \in Prog : Same(p) => OwnInv(p)'
  BY <1>c, <1>f, <1>t, Untouched
<1>8. \A p \in Prog : p = Daemon /\ pc'[Daemon] = "up" => OwnInv(p)'
  BY DEF OwnInv, BusyPcs
<1> QED
  BY <1>1, <1>2, <1>3, <1>4, <1>5, <1>6, <1>7, <1>8 DEF SettingsInv

LEMMA EditKept ==
  ASSUME SettingsInv, Edit
  PROVE  SettingsInv'
<1>t. /\ Shapes /\ Daemon \in Prog /\ \A p \in Prog : OwnInv(p)
  BY DEF SettingsInv, Prog, Daemon
<1>f. /\ edited' = TRUE /\ overlap' = (overlap \/ Busy # {}) /\ tmp' = tmp /\ held' = held
      /\ pc' = pc /\ op' = op /\ section' = section /\ doc' = doc /\ task' = task
      /\ hosted' = hosted
  BY DEF Edit, host
<1>1. /\ inode' \in [Inodes -> Docs] /\ \A i \in Inodes : Sane(inode'[i])
      /\ config' \in Inodes \cup {0} /\ (config' = config \/ config' = 0)
  <2>1. CASE config' = 0 /\ Unlink
    BY <1>t, <2>1, Unlinking
  <2>2. CASE config # 0 /\ config' = config /\ \E d : Sane(d) /\ inode' = [inode EXCEPT ![config] = d]
    <3>1. PICK d : Sane(d) /\ inode' = [inode EXCEPT ![config] = d]
      BY <2>2
    <3>2. d \in Docs
      BY <3>1 DEF Sane
    <3> QED
      BY <1>t, <2>2, <3>1, <3>2 DEF Shapes
  <2>3. /\ Sane(Junk) /\ Sane(Minimal)
        /\ Sane([Current EXCEPT !.base = FALSE]) /\ Sane([Current EXCEPT !.flare = NoSection])
    <3>1. Sane(Current) /\ Current \in Docs /\ FALSE \in BOOLEAN /\ NoSection \in Flares
      BY <1>t, CurrentSane, Blank DEF Sane
    <3> DEFINE d == [Current EXCEPT !.base = FALSE]
               e == [Current EXCEPT !.flare = NoSection]
    <3>2. d \in Docs /\ d.kind = Current.kind /\ d.front = Current.front
      BY <3>1, BaseOf
    <3>3. e \in Docs /\ e.kind = Current.kind /\ e.front = Current.front
      BY <3>1, FlareOf
    <3>4. CASE Current.kind = "none"
      <4>1. Current = NoDoc
        BY <3>1, <3>4 DEF Sane
      <4>a. Current.base = FALSE
        BY <4>1, Zenon DEF NoDoc
      <4>2. d = Current
        BY <3>1, <4>a, SameBase
      <4>3. e = Current
        BY <3>1, <4>1, Blank, SameFlare
      <4> QED
        BY <3>1, <4>2, <4>3, Blanks
    <3>5. CASE Current.kind # "none"
      <4> HIDE DEF d, e
      <4>1. Sane(d) /\ Sane(e)
        BY <3>1, <3>2, <3>3, <3>5 DEF Sane
      <4> QED
        BY <4>1, Blanks DEF d, e
    <3> QED
      BY <3>4, <3>5
  <2> QED
    BY <2>1, <2>2, <2>3 DEF Edit
<1>2. Shapes'
  BY <1>1, <1>f, <1>t DEF Shapes
<1>3. HeldInv'
  BY <1>1, <1>f DEF SettingsInv, HeldInv
<1>4. HostInv'
  BY <1>f DEF SettingsInv, HostInv
<1>5. ~overlap' => ~overlap /\ \A p \in Prog : pc[p] \notin BusyPcs
  BY <1>f DEF Busy, BusyPcs
<1>6. AloneInv'
  BY <1>5, <1>f DEF AloneInv
<1>7. AlwaysReadable'
  BY <1>f DEF AlwaysReadable
<1>8. \A p \in Prog : OwnInv(p)'
  BY <1>5, <1>f, <1>t, Untouched DEF Same
<1> QED
  BY <1>2, <1>3, <1>4, <1>6, <1>7, <1>8 DEF SettingsInv

LEMMA SettingsInvStarts ==
  ASSUME Init
  PROVE  SettingsInv
<1>1. /\ Sane(NoDoc) /\ NoDoc \in Docs /\ NoSection \in Flares /\ NoDoc.kind = "none"
      /\ <<"none", "none">> \in Calls
  BY Blank, Blanks DEF Calls
<1>2. Shapes
  BY <1>1 DEF Init, Shapes, BusyPcs
<1>3. \A p \in Prog : pc[p] \notin BusyPcs /\ held[p] = 0 /\ pc[p] \notin {"up", "spawn"}
  BY DEF Init, BusyPcs
<1>4. HeldInv /\ AloneInv
  BY <1>3 DEF Init, HeldInv, AloneInv, BusyPcs
<1>5. HostInv
  BY <1>3 DEF Init, HostInv, Prog
<1>6. AlwaysReadable
  BY <1>1 DEF Init, AlwaysReadable, Current
<1>7. \A p \in Prog : OwnInv(p)
  BY <1>3 DEF OwnInv
<1> QED
  BY <1>2, <1>4, <1>5, <1>6, <1>7 DEF SettingsInv

LEMMA SettingsInvKept ==
  ASSUME SettingsInv, [Next]_vars
  PROVE  SettingsInv'
<1>1. CASE \E c \in Commands : Start(c)
  BY <1>1, StartKept
<1>2. CASE \E p \in Prog : Step(p)
  BY <1>2, SaveKept, OpenKept, WriteKept, RenameKept DEF Step
<1>3. CASE \E p \in Prog : WriteFails(p) \/ Killed(p)
  BY <1>3, WriteFailsKept, KilledKept
<1>4. CASE InitialFlare
  BY <1>4, InitialFlareKept
<1>5. CASE SpawnFlare \/ ServerEnds \/ ReloadFlare \/ UNCHANGED vars
  BY <1>5, HostingKept
<1>6. CASE Edit
  BY <1>6, EditKept
<1> QED
  BY <1>1, <1>2, <1>3, <1>4, <1>5, <1>6 DEF Next

(* The inductive invariant: what the programs that write config.toml have    *)
(* read, made and opened, and how it stands to the file (atomic_write,       *)
(* save_flare, save_frontend, write_language, reload_flare).                 *)
THEOREM SettingsInductive == Spec => []SettingsInv
<1>1. Init => SettingsInv
  BY SettingsInvStarts
<1>2. SettingsInv /\ [Next]_vars => SettingsInv'
  BY SettingsInvKept
<1> QED
  BY <1>1, <1>2, PTL DEF Spec

(* Whatever writes fail, whoever is killed in one and however many programs  *)
(* overlap, the frontend selected in config.toml is registered; and without  *)
(* an overlap or an edit by hand every reader accepts the file               *)
(* (atomic_write, save_frontend).                                            *)
THEOREM SettingsSound == Spec => []SettingsInvariant
<1>1. ASSUME SettingsInv PROVE SettingsInvariant
  <2>1. TypeOK
    BY <1>1 DEF SettingsInv, Shapes, HeldInv, HostInv, TypeOK
  <2>2. FrontendStaysSound
    BY <1>1 DEF SettingsInv, Shapes, Sane, FrontendStaysSound
  <2> QED
    BY <1>1, <2>1, <2>2 DEF SettingsInv, SettingsInvariant
<1> QED
  BY <1>1, SettingsInductive, PTL

-----------------------------------------------------------------------------
(* What a step changes *)

LEMMA SectionOnly ==
  ASSUME NEW d \in Docs, NEW c, NEW s, Fits(c, s), NEW e, e = WithSection(d, c, s)
  PROVE  /\ c[1] \in {"psk", "dev", "generate"} => e.flare = s /\ e = [d EXCEPT !.flare = e.flare]
         /\ c[1] = "language" => e = [d EXCEPT !.lang = e.lang]
         /\ c[1] \in {"add", "activate", "select", "remove"} => e = [d EXCEPT !.front = e.front]
<1>1. ASSUME c[1] \in {"psk", "dev", "generate"}
      PROVE  e.flare = s /\ e = [d EXCEPT !.flare = e.flare]
  <2>1. e = [d EXCEPT !.flare = s] /\ s \in Flares
    BY <1>1 DEF WithSection, Fits
  <2>2. e.flare = s
    BY <2>1, FlareOf
  <2> QED
    BY <2>1, <2>2
<1>2. ASSUME c[1] = "language"
      PROVE  e = [d EXCEPT !.lang = e.lang]
  <2> DEFINE l == s.lang
  <2>1. e = [d EXCEPT !.lang = l] /\ l \in {"none", "zh"}
    BY <1>2 DEF WithSection, Fits, Words
  <2> HIDE DEF l
  <2>2. e.lang = l
    BY <2>1, LangOf
  <2> QED
    BY <2>1, <2>2
<1>3. ASSUME c[1] \in {"add", "activate", "select", "remove"}
      PROVE  e = [d EXCEPT !.front = e.front]
  <2>1. e = [d EXCEPT !.front = s] /\ s \in Fronts
    BY <1>3 DEF WithSection, Fits
  <2>2. e.front = s
    BY <2>1, FrontOf
  <2> QED
    BY <2>1, <2>2
<1> QED
  BY <1>1, <1>2, <1>3

LEMMA BaseFlare ==
  ASSUME Shapes, Base.base
  PROVE  Base.flare = LoadFlare /\ LoadFlare \in Flares
<1>1. Sane(Current) /\ Current.flare \in Flares
  BY CurrentSane DEF Sane, Docs
<1>2. CASE Current.kind = "none"
  <2>1. Current = NoDoc
    BY <1>1, <1>2 DEF Sane
  <2>2. LoadFlare = NoSection
    BY <2>1, Blank DEF LoadFlare
  <2> QED
    BY <1>2, <2>2, Blank, Blanks DEF Base
<1>3. CASE Current.kind # "none"
  BY <1>1, <1>3 DEF Base, LoadFlare
<1> QED
  BY <1>2, <1>3

LEMMA RenameChangesOwn ==
  ASSUME SettingsInv, NEW q \in Prog, Rename(q), ~overlap
  PROVE  ChangesOwn(q)
<1> DEFINE new == Current'
<1>1. /\ Shapes /\ OwnInv(q) /\ pc[q] = "rename"
      /\ Fits(op[q], section[q]) /\ MadeInv(q)
      /\ (q = Daemon => op[q] = <<"generate", "none">>)
  BY DEF SettingsInv, Rename, OwnInv, BusyPcs
<1>2. /\ Current.kind # "junk" /\ new = WithSection(Base, op[q], section[q])
      /\ new.base = Base.base
  BY RenamesOwn
<1> HIDE DEF new
<1>3. Base \in Docs /\ Base.kind # "junk"
  BY <1>1, <1>2, CurrentSane, Blanks DEF Sane, Base
<1>4. /\ op[q][1] \in {"psk", "dev", "generate"} =>
           new.flare = section[q] /\ new = [Base EXCEPT !.flare = new.flare]
      /\ op[q][1] = "language" => new = [Base EXCEPT !.lang = new.lang]
      /\ op[q][1] \in {"add", "activate", "select", "remove"} =>
           new = [Base EXCEPT !.front = new.front]
  BY <1>1, <1>2, <1>3, SectionOnly
<1>5. ASSUME q = Daemon, Base.base PROVE Base.flare = [new.flare EXCEPT !.psk = "none"]
  <2>1. /\ LoadFlare.psk = "none" /\ section[q] = [LoadFlare EXCEPT !.psk = "made"]
    BY <1>1, <1>5 DEF MadeInv
  <2>2. op[q][1] = "generate"
    BY <1>1, <1>5
  <2>3. new.flare = section[q]
    BY <1>4, <2>2
  <2>4. Base.flare = LoadFlare /\ LoadFlare \in Flares
    BY <1>1, <1>5, BaseFlare
  <2>5. [section[q] EXCEPT !.psk = "none"] = LoadFlare
    BY <2>1, <2>4, CodeChanges
  <2> QED
    BY <2>3, <2>4, <2>5
<1> QED
  BY <1>2, <1>3, <1>4, <1>5 DEF ChangesOwn, new

LEMMA OnlyRenameChanges ==
  ASSUME SettingsInv, [Next]_vars, NEW p \in Prog,
         pc[p] = "rename", pc'[p] # "rename", config' # config
  PROVE  Rename(p)
<1>1. CASE \E q \in Prog : Rename(q)
  <2>1. PICK q \in Prog : Rename(q)
    BY <1>1
  <2>2. p # q => pc'[p] = pc[p]
    BY <2>1 DEF Rename, Close, SettingsInv, Shapes
  <2> QED
    BY <2>1, <2>2
<1>2. CASE Edit
  BY <1>2 DEF Edit
<1>3. CASE \/ \E c \in Commands : Start(c)
           \/ \E q \in Prog : Save(q) \/ Open(q) \/ Write(q) \/ WriteFails(q) \/ Killed(q)
           \/ InitialFlare \/ SpawnFlare \/ ServerEnds \/ ReloadFlare \/ UNCHANGED vars
  BY <1>3 DEF Start, Save, Open, Write, WriteFails, Killed, InitialFlare, SpawnFlare,
              ServerEnds, ReloadFlare, vars, files
<1> QED
  BY <1>1, <1>2, <1>3 DEF Next, Step

(* A program whose work overlaps nobody else's changes its own section of    *)
(* config.toml only and never replaces a file that does not parse; and the   *)
(* daemon, once it hosts the flare server, always has one with a code        *)
(* (save_flare, save_frontend, write_language, reload_flare).                *)
THEOREM SettingsKeepOrder == Spec => SettingsSteps
<1>1. ASSUME SettingsInv, [Next]_vars
      PROVE  \A p \in Prog :
               (pc[p] = "rename" /\ pc'[p] # "rename" /\ config' # config /\ ~overlap) => ChangesOwn(p)
  BY <1>1, OnlyRenameChanges, RenameChangesOwn
<1>2. ASSUME SettingsInv'
      PROVE  (pc[Daemon] = "up" /\ task # "none" /\ pc'[Daemon] = "up") =>
                (task' # "none" /\ hosted'.psk # "none")
  BY <1>2 DEF SettingsInv, HostInv
<1>3. Spec => KeepsTheRest
  BY <1>1, SettingsInductive, PTL DEF Spec, KeepsTheRest
<1>4. Spec => KeepsHosting
  BY <1>2, SettingsInductive, PTL DEF KeepsHosting
<1> QED
  BY <1>3, <1>4 DEF SettingsSteps
=============================================================================
