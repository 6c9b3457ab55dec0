----------------------------- MODULE RelayProofs -----------------------------
(***************************************************************************)
(* Proofs about Relay, for any capacities, any number of connections,      *)
(* tasks, ports and chunks on either side: the byte count is what is       *)
(* queued, generations keep messages away from later connections, ports    *)
(* are distinct, no wake-up is lost, and a connection that its task closes *)
(* has been given every byte.                                              *)
(***************************************************************************)
EXTENDS Relay, FiniteSetTheorems, WellFoundedInduction, TLAPS

Phases ==
  {"unborn", "header", "relay", "sending", "closing", "half_closing", "writer_done", "leaving", "gone"}
TaskRecs ==
  [pc : Phases, h : Nat \cup {None}, gen : Nat, met : Nat, chan : Seq({"data", "eof"}), open : BOOLEAN,
   note : {"idle", "insert", "notify"}, out : Nat, eof : BOOLEAN, stop : BOOLEAN]
Messages == [h : Nat, gen : Nat, task : Nat, kind : {"data", "close"}]

-----------------------------------------------------------------------------
(* The least element *)

LEMMA MinIsIn ==
  ASSUME NEW S \in SUBSET Nat, S # {}
  PROVE  Min(S) \in S /\ \A n \in S : Min(S) <= n
<1> DEFINE R == {p \in Nat \X Nat : p[1] < p[2]}
<1>1. IsWellFoundedOn(R, Nat)
  BY NatLessThanWellFounded DEF OpToRel
<1>2. \E n \in S : \A k \in S : ~(<<k, n>> \in R)
  <2> HIDE DEF R
  <2> QED
    BY <1>1, WFMin
<1>3. \A k, n \in Nat : ~(<<k, n>> \in R) => n <= k
  OBVIOUS
<1>4. \E n \in S : \A k \in S : n <= k
  <2> HIDE DEF R
  <2> QED
    BY <1>2, <1>3
<1> QED
  BY <1>4 DEF Min

LEMMA MinOfTwo ==
  ASSUME NEW a \in Nat, NEW b \in Nat
  PROVE  /\ Min({a, b}) \in Nat /\ Min({a, b}) <= a /\ Min({a, b}) <= b
         /\ Min({a, b}) = a \/ Min({a, b}) = b
  BY MinIsIn

-----------------------------------------------------------------------------
(* One connection in one turn of pump *)

(* What no turn changes. *)
Kept(c, d) ==
  /\ d \in Conns
  /\ d.task = c.task /\ d.gen = c.gen /\ d.port = c.port /\ d.alien = c.alien
  /\ d.in = c.in /\ d.fin = c.fin /\ d.dead = c.dead

LEMMA FlushedConn ==
  ASSUME NEW c \in Conns, NEW k \in 0..Len(c.pend), NEW d, d = Flushed(c, k)
  PROVE  /\ Kept(c, d) /\ Len(d.pend) = Len(c.pend) - k /\ d.rx = c.rx
         /\ d.flush = c.flush /\ d.shut = c.shut /\ d.eof = c.eof
<1> DEFINE s == SubSeq(c.pend, k + 1, Len(c.pend))
<1>1. c.pend \in Seq(Nat) /\ s \in Seq(Nat) /\ Len(s) = Len(c.pend) - k
  BY DEF Conns
<1>2. d = [c EXCEPT !.pend = s]
  BY DEF Flushed
<1> HIDE DEF s
<1> QED
  BY <1>1, <1>2 DEF Kept, Conns

LEMMA ClosedConn ==
  ASSUME NEW c \in Conns, NEW d, d = ClosedAfterFlush(c)
  PROVE  /\ Kept(c, d) /\ d.pend = c.pend /\ d.rx = c.rx /\ d.eof = c.eof
         /\ d.flush => c.flush
         /\ d.shut => c.shut \/ (c.flush /\ c.pend = <<>>)
<1>1. CASE c.pend = <<>> /\ c.flush
  <2>1. d = [c EXCEPT !.shut = TRUE, !.flush = FALSE]
    BY <1>1 DEF ClosedAfterFlush
  <2>2. d \in Conns
    BY <2>1, Zenon DEF Conns
  <2> QED
    BY <1>1, <2>1, <2>2 DEF Kept, Conns
<1>2. CASE ~(c.pend = <<>> /\ c.flush)
  <2>1. d = c
    BY <1>2 DEF ClosedAfterFlush
  <2> QED
    BY <2>1 DEF Kept
<1> QED
  BY <1>1, <1>2

(* The channel of a task: it keeps its capacity, and a closed one is empty. *)
ChanOk(t) == Len(t.chan) <= Capacity /\ (~t.open => t.chan = <<>>)

(* A turn of the loop changes nothing of a task but its channel. *)
SameTask(t, u) ==
  /\ u \in TaskRecs /\ ChanOk(u)
  /\ u.pc = t.pc /\ u.h = t.h /\ u.gen = t.gen /\ u.met = t.met /\ u.open = t.open
  /\ u.note = t.note /\ u.out = t.out /\ u.eof = t.eof /\ u.stop = t.stop

LEMMA SameChan ==
  ASSUME NEW t \in TaskRecs, NEW s \in Seq({"data", "eof"}), NEW u, u = [t EXCEPT !.chan = s],
         Len(s) <= Capacity, ~t.open => s = <<>>
  PROVE  SameTask(t, u) /\ u.chan = s
<1>1. u \in TaskRecs
  BY DEF TaskRecs
<1>2. /\ u.pc = t.pc /\ u.h = t.h /\ u.gen = t.gen /\ u.met = t.met /\ u.open = t.open
      /\ u.note = t.note /\ u.out = t.out /\ u.eof = t.eof /\ u.stop = t.stop /\ u.chan = s
  BY DEF TaskRecs
<1> QED
  BY <1>1, <1>2 DEF SameTask, ChanOk

LEMMA MovedOn ==
  ASSUME NEW c \in Conns, NEW t \in TaskRecs, ChanOk(t),
         NEW d, d = MovedIn(c, t), NEW u, u = MovedOut(c, t)
  PROVE  /\ Kept(c, d) /\ d.pend = c.pend /\ d.flush = c.flush /\ d.shut = c.shut /\ d.eof = c.eof
         /\ SameTask(t, u) /\ Moves(d, u) = 0
<1> DEFINE m == Moves(c, t)
           s == t.chan \o [n \in 1..m |-> "data"]
<1>0. /\ c.rx \in Nat /\ t.chan \in Seq({"data", "eof"}) /\ Len(t.chan) \in Nat
      /\ Capacity \in Nat /\ Capacity - Len(t.chan) \in Nat
  BY RelayBounds DEF Conns, TaskRecs, ChanOk
<1>1. /\ m \in Nat /\ m <= c.rx /\ m <= Capacity - Len(t.chan)
      /\ IF t.open THEN m = c.rx \/ m = Capacity - Len(t.chan) ELSE m = 0
  BY <1>0, MinOfTwo DEF Moves
<1>2. d = [c EXCEPT !.rx = c.rx - m] /\ u = [t EXCEPT !.chan = s]
  BY DEF MovedIn, MovedOut
<1>3. /\ Kept(c, d) /\ d.pend = c.pend /\ d.flush = c.flush /\ d.shut = c.shut /\ d.eof = c.eof
      /\ d.rx = c.rx - m
  <2> DEFINE r == c.rx - m
  <2>1. r \in Nat
    <3> HIDE DEF m
    <3> QED
      BY <1>0, <1>1
  <2>2. d = [c EXCEPT !.rx = r]
    BY <1>2
  <2> HIDE DEF r
  <2>3. Kept(c, d) /\ d.pend = c.pend /\ d.flush = c.flush /\ d.shut = c.shut /\ d.eof = c.eof /\ d.rx = r
    BY <2>1, <2>2 DEF Kept, Conns
  <2> QED
    BY <2>3 DEF r
<1>4. s \in Seq({"data", "eof"}) /\ Len(s) = Len(t.chan) + m
  <2> HIDE DEF m
  <2> QED
    BY <1>0, <1>1
<1>5. ~t.open => s = <<>>
  <2>1. SUFFICES ASSUME ~t.open PROVE s = <<>>
    OBVIOUS
  <2>2. t.chan = <<>> /\ m = 0
    BY <2>1, <1>1 DEF ChanOk
  <2>3. Len(s) = 0
    BY <2>2, <1>4
  <2> HIDE DEF s
  <2> QED
    BY <2>3, <1>4
<1>6. SameTask(t, u) /\ u.chan = s
  <2> HIDE DEF s
  <2>1. Len(s) <= Capacity
    BY <1>0, <1>1, <1>4
  <2> QED
    BY <1>2, <1>4, <1>5, <2>1, SameChan
<1>7. Moves(d, u) = 0
  <2>1. CASE ~t.open
    BY <2>1, <1>6 DEF SameTask, Moves
  <2>2. CASE t.open
    <3>1. u.open /\ d.rx = c.rx - m /\ Len(u.chan) = Len(t.chan) + m /\ (m = c.rx \/ m = Capacity - Len(t.chan))
      BY <2>2, <1>1, <1>3, <1>4, <1>6 DEF SameTask
    <3> HIDE DEF m
    <3>2. /\ d.rx \in Nat /\ Capacity - Len(u.chan) \in Nat
          /\ d.rx = 0 \/ Capacity - Len(u.chan) = 0
      BY <3>1, <1>0, <1>1
    <3>3. Min({d.rx, Capacity - Len(u.chan)}) = 0
      BY <3>2, MinOfTwo
    <3> QED
      BY <3>1, <3>3 DEF Moves
  <2> QED
    BY <2>1, <2>2
<1> QED
  BY <1>3, <1>6, <1>7

(* Only a connection that the peer has ended is closed for want of a reader. *)
LEMMA ToldEof ==
  ASSUME NEW c \in Conns, NEW t \in TaskRecs, ChanOk(t), Moves(c, t) = 0,
         NEW d, d = AfterEof(c, t), NEW u, u = GivenEof(c, t)
  PROVE  /\ Kept(c, d) /\ d.pend = c.pend /\ d.flush = c.flush
         /\ d.shut => c.shut \/ c.fin
         /\ SameTask(t, u)
         /\ ~Reaped(d, u) => ~Work(d, u)
<1>0. /\ c.rx \in Nat /\ t.chan \in Seq({"data", "eof"}) /\ Len(t.chan) \in Nat /\ Capacity \in Nat
      /\ Len(t.chan) <= Capacity
  BY RelayBounds DEF Conns, TaskRecs, ChanOk
<1>1. CASE ~TellsEof(c, t)
  <2>1. d = c /\ u = t
    BY <1>1 DEF AfterEof, GivenEof
  <2>2. SameTask(t, t)
    BY DEF SameTask
  <2> QED
    BY <1>1, <2>1, <2>2 DEF Kept, Work
<1>2. CASE TellsEof(c, t) /\ ~t.open
  <2>1. d = [c EXCEPT !.shut = TRUE] /\ u = t
    BY <1>2 DEF AfterEof, GivenEof, Room
  <2>2. d \in Conns
    BY <2>1, Zenon DEF Conns
  <2>3. /\ d.pend = c.pend /\ d.flush = c.flush /\ d.rx = c.rx /\ d.shut
        /\ d.task = c.task /\ d.gen = c.gen /\ d.port = c.port /\ d.alien = c.alien
        /\ d.in = c.in /\ d.fin = c.fin /\ d.dead = c.dead
    BY <2>1 DEF Conns
  <2>4. SameTask(t, t)
    BY DEF SameTask
  <2>5. c.fin /\ Moves(d, u) = 0
    BY <1>2, <2>1, <2>3 DEF TellsEof, PeerEof, Moves
  <2>6. ~(Moves(d, u) > 0)
    BY <2>5
  <2>7. ~Reaped(d, u) => ~Work(d, u)
    BY <2>3, <2>6 DEF Work
  <2> QED
    BY <2>1, <2>2, <2>3, <2>4, <2>5, <2>7 DEF Kept
<1>3. CASE TellsEof(c, t) /\ t.open /\ ~Room(t)
  <2>1. d = c /\ u = t
    BY <1>3 DEF AfterEof, GivenEof
  <2>2. SameTask(t, t)
    BY DEF SameTask
  <2> QED
    BY <1>3, <2>1, <2>2 DEF Kept, Work
<1>4. CASE TellsEof(c, t) /\ t.open /\ Room(t)
  <2>1. d = [c EXCEPT !.eof = TRUE] /\ u = [t EXCEPT !.chan = Append(t.chan, "eof")]
    BY <1>4 DEF AfterEof, GivenEof
  <2>2. d \in Conns
    BY <2>1, Zenon DEF Conns
  <2>3. /\ d.pend = c.pend /\ d.flush = c.flush /\ d.rx = c.rx /\ d.shut = c.shut /\ d.eof
        /\ d.task = c.task /\ d.gen = c.gen /\ d.port = c.port /\ d.alien = c.alien
        /\ d.in = c.in /\ d.fin = c.fin /\ d.dead = c.dead
    BY <2>1 DEF Conns
  <2>4. Append(t.chan, "eof") \in Seq({"data", "eof"}) /\ Len(Append(t.chan, "eof")) <= Capacity
    BY <1>0, <1>4 DEF Room
  <2>5. SameTask(t, u) /\ u.chan = Append(t.chan, "eof")
    BY <2>1, <2>4, <1>4, SameChan
  <2>6. c.rx = 0 /\ Len(u.chan) <= Capacity
    BY <1>4, <2>4, <2>5 DEF TellsEof, PeerEof
  <2>7. Moves(d, u) = 0
    BY <2>3, <2>5, <2>6, <1>0, MinOfTwo DEF Moves
  <2> QED
    BY <2>2, <2>3, <2>5, <2>7 DEF Kept, Work, TellsEof
<1> QED
  BY <1>1, <1>2, <1>3, <1>4

(* A turn of pump for one connection: what it gives up, how it may be       *)
(* closed, and that nothing is left to do for it.                           *)
LEMMA PumpedOne ==
  ASSUME NEW c \in Conns, NEW t \in TaskRecs, ChanOk(t), NEW k \in MayTake(c),
         NEW d, d = PumpedConn(c, t, k), NEW u, u = PumpedTask(c, t, k)
  PROVE  /\ Kept(c, d) /\ Len(d.pend) = Len(c.pend) - k /\ k \in 0..Len(c.pend)
         /\ d.flush => c.flush
         /\ d.shut => c.shut \/ (c.flush /\ d.pend = <<>>) \/ c.fin
         /\ SameTask(t, u)
         /\ ~Reaped(d, u) => ~Work(d, u)
         /\ Gives(c, t, k) = IF Reaped(d, u) THEN Len(c.pend) ELSE k
<1> DEFINE f == Flushed(c, k)
           g == ClosedAfterFlush(f)
           e == MovedIn(g, t)
           v == MovedOut(g, t)
<1>1. k \in 0..Len(c.pend) /\ Len(c.pend) \in Nat
  BY DEF MayTake, Conns
<1>2. /\ Kept(c, f) /\ Len(f.pend) = Len(c.pend) - k /\ f.flush = c.flush /\ f.shut = c.shut
  <2> HIDE DEF f
  <2> QED
    BY <1>1, FlushedConn DEF f
<1>3. /\ Kept(f, g) /\ g.pend = f.pend /\ (g.flush => f.flush)
      /\ g.shut => f.shut \/ (f.flush /\ f.pend = <<>>)
  <2>1. f \in Conns
    BY <1>2 DEF Kept
  <2> HIDE DEF f
  <2> QED
    BY <2>1, ClosedConn
<1>4. /\ Kept(g, e) /\ e.pend = g.pend /\ e.flush = g.flush /\ e.shut = g.shut
      /\ SameTask(t, v) /\ Moves(e, v) = 0
  <2>1. g \in Conns
    BY <1>3 DEF Kept
  <2> HIDE DEF g
  <2> QED
    BY <2>1, MovedOn
<1>5. d = AfterEof(e, v) /\ u = GivenEof(e, v)
  BY DEF PumpedConn, PumpedTask
<1> HIDE DEF f, g, e, v
<1>6. /\ Kept(e, d) /\ d.pend = e.pend /\ d.flush = e.flush /\ (d.shut => e.shut \/ e.fin)
      /\ SameTask(v, u) /\ (~Reaped(d, u) => ~Work(d, u))
  <2>1. e \in Conns /\ v \in TaskRecs /\ ChanOk(v)
    BY <1>4 DEF Kept, SameTask
  <2> QED
    BY <1>4, <1>5, <2>1, ToldEof
<1>7. Kept(c, d) /\ SameTask(t, u) /\ e.fin = c.fin
  BY <1>2, <1>3, <1>4, <1>6 DEF Kept, SameTask
<1>8. Len(d.pend) = Len(c.pend) - k /\ d.pend = f.pend
  BY <1>2, <1>3, <1>4, <1>6
<1>9. Gives(c, t, k) = IF Reaped(d, u) THEN Len(c.pend) ELSE k
  BY <1>1, <1>8 DEF Gives
<1> QED
  BY <1>1, <1>2, <1>3, <1>4, <1>6, <1>7, <1>8, <1>9

-----------------------------------------------------------------------------
(* A turn of pump for all connections *)

LiveIn(cs) == {h \in DOMAIN cs : cs[h] # None}
Apart(cs) == \A g, h \in LiveIn(cs) : cs[g].task = cs[h].task => g = h

PumpReady(cs, ts) ==
  /\ cs \in [Handles -> Conns \cup {None}] /\ ts \in [Tasks -> TaskRecs]
  /\ \A i \in Tasks : ChanOk(ts[i])
  /\ \A h \in LiveIn(cs) : cs[h].task \in Tasks
  /\ Apart(cs)

Turned(c, d) ==
  /\ Kept(c, d) /\ Len(d.pend) <= Len(c.pend)
  /\ d.flush => c.flush
  /\ d.shut => c.shut \/ (c.flush /\ d.pend = <<>>) \/ c.fin

Pumped(cs, ts) ==
  /\ conns' \in [Handles -> Conns \cup {None}] /\ tasks' \in [Tasks -> TaskRecs]
  /\ \A h \in Handles : conns'[h] # None =>
       cs[h] # None /\ Turned(cs[h], conns'[h]) /\ ~Work(conns'[h], tasks'[cs[h].task])
  /\ \A i \in Tasks : SameTask(ts[i], tasks'[i])

LEMMA PendingIs ==
  ASSUME NEW cs, NEW s
  PROVE  s \in Pending(cs) <=>
           \E h \in Handles : cs[h] # None /\ \E n \in 1..Len(cs[h].pend) : s = <<h, n>>
  BY DEF Pending

LEMMA PumpedAll ==
  ASSUME NEW cs, NEW ts, NEW n \in Nat, PumpReady(cs, ts), Pump(cs, ts, n),
         IsFiniteSet(Pending(cs)), bytes + n = Total(cs), bytes \in Nat
  PROVE  /\ Pumped(cs, ts)
         /\ bytes' = Total(conns') /\ Pending(conns') \subseteq Pending(cs)
<1> DEFINE live == {h \in Handles : cs[h] # None}
           task(h) == ts[cs[h].task]
<1>0. live = LiveIn(cs)
  BY DEF PumpReady, LiveIn
<1>1. PICK k \in [Handles -> 0..MaxBytes] :
        /\ \A h \in Handles : k[h] \in IF h \in live THEN MayTake(cs[h]) ELSE {0}
        /\ LET conn(h) == PumpedConn(cs[h], task(h), k[h])
               told(h) == PumpedTask(cs[h], task(h), k[h])
               gone == {h \in live : Reaped(conn(h), told(h))}
           IN /\ conns' = [h \in Handles |-> IF h \in live \ gone THEN conn(h) ELSE None]
              /\ tasks' = [i \in Tasks |-> IF \E h \in live : cs[h].task = i
                                           THEN told(CHOOSE h \in live : cs[h].task = i) ELSE ts[i]]
              /\ LET size(h) == Len(cs[h].pend)
                     given == UNION {{h} \X (size(h) - Gives(cs[h], task(h), k[h]) + 1 .. size(h)) : h \in live}
                 IN  bytes' = bytes + n - Cardinality(given)
  BY DEF Pump
<1> DEFINE conn(h) == PumpedConn(cs[h], task(h), k[h])
           told(h) == PumpedTask(cs[h], task(h), k[h])
           gone == {h \in live : Reaped(conn(h), told(h))}
           size(h) == Len(cs[h].pend)
           gives(h) == Gives(cs[h], task(h), k[h])
           given == UNION {{h} \X (size(h) - gives(h) + 1 .. size(h)) : h \in live}
<1>2. ASSUME NEW h \in live
      PROVE  /\ Kept(cs[h], conn(h)) /\ Len(conn(h).pend) = size(h) - k[h] /\ k[h] \in 0..size(h)
             /\ Turned(cs[h], conn(h)) /\ SameTask(task(h), told(h))
             /\ ~Reaped(conn(h), told(h)) => ~Work(conn(h), told(h))
             /\ gives(h) = IF h \in gone THEN size(h) ELSE k[h]
             /\ conn(h) # None /\ size(h) \in Nat
  <2>1. /\ cs[h] \in Conns /\ task(h) \in TaskRecs /\ ChanOk(task(h)) /\ k[h] \in MayTake(cs[h])
    BY <1>0, <1>1 DEF PumpReady
  <2>2. size(h) \in Nat
    BY <2>1 DEF Conns
  <2> DEFINE d == conn(h)
             u == told(h)
  <2>3. d = PumpedConn(cs[h], task(h), k[h]) /\ u = PumpedTask(cs[h], task(h), k[h])
    OBVIOUS
  <2>4. h \in gone <=> Reaped(d, u)
    OBVIOUS
  <2> HIDE DEF d, u, gone, task, live
  <2>5. /\ Kept(cs[h], d) /\ Len(d.pend) = size(h) - k[h] /\ k[h] \in 0..size(h)
        /\ d.flush => cs[h].flush
        /\ d.shut => cs[h].shut \/ (cs[h].flush /\ d.pend = <<>>) \/ cs[h].fin
        /\ SameTask(task(h), u)
        /\ ~Reaped(d, u) => ~Work(d, u)
        /\ gives(h) = IF Reaped(d, u) THEN size(h) ELSE k[h]
    BY <2>1, <2>3, PumpedOne
  <2>6. Turned(cs[h], d)
    BY <2>2, <2>5 DEF Turned
  <2>7. d # None
    BY <2>5, NoneIsNothing DEF Kept
  <2> QED
    BY <2>2, <2>4, <2>5, <2>6, <2>7 DEF d, u
<1>3. ASSUME NEW h \in live
      PROVE  tasks'[cs[h].task] = told(h) /\ cs[h].task \in Tasks
  <2>1. \A g \in live : cs[g].task = cs[h].task => g = h
    BY <1>0 DEF PumpReady, Apart
  <2>2. (CHOOSE g \in live : cs[g].task = cs[h].task) = h
    BY <2>1
  <2> HIDE DEF live
  <2>3. cs[h].task \in Tasks
    BY <1>0 DEF PumpReady
  <2> QED
    BY <1>1, <2>2, <2>3
<1>4. ASSUME NEW h \in Handles
      PROVE  conns'[h] = IF h \in live \ gone THEN conn(h) ELSE None
  BY <1>1
<1>5. ASSUME NEW i \in Tasks
      PROVE  SameTask(ts[i], tasks'[i])
  <2>1. CASE \E h \in live : cs[h].task = i
    <3>1. PICK h \in live : cs[h].task = i
      BY <2>1
    <3> QED
      BY <3>1, <1>2, <1>3
  <2>2. CASE ~\E h \in live : cs[h].task = i
    <3>1. tasks'[i] = ts[i]
      BY <2>2, <1>1
    <3> QED
      BY <3>1 DEF SameTask, PumpReady
  <2> QED
    BY <2>1, <2>2
<1>6. /\ conns' \in [Handles -> Conns \cup {None}] /\ tasks' \in [Tasks -> TaskRecs]
  <2>1. \A h \in live : conn(h) \in Conns
    BY <1>2 DEF Kept
  <2>2. \A i \in Tasks : tasks'[i] \in TaskRecs
    BY <1>5 DEF SameTask
  <2>3. conns' = [h \in Handles |-> conns'[h]] /\ tasks' = [i \in Tasks |-> tasks'[i]]
    BY <1>1
  <2>4. \A h \in Handles : conns'[h] \in Conns \cup {None}
    <3> HIDE DEF conn, told, gone, live
    <3> QED
      BY <1>4, <2>1
  <2> HIDE DEF conn, told, gone, live
  <2> QED
    BY <2>2, <2>3, <2>4
<1>7. ASSUME NEW h \in Handles, conns'[h] # None
      PROVE  cs[h] # None /\ Turned(cs[h], conns'[h]) /\ ~Work(conns'[h], tasks'[cs[h].task])
  <2>1. h \in live \ gone /\ conns'[h] = conn(h)
    BY <1>4, <1>7
  <2>2. ~Reaped(conn(h), told(h))
    BY <2>1
  <2> QED
    BY <2>1, <2>2, <1>2, <1>3
<1>8. Pumped(cs, ts)
  BY <1>5, <1>6, <1>7 DEF Pumped
<1>9. \A s : s \in given <=> \E h \in live : \E m \in (size(h) - gives(h) + 1)..size(h) : s = <<h, m>>
  <2> HIDE DEF live, size, gives
  <2> QED
    OBVIOUS
<1>10. given \subseteq Pending(cs)
  <2> SUFFICES ASSUME NEW s \in given PROVE s \in Pending(cs)
    OBVIOUS
  <2>1. PICK h \in live : \E m \in (size(h) - gives(h) + 1)..size(h) : s = <<h, m>>
    BY <1>9
  <2>2. PICK m \in (size(h) - gives(h) + 1)..size(h) : s = <<h, m>>
    BY <2>1
  <2>3. m \in 1..size(h)
    <3>1. gives(h) \in 0..size(h) /\ size(h) \in Nat
      BY <1>2
    <3> HIDE DEF gives, size
    <3> QED
      BY <3>1, <2>2
  <2>4. h \in Handles /\ cs[h] # None
    BY <1>0
  <2> QED
    BY <2>2, <2>3, <2>4, PendingIs
<1>11. \A s : s \in Pending(conns') <=> s \in Pending(cs) /\ s \notin given
  <2> SUFFICES ASSUME NEW s PROVE s \in Pending(conns') <=> s \in Pending(cs) /\ s \notin given
    OBVIOUS
  <2>1. ASSUME s \in Pending(conns') PROVE s \in Pending(cs) /\ s \notin given
    <3>1. PICK h \in Handles : conns'[h] # None /\ \E m \in 1..Len(conns'[h].pend) : s = <<h, m>>
      BY <2>1, PendingIs
    <3>2. PICK m \in 1..Len(conns'[h].pend) : s = <<h, m>>
      BY <3>1
    <3>3. h \in live /\ h \notin gone /\ conns'[h] = conn(h)
      BY <3>1, <1>4
    <3>4. Len(conns'[h].pend) = size(h) - k[h] /\ gives(h) = k[h] /\ k[h] \in 0..size(h) /\ size(h) \in Nat
      BY <3>3, <1>2
    <3> HIDE DEF live, gone, conn, size, gives, given
    <3>5. m \in 1..size(h) /\ m \notin (size(h) - gives(h) + 1)..size(h)
      BY <3>2, <3>4
    <3>6. s \in Pending(cs)
      BY <3>2, <3>3, <3>5, PendingIs DEF size, live
    <3>7. s \notin given
      BY <3>2, <3>5, <1>9
    <3> QED
      BY <3>6, <3>7
  <2>2. ASSUME s \in Pending(cs), s \notin given PROVE s \in Pending(conns')
    <3>1. PICK h \in Handles : cs[h] # None /\ \E m \in 1..Len(cs[h].pend) : s = <<h, m>>
      BY <2>2, PendingIs
    <3>2. PICK m \in 1..size(h) : s = <<h, m>>
      BY <3>1
    <3>3. h \in live
      BY <3>1, <1>0
    <3>4. size(h) \in Nat /\ gives(h) = (IF h \in gone THEN size(h) ELSE k[h]) /\ k[h] \in 0..size(h)
          /\ Len(conn(h).pend) = size(h) - k[h] /\ conn(h) # None
      BY <3>3, <1>2
    <3>5. m \notin (size(h) - gives(h) + 1)..size(h)
      <4> HIDE DEF live, size, gives, given
      <4> QED
        BY <2>2, <3>2, <3>3, <1>9
    <3>6. conns'[h] = IF h \in live \ gone THEN conn(h) ELSE None
      BY <1>4
    <3> HIDE DEF live, gone, conn, size, gives, given
    <3>7. h \notin gone /\ m \in 1..(size(h) - k[h])
      BY <3>2, <3>4, <3>5
    <3>8. conns'[h] # None /\ Len(conns'[h].pend) = size(h) - k[h]
      BY <3>3, <3>4, <3>6, <3>7
    <3> QED
      BY <3>2, <3>7, <3>8, PendingIs
  <2> QED
    BY <2>1, <2>2
<1>12. Pending(conns') = Pending(cs) \ given /\ Pending(cs) \cap given = given
  <2> HIDE DEF given
  <2> QED
    BY <1>10, <1>11
<1>13. /\ Cardinality(Pending(conns')) = Cardinality(Pending(cs)) - Cardinality(given)
       /\ Cardinality(Pending(cs)) \in Nat /\ Cardinality(given) \in Nat
  <2>1. IsFiniteSet(given)
    <3> HIDE DEF given
    <3> QED
      BY <1>10, FS_Subset
  <2> HIDE DEF given
  <2>2. Cardinality(Pending(cs) \ given) = Cardinality(Pending(cs)) - Cardinality(Pending(cs) \cap given)
    BY <2>1, FS_Difference
  <2>3. Cardinality(Pending(cs)) \in Nat /\ Cardinality(given) \in Nat
    BY <2>1, FS_CardinalityType
  <2> QED
    BY <1>12, <2>2, <2>3
<1>14. bytes' = bytes + n - Cardinality(given)
  BY <1>1
<1>15. bytes' = Total(conns')
  <2> HIDE DEF given
  <2> QED
    BY <1>13, <1>14 DEF Total
<1>16. Pending(conns') \subseteq Pending(cs)
  BY <1>12
<1> QED
  BY <1>8, <1>15, <1>16

-----------------------------------------------------------------------------
(* The inductive invariant.  Its parts are stated of any connections cs,    *)
(* tasks ts, queue q and peer p, so that they can be followed through the   *)
(* middle of a turn, before pump runs.                                      *)

(* A task that is over has forgotten its connection. *)
Over(t) == t.pc = "gone" /\ t.note = "idle"
Born(t) == t.pc # "unborn"
(* It will read nothing more from its kernel socket. *)
Silent(t) == t.pc \in {"closing", "half_closing", "leaving", "gone"} \/ t.eof

TaskGood(t, p) ==
  /\ ChanOk(t)
  /\ t.pc \in {"unborn", "gone"} => ~t.open
  /\ t.pc = "unborn" => t.note = "idle"
  /\ t.pc = "sending" => ~t.eof
  /\ t.pc = "half_closing" => t.eof
  /\ Born(t) => t.met <= p.met
  /\ Born(t) /\ ~Over(t) => t.h \in Nat /\ t.gen \in Nat

(* A live connection and its task know each other. *)
ConnGood(h, c, ts, p) ==
  /\ c.task \in DOMAIN ts /\ Born(ts[c.task])
  /\ c.gen < p.next
  /\ ts[c.task].met = p.met
  /\ Over(ts[c.task]) \/ (ts[c.task].h = h /\ ts[c.task].gen = c.gen)

(* Among what the peer has now, the generation gen stands for task i. *)
Current(cs, p, gen, i) == gen < p.next /\ \A h \in LiveIn(cs) : cs[h].gen = gen => cs[h].task = i

TaskGens(cs, ts, p) ==
  \A i \in DOMAIN ts : Born(ts[i]) /\ ~Over(ts[i]) /\ ts[i].met = p.met => Current(cs, p, ts[i].gen, i)
QueueGens(cs, ts, q, p) ==
  \A n \in DOMAIN q :
    /\ q[n].task \in DOMAIN ts /\ Born(ts[q[n].task])
    /\ ts[q[n].task].met = p.met => Current(cs, p, q[n].gen, q[n].task)
Aliens(cs, ts, p) ==
  \A h \in LiveIn(cs) : \A i \in cs[h].alien : i \in DOMAIN ts /\ Born(ts[i]) /\ ts[i].met < p.met

Links(cs, ts, q, p) ==
  /\ \A i \in DOMAIN ts : TaskGood(ts[i], p)
  /\ \A h \in LiveIn(cs) : ConnGood(h, cs[h], ts, p)
  /\ Apart(cs)
  /\ TaskGens(cs, ts, p) /\ QueueGens(cs, ts, q, p) /\ Aliens(cs, ts, p)

OwnPorts(cs) ==
  \A g, h \in LiveIn(cs) : cs[h].port \in 1..Ports /\ (cs[g].port = cs[h].port => g = h)

(* A Close comes after all data of its task, in the queue and to a          *)
(* connection.                                                              *)
UnreadIn(q, i) == {n \in DOMAIN q : q[n].task = i /\ q[n].kind = "data"}
CloseLast(ts, q) ==
  \A n \in DOMAIN q : q[n].kind = "close" =>
    Silent(ts[q[n].task]) /\ \A m \in UnreadIn(q, q[n].task) : m < n
FlushLast(cs, ts, q) ==
  \A h \in LiveIn(cs) : cs[h].flush /\ cs[h].alien = {} =>
    Silent(ts[cs[h].task]) /\ UnreadIn(q, cs[h].task) = {}

Shapes ==
  /\ load \in Loads
  /\ conns \in [1..load.handles -> Conns \cup {None}]
  /\ tasks \in [1..load.tasks -> TaskRecs]
  /\ queue \in Seq(Messages) /\ Len(queue) <= Queue
  /\ wake \in [keys : SUBSET (Nat \X Nat), permit : BOOLEAN, waits : BOOLEAN]
  /\ peer \in [met : Nat, next : Nat]
  /\ forward \in [active : BOOLEAN, backlog : Nat, next : 1..Ports]
  /\ bytes \in Nat

(* Whatever the loop could do for a connection is announced or about to be. *)
WorkInv ==
  \A h \in LiveIn(conns) :
    Work(conns[h], tasks[conns[h].task]) =>
      tasks[conns[h].task].note = "insert" \/ <<h, conns[h].gen>> \in wake.keys
NoticeInv ==
  wake.waits /\ wake.keys # {} => wake.permit \/ \E j \in Tasks : tasks[j].note = "notify"

(* Chunks that are not the first of their connection keep the limit. *)
Rest(S) == {s \in S : s[2] # 1}
BytesInv ==
  bytes = Total(conns) /\ IsFiniteSet(Pending(conns)) /\ Cardinality(Rest(Pending(conns))) <= MaxBytes

Safe(cs, ts, q, p) ==
  /\ Links(cs, ts, q, p)
  /\ load.side = "client" => OwnPorts(cs)
  /\ CloseLast(ts, q) /\ FlushLast(cs, ts, q)

RelayInv == Shapes /\ Safe(conns, tasks, queue, peer) /\ WorkInv /\ NoticeInv /\ BytesInv

-----------------------------------------------------------------------------
(* What leaves Safe as it is *)

(* ds holds connections of cs, with their identity. *)
Alike(cs, ds) ==
  /\ DOMAIN ds = DOMAIN cs
  /\ \A h \in DOMAIN cs : ds[h] # None =>
       /\ cs[h] # None
       /\ ds[h].task = cs[h].task /\ ds[h].gen = cs[h].gen /\ ds[h].port = cs[h].port
       /\ ds[h].alien = cs[h].alien /\ (ds[h].flush => cs[h].flush)

(* A task goes on. *)
GoesOn(t, u) ==
  /\ Born(u) <=> Born(t)
  /\ u.met = t.met
  /\ Over(t) => Over(u)
  /\ Over(u) \/ (u.h = t.h /\ u.gen = t.gen)
  /\ Silent(t) => Silent(u)
Follow(ts, us) == DOMAIN us = DOMAIN ts /\ \A i \in DOMAIN ts : GoesOn(ts[i], us[i])

LEMMA SafeFollows ==
  ASSUME NEW cs, NEW ds, NEW ts, NEW us, NEW q, NEW p,
         Safe(cs, ts, q, p), Alike(cs, ds), Follow(ts, us), \A i \in DOMAIN us : TaskGood(us[i], p)
  PROVE  Safe(ds, us, q, p)
<1>1. \A h \in LiveIn(ds) :
        /\ h \in LiveIn(cs) /\ ds[h].task = cs[h].task /\ ds[h].gen = cs[h].gen /\ ds[h].port = cs[h].port
        /\ ds[h].alien = cs[h].alien /\ (ds[h].flush => cs[h].flush)
  BY DEF Alike, LiveIn
<1>2. DOMAIN us = DOMAIN ts /\ \A i \in DOMAIN ts : GoesOn(ts[i], us[i])
  BY DEF Follow
<1>3. \A h \in LiveIn(ds) : ConnGood(h, ds[h], us, p)
  <2> SUFFICES ASSUME NEW h \in LiveIn(ds) PROVE ConnGood(h, ds[h], us, p)
    OBVIOUS
  <2>1. ConnGood(h, cs[h], ts, p)
    BY <1>1 DEF Safe, Links
  <2>2. cs[h].task \in DOMAIN ts
    BY <2>1 DEF ConnGood
  <2>3. GoesOn(ts[cs[h].task], us[cs[h].task])
    BY <1>2, <2>2
  <2> QED
    BY <1>1, <1>2, <2>1, <2>2, <2>3 DEF ConnGood, GoesOn
<1>4. Apart(ds)
  BY <1>1 DEF Safe, Links, Apart
<1>5. \A gen, i : Current(cs, p, gen, i) => Current(ds, p, gen, i)
  BY <1>1 DEF Current
<1>6. TaskGens(ds, us, p)
  <2> SUFFICES ASSUME NEW i \in DOMAIN us, Born(us[i]), ~Over(us[i]), us[i].met = p.met
               PROVE  Current(ds, p, us[i].gen, i)
    BY DEF TaskGens
  <2>1. GoesOn(ts[i], us[i]) /\ i \in DOMAIN ts
    BY <1>2
  <2>2. Born(ts[i]) /\ ~Over(ts[i]) /\ ts[i].met = p.met /\ us[i].gen = ts[i].gen
    BY <2>1 DEF GoesOn
  <2> QED
    BY <2>1, <2>2, <1>5 DEF Safe, Links, TaskGens
<1>7. QueueGens(ds, us, q, p)
  <2> SUFFICES ASSUME NEW n \in DOMAIN q
               PROVE  /\ q[n].task \in DOMAIN us /\ Born(us[q[n].task])
                      /\ us[q[n].task].met = p.met => Current(ds, p, q[n].gen, q[n].task)
    BY DEF QueueGens
  <2>1. /\ q[n].task \in DOMAIN ts /\ Born(ts[q[n].task])
        /\ ts[q[n].task].met = p.met => Current(cs, p, q[n].gen, q[n].task)
    BY DEF Safe, Links, QueueGens
  <2>2. GoesOn(ts[q[n].task], us[q[n].task])
    BY <1>2, <2>1
  <2> QED
    BY <1>2, <1>5, <2>1, <2>2 DEF GoesOn
<1>8. Aliens(ds, us, p)
  <2> SUFFICES ASSUME NEW h \in LiveIn(ds), NEW i \in ds[h].alien
               PROVE  i \in DOMAIN us /\ Born(us[i]) /\ us[i].met < p.met
    BY DEF Aliens
  <2>1. i \in DOMAIN ts /\ Born(ts[i]) /\ ts[i].met < p.met
    BY <1>1 DEF Safe, Links, Aliens
  <2>2. GoesOn(ts[i], us[i])
    BY <1>2, <2>1
  <2> QED
    BY <1>2, <2>1, <2>2 DEF GoesOn
<1>9. load.side = "client" => OwnPorts(ds)
  BY <1>1 DEF Safe, OwnPorts
<1>10. CloseLast(us, q)
  <2> SUFFICES ASSUME NEW n \in DOMAIN q, q[n].kind = "close"
               PROVE  Silent(us[q[n].task]) /\ \A m \in UnreadIn(q, q[n].task) : m < n
    BY DEF CloseLast
  <2>1. Silent(ts[q[n].task]) /\ \A m \in UnreadIn(q, q[n].task) : m < n
    BY DEF Safe, CloseLast
  <2>2. GoesOn(ts[q[n].task], us[q[n].task])
    BY <1>2 DEF Safe, Links, QueueGens
  <2> QED
    BY <2>1, <2>2 DEF GoesOn
<1>11. FlushLast(ds, us, q)
  <2> SUFFICES ASSUME NEW h \in LiveIn(ds), ds[h].flush, ds[h].alien = {}
               PROVE  Silent(us[ds[h].task]) /\ UnreadIn(q, ds[h].task) = {}
    BY DEF FlushLast
  <2>1. Silent(ts[cs[h].task]) /\ UnreadIn(q, cs[h].task) = {} /\ ds[h].task = cs[h].task
    BY <1>1 DEF Safe, FlushLast
  <2>2. cs[h].task \in DOMAIN ts
    BY <1>1 DEF Safe, Links, ConnGood
  <2>3. GoesOn(ts[cs[h].task], us[cs[h].task])
    BY <1>2, <2>2
  <2> QED
    BY <2>1, <2>3 DEF GoesOn
<1> QED
  BY <1>3, <1>4, <1>6, <1>7, <1>8, <1>9, <1>10, <1>11 DEF Safe, Links

(* A message that the loop has taken leaves the others as they were. *)
LEMMA SafeWithoutHead ==
  ASSUME NEW cs, NEW ts, NEW q \in Seq(Messages), NEW p, q # <<>>, Safe(cs, ts, q, p)
  PROVE  Safe(cs, ts, Tail(q), p)
<1>1. /\ Tail(q) \in Seq(Messages) /\ \A n \in DOMAIN Tail(q) : n \in Nat /\ n + 1 \in DOMAIN q /\ Tail(q)[n] = q[n + 1]
  OBVIOUS
<1>2. \A i : \A n \in UnreadIn(Tail(q), i) : n + 1 \in UnreadIn(q, i)
  BY <1>1 DEF UnreadIn
<1>3. QueueGens(cs, ts, Tail(q), p)
  BY <1>1 DEF Safe, Links, QueueGens
<1>4. CloseLast(ts, Tail(q))
  <2> SUFFICES ASSUME NEW n \in DOMAIN Tail(q), Tail(q)[n].kind = "close"
               PROVE  Silent(ts[Tail(q)[n].task]) /\ \A m \in UnreadIn(Tail(q), Tail(q)[n].task) : m < n
    BY DEF CloseLast
  <2>1. /\ Silent(ts[Tail(q)[n].task]) /\ \A m \in UnreadIn(q, Tail(q)[n].task) : m < n + 1
        /\ n \in Nat
    BY <1>1 DEF Safe, CloseLast
  <2>2. \A m \in UnreadIn(Tail(q), Tail(q)[n].task) : m \in Nat /\ m + 1 < n + 1
    BY <1>1, <1>2, <2>1 DEF UnreadIn
  <2> QED
    BY <2>1, <2>2
<1>5. FlushLast(cs, ts, Tail(q))
  <2> SUFFICES ASSUME NEW h \in LiveIn(cs), cs[h].flush, cs[h].alien = {}
               PROVE  Silent(ts[cs[h].task]) /\ UnreadIn(Tail(q), cs[h].task) = {}
    BY DEF FlushLast
  <2> QED
    BY <1>2 DEF Safe, FlushLast
<1> QED
  BY <1>3, <1>4, <1>5 DEF Safe, Links

-----------------------------------------------------------------------------
(* A turn of the loop: something is done, then pump runs *)

WakeRecs == [keys : SUBSET (Nat \X Nat), permit : BOOLEAN, waits : BOOLEAN]
PeerRecs == [met : Nat, next : Nat]
ForwardRecs == [active : BOOLEAN, backlog : Nat, next : 1..Ports]

(* What the loop has made of its connections and tasks, n chunks the more, *)
(* when pump begins.                                                       *)
Middle(cs, ts, n) ==
  /\ cs \in [Handles -> Conns \cup {None}] /\ ts \in [Tasks -> TaskRecs]
  /\ IsFiniteSet(Pending(cs)) /\ bytes + n = Total(cs) /\ Cardinality(Rest(Pending(cs))) <= MaxBytes

LEMMA ReadyToPump ==
  ASSUME NEW cs, NEW ts, NEW n, NEW q, NEW p, Middle(cs, ts, n), Safe(cs, ts, q, p)
  PROVE  PumpReady(cs, ts)
<1>1. DOMAIN ts = Tasks
  BY DEF Middle
<1>2. \A i \in Tasks : ChanOk(ts[i])
  BY <1>1 DEF Safe, Links, TaskGood
<1>3. \A h \in LiveIn(cs) : cs[h].task \in Tasks
  BY <1>1 DEF Safe, Links, ConnGood
<1> QED
  BY <1>2, <1>3 DEF Safe, Links, PumpReady, Middle

(* The same task, a turn later. *)
LEMMA SameTaskGood ==
  ASSUME NEW t, NEW u, NEW p, SameTask(t, u), TaskGood(t, p)
  PROVE  GoesOn(t, u) /\ TaskGood(u, p)
<1>1. /\ u.pc = t.pc /\ u.h = t.h /\ u.gen = t.gen /\ u.met = t.met /\ u.open = t.open
      /\ u.note = t.note /\ u.out = t.out /\ u.eof = t.eof /\ u.stop = t.stop /\ ChanOk(u)
  BY DEF SameTask
<1>2. (Born(u) <=> Born(t)) /\ (Over(t) <=> Over(u)) /\ (Silent(t) <=> Silent(u))
  BY <1>1 DEF Born, Over, Silent
<1> QED
  BY <1>1, <1>2 DEF GoesOn, TaskGood

LEMMA RestShrinks ==
  ASSUME NEW S, NEW T, T \subseteq S, IsFiniteSet(S), Cardinality(Rest(S)) <= MaxBytes
  PROVE  IsFiniteSet(T) /\ Cardinality(Rest(T)) <= MaxBytes
<1>1. Rest(T) \subseteq Rest(S) /\ Rest(S) \subseteq S
  BY DEF Rest
<1>2. IsFiniteSet(T) /\ IsFiniteSet(Rest(S))
  BY <1>1, FS_Subset
<1>3. Cardinality(Rest(T)) <= Cardinality(Rest(S)) /\ IsFiniteSet(Rest(T))
  BY <1>1, <1>2, FS_Subset
<1>4. Cardinality(Rest(T)) \in Nat /\ Cardinality(Rest(S)) \in Nat /\ MaxBytes \in Nat
  BY <1>2, <1>3, FS_CardinalityType, RelayBounds
<1> QED
  BY <1>2, <1>3, <1>4

LEMMA TurnKeeps ==
  ASSUME Shapes, NEW cs, NEW ts, NEW n \in Nat, Middle(cs, ts, n), Pump(cs, ts, n),
         Safe(cs, ts, queue', peer'), load' = load,
         queue' \in Seq(Messages), Len(queue') <= Queue,
         wake' \in WakeRecs, ~wake'.waits, peer' \in PeerRecs, forward' \in ForwardRecs
  PROVE  RelayInv'
<1>1. PumpReady(cs, ts) /\ bytes \in Nat
  BY ReadyToPump DEF Shapes
<1>2. Pumped(cs, ts) /\ bytes' = Total(conns') /\ Pending(conns') \subseteq Pending(cs)
  BY <1>1, PumpedAll DEF Middle
<1>3. /\ conns' \in [Handles -> Conns \cup {None}] /\ tasks' \in [Tasks -> TaskRecs]
      /\ Handles' = Handles /\ Tasks' = Tasks
  BY <1>2 DEF Pumped, Handles, Tasks
<1>4. Alike(cs, conns')
  BY <1>2, <1>3 DEF Pumped, Turned, Kept, Alike, Middle
<1>5. \A i \in Tasks : GoesOn(ts[i], tasks'[i]) /\ TaskGood(tasks'[i], peer')
  <2>1. DOMAIN ts = Tasks
    BY DEF Middle
  <2> QED
    BY <1>2, <2>1, SameTaskGood DEF Pumped, Safe, Links
<1>6. Follow(ts, tasks') /\ \A i \in DOMAIN tasks' : TaskGood(tasks'[i], peer')
  BY <1>3, <1>5 DEF Follow, Middle
<1>7. Safe(conns', tasks', queue', peer')
  BY <1>4, <1>6, SafeFollows
<1>8. Safe(conns, tasks, queue, peer)'
  BY <1>7 DEF Safe
<1>9. Pending(conns)' = Pending(conns') /\ Total(conns)' = Total(conns')
  BY <1>3 DEF Pending, Total
<1>10. IsFiniteSet(Pending(conns')) /\ Cardinality(Rest(Pending(conns'))) <= MaxBytes
  BY <1>2, RestShrinks DEF Middle
<1>11. Total(conns') \in Nat
  BY <1>10, FS_CardinalityType DEF Total
<1>12. BytesInv'
  BY <1>2, <1>9, <1>10 DEF BytesInv
<1>13. Handles = 1..load.handles /\ Tasks = 1..load.tasks
  BY DEF Shapes, Handles, Tasks
<1>14. Shapes'
  BY <1>2, <1>3, <1>11, <1>13 DEF Shapes, WakeRecs, PeerRecs, ForwardRecs
<1>15. WorkInv'
  <2> SUFFICES ASSUME NEW h \in LiveIn(conns') PROVE ~Work(conns'[h], tasks'[conns'[h].task])
    BY DEF WorkInv
  <2>1. h \in Handles /\ conns'[h] # None
    BY <1>3 DEF LiveIn
  <2>2. conns'[h].task = cs[h].task
    BY <2>1, <1>2 DEF Pumped, Turned, Kept
  <2> QED
    BY <1>2, <2>1, <2>2 DEF Pumped
<1>16. NoticeInv'
  BY DEF NoticeInv
<1> QED
  BY <1>8, <1>12, <1>14, <1>15, <1>16 DEF RelayInv

LEMMA MiddleAlike ==
  ASSUME Shapes, BytesInv, NEW cs \in [Handles -> Conns \cup {None}], NEW ts \in [Tasks -> TaskRecs],
         \A h \in Handles : (cs[h] = None <=> conns[h] = None) /\ (conns[h] # None => cs[h].pend = conns[h].pend)
  PROVE  Middle(cs, ts, 0)
<1>1. \A s : s \in Pending(cs) <=> s \in Pending(conns)
  BY PendingIs
<1>2. Pending(cs) = Pending(conns)
  BY <1>1
<1>3. bytes + 0 = Total(cs)
  BY <1>2 DEF Total, BytesInv, Shapes
<1> QED
  BY <1>2, <1>3 DEF Middle, BytesInv

LEMMA FollowsItself ==
  ASSUME NEW ts
  PROVE  Follow(ts, ts)
  BY DEF Follow, GoesOn

LEMMA WakeTurns ==
  ASSUME Shapes, LoopTurns
  PROVE  wake' \in WakeRecs /\ ~wake'.waits
<1>1. wake \in WakeRecs /\ wake' = [wake EXCEPT !.waits = FALSE]
  BY DEF Shapes, LoopTurns, WakeRecs
<1>2. wake' \in WakeRecs
  BY <1>1, Zenon DEF WakeRecs
<1>3. ~wake'.waits
  BY <1>1, Zenon DEF WakeRecs
<1> QED
  BY <1>2, <1>3

LEMMA ShapesNow ==
  ASSUME Shapes
  PROVE  /\ conns \in [Handles -> Conns \cup {None}] /\ tasks \in [Tasks -> TaskRecs]
         /\ queue \in Seq(Messages) /\ Len(queue) <= Queue /\ Len(queue) \in Nat
         /\ wake \in WakeRecs /\ peer \in PeerRecs /\ forward \in ForwardRecs /\ bytes \in Nat
         /\ LiveIn(conns) = Live /\ Handles \subseteq Nat /\ Tasks \subseteq Nat
<1>1. Handles = 1..load.handles /\ Tasks = 1..load.tasks
  BY DEF Shapes, Handles, Tasks
<1>2. load.handles \in Nat /\ load.tasks \in Nat
  BY RelayBounds DEF Shapes
<1> QED
  BY <1>1, <1>2 DEF Shapes, WakeRecs, PeerRecs, ForwardRecs, LiveIn, Live, Handles

(* Connections with the same identity and the same queues. *)
SameConn(c, d) ==
  /\ d \in Conns
  /\ d.task = c.task /\ d.gen = c.gen /\ d.port = c.port /\ d.alien = c.alien
  /\ d.pend = c.pend /\ d.flush = c.flush

(* A turn whose beginning moves neither messages nor queued chunks. *)
LEMMA QuietTurn ==
  ASSUME RelayInv, NEW cs \in [Handles -> Conns \cup {None}], NEW ts \in [Tasks -> TaskRecs],
         \A h \in Handles : (cs[h] = None <=> conns[h] = None) /\ (conns[h] # None => SameConn(conns[h], cs[h])),
         Follow(tasks, ts), \A i \in DOMAIN ts : TaskGood(ts[i], peer),
         Pump(cs, ts, 0), UNCHANGED <<load, peer, queue>>, LoopTurns, forward' \in ForwardRecs
  PROVE  RelayInv'
<1>1. Shapes /\ BytesInv /\ Safe(conns, tasks, queue, peer)
  BY DEF RelayInv
<1>2. Middle(cs, ts, 0)
  BY <1>1, MiddleAlike DEF SameConn
<1>3. DOMAIN conns = Handles /\ DOMAIN cs = Handles
  BY DEF Handles
<1>4. Alike(conns, cs)
  BY <1>3 DEF Alike, SameConn
<1>5. Safe(cs, ts, queue, peer)
  BY <1>1, <1>4, SafeFollows
<1>6. wake' \in WakeRecs /\ ~wake'.waits
  BY <1>1, WakeTurns
<1>7. queue \in Seq(Messages) /\ Len(queue) <= Queue /\ peer \in PeerRecs
  BY <1>1, ShapesNow
<1> QED
  BY <1>1, <1>2, <1>5, <1>6, <1>7, TurnKeeps

LEMMA TasksAreGood ==
  ASSUME RelayInv
  PROVE  \A i \in Tasks : TaskGood(tasks[i], peer)
  BY DEF RelayInv, Safe, Links, Tasks

LEMMA FromLinkIs ==
  ASSUME NEW c \in Conns, NEW d \in FromLink(c)
  PROVE  SameConn(c, d) /\ d.shut = c.shut
<1>1. CASE d = [c EXCEPT !.rx = @ + 1, !.in = @ + 1]
  <2> DEFINE r == c.rx + 1
             n == c.in + 1
  <2>1. r \in Nat /\ n \in Nat /\ d = [c EXCEPT !.rx = r, !.in = n]
    BY <1>1 DEF Conns
  <2> HIDE DEF r, n
  <2> QED
    BY <2>1 DEF SameConn, Conns
<1>2. CASE d = [c EXCEPT !.fin = TRUE]
  <2>1. d \in Conns
    BY <1>2, Zenon DEF Conns
  <2> QED
    BY <1>2, <2>1 DEF SameConn, Conns
<1>3. CASE d = [c EXCEPT !.dead = TRUE]
  <2>1. d \in Conns
    BY <1>3, Zenon DEF Conns
  <2> QED
    BY <1>3, <2>1 DEF SameConn, Conns
<1> QED
  BY <1>1, <1>2, <1>3 DEF FromLink

LEMMA PacketKeeps ==
  ASSUME RelayInv, Packet
  PROVE  RelayInv'
<1>1. PICK h \in Live : \E c \in FromLink(conns[h]) : Pump([conns EXCEPT ![h] = c], tasks, 0)
  BY DEF Packet
<1>2. PICK c \in FromLink(conns[h]) : Pump([conns EXCEPT ![h] = c], tasks, 0)
  BY <1>1
<1>3. Shapes
  BY DEF RelayInv
<1>4. conns[h] \in Conns /\ h \in Handles /\ conns[h] # None
  BY <1>3, ShapesNow DEF Live
<1>5. SameConn(conns[h], c)
  BY <1>2, <1>4, FromLinkIs
<1> DEFINE cs == [conns EXCEPT ![h] = c]
<1>6. cs \in [Handles -> Conns \cup {None}]
  BY <1>3, <1>5, ShapesNow DEF SameConn
<1>7. \A g \in Handles : (cs[g] = None <=> conns[g] = None) /\ (conns[g] # None => SameConn(conns[g], cs[g]))
  <2> SUFFICES ASSUME NEW g \in Handles
               PROVE  (cs[g] = None <=> conns[g] = None) /\ (conns[g] # None => SameConn(conns[g], cs[g]))
    OBVIOUS
  <2>1. conns[g] \in Conns \cup {None}
    BY <1>3, ShapesNow
  <2>2. CASE g = h
    BY <2>2, <1>3, <1>4, <1>5, ShapesNow, NoneIsNothing DEF SameConn
  <2>3. CASE g # h
    BY <2>1, <2>3, <1>3, ShapesNow DEF SameConn
  <2> QED
    BY <2>2, <2>3
<1>8. tasks \in [Tasks -> TaskRecs] /\ forward \in ForwardRecs
  BY <1>3, ShapesNow
<1>9. \A i \in DOMAIN tasks : TaskGood(tasks[i], peer)
  BY TasksAreGood DEF Tasks
<1> HIDE DEF cs
<1>10. Pump(cs, tasks, 0)
  BY <1>2 DEF cs
<1>11. UNCHANGED <<load, peer, queue>> /\ LoopTurns /\ forward' = forward
  BY DEF Packet, Awake
<1> QED
  BY <1>6, <1>7, <1>8, <1>9, <1>10, <1>11, FollowsItself, QuietTurn

(* A turn that begins with nothing. *)
LEMMA PlainTurn ==
  ASSUME RelayInv, Pump(conns, tasks, 0), UNCHANGED <<load, peer, queue>>, LoopTurns, forward' \in ForwardRecs
  PROVE  RelayInv'
<1>1. Shapes
  BY DEF RelayInv
<1>2. conns \in [Handles -> Conns \cup {None}] /\ tasks \in [Tasks -> TaskRecs]
  BY <1>1, ShapesNow
<1>3. \A g \in Handles : (conns[g] = None <=> conns[g] = None) /\ (conns[g] # None => SameConn(conns[g], conns[g]))
  BY <1>2 DEF SameConn
<1>4. \A i \in DOMAIN tasks : TaskGood(tasks[i], peer)
  BY TasksAreGood DEF Tasks
<1> QED
  BY <1>2, <1>3, <1>4, FollowsItself, QuietTurn

LEMMA TimerKeeps ==
  ASSUME RelayInv, Timer
  PROVE  RelayInv'
<1>1. forward \in ForwardRecs
  BY ShapesNow DEF RelayInv
<1> QED
  BY <1>1, PlainTurn DEF Timer, Awake

LEMMA AddForwardKeeps ==
  ASSUME RelayInv, AddForward
  PROVE  RelayInv'
<1>1. forward \in ForwardRecs /\ forward' = [forward EXCEPT !.active = TRUE]
  BY ShapesNow DEF RelayInv, AddForward
<1>2. forward' \in ForwardRecs
  BY <1>1, Zenon DEF ForwardRecs
<1> QED
  BY <1>2, PlainTurn DEF AddForward, Awake

LEMMA RemoveForwardKeeps ==
  ASSUME RelayInv, RemoveForward
  PROVE  RelayInv'
<1> DEFINE cs == [h \in Handles |-> IF h \in Live THEN [conns[h] EXCEPT !.shut = TRUE] ELSE None]
           ts == [i \in Tasks |-> [tasks[i] EXCEPT !.stop = @ \/ HasSender(i)]]
<1>1. Shapes
  BY DEF RelayInv
<1>2. ASSUME NEW h \in Handles
      PROVE  /\ cs[h] \in Conns \cup {None} /\ (cs[h] = None <=> conns[h] = None)
             /\ conns[h] # None => SameConn(conns[h], cs[h])
  <2>1. CASE h \notin Live
    BY <2>1 DEF Live
  <2>2. CASE h \in Live
    <3>1. conns[h] \in Conns /\ conns[h] # None
      BY <2>2, <1>1, ShapesNow DEF Live
    <3> DEFINE d == cs[h]
    <3>2. d = [conns[h] EXCEPT !.shut = TRUE]
      BY <2>2
    <3> HIDE DEF cs, d
    <3>3. d \in Conns
      BY <3>1, <3>2, Zenon DEF Conns
    <3>4. SameConn(conns[h], d)
      BY <3>1, <3>2, <3>3 DEF SameConn, Conns
    <3> QED
      BY <3>1, <3>3, <3>4, NoneIsNothing DEF d
  <2> QED
    BY <2>1, <2>2
<1>3. ASSUME NEW i \in Tasks
      PROVE  ts[i] \in TaskRecs /\ GoesOn(tasks[i], ts[i]) /\ TaskGood(ts[i], peer)
  <2>1. tasks[i] \in TaskRecs /\ TaskGood(tasks[i], peer)
    BY <1>1, ShapesNow, TasksAreGood
  <2> DEFINE u == ts[i]
  <2>2. u = [tasks[i] EXCEPT !.stop = tasks[i].stop \/ HasSender(i)]
    OBVIOUS
  <2>3. HasSender(i) \in BOOLEAN
    BY DEF HasSender
  <2> HIDE DEF ts, u
  <2>4. u \in TaskRecs
    BY <2>1, <2>2, <2>3, Zenon DEF TaskRecs
  <2>5. /\ u.pc = tasks[i].pc /\ u.h = tasks[i].h /\ u.gen = tasks[i].gen /\ u.met = tasks[i].met
        /\ u.open = tasks[i].open /\ u.note = tasks[i].note /\ u.eof = tasks[i].eof /\ u.chan = tasks[i].chan
    BY <2>1, <2>2 DEF TaskRecs
  <2>6. GoesOn(tasks[i], u) /\ TaskGood(u, peer)
    BY <2>1, <2>5 DEF GoesOn, TaskGood, ChanOk, Born, Over, Silent
  <2> QED
    BY <2>4, <2>6 DEF u
<1>4. cs \in [Handles -> Conns \cup {None}] /\ ts \in [Tasks -> TaskRecs]
  BY <1>2, <1>3
<1>5. Follow(tasks, ts) /\ \A i \in DOMAIN ts : TaskGood(ts[i], peer)
  BY <1>3 DEF Follow, Tasks
<1>6. forward' \in ForwardRecs
  <2>1. forward \in ForwardRecs /\ forward' = [forward EXCEPT !.active = FALSE]
    BY <1>1, ShapesNow DEF RemoveForward
  <2> QED
    BY <2>1, Zenon DEF ForwardRecs
<1>7. Pump(cs, ts, 0) /\ UNCHANGED <<load, peer, queue>> /\ LoopTurns
  BY DEF RemoveForward, Awake
<1> HIDE DEF cs, ts
<1> QED
  BY <1>2, <1>4, <1>5, <1>6, <1>7, QuietTurn

LEMMA StreamKeeps ==
  ASSUME RelayInv, Stream
  PROVE  RelayInv'
<1>1. forward \in ForwardRecs /\ forward' = [forward EXCEPT !.backlog = 1]
  BY ShapesNow DEF RelayInv, Stream
<1>2. forward' \in ForwardRecs
  BY <1>1 DEF ForwardRecs
<1>3. UNCHANGED <<load, conns, bytes, tasks, queue, wake, peer>>
  BY DEF Stream
<1>4. Handles' = Handles /\ Tasks' = Tasks
  BY <1>3 DEF Handles, Tasks
<1>5. Shapes'
  BY <1>2, <1>3 DEF RelayInv, Shapes, ForwardRecs
<1>6. Safe(conns, tasks, queue, peer)' /\ WorkInv' /\ NoticeInv'
  BY <1>3, <1>4 DEF RelayInv, Safe, WorkInv, NoticeInv
<1>7. BytesInv'
  BY <1>3, <1>4 DEF RelayInv, BytesInv, Total, Pending
<1> QED
  BY <1>5, <1>6, <1>7 DEF RelayInv

(* The loop's wait changes nothing but the wake. *)
LEMMA WaitKeeps ==
  ASSUME RelayInv, Wait \/ Noticed
  PROVE  RelayInv'
<1>1. UNCHANGED <<load, conns, bytes, tasks, queue, peer, forward>>
  BY DEF Wait, Noticed
<1>2. wake \in WakeRecs
  BY ShapesNow DEF RelayInv
<1>3. wake' \in WakeRecs /\ wake'.keys = wake.keys /\ (wake'.waits => wake.keys = {})
  <2>1. CASE Wait
    <3>1. wake' = [wake EXCEPT !.waits = TRUE] /\ wake.keys = {}
      BY <2>1 DEF Wait
    <3>2. wake' \in WakeRecs
      BY <3>1, <1>2, Zenon DEF WakeRecs
    <3> QED
      BY <3>1, <3>2, <1>2 DEF WakeRecs
  <2>2. CASE Noticed
    <3>1. wake' = [wake EXCEPT !.waits = FALSE, !.permit = FALSE]
      BY <2>2 DEF Noticed
    <3>2. wake' \in WakeRecs
      BY <3>1, <1>2, Zenon DEF WakeRecs
    <3>3. ~wake'.waits
      BY <3>1, <1>2, Zenon DEF WakeRecs
    <3>4. wake'.keys = wake.keys
      BY <3>1, <1>2 DEF WakeRecs
    <3> QED
      BY <3>2, <3>3, <3>4
  <2> QED
    BY <2>1, <2>2
<1>4. Handles' = Handles /\ Tasks' = Tasks
  BY <1>1 DEF Handles, Tasks
<1>5. Shapes'
  BY <1>1, <1>3 DEF RelayInv, Shapes, WakeRecs
<1>6. Safe(conns, tasks, queue, peer)' /\ WorkInv' /\ NoticeInv'
  BY <1>1, <1>3, <1>4 DEF RelayInv, Safe, WorkInv, NoticeInv
<1>7. BytesInv'
  BY <1>1, <1>4 DEF RelayInv, BytesInv, Total, Pending
<1> QED
  BY <1>5, <1>6, <1>7 DEF RelayInv

LEMMA TakeKeysKeeps ==
  ASSUME RelayInv, TakeKeys
  PROVE  RelayInv'
<1>1. Shapes /\ wake \in WakeRecs /\ wake' = [wake EXCEPT !.keys = {}] /\ ~wake.waits
  BY ShapesNow DEF RelayInv, TakeKeys
<1>2. wake' \in WakeRecs /\ wake'.keys = {}
  BY <1>1 DEF WakeRecs
<1>3. ~wake'.waits
  BY <1>1, Zenon DEF WakeRecs
<1>4. UNCHANGED <<load, queue, peer, forward>>
  BY DEF TakeKeys
<1>5. CASE \E key \in wake.keys : Owner(key[1], key[2])
  <2>1. Pump(conns, tasks, 0)
    BY <1>5 DEF TakeKeys
  <2>2. Middle(conns, tasks, 0) /\ Safe(conns, tasks, queue, peer)
    BY <1>1, ShapesNow, MiddleAlike DEF RelayInv
  <2>3. queue \in Seq(Messages) /\ Len(queue) <= Queue /\ peer \in PeerRecs /\ forward \in ForwardRecs
    BY <1>1, ShapesNow
  <2> QED
    BY <1>1, <1>2, <1>3, <1>4, <2>1, <2>2, <2>3, TurnKeeps
<1>6. CASE ~\E key \in wake.keys : Owner(key[1], key[2])
  <2>1. UNCHANGED <<conns, tasks, bytes>>
    BY <1>6 DEF TakeKeys
  <2>2. Handles' = Handles /\ Tasks' = Tasks
    BY <2>1 DEF Handles, Tasks
  <2>3. Shapes'
    BY <1>2, <1>4, <2>1 DEF RelayInv, Shapes, WakeRecs
  <2>4. Safe(conns, tasks, queue, peer)' /\ NoticeInv'
    BY <1>3, <1>4, <2>1 DEF RelayInv, Safe, NoticeInv
  <2>5. BytesInv'
    BY <2>1, <2>2 DEF RelayInv, BytesInv, Total, Pending
  <2>6. \A h \in LiveIn(conns) : <<h, conns[h].gen>> \notin wake.keys
    <3> SUFFICES ASSUME NEW h \in LiveIn(conns), <<h, conns[h].gen>> \in wake.keys PROVE FALSE
      OBVIOUS
    <3>1. Owner(h, conns[h].gen)
      BY <1>1, ShapesNow DEF Owner
    <3> QED
      BY <1>6, <3>1
  <2>7. WorkInv'
    BY <2>1, <2>6 DEF RelayInv, WorkInv
  <2> QED
    BY <2>3, <2>4, <2>5, <2>7 DEF RelayInv
<1> QED
  BY <1>5, <1>6

(* A turn that leaves no connection. *)
LEMMA NoneLeft ==
  ASSUME Shapes, conns' = [h \in Handles |-> None], bytes' = 0, load' = load,
         tasks' \in [Tasks -> TaskRecs], queue' \in Seq(Messages), Len(queue') <= Queue,
         wake' \in WakeRecs, ~wake'.waits, peer' \in PeerRecs, forward' \in ForwardRecs,
         Safe(conns', tasks', queue', peer')
  PROVE  RelayInv'
<1>1. Handles = 1..load.handles /\ Tasks = 1..load.tasks
  BY DEF Shapes, Handles, Tasks
<1>2. Shapes'
  BY <1>1 DEF Shapes, WakeRecs, PeerRecs, ForwardRecs
<1>3. LiveIn(conns') = {}
  BY DEF LiveIn
<1>4. \A s : s \notin Pending(conns)'
  BY <1>3 DEF Pending, Handles, LiveIn
<1>5. Pending(conns)' = {} /\ Rest(Pending(conns)') = {}
  BY <1>4 DEF Rest
<1>6. IsFiniteSet({}) /\ Cardinality({}) = 0 /\ 0 <= MaxBytes
  BY FS_EmptySet, RelayBounds
<1>7. BytesInv'
  BY <1>5, <1>6 DEF BytesInv, Total
<1>8. WorkInv' /\ NoticeInv'
  BY <1>3 DEF WorkInv, NoticeInv
<1>9. Safe(conns, tasks, queue, peer)'
  BY DEF Safe
<1> QED
  BY <1>2, <1>7, <1>8, <1>9 DEF RelayInv

LEMMA TornDown ==
  ASSUME Shapes, BytesInv, teardown_peer
  PROVE  bytes' = 0 /\ LiveIn(conns') = {} /\ conns' = [h \in Handles |-> None]
<1>1. bytes \in Nat
  BY DEF Shapes
<1> QED
  BY <1>1 DEF teardown_peer, BytesInv, LiveIn

LEMMA ReauthenticatedKeeps ==
  ASSUME RelayInv, Reauthenticated
  PROVE  RelayInv'
<1>1. Shapes /\ BytesInv /\ Safe(conns, tasks, queue, peer)
  BY DEF RelayInv
<1>2. bytes' = 0 /\ LiveIn(conns') = {} /\ conns' = [h \in Handles |-> None]
  BY <1>1, TornDown DEF Reauthenticated
<1>3. UNCHANGED <<load, peer, tasks, queue, forward>> /\ LoopTurns
  BY DEF Reauthenticated, Awake
<1>4. Alike(conns, conns')
  BY <1>2 DEF Alike, Handles
<1>5. Safe(conns', tasks, queue, peer)
  BY <1>1, <1>4, SafeFollows, FollowsItself, TasksAreGood DEF Tasks
<1>6. wake' \in WakeRecs /\ ~wake'.waits
  BY <1>1, <1>3, WakeTurns
<1>7. /\ tasks \in [Tasks -> TaskRecs] /\ queue \in Seq(Messages) /\ Len(queue) <= Queue
      /\ peer \in PeerRecs /\ forward \in ForwardRecs
  BY <1>1, ShapesNow
<1> QED
  BY <1>1, <1>2, <1>3, <1>5, <1>6, <1>7, NoneLeft

LEMMA PeerRemovedKeeps ==
  ASSUME RelayInv, PeerRemoved
  PROVE  RelayInv'
<1>1. Shapes /\ BytesInv /\ Safe(conns, tasks, queue, peer)
  BY DEF RelayInv
<1>2. bytes' = 0 /\ LiveIn(conns') = {} /\ conns' = [h \in Handles |-> None]
  BY <1>1, TornDown DEF PeerRemoved
<1>3. UNCHANGED <<load, tasks, queue, forward>> /\ LoopTurns /\ peer' = [met |-> peer.met + 1, next |-> 1]
  BY DEF PeerRemoved
<1>4. wake' \in WakeRecs /\ ~wake'.waits
  BY <1>1, <1>3, WakeTurns
<1>5. /\ tasks \in [Tasks -> TaskRecs] /\ queue \in Seq(Messages) /\ Len(queue) <= Queue
      /\ peer \in PeerRecs /\ forward \in ForwardRecs
  BY <1>1, ShapesNow
<1>6. peer' \in PeerRecs /\ peer'.met = peer.met + 1 /\ peer.met \in Nat
  BY <1>3, <1>5 DEF PeerRecs
<1>7. \A i \in DOMAIN tasks : TaskGood(tasks[i], peer) /\ tasks[i].met \in Nat
  BY <1>5, TasksAreGood DEF Tasks, TaskRecs
<1>8. \A i \in DOMAIN tasks : Born(tasks[i]) => tasks[i].met <= peer'.met /\ tasks[i].met # peer'.met
  BY <1>6, <1>7 DEF TaskGood
<1>9. \A i \in DOMAIN tasks : TaskGood(tasks[i], peer')
  BY <1>7, <1>8 DEF TaskGood
<1>10. TaskGens(conns', tasks, peer') /\ Aliens(conns', tasks, peer') /\ Apart(conns')
  BY <1>2, <1>8 DEF TaskGens, Aliens, Apart
<1>11. QueueGens(conns', tasks, queue, peer')
  BY <1>1, <1>8 DEF Safe, Links, QueueGens
<1>12. OwnPorts(conns') /\ FlushLast(conns', tasks, queue)
  BY <1>2 DEF OwnPorts, FlushLast
<1>13. Safe(conns', tasks, queue, peer')
  BY <1>1, <1>2, <1>9, <1>10, <1>11, <1>12 DEF Safe, Links
<1> QED
  BY <1>1, <1>2, <1>3, <1>4, <1>5, <1>6, <1>13, NoneLeft

LEMMA UnbornIs ==
  Unborn \in TaskRecs
<1>1. <<>> \in Seq({"data", "eof"})
  OBVIOUS
<1>2. FALSE \in BOOLEAN
  BY Zenon
<1>3. 0 \in Nat
  OBVIOUS
<1> QED
  BY <1>1, <1>2, <1>3, Zenon DEF Unborn, TaskRecs, Phases

LEMMA SessionEndsKeeps ==
  ASSUME RelayInv, SessionEnds
  PROVE  RelayInv'
<1>1. Shapes
  BY DEF RelayInv
<1>2. conns' = [h \in Handles |-> None] /\ LiveIn(conns') = {} /\ bytes' = 0 /\ load' = load
  BY DEF SessionEnds, LiveIn
<1>3. queue' = <<>> /\ queue' \in Seq(Messages) /\ Len(queue') <= Queue /\ DOMAIN queue' = {}
  BY RelayBounds DEF SessionEnds
<1>4. wake' \in WakeRecs /\ ~wake'.waits
  BY Zenon DEF SessionEnds, WakeRecs
<1>5. peer' \in PeerRecs /\ peer'.met \in Nat
  <2>1. peer \in PeerRecs /\ peer' = [peer EXCEPT !.next = 1]
    BY <1>1, ShapesNow DEF SessionEnds
  <2> QED
    BY <2>1 DEF PeerRecs
<1>6. forward' \in ForwardRecs
  <2>1. forward \in ForwardRecs /\ forward' = [forward EXCEPT !.backlog = 0, !.next = 1] /\ 1 \in 1..Ports
    BY <1>1, ShapesNow, RelayBounds DEF SessionEnds
  <2> QED
    BY <2>1 DEF ForwardRecs
<1>7. Unborn \in TaskRecs
  BY UnbornIs
<1> DEFINE left == [Unborn EXCEPT !.pc = "gone"]
<1>8. left \in TaskRecs
  BY <1>7 DEF TaskRecs, Phases
<1>9. TaskGood(left, peer') /\ TaskGood(Unborn, peer') /\ Over(left) /\ ~Born(Unborn)
  <2>1. /\ left.pc = "gone" /\ left.note = "idle" /\ left.met = 0 /\ left.chan = <<>> /\ ~left.open
        /\ Unborn.pc = "unborn" /\ Unborn.note = "idle" /\ Unborn.chan = <<>> /\ ~Unborn.open
    BY DEF Unborn
  <2>2. Len(<<>>) <= Capacity
    BY RelayBounds
  <2> HIDE DEF left
  <2> QED
    BY <1>5, <2>1, <2>2 DEF TaskGood, ChanOk, Over, Born
<1>10. tasks' = [i \in Tasks |-> IF tasks[i].pc = "unborn" THEN Unborn ELSE left]
  BY DEF SessionEnds
<1> HIDE DEF left
<1>11. /\ tasks' \in [Tasks -> TaskRecs] /\ \A i \in DOMAIN tasks' : TaskGood(tasks'[i], peer')
       /\ \A i \in DOMAIN tasks' : ~Born(tasks'[i]) \/ Over(tasks'[i])
  BY <1>7, <1>8, <1>9, <1>10
<1>12. Safe(conns', tasks', queue', peer')
  <2>1. TaskGens(conns', tasks', peer') /\ QueueGens(conns', tasks', queue', peer') /\ Aliens(conns', tasks', peer')
    BY <1>2, <1>3, <1>11 DEF TaskGens, QueueGens, Aliens
  <2>2. Apart(conns') /\ OwnPorts(conns') /\ CloseLast(tasks', queue') /\ FlushLast(conns', tasks', queue')
    BY <1>2, <1>3 DEF Apart, OwnPorts, CloseLast, FlushLast
  <2> QED
    BY <1>2, <1>11, <2>1, <2>2 DEF Safe, Links
<1> QED
  BY <1>1, <1>2, <1>3, <1>4, <1>5, <1>6, <1>11, <1>12, NoneLeft

-----------------------------------------------------------------------------
(* A connection is opened *)

LEMMA NewTaskIs ==
  ASSUME Shapes, NewTask # None
  PROVE  NewTask \in Tasks /\ tasks[NewTask].pc = "unborn"
<1> DEFINE S == {i \in Tasks : tasks[i].pc = "unborn"}
<1>1. S # {} /\ NewTask = Min(S)
  BY DEF NewTask
<1>2. S \in SUBSET Nat
  BY ShapesNow
<1>3. Min(S) \in S
  <2> HIDE DEF S
  <2> QED
    BY <1>1, <1>2, MinIsIn
<1> QED
  BY <1>1, <1>3

LEMMA FreeHandleIs ==
  ASSUME Shapes, FreeHandle # None
  PROVE  FreeHandle \in Handles /\ conns[FreeHandle] = None
<1> DEFINE S == Handles \ Live
<1>1. S # {} /\ FreeHandle = Min(S)
  BY DEF FreeHandle, Live
<1>2. S \in SUBSET Nat
  BY ShapesNow
<1>3. Min(S) \in S
  <2> HIDE DEF S
  <2> QED
    BY <1>1, <1>2, MinIsIn
<1> QED
  BY <1>1, <1>3 DEF Live

LEMMA PortInRange ==
  ASSUME NEW a \in Int
  PROVE  (a % Ports) + 1 \in 1..Ports
<1>1. Ports \in Nat /\ Ports > 0
  BY RelayBounds
<1>2. a % Ports \in 0..(Ports - 1)
  BY <1>1
<1> QED
  BY <1>1, <1>2

LEMMA PortIs ==
  ASSUME Shapes, allocate_local_port # None
  PROVE  allocate_local_port \in 1..Ports /\ allocate_local_port \notin PortsUsed
<1> DEFINE free == {n \in 1..Ports : PortsFrom(forward.next)[n] \notin PortsUsed}
<1>1. free # {} /\ allocate_local_port = PortsFrom(forward.next)[Min(free)]
  BY DEF allocate_local_port
<1>2. free \in SUBSET Nat
  OBVIOUS
<1>3. Min(free) \in free
  <2> HIDE DEF free
  <2> QED
    BY <1>1, <1>2, MinIsIn
<1>4. forward.next \in Nat
  BY RelayBounds DEF Shapes
<1> DEFINE m == Min(free)
<1>5. m \in 1..Ports /\ PortsFrom(forward.next)[m] \notin PortsUsed
  BY <1>3
<1> HIDE DEF free, m
<1>6. PortsFrom(forward.next)[m] = ((forward.next + m - 2) % Ports) + 1 /\ forward.next + m - 2 \in Int
  BY <1>4, <1>5 DEF PortsFrom
<1>7. PortsFrom(forward.next)[m] \in 1..Ports
  BY <1>6, PortInRange
<1> QED
  BY <1>1, <1>5, <1>7 DEF m

(* The task and the connection that are made for each other. *)
Opening(i, h, port, head, pc, cs, ts) ==
  /\ i \in Tasks /\ tasks[i].pc = "unborn" /\ h \in Handles /\ conns[h] = None
  /\ pc \in {"header", "relay"} /\ head \in {<<>>, <<i>>} /\ port \in Nat \cup {None}
  /\ load.side = "client" => port \in 1..Ports \ PortsUsed
  /\ cs = [conns EXCEPT ![h] = Conn(i, peer.next, port, head)]
  /\ ts = [tasks EXCEPT ![i] = Task(pc, h, peer.next)]

LEMMA OpenedRecs ==
  ASSUME Shapes, NEW i, NEW h, NEW port, NEW head, NEW pc, NEW cs, NEW ts,
         Opening(i, h, port, head, pc, cs, ts)
  PROVE  /\ cs \in [Handles -> Conns \cup {None}] /\ ts \in [Tasks -> TaskRecs]
         /\ cs[h] # None /\ cs[h].task = i /\ cs[h].gen = peer.next /\ cs[h].port = port
         /\ cs[h].pend = head /\ cs[h].alien = {} /\ ~cs[h].flush
         /\ \A g \in Handles \ {h} : cs[g] = conns[g]
         /\ ts[i].pc = pc /\ ts[i].h = h /\ ts[i].gen = peer.next /\ ts[i].met = peer.met
         /\ ts[i].chan = <<>> /\ ts[i].open /\ ts[i].note = "idle" /\ ~ts[i].eof
         /\ \A j \in Tasks \ {i} : ts[j] = tasks[j]
<1> DEFINE c == Conn(i, peer.next, port, head)
           t == Task(pc, h, peer.next)
<1>1. /\ i \in Nat /\ h \in Nat /\ peer.next \in Nat /\ peer.met \in Nat /\ head \in Seq(Nat)
      /\ port \in Nat \cup {None} /\ pc \in Phases
  <2>1. /\ i \in Tasks /\ h \in Handles /\ pc \in {"header", "relay"}
        /\ head = <<>> \/ head = <<i>>
        /\ port \in Nat \cup {None}
    BY DEF Opening
  <2>2. Tasks \subseteq Nat /\ Handles \subseteq Nat /\ peer \in PeerRecs
    BY ShapesNow
  <2>3. i \in Nat /\ h \in Nat /\ peer.next \in Nat /\ peer.met \in Nat
    BY <2>1, <2>2 DEF PeerRecs
  <2>4. head \in Seq(Nat)
    <3>1. <<>> \in Seq(Nat) /\ <<i>> \in Seq(Nat)
      BY <2>3
    <3> QED
      BY <2>1, <3>1
  <2> QED
    BY <2>1, <2>3, <2>4 DEF Phases
<1>2. c \in Conns
  <2>1. 0 \in Nat /\ {} \in SUBSET Nat
    OBVIOUS
  <2> QED
    BY <1>1, <2>1, Zenon DEF Conn, Conns
<1>3. t \in TaskRecs
  <2>1. 0 \in Nat /\ <<>> \in Seq({"data", "eof"})
    OBVIOUS
  <2> QED
    BY <1>1, <2>1, Zenon DEF Task, TaskRecs
<1>4. c.task = i /\ c.gen = peer.next /\ c.port = port /\ c.pend = head /\ c.alien = {} /\ ~c.flush
  BY DEF Conn
<1>5. /\ t.pc = pc /\ t.h = h /\ t.gen = peer.next /\ t.met = peer.met
      /\ t.chan = <<>> /\ t.open /\ t.note = "idle" /\ ~t.eof
  BY Zenon DEF Task
<1>6. cs = [conns EXCEPT ![h] = c] /\ ts = [tasks EXCEPT ![i] = t] /\ i \in Tasks /\ h \in Handles
  BY DEF Opening
<1> HIDE DEF c, t
<1>7. /\ cs \in [Handles -> Conns \cup {None}] /\ ts \in [Tasks -> TaskRecs]
      /\ cs[h] = c /\ ts[i] = t
      /\ \A g \in Handles \ {h} : cs[g] = conns[g]
      /\ \A j \in Tasks \ {i} : ts[j] = tasks[j]
  BY <1>2, <1>3, <1>6, ShapesNow
<1> QED
  BY <1>2, <1>4, <1>5, <1>7, NoneIsNothing

LEMMA OpenedMiddle ==
  ASSUME RelayInv, NEW i, NEW h, NEW port, NEW head, NEW pc, NEW cs, NEW ts,
         Opening(i, h, port, head, pc, cs, ts)
  PROVE  Middle(cs, ts, Len(head))
<1>1. Shapes /\ BytesInv
  BY DEF RelayInv
<1>2. /\ cs \in [Handles -> Conns \cup {None}] /\ ts \in [Tasks -> TaskRecs]
      /\ cs[h] # None /\ cs[h].pend = head /\ \A g \in Handles \ {h} : cs[g] = conns[g]
  BY <1>1, OpenedRecs
<1>3. h \in Handles /\ conns[h] = None /\ (head = <<>> \/ head = <<i>>) /\ bytes \in Nat
  BY <1>1, ShapesNow DEF Opening
<1>4. CASE head = <<>>
  <2>1. \A s : s \in Pending(cs) <=> s \in Pending(conns)
    <3>1. 1..Len(cs[h].pend) = {}
      BY <1>2, <1>4
    <3> QED
      BY <1>2, <1>3, <3>1, PendingIs
  <2>2. Pending(cs) = Pending(conns) /\ Len(head) = 0
    BY <2>1, <1>4
  <2>3. bytes + Len(head) = Total(cs)
    BY <2>2, <1>1, <1>3 DEF Total, BytesInv
  <2> QED
    BY <1>1, <1>2, <2>2, <2>3 DEF Middle, BytesInv
<1>5. CASE head = <<i>>
  <2>1. Len(head) = 1 /\ 1..Len(cs[h].pend) = {1}
    BY <1>2, <1>5
  <2>2. <<h, 1>> \notin Pending(conns)
    <3> SUFFICES ASSUME <<h, 1>> \in Pending(conns) PROVE FALSE
      OBVIOUS
    <3>1. PICK g \in Handles : conns[g] # None /\ \E n \in 1..Len(conns[g].pend) : <<h, 1>> = <<g, n>>
      BY PendingIs
    <3> QED
      BY <3>1, <1>3
  <2>3. ASSUME NEW s PROVE s \in Pending(cs) <=> s \in Pending(conns) \/ s = <<h, 1>>
    <3>1. ASSUME s \in Pending(cs) PROVE s \in Pending(conns) \/ s = <<h, 1>>
      <4>1. PICK g \in Handles : cs[g] # None /\ \E n \in 1..Len(cs[g].pend) : s = <<g, n>>
        BY <3>1, PendingIs
      <4>2. CASE g = h
        BY <4>1, <4>2, <2>1
      <4>3. CASE g # h
        BY <4>1, <4>3, <1>2, PendingIs
      <4> QED
        BY <4>2, <4>3
    <3>2. ASSUME s = <<h, 1>> PROVE s \in Pending(cs)
      BY <3>2, <1>2, <1>3, <2>1, PendingIs
    <3>3. ASSUME s \in Pending(conns) PROVE s \in Pending(cs)
      <4>1. PICK g \in Handles : conns[g] # None /\ \E n \in 1..Len(conns[g].pend) : s = <<g, n>>
        BY <3>3, PendingIs
      <4>2. g # h
        BY <4>1, <1>3
      <4> QED
        BY <4>1, <4>2, <1>2, PendingIs
    <3> QED
      BY <3>1, <3>2, <3>3
  <2>4. Pending(cs) = Pending(conns) \cup {<<h, 1>>}
    BY <2>3
  <2>5. IsFiniteSet(Pending(cs)) /\ Cardinality(Pending(cs)) = Cardinality(Pending(conns)) + 1
    BY <1>1, <2>2, <2>4, FS_AddElement DEF BytesInv
  <2>6. bytes + Len(head) = Total(cs)
    BY <1>1, <2>1, <2>5 DEF Total, BytesInv
  <2>7. Rest(Pending(cs)) = Rest(Pending(conns))
    BY <2>4 DEF Rest
  <2> QED
    BY <1>1, <1>2, <2>5, <2>6, <2>7 DEF Middle, BytesInv
<1> QED
  BY <1>3, <1>4, <1>5

LEMMA OpenedSafe ==
  ASSUME RelayInv, NEW i, NEW h, NEW port, NEW head, NEW pc, NEW cs, NEW ts,
         Opening(i, h, port, head, pc, cs, ts), NEW p, p = [peer EXCEPT !.next = @ + 1]
  PROVE  Safe(cs, ts, queue, p)
<1>1. Shapes /\ Safe(conns, tasks, queue, peer)
  BY DEF RelayInv
<1>2. /\ cs \in [Handles -> Conns \cup {None}] /\ ts \in [Tasks -> TaskRecs]
      /\ cs[h] # None /\ cs[h].task = i /\ cs[h].gen = peer.next /\ cs[h].port = port
      /\ cs[h].alien = {} /\ ~cs[h].flush
      /\ \A g \in Handles \ {h} : cs[g] = conns[g]
  BY <1>1, OpenedRecs
<1>3. /\ ts[i].pc = pc /\ ts[i].h = h /\ ts[i].gen = peer.next /\ ts[i].met = peer.met
      /\ ts[i].chan = <<>> /\ ts[i].open /\ ts[i].note = "idle" /\ ~ts[i].eof
      /\ \A j \in Tasks \ {i} : ts[j] = tasks[j]
  BY <1>1, OpenedRecs
<1>4. /\ i \in Tasks /\ tasks[i].pc = "unborn" /\ h \in Handles /\ conns[h] = None
      /\ pc \in {"header", "relay"} /\ (load.side = "client" => port \in 1..Ports \ PortsUsed)
  BY DEF Opening
<1>5. p.met = peer.met /\ p.next = peer.next + 1 /\ peer.next \in Nat /\ peer.met \in Nat
  BY <1>1, ShapesNow DEF PeerRecs
<1>6. LiveIn(cs) = LiveIn(conns) \cup {h} /\ h \notin LiveIn(conns) /\ DOMAIN ts = Tasks /\ DOMAIN tasks = Tasks
  BY <1>1, <1>2, <1>4, ShapesNow DEF LiveIn
<1>7. \A g \in LiveIn(conns) : g \in Handles \ {h} /\ cs[g] = conns[g]
  BY <1>2, <1>6 DEF LiveIn, Handles
<1>8. ~Born(tasks[i]) /\ Born(ts[i]) /\ ~Over(ts[i]) /\ \A j \in Tasks : Born(tasks[j]) => ts[j] = tasks[j]
  BY <1>3, <1>4 DEF Born, Over
<1>9. \A g \in LiveIn(conns) :
        /\ ConnGood(g, conns[g], tasks, peer) /\ conns[g].task \in Tasks /\ Born(tasks[conns[g].task])
        /\ conns[g].gen \in Nat /\ conns[g].gen < peer.next /\ conns[g].task # i
  <2> SUFFICES ASSUME NEW g \in LiveIn(conns)
               PROVE  /\ ConnGood(g, conns[g], tasks, peer) /\ conns[g].task \in Tasks
                      /\ Born(tasks[conns[g].task])
                      /\ conns[g].gen \in Nat /\ conns[g].gen < peer.next /\ conns[g].task # i
    OBVIOUS
  <2>1. ConnGood(g, conns[g], tasks, peer)
    BY <1>1 DEF Safe, Links
  <2>2. conns[g] \in Conns
    BY <1>1, ShapesNow DEF LiveIn, Handles
  <2> QED
    BY <2>1, <2>2, <1>6, <1>8 DEF ConnGood, Conns
<1>10. \A j \in Tasks : TaskGood(ts[j], p)
  <2> SUFFICES ASSUME NEW j \in Tasks PROVE TaskGood(ts[j], p)
    OBVIOUS
  <2>1. CASE j = i
    <3>1. Len(<<>>) <= Capacity /\ h \in Nat /\ peer.met <= peer.met
      BY <1>1, <1>4, <1>5, RelayBounds, ShapesNow
    <3> QED
      BY <2>1, <3>1, <1>3, <1>4, <1>5, <1>8 DEF TaskGood, ChanOk
  <2>2. CASE j # i
    BY <2>2, <1>3, <1>5, TasksAreGood DEF TaskGood
  <2> QED
    BY <2>1, <2>2
<1>11. \A g \in LiveIn(cs) : ConnGood(g, cs[g], ts, p)
  <2> SUFFICES ASSUME NEW g \in LiveIn(cs) PROVE ConnGood(g, cs[g], ts, p)
    OBVIOUS
  <2>1. CASE g = h
    BY <2>1, <1>2, <1>3, <1>4, <1>5, <1>6, <1>8 DEF ConnGood
  <2>2. CASE g # h
    <3>1. g \in LiveIn(conns) /\ cs[g] = conns[g]
      BY <2>2, <1>6, <1>7
    <3>2. ts[conns[g].task] = tasks[conns[g].task]
      BY <3>1, <1>8, <1>9
    <3>3. conns[g].gen < p.next
      BY <3>1, <1>5, <1>9
    <3> QED
      BY <3>1, <3>2, <3>3, <1>5, <1>6, <1>9 DEF ConnGood
  <2> QED
    BY <2>1, <2>2
<1>12. Apart(cs)
  BY <1>1, <1>2, <1>6, <1>7, <1>9 DEF Safe, Links, Apart
<1>13. ASSUME NEW gen, NEW j, Current(conns, peer, gen, j), gen \in Nat PROVE Current(cs, p, gen, j)
  <2>1. gen < peer.next /\ \A g \in LiveIn(conns) : conns[g].gen = gen => conns[g].task = j
    BY <1>13 DEF Current
  <2>2. gen < p.next /\ gen # peer.next
    BY <1>5, <1>13, <2>1
  <2> QED
    BY <2>1, <2>2, <1>2, <1>6, <1>7 DEF Current
<1>14. TaskGens(cs, ts, p)
  <2> SUFFICES ASSUME NEW j \in Tasks, Born(ts[j]), ~Over(ts[j]), ts[j].met = p.met
               PROVE  Current(cs, p, ts[j].gen, j)
    BY <1>6 DEF TaskGens
  <2>1. CASE j = i
    <3>1. peer.next < p.next
      BY <1>5
    <3>2. \A g \in LiveIn(cs) : cs[g].gen = peer.next => cs[g].task = i
      BY <1>2, <1>5, <1>6, <1>7, <1>9
    <3> QED
      BY <2>1, <3>1, <3>2, <1>3 DEF Current
  <2>2. CASE j # i
    <3>1. ts[j] = tasks[j] /\ tasks[j].gen \in Nat /\ tasks[j].met = peer.met
      BY <2>2, <1>1, <1>3, <1>5, ShapesNow DEF TaskRecs
    <3>2. Current(conns, peer, tasks[j].gen, j)
      BY <3>1, <1>1, <1>6 DEF Safe, Links, TaskGens
    <3> QED
      BY <3>1, <3>2, <1>13
  <2> QED
    BY <2>1, <2>2
<1>15. \A n \in DOMAIN queue :
         /\ queue[n].task \in Tasks /\ Born(tasks[queue[n].task]) /\ queue[n].gen \in Nat
         /\ ts[queue[n].task] = tasks[queue[n].task]
  <2> SUFFICES ASSUME NEW n \in DOMAIN queue
               PROVE  /\ queue[n].task \in Tasks /\ Born(tasks[queue[n].task]) /\ queue[n].gen \in Nat
                      /\ ts[queue[n].task] = tasks[queue[n].task]
    OBVIOUS
  <2>1. queue[n].task \in Tasks /\ Born(tasks[queue[n].task])
    BY <1>1, <1>6 DEF Safe, Links, QueueGens
  <2>2. queue \in Seq(Messages)
    BY <1>1, ShapesNow
  <2>3. queue[n] \in Messages
    BY <2>2
  <2> QED
    BY <2>1, <2>3, <1>8 DEF Messages
<1>16. QueueGens(cs, ts, queue, p)
  <2> SUFFICES ASSUME NEW n \in DOMAIN queue
               PROVE  /\ queue[n].task \in DOMAIN ts /\ Born(ts[queue[n].task])
                      /\ ts[queue[n].task].met = p.met => Current(cs, p, queue[n].gen, queue[n].task)
    BY DEF QueueGens
  <2>1. tasks[queue[n].task].met = peer.met => Current(conns, peer, queue[n].gen, queue[n].task)
    BY <1>1 DEF Safe, Links, QueueGens
  <2> QED
    BY <2>1, <1>5, <1>6, <1>13, <1>15
<1>17. Aliens(cs, ts, p)
  <2> SUFFICES ASSUME NEW g \in LiveIn(cs), NEW j \in cs[g].alien
               PROVE  j \in DOMAIN ts /\ Born(ts[j]) /\ ts[j].met < p.met
    BY DEF Aliens
  <2>1. g \in LiveIn(conns) /\ cs[g] = conns[g]
    BY <1>2, <1>6, <1>7
  <2>2. j \in Tasks /\ Born(tasks[j]) /\ tasks[j].met < peer.met
    BY <2>1, <1>1, <1>6 DEF Safe, Links, Aliens
  <2> QED
    BY <2>2, <1>5, <1>6, <1>8
<1>18. load.side = "client" => OwnPorts(cs)
  <2> SUFFICES ASSUME load.side = "client" PROVE OwnPorts(cs)
    OBVIOUS
  <2>1. OwnPorts(conns) /\ port \in 1..Ports /\ \A g \in LiveIn(conns) : conns[g].port # port
    BY <1>1, <1>4, ShapesNow DEF Safe, PortsUsed
  <2> QED
    BY <2>1, <1>2, <1>6, <1>7 DEF OwnPorts
<1>19. CloseLast(ts, queue)
  BY <1>1, <1>15 DEF Safe, CloseLast
<1>20. FlushLast(cs, ts, queue)
  <2> SUFFICES ASSUME NEW g \in LiveIn(cs), cs[g].flush, cs[g].alien = {}
               PROVE  Silent(ts[cs[g].task]) /\ UnreadIn(queue, cs[g].task) = {}
    BY DEF FlushLast
  <2>1. g \in LiveIn(conns) /\ cs[g] = conns[g]
    BY <1>2, <1>6, <1>7
  <2>2. ts[cs[g].task] = tasks[cs[g].task]
    BY <2>1, <1>8, <1>9
  <2> QED
    BY <2>1, <2>2, <1>1 DEF Safe, FlushLast
<1>21. Links(cs, ts, queue, p)
  BY <1>6, <1>10, <1>11, <1>12, <1>14, <1>16, <1>17 DEF Links
<1> QED
  BY <1>18, <1>19, <1>20, <1>21 DEF Safe

LEMMA OpeningKeeps ==
  ASSUME RelayInv, NEW i, NEW h, NEW port, NEW head, NEW pc, NEW cs, NEW ts,
         Opening(i, h, port, head, pc, cs, ts), Pump(cs, ts, Len(head)),
         peer' = [peer EXCEPT !.next = @ + 1], LoopTurns, UNCHANGED <<load, queue>>, forward' \in ForwardRecs
  PROVE  RelayInv'
<1>1. Shapes
  BY DEF RelayInv
<1>2. Middle(cs, ts, Len(head))
  BY OpenedMiddle
<1>3. Safe(cs, ts, queue, peer')
  BY OpenedSafe
<1>4. queue \in Seq(Messages) /\ Len(queue) <= Queue /\ Len(head) \in Nat
  BY <1>1, ShapesNow DEF Opening
<1>5. peer' \in PeerRecs
  BY <1>1, ShapesNow DEF PeerRecs
<1>6. wake' \in WakeRecs /\ ~wake'.waits
  BY <1>1, WakeTurns
<1> QED
  BY <1>1, <1>2, <1>3, <1>4, <1>5, <1>6, TurnKeeps

LEMMA AcceptKeeps ==
  ASSUME RelayInv, Accept
  PROVE  RelayInv'
<1> DEFINE i == NewTask
           h == FreeHandle
           cs == [conns EXCEPT ![h] = Conn(i, peer.next, None, <<>>)]
           ts == [tasks EXCEPT ![i] = Task("header", h, peer.next)]
<1>1. Shapes /\ load.side # "client"
  BY DEF RelayInv, Accept
<1>2. i \in Tasks /\ tasks[i].pc = "unborn" /\ h \in Handles /\ conns[h] = None
  BY <1>1, NewTaskIs, FreeHandleIs DEF Accept
<1>3. Pump(cs, ts, 0) /\ peer' = [peer EXCEPT !.next = @ + 1]
  BY DEF Accept
<1>4. LoopTurns /\ UNCHANGED <<load, queue, forward>> /\ forward \in ForwardRecs
  BY <1>1, ShapesNow DEF Accept
<1> HIDE DEF i, h
<1>5. Opening(i, h, None, <<>>, "header", cs, ts)
  BY <1>1, <1>2 DEF Opening
<1>6. Len(<<>>) = 0
  OBVIOUS
<1> HIDE DEF cs, ts
<1> QED
  BY <1>3, <1>4, <1>5, <1>6, OpeningKeeps

LEMMA ConnectKeeps ==
  ASSUME RelayInv, Connect
  PROVE  RelayInv'
<1>1. Shapes /\ forward \in ForwardRecs /\ forward.backlog > 0 /\ NewTask # None
  BY ShapesNow DEF RelayInv, Connect
<1>2. forward.backlog - 1 \in Nat
  BY <1>1 DEF ForwardRecs
<1>3. LoopTurns /\ UNCHANGED <<load, queue>>
  BY DEF Connect
<1>4. CASE allocate_local_port = None
  <2>1. UNCHANGED <<conns, tasks, bytes, peer>> /\ forward' = [forward EXCEPT !.backlog = @ - 1]
    BY <1>4 DEF Connect
  <2>2. forward' \in ForwardRecs
    BY <1>1, <1>2, <2>1 DEF ForwardRecs
  <2>3. wake' \in WakeRecs /\ ~wake'.waits
    BY <1>1, <1>3, WakeTurns
  <2>4. Handles' = Handles /\ Tasks' = Tasks
    BY <2>1 DEF Handles, Tasks
  <2>5. Shapes'
    BY <1>3, <2>1, <2>2, <2>3 DEF RelayInv, Shapes, ForwardRecs, WakeRecs
  <2>6. wake'.keys = wake.keys
    BY <1>1, <1>3, ShapesNow DEF LoopTurns, WakeRecs
  <2>7. Safe(conns, tasks, queue, peer)' /\ WorkInv' /\ NoticeInv'
    BY <1>3, <2>1, <2>3, <2>6 DEF RelayInv, Safe, WorkInv, NoticeInv
  <2>8. BytesInv'
    BY <2>1, <2>4 DEF RelayInv, BytesInv, Total, Pending
  <2> QED
    BY <2>5, <2>7, <2>8 DEF RelayInv
<1>5. CASE allocate_local_port # None
  <2> DEFINE i == NewTask
             h == FreeHandle
             port == allocate_local_port
             cs == [conns EXCEPT ![h] = Conn(i, peer.next, port, <<i>>)]
             ts == [tasks EXCEPT ![i] = Task("relay", h, peer.next)]
  <2>1. /\ FreeHandle # None /\ Pump(cs, ts, 1) /\ peer' = [peer EXCEPT !.next = @ + 1]
        /\ forward' = [forward EXCEPT !.backlog = @ - 1, !.next = (port % Ports) + 1]
    BY <1>5 DEF Connect
  <2>2. i \in Tasks /\ tasks[i].pc = "unborn" /\ h \in Handles /\ conns[h] = None
    BY <1>1, <2>1, NewTaskIs, FreeHandleIs
  <2>3. port \in 1..Ports /\ port \notin PortsUsed
    BY <1>1, <1>5, PortIs
  <2> HIDE DEF i, h, port
  <2>4. Ports \in Nat /\ port \in Nat /\ port \in Int
    BY <2>3, RelayBounds
  <2>5. Opening(i, h, port, <<i>>, "relay", cs, ts)
    BY <2>2, <2>3, <2>4 DEF Opening
  <2>6. forward' \in ForwardRecs
    <3> DEFINE b == forward.backlog - 1
               q == (port % Ports) + 1
    <3>1. b \in Nat /\ q \in 1..Ports /\ forward' = [forward EXCEPT !.backlog = b, !.next = q]
      BY <1>2, <2>1, <2>4, PortInRange
    <3> HIDE DEF b, q
    <3> QED
      BY <1>1, <3>1 DEF ForwardRecs
  <2>7. Len(<<i>>) = 1
    OBVIOUS
  <2> HIDE DEF cs, ts
  <2> QED
    BY <1>3, <2>1, <2>5, <2>6, <2>7, OpeningKeeps
<1> QED
  BY <1>4, <1>5

-----------------------------------------------------------------------------
(* A message is applied *)

LEMMA AppliedIs ==
  ASSUME NEW c \in Conns, NEW m \in Messages, NEW d, d = Applied(c, m)
  PROVE  /\ d \in Conns /\ d.task = c.task /\ d.gen = c.gen /\ d.port = c.port
         /\ d.alien = c.alien \cup ({m.task} \ {c.task})
         /\ m.kind = "data" => d.pend = Append(c.pend, m.task) /\ d.flush = c.flush /\ d.shut = c.shut
         /\ m.kind # "data" => d.pend = c.pend /\ (d.shut => c.shut \/ c.pend = <<>>)
<1> DEFINE a == c.alien \cup ({m.task} \ {c.task})
<1>1. a \in SUBSET Nat /\ m.task \in Nat
  BY DEF Conns, Messages
<1>2. CASE m.kind = "data"
  <2> DEFINE s == Append(c.pend, m.task)
  <2>1. s \in Seq(Nat)
    BY <1>1 DEF Conns
  <2>2. d = [[c EXCEPT !.pend = s] EXCEPT !.alien = a]
    BY <1>2 DEF Applied, Conns
  <2> HIDE DEF s, a
  <2>3. d = [c EXCEPT !.pend = s, !.alien = a]
    BY <2>2 DEF Conns
  <2>4. /\ d \in Conns /\ d.task = c.task /\ d.gen = c.gen /\ d.port = c.port
        /\ d.alien = a /\ d.pend = s /\ d.flush = c.flush /\ d.shut = c.shut
    BY <1>1, <2>1, <2>3 DEF Conns
  <2> QED
    BY <1>2, <2>4 DEF s, a
<1>3. CASE m.kind # "data"
  <2> DEFINE e == OnClose(c)
  <2>1. /\ e \in Conns /\ e.task = c.task /\ e.gen = c.gen /\ e.port = c.port
        /\ e.alien = c.alien /\ e.pend = c.pend /\ (e.shut => c.shut \/ c.pend = <<>>)
    <3>1. CASE c.pend # <<>>
      <4>1. e = [c EXCEPT !.flush = TRUE]
        BY <3>1 DEF OnClose
      <4> HIDE DEF e
      <4>2. e \in Conns
        BY <4>1, Zenon DEF Conns
      <4> QED
        BY <4>1, <4>2 DEF Conns
    <3>2. CASE c.pend = <<>>
      <4>1. e = [c EXCEPT !.shut = TRUE]
        BY <3>2 DEF OnClose
      <4> HIDE DEF e
      <4>2. e \in Conns
        BY <4>1, Zenon DEF Conns
      <4> QED
        BY <3>2, <4>1, <4>2 DEF Conns
    <3> QED
      BY <3>1, <3>2
  <2>2. d = [e EXCEPT !.alien = @ \cup ({m.task} \ {c.task})]
    BY <1>3 DEF Applied
  <2>3. d = [e EXCEPT !.alien = a]
    BY <2>1, <2>2
  <2> HIDE DEF e, a
  <2>4. /\ d \in Conns /\ d.task = e.task /\ d.gen = e.gen /\ d.port = e.port
        /\ d.alien = a /\ d.pend = e.pend /\ d.shut = e.shut
    BY <1>1, <2>1, <2>3 DEF Conns
  <2> QED
    BY <1>3, <2>1, <2>4 DEF a
<1> QED
  BY <1>2, <1>3

(* A message for a connection, and what it makes of the connections. *)
Applying(m, cs) ==
  /\ queue # <<>> /\ m = Head(queue) /\ Addressed(m)
  /\ cs = [conns EXCEPT ![m.h] = Applied(conns[m.h], m)]

LEMMA HeadIs ==
  ASSUME Shapes, queue # <<>>
  PROVE  Head(queue) \in Messages /\ Head(queue) = queue[1] /\ 1 \in DOMAIN queue /\ Tail(queue) \in Seq(Messages)
         /\ Len(Tail(queue)) <= Queue
<1>1. queue \in Seq(Messages) /\ Len(queue) <= Queue
  BY ShapesNow
<1>2. Queue \in Nat
  BY RelayBounds
<1> QED
  BY <1>1, <1>2

LEMMA AppliedConns ==
  ASSUME Shapes, NEW m, NEW cs, Applying(m, cs)
  PROVE  /\ m.h \in Handles /\ m \in Messages /\ conns[m.h] \in Conns /\ conns[m.h] # None
         /\ conns[m.h].gen = m.gen
         /\ cs \in [Handles -> Conns \cup {None}] /\ cs[m.h] = Applied(conns[m.h], m) /\ cs[m.h] # None
         /\ \A g \in Handles \ {m.h} : cs[g] = conns[g]
<1>1. m \in Messages
  BY HeadIs DEF Applying
<1>2. m.h \in Live /\ conns[m.h].gen = m.gen
  BY DEF Applying, Addressed, Owner
<1>3. m.h \in Handles /\ conns[m.h] \in Conns /\ conns[m.h] # None
  BY <1>2, ShapesNow DEF Live
<1> DEFINE d == Applied(conns[m.h], m)
<1>4. d \in Conns
  BY <1>1, <1>3, AppliedIs
<1>5. cs = [conns EXCEPT ![m.h] = d]
  BY DEF Applying
<1> HIDE DEF d
<1>6. cs \in [Handles -> Conns \cup {None}] /\ cs[m.h] = d /\ \A g \in Handles \ {m.h} : cs[g] = conns[g]
  BY <1>3, <1>4, <1>5, ShapesNow
<1>7. d # None
  BY <1>4, NoneIsNothing
<1> QED
  BY <1>1, <1>2, <1>3, <1>6, <1>7 DEF d

LEMMA AppliedMiddle ==
  ASSUME RelayInv, NEW m, NEW cs, Applying(m, cs), bytes < MaxBytes
  PROVE  Middle(cs, tasks, IF m.kind = "data" THEN 1 ELSE 0)
<1>1. Shapes /\ BytesInv /\ tasks \in [Tasks -> TaskRecs] /\ bytes \in Nat
  BY ShapesNow DEF RelayInv
<1> DEFINE h == m.h
           c == conns[h]
           d == cs[h]
<1>2. /\ h \in Handles /\ m \in Messages /\ c \in Conns /\ c # None
      /\ cs \in [Handles -> Conns \cup {None}] /\ d = Applied(c, m) /\ d # None
      /\ \A g \in Handles \ {h} : cs[g] = conns[g]
  BY <1>1, AppliedConns
<1> HIDE DEF h, c, d
<1>3. /\ m.kind = "data" => d.pend = Append(c.pend, m.task)
      /\ m.kind # "data" => d.pend = c.pend
  BY <1>2, AppliedIs
<1>4. CASE m.kind # "data"
  <2>1. \A g \in Handles : (cs[g] = None <=> conns[g] = None) /\ (conns[g] # None => cs[g].pend = conns[g].pend)
    BY <1>2, <1>3, <1>4 DEF c, d
  <2> QED
    BY <1>1, <1>2, <1>4, <2>1, MiddleAlike
<1>5. CASE m.kind = "data"
  <2> DEFINE l == Len(c.pend) + 1
  <2>1. Len(d.pend) = l /\ l \in Nat /\ l >= 1 /\ Len(c.pend) = l - 1
    BY <1>2, <1>3, <1>5 DEF Conns, Messages
  <2> HIDE DEF l
  <2>2. 1..Len(d.pend) = (1..Len(c.pend)) \cup {l} /\ l \notin 1..Len(c.pend)
    BY <2>1
  <2>3. <<h, l>> \notin Pending(conns)
    <3> SUFFICES ASSUME <<h, l>> \in Pending(conns) PROVE FALSE
      OBVIOUS
    <3>1. PICK g \in Handles : conns[g] # None /\ \E n \in 1..Len(conns[g].pend) : <<h, l>> = <<g, n>>
      BY PendingIs
    <3> QED
      BY <3>1, <2>2 DEF c
  <2>4. ASSUME NEW s PROVE s \in Pending(cs) <=> s \in Pending(conns) \/ s = <<h, l>>
    <3>1. ASSUME s \in Pending(cs) PROVE s \in Pending(conns) \/ s = <<h, l>>
      <4>1. PICK g \in Handles : cs[g] # None /\ \E n \in 1..Len(cs[g].pend) : s = <<g, n>>
        BY <3>1, PendingIs
      <4>2. CASE g = h
        <5>1. PICK n \in 1..Len(d.pend) : s = <<h, n>>
          BY <4>1, <4>2 DEF d
        <5>2. CASE n = l
          BY <5>1, <5>2
        <5>3. CASE n \in 1..Len(c.pend)
          BY <5>1, <5>3, <1>2, PendingIs DEF c
        <5> QED
          BY <5>1, <5>2, <5>3, <2>2
      <4>3. CASE g # h
        BY <4>1, <4>3, <1>2, PendingIs
      <4> QED
        BY <4>2, <4>3
    <3>2. ASSUME s = <<h, l>> PROVE s \in Pending(cs)
      BY <3>2, <1>2, <2>2, PendingIs DEF d
    <3>3. ASSUME s \in Pending(conns) PROVE s \in Pending(cs)
      <4>1. PICK g \in Handles : conns[g] # None /\ \E n \in 1..Len(conns[g].pend) : s = <<g, n>>
        BY <3>3, PendingIs
      <4>2. CASE g = h
        BY <4>1, <4>2, <1>2, <2>2, PendingIs DEF c, d
      <4>3. CASE g # h
        BY <4>1, <4>3, <1>2, PendingIs
      <4> QED
        BY <4>2, <4>3
    <3> QED
      BY <3>1, <3>2, <3>3
  <2>5. Pending(cs) = Pending(conns) \cup {<<h, l>>}
    BY <2>4
  <2>6. IsFiniteSet(Pending(cs)) /\ Cardinality(Pending(cs)) = Cardinality(Pending(conns)) + 1
    BY <1>1, <2>3, <2>5, FS_AddElement DEF BytesInv
  <2>7. bytes + 1 = Total(cs)
    BY <1>1, <2>6 DEF Total, BytesInv
  <2>8. Rest(Pending(cs)) \subseteq Pending(cs)
    BY DEF Rest
  <2>9. Cardinality(Rest(Pending(cs))) <= Cardinality(Pending(cs)) /\ IsFiniteSet(Rest(Pending(cs)))
    BY <2>6, <2>8, FS_Subset
  <2>10. Cardinality(Rest(Pending(cs))) \in Nat /\ Cardinality(Pending(cs)) = bytes + 1 /\ MaxBytes \in Nat
    BY <2>7, <2>9, FS_CardinalityType, RelayBounds DEF Total
  <2>11. Cardinality(Rest(Pending(cs))) <= MaxBytes
    BY <1>1, <2>9, <2>10
  <2> QED
    BY <1>1, <1>2, <1>5, <2>6, <2>7, <2>11 DEF Middle
<1> QED
  BY <1>4, <1>5

LEMMA LastOfTask ==
  ASSUME RelayInv, NEW m, NEW cs, Applying(m, cs), m.kind = "close"
  PROVE  Silent(tasks[m.task]) /\ UnreadIn(Tail(queue), m.task) = {}
<1> DEFINE q == Tail(queue)
<1>1. m = queue[1] /\ 1 \in DOMAIN queue /\ queue \in Seq(Messages) /\ queue # <<>>
  BY HeadIs, ShapesNow DEF Applying, RelayInv
<1>2. Silent(tasks[m.task]) /\ \A n \in UnreadIn(queue, m.task) : n < 1
  BY <1>1 DEF RelayInv, Safe, CloseLast
<1>3. \A n \in DOMAIN q : n \in Nat /\ n + 1 \in DOMAIN queue /\ q[n] = queue[n + 1]
  BY <1>1
<1> HIDE DEF q
<1>4. \A n \in UnreadIn(q, m.task) : n + 1 \in UnreadIn(queue, m.task) /\ n \in Nat
  BY <1>3 DEF UnreadIn
<1>5. \A n \in UnreadIn(q, m.task) : n + 1 < 1 /\ n \in Nat
  BY <1>2, <1>4
<1>6. UnreadIn(q, m.task) = {}
  BY <1>5
<1> QED
  BY <1>2, <1>6 DEF q

(* A generation that a message carries is the one of its task, as long as   *)
(* the peer is known; what a Close leaves to be flushed is the last.        *)
LEMMA AppliedSafe ==
  ASSUME RelayInv, NEW m, NEW cs, Applying(m, cs)
  PROVE  Safe(cs, tasks, Tail(queue), peer)
<1>1. Shapes /\ Safe(conns, tasks, queue, peer)
  BY DEF RelayInv
<1> DEFINE h == m.h
           c == conns[h]
           d == cs[h]
           q == Tail(queue)
<1>2. /\ h \in Handles /\ m \in Messages /\ c \in Conns /\ c # None /\ c.gen = m.gen
      /\ cs \in [Handles -> Conns \cup {None}] /\ d = Applied(c, m) /\ d # None
      /\ \A g \in Handles \ {h} : cs[g] = conns[g]
  BY <1>1, AppliedConns
<1>3. m = queue[1] /\ 1 \in DOMAIN queue /\ queue \in Seq(Messages) /\ queue # <<>>
  BY <1>1, HeadIs, ShapesNow DEF Applying
<1>4. Safe(conns, tasks, q, peer)
  BY <1>1, <1>3, SafeWithoutHead
<1> HIDE DEF h, c, d
<1>5. /\ d.task = c.task /\ d.gen = c.gen /\ d.port = c.port
      /\ d.alien = c.alien \cup ({m.task} \ {c.task})
      /\ m.kind = "data" => d.flush = c.flush
  BY <1>2, AppliedIs
<1>6. LiveIn(cs) = LiveIn(conns) /\ h \in LiveIn(conns)
  BY <1>1, <1>2, ShapesNow DEF LiveIn, c, d
<1>7. \A g \in LiveIn(conns) :
        cs[g].task = conns[g].task /\ cs[g].gen = conns[g].gen /\ cs[g].port = conns[g].port
  BY <1>1, <1>2, <1>5, ShapesNow DEF LiveIn, c, d, Handles
<1>8. \A g \in LiveIn(cs) : ConnGood(g, cs[g], tasks, peer)
  BY <1>1, <1>6, <1>7 DEF Safe, Links, ConnGood
<1>9. Apart(cs) /\ (load.side = "client" => OwnPorts(cs))
  BY <1>1, <1>6, <1>7 DEF Safe, Links, Apart, OwnPorts
<1>10. \A gen, j : Current(conns, peer, gen, j) => Current(cs, peer, gen, j)
  BY <1>6, <1>7 DEF Current
<1>11. TaskGens(cs, tasks, peer)
  BY <1>1, <1>10 DEF Safe, Links, TaskGens
<1>12. QueueGens(cs, tasks, q, peer)
  <2> HIDE DEF q
  <2> QED
    BY <1>4, <1>10 DEF Safe, Links, QueueGens
<1>13. m.task # c.task => m.task \in DOMAIN tasks /\ Born(tasks[m.task]) /\ tasks[m.task].met < peer.met
  <2> SUFFICES ASSUME m.task # c.task
               PROVE  m.task \in DOMAIN tasks /\ Born(tasks[m.task]) /\ tasks[m.task].met < peer.met
    OBVIOUS
  <2>1. /\ m.task \in DOMAIN tasks /\ Born(tasks[m.task])
        /\ tasks[m.task].met = peer.met => Current(conns, peer, m.gen, m.task)
    BY <1>1, <1>3 DEF Safe, Links, QueueGens
  <2>2. tasks[m.task].met # peer.met
    BY <2>1, <1>2, <1>6 DEF Current, c
  <2>3. tasks[m.task].met <= peer.met
    BY <2>1, TasksAreGood DEF TaskGood, Tasks
  <2>4. tasks[m.task].met \in Nat /\ peer.met \in Nat
    BY <2>1, <1>1, ShapesNow DEF TaskRecs, PeerRecs, Tasks
  <2> QED
    BY <2>1, <2>2, <2>3, <2>4
<1>14. Aliens(cs, tasks, peer)
  <2> SUFFICES ASSUME NEW g \in LiveIn(cs), NEW j \in cs[g].alien
               PROVE  j \in DOMAIN tasks /\ Born(tasks[j]) /\ tasks[j].met < peer.met
    BY DEF Aliens
  <2>1. CASE j \in conns[g].alien
    BY <2>1, <1>1, <1>6 DEF Safe, Links, Aliens
  <2>2. CASE j \notin conns[g].alien
    <3>1. g = h
      BY <2>2, <1>2, <1>6 DEF LiveIn
    <3>2. j = m.task /\ m.task # c.task
      BY <2>2, <3>1, <1>5 DEF c, d
    <3> QED
      BY <3>2, <1>13
  <2> QED
    BY <2>1, <2>2
<1>15. FlushLast(cs, tasks, q)
  <2> SUFFICES ASSUME NEW g \in LiveIn(cs), cs[g].flush, cs[g].alien = {}
               PROVE  Silent(tasks[cs[g].task]) /\ UnreadIn(q, cs[g].task) = {}
    BY DEF FlushLast
  <2>0. FlushLast(conns, tasks, q)
    BY <1>4 DEF Safe
  <2>1. CASE g # h
    <3>1. cs[g] = conns[g] /\ g \in LiveIn(conns)
      BY <2>1, <1>2, <1>6 DEF LiveIn
    <3> QED
      BY <2>0, <3>1 DEF FlushLast
  <2>2. CASE g = h /\ m.kind = "data"
    <3>1. conns[g].flush /\ conns[g].alien = {} /\ cs[g].task = conns[g].task
      BY <2>2, <1>5 DEF c, d
    <3> QED
      BY <2>0, <3>1, <1>6 DEF FlushLast
  <2>3. CASE g = h /\ m.kind = "close"
    <3>1. m.task = c.task /\ cs[g].task = m.task
      BY <2>3, <1>5 DEF d
    <3>2. Silent(tasks[m.task]) /\ UnreadIn(q, m.task) = {}
      BY <2>3, LastOfTask
    <3> QED
      BY <3>1, <3>2
  <2>4. m.kind \in {"data", "close"}
    BY <1>2 DEF Messages
  <2> QED
    BY <2>1, <2>2, <2>3, <2>4
<1>16. CloseLast(tasks, q) /\ \A i \in DOMAIN tasks : TaskGood(tasks[i], peer)
  BY <1>4 DEF Safe, Links
<1> HIDE DEF q
<1>17. Safe(cs, tasks, q, peer)
  BY <1>8, <1>9, <1>11, <1>12, <1>14, <1>15, <1>16 DEF Safe, Links
<1> QED
  BY <1>17 DEF q

LEMMA MessageKeeps ==
  ASSUME RelayInv, Message
  PROVE  RelayInv'
<1>1. Shapes /\ Safe(conns, tasks, queue, peer)
  BY DEF RelayInv
<1>2. /\ queue # <<>> /\ bytes < MaxBytes /\ queue' = Tail(queue)
      /\ LoopTurns /\ UNCHANGED <<load, peer, forward>>
  BY DEF Message, Awake
<1>3. Tail(queue) \in Seq(Messages) /\ Len(Tail(queue)) <= Queue
  BY <1>1, <1>2, HeadIs
<1>4. wake' \in WakeRecs /\ ~wake'.waits /\ peer \in PeerRecs /\ forward \in ForwardRecs
  BY <1>1, <1>2, WakeTurns, ShapesNow
<1> DEFINE m == Head(queue)
<1>5. CASE Addressed(m)
  <2> DEFINE cs == [conns EXCEPT ![m.h] = Applied(conns[m.h], m)]
             n == IF m.kind = "data" THEN 1 ELSE 0
  <2>1. Pump(cs, tasks, n)
    BY <1>5 DEF Message
  <2>2. Applying(m, cs)
    BY <1>2, <1>5 DEF Applying
  <2> HIDE DEF m, cs
  <2>3. Middle(cs, tasks, n) /\ Safe(cs, tasks, Tail(queue), peer)
    BY <1>2, <2>2, AppliedMiddle, AppliedSafe
  <2>4. n \in Nat
    OBVIOUS
  <2> HIDE DEF n
  <2> QED
    BY <1>1, <1>2, <1>3, <1>4, <2>1, <2>3, <2>4, TurnKeeps
<1>6. CASE ~Addressed(m)
  <2>1. UNCHANGED <<conns, tasks, bytes>>
    BY <1>6 DEF Message
  <2>2. Handles' = Handles /\ Tasks' = Tasks
    BY <2>1 DEF Handles, Tasks
  <2>3. Shapes'
    BY <1>2, <1>3, <1>4, <2>1 DEF RelayInv, Shapes, WakeRecs
  <2>4. wake'.keys = wake.keys
    BY <1>1, <1>2, ShapesNow DEF LoopTurns, WakeRecs
  <2>5. Safe(conns, tasks, Tail(queue), peer)
    BY <1>1, <1>2, SafeWithoutHead, ShapesNow
  <2>6. Safe(conns, tasks, queue, peer)'
    BY <2>1, <2>5, <1>2 DEF Safe
  <2>7. WorkInv' /\ NoticeInv'
    BY <1>4, <2>1, <2>4 DEF RelayInv, WorkInv, NoticeInv
  <2>8. BytesInv'
    BY <2>1, <2>2 DEF RelayInv, BytesInv, Total, Pending
  <2> QED
    BY <2>3, <2>6, <2>7, <2>8 DEF RelayInv
<1> QED
  BY <1>5, <1>6

-----------------------------------------------------------------------------
(* A step of a task *)

LEMMA SettledIs ==
  ASSUME NEW t \in TaskRecs, NEW p, TaskGood(t, p), NEW u, u = Settled(t)
  PROVE  /\ u \in TaskRecs /\ TaskGood(u, p) /\ GoesOn(t, u)
         /\ u.note = t.note /\ u.open = t.open /\ u.chan = t.chan
<1>1. CASE ~Over(t)
  <2>1. u = t
    BY <1>1 DEF Settled, Over
  <2> QED
    BY <2>1 DEF GoesOn
<1>2. CASE Over(t)
  <2>1. u = [Unborn EXCEPT !.pc = "gone", !.met = t.met]
    BY <1>2 DEF Settled, Over
  <2>2. /\ t.pc = "gone" /\ t.note = "idle" /\ t.open = FALSE /\ t.chan = <<>> /\ t.met \in Nat
        /\ t.met <= p.met /\ Len(t.chan) <= Capacity
    <3>1. t.pc = "gone" /\ t.note = "idle" /\ Born(t) /\ t.open \in BOOLEAN /\ t.met \in Nat
      BY <1>2 DEF Over, Born, TaskRecs
    <3>2. ~t.open
      BY <3>1 DEF TaskGood
    <3>3. t.open = FALSE
      BY <3>1, <3>2, Zenon
    <3> QED
      BY <3>1, <3>2, <3>3 DEF TaskGood, ChanOk
  <2>3. /\ u.pc = "gone" /\ u.note = "idle" /\ u.open = FALSE /\ u.chan = <<>> /\ u.met = t.met
    BY <2>1 DEF Unborn
  <2>4. u \in TaskRecs
    BY <2>1, <2>2, UnbornIs DEF TaskRecs, Phases
  <2>5. Over(u) /\ Born(u) /\ Silent(u) /\ Born(t)
    BY <2>2, <2>3 DEF Over, Born, Silent
  <2>6. TaskGood(u, p)
    BY <2>2, <2>3, <2>5 DEF TaskGood, ChanOk
  <2> QED
    BY <2>2, <2>3, <2>4, <2>5, <2>6 DEF GoesOn
<1> QED
  BY <1>1, <1>2

LEMMA GoesFurther ==
  ASSUME NEW t, NEW u, NEW v, GoesOn(t, u), GoesOn(u, v)
  PROVE  GoesOn(t, v)
  BY DEF GoesOn

LEMMA WorkSame ==
  ASSUME NEW c, NEW t, NEW u, u.open = t.open, u.chan = t.chan
  PROVE  Work(c, u) <=> Work(c, t)
  BY DEF Work, Moves, Reaped, TellsEof, FromDrained, Room

(* What a step of a task must do about the wake: announce what it changes   *)
(* in its channel, keep what it had announced, and notify.                  *)
Announces(i, t) ==
  /\ wake' \in WakeRecs /\ wake.keys \subseteq wake'.keys
  /\ \/ t.note = "insert"
     \/ /\ t.open = tasks[i].open /\ t.chan = tasks[i].chan
        /\ tasks[i].note = "insert" => Key(i) \in wake'.keys
  /\ wake'.permit \/ t.note = "notify" \/ (wake' = wake /\ tasks[i].note # "notify")

LEMMA TaskStepKeeps ==
  ASSUME RelayInv, NEW i \in Tasks, NEW t \in TaskRecs, Becomes(i, t), LoopKept, Announces(i, t),
         GoesOn(tasks[i], t), TaskGood(t, peer), Safe(conns, tasks, queue', peer),
         queue' \in Seq(Messages), Len(queue') <= Queue
  PROVE  RelayInv'
<1>1. Shapes /\ tasks \in [Tasks -> TaskRecs]
  BY ShapesNow DEF RelayInv
<1>2. UNCHANGED <<load, conns, bytes, peer, forward>>
  BY DEF LoopKept
<1> DEFINE u == Settled(t)
<1>3. tasks' = [tasks EXCEPT ![i] = u]
  BY DEF Becomes
<1>4. /\ u \in TaskRecs /\ TaskGood(u, peer) /\ GoesOn(t, u)
      /\ u.note = t.note /\ u.open = t.open /\ u.chan = t.chan
  BY SettledIs
<1> HIDE DEF u
<1>5. /\ tasks' \in [Tasks -> TaskRecs] /\ tasks'[i] = u /\ \A j \in Tasks \ {i} : tasks'[j] = tasks[j]
      /\ Handles' = Handles /\ Tasks' = Tasks
  BY <1>1, <1>2, <1>3, <1>4 DEF Handles, Tasks
<1>6. Follow(tasks, tasks')
  <2>1. \A j \in Tasks : GoesOn(tasks[j], tasks'[j])
    <3> SUFFICES ASSUME NEW j \in Tasks PROVE GoesOn(tasks[j], tasks'[j])
      OBVIOUS
    <3>1. CASE j = i
      BY <3>1, <1>4, <1>5, GoesFurther
    <3>2. CASE j # i
      BY <3>2, <1>5 DEF GoesOn
    <3> QED
      BY <3>1, <3>2
  <2> QED
    BY <2>1, <1>5 DEF Follow, Tasks
<1>7. \A j \in DOMAIN tasks' : TaskGood(tasks'[j], peer)
  BY <1>4, <1>5, TasksAreGood
<1>8. Alike(conns, conns)
  BY DEF Alike
<1>9. Safe(conns, tasks', queue', peer)
  BY <1>6, <1>7, <1>8, SafeFollows
<1>10. Safe(conns, tasks, queue, peer)'
  BY <1>2, <1>9 DEF Safe
<1>11. Tasks = 1..load.tasks
  BY <1>1 DEF Shapes, Tasks
<1>12. Shapes'
  BY <1>1, <1>2, <1>5, <1>11 DEF Shapes, Announces, WakeRecs
<1>13. BytesInv'
  BY <1>2, <1>5 DEF RelayInv, BytesInv, Total, Pending
<1>14. WorkInv'
  <2> SUFFICES ASSUME NEW h \in LiveIn(conns), Work(conns[h], tasks'[conns[h].task])
               PROVE  tasks'[conns[h].task].note = "insert" \/ <<h, conns[h].gen>> \in wake'.keys
    BY <1>2 DEF WorkInv
  <2>1. ConnGood(h, conns[h], tasks, peer) /\ conns[h].task \in Tasks
    BY DEF RelayInv, Safe, Links, ConnGood, Tasks
  <2>2. CASE conns[h].task # i
    <3>1. tasks'[conns[h].task] = tasks[conns[h].task]
      BY <2>1, <2>2, <1>5
    <3> QED
      BY <3>1 DEF RelayInv, WorkInv, Announces
  <2>3. CASE conns[h].task = i /\ t.note = "insert"
    BY <2>3, <1>4, <1>5
  <2>4. CASE conns[h].task = i /\ t.note # "insert"
    <3>1. /\ t.open = tasks[i].open /\ t.chan = tasks[i].chan
          /\ tasks[i].note = "insert" => Key(i) \in wake'.keys
      BY <2>4 DEF Announces
    <3>2. Work(conns[h], tasks[i])
      BY <2>4, <3>1, <1>4, <1>5, WorkSame
    <3>3. tasks[i].note = "insert" \/ <<h, conns[h].gen>> \in wake.keys
      BY <2>4, <3>2 DEF RelayInv, WorkInv
    <3>4. tasks[i].note = "insert" => Key(i) = <<h, conns[h].gen>>
      BY <2>1, <2>4 DEF ConnGood, Over, Key
    <3> QED
      BY <3>1, <3>3, <3>4 DEF Announces
  <2> QED
    BY <2>2, <2>3, <2>4
<1>15. NoticeInv'
  <2> SUFFICES ASSUME wake'.waits, wake'.keys # {}, ~wake'.permit
               PROVE  \E j \in Tasks : tasks'[j].note = "notify"
    BY <1>5 DEF NoticeInv
  <2>1. CASE t.note = "notify"
    BY <2>1, <1>4, <1>5
  <2>2. CASE wake' = wake /\ tasks[i].note # "notify"
    <3>1. PICK j \in Tasks : tasks[j].note = "notify"
      BY <2>2 DEF RelayInv, NoticeInv
    <3> QED
      BY <2>2, <3>1, <1>5
  <2> QED
    BY <2>1, <2>2 DEF Announces
<1> QED
  BY <1>10, <1>12, <1>13, <1>14, <1>15 DEF RelayInv

LEMMA TaskIs ==
  ASSUME RelayInv, NEW i \in Tasks
  PROVE  /\ tasks[i] \in TaskRecs /\ TaskGood(tasks[i], peer)
         /\ wake \in WakeRecs /\ queue \in Seq(Messages) /\ Len(queue) <= Queue /\ Len(queue) \in Nat
         /\ Safe(conns, tasks, queue, peer)
  BY ShapesNow, TasksAreGood DEF RelayInv

(* A step that does not touch channel, queue and wake. *)
LEMMA StillStep ==
  ASSUME RelayInv, NEW i \in Tasks, NEW t \in TaskRecs, tasks[i].note = "idle",
         Becomes(i, t), LoopKept, UNCHANGED <<queue, wake>>,
         t.open = tasks[i].open, t.chan = tasks[i].chan, t.note = "idle",
         t.h = tasks[i].h, t.gen = tasks[i].gen, t.met = tasks[i].met,
         Born(tasks[i]), Born(t), ~Over(tasks[i]),
         Silent(tasks[i]) => Silent(t), t.pc # "gone",
         t.pc = "sending" => ~t.eof, t.pc = "half_closing" => t.eof
  PROVE  RelayInv'
<1>1. /\ TaskGood(tasks[i], peer) /\ wake \in WakeRecs /\ queue \in Seq(Messages) /\ Len(queue) <= Queue
      /\ Safe(conns, tasks, queue, peer)
  BY TaskIs
<1>2. TaskGood(t, peer)
  BY <1>1 DEF TaskGood, ChanOk, Born, Over
<1>3. GoesOn(tasks[i], t)
  BY DEF GoesOn
<1>4. Announces(i, t)
  BY <1>1 DEF Announces
<1> QED
  BY <1>1, <1>2, <1>3, <1>4, TaskStepKeeps

LEMMA InsertKeeps ==
  ASSUME RelayInv, NEW i \in Tasks, Insert(i)
  PROVE  RelayInv'
<1> DEFINE b == Key(i) \in wake.keys
           t == [tasks[i] EXCEPT !.note = IF b THEN "idle" ELSE "notify"]
<1>1. /\ tasks[i] \in TaskRecs /\ TaskGood(tasks[i], peer)
      /\ wake \in WakeRecs /\ queue \in Seq(Messages) /\ Len(queue) <= Queue
      /\ Safe(conns, tasks, queue, peer)
  BY TaskIs
<1>2. /\ tasks[i].note = "insert" /\ wake' = [wake EXCEPT !.keys = @ \cup {Key(i)}]
      /\ Becomes(i, t) /\ LoopKept /\ queue' = queue
  BY DEF Insert
<1>3. /\ t \in TaskRecs
      /\ t.pc = tasks[i].pc /\ t.h = tasks[i].h /\ t.gen = tasks[i].gen /\ t.met = tasks[i].met
      /\ t.open = tasks[i].open /\ t.eof = tasks[i].eof /\ t.chan = tasks[i].chan
      /\ t.note = IF b THEN "idle" ELSE "notify"
  <2> HIDE DEF b
  <2> QED
    BY <1>1 DEF TaskRecs
<1> HIDE DEF t
<1>4. tasks[i].pc # "unborn" /\ ~Over(tasks[i])
  BY <1>1, <1>2 DEF TaskGood, Over
<1>5. tasks[i].h \in Nat /\ tasks[i].gen \in Nat
  BY <1>1, <1>4 DEF TaskGood, Born
<1>6. Key(i) \in Nat \X Nat
  BY <1>5 DEF Key
<1>7. wake' \in WakeRecs /\ wake'.keys = wake.keys \cup {Key(i)}
  BY <1>1, <1>2, <1>6 DEF WakeRecs
<1>8. b => wake' = wake
  <2> SUFFICES ASSUME b PROVE wake' = wake
    OBVIOUS
  <2>1. wake.keys \cup {Key(i)} = wake.keys
    OBVIOUS
  <2> HIDE DEF b
  <2> QED
    BY <1>1, <1>2, <2>1 DEF WakeRecs
<1>9. Announces(i, t)
  BY <1>2, <1>3, <1>7, <1>8 DEF Announces
<1>10. GoesOn(tasks[i], t)
  BY <1>3, <1>4 DEF GoesOn, Born, Over, Silent
<1>11. TaskGood(t, peer)
  BY <1>1, <1>3, <1>4, <1>5 DEF TaskGood, ChanOk, Born
<1> QED
  BY <1>1, <1>2, <1>3, <1>9, <1>10, <1>11, TaskStepKeeps

LEMMA NotifyKeeps ==
  ASSUME RelayInv, NEW i \in Tasks, Notify(i)
  PROVE  RelayInv'
<1> DEFINE t == [tasks[i] EXCEPT !.note = "idle"]
<1>1. /\ tasks[i] \in TaskRecs /\ TaskGood(tasks[i], peer)
      /\ wake \in WakeRecs /\ queue \in Seq(Messages) /\ Len(queue) <= Queue
      /\ Safe(conns, tasks, queue, peer)
  BY TaskIs
<1>2. /\ tasks[i].note = "notify" /\ wake' = [wake EXCEPT !.permit = TRUE]
      /\ Becomes(i, t) /\ LoopKept /\ queue' = queue
  BY DEF Notify
<1>3. /\ t \in TaskRecs
      /\ t.pc = tasks[i].pc /\ t.h = tasks[i].h /\ t.gen = tasks[i].gen /\ t.met = tasks[i].met
      /\ t.open = tasks[i].open /\ t.eof = tasks[i].eof /\ t.chan = tasks[i].chan
      /\ t.note = "idle"
  BY <1>1 DEF TaskRecs
<1> HIDE DEF t
<1>4. tasks[i].pc # "unborn" /\ ~Over(tasks[i])
  BY <1>1, <1>2 DEF TaskGood, Over
<1>5. tasks[i].h \in Nat /\ tasks[i].gen \in Nat
  BY <1>1, <1>4 DEF TaskGood, Born
<1>6. wake' \in WakeRecs /\ wake'.permit = TRUE /\ wake'.keys = wake.keys
  BY <1>1, <1>2, Zenon DEF WakeRecs
<1>7. wake'.permit
  BY <1>6
<1>8. Announces(i, t)
  BY <1>2, <1>3, <1>6, <1>7 DEF Announces
<1>9. GoesOn(tasks[i], t)
  BY <1>3, <1>4 DEF GoesOn, Born, Over, Silent
<1>10. TaskGood(t, peer)
  BY <1>1, <1>3, <1>4, <1>5 DEF TaskGood, ChanOk, Born
<1> QED
  BY <1>1, <1>2, <1>3, <1>8, <1>9, <1>10, TaskStepKeeps

LEMMA TakeKeeps ==
  ASSUME RelayInv, NEW i \in Tasks, Take(i)
  PROVE  RelayInv'
<1>1. /\ tasks[i] \in TaskRecs /\ TaskGood(tasks[i], peer)
      /\ wake \in WakeRecs /\ queue \in Seq(Messages) /\ Len(queue) <= Queue
      /\ Safe(conns, tasks, queue, peer)
  BY TaskIs
<1>2. /\ tasks[i].pc \in {"header", "relay"} /\ tasks[i].note = "idle" /\ tasks[i].open /\ tasks[i].chan # <<>>
      /\ LoopKept /\ UNCHANGED <<queue, wake>>
  BY DEF Take, Runs
<1>3. PICK pc \in AfterTake(tasks[i].pc, Head(tasks[i].chan)) :
        Becomes(i, [tasks[i] EXCEPT !.chan = Tail(@), !.pc = pc, !.note = "insert"])
  BY DEF Take
<1>4. pc \in {"header", "relay", "closing", "writer_done"}
  BY <1>3 DEF AfterTake
<1> DEFINE s == Tail(tasks[i].chan)
           t == [tasks[i] EXCEPT !.chan = s, !.pc = pc, !.note = "insert"]
<1>5. s \in Seq({"data", "eof"}) /\ Len(s) <= Capacity
  <2>1. tasks[i].chan \in Seq({"data", "eof"}) /\ Len(tasks[i].chan) <= Capacity /\ Capacity \in Nat
    BY <1>1, RelayBounds DEF TaskGood, ChanOk, TaskRecs
  <2> QED
    BY <1>2, <2>1
<1>6. Becomes(i, t)
  BY <1>3
<1> HIDE DEF s
<1>7. pc \in Phases
  BY <1>4 DEF Phases
<1>8. /\ t \in TaskRecs
      /\ t.pc = pc /\ t.h = tasks[i].h /\ t.gen = tasks[i].gen /\ t.met = tasks[i].met
      /\ t.open = tasks[i].open /\ t.eof = tasks[i].eof /\ t.chan = s /\ t.note = "insert"
  BY <1>1, <1>5, <1>7 DEF TaskRecs
<1> HIDE DEF t
<1>9. tasks[i].h \in Nat /\ tasks[i].gen \in Nat
  BY <1>1, <1>2 DEF TaskGood, Born, Over
<1>10. Announces(i, t)
  BY <1>1, <1>2, <1>8 DEF Announces
<1>11. GoesOn(tasks[i], t)
  BY <1>2, <1>4, <1>8 DEF GoesOn, Born, Over, Silent
<1>12. TaskGood(t, peer)
  BY <1>1, <1>2, <1>4, <1>5, <1>8, <1>9 DEF TaskGood, ChanOk, Born
<1> QED
  BY <1>1, <1>2, <1>6, <1>8, <1>10, <1>11, <1>12, TaskStepKeeps

LEMMA HungUpKeeps ==
  ASSUME RelayInv, NEW i \in Tasks, HungUp(i)
  PROVE  RelayInv'
<1> DEFINE pc == IF tasks[i].pc = "relay" /\ load.side = "server" THEN "writer_done" ELSE "closing"
           t == [tasks[i] EXCEPT !.pc = pc]
<1>1. tasks[i] \in TaskRecs
  BY TaskIs
<1>2. /\ tasks[i].pc \in {"header", "relay"} /\ tasks[i].note = "idle"
      /\ LoopKept /\ UNCHANGED <<queue, wake>> /\ Becomes(i, t)
  BY DEF HungUp, Runs
<1>3. pc \in {"writer_done", "closing"} /\ pc \in Phases
  BY DEF Phases
<1> HIDE DEF pc
<1>4. /\ t \in TaskRecs
      /\ t.pc = pc /\ t.h = tasks[i].h /\ t.gen = tasks[i].gen /\ t.met = tasks[i].met
      /\ t.open = tasks[i].open /\ t.eof = tasks[i].eof /\ t.chan = tasks[i].chan /\ t.note = "idle"
  BY <1>1, <1>2, <1>3 DEF TaskRecs
<1> HIDE DEF t
<1>5. /\ Born(tasks[i]) /\ Born(t) /\ ~Over(tasks[i]) /\ (Silent(tasks[i]) => Silent(t)) /\ t.pc # "gone"
      /\ t.pc # "sending" /\ t.pc # "half_closing"
  BY <1>2, <1>3, <1>4 DEF Born, Over, Silent
<1> QED
  BY <1>2, <1>4, <1>5, StillStep

LEMMA StoppedKeeps ==
  ASSUME RelayInv, NEW i \in Tasks, Stopped(i)
  PROVE  RelayInv'
<1> DEFINE t == [tasks[i] EXCEPT !.pc = "closing"]
<1>1. tasks[i] \in TaskRecs
  BY TaskIs
<1>2. /\ tasks[i].pc = "relay" /\ tasks[i].note = "idle"
      /\ LoopKept /\ UNCHANGED <<queue, wake>> /\ Becomes(i, t)
  BY DEF Stopped, Runs
<1>3. /\ t \in TaskRecs
      /\ t.pc = "closing" /\ t.h = tasks[i].h /\ t.gen = tasks[i].gen /\ t.met = tasks[i].met
      /\ t.open = tasks[i].open /\ t.eof = tasks[i].eof /\ t.chan = tasks[i].chan /\ t.note = "idle"
  BY <1>1, <1>2 DEF TaskRecs, Phases
<1> HIDE DEF t
<1>4. /\ Born(tasks[i]) /\ Born(t) /\ ~Over(tasks[i]) /\ (Silent(tasks[i]) => Silent(t)) /\ t.pc # "gone"
      /\ t.pc # "sending" /\ t.pc # "half_closing"
  BY <1>2, <1>3 DEF Born, Over, Silent
<1> QED
  BY <1>2, <1>3, <1>4, StillStep

LEMMA ReadKeeps ==
  ASSUME RelayInv, NEW i \in Tasks, Read(i)
  PROVE  RelayInv'
<1> DEFINE n == tasks[i].out + 1
           t == [tasks[i] EXCEPT !.pc = "sending", !.out = n]
<1>1. tasks[i] \in TaskRecs
  BY TaskIs
<1>2. /\ tasks[i].pc = "relay" /\ tasks[i].note = "idle" /\ ~tasks[i].eof
      /\ LoopKept /\ UNCHANGED <<queue, wake>> /\ Becomes(i, t)
  BY DEF Read, Runs
<1>3. n \in Nat
  BY <1>1 DEF TaskRecs
<1> HIDE DEF n
<1>4. /\ t \in TaskRecs
      /\ t.pc = "sending" /\ t.h = tasks[i].h /\ t.gen = tasks[i].gen /\ t.met = tasks[i].met
      /\ t.open = tasks[i].open /\ t.eof = tasks[i].eof /\ t.chan = tasks[i].chan /\ t.note = "idle"
  BY <1>1, <1>2, <1>3 DEF TaskRecs, Phases
<1> HIDE DEF t
<1>5. /\ Born(tasks[i]) /\ Born(t) /\ ~Over(tasks[i]) /\ ~Silent(tasks[i]) /\ t.pc # "gone"
      /\ ~t.eof /\ t.pc # "half_closing"
  BY <1>2, <1>4 DEF Born, Over, Silent
<1> QED
  BY <1>2, <1>4, <1>5, StillStep

LEMMA ReadEndsKeeps ==
  ASSUME RelayInv, NEW i \in Tasks, ReadEnds(i)
  PROVE  RelayInv'
<1>1. tasks[i] \in TaskRecs
  BY TaskIs
<1>2. /\ tasks[i].pc = "relay" /\ tasks[i].note = "idle" /\ ~tasks[i].eof
      /\ LoopKept /\ UNCHANGED <<queue, wake>>
  BY DEF ReadEnds, Runs
<1>3. PICK pc \in {"closing", "half_closing"} : Becomes(i, [tasks[i] EXCEPT !.pc = pc, !.eof = TRUE])
  BY DEF ReadEnds
<1> DEFINE t == [tasks[i] EXCEPT !.pc = pc, !.eof = TRUE]
<1>4. pc \in Phases /\ Becomes(i, t)
  BY <1>3 DEF Phases
<1>5. t \in TaskRecs
  BY <1>1, <1>4, Zenon DEF TaskRecs
<1>6. /\ t.pc = pc /\ t.h = tasks[i].h /\ t.gen = tasks[i].gen /\ t.met = tasks[i].met
      /\ t.open = tasks[i].open /\ t.eof /\ t.chan = tasks[i].chan /\ t.note = "idle"
  BY <1>1, <1>2 DEF TaskRecs
<1> HIDE DEF t
<1>7. /\ Born(tasks[i]) /\ Born(t) /\ ~Over(tasks[i]) /\ ~Silent(tasks[i]) /\ t.pc # "gone"
      /\ t.pc # "sending"
  BY <1>2, <1>3, <1>6 DEF Born, Over, Silent
<1> QED
  BY <1>2, <1>4, <1>5, <1>6, <1>7, StillStep

LEMMA DropKeeps ==
  ASSUME RelayInv, NEW i \in Tasks, Drop(i)
  PROVE  RelayInv'
<1> DEFINE s == IF tasks[i].open THEN <<>> ELSE tasks[i].chan
           note == IF tasks[i].open THEN "insert" ELSE "idle"
           pc == IF tasks[i].pc = "leaving" THEN "gone" ELSE "relay"
           t == [tasks[i] EXCEPT !.open = FALSE, !.chan = s, !.note = note, !.pc = pc]
<1>1. /\ tasks[i] \in TaskRecs /\ TaskGood(tasks[i], peer)
      /\ wake \in WakeRecs /\ queue \in Seq(Messages) /\ Len(queue) <= Queue
      /\ Safe(conns, tasks, queue, peer)
  BY TaskIs
<1>2. /\ tasks[i].pc \in {"writer_done", "leaving"} /\ tasks[i].note = "idle"
      /\ LoopKept /\ UNCHANGED <<queue, wake>> /\ Becomes(i, t)
  BY DEF Drop, Runs
<1>3. s = <<>> /\ s \in Seq({"data", "eof"}) /\ Len(s) <= Capacity
  <2>1. s = <<>>
    BY <1>1 DEF TaskGood, ChanOk
  <2> HIDE DEF s
  <2> QED
    BY <2>1, RelayBounds
<1>4. /\ note \in {"idle", "insert"} /\ pc \in {"gone", "relay"} /\ pc \in Phases
      /\ tasks[i].pc = "leaving" => pc = "gone"
      /\ tasks[i].open => note = "insert"
  BY DEF Phases
<1>5. tasks[i].open \/ tasks[i].open = FALSE
  BY <1>1, Zenon DEF TaskRecs
<1> HIDE DEF s, note, pc
<1>6. t \in TaskRecs
  BY <1>1, <1>3, <1>4, Zenon DEF TaskRecs
<1>7. /\ t.pc = pc /\ t.h = tasks[i].h /\ t.gen = tasks[i].gen /\ t.met = tasks[i].met
      /\ t.open = FALSE /\ t.eof = tasks[i].eof /\ t.chan = s /\ t.note = note
  BY <1>1 DEF TaskRecs
<1> HIDE DEF t
<1>8. tasks[i].h \in Nat /\ tasks[i].gen \in Nat /\ (~tasks[i].open => tasks[i].chan = <<>>)
  BY <1>1, <1>2 DEF TaskGood, ChanOk, Born, Over
<1>9. Announces(i, t)
  <2>1. CASE tasks[i].open
    BY <2>1, <1>1, <1>2, <1>4, <1>7 DEF Announces
  <2>2. CASE ~tasks[i].open
    BY <2>2, <1>1, <1>2, <1>3, <1>5, <1>7, <1>8 DEF Announces
  <2> QED
    BY <2>1, <2>2
<1>10. GoesOn(tasks[i], t)
  BY <1>2, <1>4, <1>7 DEF GoesOn, Born, Over, Silent
<1>11. TaskGood(t, peer)
  BY <1>1, <1>2, <1>3, <1>4, <1>7, <1>8 DEF TaskGood, ChanOk, Born
<1> QED
  BY <1>1, <1>2, <1>6, <1>9, <1>10, <1>11, TaskStepKeeps

(* A task sends data only before it sends its Close. *)
LEMMA SafeWithSent ==
  ASSUME RelayInv, NEW i \in Tasks, NEW m, NEW q, q = Append(queue, m), m \in Messages,
         m.task = i, m.gen = tasks[i].gen, Born(tasks[i]), ~Over(tasks[i]),
         m.kind = "data" => ~Silent(tasks[i]), m.kind = "close" => Silent(tasks[i])
  PROVE  Safe(conns, tasks, q, peer)
<1>1. Safe(conns, tasks, queue, peer) /\ queue \in Seq(Messages) /\ Len(queue) \in Nat
  BY TaskIs
<1> DEFINE l == Len(queue) + 1
<1>2. /\ q \in Seq(Messages) /\ DOMAIN q = 1..l /\ q[l] = m
      /\ \A n \in DOMAIN queue : n \in Nat /\ n < l /\ n \in DOMAIN q /\ q[n] = queue[n]
      /\ \A n \in DOMAIN q : n = l \/ n \in DOMAIN queue
  BY <1>1
<1> HIDE DEF l
<1>3. QueueGens(conns, tasks, q, peer)
  <2> SUFFICES ASSUME NEW n \in DOMAIN q
               PROVE  /\ q[n].task \in DOMAIN tasks /\ Born(tasks[q[n].task])
                      /\ tasks[q[n].task].met = peer.met => Current(conns, peer, q[n].gen, q[n].task)
    BY DEF QueueGens
  <2>1. CASE n = l
    BY <2>1, <1>1, <1>2 DEF Safe, Links, TaskGens, Tasks
  <2>2. CASE n \in DOMAIN queue
    BY <2>2, <1>1, <1>2 DEF Safe, Links, QueueGens
  <2> QED
    BY <2>1, <2>2, <1>2
<1>4. \A j : \A n \in UnreadIn(q, j) : n \in UnreadIn(queue, j) \/ (n = l /\ j = i /\ m.kind = "data")
  BY <1>2 DEF UnreadIn
<1>5. CloseLast(tasks, q)
  <2> SUFFICES ASSUME NEW n \in DOMAIN q, q[n].kind = "close"
               PROVE  Silent(tasks[q[n].task]) /\ \A k \in UnreadIn(q, q[n].task) : k < n
    BY DEF CloseLast
  <2>1. CASE n = l
    <3>1. m.kind = "close" /\ q[n].task = i
      BY <2>1, <1>2
    <3>2. \A k \in UnreadIn(q, i) : k \in DOMAIN queue
      BY <3>1, <1>4 DEF UnreadIn
    <3> QED
      BY <2>1, <3>1, <3>2, <1>2
  <2>2. CASE n \in DOMAIN queue
    <3>1. q[n] = queue[n] /\ Silent(tasks[q[n].task]) /\ \A k \in UnreadIn(queue, q[n].task) : k < n
      BY <2>2, <1>1, <1>2 DEF Safe, CloseLast
    <3>2. UnreadIn(q, q[n].task) \subseteq UnreadIn(queue, q[n].task)
      BY <3>1, <1>4
    <3> QED
      BY <3>1, <3>2
  <2> QED
    BY <2>1, <2>2, <1>2
<1>6. FlushLast(conns, tasks, q)
  <2> SUFFICES ASSUME NEW h \in LiveIn(conns), conns[h].flush, conns[h].alien = {}
               PROVE  Silent(tasks[conns[h].task]) /\ UnreadIn(q, conns[h].task) = {}
    BY DEF FlushLast
  <2>1. Silent(tasks[conns[h].task]) /\ UnreadIn(queue, conns[h].task) = {}
    BY <1>1 DEF Safe, FlushLast
  <2> QED
    BY <2>1, <1>4
<1> QED
  BY <1>1, <1>3, <1>5, <1>6 DEF Safe, Links

LEMMA SendKeeps ==
  ASSUME RelayInv, NEW i \in Tasks, Send(i)
  PROVE  RelayInv'
<1> DEFINE kind == IF tasks[i].pc = "sending" THEN "data" ELSE "close"
           m == [h |-> tasks[i].h, gen |-> tasks[i].gen, task |-> i, kind |-> kind]
           pc == IF tasks[i].pc = "closing" THEN "leaving" ELSE "relay"
           t == [tasks[i] EXCEPT !.pc = pc]
<1>1. /\ tasks[i] \in TaskRecs /\ TaskGood(tasks[i], peer)
      /\ wake \in WakeRecs /\ queue \in Seq(Messages) /\ Len(queue) <= Queue /\ Len(queue) \in Nat
  BY TaskIs
<1>2. /\ tasks[i].pc \in {"sending", "closing", "half_closing"} /\ tasks[i].note = "idle" /\ Len(queue) < Queue
      /\ LoopKept /\ wake' = wake /\ queue' = Append(queue, m) /\ Becomes(i, t)
  BY DEF Send, Runs
<1>3. Born(tasks[i]) /\ ~Over(tasks[i])
  BY <1>2 DEF Born, Over
<1>4. tasks[i].h \in Nat /\ tasks[i].gen \in Nat /\ i \in Nat
  BY <1>1, <1>3, ShapesNow DEF TaskGood, RelayInv
<1>5. /\ kind \in {"data", "close"}
      /\ kind = "data" => ~Silent(tasks[i])
      /\ kind = "close" => Silent(tasks[i])
  BY <1>1, <1>2 DEF TaskGood, Silent
<1>6. /\ pc \in {"leaving", "relay"} /\ pc \in Phases
      /\ Silent(tasks[i]) => pc = "leaving" \/ tasks[i].eof
  BY <1>1, <1>2 DEF TaskGood, Silent, Phases
<1> HIDE DEF kind, pc
<1>7. m \in Messages /\ m.task = i /\ m.gen = tasks[i].gen /\ m.kind = kind
  BY <1>4, <1>5 DEF Messages
<1>8. /\ t \in TaskRecs
      /\ t.pc = pc /\ t.h = tasks[i].h /\ t.gen = tasks[i].gen /\ t.met = tasks[i].met
      /\ t.open = tasks[i].open /\ t.eof = tasks[i].eof /\ t.chan = tasks[i].chan /\ t.note = "idle"
  BY <1>1, <1>2, <1>6 DEF TaskRecs
<1> HIDE DEF m, t
<1>9. Safe(conns, tasks, queue', peer)
  BY <1>2, <1>3, <1>5, <1>7, SafeWithSent
<1>10. queue' \in Seq(Messages) /\ Len(queue') <= Queue
  BY <1>1, <1>2, <1>7, RelayBounds
<1>11. Announces(i, t)
  BY <1>1, <1>2, <1>8 DEF Announces
<1>12. GoesOn(tasks[i], t)
  BY <1>2, <1>6, <1>8 DEF GoesOn, Born, Over, Silent
<1>13. TaskGood(t, peer)
  BY <1>1, <1>2, <1>4, <1>6, <1>8 DEF TaskGood, ChanOk, Born
<1> QED
  BY <1>2, <1>8, <1>9, <1>10, <1>11, <1>12, <1>13, TaskStepKeeps

-----------------------------------------------------------------------------
(* The theorems *)

LEMMA RelayStart ==
  ASSUME Init
  PROVE  RelayInv
<1>1. /\ load \in Loads /\ load.handles \in Nat /\ load.tasks \in Nat
      /\ conns = [h \in 1..load.handles |-> None] /\ bytes = 0
      /\ tasks = [i \in 1..load.tasks |-> Unborn] /\ queue = <<>>
  BY RelayBounds DEF Init
<1>2. wake \in WakeRecs /\ ~wake.waits
  BY Zenon DEF Init, WakeRecs
<1>3. peer \in PeerRecs
  BY DEF Init, PeerRecs
<1>4. forward \in ForwardRecs
  <2>1. 1 \in 1..Ports /\ 0 \in Nat
    BY RelayBounds
  <2>2. (load.side = "client") \in BOOLEAN
    BY Zenon
  <2>3. forward = [active |-> load.side = "client", backlog |-> 0, next |-> 1]
    BY DEF Init
  <2> QED
    BY <2>1, <2>2, <2>3, Zenon DEF ForwardRecs
<1>5. Shapes
  <2>1. tasks \in [1..load.tasks -> TaskRecs]
    BY <1>1, UnbornIs
  <2>2. queue \in Seq(Messages) /\ Len(queue) <= Queue
    BY <1>1, RelayBounds
  <2> QED
    BY <1>1, <1>2, <1>3, <1>4, <2>1, <2>2 DEF Shapes, WakeRecs, PeerRecs, ForwardRecs
<1>6. LiveIn(conns) = {} /\ DOMAIN queue = {}
  BY <1>1 DEF LiveIn
<1>7. \A i \in DOMAIN tasks : TaskGood(tasks[i], peer) /\ ~Born(tasks[i])
  <2>1. TaskGood(Unborn, peer) /\ ~Born(Unborn)
    <3>1. Unborn.pc = "unborn" /\ Unborn.note = "idle" /\ Unborn.chan = <<>> /\ ~Unborn.open
      BY DEF Unborn
    <3>2. Len(<<>>) <= Capacity
      BY RelayBounds
    <3> QED
      BY <3>1, <3>2 DEF TaskGood, ChanOk, Born
  <2> QED
    BY <2>1, <1>1
<1>8. Safe(conns, tasks, queue, peer)
  <2>1. TaskGens(conns, tasks, peer) /\ QueueGens(conns, tasks, queue, peer) /\ Aliens(conns, tasks, peer)
    BY <1>6, <1>7 DEF TaskGens, QueueGens, Aliens
  <2>2. Apart(conns) /\ OwnPorts(conns) /\ CloseLast(tasks, queue) /\ FlushLast(conns, tasks, queue)
    BY <1>6 DEF Apart, OwnPorts, CloseLast, FlushLast
  <2> QED
    BY <1>6, <1>7, <2>1, <2>2 DEF Safe, Links
<1>9. \A s : s \notin Pending(conns)
  BY <1>6, PendingIs DEF LiveIn, Handles
<1>10. Pending(conns) = {} /\ Rest({}) = {}
  BY <1>9 DEF Rest
<1>11. BytesInv
  <2>1. IsFiniteSet({}) /\ Cardinality({}) = 0 /\ 0 <= MaxBytes
    BY FS_EmptySet, RelayBounds
  <2> QED
    BY <1>1, <1>10, <2>1 DEF BytesInv, Total
<1>12. WorkInv /\ NoticeInv
  BY <1>2, <1>6 DEF WorkInv, NoticeInv
<1> QED
  BY <1>5, <1>8, <1>11, <1>12 DEF RelayInv

LEMMA RelayStep ==
  ASSUME RelayInv, [Next]_vars
  PROVE  RelayInv'
<1>1. CASE Next
  <2>1. ASSUME NEW i \in Tasks, TaskSteps(i) \/ Read(i) \/ ReadEnds(i)
        PROVE  RelayInv'
    BY <2>1, InsertKeeps, NotifyKeeps, TakeKeeps, HungUpKeeps, DropKeeps, StoppedKeeps, SendKeeps,
       ReadKeeps, ReadEndsKeeps DEF TaskSteps
  <2> QED
    BY <1>1, <2>1, PacketKeeps, TimerKeeps, AcceptKeeps, ConnectKeeps, MessageKeeps, TakeKeysKeeps,
       WaitKeeps, RemoveForwardKeeps, AddForwardKeeps, StreamKeeps, ReauthenticatedKeeps,
       PeerRemovedKeeps, SessionEndsKeeps DEF Next
<1>2. CASE UNCHANGED vars
  <2>1. Handles' = Handles /\ Tasks' = Tasks
    BY <1>2 DEF vars, Handles, Tasks
  <2>2. Shapes' /\ Safe(conns, tasks, queue, peer)' /\ WorkInv' /\ NoticeInv'
    BY <1>2, <2>1 DEF vars, RelayInv, Shapes, Safe, WorkInv, NoticeInv
  <2>3. BytesInv'
    BY <1>2, <2>1 DEF vars, RelayInv, BytesInv, Total, Pending
  <2> QED
    BY <2>2, <2>3 DEF RelayInv
<1> QED
  BY <1>1, <1>2

(* The inductive invariant holds: connections and tasks know each other by  *)
(* generation, a Close follows all data of its task, what the loop could do *)
(* is announced, and the chunks are counted.                                *)
THEOREM RelayInductive ==
  Spec => []RelayInv
<1>1. Init => RelayInv
  BY RelayStart
<1>2. RelayInv /\ [Next]_vars => RelayInv'
  BY RelayStep
<1> QED
  BY <1>1, <1>2, PTL DEF Spec

-----------------------------------------------------------------------------
(* What the invariant is for *)

LEMMA BytesBound ==
  ASSUME RelayInv
  PROVE  bytes \in 0..(MaxBytes + Cardinality(Handles))
<1> DEFINE P == Pending(conns)
           F == P \ Rest(P)
<1>1. bytes = Cardinality(P) /\ bytes \in Nat /\ IsFiniteSet(P) /\ Cardinality(Rest(P)) <= MaxBytes
  BY DEF RelayInv, BytesInv, Total, Shapes
<1>2. Handles = 1..load.handles /\ load.handles \in Nat
  BY RelayBounds DEF RelayInv, Shapes, Handles
<1>3. IsFiniteSet(Handles) /\ Cardinality(Handles) \in Nat
  <2>1. 1 \in Int /\ load.handles \in Int
    BY <1>2
  <2>2. IsFiniteSet(1..load.handles)
    BY <2>1, FS_Interval
  <2> QED
    BY <1>2, <2>2, FS_CardinalityType
<1>4. IsFiniteSet({1}) /\ Cardinality({1}) = 1
  BY FS_Singleton
<1>5. IsFiniteSet(Handles \X {1}) /\ Cardinality(Handles \X {1}) = Cardinality(Handles) * 1
  BY <1>3, <1>4, FS_Product
<1>6. F \subseteq Handles \X {1}
  <2> SUFFICES ASSUME NEW s \in F PROVE s \in Handles \X {1}
    OBVIOUS
  <2>1. PICK h \in Handles : \E n \in 1..Len(conns[h].pend) : s = <<h, n>>
    BY PendingIs
  <2>2. s[2] = 1
    BY DEF Rest
  <2> QED
    BY <2>1, <2>2
<1> HIDE DEF P, F
<1>7. IsFiniteSet(F) /\ Cardinality(F) <= Cardinality(Handles \X {1})
  BY <1>5, <1>6, FS_Subset
<1>8. Rest(P) \subseteq P
  BY DEF Rest
<1>9. IsFiniteSet(Rest(P)) /\ P \cap Rest(P) = Rest(P)
  BY <1>1, <1>8, FS_Subset
<1>10. Cardinality(F) = Cardinality(P) - Cardinality(Rest(P))
  BY <1>1, <1>9, FS_Difference DEF F
<1>11. Cardinality(F) \in Nat /\ Cardinality(Rest(P)) \in Nat /\ MaxBytes \in Nat
  BY <1>7, <1>9, FS_CardinalityType, RelayBounds
<1> QED
  BY <1>1, <1>3, <1>5, <1>7, <1>10, <1>11

(* Capacities are kept, ports are distinct, no message reaches a connection *)
(* of another task of the peer that the server knows, and no wake-up is     *)
(* lost, whatever the interleaving of the loop and its tasks (handle        *)
(* generations, RelayWake, allocate_local_port).                            *)
THEOREM RelayHolds ==
  Spec => []RelayInvariant
<1>1. RelayInv => RelayInvariant
  <2> SUFFICES ASSUME RelayInv PROVE RelayInvariant
    OBVIOUS
  <2>1. Shapes /\ Live = LiveIn(conns) /\ Tasks = DOMAIN tasks
    BY ShapesNow DEF RelayInv, Tasks
  <2>2. TypeOK
    <3>1. \A i \in Tasks : Len(tasks[i].chan) <= Capacity
      BY TasksAreGood DEF TaskGood, ChanOk
    <3>2. forward.next \in 1..Ports /\ Len(queue) <= Queue
      BY <2>1 DEF Shapes
    <3>3. \A g, h \in Live : conns[g].task = conns[h].task => g = h
      BY <2>1 DEF RelayInv, Safe, Links, Apart
    <3> QED
      BY <3>1, <3>2, <3>3, BytesBound DEF TypeOK
  <2>3. PortsDistinct
    BY <2>1 DEF RelayInv, Safe, OwnPorts, PortsDistinct
  <2>4. GenerationsHold
    BY <2>1 DEF RelayInv, Safe, Links, Aliens, GenerationsHold
  <2>5. NoLostWake
    <3> SUFFICES ASSUME NEW h \in Live, Work(conns[h], tasks[conns[h].task]), wake.waits,
                        tasks[conns[h].task].note # "insert"
                 PROVE  /\ <<h, conns[h].gen>> \in wake.keys
                        /\ wake.permit \/ \E j \in Tasks : tasks[j].note = "notify"
      BY DEF NoLostWake
    <3>1. <<h, conns[h].gen>> \in wake.keys
      BY <2>1 DEF RelayInv, WorkInv
    <3> QED
      BY <3>1 DEF RelayInv, NoticeInv
  <2> QED
    BY <2>2, <2>3, <2>4, <2>5 DEF RelayInvariant
<1> QED
  BY <1>1, RelayInductive, PTL

(* pending_tx_bytes is the number of chunks that are queued, whatever ends. *)
THEOREM BytesCounted ==
  Spec => []BytesAreQueued
<1>1. RelayInv => BytesAreQueued
  BY DEF RelayInv, BytesInv, BytesAreQueued
<1> QED
  BY <1>1, RelayInductive, PTL

(* A connection is closed on this side, and by its own task. *)
ClosesNow(h) ==
  conns'[h] # None /\ ~conns[h].shut /\ conns'[h].shut /\ ~conns'[h].fin /\ conns'[h].alien = {}
Complete(h) == conns'[h].pend = <<>> /\ UnreadIn(queue', conns'[h].task) = {}

LEMMA TurnCloses ==
  ASSUME Shapes, NEW cs, NEW ts, NEW n \in Nat, Middle(cs, ts, n), Pump(cs, ts, n),
         Safe(cs, ts, queue', peer'), NEW h \in Handles, ClosesNow(h), cs[h].task = conns[h].task
  PROVE  /\ cs[h] # None /\ cs[h].alien = {} /\ Len(conns'[h].pend) <= Len(cs[h].pend) /\ conns'[h] \in Conns
         /\ conns'[h].task = conns[h].task
         /\ cs[h].shut \/ Complete(h)
<1>1. PumpReady(cs, ts) /\ bytes \in Nat
  BY ReadyToPump DEF Shapes
<1>2. Pumped(cs, ts)
  BY <1>1, PumpedAll DEF Middle
<1>3. conns'[h] # None /\ conns'[h].shut /\ ~conns'[h].fin /\ conns'[h].alien = {}
  BY DEF ClosesNow
<1>4. cs[h] # None /\ Turned(cs[h], conns'[h])
  BY <1>2, <1>3 DEF Pumped
<1>5. /\ conns'[h] \in Conns /\ cs[h].alien = {} /\ ~cs[h].fin /\ Len(conns'[h].pend) <= Len(cs[h].pend)
      /\ conns'[h].task = cs[h].task
      /\ cs[h].shut \/ (cs[h].flush /\ conns'[h].pend = <<>>)
  BY <1>3, <1>4 DEF Turned, Kept
<1>6. h \in LiveIn(cs)
  BY <1>4 DEF LiveIn, Middle
<1>7. cs[h].flush => UnreadIn(queue', cs[h].task) = {}
  BY <1>5, <1>6 DEF Safe, FlushLast
<1> QED
  BY <1>4, <1>5, <1>7 DEF Complete

LEMMA QuietCloses ==
  ASSUME RelayInv, NEW cs \in [Handles -> Conns \cup {None}],
         \A g \in Handles : (cs[g] = None <=> conns[g] = None) /\ (conns[g] # None => SameConn(conns[g], cs[g])),
         Pump(cs, tasks, 0), UNCHANGED <<queue, peer>>, NEW h \in Live, ClosesNow(h), cs[h].shut = conns[h].shut
  PROVE  Complete(h)
<1>1. Shapes /\ BytesInv /\ Safe(conns, tasks, queue, peer) /\ tasks \in [Tasks -> TaskRecs]
  BY ShapesNow DEF RelayInv
<1>2. Middle(cs, tasks, 0)
  BY <1>1, MiddleAlike DEF SameConn
<1>3. Alike(conns, cs)
  BY DEF Alike, SameConn, Handles
<1>4. Safe(cs, tasks, queue, peer)
  BY <1>1, <1>3, SafeFollows, FollowsItself, TasksAreGood DEF Tasks
<1>5. h \in Handles /\ conns[h] # None
  BY DEF Live
<1>6. cs[h].task = conns[h].task
  BY <1>5 DEF SameConn
<1> QED
  BY <1>1, <1>2, <1>4, <1>5, <1>6, TurnCloses DEF ClosesNow

LEMMA PlainCloses ==
  ASSUME RelayInv, Pump(conns, tasks, 0), UNCHANGED <<queue, peer>>, NEW h \in Live, ClosesNow(h)
  PROVE  Complete(h)
<1>1. conns \in [Handles -> Conns \cup {None}]
  BY ShapesNow DEF RelayInv
<1>2. \A g \in Handles : (conns[g] = None <=> conns[g] = None) /\ (conns[g] # None => SameConn(conns[g], conns[g]))
  BY <1>1 DEF SameConn
<1> QED
  BY <1>1, <1>2, QuietCloses

LEMMA PacketCloses ==
  ASSUME RelayInv, Packet, NEW h \in Live, ClosesNow(h)
  PROVE  Complete(h)
<1>1. PICK g \in Live : \E c \in FromLink(conns[g]) : Pump([conns EXCEPT ![g] = c], tasks, 0)
  BY DEF Packet
<1>2. PICK c \in FromLink(conns[g]) : Pump([conns EXCEPT ![g] = c], tasks, 0)
  BY <1>1
<1>3. Shapes
  BY DEF RelayInv
<1>4. conns[g] \in Conns /\ g \in Handles /\ conns[g] # None /\ h \in Handles
  BY <1>3, ShapesNow DEF Live
<1>5. SameConn(conns[g], c) /\ c.shut = conns[g].shut
  BY <1>2, <1>4, FromLinkIs
<1> DEFINE cs == [conns EXCEPT ![g] = c]
<1>6. cs \in [Handles -> Conns \cup {None}]
  BY <1>3, <1>5, ShapesNow DEF SameConn
<1>7. \A k \in Handles : (cs[k] = None <=> conns[k] = None) /\ (conns[k] # None => SameConn(conns[k], cs[k]))
  <2> SUFFICES ASSUME NEW k \in Handles
               PROVE  (cs[k] = None <=> conns[k] = None) /\ (conns[k] # None => SameConn(conns[k], cs[k]))
    OBVIOUS
  <2>1. conns[k] \in Conns \cup {None}
    BY <1>3, ShapesNow
  <2>2. CASE k = g
    BY <2>2, <1>3, <1>4, <1>5, ShapesNow, NoneIsNothing DEF SameConn
  <2>3. CASE k # g
    BY <2>1, <2>3, <1>3, ShapesNow DEF SameConn
  <2> QED
    BY <2>2, <2>3
<1>8. cs[h].shut = conns[h].shut
  BY <1>3, <1>4, <1>5, ShapesNow
<1> HIDE DEF cs
<1>9. Pump(cs, tasks, 0) /\ UNCHANGED <<queue, peer>>
  BY <1>2 DEF cs, Packet, Awake
<1> QED
  BY <1>6, <1>7, <1>8, <1>9, QuietCloses

LEMMA OpeningCloses ==
  ASSUME RelayInv, NEW i, NEW g, NEW port, NEW head, NEW pc, NEW cs, NEW ts,
         Opening(i, g, port, head, pc, cs, ts), Pump(cs, ts, Len(head)),
         peer' = [peer EXCEPT !.next = @ + 1], queue' = queue, NEW h \in Live, ClosesNow(h)
  PROVE  Complete(h)
<1>1. Shapes /\ Middle(cs, ts, Len(head)) /\ Safe(cs, ts, queue', peer') /\ Len(head) \in Nat
  BY OpenedMiddle, OpenedSafe DEF RelayInv, Opening
<1>2. h \in Handles /\ h # g
  BY DEF Live, Opening
<1>3. cs[h] = conns[h]
  BY <1>1, <1>2, OpenedRecs
<1> QED
  BY <1>1, <1>2, <1>3, TurnCloses DEF ClosesNow

LEMMA AcceptCloses ==
  ASSUME RelayInv, Accept, NEW h \in Live, ClosesNow(h)
  PROVE  Complete(h)
<1> DEFINE i == NewTask
           g == FreeHandle
           cs == [conns EXCEPT ![g] = Conn(i, peer.next, None, <<>>)]
           ts == [tasks EXCEPT ![i] = Task("header", g, peer.next)]
<1>1. Shapes /\ load.side # "client"
  BY DEF RelayInv, Accept
<1>2. i \in Tasks /\ tasks[i].pc = "unborn" /\ g \in Handles /\ conns[g] = None
  BY <1>1, NewTaskIs, FreeHandleIs DEF Accept
<1>3. Pump(cs, ts, 0) /\ peer' = [peer EXCEPT !.next = @ + 1] /\ queue' = queue
  BY DEF Accept
<1> HIDE DEF i, g
<1>4. Opening(i, g, None, <<>>, "header", cs, ts)
  BY <1>1, <1>2 DEF Opening
<1>5. Len(<<>>) = 0
  OBVIOUS
<1> HIDE DEF cs, ts
<1> QED
  BY <1>3, <1>4, <1>5, OpeningCloses

LEMMA ConnectCloses ==
  ASSUME RelayInv, Connect, NEW h \in Live, ClosesNow(h)
  PROVE  Complete(h)
<1>1. Shapes /\ NewTask # None
  BY DEF RelayInv, Connect
<1>2. allocate_local_port # None
  BY DEF Connect, ClosesNow
<1> DEFINE i == NewTask
           g == FreeHandle
           port == allocate_local_port
           cs == [conns EXCEPT ![g] = Conn(i, peer.next, port, <<i>>)]
           ts == [tasks EXCEPT ![i] = Task("relay", g, peer.next)]
<1>3. FreeHandle # None /\ Pump(cs, ts, 1) /\ peer' = [peer EXCEPT !.next = @ + 1] /\ queue' = queue
  BY <1>2 DEF Connect
<1>4. i \in Tasks /\ tasks[i].pc = "unborn" /\ g \in Handles /\ conns[g] = None
  BY <1>1, <1>3, NewTaskIs, FreeHandleIs
<1>5. port \in 1..Ports /\ port \notin PortsUsed
  BY <1>1, <1>2, PortIs
<1> HIDE DEF i, g, port
<1>6. port \in Nat
  BY <1>5, RelayBounds
<1>7. Opening(i, g, port, <<i>>, "relay", cs, ts)
  BY <1>4, <1>5, <1>6 DEF Opening
<1>8. Len(<<i>>) = 1
  OBVIOUS
<1> HIDE DEF cs, ts
<1> QED
  BY <1>3, <1>7, <1>8, OpeningCloses

(* A Close finds nothing queued, or waits for it. *)
LEMMA MessageCloses ==
  ASSUME RelayInv, Message, NEW h \in Live, ClosesNow(h)
  PROVE  Complete(h)
<1>1. Shapes
  BY DEF RelayInv
<1> DEFINE m == Head(queue)
           cs == [conns EXCEPT ![m.h] = Applied(conns[m.h], m)]
           n == IF m.kind = "data" THEN 1 ELSE 0
<1>2. queue # <<>> /\ bytes < MaxBytes /\ queue' = Tail(queue) /\ peer' = peer
  BY DEF Message, Awake
<1>3. Addressed(m)
  BY DEF Message, ClosesNow
<1>4. Pump(cs, tasks, n) /\ Applying(m, cs)
  BY <1>2, <1>3 DEF Message, Applying
<1> HIDE DEF m, cs
<1>5. Middle(cs, tasks, n) /\ Safe(cs, tasks, queue', peer')
  BY <1>2, <1>4, AppliedMiddle, AppliedSafe
<1>6. n \in Nat /\ h \in Handles
  BY DEF Live
<1> HIDE DEF n
<1>7. /\ m.h \in Handles /\ m \in Messages /\ conns[m.h] \in Conns
      /\ cs[m.h] = Applied(conns[m.h], m) /\ \A g \in Handles \ {m.h} : cs[g] = conns[g]
  BY <1>1, <1>4, AppliedConns
<1> DEFINE c == conns[m.h]
           d == cs[m.h]
<1>8. /\ d \in Conns /\ d.task = c.task /\ d.alien = c.alien \cup ({m.task} \ {c.task})
      /\ m.kind = "data" => d.shut = c.shut
      /\ m.kind # "data" => d.pend = c.pend /\ (d.shut => c.shut \/ c.pend = <<>>)
  BY <1>7, AppliedIs
<1>9. cs[h].task = conns[h].task
  BY <1>6, <1>7, <1>8
<1>10. /\ cs[h].alien = {} /\ Len(conns'[h].pend) <= Len(cs[h].pend) /\ conns'[h] \in Conns
       /\ conns'[h].task = conns[h].task
       /\ cs[h].shut \/ Complete(h)
  BY <1>1, <1>4, <1>5, <1>6, <1>9, TurnCloses
<1>11. CASE cs[h].shut
  <2>1. ~conns[h].shut
    BY DEF ClosesNow
  <2>2. h = m.h
    BY <1>6, <1>7, <1>11, <2>1
  <2>3. m.kind # "data" /\ d.pend = <<>> /\ m.task = c.task
    BY <1>8, <1>10, <1>11, <2>1, <2>2
  <2>4. m.kind = "close"
    BY <1>7, <2>3 DEF Messages
  <2>5. UnreadIn(queue', conns'[h].task) = {}
    BY <1>2, <1>4, <1>10, <2>2, <2>3, <2>4, LastOfTask
  <2>6. conns'[h].pend \in Seq(Nat) /\ Len(conns'[h].pend) <= 0
    BY <1>10, <2>2, <2>3 DEF Conns
  <2>7. conns'[h].pend = <<>>
    BY <2>6
  <2> QED
    BY <2>5, <2>7 DEF Complete
<1> QED
  BY <1>10, <1>11

(* A connection that its own task closes is closed only after the last byte *)
(* the task has read was handed to the stack (close_after_flush), unless    *)
(* the other end has closed first or the forward was removed.               *)
THEOREM ClosedAfterLastByte ==
  Spec => ClosedComplete
<1> DEFINE Whole ==
      \A h \in Live :
        (/\ h \in Live' /\ ~conns[h].shut /\ conns'[h].shut /\ ~conns'[h].fin
         /\ conns'[h].alien = {} /\ forward'.active = forward.active)
          => conns'[h].pend = <<>> /\ Unread(conns[h].task)' = {}
<1>1. ASSUME RelayInv, Next PROVE Whole
  <2> SUFFICES ASSUME NEW h \in Live, h \in Live', ~conns[h].shut, conns'[h].shut, ~conns'[h].fin,
                      conns'[h].alien = {}, forward'.active = forward.active
               PROVE  conns'[h].pend = <<>> /\ Unread(conns[h].task)' = {}
    OBVIOUS
  <2>1. ClosesNow(h)
    BY DEF ClosesNow, Live
  <2>2. conns'[h] # conns[h] /\ h \in Handles /\ conns'[h] # None
    BY DEF Live
  <2>3. Complete(h)
    <3>1. CASE Packet
      BY <1>1, <2>1, <3>1, PacketCloses
    <3>2. CASE Timer
      BY <1>1, <2>1, <3>2, PlainCloses DEF Timer, Awake
    <3>3. CASE Accept
      BY <1>1, <2>1, <3>3, AcceptCloses
    <3>4. CASE Connect
      BY <1>1, <2>1, <3>4, ConnectCloses
    <3>5. CASE Message
      BY <1>1, <2>1, <3>5, MessageCloses
    <3>6. CASE TakeKeys
      BY <1>1, <2>1, <2>2, <3>6, PlainCloses DEF TakeKeys
    <3>7. CASE RemoveForward
      <4>1. forward \in ForwardRecs /\ forward.active /\ forward' = [forward EXCEPT !.active = FALSE]
        BY <1>1, <3>7, ShapesNow DEF RelayInv, RemoveForward
      <4>2. ~forward'.active
        BY <4>1 DEF ForwardRecs
      <4> QED
        BY <4>1, <4>2
    <3>8. CASE AddForward
      BY <1>1, <2>1, <3>8, PlainCloses DEF AddForward, Awake
    <3>9. CASE Reauthenticated \/ PeerRemoved \/ SessionEnds
      BY <2>2, <3>9 DEF Reauthenticated, PeerRemoved, SessionEnds, teardown_peer
    <3>10. CASE Wait \/ Noticed \/ Stream
      BY <2>2, <3>10 DEF Wait, Noticed, Stream
    <3>11. CASE \E i \in Tasks : TaskSteps(i) \/ Read(i) \/ ReadEnds(i)
      BY <2>2, <3>11 DEF TaskSteps, Insert, Notify, Take, HungUp, Drop, Stopped, Send, Read, ReadEnds, LoopKept
    <3> QED
      BY <1>1, <3>1, <3>2, <3>3, <3>4, <3>5, <3>6, <3>7, <3>8, <3>9, <3>10, <3>11 DEF Next
  <2>4. Unread(conns[h].task)' = UnreadIn(queue', conns'[h].task)
    BY DEF Unread, UnreadIn
  <2> QED
    BY <2>3, <2>4 DEF Complete
<1>2. RelayInv /\ [Next]_vars => [Whole]_vars
  BY <1>1
<1>3. Spec => [][Whole]_vars
  BY <1>2, RelayInductive, PTL DEF Spec
<1> QED
  BY <1>3 DEF ClosedComplete
==============================================================================
