------------------------------- MODULE Relay --------------------------------
(***************************************************************************)
(* The relay of TCP connections over a terrain session: one event loop     *)
(* that owns the TCP sockets of the link's IP stack, and one task per      *)
(* connection that owns a kernel socket.  The daemon's server (pump_peer,  *)
(* server_conn_task) and the client (pump, bridge_task) share the design;  *)
(* a behaviour is one of the two sides.  Bytes are chunks, named by the    *)
(* task that read them.                                                    *)
(***************************************************************************)
EXTENDS Naturals, Sequences, FiniteSets, FiniteSetsExt

CONSTANTS
  None,
  Loads,      \* what a behaviour may be: the side, the chunks the link delivers per
              \* connection, the chunks a kernel socket yields per task, and the
              \* connection tasks that are ever spawned, and the sockets at once
  Ports,      \* local ports of the client are 1..Ports
  Capacity,   \* CONNECTION_CHANNEL_CAPACITY
  Queue,      \* capacity of the channel from the tasks to the loop
  MaxBytes,   \* MAX_PENDING_TO_STACK_BYTES
  MaxPeers    \* times the server forgets its peer and meets it again

\* What the loop knows of a connection; see Conn below.
Conns ==
  [task : Nat, gen : Nat, port : Nat \cup {None}, pend : Seq(Nat), alien : SUBSET Nat,
   flush : BOOLEAN, eof : BOOLEAN, in : Nat, rx : Nat, fin : BOOLEAN, shut : BOOLEAN, dead : BOOLEAN]

ASSUME NoneIsNothing == None \notin Nat /\ None \notin Conns
ASSUME RelayBounds ==
  /\ Loads \subseteq [side : {"client", "server"}, in : Nat, out : Nat, tasks : Nat, handles : Nat]
  /\ {Ports, Capacity, Queue, MaxBytes} \subseteq Nat \ {0}
  /\ MaxPeers \in Nat

VARIABLES
  load,      \* the side and the bounds of this behaviour
  conns,     \* what the loop keeps of a handle: conns, pending_tx and the socket
  bytes,     \* pending_tx_bytes
  tasks,
  queue,     \* to_tx: messages of tasks to the loop
  wake,      \* RelayWake: the keys, the permit of its Notify, whether the loop waits for it
  peer,      \* how often the peer was met anew, and next_generation
  forward    \* the client's forward: whether it is active, streams accepted and not yet
             \* seen by the loop, and next_local_port

vars == <<load, conns, bytes, tasks, queue, wake, peer, forward>>

-----------------------------------------------------------------------------
Conn(i, gen, port, head) ==
  [task |-> i, gen |-> gen, port |-> port, pend |-> head, alien |-> {}, flush |-> FALSE,
   eof |-> FALSE, in |-> 0, rx |-> 0, fin |-> FALSE, shut |-> FALSE, dead |-> FALSE]

Task(pc, h, gen) ==
  [pc |-> pc, h |-> h, gen |-> gen, met |-> peer.met, chan |-> <<>>, open |-> TRUE,
   note |-> "idle", out |-> 0, eof |-> FALSE, stop |-> FALSE]
Unborn == [pc |-> "unborn", h |-> None, gen |-> 0, met |-> 0, chan |-> <<>>, open |-> FALSE,
           note |-> "idle", out |-> 0, eof |-> FALSE, stop |-> FALSE]

Tasks == DOMAIN tasks
Handles == DOMAIN conns     \* used again after a socket is removed
Live == {h \in Handles : conns[h] # None}
Key(i) == <<tasks[i].h, tasks[i].gen>>
Owner(h, gen) == h \in Live /\ conns[h].gen = gen
HasSender(i) == \E h \in Live : conns[h].task = i
NewTask == IF \E i \in Tasks : tasks[i].pc = "unborn"
           THEN Min({i \in Tasks : tasks[i].pc = "unborn"}) ELSE None
FreeHandle == IF Live # Handles THEN Min(Handles \ Live) ELSE None
(* The chunks that wait for the stack, by connection and position, and how  *)
(* many there are.                                                          *)
Pending(cs) == UNION {{h} \X (1..Len(cs[h].pend)) : h \in {g \in Handles : cs[g] # None}}
Total(cs) == Cardinality(Pending(cs))

-----------------------------------------------------------------------------
(* One turn of pump for one connection.  The stack takes k pending chunks,  *)
(* none once the socket is closed on this side.                             *)
Room(t) == t.open /\ Len(t.chan) < Capacity
FromDrained(t) == ~t.open \/ t.chan = <<>>
PeerEof(c) == c.fin /\ c.rx = 0

MayTake(c) == IF c.shut \/ c.dead THEN {0} ELSE 0..Len(c.pend)
Flushed(c, k) == [c EXCEPT !.pend = SubSeq(@, k + 1, Len(@))]
ClosedAfterFlush(c) ==
  IF c.pend = <<>> /\ c.flush THEN [c EXCEPT !.shut = TRUE, !.flush = FALSE] ELSE c

Moves(c, t) == IF t.open THEN Min({c.rx, Capacity - Len(t.chan)}) ELSE 0
MovedIn(c, t) == [c EXCEPT !.rx = @ - Moves(c, t)]
MovedOut(c, t) == [t EXCEPT !.chan = @ \o [n \in 1..Moves(c, t) |-> "data"]]

Reaped(c, t) == c.dead /\ FromDrained(t)
TellsEof(c, t) == ~Reaped(c, t) /\ PeerEof(c) /\ ~c.eof
AfterEof(c, t) ==
  IF ~TellsEof(c, t) THEN c
  ELSE IF ~t.open THEN [c EXCEPT !.shut = TRUE]
  ELSE IF Room(t) THEN [c EXCEPT !.eof = TRUE] ELSE c
GivenEof(c, t) ==
  IF TellsEof(c, t) /\ Room(t) THEN [t EXCEPT !.chan = Append(@, "eof")] ELSE t

PumpedConn(c, t, k) ==
  LET f == ClosedAfterFlush(Flushed(c, k)) IN AfterEof(MovedIn(f, t), MovedOut(f, t))
PumpedTask(c, t, k) ==
  LET f == ClosedAfterFlush(Flushed(c, k)) IN GivenEof(MovedIn(f, t), MovedOut(f, t))

(* Mutant: the bytes a removed connection still had queued stay counted. *)
ReapKeepsCount(c, t, k) == k

Gives(c, t, k) ==
  LET p == PumpedConn(c, t, k)
  IN k + (IF Reaped(p, PumpedTask(c, t, k)) THEN Len(p.pend) ELSE 0)

(* pump over all connections cs, with n chunks of the bytes just counted.   *)
(* The chunks a connection gives up are counted from its last one.          *)
Pump(cs, ts, n) ==
  LET live == {h \in Handles : cs[h] # None}
      task(h) == ts[cs[h].task]
  IN \E k \in [Handles -> 0..MaxBytes] :
       /\ \A h \in Handles : k[h] \in IF h \in live THEN MayTake(cs[h]) ELSE {0}
       /\ LET conn(h) == PumpedConn(cs[h], task(h), k[h])
              told(h) == PumpedTask(cs[h], task(h), k[h])
              gone == {h \in live : Reaped(conn(h), told(h))}
          IN /\ conns' = [h \in Handles |-> IF h \in live \ gone THEN conn(h) ELSE None]
             /\ tasks' = [i \in Tasks |-> IF \E h \in live : cs[h].task = i
                                          THEN told(CHOOSE h \in live : cs[h].task = i) ELSE ts[i]]
             /\ LET size(h) == Len(cs[h].pend)
                    given == UNION {{h} \X (size(h) - Gives(cs[h], task(h), k[h]) + 1 .. size(h)) : h \in live}
                IN  bytes' = bytes + n - Cardinality(given)

LoopTurns == wake' = [wake EXCEPT !.waits = FALSE]
Awake == UNCHANGED <<load, peer>> /\ LoopTurns

-----------------------------------------------------------------------------
(* The loop's branches *)

(* An IP packet arrives for a socket: data, a FIN, the end of the           *)
(* connection (both FINs are acknowledged, or a reset).  Timers of the      *)
(* stack end in the same turn.                                              *)
FromLink(c) ==
  {d \in {[c EXCEPT !.rx = @ + 1, !.in = @ + 1], [c EXCEPT !.fin = TRUE], [c EXCEPT !.dead = TRUE]} :
     d # c /\ ~c.dead /\ d.in <= load.in /\ (c.fin => d.in = c.in)}

Packet ==
  /\ \E h \in Live : \E c \in FromLink(conns[h]) : Pump([conns EXCEPT ![h] = c], tasks, 0)
  /\ Awake /\ UNCHANGED <<queue, forward>>

(* Timers of the stack: the next bytes are taken. *)
Timer ==
  /\ bytes > 0 /\ Pump(conns, tasks, 0) /\ bytes' < bytes
  /\ Awake /\ UNCHANGED <<queue, forward>>

(* A listener of the server became a connection. *)
Accept ==
  /\ load.side = "server" /\ NewTask # None /\ FreeHandle # None
  /\ LET i == NewTask
         h == FreeHandle
     IN /\ Pump([conns EXCEPT ![h] = Conn(i, peer.next, None, <<>>)],
                [tasks EXCEPT ![i] = Task("header", h, peer.next)], 0)
        /\ peer' = [peer EXCEPT !.next = @ + 1]
  /\ LoopTurns /\ UNCHANGED <<load, queue, forward>>

PortsUsed == {conns[h].port : h \in Live}
PortsFrom(p) == [n \in 1..Ports |-> ((p + n - 2) % Ports) + 1]

(* The first port from next on that no socket has. *)
allocate_local_port ==
  LET free == {n \in 1..Ports : PortsFrom(forward.next)[n] \notin PortsUsed}
  IN  IF free = {} THEN None ELSE PortsFrom(forward.next)[Min(free)]

(* The loop of the client gets a stream a listener has accepted: it opens a *)
(* connection whose first bytes are the destination, or drops the stream    *)
(* when all ports are in use.                                               *)
Connect ==
  /\ load.side = "client" /\ forward.backlog > 0 /\ NewTask # None
  /\ IF allocate_local_port = None
     THEN /\ forward' = [forward EXCEPT !.backlog = @ - 1]
          /\ UNCHANGED <<conns, tasks, bytes, peer>>
     ELSE /\ FreeHandle # None
          /\ LET i == NewTask
                 h == FreeHandle
                 port == allocate_local_port
             IN /\ Pump([conns EXCEPT ![h] = Conn(i, peer.next, port, <<i>>)],
                        [tasks EXCEPT ![i] = Task("relay", h, peer.next)], 1)
                /\ peer' = [peer EXCEPT !.next = @ + 1]
                /\ forward' = [forward EXCEPT !.backlog = @ - 1, !.next = (port % Ports) + 1]
  /\ LoopTurns /\ UNCHANGED <<load, queue>>

(* Mutant: a Close closes the socket at once. *)
CloseNow(c) == [c EXCEPT !.shut = TRUE]

OnClose(c) == IF c.pend # <<>> THEN [c EXCEPT !.flush = TRUE] ELSE [c EXCEPT !.shut = TRUE]

(* Mutant: a message finds its connection by the handle alone. *)
AddressedByHandle(m) == m.h \in Live

Addressed(m) == Owner(m.h, m.gen)

(* What it was is remembered in alien, if the task is another one. *)
Applied(c, m) ==
  [IF m.kind = "data" THEN [c EXCEPT !.pend = Append(@, m.task)] ELSE OnClose(c)
     EXCEPT !.alien = @ \cup ({m.task} \ {c.task})]

(* A message of a task.  One for a connection that is gone is dropped. *)
Message ==
  /\ queue # <<>> /\ bytes < MaxBytes
  /\ queue' = Tail(queue)
  /\ LET m == Head(queue)
     IN IF Addressed(m)
        THEN Pump([conns EXCEPT ![m.h] = Applied(@, m)],
                  tasks, IF m.kind = "data" THEN 1 ELSE 0)
        ELSE UNCHANGED <<conns, tasks, bytes>>
  /\ Awake /\ UNCHANGED forward

(* RelayWake::recv: the keys are taken, or the loop waits for a notice. *)
TakeKeys ==
  /\ ~wake.waits /\ wake.keys # {}
  /\ wake' = [wake EXCEPT !.keys = {}]
  /\ IF \E key \in wake.keys : Owner(key[1], key[2])
     THEN Pump(conns, tasks, 0) ELSE UNCHANGED <<conns, tasks, bytes>>
  /\ UNCHANGED <<load, queue, peer, forward>>

Wait ==
  /\ ~wake.waits /\ wake.keys = {}
  /\ wake' = [wake EXCEPT !.waits = TRUE]
  /\ UNCHANGED <<load, conns, bytes, tasks, queue, peer, forward>>

Noticed ==
  /\ wake.waits /\ wake.permit
  /\ wake' = [wake EXCEPT !.waits = FALSE, !.permit = FALSE]
  /\ UNCHANGED <<load, conns, bytes, tasks, queue, peer, forward>>

(* The user of the client removes the forward (the tasks of its connections *)
(* are told, the sockets closed), or adds it again.                         *)
RemoveForward ==
  /\ load.side = "client" /\ forward.active
  /\ forward' = [forward EXCEPT !.active = FALSE]
  /\ Pump([h \in Handles |-> IF h \in Live THEN [conns[h] EXCEPT !.shut = TRUE] ELSE None],
          [i \in Tasks |-> [tasks[i] EXCEPT !.stop = @ \/ HasSender(i)]], 0)
  /\ Awake /\ UNCHANGED queue

AddForward ==
  /\ load.side = "client" /\ ~forward.active
  /\ forward' = [forward EXCEPT !.active = TRUE]
  /\ Pump(conns, tasks, 0)
  /\ Awake /\ UNCHANGED queue

Stream ==
  /\ load.side = "client" /\ forward.active /\ forward.backlog = 0
  /\ forward' = [forward EXCEPT !.backlog = 1]
  /\ UNCHANGED <<load, conns, bytes, tasks, queue, wake, peer>>

teardown_peer == conns' = [h \in Handles |-> None] /\ bytes' = bytes - Total(conns)

(* The client authenticates again: its session is replaced. *)
Reauthenticated ==
  /\ load.side = "server" /\ Live # {}
  /\ teardown_peer
  /\ Awake /\ UNCHANGED <<tasks, queue, forward>>

(* TEARDOWN or the sweep: the peer is removed, and a new one starts to      *)
(* count its generations from 1.                                            *)
PeerRemoved ==
  /\ load.side = "server" /\ Live # {} /\ peer.met < MaxPeers
  /\ teardown_peer
  /\ peer' = [met |-> peer.met + 1, next |-> 1]
  /\ LoopTurns /\ UNCHANGED <<load, tasks, queue, forward>>

(* The client's session ends.  The next one has channels of its own, and    *)
(* the tasks of this one end.                                               *)
SessionEnds ==
  /\ load.side = "client" /\ Live # {}
  /\ conns' = [h \in Handles |-> None] /\ bytes' = 0 /\ queue' = <<>>
  /\ tasks' = [i \in Tasks |-> IF tasks[i].pc = "unborn" THEN Unborn
                               ELSE [Unborn EXCEPT !.pc = "gone"]]
  /\ wake' = [keys |-> {}, permit |-> FALSE, waits |-> FALSE]
  /\ peer' = [peer EXCEPT !.next = 1]
  /\ forward' = [forward EXCEPT !.backlog = 0, !.next = 1]
  /\ UNCHANGED load

-----------------------------------------------------------------------------
(* The tasks.  A receiver notifies the loop after it took a message, and    *)
(* when it is dropped: the key is inserted, and the loop notified if the    *)
(* key was new.                                                             *)
Settled(t) ==
  IF t.pc = "gone" /\ t.note = "idle" THEN [Unborn EXCEPT !.pc = "gone", !.met = t.met] ELSE t
LoopKept == UNCHANGED <<load, conns, bytes, peer, forward>>
Becomes(i, t) == tasks' = [tasks EXCEPT ![i] = Settled(t)]
Runs(i, pcs) == tasks[i].pc \in pcs /\ tasks[i].note = "idle"

Insert(i) ==
  /\ tasks[i].note = "insert"
  /\ wake' = [wake EXCEPT !.keys = @ \cup {Key(i)}]
  /\ Becomes(i, [tasks[i] EXCEPT !.note = IF Key(i) \in wake.keys THEN "idle" ELSE "notify"])
  /\ LoopKept /\ UNCHANGED queue

Notify(i) ==
  /\ tasks[i].note = "notify"
  /\ wake' = [wake EXCEPT !.permit = TRUE]
  /\ Becomes(i, [tasks[i] EXCEPT !.note = "idle"])
  /\ LoopKept /\ UNCHANGED queue

(* What a task does next after a message: write it, which may fail; dial    *)
(* once the destination is complete, which may fail or be forbidden.  After *)
(* the end of the stream the server goes on reading, the client leaves.     *)
AfterTake(pc, what) ==
  CASE pc = "header" /\ what = "data" -> {"header", "relay", "closing"}
    [] pc = "header" /\ what = "eof" -> {"closing"}
    [] what = "data" -> {"relay", "closing"}
    [] OTHER -> IF load.side = "server" THEN {"writer_done", "closing"} ELSE {"closing"}

Take(i) ==
  /\ Runs(i, {"header", "relay"}) /\ tasks[i].open /\ tasks[i].chan # <<>>
  /\ \E pc \in AfterTake(tasks[i].pc, Head(tasks[i].chan)) :
       Becomes(i, [tasks[i] EXCEPT !.chan = Tail(@), !.pc = pc, !.note = "insert"])
  /\ LoopKept /\ UNCHANGED <<queue, wake>>

(* The loop has dropped the connection and all it had sent is taken. *)
HungUp(i) ==
  /\ Runs(i, {"header", "relay"}) /\ tasks[i].open
  /\ tasks[i].chan = <<>> /\ ~HasSender(i)
  /\ Becomes(i, [tasks[i] EXCEPT !.pc =
       IF @ = "relay" /\ load.side = "server" THEN "writer_done" ELSE "closing"])
  /\ LoopKept /\ UNCHANGED <<queue, wake>>

(* The receiver is dropped with the writer, or with the task. *)
Drop(i) ==
  /\ Runs(i, {"writer_done", "leaving"})
  /\ Becomes(i, [tasks[i] EXCEPT !.open = FALSE, !.chan = IF tasks[i].open THEN <<>> ELSE @,
                                 !.note = IF tasks[i].open THEN "insert" ELSE "idle",
                                 !.pc = IF @ = "leaving" THEN "gone" ELSE "relay"])
  /\ LoopKept /\ UNCHANGED <<queue, wake>>

Read(i) ==
  /\ Runs(i, {"relay"}) /\ ~tasks[i].eof /\ tasks[i].out < load.out
  /\ Becomes(i, [tasks[i] EXCEPT !.pc = "sending", !.out = @ + 1])
  /\ LoopKept /\ UNCHANGED <<queue, wake>>

(* The kernel socket is at its end: the server's task leaves, the client's  *)
(* goes on writing.  An error ends both.                                    *)
ReadEnds(i) ==
  /\ Runs(i, {"relay"}) /\ ~tasks[i].eof
  /\ \E pc \in IF load.side = "server" THEN {"closing"} ELSE {"closing", "half_closing"} :
       Becomes(i, [tasks[i] EXCEPT !.pc = pc, !.eof = TRUE])
  /\ LoopKept /\ UNCHANGED <<queue, wake>>

Stopped(i) ==
  /\ Runs(i, {"relay"}) /\ tasks[i].stop
  /\ Becomes(i, [tasks[i] EXCEPT !.pc = "closing"])
  /\ LoopKept /\ UNCHANGED <<queue, wake>>

Send(i) ==
  /\ Runs(i, {"sending", "closing", "half_closing"}) /\ Len(queue) < Queue
  /\ LET t == tasks[i]
     IN /\ queue' = Append(queue, [h |-> t.h, gen |-> t.gen, task |-> i,
                                   kind |-> IF t.pc = "sending" THEN "data" ELSE "close"])
        /\ Becomes(i, [t EXCEPT !.pc = IF @ = "closing" THEN "leaving" ELSE "relay"])
  /\ LoopKept /\ UNCHANGED wake

-----------------------------------------------------------------------------
Init ==
  /\ load \in Loads
  /\ conns = [h \in 1..load.handles |-> None]
  /\ bytes = 0
  /\ tasks = [i \in 1..load.tasks |-> Unborn]
  /\ queue = <<>>
  /\ wake = [keys |-> {}, permit |-> FALSE, waits |-> FALSE]
  /\ peer = [met |-> 0, next |-> 1]
  /\ forward = [active |-> load.side = "client", backlog |-> 0, next |-> 1]

TaskSteps(i) ==
  Insert(i) \/ Notify(i) \/ Take(i) \/ HungUp(i) \/ Drop(i) \/ Stopped(i) \/ Send(i)

Next ==
  \/ Packet \/ Timer \/ Accept \/ Connect \/ Message \/ TakeKeys \/ Wait \/ Noticed
  \/ RemoveForward \/ AddForward \/ Stream \/ Reauthenticated \/ PeerRemoved \/ SessionEnds
  \/ \E i \in Tasks : TaskSteps(i) \/ Read(i) \/ ReadEnds(i)

Spec == Init /\ [][Next]_vars

-----------------------------------------------------------------------------
(* Types; the channel of a task and the queue keep their capacity, and the  *)
(* bytes exceed theirs by no more than the first chunks of connections.     *)
TypeOK ==
  /\ bytes \in 0..(MaxBytes + Cardinality(Handles))
  /\ Len(queue) <= Queue
  /\ \A i \in Tasks : Len(tasks[i].chan) <= Capacity
  /\ forward.next \in 1..Ports
  /\ \A g, h \in Live : conns[g].task = conns[h].task => g = h

(* pending_tx_bytes is what is queued for the sockets, whatever ends: it is *)
(* the only brake of the relay, and an excess that no connection accounts   *)
(* for would stop the loop from reading its tasks' messages for ever.       *)
BytesAreQueued == bytes = Total(conns)

(* The generation keeps a message of an earlier connection away from the    *)
(* one that has its handle now, as long as the server knows its peer.       *)
GenerationsHold == \A h \in Live : \A i \in conns[h].alien : tasks[i].met < peer.met

Unread(i) == {n \in DOMAIN queue : queue[n].task = i /\ queue[n].kind = "data"}

(* A connection that its own task closes is closed after the last byte the  *)
(* task has read was handed to the stack (close_after_flush); the other end *)
(* has closed first, or the forward was removed, where it is not.           *)
ClosedComplete ==
  [][\A h \in Live :
       (/\ h \in Live' /\ ~conns[h].shut /\ conns'[h].shut /\ ~conns'[h].fin
        /\ conns'[h].alien = {} /\ forward'.active = forward.active)
         => conns'[h].pend = <<>> /\ Unread(conns[h].task)' = {}]_vars

(* Two connections of the client never share a local port: it stays taken   *)
(* until the socket is removed.                                             *)
PortsDistinct ==
  load.side = "client" => \A g, h \in Live : conns[g].port = conns[h].port => g = h

(* Work that the loop could do for a connection. *)
Work(c, t) ==
  \/ Moves(c, t) > 0
  \/ Reaped(c, t)
  \/ TellsEof(c, t) /\ ~c.shut /\ (Room(t) \/ ~t.open)

(* No wake-up is lost: a loop that waits has either nothing to do or a      *)
(* notice on its way, however insertion, notification and drain interleave  *)
(* (RelayWake::notify, recv, RelayReceiver::drop).                          *)
NoLostWake ==
  \A h \in Live :
    LET i == conns[h].task IN
    Work(conns[h], tasks[i]) /\ wake.waits =>
      \/ tasks[i].note = "insert"
      \/ <<h, conns[h].gen>> \in wake.keys /\ (wake.permit \/ \E j \in Tasks : tasks[j].note = "notify")

(* Ports are distinct, what arrives belongs to the connection its handle    *)
(* stands for now, and no connection with something to do sleeps            *)
(* (handle generations, wake).                                              *)
RelayInvariant == TypeOK /\ PortsDistinct /\ GenerationsHold /\ NoLostWake
=============================================================================
