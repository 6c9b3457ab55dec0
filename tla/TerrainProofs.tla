---------------------------- MODULE TerrainProofs ----------------------------
(***************************************************************************)
(* Proofs about Terrain for any number of frames under way, of retries and *)
(* failures, and for any load: the two ends of a session agree on it, no   *)
(* key and counter seal two frames before the counter wraps, a MAC with a  *)
(* session is not locked out, and no frame that arrives breaks a link.     *)
(***************************************************************************)
EXTENDS Terrain, FiniteSetTheorems, WellFoundedInduction, TLAPS

Frames ==
  [t : {"DISCOVER"}, did : Nat] \cup [t : {"RESP"}, sn : Nat, did : Nat]
  \cup [t : {"AUTH_REQ"}, sn : Nat, cn : Maybe, ok : BOOLEAN]
  \cup [t : {"AUTH_ACK"}, sn : Nat, cn : Maybe, sid : Nat]
  \cup [t : {"AUTH_NACK"}, sn : Maybe, why : {"locked", "failed"}]
  \cup {f \in [t : Payloads \cup {"TEARDOWN"}, dir : {"c2s", "s2c"}, sn : Nat, cn : Maybe,
                sid : Nat, seq : Nat, no : Nat] : f.seq = f.no % SeqSpace}

Clients ==
  [phase : {"next", "discovering", "await", "session", "ended"}, did : Maybe, sn : Maybe,
   cn : Maybe, sid : Maybe, tx : Nat, rx : Maybe, tries : Nat, missed : Nat]

(* What the records and frames look like. *)
NetShape == net \subseteq Frames /\ IsFiniteSet(net) /\ Cardinality(net) <= MaxNet
ClientShape ==
  /\ client \in Clients
  /\ client.phase = "discovering" => client.did \in Nat
  /\ client.phase \in {"await", "session"} => client.sn \in Nat
  /\ client.phase = "session" => client.sid \in Nat
PeerShape ==
  peer # None => /\ peer \in Peers
                 /\ peer.sess.sid # None => peer.sess.sn \in Nat
                 /\ peer.pending.did # None => peer.pending.sn \in Nat
Shapes == ClientShape /\ PeerShape /\ NetShape /\ load \in Loads

-----------------------------------------------------------------------------
(* Random numbers: what Fresh returns occurs nowhere *)

LEMMA LeastIsIn ==
  ASSUME NEW S \in SUBSET Nat, S # {}
  PROVE  Least(S) \in S
<1> DEFINE R == {p \in Nat \X Nat : p[1] < p[2]}
<1>1. IsWellFoundedOn(R, Nat)
  BY NatLessThanWellFounded DEF OpToRel
<1>2. \E n \in S : \A k \in S : ~(<<k, n>> \in R)
  <2> HIDE DEF R
  <2> QED
    BY <1>1, WFMin
<1>3. \A k, n \in Nat : ~(<<k, n>> \in R) => n <= k
  OBVIOUS
<1>4. \E n \in S : \A k \in S : n <= k
  <2> HIDE DEF R
  <2> QED
    BY <1>2, <1>3
<1> QED
  BY <1>4 DEF Least

LEMMA OneMore ==
  ASSUME NEW S, IsFiniteSet(S), NEW e
  PROVE  /\ IsFiniteSet(S \cup {e}) /\ Cardinality(S \cup {e}) \in Nat
         /\ Cardinality(S) \in Nat /\ Cardinality(S \cup {e}) <= Cardinality(S) + 1
<1>1. IsFiniteSet(S \cup {e})
  BY FS_AddElement
<1>2. Cardinality(S) \in Nat /\ Cardinality(S \cup {e}) \in Nat
  BY <1>1, FS_CardinalityType
<1>3. Cardinality(S \cup {e}) = IF e \in S THEN Cardinality(S) ELSE Cardinality(S) + 1
  BY FS_AddElement
<1> QED
  BY <1>1, <1>2, <1>3

LEMMA FewInUse ==
  ASSUME Shapes, NEW x \in {"did", "sn", "cn"}
  PROVE  IsFiniteSet(InUse(x)) /\ Cardinality(InUse(x)) <= MaxNet + 3
<1> DEFINE G == {g \in net : x \in DOMAIN g}
           V == {f[x] : f \in G}
           h == [f \in G |-> f[x]]
<1>1. IsFiniteSet(G) /\ Cardinality(G) <= MaxNet
  <2>1. G \in SUBSET net
    OBVIOUS
  <2>2. IsFiniteSet(G) /\ Cardinality(G) <= Cardinality(net)
    BY <2>1, FS_Subset DEF Shapes, NetShape
  <2>3. Cardinality(G) \in Nat /\ Cardinality(net) \in Nat
    BY <2>2, FS_CardinalityType DEF Shapes, NetShape
  <2> QED
    BY <2>2, <2>3, TerrainBounds DEF Shapes, NetShape
<1>2. IsFiniteSet(V) /\ Cardinality(V) <= Cardinality(G)
  <2>1. h \in Surjection(G, V)
    BY DEF Surjection
  <2> HIDE DEF G, V, h
  <2> QED
    BY <1>1, <2>1, FS_Surjection
<1> HIDE DEF G, V
<1>3. Cardinality(G) \in Nat /\ Cardinality(V) \in Nat /\ MaxNet \in Nat
  BY <1>1, <1>2, FS_CardinalityType, TerrainBounds
<1>4. ASSUME NEW a, NEW b, NEW c
      PROVE  /\ IsFiniteSet(V \cup {a} \cup {b} \cup {c})
             /\ Cardinality(V \cup {a} \cup {b} \cup {c}) <= MaxNet + 3
  <2> DEFINE A == V \cup {a}
             B == A \cup {b}
  <2>1. IsFiniteSet(A) /\ Cardinality(A) \in Nat /\ Cardinality(A) <= Cardinality(V) + 1
    BY <1>2, OneMore
  <2> HIDE DEF A
  <2>2. IsFiniteSet(B) /\ Cardinality(B) \in Nat /\ Cardinality(B) <= Cardinality(A) + 1
    BY <2>1, OneMore
  <2> HIDE DEF B
  <2>3. /\ IsFiniteSet(B \cup {c}) /\ Cardinality(B \cup {c}) \in Nat
        /\ Cardinality(B \cup {c}) <= Cardinality(B) + 1
    BY <2>2, OneMore
  <2>4. IsFiniteSet(B \cup {c}) /\ Cardinality(B \cup {c}) <= MaxNet + 3
    BY <1>1, <1>2, <1>3, <2>1, <2>2, <2>3
  <2> QED
    BY <2>4 DEF A, B
<1>5. InUse(x) = V \cup {client[x]} \cup {client[x]} \cup {client[x]}
      \/ InUse(x) = V \cup {client[x]} \cup {peer.sess[x]} \cup {peer.pending[x]}
  BY DEF InUse, V, G
<1>6. CASE InUse(x) = V \cup {client[x]} \cup {client[x]} \cup {client[x]}
  <2> DEFINE W == V \cup {client[x]} \cup {client[x]} \cup {client[x]}
  <2>1. IsFiniteSet(W) /\ Cardinality(W) <= MaxNet + 3
    BY <1>4
  <2> HIDE DEF W
  <2> QED
    BY <1>6, <2>1, Zenon DEF W
<1>7. CASE InUse(x) = V \cup {client[x]} \cup {peer.sess[x]} \cup {peer.pending[x]}
  <2> DEFINE W == V \cup {client[x]} \cup {peer.sess[x]} \cup {peer.pending[x]}
  <2>1. IsFiniteSet(W) /\ Cardinality(W) <= MaxNet + 3
    BY <1>4
  <2> HIDE DEF W
  <2> QED
    BY <1>7, <2>1, Zenon DEF W
<1> QED
  BY <1>5, <1>6, <1>7

LEMMA FreshIsNew ==
  ASSUME Shapes, NEW x \in {"did", "sn", "cn"}, NEW hint \in Nat
  PROVE  Fresh(hint, x) \in Nat /\ Fresh(hint, x) \notin InUse(x)
<1> DEFINE All == 1..(MaxNet + 4)
           Left == All \ InUse(x)
<1>0. MaxNet \in Nat
  BY TerrainBounds
<1>1. Left # {}
  <2>1. SUFFICES ASSUME All \in SUBSET InUse(x) PROVE FALSE
    OBVIOUS
  <2>2. IsFiniteSet(InUse(x)) /\ Cardinality(InUse(x)) <= MaxNet + 3
    BY FewInUse
  <2>3. Cardinality(All) <= Cardinality(InUse(x))
    BY <2>1, <2>2, FS_Subset
  <2>4. Cardinality(All) = MaxNet + 4
    BY <1>0, FS_Interval
  <2>5. Cardinality(InUse(x)) \in Nat
    BY <2>2, FS_CardinalityType
  <2> QED
    BY <1>0, <2>2, <2>3, <2>4, <2>5
<1>2. Left \in SUBSET Nat
  BY <1>0
<1>3. Least(Left) \in Left
  BY <1>1, <1>2, LeastIsIn
<1> QED
  BY <1>0, <1>3 DEF Fresh

-----------------------------------------------------------------------------
(* What a frame under way carries, and where numbers occur *)

LEMMA FrameFields ==
  ASSUME NEW f \in Frames
  PROVE  /\ f.t \in {"DISCOVER", "RESP"} => f.did \in Nat /\ "did" \in DOMAIN f
         /\ f.t \in {"RESP", "AUTH_REQ", "AUTH_ACK"} \/ Sealed(f) => f.sn \in Nat
         /\ f.t \in {"RESP", "AUTH_REQ", "AUTH_ACK", "AUTH_NACK"} \/ Sealed(f)
              => "sn" \in DOMAIN f
         /\ f.t \in {"AUTH_REQ", "AUTH_ACK"} \/ Sealed(f) => f.cn \in Maybe /\ "cn" \in DOMAIN f
         /\ f.t = "AUTH_ACK" \/ Sealed(f) => f.sid \in Nat
         /\ f.t = "AUTH_NACK" => f.sn \in Maybe
         /\ Sealed(f) => /\ f.seq \in Nat /\ f.no \in Nat /\ f.seq = f.no % SeqSpace
                         /\ f.dir \in {"c2s", "s2c"}
  BY DEF Frames, Sealed, Payloads, Maybe

LEMMA FramesMade ==
  /\ \A d \in Nat : Discover(d) \in Frames
  /\ \A n, d \in Nat : Resp(n, d) \in Frames
  /\ \A n \in Nat, c \in Maybe, ok \in BOOLEAN : AuthReq(n, c, ok) \in Frames
  /\ \A n \in Nat, c \in Maybe, i \in Nat : Ack(n, c, i) \in Frames
  /\ \A n \in Maybe, why \in {"locked", "failed"} : Nack(n, why) \in Frames
  /\ \A t \in Payloads \cup {"TEARDOWN"}, dir \in {"c2s", "s2c"}, s \in Sessions, q \in Nat :
       s.sn \in Nat /\ s.sid \in Nat => SessionFrame(t, dir, s, q) \in Frames
<1>1. \A d \in Nat : Discover(d) \in Frames
  BY DEF Frames, Discover
<1>2. \A n, d \in Nat : Resp(n, d) \in Frames
  BY DEF Frames, Resp
<1>3. \A n \in Nat, c \in Maybe, ok \in BOOLEAN : AuthReq(n, c, ok) \in Frames
  BY Zenon DEF Frames, AuthReq
<1>4. \A n \in Nat, c \in Maybe, i \in Nat : Ack(n, c, i) \in Frames
  BY DEF Frames, Ack
<1>5. \A n \in Maybe, why \in {"locked", "failed"} : Nack(n, why) \in Frames
  BY DEF Frames, Nack
<1>6. \A t \in Payloads \cup {"TEARDOWN"}, dir \in {"c2s", "s2c"}, s \in Sessions, q \in Nat :
       s.sn \in Nat /\ s.sid \in Nat => SessionFrame(t, dir, s, q) \in Frames
  <2> TAKE t \in Payloads \cup {"TEARDOWN"}, dir \in {"c2s", "s2c"}, s \in Sessions, q \in Nat
  <2> HAVE s.sn \in Nat /\ s.sid \in Nat
  <2> DEFINE w == q % SeqSpace
             f == SessionFrame(t, dir, s, q)
  <2>1. w \in Nat /\ s.cn \in Maybe
    BY TerrainBounds DEF Sessions
  <2>2. f = [t |-> t, dir |-> dir, sn |-> s.sn, cn |-> s.cn, sid |-> s.sid, seq |-> w, no |-> q]
    BY Zenon DEF SessionFrame
  <2> HIDE DEF w, f
  <2>3. f \in [t : Payloads \cup {"TEARDOWN"}, dir : {"c2s", "s2c"}, sn : Nat, cn : Maybe,
               sid : Nat, seq : Nat, no : Nat]
    BY <2>1, <2>2
  <2>4. f.seq = f.no % SeqSpace
    BY <2>2 DEF w
  <2>5. f \in Frames
    BY <2>3, <2>4, Zenon DEF Frames
  <2> QED
    BY <2>5 DEF f
<1> QED
  BY <1>1, <1>2, <1>3, <1>4, <1>5, <1>6

LEMMA WhereInUse ==
  ASSUME Shapes
  PROVE  /\ \A f \in net :
              /\ f.t \in {"DISCOVER", "RESP"} => f.did \in InUse("did")
              /\ f.t \in {"RESP", "AUTH_REQ", "AUTH_ACK", "AUTH_NACK"} \/ Sealed(f)
                   => f.sn \in InUse("sn")
              /\ f.t \in {"AUTH_REQ", "AUTH_ACK"} \/ Sealed(f) => f.cn \in InUse("cn")
         /\ client.did \in InUse("did") /\ client.sn \in InUse("sn") /\ client.cn \in InUse("cn")
         /\ peer # None =>
              /\ peer.sess.sn \in InUse("sn") /\ peer.sess.cn \in InUse("cn")
              /\ peer.pending.did \in InUse("did") /\ peer.pending.sn \in InUse("sn")
<1>1. ASSUME NEW f \in net
      PROVE  /\ f.t \in {"DISCOVER", "RESP"} => f.did \in InUse("did")
             /\ f.t \in {"RESP", "AUTH_REQ", "AUTH_ACK", "AUTH_NACK"} \/ Sealed(f)
                  => f.sn \in InUse("sn")
             /\ f.t \in {"AUTH_REQ", "AUTH_ACK"} \/ Sealed(f) => f.cn \in InUse("cn")
  <2>1. f \in Frames
    BY DEF Shapes, NetShape
  <2> QED
    BY <2>1, FrameFields DEF InUse
<1>2. client.did \in InUse("did") /\ client.sn \in InUse("sn") /\ client.cn \in InUse("cn")
  BY DEF InUse
<1>3. peer # None =>
        /\ peer.sess.sn \in InUse("sn") /\ peer.sess.cn \in InUse("cn")
        /\ peer.pending.did \in InUse("did") /\ peer.pending.sn \in InUse("sn")
  BY DEF InUse
<1> QED
  BY <1>1, <1>2, <1>3

-----------------------------------------------------------------------------
(* What a step does to the link, whatever the link loses or repeats. *)

Adds(S) == net' \subseteq net \cup S

LEMMA Sending ==
  ASSUME NetShape, NEW S \in SUBSET Frames, IsFiniteSet(S), net' = Send(S)
  PROVE  NetShape' /\ Adds(S)
<1>1. IsFiniteSet(net \cup S)
  BY FS_Union DEF NetShape
<1> QED
  BY <1>1 DEF NetShape, Send, Fits, Adds

LEMMA Receiving ==
  ASSUME NetShape, NEW f \in net, NEW S \in SUBSET Frames, IsFiniteSet(S), Received(f, S)
  PROVE  NetShape' /\ Adds(S)
<1>1. PICK left \in {net, net \ {f}} :
        net' = IF Fits(left \cup S) THEN left \cup S ELSE left
  BY DEF Received
<1>2. IsFiniteSet(left) /\ Cardinality(left) <= MaxNet /\ left \subseteq net
  <2>1. CASE left = net
    BY <2>1 DEF NetShape
  <2>2. CASE left = net \ {f}
    <3>1. left \in SUBSET net
      BY <2>2
    <3>2. IsFiniteSet(left) /\ Cardinality(left) <= Cardinality(net)
      BY <3>1, FS_Subset DEF NetShape
    <3>3. Cardinality(left) \in Nat /\ Cardinality(net) \in Nat
      BY <3>2, FS_CardinalityType DEF NetShape
    <3> QED
      BY <3>1, <3>2, <3>3, TerrainBounds DEF NetShape
  <2> QED
    BY <2>1, <2>2
<1>3. IsFiniteSet(left \cup S)
  BY <1>2, FS_Union
<1> QED
  BY <1>1, <1>2, <1>3 DEF NetShape, Fits, Adds

(* A frame that is dropped, or received without an answer. *)
LEMMA Dropping ==
  ASSUME NetShape, NEW f \in net, net' = net \/ net' = net \ {f} \/ Received(f, {})
  PROVE  NetShape' /\ Adds({})
<1>1. {} \in SUBSET Frames /\ IsFiniteSet({})
  BY FS_EmptySet
<1>2. CASE Received(f, {})
  BY <1>1, <1>2, Receiving
<1>3. CASE net' = net \/ net' = net \ {f}
  <2>1. net' \in SUBSET net
    BY <1>3
  <2>2. IsFiniteSet(net') /\ Cardinality(net') <= Cardinality(net)
    BY <2>1, FS_Subset DEF NetShape
  <2>3. Cardinality(net') \in Nat /\ Cardinality(net) \in Nat
    BY <2>2, FS_CardinalityType DEF NetShape
  <2> QED
    BY <2>1, <2>2, <2>3, TerrainBounds DEF NetShape, Adds
<1> QED
  BY <1>2, <1>3

LEMMA SmallSets == \A a, b : IsFiniteSet({a}) /\ IsFiniteSet({a, b})
<1> SUFFICES ASSUME NEW a, NEW b PROVE IsFiniteSet({a}) /\ IsFiniteSet({a, b})
  OBVIOUS
<1>1. IsFiniteSet({a})
  BY FS_Singleton
<1>2. IsFiniteSet({a} \cup {b})
  BY <1>1, FS_AddElement
<1>3. {a} \cup {b} = {a, b}
  OBVIOUS
<1> QED
  BY <1>1, <1>2, <1>3

-----------------------------------------------------------------------------
(* The kinds of steps, by what they do to the two ends and to the link *)

ClientKept ==
  /\ client'.phase = client.phase /\ client'.did = client.did /\ client'.sn = client.sn
  /\ client'.cn = client.cn /\ client'.sid = client.sid /\ client'.tx = client.tx
ClientOut == client'.phase \in {"next", "ended"}
SessKept ==
  /\ peer'.sess.sn = peer.sess.sn /\ peer'.sess.cn = peer.sess.cn
  /\ peer'.sess.sid = peer.sess.sid /\ peer'.sess.tx = peer.sess.tx
PendingKept == peer'.pending.did = peer.pending.did /\ peer'.pending.sn = peer.pending.sn
PeerKept == peer' # None => peer # None /\ SessKept /\ (PendingKept \/ peer'.pending.sn = None)

(* Nothing new is said. *)
Quietly == Adds({}) /\ (ClientKept \/ ClientOut) /\ PeerKept

Discovers ==
  \E d \in Nat \ InUse("did") :
    /\ Adds({Discover(d)}) /\ PeerKept
    /\ client'.phase = "discovering" /\ client'.did = d /\ client'.tx = 0

Responds ==
  \E d, n \in Nat :
    /\ Adds({Resp(n, d)}) /\ ClientKept
    /\ peer'.pending.did = d /\ peer'.pending.sn = n
    /\ IF peer = None THEN peer'.sess.sid = None /\ peer'.sess.sn = None ELSE SessKept
    /\ n \notin InUse("sn") \/ (peer # None /\ peer.pending.did = d /\ peer.pending.sn = n)

Requests ==
  \E f \in net, c \in Nat \ InUse("cn") :
    /\ f.t = "RESP" /\ client.phase = "discovering" /\ f.did = client.did
    /\ Adds({AuthReq(f.sn, c, TRUE)}) /\ PeerKept
    /\ client'.phase = "await" /\ client'.sn = f.sn /\ client'.cn = c /\ client'.tx = client.tx

Enters ==
  \E f \in net :
    /\ f.t = "AUTH_ACK" /\ client.phase = "await" /\ f.sn = client.sn /\ f.cn = client.cn
    /\ client'.phase = "session" /\ client'.sid = f.sid
    /\ client'.sn = client.sn /\ client'.cn = client.cn /\ client'.tx = client.tx
    /\ Adds({}) /\ PeerKept

Accepts ==
  \E f \in net :
    /\ f.t = "AUTH_REQ" /\ f.ok /\ peer # None /\ f.sn = peer.pending.sn
    /\ Adds({Ack(f.sn, f.cn, peer.next)}) /\ ClientKept
    /\ peer'.pending.sn = None
    /\ peer'.sess.sn = f.sn /\ peer'.sess.cn = f.cn
    /\ peer'.sess.sid = peer.next /\ peer'.sess.tx = 0
    /\ guard' = NoGuard

Refuses ==
  /\ peer # None /\ ClientKept
  /\ \E why \in {"locked", "failed"} : Adds({Nack(peer.pending.sn, why)})
  /\ peer' # None => SessKept /\ peer'.pending.sn = None

ClientFrame(t, n) == SessionFrame(t, "c2s", SessionOf(client), n)
ClientSeals ==
  /\ client.phase = "session" /\ PeerKept
  /\ \/ /\ \E t \in Payloads : Adds({ClientFrame(t, client.tx)})
        /\ client'.phase = client.phase /\ client'.sn = client.sn /\ client'.cn = client.cn
        /\ client'.sid = client.sid /\ client'.tx = client.tx + 1
     \/ /\ ClientOut
        /\ \/ \E t \in Payloads : Adds({ClientFrame(t, client.tx), ClientFrame("TEARDOWN", client.tx + 1)})
           \/ Adds({ClientFrame("TEARDOWN", client.tx)})

ServerFrame(t) == SessionFrame(t, "s2c", peer.sess, peer.sess.tx)
ServerSeals ==
  /\ Active /\ ClientKept
  /\ \/ /\ \E t \in Payloads : Adds({ServerFrame(t)})
        /\ peer'.sess.sn = peer.sess.sn /\ peer'.sess.cn = peer.sess.cn
        /\ peer'.sess.sid = peer.sess.sid /\ peer'.sess.tx = peer.sess.tx + 1
        /\ PendingKept
     \/ peer' = None /\ Adds({ServerFrame("TEARDOWN")})

Misproves ==
  /\ ClientKept /\ PeerKept /\ peer # None /\ peer.pending.sn # None
  /\ Adds({AuthReq(peer.pending.sn, None, FALSE)})

Kinds ==
  \/ Quietly \/ Discovers \/ Responds \/ Requests \/ Enters \/ Accepts \/ Refuses
  \/ ClientSeals \/ ServerSeals \/ Misproves

-----------------------------------------------------------------------------
(* The inductive invariant.  Its parts, by what is under way. *)

(* One server nonce is one session: what was answered with it. *)
AcksAgree ==
  \A f \in net : f.t = "AUTH_ACK" =>
    /\ Active /\ f.sn = peer.sess.sn => f.cn = peer.sess.cn /\ f.sid = peer.sess.sid
    /\ peer # None => f.sn # peer.pending.sn
    /\ \A g \in net : g.t = "AUTH_ACK" /\ f.sn = g.sn => f = g

(* A nonce that waits for a request has been used for its RESP only. *)
PendingUnused ==
  peer # None /\ peer.pending.sn # None =>
    /\ peer.sess.sn # peer.pending.sn
    /\ client.phase = "session" => client.sn # peer.pending.sn
    /\ \A f \in net :
         /\ f.t = "AUTH_NACK" => f.sn # peer.pending.sn
         /\ Sealed(f) /\ f.dir = "s2c" => f.sn # peer.pending.sn
         /\ f.t = "RESP" /\ f.sn = peer.pending.sn => f.did = peer.pending.did

AnswersDiffer ==
  \A f, g \in net :
    /\ f.t = "RESP" /\ g.t = "RESP" /\ f.sn = g.sn => f = g
    /\ f.t = "AUTH_NACK" /\ g.t = "AUTH_NACK" /\ f.sn # None /\ f.sn = g.sn => f = g

(* A client asks once for a nonce: no RESP it still waits for has the nonce *)
(* of a request under way, and a request the server waits for is its own.   *)
Request(g) == g.t = "AUTH_REQ" /\ g.ok
AsksOnce ==
  /\ \A f, g \in net : Request(f) /\ Request(g) /\ f.sn = g.sn => f = g
  /\ client.phase = "discovering" =>
       \A f, g \in net : f.t = "RESP" /\ f.did = client.did /\ Request(g) => f.sn # g.sn
  /\ \A g \in net : Request(g) /\ peer # None /\ peer.pending.sn = g.sn =>
       \/ client.phase \in {"next", "ended"}
       \/ client.phase = "await" /\ client.sn = g.sn
       \/ /\ client.phase = "discovering" /\ peer.pending.did # client.did
          /\ \A f \in net : f.t = "RESP" => f.did # client.did

(* Sealed frames, and the next one of a session. *)
SealsOnce ==
  /\ client.phase \in {"discovering", "await"} => client.tx = 0
  /\ \A f \in net : Sealed(f) =>
       /\ client.phase \in {"await", "session"} /\ f.dir = "c2s" /\ f.cn = client.cn
            => f.no < client.tx /\ f.t # "TEARDOWN"
       /\ Active /\ f.dir = "s2c" /\ f.sn = peer.sess.sn
            => f.no < peer.sess.tx /\ f.t # "TEARDOWN"
       /\ \A g \in net : Sealed(g) /\ f.dir = g.dir /\ f.sn = g.sn /\ f.cn = g.cn /\ f.no = g.no
                           => f = g

Link == AcksAgree /\ Agreement /\ PendingUnused /\ AnswersDiffer /\ AsksOnce /\ SealsOnce

(* Counters and the lockout. *)
Guards == [fails : Nat, locked : BOOLEAN]
GuardKept ==
  /\ guard \in Guards /\ guard.fails <= MaxFails
  /\ guard.locked \/ guard.fails < MaxFails
  /\ SessionNotLockedOut
ClientCount ==
  client.tries <= MaxTries /\ client.missed + 1 <= MaxMissed /\ client.tx <= load.seq
PeerCount ==
  peer # None => /\ 1 <= peer.next /\ peer.next <= load.sids
                 /\ peer.sess.tx <= load.replies

TerrainInv == Shapes /\ Link /\ GuardKept /\ ClientCount /\ PeerCount

-----------------------------------------------------------------------------
(* What an assignment to the client or to the peer leaves. *)

Phases == {"next", "discovering", "await", "session", "ended"}

LEMMA ClientSearches ==
  ASSUME NEW c \in Clients, NEW d \in Maybe, NEW p \in Phases, NEW n \in Nat,
         client' = [c EXCEPT !.phase = p, !.did = d, !.tries = n]
  PROVE  /\ client' \in Clients /\ client'.phase = p /\ client'.did = d /\ client'.tries = n
         /\ client'.sn = c.sn /\ client'.cn = c.cn /\ client'.sid = c.sid /\ client'.tx = c.tx
         /\ client'.missed = c.missed
  BY DEF Clients, Phases

LEMMA ClientTries ==
  ASSUME NEW c \in Clients, NEW n \in Nat, client' = [c EXCEPT !.tries = n]
  PROVE  /\ client' \in Clients /\ client'.phase = c.phase /\ client'.tries = n
         /\ client'.tx = c.tx /\ client'.missed = c.missed
  BY DEF Clients

LEMMA ClientEnters ==
  ASSUME NEW c \in Clients, NEW p \in Phases, NEW i \in Maybe,
         client' = [c EXCEPT !.phase = p, !.sid = i, !.tries = 0]
  PROVE  /\ client' \in Clients /\ client'.phase = p /\ client'.sid = i
         /\ client'.sn = c.sn /\ client'.cn = c.cn /\ client'.did = c.did
         /\ client'.tx = c.tx /\ client'.tries = 0 /\ client'.missed = c.missed
  BY DEF Clients, Phases

LEMMA ClientHears ==
  ASSUME NEW c \in Clients, NEW r \in Maybe, client' = [c EXCEPT !.rx = r, !.missed = 0]
  PROVE  /\ client' \in Clients /\ client'.phase = c.phase /\ client'.sid = c.sid
         /\ client'.sn = c.sn /\ client'.cn = c.cn /\ client'.did = c.did
         /\ client'.tx = c.tx /\ client'.tries = c.tries /\ client'.missed = 0
  BY DEF Clients

LEMMA ClientSpeaks ==
  ASSUME NEW c \in Clients, NEW n \in Nat, NEW m \in Nat,
         client' = [c EXCEPT !.tx = n, !.missed = m]
  PROVE  /\ client' \in Clients /\ client'.phase = c.phase /\ client'.sid = c.sid
         /\ client'.sn = c.sn /\ client'.cn = c.cn /\ client'.did = c.did
         /\ client'.tx = n /\ client'.tries = c.tries /\ client'.missed = m
  BY DEF Clients

LEMMA ClientCounts ==
  ASSUME NEW c \in Clients, NEW n \in Nat, client' = [c EXCEPT !.tx = n]
  PROVE  /\ client' \in Clients /\ client'.phase = c.phase /\ client'.sid = c.sid
         /\ client'.sn = c.sn /\ client'.cn = c.cn /\ client'.did = c.did
         /\ client'.tx = n /\ client'.tries = c.tries /\ client'.missed = c.missed
  BY DEF Clients

LEMMA SessionOfClient ==
  ASSUME client \in Clients
  PROVE  /\ SessionOf(client) \in Sessions /\ SessionOf(client).sn = client.sn
         /\ SessionOf(client).cn = client.cn /\ SessionOf(client).sid = client.sid
         /\ SessionOf(client).tx = client.tx
  BY NoneIsNothing DEF SessionOf, Sessions, Clients, Maybe

LEMMA PeerPends ==
  ASSUME NEW p \in Peers, NEW q \in Pendings, peer' = [p EXCEPT !.pending = q]
  PROVE  /\ peer' \in Peers /\ peer'.pending = q /\ peer'.sess = p.sess /\ peer'.next = p.next
  BY DEF Peers

LEMMA PeerTalks ==
  ASSUME NEW p \in Peers, NEW s \in Sessions, peer' = [p EXCEPT !.sess = s]
  PROVE  /\ peer' \in Peers /\ peer'.pending = p.pending /\ peer'.sess = s /\ peer'.next = p.next
  BY DEF Peers

LEMMA PeerBegins ==
  ASSUME NEW q \in Pendings, NEW s \in Sessions, NEW n \in Nat,
         peer' = [pending |-> q, sess |-> s, next |-> n, old |-> FALSE]
  PROVE  /\ peer' \in Peers /\ peer'.pending = q /\ peer'.sess = s /\ peer'.next = n
  BY Zenon DEF Peers

LEMMA SessionRecords ==
  ASSUME NEW s \in Sessions, NEW r \in Nat
  PROVE  /\ [s EXCEPT !.rx = r] \in Sessions /\ [s EXCEPT !.rx = r].sn = s.sn
         /\ [s EXCEPT !.rx = r].cn = s.cn /\ [s EXCEPT !.rx = r].sid = s.sid
         /\ [s EXCEPT !.rx = r].tx = s.tx
         /\ [s EXCEPT !.tx = s.tx + 1] \in Sessions /\ [s EXCEPT !.tx = s.tx + 1].sn = s.sn
         /\ [s EXCEPT !.tx = s.tx + 1].cn = s.cn /\ [s EXCEPT !.tx = s.tx + 1].sid = s.sid
         /\ [s EXCEPT !.tx = s.tx + 1].tx = s.tx + 1
  BY DEF Sessions, Maybe

LEMMA SessionTakes ==
  ASSUME NEW s \in Sessions, NEW f, f.seq \in Nat
  PROVE  /\ Taken(s, f) \in Sessions /\ Taken(s, f).sn = s.sn
         /\ Taken(s, f).cn = s.cn /\ Taken(s, f).sid = s.sid /\ Taken(s, f).tx = s.tx
  BY SessionRecords DEF Taken

LEMMA SessionSays ==
  ASSUME NEW s \in Sessions
  PROVE  /\ Said(s) \in Sessions /\ Said(s).sn = s.sn
         /\ Said(s).cn = s.cn /\ Said(s).sid = s.sid /\ Said(s).tx = s.tx + 1
  BY SessionRecords DEF Said

LEMMA PeerRecords ==
  /\ NoPending \in Pendings /\ NoPending.did = None /\ NoPending.sn = None
  /\ NoSession \in Sessions /\ NoSession.sid = None /\ NoSession.sn = None /\ NoSession.tx = 0
  /\ NewPeer \in Peers /\ NewPeer.sess = NoSession /\ NewPeer.pending = NoPending
  /\ NewPeer.next = 1
<1>1. /\ NoPending \in Pendings /\ NoPending.did = None /\ NoPending.sn = None
      /\ NoSession \in Sessions /\ NoSession.sid = None /\ NoSession.sn = None /\ NoSession.tx = 0
  BY DEF NoPending, NoSession, Pendings, Sessions, Maybe
<1>2. /\ NewPeer \in Peers /\ NewPeer.sess = NoSession /\ NewPeer.pending = NoPending
      /\ NewPeer.next = 1
  <2>1. 1 \in Nat /\ FALSE \in BOOLEAN
    OBVIOUS
  <2> QED
    BY <1>1, <2>1, Zenon DEF NewPeer, Peers
<1> QED
  BY <1>1, <1>2

LEMMA PendingMade ==
  ASSUME NEW d \in Nat, NEW n \in Nat
  PROVE  LET q == [NoPending EXCEPT !.did = d, !.sn = n]
         IN  q \in Pendings /\ q.did = d /\ q.sn = n
  BY DEF NoPending, Pendings, Maybe

LEMMA SessionMade ==
  ASSUME NEW n \in Nat, NEW c \in Maybe, NEW i \in Nat
  PROVE  LET s == NewSession(n, c, i)
         IN  s \in Sessions /\ s.sn = n /\ s.cn = c /\ s.sid = i /\ s.tx = 0
  BY DEF NewSession, Sessions, Maybe

LEMMA PeerStays ==
  ASSUME PeerShape, peer' = peer
  PROVE  PeerShape' /\ PeerKept /\ SessKept /\ PendingKept
  BY DEF PeerShape, PeerKept, SessKept, PendingKept

LEMMA ClientStays ==
  ASSUME ClientShape, client' = client
  PROVE  ClientShape' /\ ClientKept
  BY DEF ClientShape, ClientKept

LEMMA Outside ==
  /\ Nowhere \in Clients /\ Nowhere.phase = "next" /\ Nowhere.tx = 0
  /\ Nowhere.tries = 0 /\ Nowhere.missed = 0
  /\ Ended \in Clients /\ Ended.phase = "ended" /\ Ended.tx = 0
  /\ Ended.tries = 0 /\ Ended.missed = 0
  BY DEF Nowhere, Ended, Clients, Maybe

(* A client that leaves whatever it was in. *)
LEMMA ClientLeaves ==
  ASSUME client' = Nowhere \/ client' = Ended
  PROVE  ClientShape' /\ ClientOut
  BY Outside DEF ClientShape, ClientOut

LEMMA KindOfClient ==
  ASSUME Shapes,
         discover_frame \/ HandshakeTimeout \/ Keepalive \/ ClientData \/ Shutdown \/ StartClient
  PROVE  Shapes' /\ Kinds
<1> USE DEF Shapes
<1>t. client \in Clients /\ client.tries \in Nat /\ client.tx \in Nat /\ client.missed \in Nat
  BY DEF ClientShape, Clients
<1>s. /\ SessionOf(client) \in Sessions /\ SessionOf(client).tx = client.tx
      /\ client.phase = "session" => SessionOf(client).sn \in Nat /\ SessionOf(client).sid \in Nat
  BY <1>t, SessionOfClient DEF ClientShape
<1>1. CASE discover_frame
  <2>0. PeerShape' /\ PeerKept /\ load' = load
    BY <1>1, PeerStays DEF discover_frame
  <2>1. CASE client.tries < MaxTries
    <3> DEFINE d == FreshId
    <3>1. d \in Nat /\ d \notin InUse("did")
      BY FreshIsNew DEF FreshId
    <3>2. NetShape' /\ Adds({Discover(d)})
      <4>1. Discover(d) \in Frames
        BY <3>1, FramesMade
      <4> QED
        BY <1>1, <2>1, <4>1, Sending, SmallSets DEF discover_frame
    <3>3. client' = [Nowhere EXCEPT !.phase = "discovering", !.did = d, !.tries = client.tries + 1]
      BY <1>1, <2>1 DEF discover_frame
    <3> HIDE DEF d
    <3>4. /\ client' \in Clients /\ client'.phase = "discovering" /\ client'.did = d
          /\ client'.tx = 0
      <4>1. d \in Maybe /\ client.tries + 1 \in Nat /\ "discovering" \in Phases
        BY <1>t, <3>1 DEF Maybe, Phases
      <4> QED
        BY <3>3, <4>1, Outside, ClientSearches
    <3> QED
      BY <2>0, <3>1, <3>2, <3>4 DEF ClientShape, Kinds, Discovers
  <2>2. CASE ~(client.tries < MaxTries)
    <3>1. client' = Nowhere /\ net' = net
      BY <1>1, <2>2 DEF discover_frame
    <3> QED
      BY <2>0, <3>1, ClientLeaves DEF NetShape, Adds, Kinds, Quietly
  <2> QED
    BY <2>1, <2>2
<1>2. CASE HandshakeTimeout
  <2>1. client' \in Clients /\ client'.phase = "next"
    BY <1>2, <1>t, Outside, ClientTries DEF HandshakeTimeout, Rediscover
  <2>2. /\ peer # None => /\ peer' \in Peers /\ peer'.sess = peer.sess
                           /\ peer'.pending = peer.pending
        /\ peer = None => peer' = None
    BY <1>2, Zenon DEF HandshakeTimeout, Aged, PeerShape, Peers
  <2> QED
    BY <1>2, <2>1, <2>2 DEF HandshakeTimeout, ClientShape, PeerShape, NetShape, Kinds, Quietly, Adds,
       ClientOut, PeerKept, SessKept, PendingKept
<1>3. CASE Keepalive
  <2> DEFINE f == ClientFrame("KEEPALIVE", client.tx)
             b == ClientFrame("TEARDOWN", client.tx + 1)
  <2>0. PeerShape' /\ PeerKept /\ load' = load /\ client.phase = "session"
    BY <1>3, PeerStays DEF Keepalive
  <2>1. f \in Frames /\ b \in Frames
    BY <1>s, <1>t, <2>0, FramesMade DEF ClientFrame, Payloads
  <2>2. /\ f = SessionFrame("KEEPALIVE", "c2s", SessionOf(client), SessionOf(client).tx)
        /\ {f} \cup Bye(Said(SessionOf(client))) = {f, b}
    <3>1. /\ Said(SessionOf(client)).sn = SessionOf(client).sn
          /\ Said(SessionOf(client)).cn = SessionOf(client).cn
          /\ Said(SessionOf(client)).sid = SessionOf(client).sid
          /\ Said(SessionOf(client)).tx = client.tx + 1
      BY DEF Said, SessionOf
    <3>2. Bye(Said(SessionOf(client))) = {b}
      BY <3>1 DEF Bye, SessionFrame, ClientFrame
    <3> QED
      BY <1>s, <3>2 DEF ClientFrame
  <2> HIDE DEF f, b
  <2>3. CASE client.missed + 1 >= MaxMissed
    <3>1. client' = Nowhere /\ net' = Send({f, b})
      BY <1>3, <2>2, <2>3 DEF Keepalive
    <3>2. NetShape' /\ Adds({f, b})
      <4>1. {f, b} \in SUBSET Frames /\ IsFiniteSet({f, b})
        BY <2>1, SmallSets
      <4> QED
        BY <3>1, <4>1, Sending
    <3> QED
      BY <2>0, <3>1, <3>2, ClientLeaves DEF Kinds, ClientSeals, Payloads, f, b
  <2>4. CASE ~(client.missed + 1 >= MaxMissed)
    <3>1. client' = [client EXCEPT !.tx = client.tx + 1, !.missed = client.missed + 1]
          /\ net' = Send({f})
      BY <1>3, <2>2, <2>4 DEF Keepalive
    <3>2. NetShape' /\ Adds({f})
      BY <2>1, <3>1, Sending, SmallSets
    <3>3. client.tx + 1 \in Nat /\ client.missed + 1 \in Nat
      BY <1>t
    <3>4. /\ client' \in Clients /\ client'.phase = client.phase /\ client'.sid = client.sid
          /\ client'.sn = client.sn /\ client'.cn = client.cn /\ client'.tx = client.tx + 1
      BY <1>t, <3>1, <3>3, ClientSpeaks
    <3> QED
      BY <2>0, <3>2, <3>4 DEF ClientShape, Kinds, ClientSeals, Payloads, f
  <2> QED
    BY <2>3, <2>4
<1>4. CASE ClientData
  <2> DEFINE f == ClientFrame("DATA", client.tx)
  <2>0. PeerShape' /\ PeerKept /\ load' = load /\ client.phase = "session"
    BY <1>4, PeerStays DEF ClientData
  <2>1. f \in Frames
    BY <1>s, <1>t, <2>0, FramesMade DEF ClientFrame, Payloads
  <2>2. net' = Send({f}) /\ client' = [client EXCEPT !.tx = client.tx + 1]
    BY <1>4 DEF ClientData, ClientFrame
  <2> HIDE DEF f
  <2>3. NetShape' /\ Adds({f})
    BY <2>1, <2>2, Sending, SmallSets
  <2>4. client.tx + 1 \in Nat
    BY <1>t
  <2>5. /\ client' \in Clients /\ client'.phase = client.phase /\ client'.sid = client.sid
        /\ client'.sn = client.sn /\ client'.cn = client.cn /\ client'.tx = client.tx + 1
    BY <1>t, <2>2, <2>4, ClientCounts
  <2> QED
    BY <2>0, <2>3, <2>5 DEF ClientShape, Kinds, ClientSeals, Payloads, f
<1>5. CASE Shutdown
  <2>0. PeerShape' /\ PeerKept /\ load' = load /\ ClientShape' /\ ClientOut
    BY <1>5, PeerStays, ClientLeaves DEF Shutdown
  <2>1. CASE client.phase = "session"
    <3> DEFINE b == ClientFrame("TEARDOWN", client.tx)
    <3>1. b \in Frames
      BY <1>s, <1>t, <2>1, FramesMade DEF ClientFrame, Payloads
    <3>2. net' = Send({b})
      BY <1>5, <1>s, <2>1 DEF Shutdown, Bye, ClientFrame
    <3> HIDE DEF b
    <3>3. NetShape' /\ Adds({b})
      BY <3>1, <3>2, Sending, SmallSets
    <3> QED
      BY <2>0, <2>1, <3>3 DEF Kinds, ClientSeals, b
  <2>2. CASE client.phase # "session"
    <3>1. net' = net
      BY <1>5, <2>2 DEF Shutdown
    <3> QED
      BY <2>0, <3>1 DEF NetShape, Adds, Kinds, Quietly
  <2> QED
    BY <2>1, <2>2
<1>6. CASE StartClient
  <2>0. PeerShape' /\ PeerKept /\ load' = load /\ ClientShape' /\ ClientOut /\ net' = net
    BY <1>6, PeerStays, ClientLeaves DEF StartClient
  <2> QED
    BY <2>0 DEF NetShape, Adds, Kinds, Quietly
<1> QED
  BY <1>1, <1>2, <1>3, <1>4, <1>5, <1>6

LEMMA KindOfServer ==
  ASSUME Shapes,
         \/ ServerData \/ Sweep \/ ServerRestart \/ WindowOver \/ LockOver
         \/ Ignore \/ Lose \/ WrongProof
  PROVE  Shapes' /\ Kinds
<1> USE DEF Shapes
<1>s. /\ peer # None => peer \in Peers /\ peer.sess \in Sessions /\ peer.sess.tx \in Nat
                         /\ peer.pending.sn \in Maybe
      /\ Active => peer.sess.sn \in Nat /\ peer.sess.sid \in Nat
  BY DEF PeerShape, Peers, Sessions, Pendings, Active, Maybe
<1>f. ASSUME NEW t \in Payloads \cup {"TEARDOWN"}, Active, net' = Send({ServerFrame(t)})
      PROVE  NetShape' /\ Adds({ServerFrame(t)})
  <2>1. ServerFrame(t) \in Frames
    BY <1>f, <1>s, FramesMade DEF ServerFrame, Active
  <2> QED
    BY <1>f, <2>1, Sending, SmallSets
<1>g. ASSUME peer' = None, client' = client, load' = load, net' = Send({}) \/ net' = Send(Goodbye)
      PROVE  Shapes' /\ Kinds
  <2>1. ClientShape' /\ ClientKept /\ PeerShape' /\ PeerKept
    BY <1>g, ClientStays DEF PeerShape, PeerKept
  <2>2. CASE net' = Send({})
    <3>1. NetShape' /\ Adds({})
      BY <2>2, Sending, FS_EmptySet
    <3> QED
      BY <1>g, <2>1, <3>1 DEF Kinds, Quietly
  <2>3. CASE net' = Send(Goodbye) /\ net' # Send({})
    <3>1. Active /\ net' = Send({ServerFrame("TEARDOWN")})
      BY <2>3 DEF Goodbye, ServerFrame
    <3>2. NetShape' /\ Adds({ServerFrame("TEARDOWN")})
      BY <1>f, <3>1
    <3> QED
      BY <1>g, <2>1, <3>1, <3>2 DEF Kinds, ServerSeals
  <2> QED
    BY <1>g, <2>2, <2>3
<1>1. CASE ServerData
  <2>1. /\ Active /\ peer # None /\ client' = client /\ load' = load
        /\ peer' = [peer EXCEPT !.sess = Said(peer.sess)] /\ net' = Send({ServerFrame("DATA")})
    BY <1>1 DEF ServerData, Active, ServerFrame
  <2>2. NetShape' /\ Adds({ServerFrame("DATA")})
    BY <1>f, <2>1 DEF Payloads
  <2>3. /\ peer' \in Peers /\ peer'.pending = peer.pending /\ peer'.sess.sn = peer.sess.sn
        /\ peer'.sess.cn = peer.sess.cn /\ peer'.sess.sid = peer.sess.sid
        /\ peer'.sess.tx = peer.sess.tx + 1
    BY <1>s, <2>1, SessionSays, PeerTalks
  <2> QED
    BY <2>1, <2>2, <2>3, ClientStays DEF PeerShape, Kinds, ServerSeals, PendingKept, Payloads
<1>2. CASE Sweep
  <2>1. CASE peer' = None /\ net' = Send(Goodbye)
    BY <1>2, <1>g, <2>1 DEF Sweep
  <2>2. CASE UNCHANGED <<peer, net>>
    BY <1>2, <2>2, ClientStays, PeerStays DEF Sweep, NetShape, Adds, Kinds, Quietly
  <2> QED
    BY <1>2, <2>1, <2>2 DEF Sweep
<1>3. CASE ServerRestart
  BY <1>3, <1>g DEF ServerRestart
<1>4. CASE WindowOver \/ LockOver
  BY <1>4, ClientStays, PeerStays DEF WindowOver, LockOver, NetShape, Adds, Kinds, Quietly
<1>5. CASE Ignore \/ Lose
  <2>1. PICK f \in net : net' = net \ {f} /\ UNCHANGED <<load, client, peer>>
    BY <1>5 DEF Ignore, Lose
  <2>2. NetShape' /\ Adds({})
    BY <2>1, Dropping
  <2> QED
    BY <2>1, <2>2, ClientStays, PeerStays DEF Kinds, Quietly
<1>6. CASE WrongProof
  <2> DEFINE f == AuthReq(peer.pending.sn, None, FALSE)
  <2>1. peer # None /\ peer.pending.sn # None /\ net' = Send({f}) /\ UNCHANGED <<load, client, peer>>
    BY <1>6 DEF WrongProof
  <2>2. f \in Frames
    BY <1>s, <2>1, FramesMade DEF Maybe
  <2> HIDE DEF f
  <2>3. NetShape' /\ Adds({f})
    BY <2>1, <2>2, Sending, SmallSets
  <2> QED
    BY <2>1, <2>3, ClientStays, PeerStays DEF Kinds, Misproves, f
<1> QED
  BY <1>1, <1>2, <1>3, <1>4, <1>5, <1>6

LEMMA KindOfAnswer ==
  ASSUME Shapes, NEW f \in net, ClientReceives(f)
  PROVE  Shapes' /\ Kinds
<1> USE DEF Shapes
<1>t. client \in Clients /\ client.tries \in Nat /\ f \in Frames
  BY DEF ClientShape, Clients, NetShape
<1>0. PeerShape' /\ PeerKept /\ load' = load
  BY PeerStays DEF ClientReceives, on_resp, on_auth_frame, ClientSessionFrame
<1>1. CASE on_resp(f)
  <2>0. client.phase = "discovering" /\ f.t = "RESP" /\ f.sn \in Nat
    BY <1>1, <1>t, FrameFields DEF on_resp
  <2>1. CASE client' = Rediscover /\ Received(f, {})
    <3>1. client' \in Clients /\ client'.phase = "next"
      BY <1>t, <2>1, Outside, ClientTries DEF Rediscover
    <3>2. NetShape' /\ Adds({})
      BY <2>1, Dropping
    <3> QED
      BY <1>0, <3>1, <3>2 DEF ClientShape, ClientOut, Kinds, Quietly
  <2>2. CASE /\ f.did = client.did
             /\ client' = [client EXCEPT !.phase = "await", !.did = None, !.sn = f.sn,
                                         !.cn = FreshClientNonce(f.sn)]
             /\ Received(f, {AuthReq(f.sn, FreshClientNonce(f.sn), TRUE)})
    <3> DEFINE c == FreshClientNonce(f.sn)
               q == AuthReq(f.sn, c, TRUE)
    <3>1. c \in Nat /\ c \notin InUse("cn")
      BY <2>0, FreshIsNew DEF FreshClientNonce
    <3>2. q \in Frames
      BY <2>0, <3>1, FramesMade DEF Maybe
    <3>3. Received(f, {q})
      BY <2>2
    <3>r. client' = [client EXCEPT !.phase = "await", !.did = None, !.sn = f.sn, !.cn = c]
      BY <2>2
    <3> HIDE DEF c, q
    <3>4. NetShape' /\ Adds({q})
      BY <3>2, <3>3, Receiving, SmallSets
    <3>5. /\ client' \in Clients /\ client'.phase = "await" /\ client'.sn = f.sn /\ client'.cn = c
          /\ client'.tx = client.tx
      <4>1. "await" \in Phases /\ f.sn \in Maybe /\ c \in Maybe
        BY <2>0, <3>1 DEF Phases, Maybe
      <4> QED
        BY <1>t, <3>r, <4>1 DEF Clients, Phases, Maybe
    <3> QED
      BY <1>0, <2>0, <2>2, <3>1, <3>4, <3>5 DEF ClientShape, Kinds, Requests, q
  <2> QED
    BY <1>1, <2>1, <2>2 DEF on_resp
<1>2. CASE on_auth_frame(f)
  <2>0. client.phase = "await" /\ Received(f, {})
    BY <1>2 DEF on_auth_frame
  <2>1. NetShape' /\ Adds({})
    BY <2>0, Dropping
  <2>2. CASE Authentic(f)
    <3>1. f.t = "AUTH_ACK" /\ f.sn = client.sn /\ f.cn = client.cn /\ f.sid \in Nat
      BY <1>t, <2>2, FrameFields DEF Authentic
    <3>2. /\ client' \in Clients /\ client'.phase = "session" /\ client'.sid = f.sid
          /\ client'.sn = client.sn /\ client'.cn = client.cn /\ client'.tx = client.tx
      <4>1. client' = [client EXCEPT !.phase = "session", !.sid = f.sid, !.tries = 0]
        BY <1>2, <2>2 DEF on_auth_frame
      <4>2. "session" \in Phases /\ f.sid \in Maybe
        BY <3>1 DEF Phases, Maybe
      <4> QED
        BY <1>t, <4>1, <4>2, ClientEnters
    <3> QED
      BY <1>0, <2>0, <2>1, <3>1, <3>2 DEF ClientShape, Kinds, Enters
  <2>3. CASE ~Authentic(f)
    <3>1. client' = Ended
      BY <1>2, <2>3 DEF on_auth_frame
    <3> QED
      BY <1>0, <2>1, <3>1, ClientLeaves DEF Kinds, Quietly
  <2> QED
    BY <2>2, <2>3
<1>3. CASE ClientSessionFrame(f)
  <2>0. client.phase = "session" /\ f.seq \in Nat
    BY <1>3, <1>t, FrameFields DEF ClientSessionFrame
  <2>1. CASE client' = Nowhere /\ Received(f, Bye(SessionOf(client)))
    <3> DEFINE b == ClientFrame("TEARDOWN", client.tx)
    <3>1. b \in Frames /\ Received(f, {b})
      <4>1. /\ SessionOf(client) \in Sessions /\ SessionOf(client).tx = client.tx
            /\ SessionOf(client).sn \in Nat /\ SessionOf(client).sid \in Nat /\ client.tx \in Nat
        BY <1>t, <2>0, SessionOfClient DEF ClientShape, Clients
      <4> QED
        BY <2>1, <4>1, FramesMade DEF ClientFrame, Bye
    <3> HIDE DEF b
    <3>2. NetShape' /\ Adds({b})
      BY <3>1, Receiving, SmallSets
    <3> QED
      BY <1>0, <2>0, <2>1, <3>2, ClientLeaves DEF Kinds, ClientSeals, b
  <2>2. CASE client' = [client EXCEPT !.rx = f.seq, !.missed = 0] /\ Received(f, {})
    <3>1. NetShape' /\ Adds({})
      BY <2>2, Dropping
    <3>2. client' \in Clients /\ ClientKept
      <4>1. f.seq \in Maybe
        BY <2>0 DEF Maybe
      <4> QED
        BY <1>t, <2>2, <4>1, ClientHears DEF ClientKept
    <3> QED
      BY <1>0, <3>1, <3>2 DEF ClientShape, ClientKept, Kinds, Quietly
  <2> QED
    BY <1>3, <2>1, <2>2 DEF ClientSessionFrame
<1> QED
  BY <1>1, <1>2, <1>3 DEF ClientReceives

LEMMA KindOfRequest ==
  ASSUME Shapes, NEW f \in net, ServerReceives(f)
  PROVE  Shapes' /\ Kinds
<1> USE DEF Shapes
<1>t. /\ f \in Frames
      /\ peer # None => peer \in Peers /\ peer.sess \in Sessions /\ peer.pending \in Pendings
      /\ peer # None => peer.next \in Nat /\ peer.pending.sn \in Maybe /\ peer.sess.tx \in Nat
      /\ Active => peer.sess.sn \in Nat /\ peer.sess.sid \in Nat
  BY DEF NetShape, PeerShape, Peers, Pendings, Sessions, Active, Maybe
<1>0. ClientShape' /\ ClientKept /\ load' = load
  BY ClientStays DEF ServerReceives, begin_discover, LockedOut, Accepted, Rejected, Unauthentic,
     ServerSessionFrame
<1>r. ASSUME NEW q \in Frames, Received(f, {q})
      PROVE  NetShape' /\ Adds({q})
  BY <1>r, Receiving, SmallSets
<1>1. CASE begin_discover(f)
  <2> DEFINE known == IF peer = None THEN NewPeer ELSE peer
             d == f.did
             n == IF known.pending.did = d THEN known.pending.sn ELSE FreshServerNonce(d)
             q == [NoPending EXCEPT !.did = d, !.sn = n]
  <2>1. d \in Nat /\ d # None
    BY <1>1, <1>t, FrameFields, NoneIsNothing DEF begin_discover
  <2>2. peer' = [known EXCEPT !.pending = q] /\ Received(f, {Resp(n, d)})
    BY <1>1 DEF begin_discover
  <2>3. /\ known \in Peers /\ (peer # None => known = peer)
        /\ peer = None => known.pending.did = None /\ known.sess.sid = None /\ known.sess.sn = None
    BY <1>t, PeerRecords
  <2>4. FreshServerNonce(d) \in Nat /\ FreshServerNonce(d) \notin InUse("sn")
    BY <2>1, FreshIsNew DEF FreshServerNonce
  <2>5. /\ n \in Nat
        /\ n \notin InUse("sn") \/ (peer # None /\ peer.pending.did = d /\ peer.pending.sn = n)
    <3>1. CASE known.pending.did = d
      <4>1. peer # None /\ peer.pending.did = d
        BY <2>1, <2>3, <3>1
      <4> QED
        BY <2>1, <2>3, <3>1, <4>1 DEF PeerShape
    <3>2. CASE known.pending.did # d
      BY <2>4, <3>2
    <3> QED
      BY <3>1, <3>2
  <2> HIDE DEF known, d, n
  <2>6. q \in Pendings /\ q.did = d /\ q.sn = n
    BY <2>1, <2>5, PendingMade
  <2>7. Resp(n, d) \in Frames
    BY <2>1, <2>5, FramesMade
  <2> HIDE DEF q
  <2>8. peer' \in Peers /\ peer'.pending = q /\ peer'.sess = known.sess
    BY <2>2, <2>3, <2>6, PeerPends
  <2>9. NetShape' /\ Adds({Resp(n, d)})
    BY <1>r, <2>2, <2>7
  <2>10. PeerShape'
    BY <2>1, <2>3, <2>5, <2>6, <2>8 DEF PeerShape
  <2>11. IF peer = None THEN peer'.sess.sid = None /\ peer'.sess.sn = None ELSE SessKept
    BY <2>3, <2>8 DEF SessKept
  <2> QED
    BY <1>0, <2>1, <2>5, <2>6, <2>8, <2>9, <2>10, <2>11 DEF Kinds, Responds
<1>p. ASSUME peer # None, peer' = [peer EXCEPT !.pending = NoPending]
      PROVE  PeerShape' /\ SessKept /\ peer'.pending.sn = None
  <2>1. peer' \in Peers /\ peer'.pending = NoPending /\ peer'.sess = peer.sess
    BY <1>p, <1>t, PeerRecords, PeerPends
  <2> QED
    BY <1>p, <2>1, PeerRecords DEF PeerShape, SessKept
<1>2. CASE LockedOut(f)
  <2>1. /\ peer # None /\ peer' = [peer EXCEPT !.pending = NoPending]
        /\ Received(f, {Nack(peer.pending.sn, "locked")})
    BY <1>2 DEF LockedOut
  <2>2. Nack(peer.pending.sn, "locked") \in Frames
    BY <1>t, <2>1, FramesMade
  <2>3. NetShape' /\ Adds({Nack(peer.pending.sn, "locked")})
    BY <1>r, <2>1, <2>2
  <2> QED
    BY <1>0, <1>p, <2>1, <2>3 DEF Kinds, Refuses
<1>3. CASE Accepted(f)
  <2> DEFINE s == NewSession(f.sn, f.cn, peer.next)
             n == IF peer.next = load.sids THEN 1 ELSE peer.next + 1
             a == Ack(f.sn, f.cn, peer.next)
  <2>1. /\ f.t = "AUTH_REQ" /\ f.ok /\ peer # None /\ f.sn = peer.pending.sn
        /\ peer' = [pending |-> NoPending, sess |-> s, next |-> n, old |-> FALSE]
        /\ Received(f, {a}) /\ guard' = NoGuard
    BY <1>3 DEF Accepted, Verifies
  <2>2. f.sn \in Nat /\ f.cn \in Maybe /\ peer.next \in Nat /\ n \in Nat
    BY <1>t, <2>1, FrameFields
  <2>3. s \in Sessions /\ s.sn = f.sn /\ s.cn = f.cn /\ s.sid = peer.next /\ s.tx = 0
    BY <2>2, SessionMade
  <2>4. a \in Frames
    BY <2>2, FramesMade
  <2> HIDE DEF s, n, a
  <2>5. peer' \in Peers /\ peer'.pending = NoPending /\ peer'.sess = s
    BY <2>1, <2>2, <2>3, PeerRecords, PeerBegins
  <2>6. NetShape' /\ Adds({a})
    BY <1>r, <2>1, <2>4
  <2>7. PeerShape'
    BY <2>2, <2>3, <2>5, PeerRecords DEF PeerShape
  <2> QED
    BY <1>0, <2>1, <2>3, <2>5, <2>6, <2>7, PeerRecords DEF Kinds, Accepts, a
<1>4. CASE Rejected(f)
  <2>1. /\ peer # None /\ Received(f, {Nack(peer.pending.sn, "failed")})
        /\ peer' = None \/ peer' = [peer EXCEPT !.pending = NoPending]
    BY <1>4 DEF Rejected, Verifies
  <2>2. Nack(peer.pending.sn, "failed") \in Frames
    BY <1>t, <2>1, FramesMade
  <2>3. NetShape' /\ Adds({Nack(peer.pending.sn, "failed")})
    BY <1>r, <2>1, <2>2
  <2>4. PeerShape' /\ (peer' # None => SessKept /\ peer'.pending.sn = None)
    BY <1>p, <2>1 DEF PeerShape
  <2> QED
    BY <1>0, <2>1, <2>3, <2>4 DEF Kinds, Refuses
<1>5. CASE Unauthentic(f)
  <2>1. peer' = peer /\ Received(f, {})
    BY <1>5 DEF Unauthentic
  <2>2. NetShape' /\ Adds({})
    BY <2>1, Dropping
  <2> QED
    BY <1>0, <2>1, <2>2, PeerStays DEF Kinds, Quietly
<1>6. CASE ServerSessionFrame(f)
  <2>0. Active /\ peer # None /\ f.seq \in Nat
    BY <1>6, <1>t, FrameFields DEF ServerSessionFrame, Active
  <2>1. CASE peer' = None /\ Received(f, {})
    <3>1. NetShape' /\ Adds({})
      BY <2>1, Dropping
    <3> QED
      BY <1>0, <2>1, <3>1 DEF PeerShape, PeerKept, Kinds, Quietly
  <2>2. CASE peer' = [peer EXCEPT !.sess = Taken(peer.sess, f)] /\ Received(f, {})
    <3>1. NetShape' /\ Adds({})
      BY <2>2, Dropping
    <3>2. peer' \in Peers /\ peer'.pending = peer.pending /\ SessKept
      BY <1>t, <2>0, <2>2, SessionTakes, PeerTalks DEF SessKept
    <3>3. PeerShape' /\ PeerKept
      BY <2>0, <3>2 DEF PeerShape, PeerKept, PendingKept, SessKept
    <3> QED
      BY <1>0, <3>1, <3>3 DEF Kinds, Quietly
  <2>3. CASE /\ peer' = [peer EXCEPT !.sess = Said(Taken(peer.sess, f))]
             /\ Received(f, {ServerFrame("KEEPALIVE")})
    <3>1. ServerFrame("KEEPALIVE") \in Frames
      BY <1>t, <2>0, FramesMade DEF ServerFrame, Payloads
    <3>2. NetShape' /\ Adds({ServerFrame("KEEPALIVE")})
      BY <1>r, <2>3, <3>1
    <3>3. /\ Said(Taken(peer.sess, f)) \in Sessions
          /\ Said(Taken(peer.sess, f)).sn = peer.sess.sn /\ Said(Taken(peer.sess, f)).cn = peer.sess.cn
          /\ Said(Taken(peer.sess, f)).sid = peer.sess.sid
          /\ Said(Taken(peer.sess, f)).tx = peer.sess.tx + 1
      <4>1. /\ Taken(peer.sess, f) \in Sessions /\ Taken(peer.sess, f).sn = peer.sess.sn
            /\ Taken(peer.sess, f).cn = peer.sess.cn /\ Taken(peer.sess, f).sid = peer.sess.sid
            /\ Taken(peer.sess, f).tx = peer.sess.tx
        BY <1>t, <2>0, SessionTakes
      <4> QED
        BY <4>1, SessionSays
    <3>4. /\ peer' \in Peers /\ peer'.pending = peer.pending
          /\ peer'.sess = Said(Taken(peer.sess, f))
      BY <1>t, <2>0, <2>3, <3>3, PeerTalks
    <3> QED
      BY <1>0, <2>0, <3>2, <3>3, <3>4 DEF PeerShape, PendingKept, Kinds, ServerSeals, Payloads
  <2> QED
    BY <1>6, <2>1, <2>2, <2>3 DEF ServerSessionFrame, ServerFrame
<1> QED
  BY <1>1, <1>2, <1>3, <1>4, <1>5, <1>6 DEF ServerReceives

LEMMA KindOfStep ==
  ASSUME Shapes, [Next]_vars
  PROVE  Shapes' /\ Kinds
<1>1. CASE UNCHANGED vars
  BY <1>1, ClientStays, PeerStays DEF vars, Shapes, NetShape, Adds, Kinds, Quietly
<1>2. CASE FrameArrives
  BY <1>2, KindOfAnswer, KindOfRequest DEF FrameArrives
<1> QED
  BY <1>1, <1>2, KindOfClient, KindOfServer DEF Next

-----------------------------------------------------------------------------
(* What is new after a step: which kind of step sends which kind of frame *)

PeerSame ==
  peer' # None => /\ peer # None /\ peer'.sess.sn = peer.sess.sn /\ peer'.sess.cn = peer.sess.cn
                  /\ peer'.sess.sid = peer.sess.sid
                  /\ PendingKept \/ peer'.pending.sn = None
ClientSame ==
  /\ client'.phase = client.phase /\ client'.sn = client.sn /\ client'.cn = client.cn
  /\ client'.sid = client.sid /\ (client'.did = client.did \/ client.phase = "session")

LEMMA NewFrames ==
  /\ \A d : Discover(d).t = "DISCOVER" /\ ~Sealed(Discover(d))
  /\ \A n, d : LET f == Resp(n, d) IN f.t = "RESP" /\ f.sn = n /\ f.did = d /\ ~Sealed(f)
  /\ \A n, c, ok : LET f == AuthReq(n, c, ok)
                   IN  f.t = "AUTH_REQ" /\ f.sn = n /\ f.cn = c /\ f.ok = ok /\ ~Sealed(f)
  /\ \A n, c, i : LET f == Ack(n, c, i)
                  IN  f.t = "AUTH_ACK" /\ f.sn = n /\ f.cn = c /\ f.sid = i /\ ~Sealed(f)
  /\ \A n, w : LET f == Nack(n, w) IN f.t = "AUTH_NACK" /\ f.sn = n /\ ~Sealed(f)
  BY DEF Discover, Resp, AuthReq, Ack, Nack, Sealed, Payloads

LEMMA NewSealed ==
  /\ \A t, q : LET f == ClientFrame(t, q)
               IN  f.t = t /\ f.dir = "c2s" /\ f.sn = client.sn /\ f.cn = client.cn /\ f.no = q
  /\ \A t : LET f == ServerFrame(t)
            IN  /\ f.t = t /\ f.dir = "s2c" /\ f.sn = peer.sess.sn /\ f.cn = peer.sess.cn
                /\ f.no = peer.sess.tx
  BY DEF ClientFrame, ServerFrame, SessionFrame, SessionOf

LEMMA WhoSays ==
  ASSUME Kinds, NEW f \in net', f \notin net
  PROVE  /\ f.t = "AUTH_ACK" =>
              Accepts /\ f = Ack(peer'.sess.sn, peer'.sess.cn, peer'.sess.sid)
         /\ f.t = "RESP" => Responds /\ f = Resp(peer'.pending.sn, peer'.pending.did)
         /\ Request(f) => Requests /\ f = AuthReq(client'.sn, client'.cn, TRUE)
         /\ f.t = "AUTH_NACK" => Refuses /\ f.sn = peer.pending.sn
         /\ Sealed(f) /\ f.dir = "c2s" => ClientSeals
         /\ Sealed(f) /\ f.dir = "s2c" => ServerSeals
<1>a. \A S : Adds(S) => f \in S
  BY DEF Adds
<1>1. CASE Quietly \/ Enters
  BY <1>1, <1>a DEF Quietly, Enters
<1>2. CASE Discovers
  <2>1. PICK d : f = Discover(d)
    BY <1>2, <1>a DEF Discovers
  <2>2. f.t = "DISCOVER" /\ ~Sealed(f)
    BY <2>1, NewFrames
  <2> QED
    BY <2>2 DEF Request
<1>3. CASE Responds
  <2>1. f = Resp(peer'.pending.sn, peer'.pending.did)
    BY <1>3, <1>a DEF Responds
  <2>2. f.t = "RESP" /\ ~Sealed(f)
    BY <2>1, NewFrames
  <2> QED
    BY <1>3, <2>1, <2>2 DEF Request
<1>4. CASE Requests
  <2>1. f = AuthReq(client'.sn, client'.cn, TRUE)
    BY <1>4, <1>a DEF Requests
  <2>2. f.t = "AUTH_REQ" /\ ~Sealed(f)
    BY <2>1 DEF AuthReq, Sealed, Payloads
  <2> QED
    BY <1>4, <2>1, <2>2 DEF Request
<1>6. CASE Accepts
  <2>1. f = Ack(peer'.sess.sn, peer'.sess.cn, peer'.sess.sid)
    BY <1>6, <1>a DEF Accepts
  <2>2. f.t = "AUTH_ACK" /\ ~Sealed(f)
    BY <2>1, NewFrames
  <2> QED
    BY <1>6, <2>1, <2>2 DEF Request
<1>7. CASE Refuses
  <2>1. \E why : f = Nack(peer.pending.sn, why)
    BY <1>7, <1>a DEF Refuses
  <2>2. f.t = "AUTH_NACK" /\ f.sn = peer.pending.sn /\ ~Sealed(f)
    BY <2>1, NewFrames
  <2> QED
    BY <1>7, <2>2 DEF Request
<1>8. CASE ClientSeals
  <2>1. \E t \in Payloads \cup {"TEARDOWN"} : \E q : f = ClientFrame(t, q)
    BY <1>8, <1>a DEF ClientSeals
  <2>2. f.t \in Payloads \cup {"TEARDOWN"} /\ f.dir = "c2s"
    BY <2>1, NewSealed
  <2> QED
    BY <1>8, <2>2 DEF Payloads, Request
<1>9. CASE ServerSeals
  <2>1. \E t \in Payloads \cup {"TEARDOWN"} : f = ServerFrame(t)
    BY <1>9, <1>a DEF ServerSeals
  <2>2. f.t \in Payloads \cup {"TEARDOWN"} /\ f.dir = "s2c"
    BY <2>1, NewSealed
  <2> QED
    BY <1>9, <2>2 DEF Payloads, Request
<1>10. CASE Misproves
  <2>1. f = AuthReq(peer.pending.sn, None, FALSE)
    BY <1>10, <1>a DEF Misproves
  <2>2. f.t = "AUTH_REQ" /\ ~Sealed(f)
    BY <2>1 DEF AuthReq, Sealed, Payloads
  <2>3. ~f.ok
    BY <2>1, Zenon DEF AuthReq
  <2> QED
    BY <2>2, <2>3 DEF Request
<1> QED
  BY <1>1, <1>2, <1>3, <1>4, <1>6, <1>7, <1>8, <1>9, <1>10 DEF Kinds

LEMMA NewResp ==
  ASSUME Kinds, NEW f \in net', f \notin net, f.t = "RESP"
  PROVE  Responds /\ f.sn = peer'.pending.sn /\ f.did = peer'.pending.did
<1>1. Responds /\ f = Resp(peer'.pending.sn, peer'.pending.did)
  BY WhoSays
<1> QED
  BY <1>1 DEF Resp

LEMMA WhoChanges ==
  ASSUME Kinds
  PROVE  /\ ((Responds \/ Accepts) /\ ClientSame) \/ PeerSame
         /\ ClientSame \/ ClientOut \/ Discovers \/ Requests \/ Enters
         /\ Discovers \/ Requests \/ Enters => PeerSame
<1> USE DEF PeerSame, ClientSame, ClientKept, SessKept, PeerKept
<1>1. CASE Quietly
  BY <1>1 DEF Quietly
<1>2. CASE Discovers
  BY <1>2 DEF Discovers
<1>3. CASE Responds
  <2>1. ClientSame
    BY <1>3 DEF Responds
  <2> QED
    BY <1>3, <2>1 DEF Discovers, Requests, Enters
<1>4. CASE Requests
  BY <1>4 DEF Requests
<1>5. CASE Enters
  BY <1>5 DEF Enters
<1>6. CASE Accepts
  <2>1. ClientSame
    BY <1>6 DEF Accepts
  <2> QED
    BY <1>6, <2>1 DEF Discovers, Requests, Enters
<1>7. CASE Refuses
  BY <1>7 DEF Refuses
<1>8. CASE ClientSeals
  BY <1>8 DEF ClientSeals
<1>9. CASE ServerSeals
  BY <1>9 DEF ServerSeals, Active
<1>10. CASE Misproves
  BY <1>10 DEF Misproves
<1>11. Discovers \/ Requests \/ Enters => PeerSame
  BY DEF Discovers, Requests, Enters
<1> QED
  BY <1>1, <1>2, <1>3, <1>4, <1>5, <1>6, <1>7, <1>8, <1>9, <1>10, <1>11 DEF Kinds

LEMMA WhoseSession ==
  ASSUME Kinds, Active'
  PROVE  \/ Accepts
         \/ /\ Active /\ peer'.sess.sn = peer.sess.sn /\ peer'.sess.cn = peer.sess.cn
            /\ peer'.sess.sid = peer.sess.sid
<1>1. CASE Responds
  BY <1>1 DEF Responds, SessKept, Active
<1>2. CASE PeerSame
  BY <1>2 DEF PeerSame, Active
<1> QED
  BY <1>1, <1>2, WhoChanges

LEMMA WhosePending ==
  ASSUME Kinds, peer' # None, peer'.pending.sn # None
  PROVE  \/ /\ Responds /\ peer'.pending.sn \in Nat /\ peer'.pending.sn \notin InUse("sn")
            /\ IF peer = None THEN peer'.sess.sn = None ELSE peer'.sess.sn = peer.sess.sn
         \/ peer # None /\ PendingKept /\ peer'.sess.sn = peer.sess.sn
<1>1. CASE Responds
  BY <1>1 DEF Responds, SessKept, PendingKept
<1>2. CASE PeerSame
  BY <1>2 DEF PeerSame
<1>3. CASE Accepts
  BY <1>3 DEF Accepts
<1> QED
  BY <1>1, <1>2, <1>3, WhoChanges

LEMMA Accepting ==
  ASSUME Shapes, Accepts
  PROVE  /\ peer # None /\ peer'.sess.sn = peer.pending.sn /\ peer.pending.sn \in Nat
         /\ peer'.pending.sn = None /\ peer'.sess.tx = 0
         /\ \E g \in net : Request(g) /\ g.sn = peer.pending.sn /\ g.cn = peer'.sess.cn
<1>1. \A f \in net : f.t = "AUTH_REQ" => f.sn \in Nat
  BY FrameFields DEF Shapes, NetShape
<1> QED
  BY <1>1 DEF Accepts, Request

LEMMA AcksAgreeKept ==
  ASSUME Shapes, Shapes', Link, Kinds
  PROVE  AcksAgree'
<1>i. AcksAgree
  BY DEF Link
<1>1. SUFFICES ASSUME NEW f \in net', f.t = "AUTH_ACK"
               PROVE  /\ Active' /\ f.sn = peer'.sess.sn
                             => f.cn = peer'.sess.cn /\ f.sid = peer'.sess.sid
                      /\ peer' # None => f.sn # peer'.pending.sn
                      /\ \A g \in net' : g.t = "AUTH_ACK" /\ f.sn = g.sn => f = g
  BY DEF AcksAgree
<1>n. f.sn \in Nat /\ f.sn # None
  BY <1>1, FrameFields, NoneIsNothing DEF Shapes, NetShape
<1>a. ASSUME NEW g \in net', g \notin net, g.t = "AUTH_ACK"
      PROVE  /\ Accepts /\ g = Ack(peer'.sess.sn, peer'.sess.cn, peer'.sess.sid)
             /\ g.sn = peer'.sess.sn /\ g.cn = peer'.sess.cn /\ g.sid = peer'.sess.sid
             /\ peer # None /\ g.sn = peer.pending.sn
  <2>1. Accepts /\ g = Ack(peer'.sess.sn, peer'.sess.cn, peer'.sess.sid)
    BY <1>a, WhoSays
  <2>2. g.sn = peer'.sess.sn /\ g.cn = peer'.sess.cn /\ g.sid = peer'.sess.sid
    BY <2>1 DEF Ack
  <2> QED
    BY <2>1, <2>2, Accepting
<1>2. CASE f \notin net
  <2>1. \A g \in net' : g.t = "AUTH_ACK" /\ f.sn = g.sn => f = g
    BY <1>1, <1>2, <1>a, <1>i DEF AcksAgree
  <2>2. peer'.pending.sn = None
    BY <1>1, <1>2, <1>a, Accepting
  <2> QED
    BY <1>1, <1>2, <1>a, <1>n, <2>1, <2>2
<1>3. CASE f \in net
  <2>1. \A g \in net' : g.t = "AUTH_ACK" /\ f.sn = g.sn => f = g
    BY <1>1, <1>3, <1>a, <1>i DEF AcksAgree
  <2>2. peer' # None => f.sn # peer'.pending.sn
    <3>1. f.sn \in InUse("sn")
      BY <1>1, <1>3, WhereInUse
    <3>2. peer # None => f.sn # peer.pending.sn
      BY <1>1, <1>3, <1>i DEF AcksAgree
    <3> QED
      BY <1>n, <3>1, <3>2, WhosePending DEF PendingKept
  <2>3. Active' /\ f.sn = peer'.sess.sn => f.cn = peer'.sess.cn /\ f.sid = peer'.sess.sid
    <3>1. CASE Accepts
      BY <1>1, <1>3, <1>i, <3>1, Accepting DEF AcksAgree
    <3>2. CASE ~Accepts
      BY <1>1, <1>3, <1>i, <3>2, WhoseSession DEF AcksAgree
    <3> QED
      BY <3>1, <3>2
  <2> QED
    BY <2>1, <2>2, <2>3
<1> QED
  BY <1>2, <1>3

LEMMA AgreementKept ==
  ASSUME Shapes, Link, Kinds
  PROVE  Agreement'
<1>i. AcksAgree /\ Agreement /\ PendingUnused
  BY DEF Link
<1>1. SUFFICES ASSUME client'.phase = "session", Active', client'.sn = peer'.sess.sn
               PROVE  client'.cn = peer'.sess.cn /\ client'.sid = peer'.sess.sid
  BY DEF Agreement
<1>2. CASE ClientSame
  <2>1. CASE Accepts
    <3>1. peer # None /\ peer'.sess.sn = peer.pending.sn /\ peer.pending.sn # None
      BY <2>1, Accepting, NoneIsNothing
    <3>2. client.phase = "session" /\ client.sn = peer.pending.sn
      BY <1>1, <1>2, <3>1 DEF ClientSame
    <3> QED
      BY <1>i, <3>1, <3>2 DEF PendingUnused
  <2>2. CASE ~Accepts
    BY <1>1, <1>2, <1>i, <2>2, WhoseSession DEF Agreement, ClientSame
  <2> QED
    BY <2>1, <2>2
<1>3. CASE Enters
  <2>1. PICK f \in net :
          /\ f.t = "AUTH_ACK" /\ f.sn = client'.sn /\ f.cn = client'.cn /\ f.sid = client'.sid
    BY <1>3 DEF Enters
  <2>2. PeerSame
    BY <1>3, WhoChanges
  <2>3. Active /\ peer'.sess.sn = peer.sess.sn /\ peer'.sess.cn = peer.sess.cn
        /\ peer'.sess.sid = peer.sess.sid
    BY <1>1, <2>2 DEF PeerSame, Active
  <2> QED
    BY <1>1, <1>i, <2>1, <2>3 DEF AcksAgree
<1>4. CASE ClientOut \/ Discovers \/ Requests
  BY <1>1, <1>4 DEF ClientOut, Discovers, Requests
<1> QED
  BY <1>2, <1>3, <1>4, WhoChanges

LEMMA PendingUnusedKept ==
  ASSUME Shapes, Link, Kinds
  PROVE  PendingUnused'
<1>i. AcksAgree /\ PendingUnused
  BY DEF Link
<1> DEFINE p == peer'.pending.sn
<1>1. SUFFICES ASSUME peer' # None, p # None
               PROVE  /\ peer'.sess.sn # p
                      /\ client'.phase = "session" => client'.sn # p
                      /\ \A f \in net' :
                           /\ f.t = "AUTH_NACK" => f.sn # p
                           /\ Sealed(f) /\ f.dir = "s2c" => f.sn # p
                           /\ f.t = "RESP" /\ f.sn = p => f.did = peer'.pending.did
  BY DEF PendingUnused, Sealed
<1>w. \/ /\ p \notin InUse("sn")
         /\ IF peer = None THEN peer'.sess.sn = None ELSE peer'.sess.sn = peer.sess.sn
      \/ /\ peer # None /\ peer.pending.sn = p /\ peer.pending.did = peer'.pending.did
         /\ peer'.sess.sn = peer.sess.sn
  BY <1>1, WhosePending DEF PendingKept
<1> HIDE DEF p
<1>2. peer'.sess.sn # p
  BY <1>1, <1>i, <1>w, WhereInUse DEF PendingUnused
<1>3. client'.phase = "session" => client'.sn # p
  <2>1. CASE ClientSame
    BY <1>1, <1>i, <1>w, <2>1, WhereInUse DEF PendingUnused, ClientSame
  <2>2. CASE Enters
    <3>1. PICK f \in net : f.t = "AUTH_ACK" /\ f.sn = client'.sn
      BY <2>2 DEF Enters
    <3> QED
      BY <1>i, <1>w, <3>1, WhereInUse DEF AcksAgree
  <2>3. CASE ClientOut \/ Discovers \/ Requests
    BY <2>3 DEF ClientOut, Discovers, Requests
  <2> QED
    BY <2>1, <2>2, <2>3, WhoChanges
<1>4. ASSUME NEW f \in net', f \in net
      PROVE  /\ f.t = "AUTH_NACK" => f.sn # p
             /\ Sealed(f) /\ f.dir = "s2c" => f.sn # p
             /\ f.t = "RESP" /\ f.sn = p => f.did = peer'.pending.did
  BY <1>1, <1>4, <1>i, <1>w, WhereInUse DEF PendingUnused
<1>5. ASSUME NEW f \in net', f \notin net
      PROVE  /\ f.t = "AUTH_NACK" => f.sn # p
             /\ Sealed(f) /\ f.dir = "s2c" => f.sn # p
             /\ f.t = "RESP" /\ f.sn = p => f.did = peer'.pending.did
  <2>1. f.t # "AUTH_NACK"
    BY <1>1, <1>5, WhoSays DEF Refuses, p
  <2>2. ASSUME Sealed(f), f.dir = "s2c" PROVE f.sn # p
    <3>1. ServerSeals
      BY <1>5, <2>2, WhoSays
    <3>2. \E t \in Payloads : f = ServerFrame(t)
      BY <1>1, <1>5, <3>1 DEF ServerSeals, Adds
    <3>3. f.sn = peer.sess.sn
      BY <3>2, NewSealed
    <3>4. peer # None /\ peer.pending.sn = p
      BY <1>1, <3>1 DEF ServerSeals, Active, PendingKept, p
    <3> QED
      BY <1>1, <1>i, <3>3, <3>4 DEF PendingUnused
  <2>3. f.t = "RESP" => f.did = peer'.pending.did
    BY <1>5, NewResp
  <2> QED
    BY <2>1, <2>2, <2>3
<1> QED
  BY <1>2, <1>3, <1>4, <1>5

LEMMA RespIs ==
  ASSUME NEW f \in Frames, f.t = "RESP"
  PROVE  f = Resp(f.sn, f.did)
  BY DEF Frames, Resp, Payloads

LEMMA AnswersDifferKept ==
  ASSUME Shapes, Link, Kinds
  PROVE  AnswersDiffer'
<1>i. PendingUnused /\ AnswersDiffer
  BY DEF Link
<1>1. ASSUME NEW f \in net', NEW g \in net', f.t = "RESP", g.t = "RESP", f.sn = g.sn, f \notin net
      PROVE  f = g
  <2>1. Responds /\ f = Resp(peer'.pending.sn, peer'.pending.did)
    BY <1>1, WhoSays
  <2>2. CASE g \notin net
    BY <1>1, <2>1, <2>2, WhoSays
  <2>3. CASE g \in net
    <3>1. f.sn = peer'.pending.sn /\ f.did = peer'.pending.did
      BY <2>1 DEF Resp
    <3>2. g.sn \in InUse("sn")
      BY <1>1, <2>3, WhereInUse
    <3>3. /\ peer # None /\ peer.pending.did = peer'.pending.did
          /\ peer.pending.sn = peer'.pending.sn /\ peer.pending.sn # None
      BY <1>1, <2>1, <3>1, <3>2, NoneIsNothing DEF Responds
    <3>4. g.did = f.did
      BY <1>1, <1>i, <2>3, <3>1, <3>3 DEF PendingUnused
    <3>5. g = Resp(g.sn, g.did)
      BY <1>1, <2>3, RespIs DEF Shapes, NetShape
    <3> QED
      BY <1>1, <2>1, <3>1, <3>4, <3>5
  <2> QED
    BY <2>2, <2>3
<1>2. ASSUME NEW f \in net', NEW g \in net', f.t = "AUTH_NACK", g.t = "AUTH_NACK", f.sn = g.sn,
             f.sn # None, f \notin net
      PROVE  f = g
  <2>1. Refuses /\ f.sn = peer.pending.sn
    BY <1>2, WhoSays
  <2>2. CASE g \notin net
    BY <1>2, <2>1, <2>2 DEF Refuses, Adds
  <2>3. CASE g \in net
    BY <1>2, <1>i, <2>1, <2>3 DEF Refuses, PendingUnused
  <2> QED
    BY <2>2, <2>3
<1>3. ASSUME NEW f \in net', NEW g \in net'
      PROVE  /\ f.t = "RESP" /\ g.t = "RESP" /\ f.sn = g.sn => f = g
             /\ f.t = "AUTH_NACK" /\ g.t = "AUTH_NACK" /\ f.sn # None /\ f.sn = g.sn => f = g
  <2>1. CASE f \in net /\ g \in net
    BY <1>i, <2>1 DEF AnswersDiffer
  <2>2. CASE f \notin net
    BY <1>1, <1>2, <2>2
  <2>3. CASE g \notin net
    BY <1>1, <1>2, <2>3
  <2> QED
    BY <2>1, <2>2, <2>3
<1> QED
  BY <1>3 DEF AnswersDiffer

LEMMA AsksOnceKept ==
  ASSUME Shapes, Link, Kinds
  PROVE  AsksOnce'
<1>i. AsksOnce /\ AcksAgree
  BY DEF Link
<1>o. \A g \in net : Request(g) => g.sn \in InUse("sn") /\ g.sn \in Nat /\ g.sn # None
  BY WhereInUse, FrameFields, NoneIsNothing DEF Request, Shapes, NetShape
<1>1. ASSUME NEW f \in net', NEW g \in net', Request(f), Request(g), f.sn = g.sn, f \notin net
      PROVE  f = g
  <2>1. Requests /\ f = AuthReq(client'.sn, client'.cn, TRUE)
    BY <1>1, WhoSays
  <2>2. CASE g \notin net
    BY <1>1, <2>1, <2>2, WhoSays
  <2>3. CASE g \in net
    <3>1. f.sn = client'.sn
      BY <2>1 DEF AuthReq
    <3> QED
      BY <1>1, <1>i, <2>1, <2>3, <3>1 DEF Requests, AsksOnce
  <2> QED
    BY <2>2, <2>3
<1>2. \A f, g \in net' : Request(f) /\ Request(g) /\ f.sn = g.sn => f = g
  BY <1>1, <1>i DEF AsksOnce
<1>d. ASSUME Discovers
      PROVE  /\ client'.phase = "discovering" /\ client'.did \notin InUse("did")
             /\ \A f \in net' : f.t = "RESP" => f.did # client'.did
  <2>1. PICK d \in Nat \ InUse("did") :
          Adds({Discover(d)}) /\ client'.phase = "discovering" /\ client'.did = d
    BY <1>d DEF Discovers
  <2>2. \A f \in net' : f.t = "RESP" => f \in net
    BY <2>1, NewFrames DEF Adds
  <2> QED
    BY <2>1, <2>2, WhereInUse
<1>3. ASSUME client'.phase = "discovering", NEW f \in net', NEW g \in net',
             f.t = "RESP", f.did = client'.did, Request(g), f.sn = g.sn
      PROVE  FALSE
  <2>1. ClientSame
    BY <1>3, <1>d, WhoChanges DEF ClientOut, Requests, Enters
  <2>2. client.phase = "discovering" /\ client'.did = client.did
    BY <1>3, <2>1 DEF ClientSame
  <2>3. g \in net
    BY <1>3, WhoSays DEF Requests
  <2>4. f \notin net
    BY <1>3, <1>i, <2>2, <2>3 DEF AsksOnce
  <2>5. Responds /\ f.sn = peer'.pending.sn /\ f.did = peer'.pending.did
    BY <1>3, <2>4, NewResp
  <2>7. peer # None /\ peer.pending.did = client.did /\ peer.pending.sn = g.sn
    BY <1>3, <1>o, <2>2, <2>3, <2>5 DEF Responds
  <2> QED
    BY <1>3, <1>i, <2>2, <2>3, <2>7 DEF AsksOnce
<1>4. ASSUME NEW g \in net', Request(g), peer' # None, peer'.pending.sn = g.sn
      PROVE  \/ client'.phase \in {"next", "ended"}
             \/ client'.phase = "await" /\ client'.sn = g.sn
             \/ /\ client'.phase = "discovering" /\ peer'.pending.did # client'.did
                /\ \A f \in net' : f.t = "RESP" => f.did # client'.did
  <2>1. CASE g \notin net
    <3>1. Requests /\ g = AuthReq(client'.sn, client'.cn, TRUE)
      BY <1>4, <2>1, WhoSays
    <3>2. g.sn = client'.sn
      BY <3>1 DEF AuthReq
    <3> QED
      BY <3>1, <3>2 DEF Requests
  <2>2. CASE g \in net
    <3>1. peer # None /\ peer.pending.sn = g.sn /\ peer.pending.did = peer'.pending.did
      BY <1>4, <1>o, <2>2, WhosePending DEF PendingKept
    <3>2. \/ client.phase \in {"next", "ended"}
          \/ client.phase = "await" /\ client.sn = g.sn
          \/ /\ client.phase = "discovering" /\ peer.pending.did # client.did
             /\ \A f \in net : f.t = "RESP" => f.did # client.did
      BY <1>4, <1>i, <2>2, <3>1 DEF AsksOnce
    <3>3. CASE ClientSame
      <4>1. CASE client.phase = "discovering"
        <5>1. client'.phase = "discovering" /\ client'.did = client.did
          BY <3>3, <4>1 DEF ClientSame
        <5>2. \A f \in net' : f.t = "RESP" /\ f \notin net => f.did = peer'.pending.did
          BY NewResp
        <5> QED
          BY <3>1, <3>2, <4>1, <5>1, <5>2
      <4> QED
        BY <3>2, <3>3, <4>1 DEF ClientSame
    <3>4. CASE ClientOut
      BY <3>4 DEF ClientOut
    <3>5. CASE Discovers
      BY <1>d, <3>1, <3>5, WhereInUse
    <3>6. CASE Requests
      BY <3>2, <3>6 DEF Requests
    <3>7. CASE Enters
      BY <1>i, <3>1, <3>2, <3>7 DEF Enters, AcksAgree
    <3> QED
      BY <3>3, <3>4, <3>5, <3>6, <3>7, WhoChanges
  <2> QED
    BY <2>1, <2>2
<1> QED
  BY <1>2, <1>3, <1>4 DEF AsksOnce, Request

LEMMA ClientCounter ==
  ASSUME Kinds, client'.phase \in {"await", "session"}
  PROVE  \/ Requests
         \/ /\ client.phase \in {"await", "session"} /\ client'.cn = client.cn
            /\ client'.tx \in {client.tx, client.tx + 1}
<1> USE DEF ClientKept, ClientOut
<1>1. CASE Quietly
  BY <1>1 DEF Quietly
<1>2. CASE Discovers
  BY <1>2 DEF Discovers
<1>3. CASE Responds
  BY <1>3 DEF Responds
<1>4. CASE Enters
  BY <1>4 DEF Enters
<1>5. CASE Accepts
  BY <1>5 DEF Accepts
<1>6. CASE Refuses
  BY <1>6 DEF Refuses
<1>7. CASE ClientSeals
  BY <1>7 DEF ClientSeals
<1>8. CASE ServerSeals
  BY <1>8 DEF ServerSeals
<1>9. CASE Misproves
  BY <1>9 DEF Misproves
<1> QED
  BY <1>1, <1>2, <1>3, <1>4, <1>5, <1>6, <1>7, <1>8, <1>9 DEF Kinds

LEMMA BeforeSession ==
  ASSUME Kinds, SealsOnce, client'.phase \in {"discovering", "await"}
  PROVE  client'.tx = 0
<1> USE DEF ClientKept, ClientOut, SealsOnce
<1>1. CASE Quietly
  BY <1>1 DEF Quietly
<1>2. CASE Discovers
  BY <1>2 DEF Discovers
<1>3. CASE Responds
  BY <1>3 DEF Responds
<1>4. CASE Enters
  BY <1>4 DEF Enters
<1>5. CASE Accepts
  BY <1>5 DEF Accepts
<1>6. CASE Refuses
  BY <1>6 DEF Refuses
<1>7. CASE ClientSeals
  BY <1>7 DEF ClientSeals
<1>8. CASE ServerSeals
  BY <1>8 DEF ServerSeals
<1>9. CASE Misproves
  BY <1>9 DEF Misproves
<1>10. CASE Requests
  BY <1>10 DEF Requests
<1> QED
  BY <1>1, <1>2, <1>3, <1>4, <1>5, <1>6, <1>7, <1>8, <1>9, <1>10 DEF Kinds

LEMMA ServerCounter ==
  ASSUME Kinds, Active'
  PROVE  Accepts \/ peer'.sess.tx \in {peer.sess.tx, peer.sess.tx + 1}
<1> USE DEF Active, PeerKept, SessKept
<1>1. CASE Quietly
  BY <1>1 DEF Quietly
<1>2. CASE Discovers
  BY <1>2 DEF Discovers
<1>3. CASE Responds
  BY <1>3 DEF Responds
<1>4. CASE Enters
  BY <1>4 DEF Enters
<1>5. CASE Requests
  BY <1>5 DEF Requests
<1>6. CASE Refuses
  BY <1>6 DEF Refuses
<1>7. CASE ClientSeals
  BY <1>7 DEF ClientSeals
<1>8. CASE ServerSeals
  BY <1>8 DEF ServerSeals
<1>9. CASE Misproves
  BY <1>9 DEF Misproves
<1> QED
  BY <1>1, <1>2, <1>3, <1>4, <1>5, <1>6, <1>7, <1>8, <1>9 DEF Kinds

LEMMA NewFromClient ==
  ASSUME Kinds, client.tx \in Nat, NEW f \in net', f \notin net, Sealed(f), f.dir = "c2s"
  PROVE  /\ client.phase = "session" /\ f.cn = client.cn
         /\ f.no \in {client.tx, client.tx + 1}
         /\ client'.phase \in {"next", "ended"} \/ (/\ f.no = client.tx /\ f.t # "TEARDOWN"
                                                   /\ client'.tx = client.tx + 1)
         /\ \A g \in net' : g \notin net /\ f.no = g.no => f = g
<1>1. ClientSeals
  BY WhoSays
<1>2. client.phase = "session"
  BY <1>1 DEF ClientSeals
<1>3. CASE (\E t \in Payloads : Adds({ClientFrame(t, client.tx)})) /\ client'.tx = client.tx + 1
  <2>1. PICK t \in Payloads : Adds({ClientFrame(t, client.tx)})
    BY <1>3
  <2>2. f = ClientFrame(t, client.tx) /\ \A g \in net' : g \notin net => f = g
    BY <2>1 DEF Adds
  <2>3. f.cn = client.cn /\ f.no = client.tx /\ f.t = t
    BY <2>2, NewSealed
  <2> QED
    BY <1>2, <1>3, <2>2, <2>3 DEF Payloads
<1>4. CASE ClientOut /\ \E t \in Payloads :
             Adds({ClientFrame(t, client.tx), ClientFrame("TEARDOWN", client.tx + 1)})
  <2>1. PICK t \in Payloads :
          Adds({ClientFrame(t, client.tx), ClientFrame("TEARDOWN", client.tx + 1)})
    BY <1>4
  <2>2. /\ ClientFrame(t, client.tx).no = client.tx /\ ClientFrame(t, client.tx).cn = client.cn
        /\ ClientFrame("TEARDOWN", client.tx + 1).no = client.tx + 1
        /\ ClientFrame("TEARDOWN", client.tx + 1).cn = client.cn
    BY NewSealed
  <2>3. \A g \in net' : g \notin net =>
          g = ClientFrame(t, client.tx) \/ g = ClientFrame("TEARDOWN", client.tx + 1)
    BY <2>1 DEF Adds
  <2> QED
    BY <1>2, <1>4, <2>2, <2>3 DEF ClientOut
<1>5. CASE ClientOut /\ Adds({ClientFrame("TEARDOWN", client.tx)})
  <2>1. f = ClientFrame("TEARDOWN", client.tx) /\ \A g \in net' : g \notin net => f = g
    BY <1>5 DEF Adds
  <2>2. f.cn = client.cn /\ f.no = client.tx
    BY <2>1, NewSealed
  <2> QED
    BY <1>2, <1>5, <2>1, <2>2 DEF ClientOut
<1> QED
  BY <1>1, <1>3, <1>4, <1>5 DEF ClientSeals

LEMMA NewFromServer ==
  ASSUME Kinds, NEW f \in net', f \notin net, Sealed(f), f.dir = "s2c"
  PROVE  /\ Active /\ f.sn = peer.sess.sn /\ f.no = peer.sess.tx
         /\ peer' = None \/ (f.t # "TEARDOWN" /\ peer'.sess.tx = peer.sess.tx + 1)
         /\ \A g \in net' : g \notin net => f = g
<1>1. ServerSeals
  BY WhoSays
<1>2. CASE (\E t \in Payloads : Adds({ServerFrame(t)})) /\ peer'.sess.tx = peer.sess.tx + 1
  <2>1. PICK t \in Payloads : Adds({ServerFrame(t)})
    BY <1>2
  <2>2. f = ServerFrame(t) /\ \A g \in net' : g \notin net => f = g
    BY <2>1 DEF Adds
  <2>3. f.sn = peer.sess.sn /\ f.no = peer.sess.tx /\ f.t = t
    BY <2>2, NewSealed
  <2> QED
    BY <1>1, <1>2, <2>2, <2>3 DEF Payloads, ServerSeals
<1>3. CASE peer' = None /\ Adds({ServerFrame("TEARDOWN")})
  <2>1. f = ServerFrame("TEARDOWN") /\ \A g \in net' : g \notin net => f = g
    BY <1>3 DEF Adds
  <2>2. f.sn = peer.sess.sn /\ f.no = peer.sess.tx
    BY <2>1, NewSealed
  <2> QED
    BY <1>1, <1>3, <2>1, <2>2 DEF ServerSeals
<1> QED
  BY <1>1, <1>2, <1>3 DEF ServerSeals

LEMMA SealsOnceKept ==
  ASSUME Shapes, Shapes', Link, Kinds
  PROVE  SealsOnce'
<1>i. SealsOnce /\ PendingUnused
  BY DEF Link
<1>t. /\ client.tx \in Nat /\ (peer # None => peer.sess.tx \in Nat)
      /\ \A f \in net \cup net' : Sealed(f) => f.no \in Nat /\ f.dir \in {"c2s", "s2c"}
  <2>1. client.tx \in Nat
    BY DEF Shapes, ClientShape, Clients
  <2>2. peer # None => peer.sess.tx \in Nat
    BY DEF Shapes, PeerShape, Peers, Sessions
  <2>3. \A f \in net \cup net' : Sealed(f) => f.no \in Nat /\ f.dir \in {"c2s", "s2c"}
    BY FrameFields DEF Shapes, NetShape
  <2> QED
    BY <2>1, <2>2, <2>3
<1>1. client'.phase \in {"discovering", "await"} => client'.tx = 0
  BY <1>i, BeforeSession
<1>2. ASSUME NEW f \in net', Sealed(f), client'.phase \in {"await", "session"}, f.dir = "c2s",
             f.cn = client'.cn
      PROVE  f.no < client'.tx /\ f.t # "TEARDOWN"
  <2>1. CASE f \notin net
    BY <1>2, <1>t, <2>1, NewFromClient
  <2>2. CASE f \in net
    <3>1. ~Requests
      <4>1. f.cn \in InUse("cn")
        BY <1>2, <2>2, WhereInUse
      <4> QED
        BY <1>2, <4>1 DEF Requests
    <3>2. /\ client.phase \in {"await", "session"} /\ client'.cn = client.cn
          /\ client'.tx \in {client.tx, client.tx + 1}
      BY <1>2, <3>1, ClientCounter
    <3>3. f.no < client.tx /\ f.t # "TEARDOWN"
      BY <1>2, <1>i, <2>2, <3>2 DEF SealsOnce
    <3> QED
      BY <1>2, <1>t, <3>2, <3>3
  <2> QED
    BY <2>1, <2>2
<1>3. ASSUME NEW f \in net', Sealed(f), Active', f.dir = "s2c", f.sn = peer'.sess.sn
      PROVE  f.no < peer'.sess.tx /\ f.t # "TEARDOWN"
  <2>1. CASE f \notin net
    BY <1>3, <1>t, <2>1, NewFromServer DEF Active
  <2>2. CASE f \in net
    <3>1. ~Accepts
      <4>1. SUFFICES ASSUME Accepts PROVE FALSE
        OBVIOUS
      <4>2. peer # None /\ f.sn = peer.pending.sn /\ peer.pending.sn # None
        BY <1>3, <4>1, Accepting, NoneIsNothing
      <4> QED
        BY <1>3, <1>i, <2>2, <4>2 DEF PendingUnused
    <3>2. Active /\ f.sn = peer.sess.sn /\ peer'.sess.tx \in {peer.sess.tx, peer.sess.tx + 1}
      BY <1>3, <3>1, WhoseSession, ServerCounter
    <3>3. f.no < peer.sess.tx /\ f.t # "TEARDOWN"
      BY <1>3, <1>i, <2>2, <3>2 DEF SealsOnce
    <3> QED
      BY <1>3, <1>t, <3>2, <3>3 DEF Active
  <2> QED
    BY <2>1, <2>2
<1>4. ASSUME NEW f \in net', NEW g \in net', Sealed(f), Sealed(g), f.dir = g.dir, f.sn = g.sn,
             f.cn = g.cn, f.no = g.no, f \notin net
      PROVE  f = g
  <2>1. CASE f.dir = "c2s"
    <3>1. /\ client.phase = "session" /\ f.cn = client.cn /\ f.no >= client.tx
          /\ g \notin net => f = g
      BY <1>4, <1>t, <2>1, NewFromClient
    <3>2. g \in net => g.no < client.tx
      BY <1>4, <1>i, <2>1, <3>1 DEF SealsOnce
    <3>3. g.no \in Nat
      BY <1>4, <1>t
    <3> QED
      BY <1>4, <1>t, <3>1, <3>2, <3>3
  <2>2. CASE f.dir = "s2c"
    <3>1. Active /\ f.sn = peer.sess.sn /\ f.no = peer.sess.tx /\ (g \notin net => f = g)
      BY <1>4, <2>2, NewFromServer
    <3>2. g \in net => g.no < peer.sess.tx
      BY <1>4, <1>i, <2>2, <3>1 DEF SealsOnce
    <3>3. g.no \in Nat /\ peer.sess.tx \in Nat
      BY <1>4, <1>t, <3>1 DEF Active
    <3> QED
      BY <1>4, <1>t, <3>1, <3>2, <3>3
  <2> QED
    BY <1>4, <1>t, <2>1, <2>2
<1>5. ASSUME NEW f \in net', NEW g \in net', Sealed(f), Sealed(g), f.dir = g.dir, f.sn = g.sn,
             f.cn = g.cn, f.no = g.no
      PROVE  f = g
  <2>1. CASE f \in net /\ g \in net
    BY <1>5, <1>i, <2>1 DEF SealsOnce
  <2> QED
    BY <1>4, <1>5, <2>1
<1> QED
  BY <1>1, <1>2, <1>3, <1>5 DEF SealsOnce, Sealed

LEMMA LinkKept ==
  ASSUME Shapes, Shapes', Link, Kinds
  PROVE  Link'
  BY AcksAgreeKept, AgreementKept, PendingUnusedKept, AnswersDifferKept, AsksOnceKept,
     SealsOnceKept DEF Link

-----------------------------------------------------------------------------
(* The lockout and the counters *)

LEMMA GuardSteps ==
  ASSUME [Next]_vars
  PROVE  \/ guard' = guard \/ guard' = NoGuard \/ guard' = [guard EXCEPT !.fails = 0]
         \/ ~Active /\ guard' = record_failure(guard)
<1>2. ASSUME NEW f \in net, ServerReceives(f)
      PROVE  guard' = guard \/ guard' = NoGuard \/ (~Active /\ guard' = record_failure(guard))
  BY <1>2 DEF ServerReceives, begin_discover, LockedOut, Accepted, Rejected, Unauthentic,
     ServerSessionFrame
<1>3. ASSUME NEW f \in net, ClientReceives(f) PROVE guard' = guard
  BY <1>3 DEF ClientReceives, on_resp, on_auth_frame, ClientSessionFrame
<1> QED
  BY <1>2, <1>3 DEF Next, vars, FrameArrives, discover_frame, HandshakeTimeout, Keepalive,
     ClientData, Shutdown, StartClient, ServerData, Sweep, ServerRestart, WindowOver, LockOver,
     Ignore, Lose, WrongProof

LEMMA GuardRecords ==
  ASSUME guard \in Guards
  PROVE  /\ NoGuard \in Guards /\ NoGuard.fails = 0 /\ NoGuard.locked = FALSE
         /\ [guard EXCEPT !.fails = 0] \in Guards /\ [guard EXCEPT !.fails = 0].fails = 0
         /\ [guard EXCEPT !.fails = 0].locked = guard.locked
  BY Zenon DEF NoGuard, Guards

LEMMA GuardKeeps ==
  ASSUME GuardKept, Kinds, [Next]_vars
  PROVE  GuardKept'
<1>t. guard \in Guards /\ guard.fails \in Nat /\ guard.locked \in BOOLEAN
  BY DEF GuardKept, Guards
<1>m. MaxFails \in Nat /\ 2 <= MaxFails
  BY TerrainBounds
<1>1. /\ guard' \in Guards /\ guard'.fails <= MaxFails
      /\ guard'.locked \/ guard'.fails < MaxFails
  <2>1. CASE guard' = guard
    BY <2>1 DEF GuardKept
  <2>2. CASE guard' = NoGuard
    BY <1>t, <1>m, <2>2, GuardRecords
  <2>3. CASE guard' = [guard EXCEPT !.fails = 0]
    BY <1>t, <1>m, <2>3, GuardRecords
  <2>4. CASE guard' = record_failure(guard) /\ ~guard.locked
    <3> DEFINE n == guard.fails + 1
               l == guard.fails > 0 /\ guard.fails + 1 >= MaxFails
    <3>1. guard' = [fails |-> n, locked |-> l]
      BY <2>4 DEF record_failure
    <3>2. n \in Nat /\ n <= MaxFails /\ l \in BOOLEAN /\ (l \/ n < MaxFails)
      BY <1>t, <1>m, <2>4 DEF GuardKept
    <3> HIDE DEF n, l
    <3>3. guard' \in Guards /\ guard'.fails = n /\ guard'.locked = l
      BY <3>1, <3>2, Zenon DEF Guards
    <3> QED
      BY <3>2, <3>3
  <2>5. CASE guard' = record_failure(guard) /\ guard.locked
    BY <2>5 DEF GuardKept, record_failure
  <2> QED
    BY <2>1, <2>2, <2>3, <2>4, <2>5, GuardSteps
<1>2. SessionNotLockedOut'
  <2>1. SUFFICES ASSUME Active' PROVE ~guard'.locked
    BY DEF SessionNotLockedOut
  <2>2. CASE guard' = NoGuard
    BY <2>2 DEF NoGuard
  <2>3. CASE guard' # NoGuard
    <3>1. Active
      BY <2>1, <2>3, WhoseSession DEF Accepts
    <3>2. ~guard.locked
      BY <3>1 DEF GuardKept, SessionNotLockedOut
    <3>3. guard' = guard \/ guard' = [guard EXCEPT !.fails = 0]
      BY <2>3, <3>1, GuardSteps
    <3> QED
      BY <1>t, <3>2, <3>3, GuardRecords
  <2> QED
    BY <2>2, <2>3
<1> QED
  BY <1>1, <1>2 DEF GuardKept

LEMMA Searching ==
  ASSUME NEW d \in Maybe, NEW n \in Nat,
         client' = [Nowhere EXCEPT !.phase = "discovering", !.did = d, !.tries = n]
  PROVE  client'.tries = n /\ client'.tx = 0 /\ client'.missed = 0
  BY DEF Nowhere

LEMMA ClientCountKept ==
  ASSUME Shapes, ClientCount, [Next]_vars
  PROVE  ClientCount'
<1> USE DEF ClientCount
<1>t. /\ client \in Clients /\ client.tries \in Nat /\ client.missed \in Nat /\ client.tx \in Nat
      /\ MaxTries \in Nat /\ MaxMissed \in Nat /\ 1 <= MaxMissed /\ load.seq \in Nat
  <2>1. client \in Clients
    BY DEF Shapes, ClientShape
  <2>2. client.tries \in Nat /\ client.missed \in Nat /\ client.tx \in Nat
    BY <2>1 DEF Clients
  <2>3. load.seq \in Nat
    BY TerrainBounds DEF Shapes
  <2> QED
    BY <2>1, <2>2, <2>3, TerrainBounds
<1>l. load' = load
  BY DEF Next, vars, FrameArrives, discover_frame, HandshakeTimeout, Keepalive, ClientData, Shutdown,
     StartClient, ServerData, Sweep, ServerRestart, WindowOver, LockOver, Ignore, Lose, WrongProof,
     ServerReceives, begin_discover, LockedOut, Accepted, Rejected, Unauthentic, ServerSessionFrame,
     ClientReceives, on_resp, on_auth_frame, ClientSessionFrame
<1>o. client' = Nowhere \/ client' = Ended => ClientCount'
  BY <1>t, <1>l, Outside
<1>k. client' = client => ClientCount'
  BY <1>l
<1>1. CASE discover_frame
  <2>1. CASE client.tries < MaxTries
    <3> DEFINE d == FreshId
               n == client.tries + 1
    <3>1. client' = [Nowhere EXCEPT !.phase = "discovering", !.did = d, !.tries = n]
      BY <1>1, <2>1 DEF discover_frame
    <3>2. d \in Nat
      BY FreshIsNew DEF FreshId
    <3>4. n \in Nat /\ n <= MaxTries
      BY <1>t, <2>1
    <3> HIDE DEF d, n
    <3>5. d \in Maybe
      BY <3>2 DEF Maybe
    <3>3. client'.tries = n /\ client'.tx = 0 /\ client'.missed = 0
      BY <3>1, <3>4, <3>5, Searching
    <3> QED
      BY <1>l, <1>t, <3>3, <3>4
  <2>2. CASE ~(client.tries < MaxTries)
    BY <1>1, <1>o, <2>2 DEF discover_frame
  <2> QED
    BY <2>1, <2>2
<1>2. ASSUME client' = Rediscover PROVE ClientCount'
  <2>1. client'.tries = client.tries /\ client'.tx = 0 /\ client'.missed = 0
    BY <1>2, <1>t, Outside, ClientTries DEF Rediscover
  <2> QED
    BY <1>l, <1>t, <2>1
<1>3. CASE Keepalive
  <2>1. CASE client.missed + 1 >= MaxMissed
    BY <1>3, <1>o, <2>1 DEF Keepalive
  <2>2. CASE ~(client.missed + 1 >= MaxMissed)
    <3>1. client' = [client EXCEPT !.tx = client.tx + 1, !.missed = client.missed + 1]
      BY <1>3, <2>2 DEF Keepalive
    <3>2. client.tx + 1 \in Nat /\ client.missed + 1 \in Nat /\ client.tx + 1 < load.seq
      BY <1>3, <1>t DEF Keepalive
    <3>3. /\ client'.tries = client.tries /\ client'.tx = client.tx + 1
          /\ client'.missed = client.missed + 1
      BY <1>t, <3>1, <3>2, ClientSpeaks
    <3> QED
      BY <1>l, <1>t, <2>2, <3>2, <3>3
  <2> QED
    BY <2>1, <2>2
<1>4. CASE ClientData
  <2>1. client' = [client EXCEPT !.tx = client.tx + 1] /\ client.tx + 1 < load.seq
    BY <1>4 DEF ClientData
  <2>2. client.tx + 1 \in Nat
    BY <1>t
  <2>3. client'.tries = client.tries /\ client'.tx = client.tx + 1 /\ client'.missed = client.missed
    BY <1>t, <2>1, <2>2, ClientCounts
  <2> QED
    BY <1>l, <1>t, <2>1, <2>3
<1>5. ASSUME NEW f \in net, ClientReceives(f) PROVE ClientCount'
  <2>f. f \in Frames
    BY DEF Shapes, NetShape
  <2>1. CASE on_resp(f) /\ client' # Rediscover
    <3>1. client' = [client EXCEPT !.phase = "await", !.did = None, !.sn = f.sn,
                                   !.cn = FreshClientNonce(f.sn)]
      BY <2>1 DEF on_resp
    <3>2. f.sn \in Nat
      BY <2>1, <2>f, FrameFields DEF on_resp
    <3>3. "await" \in Phases /\ f.sn \in Maybe /\ FreshClientNonce(f.sn) \in Maybe
      BY <3>2, FreshIsNew DEF FreshClientNonce, Phases, Maybe
    <3> DEFINE c == FreshClientNonce(f.sn)
    <3>r. client' = [client EXCEPT !.phase = "await", !.did = None, !.sn = f.sn, !.cn = c]
      BY <3>1
    <3>c. c \in Maybe
      BY <3>3
    <3> HIDE DEF c
    <3>4. client'.tries = client.tries /\ client'.tx = client.tx /\ client'.missed = client.missed
      BY <1>t, <3>r, <3>c DEF Clients
    <3> QED
      BY <1>l, <3>4
  <2>2. CASE on_auth_frame(f) /\ client' # Ended
    <3>1. client' = [client EXCEPT !.phase = "session", !.sid = f.sid, !.tries = 0] /\ Authentic(f)
      BY <2>2 DEF on_auth_frame
    <3>2. "session" \in Phases /\ f.sid \in Maybe
      BY <2>f, <3>1, FrameFields DEF Authentic, Phases, Maybe
    <3>3. client'.tries = 0 /\ client'.tx = client.tx /\ client'.missed = client.missed
      BY <1>t, <3>1, <3>2, ClientEnters
    <3> QED
      BY <1>l, <1>t, <3>3
  <2>3. CASE ClientSessionFrame(f) /\ client' # Nowhere
    <3>1. client' = [client EXCEPT !.rx = f.seq, !.missed = 0] /\ Sealed(f)
      BY <2>3 DEF ClientSessionFrame
    <3>2. f.seq \in Maybe
      BY <2>f, <3>1, FrameFields DEF Maybe
    <3>3. client'.tries = client.tries /\ client'.tx = client.tx /\ client'.missed = 0
      BY <1>t, <3>1, <3>2, ClientHears
    <3> QED
      BY <1>l, <1>t, <3>3
  <2> QED
    BY <1>2, <1>5, <1>o, <2>1, <2>2, <2>3 DEF ClientReceives
<1>6. ASSUME NEW f \in net, ServerReceives(f) PROVE client' = client
  BY <1>6 DEF ServerReceives, begin_discover, LockedOut, Accepted, Rejected, Unauthentic,
     ServerSessionFrame
<1>7. CASE HandshakeTimeout \/ Shutdown \/ StartClient
  BY <1>2, <1>7, <1>o DEF HandshakeTimeout, Shutdown, StartClient
<1>8. CASE \/ ServerData \/ Sweep \/ ServerRestart \/ WindowOver \/ LockOver
           \/ Ignore \/ Lose \/ WrongProof \/ UNCHANGED vars
  BY <1>8, <1>k DEF ServerData, Sweep, ServerRestart, WindowOver, LockOver, Ignore, Lose,
     WrongProof, vars
<1> QED
  BY <1>1, <1>3, <1>4, <1>5, <1>6, <1>7, <1>8, <1>k DEF Next, FrameArrives

LEMMA PeerCountKept ==
  ASSUME Shapes, PeerCount, [Next]_vars
  PROVE  PeerCount'
<1> USE DEF PeerCount
<1>t. /\ peer # None => /\ peer \in Peers /\ peer.sess \in Sessions /\ peer.pending \in Pendings
                        /\ peer.next \in Nat /\ peer.sess.tx \in Nat
      /\ load.sids \in Nat /\ 1 <= load.sids /\ load.replies \in Nat
  <2>1. peer # None => peer \in Peers
    BY DEF Shapes, PeerShape
  <2>2. peer # None => /\ peer.sess \in Sessions /\ peer.pending \in Pendings /\ peer.next \in Nat
                       /\ peer.sess.tx \in Nat
    BY <2>1 DEF Peers, Sessions
  <2>3. load.sids \in Nat \ {0} /\ load.replies \in Nat
    BY TerrainBounds DEF Shapes
  <2> QED
    BY <2>1, <2>2, <2>3
<1>l. load' = load
  BY DEF Next, vars, FrameArrives, discover_frame, HandshakeTimeout, Keepalive, ClientData, Shutdown,
     StartClient, ServerData, Sweep, ServerRestart, WindowOver, LockOver, Ignore, Lose, WrongProof,
     ServerReceives, begin_discover, LockedOut, Accepted, Rejected, Unauthentic, ServerSessionFrame,
     ClientReceives, on_resp, on_auth_frame, ClientSessionFrame
<1>k. peer' = peer \/ peer' = None => PeerCount'
  BY <1>l
<1>s. (peer # None /\ peer'.next = peer.next /\ peer'.sess.tx = peer.sess.tx) => PeerCount'
  BY <1>l
<1>w. ASSUME peer # None, CanSeal(peer.sess), NEW s \in Sessions, s.tx = peer.sess.tx + 1,
             peer' = [peer EXCEPT !.sess = s]
      PROVE  PeerCount'
  <2>1. peer'.next = peer.next /\ peer'.sess.tx = peer.sess.tx + 1
    BY <1>t, <1>w, PeerTalks
  <2> QED
    BY <1>l, <1>t, <1>w, <2>1 DEF CanSeal
<1>p. ASSUME peer # None, peer' = [peer EXCEPT !.pending = NoPending] PROVE PeerCount'
  BY <1>p, <1>s, <1>t, PeerRecords, PeerPends
<1>1. ASSUME NEW f \in net, ServerReceives(f) PROVE PeerCount'
  <2>f. f \in Frames
    BY DEF Shapes, NetShape
  <2>1. CASE begin_discover(f)
    <3> DEFINE known == IF peer = None THEN NewPeer ELSE peer
               d == f.did
               n == IF known.pending.did = d THEN known.pending.sn ELSE FreshServerNonce(d)
               q == [NoPending EXCEPT !.did = d, !.sn = n]
    <3>1. peer' = [known EXCEPT !.pending = q]
      BY <2>1 DEF begin_discover
    <3>2. /\ known \in Peers /\ 1 <= known.next /\ known.next <= load.sids
          /\ known.sess.tx <= load.replies
      <4>1. CASE peer = None
        BY <1>t, <4>1, PeerRecords
      <4>2. CASE peer # None
        BY <1>t, <4>2
      <4> QED
        BY <4>1, <4>2
    <3> HIDE DEF known, d, n
    <3>3. peer'.next = known.next /\ peer'.sess = known.sess
      BY <3>1, <3>2 DEF Peers
    <3> QED
      BY <1>l, <3>2, <3>3
  <2>2. CASE LockedOut(f) \/ Rejected(f)
    BY <1>k, <1>p, <2>2 DEF LockedOut, Rejected, Verifies
  <2>3. CASE Accepted(f)
    <3> DEFINE s == NewSession(f.sn, f.cn, peer.next)
               n == IF peer.next = load.sids THEN 1 ELSE peer.next + 1
    <3>1. peer # None /\ peer' = [pending |-> NoPending, sess |-> s, next |-> n, old |-> FALSE]
      BY <2>3 DEF Accepted, Verifies
    <3>2. s.tx = 0
      BY DEF NewSession
    <3>3. 1 <= n /\ n <= load.sids
      BY <1>t, <3>1
    <3> HIDE DEF s, n
    <3>4. peer'.next = n /\ peer'.sess = s
      BY <3>1, Zenon
    <3> QED
      BY <1>l, <1>t, <3>2, <3>3, <3>4
  <2>4. CASE Unauthentic(f)
    BY <1>k, <2>4 DEF Unauthentic
  <2>5. CASE ServerSessionFrame(f)
    <3>0. peer # None /\ f.seq \in Nat
      BY <2>5, <2>f, FrameFields DEF ServerSessionFrame, Active
    <3>1. /\ Taken(peer.sess, f) \in Sessions /\ Taken(peer.sess, f).tx = peer.sess.tx
      BY <1>t, <3>0, SessionTakes
    <3>2. /\ Said(Taken(peer.sess, f)) \in Sessions
          /\ Said(Taken(peer.sess, f)).tx = peer.sess.tx + 1
      BY <3>1, SessionSays
    <3>3. CASE peer' = [peer EXCEPT !.sess = Taken(peer.sess, f)]
      BY <1>s, <1>t, <3>0, <3>1, <3>3, PeerTalks
    <3>4. CASE peer' = [peer EXCEPT !.sess = Said(Taken(peer.sess, f))] /\ CanSeal(peer.sess)
      BY <1>w, <3>0, <3>2, <3>4
    <3> QED
      BY <1>k, <2>5, <3>3, <3>4 DEF ServerSessionFrame
  <2> QED
    BY <1>1, <2>1, <2>2, <2>3, <2>4, <2>5 DEF ServerReceives
<1>2. ASSUME NEW f \in net, ClientReceives(f) PROVE PeerCount'
  BY <1>2, <1>k DEF ClientReceives, on_resp, on_auth_frame, ClientSessionFrame
<1>3. CASE HandshakeTimeout
  <2>1. CASE peer = None \/ Active
    BY <1>3, <1>k, <2>1 DEF HandshakeTimeout, Aged
  <2>2. CASE peer # None /\ ~Active
    <3>1. peer'.next = peer.next /\ peer'.sess = peer.sess
      BY <1>3, <1>t, <2>2 DEF HandshakeTimeout, Aged, Peers
    <3> QED
      BY <1>s, <2>2, <3>1
  <2> QED
    BY <2>1, <2>2
<1>4. CASE ServerData
  <2>1. /\ peer # None /\ CanSeal(peer.sess)
        /\ peer' = [peer EXCEPT !.sess = Said(peer.sess)]
    BY <1>4 DEF ServerData, Active
  <2>2. Said(peer.sess) \in Sessions /\ Said(peer.sess).tx = peer.sess.tx + 1
    BY <1>t, <2>1, SessionSays
  <2> QED
    BY <1>w, <2>1, <2>2
<1>5. CASE \/ discover_frame \/ Keepalive \/ ClientData \/ Shutdown \/ StartClient
           \/ Sweep \/ ServerRestart \/ WindowOver \/ LockOver
           \/ Ignore \/ Lose \/ WrongProof \/ UNCHANGED vars
  BY <1>5, <1>k DEF discover_frame, Keepalive, ClientData, Shutdown, StartClient, Sweep,
     ServerRestart, WindowOver, LockOver, Ignore, Lose, WrongProof, vars
<1> QED
  BY <1>1, <1>2, <1>3, <1>4, <1>5 DEF Next, FrameArrives

-----------------------------------------------------------------------------
(* The invariant, and what follows from it *)

LEMMA TerrainInvStarts == Init => TerrainInv
<1>1. SUFFICES ASSUME Init PROVE TerrainInv
  OBVIOUS
<1>2. client = Nowhere /\ peer = None /\ guard = NoGuard /\ net = {} /\ load \in Loads
  BY <1>1 DEF Init
<1>3. Shapes
  <2>1. ClientShape
    BY <1>2, Outside DEF ClientShape
  <2>2. IsFiniteSet({}) /\ Cardinality({}) = 0
    BY FS_EmptySet
  <2>3. NetShape
    BY <1>2, <2>2, TerrainBounds DEF NetShape
  <2> QED
    BY <1>2, <2>1, <2>3 DEF Shapes, PeerShape
<1>4. Link
  BY <1>2, Outside DEF Link, AcksAgree, Agreement, PendingUnused, AnswersDiffer, AsksOnce,
     SealsOnce
<1>5. GuardKept
  <2>1. guard \in Guards /\ guard.fails = 0 /\ guard.locked = FALSE
    BY <1>2, Zenon DEF NoGuard, Guards
  <2> QED
    BY <1>2, <2>1, TerrainBounds DEF GuardKept, SessionNotLockedOut, Active
<1>6. ClientCount /\ PeerCount
  <2>1. MaxTries \in Nat /\ MaxMissed \in Nat \ {0} /\ load.seq \in Nat
    BY <1>2, TerrainBounds
  <2> QED
    BY <1>2, <2>1, Outside DEF ClientCount, PeerCount
<1> QED
  BY <1>3, <1>4, <1>5, <1>6 DEF TerrainInv

LEMMA TerrainInvKept == TerrainInv /\ [Next]_vars => TerrainInv'
<1>1. SUFFICES ASSUME TerrainInv, [Next]_vars PROVE TerrainInv'
  OBVIOUS
<1>2. Shapes' /\ Kinds
  BY <1>1, KindOfStep DEF TerrainInv
<1>3. Link'
  BY <1>1, <1>2, LinkKept DEF TerrainInv
<1>4. GuardKept'
  BY <1>1, <1>2, GuardKeeps DEF TerrainInv
<1>5. ClientCount' /\ PeerCount'
  BY <1>1, ClientCountKept, PeerCountKept DEF TerrainInv
<1> QED
  BY <1>2, <1>3, <1>4, <1>5 DEF TerrainInv

THEOREM TerrainInvariant == Spec => []TerrainInv
  BY TerrainInvStarts, TerrainInvKept, PTL DEF Spec

(* Before a counter wraps it is the number of the frame. *)
LEMMA FirstIsPlain ==
  ASSUME NEW n \in Nat, n < SeqSpace
  PROVE  n % SeqSpace = n
  BY TerrainBounds

(* What seals a frame, by the frame's type. *)
LEMMA CounterOf ==
  ASSUME NEW f \in Frames
  PROVE  \/ Sealed(f) /\ Counter(f) = <<f.dir, f.sn, f.cn, f.seq>>
         \/ f.t = "RESP" /\ Counter(f) = <<"s2c", f.sn, 3>>
         \/ f.t = "AUTH_ACK" /\ Counter(f) = <<"s2c", f.sn, 1>>
         \/ f.t = "AUTH_NACK" /\ f.sn # None /\ Counter(f) = <<"s2c", f.sn, 2>>
         \/ Request(f) /\ Counter(f) = <<"c2s", f.sn, 0>>
         \/ Counter(f) = <<f>>
<1>1. CASE Sealed(f)
  <2>1. f.t \in {"KEEPALIVE", "DATA", "TEARDOWN"}
    BY <1>1 DEF Sealed, Payloads
  <2> QED
    BY <1>1, <2>1 DEF Counter
<1>2. CASE ~Sealed(f)
  BY <1>2 DEF Counter, Request
<1> QED
  BY <1>1, <1>2

(* The sealing of the frames under way follows from the parts of Link.      *)
LEMMA LinkSealsOnce ==
  ASSUME Shapes, Link
  PROVE  SealedOnce
<1>1. ASSUME NEW f \in net, NEW g \in net, FirstRound(f), FirstRound(g), Counter(f) = Counter(g)
      PROVE  f = g
  <2>0. f \in Frames /\ g \in Frames
    BY DEF Shapes, NetShape
  <2>g. \/ Sealed(g) /\ Counter(g) = <<g.dir, g.sn, g.cn, g.seq>>
        \/ g.t = "RESP" /\ Counter(g) = <<"s2c", g.sn, 3>>
        \/ g.t = "AUTH_ACK" /\ Counter(g) = <<"s2c", g.sn, 1>>
        \/ g.t = "AUTH_NACK" /\ g.sn # None /\ Counter(g) = <<"s2c", g.sn, 2>>
        \/ Request(g) /\ Counter(g) = <<"c2s", g.sn, 0>>
        \/ Counter(g) = <<g>>
    BY <2>0, CounterOf
  <2>1. CASE Sealed(f) /\ Counter(f) = <<f.dir, f.sn, f.cn, f.seq>>
    <3>1. Sealed(g) /\ Counter(g) = <<g.dir, g.sn, g.cn, g.seq>>
      BY <1>1, <2>g, <2>1
    <3>2. f.dir = g.dir /\ f.sn = g.sn /\ f.cn = g.cn /\ f.seq = g.seq
      <4>1. <<f.dir, f.sn, f.cn, f.seq>> = <<g.dir, g.sn, g.cn, g.seq>>
        BY <1>1, <2>1, <3>1, Zenon
      <4> QED
        BY <4>1
    <3>3. f.seq = f.no /\ g.seq = g.no
      BY <1>1, <2>0, <2>1, <3>1, FrameFields, FirstIsPlain DEF FirstRound
    <3> QED
      BY <2>1, <3>1, <3>2, <3>3 DEF Link, SealsOnce
  <2>2. CASE f.t = "RESP" /\ Counter(f) = <<"s2c", f.sn, 3>>
    <3>1. g.t = "RESP" /\ f.sn = g.sn
      BY <1>1, <2>g, <2>2
    <3> QED
      BY <2>2, <3>1 DEF Link, AnswersDiffer
  <2>3. CASE f.t = "AUTH_ACK" /\ Counter(f) = <<"s2c", f.sn, 1>>
    <3>1. g.t = "AUTH_ACK" /\ f.sn = g.sn
      BY <1>1, <2>g, <2>3
    <3> QED
      BY <2>3, <3>1 DEF Link, AcksAgree
  <2>4. CASE f.t = "AUTH_NACK" /\ f.sn # None /\ Counter(f) = <<"s2c", f.sn, 2>>
    <3>1. g.t = "AUTH_NACK" /\ f.sn = g.sn
      BY <1>1, <2>g, <2>4
    <3> QED
      BY <2>4, <3>1 DEF Link, AnswersDiffer
  <2>5. CASE Request(f) /\ Counter(f) = <<"c2s", f.sn, 0>>
    <3>1. Request(g) /\ f.sn = g.sn
      BY <1>1, <2>g, <2>5
    <3> QED
      BY <2>5, <3>1 DEF Link, AsksOnce
  <2>6. CASE Counter(f) = <<f>>
    <3>1. Counter(g) = <<g>>
      BY <1>1, <2>g, <2>6
    <3>2. <<f>> = <<g>>
      BY <1>1, <2>6, <3>1, Zenon
    <3> QED
      BY <3>2
  <2> QED
    BY <2>0, <2>1, <2>2, <2>3, <2>4, <2>5, <2>6, CounterOf
<1>2. ASSUME NEW f \in net, Sealed(f)
      PROVE  /\ Active /\ f.dir = "s2c" /\ SameSession(f, peer.sess) /\ peer.sess.tx < SeqSpace
                  => f.seq < peer.sess.tx
             /\ client.phase = "session" /\ f.dir = "c2s" /\ SameSession(f, client)
                /\ client.tx < SeqSpace => f.seq < client.tx
  <2>1. /\ f.no \in Nat /\ f.seq = f.no % SeqSpace /\ client.tx \in Nat
        /\ Active => peer.sess.tx \in Nat
    BY <1>2, FrameFields DEF Shapes, NetShape, ClientShape, PeerShape, Clients, Peers, Sessions, Active
  <2>2. /\ Active /\ f.dir = "s2c" /\ SameSession(f, peer.sess) => f.no < peer.sess.tx
        /\ client.phase = "session" /\ f.dir = "c2s" /\ SameSession(f, client) => f.no < client.tx
    BY <1>2 DEF Link, SealsOnce, SameSession
  <2>3. f.no < SeqSpace => f.seq = f.no
    BY <2>1, FirstIsPlain
  <2>4. SeqSpace \in Nat
    BY TerrainBounds
  <2> QED
    BY <2>1, <2>2, <2>3, <2>4
<1> QED
  BY <1>1, <1>2 DEF SealedOnce

LEMMA CountsTypeOK ==
  ASSUME Shapes, GuardKept, ClientCount, PeerCount
  PROVE  TypeOK
<1>1. /\ client \in Clients /\ client.tries \in Nat /\ client.missed \in Nat /\ client.tx \in Nat
      /\ client.phase \in {"next", "discovering", "await", "session", "ended"}
  BY DEF Shapes, ClientShape, Clients
<1>2. /\ load.seq \in Nat /\ load.replies \in Nat /\ load.sids \in Nat
      /\ MaxTries \in Nat /\ MaxMissed \in Nat /\ MaxFails \in Nat
  BY TerrainBounds DEF Shapes
<1>3. client.tries \in 0..MaxTries /\ client.missed \in 0..(MaxMissed - 1) /\ client.tx \in 0..load.seq
  BY <1>1, <1>2 DEF ClientCount
<1>4. peer # None => peer.next \in 1..load.sids /\ peer.sess.tx \in 0..load.replies
  <2>1. peer # None => peer.next \in Nat /\ peer.sess.tx \in Nat
    BY DEF Shapes, PeerShape, Peers, Sessions
  <2> QED
    BY <1>2, <2>1 DEF PeerCount
<1>5. guard.fails \in 0..MaxFails
  <2>1. guard.fails \in Nat /\ guard.fails <= MaxFails
    BY DEF GuardKept, Guards
  <2> QED
    BY <1>2, <2>1
<1> QED
  BY <1>1, <1>3, <1>4, <1>5 DEF TypeOK, Shapes, NetShape

(* In every behaviour of the link the two ends of a session agree on it:    *)
(* one server nonce never stands for two sessions, and the session id the   *)
(* client took from the AUTH_ACK is the server's (on_auth_frame,            *)
(* verify_auth).                                                            *)
THEOREM TerrainAgrees == Spec => []Agreement
<1>1. TerrainInv => Agreement
  BY DEF TerrainInv, Link
<1> QED
  BY <1>1, TerrainInvariant, PTL

(* In every behaviour no key seals two frames with one counter before that  *)
(* counter has wrapped, however many frames a session has, and a MAC with a *)
(* session is not locked out (HandshakeKeys, SessionCrypto, AuthGuard).     *)
THEOREM TerrainSessionsHold == Spec => []SessionInvariant
<1>1. TerrainInv => SessionInvariant
  BY LinkSealsOnce, CountsTypeOK DEF TerrainInv, GuardKept, SessionInvariant
<1> QED
  BY <1>1, TerrainInvariant, PTL

-----------------------------------------------------------------------------
(* A frame that arrives while both ends are in one session *)

LEMMA ServerKeepsLink ==
  ASSUME TerrainInv, Linked, NEW f \in net, ServerReceives(f)
  PROVE  Linked'
<1>1. client.phase = "session" /\ Active /\ client.sn = peer.sess.sn /\ client.cn = peer.sess.cn
  BY DEF Linked, SameSession
<1>2. /\ peer # None /\ peer \in Peers /\ peer.sess \in Sessions /\ peer.sess.sid # None
      /\ f \in Frames /\ client' = client
  <2>1. peer # None /\ peer.sess.sid # None
    BY <1>1 DEF Active
  <2>2. peer \in Peers
    BY <2>1 DEF TerrainInv, Shapes, PeerShape
  <2>3. f \in Frames
    BY DEF TerrainInv, Shapes, NetShape
  <2>4. client' = client
    BY DEF ServerReceives, begin_discover, LockedOut, Accepted, Rejected, Unauthentic,
       ServerSessionFrame
  <2> QED
    BY <2>1, <2>2, <2>3, <2>4 DEF Peers
<1>3. ASSUME peer' \in Peers, peer'.sess.sid = peer.sess.sid, peer'.sess.sn = peer.sess.sn,
             peer'.sess.cn = peer.sess.cn
      PROVE  Linked'
  BY <1>1, <1>2, <1>3, NoneIsNothing DEF Linked, SameSession, Active
<1>4. ASSUME NEW q \in Pendings, peer' = [peer EXCEPT !.pending = q] PROVE Linked'
  <2>1. peer' \in Peers /\ peer'.sess = peer.sess
    BY <1>2, <1>4, PeerPends
  <2> QED
    BY <1>3, <2>1
<1>5. ASSUME NEW s \in Sessions, peer' = [peer EXCEPT !.sess = s],
             s.sid = peer.sess.sid, s.sn = peer.sess.sn, s.cn = peer.sess.cn
      PROVE  Linked'
  <2>1. peer' \in Peers /\ peer'.sess = s
    BY <1>2, <1>5, PeerTalks
  <2> QED
    BY <1>3, <1>5, <2>1
<1>6. CASE begin_discover(f)
  <2> DEFINE n == IF peer.pending.did = f.did THEN peer.pending.sn ELSE FreshServerNonce(f.did)
  <2>1. f.did \in Nat
    BY <1>2, <1>6, FrameFields DEF begin_discover
  <2>2. n \in Nat
    <3>1. CASE peer.pending.did = f.did
      <4>1. peer.pending.did # None
        BY <2>1, <3>1, NoneIsNothing
      <4> QED
        BY <1>2, <3>1, <4>1 DEF TerrainInv, Shapes, PeerShape
    <3>2. CASE peer.pending.did # f.did
      BY <2>1, <3>2, FreshIsNew DEF FreshServerNonce, TerrainInv
    <3> QED
      BY <3>1, <3>2
  <2>3. peer' = [peer EXCEPT !.pending = [NoPending EXCEPT !.did = f.did, !.sn = n]]
    BY <1>2, <1>6 DEF begin_discover
  <2> HIDE DEF n
  <2>4. [NoPending EXCEPT !.did = f.did, !.sn = n] \in Pendings
    BY <2>1, <2>2, PendingMade
  <2> QED
    BY <1>4, <2>3, <2>4
<1>7. CASE LockedOut(f)
  BY <1>1, <1>7 DEF LockedOut
<1>8. CASE Accepted(f)
  BY <1>1, <1>2, <1>8 DEF Accepted, Verifies, TerrainInv, Link, AsksOnce, Request
<1>9. CASE Rejected(f)
  BY <1>1, <1>4, <1>9, PeerRecords DEF Rejected
<1>10. CASE Unauthentic(f)
  BY <1>2, <1>3, <1>10 DEF Unauthentic
<1>11. CASE ServerSessionFrame(f)
  <2>1. /\ Sealed(f) /\ f.dir = "c2s" /\ f.cn = client.cn
    BY <1>1, <1>11 DEF ServerSessionFrame, Opens
  <2>2. f.t # "TEARDOWN"
    BY <1>1, <2>1 DEF TerrainInv, Link, SealsOnce
  <2>3. f.seq \in Nat
    BY <1>2, <2>1, FrameFields
  <2> DEFINE s == Taken(peer.sess, f)
             r == Said(s)
  <2>4. \/ peer' = [peer EXCEPT !.sess = s]
        \/ peer' = [peer EXCEPT !.sess = r]
    BY <1>11, <2>2 DEF ServerSessionFrame
  <2>5. s \in Sessions /\ s.sid = peer.sess.sid /\ s.sn = peer.sess.sn /\ s.cn = peer.sess.cn
    BY <1>2, <2>3, SessionTakes
  <2>6. r \in Sessions /\ r.sid = s.sid /\ r.sn = s.sn /\ r.cn = s.cn
    BY <2>5, SessionSays
  <2> HIDE DEF s, r
  <2> QED
    BY <1>5, <2>4, <2>5, <2>6
<1> QED
  BY <1>6, <1>7, <1>8, <1>9, <1>10, <1>11 DEF ServerReceives

LEMMA ClientKeepsLink ==
  ASSUME TerrainInv, Linked, NEW f \in net, ClientReceives(f)
  PROVE  Linked'
<1>1. client.phase = "session" /\ Active /\ client.sn = peer.sess.sn /\ client.cn = peer.sess.cn
  BY DEF Linked, SameSession
<1>2. client \in Clients /\ f \in Frames
  BY DEF TerrainInv, Shapes, ClientShape, NetShape
<1>3. ClientSessionFrame(f)
  BY <1>1 DEF ClientReceives, on_resp, on_auth_frame
<1>4. Sealed(f) /\ f.dir = "s2c" /\ f.sn = peer.sess.sn
  BY <1>1, <1>2, <1>3, SessionOfClient DEF ClientSessionFrame, Opens
<1>5. f.t # "TEARDOWN"
  BY <1>1, <1>4 DEF TerrainInv, Link, SealsOnce
<1>6. client' = [client EXCEPT !.rx = f.seq, !.missed = 0] /\ peer' = peer
  BY <1>3, <1>5 DEF ClientSessionFrame
<1>7. f.seq \in Maybe
  BY <1>2, <1>4, FrameFields DEF Maybe
<1>8. client'.phase = client.phase /\ client'.sn = client.sn /\ client'.cn = client.cn
  BY <1>2, <1>6, <1>7, ClientHears
<1> QED
  BY <1>1, <1>6, <1>8 DEF Linked, SameSession, Active

(* No frame that arrives breaks a session both ends are in: not a late      *)
(* DISCOVER or AUTH_REQ, and not a TEARDOWN of another session with the     *)
(* same id (the server's recv loop, session_loop).                          *)
THEOREM TerrainLinkHolds == Spec => NoFrameBreaksLink
<1>1. ASSUME TerrainInv, FrameArrives, Linked PROVE Linked'
  BY <1>1, ServerKeepsLink, ClientKeepsLink DEF FrameArrives
<1>2. TerrainInv => [FrameArrives => (Linked => Linked')]_vars
  BY <1>1
<1> QED
  BY <1>2, TerrainInvariant, PTL DEF NoFrameBreaksLink

=============================================================================
