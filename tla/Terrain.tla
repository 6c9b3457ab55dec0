------------------------------ MODULE Terrain -------------------------------
(***************************************************************************)
(* The terrain link between a flare client and the server the daemon       *)
(* hosts: DISCOVER, RESP, AUTH_REQ, AUTH_ACK or AUTH_NACK, then sealed     *)
(* session frames.  One client, so one entry of the server's peer table    *)
(* and one of its lockout table.  The link loses, repeats and reorders     *)
(* frames (a bridge and its slave both capture them, the rate limiters     *)
(* drop them).  A key is named by the nonces it is derived from, and a     *)
(* sealed frame opens under its own key only.  A fresh random number is    *)
(* one that occurs nowhere.  Sequence numbers wrap.                        *)
(***************************************************************************)
EXTENDS Integers, FiniteSets

CONSTANTS
  None,
  SeqSpace,      \* how many sequence numbers there are: 2^32
  MaxNet,        \* frames under way at once; further ones are lost
  MaxTries,      \* MAX_RETRIES discoveries before the client backs off
  MaxMissed,     \* MAX_MISSED_KEEPALIVES
  MaxFails,      \* MAX_AUTH_FAILS before a MAC is locked out
  Loads          \* what a behaviour may contain: whether requests with a wrong
                 \* proof occur, how many frames client and server seal in a session
                 \* (the client's TEARDOWN is the last of its own), how many session
                 \* ids there are before they are used again, and how many frames
                 \* are under way at once, if fewer than MaxNet

ASSUME TerrainBounds ==
  /\ {SeqSpace, MaxNet, MaxTries, MaxMissed} \subseteq Nat \ {0}
  /\ MaxFails \in Nat /\ MaxFails >= 2
  /\ Loads \subseteq [wrong : BOOLEAN, seq : Nat \ {0}, replies : Nat, sids : Nat \ {0},
                   net : Nat \ {0}]

(* A peer of the server: the handshake that waits for its request, the     *)
(* session, the next session id, and whether it has not been heard of.     *)
Maybe == Nat \cup {None}
Pendings == [did : Maybe, sn : Maybe, cn : Maybe]
Sessions == [did : Maybe, sn : Maybe, cn : Maybe, sid : Maybe, tx : Nat, rx : Maybe]
Peers == [pending : Pendings, sess : Sessions, next : Nat, old : BOOLEAN]

ASSUME NoneIsNothing == None \notin Nat /\ None \notin Peers

VARIABLES
  client,   \* ClientSession, and the locals of handshake and session_loop
  peer,     \* the server's Peer for this MAC, None without one
  guard,    \* its AuthGuard
  net,      \* the frames under way
  load      \* the bounds of this behaviour

vars == <<client, peer, guard, net, load>>

-----------------------------------------------------------------------------
(* Frames.  A session frame is sealed for the session of nonces sn and cn. *)

Discover(did) == [t |-> "DISCOVER", did |-> did]
Resp(sn, did) == [t |-> "RESP", sn |-> sn, did |-> did]
AuthReq(sn, cn, ok) == [t |-> "AUTH_REQ", sn |-> sn, cn |-> cn, ok |-> ok]
Ack(sn, cn, sid) == [t |-> "AUTH_ACK", sn |-> sn, cn |-> cn, sid |-> sid]
Nack(sn, why) == [t |-> "AUTH_NACK", sn |-> sn, why |-> why]

(* The frame an end seals after n others of its session: seq is tx_seq, a   *)
(* u32 that wraps; no is not on the wire.                                   *)
SessionFrame(t, dir, s, n) ==
  [t |-> t, dir |-> dir, sn |-> s.sn, cn |-> s.cn, sid |-> s.sid, seq |-> n % SeqSpace, no |-> n]

Payloads == {"KEEPALIVE", "DATA"}
Sealed(f) == f.t \in Payloads \cup {"TEARDOWN"}

Fits(frames) == Cardinality(frames) <= MaxNet /\ Cardinality(frames) <= load.net

(* What the link does with frames that are sent. *)
Send(frames) == IF Fits(net \cup frames) THEN net \cup frames ELSE net

(* A received frame may be captured once more. *)
Received(f, frames) ==
  \E left \in {net, net \ {f}} :
     net' = IF Fits(left \cup frames) THEN left \cup frames ELSE left

Least(S) == CHOOSE n \in S : \A k \in S : n <= k

InUse(x) ==
  {f[x] : f \in {g \in net : x \in DOMAIN g}} \cup {client[x]}
    \cup (IF peer = None THEN {} ELSE {peer.sess[x], peer.pending[x]})
Fresh(hint, x) == IF hint \notin InUse(x) THEN hint ELSE Least(1..(MaxNet + 4) \ InUse(x))
FreshId == Fresh(1, "did")
FreshServerNonce(did) == Fresh(did, "sn")
FreshClientNonce(sn) == Fresh(sn, "cn")

-----------------------------------------------------------------------------
(* SessionCrypto: the frames sealed so far (tx_seq is tx % SeqSpace) and the *)
(* ReplayWindow, the last sequence number taken.                             *)

NoSession == [did |-> None, sn |-> None, cn |-> None, sid |-> None, tx |-> 0, rx |-> None]
NewSession(sn, cn, sid) ==
  [did |-> None, sn |-> sn, cn |-> cn, sid |-> sid, tx |-> 0, rx |-> None]

(* The difference, as a signed number of the same width, is positive. *)
Accept(last, seq) ==
  IF last = None THEN TRUE ELSE (seq - last) % SeqSpace \in 1..(SeqSpace \div 2 - 1)

(* Mutant: a frame is believed for its session id alone. *)
OpensUnsealed(s, f, dir) == f.sid = s.sid /\ f.dir = dir

Opens(s, f, dir) ==
  /\ f.sid = s.sid
  /\ f.dir = dir /\ f.sn = s.sn /\ f.cn = s.cn
  /\ Accept(s.rx, f.seq)

CanSeal(s) == s.tx < load.replies
Taken(s, f) == [s EXCEPT !.rx = f.seq]
Said(s) == [s EXCEPT !.tx = @ + 1]

-----------------------------------------------------------------------------
(* The client *)

SessionOf(c) == [did |-> None, sn |-> c.sn, cn |-> c.cn, sid |-> c.sid, tx |-> c.tx, rx |-> c.rx]

Nowhere == [phase |-> "next", did |-> None, sn |-> None, cn |-> None, sid |-> None,
            tx |-> 0, rx |-> None, tries |-> 0, missed |-> 0]

(* The loop of handshake goes round. *)
Rediscover == [Nowhere EXCEPT !.tries = client.tries]
Ended == [Nowhere EXCEPT !.phase = "ended"]

discover_frame ==
  /\ client.phase = "next"
  /\ IF client.tries < MaxTries
     THEN /\ client' = [Nowhere EXCEPT !.phase = "discovering", !.did = FreshId,
                                       !.tries = client.tries + 1]
          /\ net' = Send({Discover(FreshId)})
     ELSE client' = Nowhere /\ UNCHANGED net
  /\ UNCHANGED <<load, peer, guard>>

Active == peer # None /\ peer.sess.sid # None

(* The server has not heard of its peer for a while. *)
Aged == IF peer = None \/ Active THEN peer ELSE [peer EXCEPT !.old = TRUE]

(* Three seconds without a RESP, or without an answer to the AUTH_REQ. *)
HandshakeTimeout ==
  /\ client.phase \in {"discovering", "await"}
  /\ client' = Rediscover
  /\ peer' = Aged
  /\ UNCHANGED <<load, guard, net>>

on_resp(f) ==
  /\ client.phase = "discovering" /\ f.t = "RESP"
  /\ \/ /\ f.did # client.did
        /\ client' = Rediscover
        /\ Received(f, {})
     \/ /\ f.did = client.did
        /\ client' = [client EXCEPT !.phase = "await", !.did = None, !.sn = f.sn,
                                    !.cn = FreshClientNonce(f.sn)]
        /\ Received(f, {AuthReq(f.sn, FreshClientNonce(f.sn), TRUE)})
  /\ UNCHANGED <<load, peer, guard>>

(* Mutant: the proof of an AUTH_ACK is not checked. *)
AuthenticUnchecked(f) == f.t = "AUTH_ACK"

Authentic(f) == f.t = "AUTH_ACK" /\ f.sn = client.sn /\ f.cn = client.cn

(* An AUTH_ACK that does not open, and every AUTH_NACK, is a refusal, and   *)
(* a refusal ends the client.                                               *)
on_auth_frame(f) ==
  /\ client.phase = "await" /\ f.t \in {"AUTH_ACK", "AUTH_NACK"}
  /\ client' = IF Authentic(f) THEN [client EXCEPT !.phase = "session", !.sid = f.sid, !.tries = 0]
               ELSE Ended
  /\ Received(f, {})
  /\ UNCHANGED <<load, peer, guard>>

Bye(s) == {SessionFrame("TEARDOWN", "c2s", s, s.tx)}

ClientSessionFrame(f) ==
  /\ client.phase = "session" /\ Sealed(f)
  /\ Opens(SessionOf(client), f, "s2c")
  /\ IF f.t = "TEARDOWN" THEN client' = Nowhere /\ Received(f, Bye(SessionOf(client)))
     ELSE client' = [client EXCEPT !.rx = f.seq, !.missed = 0] /\ Received(f, {})
  /\ UNCHANGED <<load, peer, guard>>

(* The keepalive that is one too many unanswered ends the session. *)
Keepalive ==
  /\ client.phase = "session" /\ client.tx + 1 < load.seq
  /\ LET s == SessionOf(client)
         frame == SessionFrame("KEEPALIVE", "c2s", s, s.tx)
     IN IF client.missed + 1 >= MaxMissed
        THEN client' = Nowhere /\ net' = Send({frame} \cup Bye(Said(s)))
        ELSE /\ client' = [client EXCEPT !.tx = @ + 1, !.missed = @ + 1]
             /\ net' = Send({frame})
  /\ UNCHANGED <<load, peer, guard>>

ClientData ==
  /\ client.phase = "session" /\ client.tx + 1 < load.seq
  /\ client' = [client EXCEPT !.tx = @ + 1]
  /\ net' = Send({SessionFrame("DATA", "c2s", SessionOf(client), client.tx)})
  /\ UNCHANGED <<load, peer, guard>>

(* Ctrl+C, or a socket error during the handshake; the user starts lflare again. *)
Shutdown ==
  /\ client.phase # "ended"
  /\ client' = Ended
  /\ net' = IF client.phase = "session" THEN Send(Bye(SessionOf(client))) ELSE net
  /\ UNCHANGED <<load, peer, guard>>

StartClient == client.phase = "ended" /\ client' = Nowhere /\ UNCHANGED <<load, peer, guard, net>>

-----------------------------------------------------------------------------
(* The lockout of a MAC: the failures in the running window, and whether it *)
(* is locked out.  Both last 60 s, so the window is over when the lockout is. *)

NoGuard == [fails |-> 0, locked |-> FALSE]

record_failure(g) ==
  IF g.locked THEN g
  ELSE [fails |-> g.fails + 1, locked |-> g.fails > 0 /\ g.fails + 1 >= MaxFails]

WindowOver == guard.fails > 0 /\ guard' = [guard EXCEPT !.fails = 0] /\ UNCHANGED <<load, client, peer, net>>

LockOver == guard.locked /\ guard.fails = 0 /\ guard' = NoGuard /\ UNCHANGED <<load, client, peer, net>>

-----------------------------------------------------------------------------
(* The server *)

NoPending == [did |-> None, sn |-> None, cn |-> None]
NewPeer == [pending |-> NoPending, sess |-> NoSession, next |-> 1, old |-> FALSE]

begin_discover(f) ==
  /\ f.t = "DISCOVER"
  /\ LET known == IF peer = None THEN NewPeer ELSE peer
         sn == IF known.pending.did = f.did THEN known.pending.sn ELSE FreshServerNonce(f.did)
     IN /\ peer' = [known EXCEPT !.pending = [NoPending EXCEPT !.did = f.did, !.sn = sn]]
        /\ Received(f, {Resp(sn, f.did)})
  /\ UNCHANGED <<load, client, guard>>

(* A locked out MAC without a session gets a NACK, sealed if there is a     *)
(* nonce to seal it with, and the nonce is spent.                           *)
LockedOut(f) ==
  /\ f.t = "AUTH_REQ" /\ peer # None
  /\ guard.locked /\ ~Active
  /\ peer' = [peer EXCEPT !.pending = NoPending]
  /\ Received(f, {Nack(peer.pending.sn, "locked")})
  /\ UNCHANGED <<load, client, guard>>

Verifies(f) == f.t = "AUTH_REQ" /\ peer # None /\ ~(guard.locked /\ ~Active)

(* The session of the request replaces the one the peer had. *)
Accepted(f) ==
  /\ Verifies(f)
  /\ peer.pending.sn = f.sn /\ f.ok
  /\ peer' = [pending |-> NoPending, sess |-> NewSession(f.sn, f.cn, peer.next),
              next |-> IF peer.next = load.sids THEN 1 ELSE peer.next + 1,
              old |-> FALSE]
  /\ guard' = NoGuard
  /\ Received(f, {Ack(f.sn, f.cn, peer.next)})
  /\ UNCHANGED <<load, client>>

(* Mutant: failures count against a MAC that has a session. *)
RejectedCounts(f) ==
  /\ Verifies(f)
  /\ peer.pending.sn = f.sn /\ ~f.ok
  /\ guard' = record_failure(guard)
  /\ peer' = IF Active THEN [peer EXCEPT !.pending = NoPending] ELSE None
  /\ Received(f, {Nack(f.sn, "failed")})
  /\ UNCHANGED <<load, client>>

(* Failures count for a MAC without a session, while the budget that all    *)
(* MACs share lasts.                                                        *)
Rejected(f) ==
  /\ Verifies(f)
  /\ peer.pending.sn = f.sn /\ ~f.ok
  /\ guard' \in IF Active THEN {guard} ELSE {guard, record_failure(guard)}
  /\ peer' = IF Active THEN [peer EXCEPT !.pending = NoPending] ELSE None
  /\ Received(f, {Nack(f.sn, "failed")})
  /\ UNCHANGED <<load, client>>

(* A frame of another handshake does not open and changes nothing. *)
Unauthentic(f) ==
  /\ Verifies(f) /\ peer.pending.sn # f.sn
  /\ Received(f, {})
  /\ UNCHANGED <<load, client, peer, guard>>

ServerSessionFrame(f) ==
  /\ Active /\ Sealed(f)
  /\ Opens(peer.sess, f, "c2s")
  /\ \/ f.t = "TEARDOWN" /\ peer' = None /\ Received(f, {})
     \/ f.t = "DATA" /\ peer' = [peer EXCEPT !.sess = Taken(@, f)] /\ Received(f, {})
     \/ /\ f.t = "KEEPALIVE" /\ CanSeal(peer.sess)
        /\ peer' = [peer EXCEPT !.sess = Said(Taken(@, f))]
        /\ Received(f, {SessionFrame("KEEPALIVE", "s2c", peer.sess, peer.sess.tx)})
  /\ UNCHANGED <<load, client, guard>>

ServerData ==
  /\ Active /\ CanSeal(peer.sess)
  /\ peer' = [peer EXCEPT !.sess = Said(@)]
  /\ net' = Send({SessionFrame("DATA", "s2c", peer.sess, peer.sess.tx)})
  /\ UNCHANGED <<load, client, guard>>

Goodbye == IF Active /\ CanSeal(peer.sess)
           THEN {SessionFrame("TEARDOWN", "s2c", peer.sess, peer.sess.tx)} ELSE {}

(* A peer that has not been heard of for STALE_AFTER is dropped, and so is  *)
(* the guard of a MAC, although a lockout lasts longer than STALE_AFTER.    *)
Sweep ==
  /\ \/ peer # None /\ (Active \/ peer.old) /\ peer' = None /\ net' = Send(Goodbye) /\ UNCHANGED guard
     \/ guard # NoGuard /\ guard' = NoGuard /\ UNCHANGED <<peer, net>>
  /\ UNCHANGED <<load, client>>

(* The server ends, with or without a word to its peer, and the daemon      *)
(* starts it again.                                                         *)
ServerRestart ==
  /\ peer # None /\ peer' = None
  /\ guard' = NoGuard
  /\ \E bye \in {{}, Goodbye} : net' = Send(bye)
  /\ UNCHANGED <<load, client>>

-----------------------------------------------------------------------------
(* Whether a process waits for the frame; the others are dropped unread. *)
Wanted(f) ==
  \/ f.t = "DISCOVER"
  \/ f.t = "RESP" /\ client.phase = "discovering"
  \/ f.t = "AUTH_REQ" /\ peer # None
  \/ f.t \in {"AUTH_ACK", "AUTH_NACK"} /\ client.phase = "await"
  \/ Sealed(f) /\ Active /\ Opens(peer.sess, f, "c2s") /\ (f.t = "KEEPALIVE" => CanSeal(peer.sess))
  \/ Sealed(f) /\ client.phase = "session" /\ Opens(SessionOf(client), f, "s2c")

Ignore == \E f \in net : ~Wanted(f) /\ net' = net \ {f} /\ UNCHANGED <<load, client, peer, guard>>
Lose == \E f \in net : Wanted(f) /\ net' = net \ {f} /\ UNCHANGED <<load, client, peer, guard>>

(* A peer that holds the key sends a request with a wrong proof. *)
WrongProof ==
  /\ load.wrong /\ peer # None /\ peer.pending.sn # None
  /\ net' = Send({AuthReq(peer.pending.sn, None, FALSE)}) /\ net' # net
  /\ UNCHANGED <<load, client, peer, guard>>

ServerReceives(f) ==
  \/ begin_discover(f) \/ LockedOut(f) \/ Accepted(f) \/ Rejected(f) \/ Unauthentic(f)
  \/ ServerSessionFrame(f)
ClientReceives(f) == on_resp(f) \/ on_auth_frame(f) \/ ClientSessionFrame(f)
FrameArrives == \E f \in net : ServerReceives(f) \/ ClientReceives(f)

Init ==
  /\ client = Nowhere
  /\ peer = None
  /\ guard = NoGuard
  /\ net = {}
  /\ load \in Loads

Next ==
  \/ discover_frame \/ HandshakeTimeout \/ Keepalive \/ ClientData \/ Shutdown \/ StartClient
  \/ FrameArrives \/ ServerData \/ Sweep \/ ServerRestart
  \/ WindowOver \/ LockOver \/ Ignore \/ Lose \/ WrongProof

Spec == Init /\ [][Next]_vars

(* From some time on nothing is lost or repeated, answers come within the  *)
(* timeouts, the server stays up and wrong proofs stop.                     *)
Calm ==
  /\ ~Lose /\ ~WrongProof /\ ~ServerRestart
  /\ FrameArrives => ~(net \subseteq net')
  /\ HandshakeTimeout => \A f \in net : ~Wanted(f)

(* And an attempt starts on a link without leftovers of an earlier one. *)
Quiet == Calm /\ (discover_frame => net = {})

Progress ==
  WF_vars(discover_frame) /\ WF_vars(HandshakeTimeout) /\ WF_vars(FrameArrives) /\ WF_vars(Ignore)

LiveSpec == Spec /\ Progress /\ <>[][Quiet]_vars

-----------------------------------------------------------------------------
(* Types; the counters stay below what a load allows. *)
TypeOK ==
  /\ client.phase \in {"next", "discovering", "await", "session", "ended"}
  /\ client.tries \in 0..MaxTries /\ client.missed \in 0..(MaxMissed - 1)
  /\ client.tx \in 0..load.seq
  /\ peer # None => peer.next \in 1..load.sids /\ peer.sess.tx \in 0..load.replies
  /\ guard.fails \in 0..MaxFails
  /\ Cardinality(net) <= MaxNet

SameSession(c, s) == c.sn = s.sn /\ c.cn = s.cn
Linked == client.phase = "session" /\ Active /\ SameSession(client, peer.sess)

(* A client in a session and the server agree on it: the same server nonce *)
(* never stands for two sessions, and the session id the client learned    *)
(* from the AUTH_ACK is the one the server uses for those keys             *)
(* (on_auth_frame, verify_auth).                                           *)
Agreement ==
  client.phase = "session" /\ Active /\ client.sn = peer.sess.sn
    => client.cn = peer.sess.cn /\ client.sid = peer.sess.sid

Counter(f) ==
  CASE Sealed(f) -> <<f.dir, f.sn, f.cn, f.seq>>
    [] f.t = "RESP" -> <<"s2c", f.sn, 3>>
    [] f.t = "AUTH_ACK" -> <<"s2c", f.sn, 1>>
    [] f.t = "AUTH_NACK" /\ f.sn # None -> <<"s2c", f.sn, 2>>
    [] f.t = "AUTH_REQ" /\ f.ok -> <<"c2s", f.sn, 0>>
    [] OTHER -> <<f>>

(* Among the first SeqSpace frames each end seals in a session. *)
FirstRound(f) == Sealed(f) => f.no < SeqSpace

(* Until its counter wraps, no key and counter seal two different frames:   *)
(* not two frames under way, and not a frame under way and the next one of  *)
(* a session, however often ends restart and session ids are used again     *)
(* (HandshakeKeys and SessionCrypto seal with a nonce made of the counter). *)
SealedOnce ==
  /\ \A f, g \in net : FirstRound(f) /\ FirstRound(g) /\ Counter(f) = Counter(g) => f = g
  /\ \A f \in net : Sealed(f) =>
       /\ Active /\ f.dir = "s2c" /\ SameSession(f, peer.sess) /\ peer.sess.tx < SeqSpace
            => f.seq < peer.sess.tx
       /\ client.phase = "session" /\ f.dir = "c2s" /\ SameSession(f, client) /\ client.tx < SeqSpace
            => f.seq < client.tx

(* A MAC with a session is never locked out: whatever failures other       *)
(* requests with its MAC collect, before or during the session (AuthGuard, *)
(* the server's AUTH_REQ branch).                                          *)
SessionNotLockedOut == Active => ~guard.locked

(* No key and counter seal two frames in the first round of counters, and a *)
(* peer with an open session is not locked out by others (HandshakeKeys,    *)
(* SessionCrypto, AuthGuard).                                               *)
SessionInvariant == TypeOK /\ SealedOnce /\ SessionNotLockedOut

(* No frame that arrives, however old or often, breaks a session both ends *)
(* are in: not a late DISCOVER or AUTH_REQ, not a TEARDOWN of another      *)
(* session with the same id.                                               *)
NoFrameBreaksLink == [][FrameArrives => (Linked => Linked')]_vars

(* A client that looks for the server gets a session, or is refused: lost  *)
(* answers, answers to earlier attempts and a peer entry that is swept in  *)
(* between only cost it another round (handshake, begin_discover).         *)
Connects ==
  client.phase \in {"next", "discovering", "await"} ~> client.phase \in {"session", "ended"}
=============================================================================
