----------------------------- MODULE MCTerrain ------------------------------
(* A small instance of Terrain: behaviours with wrong proofs and hardly any *)
(* traffic, behaviours with traffic, and long sessions with one frame under *)
(* way at a time, in which the counter of the client or the server wraps.   *)
EXTENDS Terrain

Handshakes == [wrong |-> TRUE, seq |-> 1, replies |-> 0, sids |-> 2, net |-> 2]
Traffic == [wrong |-> FALSE, seq |-> 3, replies |-> 1, sids |-> 1, net |-> 2]
ClientTalks == [wrong |-> FALSE, seq |-> 8, replies |-> 0, sids |-> 1, net |-> 1]
ServerTalks == [wrong |-> FALSE, seq |-> 1, replies |-> 7, sids |-> 1, net |-> 1]
MCLoads == {Handshakes, Traffic, ClientTalks, ServerTalks}

-----------------------------------------------------------------------------
(* No frame of anybody breaks a link that works, and a client that keeps    *)
(* trying gets a session (Server::handle, Client::connect).                 *)
LinkServes == NoFrameBreaksLink /\ Connects
=============================================================================
