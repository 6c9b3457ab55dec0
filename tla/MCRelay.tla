------------------------------ MODULE MCRelay -------------------------------
(* Small instances of Relay: one connection with a full channel, two        *)
(* connections that follow each other on one handle, two at once.           *)
EXTENDS Relay

Busy(side, chunks) == [side |-> side, in |-> chunks, out |-> 1, tasks |-> 1, handles |-> 1]
Reuse == [side |-> "server", in |-> 1, out |-> 1, tasks |-> 2, handles |-> 1]
Together == [side |-> "client", in |-> 0, out |-> 0, tasks |-> 2, handles |-> 2]
MCLoads == {Busy("server", 2), Busy("client", 1), Reuse, Together}
=============================================================================
