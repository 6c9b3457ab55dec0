------------------------------ MODULE MCConsole ------------------------------
(* A small instance of Console.                                              *)
EXTENDS Console

MCMirrors == <<"m1", "m2">>
MCSources == <<"official", "mirror">>
MCPackages == <<"p1", "p2">>
MCIfaces == <<"eth0", "eth1">>
MCSessions == {{m} : m \in Range(Menu)}

-----------------------------------------------------------------------------
(* Cursors stay in their lists (but for CursorOnHiddenRow), and the dialog   *)
(* on top of the screen is the one that gets the next key, but for the three *)
(* cases OwnerIsOnScreen names (render, handle_key).                         *)
ConsoleInvariant == TypeOK /\ OwnerIsOnScreen

(* A key acts on what is shown (but for the two cases DoesWhatIsShown        *)
(* names), typing stays in its field, and what leaves the console is         *)
(* complete (handle_key and the handlers of the panels).                     *)
ConsoleSteps == DoesWhatIsShown /\ TypingStaysInTheField /\ CommandsAreComplete
=============================================================================
