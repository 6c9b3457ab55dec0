-------------------------- MODULE AtomicDeployment --------------------------
(***************************************************************************)
(* What a deployment command promises its caller, whatever happens to the  *)
(* process that runs it: the deployed version changes only by a commit, a  *)
(* rollback changes nothing, and a failed transaction leaves the old       *)
(* version linked even when its state file needs a repair.                 *)
(***************************************************************************)
CONSTANTS Versions, None

VARIABLES
  linked,     \* the version current points to
  recorded,   \* the version the install state records
  pending,    \* the target of the open transaction, or None
  result      \* how the last transaction ended, or None

vars == <<linked, recorded, pending, result>>

Init == linked \in Versions /\ recorded = linked /\ pending = None /\ result = None

Begin ==
  /\ pending = None /\ recorded = linked
  /\ pending' \in Versions /\ result' = None
  /\ UNCHANGED <<linked, recorded>>

End(how) == pending # None /\ pending' = None /\ result' = how

Commit == End("committed") /\ linked' = pending /\ recorded' = pending

RollBack == End("rolled_back") /\ UNCHANGED <<linked, recorded>>

(* A rollback that could not finish: a state file that already named the   *)
(* target is not put back.                                                 *)
Fail == End("failed") /\ recorded' \in {recorded, pending} /\ UNCHANGED linked

Next == Begin \/ Commit \/ RollBack \/ Fail

Spec == Init /\ [][Next]_vars
=============================================================================
