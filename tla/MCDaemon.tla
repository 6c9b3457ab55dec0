------------------------------ MODULE MCDaemon ------------------------------
(***************************************************************************)
(* What the daemon's loop owes those who wait for it, in one run: the      *)
(* users of config.toml (Settings) and the frontend of a delegated command *)
(* (Delegation, with one command and a daemon that may die and come back). *)
(* A behaviour is one of either, chosen in its first state; the variables  *)
(* of the other stay in an initial state.                                  *)
(***************************************************************************)
EXTENDS Settings

VARIABLES
  part,
  request, cancel, secret, result, front, seen, ctrlC, dead, report,
  child, signalled, spawns, alive, binary, at, claimed, batch, restarts, faults

D == INSTANCE Delegation WITH
  Ops <- {"migrate"}, Migrations <- {"migrate"}, Secrets <- {}, None <- "none",
  Respawn <- TRUE, DeadPolls <- 2, MaxRestarts <- 1, MaxFaults <- 1,
  op <- claimed

delegationVars == <<request, cancel, secret, result, front, seen, ctrlC, dead, report,
                    child, signalled, spawns, alive, binary, at, claimed, batch, restarts, faults>>
all == <<part, vars, delegationVars>>

OnePart ==
  /\ part \in {"settings", "delegation"}
  /\ Init /\ D!DelegationInit
  /\ part # "delegation" => ~alive

Configures == part = "settings" /\ UNCHANGED <<part, delegationVars>>
Delegates == part = "delegation" /\ UNCHANGED <<part, vars>>

Steps == \/ Configures /\ Next
         \/ Delegates /\ D!DelegationNext

(* The fairness of the two specifications. *)
Goes ==
  /\ \A p \in Prog : WF_all(Configures /\ Step(p))
  /\ WF_all(Configures /\ InitialFlare) /\ WF_all(Configures /\ SpawnFlare)
  /\ WF_all(Configures /\ ReloadFlare)
  /\ WF_all(Configures /\ ServerEnds /\ hosted.dev = "ghost")
  /\ WF_all(Delegates /\ D!Frontend("migrate") /\ front["migrate"] # "start")
  /\ WF_all(Delegates /\ D!ChildStep("migrate"))
  /\ WF_all(Delegates /\ D!TakeResult("migrate")) /\ WF_all(Delegates /\ D!LookForDaemon("migrate"))
  /\ WF_all(Delegates /\ D!Daemon)

DaemonLoop == OnePart /\ [][Steps]_all /\ Goes

-----------------------------------------------------------------------------
(* A frontend that delegates returns, or its request is carried out without *)
(* it (wait_for_result, execute_pending_requests), with the exceptions      *)
(* Delegation names.                                                        *)
DelegationEnds == D!DelegationEnds
=============================================================================
