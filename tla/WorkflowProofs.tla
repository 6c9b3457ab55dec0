--------------------------- MODULE WorkflowProofs ---------------------------
(***************************************************************************)
(* Proofs about the workflows of lkit and about handing them to the daemon. *)
(*   - Delegation, for any set of operations and any number of daemon      *)
(*     deaths and errors: types, that a request is started at most once,   *)
(*     that it is not started after its frontend has withdrawn it, that    *)
(*     exit codes are true, and that no credential file is left behind.    *)
(*   - Lifecycle, for any versions and any number of operations, deaths,   *)
(*     reboots and errors: how every transaction ends, that the data it    *)
(*     found is kept, and that a router that ran runs again.               *)
(*   - Migration, the transaction a frontend hands to the daemon's worker  *)
(*     half done, for any number of deaths, reboots and errors.            *)
(***************************************************************************)
EXTENDS Delegation, Lifecycle, Legacy, TLAPS

-----------------------------------------------------------------------------
(* Delegation *)

(* Type correctness needs that the daemon has a current request exactly    *)
(* while it works on one.                                                  *)
Typed == DelegationTypeOK /\ (at \in {"claim", "spawn", "watch", "close"} => op \in Ops)

LEMMA TypedInit == DelegationInit => Typed
  BY DelegationBounds, OpsAssumption, NoOp DEF DelegationInit, Typed, DelegationTypeOK, Codes

LEMMA TypedFrontend ==
  ASSUME Typed, NEW o \in Ops, Frontend(o) \/ WaitFails(o) \/ PressCtrlC(o) \/ Vanish(o)
  PROVE  Typed'
<1> USE DelegationBounds, OpsAssumption, NoOp
<1> USE DEF Typed, DelegationTypeOK, Codes, files, frontVars, childVars, daemonVars, limits,
            Goes, Return, Leave
<1>1. CASE Delegate(o)
  BY <1>1 DEF Delegate
<1>2. CASE WriteSecret(o)
  BY <1>2 DEF WriteSecret
<1>3. CASE WriteRequest(o)
  BY <1>3 DEF WriteRequest
<1>4. CASE FirstLook(o)
  BY <1>4 DEF FirstLook
<1>5. CASE Drain(o)
  BY <1>5 DEF Drain, Running
<1>6. CASE OnInterrupt(o)
  BY <1>6 DEF OnInterrupt
<1>7. CASE TakeResult(o)
  BY <1>7 DEF TakeResult
<1>8. CASE LookForDaemon(o)
  BY <1>8 DEF LookForDaemon
<1>9. CASE CleanRequest(o)
  BY <1>9 DEF CleanRequest
<1>10. CASE CleanRest(o)
  BY <1>10 DEF CleanRest
<1>11. CASE WaitFails(o)
  BY <1>11 DEF WaitFails
<1>12. CASE PressCtrlC(o)
  BY <1>12 DEF PressCtrlC
<1>13. CASE Vanish(o)
  BY <1>13 DEF Vanish
<1> QED
  BY <1>1, <1>2, <1>3, <1>4, <1>5, <1>6, <1>7, <1>8, <1>9, <1>10, <1>11, <1>12, <1>13
     DEF Frontend

LEMMA TypedDaemon ==
  ASSUME Typed,
         Daemon \/ Kill \/ InfrastructureError \/ LoseBinary \/ DaemonDies
           \/ DaemonStarts \/ (\E o \in Ops : ChildStep(o) \/ ChildFails(o))
  PROVE  Typed'
<1> USE DelegationBounds, OpsAssumption, NoOp
<1> USE DEF Typed, DelegationTypeOK, Codes, files, frontVars, childVars, daemonVars, limits, Drop
<1>1. CASE Scan
  BY <1>1 DEF Scan
<1>2. ASSUME NEW o \in Ops, Read(o) PROVE Typed'
  BY <1>2 DEF Read
<1>3. CASE EndCycle
  BY <1>3 DEF EndCycle
<1>4. CASE Claim
  BY <1>4 DEF Claim
<1>5. CASE Spawn
  BY <1>5 DEF Spawn
<1>6. CASE SeeCancel
  BY <1>6 DEF SeeCancel
<1>7. CASE WriteResult
  BY <1>7 DEF WriteResult, ExitCode
<1>8. CASE Close
  BY <1>8 DEF Close
<1>9. CASE Kill
  BY <1>9 DEF Kill
<1>10. CASE InfrastructureError
  BY <1>10 DEF InfrastructureError
<1>11. CASE LoseBinary
  <2>1. faults' \in 0..MaxFaults /\ restarts' \in 0..MaxRestarts
    BY <1>11 DEF LoseBinary
  <2>2. alive' \in BOOLEAN /\ binary' \in BOOLEAN
    BY <1>11, Zenon DEF LoseBinary
  <2> QED
    BY <1>11, <2>1, <2>2 DEF LoseBinary
<1>12. CASE DaemonDies
  <2>1. restarts' \in 0..MaxRestarts /\ faults' \in 0..MaxFaults
    BY <1>12 DEF DaemonDies
  <2>2. alive' \in BOOLEAN /\ binary' \in BOOLEAN
    BY <1>12, Zenon DEF DaemonDies
  <2> QED
    BY <1>12, <2>1, <2>2 DEF DaemonDies
<1>13. CASE DaemonStarts
  BY <1>13 DEF DaemonStarts
<1>14. ASSUME NEW o \in Ops, ChildStep(o) PROVE Typed'
  BY <1>14 DEF ChildStep
<1>15. ASSUME NEW o \in Ops, ChildFails(o) PROVE Typed'
  BY <1>15 DEF ChildFails
<1> QED
  BY <1>1, <1>2, <1>3, <1>4, <1>5, <1>6, <1>7, <1>8, <1>9, <1>10, <1>11, <1>12, <1>13,
     <1>14, <1>15
     DEF Daemon

LEMMA TypedStep == Typed /\ [DelegationNext]_delegationVars => Typed'
<1> SUFFICES ASSUME Typed, [DelegationNext]_delegationVars PROVE Typed'
  OBVIOUS
<1>1. CASE DelegationNext
  BY <1>1, TypedFrontend, TypedDaemon DEF DelegationNext
<1>2. CASE UNCHANGED delegationVars
  BY <1>2 DEF Typed, DelegationTypeOK, delegationVars, files, frontVars, childVars, daemonVars, limits
<1> QED
  BY <1>1, <1>2

(* Every variable of the delegation keeps its type, whoever dies when.     *)
THEOREM DelegationTypes == DelegationSpec => []DelegationTypeOK
<1>1. Typed => DelegationTypeOK
  BY DEF Typed
<1> QED
  BY <1>1, TypedInit, TypedStep, PTL DEF DelegationSpec

-----------------------------------------------------------------------------
(* A request is in at most one place: not yet written, in its file, claimed *)
(* by the daemon, or started.                                               *)
OnceInv ==
  \A o \in Ops :
    /\ spawns[o] \in {0, 1}
    /\ o \in request => spawns[o] = 0
    /\ Claimed(o) => spawns[o] = 0 /\ o \notin request
    /\ front[o] \in {"start", "prepared"} =>
         spawns[o] = 0 /\ o \notin request /\ o \notin batch /\ op # o
    /\ front[o] \in {"clean_rest", "ended"} => o \notin request

LEMMA OnceInit == DelegationInit => OnceInv
  BY NoOp DEF DelegationInit, OnceInv, Claimed

LEMMA OnceFrontend ==
  ASSUME Typed, OnceInv, NEW p \in Ops,
         Frontend(p) \/ WaitFails(p) \/ PressCtrlC(p) \/ Vanish(p)
  PROVE  OnceInv'
<1> USE DEF OnceInv, Typed, DelegationTypeOK, Claimed, files, frontVars, childVars, daemonVars,
            limits, Goes, Leave
<1>1. CASE Delegate(p)
  BY <1>1 DEF Delegate
<1>2. CASE WriteSecret(p)
  BY <1>2 DEF WriteSecret
<1>3. CASE WriteRequest(p)
  BY <1>3 DEF WriteRequest
<1>4. CASE FirstLook(p)
  BY <1>4 DEF FirstLook
<1>5. CASE Drain(p)
  BY <1>5 DEF Drain
<1>6. CASE OnInterrupt(p)
  BY <1>6 DEF OnInterrupt
<1>7. CASE TakeResult(p)
  BY <1>7 DEF TakeResult
<1>8. CASE LookForDaemon(p)
  BY <1>8 DEF LookForDaemon
<1>9. CASE CleanRequest(p)
  BY <1>9 DEF CleanRequest
<1>10. CASE CleanRest(p)
  BY <1>10 DEF CleanRest
<1>11. CASE WaitFails(p)
  BY <1>11 DEF WaitFails
<1>12. CASE PressCtrlC(p)
  BY <1>12 DEF PressCtrlC
<1>13. CASE Vanish(p)
  BY <1>13 DEF Vanish
<1> QED
  BY <1>1, <1>2, <1>3, <1>4, <1>5, <1>6, <1>7, <1>8, <1>9, <1>10, <1>11, <1>12, <1>13
     DEF Frontend

LEMMA OnceDaemon ==
  ASSUME Typed, OnceInv,
         Daemon \/ Kill \/ InfrastructureError \/ LoseBinary \/ DaemonDies
           \/ DaemonStarts \/ (\E o \in Ops : ChildStep(o) \/ ChildFails(o))
  PROVE  OnceInv'
<1> USE NoOp
<1> USE DEF OnceInv, Typed, DelegationTypeOK, Claimed, files, frontVars, childVars, daemonVars,
            limits, Drop
<1>1. CASE Scan
  BY <1>1 DEF Scan
<1>2. ASSUME NEW o \in Ops, Read(o) PROVE OnceInv'
  BY <1>2 DEF Read
<1>3. CASE EndCycle
  BY <1>3 DEF EndCycle
<1>4. CASE Claim
  BY <1>4 DEF Claim
<1>5. CASE Spawn
  BY <1>5 DEF Spawn
<1>6. CASE SeeCancel
  BY <1>6 DEF SeeCancel
<1>7. CASE WriteResult
  BY <1>7 DEF WriteResult
<1>8. CASE Close
  BY <1>8 DEF Close
<1>9. CASE Kill
  BY <1>9 DEF Kill
<1>10. CASE InfrastructureError
  BY <1>10 DEF InfrastructureError
<1>11. CASE LoseBinary
  BY <1>11 DEF LoseBinary
<1>12. CASE DaemonDies
  BY <1>12 DEF DaemonDies
<1>13. CASE DaemonStarts
  BY <1>13 DEF DaemonStarts
<1>14. ASSUME NEW o \in Ops, ChildStep(o) PROVE OnceInv'
  BY <1>14 DEF ChildStep
<1>15. ASSUME NEW o \in Ops, ChildFails(o) PROVE OnceInv'
  BY <1>15 DEF ChildFails
<1> QED
  BY <1>1, <1>2, <1>3, <1>4, <1>5, <1>6, <1>7, <1>8, <1>9, <1>10, <1>11, <1>12, <1>13,
     <1>14, <1>15
     DEF Daemon

LEMMA OnceStep == Typed /\ OnceInv /\ [DelegationNext]_delegationVars => OnceInv'
<1> SUFFICES ASSUME Typed, OnceInv, [DelegationNext]_delegationVars PROVE OnceInv'
  OBVIOUS
<1>1. CASE DelegationNext
  BY <1>1, OnceFrontend, OnceDaemon DEF DelegationNext
<1>2. CASE UNCHANGED delegationVars
  BY <1>2 DEF OnceInv, Claimed, delegationVars, files, frontVars, childVars, daemonVars, limits
<1> QED
  BY <1>1, <1>2

LEMMA OnceAlways == DelegationSpec => [](Typed /\ OnceInv)
  BY TypedInit, TypedStep, OnceInit, OnceStep, PTL DEF DelegationSpec

(* However often the daemon dies, and whatever the frontend does meanwhile, *)
(* a delegated command is started at most once.                             *)
THEOREM DelegatedOnce == DelegationSpec => []StartedOnce
<1>1. OnceInv => StartedOnce
  BY DEF OnceInv, StartedOnce
<1> QED
  BY <1>1, OnceAlways, PTL

(* Only Claim makes a request claimed and only Spawn starts it; every other *)
(* action leaves both alone.                                                *)
LEMMA WithdrawnStep ==
  ASSUME Typed, OnceInv, DelegationNext, NEW o \in Ops, front[o] \in {"clean_rest", "ended"}
  PROVE  /\ Claimed(o)' => Claimed(o)
         /\ spawns'[o] # spawns[o] => Claimed(o)
<1> USE DEF Claimed, files, frontVars, childVars, daemonVars, limits
<1>1. CASE Claim
  BY <1>1 DEF Claim, Drop, OnceInv
<1>2. CASE Spawn
  BY <1>2 DEF Spawn, Drop, Typed, DelegationTypeOK
<1>3. CASE (\E p \in Ops : Read(p)) \/ Scan \/ EndCycle \/ SeeCancel \/ WriteResult \/ Close
  BY <1>3 DEF Read, Scan, EndCycle, SeeCancel, WriteResult, Close, Drop
<1>4. CASE Kill \/ InfrastructureError \/ LoseBinary \/ DaemonDies \/ DaemonStarts
  BY <1>4 DEF Kill, InfrastructureError, LoseBinary, DaemonDies, DaemonStarts, Drop
<1>5. CASE \E p \in Ops : ChildStep(p) \/ ChildFails(p)
  BY <1>5 DEF ChildStep, ChildFails
<1>6. CASE \E p \in Ops : Frontend(p) \/ WaitFails(p) \/ PressCtrlC(p) \/ Vanish(p)
  <2>1. UNCHANGED <<at, op, spawns>>
    BY <1>6 DEF Frontend, WaitFails, PressCtrlC, Vanish, Delegate, WriteSecret, WriteRequest,
                FirstLook, Drain, OnInterrupt, TakeResult, LookForDaemon, CleanRequest, CleanRest
  <2> QED
    BY <2>1
<1> QED
  BY <1>1, <1>2, <1>3, <1>4, <1>5, <1>6 DEF DelegationNext, Daemon

(* A frontend that has removed its request, because the user cancelled or   *)
(* because it gave up, can be sure that no daemon picks it up later.        *)
THEOREM WithdrawnStaysWithdrawn == DelegationSpec => NoStartAfterCancel
<1> DEFINE A == \A o \in Ops : front[o] \in {"clean_rest", "ended"} =>
                   /\ Claimed(o)' => Claimed(o)
                   /\ spawns'[o] # spawns[o] => Claimed(o)
<1>1. Typed /\ OnceInv /\ [DelegationNext]_delegationVars => [A]_delegationVars
  BY WithdrawnStep
<1>2. NoStartAfterCancel <=> [][A]_delegationVars
  BY DEF NoStartAfterCancel
<1> HIDE DEF A
<1> QED
  BY <1>1, <1>2, OnceAlways, PTL DEF DelegationSpec

-----------------------------------------------------------------------------
(* Exit codes and credentials *)

(* A child that was never started is not there; once started, the daemon    *)
(* watches it until it has written the result.  A result, and what the      *)
(* frontend made of it, says how that child ended.                          *)
CodeInv ==
  /\ \A o \in Ops : spawns[o] = 0 => child[o] = "none"
  /\ at = "claim" => child[op] = "none"
  /\ at \in {"watch", "close"} => child[op] # "none"
  /\ \A o \in Ops :
       /\ result[o] = "ok" => child[o] = "ok"
       /\ result[o] = "failed" => child[o] \in {"failed", "killed"}
  /\ ReportIsTrue

(* The daemon has no current request between two requests, and a credential *)
(* is there only while its frontend or the daemon still answers for it.     *)
SecretInv ==
  /\ at \in {"idle", "next"} => op = None
  /\ \A o \in secret :
       /\ front[o] \notin {"start", "ended"}
       /\ child[o] # "none" /\ op # o => restarts > 0

(* No step of a frontend changes what the codes say. *)
LEMMA CodeFrontend ==
  ASSUME Typed, OnceInv, CodeInv, NEW p \in Ops,
         Frontend(p) \/ WaitFails(p) \/ PressCtrlC(p) \/ Vanish(p)
  PROVE  CodeInv'
<1> USE OpsAssumption, NoOp
<1> USE DEF CodeInv, ReportIsTrue, OnceInv, Typed, DelegationTypeOK, Codes, Claimed, files,
            frontVars, childVars, daemonVars, limits, Goes, Return, Leave
<1>1. CASE Delegate(p)
  BY <1>1 DEF Delegate
<1>2. CASE WriteSecret(p)
  BY <1>2 DEF WriteSecret
<1>3. CASE WriteRequest(p)
  BY <1>3 DEF WriteRequest
<1>4. CASE FirstLook(p)
  BY <1>4 DEF FirstLook
<1>5. CASE Drain(p)
  BY <1>5 DEF Drain
<1>6. CASE OnInterrupt(p)
  BY <1>6 DEF OnInterrupt
<1>7. CASE TakeResult(p)
  BY <1>7 DEF TakeResult
<1>8. CASE LookForDaemon(p)
  BY <1>8 DEF LookForDaemon
<1>9. CASE CleanRequest(p)
  BY <1>9 DEF CleanRequest
<1>10. CASE CleanRest(p)
  BY <1>10 DEF CleanRest
<1>11. CASE WaitFails(p)
  BY <1>11 DEF WaitFails
<1>12. CASE PressCtrlC(p)
  BY <1>12 DEF PressCtrlC
<1>13. CASE Vanish(p)
  BY <1>13 DEF Vanish
<1> QED
  BY <1>1, <1>2, <1>3, <1>4, <1>5, <1>6, <1>7,
     <1>8, <1>9, <1>10, <1>11, <1>12, <1>13 DEF Frontend

(* No step of the daemon or of a child does. *)
LEMMA CodeDaemon ==
  ASSUME Typed, OnceInv, CodeInv,
         Daemon \/ Kill \/ InfrastructureError \/ LoseBinary \/ DaemonDies
           \/ DaemonStarts \/ (\E o \in Ops : ChildStep(o) \/ ChildFails(o))
  PROVE  CodeInv'
<1> USE OpsAssumption, NoOp, DelegationBounds
<1> USE DEF CodeInv, ReportIsTrue, OnceInv, Typed, DelegationTypeOK, Codes, Claimed, files,
            frontVars, childVars, daemonVars, limits, Drop
<1>1. CASE Scan
  BY <1>1 DEF Scan
<1>2. ASSUME NEW o \in Ops, Read(o) PROVE CodeInv'
  BY <1>2 DEF Read
<1>3. CASE EndCycle
  BY <1>3 DEF EndCycle
<1>4. CASE Claim
  BY <1>4 DEF Claim
<1>5. CASE Spawn
  BY <1>5 DEF Spawn
<1>6. CASE SeeCancel
  BY <1>6 DEF SeeCancel, Running
<1>7. CASE WriteResult
  BY <1>7 DEF WriteResult, ExitCode, Running
<1>8. CASE Close
  BY <1>8 DEF Close
<1>9. CASE Kill
  BY <1>9 DEF Kill, Running
<1>10. CASE InfrastructureError
  BY <1>10 DEF InfrastructureError
<1>11. CASE LoseBinary
  BY <1>11 DEF LoseBinary
<1>12. CASE DaemonDies
  BY <1>12 DEF DaemonDies
<1>13. CASE DaemonStarts
  BY <1>13 DEF DaemonStarts
<1>14. ASSUME NEW o \in Ops, ChildStep(o) PROVE CodeInv'
  BY <1>14 DEF ChildStep, Running
<1>15. ASSUME NEW o \in Ops, ChildFails(o) PROVE CodeInv'
  BY <1>15 DEF ChildFails, Running
<1> QED
  BY <1>1, <1>2, <1>3, <1>4, <1>5, <1>6, <1>7, <1>8,
     <1>9, <1>10, <1>11, <1>12, <1>13, <1>14, <1>15 DEF Daemon

(* No step of a frontend changes where credentials are. *)
LEMMA SecretFrontend ==
  ASSUME Typed, OnceInv, CodeInv, SecretInv, NEW p \in Ops,
         Frontend(p) \/ WaitFails(p) \/ PressCtrlC(p) \/ Vanish(p)
  PROVE  SecretInv'
<1> USE OpsAssumption, NoOp
<1> USE DEF SecretInv, CodeInv, OnceInv, Typed, DelegationTypeOK, Codes, Claimed, files,
            frontVars, childVars, daemonVars, limits, Goes, Return, Leave
<1>1. CASE Delegate(p)
  BY <1>1 DEF Delegate
<1>2. CASE WriteSecret(p)
  BY <1>2 DEF WriteSecret
<1>3. CASE WriteRequest(p)
  BY <1>3 DEF WriteRequest
<1>4. CASE FirstLook(p)
  BY <1>4 DEF FirstLook
<1>5. CASE Drain(p)
  BY <1>5 DEF Drain
<1>6. CASE OnInterrupt(p)
  BY <1>6 DEF OnInterrupt
<1>7. CASE TakeResult(p)
  BY <1>7 DEF TakeResult
<1>8. CASE LookForDaemon(p)
  BY <1>8 DEF LookForDaemon
<1>9. CASE CleanRequest(p)
  BY <1>9 DEF CleanRequest
<1>10. CASE CleanRest(p)
  BY <1>10 DEF CleanRest
<1>11. CASE WaitFails(p)
  BY <1>11 DEF WaitFails
<1>12. CASE PressCtrlC(p)
  BY <1>12 DEF PressCtrlC
<1>13. CASE Vanish(p)
  BY <1>13 DEF Vanish
<1> QED
  BY <1>1, <1>2, <1>3, <1>4, <1>5, <1>6, <1>7,
     <1>8, <1>9, <1>10, <1>11, <1>12, <1>13 DEF Frontend

(* No step of the daemon or of a child does. *)
LEMMA SecretDaemon ==
  ASSUME Typed, OnceInv, CodeInv, SecretInv,
         Daemon \/ Kill \/ InfrastructureError \/ LoseBinary \/ DaemonDies
           \/ DaemonStarts \/ (\E o \in Ops : ChildStep(o) \/ ChildFails(o))
  PROVE  SecretInv'
<1> USE OpsAssumption, NoOp, DelegationBounds
<1> USE DEF SecretInv, CodeInv, OnceInv, Typed, DelegationTypeOK, Codes, Claimed, files,
            frontVars, childVars, daemonVars, limits, Drop
<1>1. CASE Scan
  BY <1>1 DEF Scan
<1>2. ASSUME NEW o \in Ops, Read(o) PROVE SecretInv'
  BY <1>2 DEF Read
<1>3. CASE EndCycle
  BY <1>3 DEF EndCycle
<1>4. CASE Claim
  BY <1>4 DEF Claim
<1>5. CASE Spawn
  BY <1>5 DEF Spawn
<1>6. CASE SeeCancel
  BY <1>6 DEF SeeCancel, Running
<1>7. CASE WriteResult
  BY <1>7 DEF WriteResult, ExitCode, Running
<1>8. CASE Close
  BY <1>8 DEF Close
<1>9. CASE Kill
  BY <1>9 DEF Kill, Running
<1>10. CASE InfrastructureError
  BY <1>10 DEF InfrastructureError
<1>11. CASE LoseBinary
  BY <1>11 DEF LoseBinary
<1>12. CASE DaemonDies
  BY <1>12 DEF DaemonDies
<1>13. CASE DaemonStarts
  BY <1>13 DEF DaemonStarts
<1>14. ASSUME NEW o \in Ops, ChildStep(o) PROVE SecretInv'
  BY <1>14 DEF ChildStep, Running
<1>15. ASSUME NEW o \in Ops, ChildFails(o) PROVE SecretInv'
  BY <1>15 DEF ChildFails, Running
<1> QED
  BY <1>1, <1>2, <1>3, <1>4, <1>5, <1>6, <1>7, <1>8,
     <1>9, <1>10, <1>11, <1>12, <1>13, <1>14, <1>15 DEF Daemon

LEMMA CodeStep == Typed /\ OnceInv /\ CodeInv /\ [DelegationNext]_delegationVars => CodeInv'
<1> SUFFICES ASSUME Typed, OnceInv, CodeInv, [DelegationNext]_delegationVars PROVE CodeInv'
  OBVIOUS
<1>1. CASE DelegationNext
  BY <1>1, CodeFrontend, CodeDaemon DEF DelegationNext
<1>2. CASE UNCHANGED delegationVars
  BY <1>2 DEF CodeInv, ReportIsTrue, delegationVars, files, frontVars, childVars, daemonVars, limits
<1> QED
  BY <1>1, <1>2

LEMMA SecretStep ==
  Typed /\ OnceInv /\ CodeInv /\ SecretInv /\ [DelegationNext]_delegationVars => SecretInv'
<1> SUFFICES ASSUME Typed, OnceInv, CodeInv, SecretInv, [DelegationNext]_delegationVars PROVE SecretInv'
  OBVIOUS
<1>1. CASE DelegationNext
  BY <1>1, SecretFrontend, SecretDaemon DEF DelegationNext
<1>2. CASE UNCHANGED delegationVars
  BY <1>2 DEF SecretInv, delegationVars, files, frontVars, childVars, daemonVars, limits
<1> QED
  BY <1>1, <1>2

(* A frontend reports how its own child really ended, and no credential     *)
(* file outlives the frontend that returned or the child that was to read   *)
(* it, unless a daemon died in between (wait_for_child, RemoveFile).        *)
THEOREM DelegationHonest == DelegationSpec => []DelegationInvariant
<1>1. DelegationInit => CodeInv /\ SecretInv
  BY NoOp DEF DelegationInit, CodeInv, SecretInv, ReportIsTrue
<1>2. CodeInv /\ SecretInv => DelegationInvariant
  BY DEF CodeInv, SecretInv, DelegationInvariant, NoSecretLeft
<1> QED
  BY <1>1, <1>2, TypedInit, TypedStep, OnceInit, OnceStep, CodeStep, SecretStep,
     PTL DEF DelegationSpec

-----------------------------------------------------------------------------
(* Lifecycle: types *)

Some == Versions \cup {0}
Svcs == [reg: BOOLEAN, on: BOOLEAN, run: BOOLEAN]
Marks == [kept: BOOLEAN, reg: BOOLEAN, on: BOOLEAN, run: BOOLEAN, resolv: {"host", "router"}]
Txs == [id: Stamps, op: Operations, phase: Phases, from: Some, target: Some, backup: Stamps,
        noBackup: BOOLEAN, restores: BOOLEAN, statics: BOOLEAN, before: Marks]
Lkbs == [by: Stamps, version: Versions, release: Releases]
Disks == [current: Some, releases: [Versions -> Releases], data: Stamps, state: Some,
          svc: Svcs, resolv: {"host", "router"}, tx: Txs, aside: Stamps, replaced: Releases,
          saved: Stamps, snap: Some, store: SUBSET Lkbs]
Procs == [script: DOMAIN Scripts, i: Nat, keep: BOOLEAN]

LTypes ==
  /\ disk \in Disks /\ before \in Disks
  /\ proc \in Procs
  /\ ~Free => proc.i \in 1..Len(Scripts[proc.script])
  /\ hurt \in BOOLEAN /\ ops \in 0..MaxOps
  /\ disk.tx.id \in 1..(ops + 1) /\ disk.tx.backup \in {0, disk.tx.id}
  /\ \A k \in disk.store : k.by \in 1..(ops + 1)

(* The data directory that was found. *)
DataInv ==
  disk.tx.op # "uninstall" /\ before.data # 0 =>
    disk.aside = before.data \/ (disk.aside = 0 /\ disk.data = before.data)
AsideDone == before.data # 0 => disk.aside = before.data

Bare == ~disk.tx.noBackup /\ disk.tx.backup = 0
Protection == disk.tx.noBackup \/ disk.tx.backup # 0

SameUnit == disk.svc.reg = before.svc.reg /\ disk.svc.on = before.svc.on
SameVersionOf(v) == disk.releases[v].bin = before.releases[v].bin /\ disk.releases[v].pages = before.releases[v].pages
Back == Sound(before) /\ before.svc.run => disk.svc.run

Marked == /\ disk.tx.before.kept /\ disk.tx.before.reg = before.svc.reg
          /\ disk.tx.before.on = before.svc.on /\ disk.tx.before.run = before.svc.run
MarkedWell == IF disk.tx.before.kept THEN Marked ELSE ~disk.tx.before.run

(* What is found on the host when nobody is at work, by operation and phase. *)
Done == /\ disk.current = disk.tx.target /\ Whole(disk.releases[disk.tx.target])
        /\ disk.data # 0 /\ disk.svc.reg
InstallInv ==
  /\ disk.tx.from = 0 /\ disk.tx.target \in Versions
  /\ disk.tx.backup = 0 /\ ~disk.tx.restores /\ ~disk.tx.statics
  /\ before.state = 0 /\ ~before.svc.run /\ MarkedWell
  /\ ~disk.tx.before.kept => SameUnit
  /\ Sound(before) => /\ disk.current \in {0, disk.tx.target}
                      /\ disk.releases[disk.tx.target] = NoRelease \/ Whole(disk.releases[disk.tx.target])
  /\ Sound(before) /\ ~hurt => disk.state = 0 \/ (disk.state = disk.tx.target /\ Done)
  /\ disk.tx.phase # "rolled_back"
  /\ disk.tx.phase = "committed" /\ Sound(before) /\ ~hurt => disk.state # 0
  /\ disk.tx.phase = "failed" /\ Sound(before) /\ ~hurt => disk.state = 0 /\ disk.current = 0 /\ SameUnit

LoadedBefore ==
  /\ before.state \in Versions /\ before.current = before.state
  /\ before.releases[before.state] # NoRelease

EarlyPhases == {"preparing", "prepared", "stopping"}
LatePhases == {"activating", "verifying", "rolling_back"}

OldInPlace == disk.state = before.state /\ disk.current = before.current /\ disk.releases[before.state] = before.releases[before.state]
OldSaved ==
  IF disk.tx.target = before.state /\ disk.replaced # NoRelease
  THEN disk.replaced = before.releases[before.state]
  ELSE disk.releases[before.state] = before.releases[before.state]

Stands == /\ disk.state = disk.tx.target /\ disk.current = disk.tx.target
          /\ Whole(disk.releases[disk.tx.target]) /\ disk.data # 0 /\ disk.svc.reg
RestoreInv ==
  /\ LoadedBefore /\ disk.tx.from = before.state /\ disk.tx.target \in Versions
  /\ ~disk.tx.statics /\ (disk.tx.noBackup => disk.tx.backup = 0) /\ MarkedWell
  /\ ~Early(disk.tx) => disk.tx.restores /\ Marked
  /\ disk.tx.phase \in EarlyPhases =>
       OldInPlace /\ SameUnit /\ disk.aside = 0 /\ disk.replaced = NoRelease
  /\ disk.tx.phase = "preparing" => Back
  /\ disk.tx.phase \in LatePhases => disk.snap = before.state /\ OldSaved
  /\ disk.tx.phase = "committed" => Stands
  /\ disk.tx.phase = "rolled_back" \/ (disk.tx.phase = "failed" /\ ~hurt) => OldInPlace /\ SameUnit

UninstallInv ==
  /\ LoadedBefore /\ disk.tx.from = before.state /\ disk.tx.target = 0
  /\ disk.tx.phase = "preparing" => OldInPlace /\ SameUnit /\ Back
  /\ ~disk.tx.restores /\ ~disk.tx.statics /\ (disk.tx.noBackup => disk.tx.backup = 0)
  /\ ~Early(disk.tx) => Protection
  /\ disk.tx.phase \in {"preparing", "stopping", "activating", "committed", "failed"}
  /\ disk.tx.phase = "committed" => Gone

Pages == disk.releases[before.state].pages
StaticInv ==
  /\ LoadedBefore /\ disk.tx.from = 0 /\ disk.tx.target = 0
  /\ disk.tx.backup = 0 /\ ~disk.tx.noBackup /\ ~disk.tx.restores /\ ~disk.tx.before.kept /\ ~disk.tx.before.run
  /\ disk.state = before.state /\ disk.current = before.current /\ SameUnit /\ disk.aside = 0 /\ (Unfinished => Back)
  /\ disk.releases[before.state].bin = before.releases[before.state].bin
  /\ Sound(before) => disk.releases[before.state].zip # 0
  /\ disk.tx.phase \in {"preparing", "prepared", "activating", "committed", "rolled_back", "failed"}
  /\ disk.tx.phase \in {"preparing", "prepared", "rolled_back"} \/ (disk.tx.phase = "failed" /\ ~hurt) =>
       Pages = before.releases[before.state].pages
  /\ disk.tx.phase = "activating" => disk.tx.statics /\ disk.saved = before.releases[before.state].pages
  /\ disk.tx.phase = "committed" => Pages # 0

BinaryInv ==
  /\ LoadedBefore /\ disk.tx.from = before.state /\ disk.tx.target = before.state
  /\ ~disk.tx.restores /\ ~disk.tx.statics /\ ~disk.tx.noBackup
  /\ disk.state = before.state /\ disk.current = before.current
  /\ Sound(before) => /\ disk.svc.reg /\ disk.svc.on
                      /\ disk.tx.before.kept => disk.tx.before.reg /\ disk.tx.before.on
  /\ ~Early(disk.tx) => disk.tx.backup # 0 /\ Marked
  /\ disk.tx.phase \in {"preparing", "prepared"} => Back
  /\ \A k \in disk.store : k.by = disk.tx.id => k.release = before.releases[before.state]
  /\ disk.tx.phase \in EarlyPhases => disk.releases[before.state] = before.releases[before.state] /\ disk.aside = 0
  /\ disk.tx.phase = "rolled_back" \/ (disk.tx.phase = "failed" /\ ~hurt) =>
       disk.releases[before.state] = before.releases[before.state]
  /\ disk.tx.phase = "committed" =>
       /\ Sound(before) => Whole(disk.releases[before.state])
       /\ disk.aside = 0

OpInv ==
  /\ disk.tx.op = "install" => InstallInv
  /\ disk.tx.op = "restore" => RestoreInv
  /\ disk.tx.op = "uninstall" => UninstallInv
  /\ disk.tx.op = "repair_static" => StaticInv
  /\ disk.tx.op = "repair_binary" => BinaryInv

(* What a script has done by its i-th step. *)
InstallFits(i) ==
  /\ disk.tx.op = "install" /\ ~hurt
  /\ disk.tx.phase \notin Terminal
  /\ i <= 3 => disk.svc = before.svc /\ ~disk.tx.before.kept
  /\ i > 3 => Marked
  /\ i > 1 /\ Sound(before) => Whole(disk.releases[disk.tx.target])
  /\ i > 2 => disk.data # 0
  /\ i > 6 => disk.current = disk.tx.target
  /\ i > 7 => disk.svc.reg
  /\ i < 12 => disk.state = 0
  /\ i = 12 => disk.state = disk.tx.target

CleanupFits(i) ==
  /\ disk.tx.op = "install" /\ disk.tx.phase \notin Terminal
  /\ Sound(before) /\ ~hurt => disk.state = 0
  /\ i > 1 => SameUnit
  /\ i > 3 /\ Sound(before) => disk.current = 0
  /\ i > 5 => disk.state = 0

CommitFits == disk.tx.op = "install" /\ disk.tx.phase \notin Terminal /\ disk.state = disk.tx.target

RestoreFits(i) ==
  /\ disk.tx.op = "restore" /\ ~hurt
  /\ disk.tx.phase = IF i < 6 THEN "preparing" ELSE IF i = 6 THEN "prepared" ELSE IF i < 9 THEN "stopping"
                     ELSE IF i < 17 THEN "activating" ELSE "verifying"
  /\ i < 3 => Bare
  /\ i > 1 => disk.tx.restores
  /\ i <= 3 => disk.svc = before.svc /\ ~disk.tx.before.kept
  /\ i > 3 => Marked
  /\ i > 4 => disk.snap = before.state
  /\ i \in {9, 10} => disk.replaced = NoRelease
  /\ i > 9 => AsideDone
  /\ i > 10 /\ disk.tx.target = before.state => disk.replaced # NoRelease
  /\ i > 11 => disk.releases[disk.tx.target] = MadeBy(disk.tx.id)
  /\ i > 12 => disk.data # 0
  /\ i > 13 => disk.current = disk.tx.target
  /\ i > 14 => disk.svc.reg
  /\ i > 18 => disk.state = disk.tx.target

RollbackRestoreFits(i) ==
  /\ disk.tx.op = "restore"
  /\ disk.tx.phase \in LatePhases /\ (i > 1 => disk.tx.phase = "rolling_back")
  /\ i > 3 => SameUnit
  /\ i > 5 => disk.releases[before.state] = before.releases[before.state]
              /\ (disk.tx.target = before.state => disk.replaced = NoRelease)
  /\ i > 6 => disk.current = before.current
  /\ i > 9 => (before.svc.run => disk.svc.run)
  /\ i > 11 => disk.state = before.state

AbortFits(i) ==
  /\ disk.tx.op = "restore" /\ disk.tx.phase \in {"prepared", "stopping"} /\ Marked
  /\ i > 1 => (before.svc.run => disk.svc.run)

PreActivationFits(i) ==
  /\ disk.tx.op \in {"restore", "repair_static", "repair_binary"}
  /\ disk.tx.phase \in {"prepared", "stopping"}
  /\ i > 1 /\ disk.tx.op \in {"restore", "repair_binary"} => (before.svc.run => disk.svc.run)

CleanFits == disk.tx.op \in {"restore", "repair_static", "repair_binary"} /\ disk.tx.phase = "preparing"

FailFits ==
  /\ disk.tx.phase \notin Terminal
  /\ disk.tx.op = "install" => hurt
  /\ disk.tx.op = "restore" /\ ~hurt => disk.tx.phase = "preparing"
  /\ disk.tx.op = "repair_static" /\ ~hurt => disk.tx.phase \in {"preparing", "prepared"}
  /\ disk.tx.op = "repair_binary" /\ ~hurt => disk.tx.phase \in EarlyPhases
  /\ disk.tx.op = "uninstall" => disk.tx.phase \in {"preparing", "stopping", "activating"}

GoneBy(i, from) ==
  /\ i > from => ~disk.svc.reg /\ ~disk.svc.run
UninstallFits(i) ==
  /\ disk.tx.op = "uninstall"
  /\ disk.tx.phase = IF i < 4 THEN "preparing" ELSE IF i < 6 THEN "stopping" ELSE "activating"
  /\ i = 1 => Bare /\ disk.state \in Versions
  /\ i > 1 => Protection
  /\ i > 4 => ~disk.svc.reg /\ ~disk.svc.run
  /\ i > 6 => disk.current = 0
  /\ i > 7 => \A v \in Versions : disk.releases[v] = NoRelease
  /\ i > 9 => disk.state = 0
CompleteFits(i) ==
  /\ disk.tx.op = "uninstall" /\ disk.tx.phase \in {"stopping", "activating"} /\ Protection
  /\ i > 1 => ~disk.svc.reg /\ ~disk.svc.run
  /\ i > 2 => disk.current = 0
  /\ i > 3 => \A v \in Versions : disk.releases[v] = NoRelease
  /\ i > 5 => disk.state = 0

StaticFits(i) ==
  /\ disk.tx.op = "repair_static" /\ ~hurt
  /\ disk.tx.phase = IF i < 4 THEN "preparing" ELSE IF i = 4 THEN "prepared" ELSE "activating"
  /\ i > 2 => disk.tx.statics /\ disk.saved = before.releases[before.state].pages
  /\ i > 6 => Pages # 0
StaticBackFits(i) ==
  /\ disk.tx.op = "repair_static" /\ disk.tx.phase = "activating"
  /\ i > 2 => Pages = before.releases[before.state].pages

BinaryFits(i) ==
  /\ disk.tx.op = "repair_binary" /\ ~hurt
  /\ disk.tx.phase = IF i < 6 THEN "preparing" ELSE IF i = 6 THEN "prepared" ELSE IF i < 9 THEN "stopping"
                     ELSE IF i < 12 THEN "activating" ELSE "verifying"
  /\ i > 2 => disk.tx.backup # 0
  /\ i <= 3 => disk.svc = before.svc /\ ~disk.tx.before.kept
  /\ i > 3 => Marked
  /\ disk.aside = 0
  /\ i > 8 => /\ disk.releases[before.state].pages = before.releases[before.state].pages
              /\ disk.releases[before.state].zip = before.releases[before.state].zip
  /\ i > 9 => disk.releases[before.state].bin # 0

RollbackSwitchFits(i) ==
  /\ disk.tx.op = "repair_binary"
  /\ disk.tx.phase \in LatePhases /\ (i > 1 => disk.tx.phase = "rolling_back")
  /\ i > 3 => AsideDone
  /\ i \in {5, 6} => Stored(disk.tx.backup)
  /\ i > 6 => disk.releases[before.state] = before.releases[before.state]
  /\ i > 10 => disk.svc.run

Fits(s, i) ==
  /\ s = "install" => InstallFits(i)
  /\ s = "cleanup" => CleanupFits(i)
  /\ s = "commit" => CommitFits
  /\ s = "restore" => RestoreFits(i)
  /\ s = "rollback_restore" => RollbackRestoreFits(i)
  /\ s = "abort" => AbortFits(i)
  /\ s = "pre_activation" => PreActivationFits(i)
  /\ s = "clean" => CleanFits
  /\ s = "fail" => FailFits
  /\ s = "uninstall" => UninstallFits(i)
  /\ s = "complete" => CompleteFits(i)
  /\ s = "repair_static" => StaticFits(i)
  /\ s \in {"static_back", "recover_static"} => StaticBackFits(i)
  /\ s = "repair_binary" => BinaryFits(i)
  /\ s = "rollback_switch" => RollbackSwitchFits(i)

FirstInv ==
  /\ disk.tx.id = 1 => /\ Free /\ disk.tx.phase = "committed" /\ disk.tx.op = "install"
                       /\ Valid(disk.tx)
  /\ disk.tx.id # 1 => OpInv /\ Fits(proc.script, proc.i)
LInv == LTypes /\ DataInv /\ FirstInv

-----------------------------------------------------------------------------
(* The scripts *)

(* The step a is the i-th of the script s. *)
Place(s, i, a) ==
  \/ s = "install" /\ ((i = 1 /\ a = "build") \/ (i = 2 /\ a = "init") \/ (i = 3 /\ a = "capture")
        \/ (i = 4 /\ a = "prepared") \/ (i = 5 /\ a = "activating") \/ (i = 6 /\ a = "link")
        \/ (i = 7 /\ a = "register") \/ (i = 8 /\ a = "start") \/ (i = 9 /\ a = "verifying")
        \/ (i = 10 /\ a = "health") \/ (i = 11 /\ a = "write_state") \/ (i = 12 /\ a = "committed"))
  \/ s = "restore" /\ ((i = 1 /\ a = "choose") \/ (i = 2 /\ a = "protect") \/ (i = 3 /\ a = "capture")
        \/ (i = 4 /\ a = "snapshot") \/ (i = 5 /\ a = "prepared") \/ (i = 6 /\ a = "stopping")
        \/ (i = 7 /\ a = "stop") \/ (i = 8 /\ a = "activating") \/ (i = 9 /\ a = "move_aside")
        \/ (i = 10 /\ a = "clear_release") \/ (i = 11 /\ a = "copy_release") \/ (i = 12 /\ a = "seed")
        \/ (i = 13 /\ a = "link") \/ (i = 14 /\ a = "register") \/ (i = 15 /\ a = "start")
        \/ (i = 16 /\ a = "verifying") \/ (i = 17 /\ a = "health") \/ (i = 18 /\ a = "write_state")
        \/ (i = 19 /\ a = "committed"))
  \/ s = "uninstall" /\ ((i = 1 /\ a = "protect") \/ (i = 2 /\ a = "capture") \/ (i = 3 /\ a = "stopping")
        \/ (i = 4 /\ a = "deactivate") \/ (i = 5 /\ a = "activating") \/ (i = 6 /\ a = "rm_current")
        \/ (i = 7 /\ a = "rm_releases") \/ (i = 8 /\ a = "rm_data") \/ (i = 9 /\ a = "rm_state")
        \/ (i = 10 /\ a = "committed"))
  \/ s = "repair_static" /\ ((i = 1 /\ a = "refresh_zip") \/ (i = 2 /\ a = "save_pages")
        \/ (i = 3 /\ a = "prepared") \/ (i = 4 /\ a = "activating") \/ (i = 5 /\ a = "pages_out")
        \/ (i = 6 /\ a = "pages_in") \/ (i = 7 /\ a = "write_state") \/ (i = 8 /\ a = "committed"))
  \/ s = "repair_binary" /\ ((i = 1 /\ a = "save_binary") \/ (i = 2 /\ a = "export")
        \/ (i = 3 /\ a = "capture") \/ (i = 4 /\ a = "snapshot") \/ (i = 5 /\ a = "prepared")
        \/ (i = 6 /\ a = "stopping") \/ (i = 7 /\ a = "stop") \/ (i = 8 /\ a = "activating")
        \/ (i = 9 /\ a = "replace_binary") \/ (i = 10 /\ a = "start") \/ (i = 11 /\ a = "verifying")
        \/ (i = 12 /\ a = "health") \/ (i = 13 /\ a = "write_state") \/ (i = 14 /\ a = "committed"))
  \/ s = "rollback_restore" /\ ((i = 1 /\ a = "rolling_back") \/ (i = 2 /\ a = "stop")
        \/ (i = 3 /\ a = "unit_back") \/ (i = 4 /\ a = "release_rm") \/ (i = 5 /\ a = "release_mv")
        \/ (i = 6 /\ a = "link_back") \/ (i = 7 /\ a = "data_rm") \/ (i = 8 /\ a = "data_mv")
        \/ (i = 9 /\ a = "start_back") \/ (i = 10 /\ a = "health_back") \/ (i = 11 /\ a = "state_back")
        \/ (i = 12 /\ a = "rolled_back"))
  \/ s = "rollback_switch" /\ ((i = 1 /\ a = "rolling_back") \/ (i = 2 /\ a = "stop")
        \/ (i = 3 /\ a = "move_aside") \/ (i = 4 /\ a = "extract") \/ (i = 5 /\ a = "clear_release")
        \/ (i = 6 /\ a = "copy_release") \/ (i = 7 /\ a = "seed") \/ (i = 8 /\ a = "link_back")
        \/ (i = 9 /\ a = "register") \/ (i = 10 /\ a = "start") \/ (i = 11 /\ a = "health_back")
        \/ (i = 12 /\ a = "state_back") \/ (i = 13 /\ a = "rolled_back"))
  \/ s = "cleanup" /\ ((i = 1 /\ a = "host_back") \/ (i = 2 /\ a = "rm_target") \/ (i = 3 /\ a = "rm_link")
        \/ (i = 4 /\ a = "rm_init") \/ (i = 5 /\ a = "rm_state") \/ (i = 6 /\ a = "failed"))
  \/ s = "abort" /\ ((i = 1 /\ a = "host_back") \/ (i = 2 /\ a = "failed"))
  \/ s = "pre_activation" /\ ((i = 1 /\ a = "service_back") \/ (i = 2 /\ a = "rm_txdir")
        \/ (i = 3 /\ a = "failed"))
  \/ s = "clean" /\ ((i = 1 /\ a = "rm_txdir") \/ (i = 2 /\ a = "failed"))
  \/ s = "static_back" /\ ((i = 1 /\ a = "pages_rm") \/ (i = 2 /\ a = "pages_copy")
        \/ (i = 3 /\ a = "rolled_back"))
  \/ s = "recover_static" /\ ((i = 1 /\ a = "pages_rm") \/ (i = 2 /\ a = "pages_copy")
        \/ (i = 3 /\ a = "failed"))
  \/ s = "complete" /\ ((i = 1 /\ a = "deactivate") \/ (i = 2 /\ a = "rm_current")
        \/ (i = 3 /\ a = "rm_releases") \/ (i = 4 /\ a = "rm_data") \/ (i = 5 /\ a = "rm_state")
        \/ (i = 6 /\ a = "committed"))
  \/ s = "commit" /\ ((i = 1 /\ a = "committed"))
  \/ s = "fail" /\ ((i = 1 /\ a = "failed"))

LEMMA ScriptNames ==
  /\ DOMAIN Scripts = {"install", "restore", "uninstall", "repair_static", "repair_binary", "rollback_restore", "rollback_switch", "cleanup", "abort", "pre_activation", "clean", "static_back", "recover_static", "complete", "commit", "fail", "idle"}
  /\ Scripts["install"] = InstallScript
  /\ Scripts["restore"] = RestoreScript
  /\ Scripts["uninstall"] = UninstallScript
  /\ Scripts["repair_static"] = RepairStaticScript
  /\ Scripts["repair_binary"] = RepairBinaryScript
  /\ Scripts["rollback_restore"] = RollbackRestoreScript
  /\ Scripts["rollback_switch"] = RollbackSwitchScript
  /\ Scripts["cleanup"] = CleanupScript
  /\ Scripts["abort"] = AbortScript
  /\ Scripts["pre_activation"] = PreActivationScript
  /\ Scripts["clean"] = CleanScript
  /\ Scripts["static_back"] = StaticBackScript
  /\ Scripts["recover_static"] = RecoverStaticScript
  /\ Scripts["complete"] = CompleteUninstallScript
  /\ Scripts["commit"] = <<"committed">>
  /\ Scripts["fail"] = <<"failed">>
  /\ Scripts["idle"] = <<>>
  BY DEF Scripts

LEMMA ScriptSet ==
  DOMAIN Scripts = {"install", "restore", "uninstall", "repair_static", "repair_binary", "rollback_restore", "rollback_switch", "cleanup", "abort", "pre_activation", "clean", "static_back", "recover_static", "complete", "commit", "fail", "idle"}
  BY ScriptNames

LEMMA Placed ==
  ASSUME proc \in Procs, ~Free => proc.i \in 1..Len(Scripts[proc.script]), NEW a, At(a)
  PROVE  Place(proc.script, proc.i, a)
<1>1. /\ proc.script # "idle" /\ proc.i \in 1..Len(Scripts[proc.script])
      /\ Scripts[proc.script][proc.i] = a /\ proc.script \in DOMAIN Scripts
  BY DEF At, Free, Procs
<1>2. CASE proc.script = "install"
  <2>1. proc.i \in 1..12
    BY <1>1, <1>2, ScriptNames DEF InstallScript
  <2>2. InstallScript[proc.i] = a
    BY <1>1, <1>2, ScriptNames
  <2> QED
    BY <1>2, <2>1, <2>2 DEF Place, InstallScript
<1>3. CASE proc.script = "restore"
  <2>1. proc.i \in 1..19
    BY <1>1, <1>3, ScriptNames DEF RestoreScript
  <2>2. RestoreScript[proc.i] = a
    BY <1>1, <1>3, ScriptNames
  <2> QED
    BY <1>3, <2>1, <2>2 DEF Place, RestoreScript
<1>4. CASE proc.script = "uninstall"
  <2>1. proc.i \in 1..10
    BY <1>1, <1>4, ScriptNames DEF UninstallScript
  <2>2. UninstallScript[proc.i] = a
    BY <1>1, <1>4, ScriptNames
  <2> QED
    BY <1>4, <2>1, <2>2 DEF Place, UninstallScript
<1>5. CASE proc.script = "repair_static"
  <2>1. proc.i \in 1..8
    BY <1>1, <1>5, ScriptNames DEF RepairStaticScript
  <2>2. RepairStaticScript[proc.i] = a
    BY <1>1, <1>5, ScriptNames
  <2> QED
    BY <1>5, <2>1, <2>2 DEF Place, RepairStaticScript
<1>6. CASE proc.script = "repair_binary"
  <2>1. proc.i \in 1..14
    BY <1>1, <1>6, ScriptNames DEF RepairBinaryScript
  <2>2. RepairBinaryScript[proc.i] = a
    BY <1>1, <1>6, ScriptNames
  <2> QED
    BY <1>6, <2>1, <2>2 DEF Place, RepairBinaryScript
<1>7. CASE proc.script = "rollback_restore"
  <2>1. proc.i \in 1..12
    BY <1>1, <1>7, ScriptNames DEF RollbackRestoreScript
  <2>2. RollbackRestoreScript[proc.i] = a
    BY <1>1, <1>7, ScriptNames
  <2> QED
    BY <1>7, <2>1, <2>2 DEF Place, RollbackRestoreScript
<1>8. CASE proc.script = "rollback_switch"
  <2>1. proc.i \in 1..13
    BY <1>1, <1>8, ScriptNames DEF RollbackSwitchScript
  <2>2. RollbackSwitchScript[proc.i] = a
    BY <1>1, <1>8, ScriptNames
  <2> QED
    BY <1>8, <2>1, <2>2 DEF Place, RollbackSwitchScript
<1>9. CASE proc.script = "cleanup"
  <2>1. proc.i \in 1..6
    BY <1>1, <1>9, ScriptNames DEF CleanupScript
  <2>2. CleanupScript[proc.i] = a
    BY <1>1, <1>9, ScriptNames
  <2> QED
    BY <1>9, <2>1, <2>2 DEF Place, CleanupScript
<1>10. CASE proc.script = "abort"
  <2>1. proc.i \in 1..2
    BY <1>1, <1>10, ScriptNames DEF AbortScript
  <2>2. AbortScript[proc.i] = a
    BY <1>1, <1>10, ScriptNames
  <2> QED
    BY <1>10, <2>1, <2>2 DEF Place, AbortScript
<1>11. CASE proc.script = "pre_activation"
  <2>1. proc.i \in 1..3
    BY <1>1, <1>11, ScriptNames DEF PreActivationScript
  <2>2. PreActivationScript[proc.i] = a
    BY <1>1, <1>11, ScriptNames
  <2> QED
    BY <1>11, <2>1, <2>2 DEF Place, PreActivationScript
<1>12. CASE proc.script = "clean"
  <2>1. proc.i \in 1..2
    BY <1>1, <1>12, ScriptNames DEF CleanScript
  <2>2. CleanScript[proc.i] = a
    BY <1>1, <1>12, ScriptNames
  <2> QED
    BY <1>12, <2>1, <2>2 DEF Place, CleanScript
<1>13. CASE proc.script = "static_back"
  <2>1. proc.i \in 1..3
    BY <1>1, <1>13, ScriptNames DEF StaticBackScript
  <2>2. StaticBackScript[proc.i] = a
    BY <1>1, <1>13, ScriptNames
  <2> QED
    BY <1>13, <2>1, <2>2 DEF Place, StaticBackScript
<1>14. CASE proc.script = "recover_static"
  <2>1. proc.i \in 1..3
    BY <1>1, <1>14, ScriptNames DEF RecoverStaticScript
  <2>2. RecoverStaticScript[proc.i] = a
    BY <1>1, <1>14, ScriptNames
  <2> QED
    BY <1>14, <2>1, <2>2 DEF Place, RecoverStaticScript
<1>15. CASE proc.script = "complete"
  <2>1. proc.i \in 1..6
    BY <1>1, <1>15, ScriptNames DEF CompleteUninstallScript
  <2>2. CompleteUninstallScript[proc.i] = a
    BY <1>1, <1>15, ScriptNames
  <2> QED
    BY <1>15, <2>1, <2>2 DEF Place, CompleteUninstallScript
<1>16. CASE proc.script = "commit"
  <2>1. proc.i \in 1..1
    BY <1>1, <1>16, ScriptNames
  <2>2. <<"committed">>[proc.i] = a
    BY <1>1, <1>16, ScriptNames
  <2> QED
    BY <1>16, <2>1, <2>2 DEF Place
<1>17. CASE proc.script = "fail"
  <2>1. proc.i \in 1..1
    BY <1>1, <1>17, ScriptNames
  <2>2. <<"failed">>[proc.i] = a
    BY <1>1, <1>17, ScriptNames
  <2> QED
    BY <1>17, <2>1, <2>2 DEF Place
<1> QED
  BY <1>1, <1>2, <1>3, <1>4, <1>5, <1>6, <1>7, <1>8, <1>9, <1>10, <1>11, <1>12, <1>13, <1>14, <1>15, <1>16, <1>17, ScriptNames

(* The number of steps of each script. *)
LEMMA Lengths ==
  /\ Len(Scripts["install"]) = 12
  /\ Len(Scripts["restore"]) = 19
  /\ Len(Scripts["uninstall"]) = 10
  /\ Len(Scripts["repair_static"]) = 8
  /\ Len(Scripts["repair_binary"]) = 14
  /\ Len(Scripts["rollback_restore"]) = 12
  /\ Len(Scripts["rollback_switch"]) = 13
  /\ Len(Scripts["cleanup"]) = 6
  /\ Len(Scripts["abort"]) = 2
  /\ Len(Scripts["pre_activation"]) = 3
  /\ Len(Scripts["clean"]) = 2
  /\ Len(Scripts["static_back"]) = 3
  /\ Len(Scripts["recover_static"]) = 3
  /\ Len(Scripts["complete"]) = 6
  /\ Len(Scripts["commit"]) = 1
  /\ Len(Scripts["fail"]) = 1
  /\ Len(Scripts["idle"]) = 0
  BY ScriptNames DEF InstallScript, RestoreScript, UninstallScript, RepairStaticScript, RepairBinaryScript, RollbackRestoreScript, RollbackSwitchScript, CleanupScript, AbortScript, PreActivationScript, CleanScript, StaticBackScript, RecoverStaticScript, CompleteUninstallScript

-----------------------------------------------------------------------------
(* A step of the holder of the lock *)

Fields == {"current", "releases", "data", "state", "svc", "resolv", "tx",
           "aside", "replaced", "saved", "snap", "store"}
(* The disk d became e, and only F of it changed. *)
Same(d, e, F) == \A f \in Fields \ F : e[f] = d[f]

(* The same of the transaction. *)
TxFields == {"id", "op", "phase", "from", "target", "backup", "noBackup", "restores", "statics", "before"}
KeepsTx(F) == \A f \in TxFields \ F : disk'.tx[f] = disk.tx[f]

(* What a step of a script leaves alone beside the disk. *)
Still == before' = before /\ kept' = kept /\ hurt' = hurt /\ ops' = ops

LEMMA Did ==
  ASSUME LTypes, NEW a, NEW after, Do(a, after)
  PROVE  /\ disk' = after /\ Still /\ proc' = Advanced /\ ~Free
         /\ Place(proc.script, proc.i, a)
  BY Placed DEF Do, At, Still, history, bounds, LTypes

LEMMA Moved ==
  ASSUME LTypes, ~Free, proc' = Advanced
  PROVE  /\ proc' \in Procs /\ (~Free' => proc'.i \in 1..Len(Scripts[proc'.script]))
         /\ proc.i = Len(Scripts[proc.script]) => proc'.script = "idle"
         /\ proc.i # Len(Scripts[proc.script]) => proc'.script = proc.script /\ proc'.i = proc.i + 1
<1>1. proc \in Procs /\ proc.i \in 1..Len(Scripts[proc.script]) /\ proc.script \in DOMAIN Scripts
  BY DEF LTypes, Procs
<1>2. CASE proc.i = Len(Scripts[proc.script])
  <2>1. proc' = [script |-> "idle", i |-> 1, keep |-> FALSE]
    BY <1>2 DEF Advanced, Idle
  <2>2. proc' \in Procs
    BY <2>1, ScriptNames DEF Procs
  <2> QED
    BY <1>2, <2>1, <2>2 DEF Free
<1>3. CASE proc.i # Len(Scripts[proc.script])
  <2>1. proc' = [proc EXCEPT !.i = proc.i + 1]
    BY <1>3 DEF Advanced
  <2>2. proc' \in Procs /\ proc'.script = proc.script /\ proc'.i = proc.i + 1
    BY <1>1, <2>1 DEF Procs
  <2>3. Len(Scripts[proc.script]) \in Nat
    BY <1>1, Lengths, ScriptNames
  <2>4. proc'.i \in 1..Len(Scripts[proc'.script])
    BY <1>1, <1>3, <2>2, <2>3
  <2> QED
    BY <1>3, <2>2, <2>4
<1> QED
  BY <1>2, <1>3

LEMMA Landed ==
  ASSUME LInv, disk.tx.id # 1, Still, ~Free, proc' = Advanced, disk' \in Disks,
         disk'.tx.id = disk.tx.id, disk'.tx.backup \in {0, disk.tx.id},
         \A k \in disk'.store : k \in disk.store \/ k.by = disk.tx.id,
         DataInv', OpInv', Fits(proc.script, proc.i)'
  PROVE  LInv'
<1>1. LTypes /\ before \in Disks /\ hurt \in BOOLEAN /\ ops \in 0..MaxOps /\ disk.tx.id \in 1..(ops + 1)
  BY DEF LInv, LTypes
<1>2. \A k \in disk'.store : k.by \in 1..(ops + 1)
  BY <1>1 DEF LTypes
<1>3. LTypes'
  BY <1>1, <1>2, Moved DEF LTypes, Still
<1> QED
  BY <1>3 DEF LInv, FirstInv

LEMMA AtWork ==
  ASSUME LInv, ~Free
  PROVE  disk.tx.id # 1 /\ OpInv /\ Fits(proc.script, proc.i) /\ LTypes
  BY DEF LInv, FirstInv

-----------------------------------------------------------------------------
(* What the steps write *)

LEMMA SetsCurrent ==
  ASSUME disk \in Disks, NEW x \in Some, disk' = [disk EXCEPT !.current = x]
  PROVE  disk' \in Disks /\ disk'.current = x /\ Same(disk, disk', {"current"})
  BY DEF Disks, Same, Fields

LEMMA SetsReleases ==
  ASSUME disk \in Disks, NEW x \in [Versions -> Releases], disk' = [disk EXCEPT !.releases = x]
  PROVE  disk' \in Disks /\ disk'.releases = x /\ Same(disk, disk', {"releases"})
  BY DEF Disks, Same, Fields

LEMMA SetsData ==
  ASSUME disk \in Disks, NEW x \in Stamps, disk' = [disk EXCEPT !.data = x]
  PROVE  disk' \in Disks /\ disk'.data = x /\ Same(disk, disk', {"data"})
  BY DEF Disks, Same, Fields

LEMMA SetsState ==
  ASSUME disk \in Disks, NEW x \in Some, disk' = [disk EXCEPT !.state = x]
  PROVE  disk' \in Disks /\ disk'.state = x /\ Same(disk, disk', {"state"})
  BY DEF Disks, Same, Fields

LEMMA SetsSvc ==
  ASSUME disk \in Disks, NEW x \in Svcs, disk' = [disk EXCEPT !.svc = x]
  PROVE  disk' \in Disks /\ disk'.svc = x /\ Same(disk, disk', {"svc"})
  BY DEF Disks, Same, Fields

LEMMA SetsResolv ==
  ASSUME disk \in Disks, NEW x \in {"host", "router"}, disk' = [disk EXCEPT !.resolv = x]
  PROVE  disk' \in Disks /\ disk'.resolv = x /\ Same(disk, disk', {"resolv"})
  BY DEF Disks, Same, Fields

LEMMA SetsSaved ==
  ASSUME disk \in Disks, NEW x \in Stamps, disk' = [disk EXCEPT !.saved = x]
  PROVE  disk' \in Disks /\ disk'.saved = x /\ Same(disk, disk', {"saved"})
  BY DEF Disks, Same, Fields

LEMMA SetsSnap ==
  ASSUME disk \in Disks, NEW x \in Some, disk' = [disk EXCEPT !.snap = x]
  PROVE  disk' \in Disks /\ disk'.snap = x /\ Same(disk, disk', {"snap"})
  BY DEF Disks, Same, Fields

LEMMA SetsTxBefore ==
  ASSUME disk \in Disks, NEW x \in Marks, disk' = [disk EXCEPT !.tx.before = x]
  PROVE  disk' \in Disks /\ Same(disk, disk', {"tx"}) /\ KeepsTx({"before"}) /\ disk'.tx.before = x
<1>1. PICK t \in Txs : t = [disk.tx EXCEPT !.before = x]
  BY DEF Disks, Txs
<1>2. disk' = [disk EXCEPT !.tx = t]
  BY <1>1
<1>3. disk' \in Disks /\ Same(disk, disk', {"tx"}) /\ disk'.tx = t
  BY <1>2 DEF Disks, Same, Fields
<1>4. t.before = x /\ \A f \in TxFields \ {"before"} : t[f] = disk.tx[f]
  BY <1>1 DEF Disks, Txs, TxFields
<1> QED
  BY <1>3, <1>4 DEF KeepsTx

LEMMA SetsTxPhase ==
  ASSUME disk \in Disks, NEW x \in Phases, disk' = [disk EXCEPT !.tx.phase = x]
  PROVE  disk' \in Disks /\ Same(disk, disk', {"tx"}) /\ KeepsTx({"phase"}) /\ disk'.tx.phase = x
<1>1. PICK t \in Txs : t = [disk.tx EXCEPT !.phase = x]
  BY DEF Disks, Txs
<1>2. disk' = [disk EXCEPT !.tx = t]
  BY <1>1
<1>3. disk' \in Disks /\ Same(disk, disk', {"tx"}) /\ disk'.tx = t
  BY <1>2 DEF Disks, Same, Fields
<1>4. t.phase = x /\ \A f \in TxFields \ {"phase"} : t[f] = disk.tx[f]
  BY <1>1 DEF Disks, Txs, TxFields
<1> QED
  BY <1>3, <1>4 DEF KeepsTx

LEMMA SetsTxNoBackup ==
  ASSUME disk \in Disks, NEW x \in BOOLEAN, disk' = [disk EXCEPT !.tx.noBackup = x]
  PROVE  disk' \in Disks /\ Same(disk, disk', {"tx"}) /\ KeepsTx({"noBackup"}) /\ disk'.tx.noBackup = x
<1>1. PICK t \in Txs : t = [disk.tx EXCEPT !.noBackup = x]
  BY DEF Disks, Txs
<1>2. disk' = [disk EXCEPT !.tx = t]
  BY <1>1
<1>3. disk' \in Disks /\ Same(disk, disk', {"tx"}) /\ disk'.tx = t
  BY <1>2 DEF Disks, Same, Fields
<1>4. t.noBackup = x /\ \A f \in TxFields \ {"noBackup"} : t[f] = disk.tx[f]
  BY <1>1 DEF Disks, Txs, TxFields
<1> QED
  BY <1>3, <1>4 DEF KeepsTx

LEMMA SetsTxRestores ==
  ASSUME disk \in Disks, NEW x \in BOOLEAN, disk' = [disk EXCEPT !.tx.restores = x]
  PROVE  disk' \in Disks /\ Same(disk, disk', {"tx"}) /\ KeepsTx({"restores"}) /\ disk'.tx.restores = x
<1>1. PICK t \in Txs : t = [disk.tx EXCEPT !.restores = x]
  BY DEF Disks, Txs
<1>2. disk' = [disk EXCEPT !.tx = t]
  BY <1>1
<1>3. disk' \in Disks /\ Same(disk, disk', {"tx"}) /\ disk'.tx = t
  BY <1>2 DEF Disks, Same, Fields
<1>4. t.restores = x /\ \A f \in TxFields \ {"restores"} : t[f] = disk.tx[f]
  BY <1>1 DEF Disks, Txs, TxFields
<1> QED
  BY <1>3, <1>4 DEF KeepsTx

LEMMA SetsRelease ==
  ASSUME disk \in Disks, NEW v \in Versions, NEW r \in Releases, disk' = [disk EXCEPT !.releases[v] = r]
  PROVE  /\ disk' \in Disks /\ Same(disk, disk', {"releases"})
         /\ disk'.releases[v] = r /\ \A w \in Versions \ {v} : disk'.releases[w] = disk.releases[w]
<1>1. PICK x \in [Versions -> Releases] : x = [disk.releases EXCEPT ![v] = r]
  BY DEF Disks
<1>2. disk' = [disk EXCEPT !.releases = x]
  BY <1>1
<1>3. disk' \in Disks /\ disk'.releases = x /\ Same(disk, disk', {"releases"})
  BY <1>2, SetsReleases
<1>4. x[v] = r /\ \A w \in Versions \ {v} : x[w] = disk.releases[w]
  BY <1>1 DEF Disks
<1> QED
  BY <1>3, <1>4

LEMMA StoppedIs ==
  ASSUME NEW d \in Disks, NEW e, e = Stopped(d)
  PROVE  /\ e \in Disks /\ Same(d, e, {"svc"})
         /\ e.svc.reg = d.svc.reg /\ e.svc.on = d.svc.on /\ ~e.svc.run
<1>1. PICK u \in Svcs : u = [d.svc EXCEPT !.run = FALSE]
  BY DEF Disks, Svcs
<1>2. u.reg = d.svc.reg /\ u.on = d.svc.on /\ ~u.run
  BY <1>1 DEF Disks, Svcs
<1>3. e = [d EXCEPT !.svc = u]
  BY <1>1 DEF Stopped
<1> QED
  BY <1>2, <1>3 DEF Disks, Same, Fields

LEMMA RegisteredIs ==
  ASSUME NEW d \in Disks, NEW e, NEW w \in Marks, e = Registered(d, w)
  PROVE  /\ e \in Disks /\ Same(d, e, {"svc"})
         /\ e.svc.reg = w.reg /\ e.svc.on = w.on /\ e.svc.run = d.svc.run
<1>1. PICK u \in Svcs : u = [d.svc EXCEPT !.reg = w.reg, !.on = w.on]
  BY DEF Disks, Svcs, Marks
<1>2. u.reg = w.reg /\ u.on = w.on /\ u.run = d.svc.run
  BY <1>1 DEF Disks, Svcs
<1>3. e = [d EXCEPT !.svc = u]
  BY <1>1 DEF Registered
<1> QED
  BY <1>2, <1>3 DEF Disks, Same, Fields

LEMMA StartedIs ==
  ASSUME NEW d \in Disks, NEW e, e = Started(d)
  PROVE  /\ e \in Disks /\ Same(d, e, {"svc", "resolv", "data"})
         /\ e.svc.reg = d.svc.reg /\ e.svc.on = d.svc.on /\ e.svc.run
         /\ d.data # 0 => e.data = d.data
<1>1. CASE d.svc.run
  BY <1>1 DEF Started, Same, Fields
<1>2. CASE ~d.svc.run
  <2>1. PICK u \in Svcs : u = [d.svc EXCEPT !.run = TRUE]
    BY DEF Disks, Svcs
  <2>2. u.reg = d.svc.reg /\ u.on = d.svc.on /\ u.run
    BY <2>1 DEF Disks, Svcs
  <2>3. PICK x \in Stamps : x = IF d.data = 0 THEN Fresh ELSE d.data
    BY LifecycleAssumption DEF Disks, Stamps, Fresh
  <2>4. e = [d EXCEPT !.svc = u, !.resolv = "router", !.data = x]
    BY <1>2, <2>1, <2>3 DEF Started
  <2>5. e \in Disks /\ Same(d, e, {"svc", "resolv", "data"}) /\ e.svc = u /\ e.data = x
    BY <2>4 DEF Disks, Same, Fields
  <2> QED
    BY <2>2, <2>3, <2>5
<1> QED
  BY <1>1, <1>2

LEMMA ServiceBackIs ==
  ASSUME NEW d \in Disks, NEW e, NEW w \in Marks, e = ServiceBack(d, w)
  PROVE  /\ e \in Disks /\ Same(d, e, {"svc", "resolv", "data"})
         /\ e.svc.reg = w.reg /\ e.svc.on = w.on /\ e.svc.run = w.run
         /\ d.data # 0 => e.data = d.data
<1>1. PICK m : m = Registered(d, w)
  OBVIOUS
<1>2. m \in Disks /\ Same(d, m, {"svc"}) /\ m.svc.reg = w.reg /\ m.svc.on = w.on
  BY <1>1, RegisteredIs
<1>3. w.run \in BOOLEAN /\ e = IF w.run THEN Started(m) ELSE Stopped(m)
  BY <1>1 DEF ServiceBack, Marks
<1>4. CASE w.run
  <2>1. /\ e \in Disks /\ Same(m, e, {"svc", "resolv", "data"}) /\ e.svc.reg = m.svc.reg /\ e.svc.on = m.svc.on
        /\ e.svc.run /\ (m.data # 0 => e.data = m.data)
    BY <1>2, <1>3, <1>4, StartedIs
  <2>2. Same(d, e, {"svc", "resolv", "data"}) /\ m.data = d.data
    BY <1>2, <2>1 DEF Same, Fields
  <2>3. e.svc.run = w.run
    BY <1>3, <1>4, <2>1 DEF Disks, Svcs
  <2> QED
    BY <1>2, <2>1, <2>2, <2>3
<1>5. CASE ~w.run
  <2>1. /\ e \in Disks /\ Same(m, e, {"svc"}) /\ e.svc.reg = m.svc.reg /\ e.svc.on = m.svc.on /\ ~e.svc.run
    BY <1>2, <1>3, <1>5, StoppedIs
  <2>2. Same(d, e, {"svc", "resolv", "data"}) /\ m.data = d.data /\ e.data = m.data
    BY <1>2, <2>1 DEF Same, Fields
  <2>3. e.svc.run = w.run
    BY <1>3, <1>5, <2>1 DEF Disks, Svcs
  <2> QED
    BY <1>2, <2>1, <2>2, <2>3
<1> QED
  BY <1>3, <1>4, <1>5

LEMMA ResolvBackIs ==
  ASSUME NEW d \in Disks, NEW e, e = ResolvBack(d), disk \in Disks
  PROVE  e \in Disks /\ Same(d, e, {"resolv"})
  BY DEF ResolvBack, Disks, Txs, Marks, tx, Same, Fields

-----------------------------------------------------------------------------
(* The steps: the service *)

LEMMA CaptureKeeps ==
  ASSUME LInv, Capture
  PROVE  LInv'
<1>1. Do("capture", [disk EXCEPT !.tx.before =
           [kept |-> TRUE, reg |-> disk.svc.reg, on |-> disk.svc.on, run |-> disk.svc.run, resolv |-> ResolvSaved]])
  BY DEF Capture
<1>2. LTypes /\ disk \in Disks /\ DataInv
  BY DEF LInv, LTypes
<1>3. Still /\ proc' = Advanced /\ ~Free /\ Place(proc.script, proc.i, "capture")
  BY <1>1, <1>2, Did
<1>4. OpInv /\ Fits(proc.script, proc.i) /\ disk.tx.id # 1
  BY <1>3, AtWork
<1>5. disk' = [disk EXCEPT !.tx.before =
           [kept |-> TRUE, reg |-> disk.svc.reg, on |-> disk.svc.on, run |-> disk.svc.run, resolv |-> ResolvSaved]]
  BY <1>1, <1>2, Did
<1>6. /\ disk' \in Disks /\ Same(disk, disk', {"tx"}) /\ KeepsTx({"before"})
      /\ disk'.tx.before.kept /\ disk'.tx.before.reg = disk.svc.reg
      /\ disk'.tx.before.on = disk.svc.on /\ disk'.tx.before.run = disk.svc.run
  <2>1. PICK b \in Marks : b = [kept |-> TRUE, reg |-> disk.svc.reg, on |-> disk.svc.on,
                                run |-> disk.svc.run, resolv |-> ResolvSaved]
    BY <1>2 DEF Disks, Svcs, Marks, ResolvSaved
  <2>2. disk' = [disk EXCEPT !.tx.before = b]
    BY <1>5, <2>1
  <2>3. b.kept /\ b.reg = disk.svc.reg /\ b.on = disk.svc.on /\ b.run = disk.svc.run
    BY <2>1
  <2> QED
    BY <1>2, <2>2, <2>3, SetsTxBefore
<1>7. DataInv'
  BY <1>2, <1>3, <1>6 DEF DataInv, Same, Fields, KeepsTx, TxFields, Still
<1>8. ASSUME proc.script = "install", proc.i = 3
      PROVE  OpInv' /\ Fits(proc.script, proc.i)'
  <2>1. InstallFits(3) /\ disk.tx.op = "install" /\ InstallInv
    BY <1>4, <1>8 DEF Fits, InstallFits, OpInv
  <2>2. proc'.script = "install" /\ proc'.i = 4
    BY <1>2, <1>3, <1>8, Moved, Lengths
  <2>3. disk'.tx.op = "install" /\ InstallInv' /\ InstallFits(4)'
    BY <1>3, <1>6, <2>1 DEF Same, Fields, KeepsTx, TxFields, Still, InstallInv, SameUnit,
           MarkedWell, Marked, Done, InstallFits, Terminal
  <2> QED
    BY <2>2, <2>3 DEF OpInv, Fits
<1>9. ASSUME proc.script = "restore", proc.i = 3
      PROVE  OpInv' /\ Fits(proc.script, proc.i)'
  <2>1. RestoreFits(3) /\ disk.tx.op = "restore" /\ RestoreInv
    BY <1>4, <1>9 DEF Fits, RestoreFits, OpInv
  <2>2. proc'.script = "restore" /\ proc'.i = 4
    BY <1>2, <1>3, <1>9, Moved, Lengths
  <2>3. disk'.tx.op = "restore" /\ RestoreInv' /\ RestoreFits(4)'
    BY <1>3, <1>6, <2>1 DEF Same, Fields, KeepsTx, TxFields, Still, RestoreInv, LoadedBefore,
           MarkedWell, Marked, Early, EarlyPhases, LatePhases, OldInPlace, SameUnit, Back,
           OldSaved, Stands, RestoreFits, Bare, AsideDone
  <2> QED
    BY <2>2, <2>3 DEF OpInv, Fits
<1>10. ASSUME proc.script = "uninstall", proc.i = 2
      PROVE  OpInv' /\ Fits(proc.script, proc.i)'
  <2>1. UninstallFits(2) /\ disk.tx.op = "uninstall" /\ UninstallInv
    BY <1>4, <1>10 DEF Fits, UninstallFits, OpInv
  <2>2. proc'.script = "uninstall" /\ proc'.i = 3
    BY <1>2, <1>3, <1>10, Moved, Lengths
  <2>3. disk'.tx.op = "uninstall" /\ UninstallInv' /\ UninstallFits(3)'
    BY <1>3, <1>6, <2>1 DEF Same, Fields, KeepsTx, TxFields, Still, UninstallInv, LoadedBefore, OldInPlace, SameUnit, Back, Early,
           Protection, Gone, UninstallFits, Terminal, Bare
  <2> QED
    BY <2>2, <2>3 DEF OpInv, Fits
<1>11. ASSUME proc.script = "repair_binary", proc.i = 3
      PROVE  OpInv' /\ Fits(proc.script, proc.i)'
  <2>1. BinaryFits(3) /\ disk.tx.op = "repair_binary" /\ BinaryInv
    BY <1>4, <1>11 DEF Fits, BinaryFits, OpInv
  <2>2. proc'.script = "repair_binary" /\ proc'.i = 4
    BY <1>2, <1>3, <1>11, Moved, Lengths
  <2>3. disk'.tx.op = "repair_binary" /\ BinaryInv' /\ BinaryFits(4)'
    BY <1>3, <1>6, <2>1 DEF Same, Fields, KeepsTx, TxFields, Still, BinaryInv, LoadedBefore, Marked, Back, Early,
           EarlyPhases, BinaryFits
  <2> QED
    BY <2>2, <2>3 DEF OpInv, Fits
<1>12. OpInv' /\ Fits(proc.script, proc.i)'
  BY <1>3, <1>4, <1>8, <1>9, <1>10, <1>11 DEF Place
<1>13. /\ disk' \in Disks /\ disk'.tx.id = disk.tx.id /\ disk'.tx.backup \in {0, disk.tx.id}
       /\ \A b \in disk'.store : b \in disk.store \/ b.by = disk.tx.id
  BY <1>2, <1>6 DEF Same, Fields, KeepsTx, TxFields, LTypes
<1> QED
  BY <1>3, <1>4, <1>7, <1>12, <1>13, Landed

LEMMA StopKeeps ==
  ASSUME LInv, Stop
  PROVE  LInv'
<1>1. Do("stop", Stopped(disk))
  BY DEF Stop
<1>2. LTypes /\ disk \in Disks /\ DataInv
  BY DEF LInv, LTypes
<1>3. Still /\ proc' = Advanced /\ ~Free /\ Place(proc.script, proc.i, "stop")
  BY <1>1, <1>2, Did
<1>4. OpInv /\ Fits(proc.script, proc.i) /\ disk.tx.id # 1
  BY <1>3, AtWork
<1>5. disk' = Stopped(disk)
  BY <1>1, <1>2, Did
<1>6. /\ disk' \in Disks /\ Same(disk, disk', {"svc"})
      /\ disk'.svc.reg = disk.svc.reg /\ disk'.svc.on = disk.svc.on /\ ~disk'.svc.run
  BY <1>2, <1>5, StoppedIs
<1>7. DataInv'
  BY <1>2, <1>3, <1>6 DEF DataInv, Same, Fields, Still
<1>8. ASSUME proc.script = "restore", proc.i = 7
      PROVE  OpInv' /\ Fits(proc.script, proc.i)'
  <2>1. RestoreFits(7) /\ disk.tx.op = "restore" /\ RestoreInv
    BY <1>4, <1>8 DEF Fits, RestoreFits, OpInv
  <2>2. proc'.script = "restore" /\ proc'.i = 8
    BY <1>2, <1>3, <1>8, Moved, Lengths
  <2>3. disk'.tx.op = "restore" /\ RestoreInv' /\ RestoreFits(8)'
    BY <1>3, <1>6, <2>1 DEF Same, Fields, Still, RestoreInv, LoadedBefore, MarkedWell, Marked,
           Early, EarlyPhases, LatePhases, OldInPlace, SameUnit, Back, OldSaved, Stands,
           RestoreFits, Bare, AsideDone
  <2> QED
    BY <2>2, <2>3 DEF OpInv, Fits
<1>9. ASSUME proc.script = "repair_binary", proc.i = 7
      PROVE  OpInv' /\ Fits(proc.script, proc.i)'
  <2>1. BinaryFits(7) /\ disk.tx.op = "repair_binary" /\ BinaryInv
    BY <1>4, <1>9 DEF Fits, BinaryFits, OpInv
  <2>2. proc'.script = "repair_binary" /\ proc'.i = 8
    BY <1>2, <1>3, <1>9, Moved, Lengths
  <2>3. disk'.tx.op = "repair_binary" /\ BinaryInv' /\ BinaryFits(8)'
    BY <1>3, <1>6, <2>1 DEF Same, Fields, Still, BinaryInv, LoadedBefore, Marked, Back, Early, EarlyPhases,
           BinaryFits
  <2> QED
    BY <2>2, <2>3 DEF OpInv, Fits
<1>10. ASSUME proc.script = "rollback_restore", proc.i = 2
      PROVE  OpInv' /\ Fits(proc.script, proc.i)'
  <2>1. RollbackRestoreFits(2) /\ disk.tx.op = "restore" /\ RestoreInv
    BY <1>4, <1>10 DEF Fits, RollbackRestoreFits, OpInv
  <2>2. proc'.script = "rollback_restore" /\ proc'.i = 3
    BY <1>2, <1>3, <1>10, Moved, Lengths
  <2>3. disk'.tx.op = "restore" /\ RestoreInv' /\ RollbackRestoreFits(3)'
    BY <1>3, <1>6, <2>1 DEF Same, Fields, Still, RestoreInv, LoadedBefore, MarkedWell, Marked,
           Early, EarlyPhases, LatePhases, OldInPlace, SameUnit, Back, OldSaved, Stands,
           RollbackRestoreFits
  <2> QED
    BY <2>2, <2>3 DEF OpInv, Fits
<1>11. ASSUME proc.script = "rollback_switch", proc.i = 2
      PROVE  OpInv' /\ Fits(proc.script, proc.i)'
  <2>1. RollbackSwitchFits(2) /\ disk.tx.op = "repair_binary" /\ BinaryInv
    BY <1>4, <1>11 DEF Fits, RollbackSwitchFits, OpInv
  <2>2. proc'.script = "rollback_switch" /\ proc'.i = 3
    BY <1>2, <1>3, <1>11, Moved, Lengths
  <2>3. disk'.tx.op = "repair_binary" /\ BinaryInv' /\ RollbackSwitchFits(3)'
    BY <1>3, <1>6, <2>1 DEF Same, Fields, Still, BinaryInv, LoadedBefore, Marked, Back, Early, EarlyPhases,
           RollbackSwitchFits, LatePhases, AsideDone, Stored
  <2> QED
    BY <2>2, <2>3 DEF OpInv, Fits
<1>12. OpInv' /\ Fits(proc.script, proc.i)'
  BY <1>3, <1>4, <1>8, <1>9, <1>10, <1>11 DEF Place
<1>13. /\ disk' \in Disks /\ disk'.tx.id = disk.tx.id /\ disk'.tx.backup \in {0, disk.tx.id}
       /\ \A b \in disk'.store : b \in disk.store \/ b.by = disk.tx.id
  BY <1>2, <1>6 DEF Same, Fields, LTypes
<1> QED
  BY <1>3, <1>4, <1>7, <1>12, <1>13, Landed

LEMMA RegisterKeeps ==
  ASSUME LInv, Register
  PROVE  LInv'
<1>1. Do("register", [disk EXCEPT !.svc.reg = TRUE, !.svc.on = TRUE])
  BY DEF Register
<1>2. LTypes /\ disk \in Disks /\ DataInv
  BY DEF LInv, LTypes
<1>3. Still /\ proc' = Advanced /\ ~Free /\ Place(proc.script, proc.i, "register")
  BY <1>1, <1>2, Did
<1>4. OpInv /\ Fits(proc.script, proc.i) /\ disk.tx.id # 1
  BY <1>3, AtWork
<1>5. disk' = [disk EXCEPT !.svc.reg = TRUE, !.svc.on = TRUE]
  BY <1>1, <1>2, Did
<1>6. /\ disk' \in Disks /\ Same(disk, disk', {"svc"})
      /\ disk'.svc.reg = TRUE /\ disk'.svc.on = TRUE
  <2>1. PICK u \in Svcs : u = [disk.svc EXCEPT !.reg = TRUE, !.on = TRUE]
    BY <1>2 DEF Disks, Svcs
  <2>2. u.reg = TRUE /\ u.on = TRUE
    BY <1>2, <2>1 DEF Disks, Svcs
  <2>3. disk' = [disk EXCEPT !.svc = u]
    BY <1>5, <2>1
  <2> QED
    BY <1>2, <2>2, <2>3, SetsSvc
<1>7. DataInv'
  BY <1>2, <1>3, <1>6 DEF DataInv, Same, Fields, Still
<1>8. ASSUME proc.script = "install", proc.i = 7
      PROVE  OpInv' /\ Fits(proc.script, proc.i)'
  <2>1. InstallFits(7) /\ disk.tx.op = "install" /\ InstallInv
    BY <1>4, <1>8 DEF Fits, InstallFits, OpInv
  <2>2. proc'.script = "install" /\ proc'.i = 8
    BY <1>2, <1>3, <1>8, Moved, Lengths
  <2>3. disk'.tx.op = "install" /\ InstallInv' /\ InstallFits(8)'
    BY <1>3, <1>6, <2>1 DEF Same, Fields, Still, InstallInv, SameUnit, MarkedWell, Marked, Done,
           InstallFits, Terminal
  <2> QED
    BY <2>2, <2>3 DEF OpInv, Fits
<1>9. ASSUME proc.script = "restore", proc.i = 14
      PROVE  OpInv' /\ Fits(proc.script, proc.i)'
  <2>1. RestoreFits(14) /\ disk.tx.op = "restore" /\ RestoreInv
    BY <1>4, <1>9 DEF Fits, RestoreFits, OpInv
  <2>2. proc'.script = "restore" /\ proc'.i = 15
    BY <1>2, <1>3, <1>9, Moved, Lengths
  <2>3. disk'.tx.op = "restore" /\ RestoreInv'
    BY <1>3, <1>6, <2>1 DEF Same, Fields, Still, RestoreInv, LoadedBefore, MarkedWell, Marked,
           Early, EarlyPhases, LatePhases, OldInPlace, SameUnit, Back, OldSaved, Stands,
           RestoreFits, Bare, AsideDone
  <2>4. RestoreFits(15)'
    BY <1>3, <1>6, <2>1 DEF Same, Fields, Still, RestoreInv, LoadedBefore, MarkedWell, Marked,
           Early, EarlyPhases, LatePhases, OldInPlace, SameUnit, Back, OldSaved, Stands,
           RestoreFits, Bare, AsideDone
  <2> QED
    BY <2>2, <2>3, <2>4 DEF OpInv, Fits
<1>10. ASSUME proc.script = "rollback_switch", proc.i = 9
      PROVE  OpInv' /\ Fits(proc.script, proc.i)'
  <2>1. RollbackSwitchFits(9) /\ disk.tx.op = "repair_binary" /\ BinaryInv
    BY <1>4, <1>10 DEF Fits, RollbackSwitchFits, OpInv
  <2>2. proc'.script = "rollback_switch" /\ proc'.i = 10
    BY <1>2, <1>3, <1>10, Moved, Lengths
  <2>3. disk'.tx.op = "repair_binary" /\ BinaryInv' /\ RollbackSwitchFits(10)'
    BY <1>3, <1>6, <2>1 DEF Same, Fields, Still, BinaryInv, LoadedBefore, Marked, Back, Early, EarlyPhases,
           RollbackSwitchFits, LatePhases, AsideDone, Stored
  <2> QED
    BY <2>2, <2>3 DEF OpInv, Fits
<1>11. OpInv' /\ Fits(proc.script, proc.i)'
  BY <1>3, <1>4, <1>8, <1>9, <1>10 DEF Place
<1>12. /\ disk' \in Disks /\ disk'.tx.id = disk.tx.id /\ disk'.tx.backup \in {0, disk.tx.id}
       /\ \A b \in disk'.store : b \in disk.store \/ b.by = disk.tx.id
  BY <1>2, <1>6 DEF Same, Fields, LTypes
<1> QED
  BY <1>3, <1>4, <1>7, <1>11, <1>12, Landed

LEMMA StartKeeps ==
  ASSUME LInv, Start
  PROVE  LInv'
<1>1. Do("start", Started(disk))
  BY DEF Start
<1>2. LTypes /\ disk \in Disks /\ DataInv
  BY DEF LInv, LTypes
<1>3. Still /\ proc' = Advanced /\ ~Free /\ Place(proc.script, proc.i, "start")
  BY <1>1, <1>2, Did
<1>4. OpInv /\ Fits(proc.script, proc.i) /\ disk.tx.id # 1
  BY <1>3, AtWork
<1>5. disk' = Started(disk)
  BY <1>1, <1>2, Did
<1>6. /\ disk' \in Disks /\ Same(disk, disk', {"svc", "resolv", "data"})
      /\ disk'.svc.reg = disk.svc.reg /\ disk'.svc.on = disk.svc.on /\ disk'.svc.run
      /\ disk.data # 0 => disk'.data = disk.data
  BY <1>2, <1>5, StartedIs
<1>7. DataInv'
  BY <1>2, <1>3, <1>6 DEF DataInv, Same, Fields, Still
<1>8. ASSUME proc.script = "install", proc.i = 8
      PROVE  OpInv' /\ Fits(proc.script, proc.i)'
  <2>1. InstallFits(8) /\ disk.tx.op = "install" /\ InstallInv
    BY <1>4, <1>8 DEF Fits, InstallFits, OpInv
  <2>2. proc'.script = "install" /\ proc'.i = 9
    BY <1>2, <1>3, <1>8, Moved, Lengths
  <2>3. disk'.tx.op = "install" /\ InstallInv' /\ InstallFits(9)'
    BY <1>3, <1>6, <2>1 DEF Same, Fields, Still, InstallInv, SameUnit, MarkedWell, Marked, Done,
           InstallFits, Terminal
  <2> QED
    BY <2>2, <2>3 DEF OpInv, Fits
<1>9. ASSUME proc.script = "restore", proc.i = 15
      PROVE  OpInv' /\ Fits(proc.script, proc.i)'
  <2>1. RestoreFits(15) /\ disk.tx.op = "restore" /\ RestoreInv
    BY <1>4, <1>9 DEF Fits, RestoreFits, OpInv
  <2>2. proc'.script = "restore" /\ proc'.i = 16
    BY <1>2, <1>3, <1>9, Moved, Lengths
  <2>3. disk'.tx.op = "restore" /\ RestoreInv' /\ RestoreFits(16)'
    BY <1>3, <1>6, <2>1 DEF Same, Fields, Still, RestoreInv, LoadedBefore, MarkedWell, Marked,
           Early, EarlyPhases, LatePhases, OldInPlace, SameUnit, Back, OldSaved, Stands,
           RestoreFits, Bare, AsideDone
  <2> QED
    BY <2>2, <2>3 DEF OpInv, Fits
<1>10. ASSUME proc.script = "repair_binary", proc.i = 10
      PROVE  OpInv' /\ Fits(proc.script, proc.i)'
  <2>1. BinaryFits(10) /\ disk.tx.op = "repair_binary" /\ BinaryInv
    BY <1>4, <1>10 DEF Fits, BinaryFits, OpInv
  <2>2. proc'.script = "repair_binary" /\ proc'.i = 11
    BY <1>2, <1>3, <1>10, Moved, Lengths
  <2>3. disk'.tx.op = "repair_binary" /\ BinaryInv' /\ BinaryFits(11)'
    BY <1>3, <1>6, <2>1 DEF Same, Fields, Still, BinaryInv, LoadedBefore, Marked, Back, Early, EarlyPhases,
           BinaryFits
  <2> QED
    BY <2>2, <2>3 DEF OpInv, Fits
<1>11. ASSUME proc.script = "rollback_switch", proc.i = 10
      PROVE  OpInv' /\ Fits(proc.script, proc.i)'
  <2>1. RollbackSwitchFits(10) /\ disk.tx.op = "repair_binary" /\ BinaryInv
    BY <1>4, <1>11 DEF Fits, RollbackSwitchFits, OpInv
  <2>2. proc'.script = "rollback_switch" /\ proc'.i = 11
    BY <1>2, <1>3, <1>11, Moved, Lengths
  <2>3. disk'.tx.op = "repair_binary" /\ BinaryInv' /\ RollbackSwitchFits(11)'
    BY <1>3, <1>6, <2>1 DEF Same, Fields, Still, BinaryInv, LoadedBefore, Marked, Back, Early, EarlyPhases,
           RollbackSwitchFits, LatePhases, AsideDone, Stored
  <2> QED
    BY <2>2, <2>3 DEF OpInv, Fits
<1>12. OpInv' /\ Fits(proc.script, proc.i)'
  BY <1>3, <1>4, <1>8, <1>9, <1>10, <1>11 DEF Place
<1>13. /\ disk' \in Disks /\ disk'.tx.id = disk.tx.id /\ disk'.tx.backup \in {0, disk.tx.id}
       /\ \A b \in disk'.store : b \in disk.store \/ b.by = disk.tx.id
  BY <1>2, <1>6 DEF Same, Fields, LTypes
<1> QED
  BY <1>3, <1>4, <1>7, <1>12, <1>13, Landed

LEMMA HealthKeeps ==
  ASSUME LInv, Health
  PROVE  LInv'
<1>1. Do("health", disk)
  BY DEF Health
<1>2. LTypes /\ disk \in Disks /\ DataInv
  BY DEF LInv, LTypes
<1>3. Still /\ proc' = Advanced /\ ~Free /\ Place(proc.script, proc.i, "health")
  BY <1>1, <1>2, Did
<1>4. OpInv /\ Fits(proc.script, proc.i) /\ disk.tx.id # 1
  BY <1>3, AtWork
<1>5. disk' = disk
  BY <1>1, <1>2, Did
<1>6. disk' = disk
  BY <1>5
<1>7. DataInv'
  BY <1>2, <1>3, <1>6 DEF DataInv, Still
<1>8. ASSUME proc.script = "install", proc.i = 10
      PROVE  OpInv' /\ Fits(proc.script, proc.i)'
  <2>1. InstallFits(10) /\ disk.tx.op = "install" /\ InstallInv
    BY <1>4, <1>8 DEF Fits, InstallFits, OpInv
  <2>2. proc'.script = "install" /\ proc'.i = 11
    BY <1>2, <1>3, <1>8, Moved, Lengths
  <2>3. disk'.tx.op = "install" /\ InstallInv' /\ InstallFits(11)'
    BY <1>3, <1>6, <2>1 DEF Same, Fields, Still, InstallInv, SameUnit, MarkedWell, Marked, Done,
           InstallFits, Terminal
  <2> QED
    BY <2>2, <2>3 DEF OpInv, Fits
<1>9. ASSUME proc.script = "restore", proc.i = 17
      PROVE  OpInv' /\ Fits(proc.script, proc.i)'
  <2>1. RestoreFits(17) /\ disk.tx.op = "restore" /\ RestoreInv
    BY <1>4, <1>9 DEF Fits, RestoreFits, OpInv
  <2>2. proc'.script = "restore" /\ proc'.i = 18
    BY <1>2, <1>3, <1>9, Moved, Lengths
  <2>3. disk'.tx.op = "restore" /\ RestoreInv' /\ RestoreFits(18)'
    BY <1>3, <1>6, <2>1 DEF Same, Fields, Still, RestoreInv, LoadedBefore, MarkedWell, Marked,
           Early, EarlyPhases, LatePhases, OldInPlace, SameUnit, Back, OldSaved, Stands,
           RestoreFits, Bare, AsideDone
  <2> QED
    BY <2>2, <2>3 DEF OpInv, Fits
<1>10. ASSUME proc.script = "repair_binary", proc.i = 12
      PROVE  OpInv' /\ Fits(proc.script, proc.i)'
  <2>1. BinaryFits(12) /\ disk.tx.op = "repair_binary" /\ BinaryInv
    BY <1>4, <1>10 DEF Fits, BinaryFits, OpInv
  <2>2. proc'.script = "repair_binary" /\ proc'.i = 13
    BY <1>2, <1>3, <1>10, Moved, Lengths
  <2>3. disk'.tx.op = "repair_binary" /\ BinaryInv' /\ BinaryFits(13)'
    BY <1>3, <1>6, <2>1 DEF Same, Fields, Still, BinaryInv, LoadedBefore, Marked, Back, Early, EarlyPhases,
           BinaryFits
  <2> QED
    BY <2>2, <2>3 DEF OpInv, Fits
<1>11. OpInv' /\ Fits(proc.script, proc.i)'
  BY <1>3, <1>4, <1>8, <1>9, <1>10 DEF Place
<1>12. /\ disk' \in Disks /\ disk'.tx.id = disk.tx.id /\ disk'.tx.backup \in {0, disk.tx.id}
       /\ \A b \in disk'.store : b \in disk.store \/ b.by = disk.tx.id
  BY <1>2, <1>6 DEF Same, Fields, LTypes
<1> QED
  BY <1>3, <1>4, <1>7, <1>11, <1>12, Landed

LEMMA DeactivateKeeps ==
  ASSUME LInv, Deactivate
  PROVE  LInv'
<1>1. Do("deactivate", [disk EXCEPT !.svc = [reg |-> FALSE, on |-> FALSE, run |-> FALSE]])
  BY DEF Deactivate
<1>2. LTypes /\ disk \in Disks /\ DataInv
  BY DEF LInv, LTypes
<1>3. Still /\ proc' = Advanced /\ ~Free /\ Place(proc.script, proc.i, "deactivate")
  BY <1>1, <1>2, Did
<1>4. OpInv /\ Fits(proc.script, proc.i) /\ disk.tx.id # 1
  BY <1>3, AtWork
<1>5. disk' = [disk EXCEPT !.svc = [reg |-> FALSE, on |-> FALSE, run |-> FALSE]]
  BY <1>1, <1>2, Did
<1>6. /\ disk' \in Disks /\ Same(disk, disk', {"svc"})
      /\ ~disk'.svc.reg /\ ~disk'.svc.on /\ ~disk'.svc.run
  <2>1. PICK u \in Svcs : u = [reg |-> FALSE, on |-> FALSE, run |-> FALSE]
    BY DEF Svcs
  <2>2. disk' = [disk EXCEPT !.svc = u] /\ ~u.reg /\ ~u.on /\ ~u.run
    BY <1>5, <2>1
  <2> QED
    BY <1>2, <2>2, SetsSvc
<1>7. DataInv'
  BY <1>2, <1>3, <1>6 DEF DataInv, Same, Fields, Still
<1>8. ASSUME proc.script = "uninstall", proc.i = 4
      PROVE  OpInv' /\ Fits(proc.script, proc.i)'
  <2>1. UninstallFits(4) /\ disk.tx.op = "uninstall" /\ UninstallInv
    BY <1>4, <1>8 DEF Fits, UninstallFits, OpInv
  <2>2. proc'.script = "uninstall" /\ proc'.i = 5
    BY <1>2, <1>3, <1>8, Moved, Lengths
  <2>3. disk'.tx.op = "uninstall" /\ UninstallInv' /\ UninstallFits(5)'
    BY <1>3, <1>6, <2>1 DEF Same, Fields, Still, UninstallInv, LoadedBefore, OldInPlace, SameUnit, Back, Early, Protection, Gone,
           UninstallFits, Terminal, Bare
  <2> QED
    BY <2>2, <2>3 DEF OpInv, Fits
<1>9. ASSUME proc.script = "complete", proc.i = 1
      PROVE  OpInv' /\ Fits(proc.script, proc.i)'
  <2>1. CompleteFits(1) /\ disk.tx.op = "uninstall" /\ UninstallInv
    BY <1>4, <1>9 DEF Fits, CompleteFits, OpInv
  <2>2. proc'.script = "complete" /\ proc'.i = 2
    BY <1>2, <1>3, <1>9, Moved, Lengths
  <2>3. disk'.tx.op = "uninstall" /\ UninstallInv' /\ CompleteFits(2)'
    BY <1>3, <1>6, <2>1 DEF Same, Fields, Still, UninstallInv, LoadedBefore, OldInPlace, SameUnit, Back, Early, Protection, Gone,
           CompleteFits, Terminal
  <2> QED
    BY <2>2, <2>3 DEF OpInv, Fits
<1>10. OpInv' /\ Fits(proc.script, proc.i)'
  BY <1>3, <1>4, <1>8, <1>9 DEF Place
<1>11. /\ disk' \in Disks /\ disk'.tx.id = disk.tx.id /\ disk'.tx.backup \in {0, disk.tx.id}
       /\ \A b \in disk'.store : b \in disk.store \/ b.by = disk.tx.id
  BY <1>2, <1>6 DEF Same, Fields, LTypes
<1> QED
  BY <1>3, <1>4, <1>7, <1>10, <1>11, Landed

LEMMA PreActivationBackKeeps ==
  ASSUME LInv, PreActivationBack
  PROVE  LInv'
<1>1. Do("service_back", (IF tx.before.kept THEN ServiceBack(disk, tx.before) ELSE disk))
  BY DEF PreActivationBack
<1>2. LTypes /\ disk \in Disks /\ DataInv
  BY DEF LInv, LTypes
<1>3. Still /\ proc' = Advanced /\ ~Free /\ Place(proc.script, proc.i, "service_back")
  BY <1>1, <1>2, Did
<1>4. OpInv /\ Fits(proc.script, proc.i) /\ disk.tx.id # 1
  BY <1>3, AtWork
<1>5. disk' = (IF tx.before.kept THEN ServiceBack(disk, tx.before) ELSE disk)
  BY <1>1, <1>2, Did
<1>6. /\ disk' \in Disks /\ Same(disk, disk', {"svc", "resolv", "data"})
      /\ disk.tx.before.kept => /\ disk'.svc.reg = disk.tx.before.reg /\ disk'.svc.on = disk.tx.before.on
                               /\ disk'.svc.run = disk.tx.before.run
      /\ ~disk.tx.before.kept => disk'.svc = disk.svc
      /\ disk.data # 0 => disk'.data = disk.data
  <2>1. disk.tx.before \in Marks /\ disk.tx.before.kept \in BOOLEAN
    BY <1>2 DEF Disks, Txs, Marks
  <2>2. CASE disk.tx.before.kept
    <3>1. disk' = ServiceBack(disk, disk.tx.before)
      BY <1>5, <2>2 DEF tx
    <3> QED
      BY <1>2, <2>1, <2>2, <3>1, ServiceBackIs
  <2>3. CASE ~disk.tx.before.kept
    <3>1. disk' = disk
      BY <1>5, <2>3 DEF tx
    <3> QED
      BY <1>2, <2>3, <3>1 DEF Same
  <2> QED
    BY <2>1, <2>2, <2>3
<1>7. DataInv'
  BY <1>2, <1>3, <1>6 DEF DataInv, Same, Fields, Still
<1>8. ASSUME proc.script = "pre_activation", proc.i = 1, disk.tx.op = "restore"
      PROVE  OpInv' /\ Fits(proc.script, proc.i)'
  <2>1. PreActivationFits(1) /\ disk.tx.op = "restore" /\ RestoreInv
    BY <1>4, <1>8 DEF Fits, PreActivationFits, OpInv
  <2>2. proc'.script = "pre_activation" /\ proc'.i = 2
    BY <1>2, <1>3, <1>8, Moved, Lengths
  <2>3. disk'.tx.op = "restore" /\ RestoreInv' /\ PreActivationFits(2)'
    BY <1>3, <1>6, <2>1 DEF Same, Fields, Still, RestoreInv, LoadedBefore, MarkedWell, Marked,
           Early, EarlyPhases, LatePhases, OldInPlace, SameUnit, Back, OldSaved, Stands,
           PreActivationFits
  <2> QED
    BY <2>2, <2>3 DEF OpInv, Fits
<1>9. ASSUME proc.script = "pre_activation", proc.i = 1, disk.tx.op = "repair_static"
      PROVE  OpInv' /\ Fits(proc.script, proc.i)'
  <2>1. PreActivationFits(1) /\ disk.tx.op = "repair_static" /\ StaticInv
    BY <1>4, <1>9 DEF Fits, PreActivationFits, OpInv
  <2>2. proc'.script = "pre_activation" /\ proc'.i = 2
    BY <1>2, <1>3, <1>9, Moved, Lengths
  <2>3. disk'.tx.op = "repair_static" /\ StaticInv' /\ PreActivationFits(2)'
    BY <1>3, <1>6, <2>1 DEF Same, Fields, Still, StaticInv, LoadedBefore, SameUnit, Back,
           Unfinished, Terminal, tx, Pages, PreActivationFits
  <2> QED
    BY <2>2, <2>3 DEF OpInv, Fits
<1>10. ASSUME proc.script = "pre_activation", proc.i = 1, disk.tx.op = "repair_binary"
      PROVE  OpInv' /\ Fits(proc.script, proc.i)'
  <2>1. PreActivationFits(1) /\ disk.tx.op = "repair_binary" /\ BinaryInv
    BY <1>4, <1>10 DEF Fits, PreActivationFits, OpInv
  <2>2. proc'.script = "pre_activation" /\ proc'.i = 2
    BY <1>2, <1>3, <1>10, Moved, Lengths
  <2>3. disk'.tx.op = "repair_binary" /\ BinaryInv' /\ PreActivationFits(2)'
    BY <1>3, <1>6, <2>1 DEF Same, Fields, Still, BinaryInv, LoadedBefore, Marked, Back, Early, EarlyPhases,
           PreActivationFits
  <2> QED
    BY <2>2, <2>3 DEF OpInv, Fits
<1>11. OpInv' /\ Fits(proc.script, proc.i)'
  BY <1>3, <1>4, <1>8, <1>9, <1>10 DEF Place, Fits, PreActivationFits
<1>12. /\ disk' \in Disks /\ disk'.tx.id = disk.tx.id /\ disk'.tx.backup \in {0, disk.tx.id}
       /\ \A b \in disk'.store : b \in disk.store \/ b.by = disk.tx.id
  BY <1>2, <1>6 DEF Same, Fields, LTypes
<1> QED
  BY <1>3, <1>4, <1>7, <1>11, <1>12, Landed

LEMMA HostBackKeeps ==
  ASSUME LInv, HostBack
  PROVE  LInv'
<1>1. Do("host_back", (IF tx.before.kept THEN ResolvBack(ServiceBack(disk, tx.before)) ELSE disk))
  BY DEF HostBack
<1>2. LTypes /\ disk \in Disks /\ DataInv
  BY DEF LInv, LTypes
<1>3. Still /\ proc' = Advanced /\ ~Free /\ Place(proc.script, proc.i, "host_back")
  BY <1>1, <1>2, Did
<1>4. OpInv /\ Fits(proc.script, proc.i) /\ disk.tx.id # 1
  BY <1>3, AtWork
<1>5. disk' = (IF tx.before.kept THEN ResolvBack(ServiceBack(disk, tx.before)) ELSE disk)
  BY <1>1, <1>2, Did
<1>6. /\ disk' \in Disks /\ Same(disk, disk', {"svc", "resolv", "data"})
      /\ disk.tx.before.kept => /\ disk'.svc.reg = disk.tx.before.reg /\ disk'.svc.on = disk.tx.before.on
                               /\ disk'.svc.run = disk.tx.before.run
      /\ ~disk.tx.before.kept => disk'.svc = disk.svc
      /\ disk.data # 0 => disk'.data = disk.data
  <2>1. disk.tx.before \in Marks /\ disk.tx.before.kept \in BOOLEAN
    BY <1>2 DEF Disks, Txs, Marks
  <2>2. CASE disk.tx.before.kept
    <3>1. PICK d : d = ServiceBack(disk, disk.tx.before)
      OBVIOUS
    <3>2. /\ d \in Disks /\ Same(disk, d, {"svc", "resolv", "data"})
          /\ d.svc.reg = disk.tx.before.reg /\ d.svc.on = disk.tx.before.on /\ d.svc.run = disk.tx.before.run
          /\ disk.data # 0 => d.data = disk.data
      BY <1>2, <2>1, <3>1, ServiceBackIs
    <3>3. disk' = ResolvBack(d)
      BY <1>5, <2>2, <3>1 DEF tx
    <3>4. disk' \in Disks /\ Same(d, disk', {"resolv"})
      BY <1>2, <3>2, <3>3, ResolvBackIs
    <3> QED
      BY <2>2, <3>2, <3>4 DEF Same, Fields
  <2>3. CASE ~disk.tx.before.kept
    <3>1. disk' = disk
      BY <1>5, <2>3 DEF tx
    <3> QED
      BY <1>2, <2>3, <3>1 DEF Same
  <2> QED
    BY <2>1, <2>2, <2>3
<1>7. DataInv'
  BY <1>2, <1>3, <1>6 DEF DataInv, Same, Fields, Still
<1>8. ASSUME proc.script = "cleanup", proc.i = 1
      PROVE  OpInv' /\ Fits(proc.script, proc.i)'
  <2>1. CleanupFits(1) /\ disk.tx.op = "install" /\ InstallInv
    BY <1>4, <1>8 DEF Fits, CleanupFits, OpInv
  <2>2. proc'.script = "cleanup" /\ proc'.i = 2
    BY <1>2, <1>3, <1>8, Moved, Lengths
  <2>3. disk'.tx.op = "install" /\ InstallInv' /\ CleanupFits(2)'
    BY <1>3, <1>6, <2>1 DEF Same, Fields, Still, InstallInv, SameUnit, MarkedWell, Marked, Done,
           CleanupFits, Terminal
  <2> QED
    BY <2>2, <2>3 DEF OpInv, Fits
<1>9. ASSUME proc.script = "abort", proc.i = 1
      PROVE  OpInv' /\ Fits(proc.script, proc.i)'
  <2>1. AbortFits(1) /\ disk.tx.op = "restore" /\ RestoreInv
    BY <1>4, <1>9 DEF Fits, AbortFits, OpInv
  <2>2. proc'.script = "abort" /\ proc'.i = 2
    BY <1>2, <1>3, <1>9, Moved, Lengths
  <2>3. disk'.tx.op = "restore" /\ RestoreInv' /\ AbortFits(2)'
    BY <1>3, <1>6, <2>1 DEF Same, Fields, Still, RestoreInv, LoadedBefore, MarkedWell, Marked,
           Early, EarlyPhases, LatePhases, OldInPlace, SameUnit, Back, OldSaved, Stands, AbortFits
  <2> QED
    BY <2>2, <2>3 DEF OpInv, Fits
<1>10. OpInv' /\ Fits(proc.script, proc.i)'
  BY <1>3, <1>4, <1>8, <1>9 DEF Place
<1>11. /\ disk' \in Disks /\ disk'.tx.id = disk.tx.id /\ disk'.tx.backup \in {0, disk.tx.id}
       /\ \A b \in disk'.store : b \in disk.store \/ b.by = disk.tx.id
  BY <1>2, <1>6 DEF Same, Fields, LTypes
<1> QED
  BY <1>3, <1>4, <1>7, <1>10, <1>11, Landed

LEMMA UnitBackKeeps ==
  ASSUME LInv, UnitBack
  PROVE  LInv'
<1>1. Do("unit_back", ResolvBack(Registered(disk, tx.before)))
  BY DEF UnitBack
<1>2. LTypes /\ disk \in Disks /\ DataInv
  BY DEF LInv, LTypes
<1>3. Still /\ proc' = Advanced /\ ~Free /\ Place(proc.script, proc.i, "unit_back")
  BY <1>1, <1>2, Did
<1>4. OpInv /\ Fits(proc.script, proc.i) /\ disk.tx.id # 1
  BY <1>3, AtWork
<1>5. disk' = ResolvBack(Registered(disk, tx.before))
  BY <1>1, <1>2, Did
<1>6. /\ disk' \in Disks /\ Same(disk, disk', {"svc", "resolv"})
      /\ disk'.svc.reg = disk.tx.before.reg /\ disk'.svc.on = disk.tx.before.on /\ disk'.svc.run = disk.svc.run
  <2>1. disk.tx.before \in Marks
    BY <1>2 DEF Disks, Txs
  <2>2. PICK d : d = Registered(disk, disk.tx.before)
    OBVIOUS
  <2>3. /\ d \in Disks /\ Same(disk, d, {"svc"})
        /\ d.svc.reg = disk.tx.before.reg /\ d.svc.on = disk.tx.before.on /\ d.svc.run = disk.svc.run
    BY <1>2, <2>1, <2>2, RegisteredIs
  <2>4. disk' = ResolvBack(d)
    BY <1>5, <2>2 DEF tx
  <2>5. disk' \in Disks /\ Same(d, disk', {"resolv"})
    BY <1>2, <2>3, <2>4, ResolvBackIs
  <2> QED
    BY <2>3, <2>5 DEF Same, Fields
<1>7. DataInv'
  BY <1>2, <1>3, <1>6 DEF DataInv, Same, Fields, Still
<1>8. ASSUME proc.script = "rollback_restore", proc.i = 3
      PROVE  OpInv' /\ Fits(proc.script, proc.i)'
  <2>1. RollbackRestoreFits(3) /\ disk.tx.op = "restore" /\ RestoreInv
    BY <1>4, <1>8 DEF Fits, RollbackRestoreFits, OpInv
  <2>2. proc'.script = "rollback_restore" /\ proc'.i = 4
    BY <1>2, <1>3, <1>8, Moved, Lengths
  <2>3. disk'.tx.op = "restore" /\ RestoreInv' /\ RollbackRestoreFits(4)'
    BY <1>3, <1>6, <2>1 DEF Same, Fields, Still, RestoreInv, LoadedBefore, MarkedWell, Marked,
           Early, EarlyPhases, LatePhases, OldInPlace, SameUnit, Back, OldSaved, Stands,
           RollbackRestoreFits
  <2> QED
    BY <2>2, <2>3 DEF OpInv, Fits
<1>9. OpInv' /\ Fits(proc.script, proc.i)'
  BY <1>3, <1>4, <1>8 DEF Place
<1>10. /\ disk' \in Disks /\ disk'.tx.id = disk.tx.id /\ disk'.tx.backup \in {0, disk.tx.id}
       /\ \A b \in disk'.store : b \in disk.store \/ b.by = disk.tx.id
  BY <1>2, <1>6 DEF Same, Fields, LTypes
<1> QED
  BY <1>3, <1>4, <1>7, <1>9, <1>10, Landed

LEMMA StartBackKeeps ==
  ASSUME LInv, StartBack
  PROVE  LInv'
<1>1. Do("start_back", (IF tx.before.run THEN Started(disk) ELSE disk))
  BY DEF StartBack
<1>2. LTypes /\ disk \in Disks /\ DataInv
  BY DEF LInv, LTypes
<1>3. Still /\ proc' = Advanced /\ ~Free /\ Place(proc.script, proc.i, "start_back")
  BY <1>1, <1>2, Did
<1>4. OpInv /\ Fits(proc.script, proc.i) /\ disk.tx.id # 1
  BY <1>3, AtWork
<1>5. disk' = (IF tx.before.run THEN Started(disk) ELSE disk)
  BY <1>1, <1>2, Did
<1>6. /\ disk' \in Disks /\ Same(disk, disk', {"svc", "resolv", "data"})
      /\ disk'.svc.reg = disk.svc.reg /\ disk'.svc.on = disk.svc.on
      /\ disk.tx.before.run => disk'.svc.run
      /\ disk.data # 0 => disk'.data = disk.data
  <2>1. disk.tx.before.run \in BOOLEAN
    BY <1>2 DEF Disks, Txs, Marks
  <2>2. CASE disk.tx.before.run
    <3>1. disk' = Started(disk)
      BY <1>5, <2>2 DEF tx
    <3> QED
      BY <1>2, <2>2, <3>1, StartedIs
  <2>3. CASE ~disk.tx.before.run
    <3>1. disk' = disk
      BY <1>5, <2>3 DEF tx
    <3> QED
      BY <1>2, <2>3, <3>1 DEF Same
  <2> QED
    BY <2>1, <2>2, <2>3
<1>7. DataInv'
  BY <1>2, <1>3, <1>6 DEF DataInv, Same, Fields, Still
<1>8. ASSUME proc.script = "rollback_restore", proc.i = 9
      PROVE  OpInv' /\ Fits(proc.script, proc.i)'
  <2>1. RollbackRestoreFits(9) /\ disk.tx.op = "restore" /\ RestoreInv
    BY <1>4, <1>8 DEF Fits, RollbackRestoreFits, OpInv
  <2>2. proc'.script = "rollback_restore" /\ proc'.i = 10
    BY <1>2, <1>3, <1>8, Moved, Lengths
  <2>3. disk'.tx.op = "restore" /\ RestoreInv' /\ RollbackRestoreFits(10)'
    BY <1>3, <1>6, <2>1 DEF Same, Fields, Still, RestoreInv, LoadedBefore, MarkedWell, Marked,
           Early, EarlyPhases, LatePhases, OldInPlace, SameUnit, Back, OldSaved, Stands,
           RollbackRestoreFits
  <2> QED
    BY <2>2, <2>3 DEF OpInv, Fits
<1>9. OpInv' /\ Fits(proc.script, proc.i)'
  BY <1>3, <1>4, <1>8 DEF Place
<1>10. /\ disk' \in Disks /\ disk'.tx.id = disk.tx.id /\ disk'.tx.backup \in {0, disk.tx.id}
       /\ \A b \in disk'.store : b \in disk.store \/ b.by = disk.tx.id
  BY <1>2, <1>6 DEF Same, Fields, LTypes
<1> QED
  BY <1>3, <1>4, <1>7, <1>9, <1>10, Landed

LEMMA HealthBackKeeps ==
  ASSUME LInv, HealthBack
  PROVE  LInv'
<1>1. Do("health_back", disk)
  BY DEF HealthBack
<1>2. LTypes /\ disk \in Disks /\ DataInv
  BY DEF LInv, LTypes
<1>3. Still /\ proc' = Advanced /\ ~Free /\ Place(proc.script, proc.i, "health_back")
  BY <1>1, <1>2, Did
<1>4. OpInv /\ Fits(proc.script, proc.i) /\ disk.tx.id # 1
  BY <1>3, AtWork
<1>5. disk' = disk
  BY <1>1, <1>2, Did
<1>6. disk' = disk
  BY <1>5
<1>7. DataInv'
  BY <1>2, <1>3, <1>6 DEF DataInv, Still
<1>8. ASSUME proc.script = "rollback_restore", proc.i = 10
      PROVE  OpInv' /\ Fits(proc.script, proc.i)'
  <2>1. RollbackRestoreFits(10) /\ disk.tx.op = "restore" /\ RestoreInv
    BY <1>4, <1>8 DEF Fits, RollbackRestoreFits, OpInv
  <2>2. proc'.script = "rollback_restore" /\ proc'.i = 11
    BY <1>2, <1>3, <1>8, Moved, Lengths
  <2>3. disk'.tx.op = "restore" /\ RestoreInv' /\ RollbackRestoreFits(11)'
    BY <1>3, <1>6, <2>1 DEF Same, Fields, Still, RestoreInv, LoadedBefore, MarkedWell, Marked,
           Early, EarlyPhases, LatePhases, OldInPlace, SameUnit, Back, OldSaved, Stands,
           RollbackRestoreFits
  <2> QED
    BY <2>2, <2>3 DEF OpInv, Fits
<1>9. ASSUME proc.script = "rollback_switch", proc.i = 11
      PROVE  OpInv' /\ Fits(proc.script, proc.i)'
  <2>1. RollbackSwitchFits(11) /\ disk.tx.op = "repair_binary" /\ BinaryInv
    BY <1>4, <1>9 DEF Fits, RollbackSwitchFits, OpInv
  <2>2. proc'.script = "rollback_switch" /\ proc'.i = 12
    BY <1>2, <1>3, <1>9, Moved, Lengths
  <2>3. disk'.tx.op = "repair_binary" /\ BinaryInv' /\ RollbackSwitchFits(12)'
    BY <1>3, <1>6, <2>1 DEF Same, Fields, Still, BinaryInv, LoadedBefore, Marked, Back, Early, EarlyPhases,
           RollbackSwitchFits, LatePhases, AsideDone, Stored
  <2> QED
    BY <2>2, <2>3 DEF OpInv, Fits
<1>10. OpInv' /\ Fits(proc.script, proc.i)'
  BY <1>3, <1>4, <1>8, <1>9 DEF Place
<1>11. /\ disk' \in Disks /\ disk'.tx.id = disk.tx.id /\ disk'.tx.backup \in {0, disk.tx.id}
       /\ \A b \in disk'.store : b \in disk.store \/ b.by = disk.tx.id
  BY <1>2, <1>6 DEF Same, Fields, LTypes
<1> QED
  BY <1>3, <1>4, <1>7, <1>10, <1>11, Landed

-----------------------------------------------------------------------------
(* The steps: backups *)

LEMMA ProtectedIs ==
  ASSUME disk \in Disks, disk.state \in Versions, disk.tx.id # 0, disk' = Protected
  PROVE  /\ disk' \in Disks /\ Same(disk, disk', {"tx", "store"}) /\ KeepsTx({"backup"})
         /\ disk'.tx.backup = disk.tx.id /\ disk'.tx.backup # 0
         /\ \A b \in disk'.store :
           b \in disk.store \/ (b.by = disk.tx.id /\ b.release = disk.releases[disk.state])
         /\ \E b \in disk'.store : b.by = disk.tx.id
<1>1. PICK k \in Lkbs : k = [by |-> disk.tx.id, version |-> disk.state, release |-> disk.releases[disk.state]]
  BY DEF Disks, Lkbs, Txs
<1>2. PICK t \in Txs : t = [disk.tx EXCEPT !.backup = disk.tx.id]
  BY DEF Disks, Txs
<1>3. t.backup = disk.tx.id /\ \A f \in TxFields \ {"backup"} : t[f] = disk.tx[f]
  BY <1>2 DEF Disks, Txs, TxFields
<1>4. k.by = disk.tx.id /\ k.release = disk.releases[disk.state]
  BY <1>1
<1>5. PICK s \in SUBSET Lkbs : s = disk.store \cup {k}
  BY DEF Disks
<1>6. disk' = [disk EXCEPT !.tx = t, !.store = s]
  BY <1>1, <1>2, <1>5 DEF Protected, Lkb, tx
<1>7. disk' \in Disks /\ Same(disk, disk', {"tx", "store"}) /\ disk'.tx = t /\ disk'.store = s
  BY <1>6 DEF Disks, Same, Fields
<1> QED
  BY <1>3, <1>4, <1>5, <1>7 DEF KeepsTx

LEMMA ProtectedKeeps ==
  ASSUME LInv, Do("protect", Protected)
  PROVE  LInv'
<1>1. Do("protect", Protected)
  OBVIOUS
<1>2. LTypes /\ disk \in Disks /\ DataInv
  BY DEF LInv, LTypes
<1>3. Still /\ proc' = Advanced /\ ~Free /\ Place(proc.script, proc.i, "protect")
  BY <1>1, <1>2, Did
<1>4. OpInv /\ Fits(proc.script, proc.i) /\ disk.tx.id # 1
  BY <1>3, AtWork
<1>5. disk' = Protected
  BY <1>1, <1>2, Did
<1>6. /\ disk' \in Disks /\ Same(disk, disk', {"tx", "store"}) /\ KeepsTx({"backup"})
      /\ disk'.tx.backup = disk.tx.id /\ disk'.tx.backup # 0
      /\ \A b \in disk'.store :
           b \in disk.store \/ (b.by = disk.tx.id /\ b.release = disk.releases[disk.state])
  <2>1. disk.state \in Versions
    BY <1>3, <1>4 DEF Place, Fits, OpInv, RestoreFits, RestoreInv, OldInPlace, EarlyPhases, LoadedBefore, UninstallFits
  <2>2. disk.tx.id # 0
    BY <1>2 DEF LTypes
  <2> QED
    BY <1>2, <1>5, <2>1, <2>2, ProtectedIs
<1>7. DataInv'
  BY <1>2, <1>3, <1>6 DEF DataInv, Same, Fields, KeepsTx, TxFields, Still
<1>8. ASSUME proc.script = "restore", proc.i = 2
      PROVE  OpInv' /\ Fits(proc.script, proc.i)'
  <2>1. RestoreFits(2) /\ disk.tx.op = "restore" /\ RestoreInv
    BY <1>4, <1>8 DEF Fits, RestoreFits, OpInv
  <2>2. proc'.script = "restore" /\ proc'.i = 3
    BY <1>2, <1>3, <1>8, Moved, Lengths
  <2>3. disk'.tx.op = "restore" /\ RestoreInv' /\ RestoreFits(3)'
    BY <1>3, <1>6, <2>1 DEF Same, Fields, KeepsTx, TxFields, Still, RestoreInv, LoadedBefore,
           MarkedWell, Marked, Early, EarlyPhases, LatePhases, OldInPlace, SameUnit, Back,
           OldSaved, Stands, RestoreFits, Bare, AsideDone
  <2> QED
    BY <2>2, <2>3 DEF OpInv, Fits
<1>9. ASSUME proc.script = "uninstall", proc.i = 1
      PROVE  OpInv' /\ Fits(proc.script, proc.i)'
  <2>1. UninstallFits(1) /\ disk.tx.op = "uninstall" /\ UninstallInv
    BY <1>4, <1>9 DEF Fits, UninstallFits, OpInv
  <2>2. proc'.script = "uninstall" /\ proc'.i = 2
    BY <1>2, <1>3, <1>9, Moved, Lengths
  <2>3. disk'.tx.op = "uninstall" /\ UninstallInv' /\ UninstallFits(2)'
    BY <1>3, <1>6, <2>1 DEF Same, Fields, KeepsTx, TxFields, Still, UninstallInv, LoadedBefore, OldInPlace, SameUnit, Back, Early,
           Protection, Gone, UninstallFits, Terminal, Bare
  <2> QED
    BY <2>2, <2>3 DEF OpInv, Fits
<1>10. OpInv' /\ Fits(proc.script, proc.i)'
  BY <1>3, <1>4, <1>8, <1>9 DEF Place
<1>11. /\ disk' \in Disks /\ disk'.tx.id = disk.tx.id /\ disk'.tx.backup \in {0, disk.tx.id}
       /\ \A b \in disk'.store : b \in disk.store \/ b.by = disk.tx.id
  BY <1>2, <1>6 DEF Same, Fields, KeepsTx, TxFields, LTypes
<1> QED
  BY <1>3, <1>4, <1>7, <1>10, <1>11, Landed

LEMMA UnprotectedKeeps ==
  ASSUME LInv, Do("protect", [disk EXCEPT !.tx.noBackup = TRUE])
  PROVE  LInv'
<1>1. Do("protect", [disk EXCEPT !.tx.noBackup = TRUE])
  OBVIOUS
<1>2. LTypes /\ disk \in Disks /\ DataInv
  BY DEF LInv, LTypes
<1>3. Still /\ proc' = Advanced /\ ~Free /\ Place(proc.script, proc.i, "protect")
  BY <1>1, <1>2, Did
<1>4. OpInv /\ Fits(proc.script, proc.i) /\ disk.tx.id # 1
  BY <1>3, AtWork
<1>5. disk' = [disk EXCEPT !.tx.noBackup = TRUE]
  BY <1>1, <1>2, Did
<1>6. disk' \in Disks /\ Same(disk, disk', {"tx"}) /\ KeepsTx({"noBackup"}) /\ disk'.tx.noBackup = TRUE
  BY <1>2, <1>5, SetsTxNoBackup
<1>7. DataInv'
  BY <1>2, <1>3, <1>6 DEF DataInv, Same, Fields, KeepsTx, TxFields, Still
<1>8. ASSUME proc.script = "restore", proc.i = 2
      PROVE  OpInv' /\ Fits(proc.script, proc.i)'
  <2>1. RestoreFits(2) /\ disk.tx.op = "restore" /\ RestoreInv
    BY <1>4, <1>8 DEF Fits, RestoreFits, OpInv
  <2>2. proc'.script = "restore" /\ proc'.i = 3
    BY <1>2, <1>3, <1>8, Moved, Lengths
  <2>3. disk'.tx.op = "restore" /\ RestoreInv' /\ RestoreFits(3)'
    BY <1>3, <1>6, <2>1 DEF Same, Fields, KeepsTx, TxFields, Still, RestoreInv, LoadedBefore,
           MarkedWell, Marked, Early, EarlyPhases, LatePhases, OldInPlace, SameUnit, Back,
           OldSaved, Stands, RestoreFits, Bare, AsideDone
  <2> QED
    BY <2>2, <2>3 DEF OpInv, Fits
<1>9. ASSUME proc.script = "uninstall", proc.i = 1
      PROVE  OpInv' /\ Fits(proc.script, proc.i)'
  <2>1. UninstallFits(1) /\ disk.tx.op = "uninstall" /\ UninstallInv
    BY <1>4, <1>9 DEF Fits, UninstallFits, OpInv
  <2>2. proc'.script = "uninstall" /\ proc'.i = 2
    BY <1>2, <1>3, <1>9, Moved, Lengths
  <2>3. disk'.tx.op = "uninstall" /\ UninstallInv' /\ UninstallFits(2)'
    BY <1>3, <1>6, <2>1 DEF Same, Fields, KeepsTx, TxFields, Still, UninstallInv, LoadedBefore, OldInPlace, SameUnit, Back, Early,
           Protection, Gone, UninstallFits, Terminal, Bare
  <2> QED
    BY <2>2, <2>3 DEF OpInv, Fits
<1>10. OpInv' /\ Fits(proc.script, proc.i)'
  BY <1>3, <1>4, <1>8, <1>9 DEF Place
<1>11. /\ disk' \in Disks /\ disk'.tx.id = disk.tx.id /\ disk'.tx.backup \in {0, disk.tx.id}
       /\ \A b \in disk'.store : b \in disk.store \/ b.by = disk.tx.id
  BY <1>2, <1>6 DEF Same, Fields, KeepsTx, TxFields, LTypes
<1> QED
  BY <1>3, <1>4, <1>7, <1>10, <1>11, Landed

LEMMA ExportKeeps ==
  ASSUME LInv, Export
  PROVE  LInv'
<1>1. Do("export", Protected)
  BY DEF Export
<1>2. LTypes /\ disk \in Disks /\ DataInv
  BY DEF LInv, LTypes
<1>3. Still /\ proc' = Advanced /\ ~Free /\ Place(proc.script, proc.i, "export")
  BY <1>1, <1>2, Did
<1>4. OpInv /\ Fits(proc.script, proc.i) /\ disk.tx.id # 1
  BY <1>3, AtWork
<1>5. disk' = Protected
  BY <1>1, <1>2, Did
<1>6. /\ disk' \in Disks /\ Same(disk, disk', {"tx", "store"}) /\ KeepsTx({"backup"})
      /\ disk'.tx.backup = disk.tx.id /\ disk'.tx.backup # 0
      /\ \A b \in disk'.store :
           b \in disk.store \/ (b.by = disk.tx.id /\ b.release = disk.releases[disk.state])
  <2>1. disk.state \in Versions
    BY <1>3, <1>4 DEF Place, Fits, OpInv, BinaryFits, BinaryInv, LoadedBefore
  <2>2. disk.tx.id # 0
    BY <1>2 DEF LTypes
  <2> QED
    BY <1>2, <1>5, <2>1, <2>2, ProtectedIs
<1>7. DataInv'
  BY <1>2, <1>3, <1>6 DEF DataInv, Same, Fields, KeepsTx, TxFields, Still
<1>8. ASSUME proc.script = "repair_binary", proc.i = 2
      PROVE  OpInv' /\ Fits(proc.script, proc.i)'
  <2>1. BinaryFits(2) /\ disk.tx.op = "repair_binary" /\ BinaryInv
    BY <1>4, <1>8 DEF Fits, BinaryFits, OpInv
  <2>2. proc'.script = "repair_binary" /\ proc'.i = 3
    BY <1>2, <1>3, <1>8, Moved, Lengths
  <2>3. disk'.tx.op = "repair_binary" /\ BinaryInv' /\ BinaryFits(3)'
    BY <1>3, <1>6, <2>1 DEF Same, Fields, KeepsTx, TxFields, Still, BinaryInv, LoadedBefore, Marked, Back, Early,
           EarlyPhases, BinaryFits
  <2> QED
    BY <2>2, <2>3 DEF OpInv, Fits
<1>9. OpInv' /\ Fits(proc.script, proc.i)'
  BY <1>3, <1>4, <1>8 DEF Place
<1>10. /\ disk' \in Disks /\ disk'.tx.id = disk.tx.id /\ disk'.tx.backup \in {0, disk.tx.id}
       /\ \A b \in disk'.store : b \in disk.store \/ b.by = disk.tx.id
  BY <1>2, <1>6 DEF Same, Fields, KeepsTx, TxFields, LTypes
<1> QED
  BY <1>3, <1>4, <1>7, <1>9, <1>10, Landed

LEMMA ChooseKeeps ==
  ASSUME LInv, Choose
  PROVE  LInv'
<1>1. Do("choose", [disk EXCEPT !.tx.restores = TRUE])
  BY DEF Choose
<1>2. LTypes /\ disk \in Disks /\ DataInv
  BY DEF LInv, LTypes
<1>3. Still /\ proc' = Advanced /\ ~Free /\ Place(proc.script, proc.i, "choose")
  BY <1>1, <1>2, Did
<1>4. OpInv /\ Fits(proc.script, proc.i) /\ disk.tx.id # 1
  BY <1>3, AtWork
<1>5. disk' = [disk EXCEPT !.tx.restores = TRUE]
  BY <1>1, <1>2, Did
<1>6. disk' \in Disks /\ Same(disk, disk', {"tx"}) /\ KeepsTx({"restores"}) /\ disk'.tx.restores = TRUE
  BY <1>2, <1>5, SetsTxRestores
<1>7. DataInv'
  BY <1>2, <1>3, <1>6 DEF DataInv, Same, Fields, KeepsTx, TxFields, Still
<1>8. ASSUME proc.script = "restore", proc.i = 1
      PROVE  OpInv' /\ Fits(proc.script, proc.i)'
  <2>1. RestoreFits(1) /\ disk.tx.op = "restore" /\ RestoreInv
    BY <1>4, <1>8 DEF Fits, RestoreFits, OpInv
  <2>2. proc'.script = "restore" /\ proc'.i = 2
    BY <1>2, <1>3, <1>8, Moved, Lengths
  <2>3. disk'.tx.op = "restore" /\ RestoreInv' /\ RestoreFits(2)'
    BY <1>3, <1>6, <2>1 DEF Same, Fields, KeepsTx, TxFields, Still, RestoreInv, LoadedBefore,
           MarkedWell, Marked, Early, EarlyPhases, LatePhases, OldInPlace, SameUnit, Back,
           OldSaved, Stands, RestoreFits, Bare, AsideDone
  <2> QED
    BY <2>2, <2>3 DEF OpInv, Fits
<1>9. OpInv' /\ Fits(proc.script, proc.i)'
  BY <1>3, <1>4, <1>8 DEF Place
<1>10. /\ disk' \in Disks /\ disk'.tx.id = disk.tx.id /\ disk'.tx.backup \in {0, disk.tx.id}
       /\ \A b \in disk'.store : b \in disk.store \/ b.by = disk.tx.id
  BY <1>2, <1>6 DEF Same, Fields, KeepsTx, TxFields, LTypes
<1> QED
  BY <1>3, <1>4, <1>7, <1>9, <1>10, Landed

LEMMA WriteSnapshotKeeps ==
  ASSUME LInv, WriteSnapshot
  PROVE  LInv'
<1>1. Do("snapshot", [disk EXCEPT !.snap = disk.state])
  BY DEF WriteSnapshot
<1>2. LTypes /\ disk \in Disks /\ DataInv
  BY DEF LInv, LTypes
<1>3. Still /\ proc' = Advanced /\ ~Free /\ Place(proc.script, proc.i, "snapshot")
  BY <1>1, <1>2, Did
<1>4. OpInv /\ Fits(proc.script, proc.i) /\ disk.tx.id # 1
  BY <1>3, AtWork
<1>5. disk' = [disk EXCEPT !.snap = disk.state]
  BY <1>1, <1>2, Did
<1>6. disk' \in Disks /\ Same(disk, disk', {"snap"}) /\ disk'.snap = disk.state
  <2>1. disk.state \in Some
    BY <1>2 DEF Disks
  <2> QED
    BY <1>2, <1>5, <2>1, SetsSnap
<1>7. DataInv'
  BY <1>2, <1>3, <1>6 DEF DataInv, Same, Fields, Still
<1>8. ASSUME proc.script = "restore", proc.i = 4
      PROVE  OpInv' /\ Fits(proc.script, proc.i)'
  <2>1. RestoreFits(4) /\ disk.tx.op = "restore" /\ RestoreInv
    BY <1>4, <1>8 DEF Fits, RestoreFits, OpInv
  <2>2. proc'.script = "restore" /\ proc'.i = 5
    BY <1>2, <1>3, <1>8, Moved, Lengths
  <2>3. disk'.tx.op = "restore" /\ RestoreInv' /\ RestoreFits(5)'
    BY <1>3, <1>6, <2>1 DEF Same, Fields, Still, RestoreInv, LoadedBefore, MarkedWell, Marked,
           Early, EarlyPhases, LatePhases, OldInPlace, SameUnit, Back, OldSaved, Stands,
           RestoreFits, Bare, AsideDone
  <2> QED
    BY <2>2, <2>3 DEF OpInv, Fits
<1>9. ASSUME proc.script = "repair_binary", proc.i = 4
      PROVE  OpInv' /\ Fits(proc.script, proc.i)'
  <2>1. BinaryFits(4) /\ disk.tx.op = "repair_binary" /\ BinaryInv
    BY <1>4, <1>9 DEF Fits, BinaryFits, OpInv
  <2>2. proc'.script = "repair_binary" /\ proc'.i = 5
    BY <1>2, <1>3, <1>9, Moved, Lengths
  <2>3. disk'.tx.op = "repair_binary" /\ BinaryInv' /\ BinaryFits(5)'
    BY <1>3, <1>6, <2>1 DEF Same, Fields, Still, BinaryInv, LoadedBefore, Marked, Back, Early, EarlyPhases,
           BinaryFits
  <2> QED
    BY <2>2, <2>3 DEF OpInv, Fits
<1>10. OpInv' /\ Fits(proc.script, proc.i)'
  BY <1>3, <1>4, <1>8, <1>9 DEF Place
<1>11. /\ disk' \in Disks /\ disk'.tx.id = disk.tx.id /\ disk'.tx.backup \in {0, disk.tx.id}
       /\ \A b \in disk'.store : b \in disk.store \/ b.by = disk.tx.id
  BY <1>2, <1>6 DEF Same, Fields, LTypes
<1> QED
  BY <1>3, <1>4, <1>7, <1>10, <1>11, Landed

LEMMA ExtractKeeps ==
  ASSUME LInv, Extract
  PROVE  LInv'
<1>1. Do("extract", disk)
  BY DEF Extract
<1>2. LTypes /\ disk \in Disks /\ DataInv
  BY DEF LInv, LTypes
<1>3. Still /\ proc' = Advanced /\ ~Free /\ Place(proc.script, proc.i, "extract")
  BY <1>1, <1>2, Did
<1>4. OpInv /\ Fits(proc.script, proc.i) /\ disk.tx.id # 1
  BY <1>3, AtWork
<1>5. disk' = disk
  BY <1>1, <1>2, Did
<1>6. disk' = disk /\ Stored(disk.tx.backup)
  BY <1>5 DEF Extract, tx
<1>7. DataInv'
  BY <1>2, <1>3, <1>6 DEF DataInv, Still
<1>8. ASSUME proc.script = "rollback_switch", proc.i = 4
      PROVE  OpInv' /\ Fits(proc.script, proc.i)'
  <2>1. RollbackSwitchFits(4) /\ disk.tx.op = "repair_binary" /\ BinaryInv
    BY <1>4, <1>8 DEF Fits, RollbackSwitchFits, OpInv
  <2>2. proc'.script = "rollback_switch" /\ proc'.i = 5
    BY <1>2, <1>3, <1>8, Moved, Lengths
  <2>3. disk'.tx.op = "repair_binary" /\ BinaryInv' /\ RollbackSwitchFits(5)'
    BY <1>3, <1>6, <2>1 DEF Same, Fields, Still, BinaryInv, LoadedBefore, Marked, Back, Early, EarlyPhases,
           RollbackSwitchFits, LatePhases, AsideDone, Stored
  <2> QED
    BY <2>2, <2>3 DEF OpInv, Fits
<1>9. OpInv' /\ Fits(proc.script, proc.i)'
  BY <1>3, <1>4, <1>8 DEF Place
<1>10. /\ disk' \in Disks /\ disk'.tx.id = disk.tx.id /\ disk'.tx.backup \in {0, disk.tx.id}
       /\ \A b \in disk'.store : b \in disk.store \/ b.by = disk.tx.id
  BY <1>2, <1>6 DEF Same, Fields, LTypes
<1> QED
  BY <1>3, <1>4, <1>7, <1>9, <1>10, Landed

-----------------------------------------------------------------------------
(* The steps: releases and link *)

LEMMA BuildReleaseKeeps ==
  ASSUME LInv, BuildRelease
  PROVE  LInv'
<1>1. Do("build", [disk EXCEPT !.releases[tx.target] = IF @ = NoRelease THEN MadeBy(tx.id) ELSE @])
  BY DEF BuildRelease
<1>2. LTypes /\ disk \in Disks /\ DataInv
  BY DEF LInv, LTypes
<1>3. Still /\ proc' = Advanced /\ ~Free /\ Place(proc.script, proc.i, "build")
  BY <1>1, <1>2, Did
<1>4. OpInv /\ Fits(proc.script, proc.i) /\ disk.tx.id # 1
  BY <1>3, AtWork
<1>5. disk' = [disk EXCEPT !.releases[tx.target] = IF @ = NoRelease THEN MadeBy(tx.id) ELSE @]
  BY <1>1, <1>2, Did
<1>6. /\ disk' \in Disks /\ Same(disk, disk', {"releases"})
      /\ disk.releases[disk.tx.target] = NoRelease \/ Whole(disk.releases[disk.tx.target])
           => Whole(disk'.releases[disk.tx.target])
  <2>1. disk.tx.target \in Versions
    BY <1>3, <1>4 DEF Place, Fits, OpInv, InstallFits, InstallInv
  <2>2. PICK r \in Releases : r = IF disk.releases[disk.tx.target] = NoRelease THEN MadeBy(disk.tx.id)
                                 ELSE disk.releases[disk.tx.target]
    BY <1>2, <2>1 DEF Disks, Txs, Releases, MadeBy
  <2>3. disk' = [disk EXCEPT !.releases[disk.tx.target] = r]
    BY <1>5, <2>2 DEF tx
  <2>4. disk' \in Disks /\ Same(disk, disk', {"releases"}) /\ disk'.releases[disk.tx.target] = r
    BY <1>2, <2>1, <2>3, SetsRelease
  <2>5. disk.tx.id # 0
    BY <1>2 DEF LTypes
  <2>6. Whole(MadeBy(disk.tx.id))
    BY <2>5 DEF Whole, MadeBy
  <2> QED
    BY <2>2, <2>4, <2>6
<1>7. DataInv'
  BY <1>2, <1>3, <1>6 DEF DataInv, Same, Fields, Still
<1>8. ASSUME proc.script = "install", proc.i = 1
      PROVE  OpInv' /\ Fits(proc.script, proc.i)'
  <2>1. InstallFits(1) /\ disk.tx.op = "install" /\ InstallInv
    BY <1>4, <1>8 DEF Fits, InstallFits, OpInv
  <2>2. proc'.script = "install" /\ proc'.i = 2
    BY <1>2, <1>3, <1>8, Moved, Lengths
  <2>3. disk'.tx.op = "install" /\ InstallInv' /\ InstallFits(2)'
    BY <1>3, <1>6, <2>1 DEF Same, Fields, Still, InstallInv, SameUnit, MarkedWell, Marked, Done,
           InstallFits, Terminal
  <2> QED
    BY <2>2, <2>3 DEF OpInv, Fits
<1>9. OpInv' /\ Fits(proc.script, proc.i)'
  BY <1>3, <1>4, <1>8 DEF Place
<1>10. /\ disk' \in Disks /\ disk'.tx.id = disk.tx.id /\ disk'.tx.backup \in {0, disk.tx.id}
       /\ \A b \in disk'.store : b \in disk.store \/ b.by = disk.tx.id
  BY <1>2, <1>6 DEF Same, Fields, LTypes
<1> QED
  BY <1>3, <1>4, <1>7, <1>9, <1>10, Landed

LEMMA ClearReleaseKeeps ==
  ASSUME LInv, ClearRelease
  PROVE  LInv'
<1>1. Do("clear_release", [disk EXCEPT !.replaced = IF disk.releases[Rebuilds] = NoRelease THEN @ ELSE disk.releases[Rebuilds],
                 !.releases[Rebuilds] = NoRelease])
  BY DEF ClearRelease
<1>2. LTypes /\ disk \in Disks /\ DataInv
  BY DEF LInv, LTypes
<1>3. Still /\ proc' = Advanced /\ ~Free /\ Place(proc.script, proc.i, "clear_release")
  BY <1>1, <1>2, Did
<1>4. OpInv /\ Fits(proc.script, proc.i) /\ disk.tx.id # 1
  BY <1>3, AtWork
<1>5. disk' = [disk EXCEPT !.replaced = IF disk.releases[Rebuilds] = NoRelease THEN @ ELSE disk.releases[Rebuilds],
                 !.releases[Rebuilds] = NoRelease]
  BY <1>1, <1>2, Did
<1>6. /\ disk' \in Disks /\ Same(disk, disk', {"releases", "replaced"})
      /\ disk'.releases[Rebuilds] = NoRelease /\ \A w \in Versions \ {Rebuilds} : disk'.releases[w] = disk.releases[w]
      /\ disk.releases[Rebuilds] # NoRelease => disk'.replaced = disk.releases[Rebuilds]
      /\ disk.releases[Rebuilds] = NoRelease => disk'.replaced = disk.replaced
  <2>1. Rebuilds \in Versions
    BY <1>3, <1>4 DEF Place, Fits, OpInv, RestoreFits, RestoreInv, RollbackSwitchFits, BinaryInv, LoadedBefore, Rebuilds, tx
  <2>2. PICK v \in Versions : v = Rebuilds
    BY <2>1
  <2>3. PICK r \in Releases : r = IF disk.releases[v] = NoRelease THEN disk.replaced ELSE disk.releases[v]
    BY <1>2 DEF Disks
  <2>4. PICK x \in [Versions -> Releases] : x = [disk.releases EXCEPT ![v] = NoRelease]
    <3>1. NoRelease \in Releases
      BY LifecycleAssumption DEF NoRelease, Releases, Stamps
    <3> QED
      BY <1>2, <3>1 DEF Disks
  <2>5. x[v] = NoRelease /\ \A w \in Versions \ {v} : x[w] = disk.releases[w]
    BY <1>2, <2>4 DEF Disks
  <2>6. disk' = [disk EXCEPT !.replaced = r, !.releases = x]
    BY <1>5, <2>2, <2>3, <2>4
  <2>7. disk' \in Disks /\ Same(disk, disk', {"releases", "replaced"}) /\ disk'.replaced = r /\ disk'.releases = x
    BY <1>2, <2>6 DEF Disks, Same, Fields
  <2> QED
    BY <2>2, <2>3, <2>5, <2>7
<1>7. DataInv'
  BY <1>2, <1>3, <1>6 DEF DataInv, Same, Fields, Still
<1>8. ASSUME proc.script = "restore", proc.i = 10
      PROVE  OpInv' /\ Fits(proc.script, proc.i)'
  <2>1. RestoreFits(10) /\ disk.tx.op = "restore" /\ RestoreInv
    BY <1>4, <1>8 DEF Fits, RestoreFits, OpInv
  <2>2. proc'.script = "restore" /\ proc'.i = 11
    BY <1>2, <1>3, <1>8, Moved, Lengths
  <2>3. disk'.tx.op = "restore" /\ RestoreInv' /\ RestoreFits(11)'
    BY <1>3, <1>6, <1>8, <2>1 DEF Same, Fields, Still, RestoreInv, LoadedBefore, MarkedWell,
           Marked, Early, EarlyPhases, LatePhases, OldInPlace, SameUnit, Back, OldSaved, Stands,
           RestoreFits, Bare, AsideDone, Rebuilds, tx
  <2> QED
    BY <2>2, <2>3 DEF OpInv, Fits
<1>9. ASSUME proc.script = "rollback_switch", proc.i = 5
      PROVE  OpInv' /\ Fits(proc.script, proc.i)'
  <2>1. RollbackSwitchFits(5) /\ disk.tx.op = "repair_binary" /\ BinaryInv
    BY <1>4, <1>9 DEF Fits, RollbackSwitchFits, OpInv
  <2>2. proc'.script = "rollback_switch" /\ proc'.i = 6
    BY <1>2, <1>3, <1>9, Moved, Lengths
  <2>3. disk'.tx.op = "repair_binary" /\ BinaryInv' /\ RollbackSwitchFits(6)'
    BY <1>3, <1>6, <1>9, <2>1 DEF Same, Fields, Still, BinaryInv, LoadedBefore, Marked, Back, Early, EarlyPhases,
           RollbackSwitchFits, LatePhases, AsideDone, Stored, Rebuilds, tx
  <2> QED
    BY <2>2, <2>3 DEF OpInv, Fits
<1>10. OpInv' /\ Fits(proc.script, proc.i)'
  BY <1>3, <1>4, <1>8, <1>9 DEF Place
<1>11. /\ disk' \in Disks /\ disk'.tx.id = disk.tx.id /\ disk'.tx.backup \in {0, disk.tx.id}
       /\ \A b \in disk'.store : b \in disk.store \/ b.by = disk.tx.id
  BY <1>2, <1>6 DEF Same, Fields, LTypes
<1> QED
  BY <1>3, <1>4, <1>7, <1>10, <1>11, Landed

LEMMA CopyReleaseKeeps ==
  ASSUME LInv, CopyRelease
  PROVE  LInv'
<1>1. Do("copy_release", [disk EXCEPT !.releases[Rebuilds] = Unpacked])
  BY DEF CopyRelease
<1>2. LTypes /\ disk \in Disks /\ DataInv
  BY DEF LInv, LTypes
<1>3. Still /\ proc' = Advanced /\ ~Free /\ Place(proc.script, proc.i, "copy_release")
  BY <1>1, <1>2, Did
<1>4. OpInv /\ Fits(proc.script, proc.i) /\ disk.tx.id # 1
  BY <1>3, AtWork
<1>5. disk' = [disk EXCEPT !.releases[Rebuilds] = Unpacked]
  BY <1>1, <1>2, Did
<1>6. /\ disk' \in Disks /\ Same(disk, disk', {"releases"})
      /\ disk'.releases[Rebuilds] = Unpacked /\ \A w \in Versions \ {Rebuilds} : disk'.releases[w] = disk.releases[w]
  <2>1. Rebuilds \in Versions
    BY <1>3, <1>4 DEF Place, Fits, OpInv, RestoreFits, RestoreInv, RollbackSwitchFits, BinaryInv, LoadedBefore, Rebuilds, tx
  <2>2. Unpacked \in Releases
    <3>1. CASE proc.script = "restore"
      BY <1>2, <3>1 DEF Unpacked, MadeBy, Releases, Disks, Txs, tx
    <3>2. CASE proc.script = "rollback_switch"
      <4>1. Stored(disk.tx.backup)
        BY <1>3, <1>4, <3>2 DEF Place, Fits, RollbackSwitchFits
      <4>2. PICK k : k = CHOOSE b \in disk.store : b.by = disk.tx.backup
        OBVIOUS
      <4>3. k \in disk.store
        BY <4>1, <4>2 DEF Stored
      <4> QED
        BY <1>2, <3>2, <4>2, <4>3 DEF Unpacked, Disks, Lkbs, tx
    <3> QED
      BY <1>3, <3>1, <3>2 DEF Place
  <2> QED
    BY <1>2, <1>5, <2>1, <2>2, SetsRelease
<1>7. DataInv'
  BY <1>2, <1>3, <1>6 DEF DataInv, Same, Fields, Still
<1>8. ASSUME proc.script = "restore", proc.i = 11
      PROVE  OpInv' /\ Fits(proc.script, proc.i)'
  <2>1. RestoreFits(11) /\ disk.tx.op = "restore" /\ RestoreInv
    BY <1>4, <1>8 DEF Fits, RestoreFits, OpInv
  <2>2. proc'.script = "restore" /\ proc'.i = 12
    BY <1>2, <1>3, <1>8, Moved, Lengths
  <2>3. disk'.tx.op = "restore" /\ RestoreInv' /\ RestoreFits(12)'
    BY <1>3, <1>6, <1>8, <2>1 DEF Same, Fields, Still, RestoreInv, LoadedBefore, MarkedWell,
           Marked, Early, EarlyPhases, LatePhases, OldInPlace, SameUnit, Back, OldSaved, Stands,
           RestoreFits, Bare, AsideDone, Rebuilds, Unpacked, tx
  <2> QED
    BY <2>2, <2>3 DEF OpInv, Fits
<1>9. ASSUME proc.script = "rollback_switch", proc.i = 6
      PROVE  OpInv' /\ Fits(proc.script, proc.i)'
  <2>1. RollbackSwitchFits(6) /\ disk.tx.op = "repair_binary" /\ BinaryInv
    BY <1>4, <1>9 DEF Fits, RollbackSwitchFits, OpInv
  <2>2. proc'.script = "rollback_switch" /\ proc'.i = 7
    BY <1>2, <1>3, <1>9, Moved, Lengths
  <2>5. Unpacked = before.releases[before.state]
    <3>1. Stored(disk.tx.backup) /\ disk.tx.backup \in {0, disk.tx.id} /\ disk.tx.backup # 0
      BY <1>2, <2>1 DEF LTypes, RollbackSwitchFits, BinaryInv, LatePhases, Early
    <3>2. PICK k : k = CHOOSE b \in disk.store : b.by = disk.tx.backup
      OBVIOUS
    <3>3. k \in disk.store /\ k.by = disk.tx.id
      BY <3>1, <3>2 DEF Stored
    <3>4. Unpacked = k.release
      BY <1>9, <3>2 DEF Unpacked, tx
    <3> QED
      BY <2>1, <3>3, <3>4 DEF BinaryInv
  <2>3. disk'.tx.op = "repair_binary" /\ BinaryInv' /\ RollbackSwitchFits(7)'
    BY <1>3, <1>6, <1>9, <2>5, <2>1 DEF Same, Fields, Still, BinaryInv, LoadedBefore, Marked, Back, Early,
           EarlyPhases, RollbackSwitchFits, LatePhases, AsideDone, Stored, Rebuilds, tx
  <2> QED
    BY <2>2, <2>3 DEF OpInv, Fits
<1>10. OpInv' /\ Fits(proc.script, proc.i)'
  BY <1>3, <1>4, <1>8, <1>9 DEF Place
<1>11. /\ disk' \in Disks /\ disk'.tx.id = disk.tx.id /\ disk'.tx.backup \in {0, disk.tx.id}
       /\ \A b \in disk'.store : b \in disk.store \/ b.by = disk.tx.id
  BY <1>2, <1>6 DEF Same, Fields, LTypes
<1> QED
  BY <1>3, <1>4, <1>7, <1>10, <1>11, Landed

LEMMA ReleaseRemovedKeeps ==
  ASSUME LInv, ReleaseRemoved
  PROVE  LInv'
<1>1. Do("release_rm", (IF SameVersion THEN [disk EXCEPT !.releases[tx.target] = NoRelease] ELSE disk))
  BY DEF ReleaseRemoved
<1>2. LTypes /\ disk \in Disks /\ DataInv
  BY DEF LInv, LTypes
<1>3. Still /\ proc' = Advanced /\ ~Free /\ Place(proc.script, proc.i, "release_rm")
  BY <1>1, <1>2, Did
<1>4. OpInv /\ Fits(proc.script, proc.i) /\ disk.tx.id # 1
  BY <1>3, AtWork
<1>5. disk' = (IF SameVersion THEN [disk EXCEPT !.releases[tx.target] = NoRelease] ELSE disk)
  BY <1>1, <1>2, Did
<1>6. /\ disk' \in Disks /\ Same(disk, disk', {"releases"})
      /\ \A w \in Versions \ {disk.tx.target} : disk'.releases[w] = disk.releases[w]
      /\ SameVersion \/ disk'.releases = disk.releases
  <2>1. disk.tx.target \in Versions
    BY <1>3, <1>4 DEF Place, Fits, OpInv, RollbackRestoreFits, RestoreInv
  <2>2. NoRelease \in Releases
    BY LifecycleAssumption DEF NoRelease, Releases, Stamps
  <2>3. CASE SameVersion
    <3>1. disk' = [disk EXCEPT !.releases[disk.tx.target] = NoRelease]
      BY <1>5, <2>3 DEF tx
    <3> QED
      BY <1>2, <2>1, <2>2, <2>3, <3>1, SetsRelease
  <2>4. CASE ~SameVersion
    <3>1. disk' = disk
      BY <1>5, <2>4
    <3> QED
      BY <1>2, <3>1 DEF Same
  <2> QED
    BY <2>3, <2>4
<1>7. DataInv'
  BY <1>2, <1>3, <1>6 DEF DataInv, Same, Fields, Still
<1>8. ASSUME proc.script = "rollback_restore", proc.i = 4
      PROVE  OpInv' /\ Fits(proc.script, proc.i)'
  <2>1. RollbackRestoreFits(4) /\ disk.tx.op = "restore" /\ RestoreInv
    BY <1>4, <1>8 DEF Fits, RollbackRestoreFits, OpInv
  <2>2. proc'.script = "rollback_restore" /\ proc'.i = 5
    BY <1>2, <1>3, <1>8, Moved, Lengths
  <2>3. disk'.tx.op = "restore" /\ RestoreInv' /\ RollbackRestoreFits(5)'
    BY <1>3, <1>6, <2>1 DEF Same, Fields, Still, RestoreInv, LoadedBefore, MarkedWell, Marked,
           Early, EarlyPhases, LatePhases, OldInPlace, SameUnit, Back, OldSaved, Stands,
           RollbackRestoreFits, SameVersion, tx
  <2> QED
    BY <2>2, <2>3 DEF OpInv, Fits
<1>9. OpInv' /\ Fits(proc.script, proc.i)'
  BY <1>3, <1>4, <1>8 DEF Place
<1>10. /\ disk' \in Disks /\ disk'.tx.id = disk.tx.id /\ disk'.tx.backup \in {0, disk.tx.id}
       /\ \A b \in disk'.store : b \in disk.store \/ b.by = disk.tx.id
  BY <1>2, <1>6 DEF Same, Fields, LTypes
<1> QED
  BY <1>3, <1>4, <1>7, <1>9, <1>10, Landed

LEMMA ReleaseBackKeeps ==
  ASSUME LInv, ReleaseBack
  PROVE  LInv'
<1>1. Do("release_mv", (IF SameVersion
          THEN [disk EXCEPT !.releases[tx.target] = disk.replaced, !.replaced = NoRelease] ELSE disk))
  BY DEF ReleaseBack
<1>2. LTypes /\ disk \in Disks /\ DataInv
  BY DEF LInv, LTypes
<1>3. Still /\ proc' = Advanced /\ ~Free /\ Place(proc.script, proc.i, "release_mv")
  BY <1>1, <1>2, Did
<1>4. OpInv /\ Fits(proc.script, proc.i) /\ disk.tx.id # 1
  BY <1>3, AtWork
<1>5. disk' = (IF SameVersion
          THEN [disk EXCEPT !.releases[tx.target] = disk.replaced, !.replaced = NoRelease] ELSE disk)
  BY <1>1, <1>2, Did
<1>6. /\ disk' \in Disks /\ Same(disk, disk', {"releases", "replaced"})
      /\ \A w \in Versions \ {disk.tx.target} : disk'.releases[w] = disk.releases[w]
      /\ SameVersion => disk'.releases[disk.tx.target] = disk.replaced /\ disk'.replaced = NoRelease
      /\ ~SameVersion => disk'.releases = disk.releases /\ disk'.replaced = disk.replaced
  <2>1. disk.tx.target \in Versions
    BY <1>3, <1>4 DEF Place, Fits, OpInv, RollbackRestoreFits, RestoreInv
  <2>2. NoRelease \in Releases
    BY LifecycleAssumption DEF NoRelease, Releases, Stamps
  <2>3. CASE SameVersion
    <3>1. PICK x \in [Versions -> Releases] : x = [disk.releases EXCEPT ![disk.tx.target] = disk.replaced]
      BY <1>2 DEF Disks
    <3>2. disk' = [disk EXCEPT !.releases = x, !.replaced = NoRelease]
      BY <1>5, <2>3, <3>1 DEF tx
    <3>3. x[disk.tx.target] = disk.replaced /\ \A w \in Versions \ {disk.tx.target} : x[w] = disk.releases[w]
      BY <1>2, <2>1, <3>1 DEF Disks
    <3>4. /\ disk' \in Disks /\ Same(disk, disk', {"releases", "replaced"})
          /\ disk'.releases = x /\ disk'.replaced = NoRelease
      BY <1>2, <2>2, <3>2 DEF Disks, Same, Fields
    <3> QED
      BY <2>3, <3>3, <3>4
  <2>4. CASE ~SameVersion
    <3>1. disk' = disk
      BY <1>5, <2>4
    <3> QED
      BY <1>2, <2>4, <3>1 DEF Same
  <2> QED
    BY <2>3, <2>4
<1>7. DataInv'
  BY <1>2, <1>3, <1>6 DEF DataInv, Same, Fields, Still
<1>8. ASSUME proc.script = "rollback_restore", proc.i = 5
      PROVE  OpInv' /\ Fits(proc.script, proc.i)'
  <2>1. RollbackRestoreFits(5) /\ disk.tx.op = "restore" /\ RestoreInv
    BY <1>4, <1>8 DEF Fits, RollbackRestoreFits, OpInv
  <2>2. proc'.script = "rollback_restore" /\ proc'.i = 6
    BY <1>2, <1>3, <1>8, Moved, Lengths
  <2>3. disk'.tx.op = "restore" /\ RestoreInv' /\ RollbackRestoreFits(6)'
    BY <1>3, <1>6, <2>1 DEF Same, Fields, Still, RestoreInv, LoadedBefore, MarkedWell, Marked,
           Early, EarlyPhases, LatePhases, OldInPlace, SameUnit, Back, OldSaved, Stands,
           RollbackRestoreFits, SameVersion, tx
  <2> QED
    BY <2>2, <2>3 DEF OpInv, Fits
<1>9. OpInv' /\ Fits(proc.script, proc.i)'
  BY <1>3, <1>4, <1>8 DEF Place
<1>10. /\ disk' \in Disks /\ disk'.tx.id = disk.tx.id /\ disk'.tx.backup \in {0, disk.tx.id}
       /\ \A b \in disk'.store : b \in disk.store \/ b.by = disk.tx.id
  BY <1>2, <1>6 DEF Same, Fields, LTypes
<1> QED
  BY <1>3, <1>4, <1>7, <1>9, <1>10, Landed

LEMMA RemoveTargetKeeps ==
  ASSUME LInv, RemoveTarget
  PROVE  LInv'
<1>1. Do("rm_target", [disk EXCEPT !.releases[tx.target] = NoRelease])
  BY DEF RemoveTarget
<1>2. LTypes /\ disk \in Disks /\ DataInv
  BY DEF LInv, LTypes
<1>3. Still /\ proc' = Advanced /\ ~Free /\ Place(proc.script, proc.i, "rm_target")
  BY <1>1, <1>2, Did
<1>4. OpInv /\ Fits(proc.script, proc.i) /\ disk.tx.id # 1
  BY <1>3, AtWork
<1>5. disk' = [disk EXCEPT !.releases[tx.target] = NoRelease]
  BY <1>1, <1>2, Did
<1>6. /\ disk' \in Disks /\ Same(disk, disk', {"releases"}) /\ disk'.releases[disk.tx.target] = NoRelease
  <2>1. disk.tx.target \in Versions
    BY <1>3, <1>4 DEF Place, Fits, OpInv, CleanupFits, InstallInv
  <2>2. NoRelease \in Releases
    BY LifecycleAssumption DEF NoRelease, Releases, Stamps
  <2> QED
    BY <1>2, <1>5, <2>1, <2>2, SetsRelease DEF tx
<1>7. DataInv'
  BY <1>2, <1>3, <1>6 DEF DataInv, Same, Fields, Still
<1>8. ASSUME proc.script = "cleanup", proc.i = 2
      PROVE  OpInv' /\ Fits(proc.script, proc.i)'
  <2>1. CleanupFits(2) /\ disk.tx.op = "install" /\ InstallInv
    BY <1>4, <1>8 DEF Fits, CleanupFits, OpInv
  <2>2. proc'.script = "cleanup" /\ proc'.i = 3
    BY <1>2, <1>3, <1>8, Moved, Lengths
  <2>3. disk'.tx.op = "install" /\ InstallInv' /\ CleanupFits(3)'
    BY <1>3, <1>6, <2>1 DEF Same, Fields, Still, InstallInv, SameUnit, MarkedWell, Marked, Done,
           CleanupFits, Terminal
  <2> QED
    BY <2>2, <2>3 DEF OpInv, Fits
<1>9. OpInv' /\ Fits(proc.script, proc.i)'
  BY <1>3, <1>4, <1>8 DEF Place
<1>10. /\ disk' \in Disks /\ disk'.tx.id = disk.tx.id /\ disk'.tx.backup \in {0, disk.tx.id}
       /\ \A b \in disk'.store : b \in disk.store \/ b.by = disk.tx.id
  BY <1>2, <1>6 DEF Same, Fields, LTypes
<1> QED
  BY <1>3, <1>4, <1>7, <1>9, <1>10, Landed

LEMMA RemoveReleasesKeeps ==
  ASSUME LInv, RemoveReleases
  PROVE  LInv'
<1>1. Do("rm_releases", [disk EXCEPT !.releases = [v \in Versions |-> NoRelease]])
  BY DEF RemoveReleases
<1>2. LTypes /\ disk \in Disks /\ DataInv
  BY DEF LInv, LTypes
<1>3. Still /\ proc' = Advanced /\ ~Free /\ Place(proc.script, proc.i, "rm_releases")
  BY <1>1, <1>2, Did
<1>4. OpInv /\ Fits(proc.script, proc.i) /\ disk.tx.id # 1
  BY <1>3, AtWork
<1>5. disk' = [disk EXCEPT !.releases = [v \in Versions |-> NoRelease]]
  BY <1>1, <1>2, Did
<1>6. /\ disk' \in Disks /\ Same(disk, disk', {"releases"}) /\ \A v \in Versions : disk'.releases[v] = NoRelease
  <2>1. NoRelease \in Releases
    BY LifecycleAssumption DEF NoRelease, Releases, Stamps
  <2>2. PICK x \in [Versions -> Releases] : x = [v \in Versions |-> NoRelease]
    BY <2>1
  <2>3. disk' = [disk EXCEPT !.releases = x] /\ \A v \in Versions : x[v] = NoRelease
    BY <1>5, <2>2
  <2> QED
    BY <1>2, <2>3, SetsReleases
<1>7. DataInv'
  BY <1>2, <1>3, <1>6 DEF DataInv, Same, Fields, Still
<1>8. ASSUME proc.script = "uninstall", proc.i = 7
      PROVE  OpInv' /\ Fits(proc.script, proc.i)'
  <2>1. UninstallFits(7) /\ disk.tx.op = "uninstall" /\ UninstallInv
    BY <1>4, <1>8 DEF Fits, UninstallFits, OpInv
  <2>2. proc'.script = "uninstall" /\ proc'.i = 8
    BY <1>2, <1>3, <1>8, Moved, Lengths
  <2>3. disk'.tx.op = "uninstall" /\ UninstallInv' /\ UninstallFits(8)'
    BY <1>3, <1>6, <2>1 DEF Same, Fields, Still, UninstallInv, LoadedBefore, OldInPlace, SameUnit, Back, Early, Protection, Gone,
           UninstallFits, Terminal, Bare
  <2> QED
    BY <2>2, <2>3 DEF OpInv, Fits
<1>9. ASSUME proc.script = "complete", proc.i = 3
      PROVE  OpInv' /\ Fits(proc.script, proc.i)'
  <2>1. CompleteFits(3) /\ disk.tx.op = "uninstall" /\ UninstallInv
    BY <1>4, <1>9 DEF Fits, CompleteFits, OpInv
  <2>2. proc'.script = "complete" /\ proc'.i = 4
    BY <1>2, <1>3, <1>9, Moved, Lengths
  <2>3. disk'.tx.op = "uninstall" /\ UninstallInv' /\ CompleteFits(4)'
    BY <1>3, <1>6, <2>1 DEF Same, Fields, Still, UninstallInv, LoadedBefore, OldInPlace, SameUnit, Back, Early, Protection, Gone,
           CompleteFits, Terminal
  <2> QED
    BY <2>2, <2>3 DEF OpInv, Fits
<1>10. OpInv' /\ Fits(proc.script, proc.i)'
  BY <1>3, <1>4, <1>8, <1>9 DEF Place
<1>11. /\ disk' \in Disks /\ disk'.tx.id = disk.tx.id /\ disk'.tx.backup \in {0, disk.tx.id}
       /\ \A b \in disk'.store : b \in disk.store \/ b.by = disk.tx.id
  BY <1>2, <1>6 DEF Same, Fields, LTypes
<1> QED
  BY <1>3, <1>4, <1>7, <1>10, <1>11, Landed

LEMMA LinkKeeps ==
  ASSUME LInv, Link
  PROVE  LInv'
<1>1. Do("link", [disk EXCEPT !.current = tx.target])
  BY DEF Link
<1>2. LTypes /\ disk \in Disks /\ DataInv
  BY DEF LInv, LTypes
<1>3. Still /\ proc' = Advanced /\ ~Free /\ Place(proc.script, proc.i, "link")
  BY <1>1, <1>2, Did
<1>4. OpInv /\ Fits(proc.script, proc.i) /\ disk.tx.id # 1
  BY <1>3, AtWork
<1>5. disk' = [disk EXCEPT !.current = tx.target]
  BY <1>1, <1>2, Did
<1>6. disk' \in Disks /\ Same(disk, disk', {"current"}) /\ disk'.current = disk.tx.target
  <2>1. PICK x \in Some : x = disk.tx.target
    BY <1>2 DEF Disks, Txs, Some
  <2>2. disk' = [disk EXCEPT !.current = x]
    BY <1>5, <2>1 DEF tx
  <2> QED
    BY <1>2, <2>1, <2>2, SetsCurrent
<1>7. DataInv'
  BY <1>2, <1>3, <1>6 DEF DataInv, Same, Fields, Still
<1>8. ASSUME proc.script = "install", proc.i = 6
      PROVE  OpInv' /\ Fits(proc.script, proc.i)'
  <2>1. InstallFits(6) /\ disk.tx.op = "install" /\ InstallInv
    BY <1>4, <1>8 DEF Fits, InstallFits, OpInv
  <2>2. proc'.script = "install" /\ proc'.i = 7
    BY <1>2, <1>3, <1>8, Moved, Lengths
  <2>3. disk'.tx.op = "install" /\ InstallInv' /\ InstallFits(7)'
    BY <1>3, <1>6, <2>1 DEF Same, Fields, Still, InstallInv, SameUnit, MarkedWell, Marked, Done,
           InstallFits, Terminal
  <2> QED
    BY <2>2, <2>3 DEF OpInv, Fits
<1>9. ASSUME proc.script = "restore", proc.i = 13
      PROVE  OpInv' /\ Fits(proc.script, proc.i)'
  <2>1. RestoreFits(13) /\ disk.tx.op = "restore" /\ RestoreInv
    BY <1>4, <1>9 DEF Fits, RestoreFits, OpInv
  <2>2. proc'.script = "restore" /\ proc'.i = 14
    BY <1>2, <1>3, <1>9, Moved, Lengths
  <2>3. disk'.tx.op = "restore" /\ RestoreInv' /\ RestoreFits(14)'
    BY <1>3, <1>6, <2>1 DEF Same, Fields, Still, RestoreInv, LoadedBefore, MarkedWell, Marked,
           Early, EarlyPhases, LatePhases, OldInPlace, SameUnit, Back, OldSaved, Stands,
           RestoreFits, Bare, AsideDone
  <2> QED
    BY <2>2, <2>3 DEF OpInv, Fits
<1>10. OpInv' /\ Fits(proc.script, proc.i)'
  BY <1>3, <1>4, <1>8, <1>9 DEF Place
<1>11. /\ disk' \in Disks /\ disk'.tx.id = disk.tx.id /\ disk'.tx.backup \in {0, disk.tx.id}
       /\ \A b \in disk'.store : b \in disk.store \/ b.by = disk.tx.id
  BY <1>2, <1>6 DEF Same, Fields, LTypes
<1> QED
  BY <1>3, <1>4, <1>7, <1>10, <1>11, Landed

LEMMA LinkBackKeeps ==
  ASSUME LInv, LinkBack
  PROVE  LInv'
<1>1. Do("link_back", [disk EXCEPT !.current = tx.from])
  BY DEF LinkBack
<1>2. LTypes /\ disk \in Disks /\ DataInv
  BY DEF LInv, LTypes
<1>3. Still /\ proc' = Advanced /\ ~Free /\ Place(proc.script, proc.i, "link_back")
  BY <1>1, <1>2, Did
<1>4. OpInv /\ Fits(proc.script, proc.i) /\ disk.tx.id # 1
  BY <1>3, AtWork
<1>5. disk' = [disk EXCEPT !.current = tx.from]
  BY <1>1, <1>2, Did
<1>6. disk' \in Disks /\ Same(disk, disk', {"current"}) /\ disk'.current = disk.tx.from
  <2>1. PICK x \in Some : x = disk.tx.from
    BY <1>2 DEF Disks, Txs, Some
  <2>2. disk' = [disk EXCEPT !.current = x]
    BY <1>5, <2>1 DEF tx
  <2> QED
    BY <1>2, <2>1, <2>2, SetsCurrent
<1>7. DataInv'
  BY <1>2, <1>3, <1>6 DEF DataInv, Same, Fields, Still
<1>8. ASSUME proc.script = "rollback_restore", proc.i = 6
      PROVE  OpInv' /\ Fits(proc.script, proc.i)'
  <2>1. RollbackRestoreFits(6) /\ disk.tx.op = "restore" /\ RestoreInv
    BY <1>4, <1>8 DEF Fits, RollbackRestoreFits, OpInv
  <2>2. proc'.script = "rollback_restore" /\ proc'.i = 7
    BY <1>2, <1>3, <1>8, Moved, Lengths
  <2>3. disk'.tx.op = "restore" /\ RestoreInv' /\ RollbackRestoreFits(7)'
    BY <1>3, <1>6, <2>1 DEF Same, Fields, Still, RestoreInv, LoadedBefore, MarkedWell, Marked,
           Early, EarlyPhases, LatePhases, OldInPlace, SameUnit, Back, OldSaved, Stands,
           RollbackRestoreFits
  <2> QED
    BY <2>2, <2>3 DEF OpInv, Fits
<1>9. ASSUME proc.script = "rollback_switch", proc.i = 8
      PROVE  OpInv' /\ Fits(proc.script, proc.i)'
  <2>1. RollbackSwitchFits(8) /\ disk.tx.op = "repair_binary" /\ BinaryInv
    BY <1>4, <1>9 DEF Fits, RollbackSwitchFits, OpInv
  <2>2. proc'.script = "rollback_switch" /\ proc'.i = 9
    BY <1>2, <1>3, <1>9, Moved, Lengths
  <2>3. disk'.tx.op = "repair_binary" /\ BinaryInv' /\ RollbackSwitchFits(9)'
    BY <1>3, <1>6, <2>1 DEF Same, Fields, Still, BinaryInv, LoadedBefore, Marked, Back, Early, EarlyPhases,
           RollbackSwitchFits, LatePhases, AsideDone, Stored
  <2> QED
    BY <2>2, <2>3 DEF OpInv, Fits
<1>10. OpInv' /\ Fits(proc.script, proc.i)'
  BY <1>3, <1>4, <1>8, <1>9 DEF Place
<1>11. /\ disk' \in Disks /\ disk'.tx.id = disk.tx.id /\ disk'.tx.backup \in {0, disk.tx.id}
       /\ \A b \in disk'.store : b \in disk.store \/ b.by = disk.tx.id
  BY <1>2, <1>6 DEF Same, Fields, LTypes
<1> QED
  BY <1>3, <1>4, <1>7, <1>10, <1>11, Landed

LEMMA RemoveLinkKeeps ==
  ASSUME LInv, RemoveLink
  PROVE  LInv'
<1>1. Do("rm_link", [disk EXCEPT !.current = IF @ = tx.target THEN 0 ELSE @])
  BY DEF RemoveLink
<1>2. LTypes /\ disk \in Disks /\ DataInv
  BY DEF LInv, LTypes
<1>3. Still /\ proc' = Advanced /\ ~Free /\ Place(proc.script, proc.i, "rm_link")
  BY <1>1, <1>2, Did
<1>4. OpInv /\ Fits(proc.script, proc.i) /\ disk.tx.id # 1
  BY <1>3, AtWork
<1>5. disk' = [disk EXCEPT !.current = IF @ = tx.target THEN 0 ELSE @]
  BY <1>1, <1>2, Did
<1>6. disk' \in Disks /\ Same(disk, disk', {"current"}) /\ disk'.current = IF disk.current = disk.tx.target THEN 0 ELSE disk.current
  <2>1. PICK x \in Some : x = IF disk.current = disk.tx.target THEN 0 ELSE disk.current
    BY <1>2 DEF Disks, Txs, Some
  <2>2. disk' = [disk EXCEPT !.current = x]
    BY <1>5, <2>1 DEF tx
  <2> QED
    BY <1>2, <2>1, <2>2, SetsCurrent
<1>7. DataInv'
  BY <1>2, <1>3, <1>6 DEF DataInv, Same, Fields, Still
<1>8. ASSUME proc.script = "cleanup", proc.i = 3
      PROVE  OpInv' /\ Fits(proc.script, proc.i)'
  <2>1. CleanupFits(3) /\ disk.tx.op = "install" /\ InstallInv
    BY <1>4, <1>8 DEF Fits, CleanupFits, OpInv
  <2>2. proc'.script = "cleanup" /\ proc'.i = 4
    BY <1>2, <1>3, <1>8, Moved, Lengths
  <2>3. disk'.tx.op = "install" /\ InstallInv' /\ CleanupFits(4)'
    BY <1>3, <1>6, <2>1 DEF Same, Fields, Still, InstallInv, SameUnit, MarkedWell, Marked, Done,
           CleanupFits, Terminal
  <2> QED
    BY <2>2, <2>3 DEF OpInv, Fits
<1>9. OpInv' /\ Fits(proc.script, proc.i)'
  BY <1>3, <1>4, <1>8 DEF Place
<1>10. /\ disk' \in Disks /\ disk'.tx.id = disk.tx.id /\ disk'.tx.backup \in {0, disk.tx.id}
       /\ \A b \in disk'.store : b \in disk.store \/ b.by = disk.tx.id
  BY <1>2, <1>6 DEF Same, Fields, LTypes
<1> QED
  BY <1>3, <1>4, <1>7, <1>9, <1>10, Landed

LEMMA RemoveCurrentKeeps ==
  ASSUME LInv, RemoveCurrent
  PROVE  LInv'
<1>1. Do("rm_current", [disk EXCEPT !.current = 0])
  BY DEF RemoveCurrent
<1>2. LTypes /\ disk \in Disks /\ DataInv
  BY DEF LInv, LTypes
<1>3. Still /\ proc' = Advanced /\ ~Free /\ Place(proc.script, proc.i, "rm_current")
  BY <1>1, <1>2, Did
<1>4. OpInv /\ Fits(proc.script, proc.i) /\ disk.tx.id # 1
  BY <1>3, AtWork
<1>5. disk' = [disk EXCEPT !.current = 0]
  BY <1>1, <1>2, Did
<1>6. disk' \in Disks /\ Same(disk, disk', {"current"}) /\ disk'.current = 0
  <2>1. PICK x \in Some : x = 0
    BY <1>2 DEF Disks, Txs, Some
  <2>2. disk' = [disk EXCEPT !.current = x]
    BY <1>5, <2>1 DEF tx
  <2> QED
    BY <1>2, <2>1, <2>2, SetsCurrent
<1>7. DataInv'
  BY <1>2, <1>3, <1>6 DEF DataInv, Same, Fields, Still
<1>8. ASSUME proc.script = "uninstall", proc.i = 6
      PROVE  OpInv' /\ Fits(proc.script, proc.i)'
  <2>1. UninstallFits(6) /\ disk.tx.op = "uninstall" /\ UninstallInv
    BY <1>4, <1>8 DEF Fits, UninstallFits, OpInv
  <2>2. proc'.script = "uninstall" /\ proc'.i = 7
    BY <1>2, <1>3, <1>8, Moved, Lengths
  <2>3. disk'.tx.op = "uninstall" /\ UninstallInv' /\ UninstallFits(7)'
    BY <1>3, <1>6, <2>1 DEF Same, Fields, Still, UninstallInv, LoadedBefore, OldInPlace, SameUnit, Back, Early, Protection, Gone,
           UninstallFits, Terminal, Bare
  <2> QED
    BY <2>2, <2>3 DEF OpInv, Fits
<1>9. ASSUME proc.script = "complete", proc.i = 2
      PROVE  OpInv' /\ Fits(proc.script, proc.i)'
  <2>1. CompleteFits(2) /\ disk.tx.op = "uninstall" /\ UninstallInv
    BY <1>4, <1>9 DEF Fits, CompleteFits, OpInv
  <2>2. proc'.script = "complete" /\ proc'.i = 3
    BY <1>2, <1>3, <1>9, Moved, Lengths
  <2>3. disk'.tx.op = "uninstall" /\ UninstallInv' /\ CompleteFits(3)'
    BY <1>3, <1>6, <2>1 DEF Same, Fields, Still, UninstallInv, LoadedBefore, OldInPlace, SameUnit, Back, Early, Protection, Gone,
           CompleteFits, Terminal
  <2> QED
    BY <2>2, <2>3 DEF OpInv, Fits
<1>10. OpInv' /\ Fits(proc.script, proc.i)'
  BY <1>3, <1>4, <1>8, <1>9 DEF Place
<1>11. /\ disk' \in Disks /\ disk'.tx.id = disk.tx.id /\ disk'.tx.backup \in {0, disk.tx.id}
       /\ \A b \in disk'.store : b \in disk.store \/ b.by = disk.tx.id
  BY <1>2, <1>6 DEF Same, Fields, LTypes
<1> QED
  BY <1>3, <1>4, <1>7, <1>10, <1>11, Landed

-----------------------------------------------------------------------------
(* The steps: data and state file *)

LEMMA WriteInitConfigKeeps ==
  ASSUME LInv, WriteInitConfig
  PROVE  LInv'
<1>1. Do("init", [disk EXCEPT !.data = IF @ = 0 THEN tx.id ELSE @])
  BY DEF WriteInitConfig
<1>2. LTypes /\ disk \in Disks /\ DataInv
  BY DEF LInv, LTypes
<1>3. Still /\ proc' = Advanced /\ ~Free /\ Place(proc.script, proc.i, "init")
  BY <1>1, <1>2, Did
<1>4. OpInv /\ Fits(proc.script, proc.i) /\ disk.tx.id # 1
  BY <1>3, AtWork
<1>5. disk' = [disk EXCEPT !.data = IF @ = 0 THEN tx.id ELSE @]
  BY <1>1, <1>2, Did
<1>6. disk' \in Disks /\ Same(disk, disk', {"data"}) /\ disk'.data = IF disk.data = 0 THEN disk.tx.id ELSE disk.data
  <2>1. PICK x \in Stamps : x = IF disk.data = 0 THEN disk.tx.id ELSE disk.data
    BY <1>2, LifecycleAssumption DEF Disks, Txs, Stamps
  <2>2. disk' = [disk EXCEPT !.data = x]
    BY <1>5, <2>1 DEF tx
  <2> QED
    BY <1>2, <2>1, <2>2, SetsData
<1>7. DataInv'
  BY <1>2, <1>3, <1>6 DEF DataInv, Same, Fields, Still
<1>8. ASSUME proc.script = "install", proc.i = 2
      PROVE  OpInv' /\ Fits(proc.script, proc.i)'
  <2>1. InstallFits(2) /\ disk.tx.op = "install" /\ InstallInv
    BY <1>4, <1>8 DEF Fits, InstallFits, OpInv
  <2>2. proc'.script = "install" /\ proc'.i = 3
    BY <1>2, <1>3, <1>8, Moved, Lengths
  <2>5. disk.tx.id # 0
    BY <1>2 DEF LTypes
  <2>3. disk'.tx.op = "install" /\ InstallInv' /\ InstallFits(3)'
    BY <1>3, <1>6, <2>5, <2>1 DEF Same, Fields, Still, InstallInv, SameUnit, MarkedWell, Marked,
           Done, InstallFits, Terminal
  <2> QED
    BY <2>2, <2>3 DEF OpInv, Fits
<1>9. OpInv' /\ Fits(proc.script, proc.i)'
  BY <1>3, <1>4, <1>8 DEF Place
<1>10. /\ disk' \in Disks /\ disk'.tx.id = disk.tx.id /\ disk'.tx.backup \in {0, disk.tx.id}
       /\ \A b \in disk'.store : b \in disk.store \/ b.by = disk.tx.id
  BY <1>2, <1>6 DEF Same, Fields, LTypes
<1> QED
  BY <1>3, <1>4, <1>7, <1>9, <1>10, Landed

LEMMA MoveDataAsideKeeps ==
  ASSUME LInv, MoveDataAside
  PROVE  LInv'
<1>1. Do("move_aside", [disk EXCEPT !.aside = IF @ = 0 THEN disk.data ELSE @, !.data = Fresh])
  BY DEF MoveDataAside
<1>2. LTypes /\ disk \in Disks /\ DataInv
  BY DEF LInv, LTypes
<1>3. Still /\ proc' = Advanced /\ ~Free /\ Place(proc.script, proc.i, "move_aside")
  BY <1>1, <1>2, Did
<1>4. OpInv /\ Fits(proc.script, proc.i) /\ disk.tx.id # 1
  BY <1>3, AtWork
<1>5. disk' = [disk EXCEPT !.aside = IF @ = 0 THEN disk.data ELSE @, !.data = Fresh]
  BY <1>1, <1>2, Did
<1>6. /\ disk' \in Disks /\ Same(disk, disk', {"aside", "data"})
      /\ disk'.aside = IF disk.aside = 0 THEN disk.data ELSE disk.aside
  <2>1. PICK x \in Stamps : x = IF disk.aside = 0 THEN disk.data ELSE disk.aside
    BY <1>2 DEF Disks
  <2>2. Fresh \in Stamps
    BY LifecycleAssumption DEF Fresh, Stamps
  <2>3. disk' = [disk EXCEPT !.aside = x, !.data = Fresh]
    BY <1>5, <2>1
  <2>4. disk' \in Disks /\ Same(disk, disk', {"aside", "data"}) /\ disk'.aside = x
    BY <1>2, <2>2, <2>3 DEF Disks, Same, Fields
  <2> QED
    BY <2>1, <2>4
<1>7. DataInv'
  BY <1>2, <1>3, <1>6 DEF DataInv, Same, Fields, Still
<1>8. ASSUME proc.script = "restore", proc.i = 9
      PROVE  OpInv' /\ Fits(proc.script, proc.i)'
  <2>1. RestoreFits(9) /\ disk.tx.op = "restore" /\ RestoreInv
    BY <1>4, <1>8 DEF Fits, RestoreFits, OpInv
  <2>2. proc'.script = "restore" /\ proc'.i = 10
    BY <1>2, <1>3, <1>8, Moved, Lengths
  <2>3. disk'.tx.op = "restore" /\ RestoreInv' /\ RestoreFits(10)'
    BY <1>3, <1>6, <1>2, <2>1 DEF Same, Fields, Still, RestoreInv, LoadedBefore, MarkedWell,
           Marked, Early, EarlyPhases, LatePhases, OldInPlace, SameUnit, Back, OldSaved, Stands,
           RestoreFits, Bare, AsideDone, DataInv
  <2> QED
    BY <2>2, <2>3 DEF OpInv, Fits
<1>9. ASSUME proc.script = "rollback_switch", proc.i = 3
      PROVE  OpInv' /\ Fits(proc.script, proc.i)'
  <2>1. RollbackSwitchFits(3) /\ disk.tx.op = "repair_binary" /\ BinaryInv
    BY <1>4, <1>9 DEF Fits, RollbackSwitchFits, OpInv
  <2>2. proc'.script = "rollback_switch" /\ proc'.i = 4
    BY <1>2, <1>3, <1>9, Moved, Lengths
  <2>3. disk'.tx.op = "repair_binary" /\ BinaryInv' /\ RollbackSwitchFits(4)'
    BY <1>3, <1>6, <1>2, <2>1 DEF Same, Fields, Still, BinaryInv, LoadedBefore, Marked, Back, Early, EarlyPhases,
           RollbackSwitchFits, LatePhases, AsideDone, Stored, DataInv
  <2> QED
    BY <2>2, <2>3 DEF OpInv, Fits
<1>10. OpInv' /\ Fits(proc.script, proc.i)'
  BY <1>3, <1>4, <1>8, <1>9 DEF Place
<1>11. /\ disk' \in Disks /\ disk'.tx.id = disk.tx.id /\ disk'.tx.backup \in {0, disk.tx.id}
       /\ \A b \in disk'.store : b \in disk.store \/ b.by = disk.tx.id
  BY <1>2, <1>6 DEF Same, Fields, LTypes
<1> QED
  BY <1>3, <1>4, <1>7, <1>10, <1>11, Landed

LEMMA SeedKeeps ==
  ASSUME LInv, Seed
  PROVE  LInv'
<1>1. Do("seed", [disk EXCEPT !.data = tx.id])
  BY DEF Seed
<1>2. LTypes /\ disk \in Disks /\ DataInv
  BY DEF LInv, LTypes
<1>3. Still /\ proc' = Advanced /\ ~Free /\ Place(proc.script, proc.i, "seed")
  BY <1>1, <1>2, Did
<1>4. OpInv /\ Fits(proc.script, proc.i) /\ disk.tx.id # 1
  BY <1>3, AtWork
<1>5. disk' = [disk EXCEPT !.data = tx.id]
  BY <1>1, <1>2, Did
<1>6. disk' \in Disks /\ Same(disk, disk', {"data"}) /\ disk'.data = disk.tx.id
  <2>1. PICK x \in Stamps : x = disk.tx.id
    BY <1>2, LifecycleAssumption DEF Disks, Txs, Stamps
  <2>2. disk' = [disk EXCEPT !.data = x]
    BY <1>5, <2>1 DEF tx
  <2> QED
    BY <1>2, <2>1, <2>2, SetsData
<1>7. DataInv'
  <2>1. disk.tx.op # "uninstall" /\ AsideDone
    BY <1>3, <1>4 DEF Place, Fits, RestoreFits, RollbackSwitchFits
  <2> QED
    BY <1>2, <1>3, <1>6, <2>1 DEF DataInv, AsideDone, Same, Fields, Still
<1>8. ASSUME proc.script = "restore", proc.i = 12
      PROVE  OpInv' /\ Fits(proc.script, proc.i)'
  <2>1. RestoreFits(12) /\ disk.tx.op = "restore" /\ RestoreInv
    BY <1>4, <1>8 DEF Fits, RestoreFits, OpInv
  <2>2. proc'.script = "restore" /\ proc'.i = 13
    BY <1>2, <1>3, <1>8, Moved, Lengths
  <2>5. disk.tx.id # 0
    BY <1>2 DEF LTypes
  <2>3. disk'.tx.op = "restore" /\ RestoreInv' /\ RestoreFits(13)'
    BY <1>3, <1>6, <2>5, <2>1 DEF Same, Fields, Still, RestoreInv, LoadedBefore, MarkedWell,
           Marked, Early, EarlyPhases, LatePhases, OldInPlace, SameUnit, Back, OldSaved, Stands,
           RestoreFits, Bare, AsideDone
  <2> QED
    BY <2>2, <2>3 DEF OpInv, Fits
<1>9. ASSUME proc.script = "rollback_switch", proc.i = 7
      PROVE  OpInv' /\ Fits(proc.script, proc.i)'
  <2>1. RollbackSwitchFits(7) /\ disk.tx.op = "repair_binary" /\ BinaryInv
    BY <1>4, <1>9 DEF Fits, RollbackSwitchFits, OpInv
  <2>2. proc'.script = "rollback_switch" /\ proc'.i = 8
    BY <1>2, <1>3, <1>9, Moved, Lengths
  <2>3. disk'.tx.op = "repair_binary" /\ BinaryInv' /\ RollbackSwitchFits(8)'
    BY <1>3, <1>6, <2>1 DEF Same, Fields, Still, BinaryInv, LoadedBefore, Marked, Back, Early, EarlyPhases,
           RollbackSwitchFits, LatePhases, AsideDone, Stored
  <2> QED
    BY <2>2, <2>3 DEF OpInv, Fits
<1>10. OpInv' /\ Fits(proc.script, proc.i)'
  BY <1>3, <1>4, <1>8, <1>9 DEF Place
<1>11. /\ disk' \in Disks /\ disk'.tx.id = disk.tx.id /\ disk'.tx.backup \in {0, disk.tx.id}
       /\ \A b \in disk'.store : b \in disk.store \/ b.by = disk.tx.id
  BY <1>2, <1>6 DEF Same, Fields, LTypes
<1> QED
  BY <1>3, <1>4, <1>7, <1>10, <1>11, Landed

LEMMA DataRemovedKeeps ==
  ASSUME LInv, DataRemoved
  PROVE  LInv'
<1>1. Do("data_rm", (IF disk.aside # 0 THEN [disk EXCEPT !.data = 0] ELSE disk))
  BY DEF DataRemoved
<1>2. LTypes /\ disk \in Disks /\ DataInv
  BY DEF LInv, LTypes
<1>3. Still /\ proc' = Advanced /\ ~Free /\ Place(proc.script, proc.i, "data_rm")
  BY <1>1, <1>2, Did
<1>4. OpInv /\ Fits(proc.script, proc.i) /\ disk.tx.id # 1
  BY <1>3, AtWork
<1>5. disk' = (IF disk.aside # 0 THEN [disk EXCEPT !.data = 0] ELSE disk)
  BY <1>1, <1>2, Did
<1>6. /\ disk' \in Disks /\ Same(disk, disk', {"data"}) /\ (disk.aside = 0 => disk'.data = disk.data)
  <2>1. CASE disk.aside # 0
    <3>1. disk' = [disk EXCEPT !.data = 0] /\ 0 \in Stamps
      BY <1>5, <2>1, LifecycleAssumption DEF Stamps
    <3> QED
      BY <1>2, <2>1, <3>1, SetsData
  <2>2. CASE disk.aside = 0
    <3>1. disk' = disk
      BY <1>5, <2>2
    <3> QED
      BY <1>2, <3>1 DEF Same
  <2> QED
    BY <2>1, <2>2
<1>7. DataInv'
  BY <1>2, <1>3, <1>6 DEF DataInv, Same, Fields, Still
<1>8. ASSUME proc.script = "rollback_restore", proc.i = 7
      PROVE  OpInv' /\ Fits(proc.script, proc.i)'
  <2>1. RollbackRestoreFits(7) /\ disk.tx.op = "restore" /\ RestoreInv
    BY <1>4, <1>8 DEF Fits, RollbackRestoreFits, OpInv
  <2>2. proc'.script = "rollback_restore" /\ proc'.i = 8
    BY <1>2, <1>3, <1>8, Moved, Lengths
  <2>3. disk'.tx.op = "restore" /\ RestoreInv' /\ RollbackRestoreFits(8)'
    BY <1>3, <1>6, <2>1 DEF Same, Fields, Still, RestoreInv, LoadedBefore, MarkedWell, Marked,
           Early, EarlyPhases, LatePhases, OldInPlace, SameUnit, Back, OldSaved, Stands,
           RollbackRestoreFits
  <2> QED
    BY <2>2, <2>3 DEF OpInv, Fits
<1>9. OpInv' /\ Fits(proc.script, proc.i)'
  BY <1>3, <1>4, <1>8 DEF Place
<1>10. /\ disk' \in Disks /\ disk'.tx.id = disk.tx.id /\ disk'.tx.backup \in {0, disk.tx.id}
       /\ \A b \in disk'.store : b \in disk.store \/ b.by = disk.tx.id
  BY <1>2, <1>6 DEF Same, Fields, LTypes
<1> QED
  BY <1>3, <1>4, <1>7, <1>9, <1>10, Landed

LEMMA DataBackKeeps ==
  ASSUME LInv, DataBack
  PROVE  LInv'
<1>1. Do("data_mv", (IF disk.aside # 0 THEN [disk EXCEPT !.data = disk.aside, !.aside = 0] ELSE disk))
  BY DEF DataBack
<1>2. LTypes /\ disk \in Disks /\ DataInv
  BY DEF LInv, LTypes
<1>3. Still /\ proc' = Advanced /\ ~Free /\ Place(proc.script, proc.i, "data_mv")
  BY <1>1, <1>2, Did
<1>4. OpInv /\ Fits(proc.script, proc.i) /\ disk.tx.id # 1
  BY <1>3, AtWork
<1>5. disk' = (IF disk.aside # 0 THEN [disk EXCEPT !.data = disk.aside, !.aside = 0] ELSE disk)
  BY <1>1, <1>2, Did
<1>6. /\ disk' \in Disks /\ Same(disk, disk', {"data", "aside"}) /\ disk'.aside = 0
      /\ disk.aside # 0 => disk'.data = disk.aside
      /\ disk.aside = 0 => disk'.data = disk.data
  <2>1. CASE disk.aside # 0
    <3>1. disk' = [disk EXCEPT !.data = disk.aside, !.aside = 0] /\ 0 \in Stamps
      BY <1>5, <2>1, LifecycleAssumption DEF Stamps
    <3> QED
      BY <1>2, <2>1, <3>1 DEF Disks, Same, Fields
  <2>2. CASE disk.aside = 0
    <3>1. disk' = disk
      BY <1>5, <2>2
    <3> QED
      BY <1>2, <2>2, <3>1 DEF Same
  <2> QED
    BY <2>1, <2>2
<1>7. DataInv'
  BY <1>2, <1>3, <1>6 DEF DataInv, Same, Fields, Still
<1>8. ASSUME proc.script = "rollback_restore", proc.i = 8
      PROVE  OpInv' /\ Fits(proc.script, proc.i)'
  <2>1. RollbackRestoreFits(8) /\ disk.tx.op = "restore" /\ RestoreInv
    BY <1>4, <1>8 DEF Fits, RollbackRestoreFits, OpInv
  <2>2. proc'.script = "rollback_restore" /\ proc'.i = 9
    BY <1>2, <1>3, <1>8, Moved, Lengths
  <2>3. disk'.tx.op = "restore" /\ RestoreInv' /\ RollbackRestoreFits(9)'
    BY <1>3, <1>6, <2>1 DEF Same, Fields, Still, RestoreInv, LoadedBefore, MarkedWell, Marked,
           Early, EarlyPhases, LatePhases, OldInPlace, SameUnit, Back, OldSaved, Stands,
           RollbackRestoreFits
  <2> QED
    BY <2>2, <2>3 DEF OpInv, Fits
<1>9. OpInv' /\ Fits(proc.script, proc.i)'
  BY <1>3, <1>4, <1>8 DEF Place
<1>10. /\ disk' \in Disks /\ disk'.tx.id = disk.tx.id /\ disk'.tx.backup \in {0, disk.tx.id}
       /\ \A b \in disk'.store : b \in disk.store \/ b.by = disk.tx.id
  BY <1>2, <1>6 DEF Same, Fields, LTypes
<1> QED
  BY <1>3, <1>4, <1>7, <1>9, <1>10, Landed

LEMMA RemoveDataKeeps ==
  ASSUME LInv, RemoveData
  PROVE  LInv'
<1>1. Do("rm_data", [disk EXCEPT !.data = IF proc.keep THEN @ ELSE 0])
  BY DEF RemoveData
<1>2. LTypes /\ disk \in Disks /\ DataInv
  BY DEF LInv, LTypes
<1>3. Still /\ proc' = Advanced /\ ~Free /\ Place(proc.script, proc.i, "rm_data")
  BY <1>1, <1>2, Did
<1>4. OpInv /\ Fits(proc.script, proc.i) /\ disk.tx.id # 1
  BY <1>3, AtWork
<1>5. disk' = [disk EXCEPT !.data = IF proc.keep THEN @ ELSE 0]
  BY <1>1, <1>2, Did
<1>6. disk' \in Disks /\ Same(disk, disk', {"data"}) /\ disk'.data = IF proc.keep THEN disk.data ELSE 0
  <2>1. PICK x \in Stamps : x = IF proc.keep THEN disk.data ELSE 0
    BY <1>2, LifecycleAssumption DEF Disks, Txs, Stamps
  <2>2. disk' = [disk EXCEPT !.data = x]
    BY <1>5, <2>1 DEF tx
  <2> QED
    BY <1>2, <2>1, <2>2, SetsData
<1>7. DataInv'
  <2>1. disk.tx.op = "uninstall"
    BY <1>3, <1>4 DEF Place, Fits, UninstallFits, CompleteFits
  <2> QED
    BY <1>6, <2>1 DEF DataInv, Same, Fields
<1>8. ASSUME proc.script = "uninstall", proc.i = 8
      PROVE  OpInv' /\ Fits(proc.script, proc.i)'
  <2>1. UninstallFits(8) /\ disk.tx.op = "uninstall" /\ UninstallInv
    BY <1>4, <1>8 DEF Fits, UninstallFits, OpInv
  <2>2. proc'.script = "uninstall" /\ proc'.i = 9
    BY <1>2, <1>3, <1>8, Moved, Lengths
  <2>3. disk'.tx.op = "uninstall" /\ UninstallInv' /\ UninstallFits(9)'
    BY <1>3, <1>6, <2>1 DEF Same, Fields, Still, UninstallInv, LoadedBefore, OldInPlace, SameUnit, Back, Early, Protection, Gone,
           UninstallFits, Terminal, Bare
  <2> QED
    BY <2>2, <2>3 DEF OpInv, Fits
<1>9. ASSUME proc.script = "complete", proc.i = 4
      PROVE  OpInv' /\ Fits(proc.script, proc.i)'
  <2>1. CompleteFits(4) /\ disk.tx.op = "uninstall" /\ UninstallInv
    BY <1>4, <1>9 DEF Fits, CompleteFits, OpInv
  <2>2. proc'.script = "complete" /\ proc'.i = 5
    BY <1>2, <1>3, <1>9, Moved, Lengths
  <2>3. disk'.tx.op = "uninstall" /\ UninstallInv' /\ CompleteFits(5)'
    BY <1>3, <1>6, <2>1 DEF Same, Fields, Still, UninstallInv, LoadedBefore, OldInPlace, SameUnit, Back, Early, Protection, Gone,
           CompleteFits, Terminal
  <2> QED
    BY <2>2, <2>3 DEF OpInv, Fits
<1>10. OpInv' /\ Fits(proc.script, proc.i)'
  BY <1>3, <1>4, <1>8, <1>9 DEF Place
<1>11. /\ disk' \in Disks /\ disk'.tx.id = disk.tx.id /\ disk'.tx.backup \in {0, disk.tx.id}
       /\ \A b \in disk'.store : b \in disk.store \/ b.by = disk.tx.id
  BY <1>2, <1>6 DEF Same, Fields, LTypes
<1> QED
  BY <1>3, <1>4, <1>7, <1>10, <1>11, Landed

LEMMA RemoveInitKeeps ==
  ASSUME LInv, RemoveInit
  PROVE  LInv'
<1>1. Do("rm_init", disk)
  BY DEF RemoveInit
<1>2. LTypes /\ disk \in Disks /\ DataInv
  BY DEF LInv, LTypes
<1>3. Still /\ proc' = Advanced /\ ~Free /\ Place(proc.script, proc.i, "rm_init")
  BY <1>1, <1>2, Did
<1>4. OpInv /\ Fits(proc.script, proc.i) /\ disk.tx.id # 1
  BY <1>3, AtWork
<1>5. disk' = disk
  BY <1>1, <1>2, Did
<1>6. disk' = disk
  BY <1>5
<1>7. DataInv'
  BY <1>2, <1>3, <1>6 DEF DataInv, Still
<1>8. ASSUME proc.script = "cleanup", proc.i = 4
      PROVE  OpInv' /\ Fits(proc.script, proc.i)'
  <2>1. CleanupFits(4) /\ disk.tx.op = "install" /\ InstallInv
    BY <1>4, <1>8 DEF Fits, CleanupFits, OpInv
  <2>2. proc'.script = "cleanup" /\ proc'.i = 5
    BY <1>2, <1>3, <1>8, Moved, Lengths
  <2>3. disk'.tx.op = "install" /\ InstallInv' /\ CleanupFits(5)'
    BY <1>3, <1>6, <2>1 DEF Same, Fields, Still, InstallInv, SameUnit, MarkedWell, Marked, Done,
           CleanupFits, Terminal
  <2> QED
    BY <2>2, <2>3 DEF OpInv, Fits
<1>9. OpInv' /\ Fits(proc.script, proc.i)'
  BY <1>3, <1>4, <1>8 DEF Place
<1>10. /\ disk' \in Disks /\ disk'.tx.id = disk.tx.id /\ disk'.tx.backup \in {0, disk.tx.id}
       /\ \A b \in disk'.store : b \in disk.store \/ b.by = disk.tx.id
  BY <1>2, <1>6 DEF Same, Fields, LTypes
<1> QED
  BY <1>3, <1>4, <1>7, <1>9, <1>10, Landed

LEMMA RemoveTxDirKeeps ==
  ASSUME LInv, RemoveTxDir
  PROVE  LInv'
<1>1. Do("rm_txdir", [disk EXCEPT !.aside = 0, !.replaced = NoRelease, !.saved = 0, !.snap = 0])
  BY DEF RemoveTxDir
<1>2. LTypes /\ disk \in Disks /\ DataInv
  BY DEF LInv, LTypes
<1>3. Still /\ proc' = Advanced /\ ~Free /\ Place(proc.script, proc.i, "rm_txdir")
  BY <1>1, <1>2, Did
<1>4. OpInv /\ Fits(proc.script, proc.i) /\ disk.tx.id # 1
  BY <1>3, AtWork
<1>5. disk' = [disk EXCEPT !.aside = 0, !.replaced = NoRelease, !.saved = 0, !.snap = 0]
  BY <1>1, <1>2, Did
<1>6. /\ disk' \in Disks /\ Same(disk, disk', {"aside", "replaced", "saved", "snap"})
      /\ disk'.aside = 0 /\ disk'.replaced = NoRelease
  <2>1. NoRelease \in Releases /\ 0 \in Stamps /\ 0 \in Some
    BY LifecycleAssumption DEF NoRelease, Releases, Stamps, Some
  <2> QED
    BY <1>2, <1>5, <2>1 DEF Disks, Same, Fields
<1>7. DataInv'
  <2>1. disk.aside = 0
    BY <1>3, <1>4 DEF Place, Fits, PreActivationFits, CleanFits, OpInv, RestoreInv, StaticInv, BinaryInv, EarlyPhases
  <2> QED
    BY <1>2, <1>3, <1>6, <2>1 DEF DataInv, Same, Fields, Still
<1>8. ASSUME proc.script = "pre_activation", proc.i = 2, disk.tx.op = "restore"
      PROVE  OpInv' /\ Fits(proc.script, proc.i)'
  <2>1. PreActivationFits(2) /\ disk.tx.op = "restore" /\ RestoreInv
    BY <1>4, <1>8 DEF Fits, PreActivationFits, OpInv
  <2>2. proc'.script = "pre_activation" /\ proc'.i = 3
    BY <1>2, <1>3, <1>8, Moved, Lengths
  <2>3. disk'.tx.op = "restore" /\ RestoreInv' /\ PreActivationFits(3)'
    BY <1>3, <1>6, <2>1 DEF Same, Fields, Still, RestoreInv, LoadedBefore, MarkedWell, Marked,
           Early, EarlyPhases, LatePhases, OldInPlace, SameUnit, Back, OldSaved, Stands,
           PreActivationFits
  <2> QED
    BY <2>2, <2>3 DEF OpInv, Fits
<1>9. ASSUME proc.script = "pre_activation", proc.i = 2, disk.tx.op = "repair_static"
      PROVE  OpInv' /\ Fits(proc.script, proc.i)'
  <2>1. PreActivationFits(2) /\ disk.tx.op = "repair_static" /\ StaticInv
    BY <1>4, <1>9 DEF Fits, PreActivationFits, OpInv
  <2>2. proc'.script = "pre_activation" /\ proc'.i = 3
    BY <1>2, <1>3, <1>9, Moved, Lengths
  <2>3. disk'.tx.op = "repair_static" /\ StaticInv' /\ PreActivationFits(3)'
    BY <1>3, <1>6, <2>1 DEF Same, Fields, Still, StaticInv, LoadedBefore, SameUnit, Back,
           Unfinished, Terminal, tx, Pages, PreActivationFits
  <2> QED
    BY <2>2, <2>3 DEF OpInv, Fits
<1>10. ASSUME proc.script = "pre_activation", proc.i = 2, disk.tx.op = "repair_binary"
      PROVE  OpInv' /\ Fits(proc.script, proc.i)'
  <2>1. PreActivationFits(2) /\ disk.tx.op = "repair_binary" /\ BinaryInv
    BY <1>4, <1>10 DEF Fits, PreActivationFits, OpInv
  <2>2. proc'.script = "pre_activation" /\ proc'.i = 3
    BY <1>2, <1>3, <1>10, Moved, Lengths
  <2>3. disk'.tx.op = "repair_binary" /\ BinaryInv' /\ PreActivationFits(3)'
    BY <1>3, <1>6, <2>1 DEF Same, Fields, Still, BinaryInv, LoadedBefore, Marked, Back, Early, EarlyPhases,
           PreActivationFits
  <2> QED
    BY <2>2, <2>3 DEF OpInv, Fits
<1>11. ASSUME proc.script = "clean", proc.i = 1, disk.tx.op = "restore"
      PROVE  OpInv' /\ Fits(proc.script, proc.i)'
  <2>1. CleanFits /\ disk.tx.op = "restore" /\ RestoreInv
    BY <1>4, <1>11 DEF Fits, CleanFits, OpInv
  <2>2. proc'.script = "clean" /\ proc'.i = 2
    BY <1>2, <1>3, <1>11, Moved, Lengths
  <2>3. disk'.tx.op = "restore" /\ RestoreInv' /\ CleanFits'
    BY <1>3, <1>6, <2>1 DEF Same, Fields, Still, RestoreInv, LoadedBefore, MarkedWell, Marked,
           Early, EarlyPhases, LatePhases, OldInPlace, SameUnit, Back, OldSaved, Stands, CleanFits
  <2> QED
    BY <2>2, <2>3 DEF OpInv, Fits
<1>12. ASSUME proc.script = "clean", proc.i = 1, disk.tx.op = "repair_static"
      PROVE  OpInv' /\ Fits(proc.script, proc.i)'
  <2>1. CleanFits /\ disk.tx.op = "repair_static" /\ StaticInv
    BY <1>4, <1>12 DEF Fits, CleanFits, OpInv
  <2>2. proc'.script = "clean" /\ proc'.i = 2
    BY <1>2, <1>3, <1>12, Moved, Lengths
  <2>3. disk'.tx.op = "repair_static" /\ StaticInv' /\ CleanFits'
    BY <1>3, <1>6, <2>1 DEF Same, Fields, Still, StaticInv, LoadedBefore, SameUnit, Back,
           Unfinished, Terminal, tx, Pages, CleanFits
  <2> QED
    BY <2>2, <2>3 DEF OpInv, Fits
<1>13. ASSUME proc.script = "clean", proc.i = 1, disk.tx.op = "repair_binary"
      PROVE  OpInv' /\ Fits(proc.script, proc.i)'
  <2>1. CleanFits /\ disk.tx.op = "repair_binary" /\ BinaryInv
    BY <1>4, <1>13 DEF Fits, CleanFits, OpInv
  <2>2. proc'.script = "clean" /\ proc'.i = 2
    BY <1>2, <1>3, <1>13, Moved, Lengths
  <2>3. disk'.tx.op = "repair_binary" /\ BinaryInv' /\ CleanFits'
    BY <1>3, <1>6, <2>1 DEF Same, Fields, Still, BinaryInv, LoadedBefore, Marked, Back, Early, EarlyPhases,
           CleanFits
  <2> QED
    BY <2>2, <2>3 DEF OpInv, Fits
<1>14. OpInv' /\ Fits(proc.script, proc.i)'
  BY <1>3, <1>4, <1>8, <1>9, <1>10, <1>11, <1>12, <1>13 DEF Place, Fits, CleanFits, PreActivationFits
<1>15. /\ disk' \in Disks /\ disk'.tx.id = disk.tx.id /\ disk'.tx.backup \in {0, disk.tx.id}
       /\ \A b \in disk'.store : b \in disk.store \/ b.by = disk.tx.id
  BY <1>2, <1>6 DEF Same, Fields, LTypes
<1> QED
  BY <1>3, <1>4, <1>7, <1>14, <1>15, Landed

LEMMA WriteStateKeeps ==
  ASSUME LInv, WriteState
  PROVE  LInv'
<1>1. Do("write_state", [disk EXCEPT !.state = IF tx.target = 0 THEN @ ELSE tx.target])
  BY DEF WriteState
<1>2. LTypes /\ disk \in Disks /\ DataInv
  BY DEF LInv, LTypes
<1>3. Still /\ proc' = Advanced /\ ~Free /\ Place(proc.script, proc.i, "write_state")
  BY <1>1, <1>2, Did
<1>4. OpInv /\ Fits(proc.script, proc.i) /\ disk.tx.id # 1
  BY <1>3, AtWork
<1>5. disk' = [disk EXCEPT !.state = IF tx.target = 0 THEN @ ELSE tx.target]
  BY <1>1, <1>2, Did
<1>6. disk' \in Disks /\ Same(disk, disk', {"state"}) /\ disk'.state = IF disk.tx.target = 0 THEN disk.state ELSE disk.tx.target
  <2>1. PICK x \in Some : x = IF disk.tx.target = 0 THEN disk.state ELSE disk.tx.target
    BY <1>2, LifecycleAssumption DEF Disks, Txs, Some
  <2>2. disk' = [disk EXCEPT !.state = x]
    BY <1>5, <2>1 DEF tx
  <2> QED
    BY <1>2, <2>1, <2>2, SetsState
<1>7. DataInv'
  BY <1>2, <1>3, <1>6 DEF DataInv, Same, Fields, Still
<1>8. ASSUME proc.script = "install", proc.i = 11
      PROVE  OpInv' /\ Fits(proc.script, proc.i)'
  <2>1. InstallFits(11) /\ disk.tx.op = "install" /\ InstallInv
    BY <1>4, <1>8 DEF Fits, InstallFits, OpInv
  <2>2. proc'.script = "install" /\ proc'.i = 12
    BY <1>2, <1>3, <1>8, Moved, Lengths
  <2>3. disk'.tx.op = "install" /\ InstallInv' /\ InstallFits(12)'
    BY <1>3, <1>6, LifecycleAssumption, <2>1 DEF Same, Fields, Still, InstallInv, SameUnit, MarkedWell,
           Marked, Done, InstallFits, Terminal
  <2> QED
    BY <2>2, <2>3 DEF OpInv, Fits
<1>9. ASSUME proc.script = "restore", proc.i = 18
      PROVE  OpInv' /\ Fits(proc.script, proc.i)'
  <2>1. RestoreFits(18) /\ disk.tx.op = "restore" /\ RestoreInv
    BY <1>4, <1>9 DEF Fits, RestoreFits, OpInv
  <2>2. proc'.script = "restore" /\ proc'.i = 19
    BY <1>2, <1>3, <1>9, Moved, Lengths
  <2>3. disk'.tx.op = "restore" /\ RestoreInv' /\ RestoreFits(19)'
    BY <1>3, <1>6, LifecycleAssumption, <2>1 DEF Same, Fields, Still, RestoreInv, LoadedBefore,
           MarkedWell, Marked, Early, EarlyPhases, LatePhases, OldInPlace, SameUnit, Back,
           OldSaved, Stands, RestoreFits, Bare, AsideDone
  <2> QED
    BY <2>2, <2>3 DEF OpInv, Fits
<1>10. ASSUME proc.script = "repair_static", proc.i = 7
      PROVE  OpInv' /\ Fits(proc.script, proc.i)'
  <2>1. StaticFits(7) /\ disk.tx.op = "repair_static" /\ StaticInv
    BY <1>4, <1>10 DEF Fits, StaticFits, OpInv
  <2>2. proc'.script = "repair_static" /\ proc'.i = 8
    BY <1>2, <1>3, <1>10, Moved, Lengths
  <2>3. disk'.tx.op = "repair_static" /\ StaticInv' /\ StaticFits(8)'
    BY <1>3, <1>6, LifecycleAssumption, <2>1 DEF Same, Fields, Still, StaticInv, LoadedBefore, SameUnit,
           Back, Unfinished, Terminal, tx, Pages, StaticFits
  <2> QED
    BY <2>2, <2>3 DEF OpInv, Fits
<1>11. ASSUME proc.script = "repair_binary", proc.i = 13
      PROVE  OpInv' /\ Fits(proc.script, proc.i)'
  <2>1. BinaryFits(13) /\ disk.tx.op = "repair_binary" /\ BinaryInv
    BY <1>4, <1>11 DEF Fits, BinaryFits, OpInv
  <2>2. proc'.script = "repair_binary" /\ proc'.i = 14
    BY <1>2, <1>3, <1>11, Moved, Lengths
  <2>3. disk'.tx.op = "repair_binary" /\ BinaryInv' /\ BinaryFits(14)'
    BY <1>3, <1>6, LifecycleAssumption, <2>1 DEF Same, Fields, Still, BinaryInv, LoadedBefore, Marked, Back, Early,
           EarlyPhases, BinaryFits
  <2> QED
    BY <2>2, <2>3 DEF OpInv, Fits
<1>12. OpInv' /\ Fits(proc.script, proc.i)'
  BY <1>3, <1>4, <1>8, <1>9, <1>10, <1>11 DEF Place
<1>13. /\ disk' \in Disks /\ disk'.tx.id = disk.tx.id /\ disk'.tx.backup \in {0, disk.tx.id}
       /\ \A b \in disk'.store : b \in disk.store \/ b.by = disk.tx.id
  BY <1>2, <1>6 DEF Same, Fields, LTypes
<1> QED
  BY <1>3, <1>4, <1>7, <1>12, <1>13, Landed

LEMMA StateBackKeeps ==
  ASSUME LInv, StateBack
  PROVE  LInv'
<1>1. Do("state_back", [disk EXCEPT !.state =
       IF proc.script = "rollback_restore" THEN disk.snap ELSE tx.from])
  BY DEF StateBack
<1>2. LTypes /\ disk \in Disks /\ DataInv
  BY DEF LInv, LTypes
<1>3. Still /\ proc' = Advanced /\ ~Free /\ Place(proc.script, proc.i, "state_back")
  BY <1>1, <1>2, Did
<1>4. OpInv /\ Fits(proc.script, proc.i) /\ disk.tx.id # 1
  BY <1>3, AtWork
<1>5. disk' = [disk EXCEPT !.state =
       IF proc.script = "rollback_restore" THEN disk.snap ELSE tx.from]
  BY <1>1, <1>2, Did
<1>6. disk' \in Disks /\ Same(disk, disk', {"state"}) /\ disk'.state = IF proc.script = "rollback_restore" THEN disk.snap ELSE disk.tx.from
  <2>1. PICK x \in Some : x = IF proc.script = "rollback_restore" THEN disk.snap ELSE disk.tx.from
    BY <1>2, LifecycleAssumption DEF Disks, Txs, Some
  <2>2. disk' = [disk EXCEPT !.state = x]
    BY <1>5, <2>1 DEF tx
  <2> QED
    BY <1>2, <2>1, <2>2, SetsState
<1>7. DataInv'
  BY <1>2, <1>3, <1>6 DEF DataInv, Same, Fields, Still
<1>8. ASSUME proc.script = "rollback_restore", proc.i = 11
      PROVE  OpInv' /\ Fits(proc.script, proc.i)'
  <2>1. RollbackRestoreFits(11) /\ disk.tx.op = "restore" /\ RestoreInv
    BY <1>4, <1>8 DEF Fits, RollbackRestoreFits, OpInv
  <2>2. proc'.script = "rollback_restore" /\ proc'.i = 12
    BY <1>2, <1>3, <1>8, Moved, Lengths
  <2>3. disk'.tx.op = "restore" /\ RestoreInv' /\ RollbackRestoreFits(12)'
    BY <1>3, <1>6, <1>8, <2>1 DEF Same, Fields, Still, RestoreInv, LoadedBefore, MarkedWell,
           Marked, Early, EarlyPhases, LatePhases, OldInPlace, SameUnit, Back, OldSaved, Stands,
           RollbackRestoreFits
  <2> QED
    BY <2>2, <2>3 DEF OpInv, Fits
<1>9. ASSUME proc.script = "rollback_switch", proc.i = 12
      PROVE  OpInv' /\ Fits(proc.script, proc.i)'
  <2>1. RollbackSwitchFits(12) /\ disk.tx.op = "repair_binary" /\ BinaryInv
    BY <1>4, <1>9 DEF Fits, RollbackSwitchFits, OpInv
  <2>2. proc'.script = "rollback_switch" /\ proc'.i = 13
    BY <1>2, <1>3, <1>9, Moved, Lengths
  <2>3. disk'.tx.op = "repair_binary" /\ BinaryInv' /\ RollbackSwitchFits(13)'
    BY <1>3, <1>6, <1>9, <2>1 DEF Same, Fields, Still, BinaryInv, LoadedBefore, Marked, Back, Early, EarlyPhases,
           RollbackSwitchFits, LatePhases, AsideDone, Stored
  <2> QED
    BY <2>2, <2>3 DEF OpInv, Fits
<1>10. OpInv' /\ Fits(proc.script, proc.i)'
  BY <1>3, <1>4, <1>8, <1>9 DEF Place
<1>11. /\ disk' \in Disks /\ disk'.tx.id = disk.tx.id /\ disk'.tx.backup \in {0, disk.tx.id}
       /\ \A b \in disk'.store : b \in disk.store \/ b.by = disk.tx.id
  BY <1>2, <1>6 DEF Same, Fields, LTypes
<1> QED
  BY <1>3, <1>4, <1>7, <1>10, <1>11, Landed

LEMMA RemoveStateKeeps ==
  ASSUME LInv, RemoveState
  PROVE  LInv'
<1>1. Do("rm_state", [disk EXCEPT !.state = 0])
  BY DEF RemoveState
<1>2. LTypes /\ disk \in Disks /\ DataInv
  BY DEF LInv, LTypes
<1>3. Still /\ proc' = Advanced /\ ~Free /\ Place(proc.script, proc.i, "rm_state")
  BY <1>1, <1>2, Did
<1>4. OpInv /\ Fits(proc.script, proc.i) /\ disk.tx.id # 1
  BY <1>3, AtWork
<1>5. disk' = [disk EXCEPT !.state = 0]
  BY <1>1, <1>2, Did
<1>6. disk' \in Disks /\ Same(disk, disk', {"state"}) /\ disk'.state = 0
  <2>1. PICK x \in Some : x = 0
    BY <1>2, LifecycleAssumption DEF Disks, Txs, Some
  <2>2. disk' = [disk EXCEPT !.state = x]
    BY <1>5, <2>1 DEF tx
  <2> QED
    BY <1>2, <2>1, <2>2, SetsState
<1>7. DataInv'
  BY <1>2, <1>3, <1>6 DEF DataInv, Same, Fields, Still
<1>8. ASSUME proc.script = "uninstall", proc.i = 9
      PROVE  OpInv' /\ Fits(proc.script, proc.i)'
  <2>1. UninstallFits(9) /\ disk.tx.op = "uninstall" /\ UninstallInv
    BY <1>4, <1>8 DEF Fits, UninstallFits, OpInv
  <2>2. proc'.script = "uninstall" /\ proc'.i = 10
    BY <1>2, <1>3, <1>8, Moved, Lengths
  <2>3. disk'.tx.op = "uninstall" /\ UninstallInv' /\ UninstallFits(10)'
    BY <1>3, <1>6, <2>1 DEF Same, Fields, Still, UninstallInv, LoadedBefore, OldInPlace, SameUnit, Back, Early, Protection, Gone,
           UninstallFits, Terminal, Bare
  <2> QED
    BY <2>2, <2>3 DEF OpInv, Fits
<1>9. ASSUME proc.script = "cleanup", proc.i = 5
      PROVE  OpInv' /\ Fits(proc.script, proc.i)'
  <2>1. CleanupFits(5) /\ disk.tx.op = "install" /\ InstallInv
    BY <1>4, <1>9 DEF Fits, CleanupFits, OpInv
  <2>2. proc'.script = "cleanup" /\ proc'.i = 6
    BY <1>2, <1>3, <1>9, Moved, Lengths
  <2>3. disk'.tx.op = "install" /\ InstallInv' /\ CleanupFits(6)'
    BY <1>3, <1>6, <2>1 DEF Same, Fields, Still, InstallInv, SameUnit, MarkedWell, Marked, Done,
           CleanupFits, Terminal
  <2> QED
    BY <2>2, <2>3 DEF OpInv, Fits
<1>10. ASSUME proc.script = "complete", proc.i = 5
      PROVE  OpInv' /\ Fits(proc.script, proc.i)'
  <2>1. CompleteFits(5) /\ disk.tx.op = "uninstall" /\ UninstallInv
    BY <1>4, <1>10 DEF Fits, CompleteFits, OpInv
  <2>2. proc'.script = "complete" /\ proc'.i = 6
    BY <1>2, <1>3, <1>10, Moved, Lengths
  <2>3. disk'.tx.op = "uninstall" /\ UninstallInv' /\ CompleteFits(6)'
    BY <1>3, <1>6, <2>1 DEF Same, Fields, Still, UninstallInv, LoadedBefore, OldInPlace, SameUnit, Back, Early, Protection, Gone,
           CompleteFits, Terminal
  <2> QED
    BY <2>2, <2>3 DEF OpInv, Fits
<1>11. OpInv' /\ Fits(proc.script, proc.i)'
  BY <1>3, <1>4, <1>8, <1>9, <1>10 DEF Place
<1>12. /\ disk' \in Disks /\ disk'.tx.id = disk.tx.id /\ disk'.tx.backup \in {0, disk.tx.id}
       /\ \A b \in disk'.store : b \in disk.store \/ b.by = disk.tx.id
  BY <1>2, <1>6 DEF Same, Fields, LTypes
<1> QED
  BY <1>3, <1>4, <1>7, <1>11, <1>12, Landed

-----------------------------------------------------------------------------
(* The steps: repairs in place *)

LEMMA SetsPart ==
  ASSUME disk \in Disks, NEW v \in Versions, NEW f \in {"bin", "pages", "zip"}, NEW x \in Stamps,
         disk' = [disk EXCEPT !.releases[v] = [disk.releases[v] EXCEPT ![f] = x]]
  PROVE  /\ disk' \in Disks /\ Same(disk, disk', {"releases"})
         /\ disk'.releases[v][f] = x
         /\ \A g \in {"bin", "pages", "zip"} \ {f} : disk'.releases[v][g] = disk.releases[v][g]
<1>1. PICK r : r = [disk.releases[v] EXCEPT ![f] = x]
  OBVIOUS
<1>2. disk.releases[v] \in Releases
  BY DEF Disks
<1>3. r \in Releases /\ r[f] = x /\ \A g \in {"bin", "pages", "zip"} \ {f} : r[g] = disk.releases[v][g]
  BY <1>1, <1>2 DEF Releases
<1>4. disk' = [disk EXCEPT !.releases[v] = r]
  BY <1>1
<1> QED
  BY <1>3, <1>4, SetsRelease

LEMMA ZipRefreshedKeeps ==
  ASSUME LInv, Do("refresh_zip", [disk EXCEPT !.releases[disk.current].zip = tx.id])
  PROVE  LInv'
<1>1. Do("refresh_zip", [disk EXCEPT !.releases[disk.current].zip = tx.id])
  OBVIOUS
<1>2. LTypes /\ disk \in Disks /\ DataInv
  BY DEF LInv, LTypes
<1>3. Still /\ proc' = Advanced /\ ~Free /\ Place(proc.script, proc.i, "refresh_zip")
  BY <1>1, <1>2, Did
<1>4. OpInv /\ Fits(proc.script, proc.i) /\ disk.tx.id # 1
  BY <1>3, AtWork
<1>5. disk' = [disk EXCEPT !.releases[disk.current].zip = tx.id]
  BY <1>1, <1>2, Did
<1>6. /\ disk' \in Disks /\ Same(disk, disk', {"releases"}) /\ disk'.releases[before.state].zip = disk.tx.id
      /\ \A g \in {"bin", "pages", "zip"} \ {"zip"} : disk'.releases[before.state][g] = disk.releases[before.state][g]
  <2>1. disk.current = before.state /\ before.state \in Versions
    BY <1>3, <1>4 DEF Place, Fits, StaticFits, StaticBackFits, OpInv, StaticInv, LoadedBefore
  <2>2. PICK x \in Stamps : x = disk.tx.id
    BY <1>2, LifecycleAssumption DEF Disks, Txs, Stamps
  <2>3. disk' = [disk EXCEPT !.releases[before.state] = [disk.releases[before.state] EXCEPT !["zip"] = x]]
    BY <1>5, <2>1, <2>2 DEF tx
  <2>4. /\ disk' \in Disks /\ Same(disk, disk', {"releases"}) /\ disk'.releases[before.state]["zip"] = x
        /\ \A g \in {"bin", "pages", "zip"} \ {"zip"} : disk'.releases[before.state][g] = disk.releases[before.state][g]
    BY <1>2, <2>1, <2>3, SetsPart
  <2> QED
    BY <2>2, <2>4
<1>7. DataInv'
  BY <1>2, <1>3, <1>6 DEF DataInv, Same, Fields, Still
<1>8. ASSUME proc.script = "repair_static", proc.i = 1
      PROVE  OpInv' /\ Fits(proc.script, proc.i)'
  <2>1. StaticFits(1) /\ disk.tx.op = "repair_static" /\ StaticInv
    BY <1>4, <1>8 DEF Fits, StaticFits, OpInv
  <2>2. proc'.script = "repair_static" /\ proc'.i = 2
    BY <1>2, <1>3, <1>8, Moved, Lengths
  <2>5. disk.tx.id # 0
    BY <1>2 DEF LTypes
  <2>3. disk'.tx.op = "repair_static" /\ StaticInv' /\ StaticFits(2)'
    BY <1>3, <1>6, <2>5, <2>1 DEF Same, Fields, Still, StaticInv, LoadedBefore, SameUnit, Back,
           Unfinished, Terminal, tx, Pages, StaticFits
  <2> QED
    BY <2>2, <2>3 DEF OpInv, Fits
<1>9. OpInv' /\ Fits(proc.script, proc.i)'
  BY <1>3, <1>4, <1>8 DEF Place
<1>10. /\ disk' \in Disks /\ disk'.tx.id = disk.tx.id /\ disk'.tx.backup \in {0, disk.tx.id}
       /\ \A b \in disk'.store : b \in disk.store \/ b.by = disk.tx.id
  BY <1>2, <1>6 DEF Same, Fields, LTypes
<1> QED
  BY <1>3, <1>4, <1>7, <1>9, <1>10, Landed

LEMMA ZipLeftKeeps ==
  ASSUME LInv, Do("refresh_zip", disk)
  PROVE  LInv'
<1>1. Do("refresh_zip", disk)
  OBVIOUS
<1>2. LTypes /\ disk \in Disks /\ DataInv
  BY DEF LInv, LTypes
<1>3. Still /\ proc' = Advanced /\ ~Free /\ Place(proc.script, proc.i, "refresh_zip")
  BY <1>1, <1>2, Did
<1>4. OpInv /\ Fits(proc.script, proc.i) /\ disk.tx.id # 1
  BY <1>3, AtWork
<1>5. disk' = disk
  BY <1>1, <1>2, Did
<1>6. disk' = disk
  BY <1>5
<1>7. DataInv'
  BY <1>2, <1>3, <1>6 DEF DataInv, Still
<1>8. ASSUME proc.script = "repair_static", proc.i = 1
      PROVE  OpInv' /\ Fits(proc.script, proc.i)'
  <2>1. StaticFits(1) /\ disk.tx.op = "repair_static" /\ StaticInv
    BY <1>4, <1>8 DEF Fits, StaticFits, OpInv
  <2>2. proc'.script = "repair_static" /\ proc'.i = 2
    BY <1>2, <1>3, <1>8, Moved, Lengths
  <2>3. disk'.tx.op = "repair_static" /\ StaticInv' /\ StaticFits(2)'
    BY <1>3, <1>6, <2>1 DEF Same, Fields, Still, StaticInv, LoadedBefore, SameUnit, Back,
           Unfinished, Terminal, tx, Pages, StaticFits
  <2> QED
    BY <2>2, <2>3 DEF OpInv, Fits
<1>9. OpInv' /\ Fits(proc.script, proc.i)'
  BY <1>3, <1>4, <1>8 DEF Place
<1>10. /\ disk' \in Disks /\ disk'.tx.id = disk.tx.id /\ disk'.tx.backup \in {0, disk.tx.id}
       /\ \A b \in disk'.store : b \in disk.store \/ b.by = disk.tx.id
  BY <1>2, <1>6 DEF Same, Fields, LTypes
<1> QED
  BY <1>3, <1>4, <1>7, <1>9, <1>10, Landed

LEMMA SavePagesKeeps ==
  ASSUME LInv, SavePages
  PROVE  LInv'
<1>1. Do("save_pages", [disk EXCEPT !.saved = Live(disk).pages, !.tx.statics = TRUE])
  BY DEF SavePages
<1>2. LTypes /\ disk \in Disks /\ DataInv
  BY DEF LInv, LTypes
<1>3. Still /\ proc' = Advanced /\ ~Free /\ Place(proc.script, proc.i, "save_pages")
  BY <1>1, <1>2, Did
<1>4. OpInv /\ Fits(proc.script, proc.i) /\ disk.tx.id # 1
  BY <1>3, AtWork
<1>5. disk' = [disk EXCEPT !.saved = Live(disk).pages, !.tx.statics = TRUE]
  BY <1>1, <1>2, Did
<1>6. /\ disk' \in Disks /\ Same(disk, disk', {"saved", "tx"}) /\ KeepsTx({"statics"})
      /\ disk'.saved = disk.releases[before.state].pages /\ disk'.tx.statics = TRUE
  <2>1. disk.current = before.state /\ before.state \in Versions
    BY <1>3, <1>4 DEF Place, Fits, StaticFits, StaticBackFits, OpInv, StaticInv, LoadedBefore
  <2>2. PICK x \in Stamps : x = disk.releases[before.state].pages
    BY <1>2, <2>1 DEF Disks, Releases
  <2>3. PICK t \in Txs : t = [disk.tx EXCEPT !.statics = TRUE]
    BY <1>2 DEF Disks, Txs
  <2>4. t.statics = TRUE /\ \A f \in TxFields \ {"statics"} : t[f] = disk.tx[f]
    BY <1>2, <2>3 DEF Disks, Txs, TxFields
  <2>5. disk' = [disk EXCEPT !.saved = x, !.tx = t]
    BY <1>5, <2>1, <2>2, <2>3 DEF Live
  <2>6. disk' \in Disks /\ Same(disk, disk', {"saved", "tx"}) /\ disk'.saved = x /\ disk'.tx = t
    BY <1>2, <2>5 DEF Disks, Same, Fields
  <2> QED
    BY <2>2, <2>4, <2>6 DEF KeepsTx
<1>7. DataInv'
  BY <1>2, <1>3, <1>6 DEF DataInv, Same, Fields, KeepsTx, TxFields, Still
<1>8. ASSUME proc.script = "repair_static", proc.i = 2
      PROVE  OpInv' /\ Fits(proc.script, proc.i)'
  <2>1. StaticFits(2) /\ disk.tx.op = "repair_static" /\ StaticInv
    BY <1>4, <1>8 DEF Fits, StaticFits, OpInv
  <2>2. proc'.script = "repair_static" /\ proc'.i = 3
    BY <1>2, <1>3, <1>8, Moved, Lengths
  <2>3. disk'.tx.op = "repair_static" /\ StaticInv' /\ StaticFits(3)'
    BY <1>3, <1>6, <2>1 DEF Same, Fields, KeepsTx, TxFields, Still, StaticInv, LoadedBefore,
           SameUnit, Back, Unfinished, Terminal, tx, Pages, StaticFits
  <2> QED
    BY <2>2, <2>3 DEF OpInv, Fits
<1>9. OpInv' /\ Fits(proc.script, proc.i)'
  BY <1>3, <1>4, <1>8 DEF Place
<1>10. /\ disk' \in Disks /\ disk'.tx.id = disk.tx.id /\ disk'.tx.backup \in {0, disk.tx.id}
       /\ \A b \in disk'.store : b \in disk.store \/ b.by = disk.tx.id
  BY <1>2, <1>6 DEF Same, Fields, KeepsTx, TxFields, LTypes
<1> QED
  BY <1>3, <1>4, <1>7, <1>9, <1>10, Landed

LEMMA PagesOutKeeps ==
  ASSUME LInv, PagesOut
  PROVE  LInv'
<1>1. Do("pages_out", [disk EXCEPT !.releases[disk.current].pages = 0])
  BY DEF PagesOut
<1>2. LTypes /\ disk \in Disks /\ DataInv
  BY DEF LInv, LTypes
<1>3. Still /\ proc' = Advanced /\ ~Free /\ Place(proc.script, proc.i, "pages_out")
  BY <1>1, <1>2, Did
<1>4. OpInv /\ Fits(proc.script, proc.i) /\ disk.tx.id # 1
  BY <1>3, AtWork
<1>5. disk' = [disk EXCEPT !.releases[disk.current].pages = 0]
  BY <1>1, <1>2, Did
<1>6. /\ disk' \in Disks /\ Same(disk, disk', {"releases"}) /\ disk'.releases[before.state].pages = 0
      /\ \A g \in {"bin", "pages", "zip"} \ {"pages"} : disk'.releases[before.state][g] = disk.releases[before.state][g]
  <2>1. disk.current = before.state /\ before.state \in Versions
    BY <1>3, <1>4 DEF Place, Fits, StaticFits, StaticBackFits, OpInv, StaticInv, LoadedBefore
  <2>2. PICK x \in Stamps : x = 0
    BY <1>2, LifecycleAssumption DEF Disks, Txs, Stamps
  <2>3. disk' = [disk EXCEPT !.releases[before.state] = [disk.releases[before.state] EXCEPT !["pages"] = x]]
    BY <1>5, <2>1, <2>2 DEF tx
  <2>4. /\ disk' \in Disks /\ Same(disk, disk', {"releases"}) /\ disk'.releases[before.state]["pages"] = x
        /\ \A g \in {"bin", "pages", "zip"} \ {"pages"} : disk'.releases[before.state][g] = disk.releases[before.state][g]
    BY <1>2, <2>1, <2>3, SetsPart
  <2> QED
    BY <2>2, <2>4
<1>7. DataInv'
  BY <1>2, <1>3, <1>6 DEF DataInv, Same, Fields, Still
<1>8. ASSUME proc.script = "repair_static", proc.i = 5
      PROVE  OpInv' /\ Fits(proc.script, proc.i)'
  <2>1. StaticFits(5) /\ disk.tx.op = "repair_static" /\ StaticInv
    BY <1>4, <1>8 DEF Fits, StaticFits, OpInv
  <2>2. proc'.script = "repair_static" /\ proc'.i = 6
    BY <1>2, <1>3, <1>8, Moved, Lengths
  <2>3. disk'.tx.op = "repair_static" /\ StaticInv' /\ StaticFits(6)'
    BY <1>3, <1>6, <2>1 DEF Same, Fields, Still, StaticInv, LoadedBefore, SameUnit, Back,
           Unfinished, Terminal, tx, Pages, StaticFits
  <2> QED
    BY <2>2, <2>3 DEF OpInv, Fits
<1>9. OpInv' /\ Fits(proc.script, proc.i)'
  BY <1>3, <1>4, <1>8 DEF Place
<1>10. /\ disk' \in Disks /\ disk'.tx.id = disk.tx.id /\ disk'.tx.backup \in {0, disk.tx.id}
       /\ \A b \in disk'.store : b \in disk.store \/ b.by = disk.tx.id
  BY <1>2, <1>6 DEF Same, Fields, LTypes
<1> QED
  BY <1>3, <1>4, <1>7, <1>9, <1>10, Landed

LEMMA PagesInKeeps ==
  ASSUME LInv, PagesIn
  PROVE  LInv'
<1>1. Do("pages_in", [disk EXCEPT !.releases[disk.current].pages = tx.id])
  BY DEF PagesIn
<1>2. LTypes /\ disk \in Disks /\ DataInv
  BY DEF LInv, LTypes
<1>3. Still /\ proc' = Advanced /\ ~Free /\ Place(proc.script, proc.i, "pages_in")
  BY <1>1, <1>2, Did
<1>4. OpInv /\ Fits(proc.script, proc.i) /\ disk.tx.id # 1
  BY <1>3, AtWork
<1>5. disk' = [disk EXCEPT !.releases[disk.current].pages = tx.id]
  BY <1>1, <1>2, Did
<1>6. /\ disk' \in Disks /\ Same(disk, disk', {"releases"}) /\ disk'.releases[before.state].pages = disk.tx.id
      /\ \A g \in {"bin", "pages", "zip"} \ {"pages"} : disk'.releases[before.state][g] = disk.releases[before.state][g]
  <2>1. disk.current = before.state /\ before.state \in Versions
    BY <1>3, <1>4 DEF Place, Fits, StaticFits, StaticBackFits, OpInv, StaticInv, LoadedBefore
  <2>2. PICK x \in Stamps : x = disk.tx.id
    BY <1>2, LifecycleAssumption DEF Disks, Txs, Stamps
  <2>3. disk' = [disk EXCEPT !.releases[before.state] = [disk.releases[before.state] EXCEPT !["pages"] = x]]
    BY <1>5, <2>1, <2>2 DEF tx
  <2>4. /\ disk' \in Disks /\ Same(disk, disk', {"releases"}) /\ disk'.releases[before.state]["pages"] = x
        /\ \A g \in {"bin", "pages", "zip"} \ {"pages"} : disk'.releases[before.state][g] = disk.releases[before.state][g]
    BY <1>2, <2>1, <2>3, SetsPart
  <2> QED
    BY <2>2, <2>4
<1>7. DataInv'
  BY <1>2, <1>3, <1>6 DEF DataInv, Same, Fields, Still
<1>8. ASSUME proc.script = "repair_static", proc.i = 6
      PROVE  OpInv' /\ Fits(proc.script, proc.i)'
  <2>1. StaticFits(6) /\ disk.tx.op = "repair_static" /\ StaticInv
    BY <1>4, <1>8 DEF Fits, StaticFits, OpInv
  <2>2. proc'.script = "repair_static" /\ proc'.i = 7
    BY <1>2, <1>3, <1>8, Moved, Lengths
  <2>5. disk.tx.id # 0
    BY <1>2 DEF LTypes
  <2>3. disk'.tx.op = "repair_static" /\ StaticInv' /\ StaticFits(7)'
    BY <1>3, <1>6, <2>5, <2>1 DEF Same, Fields, Still, StaticInv, LoadedBefore, SameUnit, Back,
           Unfinished, Terminal, tx, Pages, StaticFits
  <2> QED
    BY <2>2, <2>3 DEF OpInv, Fits
<1>9. OpInv' /\ Fits(proc.script, proc.i)'
  BY <1>3, <1>4, <1>8 DEF Place
<1>10. /\ disk' \in Disks /\ disk'.tx.id = disk.tx.id /\ disk'.tx.backup \in {0, disk.tx.id}
       /\ \A b \in disk'.store : b \in disk.store \/ b.by = disk.tx.id
  BY <1>2, <1>6 DEF Same, Fields, LTypes
<1> QED
  BY <1>3, <1>4, <1>7, <1>9, <1>10, Landed

LEMMA PagesRemovedKeeps ==
  ASSUME LInv, PagesRemoved
  PROVE  LInv'
<1>1. Do("pages_rm", [disk EXCEPT !.releases[disk.current].pages = 0])
  BY DEF PagesRemoved
<1>2. LTypes /\ disk \in Disks /\ DataInv
  BY DEF LInv, LTypes
<1>3. Still /\ proc' = Advanced /\ ~Free /\ Place(proc.script, proc.i, "pages_rm")
  BY <1>1, <1>2, Did
<1>4. OpInv /\ Fits(proc.script, proc.i) /\ disk.tx.id # 1
  BY <1>3, AtWork
<1>5. disk' = [disk EXCEPT !.releases[disk.current].pages = 0]
  BY <1>1, <1>2, Did
<1>6. /\ disk' \in Disks /\ Same(disk, disk', {"releases"}) /\ disk'.releases[before.state].pages = 0
      /\ \A g \in {"bin", "pages", "zip"} \ {"pages"} : disk'.releases[before.state][g] = disk.releases[before.state][g]
  <2>1. disk.current = before.state /\ before.state \in Versions
    BY <1>3, <1>4 DEF Place, Fits, StaticFits, StaticBackFits, OpInv, StaticInv, LoadedBefore
  <2>2. PICK x \in Stamps : x = 0
    BY <1>2, LifecycleAssumption DEF Disks, Txs, Stamps
  <2>3. disk' = [disk EXCEPT !.releases[before.state] = [disk.releases[before.state] EXCEPT !["pages"] = x]]
    BY <1>5, <2>1, <2>2 DEF tx
  <2>4. /\ disk' \in Disks /\ Same(disk, disk', {"releases"}) /\ disk'.releases[before.state]["pages"] = x
        /\ \A g \in {"bin", "pages", "zip"} \ {"pages"} : disk'.releases[before.state][g] = disk.releases[before.state][g]
    BY <1>2, <2>1, <2>3, SetsPart
  <2> QED
    BY <2>2, <2>4
<1>7. DataInv'
  BY <1>2, <1>3, <1>6 DEF DataInv, Same, Fields, Still
<1>8. ASSUME proc.script = "static_back", proc.i = 1
      PROVE  OpInv' /\ Fits(proc.script, proc.i)'
  <2>1. StaticBackFits(1) /\ disk.tx.op = "repair_static" /\ StaticInv
    BY <1>4, <1>8 DEF Fits, StaticBackFits, OpInv
  <2>2. proc'.script = "static_back" /\ proc'.i = 2
    BY <1>2, <1>3, <1>8, Moved, Lengths
  <2>3. disk'.tx.op = "repair_static" /\ StaticInv' /\ StaticBackFits(2)'
    BY <1>3, <1>6, <2>1 DEF Same, Fields, Still, StaticInv, LoadedBefore, SameUnit, Back,
           Unfinished, Terminal, tx, Pages, StaticBackFits
  <2> QED
    BY <2>2, <2>3 DEF OpInv, Fits
<1>9. ASSUME proc.script = "recover_static", proc.i = 1
      PROVE  OpInv' /\ Fits(proc.script, proc.i)'
  <2>1. StaticBackFits(1) /\ disk.tx.op = "repair_static" /\ StaticInv
    BY <1>4, <1>9 DEF Fits, StaticBackFits, OpInv
  <2>2. proc'.script = "recover_static" /\ proc'.i = 2
    BY <1>2, <1>3, <1>9, Moved, Lengths
  <2>3. disk'.tx.op = "repair_static" /\ StaticInv' /\ StaticBackFits(2)'
    BY <1>3, <1>6, <2>1 DEF Same, Fields, Still, StaticInv, LoadedBefore, SameUnit, Back,
           Unfinished, Terminal, tx, Pages, StaticBackFits
  <2> QED
    BY <2>2, <2>3 DEF OpInv, Fits
<1>10. OpInv' /\ Fits(proc.script, proc.i)'
  BY <1>3, <1>4, <1>8, <1>9 DEF Place
<1>11. /\ disk' \in Disks /\ disk'.tx.id = disk.tx.id /\ disk'.tx.backup \in {0, disk.tx.id}
       /\ \A b \in disk'.store : b \in disk.store \/ b.by = disk.tx.id
  BY <1>2, <1>6 DEF Same, Fields, LTypes
<1> QED
  BY <1>3, <1>4, <1>7, <1>10, <1>11, Landed

LEMMA PagesBackKeeps ==
  ASSUME LInv, PagesBack
  PROVE  LInv'
<1>1. Do("pages_copy", [disk EXCEPT !.releases[disk.current].pages = disk.saved])
  BY DEF PagesBack
<1>2. LTypes /\ disk \in Disks /\ DataInv
  BY DEF LInv, LTypes
<1>3. Still /\ proc' = Advanced /\ ~Free /\ Place(proc.script, proc.i, "pages_copy")
  BY <1>1, <1>2, Did
<1>4. OpInv /\ Fits(proc.script, proc.i) /\ disk.tx.id # 1
  BY <1>3, AtWork
<1>5. disk' = [disk EXCEPT !.releases[disk.current].pages = disk.saved]
  BY <1>1, <1>2, Did
<1>6. /\ disk' \in Disks /\ Same(disk, disk', {"releases"}) /\ disk'.releases[before.state].pages = disk.saved
      /\ \A g \in {"bin", "pages", "zip"} \ {"pages"} : disk'.releases[before.state][g] = disk.releases[before.state][g]
  <2>1. disk.current = before.state /\ before.state \in Versions
    BY <1>3, <1>4 DEF Place, Fits, StaticFits, StaticBackFits, OpInv, StaticInv, LoadedBefore
  <2>2. PICK x \in Stamps : x = disk.saved
    BY <1>2, LifecycleAssumption DEF Disks, Txs, Stamps
  <2>3. disk' = [disk EXCEPT !.releases[before.state] = [disk.releases[before.state] EXCEPT !["pages"] = x]]
    BY <1>5, <2>1, <2>2 DEF tx
  <2>4. /\ disk' \in Disks /\ Same(disk, disk', {"releases"}) /\ disk'.releases[before.state]["pages"] = x
        /\ \A g \in {"bin", "pages", "zip"} \ {"pages"} : disk'.releases[before.state][g] = disk.releases[before.state][g]
    BY <1>2, <2>1, <2>3, SetsPart
  <2> QED
    BY <2>2, <2>4
<1>7. DataInv'
  BY <1>2, <1>3, <1>6 DEF DataInv, Same, Fields, Still
<1>8. ASSUME proc.script = "static_back", proc.i = 2
      PROVE  OpInv' /\ Fits(proc.script, proc.i)'
  <2>1. StaticBackFits(2) /\ disk.tx.op = "repair_static" /\ StaticInv
    BY <1>4, <1>8 DEF Fits, StaticBackFits, OpInv
  <2>2. proc'.script = "static_back" /\ proc'.i = 3
    BY <1>2, <1>3, <1>8, Moved, Lengths
  <2>3. disk'.tx.op = "repair_static" /\ StaticInv' /\ StaticBackFits(3)'
    BY <1>3, <1>6, <2>1 DEF Same, Fields, Still, StaticInv, LoadedBefore, SameUnit, Back,
           Unfinished, Terminal, tx, Pages, StaticBackFits
  <2> QED
    BY <2>2, <2>3 DEF OpInv, Fits
<1>9. ASSUME proc.script = "recover_static", proc.i = 2
      PROVE  OpInv' /\ Fits(proc.script, proc.i)'
  <2>1. StaticBackFits(2) /\ disk.tx.op = "repair_static" /\ StaticInv
    BY <1>4, <1>9 DEF Fits, StaticBackFits, OpInv
  <2>2. proc'.script = "recover_static" /\ proc'.i = 3
    BY <1>2, <1>3, <1>9, Moved, Lengths
  <2>3. disk'.tx.op = "repair_static" /\ StaticInv' /\ StaticBackFits(3)'
    BY <1>3, <1>6, <2>1 DEF Same, Fields, Still, StaticInv, LoadedBefore, SameUnit, Back,
           Unfinished, Terminal, tx, Pages, StaticBackFits
  <2> QED
    BY <2>2, <2>3 DEF OpInv, Fits
<1>10. OpInv' /\ Fits(proc.script, proc.i)'
  BY <1>3, <1>4, <1>8, <1>9 DEF Place
<1>11. /\ disk' \in Disks /\ disk'.tx.id = disk.tx.id /\ disk'.tx.backup \in {0, disk.tx.id}
       /\ \A b \in disk'.store : b \in disk.store \/ b.by = disk.tx.id
  BY <1>2, <1>6 DEF Same, Fields, LTypes
<1> QED
  BY <1>3, <1>4, <1>7, <1>10, <1>11, Landed

LEMMA SaveBinaryKeeps ==
  ASSUME LInv, SaveBinary
  PROVE  LInv'
<1>1. Do("save_binary", [disk EXCEPT !.saved = Live(disk).bin])
  BY DEF SaveBinary
<1>2. LTypes /\ disk \in Disks /\ DataInv
  BY DEF LInv, LTypes
<1>3. Still /\ proc' = Advanced /\ ~Free /\ Place(proc.script, proc.i, "save_binary")
  BY <1>1, <1>2, Did
<1>4. OpInv /\ Fits(proc.script, proc.i) /\ disk.tx.id # 1
  BY <1>3, AtWork
<1>5. disk' = [disk EXCEPT !.saved = Live(disk).bin]
  BY <1>1, <1>2, Did
<1>6. disk' \in Disks /\ Same(disk, disk', {"saved"})
  <2>1. disk.current = before.state /\ before.state \in Versions
    BY <1>3, <1>4 DEF Place, Fits, BinaryFits, OpInv, BinaryInv, LoadedBefore
  <2>2. PICK x \in Stamps : x = disk.releases[before.state].bin
    BY <1>2, <2>1 DEF Disks, Releases
  <2>3. disk' = [disk EXCEPT !.saved = x]
    BY <1>5, <2>1, <2>2 DEF Live
  <2> QED
    BY <1>2, <2>3, SetsSaved
<1>7. DataInv'
  BY <1>2, <1>3, <1>6 DEF DataInv, Same, Fields, Still
<1>8. ASSUME proc.script = "repair_binary", proc.i = 1
      PROVE  OpInv' /\ Fits(proc.script, proc.i)'
  <2>1. BinaryFits(1) /\ disk.tx.op = "repair_binary" /\ BinaryInv
    BY <1>4, <1>8 DEF Fits, BinaryFits, OpInv
  <2>2. proc'.script = "repair_binary" /\ proc'.i = 2
    BY <1>2, <1>3, <1>8, Moved, Lengths
  <2>3. disk'.tx.op = "repair_binary" /\ BinaryInv' /\ BinaryFits(2)'
    BY <1>3, <1>6, <2>1 DEF Same, Fields, Still, BinaryInv, LoadedBefore, Marked, Back, Early, EarlyPhases,
           BinaryFits
  <2> QED
    BY <2>2, <2>3 DEF OpInv, Fits
<1>9. OpInv' /\ Fits(proc.script, proc.i)'
  BY <1>3, <1>4, <1>8 DEF Place
<1>10. /\ disk' \in Disks /\ disk'.tx.id = disk.tx.id /\ disk'.tx.backup \in {0, disk.tx.id}
       /\ \A b \in disk'.store : b \in disk.store \/ b.by = disk.tx.id
  BY <1>2, <1>6 DEF Same, Fields, LTypes
<1> QED
  BY <1>3, <1>4, <1>7, <1>9, <1>10, Landed

LEMMA ReplaceBinaryKeeps ==
  ASSUME LInv, ReplaceBinary
  PROVE  LInv'
<1>1. Do("replace_binary", [disk EXCEPT !.releases[tx.from].bin = tx.id])
  BY DEF ReplaceBinary
<1>2. LTypes /\ disk \in Disks /\ DataInv
  BY DEF LInv, LTypes
<1>3. Still /\ proc' = Advanced /\ ~Free /\ Place(proc.script, proc.i, "replace_binary")
  BY <1>1, <1>2, Did
<1>4. OpInv /\ Fits(proc.script, proc.i) /\ disk.tx.id # 1
  BY <1>3, AtWork
<1>5. disk' = [disk EXCEPT !.releases[tx.from].bin = tx.id]
  BY <1>1, <1>2, Did
<1>6. /\ disk' \in Disks /\ Same(disk, disk', {"releases"}) /\ disk'.releases[before.state].bin = disk.tx.id
      /\ \A g \in {"bin", "pages", "zip"} \ {"bin"} : disk'.releases[before.state][g] = disk.releases[before.state][g]
  <2>1. disk.tx.from = before.state /\ before.state \in Versions
    BY <1>3, <1>4 DEF Place, Fits, BinaryFits, OpInv, BinaryInv, LoadedBefore
  <2>2. PICK x \in Stamps : x = disk.tx.id
    BY <1>2 DEF Disks, Txs
  <2>3. disk' = [disk EXCEPT !.releases[before.state] = [disk.releases[before.state] EXCEPT !["bin"] = x]]
    BY <1>5, <2>1, <2>2 DEF tx
  <2>4. /\ disk' \in Disks /\ Same(disk, disk', {"releases"}) /\ disk'.releases[before.state]["bin"] = x
        /\ \A g \in {"bin", "pages", "zip"} \ {"bin"} : disk'.releases[before.state][g] = disk.releases[before.state][g]
    BY <1>2, <2>1, <2>3, SetsPart
  <2> QED
    BY <2>2, <2>4
<1>7. DataInv'
  BY <1>2, <1>3, <1>6 DEF DataInv, Same, Fields, Still
<1>8. ASSUME proc.script = "repair_binary", proc.i = 9
      PROVE  OpInv' /\ Fits(proc.script, proc.i)'
  <2>1. BinaryFits(9) /\ disk.tx.op = "repair_binary" /\ BinaryInv
    BY <1>4, <1>8 DEF Fits, BinaryFits, OpInv
  <2>2. proc'.script = "repair_binary" /\ proc'.i = 10
    BY <1>2, <1>3, <1>8, Moved, Lengths
  <2>5. disk.tx.id # 0
    BY <1>2 DEF LTypes
  <2>3. disk'.tx.op = "repair_binary" /\ BinaryInv' /\ BinaryFits(10)'
    BY <1>3, <1>6, <2>5, <2>1 DEF Same, Fields, Still, BinaryInv, LoadedBefore, Marked, Back, Early, EarlyPhases,
           BinaryFits
  <2> QED
    BY <2>2, <2>3 DEF OpInv, Fits
<1>9. OpInv' /\ Fits(proc.script, proc.i)'
  BY <1>3, <1>4, <1>8 DEF Place
<1>10. /\ disk' \in Disks /\ disk'.tx.id = disk.tx.id /\ disk'.tx.backup \in {0, disk.tx.id}
       /\ \A b \in disk'.store : b \in disk.store \/ b.by = disk.tx.id
  BY <1>2, <1>6 DEF Same, Fields, LTypes
<1> QED
  BY <1>3, <1>4, <1>7, <1>9, <1>10, Landed

-----------------------------------------------------------------------------
(* The steps: marks *)

LEMMA MarkPreparedKeeps ==
  ASSUME LInv, Do("prepared", [disk EXCEPT !.tx.phase = "prepared"])
  PROVE  LInv'
<1>1. Do("prepared", [disk EXCEPT !.tx.phase = "prepared"])
  OBVIOUS
<1>2. LTypes /\ disk \in Disks /\ DataInv
  BY DEF LInv, LTypes
<1>3. Still /\ proc' = Advanced /\ ~Free /\ Place(proc.script, proc.i, "prepared")
  BY <1>1, <1>2, Did
<1>4. OpInv /\ Fits(proc.script, proc.i) /\ disk.tx.id # 1
  BY <1>3, AtWork
<1>5. disk' = [disk EXCEPT !.tx.phase = "prepared"]
  BY <1>1, <1>2, Did
<1>6. disk' \in Disks /\ Same(disk, disk', {"tx"}) /\ KeepsTx({"phase"}) /\ disk'.tx.phase = "prepared"
  <2>1. "prepared" \in Phases
    BY DEF Phases
  <2> QED
    BY <1>2, <1>5, <2>1, SetsTxPhase
<1>7. DataInv'
  BY <1>2, <1>3, <1>6 DEF DataInv, Same, Fields, KeepsTx, TxFields, Still
<1>8. ASSUME proc.script = "install", proc.i = 4
      PROVE  OpInv' /\ Fits(proc.script, proc.i)'
  <2>1. InstallFits(4) /\ disk.tx.op = "install" /\ InstallInv
    BY <1>4, <1>8 DEF Fits, InstallFits, OpInv
  <2>2. proc'.script = "install" /\ proc'.i = 5
    BY <1>2, <1>3, <1>8, Moved, Lengths
  <2>3. disk'.tx.op = "install" /\ InstallInv' /\ InstallFits(5)'
    BY <1>3, <1>6, <2>1 DEF Same, Fields, KeepsTx, TxFields, Still, InstallInv, SameUnit,
           MarkedWell, Marked, Done, InstallFits, Terminal
  <2> QED
    BY <2>2, <2>3 DEF OpInv, Fits
<1>9. ASSUME proc.script = "restore", proc.i = 5
      PROVE  OpInv' /\ Fits(proc.script, proc.i)'
  <2>1. RestoreFits(5) /\ disk.tx.op = "restore" /\ RestoreInv
    BY <1>4, <1>9 DEF Fits, RestoreFits, OpInv
  <2>2. proc'.script = "restore" /\ proc'.i = 6
    BY <1>2, <1>3, <1>9, Moved, Lengths
  <2>3. disk'.tx.op = "restore" /\ RestoreInv' /\ RestoreFits(6)'
    BY <1>3, <1>6, <2>1 DEF Same, Fields, KeepsTx, TxFields, Still, RestoreInv, LoadedBefore,
           MarkedWell, Marked, Early, EarlyPhases, LatePhases, OldInPlace, SameUnit, Back,
           OldSaved, Stands, RestoreFits, Bare, AsideDone
  <2> QED
    BY <2>2, <2>3 DEF OpInv, Fits
<1>10. ASSUME proc.script = "repair_static", proc.i = 3
      PROVE  OpInv' /\ Fits(proc.script, proc.i)'
  <2>1. StaticFits(3) /\ disk.tx.op = "repair_static" /\ StaticInv
    BY <1>4, <1>10 DEF Fits, StaticFits, OpInv
  <2>2. proc'.script = "repair_static" /\ proc'.i = 4
    BY <1>2, <1>3, <1>10, Moved, Lengths
  <2>3. disk'.tx.op = "repair_static" /\ StaticInv' /\ StaticFits(4)'
    BY <1>3, <1>6, <2>1 DEF Same, Fields, KeepsTx, TxFields, Still, StaticInv, LoadedBefore,
           SameUnit, Back, Unfinished, Terminal, tx, Pages, StaticFits
  <2> QED
    BY <2>2, <2>3 DEF OpInv, Fits
<1>11. ASSUME proc.script = "repair_binary", proc.i = 5
      PROVE  OpInv' /\ Fits(proc.script, proc.i)'
  <2>1. BinaryFits(5) /\ disk.tx.op = "repair_binary" /\ BinaryInv
    BY <1>4, <1>11 DEF Fits, BinaryFits, OpInv
  <2>2. proc'.script = "repair_binary" /\ proc'.i = 6
    BY <1>2, <1>3, <1>11, Moved, Lengths
  <2>3. disk'.tx.op = "repair_binary" /\ BinaryInv' /\ BinaryFits(6)'
    BY <1>3, <1>6, <2>1 DEF Same, Fields, KeepsTx, TxFields, Still, BinaryInv, LoadedBefore, Marked, Back, Early,
           EarlyPhases, BinaryFits
  <2> QED
    BY <2>2, <2>3 DEF OpInv, Fits
<1>12. OpInv' /\ Fits(proc.script, proc.i)'
  BY <1>3, <1>4, <1>8, <1>9, <1>10, <1>11 DEF Place
<1>13. /\ disk' \in Disks /\ disk'.tx.id = disk.tx.id /\ disk'.tx.backup \in {0, disk.tx.id}
       /\ \A b \in disk'.store : b \in disk.store \/ b.by = disk.tx.id
  BY <1>2, <1>6 DEF Same, Fields, KeepsTx, TxFields, LTypes
<1> QED
  BY <1>3, <1>4, <1>7, <1>12, <1>13, Landed

LEMMA MarkStoppingKeeps ==
  ASSUME LInv, Do("stopping", [disk EXCEPT !.tx.phase = "stopping"])
  PROVE  LInv'
<1>1. Do("stopping", [disk EXCEPT !.tx.phase = "stopping"])
  OBVIOUS
<1>2. LTypes /\ disk \in Disks /\ DataInv
  BY DEF LInv, LTypes
<1>3. Still /\ proc' = Advanced /\ ~Free /\ Place(proc.script, proc.i, "stopping")
  BY <1>1, <1>2, Did
<1>4. OpInv /\ Fits(proc.script, proc.i) /\ disk.tx.id # 1
  BY <1>3, AtWork
<1>5. disk' = [disk EXCEPT !.tx.phase = "stopping"]
  BY <1>1, <1>2, Did
<1>6. disk' \in Disks /\ Same(disk, disk', {"tx"}) /\ KeepsTx({"phase"}) /\ disk'.tx.phase = "stopping"
  <2>1. "stopping" \in Phases
    BY DEF Phases
  <2> QED
    BY <1>2, <1>5, <2>1, SetsTxPhase
<1>7. DataInv'
  BY <1>2, <1>3, <1>6 DEF DataInv, Same, Fields, KeepsTx, TxFields, Still
<1>8. ASSUME proc.script = "restore", proc.i = 6
      PROVE  OpInv' /\ Fits(proc.script, proc.i)'
  <2>1. RestoreFits(6) /\ disk.tx.op = "restore" /\ RestoreInv
    BY <1>4, <1>8 DEF Fits, RestoreFits, OpInv
  <2>2. proc'.script = "restore" /\ proc'.i = 7
    BY <1>2, <1>3, <1>8, Moved, Lengths
  <2>3. disk'.tx.op = "restore" /\ RestoreInv' /\ RestoreFits(7)'
    BY <1>3, <1>6, <2>1 DEF Same, Fields, KeepsTx, TxFields, Still, RestoreInv, LoadedBefore,
           MarkedWell, Marked, Early, EarlyPhases, LatePhases, OldInPlace, SameUnit, Back,
           OldSaved, Stands, RestoreFits, Bare, AsideDone
  <2> QED
    BY <2>2, <2>3 DEF OpInv, Fits
<1>9. ASSUME proc.script = "uninstall", proc.i = 3
      PROVE  OpInv' /\ Fits(proc.script, proc.i)'
  <2>1. UninstallFits(3) /\ disk.tx.op = "uninstall" /\ UninstallInv
    BY <1>4, <1>9 DEF Fits, UninstallFits, OpInv
  <2>2. proc'.script = "uninstall" /\ proc'.i = 4
    BY <1>2, <1>3, <1>9, Moved, Lengths
  <2>3. disk'.tx.op = "uninstall" /\ UninstallInv' /\ UninstallFits(4)'
    BY <1>3, <1>6, <2>1 DEF Same, Fields, KeepsTx, TxFields, Still, UninstallInv, LoadedBefore, OldInPlace, SameUnit, Back, Early,
           Protection, Gone, UninstallFits, Terminal, Bare
  <2> QED
    BY <2>2, <2>3 DEF OpInv, Fits
<1>10. ASSUME proc.script = "repair_binary", proc.i = 6
      PROVE  OpInv' /\ Fits(proc.script, proc.i)'
  <2>1. BinaryFits(6) /\ disk.tx.op = "repair_binary" /\ BinaryInv
    BY <1>4, <1>10 DEF Fits, BinaryFits, OpInv
  <2>2. proc'.script = "repair_binary" /\ proc'.i = 7
    BY <1>2, <1>3, <1>10, Moved, Lengths
  <2>3. disk'.tx.op = "repair_binary" /\ BinaryInv' /\ BinaryFits(7)'
    BY <1>3, <1>6, <2>1 DEF Same, Fields, KeepsTx, TxFields, Still, BinaryInv, LoadedBefore, Marked, Back, Early,
           EarlyPhases, BinaryFits
  <2> QED
    BY <2>2, <2>3 DEF OpInv, Fits
<1>11. OpInv' /\ Fits(proc.script, proc.i)'
  BY <1>3, <1>4, <1>8, <1>9, <1>10 DEF Place
<1>12. /\ disk' \in Disks /\ disk'.tx.id = disk.tx.id /\ disk'.tx.backup \in {0, disk.tx.id}
       /\ \A b \in disk'.store : b \in disk.store \/ b.by = disk.tx.id
  BY <1>2, <1>6 DEF Same, Fields, KeepsTx, TxFields, LTypes
<1> QED
  BY <1>3, <1>4, <1>7, <1>11, <1>12, Landed

LEMMA MarkActivatingKeeps ==
  ASSUME LInv, Do("activating", [disk EXCEPT !.tx.phase = "activating"])
  PROVE  LInv'
<1>1. Do("activating", [disk EXCEPT !.tx.phase = "activating"])
  OBVIOUS
<1>2. LTypes /\ disk \in Disks /\ DataInv
  BY DEF LInv, LTypes
<1>3. Still /\ proc' = Advanced /\ ~Free /\ Place(proc.script, proc.i, "activating")
  BY <1>1, <1>2, Did
<1>4. OpInv /\ Fits(proc.script, proc.i) /\ disk.tx.id # 1
  BY <1>3, AtWork
<1>5. disk' = [disk EXCEPT !.tx.phase = "activating"]
  BY <1>1, <1>2, Did
<1>6. disk' \in Disks /\ Same(disk, disk', {"tx"}) /\ KeepsTx({"phase"}) /\ disk'.tx.phase = "activating"
  <2>1. "activating" \in Phases
    BY DEF Phases
  <2> QED
    BY <1>2, <1>5, <2>1, SetsTxPhase
<1>7. DataInv'
  BY <1>2, <1>3, <1>6 DEF DataInv, Same, Fields, KeepsTx, TxFields, Still
<1>8. ASSUME proc.script = "install", proc.i = 5
      PROVE  OpInv' /\ Fits(proc.script, proc.i)'
  <2>1. InstallFits(5) /\ disk.tx.op = "install" /\ InstallInv
    BY <1>4, <1>8 DEF Fits, InstallFits, OpInv
  <2>2. proc'.script = "install" /\ proc'.i = 6
    BY <1>2, <1>3, <1>8, Moved, Lengths
  <2>3. disk'.tx.op = "install" /\ InstallInv' /\ InstallFits(6)'
    BY <1>3, <1>6, <2>1 DEF Same, Fields, KeepsTx, TxFields, Still, InstallInv, SameUnit,
           MarkedWell, Marked, Done, InstallFits, Terminal
  <2> QED
    BY <2>2, <2>3 DEF OpInv, Fits
<1>9. ASSUME proc.script = "restore", proc.i = 8
      PROVE  OpInv' /\ Fits(proc.script, proc.i)'
  <2>1. RestoreFits(8) /\ disk.tx.op = "restore" /\ RestoreInv
    BY <1>4, <1>9 DEF Fits, RestoreFits, OpInv
  <2>2. proc'.script = "restore" /\ proc'.i = 9
    BY <1>2, <1>3, <1>9, Moved, Lengths
  <2>3. disk'.tx.op = "restore" /\ RestoreInv' /\ RestoreFits(9)'
    BY <1>3, <1>6, <2>1 DEF Same, Fields, KeepsTx, TxFields, Still, RestoreInv, LoadedBefore,
           MarkedWell, Marked, Early, EarlyPhases, LatePhases, OldInPlace, SameUnit, Back,
           OldSaved, Stands, RestoreFits, Bare, AsideDone
  <2> QED
    BY <2>2, <2>3 DEF OpInv, Fits
<1>10. ASSUME proc.script = "uninstall", proc.i = 5
      PROVE  OpInv' /\ Fits(proc.script, proc.i)'
  <2>1. UninstallFits(5) /\ disk.tx.op = "uninstall" /\ UninstallInv
    BY <1>4, <1>10 DEF Fits, UninstallFits, OpInv
  <2>2. proc'.script = "uninstall" /\ proc'.i = 6
    BY <1>2, <1>3, <1>10, Moved, Lengths
  <2>3. disk'.tx.op = "uninstall" /\ UninstallInv' /\ UninstallFits(6)'
    BY <1>3, <1>6, <2>1 DEF Same, Fields, KeepsTx, TxFields, Still, UninstallInv, LoadedBefore, OldInPlace, SameUnit, Back, Early,
           Protection, Gone, UninstallFits, Terminal, Bare
  <2> QED
    BY <2>2, <2>3 DEF OpInv, Fits
<1>11. ASSUME proc.script = "repair_static", proc.i = 4
      PROVE  OpInv' /\ Fits(proc.script, proc.i)'
  <2>1. StaticFits(4) /\ disk.tx.op = "repair_static" /\ StaticInv
    BY <1>4, <1>11 DEF Fits, StaticFits, OpInv
  <2>2. proc'.script = "repair_static" /\ proc'.i = 5
    BY <1>2, <1>3, <1>11, Moved, Lengths
  <2>3. disk'.tx.op = "repair_static" /\ StaticInv' /\ StaticFits(5)'
    BY <1>3, <1>6, <2>1 DEF Same, Fields, KeepsTx, TxFields, Still, StaticInv, LoadedBefore,
           SameUnit, Back, Unfinished, Terminal, tx, Pages, StaticFits
  <2> QED
    BY <2>2, <2>3 DEF OpInv, Fits
<1>12. ASSUME proc.script = "repair_binary", proc.i = 8
      PROVE  OpInv' /\ Fits(proc.script, proc.i)'
  <2>1. BinaryFits(8) /\ disk.tx.op = "repair_binary" /\ BinaryInv
    BY <1>4, <1>12 DEF Fits, BinaryFits, OpInv
  <2>2. proc'.script = "repair_binary" /\ proc'.i = 9
    BY <1>2, <1>3, <1>12, Moved, Lengths
  <2>3. disk'.tx.op = "repair_binary" /\ BinaryInv' /\ BinaryFits(9)'
    BY <1>3, <1>6, <2>1 DEF Same, Fields, KeepsTx, TxFields, Still, BinaryInv, LoadedBefore, Marked, Back, Early,
           EarlyPhases, BinaryFits
  <2> QED
    BY <2>2, <2>3 DEF OpInv, Fits
<1>13. OpInv' /\ Fits(proc.script, proc.i)'
  BY <1>3, <1>4, <1>8, <1>9, <1>10, <1>11, <1>12 DEF Place
<1>14. /\ disk' \in Disks /\ disk'.tx.id = disk.tx.id /\ disk'.tx.backup \in {0, disk.tx.id}
       /\ \A b \in disk'.store : b \in disk.store \/ b.by = disk.tx.id
  BY <1>2, <1>6 DEF Same, Fields, KeepsTx, TxFields, LTypes
<1> QED
  BY <1>3, <1>4, <1>7, <1>13, <1>14, Landed

LEMMA MarkVerifyingKeeps ==
  ASSUME LInv, Do("verifying", [disk EXCEPT !.tx.phase = "verifying"])
  PROVE  LInv'
<1>1. Do("verifying", [disk EXCEPT !.tx.phase = "verifying"])
  OBVIOUS
<1>2. LTypes /\ disk \in Disks /\ DataInv
  BY DEF LInv, LTypes
<1>3. Still /\ proc' = Advanced /\ ~Free /\ Place(proc.script, proc.i, "verifying")
  BY <1>1, <1>2, Did
<1>4. OpInv /\ Fits(proc.script, proc.i) /\ disk.tx.id # 1
  BY <1>3, AtWork
<1>5. disk' = [disk EXCEPT !.tx.phase = "verifying"]
  BY <1>1, <1>2, Did
<1>6. disk' \in Disks /\ Same(disk, disk', {"tx"}) /\ KeepsTx({"phase"}) /\ disk'.tx.phase = "verifying"
  <2>1. "verifying" \in Phases
    BY DEF Phases
  <2> QED
    BY <1>2, <1>5, <2>1, SetsTxPhase
<1>7. DataInv'
  BY <1>2, <1>3, <1>6 DEF DataInv, Same, Fields, KeepsTx, TxFields, Still
<1>8. ASSUME proc.script = "install", proc.i = 9
      PROVE  OpInv' /\ Fits(proc.script, proc.i)'
  <2>1. InstallFits(9) /\ disk.tx.op = "install" /\ InstallInv
    BY <1>4, <1>8 DEF Fits, InstallFits, OpInv
  <2>2. proc'.script = "install" /\ proc'.i = 10
    BY <1>2, <1>3, <1>8, Moved, Lengths
  <2>3. disk'.tx.op = "install" /\ InstallInv' /\ InstallFits(10)'
    BY <1>3, <1>6, <2>1 DEF Same, Fields, KeepsTx, TxFields, Still, InstallInv, SameUnit,
           MarkedWell, Marked, Done, InstallFits, Terminal
  <2> QED
    BY <2>2, <2>3 DEF OpInv, Fits
<1>9. ASSUME proc.script = "restore", proc.i = 16
      PROVE  OpInv' /\ Fits(proc.script, proc.i)'
  <2>1. RestoreFits(16) /\ disk.tx.op = "restore" /\ RestoreInv
    BY <1>4, <1>9 DEF Fits, RestoreFits, OpInv
  <2>2. proc'.script = "restore" /\ proc'.i = 17
    BY <1>2, <1>3, <1>9, Moved, Lengths
  <2>3. disk'.tx.op = "restore" /\ RestoreInv' /\ RestoreFits(17)'
    BY <1>3, <1>6, <2>1 DEF Same, Fields, KeepsTx, TxFields, Still, RestoreInv, LoadedBefore,
           MarkedWell, Marked, Early, EarlyPhases, LatePhases, OldInPlace, SameUnit, Back,
           OldSaved, Stands, RestoreFits, Bare, AsideDone
  <2> QED
    BY <2>2, <2>3 DEF OpInv, Fits
<1>10. ASSUME proc.script = "repair_binary", proc.i = 11
      PROVE  OpInv' /\ Fits(proc.script, proc.i)'
  <2>1. BinaryFits(11) /\ disk.tx.op = "repair_binary" /\ BinaryInv
    BY <1>4, <1>10 DEF Fits, BinaryFits, OpInv
  <2>2. proc'.script = "repair_binary" /\ proc'.i = 12
    BY <1>2, <1>3, <1>10, Moved, Lengths
  <2>3. disk'.tx.op = "repair_binary" /\ BinaryInv' /\ BinaryFits(12)'
    BY <1>3, <1>6, <2>1 DEF Same, Fields, KeepsTx, TxFields, Still, BinaryInv, LoadedBefore, Marked, Back, Early,
           EarlyPhases, BinaryFits
  <2> QED
    BY <2>2, <2>3 DEF OpInv, Fits
<1>11. OpInv' /\ Fits(proc.script, proc.i)'
  BY <1>3, <1>4, <1>8, <1>9, <1>10 DEF Place
<1>12. /\ disk' \in Disks /\ disk'.tx.id = disk.tx.id /\ disk'.tx.backup \in {0, disk.tx.id}
       /\ \A b \in disk'.store : b \in disk.store \/ b.by = disk.tx.id
  BY <1>2, <1>6 DEF Same, Fields, KeepsTx, TxFields, LTypes
<1> QED
  BY <1>3, <1>4, <1>7, <1>11, <1>12, Landed

LEMMA MarkRollingBackKeeps ==
  ASSUME LInv, Do("rolling_back", [disk EXCEPT !.tx.phase = "rolling_back"])
  PROVE  LInv'
<1>1. Do("rolling_back", [disk EXCEPT !.tx.phase = "rolling_back"])
  OBVIOUS
<1>2. LTypes /\ disk \in Disks /\ DataInv
  BY DEF LInv, LTypes
<1>3. Still /\ proc' = Advanced /\ ~Free /\ Place(proc.script, proc.i, "rolling_back")
  BY <1>1, <1>2, Did
<1>4. OpInv /\ Fits(proc.script, proc.i) /\ disk.tx.id # 1
  BY <1>3, AtWork
<1>5. disk' = [disk EXCEPT !.tx.phase = "rolling_back"]
  BY <1>1, <1>2, Did
<1>6. disk' \in Disks /\ Same(disk, disk', {"tx"}) /\ KeepsTx({"phase"}) /\ disk'.tx.phase = "rolling_back"
  <2>1. "rolling_back" \in Phases
    BY DEF Phases
  <2> QED
    BY <1>2, <1>5, <2>1, SetsTxPhase
<1>7. DataInv'
  BY <1>2, <1>3, <1>6 DEF DataInv, Same, Fields, KeepsTx, TxFields, Still
<1>8. ASSUME proc.script = "rollback_restore", proc.i = 1
      PROVE  OpInv' /\ Fits(proc.script, proc.i)'
  <2>1. RollbackRestoreFits(1) /\ disk.tx.op = "restore" /\ RestoreInv
    BY <1>4, <1>8 DEF Fits, RollbackRestoreFits, OpInv
  <2>2. proc'.script = "rollback_restore" /\ proc'.i = 2
    BY <1>2, <1>3, <1>8, Moved, Lengths
  <2>3. disk'.tx.op = "restore" /\ RestoreInv' /\ RollbackRestoreFits(2)'
    BY <1>3, <1>6, <2>1 DEF Same, Fields, KeepsTx, TxFields, Still, RestoreInv, LoadedBefore,
           MarkedWell, Marked, Early, EarlyPhases, LatePhases, OldInPlace, SameUnit, Back,
           OldSaved, Stands, RollbackRestoreFits
  <2> QED
    BY <2>2, <2>3 DEF OpInv, Fits
<1>9. ASSUME proc.script = "rollback_switch", proc.i = 1
      PROVE  OpInv' /\ Fits(proc.script, proc.i)'
  <2>1. RollbackSwitchFits(1) /\ disk.tx.op = "repair_binary" /\ BinaryInv
    BY <1>4, <1>9 DEF Fits, RollbackSwitchFits, OpInv
  <2>2. proc'.script = "rollback_switch" /\ proc'.i = 2
    BY <1>2, <1>3, <1>9, Moved, Lengths
  <2>3. disk'.tx.op = "repair_binary" /\ BinaryInv' /\ RollbackSwitchFits(2)'
    BY <1>3, <1>6, <2>1 DEF Same, Fields, KeepsTx, TxFields, Still, BinaryInv, LoadedBefore, Marked, Back, Early,
           EarlyPhases, RollbackSwitchFits, LatePhases, AsideDone, Stored
  <2> QED
    BY <2>2, <2>3 DEF OpInv, Fits
<1>10. OpInv' /\ Fits(proc.script, proc.i)'
  BY <1>3, <1>4, <1>8, <1>9 DEF Place
<1>11. /\ disk' \in Disks /\ disk'.tx.id = disk.tx.id /\ disk'.tx.backup \in {0, disk.tx.id}
       /\ \A b \in disk'.store : b \in disk.store \/ b.by = disk.tx.id
  BY <1>2, <1>6 DEF Same, Fields, KeepsTx, TxFields, LTypes
<1> QED
  BY <1>3, <1>4, <1>7, <1>10, <1>11, Landed

LEMMA MarkCommittingKeeps ==
  ASSUME LInv, Do("committed", [disk EXCEPT !.tx.phase = "committed"])
  PROVE  LInv'
<1>1. Do("committed", [disk EXCEPT !.tx.phase = "committed"])
  OBVIOUS
<1>2. LTypes /\ disk \in Disks /\ DataInv
  BY DEF LInv, LTypes
<1>3. Still /\ proc' = Advanced /\ ~Free /\ Place(proc.script, proc.i, "committed")
  BY <1>1, <1>2, Did
<1>4. OpInv /\ Fits(proc.script, proc.i) /\ disk.tx.id # 1
  BY <1>3, AtWork
<1>5. disk' = [disk EXCEPT !.tx.phase = "committed"]
  BY <1>1, <1>2, Did
<1>6. disk' \in Disks /\ Same(disk, disk', {"tx"}) /\ KeepsTx({"phase"}) /\ disk'.tx.phase = "committed"
  <2>1. "committed" \in Phases
    BY DEF Phases
  <2> QED
    BY <1>2, <1>5, <2>1, SetsTxPhase
<1>7. DataInv'
  BY <1>2, <1>3, <1>6 DEF DataInv, Same, Fields, KeepsTx, TxFields, Still
<1>8. ASSUME proc.script = "install", proc.i = 12
      PROVE  OpInv' /\ Fits(proc.script, proc.i)'
  <2>1. InstallFits(12) /\ disk.tx.op = "install" /\ InstallInv
    BY <1>4, <1>8 DEF Fits, InstallFits, OpInv
  <2>2. proc'.script = "idle"
    BY <1>2, <1>3, <1>8, Moved, Lengths
  <2>3. disk'.tx.op = "install" /\ InstallInv'
    BY <1>3, <1>6, LifecycleAssumption, <2>1 DEF Same, Fields, KeepsTx, TxFields, Still, InstallInv,
           SameUnit, MarkedWell, Marked, Done, InstallFits, Terminal
  <2> QED
    BY <2>2, <2>3 DEF OpInv, Fits
<1>9. ASSUME proc.script = "restore", proc.i = 19
      PROVE  OpInv' /\ Fits(proc.script, proc.i)'
  <2>1. RestoreFits(19) /\ disk.tx.op = "restore" /\ RestoreInv
    BY <1>4, <1>9 DEF Fits, RestoreFits, OpInv
  <2>2. proc'.script = "idle"
    BY <1>2, <1>3, <1>9, Moved, Lengths
  <2>5. disk.tx.id # 0
    BY <1>2 DEF LTypes
  <2>3. disk'.tx.op = "restore" /\ RestoreInv'
    BY <1>3, <1>6, <2>5, <2>1 DEF Same, Fields, KeepsTx, TxFields, Still, RestoreInv, LoadedBefore,
           MarkedWell, Marked, Early, EarlyPhases, LatePhases, OldInPlace, SameUnit, Back,
           OldSaved, Stands, RestoreFits, Bare, AsideDone, Whole, MadeBy
  <2> QED
    BY <2>2, <2>3 DEF OpInv, Fits
<1>10. ASSUME proc.script = "uninstall", proc.i = 10
      PROVE  OpInv' /\ Fits(proc.script, proc.i)'
  <2>1. UninstallFits(10) /\ disk.tx.op = "uninstall" /\ UninstallInv
    BY <1>4, <1>10 DEF Fits, UninstallFits, OpInv
  <2>2. proc'.script = "idle"
    BY <1>2, <1>3, <1>10, Moved, Lengths
  <2>3. disk'.tx.op = "uninstall" /\ UninstallInv'
    BY <1>3, <1>6, <2>1 DEF Same, Fields, KeepsTx, TxFields, Still, UninstallInv, LoadedBefore, OldInPlace, SameUnit, Back, Early,
           Protection, Gone, UninstallFits, Terminal, Bare
  <2> QED
    BY <2>2, <2>3 DEF OpInv, Fits
<1>11. ASSUME proc.script = "repair_static", proc.i = 8
      PROVE  OpInv' /\ Fits(proc.script, proc.i)'
  <2>1. StaticFits(8) /\ disk.tx.op = "repair_static" /\ StaticInv
    BY <1>4, <1>11 DEF Fits, StaticFits, OpInv
  <2>2. proc'.script = "idle"
    BY <1>2, <1>3, <1>11, Moved, Lengths
  <2>3. disk'.tx.op = "repair_static" /\ StaticInv'
    BY <1>3, <1>6, <2>1 DEF Same, Fields, KeepsTx, TxFields, Still, StaticInv, LoadedBefore,
           SameUnit, Back, Unfinished, Terminal, tx, Pages, StaticFits, Whole
  <2> QED
    BY <2>2, <2>3 DEF OpInv, Fits
<1>12. ASSUME proc.script = "repair_binary", proc.i = 14
      PROVE  OpInv' /\ Fits(proc.script, proc.i)'
  <2>1. BinaryFits(14) /\ disk.tx.op = "repair_binary" /\ BinaryInv
    BY <1>4, <1>12 DEF Fits, BinaryFits, OpInv
  <2>2. proc'.script = "idle"
    BY <1>2, <1>3, <1>12, Moved, Lengths
  <2>3. disk'.tx.op = "repair_binary" /\ BinaryInv'
    BY <1>3, <1>6, <2>1 DEF Same, Fields, KeepsTx, TxFields, Still, BinaryInv, LoadedBefore, Marked, Back, Early,
           EarlyPhases, BinaryFits, Whole, Sound, NoRelease
  <2> QED
    BY <2>2, <2>3 DEF OpInv, Fits
<1>13. ASSUME proc.script = "complete", proc.i = 6
      PROVE  OpInv' /\ Fits(proc.script, proc.i)'
  <2>1. CompleteFits(6) /\ disk.tx.op = "uninstall" /\ UninstallInv
    BY <1>4, <1>13 DEF Fits, CompleteFits, OpInv
  <2>2. proc'.script = "idle"
    BY <1>2, <1>3, <1>13, Moved, Lengths
  <2>3. disk'.tx.op = "uninstall" /\ UninstallInv'
    BY <1>3, <1>6, <2>1 DEF Same, Fields, KeepsTx, TxFields, Still, UninstallInv, LoadedBefore, OldInPlace, SameUnit, Back, Early,
           Protection, Gone, CompleteFits, Terminal
  <2> QED
    BY <2>2, <2>3 DEF OpInv, Fits
<1>14. ASSUME proc.script = "commit", proc.i = 1
      PROVE  OpInv' /\ Fits(proc.script, proc.i)'
  <2>1. CommitFits /\ disk.tx.op = "install" /\ InstallInv
    BY <1>4, <1>14 DEF Fits, CommitFits, OpInv
  <2>2. proc'.script = "idle"
    BY <1>2, <1>3, <1>14, Moved, Lengths
  <2>3. disk'.tx.op = "install" /\ InstallInv'
    BY <1>3, <1>6, LifecycleAssumption, <2>1 DEF Same, Fields, KeepsTx, TxFields, Still, InstallInv,
           SameUnit, MarkedWell, Marked, Done, CommitFits, Terminal
  <2> QED
    BY <2>2, <2>3 DEF OpInv, Fits
<1>15. OpInv' /\ Fits(proc.script, proc.i)'
  BY <1>3, <1>4, <1>8, <1>9, <1>10, <1>11, <1>12, <1>13, <1>14 DEF Place
<1>16. /\ disk' \in Disks /\ disk'.tx.id = disk.tx.id /\ disk'.tx.backup \in {0, disk.tx.id}
       /\ \A b \in disk'.store : b \in disk.store \/ b.by = disk.tx.id
  BY <1>2, <1>6 DEF Same, Fields, KeepsTx, TxFields, LTypes
<1> QED
  BY <1>3, <1>4, <1>7, <1>15, <1>16, Landed

LEMMA MarkRolledBackKeeps ==
  ASSUME LInv, Do("rolled_back", [disk EXCEPT !.tx.phase = "rolled_back"])
  PROVE  LInv'
<1>1. Do("rolled_back", [disk EXCEPT !.tx.phase = "rolled_back"])
  OBVIOUS
<1>2. LTypes /\ disk \in Disks /\ DataInv
  BY DEF LInv, LTypes
<1>3. Still /\ proc' = Advanced /\ ~Free /\ Place(proc.script, proc.i, "rolled_back")
  BY <1>1, <1>2, Did
<1>4. OpInv /\ Fits(proc.script, proc.i) /\ disk.tx.id # 1
  BY <1>3, AtWork
<1>5. disk' = [disk EXCEPT !.tx.phase = "rolled_back"]
  BY <1>1, <1>2, Did
<1>6. disk' \in Disks /\ Same(disk, disk', {"tx"}) /\ KeepsTx({"phase"}) /\ disk'.tx.phase = "rolled_back"
  <2>1. "rolled_back" \in Phases
    BY DEF Phases
  <2> QED
    BY <1>2, <1>5, <2>1, SetsTxPhase
<1>7. DataInv'
  BY <1>2, <1>3, <1>6 DEF DataInv, Same, Fields, KeepsTx, TxFields, Still
<1>8. ASSUME proc.script = "rollback_restore", proc.i = 12
      PROVE  OpInv' /\ Fits(proc.script, proc.i)'
  <2>1. RollbackRestoreFits(12) /\ disk.tx.op = "restore" /\ RestoreInv
    BY <1>4, <1>8 DEF Fits, RollbackRestoreFits, OpInv
  <2>2. proc'.script = "idle"
    BY <1>2, <1>3, <1>8, Moved, Lengths
  <2>3. disk'.tx.op = "restore" /\ RestoreInv'
    BY <1>3, <1>6, <2>1 DEF Same, Fields, KeepsTx, TxFields, Still, RestoreInv, LoadedBefore,
           MarkedWell, Marked, Early, EarlyPhases, LatePhases, OldInPlace, SameUnit, Back,
           OldSaved, Stands, RollbackRestoreFits
  <2> QED
    BY <2>2, <2>3 DEF OpInv, Fits
<1>9. ASSUME proc.script = "rollback_switch", proc.i = 13
      PROVE  OpInv' /\ Fits(proc.script, proc.i)'
  <2>1. RollbackSwitchFits(13) /\ disk.tx.op = "repair_binary" /\ BinaryInv
    BY <1>4, <1>9 DEF Fits, RollbackSwitchFits, OpInv
  <2>2. proc'.script = "idle"
    BY <1>2, <1>3, <1>9, Moved, Lengths
  <2>3. disk'.tx.op = "repair_binary" /\ BinaryInv'
    BY <1>3, <1>6, <2>1 DEF Same, Fields, KeepsTx, TxFields, Still, BinaryInv, LoadedBefore, Marked, Back, Early,
           EarlyPhases, RollbackSwitchFits, LatePhases, AsideDone, Stored
  <2> QED
    BY <2>2, <2>3 DEF OpInv, Fits
<1>10. ASSUME proc.script = "static_back", proc.i = 3
      PROVE  OpInv' /\ Fits(proc.script, proc.i)'
  <2>1. StaticBackFits(3) /\ disk.tx.op = "repair_static" /\ StaticInv
    BY <1>4, <1>10 DEF Fits, StaticBackFits, OpInv
  <2>2. proc'.script = "idle"
    BY <1>2, <1>3, <1>10, Moved, Lengths
  <2>3. disk'.tx.op = "repair_static" /\ StaticInv'
    BY <1>3, <1>6, <2>1 DEF Same, Fields, KeepsTx, TxFields, Still, StaticInv, LoadedBefore,
           SameUnit, Back, Unfinished, Terminal, tx, Pages, StaticBackFits
  <2> QED
    BY <2>2, <2>3 DEF OpInv, Fits
<1>11. OpInv' /\ Fits(proc.script, proc.i)'
  BY <1>3, <1>4, <1>8, <1>9, <1>10 DEF Place
<1>12. /\ disk' \in Disks /\ disk'.tx.id = disk.tx.id /\ disk'.tx.backup \in {0, disk.tx.id}
       /\ \A b \in disk'.store : b \in disk.store \/ b.by = disk.tx.id
  BY <1>2, <1>6 DEF Same, Fields, KeepsTx, TxFields, LTypes
<1> QED
  BY <1>3, <1>4, <1>7, <1>11, <1>12, Landed

LEMMA MarkFailedKeeps ==
  ASSUME LInv, Do("failed", [disk EXCEPT !.tx.phase = "failed"])
  PROVE  LInv'
<1>1. Do("failed", [disk EXCEPT !.tx.phase = "failed"])
  OBVIOUS
<1>2. LTypes /\ disk \in Disks /\ DataInv
  BY DEF LInv, LTypes
<1>3. Still /\ proc' = Advanced /\ ~Free /\ Place(proc.script, proc.i, "failed")
  BY <1>1, <1>2, Did
<1>4. OpInv /\ Fits(proc.script, proc.i) /\ disk.tx.id # 1
  BY <1>3, AtWork
<1>5. disk' = [disk EXCEPT !.tx.phase = "failed"]
  BY <1>1, <1>2, Did
<1>6. disk' \in Disks /\ Same(disk, disk', {"tx"}) /\ KeepsTx({"phase"}) /\ disk'.tx.phase = "failed"
  <2>1. "failed" \in Phases
    BY DEF Phases
  <2> QED
    BY <1>2, <1>5, <2>1, SetsTxPhase
<1>7. DataInv'
  BY <1>2, <1>3, <1>6 DEF DataInv, Same, Fields, KeepsTx, TxFields, Still
<1>8. ASSUME proc.script = "cleanup", proc.i = 6
      PROVE  OpInv' /\ Fits(proc.script, proc.i)'
  <2>1. CleanupFits(6) /\ disk.tx.op = "install" /\ InstallInv
    BY <1>4, <1>8 DEF Fits, CleanupFits, OpInv
  <2>2. proc'.script = "idle"
    BY <1>2, <1>3, <1>8, Moved, Lengths
  <2>3. disk'.tx.op = "install" /\ InstallInv'
    BY <1>3, <1>6, <2>1 DEF Same, Fields, KeepsTx, TxFields, Still, InstallInv, SameUnit,
           MarkedWell, Marked, Done, CleanupFits, Terminal
  <2> QED
    BY <2>2, <2>3 DEF OpInv, Fits
<1>9. ASSUME proc.script = "abort", proc.i = 2
      PROVE  OpInv' /\ Fits(proc.script, proc.i)'
  <2>1. AbortFits(2) /\ disk.tx.op = "restore" /\ RestoreInv
    BY <1>4, <1>9 DEF Fits, AbortFits, OpInv
  <2>2. proc'.script = "idle"
    BY <1>2, <1>3, <1>9, Moved, Lengths
  <2>3. disk'.tx.op = "restore" /\ RestoreInv'
    BY <1>3, <1>6, <2>1 DEF Same, Fields, KeepsTx, TxFields, Still, RestoreInv, LoadedBefore,
           MarkedWell, Marked, Early, EarlyPhases, LatePhases, OldInPlace, SameUnit, Back,
           OldSaved, Stands, AbortFits
  <2> QED
    BY <2>2, <2>3 DEF OpInv, Fits
<1>10. ASSUME proc.script = "pre_activation", proc.i = 3, disk.tx.op = "restore"
      PROVE  OpInv' /\ Fits(proc.script, proc.i)'
  <2>1. PreActivationFits(3) /\ disk.tx.op = "restore" /\ RestoreInv
    BY <1>4, <1>10 DEF Fits, PreActivationFits, OpInv
  <2>2. proc'.script = "idle"
    BY <1>2, <1>3, <1>10, Moved, Lengths
  <2>3. disk'.tx.op = "restore" /\ RestoreInv'
    BY <1>3, <1>6, <2>1 DEF Same, Fields, KeepsTx, TxFields, Still, RestoreInv, LoadedBefore,
           MarkedWell, Marked, Early, EarlyPhases, LatePhases, OldInPlace, SameUnit, Back,
           OldSaved, Stands, PreActivationFits
  <2> QED
    BY <2>2, <2>3 DEF OpInv, Fits
<1>11. ASSUME proc.script = "pre_activation", proc.i = 3, disk.tx.op = "repair_static"
      PROVE  OpInv' /\ Fits(proc.script, proc.i)'
  <2>1. PreActivationFits(3) /\ disk.tx.op = "repair_static" /\ StaticInv
    BY <1>4, <1>11 DEF Fits, PreActivationFits, OpInv
  <2>2. proc'.script = "idle"
    BY <1>2, <1>3, <1>11, Moved, Lengths
  <2>3. disk'.tx.op = "repair_static" /\ StaticInv'
    BY <1>3, <1>6, <2>1 DEF Same, Fields, KeepsTx, TxFields, Still, StaticInv, LoadedBefore,
           SameUnit, Back, Unfinished, Terminal, tx, Pages, PreActivationFits
  <2> QED
    BY <2>2, <2>3 DEF OpInv, Fits
<1>12. ASSUME proc.script = "pre_activation", proc.i = 3, disk.tx.op = "repair_binary"
      PROVE  OpInv' /\ Fits(proc.script, proc.i)'
  <2>1. PreActivationFits(3) /\ disk.tx.op = "repair_binary" /\ BinaryInv
    BY <1>4, <1>12 DEF Fits, PreActivationFits, OpInv
  <2>2. proc'.script = "idle"
    BY <1>2, <1>3, <1>12, Moved, Lengths
  <2>3. disk'.tx.op = "repair_binary" /\ BinaryInv'
    BY <1>3, <1>6, <2>1 DEF Same, Fields, KeepsTx, TxFields, Still, BinaryInv, LoadedBefore, Early,
           EarlyPhases, PreActivationFits
  <2> QED
    BY <2>2, <2>3 DEF OpInv, Fits
<1>13. ASSUME proc.script = "clean", proc.i = 2, disk.tx.op = "restore"
      PROVE  OpInv' /\ Fits(proc.script, proc.i)'
  <2>1. CleanFits /\ disk.tx.op = "restore" /\ RestoreInv
    BY <1>4, <1>13 DEF Fits, CleanFits, OpInv
  <2>2. proc'.script = "idle"
    BY <1>2, <1>3, <1>13, Moved, Lengths
  <2>3. disk'.tx.op = "restore" /\ RestoreInv'
    BY <1>3, <1>6, <2>1 DEF Same, Fields, KeepsTx, TxFields, Still, RestoreInv, LoadedBefore,
           MarkedWell, Marked, Early, EarlyPhases, LatePhases, OldInPlace, SameUnit, Back,
           OldSaved, Stands, CleanFits
  <2> QED
    BY <2>2, <2>3 DEF OpInv, Fits
<1>14. ASSUME proc.script = "clean", proc.i = 2, disk.tx.op = "repair_static"
      PROVE  OpInv' /\ Fits(proc.script, proc.i)'
  <2>1. CleanFits /\ disk.tx.op = "repair_static" /\ StaticInv
    BY <1>4, <1>14 DEF Fits, CleanFits, OpInv
  <2>2. proc'.script = "idle"
    BY <1>2, <1>3, <1>14, Moved, Lengths
  <2>3. disk'.tx.op = "repair_static" /\ StaticInv'
    BY <1>3, <1>6, <2>1 DEF Same, Fields, KeepsTx, TxFields, Still, StaticInv, LoadedBefore,
           SameUnit, Back, Unfinished, Terminal, tx, Pages, CleanFits
  <2> QED
    BY <2>2, <2>3 DEF OpInv, Fits
<1>15. ASSUME proc.script = "clean", proc.i = 2, disk.tx.op = "repair_binary"
      PROVE  OpInv' /\ Fits(proc.script, proc.i)'
  <2>1. CleanFits /\ disk.tx.op = "repair_binary" /\ BinaryInv
    BY <1>4, <1>15 DEF Fits, CleanFits, OpInv
  <2>2. proc'.script = "idle"
    BY <1>2, <1>3, <1>15, Moved, Lengths
  <2>3. disk'.tx.op = "repair_binary" /\ BinaryInv'
    BY <1>3, <1>6, <2>1 DEF Same, Fields, KeepsTx, TxFields, Still, BinaryInv, LoadedBefore, Early,
           EarlyPhases, CleanFits
  <2> QED
    BY <2>2, <2>3 DEF OpInv, Fits
<1>16. ASSUME proc.script = "recover_static", proc.i = 3
      PROVE  OpInv' /\ Fits(proc.script, proc.i)'
  <2>1. StaticBackFits(3) /\ disk.tx.op = "repair_static" /\ StaticInv
    BY <1>4, <1>16 DEF Fits, StaticBackFits, OpInv
  <2>2. proc'.script = "idle"
    BY <1>2, <1>3, <1>16, Moved, Lengths
  <2>3. disk'.tx.op = "repair_static" /\ StaticInv'
    BY <1>3, <1>6, <2>1 DEF Same, Fields, KeepsTx, TxFields, Still, StaticInv, LoadedBefore,
           SameUnit, Back, Unfinished, Terminal, tx, Pages, StaticBackFits
  <2> QED
    BY <2>2, <2>3 DEF OpInv, Fits
<1>17. ASSUME proc.script = "fail", proc.i = 1, disk.tx.op = "install"
      PROVE  OpInv' /\ Fits(proc.script, proc.i)'
  <2>1. FailFits /\ disk.tx.op = "install" /\ InstallInv
    BY <1>4, <1>17 DEF Fits, FailFits, OpInv
  <2>2. proc'.script = "idle"
    BY <1>2, <1>3, <1>17, Moved, Lengths
  <2>3. disk'.tx.op = "install" /\ InstallInv'
    BY <1>3, <1>6, <2>1 DEF Same, Fields, KeepsTx, TxFields, Still, InstallInv, SameUnit,
           MarkedWell, Marked, Done, FailFits, Terminal, EarlyPhases
  <2> QED
    BY <2>2, <2>3 DEF OpInv, Fits
<1>18. ASSUME proc.script = "fail", proc.i = 1, disk.tx.op = "restore"
      PROVE  OpInv' /\ Fits(proc.script, proc.i)'
  <2>1. FailFits /\ disk.tx.op = "restore" /\ RestoreInv
    BY <1>4, <1>18 DEF Fits, FailFits, OpInv
  <2>2. proc'.script = "idle"
    BY <1>2, <1>3, <1>18, Moved, Lengths
  <2>3. disk'.tx.op = "restore" /\ RestoreInv'
    BY <1>3, <1>6, <2>1 DEF Same, Fields, KeepsTx, TxFields, Still, RestoreInv, LoadedBefore,
           MarkedWell, Marked, Early, EarlyPhases, LatePhases, OldInPlace, SameUnit, Back,
           OldSaved, Stands, FailFits, Terminal
  <2> QED
    BY <2>2, <2>3 DEF OpInv, Fits
<1>19. ASSUME proc.script = "fail", proc.i = 1, disk.tx.op = "uninstall"
      PROVE  OpInv' /\ Fits(proc.script, proc.i)'
  <2>1. FailFits /\ disk.tx.op = "uninstall" /\ UninstallInv
    BY <1>4, <1>19 DEF Fits, FailFits, OpInv
  <2>2. proc'.script = "idle"
    BY <1>2, <1>3, <1>19, Moved, Lengths
  <2>3. disk'.tx.op = "uninstall" /\ UninstallInv'
    BY <1>3, <1>6, <2>1 DEF Same, Fields, KeepsTx, TxFields, Still, UninstallInv, LoadedBefore, OldInPlace, SameUnit, Back, Early,
           Protection, Gone, FailFits, Terminal, EarlyPhases
  <2> QED
    BY <2>2, <2>3 DEF OpInv, Fits
<1>20. ASSUME proc.script = "fail", proc.i = 1, disk.tx.op = "repair_static"
      PROVE  OpInv' /\ Fits(proc.script, proc.i)'
  <2>1. FailFits /\ disk.tx.op = "repair_static" /\ StaticInv
    BY <1>4, <1>20 DEF Fits, FailFits, OpInv
  <2>2. proc'.script = "idle"
    BY <1>2, <1>3, <1>20, Moved, Lengths
  <2>3. disk'.tx.op = "repair_static" /\ StaticInv'
    BY <1>3, <1>6, <2>1 DEF Same, Fields, KeepsTx, TxFields, Still, StaticInv, LoadedBefore,
           SameUnit, Back, Unfinished, Terminal, tx, Pages, FailFits, EarlyPhases
  <2> QED
    BY <2>2, <2>3 DEF OpInv, Fits
<1>21. ASSUME proc.script = "fail", proc.i = 1, disk.tx.op = "repair_binary"
      PROVE  OpInv' /\ Fits(proc.script, proc.i)'
  <2>1. FailFits /\ disk.tx.op = "repair_binary" /\ BinaryInv
    BY <1>4, <1>21 DEF Fits, FailFits, OpInv
  <2>2. proc'.script = "idle"
    BY <1>2, <1>3, <1>21, Moved, Lengths
  <2>3. disk'.tx.op = "repair_binary" /\ BinaryInv'
    BY <1>3, <1>6, <2>1 DEF Same, Fields, KeepsTx, TxFields, Still, BinaryInv, LoadedBefore, Early,
           EarlyPhases, FailFits, Terminal
  <2> QED
    BY <2>2, <2>3 DEF OpInv, Fits
<1>22. OpInv' /\ Fits(proc.script, proc.i)'
  <2>1. disk.tx.op \in Operations
    BY <1>2 DEF Disks, Txs
  <2> QED
    BY <1>3, <1>4, <1>8, <1>9, <1>10, <1>11, <1>12, <1>13, <1>14, <1>15, <1>16, <1>17, <1>18,
           <1>19, <1>20, <1>21, <2>1 DEF Place, Fits, CleanFits, FailFits, PreActivationFits,
           Operations
<1>23. /\ disk' \in Disks /\ disk'.tx.id = disk.tx.id /\ disk'.tx.backup \in {0, disk.tx.id}
       /\ \A b \in disk'.store : b \in disk.store \/ b.by = disk.tx.id
  BY <1>2, <1>6 DEF Same, Fields, KeepsTx, TxFields, LTypes
<1> QED
  BY <1>3, <1>4, <1>7, <1>22, <1>23, Landed

LEMMA MarkPhaseKeeps ==
  ASSUME LInv, MarkPhase
  PROVE  LInv'
<1>1. PICK p \in Phases : Do(p, [disk EXCEPT !.tx.phase = p])
  BY DEF MarkPhase
<1>2. p # "preparing"
  BY <1>1, Did DEF Place, LInv
<1> QED
  BY <1>1, <1>2, MarkPreparedKeeps, MarkStoppingKeeps, MarkActivatingKeeps, MarkVerifyingKeeps, MarkRollingBackKeeps, MarkCommittingKeeps, MarkRolledBackKeeps, MarkFailedKeeps DEF Phases

-----------------------------------------------------------------------------
(* The steps together *)

LEMMA StepKeeps ==
  ASSUME LInv, Step
  PROVE  LInv'
<1>1. CASE ServiceSteps
  BY <1>1, CaptureKeeps, StopKeeps, RegisterKeeps, StartKeeps, HealthKeeps, DeactivateKeeps,
     PreActivationBackKeeps, HostBackKeeps, UnitBackKeeps, StartBackKeeps, HealthBackKeeps DEF ServiceSteps
<1>2. CASE BackupSteps
  BY <1>2, ProtectedKeeps, UnprotectedKeeps, ExportKeeps, ChooseKeeps, WriteSnapshotKeeps, ExtractKeeps
     DEF BackupSteps, Protect
<1>3. CASE ReleaseSteps
  BY <1>3, BuildReleaseKeeps, ClearReleaseKeeps, CopyReleaseKeeps, ReleaseRemovedKeeps, ReleaseBackKeeps,
     RemoveTargetKeeps, RemoveReleasesKeeps, LinkKeeps, LinkBackKeeps, RemoveLinkKeeps, RemoveCurrentKeeps
     DEF ReleaseSteps
<1>4. CASE DataSteps
  BY <1>4, WriteInitConfigKeeps, MoveDataAsideKeeps, SeedKeeps, DataRemovedKeeps, DataBackKeeps,
     RemoveDataKeeps, RemoveInitKeeps, RemoveTxDirKeeps, WriteStateKeeps, StateBackKeeps, RemoveStateKeeps
     DEF DataSteps
<1>5. CASE RepairSteps
  BY <1>5, ZipRefreshedKeeps, ZipLeftKeeps, SavePagesKeeps, PagesOutKeeps, PagesInKeeps, PagesRemovedKeeps,
     PagesBackKeeps, SaveBinaryKeeps, ReplaceBinaryKeeps DEF RepairSteps, RefreshZip
<1>6. CASE MarkPhase
  BY <1>6, MarkPhaseKeeps
<1> QED
  BY <1>1, <1>2, <1>3, <1>4, <1>5, <1>6 DEF Step

-----------------------------------------------------------------------------
(* Errors, crashes, recovery *)

LEMMA NotEmpty ==
  ASSUME NEW s \in DOMAIN Scripts, s # "idle"
  PROVE  1 \in 1..Len(Scripts[s])
<1>1. CASE s = "install"
  BY <1>1, Lengths
<1>2. CASE s = "restore"
  BY <1>2, Lengths
<1>3. CASE s = "uninstall"
  BY <1>3, Lengths
<1>4. CASE s = "repair_static"
  BY <1>4, Lengths
<1>5. CASE s = "repair_binary"
  BY <1>5, Lengths
<1>6. CASE s = "rollback_restore"
  BY <1>6, Lengths
<1>7. CASE s = "rollback_switch"
  BY <1>7, Lengths
<1>8. CASE s = "cleanup"
  BY <1>8, Lengths
<1>9. CASE s = "abort"
  BY <1>9, Lengths
<1>10. CASE s = "pre_activation"
  BY <1>10, Lengths
<1>11. CASE s = "clean"
  BY <1>11, Lengths
<1>12. CASE s = "static_back"
  BY <1>12, Lengths
<1>13. CASE s = "recover_static"
  BY <1>13, Lengths
<1>14. CASE s = "complete"
  BY <1>14, Lengths
<1>15. CASE s = "commit"
  BY <1>15, Lengths
<1>16. CASE s = "fail"
  BY <1>16, Lengths
<1> QED
  BY <1>1, <1>2, <1>3, <1>4, <1>5, <1>6, <1>7, <1>8, <1>9, <1>10, <1>11, <1>12, <1>13, <1>14, <1>15, <1>16, ScriptNames

(* Another script begins; a rollback that met an error makes it hurt. *)
LEMMA Turned ==
  ASSUME LInv, disk' = disk, before' = before, ops' = ops, hurt' \in BOOLEAN, hurt => hurt',
         NEW s \in DOMAIN Scripts, proc' = Runs(s, FALSE) \/ (s = "idle" /\ proc' = Idle),
         s # "idle" => disk.tx.id # 1 /\ Fits(s, 1)'
  PROVE  LInv'
<1>1. proc' = [script |-> s, i |-> 1, keep |-> FALSE]
  BY DEF Runs, Idle
<1>2. proc' \in Procs /\ proc'.script = s /\ proc'.i = 1
  BY <1>1 DEF Procs
<1>3. s # "idle" => 1 \in 1..Len(Scripts[s])
  BY NotEmpty
<1>4. LTypes'
  BY <1>2, <1>3 DEF LTypes, LInv, Free
<1>5. DataInv'
  BY DEF DataInv, LInv
<1>6. ASSUME disk.tx.id # 1 PROVE OpInv'
  <2> OpInv /\ disk' = disk /\ before' = before
    BY <1>6 DEF LInv, FirstInv
  <2>1. InstallInv => InstallInv'
    BY DEF InstallInv, MarkedWell, Marked, SameUnit, Done
  <2>2. RestoreInv => RestoreInv'
    BY DEF RestoreInv, LoadedBefore, MarkedWell, Marked, OldInPlace, SameUnit, Back, OldSaved, Stands
  <2>3. UninstallInv => UninstallInv'
    BY DEF UninstallInv, LoadedBefore, OldInPlace, SameUnit, Back, Protection, Gone
  <2>4. StaticInv => StaticInv'
    BY DEF StaticInv, LoadedBefore, SameUnit, Back, Unfinished, tx, Pages
  <2>5. BinaryInv => BinaryInv'
    BY DEF BinaryInv, LoadedBefore, Marked, Back
  <2> QED
    BY <2>1, <2>2, <2>3, <2>4, <2>5 DEF OpInv
<1>7. Fits("idle", 1)'
  BY DEF Fits
<1>8. Valid(disk.tx)' <=> Valid(disk.tx)
  OBVIOUS
<1>9. FirstInv'
  <2>1. CASE disk.tx.id = 1
    BY <1>2, <1>8, <2>1 DEF LInv, FirstInv, Free
  <2>2. CASE disk.tx.id # 1
    <3>1. Fits(s, 1)'
      BY <1>7, <2>2
    <3> QED
      BY <1>2, <1>6, <2>2, <3>1 DEF FirstInv
  <2> QED
    BY <2>1, <2>2
<1> QED
  BY <1>4, <1>5, <1>9 DEF LInv

LEMMA CrashKeeps ==
  ASSUME LInv, Crash
  PROVE  LInv'
<1>1. disk' = disk /\ before' = before /\ ops' = ops /\ hurt' = hurt /\ proc' = Idle
  BY DEF Crash, history
<1>2. "idle" \in DOMAIN Scripts /\ hurt \in BOOLEAN
  BY ScriptNames DEF LInv, LTypes
<1> QED
  BY <1>1, <1>2, Turned

(* How far a script is once it has passed its marks. *)
LEMMA PassedIs ==
  ASSUME LTypes, ~Free
  PROVE  /\ proc.script = "restore" => (Activated <=> proc.i > 8) /\ (Passed("prepared") => proc.i > 5)
         /\ proc.script = "repair_static" => (Activated <=> proc.i > 4)
         /\ proc.script = "repair_binary" => (Activated <=> proc.i > 8)
<1>1. proc.i \in 1..Len(Scripts[proc.script]) /\ proc.i \in Nat
  BY DEF LTypes, Procs
<1>2. CASE proc.script = "restore"
  <2>1. \A j \in 1..19 : RestoreScript[j] = "activating" <=> j = 8
    BY DEF RestoreScript
  <2>2. Scripts[proc.script] = RestoreScript
    BY <1>2, ScriptNames
  <2>3. Len(Scripts[proc.script]) = 19
    BY <1>2, Lengths
  <2>4. proc.i \in 1..19
    BY <1>1, <2>3
  <2>5. ASSUME Activated PROVE proc.i > 8
    <3>1. PICK j \in 1..(proc.i - 1) : RestoreScript[j] = "activating"
      BY <2>2, <2>5 DEF Activated, Passed
    <3> QED
      BY <2>1, <2>4, <3>1
  <2>6. ASSUME proc.i > 8 PROVE Activated
    <3>1. 8 \in 1..(proc.i - 1) /\ RestoreScript[8] = "activating"
      BY <2>1, <2>4, <2>6
    <3> QED
      BY <2>2, <3>1 DEF Activated, Passed
  <2>7. ASSUME Passed("prepared") PROVE proc.i > 5
    <3>1. PICK j \in 1..(proc.i - 1) : RestoreScript[j] = "prepared"
      BY <2>2, <2>7 DEF Passed
    <3>2. \A n \in 1..19 : RestoreScript[n] = "prepared" <=> n = 5
      BY DEF RestoreScript
    <3> QED
      BY <2>4, <3>1, <3>2
  <2> QED
    BY <1>2, <2>5, <2>6, <2>7
<1>3. CASE proc.script = "repair_static"
  <2>1. \A j \in 1..8 : RepairStaticScript[j] = "activating" <=> j = 4
    BY DEF RepairStaticScript
  <2>2. Scripts[proc.script] = RepairStaticScript
    BY <1>3, ScriptNames
  <2>3. Len(Scripts[proc.script]) = 8
    BY <1>3, Lengths
  <2>4. proc.i \in 1..8
    BY <1>1, <2>3
  <2>5. ASSUME Activated PROVE proc.i > 4
    <3>1. PICK j \in 1..(proc.i - 1) : RepairStaticScript[j] = "activating"
      BY <2>2, <2>5 DEF Activated, Passed
    <3> QED
      BY <2>1, <2>4, <3>1
  <2>6. ASSUME proc.i > 4 PROVE Activated
    <3>1. 4 \in 1..(proc.i - 1) /\ RepairStaticScript[4] = "activating"
      BY <2>1, <2>4, <2>6
    <3> QED
      BY <2>2, <3>1 DEF Activated, Passed
  <2> QED
    BY <1>3, <2>5, <2>6
<1>4. CASE proc.script = "repair_binary"
  <2>1. \A j \in 1..14 : RepairBinaryScript[j] = "activating" <=> j = 8
    BY DEF RepairBinaryScript
  <2>2. Scripts[proc.script] = RepairBinaryScript
    BY <1>4, ScriptNames
  <2>3. Len(Scripts[proc.script]) = 14
    BY <1>4, Lengths
  <2>4. proc.i \in 1..14
    BY <1>1, <2>3
  <2>5. ASSUME Activated PROVE proc.i > 8
    <3>1. PICK j \in 1..(proc.i - 1) : RepairBinaryScript[j] = "activating"
      BY <2>2, <2>5 DEF Activated, Passed
    <3> QED
      BY <2>1, <2>4, <3>1
  <2>6. ASSUME proc.i > 8 PROVE Activated
    <3>1. 8 \in 1..(proc.i - 1) /\ RepairBinaryScript[8] = "activating"
      BY <2>1, <2>4, <2>6
    <3> QED
      BY <2>2, <3>1 DEF Activated, Passed
  <2> QED
    BY <1>4, <2>5, <2>6
<1> QED
  BY <1>2, <1>3, <1>4

LEMMA StepFailsKeeps ==
  ASSUME LInv, StepFails
  PROVE  LInv'
<1>1. ~Free /\ disk' = disk /\ before' = before /\ ops' = ops
  BY DEF StepFails, MayFail
<1>2. PICK s : /\ s = (IF proc.script \in Operations THEN Handler ELSE GivesUp)
               /\ proc' = Runs(s, FALSE)
  BY DEF StepFails
<1>3. hurt' = (hurt \/ proc.script \notin Operations \/ At("committed"))
  BY DEF StepFails
<1>4. disk.tx.id # 1 /\ OpInv /\ Fits(proc.script, proc.i) /\ LTypes
  BY <1>1, AtWork
<1>5. proc.i \in 1..Len(Scripts[proc.script]) /\ hurt \in BOOLEAN /\ proc.script \in DOMAIN Scripts
  BY <1>1, <1>4 DEF LTypes, Procs
<1> DEFINE Goal == s \in DOMAIN Scripts /\ (s # "idle" => Fits(s, 1)')
<1>12. hurt' \in BOOLEAN /\ (hurt => hurt') /\ (~hurt' => ~At("committed")) /\ (proc.script \notin Operations => hurt')
  BY <1>3, <1>5
<1>13. SUFFICES Goal
  BY <1>1, <1>2, <1>4, <1>12, Turned
<1>6. CASE proc.script = "install"
  <2>1. s = "cleanup"
    BY <1>2, <1>6 DEF Handler, Operations
  <2>2. InstallFits(proc.i) /\ (proc.i = 12 => At("committed"))
    BY <1>1, <1>4, <1>6, ScriptNames DEF Fits, At, InstallScript
  <2>3. proc.i \in 1..12
    BY <1>5, <1>6, Lengths
  <2>5. disk.tx.op = "install" /\ disk.tx.phase \notin Terminal /\ (~hurt' => disk.state = 0)
    BY <1>12, <2>2, <2>3 DEF InstallFits
  <2>4. CleanupFits(1)'
    BY <1>1, <2>5 DEF CleanupFits
  <2> QED
    BY <2>1, <2>4, ScriptSet DEF Fits
<1>7. CASE proc.script = "restore"
  <2>1. s = IF Activated THEN "rollback_restore" ELSE IF Passed("prepared") THEN "abort" ELSE "idle"
    BY <1>2, <1>7 DEF Handler, Operations
  <2>2. RestoreFits(proc.i) /\ proc.i \in 1..19
    BY <1>4, <1>5, <1>7, Lengths DEF Fits
  <2>3. CASE Activated
    <3>1. proc.i > 8
      BY <1>1, <1>4, <1>7, <2>3, PassedIs
    <3>2. disk.tx.op = "restore" /\ disk.tx.phase \in LatePhases
      BY <2>2, <3>1 DEF RestoreFits, LatePhases
    <3>3. RollbackRestoreFits(1)'
      BY <1>1, <3>2 DEF RollbackRestoreFits
    <3> QED
      BY <2>1, <2>3, <3>3, ScriptSet DEF Fits
  <2>4. CASE ~Activated /\ Passed("prepared")
    <3>1. proc.i > 5 /\ proc.i < 9
      BY <1>1, <1>4, <1>7, <2>2, <2>4, PassedIs
    <3>2. disk.tx.op = "restore" /\ disk.tx.phase \in {"prepared", "stopping"} /\ Marked
      BY <2>2, <3>1 DEF RestoreFits
    <3>3. AbortFits(1)'
      BY <1>1, <3>2 DEF AbortFits, Marked
    <3> QED
      BY <2>1, <2>4, <3>3, ScriptSet DEF Fits
  <2>5. CASE ~Activated /\ ~Passed("prepared")
    BY <2>1, <2>5, ScriptSet
  <2> QED
    BY <2>3, <2>4, <2>5
<1>8. CASE proc.script = "repair_static"
  <2>1. s = IF Activated THEN "static_back" ELSE "fail"
    BY <1>2, <1>8 DEF Handler, Operations
  <2>2. StaticFits(proc.i) /\ proc.i \in 1..8
    BY <1>4, <1>5, <1>8, Lengths DEF Fits
  <2>3. CASE Activated
    <3>1. proc.i > 4
      BY <1>1, <1>4, <1>8, <2>3, PassedIs
    <3>2. StaticBackFits(1)'
      BY <1>1, <2>2, <3>1 DEF StaticFits, StaticBackFits
    <3> QED
      BY <2>1, <2>3, <3>2, ScriptSet DEF Fits
  <2>4. CASE ~Activated
    <3>1. proc.i < 5
      BY <1>1, <1>4, <1>8, <2>2, <2>4, PassedIs
    <3>2. FailFits'
      BY <1>1, <2>2, <3>1 DEF StaticFits, FailFits, Terminal
    <3> QED
      BY <2>1, <2>4, <3>2, ScriptSet DEF Fits
  <2> QED
    BY <2>3, <2>4
<1>9. CASE proc.script = "repair_binary"
  <2>1. s = IF Activated THEN "rollback_switch" ELSE "fail"
    BY <1>2, <1>9 DEF Handler, Operations
  <2>2. BinaryFits(proc.i) /\ proc.i \in 1..14
    BY <1>4, <1>5, <1>9, Lengths DEF Fits
  <2>3. CASE Activated
    <3>1. proc.i > 8
      BY <1>1, <1>4, <1>9, <2>3, PassedIs
    <3>2. RollbackSwitchFits(1)'
      BY <1>1, <2>2, <3>1 DEF BinaryFits, RollbackSwitchFits, LatePhases
    <3> QED
      BY <2>1, <2>3, <3>2, ScriptSet DEF Fits
  <2>4. CASE ~Activated
    <3>1. proc.i < 9
      BY <1>1, <1>4, <1>9, <2>2, <2>4, PassedIs
    <3>2. FailFits'
      BY <1>1, <2>2, <3>1 DEF BinaryFits, FailFits, Terminal, EarlyPhases
    <3> QED
      BY <2>1, <2>4, <3>2, ScriptSet DEF Fits
  <2> QED
    BY <2>3, <2>4
<1>10. CASE proc.script = "uninstall"
  <2>1. s \in {"fail", "idle"}
    BY <1>2, <1>10 DEF Handler, Operations
  <2>2. FailFits'
    BY <1>1, <1>4, <1>10 DEF Fits, UninstallFits, FailFits, Terminal
  <2> QED
    BY <2>1, <2>2, ScriptSet DEF Fits
<1>11. CASE proc.script \notin Operations
  <2>1. s = GivesUp /\ hurt'
    BY <1>2, <1>11, <1>12
  <2>2. s \in {"fail", "idle"}
    BY <2>1 DEF GivesUp
  <2>3. s = "fail" => proc.script \in {"cleanup", "abort", "rollback_restore", "static_back", "rollback_switch"}
    BY <2>1 DEF GivesUp
  <2>4. s = "fail" => disk.tx.phase \notin Terminal /\ disk.tx.op # "uninstall"
    BY <1>4, <2>3 DEF Fits, CleanupFits, AbortFits, RollbackRestoreFits, StaticBackFits, RollbackSwitchFits, LatePhases, Terminal
  <2>5. s = "fail" => FailFits'
    BY <1>1, <2>1, <2>4 DEF FailFits
  <2> QED
    BY <2>2, <2>5, ScriptSet DEF Fits
<1> QED
  BY <1>6, <1>7, <1>8, <1>9, <1>10, <1>11 DEF Operations

LEMMA BackupMissingKeeps ==
  ASSUME LInv, BackupMissing
  PROVE  LInv'
<1>1. NoBackupPossible /\ disk' = disk /\ before' = before /\ ops' = ops
  BY DEF BackupMissing, bounds
<1>2. PICK s : s = (IF proc.script \in Operations THEN "fail" ELSE "idle") /\ proc' = Runs(s, FALSE)
  BY DEF BackupMissing
<1>3. hurt' = (hurt \/ At("extract")) /\ LTypes /\ hurt \in BOOLEAN
  BY DEF BackupMissing, LInv, LTypes
<1>4. /\ ~Free
      /\ Place(proc.script, proc.i, "protect") \/ Place(proc.script, proc.i, "export") \/ Place(proc.script, proc.i, "extract")
  BY <1>1, <1>3, Placed DEF NoBackupPossible, At, LTypes
<1>5. disk.tx.id # 1 /\ OpInv /\ Fits(proc.script, proc.i)
  BY <1>4, AtWork
<1>6. ASSUME s = "fail" PROVE FailFits'
  <2>1. \/ proc.script = "restore" /\ proc.i = 2
        \/ proc.script = "uninstall" /\ proc.i = 1
        \/ proc.script = "repair_binary" /\ proc.i = 2
    BY <1>2, <1>4, <1>6 DEF Place, Operations
  <2>2. CASE proc.script = "restore" /\ proc.i = 2
    BY <1>1, <1>5, <2>2 DEF Fits, RestoreFits, FailFits, Terminal
  <2>3. CASE proc.script = "uninstall"
    BY <1>1, <1>5, <2>3 DEF Fits, UninstallFits, FailFits, Terminal
  <2>4. CASE proc.script = "repair_binary" /\ proc.i = 2
    BY <1>1, <1>5, <2>4 DEF Fits, BinaryFits, FailFits, Terminal, EarlyPhases
  <2> QED
    BY <2>1, <2>2, <2>3, <2>4
<1>7. s \in DOMAIN Scripts /\ (s # "idle" => Fits(s, 1)')
  BY <1>2, <1>6, ScriptSet DEF Fits
<1>8. hurt' \in BOOLEAN /\ (hurt => hurt')
  BY <1>3
<1> QED
  BY <1>1, <1>2, <1>5, <1>7, <1>8, Turned

LEMMA RecoverKeeps ==
  ASSUME LInv, Recover
  PROVE  LInv'
<1>1. /\ Free /\ disk.tx.phase \notin Terminal /\ disk' = disk /\ before' = before /\ ops' = ops /\ hurt' = hurt
      /\ hurt \in BOOLEAN /\ disk.tx.op \in Operations
  BY DEF Recover, history, bounds, Unfinished, tx, LInv, LTypes, Disks, Txs
<1>2. PICK s : s = RecoverPlan /\ proc' = Runs(s, FALSE)
  BY DEF Recover
<1>3. disk.tx.id # 1 /\ OpInv
  BY <1>1 DEF LInv, FirstInv, Terminal
<1> DEFINE Goal == s \in DOMAIN Scripts /\ (s # "idle" => Fits(s, 1)')
<1>11. SUFFICES Goal
  BY <1>1, <1>2, <1>3, Turned
<1>4. CASE disk.tx.op = "install"
  <2>1. s = IF Loaded /\ disk.state = disk.tx.target THEN "commit" ELSE "cleanup"
    BY <1>2, <1>4 DEF RecoverPlan, tx
  <2>2. InstallInv
    BY <1>3, <1>4 DEF OpInv
  <2>3. CASE Loaded /\ disk.state = disk.tx.target
    <3>1. CommitFits'
      BY <1>1, <1>4, <2>3 DEF CommitFits
    <3> QED
      BY <2>1, <2>3, <3>1, ScriptSet DEF Fits
  <2>4. CASE ~(Loaded /\ disk.state = disk.tx.target)
    <3>1. ASSUME Sound(before), ~hurt PROVE disk.state = 0
      <4>1. CASE disk.state = disk.tx.target /\ Done
        <5>1. disk.releases[disk.tx.target] # NoRelease
          BY <4>1 DEF Done, Whole, NoRelease
        <5>2. disk.state # 0
          BY <2>2, <4>1, LifecycleAssumption DEF InstallInv
        <5> QED
          BY <2>4, <4>1, <5>1, <5>2 DEF Loaded, Done
      <4> QED
        BY <2>2, <3>1, <4>1 DEF InstallInv
    <3>2. CleanupFits(1)'
      BY <1>1, <1>4, <3>1 DEF CleanupFits
    <3> QED
      BY <2>1, <2>4, <3>2, ScriptSet DEF Fits
  <2> QED
    BY <2>3, <2>4
<1>5. CASE disk.tx.op = "uninstall"
  <2>1. s = IF disk.tx.phase = "preparing" THEN "fail" ELSE "complete"
    BY <1>2, <1>5 DEF RecoverPlan, tx
  <2>2. disk.tx.phase = "preparing" => FailFits'
    BY <1>1, <1>5 DEF FailFits, Terminal
  <2>3. disk.tx.phase # "preparing" => Protection /\ disk.tx.phase \in {"stopping", "activating"}
    BY <1>1, <1>3, <1>5 DEF OpInv, UninstallInv, Early, Terminal
  <2>4. disk.tx.phase # "preparing" => CompleteFits(1)'
    BY <1>1, <1>5, <2>3 DEF CompleteFits, Protection
  <2> QED
    BY <2>1, <2>2, <2>4, ScriptSet DEF Fits
<1>6. ASSUME disk.tx.op \in {"restore", "repair_static", "repair_binary"}, NEW r, s = EarlyOr(r)
      PROVE  \/ s = "clean" /\ CleanFits'
             \/ s = "pre_activation" /\ PreActivationFits(1)'
             \/ s = r /\ disk.tx.phase \notin EarlyPhases
  <2>1. CASE disk.tx.phase = "preparing"
    BY <1>1, <1>6, <2>1 DEF EarlyOr, tx, CleanFits
  <2>2. CASE disk.tx.phase \in {"prepared", "stopping"}
    BY <1>1, <1>6, <2>2 DEF EarlyOr, tx, PreActivationFits
  <2>3. CASE disk.tx.phase \notin {"preparing", "prepared", "stopping"}
    BY <1>6, <2>3 DEF EarlyOr, tx, EarlyPhases
  <2> QED
    BY <2>1, <2>2, <2>3
<1>7. disk.tx.phase \notin EarlyPhases => disk.tx.phase \in LatePhases /\ ~Early(disk.tx)
  BY <1>1 DEF LInv, LTypes, Disks, Txs, Phases, EarlyPhases, LatePhases, Terminal, Early
<1>8. CASE disk.tx.op = "restore"
  <2>1. s = EarlyOr("rollback_restore")
    BY <1>2, <1>8 DEF RecoverPlan, tx
  <2>2. disk.tx.phase \notin EarlyPhases => RollbackRestoreFits(1)'
    BY <1>1, <1>7, <1>8 DEF RollbackRestoreFits
  <2> QED
    BY <1>6, <1>8, <2>1, <2>2, ScriptSet DEF Fits
<1>9. CASE disk.tx.op = "repair_binary"
  <2>1. s = EarlyOr(IF HasBackup(disk.tx) THEN "rollback_switch" ELSE "fail")
    BY <1>2, <1>9 DEF RecoverPlan, tx
  <2>2. disk.tx.phase \notin EarlyPhases => HasBackup(disk.tx)
    BY <1>3, <1>7, <1>9 DEF OpInv, BinaryInv, HasBackup
  <2>3. disk.tx.phase \notin EarlyPhases => RollbackSwitchFits(1)'
    BY <1>1, <1>7, <1>9 DEF RollbackSwitchFits
  <2>4. CASE disk.tx.phase \in EarlyPhases
    BY <1>6, <1>9, <2>1, <2>4, ScriptSet DEF Fits
  <2>5. CASE disk.tx.phase \notin EarlyPhases
    BY <1>6, <1>9, <2>1, <2>2, <2>3, <2>5, ScriptSet DEF Fits
  <2> QED
    BY <2>4, <2>5
<1>10. CASE disk.tx.op = "repair_static"
  <2>1. s = EarlyOr(IF disk.tx.statics THEN "recover_static" ELSE "fail")
    BY <1>2, <1>10 DEF RecoverPlan, tx
  <2>2. disk.tx.phase \notin EarlyPhases => disk.tx.phase = "activating" /\ disk.tx.statics
    BY <1>3, <1>7, <1>10 DEF OpInv, StaticInv, LatePhases
  <2>3. disk.tx.phase \notin EarlyPhases => StaticBackFits(1)'
    BY <1>1, <1>10, <2>2 DEF StaticBackFits
  <2>4. CASE disk.tx.phase \in EarlyPhases
    BY <1>6, <1>10, <2>1, <2>4, ScriptSet DEF Fits
  <2>5. CASE disk.tx.phase \notin EarlyPhases
    BY <1>6, <1>10, <2>1, <2>2, <2>3, <2>5, ScriptSet DEF Fits
  <2> QED
    BY <2>4, <2>5
<1> QED
  BY <1>1, <1>4, <1>5, <1>8, <1>9, <1>10 DEF Operations

-----------------------------------------------------------------------------
(* The service starts or stops while nobody is at work *)

LEMMA RestedKeeps ==
  ASSUME LInv, before' = before, ops' = ops, hurt' = hurt,
         proc' = Idle \/ (Free /\ proc' = proc),
         disk' \in Disks, Same(disk, disk', {"svc", "resolv", "data"}),
         disk'.svc.reg = disk.svc.reg, disk'.svc.on = disk.svc.on,
         disk.data # 0 => disk'.data = disk.data,
         disk'.svc.run => disk.svc.reg,
         Unfinished /\ disk.svc.reg /\ disk.svc.on /\ CanStart(disk) => disk'.svc.run
  PROVE  LInv'
<1>1. /\ disk'.current = disk.current /\ disk'.releases = disk.releases /\ disk'.state = disk.state /\ disk'.tx = disk.tx
      /\ disk'.aside = disk.aside /\ disk'.replaced = disk.replaced /\ disk'.saved = disk.saved
      /\ disk'.snap = disk.snap /\ disk'.store = disk.store
  BY DEF Same, Fields
<1>2. LTypes /\ DataInv /\ disk.data \in Stamps /\ disk \in Disks /\ before \in Disks
  BY DEF LInv, LTypes, Disks
<1>3. proc' \in Procs /\ proc'.script = "idle"
  <2>1. Idle \in Procs /\ Idle.script = "idle"
    BY ScriptSet DEF Idle, Procs
  <2> QED
    BY <1>2, <2>1 DEF Free, LTypes
<1>4. LTypes'
  BY <1>1, <1>2, <1>3 DEF LTypes, Free
<1>5. DataInv'
  BY <1>1, <1>2 DEF DataInv
<1>6. ASSUME disk.tx.id # 1 PROVE OpInv'
  <2>1. OpInv
    BY <1>6 DEF LInv, FirstInv
  <2>2. ASSUME LoadedBefore, Sound(before)
        PROVE  before.svc.reg /\ before.svc.on /\ before.releases[before.state].bin # 0
    BY <2>2, LifecycleAssumption DEF LoadedBefore, Sound, Whole
  <2>3. InstallInv => InstallInv'
    BY <1>1, <1>2 DEF InstallInv, MarkedWell, Marked, SameUnit, Done
  <2>4. ASSUME RestoreInv PROVE RestoreInv'
    <3>1. ASSUME disk.tx.phase = "preparing", Sound(before), before.svc.run PROVE disk'.svc.run
      <4>1. LoadedBefore /\ OldInPlace /\ SameUnit
        BY <2>4, <3>1 DEF RestoreInv, EarlyPhases
      <4>2. disk.svc.reg /\ disk.svc.on /\ CanStart(disk)
        BY <2>2, <3>1, <4>1, LifecycleAssumption DEF OldInPlace, SameUnit, CanStart, LoadedBefore
      <4> QED
        BY <3>1, <4>2 DEF Unfinished, tx, Terminal
    <3> QED
      BY <1>1, <1>2, <2>4, <3>1 DEF RestoreInv, LoadedBefore, MarkedWell, Marked, OldInPlace, SameUnit, Back, OldSaved, Stands
  <2>5. ASSUME UninstallInv PROVE UninstallInv'
    <3>1. ASSUME disk.tx.phase = "preparing", Sound(before), before.svc.run PROVE disk'.svc.run
      <4>1. LoadedBefore /\ OldInPlace /\ SameUnit
        BY <2>5, <3>1 DEF UninstallInv
      <4>2. disk.svc.reg /\ disk.svc.on /\ CanStart(disk)
        BY <2>2, <3>1, <4>1, LifecycleAssumption DEF OldInPlace, SameUnit, CanStart, LoadedBefore
      <4> QED
        BY <3>1, <4>2 DEF Unfinished, tx, Terminal
    <3>2. disk.tx.phase = "committed" => disk'.svc.run = disk.svc.run
      BY <1>1, <1>2, <2>5 DEF UninstallInv, Gone, Disks, Svcs
    <3> QED
      BY <1>1, <1>2, <2>5, <3>1, <3>2 DEF UninstallInv, LoadedBefore, OldInPlace, SameUnit, Back, Protection, Gone
  <2>6. ASSUME StaticInv PROVE StaticInv'
    <3>1. ASSUME Unfinished, Sound(before), before.svc.run PROVE disk'.svc.run
      <4>1. /\ LoadedBefore /\ SameUnit /\ disk.current = before.current
            /\ disk.releases[before.state].bin = before.releases[before.state].bin
        BY <2>6 DEF StaticInv
      <4>2. disk.svc.reg /\ disk.svc.on /\ CanStart(disk)
        BY <2>2, <3>1, <4>1, LifecycleAssumption DEF SameUnit, CanStart, LoadedBefore
      <4> QED
        BY <3>1, <4>2
    <3> QED
      BY <1>1, <2>6, <3>1 DEF StaticInv, LoadedBefore, SameUnit, Back, Unfinished, tx, Pages
  <2>7. ASSUME BinaryInv PROVE BinaryInv'
    <3>1. ASSUME disk.tx.phase \in {"preparing", "prepared"}, Sound(before), before.svc.run PROVE disk'.svc.run
      <4>1. /\ LoadedBefore /\ disk.current = before.current
            /\ disk.releases[before.state] = before.releases[before.state]
            /\ disk.svc.reg /\ disk.svc.on
        BY <2>7, <3>1 DEF BinaryInv, EarlyPhases
      <4>2. CanStart(disk)
        BY <2>2, <3>1, <4>1, LifecycleAssumption DEF CanStart, LoadedBefore
      <4> QED
        BY <3>1, <4>1, <4>2 DEF Unfinished, tx, Terminal
    <3> QED
      BY <1>1, <2>7, <3>1 DEF BinaryInv, LoadedBefore, Marked, Back
  <2> QED
    BY <1>1, <2>1, <2>3, <2>4, <2>5, <2>6, <2>7 DEF OpInv
<1>7. Fits(proc.script, proc.i)'
  BY <1>3 DEF Fits
<1>8. FirstInv'
  <2>1. CASE disk.tx.id = 1
    BY <1>1, <1>3, <2>1 DEF LInv, FirstInv, Free
  <2>2. CASE disk.tx.id # 1
    BY <1>1, <1>6, <1>7, <2>2 DEF FirstInv
  <2> QED
    BY <2>1, <2>2
<1> QED
  BY <1>4, <1>5, <1>8 DEF LInv

LEMMA RebootKeeps ==
  ASSUME LInv, Reboot
  PROVE  LInv'
<1>1. before' = before /\ ops' = ops /\ hurt' = hurt /\ proc' = Idle /\ disk \in Disks
  BY DEF Reboot, history, LInv, LTypes
<1>2. PICK d : d = Stopped(disk)
  OBVIOUS
<1>3. /\ d \in Disks /\ Same(disk, d, {"svc"}) /\ d.svc.reg = disk.svc.reg /\ d.svc.on = disk.svc.on /\ ~d.svc.run
      /\ d.data = disk.data
  BY <1>1, <1>2, StoppedIs DEF Same, Fields
<1>4. CASE disk.svc.reg /\ disk.svc.on /\ CanStart(disk)
  <2>1. disk' = Started(d)
    BY <1>2, <1>4 DEF Reboot
  <2>2. /\ disk' \in Disks /\ Same(d, disk', {"svc", "resolv", "data"}) /\ disk'.svc.reg = d.svc.reg
        /\ disk'.svc.on = d.svc.on /\ disk'.svc.run /\ (d.data # 0 => disk'.data = d.data)
    BY <1>3, <2>1, StartedIs
  <2>3. Same(disk, disk', {"svc", "resolv", "data"})
    BY <1>3, <2>2 DEF Same, Fields
  <2> QED
    BY <1>1, <1>3, <1>4, <2>2, <2>3, RestedKeeps
<1>5. CASE ~(disk.svc.reg /\ disk.svc.on /\ CanStart(disk))
  <2>1. disk' = d
    BY <1>2, <1>5 DEF Reboot
  <2>2. Same(disk, disk', {"svc", "resolv", "data"})
    BY <1>3, <2>1 DEF Same, Fields
  <2> QED
    BY <1>1, <1>3, <1>5, <2>1, <2>2, RestedKeeps
<1> QED
  BY <1>4, <1>5

LEMMA OperatorKeeps ==
  ASSUME LInv, Operator
  PROVE  LInv'
<1>1. /\ before' = before /\ ops' = ops /\ hurt' = hurt /\ proc' = proc /\ disk \in Disks /\ Free
      /\ ~Unfinished /\ disk.svc.reg /\ disk' = IF disk.svc.run THEN Stopped(disk) ELSE Started(disk)
  BY DEF Operator, history, bounds, LInv, LTypes
<1>2. /\ disk' \in Disks /\ Same(disk, disk', {"svc", "resolv", "data"})
      /\ disk'.svc.reg = disk.svc.reg /\ disk'.svc.on = disk.svc.on
      /\ disk.data # 0 => disk'.data = disk.data
  <2>1. CASE disk.svc.run
    <3>1. disk' = Stopped(disk)
      BY <1>1, <2>1
    <3>2. /\ disk' \in Disks /\ Same(disk, disk', {"svc"}) /\ disk'.svc.reg = disk.svc.reg
          /\ disk'.svc.on = disk.svc.on
      BY <1>1, <3>1, StoppedIs
    <3> QED
      BY <3>2 DEF Same, Fields
  <2>2. CASE ~disk.svc.run
    <3>1. disk' = Started(disk)
      BY <1>1, <2>2
    <3> QED
      BY <1>1, <3>1, StartedIs
  <2> QED
    BY <2>1, <2>2
<1> QED
  BY <1>1, <1>2, RestedKeeps

-----------------------------------------------------------------------------
(* The store *)

LEMMA ShelvedKeeps ==
  ASSUME LInv, Free, before' = before, hurt' = hurt, proc' = proc,
         ops' \in 0..MaxOps, ops' >= ops,
         disk' \in Disks, Same(disk, disk', {"store"}),
         \A k \in disk'.store : k \in disk.store \/ (ops' > ops /\ k.by = ops' + 1)
  PROVE  LInv'
<1>1. /\ disk'.current = disk.current /\ disk'.releases = disk.releases /\ disk'.state = disk.state /\ disk'.tx = disk.tx
      /\ disk'.aside = disk.aside /\ disk'.replaced = disk.replaced /\ disk'.saved = disk.saved
      /\ disk'.snap = disk.snap /\ disk'.svc = disk.svc /\ disk'.data = disk.data
  BY DEF Same, Fields
<1>2. /\ LTypes /\ DataInv /\ ops \in 0..MaxOps /\ disk.tx.id \in 1..(ops + 1)
      /\ \A k \in disk.store : k.by \in 1..(ops + 1)
  BY DEF LInv, LTypes
<1>3. disk'.tx.id \in 1..(ops' + 1) /\ \A k \in disk'.store : k.by \in 1..(ops' + 1)
  BY <1>1, <1>2, LifecycleAssumption
<1>4. LTypes'
  BY <1>1, <1>2, <1>3 DEF LTypes, Free
<1>5. DataInv'
  BY <1>1, <1>2 DEF DataInv
<1>6. ASSUME disk.tx.id # 1 PROVE OpInv'
  <2>1. OpInv
    BY <1>6 DEF LInv, FirstInv
  <2>2. InstallInv => InstallInv'
    BY <1>1 DEF InstallInv, MarkedWell, Marked, SameUnit, Done
  <2>3. RestoreInv => RestoreInv'
    BY <1>1 DEF RestoreInv, LoadedBefore, MarkedWell, Marked, OldInPlace, SameUnit, Back, OldSaved, Stands
  <2>4. UninstallInv => UninstallInv'
    BY <1>1 DEF UninstallInv, LoadedBefore, OldInPlace, SameUnit, Back, Protection, Gone
  <2>5. StaticInv => StaticInv'
    BY <1>1 DEF StaticInv, LoadedBefore, SameUnit, Back, Unfinished, tx, Pages
  <2>6. \A k \in disk'.store : k.by = disk.tx.id => k \in disk.store
    BY <1>2, LifecycleAssumption
  <2>7. BinaryInv => BinaryInv'
    BY <1>1, <2>6 DEF BinaryInv, LoadedBefore, Marked, Back
  <2> QED
    BY <1>1, <2>1, <2>2, <2>3, <2>4, <2>5, <2>7 DEF OpInv
<1>7. Fits(proc.script, proc.i)'
  BY DEF Fits, Free
<1>8. FirstInv'
  <2>1. CASE disk.tx.id = 1
    BY <1>1, <2>1 DEF LInv, FirstInv, Free
  <2>2. CASE disk.tx.id # 1
    BY <1>1, <1>6, <1>7, <2>2 DEF FirstInv
  <2> QED
    BY <2>1, <2>2
<1> QED
  BY <1>4, <1>5, <1>8 DEF LInv

LEMMA SetsStore ==
  ASSUME disk \in Disks, NEW x \in SUBSET Lkbs, disk' = [disk EXCEPT !.store = x]
  PROVE  disk' \in Disks /\ disk'.store = x /\ Same(disk, disk', {"store"})
  BY DEF Disks, Same, Fields

LEMMA CreateBackupKeeps ==
  ASSUME LInv, CreateBackup
  PROVE  LInv'
<1>1. /\ Free /\ before' = before /\ hurt' = hurt /\ proc' = proc /\ ops' = ops + 1 /\ ops < MaxOps
      /\ Loaded /\ disk \in Disks /\ ops \in 0..MaxOps
  BY DEF CreateBackup, history, LInv, LTypes
<1>2. ops' \in 0..MaxOps /\ ops' >= ops /\ ops' > ops /\ ops + 2 = ops' + 1 /\ ops + 2 \in Stamps
  BY <1>1, LifecycleAssumption DEF Stamps
<1>3. PICK k : k = Lkb(ops + 2)
  OBVIOUS
<1>4. k \in Lkbs /\ k.by = ops + 2
  BY <1>1, <1>2, <1>3 DEF Lkb, Lkbs, Loaded, Disks, Some
<1>5. disk' = [disk EXCEPT !.store = disk.store \cup {k}]
  BY <1>3 DEF CreateBackup
<1>6. disk.store \cup {k} \in SUBSET Lkbs
  BY <1>1, <1>4 DEF Disks
<1>7. disk' \in Disks /\ disk'.store = disk.store \cup {k} /\ Same(disk, disk', {"store"})
  BY <1>1, <1>5, <1>6, SetsStore
<1>8. \A l \in disk'.store : l \in disk.store \/ (ops' > ops /\ l.by = ops' + 1)
  BY <1>2, <1>4, <1>7
<1> QED
  BY <1>1, <1>2, <1>7, <1>8, ShelvedKeeps

LEMMA DeleteBackupKeeps ==
  ASSUME LInv, NEW lkb \in disk.store, DeleteBackup(lkb)
  PROVE  LInv'
<1>1. /\ Free /\ before' = before /\ hurt' = hurt /\ proc' = proc /\ ops' = ops
      /\ disk \in Disks /\ ops \in 0..MaxOps
  BY DEF DeleteBackup, bounds, LInv, LTypes
<1>2. ops' \in 0..MaxOps /\ ops' >= ops
  BY <1>1, LifecycleAssumption
<1>3. disk' = [disk EXCEPT !.store = disk.store \ {lkb}]
  BY DEF DeleteBackup
<1>4. disk.store \ {lkb} \in SUBSET Lkbs
  BY <1>1 DEF Disks
<1>5. disk' \in Disks /\ disk'.store = disk.store \ {lkb} /\ Same(disk, disk', {"store"})
  BY <1>1, <1>3, <1>4, SetsStore
<1>6. \A l \in disk'.store : l \in disk.store \/ (ops' > ops /\ l.by = ops' + 1)
  BY <1>5
<1> QED
  BY <1>1, <1>2, <1>5, <1>6, ShelvedKeeps

-----------------------------------------------------------------------------
(* A transaction begins *)

LEMMA BeginIs ==
  ASSUME LInv, NEW command \in Operations, NEW version \in Versions, NEW keep \in BOOLEAN, Begin(command, version, keep)
  PROVE  /\ disk' \in Disks /\ before' = disk /\ hurt' = FALSE /\ ops' = ops + 1 /\ ops \in 0..MaxOps /\ ops < MaxOps
         /\ proc' \in Procs /\ proc'.script = command /\ proc'.i = 1
         /\ Same(disk, disk', {"tx", "aside", "replaced", "saved", "snap"})
         /\ disk'.aside = 0 /\ disk'.replaced = NoRelease
         /\ disk'.tx.id = ops + 2 /\ disk'.tx.op = command /\ disk'.tx.phase = "preparing"
         /\ disk'.tx.from = FromOf(command) /\ disk'.tx.target = TargetOf(command, version)
         /\ disk'.tx.backup = 0 /\ disk'.tx.noBackup = FALSE /\ disk'.tx.restores = FALSE
         /\ disk'.tx.statics = FALSE /\ disk'.tx.before.kept = FALSE /\ disk'.tx.before.run = FALSE
<1>1. disk \in Disks /\ ops \in 0..MaxOps /\ ops < MaxOps /\ ops' = ops + 1 /\ before' = disk /\ hurt' = FALSE
  BY DEF Begin, LInv, LTypes
<1>2. proc' = [script |-> command, i |-> 1, keep |-> keep]
  BY DEF Begin, Runs
<1>3. command \in DOMAIN Scripts
  BY ScriptSet DEF Operations
<1>4. proc' \in Procs /\ proc'.script = command /\ proc'.i = 1
  BY <1>2, <1>3 DEF Procs
<1>5. PICK f : f = FromOf(command)
  OBVIOUS
<1>6. PICK g : g = TargetOf(command, version)
  OBVIOUS
<1>7. f \in Some /\ g \in Some
  BY <1>1, <1>5, <1>6 DEF FromOf, TargetOf, Some, Disks
<1>8. PICK b \in Marks : b = [kept |-> FALSE, reg |-> FALSE, on |-> FALSE, run |-> FALSE, resolv |-> "host"]
  BY DEF Marks
<1>9. b.kept = FALSE /\ b.run = FALSE
  BY <1>8
<1>10. ops + 2 \in Stamps /\ 0 \in Stamps
  BY <1>1, LifecycleAssumption DEF Stamps
<1>11. PICK t : t = [id |-> ops + 2, op |-> command, phase |-> "preparing", from |-> f, target |-> g, backup |-> 0,
                     noBackup |-> FALSE, restores |-> FALSE, statics |-> FALSE, before |-> b]
  OBVIOUS
<1>12. t \in Txs
  BY <1>7, <1>10, <1>11 DEF Txs, Phases
<1>13. disk' = [disk EXCEPT !.tx = t, !.aside = 0, !.replaced = NoRelease, !.saved = 0, !.snap = 0]
  BY <1>5, <1>6, <1>8, <1>11 DEF Begin, NewTransaction, NoBefore
<1>14. NoRelease \in Releases /\ 0 \in Some
  BY <1>10 DEF NoRelease, Releases, Some
<1>15. /\ disk' \in Disks /\ Same(disk, disk', {"tx", "aside", "replaced", "saved", "snap"})
       /\ disk'.tx = t /\ disk'.aside = 0 /\ disk'.replaced = NoRelease
  BY <1>1, <1>10, <1>12, <1>13, <1>14 DEF Disks, Same, Fields
<1>16. /\ t.id = ops + 2 /\ t.op = command /\ t.phase = "preparing" /\ t.from = f /\ t.target = g /\ t.backup = 0
       /\ t.noBackup = FALSE /\ t.restores = FALSE /\ t.statics = FALSE /\ t.before = b
  BY <1>11
<1> QED
  BY <1>1, <1>4, <1>5, <1>6, <1>9, <1>15, <1>16

LEMMA BeginKeeps ==
  ASSUME LInv, NEW command \in Operations, NEW version \in Versions, NEW keep \in BOOLEAN, Begin(command, version, keep)
  PROVE  LInv'
<1>1. /\ disk' \in Disks /\ before' = disk /\ hurt' = FALSE /\ ops' = ops + 1 /\ ops \in 0..MaxOps /\ ops < MaxOps
      /\ proc' \in Procs /\ proc'.script = command /\ proc'.i = 1
      /\ disk'.aside = 0 /\ disk'.replaced = NoRelease
      /\ disk'.tx.id = ops + 2 /\ disk'.tx.op = command /\ disk'.tx.phase = "preparing"
      /\ disk'.tx.from = FromOf(command) /\ disk'.tx.target = TargetOf(command, version)
      /\ disk'.tx.backup = 0 /\ disk'.tx.noBackup = FALSE /\ disk'.tx.restores = FALSE
      /\ disk'.tx.statics = FALSE /\ disk'.tx.before.kept = FALSE /\ disk'.tx.before.run = FALSE
  BY BeginIs
<1>2. /\ disk'.current = disk.current /\ disk'.releases = disk.releases /\ disk'.state = disk.state
      /\ disk'.svc = disk.svc /\ disk'.data = disk.data /\ disk'.store = disk.store
  BY BeginIs DEF Same, Fields
<1>3. LTypes /\ disk \in Disks /\ \A k \in disk.store : k.by \in 1..(ops + 1)
  BY DEF LInv, LTypes
<1>4. /\ ops' \in 0..MaxOps /\ disk'.tx.id \in 1..(ops' + 1) /\ disk'.tx.id # 1
      /\ \A k \in disk'.store : k.by \in 1..(ops' + 1) /\ k.by # disk'.tx.id
  BY <1>1, <1>2, <1>3, LifecycleAssumption
<1>5. command \in DOMAIN Scripts /\ command # "idle"
  BY ScriptSet DEF Operations
<1>6. 1 \in 1..Len(Scripts[command])
  BY <1>5, NotEmpty
<1>7. LTypes'
  BY <1>1, <1>3, <1>4, <1>6 DEF LTypes
<1>8. DataInv'
  BY <1>1, <1>2 DEF DataInv
<1>9. command # "install" => Loaded
  BY DEF Begin, MayRestore, MayUninstall, MayRepair, Operations
<1>10. ASSUME command # "install"
       PROVE  /\ disk.state \in Versions /\ disk.current = disk.state /\ disk.state # 0
              /\ disk.releases[disk.state] # NoRelease
  BY <1>3, <1>9, <1>10 DEF Loaded, Disks, Some
<1>11. ASSUME command = "install" PROVE InstallInv' /\ InstallFits(1)'
  <2>1. disk.state = 0 /\ ~disk.svc.run
    BY <1>11 DEF Begin, MayInstall, PortsFree
  <2>2. disk'.tx.from = 0 /\ disk'.tx.target = version
    BY <1>1, <1>11 DEF FromOf, TargetOf
  <2>3. Sound(disk) => disk.current = 0 /\ (disk.releases[version] = NoRelease \/ Whole(disk.releases[version]))
    BY <2>1 DEF Sound
  <2>4. InstallInv'
    BY <1>1, <1>2, <2>1, <2>2, <2>3 DEF InstallInv, MarkedWell, SameUnit
  <2>5. InstallFits(1)'
    BY <1>1, <1>2, <1>11, <2>1 DEF InstallFits, Terminal
  <2> QED
    BY <2>4, <2>5
<1>12. ASSUME command = "restore" PROVE RestoreInv' /\ RestoreFits(1)'
  <2>1. disk'.tx.from = disk.state /\ disk'.tx.target = version
    BY <1>1, <1>12 DEF FromOf, TargetOf
  <2>2. RestoreInv'
    BY <1>1, <1>2, <1>10, <1>12, <2>1 DEF RestoreInv, LoadedBefore, MarkedWell, Early, EarlyPhases, LatePhases,
       OldInPlace, SameUnit, Back
  <2>3. RestoreFits(1)'
    BY <1>1, <1>2, <1>12 DEF RestoreFits, Bare
  <2> QED
    BY <2>2, <2>3
<1>13. ASSUME command = "uninstall" PROVE UninstallInv' /\ UninstallFits(1)'
  <2>1. disk'.tx.from = disk.state /\ disk'.tx.target = 0
    BY <1>1, <1>13 DEF FromOf, TargetOf
  <2>2. UninstallInv'
    BY <1>1, <1>2, <1>10, <1>13, <2>1 DEF UninstallInv, LoadedBefore, OldInPlace, SameUnit, Back, Early
  <2>3. UninstallFits(1)'
    BY <1>1, <1>2, <1>10, <1>13 DEF UninstallFits, Bare, Terminal
  <2> QED
    BY <2>2, <2>3
<1>14. ASSUME command = "repair_static" PROVE StaticInv' /\ StaticFits(1)'
  <2>1. disk'.tx.from = 0 /\ disk'.tx.target = 0
    BY <1>1, <1>14 DEF FromOf, TargetOf
  <2>2. Sound(disk) => disk.releases[disk.state].zip # 0
    BY <1>10, <1>14 DEF Sound, Whole
  <2>3. StaticInv'
    BY <1>1, <1>2, <1>10, <1>14, <2>1, <2>2 DEF StaticInv, LoadedBefore, SameUnit, Back, Pages
  <2>4. StaticFits(1)'
    BY <1>1, <1>14 DEF StaticFits
  <2> QED
    BY <2>3, <2>4
<1>15. ASSUME command = "repair_binary" PROVE BinaryInv' /\ BinaryFits(1)'
  <2>1. disk'.tx.from = disk.state /\ disk'.tx.target = disk.state
    BY <1>1, <1>15 DEF FromOf, TargetOf
  <2>2. Sound(disk) => disk.svc.reg /\ disk.svc.on
    BY <1>10, <1>15 DEF Sound
  <2>3. BinaryInv'
    BY <1>1, <1>2, <1>4, <1>10, <1>15, <2>1, <2>2 DEF BinaryInv, LoadedBefore, Marked, Back, Early, EarlyPhases
  <2>4. BinaryFits(1)'
    BY <1>1, <1>2, <1>15 DEF BinaryFits
  <2> QED
    BY <2>3, <2>4
<1>16. OpInv'
  BY <1>1, <1>11, <1>12, <1>13, <1>14, <1>15 DEF OpInv
<1>17. Fits(proc.script, proc.i)'
  BY <1>1, <1>11, <1>12, <1>13, <1>14, <1>15 DEF Fits, Operations
<1> QED
  BY <1>4, <1>7, <1>8, <1>16, <1>17 DEF LInv, FirstInv

-----------------------------------------------------------------------------
(* The invariant *)

LEMMA InitHolds ==
  ASSUME Init
  PROVE  LInv
<1>1. PICK version \in Versions, run \in BOOLEAN, empty \in BOOLEAN :
       disk = [current  |-> IF empty THEN 0 ELSE version,
               releases |-> [v \in Versions |-> IF v = version /\ ~empty
                                                THEN MadeBy(1) ELSE NoRelease],
               data     |-> IF empty THEN 0 ELSE 1,
               state    |-> IF empty THEN 0 ELSE version,
               svc      |-> [reg |-> ~empty, on |-> ~empty, run |-> run /\ ~empty],
               resolv   |-> IF run /\ ~empty THEN "router" ELSE "host",
               tx       |-> [id |-> 1, op |-> "install", phase |-> "committed",
                             from |-> 0, target |-> version, backup |-> 0,
                             noBackup |-> FALSE, restores |-> FALSE,
                             statics |-> FALSE, before |-> NoBefore],
               aside |-> 0, replaced |-> NoRelease, saved |-> 0, snap |-> 0,
               store |-> {[by |-> 1, version |-> v, release |-> MadeBy(1)] : v \in Versions}]
  BY DEF Init
<1>2. proc = Idle /\ before = disk /\ hurt = FALSE /\ ops = 0
  BY DEF Init
<1>3. 0 \in Stamps /\ 1 \in Stamps
  BY LifecycleAssumption DEF Stamps
<1>4. NoRelease \in Releases /\ MadeBy(1) \in Releases /\ NoBefore \in Marks
  BY <1>3 DEF NoRelease, MadeBy, Releases, NoBefore, Marks
<1>5. PICK rel \in [Versions -> Releases] :
         rel = [v \in Versions |-> IF v = version /\ ~empty THEN MadeBy(1) ELSE NoRelease]
  BY <1>4
<1>6. PICK u \in Svcs : u = [reg |-> ~empty, on |-> ~empty, run |-> run /\ ~empty]
  <2>1. PICK a \in BOOLEAN, b \in BOOLEAN : a = ~empty /\ b = (run /\ ~empty)
    OBVIOUS
  <2>2. [reg |-> a, on |-> a, run |-> b] \in Svcs
    BY DEF Svcs
  <2> QED
    BY <2>1, <2>2
<1>7. PICK t : t = [id |-> 1, op |-> "install", phase |-> "committed", from |-> 0, target |-> version, backup |-> 0,
                    noBackup |-> FALSE, restores |-> FALSE, statics |-> FALSE, before |-> NoBefore]
  OBVIOUS
<1>8. /\ t \in Txs /\ t.id = 1 /\ t.op = "install" /\ t.phase = "committed" /\ t.from = 0 /\ t.target = version
      /\ t.backup = 0 /\ t.noBackup = FALSE /\ t.restores = FALSE /\ t.statics = FALSE
  BY <1>3, <1>4, <1>7 DEF Txs, Phases, Operations, Some
<1>9. PICK st : st = {[by |-> 1, version |-> v, release |-> MadeBy(1)] : v \in Versions}
  OBVIOUS
<1>10. st \in SUBSET Lkbs /\ \A k \in st : k.by = 1
  BY <1>3, <1>4, <1>9 DEF Lkbs
<1>11. PICK c \in Some : c = IF empty THEN 0 ELSE version
  BY DEF Some
<1>12. PICK n \in Stamps : n = IF empty THEN 0 ELSE 1
  BY <1>3
<1>13. PICK z \in {"host", "router"} : z = IF run /\ ~empty THEN "router" ELSE "host"
  OBVIOUS
<1>14. disk = [current |-> c, releases |-> rel, data |-> n, state |-> c, svc |-> u, resolv |-> z, tx |-> t,
               aside |-> 0, replaced |-> NoRelease, saved |-> 0, snap |-> 0, store |-> st]
  BY <1>1, <1>5, <1>6, <1>7, <1>9, <1>11, <1>12, <1>13
<1>15. 0 \in Some
  BY DEF Some
<1>16. disk \in Disks
  BY <1>3, <1>4, <1>8, <1>10, <1>14, <1>15 DEF Disks
<1>17. disk.tx = t /\ disk.store = st /\ disk.aside = 0 /\ disk.data = n
  BY <1>14
<1>18. proc \in Procs /\ proc.script = "idle"
  BY <1>2, ScriptSet DEF Idle, Procs
<1>19. LTypes
  <2>1. disk.tx.id \in 1..(ops + 1) /\ disk.tx.backup \in {0, disk.tx.id} /\ ops \in 0..MaxOps
    BY <1>2, <1>8, <1>17, LifecycleAssumption
  <2>2. \A k \in disk.store : k.by \in 1..(ops + 1)
    BY <1>2, <1>10, <1>17
  <2>3. Free /\ hurt \in BOOLEAN /\ before \in Disks
    BY <1>2, <1>16, <1>18 DEF Free
  <2> QED
    BY <1>16, <1>18, <2>1, <2>2, <2>3 DEF LTypes
<1>20. DataInv
  BY <1>2, <1>17 DEF DataInv
<1>21. Valid(disk.tx)
  BY <1>8, <1>17, LifecycleAssumption DEF Valid, ValidInstall, HasBackup
<1>22. FirstInv
  BY <1>8, <1>17, <1>18, <1>21 DEF FirstInv, Free
<1> QED
  BY <1>19, <1>20, <1>22 DEF LInv

LEMMA NextKeeps ==
  ASSUME LInv, [Next]_vars
  PROVE  LInv'
<1>1. CASE Commands
  BY <1>1, BeginKeeps, CreateBackupKeeps, DeleteBackupKeeps, OperatorKeeps DEF Commands
<1>2. ASSUME UNCHANGED vars PROVE LInv'
  <2>1. disk' = disk /\ before' = before /\ ops' = ops /\ hurt' = hurt /\ proc' = proc
    BY <1>2 DEF vars, history, bounds
  <2>2. LTypes' /\ DataInv'
    BY <2>1 DEF LInv, LTypes, Free, DataInv
  <2>3. OpInv => OpInv'
    BY <2>1 DEF OpInv, InstallInv, RestoreInv, UninstallInv, StaticInv, BinaryInv, LoadedBefore, MarkedWell, Marked, OldInPlace, SameUnit, Back, OldSaved, Stands, Unfinished, tx, Pages, Done, Protection, Gone
  <2>4. Fits(proc.script, proc.i) => Fits(proc.script, proc.i)'
    BY <2>1 DEF Fits, InstallFits, CleanupFits, CommitFits, RestoreFits, RollbackRestoreFits, AbortFits,
       PreActivationFits, CleanFits, FailFits, UninstallFits, CompleteFits, StaticFits, StaticBackFits, BinaryFits,
       RollbackSwitchFits, Marked, SameUnit, Bare, AsideDone, Protection, Pages, Stored
  <2>5. Valid(disk.tx)' <=> Valid(disk.tx)
    BY <2>1
  <2> QED
    BY <2>1, <2>2, <2>3, <2>4, <2>5 DEF LInv, FirstInv, Free
<1> QED
  BY <1>1, <1>2, StepKeeps, StepFailsKeeps, BackupMissingKeeps, CrashKeeps, RebootKeeps, RecoverKeeps DEF Next

-----------------------------------------------------------------------------
(* What follows from it *)

LEMMA TypesFollow ==
  ASSUME LInv
  PROVE  TypeOK
  BY DEF LInv, LTypes, TypeOK, Disks, Some, Svcs, Txs, Procs, tx

LEMMA DataFollows ==
  ASSUME LInv
  PROVE  UserDataKept
  BY DEF LInv, DataInv, UserDataKept, tx

LEMMA ReadableFollows ==
  ASSUME LInv
  PROVE  TransactionReadable
<1>1. CASE disk.tx.id = 1
  BY <1>1 DEF LInv, FirstInv, TransactionReadable, tx
<1>2. CASE disk.tx.id # 1
  <2>1. OpInv /\ disk.tx.op \in Operations
    BY <1>2 DEF LInv, FirstInv, LTypes, Disks, Txs
  <2>2. CASE disk.tx.op = "install"
    BY <2>1, <2>2, LifecycleAssumption DEF OpInv, InstallInv, TransactionReadable, tx, Valid, ValidInstall, HasBackup
  <2>3. CASE disk.tx.op = "restore"
    BY <2>1, <2>3, LifecycleAssumption DEF OpInv, RestoreInv, LoadedBefore, TransactionReadable, tx, Valid, ValidRestore, HasBackup,
       OneProtection
  <2>4. CASE disk.tx.op = "uninstall"
    BY <2>1, <2>4, LifecycleAssumption DEF OpInv, UninstallInv, LoadedBefore, Protection, TransactionReadable, tx, Valid, ValidUninstall, HasBackup,
       OneProtection
  <2>5. CASE disk.tx.op = "repair_static"
    BY <2>1, <2>5 DEF OpInv, StaticInv, TransactionReadable, tx, Valid, ValidRepair, HasBackup, Early
  <2>6. CASE disk.tx.op = "repair_binary"
    <3>1. BinaryInv /\ disk.tx.from \in Versions /\ disk.tx.target \in Versions
      BY <2>1, <2>6 DEF OpInv, BinaryInv, LoadedBefore
    <3> QED
      BY <2>6, <3>1, LifecycleAssumption DEF BinaryInv, TransactionReadable, tx, Valid, ValidRepair, HasBackup, Early
  <2> QED
    BY <2>1, <2>2, <2>3, <2>4, <2>5, <2>6 DEF Operations
<1> QED
  BY <1>1, <1>2

LEMMA AsBeforeFollows ==
  ASSUME disk \in Disks, before \in Disks, LoadedBefore,
         disk.state = before.state, disk.current = before.current,
         disk.releases[before.state].bin = before.releases[before.state].bin,
         disk.releases[before.state].pages = before.releases[before.state].pages,
         disk.svc.reg = before.svc.reg, disk.svc.on = before.svc.on
  PROVE  AsBefore
<1>1. before.state \in Versions /\ disk.current = before.state
  BY DEF LoadedBefore
<1>2. disk.releases[before.state] \in Releases /\ before.releases[before.state] \in Releases
  BY <1>1 DEF Disks
<1>3. [disk.releases[before.state] EXCEPT !.zip = 0] = [before.releases[before.state] EXCEPT !.zip = 0]
  BY <1>2 DEF Releases
<1> QED
  BY <1>1, <1>3 DEF AsBefore

LEMMA EndsFollow ==
  ASSUME LInv
  PROVE  EndsAsMarked
<1>1. SUFFICES ASSUME disk.tx.phase \in Terminal, Sound(before), disk.tx.id # 1
      PROVE  \/ disk.tx.phase = "committed" /\ (Committed \/ hurt)
             \/ disk.tx.phase = "rolled_back" /\ AsBefore
             \/ disk.tx.phase = "failed" /\ (AsBefore \/ hurt \/ disk.tx.op = "uninstall")
  BY DEF EndsAsMarked, Quiet, Unfinished, tx, LInv, FirstInv
<1>2. /\ OpInv /\ disk.tx.op \in Operations /\ disk \in Disks /\ before \in Disks /\ DataInv
      /\ disk.svc \in Svcs /\ before.svc \in Svcs
  BY <1>1 DEF LInv, FirstInv, LTypes, Disks, Txs
<1>3. CASE disk.tx.op = "install"
  <2>1. InstallInv
    BY <1>2, <1>3 DEF OpInv
  <2>2. ASSUME disk.tx.phase = "committed", ~hurt PROVE Committed
    <3>1. disk.state = disk.tx.target /\ Done /\ disk.tx.target # 0
      BY <1>1, <2>1, <2>2, LifecycleAssumption DEF InstallInv
    <3> QED
      BY <1>3, <3>1 DEF Committed, Installed, Done, tx
  <2>3. ASSUME disk.tx.phase = "failed", ~hurt PROVE AsBefore
    <3>1. disk.state = 0 /\ disk.current = 0 /\ SameUnit /\ before.state = 0
      BY <1>1, <2>1, <2>3 DEF InstallInv
    <3>2. before.current = 0
      BY <1>1, <3>1 DEF Sound
    <3> QED
      BY <3>1, <3>2 DEF AsBefore, SameUnit
  <2> QED
    BY <1>1, <2>1, <2>2, <2>3 DEF InstallInv, Terminal
<1>4. CASE disk.tx.op = "restore"
  <2>1. RestoreInv /\ LoadedBefore /\ disk.tx.target # 0
    BY <1>2, <1>4, LifecycleAssumption DEF OpInv, RestoreInv
  <2>2. ASSUME disk.tx.phase = "committed" PROVE Committed
    BY <1>4, <2>1, <2>2 DEF RestoreInv, Stands, Committed, Installed, tx
  <2>3. ASSUME disk.tx.phase = "rolled_back" \/ (disk.tx.phase = "failed" /\ ~hurt) PROVE AsBefore
    <3>1. OldInPlace /\ SameUnit
      BY <2>1, <2>3 DEF RestoreInv
    <3> QED
      BY <1>2, <2>1, <3>1, AsBeforeFollows DEF OldInPlace, SameUnit
  <2> QED
    BY <1>1, <2>2, <2>3 DEF Terminal
<1>5. CASE disk.tx.op = "uninstall"
  BY <1>1, <1>2, <1>5 DEF OpInv, UninstallInv, Terminal, Committed, tx
<1>6. CASE disk.tx.op = "repair_static"
  <2>1. StaticInv /\ LoadedBefore /\ disk.tx.target = 0
    BY <1>2, <1>6 DEF OpInv, StaticInv
  <2>2. ASSUME disk.tx.phase = "committed" PROVE Committed
    <3>1. Whole(before.releases[before.state])
      BY <1>1, <2>1 DEF Sound, LoadedBefore
    <3>2. /\ disk.releases[before.state].bin = before.releases[before.state].bin
          /\ disk.releases[before.state].zip # 0 /\ disk.releases[before.state].pages # 0
      BY <1>1, <2>1, <2>2 DEF StaticInv, Pages
    <3>3. Whole(disk.releases[before.state])
      BY <3>1, <3>2 DEF Whole
    <3>4. disk.state = before.state /\ disk.current = before.state /\ SameUnit /\ disk.aside = 0
      BY <2>1 DEF StaticInv, LoadedBefore
    <3>5. disk.data # 0 \/ before.data = 0
      BY <1>2, <1>6, <3>4 DEF DataInv
    <3>6. disk.svc.reg \/ ~before.svc.reg
      BY <1>2, <3>4 DEF SameUnit, Svcs
    <3> QED
      BY <1>6, <2>1, <3>3, <3>4, <3>5, <3>6 DEF Committed, Installed, tx
  <2>3. ASSUME disk.tx.phase = "rolled_back" \/ (disk.tx.phase = "failed" /\ ~hurt) PROVE AsBefore
    <3>1. /\ disk.state = before.state /\ disk.current = before.current /\ SameUnit
          /\ disk.releases[before.state].bin = before.releases[before.state].bin
          /\ disk.releases[before.state].pages = before.releases[before.state].pages
      BY <2>1, <2>3 DEF StaticInv, Pages
    <3> QED
      BY <1>2, <2>1, <3>1, AsBeforeFollows DEF SameUnit
  <2> QED
    BY <1>1, <2>2, <2>3 DEF Terminal
<1>7. CASE disk.tx.op = "repair_binary"
  <2>1. BinaryInv /\ LoadedBefore /\ disk.tx.target = before.state /\ before.state # 0
    BY <1>2, <1>7, LifecycleAssumption DEF OpInv, BinaryInv, LoadedBefore
  <2>2. disk.state = before.state /\ disk.current = before.current /\ disk.svc.reg /\ disk.svc.on
    BY <1>1, <2>1 DEF BinaryInv
  <2>3. before.svc.reg /\ before.svc.on
    BY <1>1, <2>1 DEF Sound
  <2>4. ASSUME disk.tx.phase = "committed" PROVE Committed
    <3>1. Whole(disk.releases[before.state]) /\ disk.aside = 0 /\ before.current = before.state
      BY <1>1, <2>1, <2>4 DEF BinaryInv, LoadedBefore
    <3>2. disk.data # 0 \/ before.data = 0
      BY <1>2, <1>7, <3>1 DEF DataInv
    <3> QED
      BY <1>7, <2>1, <2>2, <3>1, <3>2 DEF Committed, Installed, tx
  <2>5. ASSUME disk.tx.phase = "rolled_back" \/ (disk.tx.phase = "failed" /\ ~hurt) PROVE AsBefore
    <3>1. disk.releases[before.state] = before.releases[before.state]
      BY <2>1, <2>5 DEF BinaryInv
    <3>2. disk.svc.reg = before.svc.reg /\ disk.svc.on = before.svc.on
      BY <1>2, <2>2, <2>3 DEF Svcs
    <3> QED
      BY <1>2, <2>1, <2>2, <3>1, <3>2, AsBeforeFollows
  <2> QED
    BY <1>1, <2>4, <2>5 DEF Terminal
<1> QED
  BY <1>2, <1>3, <1>4, <1>5, <1>6, <1>7 DEF Operations

-----------------------------------------------------------------------------
(* Who marks the end of a transaction *)

LEMMA PhaseKept ==
  ASSUME LInv, ServiceSteps \/ BackupSteps \/ ReleaseSteps \/ DataSteps \/ RepairSteps
  PROVE  disk'.tx.phase = disk.tx.phase
<1>1. disk \in Disks
  BY DEF LInv, LTypes
<1>2. CASE Register \/ Deactivate \/ Health \/ HealthBack
  BY <1>1, <1>2 DEF Register, Deactivate, Health, HealthBack, Do, Disks
<1>8. \A x : disk' = [disk EXCEPT !.tx = x] => disk'.tx = x
  BY <1>1 DEF Disks
<1>9. \A x, y : disk' = [disk EXCEPT !.tx = x, !.store = y] => disk'.tx = x
  BY <1>1 DEF Disks
<1>10. \A x, y : disk' = [disk EXCEPT !.saved = y, !.tx = x] => disk'.tx = x
  BY <1>1 DEF Disks
<1>11. disk.tx \in Txs
  BY <1>1 DEF Disks
<1>12. CASE Capture
  <2>1. PICK b : disk' = [disk EXCEPT !.tx.before = b]
    BY <1>12 DEF Capture, Do
  <2>2. disk'.tx = [disk.tx EXCEPT !.before = b]
    BY <1>8, <2>1
  <2> QED
    BY <1>11, <2>2 DEF Txs
<1>3. CASE Stop \/ Start \/ PreActivationBack \/ HostBack \/ UnitBack \/ StartBack
  BY <1>1, <1>3 DEF Stop, Start, PreActivationBack, HostBack, UnitBack, StartBack, Do, Stopped, Started, ServiceBack,
     ResolvBack, Registered, Disks, Txs
<1>4. CASE BackupSteps
  <2>1. CASE disk' = Protected
    <3>1. disk' = [disk EXCEPT !.tx = [disk.tx EXCEPT !.backup = disk.tx.id], !.store = @ \cup {Lkb(tx.id)}]
      BY <2>1 DEF Protected, tx
    <3>2. disk'.tx = [disk.tx EXCEPT !.backup = disk.tx.id]
      BY <1>9, <3>1
    <3> QED
      BY <1>11, <3>2 DEF Txs
  <2>2. CASE disk' = [disk EXCEPT !.tx.noBackup = TRUE]
    <3>1. disk'.tx = [disk.tx EXCEPT !.noBackup = TRUE]
      BY <1>8, <2>2
    <3> QED
      BY <1>11, <3>1 DEF Txs
  <2>3. CASE disk' = [disk EXCEPT !.tx.restores = TRUE]
    <3>1. disk'.tx = [disk.tx EXCEPT !.restores = TRUE]
      BY <1>8, <2>3
    <3> QED
      BY <1>11, <3>1 DEF Txs
  <2>4. CASE WriteSnapshot \/ Extract
    BY <1>1, <2>4 DEF WriteSnapshot, Extract, Do, Disks
  <2> QED
    BY <1>4, <2>1, <2>2, <2>3, <2>4 DEF BackupSteps, Protect, Export, Choose, Do
<1>5. CASE ReleaseSteps
  BY <1>1, <1>5 DEF ReleaseSteps, BuildRelease, ClearRelease, CopyRelease, ReleaseRemoved, ReleaseBack,
     RemoveTarget, RemoveReleases, Link, LinkBack, RemoveLink, RemoveCurrent, Do, Disks
<1>6. CASE DataSteps
  BY <1>1, <1>6 DEF DataSteps, WriteInitConfig, MoveDataAside, Seed, DataRemoved, DataBack, RemoveData, RemoveInit,
     RemoveTxDir, WriteState, StateBack, RemoveState, Do, Disks
<1>7. CASE RepairSteps
  <2>1. CASE SavePages
    <3>1. disk' = [disk EXCEPT !.saved = Live(disk).pages, !.tx = [disk.tx EXCEPT !.statics = TRUE]]
      BY <2>1 DEF SavePages, Do
    <3>2. disk'.tx = [disk.tx EXCEPT !.statics = TRUE]
      BY <1>10, <3>1
    <3> QED
      BY <1>11, <3>2 DEF Txs
  <2> QED
    BY <1>1, <1>7, <2>1 DEF RepairSteps, RefreshZip, PagesOut, PagesIn, PagesRemoved, PagesBack, SaveBinary,
       ReplaceBinary, Do, Disks
<1> QED
  BY <1>2, <1>3, <1>4, <1>5, <1>6, <1>7, <1>12 DEF ServiceSteps

Returns ==
  /\ Unfinished /\ disk'.tx.phase \in {"rolled_back", "failed"}
  /\ ~hurt /\ ~LeftAsItStands
  /\ Sound(before) /\ before.svc.run /\ before.svc.on
  => disk'.svc.run

LEMMA MarkReturns ==
  ASSUME LInv, MarkPhase
  PROVE  Returns
<1>1. SUFFICES ASSUME disk'.tx.phase \in {"rolled_back", "failed"}, ~hurt, Unfinished,
                      ~LeftAsItStands, Sound(before), before.svc.run
      PROVE  disk'.svc.run
  BY DEF Returns
<1>2. PICK phase \in Phases : Do(phase, [disk EXCEPT !.tx.phase = phase])
  BY DEF MarkPhase
<1>3. LTypes /\ disk \in Disks /\ disk.tx.op \in Operations
  BY DEF LInv, LTypes, Disks, Txs
<1>4. ~Free /\ Place(proc.script, proc.i, phase) /\ disk' = [disk EXCEPT !.tx.phase = phase]
  BY <1>2, <1>3, Did
<1>5. disk'.svc = disk.svc /\ disk'.tx.phase = phase
  BY <1>3, <1>4, SetsTxPhase DEF Same, Fields
<1>6. OpInv /\ Fits(proc.script, proc.i)
  BY <1>4, AtWork
<1>7. phase \in {"rolled_back", "failed"}
  BY <1>1, <1>5
<1>8. \/ proc.script = "cleanup" /\ proc.i = 6
      \/ proc.script = "abort" /\ proc.i = 2
      \/ proc.script = "pre_activation" /\ proc.i = 3
      \/ proc.script = "clean" /\ proc.i = 2
      \/ proc.script \in {"static_back", "recover_static"} /\ proc.i = 3
      \/ proc.script = "fail" /\ proc.i = 1
      \/ proc.script = "rollback_restore" /\ proc.i = 12
      \/ proc.script = "rollback_switch" /\ proc.i = 13
  BY <1>4, <1>7 DEF Place
<1>9. disk.tx.op # "install" \/ proc.script = "fail"
  BY <1>1, <1>6 DEF OpInv, InstallInv
<1>10. disk.tx.op = "repair_static" => disk.svc.run
  BY <1>1, <1>6 DEF OpInv, StaticInv, Back
<1>11. disk.tx.op = "restore" /\ disk.tx.phase = "preparing" => disk.svc.run
  BY <1>1, <1>6 DEF OpInv, RestoreInv, Back
<1>12. disk.tx.op = "repair_binary" /\ disk.tx.phase \in {"preparing", "prepared"} => disk.svc.run
  BY <1>1, <1>6 DEF OpInv, BinaryInv, Back
<1>13. disk.tx.op = "uninstall" /\ disk.tx.phase = "preparing" => disk.svc.run
  BY <1>1, <1>6 DEF OpInv, UninstallInv, Back
<1>14. disk.svc.run
  <2>1. CASE proc.script = "cleanup"
    BY <1>6, <1>9, <2>1 DEF Fits, CleanupFits
  <2>2. CASE proc.script = "abort" /\ proc.i = 2
    BY <1>1, <1>6, <2>2 DEF Fits, AbortFits
  <2>3. CASE proc.script = "pre_activation" /\ proc.i = 3
    BY <1>1, <1>6, <1>10, <2>3 DEF Fits, PreActivationFits
  <2>4. CASE proc.script = "clean"
    BY <1>1, <1>6, <1>10, <1>11, <1>12, <2>4 DEF Fits, CleanFits
  <2>5. CASE proc.script \in {"static_back", "recover_static"}
    BY <1>6, <1>10, <2>5 DEF Fits, StaticBackFits
  <2>6. CASE proc.script = "fail"
    <3>1. FailFits /\ disk.tx.op # "install"
      BY <1>1, <1>6, <2>6 DEF Fits, FailFits
    <3>2. disk.tx.op \in {"uninstall", "repair_binary"} => disk.tx.phase \notin {"stopping", "activating"}
      BY <1>1, <2>6 DEF LeftAsItStands, tx
    <3> QED
      BY <1>1, <1>3, <1>10, <1>11, <1>12, <1>13, <3>1, <3>2 DEF FailFits, Operations, EarlyPhases
  <2>7. CASE proc.script = "rollback_restore" /\ proc.i = 12
    BY <1>1, <1>6, <2>7 DEF Fits, RollbackRestoreFits
  <2>8. CASE proc.script = "rollback_switch" /\ proc.i = 13
    BY <1>1, <1>6, <2>8 DEF Fits, RollbackSwitchFits
  <2> QED
    BY <1>8, <2>1, <2>2, <2>3, <2>4, <2>5, <2>6, <2>7, <2>8
<1> QED
  BY <1>5, <1>14

LEMMA NextReturns ==
  ASSUME LInv, Next
  PROVE  Returns
<1>1. disk \in Disks
  BY DEF LInv, LTypes
<1>2. CASE MarkPhase
  BY <1>2, MarkReturns
<1>3. ASSUME disk'.tx.phase = disk.tx.phase PROVE Returns
  BY <1>3 DEF Returns, Unfinished, tx, Terminal
<1>4. CASE Step
  BY <1>2, <1>3, <1>4, PhaseKept DEF Step
<1>5. CASE StepFails \/ BackupMissing \/ Crash \/ Recover
  BY <1>3, <1>5 DEF StepFails, BackupMissing, Crash, Recover
<1>6. CASE Reboot \/ Operator
  BY <1>1, <1>3, <1>6 DEF Reboot, Operator, Stopped, Started, Disks
<1>7. ASSUME NEW command \in Operations, NEW version \in Versions, NEW keep \in BOOLEAN, Begin(command, version, keep) PROVE Returns
  BY <1>7 DEF Begin, Returns
<1>8. CASE CreateBackup \/ \E lkb \in disk.store : DeleteBackup(lkb)
  BY <1>1, <1>3, <1>8 DEF CreateBackup, DeleteBackup, Disks
<1> QED
  BY <1>4, <1>5, <1>6, <1>7, <1>8 DEF Next, Commands

-----------------------------------------------------------------------------
(* The theorems *)

(* Whatever the versions and however often commands, crashes, reboots and   *)
(* errors follow each other: installation, restore, uninstall and repairs   *)
(* keep the data directory they found, leave transaction files that can be  *)
(* read again, and end committed with the whole installation or as they     *)
(* began (begin, validate_transaction, recover_interrupted).                *)
THEOREM RootHolds == Spec => []RootInvariant
<1>1. LInv => RootInvariant
  BY TypesFollow, DataFollows, ReadableFollows, EndsFollow DEF RootInvariant
<1> QED
  BY InitHolds, NextKeeps, <1>1, PTL DEF Spec

(* When a transaction ends rolled back or failed, with no error met while   *)
(* undoing, the router runs again that ran when it began (restore_before,   *)
(* rollback_restore, recover_interrupted), unless an uninstall or a repair  *)
(* of the binary met its error while the router was stopped: these mark the *)
(* transaction failed and leave it so (uninstall, repair_binary).           *)
THEOREM RouterBack == Spec => RouterRunsAgain
<1>1. LInv /\ [Next]_vars => [Returns]_vars
  BY NextReturns
<1>2. [Returns]_vars <=> [ /\ Unfinished /\ disk'.tx.phase \in {"rolled_back", "failed"}
      /\ ~hurt /\ ~LeftAsItStands
      /\ Sound(before) /\ before.svc.run /\ before.svc.on
      => disk'.svc.run ]_vars
  BY DEF Returns, tx
<1> QED
  BY InitHolds, NextKeeps, <1>1, <1>2, PTL DEF Spec, RouterRunsAgain

-----------------------------------------------------------------------------
(* Migration: the state *)

MigScripts == {"idle", "waiting", "prepare", "switch", "rollback", "early", "fail"}
MigPhases == {"none", "committed", "rolled_back", "failed", "preparing", "prepared", "stopping",
              "activating", "verifying", "rolling_back"}
Units == [place: {"in", "aside"}, masked: BOOLEAN, on: BOOLEAN, run: BOOLEAN]
Installs == [release: BOOLEAN, data: BOOLEAN, link: BOOLEAN, state: BOOLEAN,
             reg: BOOLEAN, on: BOOLEAN, run: BOOLEAN]
Transactions == [phase: MigPhases, backup: BOOLEAN, before: BOOLEAN, legacy: BOOLEAN]
Works == [script: MigScripts, i: Nat, before: BOOLEAN, legacy: BOOLEAN]

MigTypes ==
  /\ kind \in M!Kinds /\ old \in Units /\ new \in Installs /\ migration \in Transactions
  /\ procs \in [M!Processes -> Works] /\ spoiled \in BOOLEAN
  /\ \A p \in M!Processes : M!Steps(p) => procs[p].i \in 1..Len(M!Script(procs[p].script))
  /\ migration.legacy => kind # "none"
  /\ \A p \in M!Processes : procs[p].legacy => kind # "none"
  /\ kind = "none" => old.place = "in" /\ ~old.masked /\ ~old.on

(* The old unit, where there is one. *)
OldKept == kind # "none" => old.place = "in" /\ ~old.masked /\ old.on /\ old.run
OldAway ==
  kind # "none" => /\ ~old.on /\ ~old.run
                   /\ IF M!Moved THEN old.place = "aside" ELSE old.masked
OldNoted == IF migration.legacy THEN OldAway ELSE OldKept

Unmade == new = M!Nothing
Off == ~new.reg /\ ~new.on /\ ~new.run
OnlyData == Off /\ ~new.release /\ ~new.link /\ ~new.state

(* What the file has recorded allows for what has been made. *)
Recorded == migration.before /\ (migration.legacy = (kind # "none"))
Undoable == OldNoted /\ (Unmade \/ Recorded)

Before == {"prepared", "stopping"}
During == {"activating", "verifying"}

(* Nobody is at work: what the transaction file says of the host. *)
AtRest ==
  /\ migration.phase \in {"none", "preparing"} => ~migration.legacy /\ Unmade /\ OldKept
  /\ migration.phase \in Before => Unmade /\ OldNoted
  /\ migration.phase \in During => Recorded /\ OldAway
  /\ migration.phase = "rolling_back" => Undoable
  /\ migration.phase \in {"failed", "rolled_back"} => Unmade /\ OldKept
  /\ migration.phase = "committed" =>
       /\ new.release /\ new.data /\ new.link /\ new.state /\ new.reg /\ new.on /\ new.run
       /\ OldAway /\ ~old.on /\ ~old.run

(* A process is at a step of a script. *)
PrepareFits == migration.phase = "preparing" /\ ~migration.legacy /\ Unmade /\ OldKept
MigFailFits == migration.phase \in {"preparing", "prepared"} /\ ~migration.legacy /\ Unmade /\ OldKept

Halfway == IF migration.legacy THEN old.place = "in" ELSE OldKept
EarlyFits(a) ==
  /\ migration.phase \in Before /\ Unmade
  /\ a = "unit_back" => OldNoted
  /\ a = "unit_on" => Halfway
  /\ a \in {"new_off", "failed"} => OldKept

RollbackFits(a) ==
  /\ migration.phase \in Before \cup During \cup {"rolling_back"}
  /\ a # "rolling_back" => migration.phase = "rolling_back"
  /\ a = "rolling_back" => AtRest
  /\ a = "new_off" => Undoable
  /\ a = "rm_new" => Undoable /\ Off
  /\ a = "unit_back" => OldNoted /\ OnlyData /\ (Unmade \/ Recorded)
  /\ a = "unit_on" => Halfway /\ OnlyData /\ (Unmade \/ Recorded)
  /\ a = "rm_data" => OldKept /\ OnlyData /\ (Unmade \/ Recorded)
  /\ a = "rolled_back" => OldKept /\ Unmade

UnitSteps == {"unit_stop", "unit_disable", "unit_away"}
Making == {"release", "data", "link", "register", "start", "verifying"}
Proving == {"health", "state", "committed"}
SwitchFits(a) ==
  /\ a = "stopping" => migration.phase = "prepared"
  /\ a \notin Making \cup Proving => migration.phase \in Before /\ Unmade
  /\ a \in {"stopping", "unit_stop"} \/ (a = "note_before" /\ kind # "managed") =>
       ~migration.legacy /\ OldKept
  /\ a \in {"unit_disable", "unit_away", "note_legacy"} => ~migration.legacy
  /\ a \in {"unit_disable", "unit_away"} => ~old.run
  /\ a = "unit_away" => ~old.on
  /\ a = "note_legacy" => OldAway
  /\ a \in UnitSteps \cup {"note_legacy"} /\ kind # "managed" => migration.before
  /\ a = "note_before" /\ kind = "managed" => OldAway /\ migration.legacy
  /\ a \in {"activating"} \cup Making \cup Proving => Recorded /\ OldAway
  /\ a \in Making => migration.phase = "activating"
  /\ a \in Proving => migration.phase = "verifying"
  /\ a \in (Making \ {"release"}) \cup Proving => new.release
  /\ a \in (Making \ {"release", "data"}) \cup Proving => new.data
  /\ a \in {"register", "start", "verifying"} \cup Proving => new.link
  /\ a \in {"start", "verifying"} \cup Proving => new.reg /\ new.on
  /\ a \in {"state", "committed"} => new.run /\ ~old.run
  /\ a = "committed" => new.state

MigFits(s, a) ==
  /\ s = "prepare" => PrepareFits
  /\ s = "fail" => MigFailFits
  /\ s = "early" => EarlyFits(a)
  /\ s = "rollback" => RollbackFits(a)
  /\ s = "switch" => SwitchFits(a)

Now(p) == M!Script(procs[p].script)[procs[p].i]
WorkInv ==
  \A p \in M!Processes : M!Steps(p) =>
    /\ procs[p].before = migration.before /\ procs[p].legacy = migration.legacy
    /\ MigFits(procs[p].script, Now(p))
    /\ \A q \in M!Processes : M!Steps(q) => q = p
RestInv == (\A p \in M!Processes : ~M!Steps(p)) => AtRest

(* Nothing is touched before the backup, whatever happened. *)
BackupInv ==
  ~migration.backup =>
    /\ Unmade /\ old.place = "in" /\ old.on = (kind # "none")
    /\ migration.phase \in {"none", "preparing", "failed"}
    /\ \A p \in M!Processes :
         /\ procs[p].script \in {"idle", "prepare", "fail"}
         /\ procs[p].script = "prepare" => procs[p].i = 1

MigInv == MigTypes /\ BackupInv /\ (~spoiled => WorkInv /\ RestInv)

-----------------------------------------------------------------------------
(* Migration: the scripts *)

StepNames ==
  {"stopping", "unit_stop", "unit_disable", "unit_away", "note_legacy", "note_before", "activating",
   "release", "data", "link", "register", "start", "verifying", "health", "state", "committed"}
Away == <<"unit_stop", "unit_disable", "unit_away", "note_legacy">>
First == <<"stopping">>
Note == <<"note_before">>
NoteOld == <<"note_legacy">>
AwayNote == <<"unit_stop", "unit_disable", "unit_away", "note_legacy", "note_before">>
NoteAway == <<"note_before", "unit_stop", "unit_disable", "unit_away", "note_legacy">>
NoteBoth == <<"note_before", "note_legacy">>
Build == <<"activating", "release", "data", "link", "register", "start", "verifying",
           "health", "state", "committed">>
FirstAway == <<"stopping", "unit_stop", "unit_disable", "unit_away", "note_legacy", "note_before">>
FirstNoted == <<"stopping", "note_before", "unit_stop", "unit_disable", "unit_away", "note_legacy">>
OnlyNoted == <<"stopping", "note_before", "note_legacy">>
SwitchAway ==
  <<"stopping", "unit_stop", "unit_disable", "unit_away", "note_legacy", "note_before",
    "activating", "release", "data", "link", "register", "start", "verifying", "health", "state", "committed">>
SwitchNoted ==
  <<"stopping", "note_before", "unit_stop", "unit_disable", "unit_away", "note_legacy",
    "activating", "release", "data", "link", "register", "start", "verifying", "health", "state", "committed">>
SwitchPlain ==
  <<"stopping", "note_before", "note_legacy",
    "activating", "release", "data", "link", "register", "start", "verifying", "health", "state", "committed">>

LEMMA Joined ==
  ASSUME NEW T, NEW s \in Seq(T), NEW t \in Seq(T), NEW r \in Seq(T), Len(r) = Len(s) + Len(t),
         \A i \in 1..Len(s) : r[i] = s[i], \A i \in 1..Len(t) : r[Len(s) + i] = t[i]
  PROVE  s \o t = r
  OBVIOUS

LEMMA Steplists ==
  /\ Away \in Seq(StepNames) /\ Build \in Seq(StepNames)
  /\ First \in Seq(StepNames) /\ Note \in Seq(StepNames) /\ NoteOld \in Seq(StepNames)
  /\ AwayNote \in Seq(StepNames) /\ NoteAway \in Seq(StepNames) /\ NoteBoth \in Seq(StepNames)
  /\ FirstAway \in Seq(StepNames) /\ FirstNoted \in Seq(StepNames) /\ OnlyNoted \in Seq(StepNames)
  /\ SwitchAway \in Seq(StepNames) /\ SwitchNoted \in Seq(StepNames) /\ SwitchPlain \in Seq(StepNames)
<1>1. Away \in Seq(StepNames) /\ Build \in Seq(StepNames)
  BY DEF Away, Build, StepNames
<1>2. FirstAway \in Seq(StepNames) /\ FirstNoted \in Seq(StepNames) /\ OnlyNoted \in Seq(StepNames)
  BY DEF FirstAway, FirstNoted, OnlyNoted, StepNames
<1>3. SwitchAway \in Seq(StepNames) /\ SwitchNoted \in Seq(StepNames) /\ SwitchPlain \in Seq(StepNames)
  BY DEF SwitchAway, SwitchNoted, SwitchPlain, StepNames
<1>4. First \in Seq(StepNames) /\ Note \in Seq(StepNames) /\ NoteOld \in Seq(StepNames)
  BY DEF First, Note, NoteOld, StepNames
<1>5. AwayNote \in Seq(StepNames) /\ NoteAway \in Seq(StepNames) /\ NoteBoth \in Seq(StepNames)
  BY DEF AwayNote, NoteAway, NoteBoth, StepNames
<1> QED
  BY <1>1, <1>2, <1>3, <1>4, <1>5

LEMMA Steplengths ==
  /\ Len(Away) = 4 /\ Len(Build) = 10 /\ Len(FirstAway) = 6 /\ Len(FirstNoted) = 6 /\ Len(OnlyNoted) = 3
  /\ Len(SwitchAway) = 16 /\ Len(SwitchNoted) = 16 /\ Len(SwitchPlain) = 13
  /\ Len(First) = 1 /\ Len(Note) = 1 /\ Len(NoteOld) = 1
  /\ Len(AwayNote) = 5 /\ Len(NoteAway) = 5 /\ Len(NoteBoth) = 2
  BY DEF First, Note, NoteOld, AwayNote, NoteAway, NoteBoth,
         Away, Build, FirstAway, FirstNoted, OnlyNoted, SwitchAway, SwitchNoted, SwitchPlain

LEMMA BuildAway == FirstAway \o Build = SwitchAway
<1>1. \A i \in 1..Len(FirstAway) : SwitchAway[i] = FirstAway[i]
  BY Steplengths DEF FirstAway, SwitchAway
<1>2. ASSUME NEW i \in 1..Len(Build) PROVE SwitchAway[Len(FirstAway) + i] = Build[i]
  <2>1. i \in {1, 2, 3, 4, 5, 6, 7, 8, 9, 10}
    BY Steplengths
  <2> QED
    BY <2>1, Steplengths DEF Build, SwitchAway
<1>3. Len(SwitchAway) = Len(FirstAway) + Len(Build)
  BY Steplengths
<1>4. FirstAway \in Seq(StepNames) /\ Build \in Seq(StepNames) /\ SwitchAway \in Seq(StepNames)
  BY Steplists
<1> QED
  BY <1>1, <1>2, <1>3, <1>4, Joined

LEMMA BuildNoted == FirstNoted \o Build = SwitchNoted
<1>1. \A i \in 1..Len(FirstNoted) : SwitchNoted[i] = FirstNoted[i]
  BY Steplengths DEF FirstNoted, SwitchNoted
<1>2. ASSUME NEW i \in 1..Len(Build) PROVE SwitchNoted[Len(FirstNoted) + i] = Build[i]
  <2>1. i \in {1, 2, 3, 4, 5, 6, 7, 8, 9, 10}
    BY Steplengths
  <2> QED
    BY <2>1, Steplengths DEF Build, SwitchNoted
<1>3. Len(SwitchNoted) = Len(FirstNoted) + Len(Build)
  BY Steplengths
<1>4. FirstNoted \in Seq(StepNames) /\ Build \in Seq(StepNames) /\ SwitchNoted \in Seq(StepNames)
  BY Steplists
<1> QED
  BY <1>1, <1>2, <1>3, <1>4, Joined

LEMMA BuildPlain == OnlyNoted \o Build = SwitchPlain
<1>1. \A i \in 1..Len(OnlyNoted) : SwitchPlain[i] = OnlyNoted[i]
  BY Steplengths DEF OnlyNoted, SwitchPlain
<1>2. ASSUME NEW i \in 1..Len(Build) PROVE SwitchPlain[Len(OnlyNoted) + i] = Build[i]
  <2>1. i \in {1, 2, 3, 4, 5, 6, 7, 8, 9, 10}
    BY Steplengths
  <2> QED
    BY <2>1, Steplengths DEF Build, SwitchPlain
<1>3. Len(SwitchPlain) = Len(OnlyNoted) + Len(Build)
  BY Steplengths
<1>4. OnlyNoted \in Seq(StepNames) /\ Build \in Seq(StepNames) /\ SwitchPlain \in Seq(StepNames)
  BY Steplists
<1> QED
  BY <1>1, <1>2, <1>3, <1>4, Joined

LEMMA JoinAwayNote == Away \o Note = AwayNote
<1>1. \A i \in 1..Len(Away) : AwayNote[i] = Away[i]
  BY Steplengths DEF Away, AwayNote
<1>2. ASSUME NEW i \in 1..Len(Note) PROVE AwayNote[Len(Away) + i] = Note[i]
  <2>1. i \in {1}
    BY Steplengths
  <2> QED
    BY <2>1, Steplengths DEF Note, AwayNote
<1>3. Len(AwayNote) = Len(Away) + Len(Note)
  BY Steplengths
<1>4. Away \in Seq(StepNames) /\ Note \in Seq(StepNames) /\ AwayNote \in Seq(StepNames)
  BY Steplists
<1> QED
  BY <1>1, <1>2, <1>3, <1>4, Joined

LEMMA JoinNoteAway == Note \o Away = NoteAway
<1>1. \A i \in 1..Len(Note) : NoteAway[i] = Note[i]
  BY Steplengths DEF Note, NoteAway
<1>2. ASSUME NEW i \in 1..Len(Away) PROVE NoteAway[Len(Note) + i] = Away[i]
  <2>1. i \in {1, 2, 3, 4}
    BY Steplengths
  <2> QED
    BY <2>1, Steplengths DEF Away, NoteAway
<1>3. Len(NoteAway) = Len(Note) + Len(Away)
  BY Steplengths
<1>4. Note \in Seq(StepNames) /\ Away \in Seq(StepNames) /\ NoteAway \in Seq(StepNames)
  BY Steplists
<1> QED
  BY <1>1, <1>2, <1>3, <1>4, Joined

LEMMA JoinNoteBoth == Note \o NoteOld = NoteBoth
<1>1. \A i \in 1..Len(Note) : NoteBoth[i] = Note[i]
  BY Steplengths DEF Note, NoteBoth
<1>2. ASSUME NEW i \in 1..Len(NoteOld) PROVE NoteBoth[Len(Note) + i] = NoteOld[i]
  <2>1. i \in {1}
    BY Steplengths
  <2> QED
    BY <2>1, Steplengths DEF NoteOld, NoteBoth
<1>3. Len(NoteBoth) = Len(Note) + Len(NoteOld)
  BY Steplengths
<1>4. Note \in Seq(StepNames) /\ NoteOld \in Seq(StepNames) /\ NoteBoth \in Seq(StepNames)
  BY Steplists
<1> QED
  BY <1>1, <1>2, <1>3, <1>4, Joined

LEMMA JoinFirstAway == First \o AwayNote = FirstAway
<1>1. \A i \in 1..Len(First) : FirstAway[i] = First[i]
  BY Steplengths DEF First, FirstAway
<1>2. ASSUME NEW i \in 1..Len(AwayNote) PROVE FirstAway[Len(First) + i] = AwayNote[i]
  <2>1. i \in {1, 2, 3, 4, 5}
    BY Steplengths
  <2> QED
    BY <2>1, Steplengths DEF AwayNote, FirstAway
<1>3. Len(FirstAway) = Len(First) + Len(AwayNote)
  BY Steplengths
<1>4. First \in Seq(StepNames) /\ AwayNote \in Seq(StepNames) /\ FirstAway \in Seq(StepNames)
  BY Steplists
<1> QED
  BY <1>1, <1>2, <1>3, <1>4, Joined

LEMMA JoinFirstNoted == First \o NoteAway = FirstNoted
<1>1. \A i \in 1..Len(First) : FirstNoted[i] = First[i]
  BY Steplengths DEF First, FirstNoted
<1>2. ASSUME NEW i \in 1..Len(NoteAway) PROVE FirstNoted[Len(First) + i] = NoteAway[i]
  <2>1. i \in {1, 2, 3, 4, 5}
    BY Steplengths
  <2> QED
    BY <2>1, Steplengths DEF NoteAway, FirstNoted
<1>3. Len(FirstNoted) = Len(First) + Len(NoteAway)
  BY Steplengths
<1>4. First \in Seq(StepNames) /\ NoteAway \in Seq(StepNames) /\ FirstNoted \in Seq(StepNames)
  BY Steplists
<1> QED
  BY <1>1, <1>2, <1>3, <1>4, Joined

LEMMA JoinOnlyNoted == First \o NoteBoth = OnlyNoted
<1>1. \A i \in 1..Len(First) : OnlyNoted[i] = First[i]
  BY Steplengths DEF First, OnlyNoted
<1>2. ASSUME NEW i \in 1..Len(NoteBoth) PROVE OnlyNoted[Len(First) + i] = NoteBoth[i]
  <2>1. i \in {1, 2}
    BY Steplengths
  <2> QED
    BY <2>1, Steplengths DEF NoteBoth, OnlyNoted
<1>3. Len(OnlyNoted) = Len(First) + Len(NoteBoth)
  BY Steplengths
<1>4. First \in Seq(StepNames) /\ NoteBoth \in Seq(StepNames) /\ OnlyNoted \in Seq(StepNames)
  BY Steplists
<1> QED
  BY <1>1, <1>2, <1>3, <1>4, Joined

(* What a switch goes through, by where the old unit is. *)
LEMMA SwitchIs ==
  /\ kind = "managed" => M!SwitchScript = SwitchAway
  /\ kind \in {"etc", "lib"} => M!SwitchScript = SwitchNoted
  /\ kind = "none" => M!SwitchScript = SwitchPlain
<1> DEFINE mid == IF kind = "managed" THEN M!StopOld \o Note ELSE Note \o M!StopOld
<1>1. M!SwitchScript = (First \o mid) \o Build
  BY DEF M!SwitchScript, Build, First, Note
<1>2. kind = "managed" => mid = Away \o Note
  BY DEF M!StopOld, Away
<1>3. kind \in {"etc", "lib"} => mid = Note \o Away
  BY DEF M!StopOld, Away
<1>4. kind = "none" => mid = Note \o NoteOld
  BY DEF M!StopOld, NoteOld
<1> HIDE DEF mid
<1> QED
  BY <1>1, <1>2, <1>3, <1>4, JoinAwayNote, JoinNoteAway, JoinNoteBoth,
     JoinFirstAway, JoinFirstNoted, JoinOnlyNoted, BuildAway, BuildNoted, BuildPlain

(* Which step comes after which. *)
SwitchFollows(a, b) ==
  /\ a = "stopping" => b = IF kind = "managed" THEN "unit_stop" ELSE "note_before"
  /\ a = "unit_stop" => b = "unit_disable"
  /\ a = "unit_disable" => b = "unit_away"
  /\ a = "unit_away" => b = "note_legacy"
  /\ a = "note_legacy" => b = IF kind = "managed" THEN "note_before" ELSE "activating"
  /\ a = "note_before" => /\ kind = "managed" => b = "activating"
                          /\ kind \in {"etc", "lib"} => b = "unit_stop"
                          /\ kind = "none" => b = "note_legacy"
  /\ a = "activating" => b = "release"
  /\ a = "release" => b = "data"
  /\ a = "data" => b = "link"
  /\ a = "link" => b = "register"
  /\ a = "register" => b = "start"
  /\ a = "start" => b = "verifying"
  /\ a = "verifying" => b = "health"
  /\ a = "health" => b = "state"
  /\ a = "state" => b = "committed"

LEMMA SwitchGoes ==
  ASSUME kind \in M!Kinds, NEW i \in 1..Len(M!SwitchScript)
  PROVE  /\ M!SwitchScript[i] \in StepNames
         /\ M!SwitchScript[i] \in UnitSteps => kind # "none"
         /\ (i = 1) = (M!SwitchScript[i] = "stopping")
         /\ (i = Len(M!SwitchScript)) = (M!SwitchScript[i] = "committed")
         /\ i # Len(M!SwitchScript) =>
              i + 1 \in 1..Len(M!SwitchScript) /\ SwitchFollows(M!SwitchScript[i], M!SwitchScript[i + 1])
<1>1. CASE kind = "managed"
  <2>1. M!SwitchScript = SwitchAway /\ Len(SwitchAway) = 16
    BY <1>1, SwitchIs, Steplengths
  <2>2. i \in {1, 2, 3, 4, 5, 6, 7, 8, 9, 10, 11, 12, 13, 14, 15, 16}
    BY <2>1
  <2> QED
    BY <1>1, <2>1, <2>2 DEF SwitchAway, SwitchFollows, UnitSteps, StepNames
<1>2. CASE kind \in {"etc", "lib"}
  <2>1. M!SwitchScript = SwitchNoted /\ Len(SwitchNoted) = 16
    BY <1>2, SwitchIs, Steplengths
  <2>2. i \in {1, 2, 3, 4, 5, 6, 7, 8, 9, 10, 11, 12, 13, 14, 15, 16}
    BY <2>1
  <2> QED
    BY <1>2, <2>1, <2>2 DEF SwitchNoted, SwitchFollows, UnitSteps, StepNames
<1>3. CASE kind = "none"
  <2>1. M!SwitchScript = SwitchPlain /\ Len(SwitchPlain) = 13
    BY <1>3, SwitchIs, Steplengths
  <2>2. i \in {1, 2, 3, 4, 5, 6, 7, 8, 9, 10, 11, 12, 13}
    BY <2>1
  <2> QED
    BY <1>3, <2>1, <2>2 DEF SwitchPlain, SwitchFollows, UnitSteps, StepNames
<1> QED
  BY <1>1, <1>2, <1>3 DEF M!Kinds

(* The steps of a switch at which the old unit is touched and the file does  *)
(* not say so.                                                              *)
LEMMA SwitchWindow ==
  ASSUME kind \in M!Kinds, NEW i \in 1..Len(M!SwitchScript),
         kind # "none", M!SwitchScript[i] \in {"unit_disable", "unit_away", "note_legacy"}
  PROVE  /\ \E j \in 1..(i - 1) : M!SwitchScript[j] = "unit_stop"
         /\ ~\E j \in 1..(i - 1) : M!SwitchScript[j] = "note_legacy"
<1>1. CASE kind = "managed"
  <2>1. M!SwitchScript = SwitchAway /\ Len(SwitchAway) = 16
    BY <1>1, SwitchIs, Steplengths
  <2>2. i \in {1, 2, 3, 4, 5, 6, 7, 8, 9, 10, 11, 12, 13, 14, 15, 16}
    BY <2>1
  <2>3. i \in {3, 4, 5}
    BY <2>1, <2>2 DEF SwitchAway
  <2>4. 2 \in 1..(i - 1) /\ \A j \in 1..(i - 1) : j \in {1, 2, 3, 4}
    BY <2>3
  <2>5. SwitchAway[2] = "unit_stop" /\ \A j \in {1, 2, 3, 4} : SwitchAway[j] # "note_legacy"
    BY DEF SwitchAway
  <2> QED
    BY <2>1, <2>4, <2>5
<1>2. CASE kind \in {"etc", "lib"}
  <2>1. M!SwitchScript = SwitchNoted /\ Len(SwitchNoted) = 16
    BY <1>2, SwitchIs, Steplengths
  <2>2. i \in {1, 2, 3, 4, 5, 6, 7, 8, 9, 10, 11, 12, 13, 14, 15, 16}
    BY <2>1
  <2>3. i \in {4, 5, 6}
    BY <2>1, <2>2 DEF SwitchNoted
  <2>4. 3 \in 1..(i - 1) /\ \A j \in 1..(i - 1) : j \in {1, 2, 3, 4, 5}
    BY <2>3
  <2>5. SwitchNoted[3] = "unit_stop" /\ \A j \in {1, 2, 3, 4, 5} : SwitchNoted[j] # "note_legacy"
    BY DEF SwitchNoted
  <2> QED
    BY <2>1, <2>4, <2>5
<1> QED
  BY <1>1, <1>2 DEF M!Kinds

RollbackFollows(a, b) ==
  /\ a = "rolling_back" => b = "new_off"
  /\ a = "new_off" => b = "rm_new"
  /\ a = "rm_new" => b = "unit_back"
  /\ a = "unit_back" => b = "unit_on"
  /\ a = "unit_on" => b = "rm_data"
  /\ a = "rm_data" => b = "rolled_back"

EarlyFollows(a, b) ==
  /\ a = "unit_back" => b = "unit_on"
  /\ a = "unit_on" => b = "new_off"
  /\ a = "new_off" => b = "failed"

LEMMA RollbackGoes ==
  ASSUME NEW i \in 1..Len(M!RollbackScript)
  PROVE  /\ M!RollbackScript[i] \in {"rolling_back", "new_off", "rm_new", "unit_back", "unit_on", "rm_data", "rolled_back"}
         /\ (i = Len(M!RollbackScript)) = (M!RollbackScript[i] = "rolled_back")
         /\ i # Len(M!RollbackScript) =>
              i + 1 \in 1..Len(M!RollbackScript) /\ RollbackFollows(M!RollbackScript[i], M!RollbackScript[i + 1])
         /\ M!RollbackScript[i] \in {"unit_on", "rm_data", "rolled_back"} =>
              \E j \in 1..(i - 1) : M!RollbackScript[j] = "unit_back"
<1>1. Len(M!RollbackScript) = 7
  BY DEF M!RollbackScript
<1>2. i \in {1, 2, 3, 4, 5, 6, 7}
  BY <1>1
<1>3. M!RollbackScript[i] \in {"unit_on", "rm_data", "rolled_back"} => i \in {5, 6, 7}
  BY <1>2 DEF M!RollbackScript
<1>4. i \in {5, 6, 7} => 4 \in 1..(i - 1) /\ M!RollbackScript[4] = "unit_back"
  BY DEF M!RollbackScript
<1>5. /\ M!RollbackScript[i] \in {"rolling_back", "new_off", "rm_new", "unit_back", "unit_on", "rm_data", "rolled_back"}
      /\ (i = 7) = (M!RollbackScript[i] = "rolled_back")
      /\ i # 7 => i + 1 \in 1..7 /\ RollbackFollows(M!RollbackScript[i], M!RollbackScript[i + 1])
  BY <1>2 DEF M!RollbackScript, RollbackFollows
<1> QED
  BY <1>1, <1>3, <1>4, <1>5

LEMMA EarlyGoes ==
  ASSUME NEW i \in 1..Len(M!EarlyScript)
  PROVE  /\ M!EarlyScript[i] \in {"unit_back", "unit_on", "new_off", "failed"}
         /\ (i = Len(M!EarlyScript)) = (M!EarlyScript[i] = "failed")
         /\ i # Len(M!EarlyScript) =>
              i + 1 \in 1..Len(M!EarlyScript) /\ EarlyFollows(M!EarlyScript[i], M!EarlyScript[i + 1])
         /\ M!EarlyScript[i] \in {"unit_on", "new_off", "failed"} =>
              \E j \in 1..(i - 1) : M!EarlyScript[j] = "unit_back"
<1>1. Len(M!EarlyScript) = 4
  BY DEF M!EarlyScript
<1>2. i \in {1, 2, 3, 4}
  BY <1>1
<1>3. M!EarlyScript[i] \in {"unit_on", "new_off", "failed"} => i \in {2, 3, 4}
  BY <1>2 DEF M!EarlyScript
<1>4. i \in {2, 3, 4} => 1 \in 1..(i - 1) /\ M!EarlyScript[1] = "unit_back"
  BY DEF M!EarlyScript
<1>5. /\ M!EarlyScript[i] \in {"unit_back", "unit_on", "new_off", "failed"}
      /\ (i = 4) = (M!EarlyScript[i] = "failed")
      /\ i # 4 => i + 1 \in 1..4 /\ EarlyFollows(M!EarlyScript[i], M!EarlyScript[i + 1])
  BY <1>2 DEF M!EarlyScript, EarlyFollows
<1> QED
  BY <1>1, <1>3, <1>4, <1>5

LEMMA PrepareGoes ==
  ASSUME NEW i \in 1..Len(M!PrepareScript)
  PROVE  /\ M!PrepareScript[i] \in {"backup", "prepared"}
         /\ (i = Len(M!PrepareScript)) = (M!PrepareScript[i] = "prepared")
         /\ i # Len(M!PrepareScript) => i + 1 \in 1..Len(M!PrepareScript) /\ M!PrepareScript[i + 1] = "prepared"
         /\ (i = 1) = (M!PrepareScript[i] = "backup")
<1>1. Len(M!PrepareScript) = 2
  BY DEF M!PrepareScript
<1>2. i \in {1, 2}
  BY <1>1
<1> QED
  BY <1>1, <1>2 DEF M!PrepareScript

Named == {"prepare", "switch", "rollback", "early", "fail"}

Follows(s, a, b) ==
  /\ s = "switch" => SwitchFollows(a, b)
  /\ s = "rollback" => RollbackFollows(a, b)
  /\ s = "early" => EarlyFollows(a, b)
  /\ s = "prepare" => b = "prepared"

(* The steps a script has, and its last one. *)
Has(s, a) ==
  /\ s = "switch" => a \in StepNames /\ (a \in UnitSteps => kind # "none")
  /\ s = "rollback" => a \in {"rolling_back", "new_off", "rm_new", "unit_back", "unit_on", "rm_data", "rolled_back"}
  /\ s = "early" => a \in {"unit_back", "unit_on", "new_off", "failed"}
  /\ s = "prepare" => a \in {"backup", "prepared"}
  /\ s = "fail" => a = "failed"

IsLast(s, a) ==
  \/ s = "switch" /\ a = "committed"
  \/ s = "rollback" /\ a = "rolled_back"
  \/ s = "early" /\ a = "failed"
  \/ s = "prepare" /\ a = "prepared"
  \/ s = "fail" /\ a = "failed"

LEMMA ScriptGoes ==
  ASSUME kind \in M!Kinds, NEW s \in Named, NEW i \in 1..Len(M!Script(s))
  PROVE  /\ Has(s, M!Script(s)[i])
         /\ i = Len(M!Script(s)) => IsLast(s, M!Script(s)[i])
         /\ i # Len(M!Script(s)) =>
              /\ i + 1 \in 1..Len(M!Script(s)) /\ ~IsLast(s, M!Script(s)[i])
              /\ Follows(s, M!Script(s)[i], M!Script(s)[i + 1])
<1>1. CASE s = "switch"
  <2>1. M!Script(s) = M!SwitchScript
    BY <1>1 DEF M!Script
  <2> QED
    BY <1>1, <2>1, SwitchGoes DEF Has, IsLast, Follows
<1>2. CASE s = "rollback"
  <2>1. M!Script(s) = M!RollbackScript
    BY <1>2 DEF M!Script
  <2> QED
    BY <1>2, <2>1, RollbackGoes DEF Has, IsLast, Follows
<1>3. CASE s = "early"
  <2>1. M!Script(s) = M!EarlyScript
    BY <1>3 DEF M!Script
  <2> QED
    BY <1>3, <2>1, EarlyGoes DEF Has, IsLast, Follows
<1>4. CASE s = "prepare"
  <2>1. M!Script(s) = M!PrepareScript
    BY <1>4 DEF M!Script
  <2> QED
    BY <1>4, <2>1, PrepareGoes DEF Has, IsLast, Follows
<1>5. CASE s = "fail"
  <2>1. M!Script(s) = <<"failed">> /\ Len(M!Script(s)) = 1
    BY <1>5 DEF M!Script
  <2>2. i = 1
    BY <2>1
  <2> QED
    BY <1>5, <2>1, <2>2 DEF Has, IsLast, Follows
<1> QED
  BY <1>1, <1>2, <1>3, <1>4, <1>5 DEF Named

LEMMA ScriptBegins ==
  ASSUME kind \in M!Kinds, NEW s \in Named
  PROVE  /\ 1 \in 1..Len(M!Script(s))
         /\ s = "switch" => M!Script(s)[1] = "stopping"
         /\ s = "rollback" => M!Script(s)[1] = "rolling_back"
         /\ s = "early" => M!Script(s)[1] = "unit_back"
         /\ s = "prepare" => M!Script(s)[1] = "backup"
         /\ s = "fail" => M!Script(s)[1] = "failed"
<1>1. CASE s = "switch"
  <2>1. M!Script(s) = M!SwitchScript
    BY <1>1 DEF M!Script
  <2>2. M!SwitchScript \in {SwitchAway, SwitchNoted, SwitchPlain}
    BY SwitchIs DEF M!Kinds
  <2>3. SwitchAway[1] = "stopping" /\ SwitchNoted[1] = "stopping" /\ SwitchPlain[1] = "stopping"
    BY DEF SwitchAway, SwitchNoted, SwitchPlain
  <2>4. Len(M!SwitchScript) \in {16, 13} /\ M!SwitchScript[1] = "stopping"
    BY <2>2, <2>3, Steplengths
  <2> QED
    BY <1>1, <2>1, <2>4
<1>2. CASE s # "switch"
  BY <1>2 DEF M!Script, M!RollbackScript, M!EarlyScript, M!PrepareScript, Named
<1> QED
  BY <1>1, <1>2

LEMMA ScriptSame ==
  ASSUME kind' = kind
  PROVE  \A s : M!Script(s)' = M!Script(s)
  BY DEF M!Script, M!SwitchScript, M!StopOld, M!PrepareScript, M!RollbackScript, M!EarlyScript

LEMMA Working ==
  ASSUME MigTypes, NEW p \in M!Processes, M!Steps(p)
  PROVE  /\ procs[p] \in Works /\ procs[p].script \in Named /\ procs[p].i \in 1..Len(M!Script(procs[p].script))
         /\ Has(procs[p].script, Now(p))
<1>1. procs[p] \in Works /\ procs[p].i \in 1..Len(M!Script(procs[p].script)) /\ kind \in M!Kinds
  BY DEF MigTypes
<1>2. procs[p].script \in Named
  BY <1>1 DEF Works, M!Steps, MigScripts, Named
<1> QED
  BY <1>1, <1>2, ScriptGoes DEF Now

LEMMA IdleIs ==
  /\ M!Idle \in Works /\ M!Idle.script = "idle" /\ ~M!Idle.legacy
  BY DEF M!Idle, Works, MigScripts

LEMMA RunsIs ==
  ASSUME migration \in Transactions, NEW s \in MigScripts
  PROVE  /\ M!Runs(s) \in Works /\ M!Runs(s).script = s /\ M!Runs(s).i = 1
         /\ M!Runs(s).before = migration.before /\ M!Runs(s).legacy = migration.legacy
  BY DEF M!Runs, Works, Transactions

(* A process takes a step of its script. *)
Moves(p) ==
  /\ procs' \in [M!Processes -> Works]
  /\ \A q \in M!Processes : q # p => procs'[q] = procs[q]
  /\ \/ /\ ~IsLast(procs[p].script, Now(p))
        /\ procs'[p].script = procs[p].script /\ procs'[p].i \in 1..Len(M!Script(procs[p].script))
        /\ procs'[p].legacy => kind # "none"
        /\ Follows(procs[p].script, Now(p), Now(p)')
     \/ /\ IsLast(procs[p].script, Now(p)) /\ procs[p].script # "prepare" /\ procs'[p] = M!Idle
     \/ /\ IsLast(procs[p].script, Now(p)) /\ procs[p].script = "prepare"
        /\ (procs'[p] = M!Runs("waiting") \/ procs'[p] = M!Runs("switch"))

LEMMA MigAdvanced ==
  ASSUME MigTypes, NEW p \in M!Processes, M!Steps(p), M!Advances(p), kind' = kind
  PROVE  /\ Moves(p)
         /\ ~IsLast(procs[p].script, Now(p)) =>
              procs'[p].before = procs[p].before /\ procs'[p].legacy = procs[p].legacy
<1>1. /\ procs[p] \in Works /\ procs[p].script \in Named /\ procs[p].i \in 1..Len(M!Script(procs[p].script))
      /\ procs \in [M!Processes -> Works] /\ kind \in M!Kinds /\ migration \in Transactions
      /\ procs[p].legacy => kind # "none"
  BY Working DEF MigTypes
<1> DEFINE s == procs[p].script
           i == procs[p].i
<1>2. CASE i = Len(M!Script(s))
  <2>1. PICK w \in M!Ends(p) : procs' = [procs EXCEPT ![p] = w]
    BY <1>2 DEF M!Advances
  <2>2. IsLast(s, Now(p))
    BY <1>1, <1>2, ScriptGoes DEF Now
  <2>3. w \in Works
    BY <1>1, <2>1, IdleIs, RunsIs DEF M!Ends, MigScripts
  <2>4. procs'[p] = w /\ procs' \in [M!Processes -> Works] /\ \A q \in M!Processes : q # p => procs'[q] = procs[q]
    BY <1>1, <2>1, <2>3
  <2>5. IF s = "prepare" THEN w = M!Runs("waiting") \/ w = M!Runs("switch") ELSE w = M!Idle
    BY <2>1 DEF M!Ends
  <2> QED
    BY <2>2, <2>4, <2>5 DEF Moves
<1>3. CASE i # Len(M!Script(s))
  <2>1. procs' = [procs EXCEPT ![p] = [procs[p] EXCEPT !.i = procs[p].i + 1]]
    BY <1>3 DEF M!Advances
  <2>2. /\ i + 1 \in 1..Len(M!Script(s)) /\ ~IsLast(s, Now(p))
        /\ Follows(s, Now(p), M!Script(s)[i + 1])
    BY <1>1, <1>3, ScriptGoes DEF Now
  <2> DEFINE w == [procs[p] EXCEPT !.i = i + 1]
  <2>3. procs' = [procs EXCEPT ![p] = w]
    BY <2>1
  <2>4. w \in Works /\ w.script = s /\ w.i = i + 1 /\ w.before = procs[p].before /\ w.legacy = procs[p].legacy
    BY <1>1 DEF Works
  <2> HIDE DEF w
  <2>5. procs'[p] = w /\ procs' \in [M!Processes -> Works] /\ \A q \in M!Processes : q # p => procs'[q] = procs[q]
    BY <1>1, <2>3, <2>4
  <2>6. Now(p)' = M!Script(s)[i + 1]
    BY <2>4, <2>5, ScriptSame DEF Now
  <2> QED
    BY <1>1, <2>2, <2>4, <2>5, <2>6 DEF Moves
<1> QED
  BY <1>2, <1>3

-----------------------------------------------------------------------------
(* Migration: what every step of a script owes *)

OldTyped(o) == o \in Units /\ (kind = "none" => o.place = "in" /\ ~o.masked /\ ~o.on)

LEMMA Processed ==
  ASSUME MigTypes, NEW p \in M!Processes, M!Steps(p), Moves(p), kind' = kind,
         OldTyped(old)', new' \in Installs, migration' \in Transactions,
         spoiled' \in BOOLEAN, migration'.legacy => kind # "none"
  PROVE  MigTypes'
<1>1. /\ procs \in [M!Processes -> Works] /\ kind \in M!Kinds /\ migration \in Transactions
      /\ procs[p] \in Works /\ procs[p].script \in Named
      /\ \A q \in M!Processes : procs[q].legacy => kind # "none"
      /\ \A q \in M!Processes : M!Steps(q) => procs[q].i \in 1..Len(M!Script(procs[q].script))
      /\ migration.legacy => kind # "none"
  BY Working DEF MigTypes
<1>2. \A q \in M!Processes : procs'[q].legacy => kind # "none"
  BY <1>1, IdleIs, RunsIs DEF Moves, MigScripts
<1>3. ASSUME NEW q \in M!Processes, M!Steps(q)'
      PROVE  (procs[q].i \in 1..Len(M!Script(procs[q].script)))'
  <2>1. CASE q # p
    <3>1. procs'[q] = procs[q] /\ M!Steps(q)
      BY <1>3, <2>1 DEF Moves, M!Steps
    <3> QED
      BY <1>1, <3>1, ScriptSame
  <2>2. CASE q = p /\ procs'[p].script = procs[p].script /\ procs'[p].i \in 1..Len(M!Script(procs[p].script))
    BY <2>2, ScriptSame
  <2>3. CASE q = p /\ procs'[p] = M!Idle
    BY <1>3, <2>3, IdleIs DEF M!Steps
  <2>4. CASE q = p /\ procs'[p] = M!Runs("waiting")
    BY <1>1, <1>3, <2>4, RunsIs DEF M!Steps, MigScripts
  <2>5. CASE q = p /\ procs'[p] = M!Runs("switch")
    <3>1. procs'[p].script = "switch" /\ procs'[p].i = 1
      BY <1>1, <2>5, RunsIs DEF MigScripts
    <3>2. 1 \in 1..Len(M!Script("switch"))
      BY <1>1, ScriptBegins DEF Named
    <3> QED
      BY <2>5, <3>1, <3>2, ScriptSame
  <2> QED
    BY <2>1, <2>2, <2>3, <2>4, <2>5 DEF Moves
<1> QED
  BY <1>1, <1>2, <1>3 DEF Moves, MigTypes, OldTyped

SameCopy(p) == procs[p].before = migration.before /\ procs[p].legacy = migration.legacy

LEMMA MigLanded ==
  ASSUME MigInv, NEW p \in M!Processes, M!Steps(p), Moves(p), procs[p].script # "prepare",
         NEW s, s = procs[p].script, NEW a, a = Now(p), kind' = kind, spoiled' = spoiled,
         OldTyped(old)', new' \in Installs, migration' \in Transactions, migration'.backup = migration.backup,
         migration'.legacy => kind # "none",
         (~spoiled /\ ~IsLast(s, a)) =>
           procs'[p].before = migration'.before /\ procs'[p].legacy = migration'.legacy,
         ~migration.backup => Unmade' /\ old'.place = "in" /\ old'.on = (kind # "none") /\ migration'.phase = "failed",
         (~spoiled /\ MigFits(s, a) /\ SameCopy(p) /\ ~IsLast(s, a)) => \A b : Follows(s, a, b) => MigFits(s, b)',
         (~spoiled /\ MigFits(s, a) /\ SameCopy(p) /\ IsLast(s, a)) => AtRest'
  PROVE  MigInv'
<1>1. MigTypes
  BY DEF MigInv
<1>2. MigTypes'
  <2>1. spoiled' \in BOOLEAN /\ (migration'.legacy => kind # "none")
    BY <1>1 DEF MigTypes
  <2> QED
    BY <1>1, <2>1, Processed
<1>3. BackupInv'
  <2>1. SUFFICES ASSUME ~migration.backup
                 PROVE  \A q \in M!Processes :
                          /\ procs'[q].script \in {"idle", "prepare", "fail"}
                          /\ procs'[q].script = "prepare" => procs'[q].i = 1
    BY DEF BackupInv
  <2>2. \A q \in M!Processes :
          /\ procs[q].script \in {"idle", "prepare", "fail"}
          /\ procs[q].script = "prepare" => procs[q].i = 1
    BY <2>1 DEF MigInv, BackupInv
  <2> QED
    BY <2>2, IdleIs DEF Moves
<1>4. ASSUME ~spoiled PROVE (WorkInv /\ RestInv)'
  <2>1. WorkInv
    BY <1>4 DEF MigInv
  <2>2. \A q \in M!Processes : q # p => ~M!Steps(q)'
    BY <2>1 DEF WorkInv, Moves, M!Steps
  <2>f. MigFits(s, a) /\ SameCopy(p)
    BY <2>1 DEF WorkInv, SameCopy
  <2>3. CASE ~IsLast(s, a)
    <3>1. /\ procs'[p].script = s
          /\ Follows(s, a, Now(p)')
      BY <2>3 DEF Moves
    <3>2. M!Steps(p)'
      BY <3>1 DEF M!Steps
    <3>3. PICK b : b = Now(p)'
      OBVIOUS
    <3>4. MigFits(s, b)'
      BY <1>4, <2>f, <2>3, <3>1, <3>3
    <3>5. MigFits(procs[p].script, Now(p))'
      BY <3>1, <3>3, <3>4
    <3>6. procs'[p].before = migration'.before /\ procs'[p].legacy = migration'.legacy
      BY <1>4, <2>3
    <3>7. WorkInv'
      BY <2>2, <3>5, <3>6 DEF WorkInv
    <3> QED
      BY <3>2, <3>7 DEF RestInv
  <2>4. CASE IsLast(s, a)
    <3>1. procs'[p] = M!Idle
      BY <2>4 DEF Moves
    <3>2. \A q \in M!Processes : ~M!Steps(q)'
      BY <2>2, <3>1, IdleIs DEF M!Steps
    <3>3. AtRest'
      BY <1>4, <2>f, <2>4
    <3> QED
      BY <3>2, <3>3 DEF WorkInv, RestInv
  <2> QED
    BY <2>3, <2>4
<1> QED
  BY <1>2, <1>3, <1>4 DEF MigInv

LEMMA AtStep ==
  ASSUME MigInv, NEW p \in M!Processes, NEW a, M!At(p, a)
  PROVE  /\ procs[p].script \in Named /\ Has(procs[p].script, a) /\ a = Now(p) /\ M!Steps(p)
         /\ a \notin {"backup", "failed"} => migration.backup
<1>1. M!Steps(p) /\ a = Now(p)
  BY DEF M!At, Now
<1>2. /\ procs[p].script \in Named /\ Has(procs[p].script, a)
      /\ procs[p].i \in 1..Len(M!Script(procs[p].script))
  BY <1>1, Working DEF MigInv
<1>3. ASSUME ~migration.backup PROVE a \in {"backup", "failed"}
  <2>1. /\ procs[p].script \in {"idle", "prepare", "fail"}
        /\ procs[p].script = "prepare" => procs[p].i = 1
    BY <1>3 DEF MigInv, BackupInv
  <2>2. CASE procs[p].script = "prepare"
    <3>1. M!Script("prepare")[1] = "backup"
      BY DEF M!Script, M!PrepareScript
    <3> QED
      BY <1>1, <2>1, <2>2, <3>1 DEF Now
  <2>3. CASE procs[p].script = "fail"
    BY <1>2, <2>3 DEF Has
  <2> QED
    BY <1>2, <2>1, <2>2, <2>3 DEF Named
<1> QED
  BY <1>1, <1>2, <1>3

(* A step that leaves the transaction file alone. *)
LEMMA Unwritten ==
  ASSUME MigInv, NEW p \in M!Processes, NEW a, M!At(p, a), M!Advances(p),
         a \notin {"backup", "prepared", "failed", "committed", "rolled_back"},
         kind' = kind, migration' = migration, spoiled' = spoiled,
         OldTyped(old)', new' \in Installs, NEW s, s = procs[p].script,
         (~spoiled /\ MigFits(s, a) /\ SameCopy(p)) => \A b : Follows(s, a, b) => MigFits(s, b)'
  PROVE  MigInv'
<1>1. s \in Named /\ Has(s, a) /\ a = Now(p) /\ M!Steps(p) /\ migration.backup
  BY AtStep
<1>2. s # "prepare" /\ ~IsLast(s, a)
  BY <1>1 DEF Has, IsLast
<1>3. Moves(p) /\ procs'[p].before = procs[p].before /\ procs'[p].legacy = procs[p].legacy
  BY <1>1, <1>2, MigAdvanced DEF MigInv
<1>4. /\ migration' \in Transactions /\ migration'.backup = migration.backup
      /\ migration'.legacy => kind # "none"
  BY DEF MigInv, MigTypes
<1>5. ~spoiled => procs'[p].before = migration'.before /\ procs'[p].legacy = migration'.legacy
  BY <1>1, <1>3 DEF MigInv, WorkInv
<1> QED
  BY <1>1, <1>2, <1>3, <1>4, <1>5, MigLanded

LEMMA TurnsOldKeeps ==
  ASSUME MigInv, NEW p \in M!Processes, NEW a, NEW o, M!TurnsOld(p, a, o),
         a \notin {"backup", "prepared", "failed", "committed", "rolled_back"},
         OldTyped(o), NEW s, s = procs[p].script,
         (~spoiled /\ MigFits(s, a) /\ SameCopy(p) /\ old' = o /\ UNCHANGED <<kind, new, migration>>) =>
           \A b : Follows(s, a, b) => MigFits(s, b)'
  PROVE  MigInv'
<1>1. /\ M!At(p, a) /\ M!Advances(p) /\ old' = o /\ UNCHANGED <<kind, new, migration>> /\ spoiled' = spoiled
  BY DEF M!TurnsOld, M!Counters
<1>2. OldTyped(old)' /\ new' \in Installs
  BY <1>1 DEF OldTyped, MigInv, MigTypes
<1> QED
  BY <1>1, <1>2, Unwritten

LEMMA MakesKeeps ==
  ASSUME MigInv, NEW p \in M!Processes, NEW a, NEW n \in Installs, M!Makes(p, a, n),
         a \notin {"backup", "prepared", "failed", "committed", "rolled_back"},
         NEW s, s = procs[p].script,
         (~spoiled /\ MigFits(s, a) /\ SameCopy(p) /\ new' = n /\ UNCHANGED <<kind, old, migration>>) =>
           \A b : Follows(s, a, b) => MigFits(s, b)'
  PROVE  MigInv'
<1>1. /\ M!At(p, a) /\ M!Advances(p) /\ new' = n /\ UNCHANGED <<kind, old, migration>> /\ spoiled' = spoiled
  BY DEF M!Makes, M!Counters
<1>2. OldTyped(old)'
  BY <1>1 DEF OldTyped, MigInv, MigTypes
<1> QED
  BY <1>1, <1>2, Unwritten

-----------------------------------------------------------------------------
(* Migration: the steps *)

LEMMA StopUnitKeeps ==
  ASSUME MigInv, NEW p \in M!Processes, M!StopUnit(p)
  PROVE  MigInv'
<1> DEFINE o == [old EXCEPT !.run = FALSE]
<1>1. M!TurnsOld(p, "unit_stop", o)
  BY DEF M!StopUnit
<1>2. o \in Units /\ o.place = old.place /\ o.masked = old.masked /\ o.on = old.on /\ ~o.run
  BY DEF MigInv, MigTypes, Units
<1> HIDE DEF o
<1>3. OldTyped(o)
  BY <1>2 DEF OldTyped, MigInv, MigTypes
<1>4. procs[p].script = "switch"
  BY <1>1, AtStep DEF M!TurnsOld, Has, Named
<1>5. ASSUME MigFits("switch", "unit_stop"), old' = o, UNCHANGED <<kind, new, migration>>
      PROVE  MigFits("switch", "unit_disable")'
  BY <1>2, <1>5 DEF MigFits, SwitchFits, UnitSteps, Making, Proving, Before, Unmade
<1>6. \A b : Follows("switch", "unit_stop", b) => b = "unit_disable"
  BY DEF Follows, SwitchFollows
<1> QED
  BY <1>1, <1>3, <1>4, <1>5, <1>6, TurnsOldKeeps

LEMMA DisableUnitKeeps ==
  ASSUME MigInv, NEW p \in M!Processes, M!DisableUnit(p)
  PROVE  MigInv'
<1> DEFINE o == [old EXCEPT !.on = FALSE]
<1>1. M!TurnsOld(p, "unit_disable", o)
  BY DEF M!DisableUnit
<1>2. o \in Units /\ o.place = old.place /\ o.masked = old.masked /\ ~o.on /\ o.run = old.run
  BY DEF MigInv, MigTypes, Units
<1> HIDE DEF o
<1>3. OldTyped(o)
  BY <1>2 DEF OldTyped, MigInv, MigTypes
<1>4. procs[p].script = "switch"
  BY <1>1, AtStep DEF M!TurnsOld, Has, Named
<1>5. ASSUME MigFits("switch", "unit_disable"), old' = o, UNCHANGED <<kind, new, migration>>
      PROVE  MigFits("switch", "unit_away")'
  BY <1>2, <1>5 DEF MigFits, SwitchFits, UnitSteps, Making, Proving, Before, Unmade
<1>6. \A b : Follows("switch", "unit_disable", b) => b = "unit_away"
  BY DEF Follows, SwitchFollows
<1> QED
  BY <1>1, <1>3, <1>4, <1>5, <1>6, TurnsOldKeeps

LEMMA PutUnitAwayKeeps ==
  ASSUME MigInv, NEW p \in M!Processes, M!PutUnitAway(p)
  PROVE  MigInv'
<1> DEFINE o == IF M!Moved THEN [old EXCEPT !.place = "aside"] ELSE [old EXCEPT !.masked = TRUE]
<1>1. M!TurnsOld(p, "unit_away", o)
  BY DEF M!PutUnitAway
<1>2. o \in Units /\ o.on = old.on /\ o.run = old.run /\ (IF M!Moved THEN o.place = "aside" ELSE o.masked)
  BY DEF MigInv, MigTypes, Units
<1> HIDE DEF o
<1>4. procs[p].script = "switch" /\ kind # "none"
  BY <1>1, AtStep DEF M!TurnsOld, Has, Named, UnitSteps
<1>3. OldTyped(o)
  BY <1>2, <1>4 DEF OldTyped
<1>5. ASSUME MigFits("switch", "unit_away"), old' = o, UNCHANGED <<kind, new, migration>>
      PROVE  MigFits("switch", "note_legacy")'
  <2>1. M!Moved' = M!Moved
    BY <1>5 DEF M!Moved
  <2>2. OldAway'
    BY <1>2, <1>5, <2>1 DEF OldAway, MigFits, SwitchFits
  <2> QED
    BY <1>4, <1>5, <2>2 DEF MigFits, SwitchFits, UnitSteps, Making, Proving, Before, Unmade
<1>6. \A b : Follows("switch", "unit_away", b) => b = "note_legacy"
  BY DEF Follows, SwitchFollows
<1> QED
  BY <1>1, <1>3, <1>4, <1>5, <1>6, TurnsOldKeeps

LEMMA PutUnitBackKeeps ==
  ASSUME MigInv, NEW p \in M!Processes, M!PutUnitBack(p)
  PROVE  MigInv'
<1> DEFINE o == IF procs[p].legacy THEN [old EXCEPT !.place = "in"] ELSE old
<1>1. M!TurnsOld(p, "unit_back", o)
  BY DEF M!PutUnitBack
<1>2. /\ o \in Units /\ o.on = old.on /\ o.run = old.run /\ o.masked = old.masked
      /\ IF procs[p].legacy THEN o.place = "in" ELSE o.place = old.place
  BY DEF MigInv, MigTypes, Units
<1> HIDE DEF o
<1>3. OldTyped(o)
  BY <1>2 DEF OldTyped, MigInv, MigTypes
<1>4. procs[p].script \in {"rollback", "early"}
  BY <1>1, AtStep DEF M!TurnsOld, Has, Named, StepNames
<1>5. ASSUME OldNoted, SameCopy(p), old' = o, UNCHANGED <<kind, new, migration>>
      PROVE  Halfway'
  BY <1>2, <1>5 DEF OldNoted, SameCopy, Halfway, OldKept
<1>6. ASSUME MigFits("early", "unit_back"), SameCopy(p), old' = o, UNCHANGED <<kind, new, migration>>
      PROVE  MigFits("early", "unit_on")'
  BY <1>5, <1>6 DEF MigFits, EarlyFits, Before, Unmade
<1>7. ASSUME MigFits("rollback", "unit_back"), SameCopy(p), old' = o, UNCHANGED <<kind, new, migration>>
      PROVE  MigFits("rollback", "unit_on")'
  BY <1>5, <1>7 DEF MigFits, RollbackFits, Before, During, Unmade, Recorded, OnlyData, Off
<1>8. \A b : Follows("early", "unit_back", b) \/ Follows("rollback", "unit_back", b) => b = "unit_on"
  BY DEF Follows, EarlyFollows, RollbackFollows
<1>9. CASE procs[p].script = "early"
  BY <1>1, <1>3, <1>6, <1>8, <1>9, TurnsOldKeeps
<1>10. CASE procs[p].script = "rollback"
  BY <1>1, <1>3, <1>7, <1>8, <1>10, TurnsOldKeeps
<1> QED
  BY <1>4, <1>9, <1>10

LEMMA RestoreLegacyUnitKeeps ==
  ASSUME MigInv, NEW p \in M!Processes, M!RestoreLegacyUnit(p)
  PROVE  MigInv'
<1> DEFINE o == IF procs[p].legacy THEN [old EXCEPT !.masked = FALSE, !.on = TRUE, !.run = TRUE] ELSE old
<1>1. M!TurnsOld(p, "unit_on", o)
  BY DEF M!RestoreLegacyUnit
<1>2. /\ o \in Units /\ o.place = old.place
      /\ IF procs[p].legacy THEN ~o.masked /\ o.on /\ o.run ELSE o = old
  BY DEF MigInv, MigTypes, Units
<1> HIDE DEF o
<1>3. OldTyped(o)
  BY <1>2 DEF OldTyped, MigInv, MigTypes
<1>4. procs[p].script \in {"rollback", "early"}
  BY <1>1, AtStep DEF M!TurnsOld, Has, Named, StepNames
<1>5. ASSUME Halfway, SameCopy(p), old' = o, UNCHANGED <<kind, new, migration>>
      PROVE  OldKept'
  BY <1>2, <1>5 DEF SameCopy, Halfway, OldKept
<1>6. ASSUME MigFits("early", "unit_on"), SameCopy(p), old' = o, UNCHANGED <<kind, new, migration>>
      PROVE  MigFits("early", "new_off")'
  BY <1>5, <1>6 DEF MigFits, EarlyFits, Before, Unmade
<1>7. ASSUME MigFits("rollback", "unit_on"), SameCopy(p), old' = o, UNCHANGED <<kind, new, migration>>
      PROVE  MigFits("rollback", "rm_data")'
  BY <1>5, <1>7 DEF MigFits, RollbackFits, Before, During, Unmade, Recorded, OnlyData, Off
<1>8. \A b : /\ Follows("early", "unit_on", b) => b = "new_off"
             /\ Follows("rollback", "unit_on", b) => b = "rm_data"
  BY DEF Follows, EarlyFollows, RollbackFollows
<1>9. CASE procs[p].script = "early"
  BY <1>1, <1>3, <1>6, <1>8, <1>9, TurnsOldKeeps
<1>10. CASE procs[p].script = "rollback"
  BY <1>1, <1>3, <1>7, <1>8, <1>10, TurnsOldKeeps
<1> QED
  BY <1>4, <1>9, <1>10

LEMMA RebuildReleaseKeeps ==
  ASSUME MigInv, NEW p \in M!Processes, M!RebuildRelease(p)
  PROVE  MigInv'
<1> DEFINE n == [new EXCEPT !.release = TRUE]
<1>1. M!Makes(p, "release", n)
  BY DEF M!RebuildRelease
<1>2. /\ n \in Installs
      /\ n.data = new.data /\ n.link = new.link /\ n.state = new.state /\ n.reg = new.reg /\ n.on = new.on /\ n.run = new.run /\ n.release
  BY DEF MigInv, MigTypes, Installs
<1> HIDE DEF n
<1>3. procs[p].script = "switch"
  BY <1>1, AtStep DEF M!Makes, Has, Named
<1>4. ASSUME MigFits("switch", "release"), new' = n, UNCHANGED <<kind, old, migration>>
      PROVE  MigFits("switch", "data")'
  <2>1. Recorded' /\ OldAway'
    BY <1>4 DEF MigFits, SwitchFits, Making, Proving, Recorded, OldAway, M!Moved
  <2> QED
    BY <1>2, <1>4, <2>1 DEF MigFits, SwitchFits, UnitSteps, Making, Proving
<1>5. \A b : Follows("switch", "release", b) => b = "data"
  BY DEF Follows, SwitchFollows
<1> QED
  BY <1>1, <1>2, <1>3, <1>4, <1>5, MakesKeeps

LEMMA SeedDataKeeps ==
  ASSUME MigInv, NEW p \in M!Processes, M!SeedData(p)
  PROVE  MigInv'
<1> DEFINE n == [new EXCEPT !.data = TRUE]
<1>1. M!Makes(p, "data", n)
  BY DEF M!SeedData
<1>2. /\ n \in Installs
      /\ n.release = new.release /\ n.link = new.link /\ n.state = new.state /\ n.reg = new.reg /\ n.on = new.on /\ n.run = new.run /\ n.data
  BY DEF MigInv, MigTypes, Installs
<1> HIDE DEF n
<1>3. procs[p].script = "switch"
  BY <1>1, AtStep DEF M!Makes, Has, Named
<1>4. ASSUME MigFits("switch", "data"), new' = n, UNCHANGED <<kind, old, migration>>
      PROVE  MigFits("switch", "link")'
  <2>1. Recorded' /\ OldAway'
    BY <1>4 DEF MigFits, SwitchFits, Making, Proving, Recorded, OldAway, M!Moved
  <2> QED
    BY <1>2, <1>4, <2>1 DEF MigFits, SwitchFits, UnitSteps, Making, Proving
<1>5. \A b : Follows("switch", "data", b) => b = "link"
  BY DEF Follows, SwitchFollows
<1> QED
  BY <1>1, <1>2, <1>3, <1>4, <1>5, MakesKeeps

LEMMA RestoreCurrentKeeps ==
  ASSUME MigInv, NEW p \in M!Processes, M!RestoreCurrent(p)
  PROVE  MigInv'
<1> DEFINE n == [new EXCEPT !.link = TRUE]
<1>1. M!Makes(p, "link", n)
  BY DEF M!RestoreCurrent
<1>2. /\ n \in Installs
      /\ n.release = new.release /\ n.data = new.data /\ n.state = new.state /\ n.reg = new.reg /\ n.on = new.on /\ n.run = new.run /\ n.link
  BY DEF MigInv, MigTypes, Installs
<1> HIDE DEF n
<1>3. procs[p].script = "switch"
  BY <1>1, AtStep DEF M!Makes, Has, Named
<1>4. ASSUME MigFits("switch", "link"), new' = n, UNCHANGED <<kind, old, migration>>
      PROVE  MigFits("switch", "register")'
  <2>1. Recorded' /\ OldAway'
    BY <1>4 DEF MigFits, SwitchFits, Making, Proving, Recorded, OldAway, M!Moved
  <2> QED
    BY <1>2, <1>4, <2>1 DEF MigFits, SwitchFits, UnitSteps, Making, Proving
<1>5. \A b : Follows("switch", "link", b) => b = "register"
  BY DEF Follows, SwitchFollows
<1> QED
  BY <1>1, <1>2, <1>3, <1>4, <1>5, MakesKeeps

LEMMA MigRegisterKeeps ==
  ASSUME MigInv, NEW p \in M!Processes, M!Register(p)
  PROVE  MigInv'
<1> DEFINE n == [new EXCEPT !.reg = TRUE, !.on = TRUE]
<1>1. M!Makes(p, "register", n)
  BY DEF M!Register
<1>2. /\ n \in Installs
      /\ n.release = new.release /\ n.data = new.data /\ n.link = new.link /\ n.state = new.state /\ n.run = new.run /\ n.reg /\ n.on
  BY DEF MigInv, MigTypes, Installs
<1> HIDE DEF n
<1>3. procs[p].script = "switch"
  BY <1>1, AtStep DEF M!Makes, Has, Named
<1>4. ASSUME MigFits("switch", "register"), new' = n, UNCHANGED <<kind, old, migration>>
      PROVE  MigFits("switch", "start")'
  <2>1. Recorded' /\ OldAway'
    BY <1>4 DEF MigFits, SwitchFits, Making, Proving, Recorded, OldAway, M!Moved
  <2> QED
    BY <1>2, <1>4, <2>1 DEF MigFits, SwitchFits, UnitSteps, Making, Proving
<1>5. \A b : Follows("switch", "register", b) => b = "start"
  BY DEF Follows, SwitchFollows
<1> QED
  BY <1>1, <1>2, <1>3, <1>4, <1>5, MakesKeeps

LEMMA MigStartKeeps ==
  ASSUME MigInv, NEW p \in M!Processes, M!Start(p)
  PROVE  MigInv'
<1> DEFINE n == [new EXCEPT !.run = new.reg /\ new.link]
<1>1. M!Makes(p, "start", n)
  BY DEF M!Start
<1>2. /\ n \in Installs
      /\ n.release = new.release /\ n.data = new.data /\ n.link = new.link /\ n.state = new.state /\ n.reg = new.reg /\ n.on = new.on /\ n.run = (new.reg /\ new.link)
  BY DEF MigInv, MigTypes, Installs
<1> HIDE DEF n
<1>3. procs[p].script = "switch"
  BY <1>1, AtStep DEF M!Makes, Has, Named
<1>4. ASSUME MigFits("switch", "start"), new' = n, UNCHANGED <<kind, old, migration>>
      PROVE  MigFits("switch", "verifying")'
  <2>1. Recorded' /\ OldAway'
    BY <1>4 DEF MigFits, SwitchFits, Making, Proving, Recorded, OldAway, M!Moved
  <2> QED
    BY <1>2, <1>4, <2>1 DEF MigFits, SwitchFits, UnitSteps, Making, Proving
<1>5. \A b : Follows("switch", "start", b) => b = "verifying"
  BY DEF Follows, SwitchFollows
<1> QED
  BY <1>1, <1>2, <1>3, <1>4, <1>5, MakesKeeps

LEMMA MigWriteStateKeeps ==
  ASSUME MigInv, NEW p \in M!Processes, M!WriteState(p)
  PROVE  MigInv'
<1> DEFINE n == [new EXCEPT !.state = TRUE]
<1>1. M!Makes(p, "state", n)
  BY DEF M!WriteState
<1>2. /\ n \in Installs
      /\ n.release = new.release /\ n.data = new.data /\ n.link = new.link /\ n.reg = new.reg /\ n.on = new.on /\ n.run = new.run /\ n.state
  BY DEF MigInv, MigTypes, Installs
<1> HIDE DEF n
<1>3. procs[p].script = "switch"
  BY <1>1, AtStep DEF M!Makes, Has, Named
<1>4. ASSUME MigFits("switch", "state"), new' = n, UNCHANGED <<kind, old, migration>>
      PROVE  MigFits("switch", "committed")'
  <2>1. Recorded' /\ OldAway'
    BY <1>4 DEF MigFits, SwitchFits, Making, Proving, Recorded, OldAway, M!Moved
  <2> QED
    BY <1>2, <1>4, <2>1 DEF MigFits, SwitchFits, UnitSteps, Making, Proving
<1>5. \A b : Follows("switch", "state", b) => b = "committed"
  BY DEF Follows, SwitchFollows
<1> QED
  BY <1>1, <1>2, <1>3, <1>4, <1>5, MakesKeeps

LEMMA WaitForHealthKeeps ==
  ASSUME MigInv, NEW p \in M!Processes, M!WaitForHealth(p)
  PROVE  MigInv'
<1>1. M!Makes(p, "health", new) /\ new.run /\ ~old.run
  BY DEF M!WaitForHealth
<1>2. new \in Installs
  BY DEF MigInv, MigTypes
<1>3. procs[p].script = "switch"
  BY <1>1, AtStep DEF M!Makes, Has, Named
<1>4. ASSUME MigFits("switch", "health"), new' = new, UNCHANGED <<kind, old, migration>>
      PROVE  MigFits("switch", "state")'
  <2>1. Recorded' /\ OldAway'
    BY <1>4 DEF MigFits, SwitchFits, Making, Proving, Recorded, OldAway, M!Moved
  <2> QED
    BY <1>1, <1>4, <2>1 DEF MigFits, SwitchFits, UnitSteps, Making, Proving
<1>5. \A b : Follows("switch", "health", b) => b = "state"
  BY DEF Follows, SwitchFollows
<1> QED
  BY <1>1, <1>2, <1>3, <1>4, <1>5, MakesKeeps

LEMMA NothingIs ==
  ASSUME NEW n \in Installs
  PROVE  n = M!Nothing <=> ~n.release /\ ~n.data /\ ~n.link /\ ~n.state /\ ~n.reg /\ ~n.on /\ ~n.run
<1>1. n = [release |-> n.release, data |-> n.data, link |-> n.link, state |-> n.state,
           reg |-> n.reg, on |-> n.on, run |-> n.run]
  BY DEF Installs
<1>2. n \in Installs
  OBVIOUS
<1> QED
  BY <1>1, <1>2 DEF M!Nothing, Installs

LEMMA RestoreBeforeKeeps ==
  ASSUME MigInv, NEW p \in M!Processes, M!RestoreBefore(p)
  PROVE  MigInv'
<1> DEFINE n == IF procs[p].before THEN [new EXCEPT !.reg = FALSE, !.on = FALSE, !.run = FALSE] ELSE new
<1>1. M!Makes(p, "new_off", n)
  BY DEF M!RestoreBefore
<1>2. /\ n \in Installs
      /\ n.release = new.release /\ n.data = new.data /\ n.link = new.link /\ n.state = new.state
      /\ IF procs[p].before THEN ~n.reg /\ ~n.on /\ ~n.run ELSE n = new
  BY DEF MigInv, MigTypes, Installs
<1> HIDE DEF n
<1>3. procs[p].script \in {"rollback", "early"}
  BY <1>1, AtStep DEF M!Makes, Has, Named, StepNames
<1>4. ASSUME Unmade, new' = n
      PROVE  Unmade'
  BY <1>2, <1>4, NothingIs DEF Unmade, MigInv, MigTypes
<1>5. ASSUME Unmade \/ Recorded, SameCopy(p), new' = n
      PROVE  Off'
  <2>1. CASE procs[p].before
    BY <1>2, <1>5, <2>1 DEF Off
  <2>2. CASE ~procs[p].before
    BY <1>2, <1>5, <2>2, NothingIs DEF Off, Unmade, Recorded, SameCopy, MigInv, MigTypes
  <2> QED
    BY <2>1, <2>2
<1>6. ASSUME MigFits("early", "new_off"), new' = n, UNCHANGED <<kind, old, migration>>
      PROVE  MigFits("early", "failed")'
  BY <1>4, <1>6 DEF MigFits, EarlyFits, Before, OldKept
<1>7. ASSUME MigFits("rollback", "new_off"), SameCopy(p), new' = n, UNCHANGED <<kind, old, migration>>
      PROVE  MigFits("rollback", "rm_new")'
  <2>1. Undoable /\ migration.phase = "rolling_back"
    BY <1>7 DEF MigFits, RollbackFits
  <2>2. Undoable'
    BY <1>4, <1>7, <2>1 DEF Undoable, Recorded, OldNoted, OldAway, OldKept, M!Moved
  <2> QED
    BY <1>5, <1>7, <2>1, <2>2 DEF MigFits, RollbackFits, Undoable
<1>8. \A b : /\ Follows("early", "new_off", b) => b = "failed"
             /\ Follows("rollback", "new_off", b) => b = "rm_new"
  BY DEF Follows, EarlyFollows, RollbackFollows
<1>9. CASE procs[p].script = "early"
  BY <1>1, <1>2, <1>6, <1>8, <1>9, MakesKeeps
<1>10. CASE procs[p].script = "rollback"
  BY <1>1, <1>2, <1>7, <1>8, <1>10, MakesKeeps
<1> QED
  BY <1>3, <1>9, <1>10

LEMMA CleanupFirstInstallKeeps ==
  ASSUME MigInv, NEW p \in M!Processes, M!CleanupFirstInstall(p)
  PROVE  MigInv'
<1> DEFINE n == [new EXCEPT !.release = FALSE, !.link = FALSE, !.state = FALSE]
<1>1. M!Makes(p, "rm_new", n)
  BY DEF M!CleanupFirstInstall
<1>2. /\ n \in Installs
      /\ ~n.release /\ ~n.link /\ ~n.state /\ n.data = new.data /\ n.reg = new.reg /\ n.on = new.on /\ n.run = new.run
  BY DEF MigInv, MigTypes, Installs
<1> HIDE DEF n
<1>3. procs[p].script = "rollback"
  BY <1>1, AtStep DEF M!Makes, Has, Named, StepNames
<1>4. ASSUME Unmade, new' = n
      PROVE  Unmade'
  BY <1>2, <1>4, NothingIs DEF Unmade, MigInv, MigTypes
<1>5. ASSUME MigFits("rollback", "rm_new"), new' = n, UNCHANGED <<kind, old, migration>>
      PROVE  MigFits("rollback", "unit_back")'
  <2>1. OldNoted /\ (Unmade \/ Recorded) /\ Off /\ migration.phase = "rolling_back"
    BY <1>5 DEF MigFits, RollbackFits, Undoable
  <2>2. OldNoted' /\ (Unmade \/ Recorded)'
    BY <1>4, <1>5, <2>1 DEF Recorded, OldNoted, OldAway, OldKept, M!Moved
  <2>3. OnlyData'
    BY <1>2, <1>5, <2>1 DEF OnlyData, Off
  <2> QED
    BY <1>5, <2>1, <2>2, <2>3 DEF MigFits, RollbackFits
<1>6. \A b : Follows("rollback", "rm_new", b) => b = "unit_back"
  BY DEF Follows, RollbackFollows
<1> QED
  BY <1>1, <1>2, <1>3, <1>5, <1>6, MakesKeeps

LEMMA CleanupRootKeeps ==
  ASSUME MigInv, NEW p \in M!Processes, M!CleanupRoot(p)
  PROVE  MigInv'
<1> DEFINE n == [new EXCEPT !.data = FALSE]
<1>1. M!Makes(p, "rm_data", n)
  BY DEF M!CleanupRoot
<1>2. /\ n \in Installs
      /\ ~n.data /\ n.release = new.release /\ n.link = new.link /\ n.state = new.state
      /\ n.reg = new.reg /\ n.on = new.on /\ n.run = new.run
  BY DEF MigInv, MigTypes, Installs
<1> HIDE DEF n
<1>3. procs[p].script = "rollback"
  BY <1>1, AtStep DEF M!Makes, Has, Named, StepNames
<1>4. ASSUME MigFits("rollback", "rm_data"), new' = n, UNCHANGED <<kind, old, migration>>
      PROVE  MigFits("rollback", "rolled_back")'
  <2>1. OldKept /\ OnlyData /\ migration.phase = "rolling_back"
    BY <1>4 DEF MigFits, RollbackFits
  <2>2. Unmade'
    BY <1>2, <1>4, <2>1, NothingIs DEF OnlyData, Off, Unmade
  <2> QED
    BY <1>4, <2>1, <2>2 DEF MigFits, RollbackFits, OldKept
<1>5. \A b : Follows("rollback", "rm_data", b) => b = "rolled_back"
  BY DEF Follows, RollbackFollows
<1> QED
  BY <1>1, <1>2, <1>3, <1>4, <1>5, MakesKeeps

-----------------------------------------------------------------------------
(* Migration: the steps that write the transaction file *)

LEMMA Rewritten ==
  ASSUME UNCHANGED <<kind, old, new>>,
         migration'.before = migration.before, migration'.legacy = migration.legacy
  PROVE  /\ OldKept => OldKept'
         /\ OldAway => OldAway'
         /\ OldNoted => OldNoted'
         /\ Unmade => Unmade'
         /\ Recorded => Recorded'
         /\ Undoable => Undoable'
<1>1. /\ OldKept => OldKept'
      /\ OldAway => OldAway'
      /\ Unmade => Unmade'
      /\ Recorded => Recorded'
  BY DEF OldKept, OldAway, Unmade, Recorded, M!Moved
<1>2. OldNoted => OldNoted'
  BY <1>1 DEF OldNoted
<1> QED
  BY <1>1, <1>2 DEF Undoable

(* The file as a write leaves it. *)
LEMMA Writing ==
  ASSUME MigInv, NEW p, NEW phase \in MigPhases, NEW marked \in BOOLEAN, NEW legacy \in BOOLEAN,
         M!Writes(p, phase, marked, legacy)
  PROVE  /\ migration' \in Transactions /\ migration'.backup = migration.backup /\ migration'.phase = phase
         /\ migration'.before = marked /\ migration'.legacy = legacy
         /\ UNCHANGED <<kind, old, new>> /\ spoiled' = spoiled
         /\ OldTyped(old)' /\ new' \in Installs
<1>1. /\ migration' = [migration EXCEPT !.phase = phase, !.before = marked, !.legacy = legacy]
      /\ UNCHANGED <<kind, old, new>> /\ spoiled' = spoiled
  BY DEF M!Writes, M!Counters
<1>2. migration \in Transactions
  BY DEF MigInv, MigTypes
<1>3. OldTyped(old)' /\ new' \in Installs
  BY <1>1 DEF OldTyped, MigInv, MigTypes
<1>4. /\ migration' \in Transactions /\ migration'.backup = migration.backup /\ migration'.phase = phase
      /\ migration'.before = marked /\ migration'.legacy = legacy
  BY <1>1, <1>2 DEF Transactions
<1> QED
  BY <1>1, <1>3, <1>4

LEMMA Wrote ==
  ASSUME MigInv, NEW p \in M!Processes, NEW a \in MigPhases, a # "prepared", M!At(p, a),
         M!Writes(p, a, procs[p].before, procs[p].legacy), M!Advances(p), NEW s, s = procs[p].script,
         (~spoiled /\ MigFits(s, a) /\ migration'.phase = a /\ UNCHANGED <<kind, old, new>>
          /\ migration'.before = migration.before /\ migration'.legacy = migration.legacy) =>
           /\ ~IsLast(s, a) => \A b : Follows(s, a, b) => MigFits(s, b)'
           /\ IsLast(s, a) => AtRest'
  PROVE  MigInv'
<1>1. s \in Named /\ Has(s, a) /\ a = Now(p) /\ M!Steps(p) /\ (a # "failed" => migration.backup)
  <2>1. a # "backup"
    BY DEF MigPhases
  <2> QED
    BY <2>1, AtStep
<1>2. s # "prepare"
  BY <1>1 DEF Has, MigPhases
<1>3. /\ procs[p].before \in BOOLEAN /\ procs[p].legacy \in BOOLEAN
      /\ procs[p].legacy => kind # "none"
  BY DEF MigInv, MigTypes, Works
<1>4. /\ migration' \in Transactions /\ migration'.backup = migration.backup /\ migration'.phase = a
      /\ migration'.before = procs[p].before /\ migration'.legacy = procs[p].legacy
      /\ UNCHANGED <<kind, old, new>> /\ spoiled' = spoiled
      /\ OldTyped(old)' /\ new' \in Installs
  BY <1>3, Writing
<1>5. /\ Moves(p)
      /\ ~IsLast(s, a) => procs'[p].before = procs[p].before /\ procs'[p].legacy = procs[p].legacy
  BY <1>1, <1>4, MigAdvanced DEF MigInv
<1>6. ~migration.backup => Unmade' /\ old'.place = "in" /\ old'.on = (kind # "none") /\ migration'.phase = "failed"
  BY <1>1, <1>4 DEF MigInv, BackupInv, Unmade
<1>7. SameCopy(p) => migration'.before = migration.before /\ migration'.legacy = migration.legacy
  BY <1>4 DEF SameCopy
<1> QED
  BY <1>1, <1>2, <1>3, <1>4, <1>5, <1>6, <1>7, MigLanded

LEMMA MarksKeep ==
  ASSUME MigInv, NEW p \in M!Processes,
         NEW a \in {"stopping", "activating", "verifying", "rolling_back", "committed", "rolled_back", "failed"},
         M!At(p, a), M!Writes(p, a, procs[p].before, procs[p].legacy), M!Advances(p)
  PROVE  MigInv'
<1>1. PICK s : s = procs[p].script
  OBVIOUS
<1>2. s \in Named /\ Has(s, a)
  BY <1>1, AtStep
<1>3. a \in MigPhases /\ a # "prepared"
  BY DEF MigPhases
<1> DEFINE H == /\ MigFits(s, a) /\ migration'.phase = a /\ UNCHANGED <<kind, old, new>>
                /\ migration'.before = migration.before /\ migration'.legacy = migration.legacy
<1>r. ASSUME H
      PROVE  /\ OldKept => OldKept'
             /\ OldAway => OldAway'
             /\ OldNoted => OldNoted'
             /\ Unmade => Unmade'
             /\ Recorded => Recorded'
             /\ Undoable => Undoable'
  BY <1>r, Rewritten
<1> USE <1>1
<1>4. CASE a = "stopping"
  <2>1. s = "switch" /\ ~IsLast(s, a)
    BY <1>2, <1>4 DEF Has, Named, IsLast
  <2>2. ASSUME H, NEW b, Follows(s, a, b)
        PROVE  MigFits(s, b)'
    <3>1. migration.phase = "prepared" /\ ~migration.legacy /\ OldKept /\ Unmade
      BY <1>4, <2>1, <2>2 DEF MigFits, SwitchFits, Making, Proving
    <3>2. b \in {"unit_stop", "note_before"} /\ (kind = "managed" <=> b = "unit_stop")
      BY <1>4, <2>1, <2>2 DEF Follows, SwitchFollows
    <3> QED
      BY <1>4, <1>r, <2>1, <2>2, <3>1, <3>2 DEF MigFits, SwitchFits, UnitSteps, Making, Proving, Before
  <2> QED
    BY <1>3, <2>1, <2>2, Wrote
<1>5. CASE a = "activating"
  <2>1. s = "switch" /\ ~IsLast(s, a)
    BY <1>2, <1>5 DEF Has, Named, IsLast
  <2>2. ASSUME H, NEW b, Follows(s, a, b)
        PROVE  MigFits(s, b)'
    <3>1. Recorded /\ OldAway
      BY <1>5, <2>1, <2>2 DEF MigFits, SwitchFits
    <3>2. b = "release"
      BY <1>5, <2>1, <2>2 DEF Follows, SwitchFollows
    <3> QED
      BY <1>5, <1>r, <2>1, <2>2, <3>1, <3>2 DEF MigFits, SwitchFits, UnitSteps, Making, Proving
  <2> QED
    BY <1>3, <2>1, <2>2, Wrote
<1>6. CASE a = "verifying"
  <2>1. s = "switch" /\ ~IsLast(s, a)
    BY <1>2, <1>6 DEF Has, Named, IsLast
  <2>2. ASSUME H, NEW b, Follows(s, a, b)
        PROVE  MigFits(s, b)'
    <3>1. Recorded /\ OldAway /\ new.release /\ new.data /\ new.link /\ new.reg /\ new.on
      BY <1>6, <2>1, <2>2 DEF MigFits, SwitchFits, Making
    <3>2. b = "health"
      BY <1>6, <2>1, <2>2 DEF Follows, SwitchFollows
    <3> QED
      BY <1>6, <1>r, <2>1, <2>2, <3>1, <3>2 DEF MigFits, SwitchFits, UnitSteps, Making, Proving
  <2> QED
    BY <1>3, <2>1, <2>2, Wrote
<1>7. CASE a = "rolling_back"
  <2>1. s = "rollback" /\ ~IsLast(s, a)
    BY <1>2, <1>7 DEF Has, Named, IsLast, StepNames
  <2>2. ASSUME H, NEW b, Follows(s, a, b)
        PROVE  MigFits(s, b)'
    <3>1. AtRest /\ migration.phase \in Before \cup During \cup {"rolling_back"}
      BY <1>7, <2>1, <2>2 DEF MigFits, RollbackFits
    <3>2. b = "new_off"
      BY <1>7, <2>1, <2>2 DEF Follows, RollbackFollows
    <3>3. Undoable
      <4>1. CASE migration.phase \in Before
        BY <3>1, <4>1 DEF AtRest, Undoable
      <4>2. CASE migration.phase \in During
        <5>1. Recorded /\ OldAway
          BY <3>1, <4>2 DEF AtRest
        <5> QED
          BY <5>1 DEF Recorded, OldNoted, OldKept, Undoable
      <4>3. CASE migration.phase = "rolling_back"
        BY <3>1, <4>3 DEF AtRest
      <4> QED
        BY <3>1, <4>1, <4>2, <4>3
    <3>4. Undoable'
      BY <1>r, <2>2, <3>3
    <3> QED
      BY <1>7, <2>1, <2>2, <3>2, <3>4 DEF MigFits, RollbackFits
  <2> QED
    BY <1>3, <2>1, <2>2, Wrote
<1>8. CASE a = "committed"
  <2>1. s = "switch" /\ IsLast(s, a)
    BY <1>2, <1>8 DEF Has, Named, IsLast
  <2>2. ASSUME H
        PROVE  AtRest'
    <3>1. /\ Recorded /\ OldAway /\ new.release /\ new.data /\ new.link /\ new.state /\ new.reg /\ new.on /\ new.run
          /\ ~old.run
      BY <1>8, <2>1, <2>2 DEF MigFits, SwitchFits, Proving
    <3>2. ~old.on
      BY <3>1 DEF OldAway, MigInv, MigTypes
    <3> QED
      BY <1>8, <1>r, <2>2, <3>1, <3>2 DEF AtRest, Before, During
  <2> QED
    BY <1>3, <2>1, <2>2, Wrote
<1>9. CASE a = "rolled_back"
  <2>1. s = "rollback" /\ IsLast(s, a)
    BY <1>2, <1>9 DEF Has, Named, IsLast, StepNames
  <2>2. ASSUME H
        PROVE  AtRest'
    <3>1. OldKept /\ Unmade
      BY <1>9, <2>1, <2>2 DEF MigFits, RollbackFits
    <3> QED
      BY <1>9, <1>r, <2>2, <3>1 DEF AtRest, Before, During
  <2> QED
    BY <1>3, <2>1, <2>2, Wrote
<1>10. CASE a = "failed"
  <2>1. s \in {"early", "fail"} /\ IsLast(s, a)
    BY <1>2, <1>10 DEF Has, Named, IsLast, StepNames
  <2>2. ASSUME H
        PROVE  AtRest'
    <3>1. OldKept /\ Unmade
      BY <1>10, <2>1, <2>2 DEF MigFits, EarlyFits, MigFailFits
    <3> QED
      BY <1>10, <1>r, <2>2, <3>1 DEF AtRest, Before, During
  <2> QED
    BY <1>3, <2>1, <2>2, Wrote
<1> QED
  BY <1>4, <1>5, <1>6, <1>7, <1>8, <1>9, <1>10

(* Prepared: the frontend waits for the daemon's worker, or goes on itself. *)
LEMMA PreparedKeeps ==
  ASSUME MigInv, NEW p \in M!Processes, M!At(p, "prepared"),
         M!Writes(p, "prepared", procs[p].before, procs[p].legacy), M!Advances(p)
  PROVE  MigInv'
<1>1. procs[p].script = "prepare" /\ Now(p) = "prepared" /\ M!Steps(p) /\ migration.backup
  <2>1. Has(procs[p].script, "prepared") /\ procs[p].script \in Named /\ Now(p) = "prepared" /\ M!Steps(p) /\ migration.backup
    BY AtStep
  <2> QED
    BY <2>1 DEF Has, Named, StepNames
<1>2. /\ procs[p].before \in BOOLEAN /\ procs[p].legacy \in BOOLEAN /\ migration \in Transactions
      /\ procs[p].legacy => kind # "none"
      /\ kind \in M!Kinds /\ spoiled \in BOOLEAN
  BY DEF MigInv, MigTypes, Works
<1>3. /\ migration' \in Transactions /\ migration'.backup = migration.backup /\ migration'.phase = "prepared"
      /\ migration'.before = procs[p].before /\ migration'.legacy = procs[p].legacy
      /\ UNCHANGED <<kind, old, new>> /\ spoiled' = spoiled
      /\ OldTyped(old)' /\ new' \in Installs
  <2>1. "prepared" \in MigPhases
    BY DEF MigPhases
  <2> QED
    BY <1>2, <2>1, Writing
<1>4. Moves(p) /\ IsLast("prepare", "prepared")
  BY <1>1, <1>3, MigAdvanced DEF MigInv, IsLast
<1>5. MigTypes'
  BY <1>1, <1>2, <1>3, <1>4, Processed DEF MigInv
<1>6. BackupInv'
  BY <1>1, <1>3 DEF BackupInv
<1>7. PICK w \in {"waiting", "switch"} :
        /\ procs'[p].script = w /\ procs'[p].i = 1
        /\ procs'[p].before = migration.before /\ procs'[p].legacy = migration.legacy
  <2>1. procs'[p] = M!Runs("waiting") \/ procs'[p] = M!Runs("switch")
    BY <1>1, <1>4 DEF Moves
  <2> QED
    BY <1>2, <2>1, RunsIs DEF MigScripts
<1>8. ASSUME ~spoiled PROVE (WorkInv /\ RestInv)'
  <2>1. SameCopy(p) /\ PrepareFits /\ \A q \in M!Processes : M!Steps(q) => q = p
    BY <1>1, <1>8 DEF MigInv, WorkInv, SameCopy, MigFits
  <2>2. migration'.before = migration.before /\ migration'.legacy = migration.legacy /\ ~migration.legacy
    BY <1>3, <2>1 DEF SameCopy, PrepareFits
  <2>3. Unmade' /\ OldKept' /\ OldNoted'
    BY <1>3, <2>1, <2>2, Rewritten DEF PrepareFits, OldNoted
  <2>4. \A q \in M!Processes : q # p => ~M!Steps(q)'
    BY <1>4, <2>1 DEF Moves, M!Steps
  <2>5. CASE w = "waiting"
    <3>1. \A q \in M!Processes : ~M!Steps(q)'
      BY <1>7, <2>4, <2>5 DEF M!Steps
    <3>2. AtRest'
      BY <1>3, <2>3 DEF AtRest, Before, During
    <3> QED
      BY <3>1, <3>2 DEF WorkInv, RestInv
  <2>6. CASE w = "switch"
    <3>1. M!Steps(p)'
      BY <1>7, <2>6 DEF M!Steps
    <3>2. M!Script("switch")[1] = "stopping" /\ M!Script("switch")' = M!Script("switch")
      BY <1>2, <1>3, ScriptBegins, ScriptSame DEF Named
    <3>3. Now(p)' = "stopping"
      BY <1>7, <2>6, <3>2 DEF Now
    <3>4. MigFits("switch", "stopping")'
      BY <1>3, <2>2, <2>3 DEF MigFits, SwitchFits, UnitSteps, Making, Proving, Before
    <3>5. MigFits(procs[p].script, Now(p))'
      BY <1>7, <2>6, <3>3, <3>4
    <3>6. procs'[p].before = migration'.before /\ procs'[p].legacy = migration'.legacy
      BY <1>7, <2>2
    <3>7. WorkInv'
      BY <2>4, <3>5, <3>6 DEF WorkInv
    <3> QED
      BY <3>1, <3>7 DEF RestInv
  <2> QED
    BY <2>5, <2>6
<1> QED
  BY <1>3, <1>5, <1>6, <1>8 DEF MigInv

LEMMA MigMarkPhaseKeeps ==
  ASSUME MigInv, NEW p \in M!Processes, M!MarkPhase(p)
  PROVE  MigInv'
<1>1. PICK a \in {"prepared", "stopping", "activating", "verifying", "rolling_back",
                  "committed", "rolled_back", "failed"} :
        M!At(p, a) /\ M!Writes(p, a, procs[p].before, procs[p].legacy) /\ M!Advances(p)
  BY DEF M!MarkPhase
<1>2. CASE a = "prepared"
  BY <1>1, <1>2, PreparedKeeps
<1>3. CASE a # "prepared"
  BY <1>1, <1>3, MarksKeep
<1> QED
  BY <1>2, <1>3

(* What a process notes is in its copy and in the file. *)
LEMMA Noted ==
  ASSUME MigInv, NEW p \in M!Processes, NEW a \in {"note_legacy", "note_before"},
         NEW marked \in BOOLEAN, NEW legacy \in BOOLEAN, M!Notes(p, a, marked, legacy), legacy => kind # "none",
         (~spoiled /\ MigFits("switch", a) /\ SameCopy(p) /\ migration'.phase = "prepared"
          /\ UNCHANGED <<kind, old, new>> /\ migration'.before = marked /\ migration'.legacy = legacy) =>
           \A b : Follows("switch", a, b) => MigFits("switch", b)'
  PROVE  MigInv'
<1>1. /\ M!At(p, a) /\ M!Writes(p, "prepared", marked, legacy)
      /\ procs' = [procs EXCEPT ![p].i = procs[p].i + 1, ![p].before = marked, ![p].legacy = legacy]
  BY DEF M!Notes
<1>2. procs[p].script = "switch" /\ a = Now(p) /\ M!Steps(p) /\ migration.backup
  <2>1. Has(procs[p].script, a) /\ procs[p].script \in Named /\ a = Now(p) /\ M!Steps(p) /\ migration.backup
    BY <1>1, AtStep
  <2> QED
    BY <2>1 DEF Has, Named
<1>3. ~IsLast("switch", a)
  BY DEF IsLast
<1>4. /\ procs \in [M!Processes -> Works] /\ procs[p] \in Works /\ kind \in M!Kinds
      /\ procs[p].i \in 1..Len(M!Script("switch"))
  BY <1>2, Working DEF MigInv, MigTypes
<1>5. /\ migration' \in Transactions /\ migration'.backup = migration.backup /\ migration'.phase = "prepared"
      /\ migration'.before = marked /\ migration'.legacy = legacy
      /\ UNCHANGED <<kind, old, new>> /\ spoiled' = spoiled
      /\ OldTyped(old)' /\ new' \in Installs
  <2>1. "prepared" \in MigPhases
    BY DEF MigPhases
  <2> QED
    BY <1>1, <2>1, Writing
<1> DEFINE w == [procs[p] EXCEPT !.i = procs[p].i + 1, !.before = marked, !.legacy = legacy]
<1>6. procs' = [procs EXCEPT ![p] = w]
  BY <1>1, <1>4 DEF Works
<1>7. w \in Works /\ w.script = "switch" /\ w.i = procs[p].i + 1 /\ w.before = marked /\ w.legacy = legacy
  <2>1. PICK n \in Nat : n = procs[p].i + 1
    BY <1>4 DEF Works
  <2>2. w = [procs[p] EXCEPT !.i = n, !.before = marked, !.legacy = legacy]
    BY <2>1
  <2>3. PICK x \in Works : x = procs[p]
    BY <1>4
  <2>4. w = [x EXCEPT !.i = n, !.before = marked, !.legacy = legacy]
    BY <2>2, <2>3
  <2> HIDE DEF w
  <2>5. w \in Works /\ w.script = x.script /\ w.i = n /\ w.before = marked /\ w.legacy = legacy
    BY <2>4 DEF Works
  <2> QED
    BY <1>2, <2>1, <2>3, <2>5
<1> HIDE DEF w
<1>8. procs'[p] = w /\ procs' \in [M!Processes -> Works] /\ \A q \in M!Processes : q # p => procs'[q] = procs[q]
  BY <1>4, <1>6, <1>7
<1>9. /\ procs[p].i + 1 \in 1..Len(M!Script("switch"))
      /\ Follows("switch", a, M!Script("switch")[procs[p].i + 1])
  <2>1. procs[p].i = Len(M!Script("switch")) => IsLast("switch", a)
    BY <1>2, <1>4, ScriptGoes DEF Named, Now
  <2>2. "switch" \in Named /\ procs[p].i # Len(M!Script("switch")) /\ a = M!Script("switch")[procs[p].i]
    BY <1>2, <1>3, <2>1 DEF Named, Now
  <2> QED
    BY <1>4, <2>2, ScriptGoes
<1>10. Now(p)' = M!Script("switch")[procs[p].i + 1]
  BY <1>5, <1>7, <1>8, ScriptSame DEF Now
<1>11. Moves(p)
  BY <1>2, <1>3, <1>7, <1>8, <1>9, <1>10 DEF Moves
<1> QED
  BY <1>2, <1>3, <1>5, <1>7, <1>8, <1>11, MigLanded

LEMMA NoteLegacyKeeps ==
  ASSUME MigInv, NEW p \in M!Processes, M!NoteLegacy(p)
  PROVE  MigInv'
<1>1. M!Notes(p, "note_legacy", procs[p].before, kind # "none")
  BY DEF M!NoteLegacy
<1>2. procs[p].before \in BOOLEAN /\ kind \in M!Kinds
  BY DEF MigInv, MigTypes, Works
<1>3. ASSUME MigFits("switch", "note_legacy"), SameCopy(p), migration'.phase = "prepared",
             UNCHANGED <<kind, old, new>>, migration'.before = procs[p].before,
             migration'.legacy = (kind # "none"), NEW b, Follows("switch", "note_legacy", b)
      PROVE  MigFits("switch", b)'
  <2>1. Unmade /\ OldAway /\ (kind # "managed" => migration.before)
    BY <1>3 DEF MigFits, SwitchFits, Making, Proving
  <2>2. Unmade' /\ OldAway'
    BY <1>3, <2>1 DEF Unmade, OldAway, M!Moved
  <2>3. CASE kind = "managed"
    <3>1. b = "note_before" /\ migration'.legacy
      BY <1>3, <2>3 DEF Follows, SwitchFollows
    <3> QED
      BY <1>3, <2>2, <2>3, <3>1 DEF MigFits, SwitchFits, UnitSteps, Making, Proving, Before
  <2>4. CASE kind # "managed"
    <3>1. b = "activating"
      BY <1>3, <2>4 DEF Follows, SwitchFollows
    <3>2. Recorded'
      BY <1>3, <2>1, <2>4 DEF Recorded, SameCopy
    <3> QED
      BY <1>3, <2>2, <2>4, <3>1, <3>2 DEF MigFits, SwitchFits, UnitSteps, Making, Proving, Before
  <2> QED
    BY <2>3, <2>4
<1> QED
  BY <1>1, <1>2, <1>3, Noted

LEMMA NoteBeforeKeeps ==
  ASSUME MigInv, NEW p \in M!Processes, M!NoteBefore(p)
  PROVE  MigInv'
<1>1. M!Notes(p, "note_before", TRUE, procs[p].legacy)
  BY DEF M!NoteBefore
<1>2. procs[p].legacy \in BOOLEAN /\ (procs[p].legacy => kind # "none") /\ kind \in M!Kinds
  BY DEF MigInv, MigTypes, Works
<1>3. ASSUME MigFits("switch", "note_before"), SameCopy(p), migration'.phase = "prepared",
             UNCHANGED <<kind, old, new>>, migration'.before = TRUE,
             migration'.legacy = procs[p].legacy, NEW b, Follows("switch", "note_before", b)
      PROVE  MigFits("switch", b)'
  <2>1. Unmade /\ Unmade' /\ migration'.legacy = migration.legacy
    BY <1>3 DEF MigFits, SwitchFits, Making, Proving, Unmade, SameCopy
  <2>2. CASE kind = "managed"
    <3>1. b = "activating"
      BY <1>3, <2>2 DEF Follows, SwitchFollows
    <3>2. OldAway /\ migration.legacy
      BY <1>3, <2>2 DEF MigFits, SwitchFits
    <3>3. OldAway' /\ Recorded'
      BY <1>3, <2>1, <2>2, <3>2 DEF OldAway, M!Moved, Recorded
    <3> QED
      BY <1>3, <2>1, <2>2, <3>1, <3>3 DEF MigFits, SwitchFits, UnitSteps, Making, Proving, Before
  <2>3. CASE kind # "managed"
    <3>1. b = IF kind = "none" THEN "note_legacy" ELSE "unit_stop"
      BY <1>2, <1>3, <2>3 DEF Follows, SwitchFollows, M!Kinds
    <3>2. ~migration.legacy /\ OldKept
      BY <1>3, <2>3 DEF MigFits, SwitchFits
    <3>3. OldKept' /\ (kind = "none" => OldAway')
      BY <1>3, <3>2 DEF OldKept, OldAway
    <3> QED
      BY <1>3, <2>1, <2>3, <3>1, <3>2, <3>3 DEF MigFits, SwitchFits, UnitSteps, Making, Proving, Before
  <2> QED
    BY <2>2, <2>3
<1> QED
  BY <1>1, <1>2, <1>3, Noted

LEMMA MigCreateBackupKeeps ==
  ASSUME MigInv, NEW p \in M!Processes, M!CreateBackup(p)
  PROVE  MigInv'
<1>1. /\ M!At(p, "backup") /\ M!Advances(p) /\ migration' = [migration EXCEPT !.backup = TRUE]
      /\ UNCHANGED <<kind, old, new>> /\ spoiled' = spoiled
  BY DEF M!CreateBackup, M!Counters
<1>2. procs[p].script = "prepare" /\ Now(p) = "backup" /\ M!Steps(p)
  <2>1. Has(procs[p].script, "backup") /\ procs[p].script \in Named /\ Now(p) = "backup" /\ M!Steps(p)
    BY <1>1, AtStep
  <2> QED
    BY <2>1 DEF Has, Named, StepNames
<1>3. /\ migration' \in Transactions /\ migration'.backup
      /\ migration'.phase = migration.phase /\ migration'.before = migration.before /\ migration'.legacy = migration.legacy
  BY <1>1 DEF MigInv, MigTypes, Transactions
<1>4. ~IsLast("prepare", "backup")
  BY DEF IsLast
<1>5. Moves(p) /\ procs'[p].before = procs[p].before /\ procs'[p].legacy = procs[p].legacy
  BY <1>1, <1>2, <1>4, MigAdvanced DEF MigInv
<1>6. MigTypes'
  <2>1. OldTyped(old)' /\ new' \in Installs /\ spoiled' \in BOOLEAN /\ (migration'.legacy => kind # "none")
    BY <1>1, <1>3 DEF OldTyped, MigInv, MigTypes
  <2> QED
    BY <1>1, <1>2, <1>3, <1>5, <2>1, Processed DEF MigInv
<1>7. ASSUME ~spoiled PROVE (WorkInv /\ RestInv)'
  <2>1. SameCopy(p) /\ PrepareFits /\ \A q \in M!Processes : M!Steps(q) => q = p
    BY <1>2, <1>7 DEF MigInv, WorkInv, SameCopy, MigFits
  <2>2. \A q \in M!Processes : q # p => ~M!Steps(q)'
    BY <1>5, <2>1 DEF Moves, M!Steps
  <2>3. procs'[p].script = "prepare"
    BY <1>2, <1>4, <1>5 DEF Moves
  <2>4. PrepareFits'
    BY <1>1, <1>3, <2>1, Rewritten DEF PrepareFits
  <2>5. MigFits(procs[p].script, Now(p))'
    BY <2>3, <2>4 DEF MigFits
  <2>6. WorkInv'
    BY <1>3, <1>5, <2>1, <2>2, <2>5 DEF WorkInv, SameCopy
  <2> QED
    BY <2>3, <2>6 DEF RestInv, M!Steps
<1> QED
  BY <1>1, <1>3, <1>6, <1>7 DEF MigInv, BackupInv

-----------------------------------------------------------------------------
(* Migration: errors, crashes, recovery and hand-over *)

LEMMA SwitchRests ==
  ASSUME NEW a \in StepNames, SwitchFits(a), a \notin {"unit_disable", "unit_away"},
         a = "note_legacy" => kind = "none"
  PROVE  AtRest /\ migration.phase \in Before \cup During
<1>1. CASE a \in {"stopping", "unit_stop"}
  BY <1>1 DEF SwitchFits, AtRest, Before, During, OldNoted, Making, Proving
<1>2. CASE a = "note_before"
  <2>1. migration.phase \in Before /\ Unmade
    BY <1>2 DEF SwitchFits, Making, Proving
  <2>2. OldNoted
    BY <1>2 DEF SwitchFits, OldNoted
  <2> QED
    BY <2>1, <2>2 DEF AtRest, Before, During
<1>3. CASE a = "note_legacy"
  <2>1. migration.phase \in Before /\ Unmade /\ ~migration.legacy
    BY <1>3 DEF SwitchFits, Making, Proving
  <2>2. OldNoted
    BY <1>3, <2>1 DEF OldKept, OldNoted
  <2> QED
    BY <2>1, <2>2 DEF AtRest, Before, During
<1>4. CASE a = "activating"
  <2>1. migration.phase \in Before /\ Unmade /\ Recorded /\ OldAway
    BY <1>4 DEF SwitchFits, Making, Proving
  <2>2. OldNoted
    BY <2>1 DEF OldKept, OldNoted, Recorded
  <2> QED
    BY <2>1, <2>2 DEF AtRest, Before, During
<1>5. CASE a \in Making \cup Proving
  <2>1. migration.phase \in During /\ Recorded /\ OldAway
    BY <1>5 DEF SwitchFits, During
  <2> QED
    BY <2>1 DEF AtRest, Before, During
<1> QED
  BY <1>1, <1>2, <1>3, <1>4, <1>5 DEF StepNames, Making, Proving

(* A process that is not in one of the windows may stop anywhere. *)
LEMMA Crashing ==
  ASSUME MigTypes, WorkInv, NEW p \in M!Processes, M!Steps(p), ~M!InWindow(p)
  PROVE  AtRest
<1>1. PICK s, i, a : s = procs[p].script /\ i = procs[p].i /\ a = Now(p)
  OBVIOUS
<1>2. s \in Named /\ i \in 1..Len(M!Script(s)) /\ Has(s, a) /\ kind \in M!Kinds /\ a = M!Script(s)[i]
  BY <1>1, Working DEF MigTypes, Now
<1>3. MigFits(s, a) /\ procs[p].legacy = migration.legacy
  BY <1>1 DEF WorkInv
<1>4. CASE s \in {"prepare", "fail"}
  BY <1>3, <1>4 DEF MigFits, PrepareFits, MigFailFits, AtRest, Before, During, OldNoted
<1>5. CASE s = "early"
  <2>1. M!Script(s) = M!EarlyScript
    BY <1>5 DEF M!Script
  <2>2. a # "unit_back" => \E j \in 1..(i - 1) : M!EarlyScript[j] = "unit_back"
    BY <1>2, <2>1, EarlyGoes
  <2>3. a # "unit_back" => ~migration.legacy
    BY <1>1, <1>3, <1>5, <2>1, <2>2 DEF M!InWindow, M!Passed
  <2>4. migration.phase \in Before /\ Unmade
    BY <1>3, <1>5 DEF MigFits, EarlyFits
  <2>5. OldNoted
    BY <1>2, <1>3, <1>5, <2>3 DEF MigFits, EarlyFits, Has, OldNoted, Halfway
  <2> QED
    BY <2>4, <2>5 DEF AtRest, Before, During
<1>6. CASE s = "rollback"
  <2>1. M!Script(s) = M!RollbackScript
    BY <1>6 DEF M!Script
  <2>2. a \in {"unit_on", "rm_data", "rolled_back"} => \E j \in 1..(i - 1) : M!RollbackScript[j] = "unit_back"
    BY <1>2, <2>1, RollbackGoes
  <2>3. a \in {"unit_on", "rm_data", "rolled_back"} => ~migration.legacy
    BY <1>1, <1>3, <1>6, <2>1, <2>2 DEF M!InWindow, M!Passed
  <2>4. CASE a = "rolling_back"
    BY <1>3, <1>6, <2>4 DEF MigFits, RollbackFits
  <2>5. CASE a # "rolling_back"
    <3>1. migration.phase = "rolling_back"
      BY <1>3, <1>6, <2>5 DEF MigFits, RollbackFits
    <3>2. Undoable
      BY <1>2, <1>3, <1>6, <2>3, <2>5 DEF MigFits, RollbackFits, Has, Undoable, OldNoted, Halfway
    <3> QED
      BY <3>1, <3>2 DEF AtRest, Before, During
  <2> QED
    BY <2>4, <2>5
<1>7. CASE s = "switch"
  <2>1. M!Script(s) = M!SwitchScript
    BY <1>7 DEF M!Script
  <2>2. a \in StepNames /\ (a \in UnitSteps => kind # "none") /\ SwitchFits(a)
    BY <1>2, <1>3, <1>7 DEF Has, MigFits
  <2>3. ASSUME kind # "none", a \in {"unit_disable", "unit_away", "note_legacy"}
        PROVE  FALSE
    <3>1. /\ \E j \in 1..(i - 1) : M!SwitchScript[j] = "unit_stop"
          /\ ~\E j \in 1..(i - 1) : M!SwitchScript[j] = "note_legacy"
      BY <1>2, <2>1, <2>3, SwitchWindow
    <3> QED
      BY <1>1, <1>7, <2>1, <3>1 DEF M!InWindow, M!Passed
  <2> QED
    BY <2>2, <2>3, SwitchRests DEF UnitSteps
<1> QED
  BY <1>2, <1>4, <1>5, <1>6, <1>7 DEF Named

LEMMA SameWorld ==
  ASSUME UNCHANGED <<kind, old, new, migration>>
  PROVE  /\ AtRest => AtRest'
         /\ \A s, a : MigFits(s, a) => MigFits(s, a)'
<1>1. /\ OldKept => OldKept'
      /\ OldAway => OldAway'
      /\ OldNoted => OldNoted'
      /\ Unmade => Unmade'
      /\ Recorded => Recorded'
      /\ Undoable => Undoable'
  BY Rewritten
<1>2. AtRest => AtRest'
  BY <1>1 DEF AtRest
<1>3. (PrepareFits => PrepareFits') /\ (MigFailFits => MigFailFits') /\ (Halfway => Halfway') /\ (OnlyData => OnlyData') /\ (Off => Off')
  BY <1>1 DEF PrepareFits, MigFailFits, Halfway, OnlyData, Off
<1>4. ASSUME NEW a PROVE (EarlyFits(a) => EarlyFits(a)') /\ (RollbackFits(a) => RollbackFits(a)')
  BY <1>1, <1>2, <1>3 DEF EarlyFits, RollbackFits
<1>5. ASSUME NEW a PROVE SwitchFits(a) => SwitchFits(a)'
  BY <1>1 DEF SwitchFits
<1> QED
  BY <1>2, <1>3, <1>4, <1>5 DEF MigFits

(* A process is given another script, or none. *)
LEMMA Handed ==
  ASSUME MigInv, NEW p \in M!Processes, NEW x \in MigScripts,
         NEW w, w = IF x = "idle" THEN M!Idle ELSE M!Runs(x), procs' = [procs EXCEPT ![p] = w],
         UNCHANGED <<kind, old, new, migration>>, spoiled' \in BOOLEAN, ~spoiled' => ~spoiled,
         ~migration.backup => x \in {"idle", "prepare", "fail"},
         (~spoiled' /\ x \notin Named /\ (\A q \in M!Processes : q # p => ~M!Steps(q))) => AtRest,
         (~spoiled' /\ x \in Named) =>
           MigFits(x, M!Script(x)[1]) /\ (\A q \in M!Processes : q # p => ~M!Steps(q))
  PROVE  MigInv'
<1>1. MigTypes /\ procs \in [M!Processes -> Works] /\ migration \in Transactions /\ kind \in M!Kinds
  BY DEF MigInv, MigTypes
<1>2. /\ w \in Works /\ w.script = x /\ (x # "idle" => w.i = 1)
      /\ x # "idle" => w.before = migration.before /\ w.legacy = migration.legacy
      /\ w.legacy => kind # "none"
  BY <1>1, IdleIs, RunsIs DEF MigTypes
<1>3. procs'[p] = w /\ procs' \in [M!Processes -> Works] /\ \A q \in M!Processes : q # p => procs'[q] = procs[q]
  BY <1>1, <1>2
<1>4. \A q \in M!Processes : q # p => (M!Steps(q)' <=> M!Steps(q))
  BY <1>3 DEF M!Steps
<1>5. M!Steps(p)' <=> x \in Named
  BY <1>2, <1>3 DEF M!Steps, MigScripts, Named
<1>6. MigTypes'
  <2>1. ASSUME NEW q \in M!Processes, M!Steps(q)'
        PROVE  (procs[q].i \in 1..Len(M!Script(procs[q].script)))'
    <3>1. CASE q # p
      <4>1. procs'[q] = procs[q] /\ M!Steps(q)
        BY <1>3, <1>4, <2>1, <3>1
      <4> QED
        BY <1>1, <4>1, ScriptSame DEF MigTypes
    <3>2. CASE q = p
      <4>1. x \in Named /\ procs'[q].script = x /\ procs'[q].i = 1
        BY <1>2, <1>3, <1>5, <2>1, <3>2 DEF Named
      <4>2. 1 \in 1..Len(M!Script(x))
        BY <1>1, <4>1, ScriptBegins
      <4> QED
        BY <4>1, <4>2, ScriptSame
    <3> QED
      BY <3>1, <3>2
  <2>2. \A q \in M!Processes : procs'[q].legacy => kind # "none"
    BY <1>1, <1>2, <1>3 DEF MigTypes
  <2> QED
    BY <1>1, <1>3, <2>1, <2>2 DEF MigTypes
<1>7. BackupInv'
  BY <1>2, <1>3 DEF MigInv, BackupInv, Unmade
<1>8. ASSUME ~spoiled' PROVE (WorkInv /\ RestInv)'
  <2>1. WorkInv /\ RestInv
    BY <1>8 DEF MigInv
  <2>2. CASE x \in Named
    <3>1. M!Steps(p)' /\ \A q \in M!Processes : q # p => ~M!Steps(q)'
      BY <1>4, <1>5, <1>8, <2>2
    <3>2. PICK a : a = M!Script(x)[1]
      OBVIOUS
    <3>3. MigFits(x, a)'
      BY <1>8, <2>2, <3>2, SameWorld
    <3>4. procs'[p].script = x /\ Now(p)' = a
      BY <1>2, <1>3, <2>2, <3>2, ScriptSame DEF Now, Named
    <3>5. MigFits(procs[p].script, Now(p))'
      BY <3>3, <3>4
    <3>6. procs'[p].before = migration'.before /\ procs'[p].legacy = migration'.legacy
      BY <1>2, <1>3, <2>2 DEF Named
    <3>7. WorkInv'
      BY <3>1, <3>5, <3>6 DEF WorkInv
    <3> QED
      BY <3>1, <3>7 DEF RestInv
  <2>3. CASE x \notin Named
    <3>1. ~M!Steps(p)'
      BY <1>5, <2>3
    <3>2. RestInv'
      BY <1>4, <1>8, <2>3, SameWorld DEF RestInv
    <3>3. ASSUME NEW q \in M!Processes, M!Steps(q)'
          PROVE  /\ procs'[q].before = migration'.before /\ procs'[q].legacy = migration'.legacy
                 /\ MigFits(procs[q].script, Now(q))'
                 /\ \A r \in M!Processes : M!Steps(r)' => r = q
      <4>1. q # p /\ M!Steps(q) /\ procs'[q] = procs[q]
        BY <1>3, <1>4, <3>1, <3>3
      <4>2. PICK s, a : s = procs[q].script /\ a = Now(q)
        OBVIOUS
      <4>3. MigFits(s, a)'
        BY <2>1, <4>1, <4>2, SameWorld DEF WorkInv
      <4>4. procs'[q].script = s /\ Now(q)' = a
        BY <4>1, <4>2, ScriptSame DEF Now
      <4>5. MigFits(procs[q].script, Now(q))'
        BY <4>3, <4>4
      <4> QED
        BY <1>4, <2>1, <3>1, <4>1, <4>5 DEF WorkInv
    <3> QED
      BY <3>2, <3>3 DEF WorkInv
  <2> QED
    BY <2>2, <2>3
<1> QED
  BY <1>6, <1>7, <1>8 DEF MigInv

(* An error: the handler of the script it is met in. *)
LEMMA HandlerKeeps ==
  ASSUME MigInv, NEW p \in M!Processes, M!Steps(p), procs' = [procs EXCEPT ![p] = M!Handler(p)],
         UNCHANGED <<kind, old, new, migration>>, spoiled' \in BOOLEAN,
         ~spoiled' => ~spoiled /\ ~M!Undoes(p) /\ AtRest
  PROVE  MigInv'
<1>1. PICK s, a : s = procs[p].script /\ a = Now(p)
  OBVIOUS
<1>2. s \in Named /\ Has(s, a) /\ procs[p].i \in 1..Len(M!Script(s)) /\ kind \in M!Kinds
  BY <1>1, Working DEF MigInv, MigTypes
<1>3. ~spoiled' => /\ MigFits(s, a) /\ AtRest /\ s \in {"prepare", "fail", "switch"}
                   /\ \A q \in M!Processes : q # p => ~M!Steps(q)
  BY <1>1, <1>2 DEF MigInv, WorkInv, M!Undoes, Named
<1>4. /\ ~migration.backup => s \in {"prepare", "fail"}
      /\ ~spoiled' => ~spoiled
  BY <1>1, <1>2 DEF MigInv, BackupInv, Named
<1>5. PICK w : w = M!Handler(p)
  OBVIOUS
<1>6. M!Script("fail")[1] = "failed" /\ M!Script("rollback")[1] = "rolling_back"
  BY <1>2, ScriptBegins DEF Named
<1>7. "idle" \in MigScripts \ Named /\ "fail" \in MigScripts \cap Named /\ "rollback" \in MigScripts \cap Named
  BY DEF MigScripts, Named
<1>8. CASE w = M!Idle
  BY <1>3, <1>4, <1>5, <1>7, <1>8, Handed
<1>9. CASE w = M!Runs("fail") /\ s = "prepare"
  <2>1. ~spoiled' => MigFits("fail", "failed")
    BY <1>3, <1>9 DEF MigFits, PrepareFits, MigFailFits
  <2> QED
    BY <1>3, <1>4, <1>5, <1>6, <1>7, <1>9, <2>1, Handed
<1>10. CASE w = M!Runs("fail") /\ s = "switch" /\ ~M!Passed(p, "stopping")
  <2>1. M!Script(s) = M!SwitchScript /\ M!Script(s)[1] = "stopping"
    BY <1>2, <1>10, ScriptBegins DEF M!Script
  <2>2. procs[p].i = 1
    <3>1. ASSUME procs[p].i # 1 PROVE FALSE
      <4>1. 1 \in 1..(procs[p].i - 1)
        BY <1>2, <3>1
      <4> QED
        BY <1>1, <1>10, <2>1, <4>1 DEF M!Passed
    <3> QED
      BY <3>1
  <2>3. a = "stopping"
    BY <1>1, <2>1, <2>2 DEF Now
  <2>4. ~spoiled' => MigFits("fail", "failed")
    BY <1>3, <1>10, <2>3 DEF MigFits, MigFailFits, SwitchFits, Making, Proving
  <2> QED
    BY <1>3, <1>4, <1>5, <1>6, <1>7, <1>10, <2>4, Handed
<1>11. CASE w = M!Runs("rollback") /\ s = "switch"
  <2>1. ~spoiled' => migration.phase \in Before \cup During
    BY <1>2, <1>3, <1>11 DEF MigFits, SwitchFits, Has, StepNames, Making, Proving, During
  <2>2. ~spoiled' => MigFits("rollback", "rolling_back")
    BY <1>3, <2>1 DEF MigFits, RollbackFits
  <2> QED
    BY <1>3, <1>4, <1>5, <1>6, <1>7, <1>11, <2>2, Handed
<1>12. CASE w = M!Runs("fail") /\ s = "rollback"
  BY <1>3, <1>4, <1>5, <1>7, <1>12, Handed
<1> QED
  BY <1>1, <1>5, <1>8, <1>9, <1>10, <1>11, <1>12 DEF M!Handler

LEMMA MigStepFailsKeeps ==
  ASSUME MigInv, NEW p \in M!Processes, M!StepFails(p)
  PROVE  MigInv'
<1>1. /\ M!Steps(p) /\ procs' = [procs EXCEPT ![p] = M!Handler(p)]
      /\ spoiled' = (spoiled \/ M!InWindow(p) \/ M!Undoes(p))
      /\ UNCHANGED <<kind, old, new, migration>>
  BY DEF M!StepFails, M!world
<1>2. spoiled' \in BOOLEAN
  BY <1>1 DEF MigInv, MigTypes, M!InWindow, M!Undoes, M!Passed
<1>3. ~spoiled' => ~spoiled /\ ~M!Undoes(p) /\ AtRest
  BY <1>1, Crashing DEF MigInv
<1> QED
  BY <1>1, <1>2, <1>3, HandlerKeeps

LEMMA StepRefusedKeeps ==
  ASSUME MigInv, NEW p \in M!Processes, M!StepRefused(p)
  PROVE  MigInv'
<1>1. /\ M!Stuck(p) /\ procs' = [procs EXCEPT ![p] = M!Handler(p)]
      /\ spoiled' = (spoiled \/ M!Undoes(p))
      /\ UNCHANGED <<kind, old, new, migration>>
  BY DEF M!StepRefused, M!world
<1>2. PICK a \in {"backup", "unit_back", "register", "health", "new_off"} : M!At(p, a)
  BY <1>1 DEF M!Stuck
<1>3. M!Steps(p) /\ a = Now(p) /\ procs[p].script \in Named /\ Has(procs[p].script, a)
  BY <1>2, AtStep
<1>4. ASSUME ~spoiled, M!InWindow(p), ~M!Undoes(p) PROVE AtRest
  <2>1. procs[p].script = "switch"
    BY <1>4 DEF M!InWindow, M!Undoes
  <2>2. SwitchFits(a) /\ a \in StepNames /\ a \in {"register", "health"}
    BY <1>2, <1>3, <1>4, <2>1 DEF MigInv, WorkInv, MigFits, Has, StepNames
  <2> QED
    BY <2>2, SwitchRests
<1>5. spoiled' \in BOOLEAN
  BY <1>1 DEF MigInv, MigTypes, M!InWindow, M!Undoes, M!Passed
<1>6. ~spoiled' => ~spoiled /\ ~M!Undoes(p) /\ AtRest
  BY <1>1, <1>3, <1>4, Crashing DEF MigInv
<1> QED
  BY <1>1, <1>3, <1>5, <1>6, HandlerKeeps

LEMMA MigCrashKeeps ==
  ASSUME MigInv, NEW p \in M!Processes, M!Crash(p)
  PROVE  MigInv'
<1>1. /\ procs' = [procs EXCEPT ![p] = M!Idle] /\ spoiled' = (spoiled \/ M!InWindow(p))
      /\ UNCHANGED <<kind, old, new, migration>>
  BY DEF M!Crash, M!world
<1>2. spoiled' \in BOOLEAN
  BY <1>1 DEF MigInv, MigTypes, M!InWindow
<1>3. ASSUME ~spoiled', \A q \in M!Processes : q # p => ~M!Steps(q)
      PROVE  AtRest
  <2>1. CASE M!Steps(p)
    BY <1>1, <1>3, <2>1, Crashing DEF MigInv
  <2>2. CASE ~M!Steps(p)
    BY <1>1, <1>3, <2>2 DEF MigInv, RestInv
  <2> QED
    BY <2>1, <2>2
<1>4. "idle" \in MigScripts \ Named
  BY DEF MigScripts, Named
<1> QED
  BY <1>1, <1>2, <1>3, <1>4, Handed

LEMMA FrontStopsWaiting ==
  ASSUME MigInv, M!FrontReturns \/ M!FrontLeaves
  PROVE  MigInv'
<1>1. /\ procs' = [procs EXCEPT !["front"] = M!Idle] /\ procs["front"].script = "waiting"
      /\ UNCHANGED <<kind, old, new, migration>> /\ spoiled' = spoiled
  BY DEF M!FrontReturns, M!FrontLeaves, M!world, M!Counters
<1>2. "front" \in M!Processes /\ ~M!Steps("front") /\ spoiled' \in BOOLEAN
  BY <1>1 DEF M!Processes, M!Steps, MigInv, MigTypes
<1>3. ASSUME ~spoiled', \A q \in M!Processes : q # "front" => ~M!Steps(q)
      PROVE  AtRest
  BY <1>1, <1>2, <1>3 DEF MigInv, RestInv
<1>4. "idle" \in MigScripts \ Named
  BY DEF MigScripts, Named
<1> QED
  BY <1>1, <1>2, <1>3, <1>4, Handed

LEMMA LoadPreparedKeeps ==
  ASSUME MigInv, M!LoadPrepared
  PROVE  MigInv'
<1>1. /\ procs["worker"].script = "idle" /\ procs["front"].script = "waiting"
      /\ migration.phase = "prepared" /\ migration.backup /\ old.run
      /\ procs' = [procs EXCEPT !["worker"] = M!Runs("switch")]
      /\ UNCHANGED <<kind, old, new, migration>> /\ spoiled' = spoiled
  BY DEF M!LoadPrepared, M!world, M!Counters
<1>2. "worker" \in M!Processes /\ (\A q \in M!Processes : ~M!Steps(q)) /\ spoiled' \in BOOLEAN /\ kind \in M!Kinds
  BY <1>1 DEF M!Processes, M!Steps, MigInv, MigTypes
<1>3. ASSUME ~spoiled' PROVE MigFits("switch", "stopping")
  <2>1. Unmade /\ OldNoted
    BY <1>1, <1>2, <1>3 DEF MigInv, RestInv, AtRest, Before
  <2>2. ~migration.legacy /\ OldKept
    BY <1>1, <2>1 DEF OldNoted, OldAway, MigInv, MigTypes
  <2> QED
    BY <1>1, <2>1, <2>2 DEF MigFits, SwitchFits, UnitSteps, Making, Proving, Before
<1>4. "switch" \in MigScripts /\ "switch" \in Named
  BY DEF MigScripts, Named
<1>5. M!Script("switch")[1] = "stopping"
  BY <1>2, <1>4, ScriptBegins
<1> QED
  BY <1>1, <1>2, <1>3, <1>4, <1>5, Handed

LEMMA MigRecoverKeeps ==
  ASSUME MigInv, M!Recover
  PROVE  MigInv'
<1> DEFINE x == IF migration.phase = "preparing" THEN "fail"
                ELSE IF migration.phase \in {"prepared", "stopping"} THEN "early" ELSE "rollback"
<1>1. /\ procs["front"].script = "idle" /\ M!Unfinished
      /\ procs' = [procs EXCEPT !["front"] = M!Runs(x)]
      /\ UNCHANGED <<kind, old, new, migration>> /\ spoiled' = (spoiled \/ M!Steps("worker"))
  BY DEF M!Recover, M!world
<1>2. "front" \in M!Processes /\ spoiled' \in BOOLEAN /\ kind \in M!Kinds /\ migration.phase \in MigPhases
  BY <1>1 DEF M!Processes, M!Steps, MigInv, MigTypes, Transactions
<1>3. ~spoiled' => ~spoiled /\ \A q \in M!Processes : ~M!Steps(q)
  BY <1>1 DEF M!Processes, M!Steps
<1>4. x \in MigScripts /\ x \in Named /\ x # "idle"
  BY DEF MigScripts, Named
<1>5. ASSUME ~spoiled' PROVE MigFits(x, M!Script(x)[1])
  <2>1. AtRest
    BY <1>3, <1>5 DEF MigInv, RestInv
  <2>2. CASE migration.phase = "preparing"
    BY <2>1, <2>2 DEF AtRest, MigFits, MigFailFits
  <2>3. CASE migration.phase \in {"prepared", "stopping"}
    <3>1. x = "early" /\ M!Script("early")[1] = "unit_back"
      BY <1>2, <1>4, <2>3, ScriptBegins
    <3> QED
      BY <2>1, <2>3, <3>1 DEF AtRest, MigFits, EarlyFits, Before
  <2>4. CASE migration.phase \notin {"preparing", "prepared", "stopping"}
    <3>1. x = "rollback" /\ M!Script("rollback")[1] = "rolling_back"
      BY <1>2, <1>4, <2>4, ScriptBegins
    <3>2. migration.phase \in During \cup {"rolling_back"}
      BY <1>1, <1>2, <2>4 DEF M!Unfinished, M!Terminal, MigPhases, During
    <3> QED
      BY <2>1, <3>1, <3>2 DEF MigFits, RollbackFits
  <2> QED
    BY <2>2, <2>3, <2>4
<1>6. ~migration.backup => x = "fail"
  BY <1>1 DEF MigInv, BackupInv, M!Unfinished, M!Terminal
<1> HIDE DEF x
<1> QED
  BY <1>1, <1>2, <1>3, <1>4, <1>5, <1>6, Handed

LEMMA MigBeginKeeps ==
  ASSUME MigInv, M!Begin
  PROVE  MigInv'
<1>1. /\ procs["front"].script = "idle" /\ migration.phase = "none"
      /\ migration' = [migration EXCEPT !.phase = "preparing"]
      /\ procs' = [procs EXCEPT !["front"] = M!Runs("prepare")]
      /\ UNCHANGED <<kind, old, new>> /\ spoiled' = spoiled
  BY DEF M!Begin, M!Counters
<1>2. /\ "front" \in M!Processes /\ kind \in M!Kinds /\ migration \in Transactions
      /\ procs \in [M!Processes -> Works] /\ "prepare" \in MigScripts /\ "prepare" \in Named
  BY DEF M!Processes, MigInv, MigTypes, MigScripts, Named
<1>3. /\ migration' \in Transactions /\ migration'.phase = "preparing" /\ migration'.backup = migration.backup
      /\ migration'.before = migration.before /\ migration'.legacy = migration.legacy
  BY <1>1, <1>2 DEF Transactions, MigPhases
<1>4. PICK w : w = M!Runs("prepare")
  OBVIOUS
<1>5. /\ w \in Works /\ w.script = "prepare" /\ w.i = 1
      /\ w.before = migration.before /\ w.legacy = migration.legacy
  BY <1>2, <1>4, RunsIs
<1>6. procs'["front"] = w /\ procs' \in [M!Processes -> Works] /\ \A q \in M!Processes : q # "front" => procs'[q] = procs[q]
  BY <1>1, <1>2, <1>4, <1>5
<1>7. MigTypes'
  <2>1. ASSUME NEW q \in M!Processes, M!Steps(q)'
        PROVE  (procs[q].i \in 1..Len(M!Script(procs[q].script)))'
    <3>1. CASE q # "front"
      <4>1. procs'[q] = procs[q] /\ M!Steps(q)
        BY <1>6, <2>1, <3>1 DEF M!Steps
      <4> QED
        BY <1>1, <4>1, ScriptSame DEF MigInv, MigTypes
    <3>2. CASE q = "front"
      <4>1. 1 \in 1..Len(M!Script("prepare"))
        BY <1>2, ScriptBegins
      <4> QED
        BY <1>1, <1>5, <1>6, <3>2, <4>1, ScriptSame
    <3> QED
      BY <3>1, <3>2
  <2>2. \A q \in M!Processes : procs'[q].legacy => kind # "none"
    BY <1>5, <1>6 DEF MigInv, MigTypes
  <2> QED
    BY <1>1, <1>3, <1>6, <2>1, <2>2 DEF MigInv, MigTypes
<1>8. BackupInv'
  BY <1>1, <1>3, <1>5, <1>6 DEF MigInv, BackupInv, Unmade
<1>9. ASSUME ~spoiled PROVE (WorkInv /\ RestInv)'
  <2>1. ASSUME NEW q \in M!Processes, M!Steps(q) PROVE FALSE
    <3>1. PICK s, a : s = procs[q].script /\ a = Now(q)
      OBVIOUS
    <3>2. MigFits(s, a) /\ s \in Named /\ Has(s, a)
      BY <1>9, <2>1, <3>1, Working DEF MigInv, WorkInv
    <3>3. s = "switch" => migration.phase \in Before \cup {"activating", "verifying"}
      BY <3>2 DEF MigFits, SwitchFits
    <3> QED
      BY <1>1, <3>2, <3>3 DEF MigFits, PrepareFits, MigFailFits, EarlyFits, RollbackFits, Named, Before, During
  <2>2. ~migration.legacy /\ Unmade /\ OldKept
    BY <1>1, <1>9, <2>1 DEF MigInv, RestInv, AtRest
  <2>3. \A q \in M!Processes : q # "front" => ~M!Steps(q)'
    BY <1>6, <2>1 DEF M!Steps
  <2>4. M!Steps("front")'
    BY <1>5, <1>6 DEF M!Steps
  <2>5. PrepareFits'
    BY <1>1, <1>3, <2>2, Rewritten DEF PrepareFits
  <2>6. MigFits(procs["front"].script, Now("front"))'
    BY <1>5, <1>6, <2>5 DEF MigFits
  <2>7. WorkInv'
    BY <1>3, <1>5, <1>6, <2>3, <2>6 DEF WorkInv
  <2> QED
    BY <1>2, <2>4, <2>7 DEF RestInv
<1> QED
  BY <1>1, <1>7, <1>8, <1>9 DEF MigInv

LEMMA UserStopsOldKeeps ==
  ASSUME MigInv, M!UserStopsOld
  PROVE  MigInv'
<1>1. /\ kind = "none" /\ old' = [old EXCEPT !.run = FALSE]
      /\ UNCHANGED <<kind, new, migration, procs>> /\ spoiled' = spoiled
  BY DEF M!UserStopsOld, M!Counters
<1>2. old' \in Units /\ old'.place = old.place /\ old'.masked = old.masked /\ old'.on = old.on /\ ~old'.run
  BY <1>1 DEF MigInv, MigTypes, Units
<1>3. \A s : M!Script(s)' = M!Script(s)
  BY <1>1, ScriptSame
<1>4. MigTypes'
  <2>1. \A p \in M!Processes : M!Steps(p)' => (procs[p].i \in 1..Len(M!Script(procs[p].script)))'
    BY <1>1, <1>3 DEF MigInv, MigTypes, M!Steps
  <2> QED
    BY <1>1, <1>2, <2>1 DEF MigInv, MigTypes
<1>5. BackupInv'
  BY <1>1, <1>2 DEF MigInv, BackupInv, Unmade
<1>6. /\ OldKept' /\ OldAway' /\ OldNoted' /\ (Unmade => Unmade') /\ (Recorded => Recorded')
      /\ Undoable => Undoable'
      /\ OldKept /\ OldAway /\ OldNoted
  BY <1>1 DEF OldKept, OldAway, OldNoted, Unmade, Recorded, Undoable
<1>7. AtRest => AtRest'
  BY <1>1, <1>2, <1>6 DEF AtRest
<1>8. ~migration.legacy
  BY <1>1 DEF MigInv, MigTypes
<1>9. ASSUME NEW s, NEW a PROVE MigFits(s, a) => MigFits(s, a)'
  <2>1. (PrepareFits => PrepareFits') /\ (MigFailFits => MigFailFits') /\ Halfway' /\ (OnlyData => OnlyData') /\ (Off => Off')
    BY <1>1, <1>6, <1>8 DEF PrepareFits, MigFailFits, Halfway, OnlyData, Off
  <2>2. (EarlyFits(a) => EarlyFits(a)') /\ (RollbackFits(a) => RollbackFits(a)')
    BY <1>1, <1>6, <1>7, <2>1 DEF EarlyFits, RollbackFits
  <2>3. SwitchFits(a) => SwitchFits(a)'
    BY <1>1, <1>2, <1>6 DEF SwitchFits
  <2> QED
    BY <2>1, <2>2, <2>3 DEF MigFits
<1>10. ASSUME ~spoiled PROVE (WorkInv /\ RestInv)'
  <2>1. WorkInv /\ RestInv
    BY <1>10 DEF MigInv
  <2>2. \A p \in M!Processes : M!Steps(p)' <=> M!Steps(p)
    BY <1>1 DEF M!Steps
  <2>3. RestInv'
    BY <1>7, <2>1, <2>2 DEF RestInv
  <2>4. ASSUME NEW p \in M!Processes, M!Steps(p) PROVE MigFits(procs[p].script, Now(p))'
    <3>1. PICK s, a : s = procs[p].script /\ a = Now(p)
      OBVIOUS
    <3>2. procs'[p].script = s /\ Now(p)' = a
      BY <1>1, <1>3, <3>1 DEF Now
    <3> QED
      BY <1>9, <2>1, <2>4, <3>1, <3>2 DEF WorkInv
  <2> QED
    BY <1>1, <2>1, <2>2, <2>3, <2>4 DEF WorkInv
<1> QED
  BY <1>1, <1>4, <1>5, <1>10 DEF MigInv

LEMMA MigRebootKeeps ==
  ASSUME MigInv, M!Reboot
  PROVE  MigInv'
<1>1. /\ procs' = [p \in M!Processes |-> M!Idle]
      /\ old' = [old EXCEPT !.run = old.on /\ old.place = "in" /\ ~old.masked]
      /\ new' = [new EXCEPT !.run = new.reg /\ new.on /\ new.link]
      /\ spoiled' = (spoiled \/ \E p \in M!Processes : M!InWindow(p))
      /\ UNCHANGED <<kind, migration>>
  BY DEF M!Reboot
<1>2. /\ old' \in Units /\ old'.place = old.place /\ old'.masked = old.masked /\ old'.on = old.on
      /\ old'.run = (old.on /\ old.place = "in" /\ ~old.masked)
  BY <1>1 DEF MigInv, MigTypes, Units
<1>3. /\ new' \in Installs /\ new'.release = new.release /\ new'.data = new.data /\ new'.link = new.link
      /\ new'.state = new.state /\ new'.reg = new.reg /\ new'.on = new.on
      /\ new'.run = (new.reg /\ new.on /\ new.link)
  BY <1>1 DEF MigInv, MigTypes, Installs
<1>4. \A p \in M!Processes : procs'[p] = M!Idle
  BY <1>1
<1>5. \A p \in M!Processes : procs'[p] \in Works /\ procs'[p].script = "idle" /\ ~procs'[p].legacy /\ ~M!Steps(p)'
  BY <1>4, IdleIs DEF M!Steps
<1>6. procs' \in [M!Processes -> Works] /\ spoiled' \in BOOLEAN
  BY <1>1, IdleIs DEF MigInv, MigTypes
<1>7. MigTypes'
  BY <1>1, <1>2, <1>3, <1>5, <1>6 DEF MigInv, MigTypes
<1>8. Unmade => Unmade'
  BY <1>3, NothingIs DEF Unmade, MigInv, MigTypes
<1>9. BackupInv'
  BY <1>1, <1>2, <1>5, <1>8 DEF MigInv, BackupInv
<1>10. ASSUME ~spoiled' PROVE AtRest'
  <2>1. AtRest
    <3>1. CASE \E p \in M!Processes : M!Steps(p)
      BY <1>1, <1>10, <3>1, Crashing DEF MigInv
    <3>2. CASE \A p \in M!Processes : ~M!Steps(p)
      BY <1>1, <1>10, <3>2 DEF MigInv, RestInv
    <3> QED
      BY <3>1, <3>2
  <2>2. (OldKept => OldKept') /\ (OldAway => OldAway') /\ (Recorded => Recorded')
    BY <1>1, <1>2 DEF OldKept, OldAway, Recorded, M!Moved
  <2>3. OldNoted => OldNoted'
    BY <1>1, <2>2 DEF OldNoted
  <2>4. Undoable => Undoable'
    BY <1>8, <2>2, <2>3 DEF Undoable
  <2> QED
    BY <1>1, <1>2, <1>3, <1>8, <2>1, <2>2, <2>3, <2>4 DEF AtRest
<1> QED
  BY <1>5, <1>7, <1>9, <1>10 DEF MigInv, WorkInv, RestInv

-----------------------------------------------------------------------------
(* Migration: the theorem *)

LEMMA MigrationBegins == M!Init => MigInv
<1> SUFFICES ASSUME M!Init PROVE MigInv
  OBVIOUS
<1>1. /\ kind \in M!Kinds /\ new = M!Nothing
      /\ old = [place |-> "in", masked |-> FALSE, on |-> kind # "none", run |-> TRUE]
      /\ migration = [phase |-> "none", backup |-> FALSE, before |-> FALSE, legacy |-> FALSE]
      /\ procs = [p \in M!Processes |-> M!Idle] /\ spoiled = FALSE
  BY DEF M!Init
<1>2. \A p \in M!Processes : procs[p] \in Works /\ procs[p].script = "idle" /\ ~procs[p].legacy /\ ~M!Steps(p)
  BY <1>1, IdleIs DEF M!Steps
<1>3. new \in Installs /\ old \in Units /\ migration \in Transactions /\ procs \in [M!Processes -> Works]
  BY <1>1, IdleIs DEF M!Nothing, Installs, Units, Transactions, MigPhases
<1>4. MigTypes
  BY <1>1, <1>2, <1>3 DEF MigTypes
<1>5. BackupInv
  BY <1>1, <1>2 DEF BackupInv, Unmade
<1>6. AtRest
  BY <1>1 DEF AtRest, Unmade, OldKept, Before, During
<1> QED
  BY <1>2, <1>4, <1>5, <1>6 DEF MigInv, WorkInv, RestInv

LEMMA MigrationStepKeeps ==
  ASSUME MigInv, NEW p \in M!Processes, M!Step(p)
  PROVE  MigInv'
<1>1. CASE M!CreateBackup(p) \/ M!MarkPhase(p) \/ M!NoteLegacy(p) \/ M!NoteBefore(p)
  BY <1>1, MigCreateBackupKeeps, MigMarkPhaseKeeps, NoteLegacyKeeps, NoteBeforeKeeps
<1>2. CASE \/ M!StopUnit(p) \/ M!DisableUnit(p) \/ M!PutUnitAway(p)
           \/ M!PutUnitBack(p) \/ M!RestoreLegacyUnit(p)
  BY <1>2, StopUnitKeeps, DisableUnitKeeps, PutUnitAwayKeeps, PutUnitBackKeeps, RestoreLegacyUnitKeeps
<1>3. CASE \/ M!RebuildRelease(p) \/ M!SeedData(p) \/ M!RestoreCurrent(p) \/ M!Register(p) \/ M!Start(p)
           \/ M!WaitForHealth(p) \/ M!WriteState(p)
  BY <1>3, RebuildReleaseKeeps, SeedDataKeeps, RestoreCurrentKeeps, MigRegisterKeeps, MigStartKeeps,
     WaitForHealthKeeps, MigWriteStateKeeps
<1>4. CASE M!RestoreBefore(p) \/ M!CleanupFirstInstall(p) \/ M!CleanupRoot(p)
  BY <1>4, RestoreBeforeKeeps, CleanupFirstInstallKeeps, CleanupRootKeeps
<1> QED
  BY <1>1, <1>2, <1>3, <1>4 DEF M!Step

LEMMA MigrationKeeps == MigInv /\ [M!Next]_(M!vars) => MigInv'
<1> SUFFICES ASSUME MigInv, [M!Next]_(M!vars) PROVE MigInv'
  OBVIOUS
<1>1. CASE M!Begin \/ M!LoadPrepared \/ M!FrontReturns \/ M!FrontLeaves \/ M!UserStopsOld
  BY <1>1, MigBeginKeeps, LoadPreparedKeeps, FrontStopsWaiting, UserStopsOldKeeps
<1>2. ASSUME NEW p \in M!Processes, M!Step(p) \/ M!StepFails(p) \/ M!StepRefused(p) \/ M!Crash(p)
      PROVE  MigInv'
  BY <1>2, MigrationStepKeeps, MigStepFailsKeeps, StepRefusedKeeps, MigCrashKeeps
<1>3. CASE M!Reboot \/ M!Recover
  BY <1>3, MigRebootKeeps, MigRecoverKeeps
<1>4. CASE UNCHANGED M!vars
  <2>1. UNCHANGED <<kind, old, new, migration, procs, spoiled>>
    BY <1>4 DEF M!vars, M!world
  <2>2. \A s : M!Script(s)' = M!Script(s)
    BY <2>1, ScriptSame
  <2>3. \A p \in M!Processes : M!Steps(p)' <=> M!Steps(p)
    BY <2>1 DEF M!Steps
  <2>4. MigTypes'
    BY <2>1, <2>2, <2>3 DEF MigInv, MigTypes
  <2>5. BackupInv'
    BY <2>1 DEF MigInv, BackupInv, Unmade
  <2>6. ASSUME ~spoiled PROVE (WorkInv /\ RestInv)'
    <3>1. WorkInv /\ RestInv
      BY <2>6 DEF MigInv
    <3>2. RestInv'
      BY <2>1, <2>3, <3>1, SameWorld DEF RestInv
    <3>3. ASSUME NEW p \in M!Processes, M!Steps(p) PROVE MigFits(procs[p].script, Now(p))'
      <4>1. PICK s, a : s = procs[p].script /\ a = Now(p)
        OBVIOUS
      <4>2. procs'[p].script = s /\ Now(p)' = a
        BY <2>1, <2>2, <4>1 DEF Now
      <4>3. MigFits(s, a)
        BY <3>1, <3>3, <4>1 DEF WorkInv
      <4>4. MigFits(s, a)'
        BY <2>1, <4>3, SameWorld
      <4> QED
        BY <4>2, <4>4
    <3> QED
      BY <2>1, <2>3, <3>1, <3>2, <3>3 DEF WorkInv
  <2> QED
    BY <2>1, <2>4, <2>5, <2>6 DEF MigInv
<1> QED
  BY <1>1, <1>2, <1>3, <1>4 DEF M!Next

LEMMA MigrationMeans == MigInv => MigrationInvariant
<1> SUFFICES ASSUME MigInv PROVE MigrationInvariant
  OBVIOUS
<1>1. /\ kind \in M!Kinds /\ old \in Units /\ new \in Installs /\ migration \in Transactions
      /\ \A p \in M!Processes : M!Steps(p) => procs[p].i \in 1..Len(M!Script(procs[p].script))
      /\ procs \in [M!Processes -> Works]
  BY DEF MigInv, MigTypes
<1>2. DOMAIN new = {"release", "data", "link", "state", "reg", "on", "run"}
  BY <1>1 DEF Installs
<1>3. M!TypeOK
  <2>1. DOMAIN M!Nothing = {"release", "data", "link", "state", "reg", "on", "run"}
    BY DEF M!Nothing
  <2>2. \A f \in DOMAIN new : new[f] \in BOOLEAN
    BY <1>1, <1>2 DEF Installs
  <2>3. migration.phase \in M!Terminal \cup {"preparing", "prepared", "stopping", "activating",
                                             "verifying", "rolling_back"}
    BY <1>1 DEF Transactions, MigPhases, M!Terminal
  <2> QED
    BY <1>1, <1>2, <2>1, <2>2, <2>3 DEF M!TypeOK, Units
<1>4. M!EndsWithRouter
  <2> SUFFICES ASSUME M!Quiet, ~spoiled
               PROVE  IF migration.phase = "committed"
                      THEN /\ \A f \in DOMAIN new : new[f]
                           /\ ~old.on /\ ~old.run /\ (old.place = "aside" \/ old.masked \/ kind = "none")
                      ELSE /\ new = M!Nothing
                           /\ kind # "none" => old = [place |-> "in", masked |-> FALSE, on |-> TRUE, run |-> TRUE]
    BY DEF M!EndsWithRouter
  <2>1. AtRest /\ migration.phase \in {"none", "committed", "rolled_back", "failed"}
    BY DEF M!Quiet, M!Unfinished, M!Terminal, MigInv, RestInv, M!Steps
  <2>2. CASE migration.phase = "committed"
    <3>1. /\ new.release /\ new.data /\ new.link /\ new.state /\ new.reg /\ new.on /\ new.run
          /\ OldAway /\ ~old.on /\ ~old.run
      BY <2>1, <2>2 DEF AtRest
    <3>2. old.place = "aside" \/ old.masked \/ kind = "none"
      BY <3>1 DEF OldAway
    <3>3. \A f \in DOMAIN new : new[f]
      BY <1>2, <3>1
    <3> QED
      BY <2>2, <3>1, <3>2, <3>3
  <2>3. CASE migration.phase # "committed"
    <3>1. Unmade /\ OldKept
      BY <2>1, <2>3 DEF AtRest
    <3>2. kind # "none" => old = [place |-> "in", masked |-> FALSE, on |-> TRUE, run |-> TRUE]
      BY <1>1, <3>1 DEF OldKept, Units
    <3> QED
      BY <2>3, <3>1, <3>2 DEF Unmade
  <2> QED
    BY <2>2, <2>3
<1>5. M!NotBothAtBoot
  <2> SUFFICES ASSUME ~spoiled, new.reg, new.on, old.on, old.place = "in", ~old.masked PROVE FALSE
    BY DEF M!NotBothAtBoot
  <2>1. ~Unmade /\ kind # "none" /\ ~OldAway /\ ~Off /\ ~OnlyData
    BY <1>1, NothingIs DEF Unmade, OldAway, Off, OnlyData, MigInv, MigTypes
  <2>2. CASE \A p \in M!Processes : ~M!Steps(p)
    <3>1. AtRest
      BY <2>2 DEF MigInv, RestInv
    <3> QED
      BY <1>1, <2>1, <3>1 DEF AtRest, Undoable, Recorded, OldNoted, Transactions, MigPhases, Before, During
  <2>3. ASSUME NEW p \in M!Processes, M!Steps(p) PROVE FALSE
    <3>1. PICK s, a : s = procs[p].script /\ a = Now(p)
      OBVIOUS
    <3>2. MigFits(s, a) /\ s \in Named /\ Has(s, a)
      BY <2>3, <3>1, Working DEF MigInv, WorkInv
    <3>3. CASE s \in {"prepare", "fail", "early"}
      BY <2>1, <3>2, <3>3 DEF MigFits, PrepareFits, MigFailFits, EarlyFits
    <3>4. CASE s = "rollback"
      <4>1. CASE a = "rolling_back"
        <5>1. AtRest /\ migration.phase \in Before \cup During \cup {"rolling_back"}
          BY <3>2, <3>4, <4>1 DEF MigFits, RollbackFits
        <5> QED
          BY <2>1, <5>1 DEF AtRest, Undoable, Recorded, OldNoted
      <4>2. CASE a \in {"new_off", "rm_new"}
        <5>1. Undoable
          BY <3>2, <3>4, <4>2 DEF MigFits, RollbackFits
        <5> QED
          BY <2>1, <5>1 DEF Undoable, Recorded, OldNoted
      <4>3. CASE a \in {"unit_back", "unit_on", "rm_data", "rolled_back"}
        BY <2>1, <3>2, <3>4, <4>3 DEF MigFits, RollbackFits
      <4> QED
        BY <3>2, <3>4, <4>1, <4>2, <4>3 DEF Has
    <3>5. CASE s = "switch"
      BY <2>1, <3>2, <3>5 DEF MigFits, SwitchFits, Making, Proving
    <3> QED
      BY <3>2, <3>3, <3>4, <3>5 DEF Named
  <2> QED
    BY <2>2, <2>3
<1>6. M!BackedUpFirst
  BY DEF MigInv, BackupInv, Unmade, M!BackedUpFirst
<1> QED
  BY <1>3, <1>4, <1>5, <1>6 DEF MigrationInvariant

(* Of every run of lkit migrate, with any number of crashes, reboots and     *)
(* errors: outside the two windows it ends with the managed router whole, or *)
(* with the old one as it was and nothing of the new one; the two are never  *)
(* both set to start at boot; and nothing is touched before the backup is    *)
(* recorded (migrate_legacy, rollback_migration, recover_migrate).           *)
THEOREM MigrationHolds == M!Spec => []MigrationInvariant
<1>1. MigInv /\ [M!Next]_(M!vars) => MigInv'
  BY MigrationKeeps
<1>2. M!Init => MigInv
  BY MigrationBegins
<1>3. MigInv => MigrationInvariant
  BY MigrationMeans
<1> QED
  BY <1>1, <1>2, <1>3, PTL DEF M!Spec
=============================================================================
