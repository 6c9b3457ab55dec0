--------------------------- MODULE TakeoverProofs ---------------------------
(***************************************************************************)
(* Proofs about Takeover for any set of host services and any number of    *)
(* transactions, crashes, reboots and errors: types, that a host whose     *)
(* network was taken over without a confirmation always has its rollback   *)
(* coming, and that every takeover and reinit ends one way or the other    *)
(* without a configuration being lost.                                     *)
(***************************************************************************)
EXTENDS Takeover, TLAPS

(* A command works on a transaction. *)
Typed == TypeOK /\ (job # None => tx # None)

LEMMA TypedInit == Init => Typed
<1> SUFFICES ASSUME Init PROVE Typed
  OBVIOUS
<1>1. expired \in BOOLEAN /\ current \in BOOLEAN
  BY Zenon DEF Init
<1> QED
  BY <1>1, TakeoverBounds, TakeoverNone DEF Init, Typed, TypeOK, Configs

(* The transaction file that begin writes, and the ones that record the     *)
(* takeover of a reinit, a confirmation and the router as it was found, are  *)
(* well formed.                                                              *)
LEMMA NewTxTyped ==
  ASSUME Typed, NEW kind \in {"install", "reinit"}, NextId \in Ids
  PROVE  NewTx(kind) \in TxType
<1>1. (kind = "install") \in BOOLEAN /\ FALSE \in BOOLEAN
  BY Zenon
<1>2. /\ state \in Configs /\ data \in Configs /\ stopped \in SUBSET HostServices
      /\ "unknown" \in {"unknown", "absent", "stopped", "running"} /\ "preparing" \in Phases
  BY DEF Typed, TypeOK, Phases
<1> QED
  BY <1>1, <1>2, Zenon DEF NewTx, TxType

LEMMA MarkedTyped ==
  ASSUME NEW t \in TxType
  PROVE  /\ [t EXCEPT !.net = TRUE] \in TxType
         /\ [t EXCEPT !.phase = "finalizing", !.confirmed = TRUE] \in TxType
  BY Zenon DEF TxType, Phases

LEMMA CapturedTyped ==
  ASSUME NEW t \in TxType, NEW u \in {"absent", "stopped", "running"}
  PROVE  [t EXCEPT !.unit = u] \in TxType
<1>1. u \in {"unknown", "absent", "stopped", "running"}
  OBVIOUS
<1> QED
  BY <1>1, Zenon DEF TxType

LEMMA TypedJob ==
  ASSUME Typed, JobStep
  PROVE  Typed'
<1> USE TakeoverBounds, TakeoverNone
<1> USE DEF Typed, TypeOK, TxType, Configs, Phases, Terminal, Jobs, Units, hostVars, files, units, jobVars, bounds, At, Goto, Mark, Leave, Idle, Unfinished, StartAllowed, AsFound
<1>0. CASE CaptureBefore
  <2>1. expired' \in BOOLEAN
    BY <1>0, Zenon DEF CaptureBefore
  <2>2. tx' \in TxType
    <3> DEFINE seen == IF router = "queued" THEN "stopped" ELSE router
    <3>1. tx \in TxType /\ tx' = [tx EXCEPT !.unit = seen] /\ seen \in {"absent", "stopped", "running"}
      BY <1>0 DEF CaptureBefore, Worker
    <3> HIDE DEF TxType, seen
    <3> QED
      BY <3>1, CapturedTyped
  <2> QED
    BY <1>0, <2>1, <2>2 DEF CaptureBefore
<1>1. CASE Prepare
  <2>1. expired' \in BOOLEAN /\ current' \in BOOLEAN
    BY <1>1, Zenon DEF Prepare
  <2> QED
    BY <1>1, <2>1 DEF Prepare
<1>2. CASE ArmBoot
  BY <1>2 DEF ArmBoot
<1>3. CASE ArmTimer
  BY <1>3 DEF ArmTimer
<1>4. CASE StartTimer
  BY <1>4 DEF StartTimer
<1>5. ASSUME NEW s \in HostServices, StopHost(s) PROVE Typed'
  BY <1>5 DEF StopHost
<1>6. CASE ClearLan
  BY <1>6 DEF ClearLan
<1>7. CASE ActivateCurrent
  BY <1>7 DEF ActivateCurrent
<1>8. CASE Register
  BY <1>8 DEF Register
<1>9. CASE StopRouter
  BY <1>9 DEF StopRouter
<1>10. CASE MoveDataAside
  BY <1>10 DEF MoveDataAside
<1>11. CASE StartRouter
  BY <1>11 DEF StartRouter
<1>12. CASE WritePending
  <2>1. expired' \in BOOLEAN /\ current' \in BOOLEAN
    BY <1>12, Zenon DEF WritePending
  <2>2. tx' \in TxType
    <3>1. CASE job = "install"
      BY <1>12, <3>1 DEF WritePending
    <3>2. CASE job # "install"
      <4>1. tx \in TxType /\ tx' = [tx EXCEPT !.net = TRUE]
        BY <1>12, <3>2 DEF WritePending, Worker
      <4> HIDE DEF TxType
      <4> QED
        BY <4>1, MarkedTyped
    <3> QED
      BY <3>1, <3>2
  <2> QED
    BY <1>12, <2>1, <2>2 DEF WritePending
<1>13. CASE MarkFailing
  BY <1>13 DEF MarkFailing
<1>14. CASE CleanupFirst
  <2>1. expired' \in BOOLEAN /\ current' \in BOOLEAN
    BY <1>14, Zenon DEF CleanupFirst
  <2> QED
    BY <1>14, <2>1 DEF CleanupFirst
<1>15. ASSUME NEW s \in HostServices, RestoreHost(s) PROVE Typed'
  BY <1>15 DEF RestoreHost
<1>16. CASE HostRestored
  BY <1>16 DEF HostRestored
<1>17. CASE RemoveTimer
  BY <1>17 DEF RemoveTimer
<1>18. CASE RemoveBoot
  BY <1>18 DEF RemoveBoot
<1>19. CASE MarkFailed
  BY <1>19 DEF MarkFailed
<1>20. CASE MarkReinit
  BY <1>20 DEF MarkReinit
<1>21. CASE ReinitStop
  BY <1>21 DEF ReinitStop
<1>22. CASE ReinitData
  BY <1>22 DEF ReinitData
<1>23. CASE ReinitStart
  BY <1>23 DEF ReinitStart
<1>24. CASE ReinitState
  BY <1>24 DEF ReinitState
<1>25. CASE ReinitEnd
  BY <1>25 DEF ReinitEnd
<1>26. CASE RestoreBefore
  BY <1>26 DEF RestoreBefore
<1>27. CASE CommitState
  BY <1>27 DEF CommitState
<1>28. CASE CommitTx
  BY <1>28 DEF CommitTx
<1>29. CASE CheckUncommitted
  BY <1>29 DEF CheckUncommitted
<1>30. CASE RestoreRouter
  BY <1>30 DEF RestoreRouter
<1>31. CASE CleanUncommitted
  <2>1. expired' \in BOOLEAN /\ current' \in BOOLEAN
    BY <1>31, Zenon DEF CleanUncommitted
  <2> QED
    BY <1>31, <2>1 DEF CleanUncommitted
<1>32. CASE EndRollback
  BY <1>32 DEF EndRollback
<1> QED
  BY <1>0, <1>1, <1>2, <1>3, <1>4, <1>5, <1>6, <1>7, <1>8, <1>9, <1>10, <1>11, <1>12, <1>13,
     <1>14, <1>15, <1>16, <1>17, <1>18, <1>19, <1>20, <1>21, <1>22, <1>23, <1>24, <1>25,
     <1>26, <1>27, <1>28, <1>29, <1>30, <1>31, <1>32
     DEF JobStep, WorkStep, CleanupStep, ReinitRollbackStep, NetworkStep

LEMMA TypedOther ==
  ASSUME Typed,
         \/ BeginInstall \/ BeginReinit \/ EmptyRoot \/ BeginConfirm \/ ManualRollback
         \/ (\E i \in Ids : TimerRollback(i) \/ BootRollback(i) \/ TimerFires(i))
         \/ Recover \/ Fails \/ Crash \/ Reboot \/ BootRouter \/ Expire
  PROVE  Typed'
<1> USE TakeoverBounds, TakeoverNone
<1> USE DEF Typed, TypeOK, TxType, Configs, Phases, Terminal, Jobs, Units, hostVars, files, units, jobVars, bounds, At, Goto, Mark, Leave, Idle, Unfinished, StartAllowed
<1>1. CASE BeginInstall
  <2>1. expired' \in BOOLEAN /\ current' \in BOOLEAN
    BY <1>1, Zenon DEF BeginInstall, BeginWork, NewTx, NextId
  <2>2. tx' \in TxType
    <3> HIDE DEF Typed, TxType
    <3> QED
      BY <1>1, NewTxTyped DEF BeginInstall, BeginWork
  <2> QED
    BY <1>1, <2>1, <2>2 DEF BeginInstall, BeginWork
<1>2. CASE BeginReinit
  <2>1. expired' \in BOOLEAN /\ current' \in BOOLEAN
    BY <1>2, Zenon DEF BeginReinit, BeginWork, NewTx, NextId
  <2>2. tx' \in TxType
    <3> HIDE DEF Typed, TxType
    <3> QED
      BY <1>2, NewTxTyped DEF BeginReinit, BeginWork
  <2> QED
    BY <1>2, <2>1, <2>2 DEF BeginReinit, BeginWork
<1>3. CASE EmptyRoot
  <2>1. expired' \in BOOLEAN /\ current' \in BOOLEAN
    BY <1>3, Zenon DEF EmptyRoot
  <2> QED
    BY <1>3, <2>1 DEF EmptyRoot
<1>4. CASE BeginConfirm
  <2>1. tx' \in TxType
    BY <1>4, MarkedTyped DEF BeginConfirm, Confirmable
  <2> QED
    BY <1>4, <2>1 DEF BeginConfirm
<1>5. CASE ManualRollback
  BY <1>5 DEF ManualRollback, BeginRollback
<1>6. ASSUME NEW i \in Ids, TimerRollback(i) PROVE Typed'
  BY <1>6 DEF TimerRollback, BeginRollback
<1>7. ASSUME NEW i \in Ids, BootRollback(i) PROVE Typed'
  BY <1>7 DEF BootRollback, BeginRollback
<1>8. ASSUME NEW i \in Ids, TimerFires(i) PROVE Typed'
  BY <1>8 DEF TimerFires
<1>9. CASE Recover
  BY <1>9 DEF Recover, RecoverPlan, Recoverable
<1>10. CASE Fails
  BY <1>10 DEF Fails
<1>11. CASE Crash
  BY <1>11 DEF Crash
<1>12. CASE Reboot
  BY <1>12 DEF Reboot
<1>13. CASE BootRouter
  BY <1>13 DEF BootRouter
<1>14. CASE Expire
  BY <1>14 DEF Expire
<1> QED
  BY <1>1, <1>2, <1>3, <1>4, <1>5, <1>6, <1>7, <1>8, <1>9, <1>10, <1>11, <1>12, <1>13,
     <1>14

LEMMA TypedStep == Typed /\ [Next]_vars => Typed'
<1> SUFFICES ASSUME Typed, [Next]_vars PROVE Typed'
  OBVIOUS
<1>1. CASE UNCHANGED vars
  BY <1>1 DEF Typed, TypeOK, vars, hostVars, files, units, jobVars, bounds
<1>2. CASE Next
  BY <1>2, TypedJob, TypedOther DEF Next
<1> QED
  BY <1>1, <1>2

(* Every reachable state of takeovers and reinits, whatever commands, units,*)
(* crashes and reboots interleave, is well typed.                           *)
THEOREM TakeoverTypes == Spec => []TypeOK
<1>1. Typed => TypeOK
  BY DEF Typed
<1> QED
  BY TypedInit, TypedStep, <1>1, PTL DEF Spec

-----------------------------------------------------------------------------
(* The timer of tx is enabled, and it runs or has fired. *)
TimerSet == <<tx.id, "timer">> \in armed /\ tx.id \in ticking \cup due

(* ReturnPath with the enabled timer a reboot needs, and where the commands *)
(* are: an installation stops host services only with its timer set, the    *)
(* units go only when the services are back, when a confirm has begun or    *)
(* when the transaction is a reinit, which stops none.                      *)
WayBack ==
  /\ Unfinished /\ tx.kind = "install" /\ ~tx.confirmed /\ ~(stopped \subseteq tx.before) => TimerSet
  /\ job = "install" /\ pc \in {"stop_host", "link", "register", "start", "pending"} => TimerSet
  /\ job = "install" /\ pc = "start_timer" => <<tx.id, "timer">> \in armed
  /\ job \in {"install", "reinit"} => tx.kind = job
  /\ job # None /\ tx.kind = "install" => tx.phase \notin Terminal
  /\ pc \in {"b_mark", "b_stop", "b_data", "b_start", "b_state", "b_end"} => tx.kind = "reinit"
  /\ pc \in {"f_timer", "f_boot", "x_timer", "x_boot"} /\ tx.kind = "install" => stopped \subseteq tx.before
  /\ pc \in {"c_timer", "c_boot", "c_state", "c_end"} => tx.confirmed

LEMMA WayBackInit == Init => WayBack
  BY TakeoverNone DEF Init, WayBack, Unfinished, Jobs

LEMMA WayBackJob ==
  ASSUME Typed, WayBack, JobStep
  PROVE  WayBack'
<1> USE TakeoverNone DEF Typed, TypeOK, TxType, Jobs, WayBack, TimerSet,
        hostVars, files, units, jobVars, bounds, At, Goto, Mark, Leave, Idle, Unfinished, Terminal
<1>0. CASE CaptureBefore
  BY <1>0 DEF CaptureBefore, Worker
<1>1. CASE Prepare
  BY <1>1 DEF Prepare, Worker
<1>2. CASE ArmBoot
  BY <1>2 DEF ArmBoot, Worker
<1>3. CASE ArmTimer
  BY <1>3 DEF ArmTimer, Worker
<1>4. CASE StartTimer
  BY <1>4 DEF StartTimer, Worker
<1>5. ASSUME NEW s \in HostServices, StopHost(s) PROVE WayBack'
  BY <1>5 DEF StopHost
<1>6. CASE ClearLan
  BY <1>6 DEF ClearLan
<1>7. CASE ActivateCurrent
  BY <1>7 DEF ActivateCurrent
<1>8. CASE Register
  BY <1>8 DEF Register
<1>9. CASE StopRouter
  BY <1>9 DEF StopRouter
<1>10. CASE MoveDataAside
  BY <1>10 DEF MoveDataAside
<1>11. CASE StartRouter
  BY <1>11 DEF StartRouter, Worker
<1>12. CASE WritePending
  BY <1>12 DEF WritePending, Worker
<1>13. CASE MarkFailing
  BY <1>13 DEF MarkFailing
<1>14. CASE CleanupFirst
  BY <1>14 DEF CleanupFirst
<1>15. ASSUME NEW s \in HostServices, RestoreHost(s) PROVE WayBack'
  BY <1>15 DEF RestoreHost
<1>16. CASE HostRestored
  BY <1>16 DEF HostRestored
<1>17. CASE RemoveTimer
  BY <1>17 DEF RemoveTimer
<1>18. CASE RemoveBoot
  BY <1>18 DEF RemoveBoot
<1>19. CASE MarkFailed
  BY <1>19 DEF MarkFailed
<1>20. CASE MarkReinit
  BY <1>20 DEF MarkReinit
<1>21. CASE ReinitStop
  BY <1>21 DEF ReinitStop
<1>22. CASE ReinitData
  BY <1>22 DEF ReinitData
<1>23. CASE ReinitStart
  BY <1>23 DEF ReinitStart
<1>24. CASE ReinitState
  BY <1>24 DEF ReinitState
<1>25. CASE ReinitEnd
  BY <1>25 DEF ReinitEnd
<1>26. CASE RestoreBefore
  BY <1>26 DEF RestoreBefore
<1>27. CASE CommitState
  BY <1>27 DEF CommitState
<1>28. CASE CommitTx
  BY <1>28 DEF CommitTx
<1>29. CASE CheckUncommitted
  BY <1>29 DEF CheckUncommitted
<1>30. CASE RestoreRouter
  BY <1>30 DEF RestoreRouter
<1>31. CASE CleanUncommitted
  BY <1>31 DEF CleanUncommitted
<1>32. CASE EndRollback
  BY <1>32 DEF EndRollback
<1> QED
  BY <1>0, <1>1, <1>2, <1>3, <1>4, <1>5, <1>6, <1>7, <1>8, <1>9, <1>10, <1>11, <1>12, <1>13,
     <1>14, <1>15, <1>16, <1>17, <1>18, <1>19, <1>20, <1>21, <1>22, <1>23, <1>24, <1>25,
     <1>26, <1>27, <1>28, <1>29, <1>30, <1>31, <1>32
     DEF JobStep, WorkStep, CleanupStep, ReinitRollbackStep, NetworkStep

LEMMA WayBackOther ==
  ASSUME Typed, WayBack,
         \/ BeginInstall \/ BeginReinit \/ EmptyRoot \/ BeginConfirm \/ ManualRollback
         \/ (\E i \in Ids : TimerRollback(i) \/ BootRollback(i) \/ TimerFires(i))
         \/ Recover \/ Fails \/ Crash \/ Reboot \/ BootRouter \/ Expire
  PROVE  WayBack'
<1> USE TakeoverNone DEF Typed, TypeOK, TxType, Jobs, WayBack, TimerSet,
        hostVars, files, units, jobVars, bounds, At, Goto, Mark, Leave, Idle, Unfinished, Terminal
<1>1. CASE BeginInstall
  BY <1>1 DEF BeginInstall, BeginWork, NewTx, NextId
<1>2. CASE BeginReinit
  BY <1>2 DEF BeginReinit, BeginWork, NewTx, NextId
<1>3. CASE EmptyRoot
  BY <1>3 DEF EmptyRoot
<1>4. CASE BeginConfirm
  BY <1>4 DEF BeginConfirm, Confirmable
<1>5. CASE ManualRollback
  BY <1>5 DEF ManualRollback, BeginRollback
<1>6. ASSUME NEW i \in Ids, TimerRollback(i) PROVE WayBack'
  BY <1>6 DEF TimerRollback, BeginRollback
<1>7. ASSUME NEW i \in Ids, BootRollback(i) PROVE WayBack'
  BY <1>7 DEF BootRollback, BeginRollback
<1>8. ASSUME NEW i \in Ids, TimerFires(i) PROVE WayBack'
  BY <1>8 DEF TimerFires
<1>9. CASE Recover
  <2>1. tx \in TxType
    BY <1>9 DEF Recover, Recoverable
  <2>2. CASE tx.kind = "install"
    <3>1. pc' = "f_first"
      BY <1>9, <2>2 DEF Recover, RecoverPlan
    <3> QED
      BY <1>9, <2>2, <3>1 DEF Recover, Recoverable
  <2>3. CASE tx.kind = "reinit"
    <3>1. tx.phase \in {"preparing", "prepared", "stopping", "activating", "verifying"}
      BY <1>9, <2>1, <2>3 DEF Recover, Recoverable, Phases
    <3>2. pc' \in {"f_end", "n_restore", "b_mark"}
      BY <1>9, <2>3, <3>1 DEF Recover, RecoverPlan
    <3> QED
      BY <1>9, <2>3, <3>2 DEF Recover, Recoverable
  <2> QED
    BY <2>1, <2>2, <2>3
<1>10. CASE Fails
  BY <1>10 DEF Fails, CleanupSteps
<1>11. CASE Crash
  BY <1>11 DEF Crash
<1>12. CASE Reboot
  BY <1>12 DEF Reboot
<1>13. CASE BootRouter
  BY <1>13 DEF BootRouter
<1>14. CASE Expire
  BY <1>14 DEF Expire
<1> QED
  BY <1>1, <1>2, <1>3, <1>4, <1>5, <1>6, <1>7, <1>8, <1>9, <1>10, <1>11, <1>12, <1>13,
     <1>14

LEMMA WayBackStep == Typed /\ WayBack /\ [Next]_vars => WayBack'
<1> SUFFICES ASSUME Typed, WayBack, [Next]_vars PROVE WayBack'
  OBVIOUS
<1>1. CASE UNCHANGED vars
  BY <1>1 DEF WayBack, TimerSet, Unfinished, vars, hostVars, files, units, jobVars, bounds
<1>2. CASE Next
  BY <1>2, WayBackJob, WayBackOther DEF Next
<1> QED
  BY <1>1, <1>2

(* While an unconfirmed takeover keeps host services off, its rollback is on *)
(* its way: no crash, reboot, failing call or command in between leaves the  *)
(* host without network and without a running timer (arm_recovery before    *)
(* stop_host_services, restore_host_service before remove_recovery_units).   *)
THEOREM HostAlwaysHasAWayBack == Spec => []ReturnPath
<1>1. WayBack => ReturnPath
  BY DEF WayBack, ReturnPath, TimerSet
<1> QED
  BY TypedInit, TypedStep, WayBackInit, WayBackStep, <1>1, PTL DEF Spec

-----------------------------------------------------------------------------
(* How transactions end *)

Restoring == {"b_stop", "b_data", "b_start", "b_state", "b_end"}
Removing == {"x_timer", "x_boot", "x_end"}
Undoing == {"x_router", "x_host", "x_timer", "x_boot", "x_clean", "x_end"}
Arming == {"arm_boot", "arm_timer", "start_timer"}

(* Which transaction a command works on, and the phase it finds it in. *)
PhaseInv ==
  /\ tx # None /\ tx.kind = "install" => tx.net
  /\ job # None /\ pc \notin Removing => tx.phase \notin Terminal
  /\ job \in Worker =>
       tx.kind = job /\ tx.phase \notin {"awaiting", "finalizing"} \cup Terminal
  /\ pc \in CleanupSteps \ {"f_end"} =>
       tx.kind = "install" /\ tx.phase \notin {"awaiting", "finalizing"}
  /\ pc = "b_mark" => tx.kind = "reinit"
  /\ pc \in Restoring => tx.kind = "reinit" /\ tx.phase = "rolling_back"
  /\ pc \in {"x_check", "x_router", "x_host", "x_clean"} =>
       tx.kind = "install" /\ tx.phase = "rolling_back"
  /\ pc \in Removing =>
       tx.phase = IF tx.kind = "install" THEN "rolling_back" ELSE "rolled_back"
  /\ pc \in {"c_timer", "c_boot", "c_state", "c_end"} => tx.phase = "finalizing"

(* What a reinit found is in data/, or in its previous-data/ from the move   *)
(* to the move back; the directories of later transactions do not exist yet. *)
FoundInv ==
  /\ \A j \in Ids : (tx # None => j > tx.id) => previous[j] = None
  /\ tx # None /\ tx.kind = "reinit" =>
       /\ tx.had # None /\ tx.from # None /\ state # None /\ stopped = HostServices
       /\ IF previous[tx.id] # None THEN previous[tx.id] = tx.had ELSE data = tx.had
       /\ tx.phase = "rolled_back" => previous[tx.id] = None /\ state = tx.from
  /\ job = "reinit" /\ pc \in {"prepare", "captured", "stop_router", "move_data"}
       => previous[tx.id] = None
  /\ job = "reinit" /\ pc = "start" => previous[tx.id] # None
  /\ pc \in {"b_start", "b_state", "b_end"} => previous[tx.id] = None
  /\ pc = "b_end" => state = tx.from
  /\ state # None => data # None

(* What can be confirmed is complete. *)
ReadyInv ==
  /\ tx # None /\ tx.phase \in {"awaiting", "finalizing"} =>
       pending = tx.id /\ data = tx.id /\ stopped = HostServices
  /\ job = "install" /\ pc \in {"link", "register", "start", "pending"}
       => stopped = HostServices
  /\ job \in Worker /\ pc = "pending" => data = tx.id
  /\ job = "reinit" /\ pc \in Arming => data = tx.id /\ pending = tx.id
  /\ pc = "c_end" => state = tx.id

(* The recovery units go one after the other. *)
UnitsInv ==
  /\ pc \in {"c_boot", "x_boot"} => <<tx.id, "timer">> \notin armed
  /\ pc \in {"c_state", "c_end", "x_clean", "x_end"} => UnitsOf(tx.id) = {}

(* What the rollback of an installation has undone so far. *)
UndoneInv ==
  tx # None /\ tx.kind = "install" =>
    /\ pc \in Undoing => state = None
    /\ pc \in Undoing \ {"x_router"} /\ tx.unit = "absent" => router = "absent"
    /\ pc \in Undoing \ {"x_router", "x_host"} => stopped \subseteq tx.before
    /\ pc = "x_end" => pending = None /\ data = None /\ ~current

EndInv == PhaseInv /\ FoundInv /\ ReadyInv /\ UnitsInv /\ UndoneInv /\ EndsOneWay

(* mark_phase, recording a reinit's takeover and a confirmation leave the    *)
(* other fields of the transaction file alone.                               *)
LEMMA MarkedFields ==
  ASSUME NEW t \in TxType, NEW p \in Phases
  PROVE  \A u \in {[t EXCEPT !.phase = p], [t EXCEPT !.net = TRUE],
                   [t EXCEPT !.phase = p, !.confirmed = TRUE]} :
           /\ u \in TxType
           /\ u.id = t.id /\ u.kind = t.kind /\ u.from = t.from /\ u.had = t.had
           /\ u.unit = t.unit /\ u.before = t.before
           /\ u.phase \in {t.phase, p} /\ (t.net => u.net)
  BY Zenon DEF TxType

(* After mark_phase the file shows that phase. *)
LEMMA MarkedPhase ==
  ASSUME NEW t \in TxType, NEW p \in Phases
  PROVE  /\ [t EXCEPT !.phase = p].phase = p
         /\ [t EXCEPT !.phase = p, !.confirmed = TRUE].phase = p
         /\ [t EXCEPT !.net = TRUE].phase = t.phase
  BY Zenon DEF TxType

(* What TypeOK says of the fields of a transaction file that is there. *)
LEMMA TxFields ==
  ASSUME Typed, tx # None
  PROVE  /\ tx \in TxType /\ tx.id \in Ids /\ tx.kind \in {"install", "reinit"}
         /\ tx.phase \in Phases /\ tx.from \in Configs /\ tx.had \in Configs
         /\ tx.before \subseteq HostServices
  BY DEF Typed, TypeOK, TxType

(* A step that records something in the transaction file. *)
SameFile ==
  /\ tx # None /\ tx' # None
  /\ tx'.id = tx.id /\ tx'.kind = tx.kind /\ tx'.from = tx.from
  /\ tx'.had = tx.had /\ tx'.unit = tx.unit /\ tx'.before = tx.before
  /\ tx.net => tx'.net

LEMMA MarkKeeps ==
  ASSUME Typed, tx # None, NEW p \in Phases, Mark(p)
  PROVE  SameFile /\ tx'.phase = p
<1>1. tx \in TxType /\ tx' = [tx EXCEPT !.phase = p]
  BY TxFields DEF Mark
<1>2. tx' \in TxType /\ tx'.phase = p
  BY <1>1, MarkedFields, MarkedPhase, Zenon
<1>3. tx'.id = tx.id /\ tx'.kind = tx.kind /\ tx'.from = tx.from
  BY <1>1, MarkedFields, Zenon
<1>4. tx'.had = tx.had /\ tx'.unit = tx.unit /\ tx'.before = tx.before
  BY <1>1, MarkedFields, ZenonT(40)
<1>5. tx.net => tx'.net
  BY <1>1, MarkedFields, Zenon
<1>6. tx' # None
  BY <1>2, TakeoverNone, Zenon
<1> QED
  BY <1>2, <1>3, <1>4, <1>5, <1>6 DEF SameFile

LEMMA NetKeeps ==
  ASSUME tx \in TxType, tx' = [tx EXCEPT !.net = TRUE]
  PROVE  SameFile /\ tx'.phase = tx.phase
<1>1. "failed" \in Phases
  BY DEF Phases, Terminal
<1>2. tx' \in TxType /\ tx'.phase = tx.phase
  BY <1>1, MarkedFields, MarkedPhase, Zenon
<1>3. /\ tx'.id = tx.id /\ tx'.kind = tx.kind /\ tx'.from = tx.from
      /\ tx'.had = tx.had /\ tx'.unit = tx.unit /\ tx'.before = tx.before
      /\ tx.net => tx'.net
  BY <1>1, MarkedFields, Zenon
<1>4. tx # None /\ tx' # None
  BY <1>2, TakeoverNone, Zenon
<1> QED
  BY <1>2, <1>3, <1>4 DEF SameFile

(* capture_before records the router and nothing else. *)
LEMMA UnitKeeps ==
  ASSUME tx \in TxType, NEW u \in {"absent", "stopped", "running"}, tx' = [tx EXCEPT !.unit = u]
  PROVE  /\ tx' # None /\ tx'.id = tx.id /\ tx'.kind = tx.kind /\ tx'.from = tx.from
         /\ tx'.had = tx.had /\ tx'.before = tx.before /\ tx'.phase = tx.phase
         /\ tx.net => tx'.net
<1>1. tx' \in TxType
  BY CapturedTyped
<1>2. tx' # None
  BY <1>1, TakeoverNone, Zenon
<1> QED
  BY <1>2 DEF TxType

LEMMA EndJob ==
  ASSUME Typed, EndInv, JobStep
  PROVE  EndInv'
<1>0. tx # None =>
        /\ tx \in TxType /\ tx.id \in Ids /\ tx.kind \in {"install", "reinit"}
        /\ tx.phase \in Phases /\ tx.from \in Configs /\ tx.had \in Configs
        /\ tx.before \subseteq HostServices
  BY TxFields
<1> USE <1>0, TakeoverNone DEF Typed, TypeOK, Jobs, EndInv, PhaseInv, FoundInv, ReadyInv,
        UnitsInv, UndoneInv, EndsOneWay, UnitsOf, Restoring, Removing, Undoing, Arming,
        CleanupSteps, Worker, hostVars, files, units, jobVars, bounds, At, Goto,
        Leave, Idle, SameFile, Terminal, Configs, Ids, Units, AsFound
<1>c. CASE CaptureBefore
  <2> DEFINE seen == IF router = "queued" THEN "stopped" ELSE router
  <2>1. tx # None /\ tx' = [tx EXCEPT !.unit = seen] /\ seen \in {"absent", "stopped", "running"}
    BY <1>c DEF CaptureBefore
  <2> HIDE DEF seen
  <2>2. /\ tx' # None /\ tx'.id = tx.id /\ tx'.kind = tx.kind /\ tx'.from = tx.from
        /\ tx'.had = tx.had /\ tx'.before = tx.before /\ tx'.phase = tx.phase
        /\ tx.net => tx'.net
    BY <2>1, <1>0, UnitKeeps
  <2> QED
    BY <1>c, <2>1, <2>2 DEF CaptureBefore
<1>1. CASE Prepare
  <2>1. tx # None /\ Mark("prepared")
    BY <1>1 DEF Prepare
  <2>2. SameFile /\ tx'.phase = "prepared"
    BY <2>1, MarkKeeps DEF Phases
  <2> QED
    BY <1>1, <2>1, <2>2 DEF Prepare
<1>2. CASE ArmBoot
  BY <1>2 DEF ArmBoot
<1>3. CASE ArmTimer
  BY <1>3 DEF ArmTimer
<1>4. CASE StartTimer
  <2>1. CASE job = "install"
    <3>1. tx # None /\ Mark("stopping")
      BY <1>4, <2>1 DEF StartTimer
    <3>2. SameFile /\ tx'.phase = "stopping"
      BY <3>1, MarkKeeps DEF Phases
    <3> QED
      BY <1>4, <2>1, <3>1, <3>2 DEF StartTimer
  <2>2. CASE job # "install"
    <3>1. tx # None /\ Mark("awaiting")
      BY <1>4, <2>2 DEF StartTimer
    <3>2. SameFile /\ tx'.phase = "awaiting"
      BY <3>1, MarkKeeps DEF Phases
    <3> QED
      BY <1>4, <2>2, <3>1, <3>2 DEF StartTimer
  <2> QED
    BY <2>1, <2>2
<1>5. ASSUME NEW s \in HostServices, StopHost(s) PROVE EndInv'
  BY <1>5 DEF StopHost
<1>6. CASE ClearLan
  <2>1. tx # None /\ Mark("activating")
    BY <1>6 DEF ClearLan
  <2>2. SameFile /\ tx'.phase = "activating"
    BY <2>1, MarkKeeps DEF Phases
  <2> QED
    BY <1>6, <2>1, <2>2 DEF ClearLan
<1>7. CASE ActivateCurrent
  BY <1>7 DEF ActivateCurrent
<1>8. CASE Register
  BY <1>8 DEF Register
<1>9. CASE StopRouter
  <2>1. CASE tx.phase = "prepared"
    <3>1. tx # None /\ Mark("stopping")
      BY <1>9, <2>1 DEF StopRouter
    <3>2. SameFile /\ tx'.phase = "stopping"
      BY <3>1, MarkKeeps DEF Phases
    <3> QED
      BY <1>9, <2>1, <3>1, <3>2 DEF StopRouter
  <2>2. CASE tx.phase # "prepared"
    <3>1. tx # None /\ Mark("activating")
      BY <1>9, <2>2 DEF StopRouter
    <3>2. SameFile /\ tx'.phase = "activating"
      BY <3>1, MarkKeeps DEF Phases
    <3> QED
      BY <1>9, <2>2, <3>1, <3>2 DEF StopRouter
  <2> QED
    BY <2>1, <2>2
<1>10. CASE MoveDataAside
  BY <1>10 DEF MoveDataAside
<1>11. CASE StartRouter
  <2>1. tx # None /\ Mark("verifying")
    BY <1>11 DEF StartRouter
  <2>2. SameFile /\ tx'.phase = "verifying"
    BY <2>1, MarkKeeps DEF Phases
  <2> QED
    BY <1>11, <2>1, <2>2 DEF StartRouter
<1>12. CASE WritePending
  <2>1. CASE job = "install"
    <3>1. tx # None /\ Mark("awaiting")
      BY <1>12, <2>1 DEF WritePending
    <3>2. SameFile /\ tx'.phase = "awaiting"
      BY <3>1, MarkKeeps DEF Phases
    <3> QED
      BY <1>12, <2>1, <3>1, <3>2 DEF WritePending
  <2>2. CASE job # "install"
    <3>1. tx \in TxType /\ tx' = [tx EXCEPT !.net = TRUE]
      BY <1>12, <2>2 DEF WritePending
    <3>2. SameFile /\ tx'.phase = tx.phase
      BY <3>1, NetKeeps
    <3> QED
      BY <1>12, <2>2, <3>1, <3>2 DEF WritePending
  <2> QED
    BY <2>1, <2>2
<1>13. CASE MarkFailing
  <2>1. tx # None /\ Mark("rolling_back")
    BY <1>13 DEF MarkFailing
  <2>2. SameFile /\ tx'.phase = "rolling_back"
    BY <2>1, MarkKeeps DEF Phases
  <2> QED
    BY <1>13, <2>1, <2>2 DEF MarkFailing
<1>14. CASE CleanupFirst
  BY <1>14 DEF CleanupFirst
<1>15. ASSUME NEW s \in HostServices, RestoreHost(s) PROVE EndInv'
  BY <1>15 DEF RestoreHost
<1>16. CASE HostRestored
  BY <1>16 DEF HostRestored
<1>17. CASE RemoveTimer
  BY <1>17 DEF RemoveTimer
<1>18. CASE RemoveBoot
  BY <1>18 DEF RemoveBoot
<1>19. CASE MarkFailed
  <2>1. tx # None /\ Mark("failed")
    BY <1>19 DEF MarkFailed
  <2>2. SameFile /\ tx'.phase = "failed"
    BY <2>1, MarkKeeps DEF Phases
  <2> QED
    BY <1>19, <2>1, <2>2 DEF MarkFailed
<1>20. CASE MarkReinit
  <2>1. tx # None /\ Mark("rolling_back")
    BY <1>20 DEF MarkReinit
  <2>2. SameFile /\ tx'.phase = "rolling_back"
    BY <2>1, MarkKeeps DEF Phases
  <2> QED
    BY <1>20, <2>1, <2>2 DEF MarkReinit
<1>21. CASE ReinitStop
  BY <1>21 DEF ReinitStop
<1>22. CASE ReinitData
  BY <1>22 DEF ReinitData
<1>23. CASE ReinitStart
  BY <1>23 DEF ReinitStart
<1>24. CASE ReinitState
  BY <1>24 DEF ReinitState
<1>25. CASE ReinitEnd
  <2>1. tx # None /\ Mark("rolled_back")
    BY <1>25 DEF ReinitEnd
  <2>2. SameFile /\ tx'.phase = "rolled_back"
    BY <2>1, MarkKeeps DEF Phases
  <2> QED
    BY <1>25, <2>1, <2>2 DEF ReinitEnd
<1>26. CASE RestoreBefore
  <2>1. tx # None /\ Mark("failed")
    BY <1>26 DEF RestoreBefore
  <2>2. SameFile /\ tx'.phase = "failed"
    BY <2>1, MarkKeeps DEF Phases
  <2> QED
    BY <1>26, <2>1, <2>2 DEF RestoreBefore
<1>27. CASE CommitState
  BY <1>27 DEF CommitState
<1>28. CASE CommitTx
  <2>1. tx # None /\ Mark("committed")
    BY <1>28 DEF CommitTx
  <2>2. SameFile /\ tx'.phase = "committed"
    BY <2>1, MarkKeeps DEF Phases
  <2> QED
    BY <1>28, <2>1, <2>2 DEF CommitTx
<1>29. CASE CheckUncommitted
  <2>1. CASE state = None
    BY <1>29, <2>1 DEF CheckUncommitted
  <2>2. CASE state # None
    <3>1. tx # None /\ Mark("failed")
      BY <1>29, <2>2 DEF CheckUncommitted
    <3>2. SameFile /\ tx'.phase = "failed"
      BY <3>1, MarkKeeps DEF Phases
    <3> QED
      BY <1>29, <2>2, <3>1, <3>2 DEF CheckUncommitted
  <2> QED
    BY <2>1, <2>2
<1>30. CASE RestoreRouter
  BY <1>30 DEF RestoreRouter
<1>31. CASE CleanUncommitted
  BY <1>31 DEF CleanUncommitted
<1>32. CASE EndRollback
  <2>1. tx # None /\ Mark("rolled_back")
    BY <1>32 DEF EndRollback
  <2>2. SameFile /\ tx'.phase = "rolled_back"
    BY <2>1, MarkKeeps DEF Phases
  <2> QED
    BY <1>32, <2>1, <2>2 DEF EndRollback
<1> QED
  BY <1>c, <1>1, <1>2, <1>3, <1>4, <1>5, <1>6, <1>7, <1>8, <1>9, <1>10, <1>11, <1>12, <1>13,
     <1>14, <1>15, <1>16, <1>17, <1>18, <1>19, <1>20, <1>21, <1>22, <1>23, <1>24, <1>25,
     <1>26, <1>27, <1>28, <1>29, <1>30, <1>31, <1>32
     DEF JobStep, WorkStep, CleanupStep, ReinitRollbackStep, NetworkStep

(* A command that begins writes a new transaction file. *)
LEMMA NewTxFields ==
  ASSUME NEW kind \in {"install", "reinit"}, NewTx(kind) \in TxType, tx' = NewTx(kind)
  PROVE  /\ tx' # None /\ tx'.id = NextId /\ tx'.kind = kind /\ tx'.net = (kind = "install")
         /\ tx'.phase = "preparing"
         /\ tx'.from = state /\ tx'.had = data /\ tx'.unit = "unknown" /\ tx'.before = stopped
<1>1. /\ tx'.id = NextId /\ tx'.kind = kind /\ tx'.net = (kind = "install")
      /\ tx'.phase = "preparing"
      /\ tx'.from = state /\ tx'.had = data /\ tx'.unit = "unknown" /\ tx'.before = stopped
  BY Zenon DEF NewTx
<1> QED
  BY <1>1, TakeoverNone, Zenon

LEMMA ConfirmKeeps ==
  ASSUME tx \in TxType, tx' = [tx EXCEPT !.phase = "finalizing", !.confirmed = TRUE]
  PROVE  SameFile /\ tx'.phase = "finalizing"
<1>1. "finalizing" \in Phases
  BY DEF Phases
<1>2. tx' \in TxType /\ tx'.phase = "finalizing"
  BY <1>1, MarkedFields, MarkedPhase, Zenon
<1>3. /\ tx'.id = tx.id /\ tx'.kind = tx.kind /\ tx'.from = tx.from
      /\ tx'.had = tx.had /\ tx'.unit = tx.unit /\ tx'.before = tx.before
      /\ tx.net => tx'.net
  BY <1>1, MarkedFields, Zenon
<1>4. tx # None /\ tx' # None
  BY <1>2, TakeoverNone, Zenon
<1> QED
  BY <1>2, <1>3, <1>4 DEF SameFile

LEMMA EndOther ==
  ASSUME Typed, EndInv,
         \/ BeginInstall \/ BeginReinit \/ EmptyRoot \/ BeginConfirm \/ ManualRollback
         \/ (\E i \in Ids : TimerRollback(i) \/ BootRollback(i) \/ TimerFires(i))
         \/ Recover \/ Fails \/ Crash \/ Reboot \/ BootRouter \/ Expire
  PROVE  EndInv'
<1>0. tx # None =>
        /\ tx \in TxType /\ tx.id \in Ids /\ tx.kind \in {"install", "reinit"}
        /\ tx.phase \in Phases /\ tx.from \in Configs /\ tx.had \in Configs
        /\ tx.before \subseteq HostServices
  BY TxFields
<1>b. ASSUME NEW unit, BeginRollback(unit), UNCHANGED <<hostVars, files, armed>>
      PROVE  EndInv'
  <2>1. tx # None /\ Mark("rolling_back")
    BY <1>b DEF BeginRollback, Unfinished
  <2>2. SameFile /\ tx'.phase = "rolling_back"
    BY <2>1, MarkKeeps DEF Phases
  <2> QED
    BY <1>0, <1>b, <2>1, <2>2, TakeoverNone
    DEF BeginRollback, Typed, TypeOK, Jobs, EndInv, PhaseInv, FoundInv, ReadyInv,
        UnitsInv, UndoneInv, EndsOneWay, UnitsOf, Restoring, Removing, Undoing, Arming,
        CleanupSteps, Worker, hostVars, files, Idle, SameFile, Terminal, Configs, Ids, Units
<1> USE <1>0, TakeoverNone DEF Typed, TypeOK, Jobs, EndInv, PhaseInv, FoundInv, ReadyInv,
        UnitsInv, UndoneInv, EndsOneWay, UnitsOf, Restoring, Removing, Undoing, Arming,
        CleanupSteps, Worker, hostVars, files, units, jobVars, bounds, At, Goto,
        Leave, Idle, SameFile, Terminal, Configs, Ids, Units
<1>1. CASE BeginInstall
  <2>1. tx' = NewTx("install") /\ NewTx("install") \in TxType
    BY <1>1, NewTxTyped DEF BeginInstall, BeginWork
  <2>2. /\ tx' # None /\ tx'.id = NextId /\ tx'.kind = "install" /\ tx'.net
        /\ tx'.phase = "preparing"
        /\ tx'.from = state /\ tx'.had = data /\ tx'.unit = "unknown" /\ tx'.before = stopped
    BY <2>1, NewTxFields
  <2> QED
    BY <1>1, <2>2, TakeoverBounds DEF BeginInstall, BeginWork, NextId
<1>2. CASE BeginReinit
  <2>1. tx' = NewTx("reinit") /\ NewTx("reinit") \in TxType
    BY <1>2, NewTxTyped DEF BeginReinit, BeginWork
  <2>2. /\ tx' # None /\ tx'.id = NextId /\ tx'.kind = "reinit"
        /\ tx'.phase = "preparing"
        /\ tx'.from = state /\ tx'.had = data /\ tx'.unit = "unknown" /\ tx'.before = stopped
    BY <2>1, NewTxFields
  <2> QED
    BY <1>2, <2>2, TakeoverBounds DEF BeginReinit, BeginWork, NextId
<1>3. CASE EmptyRoot
  BY <1>3 DEF EmptyRoot, Unfinished
<1>4. CASE BeginConfirm
  <2>1. tx \in TxType /\ tx' = [tx EXCEPT !.phase = "finalizing", !.confirmed = TRUE]
    BY <1>4 DEF BeginConfirm, Confirmable, Unfinished
  <2>2. SameFile /\ tx'.phase = "finalizing"
    BY <2>1, ConfirmKeeps
  <2> QED
    BY <1>4, <2>1, <2>2 DEF BeginConfirm, Confirmable
<1>5. CASE ManualRollback
  BY <1>5, <1>b DEF ManualRollback
<1>6. ASSUME NEW i \in Ids, TimerRollback(i) PROVE EndInv'
  BY <1>6, <1>b DEF TimerRollback
<1>7. ASSUME NEW i \in Ids, BootRollback(i) PROVE EndInv'
  <2>1. CASE BeginRollback(<<i, "boot">>)
    BY <1>7, <1>b, <2>1 DEF BootRollback
  <2>2. CASE UNCHANGED <<tx, jobVars>>
    BY <1>7, <2>2 DEF BootRollback
  <2> QED
    BY <1>7, <2>1, <2>2 DEF BootRollback
<1>8. ASSUME NEW i \in Ids, TimerFires(i) PROVE EndInv'
  BY <1>8 DEF TimerFires
<1>9. CASE Recover
  <2>1. tx # None
    BY <1>9 DEF Recover, Recoverable, Unfinished
  <2>2. CASE tx.kind = "install"
    <3>1. pc' = "f_first"
      BY <1>9, <2>2 DEF Recover, RecoverPlan
    <3> QED
      BY <1>9, <2>1, <2>2, <3>1 DEF Recover, Recoverable, Unfinished
  <2>3. CASE tx.kind = "reinit"
    <3>1. tx.phase \in {"preparing", "prepared", "stopping", "activating", "verifying"}
      BY <1>9, <2>1, <2>3 DEF Recover, Recoverable, Phases, Unfinished
    <3>2. pc' \in {"f_end", "n_restore", "b_mark"}
      BY <1>9, <2>3, <3>1 DEF Recover, RecoverPlan
    <3> QED
      BY <1>9, <2>1, <2>3, <3>1, <3>2 DEF Recover
  <2> QED
    BY <2>1, <2>2, <2>3
<1>10. CASE Fails
  <2>1. /\ tx # None /\ UNCHANGED <<hostVars, files, units>>
        /\ \/ job = "install" /\ Goto("f_mark") /\ UNCHANGED tx
           \/ job = "reinit" /\ Goto("n_restore") /\ UNCHANGED tx
           \/ job = "reinit" /\ Goto("b_mark") /\ UNCHANGED tx
           \/ Leave /\ Mark("failed")
           \/ Leave /\ UNCHANGED tx
    BY <1>10, Zenon DEF Fails
  <2>2. CASE Goto("f_mark") /\ job = "install" /\ UNCHANGED tx
    BY <2>1, <2>2
  <2>3. CASE (Goto("n_restore") \/ Goto("b_mark")) /\ job = "reinit" /\ UNCHANGED tx
    BY <2>1, <2>3
  <2>4. CASE Leave /\ Mark("failed")
    <3>1. SameFile /\ tx'.phase = "failed"
      BY <2>1, <2>4, MarkKeeps DEF Phases
    <3> QED
      BY <2>1, <2>4, <3>1
  <2>5. CASE Leave /\ UNCHANGED tx
    BY <2>1, <2>5
  <2> QED
    BY <2>1, <2>2, <2>3, <2>4, <2>5
<1>11. CASE Crash
  BY <1>11 DEF Crash
<1>12. CASE Reboot
  BY <1>12 DEF Reboot
<1>13. CASE BootRouter
  BY <1>13 DEF BootRouter
<1>14. CASE Expire
  BY <1>14 DEF Expire
<1> QED
  BY <1>1, <1>2, <1>3, <1>4, <1>5, <1>6, <1>7, <1>8, <1>9, <1>10, <1>11, <1>12, <1>13,
     <1>14

LEMMA EndInit == Init => EndInv
  BY TakeoverNone DEF Init, EndInv, PhaseInv, FoundInv, ReadyInv, UnitsInv, UndoneInv,
     EndsOneWay, Worker, Jobs, CleanupSteps, Restoring, Removing, Undoing, Arming, Configs

LEMMA EndStep == Typed /\ EndInv /\ [Next]_vars => EndInv'
<1> SUFFICES ASSUME Typed, EndInv, [Next]_vars PROVE EndInv'
  OBVIOUS
<1>1. CASE UNCHANGED vars
  BY <1>1 DEF EndInv, PhaseInv, FoundInv, ReadyInv, UnitsInv, UndoneInv, EndsOneWay, UnitsOf,
     Idle, vars, hostVars, files, units, jobVars, bounds
<1>2. CASE Next
  BY <1>2, EndJob, EndOther DEF Next
<1> QED
  BY <1>1, <1>2

(* However a takeover or a reinit is interrupted, when its transaction is     *)
(* over and no command runs it is entirely there or entirely undone, and no   *)
(* configuration a reinit found, and none of a committed installation, is     *)
(* ever lost (confirm_pending, rollback_pending, rollback_reinit_inner,       *)
(* cleanup_failed_first_install).                                             *)
THEOREM TakeoverEndsOneWay == Spec => []TakeoverInvariant
<1>1. Typed /\ EndInv => TakeoverInvariant
  <2> SUFFICES ASSUME Typed, EndInv PROVE ConfigKept
    BY DEF EndInv, TakeoverInvariant
  <2>1. tx # None => tx.id \in Ids
    BY TxFields
  <2>2. tx # None /\ tx.kind = "reinit" => tx.had \in {data, previous[tx.id]}
    BY DEF EndInv, FoundInv
  <2> QED
    BY <2>1, <2>2 DEF EndInv, FoundInv, ConfigKept
<1> QED
  BY TypedInit, TypedStep, EndInit, EndStep, <1>1, PTL DEF Spec
=============================================================================
