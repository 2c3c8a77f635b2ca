-------------------------- MODULE TrafficLanesProofs --------------------------
(* Proofs about TrafficLanes for every set of models and every number of      *)
(* reservations: the type invariant, the exclusion invariants, and that the   *)
(* workers and services implement TrafficOwnership; and about Dashboard for   *)
(* every set of configurations and any number of messages and dialogs.        *)
EXTENDS TrafficLanes, Dashboard, TLAPS

(* The names of lanes and workers, without their strings. *)
LEMMA Names ==
    /\ Quiet \subseteq Lanes
    /\ Lanes \subseteq Users
    /\ Users \subseteq Workers
    /\ Chat \in Users
    /\ Chat \notin Lanes
    /\ Refresh \in Workers
    /\ Refresh \notin Users
    /\ Users = Lanes \cup {Chat}
    /\ Workers = Users \cup {Refresh}
  BY DEF Quiet, Lanes, Users, Chat, Workers, Refresh

(* Every step is one of a few steps on an arbitrary user or on discovery: a   *)
(* reservation of a quiet lane needs a settled discovery, an entry leaves the *)
(* lane reserved or running, a progress report leaves it running.             *)
LEMMA NextCases ==
    ASSUME Next
    PROVE  \/ \E preserve \in BOOLEAN : LaunchRefresh(preserve)
           \/ EnterRefresh \/ RefreshSucceeds \/ RefreshFails \/ RefreshDropped
           \/ \E m \in Models : SelectModel(m)
           \/ \E u \in Users : Begin(u) /\ (u \in Quiet => ~server.refreshing)
           \/ \E u \in Users, s \in {"reserved", "running"} : Enter(u, s)
           \/ \E u \in Users : Publish(u, "running")
           \/ \E u \in Users, r \in BOOLEAN : End(u, r)
           \/ LoseR0b0bench \/ SwallowToolCalling
           \/ \E l \in Lanes : Cancel(l)
           \/ CancelChat
           \/ \E left \in {"free", "stranded"} : Quit(left)
           \/ Stop \/ Stopped
<1>1. CASE Discovery
  BY <1>1 DEF Discovery, AutomaticRefresh, ManualRefresh
<1>2. CASE BeginAny
  BY <1>2 DEF BeginAny, BeginSpeedTest, BeginConcurrency, BeginContext,
     BeginToolCalling, BeginR0b0bench, BeginDrafter, BeginChat, Users, Lanes,
     Chat, Quiet
<1>3. CASE EnterAny
  BY <1>3 DEF EnterAny, EnterSpeedTest, EnterConcurrency, EnterContext,
     EnterToolCalling, EnterR0b0bench, EnterDrafter, EnterChat, Users, Lanes, Chat
<1>4. CASE PublishAny
  BY <1>4 DEF PublishAny, R0b0benchPrepared, ChatProgress, ConcurrencyProgress,
     ContextProgress, Users, Lanes, Chat
<1>5. CASE EndAny
  BY <1>5 DEF EndAny, EndSpeedTest, EndConcurrency, EndContext, EndToolCalling,
     EndR0b0bench, EndDrafter, EndChat, Users, Lanes, Chat
<1>6. CASE CancelAny
  BY <1>6 DEF CancelAny, CancelSpeedTest, CancelConcurrency, CancelContext,
     CancelToolCalling, CancelR0b0bench, CancelDrafter, Lanes
<1>7. CASE Shutdown
  BY <1>7 DEF Shutdown
<1>8. CASE Unsettled
  BY <1>8 DEF Unsettled
<1> QED
  BY <1>1, <1>2, <1>3, <1>4, <1>5, <1>6, <1>7, <1>8 DEF Next

-------------------------------------------------------------------------------
(* Type correctness *)

LEMMA InitTypes == Init => TypeOK
  BY ModelsAssumption DEF Init, TypeOK, ServerStatus, LaneStatus, WorkerState,
     IdleLane, NoReservation, NoProbe, Ids, Users, Workers, Refresh

(* _finalize keeps the types of a lane and of the result counts. *)
LEMMA SettledType ==
    ASSUME TypeOK, NEW u \in Users
    PROVE  Settled(u) \in [status : LaneStatus, id : Nat]
  BY DEF TypeOK, Settled, IdleLane, LaneStatus

LEMMA PublishedType ==
    ASSUME TypeOK, NEW us, PublishResults(us)
    PROVE  published' \in [Ids -> Nat]
  BY DEF TypeOK, PublishResults

LEMMA ReserveRefreshTypes ==
    ASSUME TypeOK, NEW preserve \in BOOLEAN, ReserveRefresh(preserve)
    PROVE  /\ server' \in [status : ServerStatus, refreshing : BOOLEAN,
                           selected : Models \cup {NoModel},
                           available : SUBSET Models]
           /\ monitor' \in [pending : BOOLEAN, preserve : BOOLEAN]
  BY DEF TypeOK, ReserveRefresh, ServerStatus

(* The discovery steps keep the types. *)
LEMMA DiscoveryTypes ==
    ASSUME TypeOK,
           \/ \E preserve \in BOOLEAN : LaunchRefresh(preserve)
           \/ EnterRefresh \/ RefreshSucceeds \/ RefreshFails \/ RefreshDropped
           \/ \E m \in Models : SelectModel(m)
    PROVE  TypeOK'
<1> USE Names DEF TypeOK
<1>1. ASSUME NEW preserve \in BOOLEAN, LaunchRefresh(preserve) PROVE TypeOK'
  BY <1>1, ReserveRefreshTypes DEF LaunchRefresh, WorkerState
<1>2. CASE EnterRefresh
  BY <1>2 DEF EnterRefresh, WorkerState
<1>3. CASE RefreshSucceeds
  BY <1>3 DEF RefreshSucceeds, AfterSuccess, NoProbe, WorkerState, ServerStatus
<1>4. CASE RefreshFails
  <2>1. PICK failure \in {"offline", "error"} : server' = AfterFailure(failure)
    BY <1>4 DEF RefreshFails
  <2>2. server' \in [status : ServerStatus, refreshing : BOOLEAN,
                     selected : Models \cup {NoModel}, available : SUBSET Models]
    BY <2>1 DEF AfterFailure, ServerStatus
  <2> QED
    BY <1>4, <2>2 DEF RefreshFails, NoProbe, WorkerState
<1>5. CASE RefreshDropped
  BY <1>5 DEF RefreshDropped, NoProbe, WorkerState
<1>6. ASSUME NEW m \in Models, SelectModel(m) PROVE TypeOK'
  BY <1>6 DEF SelectModel
<1> QED
  BY <1>1, <1>2, <1>3, <1>4, <1>5, <1>6

(* The lane and shutdown steps keep the types. *)
LEMMA LaneTypes ==
    ASSUME TypeOK,
           \/ \E u \in Users : Begin(u)
           \/ \E u \in Users, s \in {"reserved", "running"} : Enter(u, s)
           \/ \E u \in Users : Publish(u, "running")
           \/ \E u \in Users, r \in BOOLEAN : End(u, r)
           \/ LoseR0b0bench \/ SwallowToolCalling
           \/ \E l \in Lanes : Cancel(l)
           \/ CancelChat
           \/ \E left \in {"free", "stranded"} : Quit(left)
           \/ Stop \/ Stopped
    PROVE  TypeOK'
<1> USE Names
<1>1. ASSUME NEW u \in Users, Begin(u) PROVE TypeOK'
  BY <1>1 DEF Begin, TypeOK, LaneStatus, WorkerState
<1>2. ASSUME NEW u \in Users, NEW s \in {"reserved", "running"}, Enter(u, s)
      PROVE  TypeOK'
  BY <1>2 DEF Enter, TypeOK, LaneStatus, WorkerState
<1>3. ASSUME NEW u \in Users, Publish(u, "running") PROVE TypeOK'
  BY <1>3 DEF Publish, TypeOK, LaneStatus
<1>4. ASSUME NEW u \in Users, NEW r \in BOOLEAN, End(u, r) PROVE TypeOK'
  <2>1. lane' \in [Users -> [status : LaneStatus, id : Nat]]
    BY <1>4, SettledType DEF End, TypeOK
  <2>2. published' \in [Ids -> Nat]
    BY <1>4, PublishedType DEF End
  <2>3. /\ server' \in [status : ServerStatus, refreshing : BOOLEAN,
                         selected : Models \cup {NoModel},
                         available : SUBSET Models]
        /\ monitor' \in [pending : BOOLEAN, preserve : BOOLEAN]
    BY <1>4, ReserveRefreshTypes DEF End, TypeOK
  <2>4. worker' \in [Workers -> WorkerState]
    BY <1>4 DEF End, TypeOK, WorkerState
  <2>5. pending' \in [Users -> [id : Nat, model : Models \cup {NoModel}]]
    BY <1>4 DEF End, TypeOK, NoReservation
  <2> QED
    BY <1>4, <2>1, <2>2, <2>3, <2>4, <2>5 DEF End, TypeOK
<1>5. ASSUME NEW u \in Users, CancelReserved(u), UNCHANGED phase PROVE TypeOK'
  <2>1. lane' \in [Users -> [status : LaneStatus, id : Nat]]
    BY <1>5, SettledType DEF CancelReserved, TypeOK
  <2>2. published' \in [Ids -> Nat]
    BY <1>5, PublishedType DEF CancelReserved
  <2>3. worker' \in [Workers -> WorkerState]
    BY <1>5 DEF CancelReserved, TypeOK, WorkerState
  <2> QED
    BY <1>5, <2>1, <2>2, <2>3 DEF CancelReserved, TypeOK
<1>6. ASSUME NEW l \in Lanes, Cancel(l) PROVE TypeOK'
  <2>1. CASE CancelRunning(l)
    BY <2>1 DEF CancelRunning, TypeOK, LaneStatus
  <2>2. CASE CancelReserved(l)
    BY <2>2, <1>5 DEF CancelReserved
  <2> QED
    BY <1>6, <2>1, <2>2 DEF Cancel
<1>7. CASE CancelChat
  <2>1. CASE CancelReserved(Chat)
    BY <2>1, <1>5 DEF CancelReserved
  <2> QED
    BY <1>7, <2>1 DEF CancelChat, TypeOK
<1>8. ASSUME NEW left \in {"free", "stranded"}, Quit(left) PROVE TypeOK'
  <2>1. ASSUME NEW u \in Users
        PROVE  LaneAtQuit(u) \in [status : LaneStatus, id : Nat]
    BY SettledType DEF LaneAtQuit, TypeOK, LaneStatus
  <2>2. lane' \in [Users -> [status : LaneStatus, id : Nat]]
    BY <1>8, <2>1 DEF Quit
  <2>3. published' \in [Ids -> Nat]
    BY <1>8, PublishedType DEF Quit
  <2>4. worker' \in [Workers -> WorkerState]
    BY <1>8 DEF Quit, TypeOK, WorkerState
  <2> QED
    BY <1>8, <2>2, <2>3, <2>4 DEF Quit, CancelledAtQuit, TypeOK
<1>9. CASE Stop
  BY <1>9 DEF Stop, TypeOK
<1>10. CASE Stopped
  BY <1>10 DEF Stopped, vars, TypeOK
<1>11. CASE LoseR0b0bench \/ SwallowToolCalling
  BY <1>11 DEF LoseR0b0bench, SwallowToolCalling, TypeOK, NoReservation, WorkerState
<1> QED
  BY <1>1, <1>2, <1>3, <1>4, <1>6, <1>7, <1>8, <1>9, <1>10, <1>11

(* Every reachable state has the types its variables are declared with.       *)
THEOREM TypeCorrect == Spec => []TypeOK
<1>1. TypeOK /\ [Next]_vars => TypeOK'
  <2> SUFFICES ASSUME TypeOK, [Next]_vars PROVE TypeOK'
    OBVIOUS
  <2>1. CASE Next
    BY <2>1, NextCases, DiscoveryTypes, LaneTypes
  <2>2. CASE UNCHANGED vars
    BY <2>2 DEF vars, TypeOK
  <2> QED
    BY <2>1, <2>2
<1> QED
  BY <1>1, InitTypes, PTL DEF Spec

-------------------------------------------------------------------------------
(* Exclusion.  None of the exclusion invariants is inductive alone: that no   *)
(* discovery step moves the selection under a quiet lane needs the refresh    *)
(* worker to imply is_refreshing; that a worker's end frees its own lane and  *)
(* no other needs the worker to hold its reservation; and that the worker of  *)
(* another lane cannot end meanwhile needs mutual exclusion.                  *)
Exclusion ==
    /\ MutualExclusion
    /\ WorkerHoldsReservation
    /\ RefreshReserved
    /\ ExclusiveDiscovery
    /\ SelectionFrozen

IInv == TypeOK /\ Exclusion

LEMMA InitExclusion == Init => Exclusion
  BY Names DEF Init, Exclusion, MutualExclusion, WorkerHoldsReservation,
     RefreshReserved, ExclusiveDiscovery, SelectionFrozen, Active, IdleLane

(* A step that leaves every lane, reservation and user worker alone keeps the *)
(* two invariants that speak of nothing else.                                 *)
LEMMA LanesUntouched ==
    ASSUME IInv, UNCHANGED <<lane, pending>>,
           \A u \in Users : worker'[u] = worker[u]
    PROVE  MutualExclusion' /\ WorkerHoldsReservation'
  BY DEF IInv, Exclusion, MutualExclusion, WorkerHoldsReservation, Active, Orphaned

LEMMA DiscoveryExclusion ==
    ASSUME IInv,
           \/ \E preserve \in BOOLEAN : LaunchRefresh(preserve)
           \/ EnterRefresh \/ RefreshSucceeds \/ RefreshFails \/ RefreshDropped
           \/ \E m \in Models : SelectModel(m)
    PROVE  Exclusion'
<1> USE Names DEF IInv, Exclusion
<1>1. ASSUME NEW preserve \in BOOLEAN, LaunchRefresh(preserve) PROVE Exclusion'
  <2>1. MutualExclusion' /\ WorkerHoldsReservation'
    BY <1>1, LanesUntouched DEF LaunchRefresh, TypeOK
  <2>2. \A l \in Quiet : ~Active(l)'
    BY <1>1 DEF LaunchRefresh, Launchable, Active
  <2>3. RefreshReserved'
    BY <1>1 DEF LaunchRefresh, ReserveRefresh, RefreshReserved, TypeOK
  <2> QED
    BY <2>1, <2>2, <2>3 DEF ExclusiveDiscovery, SelectionFrozen
<1>2. CASE EnterRefresh
  <2>1. MutualExclusion' /\ WorkerHoldsReservation'
    BY <1>2, LanesUntouched DEF EnterRefresh, TypeOK
  <2>2. RefreshReserved'
    BY <1>2 DEF EnterRefresh, RefreshReserved, TypeOK
  <2> QED
    BY <1>2, <2>1, <2>2 DEF EnterRefresh, ExclusiveDiscovery, SelectionFrozen, Active
<1>3. CASE RefreshSucceeds \/ RefreshFails
  <2>1. MutualExclusion' /\ WorkerHoldsReservation'
    BY <1>3, LanesUntouched DEF RefreshSucceeds, RefreshFails, TypeOK
  <2>2. \A l \in Quiet : ~Active(l)'
    BY <1>3 DEF RefreshSucceeds, RefreshFails, Resumable, RefreshReserved,
       ExclusiveDiscovery, Active
  <2>3. worker'[Refresh] = "free"
    BY <1>3 DEF RefreshSucceeds, RefreshFails, TypeOK
  <2>4. Refresh \notin cancelled'
    BY <1>3 DEF RefreshSucceeds, RefreshFails, Resumable
  <2>5. ~server'.refreshing
    <3>1. CASE RefreshSucceeds
      BY <3>1 DEF RefreshSucceeds, AfterSuccess
    <3>2. CASE RefreshFails
      BY <3>2 DEF RefreshFails, AfterFailure, TypeOK
    <3> QED
      BY <1>3, <3>1, <3>2
  <2> QED
    BY <2>1, <2>2, <2>3, <2>4, <2>5
       DEF RefreshReserved, ExclusiveDiscovery, SelectionFrozen
<1>5. CASE RefreshDropped
  <2>1. MutualExclusion' /\ WorkerHoldsReservation'
    BY <1>5, LanesUntouched DEF RefreshDropped, TypeOK
  <2> QED
    BY <1>5, <2>1 DEF RefreshDropped, RefreshReserved, TypeOK, ExclusiveDiscovery,
       SelectionFrozen, Active
<1>6. ASSUME NEW m \in Models, SelectModel(m) PROVE Exclusion'
  <2>1. MutualExclusion' /\ WorkerHoldsReservation'
    BY <1>6, LanesUntouched DEF SelectModel
  <2>2. \A l \in Quiet : ~Active(l)'
    BY <1>6 DEF SelectModel, Selectable, BenchmarkActive, Active
  <2>3. RefreshReserved'
    BY <1>6 DEF SelectModel, RefreshReserved, TypeOK
  <2> QED
    BY <2>1, <2>2, <2>3 DEF ExclusiveDiscovery, SelectionFrozen
<1> QED
  BY <1>1, <1>2, <1>3, <1>5, <1>6

(* A user step frees or keeps lanes of the one active user; what it must not   *)
(* do, stated once: every lane active afterwards was active before, with the   *)
(* same reservation, and discovery is left to the refresh worker.              *)
LEMMA FreeingStep ==
    ASSUME IInv,
           \A u \in Users : Active(u)' =>
               Active(u) /\ pending'[u] = pending[u],
           UNCHANGED server
    PROVE  MutualExclusion' /\ ExclusiveDiscovery' /\ SelectionFrozen'
  BY Names DEF IInv, Exclusion, MutualExclusion, ExclusiveDiscovery, SelectionFrozen

LEMMA BeginExclusion ==
    ASSUME IInv, NEW u \in Users, Begin(u), u \in Quiet => ~server.refreshing
    PROVE  Exclusion'
<1> USE Names DEF IInv
<1>1. /\ lane' = [lane EXCEPT ![u] = [status |-> "reserved", id |-> nextId]]
      /\ pending' = [pending EXCEPT ![u] =
                        [id |-> nextId, model |-> server.selected]]
      /\ worker' = [worker EXCEPT ![u] = "pending"]
      /\ UNCHANGED <<server, monitor, cancelled, phase>>
      /\ server.status = "online"
      /\ \A v \in Users : ~Active(v)
  BY DEF Begin, Reservable
<1>2. \A v \in Users : Active(v)' <=> v = u
  BY <1>1 DEF TypeOK, Active
<1>3. MutualExclusion'
  BY <1>2 DEF MutualExclusion
<1>4. WorkerHoldsReservation'
  <2>1. ASSUME NEW v \in Users, v # u
        PROVE  worker'[v] \notin {"pending", "running"}
    BY <1>1, <2>1 DEF Exclusion, WorkerHoldsReservation, TypeOK
  <2>2. /\ worker'[u] = "pending"
        /\ lane'[u].status = "reserved"
        /\ lane'[u].id = pending'[u].id
    BY <1>1 DEF TypeOK
  <2> QED
    BY <1>2, <2>1, <2>2 DEF WorkerHoldsReservation
<1>5. RefreshReserved'
  BY <1>1 DEF Exclusion, RefreshReserved, TypeOK
<1>6. ExclusiveDiscovery'
  BY <1>1, <1>2 DEF ExclusiveDiscovery
<1>7. SelectionFrozen'
  <2>1. server'.selected = pending'[u].model /\ server'.status = "online"
    BY <1>1 DEF TypeOK
  <2> QED
    BY <1>2, <2>1 DEF SelectionFrozen
<1> QED
  BY <1>3, <1>4, <1>5, <1>6, <1>7 DEF Exclusion

(* Entering and reporting progress move the status of an active lane. *)
LEMMA RunExclusion ==
    ASSUME IInv, NEW u \in Users, NEW s \in {"reserved", "running"},
           Enter(u, s) \/ (s = "running" /\ Publish(u, s))
    PROVE  Exclusion'
<1> USE Names DEF IInv
<1>1. /\ lane' = [lane EXCEPT ![u].status = s]
      /\ worker' = [worker EXCEPT ![u] = "running"]
      /\ worker[u] \in {"pending", "running"}
      /\ UNCHANGED <<server, monitor, pending, cancelled, phase>>
  BY DEF Enter, Publish, TypeOK
<1>2. Active(u)
  BY <1>1 DEF Exclusion, WorkerHoldsReservation
<1>3. \A v \in Users : (Active(v)' <=> Active(v)) /\ lane'[v].id = lane[v].id
  BY <1>1, <1>2 DEF Active, TypeOK
<1>4. MutualExclusion' /\ ExclusiveDiscovery' /\ SelectionFrozen'
  BY <1>1, <1>3, FreeingStep
<1>5. WorkerHoldsReservation'
  <2>1. ASSUME NEW v \in Users, v # u
        PROVE  worker'[v] = worker[v] /\ lane'[v] = lane[v]
    BY <1>1, <2>1 DEF TypeOK
  <2>2. worker'[u] = "running" /\ lane'[u].id = pending'[u].id
    BY <1>1, <1>3 DEF Exclusion, WorkerHoldsReservation, TypeOK
  <2> QED
    BY <1>1, <1>2, <1>3, <2>1, <2>2 DEF Exclusion, WorkerHoldsReservation, Orphaned
<1>6. RefreshReserved'
  BY <1>1 DEF Exclusion, RefreshReserved, TypeOK
<1> QED
  BY <1>4, <1>5, <1>6 DEF Exclusion

(* A worker with a reservation holds its lane, so that _finalize frees it. *)
LEMMA SettledFrees ==
    ASSUME IInv, NEW u \in Users, worker[u] \in {"pending", "running"}
    PROVE  Settled(u) = IdleLane
  BY DEF IInv, Exclusion, WorkerHoldsReservation, Settled

(* A step that frees the lane of one user, whose worker it also ends, whatever *)
(* else it does to discovery.                                                  *)
LEMMA FreedLane ==
    ASSUME IInv, NEW u \in Users, worker[u] \in {"pending", "running"},
           lane' = [lane EXCEPT ![u] = Settled(u)],
           worker'[u] \in {"free", "stranded"},
           \A v \in Users \ {u} :
               worker'[v] = worker[v] /\ pending'[v] = pending[v]
    PROVE  /\ \A v \in Users : ~Active(v)'
           /\ MutualExclusion' /\ WorkerHoldsReservation'
<1> USE Names DEF IInv
<1>1. Active(u)
  BY DEF Exclusion, WorkerHoldsReservation
<1>2. ~Active(u)'
  BY SettledFrees DEF TypeOK, Active, IdleLane
<1>3. ASSUME NEW v \in Users, v # u
      PROVE  ~Active(v) /\ lane'[v] = lane[v]
  BY <1>1, <1>3 DEF Exclusion, MutualExclusion, TypeOK
<1>4. \A v \in Users : ~Active(v)'
  BY <1>2, <1>3 DEF Active
<1>5. MutualExclusion'
  BY <1>4 DEF MutualExclusion
<1>6. \A v \in Users : worker'[v] \notin {"pending", "running"}
  BY <1>3 DEF Exclusion, WorkerHoldsReservation
<1>7. WorkerHoldsReservation'
  BY <1>4, <1>6 DEF WorkerHoldsReservation
<1> QED
  BY <1>4, <1>5, <1>7

LEMMA EndExclusion ==
    ASSUME IInv, NEW u \in Users, NEW r \in BOOLEAN, End(u, r)
    PROVE  Exclusion'
<1> USE Names DEF IInv
<1>1. /\ worker[u] = "running"
      /\ lane' = [lane EXCEPT ![u] = Settled(u)]
      /\ pending' = [pending EXCEPT ![u] = NoReservation]
      /\ cancelled' = cancelled \ {u}
      /\ phase' = phase
  BY DEF End
<1>2. worker'[u] = "free" /\ \A v \in Users \ {u} : worker'[v] = worker[v]
  BY DEF End, TypeOK
<1>3. /\ \A v \in Users : ~Active(v)'
      /\ MutualExclusion' /\ WorkerHoldsReservation'
  BY <1>1, <1>2, FreedLane DEF TypeOK
<1>4. RefreshReserved'
  <2>1. CASE Resumes(u, r)
    <3>1. /\ ReserveRefresh(TRUE)
          /\ worker' = [worker EXCEPT ![u] = "free", ![Refresh] = "pending"]
      BY <2>1 DEF End
    <3>2. /\ server'.refreshing
          /\ monitor'.pending
          /\ worker'[Refresh] = "pending"
      BY <3>1 DEF ReserveRefresh, TypeOK
    <3> QED
      BY <1>1, <3>2 DEF Exclusion, RefreshReserved
  <2>2. CASE ~Resumes(u, r)
    <3>1. /\ UNCHANGED <<server, monitor>>
          /\ worker'[Refresh] = worker[Refresh]
      BY <2>2 DEF End, TypeOK
    <3> QED
      BY <1>1, <3>1 DEF Exclusion, RefreshReserved
  <2> QED
    BY <2>1, <2>2
<1> QED
  BY <1>3, <1>4 DEF Exclusion, ExclusiveDiscovery, SelectionFrozen

(* A worker that leaves without a result leaves its lane as it was, orphaned. *)
LEMMA LostLane ==
    ASSUME IInv, LoseR0b0bench
    PROVE  Orphaned("r0b0bench")'
  BY Names DEF LoseR0b0bench, Orphaned, IInv, TypeOK, Users, Lanes

LEMMA UnsettledExclusion ==
    ASSUME IInv, LoseR0b0bench \/ SwallowToolCalling
    PROVE  Exclusion'
<1> USE Names DEF IInv
<1>1. CASE LoseR0b0bench
  <2>1. /\ UNCHANGED <<server, monitor, lane, phase>>
        /\ \A v \in Users \ {"r0b0bench"} :
               worker'[v] = worker[v] /\ pending'[v] = pending[v]
        /\ worker'[Refresh] = worker[Refresh]
        /\ cancelled' \subseteq cancelled
    BY <1>1 DEF LoseR0b0bench, TypeOK, Refresh
  <2>2. Orphaned("r0b0bench")'
    BY <1>1, LostLane
  <2>3. MutualExclusion' /\ ExclusiveDiscovery'
    BY <2>1 DEF Exclusion, MutualExclusion, ExclusiveDiscovery, Active
  <2>4. SelectionFrozen'
    BY <2>1, <2>2 DEF Exclusion, SelectionFrozen, Active, Orphaned
  <2>5. WorkerHoldsReservation'
    BY <2>1, <2>2 DEF Exclusion, WorkerHoldsReservation, Active, Orphaned
  <2>6. RefreshReserved'
    BY <2>1 DEF Exclusion, RefreshReserved
  <2> QED
    BY <2>3, <2>4, <2>5, <2>6 DEF Exclusion
<1>2. CASE SwallowToolCalling
  <2>1. MutualExclusion' /\ WorkerHoldsReservation'
    BY <1>2, LanesUntouched DEF SwallowToolCalling
  <2>2. RefreshReserved'
    BY <1>2 DEF SwallowToolCalling, Exclusion, RefreshReserved
  <2> QED
    BY <1>2, <2>1, <2>2 DEF SwallowToolCalling, Exclusion, ExclusiveDiscovery,
       SelectionFrozen, Active
<1> QED
  BY <1>1, <1>2

LEMMA CancelExclusion ==
    ASSUME IInv, (\E l \in Lanes : Cancel(l)) \/ CancelChat
    PROVE  Exclusion'
<1> USE Names DEF IInv
<1>1. ASSUME NEW u \in Users, CancelReserved(u), UNCHANGED phase PROVE Exclusion'
  <2>1. /\ \A v \in Users : ~Active(v)'
        /\ MutualExclusion' /\ WorkerHoldsReservation'
    <3>1. /\ worker[u] = "pending"
          /\ lane' = [lane EXCEPT ![u] = Settled(u)]
          /\ pending' = pending
      BY <1>1 DEF CancelReserved
    <3>2. /\ worker'[u] \in {"free", "stranded"}
          /\ \A v \in Users \ {u} : worker'[v] = worker[v]
      BY <1>1 DEF CancelReserved, TypeOK
    <3> QED
      BY <3>1, <3>2, FreedLane
  <2>2. RefreshReserved'
    BY <1>1 DEF CancelReserved, Exclusion, RefreshReserved, TypeOK
  <2> QED
    BY <2>1, <2>2 DEF Exclusion, ExclusiveDiscovery, SelectionFrozen
<1>2. ASSUME NEW l \in Lanes, CancelRunning(l), Active(l), UNCHANGED phase
      PROVE  Exclusion'
  <2>1. \A v \in Users : (Active(v)' <=> Active(v)) /\ lane'[v].id = lane[v].id
    BY <1>2 DEF CancelRunning, Active, TypeOK
  <2>2. MutualExclusion' /\ ExclusiveDiscovery' /\ SelectionFrozen'
    BY <1>2, <2>1, FreeingStep DEF CancelRunning
  <2>3. \A v \in Users : worker[v] = "pending" => lane'[v] = lane[v]
    BY <1>2 DEF CancelRunning, TypeOK
  <2>4. WorkerHoldsReservation'
    <3>1. /\ UNCHANGED <<worker, pending>>
          /\ \A v \in Users : v # l => lane'[v] = lane[v]
          /\ worker[l] = "running"
      BY <1>2 DEF CancelRunning, TypeOK
    <3> QED
      BY <3>1, <2>1, <2>3 DEF Exclusion, WorkerHoldsReservation, Orphaned
  <2>5. RefreshReserved'
    BY <1>2 DEF CancelRunning, Exclusion, RefreshReserved
  <2> QED
    BY <2>2, <2>4, <2>5 DEF Exclusion
<1>3. ASSUME NEW l \in Lanes, Cancel(l) PROVE Exclusion'
  BY <1>1, <1>2, <1>3 DEF Cancel, CancelRunning, CancelReserved
<1>4. CASE CancelChat
  <2>1. CASE CancelReserved(Chat)
    BY <1>1, <2>1 DEF CancelReserved
  <2>2. CASE ~CancelReserved(Chat)
    <3>1. /\ UNCHANGED <<server, monitor, lane, pending, worker, phase>>
          /\ cancelled' = cancelled \cup {Chat}
      BY <1>4, <2>2 DEF CancelChat
    <3>2. MutualExclusion' /\ WorkerHoldsReservation'
      BY <3>1, LanesUntouched
    <3> QED
      BY <3>1, <3>2 DEF Exclusion, RefreshReserved, ExclusiveDiscovery,
         SelectionFrozen, Active
  <2> QED
    BY <2>1, <2>2
<1> QED
  BY <1>3, <1>4

LEMMA ShutdownExclusion ==
    ASSUME IInv, (\E left \in {"free", "stranded"} : Quit(left)) \/ Stop \/ Stopped
    PROVE  Exclusion'
<1> USE Names DEF IInv
<1>1. ASSUME NEW left \in {"free", "stranded"}, Quit(left) PROVE Exclusion'
  <2>1. ASSUME NEW u \in Users
        PROVE  /\ worker[u] = "pending" =>
                     ~Active(u)' /\ worker'[u] \in {"free", "stranded"}
               /\ worker[u] # "pending" =>
                     /\ worker'[u] = worker[u]
                     /\ Active(u)' <=> Active(u)
                     /\ lane'[u].id = lane[u].id
               /\ worker[u] = "free" => lane'[u] = lane[u]
    <3>1. lane'[u] = LaneAtQuit(u)
      BY <1>1 DEF Quit
    <3>2. worker'[u] = IF worker[u] = "pending" THEN left ELSE worker[u]
      BY <1>1 DEF Quit
    <3>3. CASE worker[u] = "pending"
      <4>1. lane'[u] = IdleLane
        BY <3>1, <3>3, SettledFrees DEF LaneAtQuit
      <4> QED
        BY <3>2, <3>3, <4>1 DEF Active, IdleLane
    <3>4. CASE worker[u] # "pending"
      <4>1. worker[u] = "running" => Active(u)
        BY DEF Exclusion, WorkerHoldsReservation
      <4> QED
        BY <3>1, <3>2, <3>4, <4>1 DEF LaneAtQuit, Active, TypeOK
    <3> QED
      BY <3>3, <3>4
  <2>2. UNCHANGED <<server, pending>>
    BY <1>1 DEF Quit
  <2>3. MutualExclusion' /\ ExclusiveDiscovery' /\ SelectionFrozen'
    BY <2>1, <2>2, FreeingStep
  <2>4. WorkerHoldsReservation'
    BY <2>1, <2>2 DEF Exclusion, WorkerHoldsReservation, Orphaned
  <2>5. worker'[Refresh] # "pending" /\ (worker'[Refresh] = "running" =>
            worker[Refresh] = "running")
    BY <1>1 DEF Quit
  <2>6. RefreshReserved'
    BY <1>1, <2>2, <2>5 DEF Quit, Exclusion, RefreshReserved
  <2> QED
    BY <2>3, <2>4, <2>6 DEF Exclusion
<1>2. CASE Stop
  <2>1. MutualExclusion' /\ WorkerHoldsReservation'
    BY <1>2, LanesUntouched DEF Stop
  <2> QED
    BY <1>2, <2>1 DEF Stop, Exclusion, RefreshReserved, ExclusiveDiscovery,
       SelectionFrozen, Active
<1>3. CASE Stopped
  BY <1>3 DEF Stopped, vars, Exclusion, MutualExclusion, WorkerHoldsReservation,
     RefreshReserved, ExclusiveDiscovery, SelectionFrozen, Active, Orphaned
<1> QED
  BY <1>1, <1>2, <1>3

LEMMA Inductive == IInv /\ [Next]_vars => IInv'
<1> SUFFICES ASSUME IInv, [Next]_vars PROVE IInv'
  OBVIOUS
<1>1. CASE Next
  <2>1. TypeOK'
    BY <1>1, NextCases, DiscoveryTypes, LaneTypes DEF IInv
  <2>2. Exclusion'
    BY <1>1, NextCases, DiscoveryExclusion, BeginExclusion, RunExclusion,
       EndExclusion, UnsettledExclusion, CancelExclusion, ShutdownExclusion
  <2> QED
    BY <2>1, <2>2 DEF IInv
<1>2. CASE UNCHANGED vars
  BY <1>2 DEF vars, IInv, TypeOK, Exclusion, MutualExclusion,
     WorkerHoldsReservation, RefreshReserved, ExclusiveDiscovery, SelectionFrozen,
     Active, Orphaned
<1> QED
  BY <1>1, <1>2

LEMMA Invariance == Spec => []IInv
<1>1. Init => IInv
  BY InitTypes, InitExclusion DEF IInv
<1> QED
  BY <1>1, Inductive, PTL DEF Spec

(* At most one lane or Chat owns the generation traffic, and no discovery is   *)
(* reserved or in flight while a quiet lane does.                             *)
THEOREM TrafficIsExclusive == Spec => []TrafficIsOwned
<1>1. IInv => TrafficIsOwned
  BY DEF IInv, Exclusion, TrafficIsOwned
<1> QED
  BY <1>1, Invariance, PTL

(* No lane, Chat or refresh is without the worker that ends it, but the lane  *)
(* of an r0b0bench run that left over a gap; and no worker is entered, or     *)
(* runs, without the reservation it was started for.                          *)
THEOREM WorkersOwnTheirLanes == Spec => []WorkersOwnReservations
<1>1. IInv => WorkersOwnReservations
  BY DEF IInv, Exclusion, WorkersOwnReservations
<1> QED
  BY <1>1, Invariance, PTL

-------------------------------------------------------------------------------
(* The selection *)

(* Only a successful discovery and the user move the selection; whatever else *)
(* touches the server touches its status and its flag.                        *)
LEMMA SelectionSteps ==
    ASSUME TypeOK, Next
    PROVE  \/ RefreshSucceeds
           \/ \E m \in Models : SelectModel(m)
           \/ server'.selected = server.selected /\ server'.available = server.available
<1> USE DEF TypeOK
<1>1. ASSUME NEW preserve \in BOOLEAN, LaunchRefresh(preserve)
      PROVE  server'.selected = server.selected /\ server'.available = server.available
  BY <1>1 DEF LaunchRefresh, ReserveRefresh
<1>2. ASSUME RefreshFails
      PROVE  server'.selected = server.selected /\ server'.available = server.available
  BY <1>2 DEF RefreshFails, AfterFailure
<1>3. ASSUME NEW u \in Users, NEW r \in BOOLEAN, End(u, r)
      PROVE  server'.selected = server.selected /\ server'.available = server.available
  BY <1>3 DEF End, ReserveRefresh
<1>4. ASSUME \/ EnterRefresh \/ RefreshDropped
             \/ \E u \in Users : Begin(u)
             \/ \E u \in Users, s \in {"reserved", "running"} : Enter(u, s)
             \/ \E u \in Users : Publish(u, "running")
             \/ LoseR0b0bench \/ SwallowToolCalling
             \/ \E l \in Lanes : Cancel(l)
             \/ CancelChat
             \/ \E left \in {"free", "stranded"} : Quit(left)
             \/ Stop \/ Stopped
      PROVE  UNCHANGED server
  BY <1>4 DEF EnterRefresh, RefreshDropped, Begin, Enter, Publish, LoseR0b0bench,
     SwallowToolCalling, Cancel, CancelRunning, CancelReserved, CancelChat, Quit, Stop, Stopped, vars
<1> QED
  BY NextCases, <1>1, <1>2, <1>3, <1>4

LEMMA SelectionAnnouncedStep ==
    TypeOK /\ SelectionAnnounced /\ [Next]_vars => SelectionAnnounced'
<1> SUFFICES ASSUME TypeOK, SelectionAnnounced, [Next]_vars PROVE SelectionAnnounced'
  OBVIOUS
<1> USE DEF SelectionAnnounced
<1>1. CASE RefreshSucceeds
  <2>1. PICK fresh \in SUBSET Models, found \in Models \cup {NoModel} :
            Discovered(probe.prior, fresh, found) /\ server' = AfterSuccess(fresh, found)
    BY <1>1 DEF RefreshSucceeds
  <2>2. found \in fresh \cup {NoModel}
    BY <2>1 DEF Discovered
  <2> QED
    BY <2>1, <2>2 DEF AfterSuccess
<1>2. ASSUME NEW m \in Models, SelectModel(m) PROVE SelectionAnnounced'
  BY <1>2 DEF SelectModel, Selectable, TypeOK
<1>3. CASE UNCHANGED vars
  BY <1>3 DEF vars
<1> QED
  BY <1>1, <1>2, <1>3, SelectionSteps

(* A quiet lane works on an online server with the model it reserved, and the *)
(* selected model is always one the server announced last.                    *)
THEOREM SelectionIsKept == Spec => []SelectionIsSound
<1>1. IInv => SelectionFrozen /\ TypeOK
  BY DEF IInv, Exclusion
<1>2. Init => SelectionAnnounced
  BY DEF Init, SelectionAnnounced
<1>3. Spec => []SelectionAnnounced
  BY <1>1, <1>2, SelectionAnnouncedStep, Invariance, PTL DEF Spec
<1> QED
  BY <1>1, <1>3, Invariance, PTL DEF SelectionIsSound

-------------------------------------------------------------------------------
(* Results.  That every reservation ends with exactly one result needs each   *)
(* active lane to hold an id of its own that was given out, idle ones to hold *)
(* none, and the worker that finalises to carry the reservation of its lane.  *)
Numbered ==
    /\ nextId <= MaxReservations + 1
    /\ \A u \in Users : lane[u].id # 0 <=> Active(u)
    /\ \A u \in Users : lane[u].id < nextId

RInv == IInv /\ Numbered /\ ExactlyOneResult

LEMMA InitResults == Init => Numbered /\ ExactlyOneResult
  BY BoundAssumption DEF Init, Numbered, ExactlyOneResult, Active, IdleLane, Ids

(* A step that gives out and takes back no id keeps the numbers.              *)
LEMMA KeepsResults ==
    ASSUME RInv, UNCHANGED <<published, nextId>>,
           \A u \in Users : lane'[u].id = lane[u].id /\ (Active(u)' <=> Active(u))
    PROVE  Numbered' /\ ExactlyOneResult'
  BY DEF RInv, Numbered, ExactlyOneResult

(* _finalize of users that hold their reservations, of which exclusion leaves *)
(* one at most: its result is the first for its id, which it alone held.      *)
LEMMA SettlesOnce ==
    ASSUME RInv, NEW us \in SUBSET Users, PublishResults(us), nextId' = nextId,
           \A u \in us : Active(u) /\ lane[u].id = pending[u].id /\ lane'[u] = IdleLane,
           \A u \in Users \ us :
               lane'[u].id = lane[u].id /\ (Active(u)' <=> Active(u))
    PROVE  Numbered' /\ ExactlyOneResult'
<1> USE DEF RInv, Numbered
<1>1. Numbered'
  BY DEF Active, IdleLane, IInv, TypeOK
<1>2. ASSUME NEW i \in Ids
      PROVE  published'[i] = IF i < nextId' /\ \A u \in Users : lane'[u].id # i
                             THEN 1 ELSE 0
  <2>1. published'[i] = IF \E u \in us : lane[u].id = i THEN published[i] + 1
                        ELSE published[i]
    BY DEF PublishResults
  <2>2. published[i] = IF i < nextId /\ \A u \in Users : lane[u].id # i THEN 1 ELSE 0
    BY DEF ExactlyOneResult
  <2>3. i \in Nat /\ i # 0 /\ i # IdleLane.id
    BY BoundAssumption DEF Ids, IdleLane
  <2>4. CASE \E u \in us : lane[u].id = i
    <3>1. PICK u \in us : lane[u].id = i
      BY <2>4
    <3>2. \A v \in Users : v # u => lane[v].id = 0
      BY DEF IInv, Exclusion, MutualExclusion
    <3>3. \A v \in Users : lane'[v].id # i
      BY <2>3, <3>2
    <3>4. i < nextId
      BY <3>1
    <3> QED
      BY <2>1, <2>2, <2>4, <3>1, <3>3, <3>4
  <2>5. CASE ~\E u \in us : lane[u].id = i
    <3>1. (\A u \in Users : lane'[u].id # i) <=> (\A u \in Users : lane[u].id # i)
      BY <2>3, <2>5
    <3> QED
      BY <2>1, <2>2, <2>5, <3>1
  <2> QED
    BY <2>4, <2>5
<1> QED
  BY <1>1, <1>2 DEF ExactlyOneResult

LEMMA BeginResults ==
    ASSUME RInv, NEW u \in Users, Begin(u)
    PROVE  Numbered' /\ ExactlyOneResult'
<1> USE BoundAssumption DEF RInv, Numbered, IInv, TypeOK
<1>1. /\ nextId \in Ids /\ nextId' = nextId + 1 /\ published' = published
      /\ lane' = [lane EXCEPT ![u] = [status |-> "reserved", id |-> nextId]]
      /\ \A v \in Users : ~Active(v)
  BY DEF Begin, Reservable
<1>2. \A v \in Users : lane[v].id = 0
  BY <1>1
<1>3. \A v \in Users : lane'[v].id = (IF v = u THEN nextId ELSE 0)
  BY <1>1, <1>2
<1>4. Numbered'
  BY <1>1, <1>3 DEF Active, Ids
<1>5. ExactlyOneResult'
  BY <1>1, <1>2, <1>3 DEF ExactlyOneResult, Ids
<1> QED
  BY <1>4, <1>5

LEMMA RunResults ==
    ASSUME RInv, NEW u \in Users,
           \/ \E s \in {"reserved", "running"} : Enter(u, s)
           \/ Publish(u, "running")
           \/ CancelRunning(u)
    PROVE  Numbered' /\ ExactlyOneResult'
<1>1. Active(u)
  BY DEF RInv, IInv, Exclusion, WorkerHoldsReservation, Enter, Publish, CancelRunning
<1>2. PICK s \in {"reserved", "running", "cancelling"} :
          lane' = [lane EXCEPT ![u].status = s]
  <2>1. CASE \E s \in {"reserved", "running"} : Enter(u, s)
    BY <2>1 DEF Enter
  <2>2. CASE Publish(u, "running")
    BY <2>2 DEF Publish
  <2>3. CASE CancelRunning(u)
    BY <2>3 DEF CancelRunning, RInv, IInv, Exclusion, WorkerHoldsReservation
  <2> QED
    BY <2>1, <2>2, <2>3
<1>3. UNCHANGED <<published, nextId>>
  BY DEF Enter, Publish, CancelRunning
<1>4. \A v \in Users : lane'[v].id = lane[v].id /\ (Active(v)' <=> Active(v))
  BY <1>1, <1>2 DEF Active, RInv, IInv, TypeOK
<1> QED
  BY <1>3, <1>4, KeepsResults

(* What a worker that holds its reservation leaves when it is finalised.      *)
LEMMA SettledIdle ==
    ASSUME RInv, NEW u \in Users, worker[u] \in {"pending", "running"}
    PROVE  Active(u) /\ lane[u].id = pending[u].id /\ Settled(u) = IdleLane
  BY DEF RInv, IInv, Exclusion, WorkerHoldsReservation, Settled

LEMMA EndResults ==
    ASSUME RInv, NEW u \in Users,
           (\E r \in BOOLEAN : End(u, r)) \/ CancelReserved(u)
    PROVE  Numbered' /\ ExactlyOneResult'
<1>1. /\ lane' = [lane EXCEPT ![u] = Settled(u)]
      /\ PublishResults({u})
      /\ nextId' = nextId
      /\ worker[u] \in {"pending", "running"}
  BY DEF End, CancelReserved
<1>2. Active(u) /\ lane[u].id = pending[u].id /\ lane'[u] = IdleLane
  BY <1>1, SettledIdle DEF RInv, IInv, TypeOK
<1>3. \A v \in Users \ {u} : lane'[v] = lane[v]
  BY <1>1 DEF RInv, IInv, TypeOK
<1>4. \A v \in Users \ {u} : lane'[v].id = lane[v].id /\ (Active(v)' <=> Active(v))
  BY <1>3 DEF Active
<1> HIDE DEF RInv
<1> QED
  BY <1>1, <1>2, <1>4, SettlesOnce

LEMMA QuitResults ==
    ASSUME RInv, NEW left \in {"free", "stranded"}, Quit(left)
    PROVE  Numbered' /\ ExactlyOneResult'
<1> DEFINE us == {u \in Users : worker[u] = "pending"}
<1>1. PublishResults(us) /\ nextId' = nextId /\ us \in SUBSET Users
  BY DEF Quit
<1>2. \A u \in Users : lane'[u] = LaneAtQuit(u)
  BY DEF Quit
<1>3. ASSUME NEW u \in us
      PROVE  Active(u) /\ lane[u].id = pending[u].id /\ lane'[u] = IdleLane
  BY <1>2, SettledIdle DEF LaneAtQuit
<1>4. ASSUME NEW u \in Users \ us
      PROVE  lane'[u].id = lane[u].id /\ (Active(u)' <=> Active(u))
  <2>1. CASE lane'[u] = lane[u]
    BY <2>1 DEF Active
  <2>2. CASE lane'[u] = [lane[u] EXCEPT !.status = "cancelling"] /\ worker[u] = "running"
    <3>1. Active(u)
      BY <2>2, SettledIdle
    <3> QED
      BY <2>2, <3>1 DEF Active, RInv, IInv, TypeOK
  <2> QED
    BY <1>2, <2>1, <2>2 DEF LaneAtQuit
<1> HIDE DEF us
<1> QED
  BY <1>1, <1>3, <1>4, SettlesOnce

LEMMA ResultsStep == RInv /\ IInv' /\ [Next]_vars => RInv'
<1> SUFFICES ASSUME RInv, [Next]_vars PROVE Numbered' /\ ExactlyOneResult'
  BY DEF RInv
<1>1. ASSUME NEW l \in Lanes, Cancel(l) PROVE Numbered' /\ ExactlyOneResult'
  BY <1>1, Names, RunResults, EndResults DEF Cancel
<1>2. ASSUME UNCHANGED <<lane, published, nextId>> PROVE Numbered' /\ ExactlyOneResult'
  BY <1>2, KeepsResults DEF Active
<1>3. CASE CancelChat
  <2>1. CASE CancelReserved(Chat)
    BY <2>1, Names, EndResults
  <2> QED
    BY <1>2, <1>3, <2>1 DEF CancelChat
<1>4. ASSUME \/ \E preserve \in BOOLEAN : LaunchRefresh(preserve)
             \/ EnterRefresh \/ RefreshSucceeds \/ RefreshFails \/ RefreshDropped
             \/ \E m \in Models : SelectModel(m)
             \/ LoseR0b0bench \/ SwallowToolCalling
             \/ Stop \/ Stopped
             \/ UNCHANGED vars
      PROVE  Numbered' /\ ExactlyOneResult'
  BY <1>2, <1>4 DEF LaunchRefresh, EnterRefresh, RefreshSucceeds, RefreshFails,
     RefreshDropped, SelectModel, LoseR0b0bench, SwallowToolCalling, Stop, Stopped,
     vars
<1>5. CASE Next
  BY <1>1, <1>3, <1>4, <1>5, NextCases, BeginResults, RunResults, EndResults,
     QuitResults
<1> QED
  BY <1>4, <1>5

(* Every reservation that is over got exactly one terminal result.            *)
THEOREM ResultsArePublishedOnce == Spec => []ExactlyOneResult
<1>1. Init => Numbered /\ ExactlyOneResult
  BY InitResults
<1>2. RInv => ExactlyOneResult
  BY DEF RInv
<1>3. Spec => []RInv
  <2>1. IInv /\ Numbered /\ ExactlyOneResult => RInv
    BY DEF RInv
  <2> QED
    BY <1>1, <2>1, ResultsStep, Invariance, PTL DEF Spec
<1> QED
  BY <1>2, <1>3, PTL

-------------------------------------------------------------------------------
(* Refinement *)

LEMMA OwnerIsActive ==
    /\ MutualExclusion => \A u \in Users : Active(u) => Owner = u
    /\ (\A u \in Users : ~Active(u)) => Owner = "nobody"
    /\ "nobody" \notin Users
<1>1. ASSUME MutualExclusion, NEW u \in Users, Active(u) PROVE Owner = u
  BY <1>1 DEF MutualExclusion, Owner
<1> QED
  BY <1>1 DEF Owner, Users, Lanes, Chat

LEMMA OwnerIsActiveNext ==
    /\ MutualExclusion' => \A u \in Users : Active(u)' => Owner' = u
    /\ (\A u \in Users : ~Active(u)') => Owner' = "nobody"
<1>1. ASSUME MutualExclusion', NEW u \in Users, Active(u)' PROVE Owner' = u
  BY <1>1 DEF MutualExclusion, Owner
<1> QED
  BY <1>1 DEF Owner

(* A step after which the same users are active has the same owner. *)
LEMMA SameOwner ==
    ASSUME IInv, IInv', \A u \in Users : Active(u)' <=> Active(u)
    PROVE  Owner' = Owner
<1>1. CASE \E u \in Users : Active(u)
  BY <1>1, OwnerIsActive, OwnerIsActiveNext DEF IInv, Exclusion
<1>2. CASE \A u \in Users : ~Active(u)
  BY <1>2, OwnerIsActive, OwnerIsActiveNext
<1> QED
  BY <1>1, <1>2

(* A step that ends the run of an active user releases the traffic. *)
LEMMA ReleasedOwner ==
    ASSUME IInv, IInv', NEW u \in Users, Active(u), \A v \in Users : ~Active(v)',
           server.refreshing => server'.refreshing,
           server'.selected = server.selected
    PROVE  Ownership!Release
<1>1. Owner # "nobody" /\ Owner' = "nobody"
  BY OwnerIsActive, OwnerIsActiveNext DEF IInv, Exclusion
<1> QED
  BY <1>1 DEF Ownership!Release, IInv, TypeOK

LEMMA DiscoveryRefines ==
    ASSUME IInv, IInv',
           \/ \E preserve \in BOOLEAN : LaunchRefresh(preserve)
           \/ EnterRefresh \/ RefreshSucceeds \/ RefreshFails \/ RefreshDropped
           \/ \E m \in Models : SelectModel(m)
    PROVE  [Ownership!Next]_Ownership!vars
<1> USE Names
<1>0. Owner' = Owner
  <2>1. UNCHANGED lane
    BY DEF LaunchRefresh, EnterRefresh, RefreshSucceeds, RefreshFails,
       RefreshDropped, SelectModel
  <2> QED
    BY <2>1, SameOwner DEF Active
<1>1. ASSUME \A l \in Lanes : ~Active(l) PROVE Owner \notin Lanes
  <2>1. CASE Active(Chat)
    BY <2>1, OwnerIsActive DEF IInv, Exclusion
  <2>2. CASE ~Active(Chat)
    BY <1>1, <2>2, OwnerIsActive
  <2> QED
    BY <2>1, <2>2
<1>2. ASSUME NEW preserve \in BOOLEAN, LaunchRefresh(preserve)
      PROVE  Ownership!StartDiscovery
  <2>1. ~server.refreshing /\ \A l \in Lanes : ~Active(l)
    BY <1>2 DEF LaunchRefresh, Launchable, Active
  <2>2. server'.refreshing = TRUE /\ server'.selected = server.selected
    BY <1>2 DEF LaunchRefresh, ReserveRefresh, IInv, TypeOK
  <2> QED
    BY <1>0, <1>1, <2>1, <2>2 DEF Ownership!StartDiscovery
<1>3. CASE EnterRefresh \/ RefreshDropped
  BY <1>0, <1>3 DEF EnterRefresh, RefreshDropped, Ownership!vars
<1>4. CASE RefreshSucceeds \/ RefreshFails
  <2>1. server.refreshing
    BY <1>4 DEF RefreshSucceeds, RefreshFails, Resumable, IInv, Exclusion,
       RefreshReserved
  <2>2. server'.refreshing = FALSE
    <3>1. CASE RefreshSucceeds
      BY <3>1 DEF RefreshSucceeds, AfterSuccess
    <3>2. CASE RefreshFails
      BY <3>2 DEF RefreshFails, AfterFailure, IInv, TypeOK
    <3> QED
      BY <1>4, <3>1, <3>2
  <2>3. server'.selected \in Models \cup {NoModel}
    BY DEF IInv, TypeOK
  <2> QED
    BY <1>0, <2>1, <2>2, <2>3 DEF Ownership!EndDiscovery, Ownership!Next
<1>5. ASSUME NEW m \in Models, SelectModel(m) PROVE Ownership!Choose
  <2>1. \A l \in Lanes : ~Active(l)
    BY <1>5 DEF SelectModel, Selectable, BenchmarkActive
  <2>2. server'.selected = m /\ server'.refreshing = server.refreshing
    BY <1>5 DEF SelectModel, IInv, TypeOK
  <2> QED
    BY <1>0, <1>1, <2>1, <2>2 DEF Ownership!Choose
<1> QED
  BY <1>2, <1>3, <1>4, <1>5 DEF Ownership!Next

LEMMA LanesRefine ==
    ASSUME IInv, IInv',
           \/ \E u \in Users : Begin(u) /\ (u \in Quiet => ~server.refreshing)
           \/ \E u \in Users, s \in {"reserved", "running"} : Enter(u, s)
           \/ \E u \in Users : Publish(u, "running")
           \/ \E u \in Users, r \in BOOLEAN : End(u, r)
    PROVE  [Ownership!Next]_Ownership!vars
<1> USE Names DEF IInv
<1>1. ASSUME NEW u \in Users, Begin(u), u \in Quiet => ~server.refreshing
      PROVE  Ownership!Acquire(u)
  <2>1. Owner = "nobody" /\ server.selected # NoModel /\ server' = server
    BY <1>1, OwnerIsActive DEF Begin, Reservable
  <2>2. Active(u)'
    BY <1>1 DEF Begin, TypeOK, Active
  <2>3. Owner' = u
    BY <2>2, OwnerIsActiveNext DEF Exclusion
  <2> QED
    BY <1>1, <2>1, <2>3 DEF Ownership!Acquire
<1>2. ASSUME NEW u \in Users, NEW s \in {"reserved", "running"},
             Enter(u, s) \/ Publish(u, s)
      PROVE  UNCHANGED Ownership!vars
  <2>1. Active(u) /\ server' = server
    BY <1>2 DEF Enter, Publish, Exclusion, WorkerHoldsReservation
  <2>2. \A v \in Users : Active(v)' <=> Active(v)
    BY <1>2, <2>1 DEF Enter, Publish, TypeOK, Active
  <2> QED
    BY <2>1, <2>2, SameOwner DEF Ownership!vars
<1>3. ASSUME NEW u \in Users, NEW r \in BOOLEAN, End(u, r)
      PROVE  Ownership!Release
  <2>1. Active(u)
    BY <1>3 DEF End, Exclusion, WorkerHoldsReservation
  <2>2. \A v \in Users : ~Active(v)'
    <3>1. Settled(u) = IdleLane
      BY <1>3, SettledFrees DEF End
    <3>2. ASSUME NEW v \in Users, v # u PROVE ~Active(v)
      BY <2>1, <3>2 DEF Exclusion, MutualExclusion
    <3> QED
      BY <1>3, <3>1, <3>2 DEF End, TypeOK, Active, IdleLane
  <2>3. /\ server.refreshing => server'.refreshing
        /\ server'.selected = server.selected
    BY <1>3 DEF End, ReserveRefresh, TypeOK
  <2> QED
    BY <2>1, <2>2, <2>3, ReleasedOwner
<1> QED
  BY <1>1, <1>2, <1>3 DEF Ownership!Next, Ownership!Users

(* Escape and quitting end the runs whose worker was never entered and leave   *)
(* every other lane active; an orphaned lane keeps the traffic.                *)
LEMMA CancelRefines ==
    ASSUME IInv, IInv',
           \/ LoseR0b0bench \/ SwallowToolCalling
           \/ \E l \in Lanes : Cancel(l)
           \/ CancelChat
           \/ \E left \in {"free", "stranded"} : Quit(left)
           \/ Stop \/ Stopped
    PROVE  [Ownership!Next]_Ownership!vars
<1> USE Names DEF IInv
<1>1. ASSUME NEW u \in Users, CancelReserved(u) PROVE Ownership!Release
  <2>1. Active(u) /\ server' = server
    BY <1>1 DEF CancelReserved, Exclusion, WorkerHoldsReservation
  <2>2. \A v \in Users : ~Active(v)'
    <3>1. Settled(u) = IdleLane
      BY <1>1, SettledFrees DEF CancelReserved
    <3>2. ASSUME NEW v \in Users, v # u PROVE ~Active(v)
      BY <2>1, <3>2 DEF Exclusion, MutualExclusion
    <3> QED
      BY <1>1, <3>1, <3>2 DEF CancelReserved, TypeOK, Active, IdleLane
  <2> QED
    BY <2>1, <2>2, ReleasedOwner
<1>2. ASSUME NEW l \in Lanes, Cancel(l) PROVE [Ownership!Next]_Ownership!vars
  <2>1. CASE CancelReserved(l)
    BY <1>1, <2>1 DEF Ownership!Next
  <2>2. CASE CancelRunning(l)
    <3>1. \A v \in Users : Active(v)' <=> Active(v)
      BY <1>2, <2>2 DEF Cancel, CancelRunning, Active, TypeOK
    <3> QED
      BY <2>2, <3>1, SameOwner DEF CancelRunning, Ownership!vars
  <2> QED
    BY <1>2, <2>1, <2>2 DEF Cancel
<1>3. CASE CancelChat
  <2>1. CASE CancelReserved(Chat)
    BY <1>1, <2>1 DEF Ownership!Next
  <2>2. CASE ~CancelReserved(Chat)
    <3>1. UNCHANGED <<server, lane>>
      BY <1>3, <2>2 DEF CancelChat
    <3> QED
      BY <3>1, SameOwner DEF Active, Ownership!vars
  <2> QED
    BY <2>1, <2>2
<1>4. ASSUME NEW left \in {"free", "stranded"}, Quit(left)
      PROVE  [Ownership!Next]_Ownership!vars
  <2>1. ASSUME NEW u \in Users
        PROVE  /\ worker[u] = "pending" => ~Active(u)'
               /\ worker[u] # "pending" => (Active(u)' <=> Active(u))
    <3>1. lane'[u] = LaneAtQuit(u)
      BY <1>4 DEF Quit
    <3>2. CASE worker[u] = "pending"
      BY <3>1, <3>2, SettledFrees DEF LaneAtQuit, Active, IdleLane
    <3>3. CASE worker[u] # "pending"
      <4>1. worker[u] = "running" => Active(u)
        BY DEF Exclusion, WorkerHoldsReservation
      <4> QED
        BY <3>1, <3>3, <4>1 DEF LaneAtQuit, Active, TypeOK
    <3> QED
      BY <3>2, <3>3
  <2>2. server' = server
    BY <1>4 DEF Quit
  <2>3. CASE \E u \in Users : worker[u] = "pending"
    <3>1. PICK u \in Users : worker[u] = "pending"
      BY <2>3
    <3>2. Active(u)
      BY <3>1 DEF Exclusion, WorkerHoldsReservation
    <3>3. \A v \in Users : ~Active(v)'
      BY <2>1, <3>1, <3>2 DEF Exclusion, MutualExclusion
    <3>4. Ownership!Release
      BY <2>2, <3>2, <3>3, ReleasedOwner
    <3> QED
      BY <3>4 DEF Ownership!Next
  <2>4. CASE \A u \in Users : worker[u] # "pending"
    BY <2>1, <2>2, <2>4, SameOwner DEF Ownership!vars
  <2> QED
    BY <2>3, <2>4
<1>5. CASE LoseR0b0bench \/ SwallowToolCalling \/ Stop \/ Stopped
  <2>1. UNCHANGED <<server, lane>>
    BY <1>5 DEF LoseR0b0bench, SwallowToolCalling, Stop, Stopped, vars
  <2> QED
    BY <2>1, SameOwner DEF Active, Ownership!vars
<1> QED
  BY <1>2, <1>3, <1>4, <1>5

LEMMA InitRefines == Init => Ownership!Init
<1> SUFFICES ASSUME Init PROVE Ownership!Init
  OBVIOUS
<1>1. \A u \in Users : ~Active(u)
  BY DEF Init, Active, IdleLane
<1>2. Owner = "nobody"
  BY <1>1, OwnerIsActive
<1> QED
  BY <1>2 DEF Init, Ownership!Init

(* The six services, Chat and the monitor, which reserve and release each by   *)
(* its own handlers, together behave as one owned resource beside discovery.   *)
THEOREM LanesImplementOwnership == Spec => ImplementsOwnership
<1>1. IInv /\ IInv' /\ [Next]_vars => [Ownership!Next]_Ownership!vars
  <2> SUFFICES ASSUME IInv, IInv', [Next]_vars
               PROVE  [Ownership!Next]_Ownership!vars
    OBVIOUS
  <2>1. CASE Next
    BY <2>1, NextCases, DiscoveryRefines, LanesRefine, CancelRefines
  <2>2. CASE UNCHANGED vars
    BY <2>2, SameOwner DEF vars, Active, Ownership!vars
  <2> QED
    BY <2>1, <2>2
<1> QED
  BY <1>1, InitRefines, Invariance, PTL DEF Spec, ImplementsOwnership, Ownership!Spec

-------------------------------------------------------------------------------
(* Polling.  A run that paused polling frees every lane when it ends, so that *)
(* a refresh can be reserved then and there, unless one already is.  "Already *)
(* is" is what needs an invariant: a refresh worker that is not finished      *)
(* holds is_refreshing (RefreshReserved), provided that nobody left it        *)
(* PENDING for good, which only the shutdown does.                            *)
RefreshNotStranded == phase = "up" => worker[Refresh] # "stranded"

LEMMA RefreshNotStrandedStep ==
    IInv /\ RefreshNotStranded /\ [Next]_vars => RefreshNotStranded'
<1> SUFFICES ASSUME IInv, RefreshNotStranded, [Next]_vars, phase' = "up"
             PROVE  worker'[Refresh] # "stranded"
  BY DEF RefreshNotStranded
<1> USE Names DEF IInv, RefreshNotStranded
<1>1. ASSUME \/ \E preserve \in BOOLEAN : LaunchRefresh(preserve)
             \/ EnterRefresh \/ RefreshSucceeds \/ RefreshFails \/ RefreshDropped
             \/ \E m \in Models : SelectModel(m)
      PROVE  worker'[Refresh] # "stranded"
  BY <1>1 DEF LaunchRefresh, EnterRefresh, RefreshSucceeds, RefreshFails,
     RefreshDropped, SelectModel, TypeOK
<1>2. ASSUME \/ \E u \in Users : Begin(u)
             \/ \E u \in Users, s \in {"reserved", "running"} : Enter(u, s)
             \/ \E u \in Users : Publish(u, "running")
             \/ LoseR0b0bench \/ SwallowToolCalling
      PROVE  worker'[Refresh] # "stranded"
  BY <1>2 DEF Begin, Enter, Publish, LoseR0b0bench, SwallowToolCalling, TypeOK, Refresh
<1>3. ASSUME NEW u \in Users, NEW r \in BOOLEAN, End(u, r)
      PROVE  worker'[Refresh] # "stranded"
  BY <1>3 DEF End, TypeOK
<1>4. ASSUME NEW u \in Users, CancelReserved(u), phase' = phase
      PROVE  worker'[Refresh] # "stranded"
  BY <1>4 DEF CancelReserved, TypeOK
<1>5. CASE \E l \in Lanes : Cancel(l)
  <2>1. PICK l \in Lanes : Cancel(l)
    BY <1>5
  <2>2. CASE CancelReserved(l)
    BY <1>4, <2>2 DEF CancelReserved
  <2>3. CASE CancelRunning(l)
    BY <2>3 DEF CancelRunning
  <2> QED
    BY <2>1, <2>2, <2>3 DEF Cancel
<1>6. CASE CancelChat
  BY <1>4, <1>6 DEF CancelChat, CancelReserved
<1>7. CASE (\E left \in {"free", "stranded"} : Quit(left)) \/ Stop \/ Stopped
  BY <1>7 DEF Quit, Stop, Stopped, vars
<1>8. CASE UNCHANGED vars
  BY <1>8 DEF vars
<1> QED
  BY NextCases, <1>1, <1>2, <1>3, <1>5, <1>6, <1>7, <1>8

(* While the app is up, a running worker is finished by the end of its own    *)
(* run, which resumes polling for every lane but Speed Test's, or by leaving  *)
(* without one.                                                               *)
LEMMA FreeingCases ==
    ASSUME IInv, Next, phase = "up", NEW l \in Lanes \ {"speed_test"},
           worker[l] = "running", worker'[l] = "free"
    PROVE  End(l, TRUE) \/ (LoseR0b0bench /\ l = "r0b0bench")
<1> USE Names DEF IInv
<1>1. ASSUME \/ \E preserve \in BOOLEAN : LaunchRefresh(preserve)
             \/ EnterRefresh \/ RefreshSucceeds \/ RefreshFails \/ RefreshDropped
             \/ \E m \in Models : SelectModel(m)
             \/ \E u \in Users : Begin(u)
             \/ \E u \in Users, s \in {"reserved", "running"} : Enter(u, s)
             \/ \E u \in Users : Publish(u, "running")
      PROVE  FALSE
  BY <1>1 DEF LaunchRefresh, EnterRefresh, RefreshSucceeds, RefreshFails,
     RefreshDropped, SelectModel, Begin, Enter, Publish, TypeOK
<1>2. ASSUME NEW u \in Users, CancelReserved(u) PROVE FALSE
  BY <1>2 DEF CancelReserved, TypeOK
<1>3. ASSUME (\E k \in Lanes : Cancel(k)) \/ CancelChat PROVE FALSE
  <2>1. UNCHANGED worker \/ \E u \in Users : CancelReserved(u)
    BY <1>3 DEF Cancel, CancelRunning, CancelChat
  <2> QED
    BY <1>2, <2>1
<1>4. ASSUME (\E left \in {"free", "stranded"} : Quit(left)) \/ Stop \/ Stopped
      PROVE  FALSE
  BY <1>4 DEF Quit, Stop, Stopped, vars
<1>5. CASE EndAny
  <2>1. PICK u \in Users : End(u, u \notin {"speed_test", Chat})
    BY <1>5 DEF EndAny, EndSpeedTest, EndConcurrency, EndContext, EndToolCalling,
       EndR0b0bench, EndDrafter, EndChat, Users, Lanes, Chat
  <2>2. worker'[l] # worker[l] => u = l
    BY <2>1 DEF End, TypeOK
  <2> QED
    BY <2>1, <2>2
<1>6. CASE ~EndAny
  <2>1. \/ Discovery \/ BeginAny \/ EnterAny \/ PublishAny \/ Unsettled
        \/ CancelAny \/ Shutdown
    BY <1>6 DEF Next
  <2>2. CASE Discovery
    BY <1>1, <2>2 DEF Discovery, AutomaticRefresh, ManualRefresh
  <2>3. CASE BeginAny
    BY <1>1, <2>3 DEF BeginAny, BeginSpeedTest, BeginConcurrency, BeginContext,
       BeginToolCalling, BeginR0b0bench, BeginDrafter, BeginChat, Users, Lanes, Chat
  <2>4. CASE EnterAny
    BY <1>1, <2>4 DEF EnterAny, EnterSpeedTest, EnterConcurrency, EnterContext,
       EnterToolCalling, EnterR0b0bench, EnterDrafter, EnterChat, Users, Lanes, Chat
  <2>5. CASE PublishAny
    BY <1>1, <2>5 DEF PublishAny, R0b0benchPrepared, ChatProgress,
       ConcurrencyProgress, ContextProgress, Users, Lanes, Chat
  <2>6. CASE CancelAny
    BY <1>3, <2>6 DEF CancelAny, CancelSpeedTest, CancelConcurrency, CancelContext,
       CancelToolCalling, CancelR0b0bench, CancelDrafter, Lanes
  <2>7. CASE Shutdown
    BY <1>4, <2>7 DEF Shutdown
  <2>8. CASE Unsettled
    <3>1. LoseR0b0bench
      BY <2>8 DEF Unsettled, SwallowToolCalling
    <3>2. l = "r0b0bench"
      BY <3>1 DEF LoseR0b0bench, TypeOK
    <3> QED
      BY <3>1, <3>2
  <2> QED
    BY <2>1, <2>2, <2>3, <2>4, <2>5, <2>6, <2>7, <2>8
<1> QED
  BY <1>5, <1>6

LEMMA EndResumesPolling ==
    ASSUME IInv, RefreshNotStranded, phase = "up", NEW l \in Lanes, End(l, TRUE)
    PROVE  server'.refreshing
<1> USE Names DEF IInv
<1>1. CASE Resumes(l, TRUE)
  BY <1>1 DEF End, ReserveRefresh, TypeOK
<1>2. CASE ~Resumes(l, TRUE)
  <2>1. worker[l] = "running" /\ Active(l)
    BY DEF End, Exclusion, WorkerHoldsReservation
  <2>2. Settled(l) = IdleLane
    BY <2>1, SettledFrees
  <2>3. \A k \in Lanes : [lane EXCEPT ![l] = Settled(l)][k].status = "idle"
    <3>1. \A k \in Lanes : k # l => lane[k].status = "idle"
      BY <2>1 DEF Exclusion, MutualExclusion, Active
    <3> QED
      BY <2>2, <3>1 DEF IdleLane, TypeOK
  <2>4. worker[Refresh] # "free" \/ server.refreshing
    BY <1>2, <2>3 DEF Resumes, Launchable
  <2>5. worker[Refresh] \in {"free", "pending", "running"}
    BY DEF RefreshNotStranded, TypeOK, WorkerState
  <2>6. server.refreshing
    BY <2>4, <2>5 DEF Exclusion, RefreshReserved
  <2>7. server' = server
    BY <1>2 DEF End
  <2> QED
    BY <2>6, <2>7
<1> QED
  BY <1>1, <1>2

(* Every run that paused model polling resumes it in the step in which its    *)
(* worker leaves, whichever handler reserved the refresh, as long as the app  *)
(* is up and the worker does not leave an orphaned lane.                      *)
THEOREM PollingIsResumed == Spec => PollingResumes
<1>1. Init => RefreshNotStranded
  BY DEF Init, RefreshNotStranded, Workers, Refresh
<1>2. Spec => []RefreshNotStranded
  BY <1>1, RefreshNotStrandedStep, Invariance, PTL DEF Spec
<1> DEFINE Resumed ==
      \A l \in Lanes \ {"speed_test"} :
          phase = "up" /\ worker[l] = "running" /\ worker'[l] = "free"
              => server'.refreshing \/ Orphaned(l)'
<1>3. IInv /\ RefreshNotStranded /\ [Next]_vars => [Resumed]_vars
  BY FreeingCases, EndResumesPolling, LostLane
<1> HIDE DEF Resumed
<1>4. Spec => [][Resumed]_vars
  BY <1>2, <1>3, Invariance, PTL DEF Spec
<1> QED
  BY <1>4 DEF Resumed, PollingResumes

(* What a discovery found replaces the selection only when the server stopped *)
(* announcing it; a failed discovery never does.                              *)
THEOREM SelectionsAreKept == Spec => SelectionKept
<1> DEFINE Kept ==
      (server.refreshing /\ ~server'.refreshing) =>
          \/ server'.selected = server.selected
          \/ server'.status = "online" /\ server.selected \notin server'.available
<1>1. IInv /\ [Next]_vars => [Kept]_vars
  <2> SUFFICES ASSUME IInv, Next PROVE Kept
    OBVIOUS
  <2>1. TypeOK
    BY DEF IInv
  <2>2. CASE RefreshSucceeds
    BY <2>2 DEF RefreshSucceeds, AfterSuccess
  <2>3. CASE \E m \in Models : SelectModel(m)
    BY <2>1, <2>3 DEF SelectModel, TypeOK
  <2> QED
    BY <2>1, <2>2, <2>3, SelectionSteps
<1> HIDE DEF Kept
<1>2. Spec => [][Kept]_vars
  BY <1>1, Invariance, PTL DEF Spec
<1> QED
  BY <1>2 DEF Kept, SelectionKept

-------------------------------------------------------------------------------
(* Dashboard *)

(* What a benchmark is on the screen. *)
Screens ==
    [status : {"ready", "active", "ended"}, config : Configs,
     result : Configs \cup {NoResult}, form : Configs \cup {Invalid},
     ready : BOOLEAN, panel : {"config", "progress", "result"}]

(* A result is there where it is needed.  Between two drawings the panel may  *)
(* be anything; that the next one fits, the flag of the form tells: where it  *)
(* is set the form was asked for, where it is not the form was not asked for  *)
(* since the run ended, or its drawing took the request back.                 *)
Consistent(s, a) ==
    /\ s.status = "ended" \/ s.panel = "result" => s.result # NoResult
    /\ s.status = "active" => a # "stopped"
    /\ s.status # "ready" => IF s.ready THEN a # "no" ELSE a # "stopped"

ScreensInv ==
    /\ bench \in [Benchmarks -> Screens]
    /\ asked \in [Benchmarks -> {"no", "running", "stopped"}]
    /\ stale \in BOOLEAN
    /\ ScreenFits
    /\ \A b \in Benchmarks : Consistent(bench[b], asked[b])

MessagesInv ==
    /\ session \subseteq Configs
    /\ opened \in session \cup {NoResult}
    /\ view \in Views
    /\ dialogs \in Seq(Runs)
    /\ posted \in Seq(Requests)

DInv == ScreensInv /\ MessagesInv

LEMMA DInvTypes == DInv => DashboardTypeOK /\ ScreenFits
  BY DEF DInv, ScreensInv, MessagesInv, DashboardTypeOK, Screens

(* The names of benchmarks and views, without their strings.                  *)
LEMMA BenchmarkNames ==
    /\ SpeedTest \in Benchmarks /\ SpeedTest \notin Asking
    /\ Asking \subseteq Benchmarks /\ Benchmarks \subseteq Views
    /\ "results" \in Views /\ "other" \in Views
    /\ "results" \notin Benchmarks
  BY DEF SpeedTest, Asking, Benchmarks, Views

LEMMA ConfigNames ==
    /\ Configured \in Configs /\ Builtin \in Configs
    /\ NoResult \notin Configs /\ NoResult = Invalid
  BY ConfigsAssumption DEF NoResult

(* The three ways the code rewrites a benchmark's screen.                     *)
LEMMA DrawnIs ==
    ASSUME NEW s \in Screens, NEW a, Consistent(s, a)
    PROVE  /\ Drawn(s) \in Screens /\ Consistent(Drawn(s), a)
           /\ Drawn(s).status = s.status /\ Drawn(s).config = s.config
           /\ s.status = "ready" => Drawn(s).panel = "config"
           /\ s.status = "active" => Drawn(s).panel = "progress"
           /\ s.status = "ended" =>
                 Drawn(s).panel = IF s.ready THEN "config" ELSE "result"
  BY DEF Drawn, Screens, Consistent

LEMMA WithFormIs ==
    ASSUME NEW s \in Screens, NEW c \in Configs
    PROVE  /\ WithForm(s, c) \in Screens
           /\ WithForm(s, c).status = s.status /\ WithForm(s, c).config = s.config
           /\ WithForm(s, c).result = s.result
           /\ WithForm(s, c).ready = TRUE /\ WithForm(s, c).panel = "config"
  BY DEF WithForm, Screens

LEMMA BegunIs ==
    ASSUME NEW s \in Screens, NEW c \in Configs
    PROVE  /\ Begun(s, c) \in Screens
           /\ Begun(s, c).status = "active" /\ Begun(s, c).config = c
           /\ Begun(s, c).result = s.result
           /\ Begun(s, c).ready = FALSE /\ Begun(s, c).panel = s.panel
  BY DEF Begun, Screens

(* A benchmark at a time is changed; what it becomes either waits for a       *)
(* drawing or is the form, which was asked for.                               *)
LEMMA OneChanges ==
    ASSUME ScreensInv, NEW b \in Benchmarks, NEW s \in Screens,
           NEW a \in {"no", "running", "stopped"}, Consistent(s, a),
           bench' = [bench EXCEPT ![b] = s], asked' = [asked EXCEPT ![b] = a],
           \/ stale' = TRUE
           \/ /\ stale' = stale /\ s.panel = "config"
              /\ s.status # "ready" => a = IF s.status = "active" THEN "running" ELSE "stopped"
    PROVE  ScreensInv'
<1>1. /\ bench' \in [Benchmarks -> Screens]
      /\ asked' \in [Benchmarks -> {"no", "running", "stopped"}]
      /\ bench'[b] = s /\ asked'[b] = a
      /\ \A o \in Benchmarks \ {b} : bench'[o] = bench[o] /\ asked'[o] = asked[o]
  BY DEF ScreensInv
<1>2. \A o \in Benchmarks : Consistent(bench'[o], asked'[o])
  BY <1>1 DEF ScreensInv
<1>3. ASSUME ~stale', NEW o \in Benchmarks
      PROVE  bench'[o].panel \in Fitting(o)'
  <2>1. CASE o = b
    <3>1. s.panel = "config" /\ s.status \in {"ready", "active", "ended"}
          /\ (s.status # "ready" => a = IF s.status = "active" THEN "running" ELSE "stopped")
      BY <1>3 DEF Screens
    <3> QED
      BY <1>1, <2>1, <3>1 DEF Fitting
  <2>2. CASE o # b
    <3>1. bench[o].panel \in Fitting(o)
      BY <1>3 DEF ScreensInv, ScreenFits
    <3> QED
      BY <1>1, <2>2, <3>1 DEF Fitting
  <2> QED
    BY <2>1, <2>2
<1>4. ScreenFits'
  BY <1>3 DEF ScreenFits
<1>5. stale' \in BOOLEAN
  BY DEF ScreensInv
<1> QED
  BY <1>1, <1>2, <1>4, <1>5 DEF ScreensInv

(* A run begins: of the benchmarks, this one starts, with what was asked for. *)
LEMMA BeginsKeeps ==
    ASSUME ScreensInv, NEW b \in Benchmarks, NEW s \in Screens, NEW c \in Configs,
           s.panel = "result" => s.result # NoResult,
           Begins(b, s, c)
    PROVE  /\ ScreensInv'
           /\ \A o \in Benchmarks : Starts(o) => o = b /\ bench'[o].config = c
<1>1. Begun(s, c) \in Screens /\ Consistent(Begun(s, c), "no")
  BY BegunIs DEF Consistent
<1>2. ScreensInv'
  BY <1>1, OneChanges DEF Begins
<1>3. ASSUME NEW o \in Benchmarks, Starts(o)
      PROVE  o = b /\ bench'[o].config = c
  <2>1. o = b
    BY <1>3 DEF Begins, Starts, ScreensInv
  <2> QED
    BY <2>1, BegunIs DEF Begins, ScreensInv
<1> QED
  BY <1>2, <1>3

LEMMA NothingStarts ==
    ASSUME ScreensInv, UNCHANGED bench
    PROVE  \A o \in Benchmarks : ~Starts(o)
  BY DEF Starts

LEMMA ScreensUnchanged ==
    ASSUME ScreensInv, UNCHANGED <<bench, asked>>, stale' \in {stale, TRUE}
    PROVE  ScreensInv'
<1>1. stale' \in BOOLEAN
  BY DEF ScreensInv
<1>2. ScreenFits'
  BY DEF ScreensInv, ScreenFits, Fitting
<1> QED
  BY <1>1, <1>2 DEF ScreensInv

LEMMA StartKeeps ==
    ASSUME ScreensInv, NEW b \in Benchmarks, NEW c \in Configs, Start(b, c)
    PROVE  /\ ScreensInv'
           /\ \A o \in Benchmarks : Starts(o) => o = b /\ bench'[o].config = c
<1>1. CASE Begins(b, bench[b], c)
  <2>1. bench[b] \in Screens /\ (bench[b].panel = "result" => bench[b].result # NoResult)
    BY DEF ScreensInv, Consistent
  <2> QED
    BY <1>1, <2>1, BeginsKeeps
<1>2. CASE UNCHANGED <<bench, asked, stale>>
  BY <1>2, ScreensUnchanged, NothingStarts
<1> QED
  BY <1>1, <1>2 DEF Start

(* Without a dialog only what needs none is started.                          *)
LEMMA RequestKeeps ==
    ASSUME ScreensInv, dialogs \in Seq(Runs),
           NEW b \in Benchmarks, NEW c \in Configs, Request(b, c)
    PROVE  /\ ScreensInv' /\ dialogs' \in Seq(Runs)
           /\ \A o \in Benchmarks : Starts(o) => ~Needs(o, bench'[o].config)
<1>1. CASE Needs(b, c)
  <2>1. Confirm(b, c)
    BY <1>1 DEF Request
  <2>2. dialogs' \in Seq(Runs)
    <3>1. [bench |-> b, config |-> c] \in Runs
      BY DEF Runs
    <3> QED
      BY <2>1, <3>1 DEF Confirm
  <2> QED
    BY <2>1, <2>2, ScreensUnchanged, NothingStarts DEF Confirm
<1>2. CASE ~Needs(b, c)
  <2>1. Start(b, c) /\ UNCHANGED dialogs
    BY <1>2 DEF Request
  <2> QED
    BY <1>2, <2>1, StartKeeps
<1> QED
  BY <1>1, <1>2

(* A form is loaded into its panel, asked for from now on.                    *)
LEMMA ShowFormKeeps ==
    ASSUME ScreensInv, NEW b \in Benchmarks, ShowForm(b), stale' \in {stale, TRUE}
    PROVE  ScreensInv' /\ \A o \in Benchmarks : ~Starts(o)
<1> DEFINE s == WithForm(bench[b], bench[b].config)
           a == IF bench[b].status = "active" THEN "running" ELSE "stopped"
<1>1. /\ s \in Screens /\ s.status = bench[b].status /\ s.result = bench[b].result
      /\ s.ready = TRUE /\ s.panel = "config"
  <2>1. bench[b] \in Screens /\ bench[b].config \in Configs
    BY DEF ScreensInv, Screens
  <2> QED
    BY <2>1, WithFormIs
<1>2. Consistent(s, a)
  BY <1>1 DEF ScreensInv, Consistent
<1>3. /\ bench' = [bench EXCEPT ![b] = s] /\ asked' = [asked EXCEPT ![b] = a]
  BY DEF ShowForm, ScreensInv
<1> HIDE DEF s
<1>4. ScreensInv'
  BY <1>1, <1>2, <1>3, OneChanges
<1>5. \A o \in Benchmarks : ~Starts(o)
  BY <1>1, <1>3 DEF Starts, ScreensInv
<1> QED
  BY <1>4, <1>5

(* Of the Speed Test, which no dialog warns of.                               *)
LEMMA SpeedTestAgainKeeps ==
    ASSUME DInv, NEW c \in Configs, SpeedTestAgain(c)
    PROVE  /\ ScreensInv' /\ opened' \in {opened, NoResult} /\ view' \in Views
           /\ \A o \in Benchmarks : Starts(o) => o = SpeedTest
<1> DEFINE s == WithForm(bench[SpeedTest], c)
<1>1. /\ s \in Screens /\ s.status = bench[SpeedTest].status
      /\ s.result = bench[SpeedTest].result /\ s.ready = TRUE /\ s.panel = "config"
  <2>1. bench[SpeedTest] \in Screens
    BY BenchmarkNames DEF DInv, ScreensInv
  <2> QED
    BY <2>1, WithFormIs
<1>2. opened' \in {opened, NoResult} /\ view' \in Views
  BY BenchmarkNames DEF SpeedTestAgain, DInv, MessagesInv
<1>3. CASE UNCHANGED <<bench, opened, view, asked, stale>>
  BY <1>2, <1>3, ScreensUnchanged, NothingStarts DEF DInv
<1>4. CASE Begins(SpeedTest, s, c)
  <2> HIDE DEF s
  <2>1. /\ ScreensInv'
        /\ \A o \in Benchmarks : Starts(o) => o = SpeedTest /\ bench'[o].config = c
    BY <1>1, <1>4, BeginsKeeps, BenchmarkNames DEF DInv
  <2> QED
    BY <1>2, <2>1
<1>5. CASE /\ bench[SpeedTest].status # "active" /\ stale' = TRUE
           /\ bench' = [bench EXCEPT ![SpeedTest] = s]
           /\ asked' = [asked EXCEPT ![SpeedTest] = "stopped"]
  <2>1. Consistent(s, "stopped")
    BY <1>1, <1>5, BenchmarkNames DEF DInv, ScreensInv, Consistent
  <2> HIDE DEF s
  <2>2. ScreensInv'
    BY <1>1, <1>5, <2>1, OneChanges, BenchmarkNames DEF DInv
  <2>3. \A o \in Benchmarks : ~Starts(o)
    BY <1>1, <1>5, BenchmarkNames DEF Starts, DInv, ScreensInv
  <2> QED
    BY <1>2, <2>2, <2>3
<1>6. \/ UNCHANGED <<bench, opened, view, asked, stale>>
      \/ Begins(SpeedTest, s, c)
      \/ /\ bench[SpeedTest].status # "active" /\ stale' = TRUE
         /\ bench' = [bench EXCEPT ![SpeedTest] = s]
         /\ asked' = [asked EXCEPT ![SpeedTest] = "stopped"]
  BY DEF SpeedTestAgain
<1> HIDE DEF s
<1> QED
  BY <1>3, <1>4, <1>5, <1>6

(* No more than the answered dialog is started of what a dialog warns of.     *)
Confirmed ==
    \A b \in Benchmarks :
       Starts(b) /\ b \in Asking /\ bench'[b].config \in Large =>
          /\ Modal /\ dialogs' = Tail(dialogs)
          /\ dialogs[1] = [bench |-> b, config |-> bench'[b].config]

LEMMA Unstarted ==
    ASSUME \A o \in Benchmarks : Starts(o) => o = SpeedTest \/ ~Needs(o, bench'[o].config)
    PROVE  Confirmed
  BY BenchmarkNames DEF Confirmed, Needs

LEMMA DashboardStarts == DashboardInit => DInv
<1> SUFFICES ASSUME DashboardInit
             PROVE  DInv
  OBVIOUS
<1>1. ASSUME NEW b \in Benchmarks
      PROVE  Mounted(b) \in Screens /\ Consistent(Mounted(b), "no") /\ Mounted(b).panel = "config"
             /\ Mounted(b).status = "ready"
  <2>1. LaneDefault(b) \in Configs /\ Loaded(b) \in Configs
    BY ConfigNames DEF LaneDefault, Loaded
  <2> QED
    BY <2>1 DEF Mounted, Screens, Consistent
<1>2. /\ bench \in [Benchmarks -> Screens]
      /\ \A b \in Benchmarks : /\ bench[b] = Mounted(b)
                               /\ Consistent(bench[b], asked[b])
  BY <1>1 DEF DashboardInit
<1>3. ScreenFits
  BY <1>1, <1>2 DEF ScreenFits, Fitting
<1>4. ScreensInv
  <2>1. asked \in [Benchmarks -> {"no", "running", "stopped"}] /\ stale = FALSE
    BY DEF DashboardInit
  <2> QED
    BY <1>2, <1>3, <2>1 DEF ScreensInv
<1>5. MessagesInv
  BY BenchmarkNames DEF DashboardInit, MessagesInv
<1> QED
  BY <1>4, <1>5 DEF DInv

(* The messages: those that wait, and the one that is handled.                *)
LEMMA PostedIs ==
    ASSUME MessagesInv, posted # <<>>
    PROVE  posted[1] \in Requests /\ Tail(posted) \in Seq(Requests)
  BY DEF MessagesInv

LEMMA DialogIs ==
    ASSUME MessagesInv, Modal
    PROVE  dialogs[1] \in Runs /\ Tail(dialogs) \in Seq(Runs)
  BY DEF MessagesInv, Modal

LEMMA PostKeepsScreens ==
    ASSUME DInv, NEW asks \in {"start", "again", "edit"}, NEW b \in Benchmarks,
           NEW c \in Configs, Post(asks, b, c)
    PROVE  DInv' /\ Confirmed
<1>1. [asks |-> asks, bench |-> b, config |-> c] \in Requests
  BY DEF Requests
<1>2. posted' \in Seq(Requests)
  BY <1>1 DEF Post, DInv, MessagesInv
<1>3. ScreensInv' /\ Confirmed
  BY ScreensUnchanged, NothingStarts, Unstarted DEF Post, DInv
<1> QED
  BY <1>2, <1>3 DEF Post, DInv, MessagesInv

LEMMA DrawKeeps ==
    ASSUME DInv, Draw
    PROVE  DInv' /\ Confirmed
<1>1. \A b \in Benchmarks : bench[b] \in Screens /\ Consistent(bench[b], asked[b])
  BY DEF DInv, ScreensInv
<1>2. \A b \in Benchmarks : bench'[b] = Drawn(bench[b]) /\ asked'[b] = asked[b]
  BY DEF Draw
<1>3. /\ bench' \in [Benchmarks -> Screens]
      /\ \A b \in Benchmarks : Consistent(bench'[b], asked'[b])
  BY <1>1, <1>2, DrawnIs DEF Draw
<1>4. ASSUME NEW b \in Benchmarks
      PROVE  bench'[b].panel \in Fitting(b)'
  <2> DEFINE s == bench[b]
             d == Drawn(bench[b])
  <2>1. /\ s.status \in {"ready", "active", "ended"} /\ Consistent(s, asked[b])
        /\ d.status = s.status
        /\ s.status = "ready" => d.panel = "config"
        /\ s.status = "active" => d.panel = "progress"
        /\ s.status = "ended" => d.panel = IF s.ready THEN "config" ELSE "result"
    BY <1>1, DrawnIs DEF Screens
  <2>2. bench'[b] = d /\ asked'[b] = asked[b]
    BY <1>2
  <2> HIDE DEF s, d
  <2> QED
    BY <2>1, <2>2 DEF Fitting, Consistent
<1>5. ScreensInv'
  BY <1>3, <1>4 DEF Draw, DInv, ScreensInv, ScreenFits
<1>6. \A b \in Benchmarks : ~Starts(b)
  BY <1>1, <1>2, DrawnIs DEF Starts
<1> QED
  BY <1>5, <1>6, Unstarted DEF Draw, DInv, MessagesInv

LEMMA RunEndsKeeps ==
    ASSUME DInv, NEW b \in Benchmarks, RunEnds(b)
    PROVE  DInv' /\ Confirmed
<1> DEFINE s == [bench[b] EXCEPT !.status = "ended", !.result = bench[b].config]
<1>1. bench[b] \in Screens /\ bench[b].config \in Configs /\ Consistent(bench[b], asked[b])
  BY DEF DInv, ScreensInv, Screens
<1>2. /\ s \in Screens /\ s.status = "ended" /\ s.result = bench[b].config
      /\ s.ready = bench[b].ready
  BY <1>1 DEF Screens
<1>3. Consistent(s, asked[b])
  <2>1. bench[b].status = "active" /\ s.result # NoResult
    BY <1>1, <1>2, ConfigNames DEF RunEnds
  <2> QED
    BY <1>1, <1>2, <2>1 DEF Consistent
<1>4. /\ bench' = [bench EXCEPT ![b] = s] /\ asked' = [asked EXCEPT ![b] = asked[b]]
      /\ stale' = TRUE /\ asked[b] \in {"no", "running", "stopped"}
  BY DEF RunEnds, DInv, ScreensInv
<1>5. session' \subseteq Configs /\ session \subseteq session'
  BY <1>1 DEF RunEnds, DInv, MessagesInv
<1> HIDE DEF s
<1>6. ScreensInv'
  BY <1>2, <1>3, <1>4, OneChanges DEF DInv
<1>7. \A o \in Benchmarks : ~Starts(o)
  BY <1>2, <1>4 DEF Starts, DInv, ScreensInv
<1>8. opened' \in session' \cup {NoResult}
  BY <1>5 DEF RunEnds, DInv, MessagesInv
<1> QED
  BY <1>5, <1>6, <1>7, <1>8, Unstarted DEF RunEnds, DInv, MessagesInv

LEMMA RunOrRerunKeeps ==
    ASSUME DInv, RunOrRerun
    PROVE  DInv' /\ Confirmed
<1>1. ASSUME view \in Benchmarks, NEW c \in Configs, Request(view, c),
             UNCHANGED <<session, opened, view, posted>>
      PROVE  DInv' /\ Confirmed
  <2>1. /\ ScreensInv' /\ dialogs' \in Seq(Runs)
        /\ \A o \in Benchmarks : Starts(o) => ~Needs(o, bench'[o].config)
    BY <1>1, RequestKeeps DEF DInv, MessagesInv
  <2> QED
    BY <1>1, <2>1, Unstarted DEF DInv, MessagesInv
<1>2. ASSUME NEW c \in Configs, SpeedTestAgain(c), UNCHANGED <<session, dialogs, posted>>
      PROVE  DInv' /\ Confirmed
  <2>1. /\ ScreensInv' /\ opened' \in {opened, NoResult} /\ view' \in Views
        /\ \A o \in Benchmarks : Starts(o) => o = SpeedTest
    BY <1>2, SpeedTestAgainKeeps
  <2> QED
    BY <1>2, <2>1, Unstarted DEF DInv, MessagesInv
<1>3. \A b \in Benchmarks :
         /\ bench[b].result \in Configs \cup {NoResult}
         /\ bench[b].form \in Configs \cup {Invalid}
         /\ bench[b].status = "ended" => bench[b].result # NoResult
  BY DEF DInv, ScreensInv, Screens, Consistent
<1>4. opened # NoResult => opened \in Configs
  BY DEF DInv, MessagesInv
<1>5. CASE /\ view \in Benchmarks \ {SpeedTest}
           /\ IF bench[view].status = "ended" /\ bench[view].result # NoResult
              THEN Request(view, bench[view].result)
              ELSE bench[view].form # Invalid /\ Request(view, bench[view].form)
           /\ UNCHANGED <<session, opened, view, posted>>
  <2>1. \E c \in Configs : Request(view, c)
    BY <1>3, <1>5
  <2> QED
    BY <1>1, <1>5, <2>1
<1>6. CASE /\ view = SpeedTest /\ bench[view].status = "ended"
           /\ SpeedTestAgain(bench[view].result)
           /\ UNCHANGED <<session, dialogs, posted>>
  BY <1>2, <1>3, <1>6, BenchmarkNames
<1>7. CASE /\ opened # NoResult /\ SpeedTestAgain(opened)
           /\ UNCHANGED <<session, dialogs, posted>>
  BY <1>2, <1>4, <1>7
<1> QED
  BY <1>5, <1>6, <1>7 DEF RunOrRerun

LEMMA GoBackKeeps ==
    ASSUME DInv, EditAgain \/ GoBack
    PROVE  DInv' /\ Confirmed
<1>1. CASE EditAgain
  <2>1. ScreensInv' /\ \A o \in Benchmarks : ~Starts(o)
    BY <1>1, ShowFormKeeps DEF EditAgain, DInv
  <2> QED
    BY <1>1, <2>1, Unstarted DEF EditAgain, DInv, MessagesInv
<1>2. CASE /\ view = SpeedTest /\ bench[view].status = "ended"
           /\ bench' = [bench EXCEPT ![view] =
                  [WithForm(@, @.config) EXCEPT !.status = "ready"]]
           /\ asked' = [asked EXCEPT ![view] = "stopped"]
           /\ stale' = TRUE
           /\ UNCHANGED <<session, opened, view, dialogs, posted>>
  <2> DEFINE s == [WithForm(bench[view], bench[view].config) EXCEPT !.status = "ready"]
  <2>1. view \in Benchmarks /\ bench[view] \in Screens
    BY <1>2, BenchmarkNames DEF DInv, ScreensInv
  <2>2. s \in Screens /\ s.status = "ready" /\ s.panel = "config"
    <3>1. bench[view].config \in Configs
      BY <2>1 DEF Screens
    <3>2. /\ WithForm(bench[view], bench[view].config) \in Screens
          /\ WithForm(bench[view], bench[view].config).panel = "config"
      BY <2>1, <3>1, WithFormIs
    <3> QED
      BY <3>2 DEF Screens
  <2>3. Consistent(s, "stopped")
    BY <2>2 DEF Consistent
  <2>4. bench' = [bench EXCEPT ![view] = s]
    BY <1>2 DEF DInv, ScreensInv
  <2> HIDE DEF s
  <2>5. ScreensInv'
    BY <1>2, <2>1, <2>2, <2>3, <2>4, OneChanges DEF DInv
  <2>6. \A o \in Benchmarks : ~Starts(o)
    BY <2>1, <2>2, <2>4 DEF Starts, DInv, ScreensInv
  <2> QED
    BY <1>2, <2>5, <2>6, Unstarted DEF DInv, MessagesInv
<1>3. CASE /\ view = "results" /\ opened' = NoResult
           /\ view' = (IF opened # NoResult THEN view ELSE SpeedTest)
           /\ stale' = TRUE
           /\ UNCHANGED <<bench, session, dialogs, posted, asked>>
  <2>1. ScreensInv' /\ Confirmed
    BY <1>3, ScreensUnchanged, NothingStarts, Unstarted DEF DInv
  <2> QED
    BY <1>3, <2>1, BenchmarkNames DEF DInv, MessagesInv
<1> QED
  BY <1>1, <1>2, <1>3 DEF GoBack

LEMMA EditFormKeeps ==
    ASSUME DInv, EditForm
    PROVE  DInv' /\ Confirmed
<1>1. PICK c \in Configs \cup {Invalid} : bench' = [bench EXCEPT ![view].form = c]
  BY DEF EditForm
<1> DEFINE s == [bench[view] EXCEPT !.form = c]
<1>2. view \in Benchmarks /\ bench[view] \in Screens
  BY DEF EditForm, Visible, DInv, ScreensInv
<1>3. /\ s \in Screens /\ s.status = bench[view].status /\ s.result = bench[view].result
      /\ s.ready = bench[view].ready /\ s.panel = bench[view].panel
  BY <1>2 DEF Screens
<1>4. bench' = [bench EXCEPT ![view] = s]
  BY <1>1
<1> HIDE DEF s
<1>5. /\ bench' \in [Benchmarks -> Screens] /\ bench'[view] = s
      /\ \A o \in Benchmarks \ {view} : bench'[o] = bench[o]
  BY <1>2, <1>3, <1>4 DEF DInv, ScreensInv
<1>6. ASSUME NEW o \in Benchmarks
      PROVE  /\ bench'[o].status = bench[o].status /\ bench'[o].panel = bench[o].panel
             /\ Consistent(bench'[o], asked[o])
  BY <1>3, <1>5 DEF DInv, ScreensInv, Consistent
<1>7. UNCHANGED <<session, opened, view, dialogs, posted, stale, asked>>
  BY <1>2 DEF EditForm, DInv, ScreensInv
<1>8. ScreenFits'
  BY <1>6, <1>7 DEF DInv, ScreensInv, ScreenFits, Fitting
<1>9. \A o \in Benchmarks : ~Starts(o)
  BY <1>6 DEF Starts
<1> QED
  BY <1>5, <1>6, <1>7, <1>8, <1>9, Unstarted DEF DInv, ScreensInv, MessagesInv

LEMMA HandleKeeps ==
    ASSUME DInv, HandleStart \/ HandleAgain \/ HandleSpeedTestAgain \/ HandleEdit
    PROVE  DInv' /\ Confirmed
<1>1. /\ posted[1] \in Requests /\ posted[1].bench \in Benchmarks
      /\ posted[1].config \in Configs /\ posted' \in Seq(Requests)
  <2>1. posted # <<>> /\ posted' = Tail(posted)
    BY DEF HandleStart, HandleAgain, HandleSpeedTestAgain, HandleEdit
  <2> QED
    BY <2>1, PostedIs DEF DInv, Requests
<1> DEFINE b == posted[1].bench
<1>2. CASE HandleStart \/ HandleAgain
  <2>1. /\ ScreensInv' /\ dialogs' \in Seq(Runs)
        /\ \A o \in Benchmarks : Starts(o) => ~Needs(o, bench'[o].config)
    <3>1. ASSUME NEW c \in Configs, Request(b, c)
          PROVE  /\ ScreensInv' /\ dialogs' \in Seq(Runs)
                 /\ \A o \in Benchmarks : Starts(o) => ~Needs(o, bench'[o].config)
      BY <1>1, <3>1, RequestKeeps DEF DInv, MessagesInv
    <3>2. CASE UNCHANGED <<bench, dialogs, asked, stale>>
      BY <3>2, ScreensUnchanged, NothingStarts DEF DInv, MessagesInv
    <3>3. bench[b].result \in Configs \cup {NoResult}
      BY <1>1 DEF DInv, ScreensInv, Screens
    <3> QED
      BY <1>1, <1>2, <3>1, <3>2, <3>3 DEF HandleStart, HandleAgain, RunAgain
  <2>2. UNCHANGED <<session, opened, view>>
    BY <1>2 DEF HandleStart, HandleAgain
  <2> QED
    BY <1>1, <2>1, <2>2, Unstarted DEF DInv, MessagesInv
<1>3. CASE HandleSpeedTestAgain
  <2>1. /\ ScreensInv' /\ opened' \in {opened, NoResult} /\ view' \in Views
        /\ \A o \in Benchmarks : Starts(o) => o = SpeedTest
    BY <1>1, <1>3, SpeedTestAgainKeeps DEF HandleSpeedTestAgain
  <2> QED
    BY <1>1, <1>3, <2>1, Unstarted DEF HandleSpeedTestAgain, DInv, MessagesInv
<1>4. CASE HandleEdit
  <2>1. ScreensInv' /\ \A o \in Benchmarks : ~Starts(o)
    BY <1>1, <1>4, ShowFormKeeps DEF HandleEdit, DInv
  <2> QED
    BY <1>1, <1>4, <2>1, Unstarted DEF HandleEdit, DInv, MessagesInv
<1> QED
  BY <1>2, <1>3, <1>4

LEMMA AnswerKeeps ==
    ASSUME DInv, AnswerDialog
    PROVE  DInv' /\ Confirmed
<1> DEFINE b == dialogs[1].bench
           c == dialogs[1].config
<1>1. /\ b \in Benchmarks /\ c \in Configs /\ dialogs' \in Seq(Runs)
      /\ dialogs[1] = [bench |-> b, config |-> c]
  BY DialogIs DEF AnswerDialog, DInv, Runs
<1>2. ScreensInv' /\ \A o \in Benchmarks : Starts(o) => o = b /\ bench'[o].config = c
  <2>1. CASE Start(b, c)
    BY <1>1, <2>1, StartKeeps DEF DInv
  <2>2. CASE UNCHANGED <<bench, asked, stale>>
    BY <2>2, ScreensUnchanged, NothingStarts DEF DInv
  <2> QED
    BY <2>1, <2>2 DEF AnswerDialog
<1>3. Confirmed
  BY <1>1, <1>2 DEF AnswerDialog, Confirmed
<1> QED
  BY <1>1, <1>2, <1>3 DEF AnswerDialog, DInv, MessagesInv

LEMMA DashboardStep ==
    ASSUME DInv, [DashboardNext]_dashboardVars
    PROVE  DInv' /\ [Confirmed]_dashboardVars
<1>1. CASE UNCHANGED dashboardVars
  <2>1. ScreensInv'
    BY <1>1, ScreensUnchanged DEF dashboardVars, DInv
  <2> QED
    BY <1>1, <2>1 DEF dashboardVars, DInv, MessagesInv
<1>2. CASE RunOrRerun \/ EditAgain \/ GoBack \/ EditForm
  BY <1>2, RunOrRerunKeeps, GoBackKeeps, EditFormKeeps
<1>3. ASSUME UNCHANGED <<bench, session, dialogs, posted, asked>>,
             stale' = TRUE, opened' \in session \cup {NoResult}, view' \in Views
      PROVE  DInv' /\ Confirmed
  <2>1. ScreensInv' /\ Confirmed
    BY <1>3, ScreensUnchanged, NothingStarts, Unstarted DEF DInv
  <2> QED
    BY <1>3, <2>1 DEF DInv, MessagesInv
<1>4. CASE (\E v \in Views : SelectWorkspace(v)) \/ OpenSpeedTest \/ OtherStateChange
  <2>1. opened \in session \cup {NoResult} /\ view \in Views
    BY DEF DInv, MessagesInv
  <2> QED
    BY <1>3, <1>4, <2>1 DEF SelectWorkspace, OpenSpeedTest, OtherStateChange
<1>5. CASE PressStart \/ \E asks \in {"again", "edit"} : PressResult(asks)
  <2>1. /\ view \in Benchmarks
        /\ bench[view].form \in Configs \cup {Invalid}
        /\ bench[view].result \in Configs \cup {NoResult}
        /\ bench[view].panel = "result" => bench[view].result # NoResult
    BY <1>5 DEF PressStart, PressResult, Visible, DInv, ScreensInv, Screens, Consistent
  <2> QED
    BY <1>5, <2>1, PostKeepsScreens DEF PressStart, PressResult, Visible
<1>6. CASE HandleStart \/ HandleAgain \/ HandleSpeedTestAgain \/ HandleEdit \/ AnswerDialog \/ Draw
  BY <1>6, HandleKeeps, AnswerKeeps, DrawKeeps
<1>7. CASE \E b \in Benchmarks : RunEnds(b)
  BY <1>7, RunEndsKeeps
<1> QED
  BY <1>1, <1>2, <1>4, <1>5, <1>6, <1>7 DEF DashboardNext

(* Whatever the keys, the messages and the dialogs above dialogs: every panel *)
(* that is drawn fits its lane, and a run its benchmark warns of starts only  *)
(* by the answer to the dialog about it.                                      *)
THEOREM RunsAreSeenAndConfirmed == DashboardSpec => RunsAreSeen
<1>1. DInv /\ [DashboardNext]_dashboardVars => DInv'
  BY DashboardStep
<1>2. DInv /\ [DashboardNext]_dashboardVars => [Confirmed]_dashboardVars
  BY DashboardStep
<1>3. DashboardSpec => []DInv /\ [][Confirmed]_dashboardVars
  BY <1>1, <1>2, DashboardStarts, PTL DEF DashboardSpec
<1>4. []DInv => [](DashboardTypeOK /\ ScreenFits)
  BY DInvTypes, PTL
<1>5. [][Confirmed]_dashboardVars <=> ConfirmedFirst
  BY DEF Confirmed, ConfirmedFirst
<1> QED
  BY <1>3, <1>4, <1>5 DEF RunsAreSeen

=============================================================================
