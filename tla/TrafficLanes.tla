---------------------------- MODULE TrafficLanes ----------------------------
(* The traffic arbitration of ModelTop: six benchmark services and Chat, each *)
(* with a lane of ApplicationState; the server monitor and its discovery; the *)
(* Textual workers ModelTopApp starts, cancels and awaits.  Everything runs   *)
(* on one event loop, so a step is what happens between two awaits: a message *)
(* handler, a timer, a worker's entry, the resumption that ends a worker.     *)
(* Definitions named M_... are deliberate mistakes: each stands for a bug the *)
(* code could have in the definition after it, and no behaviour uses them.    *)
EXTENDS Naturals

CONSTANTS
    Models,             \* ids a server may announce, ordered as the code sorts
    NoModel,            \* None: nothing is selected
    Default,            \* server.default_model, or NoModel
    MaxReservations     \* bound on reservations in one behaviour

ASSUME ModelsAssumption ==
    /\ Models \subseteq Nat
    /\ NoModel \notin Models
    /\ Default \in Models \cup {NoModel}

ASSUME BoundAssumption == MaxReservations \in Nat

Lanes == {"speed_test", "concurrency", "context", "tool_calling", "r0b0bench",
          "drafter"}

Chat == "chat"

Users == Lanes \cup {Chat}

Refresh == "refresh"            \* the worker that runs discovery

Workers == Users \cup {Refresh}

Quiet == {"concurrency", "context", "tool_calling", "r0b0bench"}

Ids == 1 .. MaxReservations

NoReservation == [id |-> 0, model |-> NoModel]

IdleLane == [status |-> "idle", id |-> 0]

NoProbe == [preserve |-> FALSE, prior |-> NoModel]

VARIABLES
    server,     \* ApplicationState: server status, is_refreshing, models
    monitor,    \* ServerMonitor: _refresh_pending, _preserve_online_on_failure
    probe,      \* what a running refresh read at its entry
    lane,       \* per user: status and active id ("idle": IDLE or terminal)
    pending,    \* per user: the app's _pending_x, which its worker carries
    worker,     \* per worker: free (None or finished), pending, running, stranded
    cancelled,  \* workers whose task has a cancellation to deliver
    published,  \* per reservation: terminal results published
    nextId,     \* the next fresh reservation id
    phase       \* up, stopping (on_unmount), stopped

vars == <<server, monitor, probe, lane, pending, worker, cancelled, published,
          nextId, phase>>

ServerStatus == {"connecting", "online", "offline", "error"}

LaneStatus == {"idle", "reserved", "running", "cancelling"}

WorkerState == {"free", "pending", "running", "stranded"}

TypeOK ==
    /\ server \in [status : ServerStatus, refreshing : BOOLEAN,
                   selected : Models \cup {NoModel}, available : SUBSET Models]
    /\ monitor \in [pending : BOOLEAN, preserve : BOOLEAN]
    /\ probe \in [preserve : BOOLEAN, prior : Models \cup {NoModel}]
    /\ lane \in [Users -> [status : LaneStatus, id : Nat]]
    /\ pending \in [Users -> [id : Nat, model : Models \cup {NoModel}]]
    /\ worker \in [Workers -> WorkerState]
    /\ cancelled \subseteq Workers
    /\ published \in [Ids -> Nat]
    /\ nextId \in Nat \ {0}
    /\ phase \in {"up", "stopping", "stopped"}

-----------------------------------------------------------------------------
(* Reading the state *)

Active(u) == lane[u].status # "idle"

BenchmarkActive == \E l \in Lanes : Active(l)

(* The worker passed its entry check and its task can still be resumed with *)
(* a value: a delivered cancellation raises at the next resumption.         *)
Resumable(w) == worker[w] = "running" /\ w \notin cancelled

(* Its worker left without a result and the app forgot the reservation: no    *)
(* later step ends this lane.                                                 *)
Orphaned(u) ==
    /\ u = "r0b0bench"
    /\ lane[u].status \in {"running", "cancelling"}
    /\ worker[u] = "free" /\ pending[u] = NoReservation

(* The library of this run swallowed the cancellation and went on. *)
Ignored(u) ==
    /\ u = "tool_calling"
    /\ lane[u].status = "cancelling"
    /\ worker[u] = "running" /\ u \notin cancelled

-----------------------------------------------------------------------------
(* Discovery: launching a refresh *)

M_IgnoresLane(lanes) == worker[Refresh] = "free" /\ ~server.refreshing

(* _launch_refresh and begin_refresh reserve discovery only when its worker is *)
(* finished, no refresh is reserved and no benchmark lane is active.  Chat     *)
(* does not stand in the way.                                                  *)
Launchable(lanes) ==
    /\ worker[Refresh] = "free"
    /\ ~server.refreshing
    /\ \A l \in Lanes : lanes[l].status = "idle"

(* The reservation itself: an ONLINE server stays ONLINE while it is probed. *)
ReserveRefresh(preserve) ==
    /\ server' = [server EXCEPT !.refreshing = TRUE,
                     !.status = IF @ = "online" THEN @ ELSE "connecting"]
    /\ monitor' = [pending |-> TRUE,
                   preserve |-> preserve /\ server.status = "online"]

LaunchRefresh(preserve) ==
    /\ phase = "up"
    /\ Launchable(lane)
    /\ ReserveRefresh(preserve)
    /\ worker' = [worker EXCEPT ![Refresh] = "pending"]
    /\ UNCHANGED <<probe, lane, pending, cancelled, published, nextId, phase>>

AutomaticRefresh == LaunchRefresh(TRUE)

ManualRefresh == LaunchRefresh(FALSE)

-----------------------------------------------------------------------------
(* Discovery: the refresh worker *)

EnterRefresh ==
    /\ worker[Refresh] = "pending"
    /\ monitor.pending
    /\ probe' = [preserve |-> monitor.preserve, prior |-> server.selected]
    /\ monitor' = [pending |-> FALSE, preserve |-> FALSE]
    /\ worker' = [worker EXCEPT ![Refresh] = "running"]
    /\ UNCHANGED <<server, lane, pending, cancelled, published, nextId, phase>>

M_DefaultUnchecked(prior, fresh, found) ==
    \/ prior \in fresh /\ found = prior
    \/ prior \notin fresh /\ Default # NoModel /\ found = Default
    \/ /\ prior \notin fresh /\ Default = NoModel
       /\ found \in fresh
       /\ \A m \in fresh : found <= m
    \/ fresh = {} /\ found = NoModel

(* The precedence of ModelDiscoveryService.discover over fresh ids: the prior *)
(* selection, else the configured default, else the first sorted id.          *)
Discovered(prior, fresh, found) ==
    \/ prior \in fresh /\ found = prior
    \/ prior \notin fresh /\ Default \in fresh /\ found = Default
    \/ /\ {prior, Default} \cap fresh = {}
       /\ found \in fresh
       /\ \A m \in fresh : found <= m
    \/ fresh = {} /\ found = NoModel

M_PriorWins(fresh, found) ==
    [status |-> "online", refreshing |-> FALSE, selected |-> found,
     available |-> fresh]

(* A selection made since the refresh was entered wins if it is still fresh. *)
AfterSuccess(fresh, found) ==
    [status |-> "online", refreshing |-> FALSE,
     selected |-> IF server.selected \in fresh THEN server.selected ELSE found,
     available |-> fresh]

RefreshSucceeds ==
    /\ Resumable(Refresh)
    /\ \E fresh \in SUBSET Models, found \in Models \cup {NoModel} :
          /\ Discovered(probe.prior, fresh, found)
          /\ server' = AfterSuccess(fresh, found)
    /\ probe' = NoProbe
    /\ worker' = [worker EXCEPT ![Refresh] = "free"]
    /\ UNCHANGED <<monitor, lane, pending, cancelled, published, nextId, phase>>

M_FlagKept(failure) ==
    [server EXCEPT !.refreshing = probe.preserve,
                   !.status = IF probe.preserve THEN "online" ELSE failure]

M_OtherEnum(failure) ==
    [server EXCEPT !.refreshing = FALSE,
                   !.status = IF probe.preserve THEN "online" ELSE "failed"]

(* An expected or unexpected failure: ONLINE is kept when the refresh was *)
(* reserved with preservation on an ONLINE server.                        *)
AfterFailure(failure) ==
    [server EXCEPT !.refreshing = FALSE,
                   !.status = IF probe.preserve THEN "online" ELSE failure]

RefreshFails ==
    /\ Resumable(Refresh)
    /\ \E failure \in {"offline", "error"} : server' = AfterFailure(failure)
    /\ probe' = NoProbe
    /\ worker' = [worker EXCEPT ![Refresh] = "free"]
    /\ UNCHANGED <<monitor, lane, pending, cancelled, published, nextId, phase>>

(* A cancelled refresh publishes nothing: is_refreshing stays set. *)
RefreshDropped ==
    /\ worker[Refresh] = "running"
    /\ Refresh \in cancelled
    /\ probe' = NoProbe
    /\ worker' = [worker EXCEPT ![Refresh] = "free"]
    /\ cancelled' = cancelled \ {Refresh}
    /\ UNCHANGED <<server, monitor, lane, pending, published, nextId, phase>>

M_SelectableAnytime(m) == server.status = "online" /\ m \in server.available

Selectable(m) ==
    /\ ~BenchmarkActive
    /\ server.status = "online"
    /\ m \in server.available

SelectModel(m) ==
    /\ phase = "up"
    /\ Selectable(m)
    /\ server' = [server EXCEPT !.selected = m]
    /\ UNCHANGED <<monitor, probe, lane, pending, worker, cancelled, published,
                   nextId, phase>>

-----------------------------------------------------------------------------
(* Lanes: reservation.  The app refuses a lane whose last worker is not       *)
(* finished; the service's reserve transform refuses while any lane or Chat   *)
(* is active, offline, or without a selection, and captures the selection.    *)

M_ReservableBesideChat ==
    /\ ~BenchmarkActive
    /\ server.status = "online"
    /\ server.selected # NoModel

Reservable ==
    /\ \A v \in Users : ~Active(v)
    /\ server.status = "online"
    /\ server.selected # NoModel

Begin(u) ==
    /\ phase = "up"
    /\ nextId \in Ids
    /\ worker[u] = "free"
    /\ Reservable
    /\ lane' = [lane EXCEPT ![u] = [status |-> "reserved", id |-> nextId]]
    /\ pending' = [pending EXCEPT ![u] =
                       [id |-> nextId, model |-> server.selected]]
    /\ worker' = [worker EXCEPT ![u] = "pending"]
    /\ nextId' = nextId + 1
    /\ UNCHANGED <<server, monitor, probe, cancelled, published, phase>>

M_BeginDuringDiscovery == Begin("tool_calling")

(* Four services also refuse while a refresh is reserved or in flight. *)
BeginConcurrency == ~server.refreshing /\ Begin("concurrency")

BeginContext == ~server.refreshing /\ Begin("context")

BeginToolCalling == ~server.refreshing /\ Begin("tool_calling")

BeginR0b0bench == ~server.refreshing /\ Begin("r0b0bench")

(* The other two, and Chat, do not look at is_refreshing. *)
BeginSpeedTest == Begin("speed_test")

BeginDrafter == Begin("drafter")

BeginChat == Begin(Chat)

-----------------------------------------------------------------------------
(* Lanes: the worker enters its service *)

Enter(u, status) ==
    /\ worker[u] = "pending"
    /\ lane[u].id = pending[u].id
    /\ worker' = [worker EXCEPT ![u] = "running"]
    /\ lane' = [lane EXCEPT ![u].status = status]
    /\ UNCHANGED <<server, monitor, probe, pending, cancelled, published,
                   nextId, phase>>

(* Two entries accept any active status of their reservation; the first       *)
(* request's status is published before the first await.                      *)
EnterSpeedTest == Active("speed_test") /\ Enter("speed_test", "running")

EnterDrafter == Active("drafter") /\ Enter("drafter", "running")

(* Four entries insist on the status of the reservation.  r0b0bench stays     *)
(* VALIDATING until its runner has prepared the child.                        *)
EnterConcurrency ==
    lane["concurrency"].status = "reserved" /\ Enter("concurrency", "running")

EnterContext == lane["context"].status = "reserved" /\ Enter("context", "running")

EnterToolCalling ==
    lane["tool_calling"].status = "reserved" /\ Enter("tool_calling", "running")

EnterR0b0bench ==
    lane["r0b0bench"].status = "reserved" /\ Enter("r0b0bench", "reserved")

(* A generation stays STARTING until its first progress. *)
EnterChat == Enter(Chat, "reserved")

-----------------------------------------------------------------------------
(* Lanes: what a running worker publishes before its end *)

Publish(u, status) ==
    /\ worker[u] = "running"
    /\ lane[u].id = pending[u].id
    /\ lane' = [lane EXCEPT ![u].status = status]
    /\ UNCHANGED <<server, monitor, probe, pending, worker, cancelled, published,
                   nextId, phase>>

(* runner.prepare returned; a cancellation would have been raised instead. *)
R0b0benchPrepared ==
    /\ lane["r0b0bench"].status = "reserved"
    /\ Resumable("r0b0bench")
    /\ Publish("r0b0bench", "running")

ChatProgress ==
    lane[Chat].status = "reserved" /\ Resumable(Chat) /\ Publish(Chat, "running")

(* Tasks below these two workers still report while the workers unwind, and  *)
(* their progress carries its own status over CANCELLING.                    *)
ConcurrencyProgress ==
    lane["concurrency"].status = "cancelling" /\ Publish("concurrency", "running")

ContextProgress ==
    lane["context"].status = "cancelling" /\ Publish("context", "running")

-----------------------------------------------------------------------------
(* Lanes: the terminal result *)

M_SettledKeepsId(u) == [lane[u] EXCEPT !.status = "idle"]

M_SettledKeepsStatus(u) == [lane[u] EXCEPT !.id = 0]

(* _finalize: the lane of a matching reservation becomes terminal. *)
Settled(u) == IF lane[u].id = pending[u].id THEN IdleLane ELSE lane[u]

(* ... and one result is published for it. *)
PublishResults(us) ==
    published' = [i \in Ids |->
        IF \E u \in us : Active(u) /\ lane[u].id = i /\ pending[u].id = i
        THEN published[i] + 1 ELSE published[i]]

M_NeverResumes(u, resumes) == FALSE

(* A worker that paused polling resumes it unless the app is unmounting. *)
Resumes(u, resumes) ==
    /\ resumes
    /\ phase = "up"
    /\ Launchable([lane EXCEPT ![u] = Settled(u)])

(* The last resumption of a worker: the service finalises, the app forgets *)
(* the reservation and may launch a refresh.                               *)
End(u, resumes) ==
    /\ worker[u] = "running"
    /\ lane' = [lane EXCEPT ![u] = Settled(u)]
    /\ PublishResults({u})
    /\ pending' = [pending EXCEPT ![u] = NoReservation]
    /\ cancelled' = cancelled \ {u}
    /\ \/ /\ Resumes(u, resumes)
          /\ ReserveRefresh(TRUE)
          /\ worker' = [worker EXCEPT ![u] = "free", ![Refresh] = "pending"]
       \/ /\ ~Resumes(u, resumes)
          /\ worker' = [worker EXCEPT ![u] = "free"]
          /\ UNCHANGED <<server, monitor>>
    /\ UNCHANGED <<probe, nextId, phase>>

EndSpeedTest == End("speed_test", FALSE)

EndConcurrency == End("concurrency", TRUE)

EndContext == End("context", TRUE)

EndToolCalling == End("tool_calling", TRUE)

EndR0b0bench == End("r0b0bench", TRUE)

(* A gap in the hinted lanes: no result can be made of the completed lanes,   *)
(* nor one of that error, so the worker leaves without _finalize.  The app    *)
(* forgets the reservation all the same, and its refresh is refused: the lane *)
(* is active.  (One cancelled while VALIDATING has no row yet and no gap; it  *)
(* is not told apart.)                                                        *)
LoseR0b0bench ==
    /\ worker["r0b0bench"] = "running"
    /\ lane["r0b0bench"].status \in {"running", "cancelling"}
    /\ pending' = [pending EXCEPT !["r0b0bench"] = NoReservation]
    /\ worker' = [worker EXCEPT !["r0b0bench"] = "free"]
    /\ cancelled' = cancelled \ {"r0b0bench"}
    /\ UNCHANGED <<server, monitor, probe, lane, published, nextId, phase>>

(* The library that runs the Tool Calling suite may swallow the cancellation. *)
SwallowToolCalling ==
    /\ worker["tool_calling"] = "running"
    /\ "tool_calling" \in cancelled
    /\ cancelled' = cancelled \ {"tool_calling"}
    /\ UNCHANGED <<server, monitor, probe, lane, pending, worker, published,
                   nextId, phase>>

EndDrafter == End("drafter", TRUE)

EndChat == End(Chat, FALSE)

-----------------------------------------------------------------------------
(* Lanes: cancellation by the user *)

(* The worker runs: its lane reads CANCELLING, its task is cancelled. *)
CancelRunning(l) ==
    /\ worker[l] = "running"
    /\ lane' = [lane EXCEPT ![l].status =
                    IF lane[l].id = pending[l].id THEN "cancelling" ELSE @]
    /\ cancelled' = cancelled \cup {l}
    /\ UNCHANGED <<server, monitor, probe, pending, worker, published, nextId,
                   phase>>

M_CancelKeepsWorker(u) ==
    /\ worker[u] = "pending"
    /\ lane' = [lane EXCEPT ![u] = Settled(u)]
    /\ PublishResults({u})
    /\ UNCHANGED <<server, monitor, probe, pending, worker, cancelled, nextId,
                   phase>>

(* The worker never ran: its coroutine is dropped, cancel_reservation         *)
(* finalises, and nobody clears _pending_x.  Whether Textual then calls the   *)
(* worker finished or leaves it PENDING for good is not the app's to decide.  *)
CancelReserved(u) ==
    /\ worker[u] = "pending"
    /\ lane' = [lane EXCEPT ![u] = Settled(u)]
    /\ PublishResults({u})
    /\ \E left \in {"free", "stranded"} : worker' = [worker EXCEPT ![u] = left]
    /\ UNCHANGED <<server, monitor, probe, pending, cancelled, nextId, phase>>

Cancel(l) == phase = "up" /\ Active(l) /\ (CancelRunning(l) \/ CancelReserved(l))

CancelSpeedTest == Cancel("speed_test")

CancelConcurrency == Cancel("concurrency")

CancelContext == Cancel("context")

CancelToolCalling == Cancel("tool_calling")

CancelR0b0bench == Cancel("r0b0bench")

CancelDrafter == Cancel("drafter")

(* Escape reaches Chat when no lane is active; Chat has no CANCELLING status. *)
CancelChat ==
    /\ phase = "up"
    /\ Active(Chat)
    /\ ~BenchmarkActive
    /\ \/ /\ worker[Chat] = "running"
          /\ cancelled' = cancelled \cup {Chat}
          /\ UNCHANGED <<server, monitor, probe, lane, pending, worker, published,
                         nextId, phase>>
       \/ CancelReserved(Chat)

-----------------------------------------------------------------------------
(* Shutdown *)

(* Every reservation is asked to cancel; one whose worker never ran ends. *)
LaneAtQuit(u) ==
    IF worker[u] = "pending" THEN Settled(u)
    ELSE IF u \in Lanes /\ worker[u] = "running" /\ lane[u].id = pending[u].id
         THEN [lane[u] EXCEPT !.status = "cancelling"]
         ELSE lane[u]

M_NobodyCancelled == {}

CancelledAtQuit == {w \in Workers : worker[w] = "running"}

(* on_unmount up to its first await. *)
Quit(left) ==
    /\ phase = "up"
    /\ phase' = "stopping"
    /\ lane' = [u \in Users |-> LaneAtQuit(u)]
    /\ PublishResults({u \in Users : worker[u] = "pending"})
    /\ worker' = [w \in Workers |->
                     IF worker[w] = "pending" THEN left ELSE worker[w]]
    /\ cancelled' = CancelledAtQuit
    /\ UNCHANGED <<server, monitor, probe, pending, nextId>>

(* Every worker.wait() returned (a worker left PENDING raises at once). *)
Stop ==
    /\ phase = "stopping"
    /\ \A w \in Workers : worker[w] \in {"free", "stranded"}
    /\ phase' = "stopped"
    /\ UNCHANGED <<server, monitor, probe, lane, pending, worker, cancelled,
                   published, nextId>>

Stopped == phase = "stopped" /\ UNCHANGED vars

-----------------------------------------------------------------------------
(* The state after on_mount: the first refresh is reserved. *)
Init ==
    /\ server = [status |-> "connecting", refreshing |-> TRUE,
                 selected |-> NoModel, available |-> {}]
    /\ monitor = [pending |-> TRUE, preserve |-> FALSE]
    /\ probe = NoProbe
    /\ lane = [u \in Users |-> IdleLane]
    /\ pending = [u \in Users |-> NoReservation]
    /\ worker = [w \in Workers |-> IF w = Refresh THEN "pending" ELSE "free"]
    /\ cancelled = {}
    /\ published = [i \in Ids |-> 0]
    /\ nextId = 1
    /\ phase = "up"

Discovery ==
    \/ AutomaticRefresh
    \/ ManualRefresh
    \/ EnterRefresh
    \/ RefreshSucceeds
    \/ RefreshFails
    \/ RefreshDropped
    \/ \E m \in Models : SelectModel(m)

BeginAny ==
    \/ BeginSpeedTest
    \/ BeginConcurrency
    \/ BeginContext
    \/ BeginToolCalling
    \/ BeginR0b0bench
    \/ BeginDrafter
    \/ BeginChat

EnterAny ==
    \/ EnterSpeedTest
    \/ EnterConcurrency
    \/ EnterContext
    \/ EnterToolCalling
    \/ EnterR0b0bench
    \/ EnterDrafter
    \/ EnterChat

PublishAny ==
    \/ R0b0benchPrepared
    \/ ChatProgress
    \/ ConcurrencyProgress
    \/ ContextProgress

EndAny ==
    \/ EndSpeedTest
    \/ EndConcurrency
    \/ EndContext
    \/ EndToolCalling
    \/ EndR0b0bench
    \/ EndDrafter
    \/ EndChat

Unsettled ==
    \/ LoseR0b0bench
    \/ SwallowToolCalling

CancelAny ==
    \/ CancelSpeedTest
    \/ CancelConcurrency
    \/ CancelContext
    \/ CancelToolCalling
    \/ CancelR0b0bench
    \/ CancelDrafter
    \/ CancelChat

Shutdown ==
    \/ \E left \in {"free", "stranded"} : Quit(left)
    \/ Stop
    \/ Stopped

Next ==
    \/ Discovery
    \/ BeginAny
    \/ EnterAny
    \/ PublishAny
    \/ EndAny
    \/ Unsettled
    \/ CancelAny
    \/ Shutdown

Spec == Init /\ [][Next]_vars

(* A cancelled task is resumed with its cancellation, whatever it makes of it. *)
Delivery(u) ==
    /\ u \in cancelled
    /\ \/ End(u, u \notin {"speed_test", Chat})
       \/ u = "r0b0bench" /\ LoseR0b0bench
       \/ u = "tool_calling" /\ SwallowToolCalling

(* The event loop runs what is ready: a pending worker is entered, discovery  *)
(* answers or times out, a cancellation is delivered, on_unmount returns from *)
(* its waits.  That a run nobody cancels ever ends is not assumed, nor that a *)
(* library does not swallow a cancellation, nor that the user or a timer does *)
(* anything.                                                                  *)
Fairness ==
    /\ WF_vars(EnterAny)
    /\ WF_vars(EnterRefresh)
    /\ WF_vars(RefreshSucceeds \/ RefreshFails)
    /\ WF_vars(RefreshDropped)
    /\ \A u \in Users : WF_vars(Delivery(u))
    /\ WF_vars(Stop)

FairSpec == Spec /\ Fairness

-----------------------------------------------------------------------------
(* Safety *)

MutualExclusion == \A u, v \in Users : Active(u) /\ Active(v) => u = v

ExclusiveDiscovery == \A l \in Quiet : Active(l) => ~server.refreshing

(* "All generation traffic is mutually exclusive": at most one benchmark lane *)
(* or Chat is active, across the seven services that reserve independently;   *)
(* and no /v1/models request is reserved or in flight while a quiet lane      *)
(* works, although discovery and the lanes are started by different handlers. *)
TrafficIsOwned == MutualExclusion /\ ExclusiveDiscovery

SelectionFrozen ==
    \A l \in Quiet : Active(l) =>
        /\ server.status = "online"
        /\ pending[l] # NoReservation => server.selected = pending[l].model

SelectionAnnounced == server.selected \in server.available \cup {NoModel}

(* A quiet lane works on a server that is online, with the model it captured  *)
(* at its reservation still the selected one, as long as the app remembers    *)
(* the reservation (it forgets an orphaned one; the lane itself stays quiet); *)
(* and the model new work would be sent to is one the server announced last,  *)
(* over discoveries, outages and selections made while one is in flight.      *)
SelectionIsSound == SelectionFrozen /\ SelectionAnnounced

(* "Publish exactly one terminal result": one for every reservation that is   *)
(* over, none for the one still active, whoever ends it (the worker, Escape   *)
(* before the worker ran, or on_unmount).  An orphaned r0b0bench lane is      *)
(* never over and never has a result.                                         *)
ExactlyOneResult ==
    \A i \in Ids :
        published[i] = IF i < nextId /\ \A u \in Users : lane[u].id # i
                       THEN 1 ELSE 0

WorkerHoldsReservation ==
    \A u \in Users :
        /\ worker[u] = "pending" => lane[u].status = "reserved"
        /\ worker[u] \in {"pending", "running"} =>
              Active(u) /\ lane[u].id = pending[u].id
        /\ Active(u) => worker[u] \in {"pending", "running"} \/ Orphaned(u)

RefreshReserved ==
    /\ worker[Refresh] = "pending" => monitor.pending
    /\ worker[Refresh] \in {"pending", "running"} => server.refreshing
    /\ phase = "up" /\ server.refreshing =>
          worker[Refresh] \in {"pending", "running"}
    /\ Refresh \in cancelled => phase # "up"

(* A reservation and the worker that carries it live and die together: a      *)
(* pending worker will pass its service's entry check, a running one still    *)
(* owns its lane, and no active lane is left without a worker to end it but   *)
(* r0b0bench's after LoseR0b0bench, the one way the code loses a lane.        *)
(* is_refreshing is likewise set exactly while a worker will clear it, until  *)
(* shutdown, which alone cancels a discovery.                                 *)
WorkersOwnReservations == WorkerHoldsReservation /\ RefreshReserved

-----------------------------------------------------------------------------
(* Steps *)

(* Model polling resumes in the step in which the worker of a run that paused *)
(* it leaves, unless that worker leaves an orphaned lane: then it stays       *)
(* paused, since the refresh is launched only beside idle lanes.              *)
PollingResumes ==
    [][\A l \in Lanes \ {"speed_test"} :
          phase = "up" /\ worker[l] = "running" /\ worker'[l] = "free"
              => server'.refreshing \/ Orphaned(l)']_vars

(* What a discovery found never overrides a selection that is still announced, *)
(* not even one made after the discovery read its prior selection; a failed    *)
(* discovery, preserved or not, leaves the selection alone.                    *)
SelectionKept ==
    [][(server.refreshing /\ ~server'.refreshing) =>
          \/ server'.selected = server.selected
          \/ server'.status = "online" /\ server.selected \notin server'.available]_vars

-----------------------------------------------------------------------------
(* Progress *)

CancelledEnds ==
    \A u \in Users : u \in cancelled ~> (~Active(u) \/ Orphaned(u) \/ Ignored(u))

ShutdownCompletes ==
    phase = "stopping" ~> (phase = "stopped" \/ Ignored("tool_calling"))

(* A cancelled lane or generation is released, and quitting reaches the point *)
(* where the hardware monitor and the client are closed: no worker waits for  *)
(* a step nobody takes.  Two exceptions, each named: a gap orphans the lane   *)
(* of r0b0bench (quitting still completes), and a library that swallows the   *)
(* cancellation of a Tool Calling run holds its lane, and on_unmount with it, *)
(* for as long as it likes.                                                   *)
CancelledWorkEnds == CancelledEnds /\ ShutdownCompletes

-----------------------------------------------------------------------------
(* Refinement: these workers and services implement the ownership promise. *)

Owner == IF \E u \in Users : Active(u)
         THEN CHOOSE u \in Users : Active(u) ELSE "nobody"

Ownership == INSTANCE TrafficOwnership WITH
    Nobody <- "nobody", owner <- Owner, probing <- server.refreshing,
    selected <- server.selected

(* Every behaviour takes, holds and releases the traffic as TrafficOwnership  *)
(* says: no step starts discovery, moves the selection or passes the traffic  *)
(* on while a quiet lane holds it.                                            *)
ImplementsOwnership == Ownership!Spec

=============================================================================
