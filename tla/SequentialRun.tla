----------------------------- MODULE SequentialRun -----------------------------
(* One Speed Test or one Drafter benchmark, from its reservation to its       *)
(* terminal result: warm-up requests, then measured ones, one at a time.  The *)
(* two services have the same skeleton and differ in where they keep their    *)
(* rows, in the order of recording and publishing, and in the counters the    *)
(* Drafter reads around each request.  Between two awaits nothing interrupts  *)
(* the worker; the users and the server act at the awaits.                    *)
(* Definitions named M_... are deliberate mistakes: each stands for a bug the *)
(* code could have in the definition after it, and no behaviour uses them.    *)
EXTENDS Naturals, Sequences, FiniteSets

CONSTANTS
    Warmups,        \* config.warmup_runs
    Measured,       \* config.measured_runs
    Usage,          \* draft and accepted tokens one request may cost the server
    MaxFaults,      \* bound on callbacks and requests that raise unexpectedly
    MaxRestarts,    \* bound on restarts of the server
    MaxTraffic      \* bound on what the server does for anybody else

Count == [draft : Nat, accepted : Nat]

ASSUME SequenceAssumption ==
    /\ Warmups \in Nat
    /\ Measured \in Nat \ {0}
    /\ MaxFaults \in Nat
    /\ MaxRestarts \in Nat
    /\ MaxTraffic \in Nat

ASSUME UsageAssumption ==
    Usage \subseteq Count /\ \A u \in Usage : u.accepted <= u.draft

VARIABLES
    config,     \* which benchmark, its error policy, and its counter reader
    pc,         \* where the worker is
    status,     \* status of the lane
    run,        \* requests begun so far: the current one
    outcome,    \* how the current request ended: none, success, failed, cancelled
    seen,       \* current_metrics is not None
    shown,      \* the lane shows metrics of the current request
    before,     \* counters_before
    telemetry,  \* speculative telemetry of the current response
    recorded,   \* current_recorded
    rows,       \* run_results, of the lane (Speed Test) or of the worker (Drafter)
    completed,  \* completed_measured
    errors,     \* had_errors
    raised,     \* what unwinds the worker: none, cancelled, error
    cancel,     \* the task has a cancellation to deliver
    result,     \* the terminal result
    server,     \* its counters since it started, of all requests it served
    restarts,   \* restarts so far
    traffic,    \* times the server worked for somebody else
    faults,     \* unexpected exceptions so far
    answered,   \* history: requests whose generation returned
    cost,       \* history: what the last answered request cost the server
    others,     \* history: what others cost it since the counters were read before
    disturbed   \* history: it restarted since the counters were read before

lane == <<status, result>>
request == <<outcome, seen, shown, before, telemetry, recorded>>
record == <<rows, completed, errors>>
outside == <<server, restarts, traffic, answered, cost, others, disturbed>>
vars == <<config, pc, lane, run, request, record, raised, cancel, faults, outside>>

Total == Warmups + Measured
Warmup(r) == r <= Warmups
Speed == config.kind = "speed"

Awaits == {"before", "generating", "after"}
Active == {"preparing", "warming_up", "running", "cancelling"}
Terminal == {"cancelled", "completed", "completed_with_errors", "failed"}

Zero == [draft |-> 0, accepted |-> 0]
Sources == {"none", "partial", "response", "counters"}
NoTelemetry == [source |-> "none", count |-> Zero]
Telemetry == [source : Sources, count : Count]
Row == [run : Nat, outcome : {"success", "failed", "cancelled"},
        metrics : BOOLEAN, telemetry : Telemetry]
NoResult == [status |-> "none", rows |-> <<>>, note |-> "none"]

TypeOK ==
    /\ config \in [kind : {"speed", "drafter"}, continue_on_error : BOOLEAN,
                   reader : BOOLEAN]
    /\ pc \in Awaits \cup {"idle", "reserved", "begin", "record", "unwinding", "done"}
    /\ status \in Active \cup Terminal \cup {"idle"}
    /\ run \in 0 .. Total /\ completed \in 0 .. Measured
    /\ outcome \in {"none", "success", "failed", "cancelled"}
    /\ {seen, shown, recorded, errors, cancel, disturbed} \subseteq BOOLEAN
    /\ before \in Count \cup {NoTelemetry}
    /\ telemetry \in Telemetry
    /\ rows \in Seq(Row)
    /\ raised \in {"none", "cancelled", "error"}
    /\ result.status \in Terminal \cup {"none"} /\ result.rows \in Seq(Row)
    /\ server \in Count /\ cost \in Count /\ others \in Count
    /\ restarts \in 0 .. MaxRestarts /\ faults \in 0 .. MaxFaults
    /\ traffic \in 0 .. MaxTraffic
    /\ answered \subseteq 1 .. Total

-----------------------------------------------------------------------------
(* Terminal results *)

(* Rows that count: successful measured requests. *)
Successful(rs) == {i \in DOMAIN rs : ~Warmup(rs[i].run) /\ rs[i].outcome = "success"}

(* build_drafter_observations: what the result says of its telemetry. *)
Observation(rs) ==
    LET good == Successful(rs)
        with == {i \in good : rs[i].telemetry.source # "none"}
    IN IF good = {} THEN "none"
       ELSE IF with = {} THEN "unavailable"
       ELSE IF with # good THEN "partial" ELSE "complete"

SpeedFinalize(s, rs) ==
    result' = [status |-> s, rows |-> rs, note |-> "none"]

DrafterFinalize(s, rs) ==
    result' = [status |-> s, rows |-> rs, note |-> Observation(rs)]

(* _finalize: the lane is free; a raising callback changes nothing any more. *)
Finalize(s, rs) ==
    /\ pc' = "done"
    /\ status' = s
    /\ IF Speed THEN SpeedFinalize(s, rs) ELSE DrafterFinalize(s, rs)

Raise(why) ==
    /\ pc' = "unwinding"
    /\ raised' = why
    /\ UNCHANGED result

(* An exception nobody expects, of a callback or of the request. *)
Fault == faults < MaxFaults /\ faults' = faults + 1

-----------------------------------------------------------------------------
(* Reservation *)

(* begin_test: a callback that raises ends the reservation it announced. *)
BeginTest ==
    /\ pc = "idle" /\ Speed
    /\ \/ /\ pc' = "reserved" /\ status' = "preparing"
          /\ UNCHANGED <<result, faults>>
       \/ Fault /\ Finalize("failed", <<>>)
    /\ UNCHANGED <<config, run, request, record, raised, cancel, outside>>

BeginBenchmark ==
    /\ pc = "idle" /\ ~Speed
    /\ \/ /\ pc' = "reserved" /\ status' = "preparing"
          /\ UNCHANGED <<result, faults>>
       \/ Fault /\ Finalize("failed", <<>>)
    /\ UNCHANGED <<config, run, request, record, raised, cancel, outside>>

Enter ==
    /\ pc = "reserved"
    /\ pc' = "begin"
    /\ UNCHANGED <<config, lane, run, request, record, raised, cancel, faults, outside>>

-----------------------------------------------------------------------------
(* Requests *)

PhaseOf(r) == IF Warmup(r) THEN "warming_up" ELSE "running"

(* The next request is announced with its phase. *)
Announce ==
    /\ status' = PhaseOf(run + 1)
    /\ shown' = FALSE

M_KeepsRecorded == UNCHANGED recorded

Forget == recorded' = FALSE

(* The top of the loop, up to the first await of the request. *)
BeginRequest ==
    /\ pc = "begin" /\ run < Total
    /\ run' = run + 1
    /\ Announce /\ Forget
    /\ outcome' = "none" /\ seen' = FALSE /\ telemetry' = NoTelemetry
    /\ before' = NoTelemetry
    /\ \/ /\ pc' = IF Speed \/ ~config.reader THEN "generating" ELSE "before"
          /\ UNCHANGED <<raised, result, faults>>
       \/ Fault /\ Raise("error")
    /\ UNCHANGED <<config, record, cancel, outside>>

LastStatus == IF errors THEN "completed_with_errors" ELSE "completed"

(* The loop is over. *)
Complete ==
    /\ pc = "begin" /\ run = Total
    /\ Finalize(LastStatus, rows)
    /\ UNCHANGED <<config, run, request, record, raised, cancel, faults, outside>>

(* Optional counters: any failure to read them is their absence. *)
Readings == {server, NoTelemetry}

CountersBefore ==
    /\ pc = "before" /\ ~cancel
    /\ before' \in Readings
    /\ others' = Zero /\ disturbed' = FALSE
    /\ pc' = "generating"
    /\ UNCHANGED <<config, lane, run, outcome, seen, shown, telemetry, recorded, record,
                   raised, cancel, faults, server, restarts, traffic, answered, cost>>

M_ProgressUnkept == UNCHANGED seen /\ shown' = TRUE

(* on_progress keeps the metrics before it publishes them. *)
OnProgress == seen' = TRUE /\ shown' = TRUE

Progress ==
    /\ pc = "generating" /\ ~cancel
    /\ OnProgress
    /\ \/ UNCHANGED <<pc, raised, result, faults>>
       \/ Fault /\ Raise("error")
    /\ UNCHANGED <<config, status, run, outcome, before, telemetry, recorded, record,
                   cancel, outside>>

(* What a response reports of speculation: nothing, draft tokens without a    *)
(* rate, or everything.                                                       *)
Reported(u) ==
    {NoTelemetry, [source |-> "partial", count |-> u], [source |-> "response", count |-> u]}

Add(c, u) == [draft |-> c.draft + u.draft, accepted |-> c.accepted + u.accepted]

Costs(u) == cost' = u /\ server' = Add(server, u)

(* The generation returns; its last progress is published inside it.  The     *)
(* server has counted what it answered: reading it at once relies on that.    *)
Answers ==
    /\ pc = "generating" /\ ~cancel
    /\ OnProgress
    /\ \E u \in Usage :
          /\ Costs(u)
          /\ telemetry' \in IF Speed THEN {NoTelemetry} ELSE Reported(u)
    /\ \/ /\ pc' = IF Speed \/ ~config.reader THEN "record" ELSE "after"
          /\ outcome' = "success"
          /\ answered' = answered \cup {run}
          /\ UNCHANGED <<raised, result, faults>>
       \/ Fault /\ Raise("error") /\ UNCHANGED <<outcome, answered>>
    /\ UNCHANGED <<config, status, run, before, recorded, record, cancel, restarts,
                   traffic, others, disturbed>>

(* GenerationFailed, or an exception that is not the API's.  The server may    *)
(* have worked for the request, and may go on, timed out or disconnected as   *)
(* it is: that is traffic, of this request or of a later one.                 *)
Fails ==
    /\ pc = "generating" /\ ~cancel
    /\ \/ /\ pc' = "record" /\ outcome' = "failed"
          /\ UNCHANGED <<raised, result, faults>>
       \/ Fault /\ Raise("error") /\ UNCHANGED outcome
    /\ UNCHANGED <<config, status, run, seen, shown, before, telemetry, recorded,
                   record, cancel, outside>>

M_Absolute(b, a) == a

Delta(b, a) == [draft |-> a.draft - b.draft, accepted |-> a.accepted - b.accepted]

(* A counter that went back, or accepted more than it drafted, is no measure. *)
Plausible(b, a) ==
    /\ a.draft > b.draft
    /\ a.accepted >= b.accepted
    /\ a.accepted - b.accepted <= a.draft - b.draft

(* _hydrate_counter_telemetry: unless the response came with a rate. *)
Hydrated(a) ==
    IF telemetry.source # "response" /\ before # NoTelemetry /\ a # NoTelemetry
       /\ Plausible(before, a)
    THEN [source |-> "counters", count |-> Delta(before, a)]
    ELSE telemetry

CountersAfter ==
    /\ pc = "after" /\ ~cancel
    /\ \E a \in Readings :
          LET t == Hydrated(a) IN
          \/ telemetry' = t /\ pc' = "record" /\ UNCHANGED <<raised, result, faults>>
          \/ t # telemetry /\ Fault /\ Raise("error") /\ UNCHANGED telemetry
    /\ UNCHANGED <<config, status, run, outcome, seen, shown, before, recorded, record,
                   cancel, outside>>

-----------------------------------------------------------------------------
(* Recording *)

(* The telemetry of a request that did not succeed counts nowhere.           *)
ThisRow == [run |-> run, outcome |-> outcome, metrics |-> TRUE,
            telemetry |-> IF outcome = "success" THEN telemetry ELSE NoTelemetry]

M_GoesOn == pc' = "begin" /\ errors' = TRUE /\ UNCHANGED <<status, result>>

(* A failed request ends the run, or is remembered. *)
AfterFailure ==
    IF config.continue_on_error
    THEN pc' = "begin" /\ errors' = TRUE /\ UNCHANGED <<status, result>>
    ELSE Finalize("failed", rows') /\ errors' = TRUE

AfterRecord ==
    \/ outcome = "success" /\ pc' = "begin" /\ UNCHANGED <<status, result, errors>>
    \/ outcome = "failed" /\ AfterFailure
    \/ outcome = "cancelled" /\ Finalize("cancelled", rows') /\ UNCHANGED errors

(* _append_run: the lane has the row before current_recorded says so. *)
SpeedRecord ==
    /\ pc = "record" /\ Speed
    /\ rows' = Append(rows, ThisRow)
    /\ \/ recorded' = TRUE /\ AfterRecord /\ UNCHANGED <<raised, faults>>
       \/ Fault /\ Raise("error") /\ UNCHANGED <<recorded, status, errors>>
    /\ UNCHANGED <<config, run, outcome, seen, shown, before, telemetry, completed,
                   cancel, outside>>

M_CountsWarmups == IF outcome = "success" THEN completed + 1 ELSE completed

CompletedNow ==
    IF outcome = "success" /\ ~Warmup(run) THEN completed + 1 ELSE completed

(* The worker has the row and knows it before anything is published. *)
DrafterRecord ==
    /\ pc = "record" /\ ~Speed
    /\ rows' = Append(rows, ThisRow)
    /\ recorded' = TRUE
    /\ completed' = CompletedNow
    /\ \/ AfterRecord /\ UNCHANGED <<raised, faults>>
       \/ Fault /\ Raise("error") /\ UNCHANGED <<status, errors>>
    /\ UNCHANGED <<config, run, outcome, seen, shown, before, telemetry, cancel, outside>>

-----------------------------------------------------------------------------
(* Unwinding *)

PartialRow == [run |-> run, outcome |-> IF raised = "cancelled" THEN "cancelled" ELSE "failed",
               metrics |-> seen, telemetry |-> NoTelemetry]

UnwindStatus == IF raised = "cancelled" THEN "cancelled" ELSE "failed"

(* except CancelledError, except Exception and finally of run_test. *)
SpeedUnwind ==
    /\ pc = "unwinding" /\ Speed
    /\ IF recorded
       THEN Finalize(UnwindStatus, rows) /\ UNCHANGED <<rows, faults>>
       ELSE /\ rows' = Append(rows, PartialRow)
            /\ \/ Finalize(UnwindStatus, rows') /\ UNCHANGED faults
               \/ Fault /\ Finalize("failed", rows')
    /\ UNCHANGED <<config, run, request, completed, errors, raised, cancel, outside>>

DrafterPartial == rows' = IF recorded THEN rows ELSE Append(rows, PartialRow)

DrafterUnwind ==
    /\ pc = "unwinding" /\ ~Speed
    /\ DrafterPartial
    /\ Finalize(UnwindStatus, rows')
    /\ UNCHANGED <<config, run, request, completed, errors, raised, cancel, faults, outside>>

-----------------------------------------------------------------------------
(* Cancellation *)

(* request_cancellation and the worker's cancellation. *)
RequestCancellation ==
    /\ pc \in Awaits
    /\ ~cancel
    /\ cancel' = TRUE
    /\ status' = "cancelling"
    /\ UNCHANGED <<config, pc, result, run, request, record, raised, faults, outside>>

(* cancel_reservation: the coroutine was never entered. *)
CancelReservation ==
    /\ pc = "reserved"
    /\ Finalize("cancelled", <<>>)
    /\ UNCHANGED <<config, run, request, record, raised, cancel, faults, outside>>

(* The generation keeps what it has in the GenerationCancelled it raises. *)
CancelledGenerating ==
    /\ pc = "generating" /\ cancel
    /\ cancel' = FALSE
    /\ pc' = "record" /\ outcome' = "cancelled"
    /\ UNCHANGED <<config, lane, run, seen, shown, before, telemetry, recorded, record,
                   raised, faults, outside>>

M_SwallowedReading ==
    /\ pc \in {"before", "after"} /\ cancel
    /\ cancel' = FALSE
    /\ pc' = IF pc = "before" THEN "generating" ELSE "record"
    /\ UNCHANGED <<config, lane, run, request, record, raised, faults, outside>>

(* A cancellation is no Exception: reading the counters does not hide it. *)
CancelledReading ==
    /\ pc \in {"before", "after"} /\ cancel
    /\ cancel' = FALSE
    /\ Raise("cancelled")
    /\ UNCHANGED <<config, status, run, request, record, faults, outside>>

-----------------------------------------------------------------------------
(* The server loses its counters when it restarts. *)
Restart ==
    /\ pc \in Awaits
    /\ restarts < MaxRestarts
    /\ restarts' = restarts + 1
    /\ server' = Zero
    /\ disturbed' = TRUE
    /\ UNCHANGED <<config, pc, lane, run, request, record, raised, cancel, faults,
                   traffic, answered, cost, others>>

(* Its counters are those of the model, not of a client: other clients move   *)
(* them, and requests this run gave up that the server still decodes.         *)
Traffic ==
    /\ pc \in Awaits
    /\ traffic < MaxTraffic
    /\ traffic' = traffic + 1
    /\ \E u \in Usage : server' = Add(server, u) /\ others' = Add(others, u)
    /\ UNCHANGED <<config, pc, lane, run, request, record, raised, cancel, faults,
                   restarts, answered, cost, disturbed>>

Done == pc = "done" /\ UNCHANGED vars

Init ==
    /\ config \in [kind : {"speed", "drafter"}, continue_on_error : BOOLEAN,
                   reader : BOOLEAN]
    /\ pc = "idle" /\ status = "idle" /\ run = 0
    /\ outcome = "none" /\ seen = FALSE /\ shown = FALSE
    /\ before = NoTelemetry /\ telemetry = NoTelemetry /\ recorded = FALSE
    /\ rows = <<>> /\ completed = 0 /\ errors = FALSE
    /\ raised = "none" /\ cancel = FALSE /\ result = NoResult
    /\ server = Zero /\ restarts = 0 /\ traffic = 0 /\ faults = 0
    /\ answered = {} /\ cost = Zero /\ others = Zero /\ disturbed = FALSE

Worker ==
    \/ Enter \/ BeginRequest \/ Complete
    \/ SpeedRecord \/ DrafterRecord \/ SpeedUnwind \/ DrafterUnwind
    \/ CancelledGenerating \/ CancelledReading

Next ==
    \/ BeginTest \/ BeginBenchmark
    \/ Worker
    \/ CountersBefore \/ Progress \/ Answers \/ Fails \/ CountersAfter
    \/ RequestCancellation \/ CancelReservation
    \/ Restart \/ Traffic
    \/ Done

Spec == Init /\ [][Next]_vars

(* The worker runs when it can; the server need not answer. *)
FairSpec == Spec /\ WF_vars(Worker)

-----------------------------------------------------------------------------
(* Safety *)

Quiet == faults = 0

RowsTellTheTruth ==
    /\ ~Speed \/ Quiet => \A i \in DOMAIN rows : rows[i].run = i
    /\ pc = "done" => IF ~Speed \/ Quiet THEN Len(rows) = run
                      ELSE Len(rows) \in run .. run + faults
    /\ \A i \in DOMAIN rows :
          /\ rows[i].outcome = "success" => rows[i].run \in answered
          /\ Quiet /\ rows[i].run \in answered /\ rows[i].outcome # "success" =>
                ~Speed /\ config.reader /\ rows[i].outcome = "cancelled"
    /\ ~Speed => completed = Cardinality(Successful(rows))

Ended(o) == {i \in DOMAIN result.rows : result.rows[i].outcome = o}

ResultTellsTheTruth ==
    LET n == Len(result.rows)
        last == {i \in DOMAIN result.rows : i = n}
    IN result.status # "none" =>
        /\ result.rows = rows /\ result.status = status
        /\ result.status = "completed" => n = Total /\ Ended("success") = 1 .. n
        /\ result.status = "completed_with_errors" =>
              /\ n = Total /\ config.continue_on_error
              /\ Ended("failed") # {} /\ Ended("cancelled") = {}
        /\ result.status = "cancelled" => Ended("cancelled") = last
        /\ result.status = "failed" /\ Quiet =>
              ~config.continue_on_error /\ Ended("failed") = last /\ n > 0
        /\ result.note = "complete" =>
              \A i \in Successful(rows) : rows[i].telemetry.source # "none"

(* A run that is over has one row for each request it began, in order, and no *)
(* row claims a success the server did not give.  A request that was answered *)
(* and is not a success was cancelled while the Drafter read the counters     *)
(* after it.  Only an exception of the Speed Test's own callback, raised      *)
(* after the lane had the row, may give one request two rows.                 *)
(* The status of a result agrees with its rows, however requests, cancellation*)
(* and exceptions met: complete runs have every row, stop-on-error stops at   *)
(* the first failure, a cancelled run ends with the one request it cut off,   *)
(* and telemetry is called complete only if every counted row has it.         *)
RunTellsTheTruth == TypeOK /\ RowsTellTheTruth /\ ResultTellsTheTruth

(* Counters read around a request measure what the server did between the two *)
(* readings: the request, and whatever else it worked for meanwhile, nothing  *)
(* of an earlier request or reading.  Only a restart of the server in between *)
(* spoils the measure, and even then it is a possible one.                    *)
TelemetryIsOfItsWindow ==
    telemetry.source = "counters" =>
        /\ telemetry.count.draft > 0
        /\ telemetry.count.accepted <= telemetry.count.draft
        /\ ~disturbed => telemetry.count = Add(cost, others)

-----------------------------------------------------------------------------
(* Steps *)

(* A cancelled run starts nothing any more: it is cancelling until it is      *)
(* terminal, cancelled unless a callback raised, and a request whose metrics  *)
(* were shown keeps metrics in its row.                                       *)
CancellationHolds ==
    [][/\ status = "cancelling" /\ status' # "cancelling" =>
             status' \in IF faults' > 0 THEN {"cancelled", "failed"} ELSE {"cancelled"}
       /\ Len(rows') > Len(rows) /\ shown => rows'[Len(rows')].metrics]_vars

(* Cancellation ends the run, whatever the server does.                       *)
CancelledRunEnds == status = "cancelling" ~> status \in Terminal

=============================================================================
