-------------------------- MODULE SequentialRunProofs --------------------------
(* What holds of a Speed Test or Drafter run for every number of requests,    *)
(* faults and restarts, whatever a request costs the server and whatever else *)
(* the server does: the counters measure what it did between two readings,    *)
(* and a cancelled run stays cancelled.                                       *)
EXTENDS SequentialRun, FiniteSetTheorems, TLAPS

(* The counters read before a request are short of the server's by what       *)
(* others cost it since, and once it is answered by its own cost as well.     *)
TInv ==
    /\ server \in Count /\ cost \in Count /\ others \in Count
    /\ before \in Count \cup {NoTelemetry}
    /\ pc = "generating" => telemetry = NoTelemetry
    /\ pc = "generating" /\ before # NoTelemetry /\ ~disturbed =>
          server = Add(before, others)
    /\ pc = "after" /\ before # NoTelemetry /\ ~disturbed =>
          server = Add(before, Add(cost, others))
    /\ pc \in {"idle", "reserved", "before"} => telemetry = NoTelemetry
    /\ pc = "after" => telemetry.source # "counters"
    /\ TelemetryIsOfItsWindow

(* NoTelemetry is no reading: a reading has no source. *)
LEMMA Absent ==
    NoTelemetry \notin Count /\ NoTelemetry.source = "none"
<1>1. DOMAIN NoTelemetry = {"source", "count"}
  BY DEF NoTelemetry
<1>2. \A c \in Count : DOMAIN c = {"draft", "accepted"}
  BY DEF Count
<1> QED
  BY <1>1, <1>2 DEF NoTelemetry

LEMMA UsageAdds ==
    ASSUME NEW c \in Count, NEW u \in Usage
    PROVE  u \in Count /\ Add(c, u) \in Count
BY UsageAssumption DEF Count, Add

(* Sums of counts, in any order. *)
LEMMA CountsAdd ==
    /\ Zero \in Count
    /\ \A b, c \in Count : Add(b, c) \in Count
    /\ \A b \in Count : Add(b, Zero) = b
    /\ \A b, c, d \in Count :
          /\ Add(Add(b, c), d) = Add(b, Add(c, d))
          /\ Add(Add(b, c), d) = Add(b, Add(d, c))
<1>1. Zero \in Count /\ Zero.draft = 0 /\ Zero.accepted = 0
  BY DEF Zero, Count
<1>2. \A b \in Count : /\ b.draft \in Nat /\ b.accepted \in Nat
                       /\ b = [draft |-> b.draft, accepted |-> b.accepted]
  BY DEF Count
<1>3. ASSUME NEW b \in Count, NEW c \in Count
      PROVE  /\ Add(b, c) \in Count
             /\ Add(b, c).draft = b.draft + c.draft
             /\ Add(b, c).accepted = b.accepted + c.accepted
  BY <1>2 DEF Add, Count
<1>4. ASSUME NEW b \in Count
      PROVE  Add(b, Zero) = b
  BY <1>1, <1>2 DEF Add
<1>5. ASSUME NEW b \in Count, NEW c \in Count, NEW d \in Count
      PROVE  /\ Add(Add(b, c), d) = Add(b, Add(c, d))
             /\ Add(Add(b, c), d) = Add(b, Add(d, c))
  <2>1. /\ (b.draft + c.draft) + d.draft = b.draft + (c.draft + d.draft)
        /\ (b.draft + c.draft) + d.draft = b.draft + (d.draft + c.draft)
        /\ (b.accepted + c.accepted) + d.accepted = b.accepted + (c.accepted + d.accepted)
        /\ (b.accepted + c.accepted) + d.accepted = b.accepted + (d.accepted + c.accepted)
    BY <1>2
  <2> QED
    BY <2>1 DEF Add
<1> QED
  BY <1>1, <1>3, <1>4, <1>5

LEMMA TelemetryInit ==
    ASSUME Init
    PROVE  TInv
<1>1. Zero \in Count
  BY DEF Zero, Count
<1> QED
  BY <1>1, Absent DEF Init, TInv, TelemetryIsOfItsWindow

(* What is taken from the counters is what the request cost. *)
LEMMA HydratedIsOwn ==
    ASSUME TInv, pc = "after", NEW a \in Readings, NEW t, t = Hydrated(a),
           t.source = "counters"
    PROVE  /\ t.count.draft > 0 /\ t.count.accepted <= t.count.draft
           /\ ~disturbed => t.count = Add(cost, others)
<1>1. /\ before \in Count /\ a = server /\ a \in Count /\ Plausible(before, a)
      /\ t = [source |-> "counters", count |-> Delta(before, a)]
  <2>1. telemetry.source # "counters"
    BY DEF TInv
  <2>2. /\ before # NoTelemetry /\ a # NoTelemetry /\ Plausible(before, a)
        /\ t = [source |-> "counters", count |-> Delta(before, a)]
    BY <2>1, Zenon DEF Hydrated
  <2> QED
    BY <2>2 DEF TInv, Readings
<1>2. t.count = Delta(before, a)
  BY <1>1
<1>3. t.count.draft = a.draft - before.draft /\ t.count.accepted = a.accepted - before.accepted
  BY <1>2 DEF Delta
<1>4. t.count.draft > 0 /\ t.count.accepted <= t.count.draft
  BY <1>1, <1>3 DEF Plausible, Count
<1>5. ASSUME ~disturbed PROVE t.count = Add(cost, others)
  <2> DEFINE gain == Add(cost, others)
  <2>1. server = Add(before, gain) /\ gain \in Count
    BY <1>1, <1>5, Absent, CountsAdd DEF TInv
  <2> HIDE DEF gain
  <2>2. /\ before.draft \in Nat /\ before.accepted \in Nat
        /\ gain.draft \in Nat /\ gain.accepted \in Nat
        /\ gain = [draft |-> gain.draft, accepted |-> gain.accepted]
    BY <1>1, <2>1 DEF Count
  <2>3. a.draft = before.draft + gain.draft /\ a.accepted = before.accepted + gain.accepted
    BY <1>1, <2>1 DEF Add
  <2>4. a.draft - before.draft = gain.draft /\ a.accepted - before.accepted = gain.accepted
    BY <2>2, <2>3
  <2>5. t.count = gain
    BY <1>2, <2>2, <2>4 DEF Delta
  <2> QED
    BY <2>5 DEF gain
<1> QED
  BY <1>4, <1>5

(* A step that is not the answer or the reading of the counters. *)
LEMMA TelemetryStays ==
    ASSUME TInv, UNCHANGED <<before, telemetry, cost, others, disturbed, server>>,
           pc' = pc \/ pc' \in {"record", "begin", "unwinding", "done"}
                    \/ (pc' = "reserved" /\ pc = "idle")
    PROVE  TInv'
BY DEF TInv, TelemetryIsOfItsWindow

LEMMA TelemetryStep ==
    ASSUME TInv, [Next]_vars
    PROVE  TInv'
<1> USE DEF outside, request, record, lane
<1>1. CASE BeginRequest
  <2>1. /\ telemetry' = NoTelemetry /\ before' = NoTelemetry
        /\ pc' \in {"generating", "before", "unwinding"}
        /\ UNCHANGED <<server, cost, others>>
    BY <1>1 DEF BeginRequest, Raise
  <2> QED
    BY <2>1, Absent DEF TInv, TelemetryIsOfItsWindow
<1>2. CASE CountersBefore
  <2>1. /\ before' \in {server, NoTelemetry} /\ pc = "before" /\ pc' = "generating"
        /\ others' = Zero
        /\ UNCHANGED <<telemetry, server, cost>>
    BY <1>2 DEF CountersBefore, Readings
  <2> QED
    BY <2>1, Absent, CountsAdd DEF TInv, TelemetryIsOfItsWindow
<1>3. CASE Progress
  BY <1>3, TelemetryStays DEF Progress, Raise
<1>4. CASE Answers
  <2>1. PICK u \in Usage : Costs(u) /\ telemetry' \in Reported(u) \cup {NoTelemetry}
    BY <1>4 DEF Answers
  <2>2. telemetry'.source # "counters"
    BY <2>1, Absent DEF Reported
  <2>3. /\ pc = "generating" /\ pc' \in {"record", "after", "unwinding"}
        /\ UNCHANGED <<before, others, disturbed>>
    BY <1>4 DEF Answers, Raise
  <2>4. cost' = u /\ server' = Add(server, u) /\ cost' \in Count /\ server' \in Count
    BY <2>1, UsageAdds DEF Costs, TInv
  <2>5. ASSUME before # NoTelemetry, ~disturbed
        PROVE  server' = Add(before, Add(cost', others'))
    <3>1. server = Add(before, others) /\ before \in Count /\ others \in Count /\ u \in Count
      BY <2>1, <2>3, <2>4, <2>5, UsageAdds DEF TInv
    <3>2. Add(Add(before, others), u) = Add(before, Add(u, others))
      BY <3>1, CountsAdd
    <3> QED
      BY <2>3, <2>4, <3>1, <3>2
  <2> QED
    BY <2>2, <2>3, <2>4, <2>5 DEF TInv, TelemetryIsOfItsWindow
<1>5. CASE Fails
  BY <1>5, TelemetryStays DEF Fails, Raise
<1>6. CASE CancelledGenerating
  BY <1>6, TelemetryStays DEF CancelledGenerating
<1>7. CASE Traffic
  <2>1. PICK u \in Usage : server' = Add(server, u) /\ others' = Add(others, u)
    BY <1>7 DEF Traffic
  <2>2. pc \in Awaits /\ UNCHANGED <<pc, before, telemetry, cost, disturbed>>
    BY <1>7 DEF Traffic
  <2>3. /\ server \in Count /\ cost \in Count /\ others \in Count /\ u \in Count
        /\ server' \in Count /\ others' \in Count
    BY <2>1, UsageAdds DEF TInv
  <2>4. ASSUME pc = "generating", before # NoTelemetry, ~disturbed
        PROVE  server' = Add(before, others')
    <3>1. server = Add(before, others) /\ before \in Count
      BY <2>4 DEF TInv
    <3>2. Add(Add(before, others), u) = Add(before, Add(others, u))
      BY <2>3, <3>1, CountsAdd
    <3> QED
      BY <2>1, <3>1, <3>2
  <2>5. ASSUME pc = "after", before # NoTelemetry, ~disturbed
        PROVE  server' = Add(before, Add(cost, others'))
    <3>1. server = Add(before, Add(cost, others)) /\ before \in Count
      BY <2>5 DEF TInv
    <3>2. /\ Add(Add(before, Add(cost, others)), u) = Add(before, Add(Add(cost, others), u))
          /\ Add(Add(cost, others), u) = Add(cost, Add(others, u))
      BY <2>3, <3>1, CountsAdd
    <3> QED
      BY <2>1, <3>1, <3>2
  <2>6. telemetry.source # "counters"
    BY <2>2, Absent DEF TInv, Awaits
  <2> QED
    BY <2>2, <2>3, <2>4, <2>5, <2>6 DEF TInv, TelemetryIsOfItsWindow
<1>8. CASE CountersAfter
  <2>1. PICK a \in Readings :
           \/ telemetry' = Hydrated(a) /\ pc' = "record"
           \/ telemetry' = telemetry /\ pc' = "unwinding"
    BY <1>8 DEF CountersAfter, Raise
  <2>2. pc = "after" /\ UNCHANGED <<before, server, cost, others, disturbed>>
    BY <1>8 DEF CountersAfter
  <2>3. CASE telemetry' = Hydrated(a) /\ pc' = "record"
    <3>1. TelemetryIsOfItsWindow'
      BY <2>2, <2>3, HydratedIsOwn DEF TelemetryIsOfItsWindow
    <3> QED
      BY <2>2, <2>3, <3>1 DEF TInv
  <2>4. CASE telemetry' = telemetry /\ pc' = "unwinding"
    BY <2>2, <2>4, TelemetryStays
  <2> QED
    BY <2>1, <2>3, <2>4
<1>9. CASE Restart
  <2>1. /\ server' = Zero /\ disturbed' = TRUE
        /\ UNCHANGED <<pc, before, telemetry, cost, others>>
    BY <1>9 DEF Restart
  <2>2. Zero \in Count
    BY DEF Zero, Count
  <2> QED
    BY <2>1, <2>2 DEF TInv, TelemetryIsOfItsWindow
<1>10. CASE BeginTest \/ BeginBenchmark \/ Enter \/ Complete
  BY <1>10, TelemetryStays DEF BeginTest, BeginBenchmark, Enter, Complete, Finalize
<1>11. CASE SpeedRecord \/ DrafterRecord
  BY <1>11, TelemetryStays DEF SpeedRecord, DrafterRecord, AfterRecord, AfterFailure,
                               Finalize, Raise
<1>12. CASE SpeedUnwind \/ DrafterUnwind
  BY <1>12, TelemetryStays DEF SpeedUnwind, DrafterUnwind, Finalize
<1>13. CASE RequestCancellation \/ CancelReservation \/ CancelledReading \/ Done
             \/ UNCHANGED vars
  BY <1>13, TelemetryStays DEF RequestCancellation, CancelReservation, CancelledReading,
                               Done, Finalize, Raise, vars
<1> QED
  BY <1>1, <1>2, <1>3, <1>4, <1>5, <1>6, <1>7, <1>8, <1>9, <1>10, <1>11, <1>12, <1>13
     DEF Next, Worker

(* Whatever requests cost, whoever else uses the server, and whenever it       *)
(* restarts or a reading fails: speculation measured by the Drafter's counters *)
(* is what the server did between the two readings of one request, that        *)
(* request and what else it worked for, unless it restarted in between.        *)
THEOREM CountersMeasureTheirWindow ==
    Spec => []TelemetryIsOfItsWindow
<1>1. TInv => TelemetryIsOfItsWindow
  BY DEF TInv
<1> QED
  BY <1>1, TelemetryInit, TelemetryStep, PTL DEF Spec

-----------------------------------------------------------------------------
(* Cancellation *)

Recordable == {"success", "failed", "cancelled"}

(* A lane that is cancelling has a worker that is about to learn of it, that   *)
(* records the request it cut off, or that unwinds.                            *)
Unwinds ==
    \/ pc \in Awaits /\ cancel
    \/ pc = "record" /\ outcome = "cancelled"
    \/ pc = "unwinding" /\ (raised = "cancelled" \/ faults > 0)

OutcomeKnown ==
    /\ pc = "after" => outcome = "success"
    /\ pc = "record" => outcome \in Recordable

KInv ==
    /\ rows \in Seq(Row) /\ run \in Nat /\ telemetry \in Telemetry /\ faults \in Nat
    /\ seen \in BOOLEAN /\ (shown => seen)
    /\ OutcomeKnown
    /\ status = "cancelling" => Unwinds

LEMMA NoTelemetryTyped ==
    NoTelemetry \in Telemetry
BY DEF NoTelemetry, Telemetry, Sources, Zero, Count

LEMMA RowsTyped ==
    ASSUME KInv
    PROVE  /\ pc = "record" => ThisRow \in Row /\ ThisRow.metrics
           /\ PartialRow \in Row /\ PartialRow.metrics = seen
BY NoTelemetryTyped DEF KInv, OutcomeKnown, ThisRow, PartialRow, Row, Recordable

(* A row more is the last. *)
LEMMA AppendedRow ==
    ASSUME rows \in Seq(Row), NEW r \in Row, rows' = Append(rows, r)
    PROVE  rows' \in Seq(Row) /\ rows'[Len(rows')] = r
OBVIOUS

LEMMA HydratedTyped ==
    ASSUME TInv, telemetry \in Telemetry, NEW a \in Readings
    PROVE  Hydrated(a) \in Telemetry
<1>1. CASE /\ before # NoTelemetry /\ a # NoTelemetry /\ Plausible(before, a)
           /\ Hydrated(a) = [source |-> "counters", count |-> Delta(before, a)]
  <2>1. before \in Count /\ a \in Count
    BY <1>1 DEF TInv, Readings
  <2>2. Delta(before, a) \in Count
    BY <1>1, <2>1 DEF Delta, Plausible, Count
  <2> QED
    BY <1>1, <2>2 DEF Telemetry, Sources
<1>2. CASE Hydrated(a) = telemetry
  BY <1>2
<1> QED
  BY <1>1, <1>2 DEF Hydrated

(* What CancellationHolds says of a step. *)
Holds ==
    /\ status = "cancelling" /\ status' # "cancelling" =>
          status' \in IF faults' > 0 THEN {"cancelled", "failed"} ELSE {"cancelled"}
    /\ Len(rows') > Len(rows) /\ shown => rows'[Len(rows')].metrics

(* A step that adds no row and ends no cancellation. *)
LEMMA NothingRecorded ==
    ASSUME KInv, UNCHANGED rows, run' \in Nat, telemetry' \in Telemetry,
           faults' \in Nat, seen' \in BOOLEAN, shown' => seen',
           OutcomeKnown',
           \/ status # "cancelling" /\ (status' = "cancelling" => Unwinds')
           \/ status' = "cancelling" /\ Unwinds'
    PROVE  KInv' /\ Holds
<1>1. ~(Len(rows') > Len(rows))
  BY DEF KInv
<1> QED
  BY <1>1 DEF KInv, Holds

LEMMA FaultCounts ==
    ASSUME faults \in Nat, Fault
    PROVE  faults' \in Nat /\ faults' > 0
BY DEF Fault

LEMMA RecordStep ==
    ASSUME KInv, SpeedRecord \/ DrafterRecord
    PROVE  KInv' /\ Holds
<1> DEFINE row == ThisRow
<1>1. /\ pc = "record" /\ rows' = Append(rows, row)
      /\ UNCHANGED <<run, outcome, seen, shown, telemetry, cancel>>
      /\ \/ AfterRecord /\ UNCHANGED <<raised, faults>>
         \/ Fault /\ Raise("error") /\ UNCHANGED status
  BY DEF SpeedRecord, DrafterRecord
<1>2. row \in Row /\ row.metrics
  BY <1>1, RowsTyped
<1> HIDE DEF row
<1>3. rows' \in Seq(Row) /\ rows'[Len(rows')] = row
  BY <1>1, <1>2, AppendedRow DEF KInv
<1>4. CASE Fault /\ Raise("error") /\ UNCHANGED status
  <2>1. faults' \in Nat /\ faults' > 0 /\ pc' = "unwinding"
    BY <1>4, FaultCounts DEF KInv, Raise
  <2> QED
    BY <1>1, <1>2, <1>3, <1>4, <2>1 DEF KInv, Holds, Unwinds, OutcomeKnown
<1>5. CASE AfterRecord /\ UNCHANGED <<raised, faults>>
  <2>1. /\ pc' \in {"begin", "done"}
        /\ status' = "cancelling" => status = "cancelling" /\ pc' = "begin"
        /\ outcome = "cancelled" => status' = "cancelled"
    BY <1>5 DEF AfterRecord, AfterFailure, Finalize
  <2>2. status = "cancelling" => outcome = "cancelled"
    BY <1>1 DEF KInv, Unwinds, Awaits
  <2> QED
    BY <1>1, <1>2, <1>3, <1>5, <2>1, <2>2 DEF KInv, Holds, OutcomeKnown
<1> QED
  BY <1>1, <1>4, <1>5

LEMMA UnwindStep ==
    ASSUME KInv, SpeedUnwind \/ DrafterUnwind
    PROVE  KInv' /\ Holds
<1> DEFINE row == PartialRow
<1>1. /\ pc = "unwinding" /\ pc' = "done"
      /\ rows' = rows \/ rows' = Append(rows, row)
      /\ UNCHANGED <<run, seen, shown, telemetry>>
      /\ \/ status' = UnwindStatus /\ faults' = faults
         \/ status' = "failed" /\ Fault
  BY DEF SpeedUnwind, DrafterUnwind, DrafterPartial, Finalize, request
<1>2. row \in Row /\ row.metrics = seen
  BY RowsTyped
<1> HIDE DEF row
<1>3. /\ rows' \in Seq(Row)
      /\ Len(rows') > Len(rows) => rows'[Len(rows')] = row
  BY <1>1, <1>2, AppendedRow DEF KInv
<1>4. /\ faults' \in Nat /\ status' # "cancelling"
      /\ status = "cancelling" =>
            status' \in IF faults' > 0 THEN {"cancelled", "failed"} ELSE {"cancelled"}
  <2>1. status = "cancelling" => raised = "cancelled" \/ faults > 0
    BY <1>1 DEF KInv, Unwinds, Awaits
  <2>2. CASE status' = UnwindStatus /\ faults' = faults
    BY <2>1, <2>2 DEF UnwindStatus, KInv
  <2>3. CASE status' = "failed" /\ Fault
    BY <2>3, FaultCounts DEF KInv
  <2> QED
    BY <1>1, <2>2, <2>3
<1> QED
  BY <1>1, <1>2, <1>3, <1>4 DEF KInv, Holds, OutcomeKnown

LEMMA CancellationInit ==
    ASSUME Init
    PROVE  KInv
<1>1. /\ rows = <<>> /\ run = 0 /\ telemetry = NoTelemetry /\ faults = 0
      /\ seen = FALSE /\ pc = "idle" /\ status = "idle"
  BY DEF Init
<1>2. seen \in BOOLEAN /\ (shown => seen)
  BY Zenon DEF Init
<1>3. OutcomeKnown /\ status # "cancelling"
  BY <1>1 DEF OutcomeKnown
<1>4. rows \in Seq(Row) /\ run \in Nat /\ telemetry \in Telemetry /\ faults \in Nat
  BY <1>1, NoTelemetryTyped
<1> QED
  BY <1>2, <1>3, <1>4 DEF KInv

LEMMA CancellationStep ==
    ASSUME TInv, KInv, [Next]_vars
    PROVE  KInv' /\ Holds
<1> USE NothingRecorded, FaultCounts DEF request, record, outside, lane
<1>1. /\ run \in Nat /\ telemetry \in Telemetry /\ faults \in Nat /\ seen \in BOOLEAN
      /\ shown => seen
      /\ OutcomeKnown
      /\ status = "cancelling" => Unwinds
  BY DEF KInv
<1>2. CASE BeginTest \/ BeginBenchmark \/ Enter \/ Complete \/ CancelReservation
  <2>1. /\ UNCHANGED <<run, request, rows>> /\ OutcomeKnown'
        /\ pc \in {"idle", "reserved", "begin"}
        /\ status' = status \/ status' # "cancelling"
        /\ faults' \in Nat
    BY <1>1, <1>2 DEF BeginTest, BeginBenchmark, Enter, Complete, CancelReservation,
                      Finalize, LastStatus, OutcomeKnown
  <2>2. status # "cancelling"
    BY <1>1, <2>1 DEF Unwinds, Awaits
  <2> QED
    BY <1>1, <2>1, <2>2
<1>3. CASE BeginRequest
  <2>1. /\ pc = "begin" /\ run' = run + 1 /\ status' \in {"warming_up", "running"}
        /\ seen' = FALSE /\ shown' = FALSE /\ telemetry' = NoTelemetry
        /\ UNCHANGED rows /\ OutcomeKnown' /\ faults' \in Nat
    BY <1>1, <1>3 DEF BeginRequest, Announce, PhaseOf, Raise, OutcomeKnown
  <2>2. status # "cancelling"
    BY <1>1, <2>1 DEF Unwinds, Awaits
  <2>3. run' \in Nat /\ telemetry' \in Telemetry
    BY <1>1, <2>1, NoTelemetryTyped
  <2>4. seen' \in BOOLEAN /\ (shown' => seen')
    BY <2>1, Zenon
  <2>5. status' # "cancelling"
    BY <2>1
  <2> QED
    BY <2>1, <2>2, <2>3, <2>4, <2>5
<1>4. ASSUME pc \in Awaits, ~cancel,
             UNCHANGED <<rows, run, status>>, telemetry' \in Telemetry, faults' \in Nat,
             (seen' = seen /\ shown' = shown) \/ seen' = TRUE,
             OutcomeKnown'
      PROVE  KInv' /\ Holds
  <2>1. status # "cancelling" /\ status' # "cancelling"
    BY <1>1, <1>4 DEF Unwinds, Awaits
  <2>2. seen' \in BOOLEAN
    BY <1>1, <1>4
  <2>3. shown' => seen'
    <3>1. CASE seen' = seen /\ shown' = shown
      BY <1>1, <3>1
    <3>2. CASE seen' = TRUE
      BY <3>2
    <3> QED
      BY <1>4, <3>1, <3>2
  <2>4. run' \in Nat
    BY <1>1, <1>4
  <2> QED
    BY <1>4, <2>1, <2>2, <2>3, <2>4
<1>5. CASE CountersBefore
  BY <1>1, <1>4, <1>5 DEF CountersBefore, Awaits, OutcomeKnown
<1>6. CASE Progress
  BY <1>1, <1>4, <1>6 DEF Progress, OnProgress, Raise, Awaits, OutcomeKnown
<1>7. CASE Answers
  <2>1. telemetry' \in Telemetry
    <3>1. PICK u \in Usage : telemetry' \in Reported(u) \cup {NoTelemetry}
      BY <1>7 DEF Answers
    <3>2. u \in Count
      BY UsageAssumption
    <3> QED
      BY <3>1, <3>2, NoTelemetryTyped DEF Reported, Telemetry, Sources
  <2>2. faults' \in Nat /\ OutcomeKnown'
    BY <1>1, <1>7 DEF Answers, Raise, Recordable, OutcomeKnown
  <2> QED
    BY <1>4, <1>7, <2>1, <2>2 DEF Answers, OnProgress, Awaits
<1>8. CASE Fails
  <2>1. faults' \in Nat /\ OutcomeKnown'
    BY <1>1, <1>8 DEF Fails, Raise, Recordable, OutcomeKnown
  <2> QED
    BY <1>1, <1>4, <1>8, <2>1 DEF Fails, Awaits
<1>9. CASE CountersAfter
  <2>1. telemetry' \in Telemetry
    BY <1>1, <1>9, HydratedTyped DEF CountersAfter
  <2>2. pc = "after" /\ outcome' = outcome /\ faults' \in Nat
    BY <1>1, <1>9 DEF CountersAfter
  <2>3. OutcomeKnown'
    BY <1>1, <1>9, <2>2 DEF CountersAfter, Raise, Recordable, OutcomeKnown
  <2> QED
    BY <1>4, <1>9, <2>1, <2>2, <2>3 DEF CountersAfter, Awaits
<1>10. CASE RequestCancellation
  <2>1. /\ pc \in Awaits /\ pc' = pc /\ cancel' = TRUE /\ status' = "cancelling"
        /\ UNCHANGED <<run, request, rows, faults>>
    BY <1>10 DEF RequestCancellation
  <2>2. Unwinds' /\ OutcomeKnown'
    BY <1>1, <2>1 DEF Unwinds, OutcomeKnown
  <2> QED
    BY <1>1, <2>1, <2>2
<1>11. CASE CancelledGenerating \/ CancelledReading
  <2>1. /\ UNCHANGED <<run, rows, faults, seen, shown, telemetry, status>>
        /\ \/ pc' = "record" /\ outcome' = "cancelled"
           \/ pc' = "unwinding" /\ raised' = "cancelled"
    BY <1>11 DEF CancelledGenerating, CancelledReading, Raise
  <2>2. Unwinds' /\ OutcomeKnown'
    BY <2>1 DEF Unwinds, Recordable, OutcomeKnown
  <2> QED
    BY <1>1, <2>1, <2>2
<1>12. CASE Restart \/ Traffic \/ Done \/ UNCHANGED vars
  <2>1. UNCHANGED <<pc, run, request, rows, faults, status, cancel, raised>>
    BY <1>12 DEF Restart, Traffic, Done, vars
  <2>2. (Unwinds => Unwinds') /\ OutcomeKnown'
    BY <1>1, <2>1 DEF Unwinds, OutcomeKnown
  <2> QED
    BY <1>1, <2>1, <2>2
<1> QED
  BY <1>2, <1>3, <1>5, <1>6, <1>7, <1>8, <1>9, <1>10, <1>11, <1>12, RecordStep, UnwindStep
     DEF Next, Worker

(* For any number of requests and faults: a cancelled run ends cancelled,      *)
(* unless a callback raised, and starts nothing; and the row of a request      *)
(* whose metrics were shown has metrics.                                       *)
THEOREM CancellationIsKept ==
    Spec => CancellationHolds
<1>1. Init => TInv /\ KInv
  BY TelemetryInit, CancellationInit
<1>2. (TInv /\ KInv) /\ [Next]_vars => (TInv /\ KInv)'
  BY TelemetryStep, CancellationStep
<1>3. (TInv /\ KInv) /\ [Next]_vars => [Holds]_vars
  BY CancellationStep
<1> QED
  BY <1>1, <1>2, <1>3, PTL DEF Spec, CancellationHolds, Holds

-----------------------------------------------------------------------------
(* The rows and the result *)

(* The variables of two values. *)
Flags ==
    /\ seen \in BOOLEAN /\ shown \in BOOLEAN /\ recorded \in BOOLEAN
    /\ errors \in BOOLEAN /\ cancel \in BOOLEAN /\ disturbed \in BOOLEAN

(* A request that was begun and has no row. *)
Open == pc \in Awaits \cup {"record"}

(* The lane has the row of a request of which the worker thinks it has none. *)
Twice == Speed /\ ~Quiet /\ ~recorded

(* Where the worker is, and what it has then: one row for each request it     *)
(* began but the open one, in order.                                          *)
Place ==
    /\ config \in [kind : {"speed", "drafter"}, continue_on_error : BOOLEAN,
                   reader : BOOLEAN]
    /\ pc \in Awaits \cup {"idle", "reserved", "begin", "record", "unwinding", "done"}
    /\ run \in 0 .. Total
    /\ pc \in {"idle", "reserved"} => run = 0 /\ rows = <<>>
    /\ pc \in {"before", "after"} => ~Speed /\ config.reader
    /\ Open => run > 0 /\ Len(rows) = run - 1 /\ recorded = FALSE
    /\ pc = "begin" => Len(rows) = run
    /\ pc = "unwinding" =>
          /\ run > 0 /\ raised \in {"cancelled", "error"}
          /\ raised = "error" => ~Quiet
          /\ raised = "cancelled" =>
                ~Speed /\ config.reader /\ recorded = FALSE /\ Len(rows) = run - 1
          /\ Len(rows) = IF recorded \/ (Twice /\ Len(rows) = run) THEN run ELSE run - 1
    /\ pc = "done" => Len(rows) = run \/ (Speed /\ ~Quiet /\ Len(rows) = run + 1)
    /\ \A i \in DOMAIN rows : rows[i].run = IF i <= run THEN i ELSE run

(* A request is answered once, and its row says so unless it was cut off.     *)
Answered ==
    /\ answered \subseteq 1 .. run
    /\ pc \in {"before", "generating"} => run \notin answered
    /\ pc = "after" => run \in answered
    /\ pc = "record" => (outcome = "success" <=> run \in answered)
    /\ \A i \in DOMAIN rows :
          /\ rows[i].outcome = "success" => rows[i].run \in answered
          /\ Quiet /\ rows[i].run \in answered /\ rows[i].outcome # "success" =>
                ~Speed /\ config.reader /\ rows[i].outcome = "cancelled"

(* Only the Drafter counts, and it counts the rows that count. *)
Counted == completed = IF Speed THEN 0 ELSE Cardinality(Successful(rows))

(* The run can still end well. *)
GoesOn == pc # "done" /\ (pc = "unwinding" => raised = "cancelled")

Remembered ==
    GoesOn =>
        /\ \A i \in DOMAIN rows : rows[i].outcome \in {"success", "failed"}
        /\ errors <=> \E i \in DOMAIN rows : rows[i].outcome = "failed"
        /\ errors => config.continue_on_error

Published ==
    /\ status \in Active \cup Terminal \cup {"idle"}
    /\ pc # "done" => result = NoResult
    /\ result.status \in Terminal \cup {"none"} /\ result.rows \in Seq(Row)
    /\ ResultTellsTheTruth

RInv ==
    /\ Flags /\ Place /\ Answered /\ Counted /\ Remembered /\ Published
    /\ outcome \in {"none"} \cup Recordable
    /\ raised \in {"none", "cancelled", "error"}
    /\ restarts \in 0 .. MaxRestarts /\ faults \in 0 .. MaxFaults
    /\ traffic \in 0 .. MaxTraffic

LEMMA TotalTyped ==
    Total \in Nat /\ Warmups \in Nat /\ Measured \in Nat /\ Total = Warmups + Measured
BY SequenceAssumption DEF Total

LEMMA RowsInit ==
    ASSUME Init
    PROVE  RInv
<1>1. /\ pc = "idle" /\ run = 0 /\ rows = <<>> /\ answered = {} /\ completed = 0
      /\ status = "idle" /\ outcome = "none" /\ raised = "none" /\ faults = 0
      /\ restarts = 0 /\ traffic = 0 /\ result = NoResult
  BY DEF Init
<1>2. Flags
  BY Zenon DEF Init, Flags
<1>3. Place
  BY <1>1, TotalTyped DEF Init, Place, Open, Awaits
<1>4. Answered
  BY <1>1 DEF Answered
<1>5. Counted
  <2>1. Successful(rows) = {}
    BY <1>1 DEF Successful
  <2> QED
    BY <1>1, <2>1, FS_EmptySet DEF Counted
<1>6. Remembered
  <2>1. errors = FALSE /\ DOMAIN rows = {}
    BY <1>1 DEF Init
  <2> QED
    BY <2>1, Zenon DEF Remembered
<1>7. Published
  <2>1. result.status = "none" /\ result.rows = <<>>
    BY <1>1 DEF NoResult
  <2> QED
    BY <1>1, <2>1 DEF Published, ResultTellsTheTruth
<1> QED
  BY <1>1, <1>2, <1>3, <1>4, <1>5, <1>6, <1>7, SequenceAssumption DEF RInv

(* The actions of an open request give it no row: it goes on, or unwinds.     *)
OpenAction ==
    \/ CountersBefore \/ Progress \/ Answers \/ Fails \/ CountersAfter
    \/ RequestCancellation \/ CancelledGenerating \/ CancelledReading
    \/ Restart \/ Traffic

LEMMA OpenStep ==
    ASSUME faults \in Nat, OpenAction
    PROVE  /\ pc \in Awaits
           /\ UNCHANGED <<config, run, rows, completed, errors, recorded, result>>
           /\ status' \in {status, "cancelling"}
           /\ \/ /\ pc' \in Awaits \cup {"record"}
                 /\ UNCHANGED <<raised, faults>>
                 /\ pc' \in {"before", "after"} =>
                       pc' = pc \/ (pc = "generating" /\ ~Speed /\ config.reader)
              \/ /\ pc' = "unwinding" /\ raised' = "error" /\ faults' \in Nat
                 /\ faults' > 0
              \/ /\ pc' = "unwinding" /\ raised' = "cancelled" /\ faults' = faults
                 /\ pc \in {"before", "after"}
<1> USE FaultCounts DEF Awaits, request, record, outside, lane
<1>1. CASE CountersBefore
  BY <1>1 DEF CountersBefore
<1>2. CASE Progress
  BY <1>2 DEF Progress, OnProgress, Raise
<1>3. CASE Answers
  BY <1>3 DEF Answers, Raise
<1>4. CASE Fails
  BY <1>4 DEF Fails, Raise
<1>5. CASE CountersAfter
  BY <1>5 DEF CountersAfter, Raise
<1>6. CASE RequestCancellation \/ Restart \/ Traffic
  BY <1>6 DEF RequestCancellation, Restart, Traffic
<1>7. CASE CancelledGenerating \/ CancelledReading
  BY <1>7 DEF CancelledGenerating, CancelledReading, Raise
<1> QED
  BY <1>1, <1>2, <1>3, <1>4, <1>5, <1>6, <1>7 DEF OpenAction

(* A reservation that is announced, entered or cancelled.                     *)
LEMMA ReservationStep ==
    ASSUME faults \in Nat, BeginTest \/ BeginBenchmark \/ Enter \/ CancelReservation
    PROVE  /\ pc \in {"idle", "reserved"} /\ pc' \in {"reserved", "begin", "done"}
           /\ UNCHANGED <<config, run, request, record, raised, cancel, outside>>
           /\ faults' \in Nat /\ (faults' = faults \/ faults' > 0)
           /\ \/ pc' # "done" /\ UNCHANGED result /\ status' \in {status, "preparing"}
              \/ /\ pc' = "done" /\ Finalize(status', <<>>)
                 /\ status' = "cancelled" \/ (status' = "failed" /\ faults' > 0)
BY FaultCounts DEF BeginTest, BeginBenchmark, Enter, CancelReservation, Finalize, lane

LEMMA RecordingStep ==
    ASSUME faults \in Nat, SpeedRecord \/ DrafterRecord
    PROVE  /\ pc = "record" /\ rows' = Append(rows, ThisRow)
           /\ UNCHANGED <<config, run, outcome, seen, shown, telemetry, cancel, outside>>
           /\ completed' = IF Speed THEN completed ELSE CompletedNow
           /\ \/ AfterRecord /\ recorded' = TRUE /\ UNCHANGED <<raised, faults>>
              \/ /\ Raise("error") /\ UNCHANGED <<status, errors>>
                 /\ faults' \in Nat /\ faults' > 0
                 /\ recorded' = TRUE \/ (Speed /\ recorded' = recorded)
BY FaultCounts DEF SpeedRecord, DrafterRecord

LEMMA UnwindingStep ==
    ASSUME faults \in Nat, SpeedUnwind \/ DrafterUnwind
    PROVE  /\ pc = "unwinding"
           /\ rows' = IF recorded THEN rows ELSE Append(rows, PartialRow)
           /\ UNCHANGED <<config, run, request, completed, errors, raised, cancel, outside>>
           /\ faults' \in Nat
           /\ \/ Finalize(UnwindStatus, rows') /\ faults' = faults
              \/ Finalize("failed", rows') /\ faults' > 0
BY FaultCounts DEF SpeedUnwind, DrafterUnwind, DrafterPartial

LEMMA FlagsStep ==
    ASSUME Flags, [Next]_vars
    PROVE  Flags'
<1> USE DEF Flags, request, record, outside, lane
<1>1. CASE BeginTest \/ BeginBenchmark \/ Enter \/ Complete \/ CancelReservation
  BY <1>1, Zenon DEF BeginTest, BeginBenchmark, Enter, Complete, CancelReservation
<1>2. CASE BeginRequest
  BY <1>2, Zenon DEF BeginRequest, Announce, Forget
<1>3. CASE CountersBefore \/ CountersAfter
  BY <1>3, Zenon DEF CountersBefore, CountersAfter
<1>4. CASE Progress \/ Answers
  BY <1>4, Zenon DEF Progress, Answers, OnProgress
<1>5. CASE Fails \/ RequestCancellation \/ Restart \/ Traffic
  BY <1>5, Zenon DEF Fails, RequestCancellation, Restart, Traffic
<1>6. CASE CancelledGenerating \/ CancelledReading
  BY <1>6, Zenon DEF CancelledGenerating, CancelledReading
<1>7. CASE SpeedRecord
  BY <1>7, Zenon DEF SpeedRecord, AfterRecord, AfterFailure
<1>8. CASE DrafterRecord
  BY <1>8, Zenon DEF DrafterRecord, AfterRecord, AfterFailure
<1>9. CASE SpeedUnwind \/ DrafterUnwind
  BY <1>9, Zenon DEF SpeedUnwind, DrafterUnwind
<1>10. CASE Done \/ UNCHANGED vars
  BY <1>10, Zenon DEF Done, vars
<1> QED
  BY <1>1, <1>2, <1>3, <1>4, <1>5, <1>6, <1>7, <1>8, <1>9, <1>10 DEF Next, Worker

(* The row of the current request comes after those of the earlier ones.      *)
LEMMA RowsInOrder ==
    ASSUME KInv, Place, NEW r \in Row, rows' = Append(rows, r), run' = run,
           r.run = run, Len(rows) \in {run - 1, run}
    PROVE  /\ Len(rows') = Len(rows) + 1
           /\ \A i \in DOMAIN rows' : rows'[i].run = IF i <= run' THEN i ELSE run'
<1>1. rows \in Seq(Row) /\ run \in Nat
  BY DEF KInv
<1>2. /\ Len(rows') = Len(rows) + 1 /\ DOMAIN rows' = 1 .. Len(rows) + 1
      /\ \A i \in 1 .. Len(rows) : rows'[i] = rows[i]
      /\ rows'[Len(rows) + 1] = r
  BY <1>1
<1>3. \A i \in 1 .. Len(rows) : rows'[i].run = IF i <= run THEN i ELSE run
  BY <1>1, <1>2 DEF Place
<1> QED
  BY <1>1, <1>2, <1>3

LEMMA PlaceStep ==
    ASSUME KInv, RInv, [Next]_vars
    PROVE  Place'
<1> USE TotalTyped DEF Quiet, Twice, Speed
<1>1. /\ faults \in Nat /\ rows \in Seq(Row) /\ run \in Nat
      /\ recorded \in BOOLEAN
  BY DEF KInv, RInv, Flags
<1>2. CASE BeginTest \/ BeginBenchmark \/ Enter \/ CancelReservation
  <2>1. /\ run = 0 /\ rows = <<>> /\ pc' \in {"reserved", "begin", "done"}
        /\ UNCHANGED <<config, run, rows>>
    BY <1>1, <1>2, ReservationStep DEF RInv, Place, record
  <2> QED
    BY <2>1 DEF RInv, Place, Open, Awaits
<1>3. CASE BeginRequest
  <2>1. /\ pc = "begin" /\ run' = run + 1 /\ run < Total /\ recorded' = FALSE
        /\ UNCHANGED <<config, rows>>
        /\ \/ pc' = IF config.kind = "speed" \/ ~config.reader THEN "generating" ELSE "before"
           \/ pc' = "unwinding" /\ raised' = "error" /\ faults' > 0
    BY <1>1, <1>3, FaultCounts DEF BeginRequest, Forget, Raise, record
  <2>2. Len(rows) = run
    BY <2>1 DEF RInv, Place
  <2>3. \A i \in DOMAIN rows' : rows'[i].run = IF i <= run' THEN i ELSE run'
    BY <1>1, <2>1, <2>2 DEF RInv, Place
  <2> QED
    BY <1>1, <2>1, <2>2, <2>3 DEF RInv, Place, Open, Awaits
<1>4. CASE Complete
  <2>1. pc = "begin" /\ pc' = "done" /\ UNCHANGED <<config, run, rows>>
    BY <1>4 DEF Complete, Finalize, record
  <2> QED
    BY <2>1 DEF RInv, Place, Open, Awaits
<1>5. CASE OpenAction
  <2>1. Place /\ pc \in Awaits /\ UNCHANGED <<config, run, rows, recorded>>
    BY <1>1, <1>5, OpenStep DEF RInv
  <2>2. run > 0 /\ Len(rows) = run - 1 /\ recorded = FALSE
    BY <2>1 DEF Place, Open
  <2>3. \/ /\ pc' \in Awaits \cup {"record"}
           /\ pc' \in {"before", "after"} => ~Speed /\ config.reader
        \/ pc' = "unwinding" /\ raised' = "error" /\ faults' > 0
        \/ pc' = "unwinding" /\ raised' = "cancelled" /\ ~Speed /\ config.reader
    BY <1>1, <1>5, <2>1, OpenStep DEF Place
  <2> QED
    BY <1>1, <2>1, <2>2, <2>3 DEF Place, Open, Awaits
<1>6. CASE SpeedRecord \/ DrafterRecord
  <2> DEFINE row == ThisRow
  <2>1. /\ pc = "record" /\ rows' = Append(rows, row) /\ UNCHANGED <<config, run>>
        /\ \/ pc' \in {"begin", "done"}
           \/ /\ pc' = "unwinding" /\ raised' = "error" /\ faults' > 0
              /\ recorded' = TRUE \/ (Speed /\ recorded' = recorded)
    BY <1>1, <1>6, RecordingStep DEF AfterRecord, AfterFailure, Finalize, Raise
  <2>2. row \in Row /\ row.run = run
    BY <2>1, RowsTyped DEF ThisRow
  <2>3. run > 0 /\ Len(rows) = run - 1 /\ recorded = FALSE /\ Place
    BY <2>1 DEF RInv, Place, Open
  <2> HIDE DEF row
  <2>4. /\ Len(rows') = run
        /\ \A i \in DOMAIN rows' : rows'[i].run = IF i <= run' THEN i ELSE run'
    BY <1>1, <2>1, <2>2, <2>3, RowsInOrder
  <2> QED
    BY <1>1, <2>1, <2>3, <2>4 DEF Place, Open, Awaits
<1>7. CASE SpeedUnwind \/ DrafterUnwind
  <2> DEFINE row == PartialRow
  <2>1. /\ pc = "unwinding" /\ pc' = "done" /\ UNCHANGED <<config, run>>
        /\ rows' = IF recorded THEN rows ELSE Append(rows, row)
        /\ faults' = faults \/ faults' > 0
    BY <1>1, <1>7, UnwindingStep DEF Finalize
  <2>2. row \in Row /\ row.run = run
    BY RowsTyped DEF PartialRow
  <2> HIDE DEF row
  <2>3. Place /\ Len(rows) \in {run - 1, run}
    BY <1>1, <2>1 DEF RInv, Place
  <2>4. CASE recorded
    BY <1>1, <2>1, <2>3, <2>4 DEF Place, Open, Awaits
  <2>5. CASE ~recorded
    <3>1. rows' = Append(rows, row)
      BY <2>1, <2>5
    <3>2. /\ Len(rows') = Len(rows) + 1
          /\ \A i \in DOMAIN rows' : rows'[i].run = IF i <= run' THEN i ELSE run'
      BY <2>1, <2>2, <2>3, <3>1, RowsInOrder
    <3>3. Len(rows) = run => Speed /\ ~Quiet
      BY <1>1, <2>1, <2>3, <2>5 DEF Place
    <3> QED
      BY <1>1, <2>1, <2>3, <3>2, <3>3 DEF Place, Open, Awaits
  <2> QED
    BY <2>4, <2>5
<1>8. CASE Done \/ UNCHANGED vars
  BY <1>8 DEF RInv, Place, Open, Done, vars, request, record
<1> QED
  BY <1>2, <1>3, <1>4, <1>5, <1>6, <1>7, <1>8 DEF Next, Worker, OpenAction

(* Cases in which the rows, the answers and what is known of them stay.       *)
LEMMA AnsweredStays ==
    ASSUME Answered, UNCHANGED <<config, run, rows, answered>>,
           faults' = faults \/ faults' > 0,
           pc' \in {"reserved", "begin", "unwinding", "done"}
    PROVE  Answered'
BY DEF Answered, Quiet, Speed

(* A row more, whose request was answered just if the row is a success.       *)
LEMMA AnsweredAppends ==
    ASSUME KInv, Answered, NEW r \in Row, rows' = Append(rows, r),
           UNCHANGED <<config, run, answered>>, faults' = faults \/ faults' > 0,
           r.outcome = "success" => r.run \in answered,
           Quiet /\ r.run \in answered /\ r.outcome # "success" =>
               ~Speed /\ config.reader /\ r.outcome = "cancelled",
           pc' \in {"begin", "unwinding", "done"}
    PROVE  Answered'
<1>1. rows \in Seq(Row)
  BY DEF KInv
<1>2. /\ DOMAIN rows' = 1 .. Len(rows) + 1
      /\ \A i \in 1 .. Len(rows) : rows'[i] = rows[i]
      /\ rows'[Len(rows) + 1] = r /\ Len(rows) \in Nat /\ DOMAIN rows = 1 .. Len(rows)
  BY <1>1
<1>3. Quiet' => Quiet
  BY DEF Quiet
<1>4. ASSUME NEW i \in DOMAIN rows'
      PROVE  /\ rows'[i].outcome = "success" => rows'[i].run \in answered
             /\ Quiet' /\ rows'[i].run \in answered /\ rows'[i].outcome # "success" =>
                    ~Speed /\ config.reader /\ rows'[i].outcome = "cancelled"
  <2>1. CASE i \in 1 .. Len(rows)
    <3>1. rows'[i] = rows[i] /\ i \in DOMAIN rows
      BY <1>2, <2>1
    <3> QED
      BY <1>3, <3>1 DEF Answered
  <2>2. CASE i = Len(rows) + 1
    BY <1>2, <1>3, <2>2
  <2> QED
    BY <1>2, <1>4, <2>1, <2>2
<1> QED
  BY <1>4 DEF Answered, Speed

(* The request that is open has no row, and nobody else's row names it.       *)
LEMMA OpenUnnamed ==
    ASSUME KInv, Place, Open
    PROVE  \A i \in DOMAIN rows : rows[i].run # run
<1>1. rows \in Seq(Row) /\ run \in Nat /\ Len(rows) = run - 1
  BY DEF KInv, Place
<1> QED
  BY <1>1 DEF Place

LEMMA AnsweredStep ==
    ASSUME KInv, RInv, [Next]_vars
    PROVE  Answered'
<1> USE DEF Quiet
<1>1. /\ faults \in Nat /\ run \in Nat /\ Answered /\ Place
  BY DEF KInv, RInv
<1>2. CASE BeginTest \/ BeginBenchmark \/ Enter \/ CancelReservation
  BY <1>1, <1>2, ReservationStep, AnsweredStays DEF record, outside
<1>3. CASE BeginRequest
  <2>1. /\ run' = run + 1 /\ pc' \in {"before", "generating", "unwinding"}
        /\ UNCHANGED <<config, rows, answered>>
        /\ faults' = faults \/ faults' > 0
    BY <1>1, <1>3, FaultCounts DEF BeginRequest, Raise, record, outside
  <2>2. answered \subseteq 1 .. run' /\ run' \notin answered
    BY <1>1, <2>1 DEF Answered
  <2> QED
    BY <1>1, <2>1, <2>2 DEF Answered, Speed
<1>4. CASE Complete
  BY <1>1, <1>4, AnsweredStays DEF Complete, Finalize, record, outside
<1>5. CASE CountersBefore \/ Progress \/ Fails \/ RequestCancellation \/ Restart \/ Traffic
             \/ CancelledGenerating \/ CancelledReading
  <2>1. /\ UNCHANGED <<config, run, rows, answered>>
        /\ \/ pc' = pc /\ pc \in Awaits
           \/ pc = "before" /\ pc' = "generating"
           \/ pc = "generating" /\ pc' = "record" /\ outcome' \in {"failed", "cancelled"}
           \/ pc' = "unwinding"
        /\ faults' = faults \/ faults' > 0
    BY <1>1, <1>5, FaultCounts
       DEF CountersBefore, Progress, Fails, RequestCancellation, Restart, Traffic,
           CancelledGenerating, CancelledReading, Raise, Awaits, request, record, outside
  <2> QED
    BY <1>1, <2>1 DEF Answered, Awaits, Speed
<1>6. CASE Answers
  <2>1. /\ pc = "generating" /\ UNCHANGED <<config, run, rows>>
        /\ \/ /\ pc' \in {"after", "record"} /\ outcome' = "success"
              /\ answered' = answered \cup {run} /\ faults' = faults
           \/ pc' = "unwinding" /\ answered' = answered /\ faults' > 0
    BY <1>1, <1>6, FaultCounts DEF Answers, Raise, record
  <2>2. run > 0 /\ \A i \in DOMAIN rows : rows[i].run # run
    BY <1>1, <2>1, OpenUnnamed DEF Place, Open, Awaits
  <2>3. CASE pc' = "unwinding" /\ answered' = answered /\ faults' > 0
    BY <1>1, <2>1, <2>3, AnsweredStays
  <2>4. CASE /\ pc' \in {"after", "record"} /\ outcome' = "success"
             /\ answered' = answered \cup {run} /\ faults' = faults
    <3>1. answered' \subseteq 1 .. run /\ run \in answered'
      <4>1. run \in 1 .. run /\ answered \subseteq 1 .. run
        BY <1>1, <2>2 DEF Answered
      <4> QED
        BY <2>4, <4>1
    <3>2. \A i \in DOMAIN rows : rows[i].run \in answered' <=> rows[i].run \in answered
      BY <2>2, <2>4
    <3> QED
      BY <1>1, <2>1, <2>4, <3>1, <3>2 DEF Answered, Speed
  <2> QED
    BY <2>1, <2>3, <2>4
<1>7. CASE CountersAfter
  <2>1. /\ pc = "after" /\ UNCHANGED <<config, run, rows, answered, outcome>>
        /\ pc' \in {"record", "unwinding"} /\ (faults' = faults \/ faults' > 0)
    BY <1>1, <1>7, FaultCounts DEF CountersAfter, Raise, record, outside
  <2>2. outcome = "success" /\ run \in answered
    BY <1>1, <2>1 DEF KInv, OutcomeKnown, Answered
  <2> QED
    BY <1>1, <2>1, <2>2 DEF Answered, Speed
<1>8. CASE SpeedRecord \/ DrafterRecord
  <2> DEFINE row == ThisRow
  <2>1. /\ pc = "record" /\ rows' = Append(rows, row) /\ UNCHANGED <<config, run, answered>>
        /\ pc' \in {"begin", "done", "unwinding"} /\ (faults' = faults \/ faults' > 0)
    BY <1>1, <1>8, RecordingStep DEF AfterRecord, AfterFailure, Finalize, Raise, outside
  <2>2. row \in Row /\ row.run = run /\ row.outcome = outcome
    BY <2>1, RowsTyped DEF ThisRow
  <2>3. outcome = "success" <=> run \in answered
    BY <1>1, <2>1 DEF Answered
  <2> HIDE DEF row
  <2> QED
    BY <1>1, <2>1, <2>2, <2>3, AnsweredAppends
<1>9. CASE SpeedUnwind \/ DrafterUnwind
  <2> DEFINE row == PartialRow
  <2>1. /\ pc = "unwinding" /\ pc' = "done" /\ UNCHANGED <<config, run, answered>>
        /\ rows' = IF recorded THEN rows ELSE Append(rows, row)
        /\ faults' = faults \/ faults' > 0
    BY <1>1, <1>9, UnwindingStep DEF Finalize, outside
  <2>2. /\ row \in Row /\ row.outcome # "success"
        /\ raised = "cancelled" => row.outcome = "cancelled"
    BY RowsTyped DEF PartialRow
  <2>3. Quiet => raised = "cancelled" /\ ~Speed /\ config.reader
    BY <1>1, <2>1 DEF Place
  <2> HIDE DEF row
  <2>4. CASE recorded
    BY <1>1, <2>1, <2>4, AnsweredStays
  <2>5. CASE ~recorded
    BY <1>1, <2>1, <2>2, <2>3, <2>5, AnsweredAppends
  <2> QED
    BY <2>4, <2>5
<1>10. CASE Done \/ UNCHANGED vars
  BY <1>1, <1>10 DEF Answered, Speed, Done, vars, request, record, outside
<1> QED
  BY <1>2, <1>3, <1>4, <1>5, <1>6, <1>7, <1>8, <1>9, <1>10 DEF Next, Worker

LEMMA SuccessfulFinite ==
    ASSUME NEW rs \in Seq(Row)
    PROVE  /\ IsFiniteSet(Successful(rs)) /\ Cardinality(Successful(rs)) \in Nat
           /\ Len(rs) + 1 \notin Successful(rs)
<1>1. Successful(rs) \in SUBSET (1 .. Len(rs)) /\ Len(rs) \in Nat
  BY DEF Successful
<1>2. IsFiniteSet(1 .. Len(rs))
  BY <1>1, FS_Interval
<1>3. IsFiniteSet(Successful(rs))
  BY <1>1, <1>2, FS_Subset
<1> QED
  BY <1>1, <1>3, FS_CardinalityType

(* A row more counts once, if it counts.                                      *)
LEMMA SuccessfulAppends ==
    ASSUME NEW rs \in Seq(Row), NEW r \in Row
    PROVE  Cardinality(Successful(Append(rs, r))) =
               IF r.outcome = "success" /\ ~Warmup(r.run)
               THEN Cardinality(Successful(rs)) + 1 ELSE Cardinality(Successful(rs))
<1> DEFINE more == Append(rs, r)
<1>1. /\ DOMAIN more = 1 .. Len(rs) + 1 /\ DOMAIN rs = 1 .. Len(rs) /\ Len(rs) \in Nat
      /\ \A i \in 1 .. Len(rs) : more[i] = rs[i]
      /\ more[Len(rs) + 1] = r
  OBVIOUS
<1>2. Successful(more) = IF r.outcome = "success" /\ ~Warmup(r.run)
                         THEN Successful(rs) \cup {Len(rs) + 1} ELSE Successful(rs)
  <2> HIDE DEF more
  <2>1. \A i : i \in Successful(more) <=>
                   \/ i \in Successful(rs)
                   \/ i = Len(rs) + 1 /\ r.outcome = "success" /\ ~Warmup(r.run)
    BY <1>1 DEF Successful
  <2> QED
    BY <2>1
<1> HIDE DEF more
<1>3. Cardinality(Successful(rs) \cup {Len(rs) + 1}) = Cardinality(Successful(rs)) + 1
  BY SuccessfulFinite, FS_AddElement
<1>4. Cardinality(Successful(more)) =
          IF r.outcome = "success" /\ ~Warmup(r.run)
          THEN Cardinality(Successful(rs)) + 1 ELSE Cardinality(Successful(rs))
  BY <1>2, <1>3
<1> QED
  BY <1>4 DEF more

LEMMA CountedStep ==
    ASSUME KInv, RInv, [Next]_vars
    PROVE  Counted'
<1>1. /\ faults \in Nat /\ rows \in Seq(Row) /\ Counted /\ Place
  BY DEF KInv, RInv
<1>2. ASSUME UNCHANGED <<config, rows, completed>>
      PROVE  Counted'
  BY <1>1, <1>2 DEF Counted, Speed
<1>3. CASE BeginTest \/ BeginBenchmark \/ Enter \/ CancelReservation
  BY <1>1, <1>2, <1>3, ReservationStep DEF record
<1>4. CASE BeginRequest \/ Complete
  BY <1>2, <1>4 DEF BeginRequest, Complete, record
<1>5. CASE OpenAction
  BY <1>1, <1>2, <1>5, OpenStep
<1>6. CASE SpeedRecord \/ DrafterRecord
  <2> DEFINE row == ThisRow
  <2>1. /\ pc = "record" /\ rows' = Append(rows, row) /\ config' = config
        /\ completed' = IF Speed THEN completed ELSE CompletedNow
    BY <1>1, <1>6, RecordingStep
  <2>2. row \in Row /\ row.run = run /\ row.outcome = outcome
    BY <2>1, RowsTyped DEF ThisRow
  <2> HIDE DEF row
  <2>3. Cardinality(Successful(rows')) =
            IF outcome = "success" /\ ~Warmup(run)
            THEN Cardinality(Successful(rows)) + 1 ELSE Cardinality(Successful(rows))
    BY <1>1, <2>1, <2>2, SuccessfulAppends
  <2> QED
    BY <1>1, <2>1, <2>3 DEF Counted, CompletedNow, Speed
<1>7. CASE SpeedUnwind \/ DrafterUnwind
  <2> DEFINE row == PartialRow
  <2>1. /\ UNCHANGED <<config, completed>>
        /\ rows' = IF recorded THEN rows ELSE Append(rows, row)
    BY <1>1, <1>7, UnwindingStep
  <2>2. row \in Row /\ row.outcome # "success"
    BY RowsTyped DEF PartialRow
  <2> HIDE DEF row
  <2>3. CASE recorded
    BY <1>2, <2>1, <2>3
  <2>4. CASE ~recorded
    <3>1. Cardinality(Successful(rows')) = Cardinality(Successful(rows))
      BY <1>1, <2>1, <2>2, <2>4, SuccessfulAppends
    <3> QED
      BY <1>1, <2>1, <3>1 DEF Counted, Speed
  <2> QED
    BY <2>3, <2>4
<1>8. CASE Done \/ UNCHANGED vars
  BY <1>2, <1>8 DEF Done, vars, record
<1> QED
  BY <1>3, <1>4, <1>5, <1>6, <1>7, <1>8 DEF Next, Worker, OpenAction

LEMMA RememberedStep ==
    ASSUME KInv, RInv, [Next]_vars
    PROVE  Remembered'
<1>1. /\ faults \in Nat /\ rows \in Seq(Row) /\ Remembered /\ Place /\ errors \in BOOLEAN
  BY DEF KInv, RInv, Flags
<1>2. ASSUME UNCHANGED <<config, rows, errors>>, GoesOn' => GoesOn
      PROVE  Remembered'
  <2> SUFFICES ASSUME GoesOn' PROVE
        /\ \A i \in DOMAIN rows' : rows'[i].outcome \in {"success", "failed"}
        /\ errors' <=> \E i \in DOMAIN rows' : rows'[i].outcome = "failed"
        /\ errors' => config'.continue_on_error
    BY DEF Remembered
  <2>1. GoesOn
    BY <1>2
  <2>2. rows' = rows /\ config' = config /\ (errors' <=> errors)
    BY <1>2
  <2> QED
    BY <1>1, <2>1, <2>2, Zenon DEF Remembered
<1>3. CASE BeginTest \/ BeginBenchmark \/ Enter \/ CancelReservation
  BY <1>1, <1>2, <1>3, ReservationStep DEF GoesOn, record
<1>4. CASE BeginRequest
  BY <1>2, <1>4 DEF BeginRequest, GoesOn, record
<1>5. CASE Complete
  BY <1>2, <1>5 DEF Complete, Finalize, GoesOn, record
<1>6. CASE OpenAction
  BY <1>1, <1>2, <1>6, OpenStep DEF GoesOn, Awaits
<1>7. CASE SpeedRecord \/ DrafterRecord
  <2> DEFINE row == ThisRow
  <2>1. /\ pc = "record" /\ rows' = Append(rows, row) /\ config' = config
        /\ AfterRecord \/ ~GoesOn'
    BY <1>1, <1>7, RecordingStep DEF Raise, GoesOn
  <2>2. row \in Row /\ row.outcome = outcome
    BY <2>1, RowsTyped DEF ThisRow
  <2> HIDE DEF row
  <2>3. /\ DOMAIN rows' = 1 .. Len(rows) + 1 /\ DOMAIN rows = 1 .. Len(rows)
        /\ \A i \in 1 .. Len(rows) : rows'[i] = rows[i]
        /\ rows'[Len(rows) + 1] = row /\ Len(rows) \in Nat
    BY <1>1, <2>1, <2>2
  <2> SUFFICES ASSUME GoesOn'
               PROVE  /\ \A i \in DOMAIN rows' : rows'[i].outcome \in {"success", "failed"}
                      /\ errors' <=> \E i \in DOMAIN rows' : rows'[i].outcome = "failed"
                      /\ errors' => config'.continue_on_error
    BY DEF Remembered
  <2>4. /\ \A i \in DOMAIN rows : rows[i].outcome \in {"success", "failed"}
        /\ errors <=> \E i \in DOMAIN rows : rows[i].outcome = "failed"
        /\ errors => config.continue_on_error
    BY <1>1, <2>1 DEF Remembered, GoesOn
  <2>5. \/ outcome = "success" /\ errors' = errors
        \/ outcome = "failed" /\ config.continue_on_error /\ errors' = TRUE
    BY <2>1 DEF AfterRecord, AfterFailure, Finalize, GoesOn
  <2>6. CASE outcome = "success" /\ errors' = errors
    <3>1. \A i \in DOMAIN rows' : rows'[i].outcome \in {"success", "failed"}
      BY <2>2, <2>3, <2>4, <2>6
    <3>2. (\E i \in DOMAIN rows' : rows'[i].outcome = "failed")
              <=> (\E i \in DOMAIN rows : rows[i].outcome = "failed")
      BY <2>2, <2>3, <2>6
    <3>3. errors' <=> errors
      BY <2>6
    <3> QED
      BY <2>1, <2>4, <3>1, <3>2, <3>3, Zenon
  <2>7. CASE outcome = "failed" /\ config.continue_on_error /\ errors' = TRUE
    <3>1. \A i \in DOMAIN rows' : rows'[i].outcome \in {"success", "failed"}
      BY <2>2, <2>3, <2>4, <2>7
    <3>2. \E i \in DOMAIN rows' : rows'[i].outcome = "failed"
      BY <2>2, <2>3, <2>7
    <3> QED
      BY <2>1, <2>7, <3>1, <3>2, Zenon
  <2> QED
    BY <2>5, <2>6, <2>7
<1>8. CASE SpeedUnwind \/ DrafterUnwind
  BY <1>1, <1>8, UnwindingStep DEF Finalize, Remembered, GoesOn
<1>9. CASE Done \/ UNCHANGED vars
  BY <1>2, <1>9 DEF Done, vars, GoesOn, record
<1> QED
  BY <1>3, <1>4, <1>5, <1>6, <1>7, <1>8, <1>9 DEF Next, Worker, OpenAction

(* What a terminal result may say of its rows, as its worker writes it.       *)
Tells(s, rs) ==
    LET cancelled == {i \in DOMAIN rs : rs[i].outcome = "cancelled"}
        failed == {i \in DOMAIN rs : rs[i].outcome = "failed"}
        last == {i \in DOMAIN rs : i = Len(rs)}
    IN /\ s \in {"completed", "completed_with_errors"} => Len(rs) = Total
       /\ s = "completed" => \A i \in DOMAIN rs : rs[i].outcome = "success"
       /\ s = "completed_with_errors" =>
              config.continue_on_error /\ failed # {} /\ cancelled = {}
       /\ s = "cancelled" => cancelled = last
       /\ s = "failed" /\ Quiet' => ~config.continue_on_error /\ failed = last /\ Len(rs) > 0

LEMMA ObservationComplete ==
    ASSUME NEW rs, Observation(rs) = "complete"
    PROVE  \A i \in Successful(rs) : rs[i].telemetry.source # "none"
<1> DEFINE good == Successful(rs)
<1> DEFINE with == {i \in good : rs[i].telemetry.source # "none"}
<1>1. Observation(rs) = IF good = {} THEN "none"
                        ELSE IF with = {} THEN "unavailable"
                        ELSE IF with # good THEN "partial" ELSE "complete"
  BY DEF Observation
<1>2. with = good
  BY <1>1
<1> QED
  BY <1>2

LEMMA FinalizeTells ==
    ASSUME NEW s \in Terminal, Finalize(s, rows'), rows' \in Seq(Row), config' = config,
           Tells(s, rows')
    PROVE  Published'
<1> DEFINE rs == rows'
<1>1. /\ pc' = "done" /\ status' = s /\ result'.status = s /\ result'.rows = rs
      /\ result'.note = "none" \/ result'.note = Observation(rs)
  BY DEF Finalize, SpeedFinalize, DrafterFinalize
<1>2. result'.note = "complete" =>
          \A i \in Successful(rs) : rs[i].telemetry.source # "none"
  BY <1>1, ObservationComplete
<1>3. /\ Len(rs) \in Nat /\ DOMAIN rs = 1 .. Len(rs)
  OBVIOUS
<1>4. ResultTellsTheTruth'
  <2>1. /\ result'.status = "completed" =>
             Len(rs) = Total /\ {i \in DOMAIN rs : rs[i].outcome = "success"} = 1 .. Len(rs)
        /\ result'.status = "completed_with_errors" =>
             /\ Len(rs) = Total /\ config.continue_on_error
             /\ {i \in DOMAIN rs : rs[i].outcome = "failed"} # {}
             /\ {i \in DOMAIN rs : rs[i].outcome = "cancelled"} = {}
        /\ result'.status = "cancelled" =>
             {i \in DOMAIN rs : rs[i].outcome = "cancelled"} = {i \in DOMAIN rs : i = Len(rs)}
        /\ result'.status = "failed" /\ Quiet' =>
             /\ ~config.continue_on_error /\ Len(rs) > 0
             /\ {i \in DOMAIN rs : rs[i].outcome = "failed"} = {i \in DOMAIN rs : i = Len(rs)}
    <3> HIDE DEF rs
    <3> QED
      BY <1>1, <1>3 DEF Tells, rs
  <2> QED
    BY <1>1, <1>2, <2>1 DEF ResultTellsTheTruth, Ended
<1> QED
  BY <1>1, <1>4 DEF Published

(* What is published stays as long as the run does.                           *)
LEMMA PublishedStays ==
    ASSUME Published, pc # "done", pc' # "done", result' = result,
           status' \in Active \cup Terminal \cup {"idle"}
    PROVE  Published'
<1>1. result' = NoResult
  BY DEF Published
<1>2. result'.status = "none" /\ result'.rows = <<>>
  BY <1>1 DEF NoResult
<1> QED
  BY <1>1, <1>2 DEF Published, ResultTellsTheTruth

(* The run ends with the row that ends it, or with all of them.               *)
LEMMA RecordTells ==
    ASSUME KInv, RInv, SpeedRecord \/ DrafterRecord, pc' = "done"
    PROVE  Published'
<1>1. faults \in Nat /\ rows \in Seq(Row) /\ Remembered /\ Place /\ errors \in BOOLEAN
  BY DEF KInv, RInv, Flags
<1> DEFINE row == ThisRow
<1>2. /\ pc = "record" /\ rows' = Append(rows, row) /\ config' = config /\ faults' = faults
      /\ \/ outcome = "failed" /\ ~config.continue_on_error /\ Finalize("failed", rows')
         \/ outcome = "cancelled" /\ Finalize("cancelled", rows')
  BY <1>1, RecordingStep DEF AfterRecord, AfterFailure, Raise
<1>3. row \in Row /\ row.outcome = outcome
  BY <1>2, RowsTyped DEF ThisRow
<1> HIDE DEF row
<1>4. /\ rows' \in Seq(Row) /\ Len(rows') = Len(rows) + 1 /\ Len(rows) \in Nat
      /\ DOMAIN rows' = 1 .. Len(rows) + 1 /\ DOMAIN rows = 1 .. Len(rows)
      /\ \A i \in 1 .. Len(rows) : rows'[i] = rows[i]
      /\ rows'[Len(rows) + 1] = row
  BY <1>1, <1>2, <1>3
<1>5. /\ \A i \in DOMAIN rows : rows[i].outcome \in {"success", "failed"}
      /\ (\E i \in DOMAIN rows : rows[i].outcome = "failed") => config.continue_on_error
  BY <1>1, <1>2, Zenon DEF Remembered, GoesOn
<1>6. CASE outcome = "failed" /\ ~config.continue_on_error /\ Finalize("failed", rows')
  <2>1. \A i \in DOMAIN rows' : rows'[i].outcome = "failed" <=> i = Len(rows')
    BY <1>3, <1>4, <1>5, <1>6
  <2>2. Tells("failed", rows')
    BY <1>4, <1>6, <2>1 DEF Tells
  <2> QED
    BY <1>2, <1>4, <1>6, <2>2, FinalizeTells DEF Terminal
<1>7. CASE outcome = "cancelled" /\ Finalize("cancelled", rows')
  <2>1. \A i \in DOMAIN rows' : rows'[i].outcome = "cancelled" <=> i = Len(rows')
    BY <1>3, <1>4, <1>5, <1>7
  <2>2. Tells("cancelled", rows')
    BY <1>4, <2>1 DEF Tells
  <2> QED
    BY <1>2, <1>4, <1>7, <2>2, FinalizeTells DEF Terminal
<1> QED
  BY <1>2, <1>6, <1>7

LEMMA UnwindTells ==
    ASSUME KInv, RInv, SpeedUnwind \/ DrafterUnwind
    PROVE  Published'
<1>1. faults \in Nat /\ rows \in Seq(Row) /\ Remembered /\ Place /\ errors \in BOOLEAN
  BY DEF KInv, RInv, Flags
<1> DEFINE row == PartialRow
<1>2. /\ pc = "unwinding" /\ config' = config
      /\ rows' = IF recorded THEN rows ELSE Append(rows, row)
      /\ \/ Finalize(UnwindStatus, rows') /\ faults' = faults
         \/ Finalize("failed", rows') /\ faults' > 0
  BY <1>1, UnwindingStep
<1>3. row \in Row /\ (raised = "cancelled" => row.outcome = "cancelled")
  BY RowsTyped DEF PartialRow
<1> HIDE DEF row
<1>4. rows' \in Seq(Row)
  BY <1>1, <1>2, <1>3
<1>5. CASE Finalize("failed", rows') /\ (faults' > 0 \/ ~Quiet')
  <2>1. Tells("failed", rows')
    BY <1>5 DEF Tells, Quiet
  <2> QED
    BY <1>2, <1>4, <1>5, <2>1, FinalizeTells DEF Terminal
<1>6. CASE Finalize("cancelled", rows') /\ raised = "cancelled"
  <2>1. rows' = Append(rows, row)
    BY <1>1, <1>2, <1>6 DEF Place
  <2>2. /\ Len(rows') = Len(rows) + 1 /\ Len(rows) \in Nat
        /\ DOMAIN rows' = 1 .. Len(rows) + 1 /\ DOMAIN rows = 1 .. Len(rows)
        /\ \A i \in 1 .. Len(rows) : rows'[i] = rows[i]
        /\ rows'[Len(rows) + 1] = row
    BY <1>1, <1>3, <2>1
  <2>3. \A i \in DOMAIN rows : rows[i].outcome \in {"success", "failed"}
    BY <1>1, <1>2, <1>6 DEF Remembered, GoesOn
  <2>4. \A i \in DOMAIN rows' : rows'[i].outcome = "cancelled" <=> i = Len(rows')
    BY <1>3, <1>6, <2>2, <2>3
  <2>5. Tells("cancelled", rows')
    BY <1>4, <2>4 DEF Tells
  <2> QED
    BY <1>2, <1>4, <1>6, <2>5, FinalizeTells DEF Terminal
<1>7. \/ Finalize("failed", rows') /\ (faults' > 0 \/ ~Quiet')
      \/ Finalize("cancelled", rows') /\ raised = "cancelled"
  BY <1>1, <1>2 DEF Place, UnwindStatus, Quiet
<1> QED
  BY <1>5, <1>6, <1>7

LEMMA PublishedStep ==
    ASSUME KInv, RInv, [Next]_vars
    PROVE  Published'
<1>1. /\ faults \in Nat /\ rows \in Seq(Row) /\ Published /\ Place /\ Remembered
      /\ errors \in BOOLEAN
  BY DEF KInv, RInv, Flags
<1>2. status \in Active \cup Terminal \cup {"idle"}
  BY <1>1 DEF Published
<1>3. CASE BeginTest \/ BeginBenchmark \/ Enter \/ CancelReservation
  <2>1. /\ pc \in {"idle", "reserved"} /\ config' = config
        /\ rows' = <<>>
        /\ \/ pc' # "done" /\ UNCHANGED result /\ status' \in {status, "preparing"}
           \/ /\ Finalize(status', <<>>)
              /\ status' = "cancelled" \/ (status' = "failed" /\ faults' > 0)
    BY <1>1, <1>3, ReservationStep DEF Place, record
  <2>2. CASE pc' # "done" /\ UNCHANGED result /\ status' \in {status, "preparing"}
    BY <1>1, <1>2, <2>1, <2>2, PublishedStays DEF Active
  <2>3. CASE /\ Finalize(status', <<>>)
             /\ status' = "cancelled" \/ (status' = "failed" /\ faults' > 0)
    <3>1. Finalize(status', rows') /\ rows' \in Seq(Row) /\ status' \in Terminal
      BY <2>1, <2>3 DEF Terminal
    <3>2. Tells(status', rows')
      BY <2>1, <2>3 DEF Tells, Quiet
    <3> QED
      BY <2>1, <3>1, <3>2, FinalizeTells
  <2> QED
    BY <2>1, <2>2, <2>3
<1>4. CASE BeginRequest
  BY <1>1, <1>4, PublishedStays
     DEF BeginRequest, Announce, PhaseOf, Raise, Active
<1>5. CASE Complete
  <2>1. /\ pc = "begin" /\ run = Total /\ Finalize(LastStatus, rows')
        /\ UNCHANGED <<config, rows, faults>>
    BY <1>5 DEF Complete, record
  <2>2. Len(rows) = Total
    BY <1>1, <2>1 DEF Place
  <2>3. /\ \A i \in DOMAIN rows : rows[i].outcome \in {"success", "failed"}
        /\ errors <=> \E i \in DOMAIN rows : rows[i].outcome = "failed"
        /\ errors => config.continue_on_error
    BY <1>1, <2>1 DEF Remembered, GoesOn
  <2>4. LastStatus \in Terminal /\ Tells(LastStatus, rows)
    <3>1. CASE errors
      <4>1. LastStatus = "completed_with_errors"
        BY <3>1 DEF LastStatus
      <4>2. config.continue_on_error /\ \E i \in DOMAIN rows : rows[i].outcome = "failed"
        BY <2>3, <3>1, Zenon
      <4> QED
        BY <2>2, <2>3, <4>1, <4>2 DEF Tells, Terminal
    <3>2. CASE ~errors
      <4>1. LastStatus = "completed"
        BY <3>2 DEF LastStatus
      <4>2. ~ \E i \in DOMAIN rows : rows[i].outcome = "failed"
        BY <2>3, <3>2, Zenon
      <4> QED
        BY <2>2, <2>3, <4>1, <4>2 DEF Tells, Terminal
    <3> QED
      BY <3>1, <3>2
  <2> QED
    BY <1>1, <2>1, <2>4, FinalizeTells
<1>6. CASE OpenAction
  BY <1>1, <1>2, <1>6, OpenStep, PublishedStays DEF Awaits, Active
<1>7. CASE SpeedRecord \/ DrafterRecord
  <2>1. CASE pc' = "done"
    BY <1>7, <2>1, RecordTells
  <2>2. CASE pc' # "done"
    <3>1. pc = "record" /\ result' = result /\ status' = status
      BY <1>1, <1>7, <2>2, RecordingStep DEF AfterRecord, AfterFailure, Finalize, Raise
    <3> QED
      BY <1>1, <1>2, <2>2, <3>1, PublishedStays
  <2> QED
    BY <2>1, <2>2
<1>8. CASE SpeedUnwind \/ DrafterUnwind
  BY <1>8, UnwindTells
<1>9. CASE Done \/ UNCHANGED vars
  BY <1>1, <1>9 DEF Published, ResultTellsTheTruth, Ended, Quiet, Done, vars, lane, record
<1> QED
  BY <1>3, <1>4, <1>5, <1>6, <1>7, <1>8, <1>9 DEF Next, Worker, OpenAction

(* The bounds of what may go wrong, and why the worker unwinds.               *)
LEMMA BoundsStep ==
    ASSUME RInv, [Next]_vars
    PROVE  /\ outcome' \in {"none"} \cup Recordable
           /\ raised' \in {"none", "cancelled", "error"}
           /\ restarts' \in 0 .. MaxRestarts /\ faults' \in 0 .. MaxFaults
           /\ traffic' \in 0 .. MaxTraffic
<1> USE DEF request, record, outside, lane, Recordable
<1>1. /\ outcome \in {"none"} \cup Recordable
      /\ raised \in {"none", "cancelled", "error"}
      /\ restarts \in 0 .. MaxRestarts /\ faults \in 0 .. MaxFaults
      /\ traffic \in 0 .. MaxTraffic
      /\ MaxFaults \in Nat /\ MaxRestarts \in Nat /\ MaxTraffic \in Nat
  BY SequenceAssumption DEF RInv
<1>2. Fault => faults' \in 0 .. MaxFaults
  BY <1>1 DEF Fault
<1>3. CASE BeginTest \/ BeginBenchmark \/ Enter \/ Complete \/ CancelReservation
  BY <1>1, <1>2, <1>3 DEF BeginTest, BeginBenchmark, Enter, Complete, CancelReservation
<1>4. CASE BeginRequest \/ CountersBefore \/ Progress
  BY <1>1, <1>2, <1>4 DEF BeginRequest, CountersBefore, Progress, Raise
<1>5. CASE Answers \/ Fails
  BY <1>1, <1>2, <1>5 DEF Answers, Fails, Raise
<1>6. CASE CountersAfter \/ RequestCancellation \/ Restart \/ Traffic
  BY <1>1, <1>2, <1>6 DEF CountersAfter, RequestCancellation, Restart, Traffic, Raise
<1>7. CASE CancelledGenerating \/ CancelledReading
  BY <1>1, <1>7 DEF CancelledGenerating, CancelledReading, Raise
<1>8. CASE SpeedRecord \/ DrafterRecord
  BY <1>1, <1>2, <1>8 DEF SpeedRecord, DrafterRecord, Raise
<1>9. CASE SpeedUnwind \/ DrafterUnwind
  BY <1>1, <1>2, <1>9 DEF SpeedUnwind, DrafterUnwind
<1>10. CASE Done \/ UNCHANGED vars
  BY <1>1, <1>10 DEF Done, vars
<1> QED
  BY <1>3, <1>4, <1>5, <1>6, <1>7, <1>8, <1>9, <1>10 DEF Next, Worker

LEMMA RowsStep ==
    ASSUME KInv, RInv, [Next]_vars
    PROVE  RInv'
<1>1. Flags'
  BY FlagsStep DEF RInv
<1> QED
  BY <1>1, PlaceStep, AnsweredStep, CountedStep, RememberedStep, PublishedStep, BoundsStep
     DEF RInv

(* The Drafter counts no more than it measures: its rows are in order, so the *)
(* ones that count are among the measured requests.                           *)
LEMMA CompletedBounded ==
    ASSUME KInv, RInv
    PROVE  completed \in 0 .. Measured
<1>1. rows \in Seq(Row) /\ run \in 0 .. Total /\ Place /\ Counted
  BY DEF KInv, RInv, Place
<1>2. CASE Speed
  BY <1>1, <1>2, TotalTyped DEF Counted
<1>3. CASE ~Speed
  <2>1. Len(rows) \in Nat /\ Len(rows) <= run
    <3>1. pc \in Awaits \cup {"idle", "reserved", "begin", "record", "unwinding", "done"}
      BY <1>1 DEF Place
    <3> QED
      BY <1>1, <1>3, <3>1 DEF Place, Open, Twice
  <2>2. Successful(rows) \in SUBSET (Warmups + 1 .. Total)
    BY <1>1, <2>1, TotalTyped DEF Successful, Warmup, Place
  <2>3. /\ IsFiniteSet(Warmups + 1 .. Total)
        /\ Cardinality(Warmups + 1 .. Total) <= Measured
    BY TotalTyped, FS_Interval
  <2>4. Cardinality(Successful(rows)) <= Measured
    BY <1>1, <2>2, <2>3, FS_Subset, SuccessfulFinite, FS_CardinalityType, TotalTyped
  <2> QED
    BY <1>1, <1>3, <2>4, SuccessfulFinite, TotalTyped DEF Counted
<1> QED
  BY <1>2, <1>3

LEMMA TypesHold ==
    ASSUME TInv, KInv, RInv
    PROVE  TypeOK
<1>1. /\ config \in [kind : {"speed", "drafter"}, continue_on_error : BOOLEAN,
                     reader : BOOLEAN]
      /\ pc \in Awaits \cup {"idle", "reserved", "begin", "record", "unwinding", "done"}
      /\ status \in Active \cup Terminal \cup {"idle"}
      /\ run \in 0 .. Total
      /\ result.status \in Terminal \cup {"none"} /\ result.rows \in Seq(Row)
  BY DEF RInv, Place, Published
<1>2. {seen, shown, recorded, errors, cancel, disturbed} \subseteq BOOLEAN
  BY Zenon DEF RInv, Flags
<1>3. answered \subseteq 1 .. Total
  BY <1>1, TotalTyped DEF RInv, Answered
<1>4. /\ before \in Count \cup {NoTelemetry} /\ telemetry \in Telemetry
      /\ rows \in Seq(Row) /\ server \in Count /\ cost \in Count /\ others \in Count
  BY DEF TInv, KInv
<1> QED
  BY <1>1, <1>2, <1>3, <1>4, CompletedBounded DEF TypeOK, RInv, Recordable

LEMMA RowsTell ==
    ASSUME KInv, RInv
    PROVE  RowsTellTheTruth
<1>1. /\ rows \in Seq(Row) /\ run \in Nat /\ faults \in Nat
      /\ Place /\ Answered /\ Counted
  BY DEF KInv, RInv
<1>2. ASSUME ~Speed \/ Quiet, NEW i \in DOMAIN rows
      PROVE  rows[i].run = i
  <2>1. Len(rows) <= run
    <3>1. pc \in Awaits \cup {"idle", "reserved", "begin", "record", "unwinding", "done"}
      BY <1>1 DEF Place
    <3> QED
      BY <1>1, <1>2, <3>1 DEF Place, Open, Twice
  <2> QED
    BY <1>1, <2>1 DEF Place
<1>3. pc = "done" => IF ~Speed \/ Quiet THEN Len(rows) = run
                     ELSE Len(rows) \in run .. run + faults
  BY <1>1 DEF Place, Quiet
<1>4. /\ \A i \in DOMAIN rows :
            /\ rows[i].outcome = "success" => rows[i].run \in answered
            /\ Quiet /\ rows[i].run \in answered /\ rows[i].outcome # "success" =>
                  ~Speed /\ config.reader /\ rows[i].outcome = "cancelled"
      /\ ~Speed => completed = Cardinality(Successful(rows))
  BY <1>1 DEF Answered, Counted
<1> QED
  BY <1>2, <1>3, <1>4 DEF RowsTellTheTruth

(* For any number of requests, faults and restarts: a run has one row for each *)
(* request it began, in order, no row claims a success the server did not     *)
(* give, the Drafter counts the rows that count, and the status of the result  *)
(* agrees with its rows.                                                       *)
THEOREM RunsTellTheTruth ==
    Spec => []RunTellsTheTruth
<1>1. Init => TInv /\ KInv /\ RInv
  BY TelemetryInit, CancellationInit, RowsInit
<1>2. (TInv /\ KInv /\ RInv) /\ [Next]_vars => (TInv /\ KInv /\ RInv)'
  BY TelemetryStep, CancellationStep, RowsStep
<1>3. TInv /\ KInv /\ RInv => RunTellsTheTruth
  BY TypesHold, RowsTell DEF RunTellsTheTruth, RInv, Published
<1> QED
  BY <1>1, <1>2, <1>3, PTL DEF Spec

=============================================================================
