------------------------------ MODULE ContextRun ------------------------------
(* One run of the Context Length benchmark: target after target, each with a   *)
(* prompt to build, warm-up requests, and measured requests that go through    *)
(* the bounded worker pool with one worker.  A list mode (fixed, sweep and     *)
(* retrieval) takes its targets from the configuration, probe mode from the    *)
(* planner.  The main task waits for builds and warm-ups, for the pool, for    *)
(* the hardware sampler and between targets; the pool's task for the builds    *)
(* and requests of the measured phase.                                         *)
(* Definitions named M_... are deliberate mistakes: each stands for a bug the  *)
(* code could have in the definition after it, and no behaviour uses them.     *)
EXTENDS ProbePlanner

CONSTANTS
    Targets,        \* target_lengths, sorted and unique
    Warmups,        \* warmup_requests
    Repeats         \* repetitions_per_length, and per position in retrieval

ASSUME PlanAssumption ==
    /\ Targets \in Seq(Nat \ {0}) /\ Targets # <<>>
    /\ \A i, j \in DOMAIN Targets : i < j => Targets[i] < Targets[j]
    /\ Warmups \in Nat /\ Repeats \in Nat \ {0}

VARIABLES
    config,     \* probe: the mode; shared: one prompt for every attempt of a
                \* target; keepGoing: continue_after_timeout; early:
                \* early_stop_enabled; delay: there is one between lengths
    pc,         \* building, requesting, sampling (the pool has ended),
                \* between (targets), done
    phase,      \* shared (the prompt), warmup, measured (in the pool)
    run,        \* number of the attempt in its phase
    at,         \* index of the target in a list
    current,    \* outcomes of _current_requests
    lengths,    \* _lengths
    streak,     \* partial_rejection_streak
    cancel,     \* _cancel_event
    pending,    \* the task has a cancellation to deliver
    why,        \* how the pool ended: ok, cancelled, crashed
    attempts,   \* history: every measured attempt the pool collected
    result      \* the terminal result

vars == <<planner, config, pc, phase, run, at, current, lengths, streak, cancel,
          pending, why, attempts, result>>

plan == <<config, at, streak>>

book == <<current, lengths, attempts, result>>

Configs == [probe : BOOLEAN, shared : BOOLEAN, keepGoing : BOOLEAN,
            early : BOOLEAN, delay : BOOLEAN]

(* An attempt is answered, refused for its length, not answered in time, or   *)
(* fails for any other reason.  Only the first two tell about acceptance.     *)
Outcomes == {"done", "rejected", "timeout", "error"}

Evidence == [done |-> "accepted", rejected |-> "rejected",
             timeout |-> "unknown", error |-> "unknown"]

(* _active_target *)
Target == IF config.probe THEN candidate ELSE Targets[at]

NoResult == [status |-> "none", lengths |-> <<>>]

RangeOf(rows) == {rows[i] : i \in DOMAIN rows}

-----------------------------------------------------------------------------
(* Ending *)

M_CommitsTwice ==
    IF current = <<>> THEN lengths
    ELSE Append(lengths, [target |-> Target, rows |-> current, early |-> FALSE])

(* _commit_partial_current: the attempts of a target that has no length yet.  *)
Committed ==
    IF current = <<>> \/ \E i \in DOMAIN lengths : lengths[i].target = Target
    THEN lengths
    ELSE Append(lengths, [target |-> Target, rows |-> current, early |-> FALSE])

End(status, ls) ==
    /\ pc' = "done"
    /\ result' = [status |-> status, lengths |-> ls]
    /\ current' = <<>>
    /\ UNCHANGED <<phase, run, why, attempts>>

M_CancelDropsCurrent == End("cancelled", lengths) /\ UNCHANGED lengths

Cancelled == End("cancelled", Committed) /\ lengths' = Committed

(* _FatalContextError, where run still catches it. *)
Fatal == End("fatal", Committed) /\ lengths' = Committed

(* Any other exception, and one of the pool, which wraps what it raises:      *)
(* run clears the current attempts before the service asks for a result.      *)
Crashed == End("crashed", lengths) /\ UNCHANGED lengths

-----------------------------------------------------------------------------
(* Targets *)

FirstPhase == IF Warmups > 0 THEN "warmup" ELSE "measured"

(* The prompt of the next attempt: built for it, or the target's. *)
NextPrompt == IF config.shared THEN "requesting" ELSE "building"

(* The next target of either loop: the cancel event is read before it starts. *)
NextTarget ==
    IF cancel THEN End("cancelled", lengths')
    ELSE /\ pc' = "building"
         /\ phase' = IF config.shared THEN "shared" ELSE FirstPhase
         /\ run' = 1
         /\ current' = <<>>
         /\ UNCHANGED <<why, attempts, result>>

All(rows, outcome) == Len(rows) = Repeats /\ RangeOf(rows) = {outcome}

M_AnyRejection(rows) == "rejected" \in RangeOf(rows)

AllRejectedRows(rows) == All(rows, "rejected")

PartlyRejected(rows) == Len(rows) = Repeats /\ RangeOf(rows) = {"done", "rejected"}

M_StreakNotReset(rows) == IF PartlyRejected(rows) THEN streak + 1 ELSE streak

Streak(rows) == IF PartlyRejected(rows) THEN streak + 1 ELSE 0

StopsEarly(rows) == config.early /\ (AllRejectedRows(rows) \/ Streak(rows) >= 2)

(* The loop over a list, after a target. *)
AfterListed ==
    LET stops == StopsEarly(current)
        length == [target |-> Target, rows |-> current, early |-> stops]
    IN /\ lengths' = Append(lengths, length)
       /\ streak' = Streak(current)
       /\ IF \/ stops
             \/ Len(current) < Repeats /\ ~config.keepGoing
             \/ at = Len(Targets)
          THEN End("completed", lengths') /\ UNCHANGED at
          ELSE IF config.delay /\ ~cancel
          THEN /\ pc' = "between"
               /\ UNCHANGED <<phase, run, at, current, why, attempts, result>>
          ELSE at' = at + 1 /\ NextTarget
       /\ UNCHANGED <<planner, config>>

M_IgnoresUnknown(rows) == {Evidence[o] : o \in RangeOf(rows)} \ {"unknown"}

Observed(rows) == {Evidence[o] : o \in RangeOf(rows)}

(* The loop of the probe, after a target: its outcomes are recorded, and none *)
(* at all is an error of the planner.                                         *)
AfterProbed ==
    /\ lengths' = Append(lengths,
                         [target |-> Target, rows |-> current, early |-> FALSE])
    /\ IF current = <<>> THEN End("crashed", lengths') /\ UNCHANGED planner
       ELSE /\ Record(Observed(current))
            /\ IF candidate' = 0 THEN End("completed", lengths') ELSE NextTarget
    /\ UNCHANGED plan

AfterTarget ==
    IF "error" \in RangeOf(current) THEN Fatal /\ UNCHANGED <<planner, plan>>
    ELSE IF config.probe THEN AfterProbed ELSE AfterListed

-----------------------------------------------------------------------------
(* Attempts *)

M_StopsOnErrorOnly(rows) == "error" \in RangeOf(rows)

(* stop_after_result *)
StopAfter(rows) ==
    \/ "error" \in RangeOf(rows)
    \/ "timeout" \in RangeOf(rows) /\ ~config.keepGoing

(* The pool's worker claims its next attempt, or the pool ends. *)
Claim(rows) ==
    /\ phase' = "measured"
    /\ IF cancel \/ StopAfter(rows) \/ Len(rows) = Repeats
       THEN pc' = "sampling" /\ why' = "ok" /\ UNCHANGED run
       ELSE pc' = NextPrompt /\ run' = Len(rows) + 1 /\ UNCHANGED why
    /\ current' = rows
    /\ UNCHANGED <<lengths, result>>

PoolEnds(how) ==
    /\ pc' = "sampling"
    /\ why' = how
    /\ UNCHANGED <<phase, run, book>>

Measured(o) ==
    /\ attempts' = attempts \cup {[target |-> Target, run |-> run, outcome |-> o]}
    /\ Claim(Append(current, o))

M_RetriesTimeouts(o) ==
    IF o = "error" THEN Fatal
    ELSE IF run = Warmups /\ o # "timeout" THEN Claim(<<>>) /\ UNCHANGED attempts
    ELSE IF cancel THEN Cancelled
    ELSE /\ pc' = NextPrompt
         /\ run' = IF o = "timeout" THEN run ELSE run + 1
         /\ UNCHANGED <<phase, why, book>>

(* A warm-up leaves no row; it may end the run. *)
WarmedUp(o) ==
    IF o = "error" \/ (o = "timeout" /\ ~config.keepGoing) THEN Fatal
    ELSE IF run = Warmups THEN Claim(<<>>) /\ UNCHANGED attempts
    ELSE IF cancel THEN Cancelled
    ELSE /\ pc' = NextPrompt
         /\ run' = run + 1
         /\ UNCHANGED <<phase, why, book>>

Attempted(o) == IF phase = "measured" THEN Measured(o) ELSE WarmedUp(o)

(* What the main task awaits is overtaken by its cancellation; what the       *)
(* pool's task awaits may come first.                                         *)
Resumes == pending => phase = "measured"

(* An exception in the pool's task.  If the run was cancelled too, the        *)
(* cancellation is lost or raised again, as the version of Python has it.     *)
PoolCrashes == PoolEnds("crashed") /\ pending' \in {pending, FALSE}

Built ==
    /\ pc = "building" /\ Resumes
    /\ pc' = "requesting"
    /\ phase' = IF phase = "shared" THEN FirstPhase ELSE phase
    /\ UNCHANGED <<planner, plan, run, why, book, cancel, pending>>

(* build_context_prompt raises ValueError. *)
BuildFails ==
    /\ pc = "building" /\ Resumes
    /\ IF phase = "measured" THEN PoolCrashes ELSE Crashed /\ UNCHANGED pending
    /\ UNCHANGED <<planner, plan, cancel>>

Answered(o) ==
    /\ pc = "requesting" /\ Resumes
    /\ o \in {"done", "rejected", "error"}
    /\ Attempted(o)
    /\ UNCHANGED <<planner, plan, cancel, pending>>

(* request_timeout_seconds passed.  Before any progress of the request there  *)
(* may be nothing to make a row of, which is fatal, but not in the pool.      *)
TimesOut ==
    /\ pc = "requesting" /\ Resumes
    /\ \/ Attempted("timeout") /\ UNCHANGED pending
       \/ phase = "warmup" /\ Fatal /\ UNCHANGED pending
       \/ phase = "measured" /\ PoolCrashes
    /\ UNCHANGED <<planner, plan, cancel>>

(* The sampler has stopped, and run goes on with what the pool left. *)
Sampled ==
    /\ pc = "sampling" /\ ~pending
    /\ \/ why = "ok" /\ AfterTarget
       \/ why = "cancelled" /\ Cancelled /\ UNCHANGED <<planner, plan>>
       \/ why = "crashed" /\ Crashed /\ UNCHANGED <<planner, plan>>
    /\ UNCHANGED <<cancel, pending>>

M_WaitsForEvent == pc = "between" /\ cancel /\ UNCHANGED vars

DelayEnds ==
    /\ pc = "between" /\ ~pending
    /\ at' = at + 1
    /\ NextTarget
    /\ UNCHANGED <<planner, config, lengths, streak, cancel, pending>>

-----------------------------------------------------------------------------
(* request_cancellation and the worker's cancellation, by Escape or at quit.  *)
Cancel ==
    /\ pc # "done" /\ ~cancel
    /\ cancel' = TRUE /\ pending' = TRUE
    /\ UNCHANGED <<planner, plan, pc, phase, run, why, book>>

Deliver == pending /\ pending' = FALSE /\ UNCHANGED <<planner, plan, cancel>>

(* The main task, or the pool, which cancels its task first.  A request whose *)
(* time was also up takes the cancellation for its own timeout: the pool      *)
(* still ends cancelled, a warm-up goes on.                                   *)
CancelledWaiting ==
    /\ pc \in {"building", "requesting", "between"}
    /\ Deliver
    /\ IF pc = "between" \/ phase # "measured" THEN Cancelled ELSE PoolEnds("cancelled")

CancelledLate ==
    /\ pc = "requesting"
    /\ IF phase = "measured"
       THEN pending /\ Measured("timeout") /\ UNCHANGED <<planner, plan, cancel, pending>>
       ELSE Deliver /\ WarmedUp("timeout")

CancelledSampling ==
    pc = "sampling" /\ Deliver /\ Cancelled

Done == pc = "done" /\ UNCHANGED vars

Init ==
    /\ PlannerInit
    /\ config \in Configs
    /\ pc = "building"
    /\ phase = IF config.shared THEN "shared" ELSE FirstPhase
    /\ run = 1 /\ at = 1 /\ current = <<>> /\ lengths = <<>> /\ streak = 0
    /\ cancel = FALSE /\ pending = FALSE /\ why = "ok"
    /\ attempts = {}
    /\ result = NoResult

Next ==
    \/ Built
    \/ BuildFails
    \/ \E o \in Outcomes : Answered(o)
    \/ TimesOut
    \/ Sampled
    \/ DelayEnds
    \/ Cancel
    \/ CancelledWaiting
    \/ CancelledLate
    \/ CancelledSampling
    \/ Done

Spec == Init /\ [][Next]_vars

(* A build does a bounded search, a request has a timeout, the sampler is     *)
(* told to stop, a delay passes, and a cancelled task is resumed.             *)
Fairness ==
    /\ WF_vars(Built \/ BuildFails)
    /\ WF_vars((\E o \in Outcomes : Answered(o)) \/ TimesOut)
    /\ WF_vars(Sampled)
    /\ WF_vars(DelayEnds)
    /\ WF_vars(CancelledWaiting \/ CancelledLate \/ CancelledSampling)

FairSpec == Spec /\ Fairness

-----------------------------------------------------------------------------
(* Safety *)

Lengths == [target : Nat \ {0}, rows : Seq(Outcomes), early : BOOLEAN]

TypeOK ==
    /\ config \in Configs
    /\ pc \in {"building", "requesting", "sampling", "between", "done"}
    /\ phase \in {"shared", "warmup", "measured"}
    /\ run \in 1 .. Warmups + Repeats
    /\ at \in DOMAIN Targets
    /\ current \in Seq(Outcomes)
    /\ lengths \in Seq(Lengths)
    /\ streak \in 0 .. Len(Targets)
    /\ cancel \in BOOLEAN /\ pending \in BOOLEAN
    /\ why \in {"ok", "cancelled", "crashed"}
    /\ \A a \in attempts : a.run \in 1 .. Repeats /\ a.outcome \in Outcomes
    /\ result.status \in {"none", "completed", "cancelled", "fatal", "crashed"}
    /\ result.lengths \in Seq(Lengths)

Final == IF result.lengths = <<>> THEN <<>>
         ELSE result.lengths[Len(result.lengths)].rows

(* The lengths of a result are unique and in the order they were tried: the   *)
(* first targets of a list, without a gap.  A completed run has no request    *)
(* that failed, and every target in full but the one that a timeout stopped.  *)
(* A cancelled run never says it completed, except that a last warm-up whose  *)
(* time was up at the same moment may hide the cancellation: then the last    *)
(* length is empty.                                                           *)
ResultTellsTheTruth ==
    /\ TypeOK
    /\ ~config.probe => \A i \in DOMAIN result.lengths :
          i <= Len(Targets) /\ result.lengths[i].target = Targets[i]
    /\ config.probe => \A i, j \in DOMAIN result.lengths :
          result.lengths[i].target = result.lengths[j].target => i = j
    /\ result.status = "cancelled" => cancel
    /\ result.status = "completed" =>
          /\ cancel => Final = <<>>
          /\ \A i \in DOMAIN result.lengths :
                LET rows == result.lengths[i].rows IN
                /\ "error" \notin RangeOf(rows)
                /\ Len(rows) < Repeats =>
                      \/ "timeout" \in RangeOf(rows) /\ ~config.keepGoing
                         /\ i = Len(result.lengths)
                      \/ cancel

(* Evidence decides where a run stops.  A bound of the probe was agreed on by *)
(* every repetition of its length.  A list is tried to its end but for three  *)
(* reasons, and past none of them: with early stop a length that every        *)
(* request was refused, or a second one in a row that some were; and without  *)
(* continue_after_timeout a length that a timeout cut short, as it does       *)
(* whenever another request was due.                                          *)
EvidenceDecides ==
    LET ls == result.lengths
        Rejects(i) == config.early /\ All(ls[i].rows, "rejected")
        Partly(i) == /\ Len(ls[i].rows) = Repeats
                     /\ RangeOf(ls[i].rows) = {"done", "rejected"}
        Mixed(i) == config.early /\ i > 1 /\ Partly(i) /\ Partly(i - 1)
        CutShort(i) == /\ ~config.keepGoing /\ Len(ls[i].rows) < Repeats
                       /\ "timeout" \in RangeOf(ls[i].rows)
        Stop(i) == Rejects(i) \/ Mixed(i) \/ CutShort(i)
    IN /\ config.probe => \A i \in DOMAIN lengths :
             /\ lengths[i].target = success => All(lengths[i].rows, "done")
             /\ lengths[i].target = rejection => All(lengths[i].rows, "rejected")
       /\ ~config.keepGoing => \A i \in DOMAIN ls :
             \A k \in 1 .. Len(ls[i].rows) - 1 : ls[i].rows[k] # "timeout"
       /\ ~config.probe =>
             /\ \A i \in 1 .. Len(ls) - 1 : ~Stop(i)
             /\ \A i \in DOMAIN ls : ls[i].early => Rejects(i) \/ Mixed(i)
             /\ result.status = "completed" /\ Len(ls) < Len(Targets) =>
                   Stop(Len(ls)) \/ cancel

Keeps(ls, a) ==
    \E i \in DOMAIN ls :
        /\ ls[i].target = a.target
        /\ a.run \in DOMAIN ls[i].rows /\ ls[i].rows[a.run] = a.outcome

Retained(ls) == \A a \in attempts : Keeps(ls, a)

(* Every measured attempt that ended is in the result, once and in its place, *)
(* although a cancellation or a failed request stops the target it belongs    *)
(* to half-way; only an unexpected exception loses some, and then those of    *)
(* the target under way alone.                                                *)
AttemptsKept ==
    /\ result.status \in {"completed", "cancelled", "fatal"} => Retained(result.lengths)
    /\ result.status # "none" => \A i \in DOMAIN lengths : result.lengths[i] = lengths[i]

-----------------------------------------------------------------------------
(* Progress *)

(* Targets after this one: of a list, or at most as many lengths as there are *)
(* between the bounds of the probe.                                           *)
TargetsLeft ==
    IF config.probe
    THEN (IF rejection = 0 THEN Maximum + 1 ELSE rejection) - success
    ELSE Len(Targets) - at

AttemptsLeft ==
    IF phase = "measured" THEN Repeats - run ELSE (Warmups - run) + Repeats

StepsPerTarget == 2 * (Warmups + Repeats) + 3

StepsInTarget ==
    CASE pc = "between"    -> 1
      [] pc = "sampling"   -> 2
      [] pc = "requesting" -> 2 * AttemptsLeft + 3
      [] pc = "building"   -> IF phase = "shared" THEN StepsPerTarget
                              ELSE 2 * AttemptsLeft + 4

(* The request for a cancellation, and its delivery. *)
CancelSteps == (IF cancel THEN 0 ELSE 2) + (IF pending THEN 1 ELSE 0)

StepsLeft ==
    IF pc = "done" THEN 0
    ELSE TargetsLeft * StepsPerTarget + StepsInTarget + CancelSteps

(* No run goes round in circles, neither the probe nor a target that is tried *)
(* again after a warm-up, a timeout or a cancellation that came late: every   *)
(* step is one less of those left from the beginning.                         *)
StepsRunOut == [](StepsLeft \in Nat) /\ [][StepsLeft' < StepsLeft]_vars

(* Every run ends: the probe cannot go on for ever.                           *)
RunEnds == <>(pc = "done")

-----------------------------------------------------------------------------
(* What the README says and the code does not do *)

(* "A timeout follows `continue_after_timeout`": without it, no length is     *)
(* tried after one that timed out.                                            *)
TimeoutStops ==
    ~config.probe /\ ~config.keepGoing =>
        \A i \in 1 .. Len(result.lengths) - 1 :
            "timeout" \notin RangeOf(result.lengths[i].rows)

=============================================================================
