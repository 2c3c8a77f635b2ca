---------------------------- MODULE ConcurrencyRun ----------------------------
(* One run of the Concurrency benchmark: levels of increasing concurrency, at  *)
(* each an optional warm-up and a measured phase, both through the bounded     *)
(* worker pool of run_bounded_workers.  The main task waits in the pool's      *)
(* TaskGroup, for the hardware sampler or between levels; child tasks wait for *)
(* their one request.  Steps interleave at those waits; between two waits a    *)
(* task runs alone.                                                            *)
(* Definitions named M_... are deliberate mistakes: each stands for a bug the  *)
(* code could have in the definition after it, and no behaviour uses them.     *)
EXTENDS Naturals, Sequences, FiniteSets, SequencesExt

CONSTANTS
    Levels,         \* config.concurrency_levels, sorted and unique
    Warmups,        \* config.warmup_requests
    Requests,       \* config.requests_per_level
    EarlyStop,      \* EARLY_STOP_FAILURE_COUNT
    Delays          \* whether there is a delay between levels: FALSE for
                    \* delay_between_levels_seconds = 0, TRUE above, both for either

ASSUME ConfigAssumption ==
    /\ Levels \in Seq(Nat \ {0})
    /\ Levels # <<>>
    /\ \A i, j \in DOMAIN Levels : i < j => Levels[i] < Levels[j]
    /\ Warmups \in Nat
    /\ Requests \in Nat \ {0}
    /\ EarlyStop \in Nat \ {0}
    /\ Delays \in (SUBSET BOOLEAN) \ {{}}

Outcomes == {"success", "failed", "timeout", "cancelled"}

VARIABLES
    pc,         \* where the main task waits: warmup, measured (in the pool),
                \* sampling, between levels, or done
    at,         \* index of the current level
    fresh,      \* pool tasks created and not run yet
    flight,     \* sequence numbers whose request is in flight
    doomed,     \* those of them whose task has a cancellation to deliver
    claimed,    \* next_index of the pool
    results,    \* rows of the phase, as on_result collects them
    terminal,   \* self._terminal, which outlives the phase
    failed,     \* a task of the pool ended with an unexpected exception
    aborting,   \* the pool cancelled its tasks
    cancel,     \* the cancel event; the main task is cancelled with it
    sampler,    \* the hardware sampler: off, on, stopping
    levels,     \* self._levels
    status      \* running, or the status of the terminal result

vars == <<pc, at, fresh, flight, doomed, claimed, results, terminal, failed,
          aborting, cancel, sampler, levels, status>>

pool == <<fresh, flight, doomed, claimed, results, aborting>>

Phase == {"warmup", "measured"}

Row == [level : DOMAIN Levels, seq : Nat, outcome : Outcomes]

TypeOK ==
    /\ pc \in Phase \cup {"sampling", "between", "done"}
    /\ at \in DOMAIN Levels
    /\ fresh \in Nat
    /\ flight \subseteq Nat /\ doomed \subseteq flight
    /\ claimed \in Nat
    /\ results \subseteq Row /\ terminal \subseteq Row
    /\ failed \in BOOLEAN /\ aborting \in BOOLEAN /\ cancel \in BOOLEAN
    /\ sampler \in {"off", "on", "stopping"}
    /\ \A i \in DOMAIN levels :
          /\ levels[i].level \in DOMAIN Levels
          /\ levels[i].rows \subseteq Row
          /\ levels[i].partial \in BOOLEAN /\ levels[i].early \in BOOLEAN
    /\ status \in {"running", "completed", "cancelled", "error"}

Smaller(m, n) == IF m < n THEN m ELSE n

-----------------------------------------------------------------------------
(* The bounded pool *)

Count(phase) == IF phase = "warmup" THEN Warmups ELSE Requests

(* stop_early: the requests numbered 1 to EarlyStop are all there and failed, *)
(* in whatever order they arrived.                                            *)
AllFirstFailed(rows) ==
    \A s \in 1 .. EarlyStop :
        \E row \in rows : row.seq = s /\ row.outcome # "success"

M_StopOnCancelOnly(rows) == cancel

(* The should_stop that _run_phase gives the pool. *)
ShouldStop(rows) == cancel \/ (pc = "measured" /\ AllFirstFailed(rows))

(* A worker with capacity claims the next item, or ends. *)
Claim(before, rows) ==
    IF ShouldStop(rows) \/ claimed >= Count(pc)
    THEN /\ flight' = before
         /\ claimed' = claimed
    ELSE /\ flight' = before \cup {claimed + 1}
         /\ claimed' = claimed + 1

StartWorker ==
    /\ fresh > 0
    /\ fresh' = fresh - 1
    /\ Claim(flight, results)
    /\ UNCHANGED <<pc, at, doomed, results, terminal, failed, aborting, cancel,
                   sampler, levels, status>>

(* _execute_request turns every end of a request into a row: a cancellation   *)
(* too, which it tells apart from its own timeout, and swallows.  on_result   *)
(* and the next claim follow without a wait.                                  *)
Ends(s) == IF s \in doomed THEN {"cancelled", "timeout"}
           ELSE {"success", "failed", "timeout"}

M_RowNotKept(row) == results' = results

Collect(row) == results' = results \cup {row}

Keep(s, outcome) ==
    LET row == [level |-> at, seq |-> s, outcome |-> outcome] IN
    /\ Collect(row)
    /\ terminal' = IF pc = "measured" THEN terminal \cup {row} ELSE terminal

M_AsksAgain(s, outcome) ==
    /\ s \in flight
    /\ outcome \in Ends(s)
    /\ Keep(s, outcome)
    /\ doomed' = doomed \ {s}
    /\ UNCHANGED <<flight, claimed, pc, at, fresh, failed, aborting, cancel, sampler,
                   levels, status>>

Settle(s, outcome) ==
    /\ s \in flight
    /\ outcome \in Ends(s)
    /\ Keep(s, outcome)
    /\ doomed' = doomed \ {s}
    /\ Claim(flight \ {s}, results')
    /\ UNCHANGED <<pc, at, fresh, failed, aborting, cancel, sampler, levels, status>>

(* Any other exception of the request, or of on_result once it has kept the   *)
(* row, ends its task.                                                        *)
Raise(s) ==
    /\ s \in flight
    /\ \/ UNCHANGED <<results, terminal>>
       \/ \E outcome \in Ends(s) : Keep(s, outcome)
    /\ flight' = flight \ {s}
    /\ doomed' = doomed \ {s}
    /\ failed' = TRUE
    /\ UNCHANGED <<pc, at, fresh, claimed, aborting, cancel, sampler, levels, status>>

(* A task cancelled before its first step never claims. *)
CancelTasks == doomed' = flight /\ fresh' = 0

(* The TaskGroup cancels its tasks once, when the main task is cancelled in   *)
(* it or when a task failed.                                                  *)
Abort ==
    /\ pc \in Phase
    /\ cancel \/ failed
    /\ ~aborting
    /\ aborting' = TRUE
    /\ CancelTasks
    /\ UNCHANGED <<pc, at, claimed, results, terminal, failed, cancel, sampler,
                   levels, status, flight>>

(* The TaskGroup returns when every task ended; with an exception after an    *)
(* abort.                                                                     *)
PoolDone ==
    /\ fresh = 0
    /\ flight = {}
    /\ cancel \/ failed => aborting

-----------------------------------------------------------------------------
(* Phases and levels *)

StartPhase(phase, i) ==
    /\ pc' = phase
    /\ at' = i
    /\ fresh' = Smaller(Levels[i], Count(phase))
    /\ flight' = {}
    /\ doomed' = {}
    /\ claimed' = 0
    /\ results' = {}
    /\ aborting' = FALSE

M_RowsOutliveLevel(i) ==
    IF Warmups > 0
    THEN StartPhase("warmup", i) /\ UNCHANGED <<sampler, terminal>>
    ELSE StartPhase("measured", i) /\ terminal' = {} /\ sampler' = "on"

(* _make_rows, or the start of a warm-up, drops the rows of the last level. *)
StartLevel(i) ==
    /\ terminal' = {}
    /\ IF Warmups > 0
       THEN StartPhase("warmup", i) /\ UNCHANGED sampler
       ELSE StartPhase("measured", i) /\ sampler' = "on"

M_PhaseAsStatus(result) == pc' = "done" /\ status' = pc /\ UNCHANGED at

Finish(result) ==
    /\ pc' = "done"
    /\ status' = result
    /\ UNCHANGED at

Failures(rows) == {row \in rows : row.outcome # "success"}

(* build_concurrency_level_result: partial when rows are missing or cancelled. *)
LevelResult(rows, early) ==
    [level |-> at, rows |-> rows, early |-> early,
     partial |-> \/ Cardinality(rows) < Requests
                 \/ \E row \in rows : row.outcome = "cancelled"]

M_PartialDropped == levels

(* What run's except clause keeps of a cancelled level: the rows of its       *)
(* measured phase, if it has any and is not recorded yet.                     *)
WithPartial ==
    IF pc # "between" /\ terminal # {} /\ (\A i \in DOMAIN levels : levels[i].level # at)
    THEN Append(levels, LevelResult(terminal, FALSE))
    ELSE levels

(* The warm-up's pool returned. *)
WarmupEnds ==
    /\ pc = "warmup"
    /\ PoolDone
    /\ IF aborting
       THEN /\ Finish(IF failed THEN "error" ELSE "cancelled")
            /\ levels' = IF failed THEN <<>> ELSE WithPartial
            /\ UNCHANGED <<pool, terminal, sampler>>
       ELSE IF Failures(results) = results
       THEN Finish("error") /\ UNCHANGED <<pool, terminal, sampler, levels>>
       ELSE /\ StartPhase("measured", at)
            /\ terminal' = {}
            /\ sampler' = "on"
            /\ UNCHANGED <<levels, status>>
    /\ UNCHANGED <<failed, cancel>>

(* The measured pool returned or raised: the finally clause stops the sampler *)
(* and waits for it.                                                          *)
MeasuredEnds ==
    /\ pc = "measured"
    /\ PoolDone
    /\ pc' = "sampling"
    /\ sampler' = "stopping"
    /\ UNCHANGED <<pool, at, terminal, failed, cancel, levels, status>>

M_SamplerIgnoresStop == sampler = "stopping" /\ UNCHANGED vars

SamplerStops ==
    /\ sampler = "stopping"
    /\ sampler' = "off"
    /\ UNCHANGED <<pool, pc, at, terminal, failed, cancel, levels, status>>

M_StopsOneShort(early) == early \/ at + 1 >= Len(Levels)

(* No level follows the last one, nor one that stopped early. *)
LastLevel(early) == early \/ at = Len(Levels)

LevelEnds ==
    /\ pc = "sampling"
    /\ sampler = "off"
    /\ ~cancel /\ ~failed
    /\ LET early == AllFirstFailed(results) IN
       /\ levels' = Append(levels, LevelResult(results, early))
       /\ IF LastLevel(early)
          THEN Finish("completed") /\ UNCHANGED <<pool, terminal, sampler>>
          ELSE \/ /\ TRUE \in Delays
                  /\ pc' = "between"
                  /\ UNCHANGED <<pool, at, terminal, sampler, status>>
               \/ /\ FALSE \in Delays
                  /\ StartLevel(at + 1)
                  /\ UNCHANGED status
    /\ UNCHANGED <<failed, cancel>>

DelayOver ==
    /\ pc = "between"
    /\ ~cancel
    /\ StartLevel(at + 1)
    /\ UNCHANGED <<failed, cancel, levels, status>>

(* The main task is resumed with the cancellation.  When a task of the        *)
(* measured pool failed as well, Python 3.12 keeps the failure while later    *)
(* versions deliver the cancellation again at the wait for the sampler.       *)
Cancelled ==
    /\ cancel
    /\ (pc = "sampling" /\ sampler = "off") \/ pc = "between"
    /\ Finish("cancelled")
    /\ levels' = WithPartial
    /\ UNCHANGED <<pool, terminal, failed, cancel, sampler>>

(* An unexpected exception leaves run; run_benchmark publishes an empty error. *)
Failed ==
    /\ failed
    /\ pc = "sampling"
    /\ sampler = "off"
    /\ Finish("error")
    /\ levels' = <<>>
    /\ UNCHANGED <<pool, terminal, failed, cancel, sampler>>

(* request_cancellation and worker.cancel(), by Escape or on_unmount.         *)
(* Repeating it adds nothing: the event is set, the pool already aborts.      *)
Cancel ==
    /\ pc # "done"
    /\ ~cancel
    /\ cancel' = TRUE
    /\ UNCHANGED <<pool, pc, at, terminal, failed, sampler, levels, status>>

Done == pc = "done" /\ UNCHANGED vars

-----------------------------------------------------------------------------
(* run up to its first wait: the first phase is set up. *)
Init ==
    /\ pc = IF Warmups > 0 THEN "warmup" ELSE "measured"
    /\ at = 1
    /\ fresh = Smaller(Levels[1], Count(pc))
    /\ flight = {} /\ doomed = {}
    /\ claimed = 0
    /\ results = {} /\ terminal = {}
    /\ failed = FALSE /\ aborting = FALSE /\ cancel = FALSE
    /\ sampler = IF Warmups > 0 THEN "off" ELSE "on"
    /\ levels = <<>>
    /\ status = "running"

Next ==
    \/ StartWorker
    \/ \E s \in flight, outcome \in Outcomes : Settle(s, outcome)
    \/ \E s \in flight : Raise(s)
    \/ Abort
    \/ WarmupEnds
    \/ MeasuredEnds
    \/ SamplerStops
    \/ LevelEnds
    \/ DelayOver
    \/ Cancelled
    \/ Failed
    \/ Cancel
    \/ Done

Spec == Init /\ [][Next]_vars

(* Every ready task runs, and every request ends: each has its own timeout.   *)
Fairness ==
    /\ WF_vars(StartWorker)
    /\ WF_vars(\E s \in flight, outcome \in Outcomes : Settle(s, outcome))
    /\ WF_vars(Abort)
    /\ WF_vars(WarmupEnds \/ MeasuredEnds \/ LevelEnds \/ DelayOver
               \/ Cancelled \/ Failed)
    /\ WF_vars(SamplerStops)

FairSpec == Spec /\ Fairness

-----------------------------------------------------------------------------
(* Safety *)

Seqs(rows) == {row.seq : row \in rows}

(* "With a fixed number of lazy workers": at most as many requests as the     *)
(* level allows are in flight, claims follow the order of the numbers, and no *)
(* claimed request is lost, answered twice or answered while in flight,       *)
(* except the one whose task failed.                                          *)
PoolAccounts ==
    /\ TypeOK
    /\ Cardinality(flight) + fresh <= Levels[at]
    /\ flight \cap Seqs(results) = {}
    /\ Cardinality(Seqs(results)) = Cardinality(results)
    /\ flight \cup Seqs(results) \subseteq 1 .. claimed
    /\ ~failed => flight \cup Seqs(results) = 1 .. claimed
    /\ claimed <= Requests + Warmups

LevelsCoherent ==
    \A i \in DOMAIN levels :
        /\ levels[i].level = i
        /\ \A row \in levels[i].rows : row.level = i
        /\ ~failed => Seqs(levels[i].rows) = 1 .. Cardinality(levels[i].rows)
        /\ Cardinality(levels[i].rows) < Requests =>
               levels[i].partial /\ (levels[i].early \/ cancel)
        /\ levels[i].early =>
               i = Len(levels) /\ (pc = "done" => status = "completed")

ResultTellsTheTruth ==
    pc = "done" =>
        /\ status = "completed" =>
              Len(levels) = Len(Levels) \/ Last(levels).early
        /\ cancel /\ ~failed => status = "cancelled"
        /\ status = "cancelled" => cancel
        /\ status = "cancelled" /\ terminal # {} =>
              \E i \in DOMAIN levels : terminal \subseteq levels[i].rows

(* A recorded level holds its own requests only, each once, as an unbroken    *)
(* run of numbers unless a task failed.  It falls short of the configured     *)
(* requests only if it says partial, after an early stop or a cancellation;   *)
(* levels appear once each, in configured order, and an early stop            *)
(* "suppresses later levels".  A result is complete only if every level is in *)
(* it, up to an early stop; it says cancelled when the user cancelled, unless *)
(* something failed, and then has every measured row: "Esc retains attempted  *)
(* rows".                                                                     *)
LevelsMakeTheResult == LevelsCoherent /\ ResultTellsTheTruth

-----------------------------------------------------------------------------
(* Steps *)

(* "Esc stops new claims", and so does an early stop, in flight requests      *)
(* notwithstanding: no claim, no phase and no level follows.                  *)
StopsClaiming ==
    [][cancel \/ (pc = "measured" /\ AllFirstFailed(results))
          => claimed' <= claimed /\ at' = at /\ fresh' <= fresh]_vars

-----------------------------------------------------------------------------
(* Progress *)

StepsPerLevel == 2 * (Warmups + Requests) + 7

(* Workers to start, items to claim, requests to answer, and an abort. *)
PoolSteps ==
    fresh + (Count(pc) - claimed) + Cardinality(flight) + (IF aborting THEN 0 ELSE 1)

StepsInLevel ==
    CASE pc = "between"  -> 1
      [] pc = "sampling" -> IF sampler = "off" THEN 2 ELSE 3
      [] pc = "measured" -> PoolSteps + 4
      [] pc = "warmup"   -> PoolSteps + 2 * Requests + 6

StepsLeft ==
    IF pc = "done" THEN 0
    ELSE (Len(Levels) - at) * StepsPerLevel + StepsInLevel + (IF cancel THEN 0 ELSE 1)

(* However the workers interleave, fail or are cancelled, no run goes round   *)
(* in circles: every step is one less of those left from the beginning.       *)
StepsRunOut == [](StepsLeft \in Nat) /\ [][StepsLeft' < StepsLeft]_vars

(* A cancelled run ends, and without it every run does.                       *)
RunEnds == <>(pc = "done")

-----------------------------------------------------------------------------
(* What a test says and the code does not do *)

(* src/tests/test_concurrency_runner.py: after an unexpected exception of one *)
(* worker, its siblings are cancelled and no further item is started.         *)
SiblingsStop == [][failed /\ aborting => claimed' <= claimed]_vars

=============================================================================
