----------------------------- MODULE R0b0benchRun -----------------------------
(* One r0b0bench run: the service that entered its worker, the runner, and    *)
(* the child process it starts in a process group of its own, first to probe  *)
(* versions and then to run the selected lanes.  The child prints markers and *)
(* hints and writes one file per finished lane; the runner reads, reaps and   *)
(* reports.  Lanes are numbered in the order upstream runs them.              *)
(* Definitions named M_... are deliberate mistakes: each stands for a bug the *)
(* code could have in the definition after it, and no behaviour uses them.    *)
EXTENDS Naturals, Sequences, FiniteSets

CONSTANTS
    N,              \* number of selected lanes
    Bfcl,           \* a BFCL lane is selected: a second probe is needed
    MaxCancels      \* bound on cancellations in one behaviour

ASSUME SelectionAssumption ==
    /\ N \in Nat \ {0}
    /\ Bfcl \in BOOLEAN
    /\ MaxCancels \in Nat

VARIABLES
    pc,         \* where run_benchmark waits: entry, spawning, probing, reading,
                \* waiting (for the exit after EOF), reaping, killing, done
    stage,      \* the process it is about: version, bfcl (both prepare), run
    why,        \* what the reaping unwinds from: none, cancelled, error
    leader,     \* the child process: none, alive, gone
    helper,     \* another process of its group: none, alive, gone
    term,       \* SIGTERM was sent to the group
    disk,       \* lanes with a valid lane_result.json
    current,    \* current_lane: the last marker, 0 before the first
    reported,   \* a report line was read
    completed,  \* self._completed: lanes whose hint was read and validated
    cancel,     \* the task has a cancellation to deliver
    cancels,    \* cancellations so far
    lane,       \* status of the application's lane; idle when terminal
    result      \* the terminal result

vars == <<pc, stage, why, leader, helper, term, disk, current, reported,
          completed, cancel, cancels, lane, result>>

child == <<leader, helper, term>>

output == <<disk, current, reported, completed>>

Waits == {"spawning", "probing", "reading", "waiting", "reaping", "killing"}

NoResult == [status |-> "none", rows |-> <<>>]

TypeOK ==
    /\ pc \in Waits \cup {"entry", "done"}
    /\ stage \in {"version", "bfcl", "run"}
    /\ why \in {"none", "cancelled", "error"}
    /\ leader \in {"none", "alive", "gone"}
    /\ helper \in {"none", "alive", "gone"}
    /\ term \in BOOLEAN /\ reported \in BOOLEAN /\ cancel \in BOOLEAN
    /\ disk \subseteq 1 .. N
    /\ current \in 0 .. N
    /\ completed \in Seq(1 .. N)
    /\ cancels \in 0 .. MaxCancels
    /\ lane \in {"validating", "running", "cancelling", "idle"}
    /\ result.status \in {"none", "completed", "cancelled", "error"}
    /\ result.rows \in Seq(1 .. N)

-----------------------------------------------------------------------------
(* Results *)

Upto(k) == [i \in 1 .. k |-> i]

(* The rows of a result must be the first selected lanes, in order: its       *)
(* constructor rejects any other tuple.                                       *)
InOrder(rows) == rows = Upto(Len(rows))

M_LaneStatusPublished(status, rows) ==
    /\ pc' = "done"
    /\ IF InOrder(rows)
       THEN /\ result' = [status |-> lane, rows |-> rows]
            /\ lane' = "idle"
       ELSE UNCHANGED <<result, lane>>
    /\ UNCHANGED <<stage, why, child, output>>

(* run_benchmark ends with a result of these rows.  One that cannot be built  *)
(* raises; so does the error result built in its place, from the same rows,   *)
(* and the exception leaves run_benchmark before _finalize.                   *)
Finish(status, rows) ==
    /\ pc' = "done"
    /\ IF InOrder(rows)
       THEN /\ result' = [status |-> status, rows |-> rows]
            /\ lane' = "idle"
       ELSE UNCHANGED <<result, lane>>
    /\ UNCHANGED <<stage, why, child, output>>

(* The loop ends before the last lane. *)
M_SkipsLast == Upto(Cardinality({k \in 1 .. N - 1 : 1 .. k \subseteq disk}))

(* _partial_report: the lanes on disk up to the first one that does not load. *)
PartialRows == Upto(Cardinality({k \in 1 .. N : 1 .. k \subseteq disk}))

M_CancelAsFailure(reason) == Finish("error", completed)

(* What follows a reaped child. *)
AfterReap(reason) ==
    IF stage # "run" THEN Finish("cancelled", completed)
    ELSE IF reason = "cancelled" THEN Finish("cancelled", PartialRows)
    ELSE Finish("error", completed)

(* _reap_process up to its first wait; there is none if the child is gone.    *)
Reap(reason) ==
    IF leader = "gone" THEN AfterReap(reason)
    ELSE /\ pc' = "reaping"
         /\ why' = reason
         /\ term' = TRUE
         /\ UNCHANGED <<stage, leader, helper, output, lane, result>>

-----------------------------------------------------------------------------
(* Preparation *)

(* The entry check, and what prepare verifies before its first probe. *)
Enter ==
    /\ pc = "entry"
    /\ \/ pc' = "spawning" /\ UNCHANGED <<stage, why, child, output, lane, result>>
       \/ Finish("error", completed)
    /\ UNCHANGED <<cancel, cancels>>

Spawned ==
    /\ pc = "spawning"
    /\ ~cancel
    /\ pc' = IF stage = "run" THEN "reading" ELSE "probing"
    /\ leader' = "alive"
    /\ UNCHANGED <<stage, why, helper, term, output, cancel, cancels, lane, result>>

SpawnFails ==
    /\ pc = "spawning"
    /\ ~cancel
    /\ Finish("error", completed)
    /\ UNCHANGED <<cancel, cancels>>

NextStage == IF stage = "version" /\ Bfcl THEN "bfcl" ELSE "run"

(* communicate returned.  After the last probe the run directory is made, the *)
(* service marks the lane running, and run verifies once more before it       *)
(* spawns; each of these may fail.                                            *)
ProbeEnds ==
    /\ pc = "probing"
    /\ ~cancel
    /\ leader = "gone"
    /\ \/ Finish("error", completed)
       \/ /\ pc' = "spawning"
          /\ stage' = NextStage
          /\ leader' = "none"
          /\ lane' = IF NextStage = "run" THEN "running" ELSE lane
          /\ UNCHANGED <<why, helper, term, output, result>>
    /\ UNCHANGED <<cancel, cancels>>

-----------------------------------------------------------------------------
(* Reading the child's output *)

Reading == pc = "reading" /\ ~cancel

(* Lanes are marked in ascending order, not necessarily one after the other.  *)
ReadMarker(l) ==
    /\ Reading
    /\ IF l > current
       THEN current' = l /\ UNCHANGED <<pc, stage, why, child, disk, reported,
                                       completed, lane, result>>
       ELSE Reap("error")
    /\ UNCHANGED <<cancel, cancels>>

M_TrustsHint == TRUE

(* A hint is believed only when the lane's file loads. *)
Loads == current \in disk

M_HintCountsTwice == Append(completed, current)

(* _lane_finished keeps a lane once. *)
WithCurrent ==
    IF \E i \in DOMAIN completed : completed[i] = current THEN completed
    ELSE Append(completed, current)

ReadHint ==
    /\ Reading
    /\ current # 0
    /\ IF Loads
       THEN completed' = WithCurrent /\ UNCHANGED <<pc, stage, why, child, disk,
                                            current, reported, lane, result>>
       ELSE Reap("error")
    /\ UNCHANGED <<cancel, cancels>>

(* A report line without a usable path is an error. *)
ReadReport ==
    /\ Reading
    /\ \/ reported' = TRUE /\ UNCHANGED <<pc, stage, why, child, disk, current,
                                          completed, lane, result>>
       \/ Reap("error")
    /\ UNCHANGED <<cancel, cancels>>

(* The pipe closed: no helper holds it, and the child ended or closed it. *)
ReadEnd ==
    /\ Reading
    /\ helper # "alive"
    /\ pc' = "waiting"
    /\ UNCHANGED <<stage, why, child, output, cancel, cancels, lane, result>>

(* A report names every selected lane, or the canary alone that stopped the   *)
(* run, and each of them loads.                                               *)
Acceptable(k) == k \in {1, N} /\ 1 .. k \subseteq disk

(* The child exited: its report is validated, or its absence is an error.     *)
Exits ==
    /\ pc = "waiting"
    /\ ~cancel
    /\ leader = "gone"
    /\ \/ \E k \in 1 .. N :
             reported /\ Acceptable(k) /\ Finish("completed", Upto(k))
       \/ Finish("error", completed)
    /\ UNCHANGED <<cancel, cancels>>

-----------------------------------------------------------------------------
(* Reaping *)

M_TermOnly ==
    pc = "reaping" /\ ~cancel /\ AfterReap(why) /\ UNCHANGED <<cancel, cancels>>

Reaped ==
    /\ pc \in {"reaping", "killing"}
    /\ ~cancel
    /\ leader = "gone"
    /\ AfterReap(why)
    /\ UNCHANGED <<cancel, cancels>>

M_TermAgain == pc = "reaping" /\ ~cancel /\ UNCHANGED vars

(* Five seconds passed: SIGKILL ends every process of the group. *)
TermTimeout ==
    /\ pc = "reaping"
    /\ ~cancel
    /\ leader = "alive"
    /\ pc' = "killing"
    /\ leader' = "gone"
    /\ helper' = IF helper = "alive" THEN "gone" ELSE helper
    /\ UNCHANGED <<stage, why, term, output, cancel, cancels, lane, result>>

-----------------------------------------------------------------------------
(* Cancellation *)

(* request_cancellation and the worker's cancellation, by Escape or at quit.  *)
Cancel ==
    /\ pc \in Waits
    /\ cancels < MaxCancels
    /\ cancel' = TRUE
    /\ cancels' = cancels + 1
    /\ lane' = "cancelling"
    /\ UNCHANGED <<pc, stage, why, child, output, result>>

(* The task is resumed with the cancellation. *)
Deliver == cancel /\ cancel' = FALSE /\ UNCHANGED cancels

(* While it spawns: asyncio itself kills the process it just started. *)
CancelledSpawning == pc = "spawning" /\ Deliver /\ AfterReap("cancelled")

CancelledRunning ==
    pc \in {"probing", "reading", "waiting"} /\ Deliver /\ Reap("cancelled")

(* A further cancellation interrupts the reaping; the service then builds its *)
(* result from the lanes it knows of.                                         *)
CancelledReaping ==
    pc \in {"reaping", "killing"} /\ Deliver /\ Finish("cancelled", completed)

-----------------------------------------------------------------------------
(* The processes of the group *)

Alive == leader = "alive"

(* The child finishes its lanes in order; one may leave no valid file. *)
WriteLane(l) ==
    /\ stage = "run" /\ Alive
    /\ \A d \in disk : d < l
    /\ disk' = disk \cup {l}
    /\ UNCHANGED <<pc, stage, why, child, current, reported, completed, cancel,
                   cancels, lane, result>>

Fork ==
    /\ stage = "run" /\ Alive
    /\ helper = "none"
    /\ helper' = "alive"
    /\ UNCHANGED <<pc, stage, why, leader, term, output, cancel, cancels, lane, result>>

LeaderExits ==
    /\ Alive
    /\ leader' = "gone"
    /\ UNCHANGED <<pc, stage, why, helper, term, output, cancel, cancels, lane, result>>

HelperExits ==
    /\ helper = "alive"
    /\ helper' = "gone"
    /\ UNCHANGED <<pc, stage, why, leader, term, output, cancel, cancels, lane, result>>

Done == pc = "done" /\ UNCHANGED vars

-----------------------------------------------------------------------------
(* The lane was reserved and its worker entered. *)
Init ==
    /\ pc = "entry" /\ stage = "version" /\ why = "none"
    /\ leader = "none" /\ helper = "none" /\ term = FALSE
    /\ disk = {} /\ current = 0 /\ reported = FALSE /\ completed = <<>>
    /\ cancel = FALSE /\ cancels = 0
    /\ lane = "validating"
    /\ result = NoResult

Next ==
    \/ Enter
    \/ Spawned
    \/ SpawnFails
    \/ ProbeEnds
    \/ \E l \in 1 .. N : ReadMarker(l)
    \/ ReadHint
    \/ ReadReport
    \/ ReadEnd
    \/ Exits
    \/ Reaped
    \/ TermTimeout
    \/ Cancel
    \/ CancelledSpawning
    \/ CancelledRunning
    \/ CancelledReaping
    \/ \E l \in 1 .. N : WriteLane(l)
    \/ Fork
    \/ LeaderExits
    \/ HelperExits
    \/ Done

Spec == Init /\ [][Next]_vars

(* A cancelled task is resumed, the five seconds pass, and an ended child is  *)
(* noticed.  The child itself owes nothing: it may ignore SIGTERM for ever.   *)
Fairness ==
    /\ WF_vars(CancelledSpawning \/ CancelledRunning \/ CancelledReaping)
    /\ WF_vars(Reaped)
    /\ WF_vars(TermTimeout)

FairSpec == Spec /\ Fairness

-----------------------------------------------------------------------------
(* Safety *)

Lanes(rows) == {rows[i] : i \in DOMAIN rows}

(* "committing exactly one terminal result": whatever the child did, as long  *)
(* as no hint of a lane before a finished one was lost, the lane is released  *)
(* with a result.  Until then a cancellation is never painted over.           *)
OneResult ==
    /\ TypeOK
    /\ pc = "done" /\ (\E k \in 0 .. N : Lanes(completed) = 1 .. k) =>
          lane = "idle" /\ result.status # "none"
    /\ pc # "done" /\ cancels > 0 => lane = "cancelling"

(* A result never names a lane without a valid file on disk, whatever the     *)
(* child prints; the lanes a user saw finish are in the result of a run that  *)
(* was cancelled or failed, although each reads its rows from a different     *)
(* place; and a run the user cancelled says so, although its child may fail,  *)
(* report or exit at the same time.                                           *)
ResultTellsTheTruth ==
    /\ Lanes(result.rows) \subseteq disk
    /\ result.status \in {"cancelled", "error"} /\ InOrder(completed) =>
          Lanes(completed) \subseteq Lanes(result.rows)
    /\ result.status # "none" /\ cancels > 0 => result.status = "cancelled"

(* The lane is free only when the child is gone, unless a cancellation        *)
(* interrupted its reaping: the first one after an error, the second one      *)
(* after a cancellation.                                                      *)
ChildGone ==
    pc = "done" /\ leader = "alive" =>
        cancels >= (IF why = "cancelled" THEN 2 ELSE 1)

-----------------------------------------------------------------------------
(* Progress *)

(* A cancelled run ends, even if its child ignores SIGTERM.                   *)
CancelledRunEnds == cancels > 0 ~> pc = "done"

-----------------------------------------------------------------------------
(* What a docstring says and the code does not do *)

(* run_benchmark: "committing exactly one terminal result".                   *)
AlwaysAResult == pc = "done" => result.status # "none"

=============================================================================
