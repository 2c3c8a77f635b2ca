--------------------------- MODULE ToolCallingRun ---------------------------
(* One Tool Calling run.  The suite is run by a library: it calls back when a *)
(* scenario starts and when it has a result, and returns an envelope with     *)
(* every score at the end.  The run trusts neither: a callback may come out   *)
(* of order or lie, the library may keep or swallow what a callback raises,   *)
(* and the envelope must agree with the rows the callbacks left behind.       *)
(* Scenarios are numbered as in the registry of the suite.                    *)
(* Definitions named M_... are deliberate mistakes: each stands for a bug the *)
(* code could have in the definition after it, and no behaviour uses them.    *)
EXTENDS Naturals, Sequences, FiniteSets, FiniteSetsExt

CONSTANTS
    N,              \* number of scenarios in the suite
    Category        \* the category of each scenario

ASSUME SuiteAssumption == N \in Nat \ {0} /\ DOMAIN Category = 1 .. N

VARIABLES
    pc,         \* entry, upstream (run awaits the library), done
    current,    \* _current_scenario: the scenario started last, 0 when none
    rows,       \* _scenario_results
    buffered,   \* rows counted by the last progress the service kept
    shown,      \* rows counted by the progress the lane shows
    asked,      \* _cancel_requested
    lane,       \* status of the application's lane; idle when terminal
    result      \* the terminal result

vars == <<pc, current, rows, buffered, shown, asked, lane, result>>

(* A scenario passed, passed in part, failed, or failed for a reason of the   *)
(* infrastructure, which excludes it from every score.                        *)
Points == [pass |-> 2, partial |-> 1, fail |-> 0, excluded |-> 0]

Outcomes == DOMAIN Points

Categories == {Category[s] : s \in 1 .. N}

Errors == {"dependency_unavailable", "invalid_upstream_result", "upstream_failure"}

NoScores == [c \in Categories |-> 0]

NoResult == [status |-> "none", rows |-> <<>>, earned |-> NoScores, gradable |-> 0]

-----------------------------------------------------------------------------
(* What the rows amount to *)

GradableIn(rs) == {i \in DOMAIN rs : rs[i].outcome # "excluded"}

Excluded(rs) == {rs[i].scenario : i \in DOMAIN rs \ GradableIn(rs)}

Earned(rs) ==
    [c \in Categories |->
        MapThenSumSet(LAMBDA i : Points[rs[i].outcome],
                      {i \in GradableIn(rs) : Category[rs[i].scenario] = c})]

-----------------------------------------------------------------------------
(* Ending *)

End(status, scores) ==
    /\ pc' = "done"
    /\ lane' = "idle"
    /\ result' = [status |-> status, rows |-> rows, earned |-> scores,
                  gradable |-> Cardinality(GradableIn(rows))]
    /\ buffered' = 0 /\ shown' = 0
    /\ UNCHANGED <<current, rows, asked>>

(* _partial_result: a run without an accepted envelope has rows, no scores.   *)
EndsWithout(status) == End(status, NoScores)

(* The entry check passes, the lane is marked running and the library called, *)
(* unless it cannot be imported or has another suite than the configured one. *)
Enter ==
    /\ pc = "entry"
    /\ \/ /\ pc' = "upstream"
          /\ lane' = "running"
          /\ UNCHANGED <<current, rows, buffered, shown, asked, result>>
       \/ \E e \in {"dependency_unavailable", "invalid_upstream_result"} :
             EndsWithout(e)

-----------------------------------------------------------------------------
(* Callbacks *)

(* A callback raises: through the library, or the library swallows it.        *)
Raises(status) ==
    \/ EndsWithout(status)
    \/ UNCHANGED vars

M_ThrottlesTheLast(rs, forced) ==
    /\ buffered' = Len(rs)
    /\ shown' \in {buffered', shown}
    /\ UNCHANGED lane

(* _publish_progress and _accept_progress: either may find the last           *)
(* publication too recent, but for the first start and the last result.       *)
Progress(rs, forced) ==
    /\ \/ buffered' = Len(rs)
       \/ ~forced /\ UNCHANGED buffered
    /\ \/ shown' = buffered'
       \/ ~(forced /\ Len(rs) = N) /\ UNCHANGED shown
    /\ UNCHANGED lane

(* The library announces scenario i, with the right identity or not.          *)
OnScenarioStart(i, honest) ==
    /\ pc = "upstream"
    /\ IF asked THEN Raises("cancelled")
       ELSE IF ~honest THEN Raises("invalid_upstream_result")
       ELSE /\ current' = i
            /\ Progress(rows, i = 1)
            /\ UNCHANGED <<pc, rows, asked, result>>

M_AnyOrder(i) == current = i

(* The result belongs to the scenario under way, which is the next one. *)
Expected(i) == current = i /\ i = Len(rows) + 1

(* The library reports scenario i; a dishonest report has another scenario's  *)
(* identity, or a status that does not match its points.                      *)
OnScenarioResult(i, o, honest) ==
    /\ pc = "upstream"
    /\ IF asked THEN Raises("cancelled")
       ELSE IF ~(honest /\ Expected(i)) THEN
           \E e \in {"invalid_upstream_result", "upstream_failure"} : Raises(e)
       ELSE /\ rows' = Append(rows, [scenario |-> i, outcome |-> o])
            /\ current' = 0
            /\ Progress(rows', i = N)
            /\ UNCHANGED <<pc, asked, result>>

-----------------------------------------------------------------------------
(* The library ends *)

(* An envelope agrees with the rows or differs from them: in one outcome, in  *)
(* the number of scenarios, in a category's points or in what it excludes.    *)
Altered(rs) ==
    {[rs EXCEPT ![i].outcome = o] : i \in DOMAIN rs, o \in Outcomes}
    \cup {rs, SubSeq(rs, 1, Len(rs) - 1)}

Envelopes ==
    [rows     : Altered(rows),
     earned   : {Earned(rows)} \cup
                {[Earned(rows) EXCEPT ![c] = @ + 1] : c \in Categories},
     excluded : {Excluded(rows)} \cup {Excluded(rows) \cup {s} : s \in 1 .. N}]

M_ScoresUnchecked(e) == Len(rows) = N /\ e.rows = rows

M_CoverageUnchecked(e) == e.rows = rows /\ e.earned = Earned(rows)

(* _parse_envelope: every scenario reported and the same as its callback      *)
(* said, every score the one its rows add up to.                              *)
Accepts(e) ==
    /\ Len(rows) = N
    /\ e.rows = rows
    /\ e.earned = Earned(rows)
    /\ e.excluded = Excluded(rows)

M_CancelNotReread(e) ==
    /\ pc = "upstream"
    /\ IF Accepts(e) THEN End("completed", e.earned)
       ELSE EndsWithout("invalid_upstream_result")

(* The library returned; it may have swallowed a cancellation. *)
UpstreamReturns(e) ==
    /\ pc = "upstream"
    /\ IF asked THEN EndsWithout("cancelled")
       ELSE IF Accepts(e) THEN End("completed", e.earned)
       ELSE EndsWithout("invalid_upstream_result")

(* The library raised an error of its own, or what a cancellation became.  A  *)
(* CancelledError makes the run cancelled whoever raised it: _cancel_requested *)
(* is not looked at here.                                                     *)
UpstreamRaises ==
    /\ pc = "upstream"
    /\ \E e \in Errors \cup {"cancelled"} : EndsWithout(e)

-----------------------------------------------------------------------------
(* request_cancellation and the worker's cancellation, by Escape or at quit.  *)
Cancel ==
    /\ pc = "upstream"
    /\ ~asked
    /\ asked' = TRUE
    /\ lane' = "cancelling"
    /\ UNCHANGED <<pc, current, rows, buffered, shown, result>>

Done == pc = "done" /\ UNCHANGED vars

(* The lane was reserved and its worker entered. *)
Init ==
    /\ pc = "entry"
    /\ current = 0 /\ rows = <<>> /\ buffered = 0 /\ shown = 0
    /\ asked = FALSE
    /\ lane = "validating"
    /\ result = NoResult

Next ==
    \/ Enter
    \/ \E i \in 1 .. N, h \in BOOLEAN : OnScenarioStart(i, h)
    \/ \E i \in 1 .. N, o \in Outcomes, h \in BOOLEAN : OnScenarioResult(i, o, h)
    \/ pc = "upstream" /\ \E e \in Envelopes : UpstreamReturns(e)
    \/ UpstreamRaises
    \/ Cancel
    \/ Done

Spec == Init /\ [][Next]_vars

-----------------------------------------------------------------------------
(* Safety *)

TypeOK ==
    /\ pc \in {"entry", "upstream", "done"}
    /\ current \in 0 .. N
    /\ rows \in Seq([scenario : 1 .. N, outcome : Outcomes])
    /\ buffered \in 0 .. N /\ shown \in 0 .. N
    /\ asked \in BOOLEAN
    /\ lane \in {"validating", "running", "cancelling", "idle"}
    /\ result.status \in {"none", "completed", "cancelled"} \cup Errors

InOrder(rs) == \A i \in DOMAIN rs : rs[i].scenario = i

Total(scores) == MapThenSumSet(LAMBDA c : scores[c], DOMAIN scores)

(* Whatever the library calls and returns, a result has the scenarios that    *)
(* were reported, in the order of the suite and once each; a completed one    *)
(* has all of them and a score they earned: the full score if and only if     *)
(* every scenario passed or was excluded, since what cannot be graded is      *)
(* taken from what can be earned.  A run the user cancelled never completes,  *)
(* whatever the library made of the cancellation; that every cancelled run    *)
(* was cancelled by the user is not claimed (UpstreamRaises).                 *)
ResultTellsTheTruth ==
    /\ TypeOK
    /\ InOrder(rows) /\ Len(rows) <= N
    /\ pc = "done" => result.rows = rows
    /\ result.status = "completed" =>
          /\ Len(result.rows) = N
          /\ ~asked
          /\ Total(result.earned) <= 2 * result.gradable
          /\ Total(result.earned) = 2 * result.gradable <=>
                \A i \in 1 .. N : result.rows[i].outcome \in {"pass", "excluded"}
    /\ result.status \notin {"none", "completed"} => result.earned = NoScores

(* The run and the service each hold progress back by a clock of their own;  *)
(* the last scenario gets through both, and the count the lane shows never    *)
(* goes back.  A terminal result stands.                                      *)
ProgressIsShown ==
    [][/\ pc' = "upstream" => shown' >= shown /\ (Len(rows') = N => shown' = N)
       /\ result.status # "none" => UNCHANGED <<result, lane>>]_vars

=============================================================================
