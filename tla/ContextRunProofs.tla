--------------------------- MODULE ContextRunProofs ---------------------------
(* What holds of a Context Length run for every list of targets, every plan    *)
(* and every probe: the bounds are sound, no attempt that ended is lost unless *)
(* an unexpected exception ends the run, a result tells what happened, and the *)
(* steps of a run are numbered from its beginning.                             *)
EXTENDS ContextRun, TLAPS

-----------------------------------------------------------------------------
(* The planner of a probe, whatever records its outcomes *)

(* Aligning rounds a length down. *)
LEMMA AlignDownBound ==
    ASSUME NEW n \in Nat
    PROVE  AlignDown(n) \in Nat /\ AlignDown(n) <= n
<1> DEFINE q == n \div Resolution
           r == n % Resolution
<1>1. q \in Nat /\ r \in Nat /\ n = Resolution * q + r
  BY PlannerAssumption
<1>2. AlignDown(n) = Resolution * q
  BY <1>1, PlannerAssumption DEF AlignDown
<1>3. Resolution * q \in Nat
  BY <1>1, PlannerAssumption
<1> QED
  BY <1>1, <1>2, <1>3

(* What every state satisfies: what was tried lies on one side of both bounds, *)
(* which makes a candidate between them a new one.                             *)
PInv ==
    /\ ProbeSound
    /\ candidate # 0 => stage \in {"exponential", "binary"}
    /\ candidate # 0 /\ rejection # 0 => success # 0
    /\ candidate # 0 => \A c \in attempted :
          c <= success \/ (rejection # 0 /\ rejection <= c)
    /\ candidate # 0 /\ success = 0 => candidate = Start
    /\ success <= Maximum
    /\ candidate # 0 => stage # "complete"

LEMMA PlannerStarts == PlannerInit => PInv
  BY PlannerAssumption DEF PlannerInit, PInv, ProbeSound, PlannerTypeOK

(* Doubling proposes a longer candidate within the maximum. *)
LEMMA DoubleAdvances ==
    ASSUME NEW c \in Nat, 0 < c, c < Maximum, Double(c)
    PROVE  /\ candidate' \in Nat /\ c < candidate' /\ candidate' <= Maximum
           /\ stage' = stage
<1> DEFINE low == Least(2 * c, Maximum)
<1>1. low \in Nat /\ low <= Maximum
  BY PlannerAssumption DEF Least
<1>2. AlignDown(low) \in Nat /\ AlignDown(low) <= Maximum
  BY <1>1, AlignDownBound, PlannerAssumption
<1> HIDE DEF low
<1>3. candidate' = IF AlignDown(low) <= c THEN Least(c + Resolution, Maximum)
                   ELSE AlignDown(low)
  BY DEF Double, low
<1> QED
  BY <1>2, <1>3, PlannerAssumption DEF Double, Least

(* Halving ends with the gap closed or proposes a candidate within it. *)
LEMMA HalveAdvances ==
    ASSUME NEW low \in Nat, NEW high \in Nat, low < high,
           \A c \in attempted' : c \in Nat /\ (c <= low \/ high <= c),
           Halve(low, high)
    PROVE  \/ candidate' = 0 /\ stage' = "complete" /\ high - low <= Resolution
           \/ /\ candidate' \in Nat /\ low < candidate' /\ candidate' < high
              /\ stage' = "binary"
<1> DEFINE mid == (low + high) \div 2
           next == IF Middle(low, high) <= low THEN low + Resolution
                   ELSE Middle(low, high)
<1>1. mid \in Nat /\ mid < high
  BY Z3
<1>2. Middle(low, high) \in Nat /\ Middle(low, high) < high
  BY <1>1, AlignDownBound DEF Middle
<1>3. CASE high - low <= Resolution
  BY <1>3 DEF Halve, Complete
<1>4. CASE ~(high - low <= Resolution)
  <2>1. next \in Nat /\ low < next /\ next < high
    BY <1>2, <1>4, PlannerAssumption
  <2>2. next \notin attempted'
    BY <2>1
  <2>3. candidate' = next /\ stage' = "binary"
    BY <1>4, <2>1, <2>2 DEF Halve
  <2> QED
    BY <2>1, <2>3
<1> QED
  BY <1>3, <1>4

(* Whatever is recorded keeps the invariant. *)
LEMMA RecordKeeps ==
    ASSUME PInv, NEW outcomes, Record(outcomes)
    PROVE  PInv'
<1> USE PlannerAssumption DEF PInv, ProbeSound, PlannerTypeOK
<1>1. /\ candidate # 0
      /\ attempted' = attempted \cup {candidate}
      /\ candidate \in 1 .. Maximum
      /\ attempted' \subseteq 1 .. Maximum
      /\ success < candidate
  BY DEF Record
<1>2. CASE Accepted(candidate)
  <2>1. success' = candidate /\ rejection' = rejection
    BY <1>2 DEF Accepted
  <2>2. CASE candidate >= Maximum
    BY <1>1, <1>2, <2>1, <2>2 DEF Accepted, Complete
  <2>3. CASE candidate < Maximum /\ rejection = 0
    <3>1. Double(candidate)
      BY <1>1, <1>2, <2>3 DEF Accepted
    <3>2. /\ candidate' \in Nat /\ candidate < candidate'
          /\ candidate' <= Maximum /\ stage' = stage
      BY <1>1, <2>3, <3>1, DoubleAdvances
    <3> QED
      BY <1>1, <2>1, <2>3, <3>2
  <2>4. CASE candidate < Maximum /\ rejection # 0
    <3>1. Halve(candidate, rejection)
      BY <1>1, <1>2, <2>4 DEF Accepted
    <3>2. candidate < rejection
      BY <1>1, <2>4
    <3>3. \A c \in attempted' : c \in Nat /\ (c <= candidate \/ rejection <= c)
      BY <1>1, <2>4
    <3>4. \/ /\ candidate' = 0 /\ stage' = "complete"
             /\ rejection - candidate <= Resolution
          \/ /\ candidate' \in Nat /\ candidate < candidate'
             /\ candidate' < rejection /\ stage' = "binary"
      BY <1>1, <3>1, <3>2, <3>3, HalveAdvances
    <3> QED
      BY <1>1, <2>1, <2>4, <3>2, <3>3, <3>4
  <2> QED
    BY <1>1, <2>2, <2>3, <2>4
<1>3. CASE Rejected(candidate)
  <2>1. rejection' = candidate /\ success' = success
    BY <1>3 DEF Rejected
  <2>2. CASE success = 0
    BY <1>1, <1>3, <2>1, <2>2 DEF Rejected, Complete
  <2>3. CASE success # 0
    <3>1. Halve(success, candidate)
      BY <1>3, <2>3 DEF Rejected
    <3>2. \A c \in attempted' : c \in Nat /\ (c <= success \/ candidate <= c)
      BY <1>1
    <3>3. \/ /\ candidate' = 0 /\ stage' = "complete"
             /\ candidate - success <= Resolution
          \/ /\ candidate' \in Nat /\ success < candidate'
             /\ candidate' < candidate /\ stage' = "binary"
      BY <1>1, <3>1, <3>2, HalveAdvances
    <3> QED
      BY <1>1, <2>1, <2>3, <3>2, <3>3
  <2> QED
    BY <2>2, <2>3
<1>4. CASE Inconclusive
  BY <1>1, <1>4 DEF Inconclusive
<1> QED
  BY <1>2, <1>3, <1>4 DEF Record

(* So does every step of the planner, and every step that leaves it alone. *)
LEMMA PlannerSteps == PInv /\ [PlannerNext]_planner => PInv'
<1>1. UNCHANGED planner /\ PInv => PInv'
  BY DEF planner, PInv, ProbeSound, PlannerTypeOK
<1> QED
  BY <1>1, RecordKeeps DEF PlannerNext

(* Whatever the server answers: the bounds of a probe never cross, every      *)
(* candidate is new and lies between them, and a complete probe has closed    *)
(* the gap to its resolution, reached the maximum or found the start refused. *)
THEOREM ProbeIsSound == PlannerSpec => []ProbeSound
<1>1. PlannerSpec => []PInv
  BY PlannerStarts, PlannerSteps, PTL DEF PlannerSpec
<1>2. PInv => ProbeSound
  BY DEF PInv
<1> QED
  BY <1>1, <1>2, PTL

-----------------------------------------------------------------------------
(* No attempt is lost *)

(* An attempt is in the outcomes of the target under way. *)
InRows(rows, a) ==
    a.target = Target /\ a.run \in DOMAIN rows /\ rows[a.run] = a.outcome

(* Until the end: lengths are those of the targets before the one under way,   *)
(* which therefore has none yet; and each attempt is in a length or, unless    *)
(* the run waits between targets, among the current ones.                      *)
Active ==
    /\ result.status = "none"
    /\ config.probe => /\ candidate # 0 /\ pc # "between"
                       /\ \A i \in DOMAIN lengths : lengths[i].target \in attempted
    /\ ~config.probe => /\ Len(lengths) = IF pc = "between" THEN at ELSE at - 1
                        /\ \A i \in DOMAIN lengths : lengths[i].target = Targets[i]
    /\ pc = "between" => at < Len(Targets)
    /\ pc \in {"building", "requesting"} =>
          IF phase = "measured" THEN run = Len(current) + 1
          ELSE current = <<>> /\ (phase = "shared" => pc = "building" /\ run = 1)
    /\ \A a \in attempts :
          Keeps(lengths, a) \/ (pc # "between" /\ InRows(current, a))

Ended ==
    /\ result.lengths = lengths
    /\ result.status \in {"completed", "cancelled", "fatal"} => Retained(lengths)

CInv ==
    /\ PInv
    /\ config \in Configs /\ at \in DOMAIN Targets
    /\ current \in Seq(Outcomes) /\ lengths \in Seq(Lengths)
    /\ pc \in {"building", "requesting", "sampling", "between", "done"}
    /\ pc # "done" => Active
    /\ pc = "done" => Ended

-----------------------------------------------------------------------------
(* Lengths *)

NewLength(rows, early) == [target |-> Target, rows |-> rows, early |-> early]

(* A length more loses no attempt, and keeps those of its own rows. *)
LEMMA AppendKeeps ==
    ASSUME NEW ls \in Seq(Lengths), NEW rows \in Seq(Outcomes), NEW early \in BOOLEAN,
           Target \in Nat \ {0}
    PROVE  LET more == Append(ls, NewLength(rows, early)) IN
           /\ more \in Seq(Lengths)
           /\ \A a : Keeps(ls, a) \/ InRows(rows, a) => Keeps(more, a)
<1> DEFINE x == NewLength(rows, early)
           more == Append(ls, x)
<1>1. x \in Lengths /\ x.target = Target /\ x.rows = rows
  BY DEF NewLength, Lengths
<1>2. /\ more \in Seq(Lengths)
      /\ DOMAIN more = DOMAIN ls \cup {Len(ls) + 1}
      /\ \A i \in DOMAIN ls : more[i] = ls[i]
      /\ more[Len(ls) + 1] = x
  BY <1>1
<1> HIDE DEF x, more
<1>3. ASSUME NEW a, Keeps(ls, a)
      PROVE  Keeps(more, a)
  BY <1>2, <1>3 DEF Keeps
<1>4. ASSUME NEW a, InRows(rows, a)
      PROVE  Keeps(more, a)
  <2>1. Len(ls) + 1 \in DOMAIN more
    BY <1>2
  <2> QED
    BY <1>1, <1>2, <1>4, <2>1 DEF Keeps, InRows
<1> QED
  BY <1>2, <1>3, <1>4 DEF more, x

(* The target under way is a length, and one that has no result yet. *)
LEMMA TargetIsNew ==
    ASSUME CInv, pc # "done"
    PROVE  /\ Target \in Nat \ {0}
           /\ pc # "between" => \A i \in DOMAIN lengths : lengths[i].target # Target
<1> USE PlanAssumption DEF CInv, Active
<1>1. CASE config.probe
  BY <1>1 DEF Target, PInv, ProbeSound, PlannerTypeOK
<1>2. CASE ~config.probe
  <2>1. Target = Targets[at] /\ Targets[at] \in Nat \ {0}
    BY <1>2 DEF Target
  <2>2. ASSUME pc # "between", NEW i \in DOMAIN lengths
        PROVE  lengths[i].target # Target
    <3>1. i \in DOMAIN Targets /\ i < at
      BY <1>2, <2>2
    <3>2. Targets[i] < Targets[at] /\ Targets[i] \in Nat
      BY <3>1
    <3> QED
      BY <1>2, <2>1, <3>2
  <2> QED
    BY <2>1, <2>2
<1> QED
  BY <1>1, <1>2

(* Committing the target under way loses nothing. *)
LEMMA CommittedKeeps ==
    ASSUME CInv, pc # "done"
    PROVE  Committed \in Seq(Lengths) /\ \A a \in attempts : Keeps(Committed, a)
<1> DEFINE more == Append(lengths, NewLength(current, FALSE))
<1>1. more \in Seq(Lengths) /\ \A a \in attempts : Keeps(lengths, a) \/ InRows(current, a)
                                  => Keeps(more, a)
  BY TargetIsNew, AppendKeeps DEF CInv
<1>2. Committed \in {lengths, more}
  BY DEF Committed, NewLength
<1>3. CASE current = <<>>
  BY <1>3 DEF CInv, Active, Committed, InRows
<1>4. CASE current # <<>> /\ pc = "between"
  BY <1>1, <1>2, <1>4 DEF CInv, Active
<1>5. CASE current # <<>> /\ pc # "between"
  <2>1. Committed = more
    BY <1>5, TargetIsNew DEF Committed, NewLength
  <2> QED
    BY <1>1, <1>5, <2>1 DEF CInv, Active
<1> QED
  BY <1>3, <1>4, <1>5

-----------------------------------------------------------------------------
(* Ways to end *)

Keep == UNCHANGED <<planner, plan>>

LEMMA PlannerKept == PInv /\ UNCHANGED planner => PInv'
  BY PlannerSteps

LEMMA CommittedEnd ==
    ASSUME CInv, pc # "done", Cancelled \/ Fatal, Keep
    PROVE  CInv'
<1>1. /\ lengths' = Committed /\ result'.lengths = Committed
      /\ attempts' = attempts /\ pc' = "done" /\ current' = <<>>
  BY DEF Cancelled, Fatal, End
<1>2. PInv' /\ config' = config /\ at' = at
  BY PlannerKept DEF CInv, Keep, plan
<1>3. Retained(lengths)'
  BY <1>1, CommittedKeeps DEF Retained, Keeps
<1> QED
  BY <1>1, <1>2, <1>3, CommittedKeeps DEF CInv, Ended

LEMMA CrashedEnd ==
    ASSUME CInv, pc # "done", Crashed, Keep
    PROVE  CInv'
<1>1. PInv' /\ config' = config /\ at' = at
  BY PlannerKept DEF CInv, Keep, plan
<1> QED
  BY <1>1 DEF CInv, Ended, Crashed, End

-----------------------------------------------------------------------------
(* Attempts *)

(* The pool goes on with outcomes that hold every attempt not in a length. *)
LEMMA ClaimKeeps ==
    ASSUME CInv, pc = "requesting", Keep,
           NEW rows \in Seq(Outcomes), Claim(rows),
           \A a \in attempts' : Keeps(lengths, a) \/ InRows(rows, a)
    PROVE  CInv'
<1>1. /\ lengths' = lengths /\ result' = result /\ current' = rows
      /\ phase' = "measured" /\ pc' \in {"sampling", "building", "requesting"}
      /\ pc' # "sampling" => run' = Len(rows) + 1
  BY DEF Claim, NextPrompt
<1>2. PInv' /\ UNCHANGED <<config, at, candidate, attempted>>
  BY PlannerKept DEF CInv, Keep, plan, planner
<1>3. \A a \in attempts' : Keeps(lengths, a)' \/ InRows(current, a)'
  BY <1>1, <1>2 DEF Keeps, InRows, Target
<1>4. Active'
  BY <1>1, <1>2, <1>3 DEF CInv, Active
<1> QED
  BY <1>1, <1>2, <1>4 DEF CInv

LEMMA MeasuredKeeps ==
    ASSUME CInv, pc = "requesting", phase = "measured", Keep,
           NEW o \in Outcomes, Measured(o)
    PROVE  CInv'
<1> DEFINE rows == Append(current, o)
           b == [target |-> Target, run |-> run, outcome |-> o]
<1>1. /\ rows \in Seq(Outcomes) /\ run = Len(current) + 1
      /\ DOMAIN rows = DOMAIN current \cup {run} /\ rows[run] = o
      /\ \A k \in DOMAIN current : rows[k] = current[k]
  BY DEF CInv, Active
<1>2. Claim(rows) /\ attempts' = attempts \cup {b}
  BY DEF Measured
<1>3. \A a \in attempts : Keeps(lengths, a) \/ InRows(current, a)
  BY DEF CInv, Active
<1> HIDE DEF rows
<1>4. InRows(rows, b)
  BY <1>1 DEF InRows
<1>5. \A a \in attempts : InRows(current, a) => InRows(rows, a)
  BY <1>1 DEF InRows
<1>6. \A a \in attempts' : Keeps(lengths, a) \/ InRows(rows, a)
  BY <1>2, <1>3, <1>4, <1>5
<1> QED
  BY <1>1, <1>2, <1>6, ClaimKeeps

(* Steps within a target that add no attempt. *)
LEMMA WithinKeeps ==
    ASSUME CInv, pc \in {"building", "requesting"}, Keep, UNCHANGED book,
           pc' \in {"building", "requesting", "sampling"},
           pc' # "sampling" =>
              IF phase' = "measured" THEN run' = Len(current) + 1
              ELSE current = <<>> /\ phase' # "shared"
    PROVE  CInv'
<1>1. PInv' /\ UNCHANGED <<config, at, candidate, attempted>>
  BY PlannerKept DEF CInv, Keep, plan, planner
<1>2. \A a \in attempts' : Keeps(lengths, a)' \/ InRows(current, a)'
  BY <1>1 DEF CInv, Active, Keeps, InRows, Target, book
<1>3. Active'
  BY <1>1, <1>2 DEF CInv, Active, book
<1> QED
  BY <1>1, <1>3 DEF CInv, book

LEMMA WarmedUpKeeps ==
    ASSUME CInv, pc = "requesting", phase # "measured", Keep,
           NEW o \in Outcomes, WarmedUp(o)
    PROVE  CInv'
<1>1. CASE Fatal \/ Cancelled
  BY <1>1, CommittedEnd
<1>2. CASE Claim(<<>>) /\ UNCHANGED attempts
  <2>1. \A a \in attempts' : Keeps(lengths, a) \/ InRows(<<>>, a)
    BY <1>2 DEF CInv, Active
  <2>2. <<>> \in Seq(Outcomes)
    OBVIOUS
  <2> QED
    BY <1>2, <2>1, <2>2, ClaimKeeps
<1>3. CASE pc' = NextPrompt /\ run' = run + 1 /\ UNCHANGED <<phase, why, book>>
  <2>1. current = <<>>
    BY DEF CInv, Active
  <2>2. phase # "shared"
    BY DEF CInv, Active
  <2> QED
    BY <1>3, <2>1, <2>2, WithinKeeps DEF NextPrompt
<1> QED
  BY <1>1, <1>2, <1>3 DEF WarmedUp

LEMMA AttemptedKeeps ==
    ASSUME CInv, pc = "requesting", Keep, NEW o \in Outcomes, Attempted(o)
    PROVE  CInv'
  BY MeasuredKeeps, WarmedUpKeeps DEF Attempted

LEMMA PoolEndKeeps ==
    ASSUME CInv, pc \in {"building", "requesting"}, Keep, NEW how, PoolEnds(how)
    PROVE  CInv'
  BY WithinKeeps DEF PoolEnds

LEMMA BuiltKeeps == CInv /\ Built => CInv'
<1> SUFFICES ASSUME CInv, Built
             PROVE  CInv'
  OBVIOUS
<1>1. Keep /\ UNCHANGED book /\ pc = "building" /\ pc' = "requesting" /\ run' = run
  BY DEF Built, Keep
<1>2. IF phase' = "measured" THEN run' = Len(current) + 1
      ELSE current = <<>> /\ phase' # "shared"
  BY <1>1 DEF Built, FirstPhase, CInv, Active
<1> QED
  BY <1>1, <1>2, WithinKeeps

-----------------------------------------------------------------------------
(* From target to target *)

(* The run goes on to another target, or ends because it was cancelled. *)
LEMMA NextTargetKeeps ==
    ASSUME CInv, pc # "done", PInv', NextTarget,
           config' = config, at' \in DOMAIN Targets,
           lengths' \in Seq(Lengths), attempts' = attempts,
           \A a \in attempts : Keeps(lengths', a),
           config.probe => /\ candidate' # 0
                           /\ \A i \in DOMAIN lengths' :
                                 lengths'[i].target \in attempted',
           ~config.probe => /\ Len(lengths') = at' - 1
                            /\ \A i \in DOMAIN lengths' :
                                  lengths'[i].target = Targets[i]
    PROVE  CInv'
<1>1. CASE cancel
  <2>1. pc' = "done" /\ result'.lengths = lengths' /\ current' = <<>>
    BY <1>1 DEF NextTarget, End
  <2>2. Retained(lengths)'
    BY DEF Retained, Keeps
  <2> QED
    BY <2>1, <2>2 DEF CInv, Ended
<1>2. CASE ~cancel
  <2>1. /\ pc' = "building" /\ run' = 1 /\ current' = <<>> /\ result' = result
        /\ phase' \in {"shared", "warmup", "measured"}
    BY <1>2 DEF NextTarget, FirstPhase
  <2>2. \A a \in attempts' : Keeps(lengths, a)'
    BY DEF Keeps
  <2>3. Active'
    BY <2>1, <2>2 DEF CInv, Active
  <2> QED
    BY <2>1, <2>3 DEF CInv
<1> QED
  BY <1>1, <1>2

(* The run completes, with a length for its last target. *)
LEMMA CompletedKeeps ==
    ASSUME CInv, pc # "done", PInv', NEW status, End(status, lengths'),
           config' = config, at' \in DOMAIN Targets,
           lengths' \in Seq(Lengths),
           \A a \in attempts : Keeps(lengths', a)
    PROVE  CInv'
<1>1. /\ pc' = "done" /\ result'.lengths = lengths' /\ current' = <<>>
      /\ attempts' = attempts
  BY DEF End
<1>2. Retained(lengths)'
  BY <1>1 DEF Retained, Keeps
<1> QED
  BY <1>1, <1>2 DEF CInv, Ended

LEMMA ListedKeeps ==
    ASSUME CInv, pc = "sampling", ~config.probe, AfterListed
    PROVE  CInv'
<1> DEFINE stops == StopsEarly(current)
<1>1. stops \in BOOLEAN
  BY DEF StopsEarly, AllRejectedRows, All, CInv, Configs
<1>2. lengths' = Append(lengths, NewLength(current, stops))
  BY DEF AfterListed, NewLength
<1>3. UNCHANGED <<planner, config>>
  BY DEF AfterListed
<1>4. PInv' /\ candidate' = candidate
  BY <1>3, PlannerKept DEF CInv, planner
<1> HIDE DEF stops
<1>5. /\ lengths' \in Seq(Lengths)
      /\ \A a \in attempts : Keeps(lengths', a)
  BY <1>1, <1>2, TargetIsNew, AppendKeeps DEF CInv, Active
<1>6. Len(lengths) = at - 1 /\ at \in 1 .. Len(Targets)
  BY PlanAssumption DEF CInv, Active
<1>7. /\ Len(lengths') = at
      /\ \A i \in DOMAIN lengths' : lengths'[i].target = Targets[i]
  BY <1>2, <1>6 DEF CInv, Active, NewLength, Target
<1>8. CASE End("completed", lengths') /\ at' = at
  BY <1>3, <1>4, <1>5, <1>8, CompletedKeeps DEF CInv
<1>9. CASE /\ pc' = "between" /\ at # Len(Targets)
           /\ UNCHANGED <<phase, run, at, current, why, attempts, result>>
  <2>1. \A a \in attempts' : Keeps(lengths, a)'
    BY <1>5, <1>9 DEF Keeps
  <2>2. Active'
    BY <1>3, <1>4, <1>6, <1>7, <1>9, <2>1 DEF CInv, Active
  <2> QED
    BY <1>3, <1>4, <1>5, <1>9, <2>2 DEF CInv
<1>10. CASE at' = at + 1 /\ NextTarget /\ at # Len(Targets)
  <2>1. at' \in DOMAIN Targets /\ Len(lengths') = at' - 1
    BY <1>6, <1>7, <1>10, PlanAssumption
  <2>2. attempts' = attempts
    BY <1>10 DEF NextTarget, End
  <2> QED
    BY <1>3, <1>4, <1>5, <1>7, <1>10, <2>1, <2>2, NextTargetKeeps
<1> QED
  BY <1>8, <1>9, <1>10 DEF AfterListed

LEMMA ProbedKeeps ==
    ASSUME CInv, pc = "sampling", config.probe, AfterProbed
    PROVE  CInv'
<1>1. lengths' = Append(lengths, NewLength(current, FALSE))
  BY DEF AfterProbed, NewLength
<1>2. config' = config /\ at' = at
  BY DEF AfterProbed, plan
<1>3. /\ lengths' \in Seq(Lengths)
      /\ \A a \in attempts : Keeps(lengths', a)
  BY <1>1, TargetIsNew, AppendKeeps DEF CInv, Active
<1>4. CASE End("crashed", lengths') /\ UNCHANGED planner
  <2>1. PInv'
    BY <1>4, PlannerKept DEF CInv
  <2> QED
    BY <1>2, <1>3, <1>4, <2>1, CompletedKeeps DEF CInv
<1>5. CASE Record(Observed(current))
           /\ IF candidate' = 0 THEN End("completed", lengths') ELSE NextTarget
  <2>1. PInv'
    BY <1>5, RecordKeeps DEF CInv
  <2>2. attempted' = attempted \cup {candidate}
    BY <1>5 DEF Record
  <2>3. \A i \in DOMAIN lengths' : lengths'[i].target \in attempted'
    BY <1>1, <2>2 DEF CInv, Active, NewLength, Target
  <2>4. CASE candidate' = 0
    BY <1>2, <1>3, <1>5, <2>1, <2>4, CompletedKeeps DEF CInv
  <2>5. CASE candidate' # 0
    <3>1. NextTarget /\ attempts' = attempts
      BY <1>5, <2>5 DEF NextTarget, End
    <3> QED
      BY <1>2, <1>3, <2>1, <2>3, <2>5, <3>1, NextTargetKeeps DEF CInv
  <2> QED
    BY <2>4, <2>5
<1> QED
  BY <1>4, <1>5 DEF AfterProbed

LEMMA SampledKeeps == CInv /\ Sampled => CInv'
<1> SUFFICES ASSUME CInv, Sampled
             PROVE  CInv'
  OBVIOUS
<1>1. pc = "sampling"
  BY DEF Sampled
<1>2. CASE AfterTarget
  BY <1>1, <1>2, CommittedEnd, ListedKeeps, ProbedKeeps DEF AfterTarget, Keep
<1>3. CASE (Cancelled \/ Crashed) /\ UNCHANGED <<planner, plan>>
  BY <1>1, <1>3, CommittedEnd, CrashedEnd DEF Keep
<1> QED
  BY <1>2, <1>3 DEF Sampled

LEMMA DelayKeeps == CInv /\ DelayEnds => CInv'
<1> SUFFICES ASSUME CInv, DelayEnds
             PROVE  CInv'
  OBVIOUS
<1>1. /\ pc = "between" /\ at' = at + 1 /\ NextTarget
      /\ lengths' = lengths /\ UNCHANGED <<planner, config>>
  BY DEF DelayEnds
<1>2. ~config.probe /\ Len(lengths) = at
  BY <1>1 DEF CInv, Active
<1>3. attempts' = attempts
  BY <1>1 DEF NextTarget, End
<1>4. PInv'
  BY <1>1, PlannerKept DEF CInv
<1>5. at' \in DOMAIN Targets /\ Len(lengths') = at' - 1
  BY <1>1, <1>2, PlanAssumption DEF CInv, Active
<1>6. /\ lengths' \in Seq(Lengths)
      /\ \A a \in attempts : Keeps(lengths', a)
      /\ \A i \in DOMAIN lengths' : lengths'[i].target = Targets[i]
  BY <1>1, <1>2 DEF CInv, Active
<1> QED
  BY <1>1, <1>2, <1>3, <1>4, <1>5, <1>6, NextTargetKeeps

-----------------------------------------------------------------------------
(* Whatever step the run takes *)

LEMMA RunStarts == Init => CInv
<1> SUFFICES ASSUME Init
             PROVE  CInv
  OBVIOUS
<1>1. PInv /\ candidate # 0
  BY PlannerStarts, PlannerAssumption DEF Init, PlannerInit
<1>2. 1 \in DOMAIN Targets
  BY PlanAssumption
<1>3. Active
  BY <1>1 DEF Init, Active, FirstPhase, NoResult
<1> QED
  BY <1>1, <1>2, <1>3 DEF Init, CInv

LEMMA RunSteps == CInv /\ [Next]_vars => CInv'
<1> SUFFICES ASSUME CInv, [Next]_vars
             PROVE  CInv'
  OBVIOUS
<1>1. CASE BuildFails
  BY <1>1, PoolEndKeeps, CrashedEnd DEF BuildFails, PoolCrashes, Keep
<1>2. ASSUME NEW o \in Outcomes, Answered(o)
      PROVE  CInv'
  BY <1>2, AttemptedKeeps DEF Answered, Keep
<1>3. CASE TimesOut
  <2>1. "timeout" \in Outcomes
    BY DEF Outcomes
  <2> QED
    BY <1>3, <2>1, AttemptedKeeps, PoolEndKeeps, CommittedEnd
       DEF TimesOut, PoolCrashes, Keep
<1>4. CASE CancelledWaiting
  BY <1>4, PoolEndKeeps, CommittedEnd DEF CancelledWaiting, Deliver, Keep
<1>5. CASE CancelledLate
  <2>1. "timeout" \in Outcomes
    BY DEF Outcomes
  <2> QED
    BY <1>5, <2>1, MeasuredKeeps, WarmedUpKeeps DEF CancelledLate, Deliver, Keep
<1>6. CASE CancelledSampling
  BY <1>6, CommittedEnd DEF CancelledSampling, Deliver, Keep
<1>7. CASE Cancel \/ UNCHANGED vars
  <2>1. UNCHANGED <<planner, plan, pc, phase, run, why, book>>
    BY <1>7 DEF Cancel, vars, plan, book
  <2>2. PInv'
    BY <2>1, PlannerKept DEF CInv
  <2> QED
    BY <2>1, <2>2 DEF CInv, Active, Ended, Keeps, InRows, Target, Retained,
                      planner, plan, book
<1> QED
  BY <1>1, <1>2, <1>3, <1>4, <1>5, <1>6, <1>7, BuiltKeeps, SampledKeeps, DelayKeeps
     DEF Next, Done

(* The bounds of the probe a run makes are sound, however its attempts end    *)
(* and whenever it is cancelled.                                              *)
THEOREM RunProbesSoundly == Spec => []ProbeSound
<1>1. Spec => []CInv
  BY RunStarts, RunSteps, PTL DEF Spec
<1>2. CInv => ProbeSound
  BY DEF CInv, PInv
<1> QED
  BY <1>1, <1>2, PTL

(* The result of a run that completes, is cancelled or stops at a failed      *)
(* request has every measured attempt that ended, and that of any other run   *)
(* those of every target but the last.                                        *)
THEOREM RunKeepsAttempts == Spec => []AttemptsKept
<1>1. Spec => []CInv
  BY RunStarts, RunSteps, PTL DEF Spec
<1>2. CInv => AttemptsKept
  BY DEF CInv, Active, Ended, AttemptsKept
<1> QED
  BY <1>1, <1>2, PTL

-----------------------------------------------------------------------------
(* What the result says, and where a run stops *)

(* Reasons to try no further length, of the lengths so far. *)
Rejects(ls, i) == config.early /\ All(ls[i].rows, "rejected")

Mixed(ls, i) ==
    config.early /\ i > 1 /\ PartlyRejected(ls[i].rows) /\ PartlyRejected(ls[i - 1].rows)

CutShort(ls, i) ==
    /\ ~config.keepGoing /\ Len(ls[i].rows) < Repeats
    /\ "timeout" \in RangeOf(ls[i].rows)

Stop(ls, i) == Rejects(ls, i) \/ Mixed(ls, i) \/ CutShort(ls, i)

(* Without continue_after_timeout, nothing follows a timeout. *)
LastTimeout(rows) ==
    ~config.keepGoing => \A k \in 1 .. Len(rows) - 1 : rows[k] # "timeout"

(* What the attempts of the target under way say of the task that made them.  *)
Attempting ==
    /\ pc \in {"building", "requesting"} =>
          /\ phase = "warmup" => run <= Warmups
          /\ phase = "measured" => Len(current) < Repeats /\ ~StopAfter(current)
    /\ Len(current) <= Repeats /\ LastTimeout(current)
    /\ pc = "sampling" /\ why = "ok" /\ Len(current) < Repeats =>
          cancel \/ StopAfter(current)

(* A cancelled task hears of it, unless the pool's end or a warm-up out of    *)
(* time kept it: then the pool has no attempt, or an exception to raise.      *)
Hears ==
    /\ pending => cancel
    /\ cancel /\ ~pending /\ pc # "done" =>
          pc = "sampling" /\ (why = "ok" => current = <<>>)
    /\ pc = "sampling" /\ why = "cancelled" => cancel

(* The targets a result has, and what the probe's evidence is.                *)
Tried ==
    /\ ~config.probe => \A i \in DOMAIN lengths :
          i <= Len(Targets) /\ lengths[i].target = Targets[i]
    /\ config.probe =>
          /\ \A i, j \in DOMAIN lengths : lengths[i].target = lengths[j].target => i = j
          /\ \A i \in DOMAIN lengths :
                /\ lengths[i].target = success => All(lengths[i].rows, "done")
                /\ lengths[i].target = rejection => All(lengths[i].rows, "rejected")
    /\ \A i \in DOMAIN lengths : LastTimeout(lengths[i].rows)

(* A length the run went on from is complete, and no reason to stop. *)
Passed(ls, i) ==
    /\ Len(ls[i].rows) = Repeats /\ "error" \notin RangeOf(ls[i].rows)
    /\ ~config.probe => ~ls[i].early /\ ~Stop(ls, i)

(* The streak tells whether the last length of a list was partly rejected. *)
StreakKnown ==
    ~config.probe =>
        (streak > 0 <=> lengths # <<>> /\ PartlyRejected(lengths[Len(lengths)].rows))

GoesOn ==
    /\ result = NoResult
    /\ \A i \in DOMAIN lengths : Passed(lengths, i)
    /\ StreakKnown

Told ==
    /\ result.status \in {"completed", "cancelled", "fatal", "crashed"}
    /\ \A i \in 1 .. Len(lengths) - 1 : Passed(lengths, i)
    /\ result.status = "cancelled" => cancel
    /\ \A i \in DOMAIN lengths :
          ~config.probe /\ lengths[i].early => Rejects(lengths, i) \/ Mixed(lengths, i)
    /\ result.status = "completed" => lengths # <<>> /\
          LET n == Len(lengths)
              rows == lengths[n].rows
          IN /\ cancel => rows = <<>>
             /\ "error" \notin RangeOf(rows)
             /\ Len(rows) < Repeats =>
                   ("timeout" \in RangeOf(rows) /\ ~config.keepGoing) \/ cancel
             /\ ~config.probe /\ n < Len(Targets) => Stop(lengths, n) \/ cancel

Kinds ==
    /\ phase \in {"shared", "warmup", "measured"}
    /\ run \in 1 .. Warmups + Repeats
    /\ streak \in 0 .. Len(lengths) /\ streak <= at
    /\ cancel \in BOOLEAN /\ pending \in BOOLEAN
    /\ why \in {"ok", "cancelled", "crashed"}
    /\ \A a \in attempts : a.run \in 1 .. Repeats /\ a.outcome \in Outcomes

DInv ==
    /\ Kinds /\ Attempting /\ Hears /\ Tried
    /\ pc # "done" => GoesOn
    /\ pc = "done" => Told

LEMMA DInvStarts == Init => DInv
<1> SUFFICES ASSUME Init
             PROVE  DInv
  OBVIOUS
<1>1. /\ lengths = <<>> /\ current = <<>> /\ attempts = {} /\ run = 1 /\ streak = 0 /\ at = 1
      /\ pc = "building" /\ why = "ok" /\ result = NoResult
      /\ phase = IF config.shared THEN "shared" ELSE FirstPhase
  BY DEF Init
<1>2. cancel \in BOOLEAN /\ pending \in BOOLEAN /\ ~cancel /\ ~pending
  BY Zenon DEF Init
<1>3. Kinds
  <2>1. phase \in {"shared", "warmup", "measured"} /\ run \in 1 .. Warmups + Repeats
    BY <1>1, PlanAssumption DEF FirstPhase
  <2>2. streak \in 0 .. Len(lengths) /\ streak <= at /\ why \in {"ok", "cancelled", "crashed"}
    BY <1>1
  <2> QED
    BY <1>1, <1>2, <2>1, <2>2 DEF Kinds
<1>4. Attempting
  BY <1>1, PlanAssumption DEF Attempting, FirstPhase, StopAfter, RangeOf, LastTimeout
<1>5. Hears
  <2>1. pc # "sampling"
    BY <1>1
  <2> QED
    BY <1>2, <2>1, Zenon DEF Hears
<1>6. Tried /\ GoesOn
  BY <1>1 DEF Tried, GoesOn, StreakKnown
<1> QED
  BY <1>1, <1>3, <1>4, <1>5, <1>6 DEF DInv

(* A step within a target, one that ends the run, and one to a next target.   *)
Within == pc # "done" /\ pc' # "done" /\ UNCHANGED <<planner, plan, lengths, result>>

Commits == (Cancelled /\ cancel) \/ Fatal

Class ==
    \/ Within
    \/ pc # "done" /\ (Commits \/ Crashed) /\ Keep
    \/ pc = "sampling" /\ why = "ok" /\ ~pending /\ "error" \notin RangeOf(current)
       /\ IF config.probe THEN AfterProbed ELSE AfterListed
    \/ DelayEnds
    \/ UNCHANGED vars

LEMMA AttemptedClass ==
    ASSUME pc # "done", Keep, NEW o, Attempted(o)
    PROVE  Class
BY DEF Attempted, Measured, WarmedUp, Claim, NextPrompt, Class, Within, Commits, Keep, plan,
       book

LEMMA StepClass ==
    ASSUME Hears, [Next]_vars
    PROVE  Class /\ (cancel' = cancel \/ Cancel)
<1> USE DEF plan, book, Keep
<1>1. CASE Built
  BY <1>1 DEF Built, Class, Within
<1>2. CASE BuildFails
  BY <1>2 DEF BuildFails, PoolCrashes, PoolEnds, Class, Within
<1>3. ASSUME NEW o \in Outcomes, Answered(o)
      PROVE  Class /\ cancel' = cancel
  BY <1>3, AttemptedClass DEF Answered
<1>4. CASE TimesOut
  <2>1. CASE Attempted("timeout")
    BY <1>4, <2>1, AttemptedClass DEF TimesOut
  <2>2. CASE Fatal \/ PoolCrashes
    BY <1>4, <2>2 DEF TimesOut, PoolCrashes, PoolEnds, Class, Commits, Within
  <2> QED
    BY <1>4, <2>1, <2>2 DEF TimesOut
<1>5. CASE Sampled
  <2>1. CASE why = "ok" /\ AfterTarget
    BY <1>5, <2>1 DEF Sampled, AfterTarget, Class, Commits
  <2>2. CASE /\ (why = "cancelled" /\ Cancelled) \/ Crashed
             /\ UNCHANGED <<planner, plan>>
    BY <1>5, <2>2 DEF Sampled, Hears, Class, Commits
  <2> QED
    BY <1>5, <2>1, <2>2 DEF Sampled
<1>6. CASE DelayEnds
  BY <1>6 DEF DelayEnds, Class
<1>7. CASE Cancel
  BY <1>7 DEF Cancel, Class, Within
<1>8. CASE CancelledWaiting \/ CancelledSampling
  <2>1. pc # "done" /\ cancel /\ Keep /\ cancel' = cancel
    BY <1>8 DEF CancelledWaiting, CancelledSampling, Deliver, Hears
  <2>2. Cancelled \/ PoolEnds("cancelled")
    BY <1>8 DEF CancelledWaiting, CancelledSampling
  <2> QED
    BY <2>1, <2>2 DEF PoolEnds, Class, Commits, Within
<1>9. CASE CancelledLate
  <2>1. pc = "requesting" /\ Keep /\ cancel' = cancel /\ Attempted("timeout")
    BY <1>9 DEF CancelledLate, Deliver, Attempted
  <2> QED
    BY <2>1, AttemptedClass
<1>10. CASE Done \/ UNCHANGED vars
  BY <1>10 DEF Done, Class, vars
<1> QED
  BY <1>1, <1>2, <1>3, <1>4, <1>5, <1>6, <1>7, <1>8, <1>9, <1>10 DEF Next

(* What the task knows of its attempts                                        *)

LEMMA AttemptRows ==
    ASSUME NEW rows \in Seq(Outcomes), NEW o \in Outcomes, ~StopAfter(rows),
           LastTimeout(rows)
    PROVE  LET more == Append(rows, o) IN
           /\ more \in Seq(Outcomes) /\ Len(more) = Len(rows) + 1
           /\ LastTimeout(more)
<1> DEFINE more == Append(rows, o)
<1>1. /\ more \in Seq(Outcomes) /\ Len(more) = Len(rows) + 1 /\ Len(rows) \in Nat
      /\ \A k \in 1 .. Len(rows) : more[k] = rows[k]
      /\ DOMAIN rows = 1 .. Len(rows)
  OBVIOUS
<1> HIDE DEF more
<1>2. ASSUME ~config.keepGoing, NEW k \in 1 .. Len(rows)
      PROVE  rows[k] # "timeout"
  BY <1>1, <1>2 DEF StopAfter, RangeOf
<1>3. LastTimeout(more)
  BY <1>1, <1>2 DEF LastTimeout
<1> QED
  BY <1>1, <1>3 DEF more

(* The pool's next claim. *)
LEMMA ClaimTells ==
    ASSUME CInv, DInv, pc = "requesting", Keep, UNCHANGED cancel,
           NEW rows \in Seq(Outcomes), Len(rows) <= Repeats, LastTimeout(rows), Claim(rows),
           \A a \in attempts' : a.run \in 1 .. Repeats /\ a.outcome \in Outcomes,
           \/ pending' = pending
           \/ pending' = FALSE /\ pending /\ rows = <<>>,
           pending => cancel
    PROVE  Kinds' /\ Attempting' /\ Hears'
<1>1. /\ phase' = "measured" /\ current' = rows /\ lengths' = lengths
      /\ \/ /\ cancel \/ StopAfter(rows) \/ Len(rows) = Repeats
            /\ pc' = "sampling" /\ why' = "ok" /\ run' = run
         \/ /\ ~cancel /\ ~StopAfter(rows) /\ Len(rows) # Repeats
            /\ pc' \in {"building", "requesting"} /\ run' = Len(rows) + 1 /\ why' = why
      /\ UNCHANGED <<config, at, streak, cancel>>
  BY DEF Claim, NextPrompt, Keep, plan
<1>2. Kinds /\ Hears /\ Len(rows) \in Nat /\ Repeats \in Nat /\ Warmups \in Nat
  BY PlanAssumption DEF DInv
<1>3. pending' \in BOOLEAN
  BY <1>2, Zenon DEF Kinds
<1>4. run' \in 1 .. Warmups + Repeats
  BY <1>1, <1>2 DEF Kinds
<1>5. Kinds'
  BY <1>1, <1>2, <1>3, <1>4 DEF Kinds
<1>6. Attempting'
  BY <1>1, <1>2 DEF Attempting, StopAfter, LastTimeout
<1>7. Hears'
  <2>1. pending' => cancel'
    <3>1. cancel' = cancel /\ cancel \in BOOLEAN /\ pending \in BOOLEAN
      BY <1>1, <1>2 DEF Kinds
    <3>2. (pending' <=> pending) \/ ~pending'
      OBVIOUS
    <3>3. (cancel' <=> cancel)
      BY <3>1
    <3> QED
      BY <3>2, <3>3
  <2>2. ASSUME cancel', ~pending'
        PROVE  pc' = "sampling" /\ rows = <<>>
    <3>1. pending
      BY <1>1, <1>2, <2>2 DEF Hears
    <3> QED
      BY <1>1, <2>2, <3>1
  <2> QED
    BY <1>1, <2>1, <2>2 DEF Hears
<1> QED
  BY <1>5, <1>6, <1>7

(* A pending cancellation, and what is left of it when it is delivered. *)
LEMMA PendingStays ==
    ASSUME Kinds, Hears, cancel' = cancel, pending' \in {pending, FALSE}
    PROVE  pending' \in BOOLEAN /\ (pending' => cancel')
<1>1. cancel \in BOOLEAN /\ pending \in BOOLEAN /\ (pending => cancel)
  BY DEF Kinds, Hears
<1>2. cancel' <=> cancel
  BY <1>1
<1>3. CASE pending' = pending
  <2>1. pending' <=> pending
    BY <1>1, <1>3
  <2> QED
    BY <1>1, <1>2, <1>3, <2>1
<1>4. CASE pending' = FALSE
  BY <1>4, Zenon
<1> QED
  BY <1>3, <1>4

LEMMA MeasuredTells ==
    ASSUME CInv, DInv, pc = "requesting", phase = "measured", Keep, UNCHANGED cancel,
           NEW o \in Outcomes, Measured(o), pending' = pending
    PROVE  Kinds' /\ Attempting' /\ Hears'
<1>1. /\ Len(current) < Repeats /\ ~StopAfter(current) /\ LastTimeout(current)
      /\ current \in Seq(Outcomes) /\ run = Len(current) + 1
      /\ Repeats \in Nat
  BY PlanAssumption DEF DInv, Attempting, CInv, Active
<1> DEFINE rows == Append(current, o)
<1>2. /\ Claim(rows)
      /\ attempts' = attempts \cup {[target |-> Target, run |-> run, outcome |-> o]}
  BY DEF Measured
<1>3. rows \in Seq(Outcomes) /\ Len(rows) = Len(current) + 1 /\ LastTimeout(rows)
  BY <1>1, AttemptRows
<1>4. \A a \in attempts' : a.run \in 1 .. Repeats /\ a.outcome \in Outcomes
  <2>1. \A a \in attempts : a.run \in 1 .. Repeats /\ a.outcome \in Outcomes
    BY DEF DInv, Kinds
  <2>2. run \in 1 .. Repeats
    BY <1>1
  <2> QED
    BY <1>2, <2>1, <2>2
<1>5. pending => cancel
  BY DEF DInv, Hears
<1> HIDE DEF rows
<1> QED
  BY <1>1, <1>2, <1>3, <1>4, <1>5, ClaimTells

LEMMA EndTells ==
    ASSUME DInv, NEW status, NEW ls, End(status, ls), cancel' = cancel,
           pending' \in {pending, FALSE},
           streak' \in 0 .. Len(lengths'), streak' <= at'
    PROVE  Kinds' /\ Attempting' /\ Hears'
<1>1. /\ pc' = "done" /\ current' = <<>> /\ UNCHANGED <<phase, run, why, attempts>>
      /\ cancel \in BOOLEAN /\ Repeats \in Nat
  BY PlanAssumption DEF End, DInv, Kinds
<1>2. pending' \in BOOLEAN /\ (pending' => cancel')
  BY PendingStays DEF DInv
<1>3. Kinds'
  BY <1>1, <1>2 DEF DInv, Kinds
<1>4. Attempting'
  BY <1>1 DEF Attempting, LastTimeout
<1> QED
  BY <1>1, <1>2, <1>3, <1>4 DEF Hears

LEMMA WarmedUpTells ==
    ASSUME CInv, DInv, pc = "requesting", phase # "measured", Keep, UNCHANGED cancel,
           NEW o \in Outcomes, WarmedUp(o),
           pending' = pending \/ (pending /\ pending' = FALSE)
    PROVE  Kinds' /\ Attempting' /\ Hears'
<1>1. /\ current = <<>> /\ phase = "warmup" /\ run <= Warmups /\ Warmups \in Nat
      /\ Repeats \in Nat \ {0} /\ (pending => cancel)
      /\ Kinds /\ Hears /\ Attempting
  BY PlanAssumption DEF DInv, Attempting, Hears, Kinds, CInv, Active
<1>2. CASE Fatal \/ Cancelled
  <2>1. \E status : End(status, Committed) /\ lengths' = Committed
    BY <1>2 DEF Fatal, Cancelled
  <2>2. Committed = lengths
    BY <1>1 DEF Committed
  <2>3. streak' \in 0 .. Len(lengths') /\ streak' <= at'
    BY <1>1, <2>1, <2>2 DEF Keep, plan, Kinds
  <2>4. pending' \in {pending, FALSE}
    OBVIOUS
  <2> QED
    BY <2>1, <2>3, <2>4, EndTells
<1>3. CASE Claim(<<>>) /\ UNCHANGED attempts
  <2>1. <<>> \in Seq(Outcomes) /\ Len(<<>>) <= Repeats /\ LastTimeout(<<>>)
    BY <1>1 DEF LastTimeout
  <2>2. \A a \in attempts' : a.run \in 1 .. Repeats /\ a.outcome \in Outcomes
    BY <1>1, <1>3 DEF Kinds
  <2> QED
    BY <1>1, <1>3, <2>1, <2>2, ClaimTells
<1>4. CASE /\ ~cancel /\ run # Warmups
           /\ pc' = NextPrompt /\ run' = run + 1 /\ UNCHANGED <<phase, why, book>>
  <2>1. ~pending
    BY <1>1, <1>4
  <2>2. /\ pc' \in {"building", "requesting"} /\ run' \in 1 .. Warmups /\ phase' = "warmup"
        /\ current' = <<>> /\ UNCHANGED <<config, at, streak, why, lengths, attempts>>
    BY <1>1, <1>4 DEF NextPrompt, Keep, plan, book, Kinds
  <2>3. ~cancel' /\ ~pending' /\ cancel' \in BOOLEAN /\ pending' \in BOOLEAN
    <3>1. (cancel' <=> cancel) /\ (pending' <=> pending)
      BY <2>1
    <3>2. cancel' = cancel /\ pending' = pending
      BY <2>1
    <3> QED
      BY <1>1, <1>4, <2>1, <3>1, <3>2 DEF Kinds
  <2>4. Kinds'
    <3>1. run' \in 1 .. Warmups + Repeats
      BY <1>1, <2>2
    <3> QED
      BY <1>1, <2>2, <2>3, <3>1 DEF Kinds
  <2>5. Attempting'
    BY <1>1, <2>2 DEF Attempting, LastTimeout
  <2> QED
    BY <2>2, <2>3, <2>4, <2>5 DEF Hears
<1> QED
  BY <1>2, <1>3, <1>4 DEF WarmedUp

LEMMA CommitsTell ==
    ASSUME CInv, DInv, CInv', pc # "done", Cancelled \/ Fatal \/ Crashed, Keep,
           cancel' = cancel, pending' \in {pending, FALSE}
    PROVE  Kinds' /\ Attempting' /\ Hears'
<1>1. PICK status, ls : End(status, ls)
  BY DEF Cancelled, Fatal, Crashed
<1>2. Len(lengths') >= Len(lengths)
  BY DEF Cancelled, Fatal, Crashed, Committed, CInv
<1>3. streak' \in 0 .. Len(lengths') /\ streak' <= at'
  BY <1>2 DEF DInv, Kinds, Keep, plan, CInv
<1> QED
  BY <1>1, <1>3, EndTells

(* The pool ends without the evidence it was after. *)
LEMMA PoolEndTells ==
    ASSUME CInv, DInv, pc \in {"building", "requesting"}, Keep, cancel' = cancel,
           pending' \in {pending, FALSE},
           NEW how \in {"cancelled", "crashed"}, PoolEnds(how), how = "cancelled" => cancel
    PROVE  Kinds' /\ Attempting' /\ Hears'
<1>1. /\ pc' = "sampling" /\ why' = how
      /\ UNCHANGED <<phase, run, current, lengths, attempts, config, at, streak, cancel>>
  BY DEF PoolEnds, book, Keep, plan
<1>2. Kinds /\ Attempting /\ pending' \in BOOLEAN /\ (pending' => cancel')
  BY PendingStays DEF DInv
<1>3. Kinds'
  BY <1>1, <1>2 DEF Kinds
<1>4. Attempting'
  BY <1>1, <1>2 DEF Attempting, LastTimeout
<1>5. how = "cancelled" => cancel'
  BY <1>1
<1> QED
  BY <1>1, <1>2, <1>3, <1>4, <1>5 DEF Hears

LEMMA BuiltTells ==
    ASSUME CInv, DInv, Built
    PROVE  Kinds' /\ Attempting' /\ Hears'
<1>1. /\ pc = "building" /\ pc' = "requesting"
      /\ phase' = IF phase = "shared" THEN FirstPhase ELSE phase
      /\ UNCHANGED <<config, at, streak, run, why, current, lengths, attempts, cancel, pending>>
  BY DEF Built, plan, book
<1>2. Kinds /\ Attempting /\ Hears /\ PlanAssumption /\ current \in Seq(Outcomes)
  BY PlanAssumption DEF DInv, CInv
<1>3. phase = "shared" => current = <<>> /\ run = 1
  BY <1>1 DEF CInv, Active
<1>4. Kinds'
  BY <1>1, <1>2 DEF Kinds, FirstPhase
<1>5. Attempting'
  BY <1>1, <1>2, <1>3, PlanAssumption DEF Attempting, FirstPhase, StopAfter, RangeOf, LastTimeout
<1>6. Hears'
  BY <1>1, <1>2, Zenon DEF Hears
<1> QED
  BY <1>4, <1>5, <1>6

LEMMA NextTargetTells ==
    ASSUME DInv, pc # "done", ~pending, NextTarget,
           UNCHANGED <<config, cancel, pending>>,
           streak' \in 0 .. Len(lengths'), streak' <= at'
    PROVE  Kinds' /\ Attempting' /\ Hears'
<1>1. CASE cancel
  BY <1>1, EndTells DEF NextTarget
<1>2. CASE ~cancel
  <2>1. /\ pc' = "building" /\ run' = 1 /\ current' = <<>> /\ UNCHANGED <<why, attempts>>
        /\ phase' = IF config.shared THEN "shared" ELSE FirstPhase
    BY <1>2 DEF NextTarget
  <2>2. ~cancel' /\ ~pending' /\ cancel' \in BOOLEAN /\ pending' \in BOOLEAN
    <3>1. cancel \in BOOLEAN /\ pending \in BOOLEAN /\ cancel' = cancel /\ pending' = pending
      BY DEF DInv, Kinds
    <3>2. (cancel' <=> cancel) /\ (pending' <=> pending)
      BY <3>1
    <3> QED
      BY <1>2, <3>1, <3>2
  <2>3. Warmups \in Nat /\ Repeats \in Nat \ {0}
    BY PlanAssumption
  <2>4. Kinds'
    <3>1. run' \in 1 .. Warmups + Repeats
      BY <2>1, <2>3
    <3> QED
      BY <2>1, <2>2, <3>1 DEF DInv, Kinds, FirstPhase
  <2>5. Attempting'
    BY <2>1, <2>3 DEF Attempting, FirstPhase, StopAfter, RangeOf, LastTimeout
  <2> QED
    BY <2>1, <2>2, <2>4, <2>5 DEF Hears
<1> QED
  BY <1>1, <1>2

LEMMA AfterTargetTells ==
    ASSUME CInv, DInv, CInv', pc = "sampling", ~pending, UNCHANGED <<cancel, pending>>,
           IF config.probe THEN AfterProbed ELSE AfterListed
    PROVE  Kinds' /\ Attempting' /\ Hears'
<1>1. Kinds /\ Attempting /\ Hears /\ lengths \in Seq(Lengths)
  BY DEF DInv, CInv
<1>2. CASE config.probe
  <2>1. /\ Len(lengths') = Len(lengths) + 1 /\ UNCHANGED <<config, at, streak>>
    BY <1>1, <1>2 DEF AfterProbed, plan
  <2>2. streak' \in 0 .. Len(lengths') /\ streak' <= at'
    BY <1>1, <2>1 DEF Kinds
  <2>3. NextTarget \/ \E status, ls : End(status, ls)
    BY <1>2 DEF AfterProbed
  <2> QED
    BY <2>1, <2>2, <2>3, EndTells, NextTargetTells
<1>3. CASE ~config.probe
  <2>1. /\ Len(lengths') = Len(lengths) + 1 /\ UNCHANGED config /\ streak' = Streak(current)
        /\ Len(lengths) = at - 1 /\ at \in Nat
    BY <1>1, <1>3, PlanAssumption DEF AfterListed, CInv, Active
  <2>2. streak' \in 0 .. Len(lengths') /\ streak' <= at
    BY <1>1, <2>1 DEF Kinds, Streak
  <2>3. \/ End("completed", lengths') /\ at' = at
        \/ /\ pc' = "between" /\ ~cancel
           /\ UNCHANGED <<phase, run, at, current, why, attempts, result>>
        \/ at' = at + 1 /\ NextTarget
    BY <1>3 DEF AfterListed
  <2>4. CASE /\ pc' = "between" /\ ~cancel
             /\ UNCHANGED <<phase, run, at, current, why, attempts, result>>
    <3>1. ~cancel' /\ ~pending' /\ cancel' \in BOOLEAN /\ pending' \in BOOLEAN
      <4>1. cancel \in BOOLEAN /\ pending \in BOOLEAN /\ cancel' = cancel /\ pending' = pending
        BY <1>1 DEF Kinds
      <4>2. (cancel' <=> cancel) /\ (pending' <=> pending)
        BY <4>1
      <4> QED
        BY <2>4, <4>1, <4>2
    <3>2. Kinds'
      BY <1>1, <2>2, <2>4, <3>1 DEF Kinds
    <3>3. Attempting'
      BY <1>1, <2>1, <2>4 DEF Attempting, LastTimeout
    <3> QED
      BY <2>4, <3>1, <3>2, <3>3 DEF Hears
  <2>5. CASE End("completed", lengths') /\ at' = at
    BY <2>2, <2>5, EndTells
  <2>6. CASE at' = at + 1 /\ NextTarget
    <3>1. streak' <= at'
      BY <2>1, <2>2, <2>6
    <3> QED
      BY <2>1, <2>2, <2>6, <3>1, NextTargetTells
  <2> QED
    BY <2>3, <2>4, <2>5, <2>6
<1> QED
  BY <1>2, <1>3

LEMMA TaskSteps ==
    ASSUME CInv, DInv, CInv', [Next]_vars
    PROVE  Kinds' /\ Attempting' /\ Hears'
<1> USE DEF Keep
<1>1. Kinds /\ Attempting /\ Hears /\ "timeout" \in Outcomes
  BY DEF DInv, Outcomes
<1>2. CASE Built
  BY <1>2, BuiltTells
<1>3. CASE BuildFails
  BY <1>3, PoolEndTells, CommitsTell DEF BuildFails, PoolCrashes
<1>4. ASSUME NEW o \in Outcomes, Answered(o)
      PROVE  Kinds' /\ Attempting' /\ Hears'
  BY <1>4, MeasuredTells, WarmedUpTells DEF Answered, Attempted
<1>5. CASE TimesOut
  BY <1>1, <1>5, MeasuredTells, WarmedUpTells, CommitsTell, PoolEndTells
     DEF TimesOut, Attempted, PoolCrashes
<1>6. CASE Sampled
  BY <1>6, AfterTargetTells, CommitsTell DEF Sampled, AfterTarget
<1>7. CASE DelayEnds
  <2>1. /\ pc = "between" /\ ~pending /\ at' = at + 1 /\ NextTarget
        /\ UNCHANGED <<config, lengths, streak, cancel, pending>>
    BY <1>7 DEF DelayEnds
  <2>2. streak' \in 0 .. Len(lengths') /\ streak' <= at'
    BY <1>1, <2>1, PlanAssumption DEF Kinds, CInv
  <2> QED
    BY <2>1, <2>2, NextTargetTells
<1>8. CASE Cancel
  <2>1. /\ cancel' = TRUE /\ pending' = TRUE /\ pc' = pc
        /\ UNCHANGED <<config, at, streak, phase, run, why, current, lengths, attempts>>
    BY <1>8 DEF Cancel, plan, book
  <2>2. cancel' \in BOOLEAN /\ pending' \in BOOLEAN /\ cancel' /\ pending'
    BY <2>1, Zenon
  <2>3. Kinds'
    BY <1>1, <2>1, <2>2 DEF Kinds
  <2>4. Attempting'
    BY <1>1, <2>1, <2>2 DEF Attempting, StopAfter, LastTimeout
  <2> QED
    BY <2>2, <2>3, <2>4 DEF Hears
<1>9. CASE CancelledWaiting
  <2>1. pending => cancel
    BY <1>1 DEF Hears
  <2> QED
    BY <1>9, <2>1, CommitsTell, PoolEndTells DEF CancelledWaiting, Deliver
<1>10. CASE CancelledLate
  BY <1>1, <1>10, MeasuredTells, WarmedUpTells DEF CancelledLate, Deliver
<1>11. CASE CancelledSampling
  BY <1>11, CommitsTell DEF CancelledSampling, Deliver
<1>12. CASE Done \/ UNCHANGED vars
  <2>1. UNCHANGED <<config, at, streak, pc, phase, run, why, current, lengths, attempts,
                    cancel, pending>>
    BY <1>12 DEF Done, vars
  <2>2. Kinds'
    BY <1>1, <2>1 DEF Kinds
  <2>3. Attempting'
    BY <1>1, <2>1 DEF Attempting, StopAfter, LastTimeout
  <2>4. Hears'
    BY <1>1, <2>1, Zenon DEF Hears
  <2> QED
    BY <2>2, <2>3, <2>4
<1> QED
  BY <1>2, <1>3, <1>4, <1>5, <1>6, <1>7, <1>8, <1>9, <1>10, <1>11, <1>12 DEF Next

-----------------------------------------------------------------------------
(* What the lengths say *)

(* Nothing the lengths are judged by has changed. *)
LEMMA LengthsStay ==
    ASSUME DInv, UNCHANGED <<config, lengths, success, rejection>>
    PROVE  /\ Tried'
           /\ \A i \in DOMAIN lengths' : Passed(lengths, i) => Passed(lengths, i)'
BY DEF DInv, Tried, LastTimeout, Passed, Stop, Rejects, Mixed, CutShort, PartlyRejected, All

(* Another length is one of the list's, or of the probe's, and its evidence   *)
(* is that of its own attempts.                                               *)
LEMMA TriedAppends ==
    ASSUME CInv, DInv, pc \notin {"done", "between"}, config' = config,
           NEW rows \in Seq(Outcomes), NEW early \in BOOLEAN,
           lengths' = Append(lengths, NewLength(rows, early)), LastTimeout(rows),
           config.probe =>
              /\ success' \in {success, Target} /\ rejection' \in {rejection, Target}
              /\ success' = Target => All(rows, "done")
              /\ rejection' = Target => All(rows, "rejected")
    PROVE  Tried'
<1> DEFINE x == NewLength(rows, early)
<1>1. x \in Lengths /\ x.target = Target /\ x.rows = rows
  BY TargetIsNew DEF NewLength, Lengths
<1>2. /\ lengths \in Seq(Lengths) /\ Tried
      /\ \A i \in DOMAIN lengths : lengths[i].target # Target
  BY TargetIsNew DEF CInv, DInv
<1>3. /\ DOMAIN lengths' = 1 .. Len(lengths) + 1 /\ DOMAIN lengths = 1 .. Len(lengths)
      /\ \A i \in 1 .. Len(lengths) : lengths'[i] = lengths[i]
      /\ lengths'[Len(lengths) + 1] = x /\ Len(lengths) \in Nat
  BY <1>1, <1>2
<1> HIDE DEF x
<1>4. \A i \in DOMAIN lengths' : LastTimeout(lengths'[i].rows)
  BY <1>1, <1>2, <1>3 DEF Tried
<1>5. CASE ~config.probe
  <2>1. Len(lengths) + 1 = at /\ at <= Len(Targets) /\ Target = Targets[at]
    BY <1>5, PlanAssumption DEF CInv, Active, Target
  <2>2. \A i \in DOMAIN lengths' : i <= Len(Targets) /\ lengths'[i].target = Targets[i]
    BY <1>1, <1>2, <1>3, <1>5, <2>1 DEF Tried
  <2> QED
    BY <1>4, <1>5, <2>2 DEF Tried, LastTimeout
<1>6. CASE config.probe
  <2>1. \A i, j \in DOMAIN lengths' : lengths'[i].target = lengths'[j].target => i = j
    BY <1>1, <1>2, <1>3, <1>6 DEF Tried
  <2>2. ASSUME NEW i \in DOMAIN lengths'
        PROVE  /\ lengths'[i].target = success' => All(lengths'[i].rows, "done")
               /\ lengths'[i].target = rejection' => All(lengths'[i].rows, "rejected")
    <3>1. CASE i = Len(lengths) + 1
      BY <1>1, <1>3, <1>6, <3>1
    <3>2. CASE i \in DOMAIN lengths
      <4>1. lengths'[i] = lengths[i] /\ lengths[i].target # Target
        BY <1>2, <1>3, <3>2
      <4> QED
        BY <1>2, <1>6, <3>2, <4>1 DEF Tried
    <3> QED
      BY <1>3, <3>1, <3>2
  <2> QED
    BY <1>4, <1>6, <2>1, <2>2 DEF Tried, LastTimeout, All
<1> QED
  BY <1>5, <1>6

LEMMA PassedAppends ==
    ASSUME CInv, config' = config, NEW x \in Lengths, lengths' = Append(lengths, x),
           \A i \in DOMAIN lengths : Passed(lengths, i)
    PROVE  \A i \in 1 .. Len(lengths') - 1 : Passed(lengths, i)'
<1>1. /\ lengths \in Seq(Lengths) /\ Len(lengths') - 1 = Len(lengths)
      /\ Len(lengths) \in Nat /\ DOMAIN lengths = 1 .. Len(lengths)
      /\ \A i \in 1 .. Len(lengths) : lengths'[i] = lengths[i]
  BY DEF CInv
<1>2. ASSUME NEW i \in 1 .. Len(lengths)
      PROVE  Passed(lengths', i)
  <2>1. lengths'[i] = lengths[i] /\ (i > 1 => lengths'[i - 1] = lengths[i - 1])
    BY <1>1, <1>2
  <2>2. Passed(lengths, i)
    BY <1>1, <1>2
  <2> QED
    BY <2>1, <2>2 DEF Passed, Stop, Rejects, Mixed, CutShort
<1> QED
  BY <1>1, <1>2 DEF Passed, Stop, Rejects, Mixed, CutShort, PartlyRejected, All

(* The run is ended by a cancellation, a failed request or an exception.      *)
LEMMA CommitsTold ==
    ASSUME CInv, DInv, pc # "done", Commits \/ Crashed, Keep, cancel' = cancel
    PROVE  Tried' /\ Told'
<1>1. /\ pc' = "done" /\ UNCHANGED <<config, success, rejection, at>>
      /\ lengths' = lengths \/ lengths' = Committed
      /\ result'.status \in {"cancelled", "fatal", "crashed"}
      /\ result'.status = "cancelled" => cancel
  BY DEF Commits, Cancelled, Fatal, Crashed, End, Keep, plan, planner
<1>2. result'.status = "cancelled" => cancel'
  BY <1>1
<1>3. \A i \in DOMAIN lengths : Passed(lengths, i)
  BY DEF DInv, GoesOn
<1>4. CASE lengths' = lengths
  <2>1. /\ Tried'
        /\ \A i \in DOMAIN lengths' : Passed(lengths, i)'
    BY <1>1, <1>3, <1>4, LengthsStay
  <2>2. \A i \in 1 .. Len(lengths') - 1 : Passed(lengths, i)'
    BY <1>4, <2>1 DEF CInv
  <2>3. \A i \in DOMAIN lengths' : config'.probe \/ ~lengths'[i].early
    BY <1>1, <1>3, <1>4 DEF Passed
  <2> QED
    BY <1>1, <1>2, <2>1, <2>2, <2>3 DEF Told
<1>5. CASE lengths' # lengths
  <2>1. /\ lengths' = Append(lengths, NewLength(current, FALSE)) /\ current # <<>>
        /\ ~ \E i \in DOMAIN lengths : lengths[i].target = Target
    BY <1>1, <1>5 DEF Committed, NewLength
  <2>2. pc # "between"
    <3> SUFFICES ASSUME pc = "between" PROVE FALSE
      OBVIOUS
    <3>1. /\ ~config.probe /\ Len(lengths) = at /\ lengths \in Seq(Lengths)
          /\ \A i \in DOMAIN lengths : lengths[i].target = Targets[i]
          /\ Target = Targets[at] /\ at \in DOMAIN Targets
      BY DEF CInv, Active, Target
    <3>2. at \in DOMAIN lengths
      BY <3>1, PlanAssumption
    <3> QED
      BY <2>1, <3>1, <3>2
  <2>3. config.probe => success # Target /\ rejection # Target
    BY DEF Target, CInv, PInv, ProbeSound, PlannerTypeOK, Active
  <2>4. current \in Seq(Outcomes) /\ LastTimeout(current)
    BY DEF CInv, DInv, Attempting
  <2>5. Tried'
    BY <1>1, <2>1, <2>2, <2>3, <2>4, TriedAppends
  <2>6. NewLength(current, FALSE) \in Lengths
    BY <2>4, TargetIsNew DEF NewLength, Lengths
  <2>7. \A i \in 1 .. Len(lengths') - 1 : Passed(lengths, i)'
    BY <1>1, <1>3, <2>1, <2>6, PassedAppends
  <2>8. \A i \in DOMAIN lengths' : config'.probe \/ ~lengths'[i].early
    <3> DEFINE x == NewLength(current, FALSE)
    <3>1. x \in Lengths /\ lengths' = Append(lengths, x) /\ lengths \in Seq(Lengths)
      BY <2>1, <2>6 DEF CInv
    <3>2. ~x.early
      BY DEF NewLength
    <3> HIDE DEF x
    <3>3. /\ DOMAIN lengths' = DOMAIN lengths \cup {Len(lengths) + 1}
          /\ \A i \in DOMAIN lengths : lengths'[i] = lengths[i]
          /\ lengths'[Len(lengths) + 1] = x
      BY <3>1
    <3> QED
      BY <1>1, <1>3, <3>2, <3>3 DEF Passed
  <2> QED
    BY <1>1, <1>2, <2>5, <2>7, <2>8 DEF Told
<1> QED
  BY <1>4, <1>5

(* What the pool leaves when it ended without an exception. *)
LEMMA PoolLeaves ==
    ASSUME CInv, DInv, pc = "sampling", why = "ok", ~pending, "error" \notin RangeOf(current)
    PROVE  /\ cancel => current = <<>>
           /\ Len(current) <= Repeats /\ Repeats \in Nat \ {0}
           /\ Len(current) < Repeats =>
                 cancel \/ ("timeout" \in RangeOf(current) /\ ~config.keepGoing)
           /\ current \in Seq(Outcomes) /\ LastTimeout(current)
BY PlanAssumption DEF CInv, DInv, Hears, Attempting, StopAfter

(* One length more. *)
LEMMA OneMore ==
    ASSUME NEW ls \in Seq(Lengths), NEW x \in Lengths, NEW more, more = Append(ls, x)
    PROVE  /\ more \in Seq(Lengths) /\ Len(more) = Len(ls) + 1 /\ Len(ls) \in Nat
           /\ DOMAIN more = 1 .. Len(ls) + 1 /\ DOMAIN ls = 1 .. Len(ls)
           /\ \A i \in 1 .. Len(ls) : more[i] = ls[i]
           /\ more[Len(ls) + 1] = x
OBVIOUS

(* The code stops early just if the lengths say so. *)
LEMMA StopsEarlyTells ==
    ASSUME CInv, DInv, pc = "sampling", ~config.probe, NEW x \in Lengths, x.rows = current,
           lengths' = Append(lengths, x)
    PROVE  LET n == Len(lengths') IN
           /\ StopsEarly(current) <=> Rejects(lengths', n) \/ Mixed(lengths', n)
           /\ Streak(current) > 0 <=> PartlyRejected(current)
<1> DEFINE n == Len(lengths')
<1>1. /\ n = Len(lengths) + 1 /\ Len(lengths) \in Nat /\ lengths'[n] = x
      /\ \A i \in 1 .. Len(lengths) : lengths'[i] = lengths[i]
  BY OneMore DEF CInv
<1>2. /\ streak \in Nat
      /\ streak > 0 <=> lengths # <<>> /\ PartlyRejected(lengths[Len(lengths)].rows)
  BY DEF DInv, Kinds, GoesOn, StreakKnown
<1>3. lengths # <<>> <=> n > 1
  BY <1>1 DEF CInv
<1> HIDE DEF n
<1>4. n > 1 => lengths'[n - 1] = lengths[Len(lengths)]
  BY <1>1
<1>5. Streak(current) >= 2 <=> n > 1 /\ PartlyRejected(current)
                                     /\ PartlyRejected(lengths'[n - 1].rows)
  <2>1. streak > 0 <=> n > 1 /\ PartlyRejected(lengths'[n - 1].rows)
    BY <1>2, <1>3, <1>4
  <2>2. Streak(current) >= 2 <=> PartlyRejected(current) /\ streak > 0
    BY <1>2 DEF Streak
  <2> QED
    BY <2>1, <2>2
<1>6. Streak(current) > 0 <=> PartlyRejected(current)
  BY <1>2 DEF Streak
<1>7. StopsEarly(current) <=> Rejects(lengths', n) \/ Mixed(lengths', n)
  BY <1>1, <1>5 DEF StopsEarly, AllRejectedRows, Rejects, Mixed
<1> QED
  BY <1>6, <1>7 DEF n

LEMMA ListedTold ==
    ASSUME CInv, DInv, pc = "sampling", why = "ok", ~pending, cancel' = cancel,
           "error" \notin RangeOf(current), ~config.probe, AfterListed
    PROVE  Tried' /\ (pc' # "done" => GoesOn') /\ (pc' = "done" => Told')
<1> DEFINE x == NewLength(current, StopsEarly(current))
<1>0. PICK n : n = Len(lengths')
  OBVIOUS
<1>1. /\ lengths' = Append(lengths, x) /\ streak' = Streak(current)
      /\ UNCHANGED <<planner, config>>
  BY DEF AfterListed, NewLength
<1>2. /\ cancel => current = <<>>
      /\ Len(current) <= Repeats /\ Repeats \in Nat \ {0} /\ Len(current) \in Nat
      /\ Len(current) < Repeats =>
            cancel \/ ("timeout" \in RangeOf(current) /\ ~config.keepGoing)
      /\ current \in Seq(Outcomes) /\ LastTimeout(current)
  BY PoolLeaves
<1>3. StopsEarly(current) \in BOOLEAN
  BY DEF StopsEarly, AllRejectedRows, All, CInv, Configs
<1>4. x \in Lengths /\ x.rows = current /\ (x.early <=> StopsEarly(current))
  BY <1>2, <1>3, TargetIsNew DEF NewLength, Lengths
<1>5. Tried'
  BY <1>1, <1>2, <1>3, TriedAppends
<1> HIDE DEF x
<1>6. /\ n = Len(lengths) + 1 /\ Len(lengths) \in Nat /\ lengths'[n] = x
      /\ DOMAIN lengths' = 1 .. n /\ DOMAIN lengths = 1 .. Len(lengths)
      /\ \A i \in 1 .. Len(lengths) : lengths'[i] = lengths[i]
  BY <1>0, <1>1, <1>4, OneMore DEF CInv
<1>7. /\ StopsEarly(current) <=> Rejects(lengths', n) \/ Mixed(lengths', n)
      /\ streak' > 0 <=> PartlyRejected(current)
  BY <1>0, <1>1, <1>4, StopsEarlyTells
<1>8. \A i \in 1 .. n - 1 : Passed(lengths, i)'
  BY <1>0, <1>1, <1>4, PassedAppends DEF DInv, GoesOn
<1>9. n = at
  BY <1>6, PlanAssumption DEF CInv, Active
<1>10. lengths' # <<>>
  BY <1>1, <1>4, <1>6 DEF CInv
<1> USE DEF Rejects, Mixed, CutShort, Stop, PartlyRejected, All
<1>11. \A i \in DOMAIN lengths' :
          lengths'[i].early => Rejects(lengths, i)' \/ Mixed(lengths, i)'
  <2> SUFFICES ASSUME NEW i \in DOMAIN lengths', lengths'[i].early
               PROVE  Rejects(lengths, i)' \/ Mixed(lengths, i)'
    OBVIOUS
  <2>1. CASE i = n
    BY <1>1, <1>4, <1>6, <1>7, <2>1
  <2>2. CASE i \in 1 .. n - 1
    BY <1>1, <1>8, <2>2 DEF Passed
  <2> QED
    BY <1>6, <2>1, <2>2
<1>12. CASE End("completed", lengths')
               /\ \/ StopsEarly(current)
                  \/ Len(current) < Repeats /\ ~config.keepGoing
                  \/ at = Len(Targets)
  <2>1. pc' = "done" /\ result'.status = "completed"
    BY <1>12 DEF End
  <2>2. ASSUME n < Len(Targets), ~cancel
        PROVE  Stop(lengths, n)'
    <3>1. CASE StopsEarly(current)
      BY <1>1, <1>7, <3>1
    <3>2. CASE Len(current) < Repeats /\ ~config.keepGoing
      BY <1>1, <1>2, <1>4, <1>6, <2>2, <3>2
    <3>3. at # Len(Targets)
      BY <1>9, <2>2
    <3> QED
      BY <1>12, <3>1, <3>2, <3>3
  <2> HIDE DEF Stop, Rejects, Mixed, CutShort, PartlyRejected, All
  <2>3. cancel' = cancel
    OBVIOUS
  <2> QED
    BY <1>0, <1>1, <1>2, <1>4, <1>5, <1>6, <1>8, <1>10, <1>11, <2>1, <2>2, <2>3 DEF Told
<1>13. ASSUME ~StopsEarly(current), ~(Len(current) < Repeats /\ ~config.keepGoing), ~cancel
       PROVE  Passed(lengths, n)' /\ StreakKnown'
  <2>1. Len(current) = Repeats
    BY <1>2, <1>13
  <2>2. Passed(lengths, n)'
    BY <1>1, <1>4, <1>6, <1>7, <1>13, <2>1 DEF Passed
  <2>3. StreakKnown'
    BY <1>0, <1>1, <1>4, <1>6, <1>7, <1>10 DEF StreakKnown
  <2> QED
    BY <2>2, <2>3
<1>14. CASE /\ pc' = "between" /\ ~cancel /\ result' = result
            /\ ~StopsEarly(current) /\ ~(Len(current) < Repeats /\ ~config.keepGoing)
  <2> HIDE DEF Stop, Rejects, Mixed, CutShort, PartlyRejected, All
  <2>1. \A i \in DOMAIN lengths' : Passed(lengths, i)'
    BY <1>6, <1>8, <1>13, <1>14
  <2> QED
    BY <1>5, <1>13, <1>14, <2>1 DEF GoesOn, DInv
<1>15. CASE /\ NextTarget /\ ~StopsEarly(current)
            /\ ~(Len(current) < Repeats /\ ~config.keepGoing)
  <2> HIDE DEF Stop, Rejects, Mixed, CutShort, PartlyRejected, All
  <2>1. CASE cancel
    <3>1. pc' = "done" /\ result'.status = "cancelled" /\ cancel'
      BY <1>15, <2>1 DEF NextTarget, End
    <3> QED
      BY <1>0, <1>1, <1>5, <1>8, <1>11, <3>1 DEF Told
  <2>2. CASE ~cancel
    <3>1. pc' # "done" /\ result' = result
      BY <1>15, <2>2 DEF NextTarget
    <3>2. \A i \in DOMAIN lengths' : Passed(lengths, i)'
      BY <1>6, <1>8, <1>13, <1>15, <2>2
    <3> QED
      BY <1>5, <1>13, <1>15, <2>2, <3>1, <3>2 DEF GoesOn, DInv
  <2> QED
    BY <2>1, <2>2
<1> QED
  BY <1>12, <1>14, <1>15 DEF AfterListed

(* Evidence that moves a bound comes from a full set of attempts. *)
LEMMA EvidenceOfAll ==
    ASSUME CInv, DInv, pc = "sampling", why = "ok", ~pending, "error" \notin RangeOf(current),
           current # <<>>
    PROVE  /\ AllAccepted(Observed(current)) => All(current, "done")
           /\ AllRejected(Observed(current)) => All(current, "rejected")
<1>1. /\ ~cancel /\ Len(current) <= Repeats /\ Repeats \in Nat \ {0}
      /\ Len(current) < Repeats => "timeout" \in RangeOf(current)
      /\ current \in Seq(Outcomes)
  BY PoolLeaves
<1>2. RangeOf(current) \subseteq {"done", "rejected", "timeout"} /\ RangeOf(current) # {}
  BY <1>1 DEF RangeOf, Outcomes
<1>3. /\ Evidence["done"] = "accepted" /\ Evidence["rejected"] = "rejected"
      /\ Evidence["timeout"] = "unknown"
  BY DEF Evidence
<1>4. ASSUME NEW e \in {"accepted", "rejected"}, Observed(current) = {e}
      PROVE  All(current, IF e = "accepted" THEN "done" ELSE "rejected")
  <2>1. \A o \in RangeOf(current) : Evidence[o] = e
    BY <1>4 DEF Observed
  <2>2. "timeout" \notin RangeOf(current)
    BY <1>3, <1>4, <2>1
  <2>3. RangeOf(current) = {IF e = "accepted" THEN "done" ELSE "rejected"}
    BY <1>2, <1>3, <1>4, <2>1
  <2>4. Len(current) = Repeats
    BY <1>1, <2>2
  <2> QED
    BY <2>3, <2>4 DEF All
<1> QED
  BY <1>4 DEF AllAccepted, AllRejected

LEMMA ProbedTold ==
    ASSUME CInv, DInv, pc = "sampling", why = "ok", ~pending, cancel' = cancel,
           "error" \notin RangeOf(current), config.probe, AfterProbed
    PROVE  Tried' /\ (pc' # "done" => GoesOn') /\ (pc' = "done" => Told')
<1> DEFINE x == NewLength(current, FALSE)
<1>0. PICK n : n = Len(lengths')
  OBVIOUS
<1>1. lengths' = Append(lengths, x) /\ UNCHANGED config
  BY DEF AfterProbed, NewLength, plan
<1>2. /\ cancel => current = <<>>
      /\ Len(current) <= Repeats /\ Repeats \in Nat \ {0} /\ Len(current) \in Nat
      /\ Len(current) < Repeats =>
            cancel \/ ("timeout" \in RangeOf(current) /\ ~config.keepGoing)
      /\ current \in Seq(Outcomes) /\ LastTimeout(current)
  BY PoolLeaves
<1>3. x \in Lengths /\ x.rows = current
  BY <1>2, TargetIsNew DEF NewLength, Lengths
<1>4. /\ Target = candidate /\ success # Target /\ rejection # Target
  BY DEF Target, CInv, PInv, ProbeSound, PlannerTypeOK, Active
<1>5. ASSUME Record(Observed(current)), current # <<>>
      PROVE  /\ success' \in {success, Target} /\ rejection' \in {rejection, Target}
             /\ success' = Target => All(current, "done")
             /\ rejection' = Target => All(current, "rejected")
             /\ candidate' # 0 => Len(current) = Repeats
  <2>1. /\ AllAccepted(Observed(current)) => All(current, "done")
        /\ AllRejected(Observed(current)) => All(current, "rejected")
    BY <1>5, EvidenceOfAll
  <2>2. \/ AllAccepted(Observed(current)) /\ success' = Target /\ rejection' = rejection
        \/ AllRejected(Observed(current)) /\ rejection' = Target /\ success' = success
        \/ UNCHANGED <<success, rejection>> /\ candidate' = 0
    BY <1>4, <1>5 DEF Record, Accepted, Rejected, Inconclusive
  <2> QED
    BY <1>4, <2>1, <2>2 DEF All
<1>6. \/ current = <<>> /\ End("crashed", lengths') /\ UNCHANGED planner
      \/ /\ current # <<>> /\ Record(Observed(current))
         /\ IF candidate' = 0 THEN End("completed", lengths') ELSE NextTarget
  BY DEF AfterProbed
<1>7. Tried'
  <2>1. CASE current = <<>> /\ UNCHANGED planner
    <3>1. success' = success /\ rejection' = rejection
      BY <2>1 DEF planner
    <3> QED
      BY <1>1, <1>2, <1>4, <3>1, TriedAppends
  <2>2. CASE current # <<>> /\ Record(Observed(current))
    BY <1>1, <1>2, <1>5, <2>2, TriedAppends
  <2> QED
    BY <1>6, <2>1, <2>2
<1> HIDE DEF x
<1>8. /\ n = Len(lengths) + 1 /\ Len(lengths) \in Nat /\ lengths'[n] = x
      /\ DOMAIN lengths' = 1 .. n /\ lengths' # <<>>
  BY <1>0, <1>1, <1>3, OneMore DEF CInv
<1>9. \A i \in 1 .. n - 1 : Passed(lengths, i)'
  BY <1>0, <1>1, <1>3, PassedAppends DEF DInv, GoesOn
<1>10. CASE pc' = "done" /\ result'.status = "crashed"
  BY <1>0, <1>1, <1>7, <1>9, <1>10 DEF Told
<1>11. CASE current # <<>> /\ pc' = "done" /\ result'.status = "completed"
  BY <1>0, <1>1, <1>2, <1>3, <1>7, <1>8, <1>9, <1>11 DEF Told
<1>12. CASE current # <<>> /\ Record(Observed(current)) /\ candidate' # 0 /\ NextTarget
  <2>1. ~cancel /\ pc' # "done" /\ result' = result /\ Len(current) = Repeats
    BY <1>2, <1>5, <1>12 DEF NextTarget
  <2>2. Passed(lengths, n)'
    BY <1>1, <1>3, <1>8, <2>1 DEF Passed
  <2>3. \A i \in DOMAIN lengths' : Passed(lengths, i)'
    BY <1>8, <1>9, <2>2
  <2> QED
    BY <1>1, <1>7, <2>1, <2>3 DEF GoesOn, StreakKnown, DInv
<1> QED
  BY <1>6, <1>7, <1>10, <1>11, <1>12 DEF End

LEMMA DelayTold ==
    ASSUME CInv, DInv, DelayEnds
    PROVE  Tried' /\ (pc' # "done" => GoesOn') /\ (pc' = "done" => Told')
<1>1. /\ pc = "between" /\ NextTarget
      /\ UNCHANGED <<planner, config, lengths, streak, cancel>>
  BY DEF DelayEnds
<1>2. GoesOn /\ UNCHANGED <<config, lengths, streak, success, rejection>>
  BY <1>1 DEF DInv, planner
<1>3. Tried' /\ \A i \in DOMAIN lengths' : Passed(lengths, i)'
  BY <1>2, LengthsStay DEF GoesOn
<1>4. CASE cancel
  <2>1. pc' = "done" /\ result'.status = "cancelled" /\ cancel'
    BY <1>1, <1>4 DEF NextTarget, End
  <2>2. /\ \A i \in 1 .. Len(lengths') - 1 : Passed(lengths, i)'
        /\ \A i \in DOMAIN lengths' : config'.probe \/ ~lengths'[i].early
    BY <1>2, <1>3 DEF Passed, CInv
  <2> QED
    BY <1>3, <2>1, <2>2 DEF Told
<1>5. CASE ~cancel
  <2>1. pc' # "done" /\ result' = result
    BY <1>1, <1>5 DEF NextTarget
  <2> QED
    BY <1>2, <1>3, <2>1 DEF GoesOn, StreakKnown, PartlyRejected
<1> QED
  BY <1>4, <1>5

LEMMA ToldSteps ==
    ASSUME CInv, DInv, [Next]_vars
    PROVE  Tried' /\ (pc' # "done" => GoesOn') /\ (pc' = "done" => Told')
<1>1. Class /\ (cancel' = cancel \/ Cancel)
  BY StepClass DEF DInv
<1>2. CASE Within
  <2>1. UNCHANGED <<config, lengths, streak, success, rejection, result>> /\ pc' # "done"
        /\ GoesOn
    BY <1>2 DEF Within, plan, planner, DInv
  <2>2. Tried' /\ \A i \in DOMAIN lengths' : Passed(lengths, i)'
    BY <2>1, LengthsStay DEF GoesOn
  <2> QED
    BY <2>1, <2>2 DEF GoesOn, StreakKnown, PartlyRejected
<1>3. CASE UNCHANGED vars
  <2>1. UNCHANGED <<config, lengths, streak, success, rejection, result, cancel, pc>>
    BY <1>3 DEF vars, planner
  <2>2. Tried' /\ \A i \in DOMAIN lengths' : Passed(lengths, i) => Passed(lengths, i)'
    BY <2>1, LengthsStay
  <2>3. CASE pc # "done"
    BY <2>1, <2>2, <2>3 DEF DInv, GoesOn, StreakKnown, PartlyRejected
  <2>4. CASE pc = "done"
    <3>1. Told
      BY <2>4 DEF DInv
    <3>2. Told'
      BY <2>1, <3>1 DEF Told, Passed, Stop, Rejects, Mixed, CutShort, PartlyRejected, All
    <3> QED
      BY <2>1, <2>2, <2>4, <3>2
  <2> QED
    BY <2>3, <2>4
<1>4. CASE DelayEnds
  BY <1>4, DelayTold
<1>5. ASSUME ~Within, ~(UNCHANGED vars), ~DelayEnds
      PROVE  cancel' = cancel
  BY <1>1, <1>5 DEF Cancel, Within, book
<1>6. CASE ~Within /\ ~(UNCHANGED vars) /\ ~DelayEnds
  <2>1. cancel' = cancel
    BY <1>5, <1>6
  <2>2. \/ pc # "done" /\ (Commits \/ Crashed) /\ Keep
        \/ pc = "sampling" /\ why = "ok" /\ ~pending /\ "error" \notin RangeOf(current)
           /\ IF config.probe THEN AfterProbed ELSE AfterListed
    BY <1>1, <1>6 DEF Class
  <2>3. CASE pc # "done" /\ (Commits \/ Crashed) /\ Keep
    <3>1. pc' = "done"
      BY <2>3 DEF Commits, Cancelled, Fatal, Crashed, End
    <3> QED
      BY <2>1, <2>3, <3>1, CommitsTold
  <2> QED
    BY <2>1, <2>2, <2>3, ListedTold, ProbedTold
<1> QED
  BY <1>2, <1>3, <1>4, <1>6

LEMMA DInvSteps == CInv /\ DInv /\ [Next]_vars => DInv'
<1> SUFFICES ASSUME CInv, DInv, [Next]_vars
             PROVE  DInv'
  OBVIOUS
<1>1. CInv'
  BY RunSteps
<1> QED
  BY <1>1, TaskSteps, ToldSteps DEF DInv

LEMMA InvariantsHold == Spec => [](CInv /\ DInv)
<1>1. CInv /\ DInv /\ [Next]_vars => (CInv /\ DInv)'
  BY RunSteps, DInvSteps
<1> QED
  BY <1>1, RunStarts, DInvStarts, PTL DEF Spec

(* The result is empty, or has the lengths. *)
LEMMA ResultIs ==
    ASSUME CInv, DInv
    PROVE  \/ pc # "done" /\ result = NoResult /\ result.status = "none"
                          /\ result.lengths = <<>> /\ GoesOn
           \/ pc = "done" /\ result.lengths = lengths /\ Told
<1>1. CASE pc # "done"
  <2>1. GoesOn /\ result = NoResult
    BY <1>1 DEF DInv, GoesOn
  <2> QED
    BY <1>1, <2>1 DEF NoResult
<1>2. CASE pc = "done"
  BY <1>2 DEF CInv, DInv, Ended
<1> QED
  BY <1>1, <1>2

LEMMA TypesHold ==
    ASSUME CInv, DInv
    PROVE  TypeOK
<1>1. Kinds /\ lengths \in Seq(Lengths) /\ at \in 1 .. Len(Targets) /\ config \in Configs
      /\ current \in Seq(Outcomes)
      /\ pc \in {"building", "requesting", "sampling", "between", "done"}
  BY PlanAssumption DEF CInv, DInv
<1>2. streak \in 0 .. Len(Targets)
  BY <1>1, PlanAssumption DEF Kinds
<1>3. /\ result.status \in {"none", "completed", "cancelled", "fatal", "crashed"}
      /\ result.lengths \in Seq(Lengths)
  <2>1. CASE result.status = "none" /\ result.lengths = <<>>
    BY <2>1
  <2>2. CASE result.lengths = lengths /\ Told
    BY <1>1, <2>2 DEF Told
  <2> QED
    BY <2>1, <2>2, ResultIs
<1> QED
  BY <1>1, <1>2, <1>3, PlanAssumption DEF TypeOK, Kinds

LEMMA CompletedTells ==
    ASSUME CInv, DInv, result.status = "completed"
    PROVE  /\ cancel => Final = <<>>
           /\ \A i \in DOMAIN result.lengths :
                LET rows == result.lengths[i].rows IN
                /\ "error" \notin RangeOf(rows)
                /\ Len(rows) < Repeats =>
                      \/ "timeout" \in RangeOf(rows) /\ ~config.keepGoing
                         /\ i = Len(result.lengths)
                      \/ cancel
<1>1. result.lengths = lengths /\ Told /\ lengths # <<>>
  BY ResultIs DEF Told
<1>2. lengths \in Seq(Lengths) /\ Repeats \in Nat
  BY PlanAssumption DEF CInv
<1>3. cancel => Final = <<>>
  BY <1>1 DEF Told, Final
<1>4. ASSUME NEW i \in DOMAIN lengths
      PROVE  /\ "error" \notin RangeOf(lengths[i].rows)
             /\ Len(lengths[i].rows) < Repeats =>
                   \/ "timeout" \in RangeOf(lengths[i].rows) /\ ~config.keepGoing
                      /\ i = Len(lengths)
                   \/ cancel
  <2>1. CASE i = Len(lengths)
    BY <1>1, <2>1 DEF Told
  <2>2. CASE i # Len(lengths)
    <3>1. i \in 1 .. Len(lengths) - 1
      BY <1>2, <1>4, <2>2
    <3> QED
      BY <1>1, <1>2, <3>1 DEF Told, Passed
  <2> QED
    BY <2>1, <2>2
<1> QED
  BY <1>1, <1>3, <1>4

LEMMA ResultTells ==
    ASSUME CInv, DInv
    PROVE  ResultTellsTheTruth
<1>1. Tried
  BY DEF DInv
<1>2. ~config.probe => \A i \in DOMAIN result.lengths :
          i <= Len(Targets) /\ result.lengths[i].target = Targets[i]
  BY <1>1, ResultIs DEF Tried
<1>3. config.probe => \A i, j \in DOMAIN result.lengths :
          result.lengths[i].target = result.lengths[j].target => i = j
  BY <1>1, ResultIs DEF Tried
<1>4. result.status = "cancelled" => cancel
  BY ResultIs DEF Told
<1> QED
  BY <1>2, <1>3, <1>4, TypesHold, CompletedTells DEF ResultTellsTheTruth

LEMMA EvidenceTells ==
    ASSUME CInv, DInv
    PROVE  EvidenceDecides
<1>1. Tried /\ lengths \in Seq(Lengths)
  BY DEF CInv, DInv
<1>2. config.probe => \A i \in DOMAIN lengths :
          /\ lengths[i].target = success => All(lengths[i].rows, "done")
          /\ lengths[i].target = rejection => All(lengths[i].rows, "rejected")
  BY <1>1 DEF Tried
<1>3. ~config.keepGoing => \A i \in DOMAIN result.lengths :
          \A k \in 1 .. Len(result.lengths[i].rows) - 1 : result.lengths[i].rows[k] # "timeout"
  BY <1>1, ResultIs DEF Tried, LastTimeout
<1>4. ~config.probe =>
          /\ \A i \in 1 .. Len(result.lengths) - 1 : ~Stop(result.lengths, i)
          /\ \A i \in DOMAIN result.lengths : result.lengths[i].early =>
                 Rejects(result.lengths, i) \/ Mixed(result.lengths, i)
          /\ result.status = "completed" /\ Len(result.lengths) < Len(Targets) =>
                 Stop(result.lengths, Len(result.lengths)) \/ cancel
  <2>1. CASE result.lengths = <<>> /\ result.status = "none"
    BY <2>1
  <2>2. CASE result.lengths = lengths /\ Told
    BY <2>2 DEF Told, Passed
  <2> QED
    BY <2>1, <2>2, ResultIs
<1> QED
  BY <1>2, <1>3, <1>4
     DEF EvidenceDecides, Stop, Rejects, Mixed, CutShort, PartlyRejected

(* For every list, plan and probe: the lengths of a result are those that were *)
(* tried, once and in order; a completed run has no request that failed, and   *)
(* every target in full but one that a timeout stopped; and a cancelled run    *)
(* does not say it completed, unless a last warm-up hid the cancellation.      *)
THEOREM ResultsTellTheTruth ==
    Spec => []ResultTellsTheTruth
BY InvariantsHold, ResultTells, PTL

(* For every list, plan and probe: evidence decides where a run stops. Both    *)
(* bounds of a probe are agreed on by all attempts of their length, and a list *)
(* is tried to its end but for a length that all, or twice some, requests were *)
(* refused, or that a timeout cut short.                                       *)
THEOREM EvidenceDecidesRuns ==
    Spec => []EvidenceDecides
BY InvariantsHold, EvidenceTells, PTL

-----------------------------------------------------------------------------
(* Every run runs out of steps *)

(* Of the lengths between the bounds of a probe, a decision leaves fewer.     *)
LEMMA ProbeNarrows ==
    ASSUME PInv, config.probe, config' = config, NEW outcomes, Record(outcomes), candidate' # 0
    PROVE  TargetsLeft' \in Int /\ TargetsLeft' < TargetsLeft
<1>1. /\ success \in Nat /\ rejection \in Nat /\ candidate \in Nat /\ candidate # 0
      /\ success < candidate /\ candidate <= Maximum
      /\ rejection # 0 => candidate < rejection
      /\ Maximum \in Nat
  BY PlannerAssumption DEF PInv, ProbeSound, PlannerTypeOK, Record
<1>2. CASE success' = candidate /\ rejection' = rejection
  BY <1>1, <1>2 DEF TargetsLeft
<1>3. CASE success' = success /\ rejection' = candidate
  BY <1>1, <1>3 DEF TargetsLeft
<1> QED
  BY <1>2, <1>3 DEF Record, Accepted, Rejected, Inconclusive

LEMMA StepsAre ==
    ASSUME CInv, DInv, pc # "done"
    PROVE  /\ Warmups \in Nat /\ Repeats \in Nat \ {0} /\ StepsPerTarget \in Nat
           /\ TargetsLeft \in Nat
           /\ CancelSteps \in 0 .. 3
           /\ pc \in {"building", "requesting"} =>
                 /\ run \in Nat \ {0}
                 /\ phase = "shared" => pc = "building" /\ run = 1
                 /\ phase # "shared" => AttemptsLeft \in 0 .. Warmups + Repeats - 1
           /\ StepsInTarget \in 1 .. StepsPerTarget
<1>1. Warmups \in Nat /\ Repeats \in Nat \ {0} /\ StepsPerTarget \in Nat
  BY PlanAssumption DEF StepsPerTarget
<1>2. TargetsLeft \in Nat
  <2>1. CASE config.probe
    BY <2>1, PlannerAssumption DEF TargetsLeft, CInv, PInv, ProbeSound, PlannerTypeOK
  <2>2. CASE ~config.probe
    <3>1. at \in 1 .. Len(Targets) /\ Len(Targets) \in Nat
      BY PlanAssumption DEF CInv
    <3> QED
      BY <2>2, <3>1 DEF TargetsLeft
  <2> QED
    BY <2>1, <2>2
<1>3. CancelSteps \in 0 .. 3
  BY DEF CancelSteps
<1>4. ASSUME pc \in {"building", "requesting"}
      PROVE  /\ run \in Nat \ {0}
             /\ phase = "shared" => pc = "building" /\ run = 1
             /\ phase # "shared" => AttemptsLeft \in 0 .. Warmups + Repeats - 1
  <2>1. run \in Nat \ {0} /\ phase \in {"shared", "warmup", "measured"}
    BY <1>1 DEF DInv, Kinds
  <2>2. phase = "shared" => pc = "building" /\ run = 1
    BY <1>4 DEF CInv, Active
  <2>3. CASE phase = "measured"
    <3>1. run = Len(current) + 1 /\ Len(current) < Repeats /\ Len(current) \in Nat
      BY <1>4, <2>3 DEF CInv, Active, DInv, Attempting
    <3> QED
      BY <1>1, <2>2, <2>3, <3>1 DEF AttemptsLeft
  <2>4. CASE phase = "warmup"
    <3>1. run <= Warmups
      BY <1>4, <2>4 DEF DInv, Attempting
    <3> QED
      BY <1>1, <2>1, <2>4, <3>1 DEF AttemptsLeft
  <2> QED
    BY <2>1, <2>2, <2>3, <2>4
<1>5. StepsInTarget \in 1 .. StepsPerTarget
  <2>1. CASE pc \in {"between", "sampling"}
    BY <1>1, <2>1 DEF StepsInTarget, StepsPerTarget
  <2>2. CASE pc = "requesting"
    <3>1. AttemptsLeft \in 0 .. Warmups + Repeats - 1 /\ StepsInTarget = 2 * AttemptsLeft + 3
      BY <1>4, <2>2 DEF StepsInTarget
    <3> QED
      BY <1>1, <3>1 DEF StepsPerTarget
  <2>3. CASE pc = "building" /\ phase = "shared"
    BY <1>1, <2>3 DEF StepsInTarget, StepsPerTarget
  <2>4. CASE pc = "building" /\ phase # "shared"
    <3>1. AttemptsLeft \in 0 .. Warmups + Repeats - 1 /\ StepsInTarget = 2 * AttemptsLeft + 4
      BY <1>4, <2>4 DEF StepsInTarget
    <3> QED
      BY <1>1, <3>1 DEF StepsPerTarget
  <2> QED
    BY <2>1, <2>2, <2>3, <2>4 DEF CInv
<1> QED
  BY <1>1, <1>2, <1>3, <1>4, <1>5

LEMMA StepsAreCounted ==
    ASSUME CInv, DInv
    PROVE  StepsLeft \in Nat /\ (pc # "done" => StepsLeft > 0)
<1>1. CASE pc = "done"
  BY <1>1 DEF StepsLeft
<1>2. CASE pc # "done"
  <2>1. TargetsLeft * StepsPerTarget \in Nat
    BY <1>2, StepsAre
  <2> HIDE DEF TargetsLeft, StepsPerTarget
  <2>2. /\ StepsLeft = TargetsLeft * StepsPerTarget + StepsInTarget + CancelSteps
        /\ StepsInTarget \in Nat \ {0} /\ CancelSteps \in Nat
    BY <1>2, StepsAre DEF StepsLeft
  <2> QED
    BY <2>1, <2>2
<1> QED
  BY <1>1, <1>2

(* The two ways a run goes on: within a target, and with the next one.        *)
Advances ==
    /\ pc' # "done"
    /\ TargetsLeft' = TargetsLeft
    /\ StepsInTarget' \in Int /\ StepsInTarget' < StepsInTarget

MovesOn ==
    /\ pc' # "done"
    /\ TargetsLeft' \in Int /\ TargetsLeft' < TargetsLeft
    /\ StepsInTarget' \in Int /\ StepsInTarget' <= StepsPerTarget

Notices == CancelSteps' \in Nat /\ CancelSteps' <= CancelSteps

LEMMA AdvancesLess ==
    ASSUME CInv, DInv, pc # "done", Advances, Notices
    PROVE  StepsLeft' < StepsLeft
<1> DEFINE w == TargetsLeft * StepsPerTarget
<1>1. w \in Nat /\ StepsLeft = w + StepsInTarget + CancelSteps
  BY StepsAre DEF StepsLeft
<1>2. StepsLeft' = w + StepsInTarget' + CancelSteps'
  BY DEF StepsLeft, Advances, StepsPerTarget
<1> HIDE DEF w
<1> QED
  BY <1>1, <1>2, StepsAre DEF Advances, Notices

LEMMA MovesOnLess ==
    ASSUME CInv, DInv, pc # "done", MovesOn, Notices
    PROVE  StepsLeft' < StepsLeft
<1> DEFINE p == StepsPerTarget
           t == TargetsLeft
           u == TargetsLeft'
<1>1. p \in Nat /\ t \in Nat /\ u \in Int /\ u < t /\ StepsInTarget \in Nat \ {0}
  BY StepsAre DEF MovesOn
<1>2. /\ StepsLeft = t * p + StepsInTarget + CancelSteps
      /\ StepsLeft' = u * p + StepsInTarget' + CancelSteps'
  BY DEF StepsLeft, MovesOn, StepsPerTarget
<1>3. t * p \in Int /\ u * p \in Int /\ u * p + p <= t * p
  <2> HIDE DEF p, t, u
  <2>1. t - u - 1 \in Nat
    BY <1>1
  <2>2. (t - u - 1) * p >= 0
    BY <1>1, <2>1
  <2>3. (t - u - 1) * p = t * p - u * p - p
    BY <1>1
  <2> QED
    BY <1>1, <2>2, <2>3
<1>4. /\ StepsInTarget' \in Int /\ StepsInTarget' <= p
      /\ CancelSteps \in Nat /\ CancelSteps' \in Nat /\ CancelSteps' <= CancelSteps
  BY StepsAre DEF MovesOn, Notices
<1> DEFINE a == t * p
           b == u * p
           i == StepsInTarget
           j == StepsInTarget'
           c == CancelSteps
           d == CancelSteps'
<1> HIDE DEF p, t, u
<1>5. a \in Int /\ b \in Int /\ b + p <= a
  BY <1>3
<1>6. StepsLeft = a + i + c /\ StepsLeft' = b + j + d
  BY <1>2
<1>7. i \in Nat \ {0} /\ j \in Int /\ j <= p /\ c \in Nat /\ d \in Nat /\ d <= c /\ p \in Nat
  BY <1>1, <1>4
<1> HIDE DEF a, b, i, j, c, d
<1> QED
  BY <1>5, <1>6, <1>7

(* The next attempt of a target, or the end of the pool, is nearer its end.   *)
LEMMA ClaimAdvances ==
    ASSUME CInv, DInv, pc = "requesting", phase # "shared", Keep,
           NEW rows \in Seq(Outcomes), Claim(rows),
           Len(rows) = (IF phase = "measured" THEN run ELSE 0), phase = "warmup" => run = Warmups
    PROVE  Advances
<1>1. /\ Warmups \in Nat /\ Repeats \in Nat \ {0} /\ run \in Nat \ {0}
      /\ AttemptsLeft \in Nat /\ StepsInTarget = 2 * AttemptsLeft + 3
      /\ phase \in {"warmup", "measured"}
  BY StepsAre DEF StepsInTarget, DInv, Kinds
<1>2. TargetsLeft' = TargetsLeft
  BY DEF Keep, planner, plan, TargetsLeft
<1>3. CASE pc' = "sampling"
  <2>1. StepsInTarget' = 2
    BY <1>3 DEF StepsInTarget
  <2> QED
    BY <1>1, <1>2, <1>3, <2>1 DEF Advances
<1>4. CASE pc' # "sampling"
  <2>1. /\ pc' \in {"building", "requesting"} /\ phase' = "measured" /\ run' = Len(rows) + 1
    BY <1>4 DEF Claim, NextPrompt
  <2>2. AttemptsLeft' = Repeats - (Len(rows) + 1)
    BY <2>1 DEF AttemptsLeft
  <2>3. AttemptsLeft' = AttemptsLeft - 1
    BY <1>1, <2>2 DEF AttemptsLeft
  <2>4. StepsInTarget' \in {2 * AttemptsLeft' + 3, 2 * AttemptsLeft' + 4}
    BY <2>1 DEF StepsInTarget
  <2> HIDE DEF AttemptsLeft
  <2>5. StepsInTarget' \in Int /\ StepsInTarget' < StepsInTarget
    BY <1>1, <2>3, <2>4
  <2> QED
    BY <1>2, <2>1, <2>5 DEF Advances
<1> QED
  BY <1>3, <1>4

LEMMA AttemptedAdvances ==
    ASSUME CInv, DInv, pc = "requesting", Keep, NEW o \in Outcomes, Attempted(o)
    PROVE  pc' = "done" \/ Advances
<1>1. /\ phase \in {"warmup", "measured"} /\ run \in Nat \ {0} /\ current \in Seq(Outcomes)
      /\ Warmups \in Nat /\ Repeats \in Nat
      /\ AttemptsLeft \in Nat /\ StepsInTarget = 2 * AttemptsLeft + 3
  BY StepsAre DEF StepsInTarget, DInv, Kinds, CInv
<1>2. CASE phase = "measured"
  <2> DEFINE rows == Append(current, o)
  <2>1. Claim(rows)
    BY <1>2 DEF Attempted, Measured
  <2>2. run = Len(current) + 1
    BY <1>2 DEF CInv, Active
  <2>3. rows \in Seq(Outcomes) /\ Len(rows) = run
    BY <1>1, <2>2
  <2> HIDE DEF rows
  <2> QED
    BY <1>2, <2>1, <2>3, ClaimAdvances
<1>3. CASE phase = "warmup"
  <2>1. WarmedUp(o)
    BY <1>3 DEF Attempted
  <2>2. CASE Fatal \/ Cancelled
    BY <2>2 DEF Fatal, Cancelled, End
  <2>3. CASE run = Warmups /\ Claim(<<>>)
    <3> DEFINE none == <<>>
    <3>1. none \in Seq(Outcomes) /\ Len(none) = 0
      OBVIOUS
    <3>2. run = Warmups /\ Claim(none) /\ phase # "measured" /\ phase # "shared"
      BY <1>3, <2>3
    <3> HIDE DEF none
    <3>3. Len(none) = (IF phase = "measured" THEN run ELSE 0)
      BY <3>1, <3>2
    <3> QED
      BY <3>1, <3>2, <3>3, ClaimAdvances
  <2>4. CASE pc' = NextPrompt /\ run' = run + 1 /\ phase' = phase
    <3>1. AttemptsLeft' = AttemptsLeft - 1
      BY <1>1, <1>3, <2>4 DEF AttemptsLeft
    <3>2. StepsInTarget' \in {2 * AttemptsLeft' + 3, 2 * AttemptsLeft' + 4}
      BY <1>3, <2>4 DEF StepsInTarget, NextPrompt
    <3>3. TargetsLeft' = TargetsLeft
      BY DEF Keep, planner, plan, TargetsLeft
    <3>4. pc' # "done"
      BY <2>4 DEF NextPrompt
    <3> HIDE DEF AttemptsLeft
    <3>5. StepsInTarget' \in Int /\ StepsInTarget' < StepsInTarget
      BY <1>1, <3>1, <3>2
    <3> QED
      BY <3>3, <3>4, <3>5 DEF Advances
  <2> QED
    BY <2>1, <2>2, <2>3, <2>4 DEF WarmedUp
<1> QED
  BY <1>1, <1>2, <1>3

LEMMA PoolEndAdvances ==
    ASSUME CInv, DInv, pc \in {"building", "requesting"}, pc' = "sampling", Keep
    PROVE  Advances
<1>1. TargetsLeft' = TargetsLeft
  BY DEF Keep, planner, plan, TargetsLeft
<1>2. StepsInTarget' = 2
  BY DEF StepsInTarget
<1>3. StepsInTarget \in Int /\ StepsInTarget > 2
  <2>1. CASE phase = "shared"
    BY <2>1, StepsAre DEF StepsInTarget, StepsPerTarget
  <2>2. CASE phase # "shared"
    <3>1. AttemptsLeft \in Nat
      BY <2>2, StepsAre
    <3> QED
      BY <2>2, <3>1 DEF StepsInTarget
  <2> QED
    BY <2>1, <2>2
<1> QED
  BY <1>1, <1>2, <1>3 DEF Advances

LEMMA BuiltAdvances ==
    ASSUME CInv, DInv, Built
    PROVE  Advances
<1>1. TargetsLeft' = TargetsLeft
  BY DEF Built, planner, plan, TargetsLeft
<1>2. /\ pc = "building" /\ pc' = "requesting" /\ run' = run
      /\ phase' = IF phase = "shared" THEN FirstPhase ELSE phase
  BY DEF Built
<1>3. StepsInTarget' = 2 * AttemptsLeft' + 3
  BY <1>2 DEF StepsInTarget
<1>4. CASE phase = "shared"
  <2>1. AttemptsLeft' = Warmups + Repeats - 1
    BY <1>2, <1>4, StepsAre DEF AttemptsLeft, FirstPhase
  <2>2. StepsInTarget = 2 * (Warmups + Repeats) + 3
    BY <1>2, <1>4 DEF StepsInTarget, StepsPerTarget
  <2>3. StepsInTarget' \in Int /\ StepsInTarget' < StepsInTarget
    BY <1>2, <1>3, <2>1, <2>2, StepsAre
  <2> QED
    BY <1>1, <1>2, <2>3 DEF Advances
<1>5. CASE phase # "shared"
  <2>1. AttemptsLeft' = AttemptsLeft /\ AttemptsLeft \in Nat
    BY <1>2, <1>5, StepsAre DEF AttemptsLeft
  <2>2. StepsInTarget = 2 * AttemptsLeft + 4
    BY <1>2, <1>5 DEF StepsInTarget
  <2>3. StepsInTarget' \in Int /\ StepsInTarget' < StepsInTarget
    BY <1>3, <2>1, <2>2
  <2> QED
    BY <1>1, <1>2, <2>3 DEF Advances
<1> QED
  BY <1>4, <1>5

LEMMA NextTargetMoves ==
    ASSUME CInv, DInv, pc # "done", NextTarget, config' = config,
           TargetsLeft' \in Int, TargetsLeft' < TargetsLeft
    PROVE  pc' = "done" \/ MovesOn
<1>1. CASE cancel
  BY <1>1 DEF NextTarget, End
<1>2. CASE ~cancel
  <2>1. /\ pc' = "building" /\ run' = 1
        /\ phase' = IF config.shared THEN "shared" ELSE FirstPhase
    BY <1>2 DEF NextTarget
  <2>2. phase' # "shared" => AttemptsLeft' = Warmups + Repeats - 1
    BY <2>1, StepsAre DEF AttemptsLeft, FirstPhase
  <2>3. StepsInTarget' = IF phase' = "shared" THEN StepsPerTarget ELSE 2 * AttemptsLeft' + 4
    BY <2>1 DEF StepsInTarget, StepsPerTarget
  <2>4. StepsInTarget' \in Int /\ StepsInTarget' <= StepsPerTarget
    BY <2>2, <2>3, StepsAre DEF StepsPerTarget
  <2> QED
    BY <2>1, <2>4 DEF MovesOn
<1> QED
  BY <1>1, <1>2

LEMMA AfterTargetMoves ==
    ASSUME CInv, DInv, pc = "sampling", AfterTarget
    PROVE  pc' = "done" \/ Advances \/ MovesOn
<1>1. CASE "error" \in RangeOf(current)
  BY <1>1 DEF AfterTarget, Fatal, End
<1>2. CASE "error" \notin RangeOf(current) /\ config.probe
  <2>1. AfterProbed /\ config' = config
    BY <1>2 DEF AfterTarget, AfterProbed, plan
  <2>2. CASE \E status, ls : End(status, ls)
    BY <2>2 DEF End
  <2>3. CASE Record(Observed(current)) /\ candidate' # 0 /\ NextTarget
    <3>1. TargetsLeft' \in Int /\ TargetsLeft' < TargetsLeft
      BY <1>2, <2>1, <2>3, ProbeNarrows DEF CInv
    <3> QED
      BY <2>1, <2>3, <3>1, NextTargetMoves
  <2> QED
    BY <2>1, <2>2, <2>3 DEF AfterProbed
<1>3. CASE "error" \notin RangeOf(current) /\ ~config.probe
  <2>1. AfterListed /\ config' = config
    BY <1>3 DEF AfterTarget, AfterListed
  <2>2. CASE End("completed", lengths')
    BY <2>2 DEF End
  <2>3. CASE pc' = "between" /\ at' = at
    <3>1. StepsInTarget' = 1 /\ StepsInTarget = 2
      BY <2>3 DEF StepsInTarget
    <3>2. TargetsLeft' = TargetsLeft
      BY <1>3, <2>1, <2>3 DEF TargetsLeft
    <3> QED
      BY <2>3, <3>1, <3>2 DEF Advances
  <2>4. CASE at' = at + 1 /\ NextTarget
    <3>1. at \in Nat /\ Len(Targets) \in Nat
      BY PlanAssumption DEF CInv
    <3>2. TargetsLeft' \in Int /\ TargetsLeft' < TargetsLeft
      BY <1>3, <2>1, <2>4, <3>1 DEF TargetsLeft
    <3> QED
      BY <2>1, <2>4, <3>2, NextTargetMoves
  <2> QED
    BY <2>1, <2>2, <2>3, <2>4 DEF AfterListed
<1> QED
  BY <1>1, <1>2, <1>3

LEMMA DelayMoves ==
    ASSUME CInv, DInv, DelayEnds
    PROVE  pc' = "done" \/ MovesOn
<1>1. ~config.probe /\ at \in Nat /\ Len(Targets) \in Nat /\ config' = config /\ at' = at + 1
  BY PlanAssumption DEF DelayEnds, CInv, Active
<1>2. TargetsLeft' \in Int /\ TargetsLeft' < TargetsLeft
  BY <1>1 DEF TargetsLeft
<1> QED
  BY <1>1, <1>2, NextTargetMoves DEF DelayEnds

LEMMA NoticesLess ==
    ASSUME CInv, DInv, cancel' = cancel, pending' \in {pending, FALSE}
    PROVE  Notices
<1> DEFINE asked == IF cancel THEN 0 ELSE 2
           due   == IF pending THEN 1 ELSE 0
<1>1. asked' = asked /\ asked \in {0, 2} /\ due \in {0, 1}
  OBVIOUS
<1>2. due' = due \/ due' = 0
  <2>1. CASE pending'
    <3>1. pending
      BY <2>1
    <3> QED
      BY <2>1, <3>1
  <2>2. CASE ~pending'
    BY <2>2
  <2> QED
    BY <2>1, <2>2
<1>3. CancelSteps = asked + due /\ CancelSteps' = asked' + due'
  BY DEF CancelSteps
<1> HIDE DEF asked, due
<1> QED
  BY <1>1, <1>2, <1>3 DEF Notices

LEMMA StepsLess ==
    ASSUME CInv, DInv, [Next]_vars
    PROVE  [StepsLeft' < StepsLeft]_vars
<1> SUFFICES ASSUME Next, vars' # vars
             PROVE  StepsLeft' < StepsLeft
  BY Zenon DEF vars
<1>0. pc # "done" /\ (cancel' = cancel /\ pending' \in {pending, FALSE} => Notices)
  BY NoticesLess DEF Next, Built, BuildFails, Answered, TimesOut, Sampled, DelayEnds, Cancel,
     CancelledWaiting, CancelledLate, CancelledSampling, Done
<1>1. CASE pc' = "done"
  BY <1>0, <1>1, StepsAreCounted DEF StepsLeft
<1>2. ASSUME pc' = "done" \/ Advances \/ MovesOn, cancel' = cancel, pending' \in {pending, FALSE}
      PROVE  StepsLeft' < StepsLeft
  BY <1>0, <1>1, <1>2, AdvancesLess, MovesOnLess
<1>3. CASE Built
  BY <1>2, <1>3, BuiltAdvances DEF Built
<1>4. CASE BuildFails
  BY <1>2, <1>4, PoolEndAdvances
     DEF BuildFails, PoolCrashes, PoolEnds, Crashed, End, Keep
<1>5. ASSUME NEW o \in Outcomes, Answered(o)
      PROVE  StepsLeft' < StepsLeft
  BY <1>2, <1>5, AttemptedAdvances DEF Answered, Keep
<1>6. CASE TimesOut
  <2>1. "timeout" \in Outcomes
    BY DEF Outcomes
  <2> QED
    BY <1>2, <1>6, <2>1, AttemptedAdvances, PoolEndAdvances
       DEF TimesOut, PoolCrashes, PoolEnds, Fatal, End, Keep
<1>7. CASE Sampled
  <2>1. CASE AfterTarget
    BY <1>2, <1>7, <2>1, AfterTargetMoves DEF Sampled
  <2>2. CASE Cancelled \/ Crashed
    BY <1>1, <2>2 DEF Cancelled, Crashed, End
  <2> QED
    BY <1>7, <2>1, <2>2 DEF Sampled
<1>8. CASE DelayEnds
  BY <1>2, <1>8, DelayMoves DEF DelayEnds
<1>9. CASE Cancel
  <2>1. TargetsLeft' = TargetsLeft /\ StepsInTarget' = StepsInTarget /\ pc' # "done"
    BY <1>9 DEF Cancel, planner, plan, TargetsLeft, StepsInTarget, AttemptsLeft
  <2>2. CancelSteps' \in Nat /\ CancelSteps' < CancelSteps
    BY <1>9 DEF Cancel, CancelSteps, DInv, Kinds, Hears
  <2>3. StepsLeft' = TargetsLeft * StepsPerTarget + StepsInTarget + CancelSteps'
    BY <2>1 DEF StepsLeft, StepsPerTarget
  <2>4. StepsLeft = TargetsLeft * StepsPerTarget + StepsInTarget + CancelSteps
    BY <1>0 DEF StepsLeft
  <2>5. /\ TargetsLeft * StepsPerTarget \in Nat /\ StepsInTarget \in Nat /\ CancelSteps \in Nat
    BY <1>0, StepsAre
  <2> HIDE DEF TargetsLeft, StepsPerTarget
  <2> QED
    BY <2>2, <2>3, <2>4, <2>5
<1>10. CASE CancelledWaiting
  BY <1>2, <1>10, PoolEndAdvances
     DEF CancelledWaiting, Deliver, Cancelled, End, PoolEnds, Keep
<1>11. CASE CancelledLate
  <2>1. "timeout" \in Outcomes /\ Attempted("timeout") /\ Keep /\ pc = "requesting"
        /\ cancel' = cancel /\ pending' \in {pending, FALSE}
    BY <1>11 DEF CancelledLate, Deliver, Attempted, Outcomes, Keep
  <2> QED
    BY <1>2, <2>1, AttemptedAdvances
<1>12. CASE CancelledSampling
  BY <1>1, <1>12 DEF CancelledSampling, Cancelled, End
<1> QED
  BY <1>3, <1>4, <1>5, <1>6, <1>7, <1>8, <1>9, <1>10, <1>11, <1>12 DEF Next, Done

(* For every list, plan and probe: each step of a run is one of a number of   *)
(* steps fixed at its beginning.  What remains of termination is that a run   *)
(* which is not over has a step to take.                                      *)
THEOREM StepsDoRunOut == Spec => StepsRunOut
<1>1. CInv /\ DInv => StepsLeft \in Nat
  BY StepsAreCounted
<1>2. CInv /\ DInv /\ [Next]_vars => [StepsLeft' < StepsLeft]_vars
  BY StepsLess
<1>3. Spec => [](StepsLeft \in Nat) /\ [][StepsLeft' < StepsLeft]_vars
  BY <1>1, <1>2, InvariantsHold, PTL DEF Spec
<1> QED
  BY <1>3 DEF StepsRunOut

=============================================================================
