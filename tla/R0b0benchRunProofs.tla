-------------------------- MODULE R0b0benchRunProofs --------------------------
(* What holds of an r0b0bench run for every number of selected lanes and of   *)
(* cancellations, whatever its child prints, writes and does to signals; and  *)
(* of its datasets, for every number of assets and of installers.             *)
EXTENDS R0b0benchRun, R0b0benchDatasets, FiniteSetTheorems, TLAPS

(* The lanes of the hints ascend and have their files.  A hint whose lane and *)
(* all before it were heard of has as many before it: this is what makes the  *)
(* rows of a run without lost hints acceptable.                               *)
HintsAscend ==
    /\ Lanes(completed) \subseteq disk
    /\ \A i \in DOMAIN completed : completed[i] <= current
    /\ \A i, j \in DOMAIN completed : i < j => completed[i] < completed[j]
    /\ \A i \in DOMAIN completed :
          1 .. completed[i] \subseteq Lanes(completed) => completed[i] = i

(* A cancellation is about to be delivered, or is what the run unwinds from.  *)
Unwinding == pc \in {"reaping", "killing"} /\ why = "cancelled"

CancelsCounted ==
    /\ cancel => cancels >= 1
    /\ why = "cancelled" => cancels >= 1 /\ (cancel => cancels >= 2)
    /\ pc # "done" /\ cancels > 0 => cancel \/ Unwinding
    /\ pc = "entry" => cancels = 0
    /\ pc \in {"reaping", "killing"} => why # "none"
    /\ pc \in {"entry", "spawning"} => leader = "none"

Unfinished == pc # "done" => result = NoResult

RInv == OneResult /\ ResultTellsTheTruth /\ ChildGone /\ HintsAscend /\ CancelsCounted
        /\ Unfinished

-----------------------------------------------------------------------------
(* Rows *)

LEMMA UptoIs ==
    ASSUME NEW k \in 0 .. N
    PROVE  /\ Upto(k) \in Seq(1 .. N) /\ InOrder(Upto(k)) /\ Lanes(Upto(k)) = 1 .. k
<1> USE SelectionAssumption
<1>1. Upto(k) \in Seq(1 .. N) /\ Len(Upto(k)) = k /\ DOMAIN Upto(k) = 1 .. k
  BY DEF Upto
<1>2. \A i \in 1 .. k : Upto(k)[i] = i
  BY DEF Upto
<1> QED
  BY <1>1, <1>2 DEF InOrder, Lanes

(* The lanes on disk without a gap before them: those a partial report has.   *)
Gapless == {k \in 1 .. N : 1 .. k \subseteq disk}

LEMMA PartialRowsAre ==
    /\ PartialRows \in Seq(1 .. N) /\ InOrder(PartialRows)
    /\ Lanes(PartialRows) = Gapless
<1> USE SelectionAssumption
<1> DEFINE m == Cardinality(Gapless)
<1>1. IsFiniteSet(Gapless) /\ m <= N /\ m \in Nat
  <2>1. IsFiniteSet(1 .. N) /\ Cardinality(1 .. N) = N
    BY FS_Interval
  <2>2. Gapless \in SUBSET (1 .. N)
    BY DEF Gapless
  <2> QED
    BY <2>1, <2>2, FS_Subset, FS_CardinalityType
<1>2. \A k \in Gapless : k <= m
  <2> SUFFICES ASSUME NEW k \in Gapless PROVE k <= m
    OBVIOUS
  <2>1. 1 .. k \in SUBSET Gapless /\ k \in Nat /\ k > 0
    BY DEF Gapless
  <2>2. Cardinality(1 .. k) = k
    BY <2>1, FS_Interval
  <2> QED
    BY <1>1, <2>1, <2>2, FS_Subset
<1>3. Gapless = 1 .. m
  <2>1. Gapless \in SUBSET (1 .. m)
    BY <1>1, <1>2 DEF Gapless
  <2>2. IsFiniteSet(1 .. m) /\ Cardinality(1 .. m) = m
    BY <1>1, FS_Interval
  <2> QED
    BY <2>1, <2>2, FS_Subset
<1>4. PartialRows = Upto(m) /\ m \in 0 .. N
  BY <1>1 DEF PartialRows, Gapless
<1> QED
  BY <1>3, <1>4, UptoIs

(* Without a lost hint, the lanes heard of are acceptable rows. *)
LEMMA HintsInOrder ==
    ASSUME completed \in Seq(1 .. N), HintsAscend,
           NEW k \in 0 .. N, Lanes(completed) = 1 .. k
    PROVE  InOrder(completed)
<1> USE SelectionAssumption
<1>1. \A i \in DOMAIN completed : completed[i] = i
  <2> SUFFICES ASSUME NEW i \in DOMAIN completed PROVE completed[i] = i
    OBVIOUS
  <2>1. completed[i] \in 1 .. k
    BY DEF Lanes
  <2>2. 1 .. completed[i] \subseteq Lanes(completed)
    BY <2>1
  <2> QED
    BY <2>2 DEF HintsAscend
<1>2. DOMAIN completed = 1 .. Len(completed)
  OBVIOUS
<1> QED
  BY <1>1, <1>2 DEF InOrder, Upto

LEMMA OrderedLanes ==
    ASSUME completed \in Seq(1 .. N), InOrder(completed)
    PROVE  Lanes(completed) = 1 .. Len(completed) /\ Len(completed) \in 0 .. N
<1> USE SelectionAssumption
<1>1. \A i \in 1 .. Len(completed) : completed[i] = i
  BY DEF InOrder, Upto
<1>2. Len(completed) \in Nat /\ DOMAIN completed = 1 .. Len(completed)
  OBVIOUS
<1>3. Lanes(completed) = 1 .. Len(completed)
  BY <1>1, <1>2 DEF Lanes
<1>4. Len(completed) > 0 => Len(completed) \in 1 .. N
  <2>1. Len(completed) > 0 => completed[Len(completed)] \in 1 .. N
    BY <1>2
  <2> QED
    BY <1>1, <1>2, <2>1
<1> QED
  BY <1>2, <1>3, <1>4

-----------------------------------------------------------------------------
(* Steps *)

LEMMA RunInit ==
    ASSUME Init
    PROVE  RInv
<1> USE SelectionAssumption DEF Init
<1>1. TypeOK
  <2>1. result.status = "none" /\ result.rows = <<>> /\ <<>> \in Seq(1 .. N)
    BY DEF NoResult
  <2>2. cancels \in 0 .. MaxCancels /\ current \in 0 .. N /\ disk \subseteq 1 .. N
    OBVIOUS
  <2> QED
    BY <2>1, <2>2 DEF TypeOK
<1>2. Lanes(<<>>) = {}
  BY DEF Lanes
<1>3. HintsAscend
  BY <1>2 DEF HintsAscend
<1>4. ResultTellsTheTruth
  BY <1>2 DEF ResultTellsTheTruth, NoResult
<1>5. OneResult /\ ChildGone
  BY <1>1 DEF OneResult, ChildGone
<1>6. CancelsCounted /\ Unfinished
  BY DEF CancelsCounted, Unfinished
<1> QED
  BY <1>3, <1>4, <1>5, <1>6 DEF RInv

(* The run goes on: it has no result yet. *)
LEMMA GoesOn ==
    ASSUME RInv, pc # "done", pc' # "done", result' = result,
           TypeOK', HintsAscend', CancelsCounted', cancels' > 0 => lane' = "cancelling"
    PROVE  RInv'
<1>1. result' = NoResult
  BY DEF RInv, Unfinished
<1>2. Lanes(result'.rows) = {} /\ result'.status = "none"
  BY <1>1 DEF Lanes, NoResult
<1>3. Lanes(result.rows)' = Lanes(result'.rows)
  BY DEF Lanes
<1>4. ResultTellsTheTruth'
  BY <1>2, <1>3 DEF ResultTellsTheTruth
<1>5. OneResult' /\ ChildGone' /\ Unfinished'
  BY <1>1 DEF OneResult, ChildGone, Unfinished
<1> QED
  BY <1>4, <1>5 DEF RInv

LEMMA HintsStay ==
    ASSUME TypeOK, HintsAscend, completed' = completed, disk \subseteq disk',
           current <= current', current' \in Nat
    PROVE  HintsAscend'
<1> USE SelectionAssumption
<1>1. Lanes(completed)' = Lanes(completed)
  BY DEF Lanes
<1>2. \A i \in DOMAIN completed : completed[i] \in Nat /\ current \in Nat
  BY DEF TypeOK
<1>3. \A i \in DOMAIN completed : completed[i] <= current'
  BY <1>2 DEF HintsAscend
<1> QED
  BY <1>1, <1>3 DEF HintsAscend

(* The run ends, with rows that are on disk, or with those of the hints.      *)
LEMMA Finishes ==
    ASSUME RInv, pc # "done", NEW status, status \in {"completed", "cancelled", "error"},
           NEW rows \in Seq(1 .. N), Finish(status, rows),
           cancels' = cancels, cancel' \in {cancel, FALSE},
           cancels > 0 => status = "cancelled",
           leader = "alive" => cancels >= (IF why = "cancelled" THEN 2 ELSE 1),
           \/ rows = completed
           \/ /\ InOrder(rows) /\ Lanes(rows) \subseteq disk
              /\ status \in {"cancelled", "error"} /\ InOrder(completed) =>
                     Lanes(completed) \subseteq Lanes(rows)
    PROVE  RInv'
<1> USE SelectionAssumption
<1>1. /\ TypeOK /\ HintsAscend /\ CancelsCounted /\ result = NoResult
      /\ Lanes(completed) \subseteq disk
  BY DEF RInv, OneResult, Unfinished, HintsAscend
<1>2. /\ pc' = "done" /\ UNCHANGED <<stage, why, leader, helper, term, disk, current,
                                     reported, completed>>
      /\ IF InOrder(rows) THEN result' = [status |-> status, rows |-> rows] /\ lane' = "idle"
         ELSE result' = result /\ lane' = lane
  BY DEF Finish, child, output
<1>3. TypeOK'
  <2>1. /\ result'.status \in {"none", "completed", "cancelled", "error"}
        /\ result'.rows \in Seq(1 .. N)
        /\ lane' \in {"validating", "running", "cancelling", "idle"}
    BY <1>1, <1>2 DEF TypeOK
  <2>2. cancel' \in BOOLEAN /\ cancels' \in 0 .. MaxCancels
    BY <1>1 DEF TypeOK
  <2>3. result.status' = result'.status /\ result.rows' = result'.rows
    OBVIOUS
  <2> QED
    BY <1>1, <1>2, <2>1, <2>2, <2>3 DEF TypeOK
<1>4. HintsAscend'
  BY <1>1, <1>2, HintsStay DEF TypeOK
<1>5. CancelsCounted'
  <2>1. cancel' => cancel
    BY <1>1 DEF TypeOK
  <2> QED
    BY <1>1, <1>2, <2>1 DEF CancelsCounted
<1>6. Lanes(completed)' = Lanes(completed) /\ Lanes(result.rows)' = Lanes(result'.rows)
      /\ InOrder(completed)' = InOrder(completed)
  BY <1>2 DEF Lanes, InOrder
<1>7. CASE InOrder(rows)
  <2>1. lane' = "idle" /\ result'.status = status /\ result'.rows = rows
    BY <1>2, <1>7
  <2>2. OneResult'
    BY <1>2, <1>3, <2>1 DEF OneResult
  <2>3. ResultTellsTheTruth'
    BY <1>1, <1>2, <1>6, <1>7, <2>1 DEF ResultTellsTheTruth
  <2> QED
    BY <1>2, <1>4, <1>5, <2>2, <2>3 DEF RInv, ChildGone, Unfinished
<1>8. CASE ~InOrder(rows)
  <2>1. rows = completed /\ result' = NoResult /\ completed \in Seq(1 .. N)
    BY <1>1, <1>2, <1>8 DEF TypeOK
  <2>2. \A k \in 0 .. N : Lanes(completed) # 1 .. k
    BY <1>1, <1>8, <2>1, HintsInOrder
  <2>3. OneResult'
    BY <1>2, <1>3, <1>6, <2>2 DEF OneResult
  <2>4. Lanes(result'.rows) = {} /\ result'.status = "none"
    BY <2>1 DEF Lanes, NoResult
  <2>5. ResultTellsTheTruth'
    BY <1>6, <2>4 DEF ResultTellsTheTruth
  <2> QED
    BY <1>2, <1>4, <1>5, <2>3, <2>5 DEF RInv, ChildGone, Unfinished
<1> QED
  BY <1>7, <1>8

(* An error without a cancellation, or a cancellation, ends with the hints.   *)
LEMMA FinishesWithHints ==
    ASSUME RInv, pc # "done", NEW status \in {"cancelled", "error"},
           Finish(status, completed), cancels' = cancels, cancel' \in {cancel, FALSE},
           cancels > 0 => status = "cancelled",
           leader = "alive" => cancels >= (IF why = "cancelled" THEN 2 ELSE 1)
    PROVE  RInv'
<1>1. completed \in Seq(1 .. N)
  BY DEF RInv, OneResult, TypeOK
<1> QED
  BY <1>1, Finishes

LEMMA ReapedRun ==
    ASSUME RInv, pc # "done", NEW reason \in {"cancelled", "error"}, AfterReap(reason),
           cancels' = cancels, cancel' \in {cancel, FALSE},
           leader # "alive", cancels > 0 => reason = "cancelled"
    PROVE  RInv'
<1> USE SelectionAssumption
<1>1. CASE stage # "run"
  BY <1>1, FinishesWithHints DEF AfterReap
<1>2. CASE stage = "run" /\ reason = "cancelled"
  <2>1. Finish("cancelled", PartialRows)
    BY <1>2 DEF AfterReap
  <2>2. completed \in Seq(1 .. N) /\ disk \subseteq 1 .. N /\ Lanes(completed) \subseteq disk
    BY DEF RInv, OneResult, TypeOK, HintsAscend
  <2>3. Lanes(PartialRows) \subseteq disk
    BY PartialRowsAre DEF Gapless
  <2>4. ASSUME InOrder(completed) PROVE Lanes(completed) \subseteq Lanes(PartialRows)
    <3>1. Lanes(completed) = 1 .. Len(completed) /\ Len(completed) \in 0 .. N
      BY <2>2, <2>4, OrderedLanes
    <3>2. \A k \in 1 .. Len(completed) : k \in 1 .. N /\ 1 .. k \subseteq disk
      BY <2>2, <3>1
    <3> QED
      BY <3>1, <3>2, PartialRowsAre DEF Gapless
  <2> QED
    BY <2>1, <2>3, <2>4, PartialRowsAre, Finishes
<1>3. CASE stage = "run" /\ reason = "error"
  BY <1>3, FinishesWithHints DEF AfterReap
<1> QED
  BY <1>1, <1>2, <1>3

LEMMA ReapStep ==
    ASSUME RInv, pc \in Waits \ {"spawning"}, NEW reason \in {"cancelled", "error"},
           Reap(reason), cancels' = cancels, cancels > 0 => reason = "cancelled",
           reason = "cancelled" => cancels >= 1,
           cancel' = FALSE
    PROVE  RInv'
<1>1. /\ pc # "done" /\ TypeOK /\ HintsAscend /\ CancelsCounted
      /\ cancels > 0 => lane = "cancelling"
  BY DEF RInv, OneResult, Waits
<1>2. CASE leader = "gone"
  BY <1>1, <1>2, ReapedRun DEF Reap
<1>3. CASE leader # "gone"
  <2>1. /\ pc' = "reaping" /\ why' = reason /\ term' = TRUE
        /\ UNCHANGED <<stage, leader, helper, disk, current, reported, completed,
                       lane, result>>
    BY <1>3 DEF Reap, output
  <2>2. TypeOK'
    BY <1>1, <2>1 DEF TypeOK, Waits
  <2>3. HintsAscend'
    BY <1>1, <2>1, HintsStay, SelectionAssumption DEF TypeOK
  <2>4. CancelsCounted'
    BY <1>1, <2>1, SelectionAssumption DEF CancelsCounted, Unwinding, TypeOK
  <2> QED
    BY <1>1, <2>1, <2>2, <2>3, <2>4, GoesOn
<1> QED
  BY <1>2, <1>3

LEMMA ReapOnError ==
    ASSUME RInv, pc \in {"probing", "reading", "waiting"}, ~cancel, cancels = 0,
           Reap("error"), UNCHANGED <<cancel, cancels>>
    PROVE  RInv'
<1>1. cancel \in BOOLEAN
  BY DEF RInv, OneResult, TypeOK
<1>2. cancel' = FALSE
  BY <1>1
<1>3. ~(cancels > 0) /\ cancels' = cancels
  OBVIOUS
<1>4. pc \in Waits \ {"spawning"}
  BY DEF Waits
<1> QED
  BY <1>2, <1>3, <1>4, ReapStep

(* A hint appends the current lane, which no earlier hint was about.          *)
LEMMA HintGrows ==
    ASSUME TypeOK, HintsAscend, Loads, completed' = WithCurrent,
           UNCHANGED <<disk, current>>, current # 0
    PROVE  HintsAscend' /\ completed' \in Seq(1 .. N)
<1> USE SelectionAssumption
<1>1. completed \in Seq(1 .. N) /\ current \in 1 .. N /\ current \in disk
  BY DEF TypeOK, Loads
<1>2. CASE completed' = completed
  BY <1>1, <1>2, HintsStay
<1>3. CASE /\ completed' = Append(completed, current)
           /\ \A i \in DOMAIN completed : completed[i] # current
  <2> DEFINE n == Len(completed)
  <2>1. /\ completed' \in Seq(1 .. N) /\ n \in Nat
        /\ DOMAIN completed = 1 .. n /\ DOMAIN completed' = 1 .. n + 1
        /\ completed'[n + 1] = current
        /\ \A i \in 1 .. n : completed'[i] = completed[i]
    BY <1>1, <1>3
  <2>2. Lanes(completed') = Lanes(completed) \cup {current}
    BY <2>1 DEF Lanes
  <2>3. \A i \in 1 .. n : completed[i] < current /\ completed[i] \in 1 .. N
    <3>1. \A i \in 1 .. n : completed[i] <= current /\ completed[i] # current
      BY <1>3, <2>1 DEF HintsAscend
    <3> QED
      BY <1>1, <2>1, <3>1
  <2>4. \A i, j \in 1 .. n + 1 : i < j => completed'[i] < completed'[j]
    <3> SUFFICES ASSUME NEW i \in 1 .. n + 1, NEW j \in 1 .. n + 1, i < j
                 PROVE  completed'[i] < completed'[j]
      OBVIOUS
    <3>1. i \in 1 .. n
      BY <2>1
    <3>2. CASE j = n + 1
      BY <2>1, <2>3, <3>1, <3>2
    <3>3. CASE j \in 1 .. n
      BY <2>1, <3>1, <3>3 DEF HintsAscend
    <3> QED
      BY <2>1, <3>2, <3>3
  <2>5. \A i \in 1 .. n + 1 : completed'[i] <= current
    BY <1>1, <2>1, <2>3
  <2>6. ASSUME NEW i \in 1 .. n, 1 .. completed'[i] \subseteq Lanes(completed')
        PROVE  completed'[i] = i
    <3>1. completed'[i] = completed[i] /\ current \notin 1 .. completed[i]
      BY <1>1, <2>1, <2>3
    <3>2. 1 .. completed[i] \subseteq Lanes(completed)
      BY <2>2, <2>6, <3>1
    <3> QED
      BY <2>1, <3>1, <3>2 DEF HintsAscend
  <2>7. ASSUME 1 .. current \subseteq Lanes(completed')
        PROVE  current = n + 1
    <3>1. 1 .. (current - 1) \subseteq Lanes(completed)
      BY <1>1, <2>2, <2>7
    <3>2. CASE current = 1
      <4>1. n = 0
        BY <2>1, <2>3, <3>2
      <4> QED
        BY <3>2, <4>1
    <3>3. CASE current > 1
      <4>1. PICK i \in 1 .. n : completed[i] = current - 1
        <5>1. current - 1 \in 1 .. (current - 1)
          BY <1>1, <3>3
        <5>2. current - 1 \in Lanes(completed) /\ DOMAIN completed = 1 .. n
          BY <2>1, <3>1, <5>1
        <5> QED
          BY <5>2 DEF Lanes
      <4>2. i = n
        <5> SUFFICES ASSUME i < n PROVE FALSE
          <6>1. n \in Nat /\ i \in 1 .. n
            BY <2>1
          <6> QED
            BY <6>1
        <5>1. completed[i] < completed[n] /\ n \in 1 .. n
          BY <2>1 DEF HintsAscend
        <5>2. completed[n] < current /\ completed[n] \in Nat /\ current \in Nat
          BY <1>1, <2>3, <5>1
        <5> QED
          BY <4>1, <5>1, <5>2
      <4>3. completed[n] = n
        BY <2>1, <3>1, <4>1, <4>2 DEF HintsAscend
      <4> QED
        BY <1>1, <4>1, <4>2, <4>3
    <3> QED
      BY <1>1, <3>2, <3>3
  <2>8. \A i \in 1 .. n + 1 : 1 .. completed'[i] \subseteq Lanes(completed') => completed'[i] = i
    BY <2>1, <2>6, <2>7
  <2>9. Lanes(completed)' = Lanes(completed')
    BY DEF Lanes
  <2>10. Lanes(completed') \subseteq disk
    BY <1>1, <2>2 DEF HintsAscend
  <2> QED
    BY <2>1, <2>4, <2>5, <2>8, <2>9, <2>10 DEF HintsAscend
<1> QED
  BY <1>2, <1>3 DEF WithCurrent

(* The processes of the group act, also after the end of the run. *)
LEMMA GroupStep ==
    ASSUME RInv, UNCHANGED <<pc, stage, why, term, current, reported, completed, cancel,
                             cancels, lane, result>>,
           leader' = leader \/ (leader = "alive" /\ leader' = "gone"),
           helper' \in {"none", "alive", "gone"},
           disk \subseteq disk', disk' \subseteq 1 .. N
    PROVE  RInv'
<1> USE SelectionAssumption
<1>1. TypeOK /\ HintsAscend /\ CancelsCounted
  BY DEF RInv, OneResult
<1>2. TypeOK'
  BY <1>1 DEF TypeOK
<1>3. HintsAscend'
  BY <1>1, HintsStay DEF TypeOK
<1>4. CancelsCounted'
  BY <1>1 DEF CancelsCounted, Unwinding
<1>5. Lanes(completed)' = Lanes(completed) /\ Lanes(result.rows)' = Lanes(result.rows)
      /\ InOrder(completed)' = InOrder(completed)
  BY DEF Lanes, InOrder
<1>6. OneResult'
  BY <1>2, <1>5 DEF RInv, OneResult
<1>7. ResultTellsTheTruth'
  BY <1>5 DEF RInv, ResultTellsTheTruth
<1>8. ChildGone' /\ Unfinished'
  BY DEF RInv, ChildGone, Unfinished
<1> QED
  BY <1>3, <1>4, <1>6, <1>7, <1>8 DEF RInv

(* Nothing of the books changes while the run goes on without a cancellation. *)
LEMMA QuietStep ==
    ASSUME RInv, pc # "done", ~cancel, pc \notin {"reaping", "killing"},
           pc' \in Waits \ {"reaping", "killing"},
           UNCHANGED <<why, helper, term, disk, completed, cancel, cancels, result>>,
           stage' \in {"version", "bfcl", "run"}, leader' \in {"none", "alive", "gone"},
           pc' = "spawning" => leader' = "none",
           reported' \in BOOLEAN, lane' \in {lane, "running"},
           current' \in 0 .. N, current <= current'
    PROVE  RInv'
<1> USE SelectionAssumption
<1>1. TypeOK /\ HintsAscend /\ CancelsCounted /\ cancels = 0 /\ pc' # "done"
  BY DEF RInv, OneResult, CancelsCounted, Unwinding, TypeOK, Waits
<1>2. TypeOK'
  BY <1>1 DEF TypeOK
<1>3. HintsAscend'
  BY <1>1, HintsStay
<1>4. CancelsCounted'
  BY <1>1 DEF CancelsCounted, Waits
<1> QED
  BY <1>1, <1>2, <1>3, <1>4, GoesOn

(* Where the task waits without a cancellation, none was ever requested,      *)
(* unless it is what the run unwinds from.                                    *)
LEMMA NoneYet ==
    ASSUME RInv, pc # "done", ~cancel
    PROVE  cancels = 0 \/ Unwinding
BY DEF RInv, OneResult, TypeOK, CancelsCounted

LEMMA RunStep ==
    ASSUME RInv, [Next]_vars
    PROVE  RInv'
<1> USE SelectionAssumption
<1>1. TypeOK /\ HintsAscend /\ CancelsCounted
  BY DEF RInv, OneResult
<1>2. cancel \in BOOLEAN /\ cancels \in Nat
  BY <1>1 DEF TypeOK
<1>3. CASE Enter
  <2>1. pc = "entry" /\ ~cancel /\ cancels = 0 /\ leader = "none"
        /\ UNCHANGED <<cancel, cancels>>
    BY <1>1, <1>2, <1>3 DEF Enter, CancelsCounted
  <2>2. CASE pc' = "spawning" /\ UNCHANGED <<stage, why, child, output, lane, result>>
    BY <1>1, <2>1, <2>2, QuietStep DEF child, output, Waits, TypeOK
  <2>3. CASE Finish("error", completed)
    BY <2>1, <2>3, FinishesWithHints
  <2> QED
    BY <1>3, <2>2, <2>3 DEF Enter
<1>4. CASE Spawned
  BY <1>1, <1>4, QuietStep DEF Spawned, output, Waits, TypeOK
<1>5. CASE SpawnFails
  <2>1. cancels = 0 /\ leader = "none"
    BY <1>1, <1>5, NoneYet DEF SpawnFails, Unwinding, CancelsCounted
  <2> QED
    BY <1>5, <2>1, FinishesWithHints DEF SpawnFails
<1>6. CASE ProbeEnds
  <2>1. pc = "probing" /\ ~cancel /\ leader = "gone" /\ cancels = 0
        /\ UNCHANGED <<cancel, cancels>>
    BY <1>6, NoneYet DEF ProbeEnds, Unwinding
  <2>2. CASE Finish("error", completed)
    BY <2>1, <2>2, FinishesWithHints
  <2>3. CASE ~Finish("error", completed)
    <3>1. /\ pc' = "spawning" /\ stage' = NextStage /\ leader' = "none"
          /\ lane' \in {lane, "running"}
          /\ UNCHANGED <<why, helper, term, output, result>>
      BY <1>6, <2>3 DEF ProbeEnds
    <3> QED
      BY <1>1, <2>1, <3>1, QuietStep DEF output, Waits, NextStage, TypeOK
  <2> QED
    BY <2>2, <2>3
<1>7. ASSUME NEW l \in 1 .. N, ReadMarker(l)
      PROVE  RInv'
  <2>1. pc = "reading" /\ ~cancel /\ cancels = 0 /\ UNCHANGED <<cancel, cancels>>
    BY <1>7, NoneYet DEF ReadMarker, Reading, Unwinding
  <2>2. CASE l > current
    BY <1>1, <1>7, <2>1, <2>2, QuietStep DEF ReadMarker, child, Waits, TypeOK
  <2>3. CASE ~(l > current)
    BY <1>7, <2>1, <2>3, ReapOnError DEF ReadMarker
  <2> QED
    BY <2>2, <2>3
<1>8. CASE ReadHint
  <2>1. pc = "reading" /\ ~cancel /\ cancels = 0 /\ UNCHANGED <<cancel, cancels>>
        /\ current # 0
    BY <1>8, NoneYet DEF ReadHint, Reading, Unwinding
  <2>2. CASE Loads
    <3>1. /\ completed' = WithCurrent
          /\ UNCHANGED <<pc, stage, why, leader, helper, term, disk, current, reported,
                         lane, result>>
      BY <1>8, <2>2 DEF ReadHint, child
    <3>2. HintsAscend' /\ completed' \in Seq(1 .. N)
      BY <1>1, <2>1, <2>2, <3>1, HintGrows
    <3>3. TypeOK'
      BY <1>1, <2>1, <3>1, <3>2 DEF TypeOK
    <3>4. CancelsCounted'
      BY <1>1, <2>1, <3>1 DEF CancelsCounted, Unwinding
    <3> QED
      BY <2>1, <3>1, <3>2, <3>3, <3>4, GoesOn
  <2>3. CASE ~Loads
    BY <1>8, <2>1, <2>3, ReapOnError DEF ReadHint
  <2> QED
    BY <2>2, <2>3
<1>9. CASE ReadReport
  <2>1. pc = "reading" /\ ~cancel /\ cancels = 0 /\ UNCHANGED <<cancel, cancels>>
    BY <1>9, NoneYet DEF ReadReport, Reading, Unwinding
  <2>2. CASE Reap("error")
    BY <2>1, <2>2, ReapOnError
  <2>3. CASE ~Reap("error")
    <3>1. reported' = TRUE /\ UNCHANGED <<pc, stage, why, child, disk, current,
                                           completed, lane, result>>
      BY <1>9, <2>3 DEF ReadReport
    <3> QED
      BY <1>1, <2>1, <3>1, QuietStep DEF child, Waits, TypeOK
  <2> QED
    BY <2>2, <2>3
<1>10. CASE ReadEnd
  BY <1>1, <1>10, QuietStep DEF ReadEnd, Reading, child, output, Waits, TypeOK
<1>11. CASE Exits
  <2>1. pc = "waiting" /\ ~cancel /\ leader = "gone" /\ cancels = 0
        /\ UNCHANGED <<cancel, cancels>>
    BY <1>11, NoneYet DEF Exits, Unwinding
  <2>2. ASSUME NEW k \in 1 .. N, Acceptable(k), Finish("completed", Upto(k))
        PROVE  RInv'
    <3>1. Upto(k) \in Seq(1 .. N) /\ InOrder(Upto(k)) /\ Lanes(Upto(k)) \subseteq disk
      BY <2>2, UptoIs DEF Acceptable
    <3> QED
      BY <2>1, <2>2, <3>1, Finishes
  <2>3. CASE Finish("error", completed)
    BY <2>1, <2>3, FinishesWithHints
  <2> QED
    BY <1>11, <2>2, <2>3 DEF Exits
<1>12. CASE Reaped
  <2>1. /\ pc # "done" /\ ~cancel /\ leader = "gone" /\ AfterReap(why)
        /\ UNCHANGED <<cancel, cancels>>
        /\ why \in {"cancelled", "error"}
    BY <1>1, <1>12 DEF Reaped, CancelsCounted, TypeOK
  <2>2. cancels > 0 => why = "cancelled"
    BY <2>1, NoneYet DEF Unwinding
  <2> QED
    BY <2>1, <2>2, ReapedRun
<1>13. CASE TermTimeout
  <2>1. /\ pc = "reaping" /\ pc' = "killing" /\ leader' = "gone"
        /\ helper' \in {"none", "alive", "gone"}
        /\ UNCHANGED <<stage, why, term, disk, current, reported, completed, cancel,
                       cancels, lane, result>>
    BY <1>1, <1>13 DEF TermTimeout, output, TypeOK
  <2>2. TypeOK'
    BY <1>1, <2>1 DEF TypeOK, Waits
  <2>3. HintsAscend'
    BY <1>1, <2>1, HintsStay DEF TypeOK
  <2>4. CancelsCounted'
    BY <1>1, <2>1 DEF CancelsCounted, Unwinding
  <2>5. cancels > 0 => lane = "cancelling"
    BY <2>1 DEF RInv, OneResult
  <2> QED
    BY <2>1, <2>2, <2>3, <2>4, <2>5, GoesOn
<1>14. CASE Cancel
  <2>1. /\ pc \in Waits /\ cancels < MaxCancels /\ cancel' = TRUE
        /\ cancels' = cancels + 1 /\ lane' = "cancelling"
        /\ UNCHANGED <<pc, stage, why, leader, helper, term, disk, current, reported,
                       completed, result>>
    BY <1>14 DEF Cancel, child, output
  <2>2. TypeOK'
    BY <1>1, <2>1 DEF TypeOK
  <2>3. HintsAscend'
    BY <1>1, <2>1, HintsStay DEF TypeOK
  <2>4. CancelsCounted'
    BY <1>1, <1>2, <2>1 DEF CancelsCounted, Unwinding, Waits
  <2>5. pc # "done"
    BY <2>1 DEF Waits
  <2> QED
    BY <2>1, <2>2, <2>3, <2>4, <2>5, GoesOn
<1>15. CASE CancelledSpawning
  <2>1. /\ pc = "spawning" /\ leader = "none" /\ AfterReap("cancelled")
        /\ cancel' = FALSE /\ cancels' = cancels
    BY <1>1, <1>15 DEF CancelledSpawning, Deliver, CancelsCounted
  <2> QED
    BY <2>1, ReapedRun
<1>16. CASE CancelledRunning
  <2>1. /\ pc \in {"probing", "reading", "waiting"} /\ Reap("cancelled")
        /\ cancel' = FALSE /\ cancels' = cancels /\ cancels >= 1
    BY <1>1, <1>16 DEF CancelledRunning, Deliver, CancelsCounted
  <2> QED
    BY <2>1, ReapStep DEF Waits
<1>17. CASE CancelledReaping
  <2>1. /\ pc # "done" /\ cancel /\ cancel' = FALSE /\ cancels' = cancels
        /\ Finish("cancelled", completed)
    BY <1>17 DEF CancelledReaping, Deliver
  <2>2. cancels >= (IF why = "cancelled" THEN 2 ELSE 1)
    BY <1>1, <2>1 DEF CancelsCounted
  <2> QED
    BY <2>1, <2>2, FinishesWithHints
<1>18. ASSUME NEW l \in 1 .. N, WriteLane(l)
       PROVE  RInv'
  BY <1>1, <1>18, GroupStep DEF WriteLane, child, TypeOK
<1>19. CASE Fork
  BY <1>1, <1>19, GroupStep DEF Fork, output, TypeOK
<1>20. CASE LeaderExits
  BY <1>1, <1>20, GroupStep DEF LeaderExits, Alive, output, TypeOK
<1>21. CASE HelperExits
  BY <1>1, <1>21, GroupStep DEF HelperExits, output, TypeOK
<1>22. CASE Done \/ UNCHANGED vars
  BY <1>1, <1>22, GroupStep DEF Done, vars, child, output, TypeOK
<1> QED
  BY <1>3, <1>4, <1>5, <1>6, <1>7, <1>8, <1>9, <1>10, <1>11, <1>12, <1>13, <1>14,
     <1>15, <1>16, <1>17, <1>18, <1>19, <1>20, <1>21, <1>22 DEF Next

LEMMA RunSound == Spec => []RInv
<1>1. Init => RInv
  BY RunInit
<1>2. RInv /\ [Next]_vars => RInv'
  BY RunStep
<1> QED
  BY <1>1, <1>2, PTL DEF Spec

-----------------------------------------------------------------------------
(* Theorems *)

(* A run that lost no hint of a lane before a finished one releases its lane  *)
(* with a result, however its child, its reaping and its cancellations went;  *)
(* until then the lane of a cancelled run shows that it is cancelling.        *)
THEOREM ResultIsPublished == Spec => []OneResult
<1>1. RInv => OneResult
  BY DEF RInv
<1> QED
  BY <1>1, RunSound, PTL

(* The lanes of a result have their files, a result of a cancelled or failed  *)
(* run keeps the lanes the user saw finish, and a cancelled run says so.      *)
THEOREM ResultIsTrue == Spec => []ResultTellsTheTruth
<1>1. RInv => ResultTellsTheTruth
  BY DEF RInv
<1> QED
  BY <1>1, RunSound, PTL

(* A run ends over a living child only if a cancellation interrupted the      *)
(* reaping of that child.                                                     *)
THEOREM ChildIsGone == Spec => []ChildGone
<1>1. RInv => ChildGone
  BY DEF RInv
<1> QED
  BY <1>1, RunSound, PTL

-----------------------------------------------------------------------------
(* The installers *)

(* Where an installer may be, and what it has seen on its way there.          *)
PlaceFits(p) ==
    /\ step[p] = "check"  => at[p] \in 0 .. Last
    /\ step[p] = "obtain" => at[p] \in Assets
    /\ step[p] = "write"  => at[p] \in 1 .. Manifest
    /\ step[p] = "rename" => at[p] \in 1 .. Manifest
    /\ step[p] = "verify" => at[p] \in Assets /\ once = Assets
    /\ \A a \in Assets : a < at[p] => a \in once
    /\ outcome[p] = "installed" => at[p] = 0 /\ step[p] = "check"

(* What it has verified stays installed, but for what others spoil.           *)
VerifiedStands(p) ==
    ~spoiled[p] =>
        /\ step[p] = "verify" =>
              \A a \in Assets : a < at[p] => files[a] = "installed"
        /\ outcome[p] = "installed" =>
              \A a \in Assets : files[a] = "installed"

DInv ==
    /\ DatasetsTypeOK
    /\ \A p \in Installers : PlaceFits(p) /\ VerifiedStands(p)
    /\ \A a \in Assets : files[a] = "installed" => a \in once
    /\ manifest => once = Assets
    /\ \A p \in temps : step[p] = "rename"

LEMMA DatasetsInitially == DatasetsInit => DInv
<1> SUFFICES ASSUME DatasetsInit
             PROVE  DInv
  OBVIOUS
<1> USE AssetsAssumption
<1>1. files \in [Assets -> {"missing", "invalid", "installed"}]
  BY DEF DatasetsInit
<1>2. at \in [Installers -> 0 .. Manifest]
  BY DEF DatasetsInit, Manifest
<1>3. step \in [Installers -> {"check", "obtain", "write", "rename", "verify"}]
  BY DEF DatasetsInit
<1>4. outcome \in [Installers -> {"none", "installed", "failed", "killed"}]
  BY DEF DatasetsInit
<1>5. spoiled \in [Installers -> BOOLEAN] /\ manifest \in BOOLEAN
  BY DEF DatasetsInit
<1>6. temps = {} /\ once = {} /\ ~manifest
  BY DEF DatasetsInit
<1>7. DatasetsTypeOK
  BY <1>1, <1>2, <1>3, <1>4, <1>5, <1>6 DEF DatasetsTypeOK
<1>8. ASSUME NEW p \in Installers
      PROVE  PlaceFits(p) /\ VerifiedStands(p)
  <2>1. at[p] = 0 /\ step[p] = "check" /\ outcome[p] = "none"
    BY DEF DatasetsInit
  <2> QED
    BY <2>1 DEF PlaceFits, VerifiedStands, Assets
<1>9. \A a \in Assets : files[a] # "installed"
  BY DEF DatasetsInit
<1> QED
  BY <1>6, <1>7, <1>8, <1>9 DEF DInv

(* Where a move of an installer takes it. *)
LEMMA GoToMoves ==
    ASSUME DatasetsTypeOK, NEW p \in Installers, NEW file \in 0 .. Manifest,
           NEW next \in {"check", "obtain", "write", "rename", "verify"},
           GoTo(p, file, next)
    PROVE  /\ at' \in [Installers -> 0 .. Manifest]
           /\ step' \in [Installers -> {"check", "obtain", "write", "rename", "verify"}]
           /\ at'[p] = file /\ step'[p] = next
           /\ \A q \in Installers : q # p => at'[q] = at[q] /\ step'[q] = step[q]
<1>1. at \in [Installers -> 0 .. Manifest]
  BY DEF DatasetsTypeOK
<1>2. step \in [Installers -> {"check", "obtain", "write", "rename", "verify"}]
  BY DEF DatasetsTypeOK
<1>3. at' = [at EXCEPT ![p] = file] /\ step' = [step EXCEPT ![p] = next]
  BY DEF GoTo
<1> QED
  BY <1>1, <1>2, <1>3

LEMMA EndsMoves ==
    ASSUME DatasetsTypeOK, NEW p \in Installers,
           NEW how \in {"none", "installed", "failed", "killed"}, Ends(p, how)
    PROVE  /\ GoTo(p, 0, "check")
           /\ outcome' \in [Installers -> {"none", "installed", "failed", "killed"}]
           /\ outcome'[p] = how
           /\ \A q \in Installers : q # p => outcome'[q] = outcome[q]
  BY DEF DatasetsTypeOK, Ends

(* A step of one installer: what it must establish for itself, and for the    *)
(* files, is enough for the others.                                           *)
LEMMA OneMoves ==
    ASSUME DInv, NEW p \in Installers, NEW file \in 0 .. Manifest,
           NEW next \in {"check", "obtain", "write", "rename", "verify"},
           GoTo(p, file, next),
           outcome' \in [Installers -> {"none", "installed", "failed", "killed"}],
           \A q \in Installers : q # p => outcome'[q] = outcome[q],
           spoiled' \in [Installers -> BOOLEAN],
           \A q \in Installers : q # p => spoiled'[q] = spoiled[q],
           files' \in [Assets -> {"missing", "invalid", "installed"}],
           \A a \in Assets : files'[a] # files[a] =>
                files'[a] = "installed" /\ a \in once',
           once \subseteq once', once' \subseteq Assets,
           manifest' \in BOOLEAN, manifest' => once' = Assets,
           temps' \subseteq temps \cup {p}, p \in temps' => next = "rename",
           PlaceFits(p)', VerifiedStands(p)'
    PROVE  DInv'
<1>1. DatasetsTypeOK
  BY DEF DInv
<1>2. /\ at' \in [Installers -> 0 .. Manifest]
      /\ step' \in [Installers -> {"check", "obtain", "write", "rename", "verify"}]
      /\ at'[p] = file /\ step'[p] = next
      /\ \A q \in Installers : q # p => at'[q] = at[q] /\ step'[q] = step[q]
  BY <1>1, GoToMoves
<1>3. temps' \subseteq Installers
  BY <1>1 DEF DatasetsTypeOK
<1>4. DatasetsTypeOK'
  BY <1>2, <1>3 DEF DatasetsTypeOK
<1>5. ASSUME NEW q \in Installers, q # p
      PROVE  PlaceFits(q)' /\ VerifiedStands(q)'
  <2>1. PlaceFits(q) /\ VerifiedStands(q)
    BY DEF DInv
  <2>2. /\ at'[q] = at[q] /\ step'[q] = step[q] /\ outcome'[q] = outcome[q]
        /\ spoiled'[q] = spoiled[q]
    BY <1>2, <1>5
  <2>3. PlaceFits(q)'
    BY <2>1, <2>2 DEF PlaceFits
  <2>4. VerifiedStands(q)'
    BY <2>1, <2>2 DEF VerifiedStands
  <2> QED
    BY <2>3, <2>4
<1>6. \A q \in Installers : PlaceFits(q)' /\ VerifiedStands(q)'
  BY <1>5
<1>7. \A a \in Assets : files'[a] = "installed" => a \in once'
  BY DEF DInv
<1>8. \A q \in temps' : step'[q] = "rename"
  BY <1>2, <1>3 DEF DInv
<1> QED
  BY <1>4, <1>6, <1>7, <1>8 DEF DInv

(* The same for a step that fails, or is killed, or leaves files and history. *)
LEMMA OneEnds ==
    ASSUME DInv, NEW p \in Installers, NEW how \in {"none", "failed", "killed"},
           Ends(p, how), UNCHANGED <<files, once, manifest>>,
           spoiled' \in [Installers -> BOOLEAN],
           \A q \in Installers : q # p => spoiled'[q] = spoiled[q],
           temps' = temps \ {p}
    PROVE  DInv'
<1> USE AssetsAssumption
<1>1. DatasetsTypeOK
  BY DEF DInv
<1>2. /\ GoTo(p, 0, "check")
      /\ outcome' \in [Installers -> {"none", "installed", "failed", "killed"}]
      /\ outcome'[p] = how
      /\ \A q \in Installers : q # p => outcome'[q] = outcome[q]
  BY <1>1, EndsMoves
<1>3. 0 \in 0 .. Manifest
  BY DEF Manifest
<1>4. at'[p] = 0 /\ step'[p] = "check"
  BY <1>1, <1>2, <1>3, GoToMoves
<1>5. PlaceFits(p)' /\ VerifiedStands(p)'
  BY <1>2, <1>4 DEF PlaceFits, VerifiedStands, Assets
<1>6. /\ files' \in [Assets -> {"missing", "invalid", "installed"}]
      /\ once' \subseteq Assets /\ manifest' \in BOOLEAN
      /\ manifest' => once' = Assets
  BY <1>1 DEF DatasetsTypeOK, DInv
<1>7. /\ temps' \subseteq temps \cup {p}
      /\ p \in temps' => "check" = "rename"
      /\ once \subseteq once'
      /\ \A a \in Assets : files'[a] # files[a] =>
              files'[a] = "installed" /\ a \in once'
  OBVIOUS
<1> QED
  BY <1>2, <1>3, <1>5, <1>6, <1>7, OneMoves

(* ... and for one that goes on, with nothing verified yet to lose.           *)
LEMMA OneGoesOn ==
    ASSUME DInv, NEW p \in Installers, NEW file \in 0 .. Manifest,
           NEW next \in {"check", "obtain", "write", "rename"},
           GoTo(p, file, next), UNCHANGED <<outcome, spoiled>>,
           outcome[p] # "installed",
           files' \in [Assets -> {"missing", "invalid", "installed"}],
           \A a \in Assets : files'[a] # files[a] =>
                files'[a] = "installed" /\ a \in once',
           once \subseteq once', once' \subseteq Assets, manifest' = manifest,
           temps' \subseteq temps \cup {p}, p \in temps' => next = "rename",
           next = "check" => file \in 0 .. Last,
           next = "obtain" => file \in Assets,
           next \in {"write", "rename"} => file \in 1 .. Manifest,
           \A a \in Assets : a < file => a \in once'
    PROVE  DInv'
<1>1. DatasetsTypeOK
  BY DEF DInv
<1>2. at'[p] = file /\ step'[p] = next
  BY <1>1, GoToMoves
<1>3. PlaceFits(p)' /\ VerifiedStands(p)'
  BY <1>2 DEF PlaceFits, VerifiedStands
<1>4. /\ outcome' \in [Installers -> {"none", "installed", "failed", "killed"}]
      /\ spoiled' \in [Installers -> BOOLEAN]
      /\ manifest' \in BOOLEAN
  BY <1>1 DEF DatasetsTypeOK
<1>5. manifest' => once' = Assets
  BY DEF DInv
<1> QED
  BY <1>3, <1>4, <1>5, OneMoves

LEMMA StartKeeps ==
    ASSUME DInv, NEW p \in Installers, StartInstall(p)
    PROVE  DInv'
<1> USE AssetsAssumption
<1>1. DatasetsTypeOK
  BY DEF DInv
<1>2. /\ spoiled' \in [Installers -> BOOLEAN]
      /\ \A q \in Installers : q # p => spoiled'[q] = spoiled[q]
  BY <1>1 DEF StartInstall, DatasetsTypeOK
<1>3. UNCHANGED <<files, manifest, temps, once>> /\ at[p] = 0
  BY DEF StartInstall
<1>4. p \notin temps
  BY <1>3 DEF DInv, PlaceFits
<1>5. CASE Ends(p, "failed")
  BY <1>2, <1>3, <1>4, <1>5, OneEnds
<1>6. CASE GoTo(p, 1, "check") /\ outcome' = [outcome EXCEPT ![p] = "none"]
  <2>1. 1 \in 0 .. Manifest
    BY DEF Manifest
  <2>2. at'[p] = 1 /\ step'[p] = "check"
    BY <1>1, <1>6, <2>1, GoToMoves
  <2>3. /\ outcome' \in [Installers -> {"none", "installed", "failed", "killed"}]
        /\ \A q \in Installers : q # p => outcome'[q] = outcome[q]
        /\ outcome'[p] = "none"
    BY <1>1, <1>6 DEF DatasetsTypeOK
  <2>4. PlaceFits(p)' /\ VerifiedStands(p)'
    BY <2>2, <2>3 DEF PlaceFits, VerifiedStands, Assets
  <2>5. /\ files' \in [Assets -> {"missing", "invalid", "installed"}]
        /\ once' \subseteq Assets /\ manifest' \in BOOLEAN
        /\ manifest' => once' = Assets
    BY <1>1, <1>3 DEF DatasetsTypeOK, DInv
  <2>6. /\ temps' \subseteq temps \cup {p}
        /\ p \in temps' => "check" = "rename"
        /\ once \subseteq once'
        /\ \A a \in Assets : files'[a] # files[a] =>
                files'[a] = "installed" /\ a \in once'
    BY <1>3, <1>4
  <2>7. GoTo(p, 1, "check")
    BY <1>6
  <2> QED
    BY <1>2, <2>1, <2>3, <2>4, <2>5, <2>6, <2>7, OneMoves
<1> QED
  BY <1>5, <1>6 DEF StartInstall

LEMMA AdvanceGoesOn ==
    ASSUME NEW p \in Installers, at[p] \in Assets, Advance(p)
    PROVE  \E next \in {"check", "write"} :
              /\ GoTo(p, at[p] + 1, next)
              /\ at[p] + 1 \in 1 .. Manifest
              /\ next = "check" => at[p] + 1 \in 0 .. Last
<1> USE AssetsAssumption
<1>1. at[p] + 1 \in 1 .. Manifest /\ (at[p] # Last => at[p] + 1 \in 0 .. Last)
  BY DEF Assets, Manifest
<1> QED
  BY <1>1 DEF Advance

LEMMA CheckKeeps ==
    ASSUME DInv, NEW p \in Installers, CheckAsset(p)
    PROVE  DInv'
<1> USE AssetsAssumption
<1>1. /\ UNCHANGED <<files, manifest, temps, outcome, once, spoiled>>
      /\ at[p] \in Assets /\ step[p] = "check"
  BY DEF CheckAsset
<1>2. /\ files' \in [Assets -> {"missing", "invalid", "installed"}]
      /\ once' \subseteq Assets /\ at[p] \in 0 .. Manifest
      /\ \A a \in Assets : files'[a] # files[a] =>
              files'[a] = "installed" /\ a \in once'
      /\ once \subseteq once' /\ manifest' = manifest
      /\ UNCHANGED <<outcome, spoiled>> /\ temps' \subseteq temps \cup {p}
  BY <1>1 DEF DInv, DatasetsTypeOK
<1>3. p \notin temps'
  BY <1>1 DEF DInv
<1>4. outcome[p] # "installed"
  BY <1>1 DEF DInv, PlaceFits, Assets
<1>5. \A a \in Assets : a < at[p] => a \in once
  BY DEF DInv, PlaceFits
<1>6. CASE files[at[p]] = "installed" /\ Advance(p)
  <2>1. PICK next \in {"check", "write"} :
              /\ GoTo(p, at[p] + 1, next)
              /\ at[p] + 1 \in 1 .. Manifest
              /\ next = "check" => at[p] + 1 \in 0 .. Last
    BY <1>1, <1>6, AdvanceGoesOn
  <2>2. \A a \in Assets : a < at[p] + 1 => a \in once'
    <3>1. at[p] \in once
      BY <1>1, <1>6 DEF DInv
    <3> QED
      BY <1>1, <1>5, <3>1 DEF Assets
  <2>3. at[p] + 1 \in 0 .. Manifest
    BY <2>1 DEF Manifest
  <2>4. /\ next \in {"check", "obtain", "write", "rename"}
        /\ next = "obtain" => at[p] + 1 \in Assets
        /\ next \in {"write", "rename"} => at[p] + 1 \in 1 .. Manifest
        /\ p \in temps' => next = "rename"
    BY <1>3, <2>1
  <2> QED
    BY <1>2, <1>4, <2>1, <2>2, <2>3, <2>4, OneGoesOn
<1>7. CASE GoTo(p, at[p], "obtain")
  <2>1. /\ "obtain" \in {"check", "obtain", "write", "rename"}
        /\ "obtain" = "check" => at[p] \in 0 .. Last
        /\ "obtain" = "obtain" => at[p] \in Assets
        /\ "obtain" \in {"write", "rename"} => at[p] \in 1 .. Manifest
        /\ p \in temps' => "obtain" = "rename"
        /\ \A a \in Assets : a < at[p] => a \in once'
    BY <1>1, <1>3, <1>5
  <2> QED
    BY <1>2, <1>4, <1>7, <2>1, OneGoesOn
<1> QED
  BY <1>6, <1>7 DEF CheckAsset

LEMMA ObtainKeeps ==
    ASSUME DInv, NEW p \in Installers, ObtainAsset(p)
    PROVE  DInv'
<1> USE AssetsAssumption
<1>1. UNCHANGED <<files, manifest, temps, once, spoiled>> /\ step[p] = "obtain"
  BY DEF ObtainAsset
<1>2. /\ files' \in [Assets -> {"missing", "invalid", "installed"}]
      /\ once' \subseteq Assets /\ at[p] \in 0 .. Manifest
      /\ \A a \in Assets : files'[a] # files[a] =>
              files'[a] = "installed" /\ a \in once'
      /\ once \subseteq once' /\ manifest' = manifest
      /\ UNCHANGED spoiled /\ temps' \subseteq temps \cup {p}
      /\ spoiled' \in [Installers -> BOOLEAN]
  BY <1>1 DEF DInv, DatasetsTypeOK
<1>3. p \notin temps
  BY <1>1 DEF DInv
<1>4. outcome[p] # "installed" /\ at[p] \in Assets
  BY <1>1 DEF DInv, PlaceFits
<1>5. \A a \in Assets : a < at[p] => a \in once
  BY DEF DInv, PlaceFits
<1>6. CASE GoTo(p, at[p], "write") /\ UNCHANGED outcome
  <2>1. at[p] \in 1 .. Manifest
    BY <1>4 DEF Assets, Manifest
  <2>2. /\ "write" \in {"check", "obtain", "write", "rename"}
        /\ "write" = "check" => at[p] \in 0 .. Last
        /\ "write" = "obtain" => at[p] \in Assets
        /\ "write" \in {"write", "rename"} => at[p] \in 1 .. Manifest
        /\ p \in temps' => "write" = "rename"
        /\ \A a \in Assets : a < at[p] => a \in once'
        /\ GoTo(p, at[p], "write") /\ UNCHANGED <<outcome, spoiled>>
    BY <1>1, <1>3, <1>5, <1>6, <2>1
  <2> QED
    BY <1>2, <1>4, <2>2, OneGoesOn
<1>7. CASE Ends(p, "failed")
  BY <1>1, <1>2, <1>3, <1>7, OneEnds
<1> QED
  BY <1>6, <1>7 DEF ObtainAsset

LEMMA WriteKeeps ==
    ASSUME DInv, NEW p \in Installers, WriteTemporary(p)
    PROVE  DInv'
<1> USE AssetsAssumption
<1>1. UNCHANGED <<files, manifest, once, spoiled>> /\ step[p] = "write"
  BY DEF WriteTemporary
<1>2. /\ files' \in [Assets -> {"missing", "invalid", "installed"}]
      /\ once' \subseteq Assets /\ at[p] \in 0 .. Manifest
      /\ \A a \in Assets : files'[a] # files[a] =>
              files'[a] = "installed" /\ a \in once'
      /\ once \subseteq once' /\ manifest' = manifest
      /\ UNCHANGED spoiled
      /\ spoiled' \in [Installers -> BOOLEAN]
  BY <1>1 DEF DInv, DatasetsTypeOK
<1>3. p \notin temps
  BY <1>1 DEF DInv
<1>4. outcome[p] # "installed" /\ at[p] \in 1 .. Manifest
  BY <1>1 DEF DInv, PlaceFits
<1>5. \A a \in Assets : a < at[p] => a \in once
  BY DEF DInv, PlaceFits
<1>6. CASE GoTo(p, at[p], "rename") /\ temps' = temps \cup {p} /\ UNCHANGED outcome
  <2>1. /\ "rename" \in {"check", "obtain", "write", "rename"}
        /\ "rename" = "check" => at[p] \in 0 .. Last
        /\ "rename" = "obtain" => at[p] \in Assets
        /\ "rename" \in {"write", "rename"} => at[p] \in 1 .. Manifest
        /\ p \in temps' => "rename" = "rename"
        /\ temps' \subseteq temps \cup {p}
        /\ \A a \in Assets : a < at[p] => a \in once'
        /\ GoTo(p, at[p], "rename") /\ UNCHANGED <<outcome, spoiled>>
    BY <1>1, <1>4, <1>5, <1>6
  <2> QED
    BY <1>2, <1>4, <2>1, OneGoesOn
<1>7. CASE Ends(p, "failed") /\ UNCHANGED temps
  BY <1>1, <1>2, <1>3, <1>7, OneEnds
<1> QED
  BY <1>6, <1>7 DEF WriteTemporary

LEMMA RenameKeeps ==
    ASSUME DInv, NEW p \in Installers, RenameAsset(p)
    PROVE  DInv'
<1> USE AssetsAssumption
<1>1. /\ UNCHANGED <<manifest, outcome, spoiled>>
      /\ at[p] \in Assets /\ step[p] = "rename" /\ Advance(p)
      /\ temps' = temps \ {p} /\ once' = once \cup {at[p]}
      /\ files' = [files EXCEPT ![at[p]] = "installed"]
  BY DEF RenameAsset
<1>2. /\ files' \in [Assets -> {"missing", "invalid", "installed"}]
      /\ once' \subseteq Assets
      /\ \A a \in Assets : files'[a] # files[a] =>
              files'[a] = "installed" /\ a \in once'
  <2>1. /\ files \in [Assets -> {"missing", "invalid", "installed"}]
        /\ once \subseteq Assets
    BY DEF DInv, DatasetsTypeOK
  <2> QED
    BY <1>1, <2>1
<1>3. outcome[p] # "installed"
  BY <1>1 DEF DInv, PlaceFits
<1>4. PICK next \in {"check", "write"} :
              /\ GoTo(p, at[p] + 1, next)
              /\ at[p] + 1 \in 1 .. Manifest
              /\ next = "check" => at[p] + 1 \in 0 .. Last
  BY <1>1, AdvanceGoesOn
<1>5. \A a \in Assets : a < at[p] + 1 => a \in once'
  <2>1. \A a \in Assets : a < at[p] => a \in once
    BY DEF DInv, PlaceFits
  <2> QED
    BY <1>1, <2>1 DEF Assets
<1>6. at[p] + 1 \in 0 .. Manifest /\ next \in {"check", "obtain", "write", "rename"}
  BY <1>4 DEF Manifest
<1>7. p \notin temps' /\ temps' \subseteq temps \cup {p} /\ once \subseteq once'
  BY <1>1
<1>8. /\ next = "obtain" => at[p] + 1 \in Assets
      /\ next \in {"write", "rename"} => at[p] + 1 \in 1 .. Manifest
      /\ p \in temps' => next = "rename"
      /\ UNCHANGED <<outcome, spoiled>> /\ manifest' = manifest
  BY <1>1, <1>4, <1>7
<1> QED
  BY <1>2, <1>3, <1>4, <1>5, <1>6, <1>7, <1>8, OneGoesOn

LEMMA ManifestKeeps ==
    ASSUME DInv, NEW p \in Installers, RenameManifest(p)
    PROVE  DInv'
<1> USE AssetsAssumption
<1>1. /\ UNCHANGED <<files, outcome, once, spoiled>>
      /\ at[p] = Manifest /\ step[p] = "rename" /\ manifest'
      /\ temps' = temps \ {p} /\ GoTo(p, 1, "verify")
  BY DEF RenameManifest
<1>2. /\ files' \in [Assets -> {"missing", "invalid", "installed"}]
      /\ once \subseteq Assets
      /\ \A a \in Assets : files'[a] = files[a]
      /\ spoiled' \in [Installers -> BOOLEAN]
      /\ outcome' \in [Installers -> {"none", "installed", "failed", "killed"}]
  BY <1>1 DEF DInv, DatasetsTypeOK
<1>3. once = Assets
  <2>1. \A a \in Assets : a < Manifest => a \in once
    BY <1>1 DEF DInv, PlaceFits
  <2>2. \A a \in Assets : a < Manifest
    BY DEF Assets, Manifest
  <2> QED
    BY <1>2, <2>1, <2>2
<1>4. 1 \in 0 .. Manifest /\ 1 \in Assets /\ (\A a \in Assets : ~(a < 1))
  BY DEF Assets, Manifest
<1>5. at'[p] = 1 /\ step'[p] = "verify" /\ outcome'[p] # "installed"
  <2>1. at'[p] = 1 /\ step'[p] = "verify"
    BY <1>1, <1>4, GoToMoves DEF DInv
  <2> QED
    BY <1>1, <2>1 DEF DInv, PlaceFits
<1>6. PlaceFits(p)' /\ VerifiedStands(p)'
  BY <1>1, <1>3, <1>4, <1>5 DEF PlaceFits, VerifiedStands
<1>7. /\ p \notin temps' /\ temps' \subseteq temps \cup {p}
      /\ once \subseteq once' /\ once' = Assets /\ manifest' \in BOOLEAN
  BY <1>1, <1>3 DEF RenameManifest
<1> QED
  BY <1>1, <1>2, <1>4, <1>6, <1>7, OneMoves

LEMMA VerifyKeeps ==
    ASSUME DInv, NEW p \in Installers, VerifyAsset(p)
    PROVE  DInv'
<1> USE AssetsAssumption
<1>1. UNCHANGED <<files, manifest, temps, once, spoiled>> /\ step[p] = "verify"
  BY DEF VerifyAsset
<1>2. /\ files' \in [Assets -> {"missing", "invalid", "installed"}]
      /\ once' \subseteq Assets /\ manifest' \in BOOLEAN
      /\ \A a \in Assets : files'[a] # files[a] =>
              files'[a] = "installed" /\ a \in once'
      /\ once \subseteq once' /\ temps' \subseteq temps \cup {p}
      /\ \A q \in Installers : q # p => spoiled'[q] = spoiled[q]
      /\ spoiled' \in [Installers -> BOOLEAN]
      /\ outcome \in [Installers -> {"none", "installed", "failed", "killed"}]
      /\ DatasetsTypeOK
  BY <1>1 DEF DInv, DatasetsTypeOK
<1>3. p \notin temps
  BY <1>1 DEF DInv
<1>4. at[p] \in Assets /\ once = Assets /\ outcome[p] # "installed"
  BY <1>1 DEF DInv, PlaceFits
<1>5. ~spoiled[p] => \A a \in Assets : a < at[p] => files[a] = "installed"
  BY <1>1 DEF DInv, VerifiedStands
<1>6. manifest' => once' = Assets
  BY <1>1, <1>4
<1>7. CASE files[at[p]] # "installed" /\ Ends(p, "failed")
  BY <1>1, <1>2, <1>3, <1>7, OneEnds
<1>8. CASE files[at[p]] = "installed" /\ at[p] = Last /\ Ends(p, "installed")
  <2>1. /\ GoTo(p, 0, "check")
        /\ outcome' \in [Installers -> {"none", "installed", "failed", "killed"}]
        /\ outcome'[p] = "installed"
        /\ \A q \in Installers : q # p => outcome'[q] = outcome[q]
    BY <1>2, <1>8, EndsMoves
  <2>2. 0 \in 0 .. Manifest
    BY DEF Manifest
  <2>3. at'[p] = 0 /\ step'[p] = "check"
    BY <1>2, <2>1, <2>2, GoToMoves
  <2>4. ~spoiled[p] => \A a \in Assets : files[a] = "installed"
    BY <1>5, <1>8 DEF Assets
  <2>5. PlaceFits(p)' /\ VerifiedStands(p)'
    <3>1. \A a \in Assets : ~(a < 0)
      BY DEF Assets
    <3>2. 0 \in 0 .. Last
      OBVIOUS
    <3> QED
      BY <1>1, <2>1, <2>3, <2>4, <3>1, <3>2 DEF PlaceFits, VerifiedStands
  <2> QED
    <3>1. p \in temps' => "check" = "rename"
      BY <1>1, <1>3
    <3> QED
      BY <1>2, <1>6, <2>1, <2>2, <2>5, <3>1, OneMoves
<1>9. CASE /\ files[at[p]] = "installed" /\ at[p] # Last
           /\ GoTo(p, at[p] + 1, "verify") /\ UNCHANGED outcome
  <2>1. at[p] + 1 \in 0 .. Manifest /\ at[p] + 1 \in Assets
    BY <1>4, <1>9 DEF Assets, Manifest
  <2>2. at'[p] = at[p] + 1 /\ step'[p] = "verify"
    BY <1>2, <1>9, <2>1, GoToMoves
  <2>3. ~spoiled[p] => \A a \in Assets : a < at[p] + 1 => files[a] = "installed"
    BY <1>4, <1>5, <1>9 DEF Assets
  <2>4. PlaceFits(p)' /\ VerifiedStands(p)'
    BY <1>1, <1>4, <1>9, <2>1, <2>2, <2>3 DEF PlaceFits, VerifiedStands
  <2> QED
    <3>1. /\ p \in temps' => "verify" = "rename"
          /\ GoTo(p, at[p] + 1, "verify")
          /\ outcome' \in [Installers -> {"none", "installed", "failed", "killed"}]
          /\ \A q \in Installers : q # p => outcome'[q] = outcome[q]
      BY <1>1, <1>2, <1>3, <1>9
    <3> QED
      BY <1>2, <1>6, <2>1, <2>4, <3>1, OneMoves
<1> QED
  BY <1>7, <1>8, <1>9 DEF VerifyAsset

LEMMA SpoilKeeps ==
    ASSUME DInv, Spoil
    PROVE  DInv'
<1>1. /\ UNCHANGED <<manifest, temps, at, step, outcome, once>>
      /\ spoiled' = [p \in Installers |->
                       spoiled[p] \/ step[p] = "verify" \/ outcome[p] = "installed"]
  BY DEF Spoil
<1>2. /\ files' \in [Assets -> {"missing", "invalid", "installed"}]
      /\ \A a \in Assets : files'[a] = "installed" => files[a] = "installed"
  BY DEF Spoil, DInv, DatasetsTypeOK
<1>3. spoiled' \in [Installers -> BOOLEAN]
  BY <1>1 DEF DInv, DatasetsTypeOK
<1>4. DatasetsTypeOK'
  BY <1>1, <1>2, <1>3 DEF DInv, DatasetsTypeOK
<1>5. ASSUME NEW p \in Installers
      PROVE  PlaceFits(p)' /\ VerifiedStands(p)'
  <2>1. PlaceFits(p)
    BY DEF DInv
  <2>2. PlaceFits(p)'
    BY <1>1, <2>1 DEF PlaceFits
  <2>3. ~spoiled'[p] => step[p] # "verify" /\ outcome[p] # "installed"
    BY <1>1
  <2>4. VerifiedStands(p)'
    BY <1>1, <2>3 DEF VerifiedStands
  <2> QED
    BY <2>2, <2>4
<1> QED
  BY <1>1, <1>2, <1>4, <1>5 DEF DInv

LEMMA DatasetsStep == DInv /\ [DatasetsNext]_datasetsVars => DInv'
<1> SUFFICES ASSUME DInv, [DatasetsNext]_datasetsVars
             PROVE  DInv'
  OBVIOUS
<1>1. ASSUME NEW p \in Installers, RenameFails(p) \/ Kill(p)
      PROVE  DInv'
  <2>1. UNCHANGED <<files, once, manifest, spoiled>> /\ temps' = temps \ {p}
    BY <1>1 DEF RenameFails, Kill
  <2>2. spoiled' \in [Installers -> BOOLEAN]
    BY <2>1 DEF DInv, DatasetsTypeOK
  <2>3. \E how \in {"none", "failed", "killed"} : Ends(p, how)
    BY <1>1 DEF RenameFails, Kill
  <2> QED
    BY <2>1, <2>2, <2>3, OneEnds
<1>2. CASE UNCHANGED datasetsVars
  <2>1. UNCHANGED <<files, manifest, temps, at, step, outcome, once, spoiled>>
    BY <1>2 DEF datasetsVars
  <2>2. DatasetsTypeOK'
    BY <2>1 DEF DInv, DatasetsTypeOK
  <2>3. \A p \in Installers : PlaceFits(p)' /\ VerifiedStands(p)'
    BY <2>1 DEF DInv, PlaceFits, VerifiedStands
  <2> QED
    BY <2>1, <2>2, <2>3 DEF DInv
<1> QED
  BY <1>1, <1>2, StartKeeps, CheckKeeps, ObtainKeeps, WriteKeeps, RenameKeeps,
     ManifestKeeps, VerifyKeeps, SpoilKeeps DEF DatasetsNext, Install

LEMMA TruthFollows == DInv => DatasetsTypeOK /\ InstallTellsTheTruth
  BY DEF DInv, VerifiedStands, InstallTellsTheTruth, Offered

(* A step that moves an installer is a step of that installer.                *)
LEMMA WholeFilesStep ==
    ASSUME DInv, [DatasetsNext]_datasetsVars
    PROVE  [\A p \in Installers : <<at[p], step[p]>>' # <<at[p], step[p]>> =>
              \A a \in Assets : files'[a] \in {files[a], "installed"}]_datasetsVars
<1>1. CASE \E p \in Installers : Install(p)
  <2>1. \A a \in Assets : files'[a] \in {files[a], "installed"}
    BY <1>1 DEF DInv, DatasetsTypeOK, Install, StartInstall, CheckAsset, ObtainAsset,
       WriteTemporary, RenameAsset, RenameManifest, RenameFails, VerifyAsset, Kill
  <2> QED
    BY <2>1
<1>2. CASE Spoil
  BY <1>2 DEF Spoil
<1> QED
  BY <1>1, <1>2 DEF DatasetsNext

(* However many installers share a directory of however many assets, wherever *)
(* each is killed: files change but to their pinned content, success is told  *)
(* of a whole installation only, and the manifest of assets that were all     *)
(* installed.                                                                 *)
THEOREM InstallationsAreWhole == DatasetsSpec => InstallsAreWhole
<1>1. DatasetsInit => DInv
  BY DatasetsInitially
<1>2. DInv /\ [DatasetsNext]_datasetsVars => DInv'
  BY DatasetsStep
<1>3. DInv => DatasetsTypeOK /\ InstallTellsTheTruth
  BY TruthFollows
<1>4. DInv /\ [DatasetsNext]_datasetsVars =>
          [\A p \in Installers : <<at[p], step[p]>>' # <<at[p], step[p]>> =>
              \A a \in Assets : files'[a] \in {files[a], "installed"}]_datasetsVars
  BY WholeFilesStep
<1> QED
  BY <1>1, <1>2, <1>3, <1>4, PTL DEF DatasetsSpec, InstallsAreWhole, OnlyWholeFiles

=============================================================================
