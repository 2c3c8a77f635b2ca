------------------------- MODULE ConcurrencyRunProofs -------------------------
(* What holds of a Concurrency run for every list of levels, every number of   *)
(* requests and every early stop: the pool loses and repeats nothing, nothing  *)
(* is claimed after a stop, the levels make the result, and the steps of a run *)
(* are numbered from its beginning.                                            *)
EXTENDS ConcurrencyRun, FiniteSetTheorems, TLAPS

LevelResults ==
    [level : DOMAIN Levels, rows : SUBSET Row, early : BOOLEAN, partial : BOOLEAN]

(* A pool is live only in its phase, and then claims no more than its items.   *)
PInv ==
    /\ PoolAccounts
    /\ levels \in Seq(LevelResults)
    /\ IsFiniteSet(flight) /\ IsFiniteSet(results) /\ IsFiniteSet(Seqs(results))
    /\ pc \in Phase => claimed <= Count(pc)
    /\ pc \notin Phase => fresh = 0 /\ flight = {}
    /\ pc = "between" => at < Len(Levels)

-----------------------------------------------------------------------------
(* Claims and rows *)

(* A claim, or none, by a worker of a pool with some requests in flight. *)
Claims(before) ==
    \/ flight' = before /\ claimed' = claimed
    \/ /\ claimed < Count(pc)
       /\ flight' = before \cup {claimed + 1}
       /\ claimed' = claimed + 1

(* A worker that claims nothing had to stop, or found nothing left.           *)
LEMMA ClaimCases ==
    ASSUME claimed \in Nat, NEW before, NEW rows, Claim(before, rows)
    PROVE  /\ Claims(before)
           /\ ShouldStop(rows) => flight' = before /\ claimed' = claimed
           /\ \/ ShouldStop(rows)
              \/ claimed' >= Count(pc)
              \/ flight' # {}
<1>1. Count(pc) \in Nat
  BY ConfigAssumption DEF Count
<1>2. CASE ShouldStop(rows) \/ claimed >= Count(pc)
  <2>1. flight' = before /\ claimed' = claimed
    BY <1>2 DEF Claim
  <2> QED
    BY <1>2, <2>1 DEF Claims
<1>3. CASE ~(ShouldStop(rows) \/ claimed >= Count(pc))
  <2>1. /\ flight' = before \cup {claimed + 1} /\ claimed' = claimed + 1
        /\ ~ShouldStop(rows) /\ ~(claimed >= Count(pc))
    BY <1>3 DEF Claim
  <2>2. claimed < Count(pc)
    BY <1>1, <2>1
  <2> QED
    BY <2>1, <2>2 DEF Claims
<1> QED
  BY <1>2, <1>3

LEMMA ClaimIsOne ==
    ASSUME PInv, pc \in Phase, NEW before \in SUBSET flight, Claims(before)
    PROVE  /\ claimed' \in Nat /\ claimed <= claimed' /\ claimed' <= Count(pc)
           /\ IsFiniteSet(flight') /\ flight' \subseteq Nat /\ before \subseteq flight'
           /\ Cardinality(flight') <= Cardinality(before) + 1
           /\ Cardinality(before) \in Nat /\ Cardinality(flight') \in Nat
           /\ flight' \cap Seqs(results) = before \cap Seqs(results)
           /\ flight' = before \cup ((claimed + 1) .. claimed')
<1> USE ConfigAssumption DEF Count
<1>1. /\ claimed \in Nat /\ flight \subseteq 1 .. claimed /\ flight \subseteq Nat
      /\ IsFiniteSet(flight) /\ claimed <= Count(pc) /\ Seqs(results) \subseteq 1 .. claimed
  BY DEF PInv, PoolAccounts, TypeOK
<1>2. IsFiniteSet(before) /\ Cardinality(before) \in Nat
  BY <1>1, FS_Subset, FS_CardinalityType
<1>3. CASE flight' = before /\ claimed' = claimed
  <2>1. (claimed + 1) .. claimed = {}
    BY <1>1
  <2> QED
    BY <1>1, <1>2, <1>3, <2>1
<1>4. CASE /\ claimed < Count(pc)
           /\ flight' = before \cup {claimed + 1}
           /\ claimed' = claimed + 1
  <2>1. /\ IsFiniteSet(flight')
        /\ Cardinality(flight') = IF claimed + 1 \in before THEN Cardinality(before)
                                  ELSE Cardinality(before) + 1
    BY <1>2, <1>4, FS_AddElement
  <2>2. (claimed + 1) .. claimed' = {claimed + 1}
    BY <1>1, <1>4
  <2>3. claimed + 1 \notin Seqs(results)
    BY <1>1
  <2>4. /\ claimed' \in Nat /\ claimed <= claimed' /\ claimed' <= Count(pc)
        /\ Cardinality(flight') <= Cardinality(before) + 1 /\ Cardinality(flight') \in Nat
    BY <1>1, <1>2, <1>4, <2>1
  <2>5. flight' \subseteq Nat /\ before \subseteq flight'
    BY <1>1, <1>4
  <2>6. flight' \cap Seqs(results) = before \cap Seqs(results)
    BY <1>4, <2>3
  <2>7. flight' = before \cup ((claimed + 1) .. claimed')
    BY <1>4, <2>2
  <2> HIDE DEF Count
  <2> QED
    BY <1>2, <2>1, <2>4, <2>5, <2>6, <2>7
<1> QED
  BY <1>3, <1>4 DEF Claims

(* A row for a number that has none yet. *)
LEMMA RowIsOne ==
    ASSUME IsFiniteSet(results), IsFiniteSet(Seqs(results)),
           Cardinality(Seqs(results)) = Cardinality(results),
           NEW row, row.seq \notin Seqs(results), results' = results \cup {row}
    PROVE  /\ Seqs(results') = Seqs(results) \cup {row.seq}
           /\ IsFiniteSet(results') /\ IsFiniteSet(Seqs(results'))
           /\ Cardinality(Seqs(results')) = Cardinality(results')
<1>1. Seqs(results') = Seqs(results) \cup {row.seq}
  BY DEF Seqs
<1>2. row \notin results
  BY DEF Seqs
<1>3. IsFiniteSet(results') /\ Cardinality(results') = Cardinality(results) + 1
  BY <1>2, FS_AddElement
<1>4. /\ IsFiniteSet(Seqs(results) \cup {row.seq})
      /\ Cardinality(Seqs(results) \cup {row.seq}) = Cardinality(Seqs(results)) + 1
  BY FS_AddElement
<1> QED
  BY <1>1, <1>3, <1>4

(* A phase starts with an empty pool no wider than its level. *)
LEMMA PhaseStarts ==
    ASSUME NEW phase \in Phase, NEW i \in DOMAIN Levels, StartPhase(phase, i)
    PROVE  /\ pc' = phase /\ at' = i /\ claimed' = 0 /\ results' = {} /\ flight' = {}
           /\ fresh' \in Nat /\ fresh' <= Levels[i] /\ doomed' = {} /\ aborting' = FALSE
           /\ Count(phase) > 0 => fresh' > 0
           /\ Seqs(results') = {}
           /\ IsFiniteSet(flight') /\ IsFiniteSet(results') /\ IsFiniteSet(Seqs(results'))
           /\ Cardinality(flight') = 0 /\ Cardinality(results') = 0
           /\ Cardinality(Seqs(results')) = 0
           /\ flight' \cup Seqs(results') = 1 .. claimed'
           /\ 0 <= Count(phase) /\ Count(phase) <= Requests + Warmups
<1>1. Levels[i] \in Nat \ {0} /\ Count(phase) \in Nat
  BY ConfigAssumption DEF Count
<1>2. Seqs({}) = {} /\ IsFiniteSet({}) /\ Cardinality({}) = 0 /\ 1 .. 0 = {}
  BY FS_EmptySet DEF Seqs
<1>3. /\ pc' = phase /\ at' = i /\ claimed' = 0 /\ results' = {} /\ flight' = {}
      /\ fresh' = Smaller(Levels[i], Count(phase)) /\ doomed' = {} /\ aborting' = FALSE
  BY DEF StartPhase
<1>4. /\ fresh' \in Nat /\ fresh' <= Levels[i]
      /\ Count(phase) > 0 => fresh' > 0
  BY <1>1, <1>3 DEF Smaller
<1>5. 0 <= Count(phase) /\ Count(phase) <= Requests + Warmups
  BY ConfigAssumption DEF Count
<1>6. Seqs(results') = {}
  BY <1>2, <1>3
<1> QED
  BY <1>2, <1>3, <1>4, <1>5, <1>6

-----------------------------------------------------------------------------
(* The pool *)

LEMMA PoolInit ==
    ASSUME Init
    PROVE  PInv
<1> USE ConfigAssumption
<1>1. 1 \in DOMAIN Levels /\ Levels[1] \in Nat \ {0} /\ pc \in Phase
  BY DEF Init, Phase
<1>2. Seqs({}) = {} /\ IsFiniteSet({}) /\ Cardinality({}) = 0 /\ 1 .. 0 = {}
  BY FS_EmptySet DEF Seqs
<1>3. Count(pc) \in Nat /\ Count(pc) <= Requests + Warmups
  BY DEF Count
<1>4. fresh \in Nat /\ fresh <= Levels[at] /\ at = 1
  BY <1>1, <1>3 DEF Init, Smaller
<1>5. TypeOK
  <2>1. levels = <<>> /\ DOMAIN levels = {}
    BY DEF Init
  <2>2. sampler \in {"off", "on", "stopping"}
    BY DEF Init
  <2> QED
    BY <1>1, <1>4, <2>1, <2>2 DEF Init, TypeOK, Phase
<1>6. /\ flight = {} /\ claimed = 0 /\ results = {} /\ levels = <<>>
      /\ Seqs(results) = {} /\ 1 .. claimed = {}
      /\ Cardinality(flight) = 0 /\ Cardinality(results) = 0
      /\ Cardinality(Seqs(results)) = 0
      /\ IsFiniteSet(flight) /\ IsFiniteSet(results) /\ IsFiniteSet(Seqs(results))
  BY <1>2 DEF Init
<1>7. PoolAccounts
  BY <1>4, <1>5, <1>6 DEF PoolAccounts
<1> QED
  BY <1>1, <1>3, <1>6, <1>7 DEF PInv, Phase

LEMMA StartWorkerPool ==
    ASSUME PInv, StartWorker
    PROVE  PInv'
<1> USE ConfigAssumption
<1>1. pc \in Phase /\ TypeOK /\ fresh > 0 /\ fresh' = fresh - 1
  BY DEF PInv, StartWorker, PoolAccounts
<1>2. Claims(flight) /\ results' = results
  BY <1>1, ClaimCases DEF StartWorker, TypeOK
<1>3. /\ claimed' \in Nat /\ claimed <= claimed' /\ claimed' <= Count(pc)
      /\ IsFiniteSet(flight') /\ flight' \subseteq Nat /\ flight \subseteq flight'
      /\ Cardinality(flight') <= Cardinality(flight) + 1
      /\ Cardinality(flight) \in Nat /\ Cardinality(flight') \in Nat
      /\ flight' \cap Seqs(results) = flight \cap Seqs(results)
      /\ flight' = flight \cup ((claimed + 1) .. claimed')
  BY <1>1, <1>2, ClaimIsOne
<1>4. TypeOK'
  BY <1>1, <1>3 DEF StartWorker, TypeOK
<1>5. Seqs(results)' = Seqs(results)
  BY <1>2 DEF Seqs
<1>6. Count(pc) <= Requests + Warmups /\ Count(pc) \in Nat
  BY DEF Count
<1>7. 1 .. claimed' = (1 .. claimed) \cup ((claimed + 1) .. claimed')
  BY <1>1, <1>3 DEF TypeOK
<1>8. Cardinality(flight') + fresh' <= Levels[at]
  <2>1. Levels[at] \in Nat /\ Cardinality(flight) + fresh <= Levels[at] /\ fresh \in Nat
    BY DEF PInv, PoolAccounts, TypeOK
  <2> QED
    BY <1>1, <1>3, <2>1
<1>9. PoolAccounts'
  <2>1. claimed' <= Requests + Warmups
    BY <1>3, <1>6
  <2> QED
    BY <1>2, <1>3, <1>4, <1>5, <1>7, <1>8, <2>1 DEF PInv, PoolAccounts, StartWorker
<1> QED
  BY <1>1, <1>2, <1>3, <1>5, <1>9 DEF PInv, StartWorker, Count

(* The pool after a request ended, whether its row was kept and its worker     *)
(* went on or its task failed.                                                 *)
LEMMA RequestEndsPool ==
    ASSUME PInv, NEW s \in flight, NEW outcome \in Outcomes,
           \/ results' = results /\ terminal' = terminal /\ failed'
           \/ Keep(s, outcome),
           Claims(flight \ {s}),
           doomed' = doomed \ {s},
           failed \in BOOLEAN, failed' \in BOOLEAN, failed => failed',
           UNCHANGED <<pc, at, fresh, aborting, cancel, sampler, levels, status>>
    PROVE  PInv'
<1> USE ConfigAssumption
<1> DEFINE row == [level |-> at, seq |-> s, outcome |-> outcome]
<1>1. pc \in Phase /\ TypeOK /\ flight \subseteq 1 .. claimed /\ flight \ {s} \in SUBSET flight
  BY DEF PInv, PoolAccounts
<1>2. /\ claimed' \in Nat /\ claimed <= claimed' /\ claimed' <= Count(pc)
      /\ IsFiniteSet(flight') /\ flight' \subseteq Nat /\ flight \ {s} \subseteq flight'
      /\ Cardinality(flight') <= Cardinality(flight \ {s}) + 1
      /\ Cardinality(flight \ {s}) \in Nat /\ Cardinality(flight') \in Nat
      /\ flight' \cap Seqs(results) = (flight \ {s}) \cap Seqs(results)
      /\ flight' = (flight \ {s}) \cup ((claimed + 1) .. claimed')
  BY <1>1, ClaimIsOne
<1>3. row \in Row /\ row.seq = s
  BY <1>1 DEF TypeOK, Row
<1>4. s \notin Seqs(results) /\ s \notin flight'
  <2>1. s \notin (claimed + 1) .. claimed'
    BY <1>1, <1>2 DEF TypeOK
  <2> QED
    BY <1>2, <2>1 DEF PInv, PoolAccounts
<1>5. /\ results' \subseteq Row /\ terminal' \subseteq Row
      /\ IsFiniteSet(results') /\ IsFiniteSet(Seqs(results'))
      /\ Cardinality(Seqs(results')) = Cardinality(results')
      /\ Seqs(results') \subseteq Seqs(results) \cup {s}
      /\ ~failed' => Seqs(results') = Seqs(results) \cup {s}
  <2>1. CASE results' = results /\ terminal' = terminal /\ failed'
    BY <1>1, <2>1 DEF TypeOK, PInv, PoolAccounts
  <2>2. CASE Keep(s, outcome)
    <3>1. /\ results' = results \cup {row}
          /\ terminal' = IF pc = "measured" THEN terminal \cup {row} ELSE terminal
      BY <2>2 DEF Keep, Collect
    <3>2. /\ Seqs(results') = Seqs(results) \cup {row.seq}
          /\ IsFiniteSet(results') /\ IsFiniteSet(Seqs(results'))
          /\ Cardinality(Seqs(results')) = Cardinality(results')
      <4> HIDE DEF row
      <4> QED
        BY <1>3, <1>4, <3>1, RowIsOne DEF PInv, PoolAccounts
    <3> QED
      BY <1>1, <1>3, <3>1, <3>2 DEF TypeOK
  <2> QED
    BY <2>1, <2>2
<1>6. TypeOK'
  BY <1>1, <1>2, <1>4, <1>5 DEF TypeOK
<1>7. Seqs(results)' = Seqs(results')
  BY DEF Seqs
<1>8. /\ flight' \cap Seqs(results') = {}
      /\ flight' \cup Seqs(results') \subseteq 1 .. claimed'
      /\ ~failed' => flight' \cup Seqs(results') = 1 .. claimed'
  <2>1. 1 .. claimed' = (1 .. claimed) \cup ((claimed + 1) .. claimed')
    BY <1>1, <1>2 DEF TypeOK
  <2>2. /\ flight \cap Seqs(results) = {}
        /\ flight \cup Seqs(results) \subseteq 1 .. claimed
        /\ ~failed => flight \cup Seqs(results) = 1 .. claimed
    BY DEF PInv, PoolAccounts
  <2>3. flight' \cap Seqs(results') = {}
    BY <1>2, <1>4, <1>5, <2>2
  <2>4. flight' \cup Seqs(results') \subseteq 1 .. claimed'
    BY <1>2, <1>5, <2>1, <2>2
  <2>5. ASSUME ~failed' PROVE flight' \cup Seqs(results') = 1 .. claimed'
    BY <1>2, <1>5, <2>1, <2>2, <2>5
  <2> QED
    BY <2>3, <2>4, <2>5
<1>9. Cardinality(flight') + fresh' <= Levels[at]
  <2>1. Cardinality(flight \ {s}) = Cardinality(flight) - 1 /\ Cardinality(flight) \in Nat
    BY FS_RemoveElement, FS_CardinalityType DEF PInv
  <2>2. Levels[at] \in Nat /\ Cardinality(flight) + fresh <= Levels[at] /\ fresh \in Nat
    BY DEF PInv, PoolAccounts, TypeOK
  <2> QED
    BY <1>2, <2>1, <2>2
<1>10. claimed' <= Requests + Warmups
  BY <1>2 DEF Count
<1>11. PoolAccounts'
  BY <1>5, <1>6, <1>7, <1>8, <1>9, <1>10 DEF PoolAccounts
<1> QED
  BY <1>1, <1>2, <1>5, <1>7, <1>11 DEF PInv, Count

LEMMA SettlePool ==
    ASSUME PInv, NEW s \in flight, NEW outcome \in Outcomes, Settle(s, outcome)
    PROVE  PInv'
<1>1. claimed \in Nat /\ failed \in BOOLEAN
  BY DEF PInv, PoolAccounts, TypeOK
<1>2. Claim(flight \ {s}, results')
  BY DEF Settle
<1>3. Claims(flight \ {s})
  BY <1>1, <1>2, ClaimCases
<1> QED
  BY <1>1, <1>3, RequestEndsPool DEF Settle

LEMMA RaisePool ==
    ASSUME PInv, NEW s \in flight, Raise(s)
    PROVE  PInv'
<1>1. failed \in BOOLEAN /\ failed' = TRUE /\ Claims(flight \ {s})
  BY DEF PInv, PoolAccounts, TypeOK, Raise, Claims
<1>2. PICK outcome \in Outcomes :
          (results' = results /\ terminal' = terminal) \/ Keep(s, outcome)
  <2>1. "success" \in Outcomes /\ Ends(s) \subseteq Outcomes
    BY DEF Ends, Outcomes
  <2> QED
    BY <2>1 DEF Raise
<1> QED
  BY <1>1, <1>2, RequestEndsPool DEF Raise

LEMMA AbortPool ==
    ASSUME PInv, Abort
    PROVE  PInv'
<1>1. /\ fresh' = 0 /\ doomed' = flight /\ aborting' = TRUE
      /\ UNCHANGED <<pc, at, claimed, results, terminal, failed, cancel, sampler,
                     levels, status, flight>>
  BY DEF Abort, CancelTasks
<1>2. Seqs(results)' = Seqs(results)
  BY <1>1 DEF Seqs
<1>3. TypeOK'
  BY <1>1 DEF PInv, PoolAccounts, TypeOK
<1>4. Cardinality(flight) + 0 <= Levels[at]
  <2>1. Cardinality(flight) \in Nat /\ Levels[at] \in Nat /\ fresh \in Nat
        /\ Cardinality(flight) + fresh <= Levels[at]
    BY ConfigAssumption, FS_CardinalityType DEF PInv, PoolAccounts, TypeOK
  <2> QED
    BY <2>1
<1> QED
  BY <1>1, <1>2, <1>3, <1>4 DEF PInv, PoolAccounts, Count

(* Nothing of the pool moves while the main task does. *)
LEMMA PoolStays ==
    ASSUME PInv, UNCHANGED <<pool, at>>,
           terminal' = terminal \/ terminal' = {},
           failed' = failed, cancel' \in {cancel, TRUE},
           levels' \in Seq(LevelResults),
           sampler' \in {"off", "on", "stopping"},
           status' \in {"running", "completed", "cancelled", "error"},
           \/ pc' = pc
           \/ /\ fresh = 0 /\ flight = {}
              /\ pc' \in {"sampling", "done"} \/ (pc' = "between" /\ at < Len(Levels))
    PROVE  PInv'
<1>1. /\ fresh' = fresh /\ flight' = flight /\ doomed' = doomed /\ claimed' = claimed
      /\ results' = results /\ aborting' = aborting /\ at' = at
  BY DEF pool
<1>2. Seqs(results)' = Seqs(results)
  BY <1>1 DEF Seqs
<1>3. \A i \in DOMAIN levels' : levels'[i] \in LevelResults
  OBVIOUS
<1>4. TypeOK'
  BY <1>1, <1>3 DEF PInv, PoolAccounts, TypeOK, Phase, LevelResults
<1>5. PoolAccounts'
  BY <1>1, <1>2, <1>4 DEF PInv, PoolAccounts
<1> QED
  BY <1>1, <1>2, <1>5 DEF PInv, Phase, Count

LEMMA PhaseStartsPool ==
    ASSUME PInv, NEW phase \in Phase, NEW i \in DOMAIN Levels, StartPhase(phase, i),
           terminal' = {}, UNCHANGED <<failed, cancel, status>>,
           levels' \in Seq(LevelResults), sampler' \in {"off", "on", "stopping"}
    PROVE  PInv'
<1>1. /\ pc' = phase /\ at' = i /\ claimed' = 0 /\ results' = {} /\ flight' = {}
      /\ fresh' \in Nat /\ fresh' <= Levels[i] /\ doomed' = {} /\ aborting' = FALSE
      /\ Seqs(results') = {}
      /\ IsFiniteSet(flight') /\ IsFiniteSet(results') /\ IsFiniteSet(Seqs(results'))
      /\ Cardinality(flight') = 0 /\ Cardinality(results') = 0
      /\ Cardinality(Seqs(results')) = 0
      /\ flight' \cup Seqs(results') = 1 .. claimed'
      /\ 0 <= Count(phase) /\ Count(phase) <= Requests + Warmups
  BY PhaseStarts
<1>2. Seqs(results)' = Seqs(results')
  BY DEF Seqs
<1>3. \A k \in DOMAIN levels' : levels'[k] \in LevelResults
  OBVIOUS
<1>4. TypeOK'
  BY <1>1, <1>3 DEF PInv, PoolAccounts, TypeOK, Phase, LevelResults
<1>5. 0 <= Requests + Warmups
  BY ConfigAssumption
<1>6. 0 + fresh' <= Levels[i]
  BY <1>1
<1>7. PoolAccounts'
  BY <1>1, <1>2, <1>4, <1>5, <1>6 DEF PInv, PoolAccounts
<1> QED
  BY <1>1, <1>2, <1>7 DEF PInv, Phase, Count

LEMMA LevelStartsPool ==
    ASSUME PInv, NEW i \in DOMAIN Levels, StartLevel(i),
           UNCHANGED <<failed, cancel, status>>, levels' \in Seq(LevelResults)
    PROVE  PInv'
<1>1. "warmup" \in Phase /\ "measured" \in Phase
  BY DEF Phase
<1>2. sampler \in {"off", "on", "stopping"}
  BY DEF PInv, PoolAccounts, TypeOK
<1> QED
  BY <1>1, <1>2, PhaseStartsPool DEF StartLevel

LEMMA AppendIs ==
    ASSUME NEW S, NEW ls \in Seq(S), NEW x \in S
    PROVE  /\ Append(ls, x) \in Seq(S)
           /\ Len(Append(ls, x)) = Len(ls) + 1
           /\ DOMAIN Append(ls, x) = DOMAIN ls \cup {Len(ls) + 1}
           /\ \A i \in DOMAIN ls : Append(ls, x)[i] = ls[i]
           /\ Append(ls, x)[Len(ls) + 1] = x
OBVIOUS

(* Rows make a level, which levels can take. *)
LEMMA LevelsTyped ==
    ASSUME PInv
    PROVE  /\ \A rows \in SUBSET Row, early \in BOOLEAN :
                  /\ LevelResult(rows, early) \in LevelResults
                  /\ Append(levels, LevelResult(rows, early)) \in Seq(LevelResults)
           /\ WithPartial \in Seq(LevelResults)
           /\ <<>> \in Seq(LevelResults)
           /\ levels \in Seq(LevelResults)
           /\ results \in SUBSET Row /\ terminal \in SUBSET Row
           /\ AllFirstFailed(results) \in BOOLEAN
<1>1. levels \in Seq(LevelResults) /\ at \in DOMAIN Levels
      /\ results \in SUBSET Row /\ terminal \in SUBSET Row
  BY DEF PInv, PoolAccounts, TypeOK
<1>2. ASSUME NEW rows \in SUBSET Row, NEW early \in BOOLEAN
      PROVE  LevelResult(rows, early) \in LevelResults
  BY <1>1 DEF LevelResult, LevelResults
<1>3. WithPartial \in Seq(LevelResults)
  <2>1. LevelResult(terminal, FALSE) \in LevelResults
    BY <1>1, <1>2
  <2>2. Append(levels, LevelResult(terminal, FALSE)) \in Seq(LevelResults)
    BY <1>1, <2>1, AppendIs
  <2> QED
    BY <1>1, <2>2 DEF WithPartial
<1>4. AllFirstFailed(results) \in BOOLEAN
  BY DEF AllFirstFailed
<1>5. ASSUME NEW rows \in SUBSET Row, NEW early \in BOOLEAN
      PROVE  Append(levels, LevelResult(rows, early)) \in Seq(LevelResults)
  BY <1>1, <1>2, <1>5, AppendIs
<1> QED
  BY <1>1, <1>2, <1>3, <1>4, <1>5

LEMMA WarmupEndsPool ==
    ASSUME PInv, WarmupEnds
    PROVE  PInv'
<1>1. fresh = 0 /\ flight = {} /\ UNCHANGED <<failed, cancel>>
  BY DEF WarmupEnds, PoolDone
<1>2. sampler \in {"off", "on", "stopping"} /\ at \in DOMAIN Levels
      /\ "measured" \in Phase
  BY DEF PInv, PoolAccounts, TypeOK, Phase
<1>3. CASE aborting
  <2>1. levels' \in Seq(LevelResults)
    BY <1>3, LevelsTyped DEF WarmupEnds
  <2> QED
    BY <1>1, <1>2, <1>3, <2>1, PoolStays DEF WarmupEnds, Finish
<1>4. CASE ~aborting /\ Failures(results) = results
  BY <1>1, <1>2, <1>4, LevelsTyped, PoolStays DEF WarmupEnds, Finish
<1>5. CASE ~aborting /\ Failures(results) # results
  BY <1>1, <1>2, <1>5, LevelsTyped, PhaseStartsPool DEF WarmupEnds
<1> QED
  BY <1>3, <1>4, <1>5

LEMMA LevelEndsPool ==
    ASSUME PInv, LevelEnds
    PROVE  PInv'
<1> DEFINE early == AllFirstFailed(results)
           more == Append(levels, LevelResult(results, early))
<1>1. /\ fresh = 0 /\ flight = {} /\ UNCHANGED <<failed, cancel>>
      /\ sampler \in {"off", "on", "stopping"} /\ at \in DOMAIN Levels /\ at \in Nat
      /\ status \in {"running", "completed", "cancelled", "error"}
  BY ConfigAssumption DEF PInv, PoolAccounts, TypeOK, LevelEnds, Phase
<1>2. levels' = more /\ more \in Seq(LevelResults)
  BY LevelsTyped DEF LevelEnds
<1> HIDE DEF more
<1>3. CASE LastLevel(early)
  BY <1>1, <1>2, <1>3, PoolStays DEF LevelEnds, Finish
<1>4. CASE ~LastLevel(early)
  <2>1. at < Len(Levels) /\ at + 1 \in DOMAIN Levels
    BY <1>1, <1>4, ConfigAssumption DEF LastLevel
  <2>2. \/ pc' = "between" /\ UNCHANGED <<pool, at, terminal, sampler, status>>
        \/ StartLevel(at + 1) /\ UNCHANGED status
    BY <1>4 DEF LevelEnds
  <2>3. CASE pc' = "between" /\ UNCHANGED <<pool, at, terminal, sampler, status>>
    BY <1>1, <1>2, <2>1, <2>3, PoolStays
  <2>4. CASE StartLevel(at + 1) /\ UNCHANGED status
    BY <1>1, <1>2, <2>1, <2>4, LevelStartsPool
  <2> QED
    BY <2>2, <2>3, <2>4
<1> QED
  BY <1>3, <1>4

LEMMA PoolStep ==
    ASSUME PInv, [Next]_vars
    PROVE  PInv'
<1>1. /\ sampler \in {"off", "on", "stopping"} /\ at \in DOMAIN Levels
      /\ status \in {"running", "completed", "cancelled", "error"}
      /\ levels \in Seq(LevelResults) /\ WithPartial \in Seq(LevelResults)
      /\ <<>> \in Seq(LevelResults)
      /\ pc \notin Phase => fresh = 0 /\ flight = {}
  BY LevelsTyped DEF PInv, PoolAccounts, TypeOK
<1>2. CASE MeasuredEnds
  BY <1>1, <1>2, PoolStays DEF MeasuredEnds, PoolDone
<1>3. CASE SamplerStops
  BY <1>1, <1>3, PoolStays DEF SamplerStops
<1>4. CASE DelayOver
  <2>1. at + 1 \in DOMAIN Levels
    BY <1>1, <1>4, ConfigAssumption DEF DelayOver, PInv
  <2> QED
    BY <1>1, <1>4, <2>1, LevelStartsPool DEF DelayOver
<1>5. CASE Cancelled
  BY <1>1, <1>5, PoolStays DEF Cancelled, Finish, Phase
<1>6. CASE Failed
  BY <1>1, <1>6, PoolStays DEF Failed, Finish, Phase
<1>7. CASE Cancel
  BY <1>1, <1>7, PoolStays DEF Cancel
<1>8. CASE UNCHANGED vars
  BY <1>1, <1>8, PoolStays DEF vars, pool
<1>9. CASE Done
  BY <1>8, <1>9 DEF Done
<1> QED
  BY <1>2, <1>3, <1>4, <1>5, <1>6, <1>7, <1>8, <1>9, StartWorkerPool, SettlePool,
     RaisePool, AbortPool, WarmupEndsPool, LevelEndsPool DEF Next

(* The pool of run_bounded_workers loses no claimed request, answers none      *)
(* twice and has no more in flight than its level allows, for every            *)
(* configuration.                                                              *)
THEOREM PoolIsAccounted ==
    Spec => []PoolAccounts
<1>1. PInv => PoolAccounts
  BY DEF PInv
<1> QED
  BY <1>1, PoolInit, PoolStep, PTL DEF Spec

-----------------------------------------------------------------------------
(* Stops *)

(* Once the first requests have failed, no further row changes that. *)
LEMMA FailedStays ==
    ASSUME AllFirstFailed(results), results \subseteq results'
    PROVE  AllFirstFailed(results')
BY DEF AllFirstFailed

LEMMA RowsStay ==
    ASSUME NEW s, NEW outcome, Keep(s, outcome)
    PROVE  results \subseteq results'
BY DEF Keep, Collect

Stopped == cancel \/ (pc = "measured" /\ AllFirstFailed(results))

LEMMA StoppedStep ==
    ASSUME PInv, [Next]_vars, Stopped
    PROVE  claimed' <= claimed /\ at' = at /\ fresh' <= fresh
<1>1. claimed \in Nat /\ fresh \in Nat
  BY DEF PInv, PoolAccounts, TypeOK
<1>2. CASE StartWorker
  <2>1. Claim(flight, results) /\ ShouldStop(results) /\ fresh' = fresh - 1 /\ at' = at
    BY <1>2 DEF StartWorker, ShouldStop, Stopped
  <2>2. claimed' = claimed
    BY <1>1, <2>1, ClaimCases
  <2> QED
    BY <1>1, <2>1, <2>2
<1>3. ASSUME NEW s \in flight, NEW outcome \in Outcomes, Settle(s, outcome)
      PROVE  claimed' <= claimed /\ at' = at /\ fresh' <= fresh
  <2>1. Claim(flight \ {s}, results') /\ fresh' = fresh /\ at' = at
    BY <1>3 DEF Settle
  <2>2. ShouldStop(results')
    BY <1>3, RowsStay, FailedStays DEF Settle, ShouldStop, Stopped
  <2>3. claimed' = claimed
    BY <1>1, <2>1, <2>2, ClaimCases
  <2> QED
    BY <1>1, <2>1, <2>3
<1>4. ASSUME NEW s \in flight, Raise(s)
      PROVE  claimed' <= claimed /\ at' = at /\ fresh' <= fresh
  BY <1>1, <1>4 DEF Raise
<1>5. CASE Abort
  BY <1>1, <1>5 DEF Abort, CancelTasks
<1>6. CASE WarmupEnds
  <2>1. aborting
    BY <1>6 DEF WarmupEnds, PoolDone, Stopped
  <2> QED
    BY <1>1, <1>6, <2>1 DEF WarmupEnds, Finish, pool
<1>7. CASE MeasuredEnds \/ SamplerStops \/ Cancelled \/ Failed \/ Cancel \/ Done
           \/ UNCHANGED vars
  BY <1>1, <1>7 DEF MeasuredEnds, SamplerStops, Cancelled, Failed, Cancel, Done, Finish,
                    pool, vars
<1>8. ~LevelEnds /\ ~DelayOver
  BY DEF LevelEnds, DelayOver, Stopped
<1> QED
  BY <1>2, <1>3, <1>4, <1>5, <1>6, <1>7, <1>8 DEF Next

(* After Escape, or once the first requests of a measured phase have failed,   *)
(* no request is claimed and no phase or level follows, however many workers   *)
(* still wait for theirs.                                                      *)
THEOREM NothingFollowsAStop ==
    Spec => StopsClaiming
<1>1. PInv /\ [Next]_vars =>
          [Stopped => claimed' <= claimed /\ at' = at /\ fresh' <= fresh]_vars
  BY StoppedStep
<1> QED
  BY <1>1, PoolInit, PoolStep, PTL DEF Spec, StopsClaiming, Stopped

-----------------------------------------------------------------------------
(* Levels *)

(* Until the end: the levels before the one under way are recorded, and none   *)
(* stopped early; the rows of the phase are its own, and those of a measured   *)
(* phase are the ones a cancellation would keep.                               *)
Underway ==
    /\ Len(levels) = IF pc = "between" THEN at ELSE at - 1
    /\ \A i \in DOMAIN levels : ~levels[i].early
    /\ \A row \in results : row.level = at
    /\ terminal = IF pc = "warmup" THEN {} ELSE results
    /\ aborting => cancel \/ failed
    /\ pc = "between" => levels[at].rows = terminal

(* A measured pool with requests left has a worker for them, unless it stops.  *)
Busy ==
    \/ cancel \/ failed \/ AllFirstFailed(results)
    \/ claimed >= Requests \/ flight # {} \/ fresh > 0

LInv ==
    /\ LevelsMakeTheResult
    /\ pc # "done" => Underway
    /\ pc \in {"measured", "sampling"} => Busy

LEMMA LevelsInit ==
    ASSUME Init
    PROVE  LInv
<1>1. /\ pc \in Phase /\ levels = <<>> /\ results = {} /\ terminal = {} /\ at = 1
      /\ aborting = FALSE /\ DOMAIN levels = {} /\ Len(levels) = 0
  BY DEF Init, Phase
<1>2. pc # "done" /\ pc # "between" /\ pc # "sampling"
  BY <1>1 DEF Phase
<1>3. LevelsMakeTheResult /\ Underway
  BY <1>1, <1>2 DEF LevelsMakeTheResult, LevelsCoherent, ResultTellsTheTruth, Underway
<1>4. pc = "measured" => fresh > 0
  <2>1. Levels[1] \in Nat \ {0} /\ Requests \in Nat \ {0}
    BY ConfigAssumption
  <2>2. fresh = Smaller(Levels[1], Count(pc))
    BY DEF Init
  <2> QED
    BY <2>1, <2>2 DEF Smaller, Count
<1> QED
  BY <1>2, <1>3, <1>4 DEF LInv, Busy

(* Recorded levels stay coherent: stops and failures only come. *)
LEMMA CoherentStays ==
    ASSUME LevelsCoherent, levels' = levels, failed => failed', cancel => cancel',
           \/ pc' # "done"
           \/ (pc = "done" /\ status' = status)
           \/ \A i \in DOMAIN levels : ~levels[i].early
    PROVE  LevelsCoherent'
<1> SUFFICES ASSUME NEW i \in DOMAIN levels
             PROVE  /\ levels[i].level = i
                    /\ \A row \in levels[i].rows : row.level = i
                    /\ ~failed' => Seqs(levels[i].rows) = 1 .. Cardinality(levels[i].rows)
                    /\ Cardinality(levels[i].rows) < Requests =>
                           levels[i].partial /\ (levels[i].early \/ cancel')
                    /\ levels[i].early =>
                           i = Len(levels) /\ (pc' = "done" => status' = "completed")
  BY DEF LevelsCoherent, Seqs
<1> QED
  BY DEF LevelsCoherent

(* What LevelsCoherent says of the level under way, once it is recorded.       *)
Sound(x) ==
    /\ x.level = at
    /\ \A row \in x.rows : row.level = at
    /\ ~failed => Seqs(x.rows) = 1 .. Cardinality(x.rows)
    /\ Cardinality(x.rows) < Requests => x.partial /\ (x.early \/ cancel)

LEMMA CoherentGrows ==
    ASSUME LevelsCoherent, levels \in Seq(LevelResults), Len(levels) = at - 1, at \in Nat,
           \A i \in DOMAIN levels : ~levels[i].early,
           NEW x \in LevelResults, Sound(x), levels' = Append(levels, x),
           UNCHANGED <<failed, cancel>>,
           x.early /\ pc' = "done" => status' = "completed"
    PROVE  LevelsCoherent'
<1>1. /\ levels' \in Seq(LevelResults) /\ Len(levels') = at
      /\ DOMAIN levels' = DOMAIN levels \cup {at}
      /\ \A i \in DOMAIN levels : levels'[i] = levels[i]
      /\ levels'[at] = x
  BY AppendIs
<1> SUFFICES ASSUME NEW i \in DOMAIN levels'
             PROVE  /\ levels'[i].level = i
                    /\ \A row \in levels'[i].rows : row.level = i
                    /\ ~failed => Seqs(levels'[i].rows) = 1 .. Cardinality(levels'[i].rows)
                    /\ Cardinality(levels'[i].rows) < Requests =>
                           levels'[i].partial /\ (levels'[i].early \/ cancel)
                    /\ levels'[i].early =>
                           i = Len(levels') /\ (pc' = "done" => status' = "completed")
  BY DEF LevelsCoherent, Seqs
<1>2. CASE i \in DOMAIN levels
  BY <1>1, <1>2 DEF LevelsCoherent
<1>3. CASE i = at
  BY <1>1, <1>3 DEF Sound
<1> QED
  BY <1>1, <1>2, <1>3

(* The measured pool is done: its rows are a sound level, cut short for the    *)
(* reason the level states or for a cancellation.                              *)
LEMMA RowsAreSound ==
    ASSUME PInv, LInv, pc = "sampling", NEW early \in BOOLEAN,
           cancel \/ (~failed /\ early = AllFirstFailed(results))
    PROVE  Sound(LevelResult(results, early)) /\ terminal = results
<1> DEFINE x == LevelResult(results, early)
<1>1. /\ flight = {} /\ fresh = 0 /\ claimed \in Nat /\ Busy /\ Underway
      /\ IsFiniteSet(results)
      /\ ~failed => Seqs(results) = 1 .. claimed
      /\ Cardinality(Seqs(results)) = Cardinality(results)
  BY DEF PInv, PoolAccounts, TypeOK, LInv, Phase
<1>2. x.level = at /\ x.rows = results /\ x.early = early
      /\ (Cardinality(results) < Requests => x.partial)
  BY DEF LevelResult
<1>3. ~failed => Cardinality(results) = claimed
  <2>1. Cardinality(1 .. claimed) = claimed
    BY <1>1, FS_Interval
  <2> QED
    BY <1>1, <2>1
<1>4. Cardinality(results) < Requests => early \/ cancel
  <2>1. Cardinality(results) \in Nat /\ Requests \in Nat
    BY <1>1, FS_CardinalityType, ConfigAssumption
  <2> QED
    BY <1>1, <1>3, <2>1 DEF Busy
<1>5. (\A row \in results : row.level = at) /\ terminal = results
  BY <1>1 DEF Underway
<1> HIDE DEF x
<1>6. Sound(x)
  BY <1>1, <1>2, <1>3, <1>4, <1>5 DEF Sound
<1> QED
  BY <1>5, <1>6 DEF x

(* A step of the pool adds rows of its level, and records nothing. *)
LEMMA PoolStepLevels ==
    ASSUME PInv, LInv, pc \in Phase, UNCHANGED <<pc, at, levels, status, cancel>>,
           failed => failed', \A row \in results' : row.level = at,
           terminal' = (IF pc = "warmup" THEN {} ELSE results'),
           aborting' => cancel \/ failed',
           pc = "measured" => Busy'
    PROVE  LInv'
<1>1. pc # "done" /\ pc # "between" /\ pc # "sampling"
  BY DEF Phase
<1>2. LevelsCoherent'
  BY <1>1, CoherentStays DEF LInv, LevelsMakeTheResult
<1>3. Underway'
  BY <1>1 DEF LInv, Underway
<1> QED
  BY <1>1, <1>2, <1>3 DEF LInv, LevelsMakeTheResult, ResultTellsTheTruth

LEMMA StartWorkerLevels ==
    ASSUME PInv, LInv, StartWorker
    PROVE  LInv'
<1>1. /\ pc \in Phase /\ fresh' = fresh - 1 /\ claimed \in Nat /\ Claim(flight, results)
      /\ UNCHANGED <<pc, at, results, terminal, failed, aborting, cancel, levels, status>>
  BY DEF StartWorker, PInv, PoolAccounts, TypeOK
<1>2. Underway
  BY <1>1 DEF LInv, Phase
<1>3. pc = "measured" => Busy'
  <2>1. ShouldStop(results) \/ claimed' >= Count(pc) \/ flight' # {}
    BY <1>1, ClaimCases
  <2>2. AllFirstFailed(results)' = AllFirstFailed(results)
    BY <1>1 DEF AllFirstFailed
  <2> QED
    BY <1>1, <2>1, <2>2 DEF Busy, ShouldStop, Count
<1>4. terminal' = IF pc = "warmup" THEN {} ELSE results'
  BY <1>1, <1>2, Zenon DEF Underway, Phase
<1> QED
  BY <1>1, <1>2, <1>3, <1>4, PoolStepLevels DEF Underway

LEMMA KeepLevels ==
    ASSUME PInv, LInv, pc \in Phase, NEW s, NEW outcome, Keep(s, outcome)
    PROVE  /\ \A row \in results' : row.level = at
           /\ terminal' = (IF pc = "warmup" THEN {} ELSE results')
<1> DEFINE row == [level |-> at, seq |-> s, outcome |-> outcome]
<1>1. Underway
  BY DEF LInv, Phase
<1>2. /\ results' = results \cup {row} /\ row.level = at
      /\ terminal' = IF pc = "measured" THEN terminal \cup {row} ELSE terminal
  BY DEF Keep, Collect
<1> HIDE DEF row
<1>3. \A r \in results' : r.level = at
  BY <1>1, <1>2 DEF Underway
<1> QED
  BY <1>1, <1>2, <1>3 DEF Underway, Phase

LEMMA SettleLevels ==
    ASSUME PInv, LInv, NEW s \in flight, NEW outcome \in Outcomes, Settle(s, outcome)
    PROVE  LInv'
<1>1. /\ pc \in Phase /\ claimed \in Nat /\ Claim(flight \ {s}, results')
      /\ Keep(s, outcome)
      /\ UNCHANGED <<pc, at, failed, aborting, cancel, levels, status>>
  BY DEF Settle, PInv, PoolAccounts, TypeOK
<1>2. Underway
  BY <1>1 DEF LInv, Phase
<1>3. pc = "measured" => Busy'
  <2>1. ShouldStop(results') \/ claimed' >= Count(pc) \/ flight' # {}
    BY <1>1, ClaimCases
  <2>2. AllFirstFailed(results)' = AllFirstFailed(results')
    BY DEF AllFirstFailed
  <2> QED
    BY <1>1, <2>1, <2>2 DEF Busy, ShouldStop, Count
<1> QED
  BY <1>1, <1>2, <1>3, KeepLevels, PoolStepLevels DEF Underway

LEMMA RaiseLevels ==
    ASSUME PInv, LInv, NEW s \in flight, Raise(s)
    PROVE  LInv'
<1>1. /\ pc \in Phase /\ failed' = TRUE
      /\ UNCHANGED <<pc, at, aborting, cancel, levels, status>>
      /\ UNCHANGED <<results, terminal>> \/ \E outcome \in Ends(s) : Keep(s, outcome)
  BY DEF Raise, PInv
<1>2. Underway
  BY <1>1 DEF LInv, Phase
<1>3. /\ \A row \in results' : row.level = at
      /\ terminal' = (IF pc = "warmup" THEN {} ELSE results')
  <2>1. CASE UNCHANGED <<results, terminal>>
    BY <1>2, <2>1 DEF Underway
  <2>2. CASE \E outcome \in Ends(s) : Keep(s, outcome)
    BY <1>1, <2>2, KeepLevels
  <2> QED
    BY <1>1, <2>1, <2>2
<1> QED
  BY <1>1, <1>2, <1>3, PoolStepLevels DEF Busy

LEMMA AbortLevels ==
    ASSUME PInv, LInv, Abort
    PROVE  LInv'
<1>1. /\ pc \in Phase
      /\ cancel \/ failed
      /\ UNCHANGED <<pc, at, results, terminal, failed, cancel, levels, status>>
  BY DEF Abort
<1>2. pc # "done" /\ Underway
  <2>1. pc # "done"
    BY <1>1 DEF Phase
  <2> QED
    BY <2>1 DEF LInv
<1>3. /\ \A row \in results' : row.level = at
      /\ terminal' = IF pc = "warmup" THEN {} ELSE results'
  BY <1>1, <1>2, Zenon DEF Underway
<1>4. Busy'
  BY <1>1, Zenon DEF Busy
<1>5. (failed => failed') /\ (aborting' => cancel \/ failed')
  BY <1>1, Zenon
<1> QED
  BY <1>1, <1>3, <1>4, <1>5, PoolStepLevels

(* A phase starts with the levels before its own recorded. *)
LEMMA PhaseStartsLevels ==
    ASSUME NEW phase \in Phase, NEW i \in DOMAIN Levels, StartPhase(phase, i),
           terminal' = {}, LevelsCoherent',
           Len(levels') = i - 1, \A k \in DOMAIN levels' : ~levels'[k].early
    PROVE  LInv'
<1>1. /\ pc' = phase /\ at' = i /\ results' = {} /\ aborting' = FALSE
      /\ Count(phase) > 0 => fresh' > 0
  BY PhaseStarts
<1>2. pc' # "done" /\ pc' # "between" /\ pc' # "sampling"
  BY <1>1 DEF Phase
<1>3. Underway'
  BY <1>1, <1>2 DEF Underway
<1>4. pc' = "measured" => Busy'
  BY <1>1, ConfigAssumption DEF Busy, Count
<1> QED
  BY <1>2, <1>3, <1>4 DEF LInv, LevelsMakeTheResult, ResultTellsTheTruth

LEMMA LevelStartsLevels ==
    ASSUME NEW i \in DOMAIN Levels, StartLevel(i), LevelsCoherent',
           Len(levels') = i - 1, \A k \in DOMAIN levels' : ~levels'[k].early
    PROVE  LInv'
<1>1. "warmup" \in Phase /\ "measured" \in Phase
  BY DEF Phase
<1> QED
  BY <1>1, PhaseStartsLevels DEF StartLevel

(* Once it has ended, a run says what its levels say.                          *)
LEMMA EndsTelling ==
    ASSUME pc' = "done", LevelsCoherent', ResultTellsTheTruth'
    PROVE  LInv'
BY DEF LInv, LevelsMakeTheResult

LEMMA WarmupEndsLevels ==
    ASSUME PInv, LInv, WarmupEnds
    PROVE  LInv'
<1>1. /\ pc = "warmup" /\ UNCHANGED <<failed, cancel>>
      /\ Underway /\ LevelsCoherent /\ at \in DOMAIN Levels
      /\ failed \in BOOLEAN /\ cancel \in BOOLEAN /\ aborting \in BOOLEAN
      /\ cancel \/ failed => aborting
  BY DEF WarmupEnds, LInv, LevelsMakeTheResult, PInv, PoolAccounts, TypeOK, PoolDone
<1>2. terminal = {} /\ WithPartial = levels
  BY <1>1 DEF Underway, WithPartial
<1>3. CASE aborting /\ failed
  <2>1. pc' = "done" /\ status' = "error" /\ levels' = <<>>
    BY <1>3 DEF WarmupEnds, Finish
  <2>2. LevelsCoherent' /\ ResultTellsTheTruth'
    BY <1>1, <1>3, <2>1 DEF LevelsCoherent, ResultTellsTheTruth
  <2> QED
    BY <2>1, <2>2, EndsTelling
<1>4. CASE aborting /\ ~failed
  <2>1. pc' = "done" /\ status' = "cancelled" /\ levels' = levels /\ terminal' = terminal
    BY <1>2, <1>4 DEF WarmupEnds, Finish
  <2>2. cancel /\ \A i \in DOMAIN levels : ~levels[i].early
    BY <1>1, <1>4 DEF Underway
  <2>3. LevelsCoherent'
    BY <1>1, <2>1, <2>2, CoherentStays
  <2>4. ResultTellsTheTruth'
    BY <1>1, <1>2, <2>1, <2>2 DEF ResultTellsTheTruth
  <2> QED
    BY <2>1, <2>3, <2>4, EndsTelling
<1>5. CASE ~aborting /\ Failures(results) = results
  <2>1. pc' = "done" /\ status' = "error" /\ levels' = levels /\ ~cancel /\ ~failed
    BY <1>1, <1>5 DEF WarmupEnds, Finish
  <2>2. LevelsCoherent'
    BY <1>1, <2>1, CoherentStays DEF Underway
  <2>3. ResultTellsTheTruth'
    BY <1>1, <2>1 DEF ResultTellsTheTruth
  <2> QED
    BY <2>1, <2>2, <2>3, EndsTelling
<1>6. CASE ~aborting /\ Failures(results) # results
  <2>1. /\ StartPhase("measured", at) /\ terminal' = {} /\ levels' = levels
        /\ "measured" \in Phase /\ pc' # "done"
    BY <1>6 DEF WarmupEnds, StartPhase, Phase
  <2>2. LevelsCoherent'
    BY <1>1, <2>1, CoherentStays
  <2>3. Len(levels') = at - 1 /\ \A i \in DOMAIN levels' : ~levels'[i].early
    BY <1>1, <2>1 DEF Underway
  <2> QED
    BY <1>1, <2>1, <2>2, <2>3, PhaseStartsLevels
<1> QED
  BY <1>1, <1>3, <1>4, <1>5, <1>6

LEMMA MeasuredEndsLevels ==
    ASSUME PInv, LInv, MeasuredEnds
    PROVE  LInv'
<1>1. /\ pc = "measured" /\ pc' = "sampling"
      /\ fresh' = fresh /\ flight' = flight /\ claimed' = claimed
      /\ results' = results /\ aborting' = aborting
      /\ UNCHANGED <<at, terminal, failed, cancel, levels, status>>
  BY DEF MeasuredEnds, pool
<1>2. Underway /\ Busy /\ LevelsCoherent
  BY <1>1 DEF LInv, LevelsMakeTheResult
<1>3. LevelsCoherent'
  BY <1>1, <1>2, CoherentStays
<1>4. Underway'
  BY <1>1, <1>2 DEF Underway
<1>5. AllFirstFailed(results)' = AllFirstFailed(results)
  BY <1>1 DEF AllFirstFailed
<1>6. Busy'
  BY <1>1, <1>2, <1>5 DEF Busy
<1> QED
  BY <1>1, <1>3, <1>4, <1>6 DEF LInv, LevelsMakeTheResult, ResultTellsTheTruth

LEMMA LevelEndsLevels ==
    ASSUME PInv, LInv, LevelEnds
    PROVE  LInv'
<1> DEFINE early == AllFirstFailed(results)
           x == LevelResult(results, early)
<1>1. /\ pc = "sampling" /\ ~cancel /\ ~failed /\ UNCHANGED <<failed, cancel>>
      /\ levels' = Append(levels, x) /\ at \in DOMAIN Levels /\ at \in Nat
      /\ Underway /\ LevelsCoherent /\ levels \in Seq(LevelResults)
  BY ConfigAssumption DEF LevelEnds, LInv, LevelsMakeTheResult, PInv, PoolAccounts, TypeOK
<1>2. Len(levels) = at - 1 /\ \A i \in DOMAIN levels : ~levels[i].early
  BY <1>1 DEF Underway
<1>3. early \in BOOLEAN /\ x \in LevelResults /\ x.early = early /\ x.rows = results
  BY LevelsTyped DEF LevelResult
<1>4. Sound(x) /\ terminal = results
  BY <1>1, <1>3, RowsAreSound
<1> HIDE DEF x
<1>5. /\ Len(levels') = at /\ levels'[at] = x
      /\ DOMAIN levels' = DOMAIN levels \cup {at}
      /\ \A i \in DOMAIN levels : levels'[i] = levels[i]
  BY <1>1, <1>2, <1>3, AppendIs
<1>6. CASE LastLevel(early)
  <2>1. pc' = "done" /\ status' = "completed"
    BY <1>6 DEF LevelEnds, Finish
  <2>2. LevelsCoherent'
    BY <1>1, <1>2, <1>3, <1>4, <2>1, CoherentGrows
  <2>3. Len(levels') = Len(Levels) \/ Last(levels').early
    BY <1>3, <1>5, <1>6 DEF LastLevel, Last
  <2>4. ResultTellsTheTruth'
    BY <1>1, <2>1, <2>3 DEF ResultTellsTheTruth
  <2> QED
    BY <2>1, <2>2, <2>4, EndsTelling
<1>7. CASE ~LastLevel(early)
  <2>1. ~x.early /\ at + 1 \in DOMAIN Levels
    BY <1>1, <1>3, <1>7, ConfigAssumption DEF LastLevel
  <2>2. LevelsCoherent'
    BY <1>1, <1>2, <1>3, <1>4, <2>1, CoherentGrows
  <2>3. \A i \in DOMAIN levels' : ~levels'[i].early
    BY <1>2, <1>5, <2>1
  <2>4. \/ pc' = "between" /\ UNCHANGED <<pool, at, terminal, sampler, status>>
        \/ StartLevel(at + 1) /\ UNCHANGED status
    BY <1>7 DEF LevelEnds
  <2>5. CASE pc' = "between" /\ UNCHANGED <<pool, at, terminal, sampler, status>>
    <3>1. results' = results /\ terminal' = terminal /\ aborting' = aborting /\ at' = at
      BY <2>5 DEF pool
    <3>2. Underway'
      BY <1>1, <1>3, <1>4, <1>5, <2>3, <2>5, <3>1 DEF Underway
    <3> QED
      BY <2>2, <2>5, <3>2 DEF LInv, LevelsMakeTheResult, ResultTellsTheTruth
  <2>6. CASE StartLevel(at + 1) /\ UNCHANGED status
    <3>1. Len(levels') = (at + 1) - 1
      BY <1>1, <1>5
    <3> QED
      BY <2>1, <2>2, <2>3, <2>6, <3>1, LevelStartsLevels
  <2> QED
    BY <2>4, <2>5, <2>6
<1> QED
  BY <1>6, <1>7

LEMMA CancelledLevels ==
    ASSUME PInv, LInv, Cancelled
    PROVE  LInv'
<1> DEFINE x == LevelResult(terminal, FALSE)
<1>1. /\ cancel /\ pc \in {"sampling", "between"} /\ UNCHANGED <<failed, cancel, terminal>>
      /\ pc' = "done" /\ status' = "cancelled" /\ levels' = WithPartial
      /\ at \in Nat /\ Underway /\ LevelsCoherent /\ levels \in Seq(LevelResults)
  BY ConfigAssumption DEF Cancelled, Finish, LInv, LevelsMakeTheResult, PInv, PoolAccounts,
                          TypeOK
<1>2. CASE levels' = levels /\ (terminal = {} \/ pc = "between")
  <2>1. LevelsCoherent'
    BY <1>1, <1>2, CoherentStays DEF Underway
  <2>2. terminal # {} => \E i \in DOMAIN levels : terminal \subseteq levels[i].rows
    <3>1. pc = "between" => at \in DOMAIN levels /\ levels[at].rows = terminal
      <4>1. pc = "between" => Len(levels) = at /\ levels[at].rows = terminal /\ at > 0
        BY <1>1, ConfigAssumption DEF Underway, PInv, PoolAccounts, TypeOK
      <4> QED
        BY <1>1, <4>1
    <3> QED
      BY <1>2, <3>1
  <2>3. ResultTellsTheTruth'
    BY <1>1, <1>2, <2>2 DEF ResultTellsTheTruth
  <2> QED
    BY <1>1, <2>1, <2>3, EndsTelling
<1>3. CASE levels' = Append(levels, x) /\ pc = "sampling"
  <2>1. Len(levels) = at - 1 /\ \A i \in DOMAIN levels : ~levels[i].early
    BY <1>1, <1>3 DEF Underway
  <2>2. terminal = results /\ FALSE \in BOOLEAN
    BY <1>1, <1>3 DEF Underway
  <2>3. Sound(LevelResult(results, FALSE))
    BY <1>1, <1>3, <2>2, RowsAreSound
  <2>4. Sound(x) /\ x \in LevelResults /\ x.rows = terminal /\ ~x.early
    BY <2>2, <2>3, LevelsTyped DEF LevelResult
  <2> HIDE DEF x
  <2>5. LevelsCoherent'
    BY <1>1, <1>3, <2>1, <2>4, CoherentGrows
  <2>6. at \in DOMAIN levels' /\ levels'[at] = x
    BY <1>1, <1>3, <2>1, <2>4, AppendIs
  <2>7. ResultTellsTheTruth'
    BY <1>1, <2>4, <2>6 DEF ResultTellsTheTruth
  <2> QED
    BY <1>1, <2>5, <2>7, EndsTelling
<1>4. pc = "sampling" => \A i \in DOMAIN levels : levels[i].level # at
  BY <1>1 DEF Underway, LevelsCoherent
<1> QED
  BY <1>1, <1>2, <1>3, <1>4 DEF WithPartial

LEMMA FailedLevels ==
    ASSUME PInv, LInv, Failed
    PROVE  LInv'
<1>1. /\ failed /\ failed' = failed /\ pc' = "done" /\ status' = "error" /\ levels' = <<>>
  BY DEF Failed, Finish
<1>2. LevelsCoherent' /\ ResultTellsTheTruth'
  BY <1>1 DEF LevelsCoherent, ResultTellsTheTruth
<1> QED
  BY <1>1, <1>2, EndsTelling

(* Nothing but the cancel event or the sampler moves. *)
LEMMA NothingMoves ==
    ASSUME PInv, LInv, UNCHANGED <<pool, pc, at, terminal, failed, levels, status>>,
           cancel => cancel', pc = "done" => cancel' = cancel
    PROVE  LInv'
<1>1. /\ fresh' = fresh /\ flight' = flight /\ claimed' = claimed
      /\ results' = results /\ aborting' = aborting
  BY DEF pool
<1>2. LevelsCoherent'
  BY CoherentStays DEF LInv, LevelsMakeTheResult
<1>3. ResultTellsTheTruth'
  BY DEF LInv, LevelsMakeTheResult, ResultTellsTheTruth
<1>4. pc' # "done" => Underway'
  BY <1>1 DEF LInv, Underway
<1>5. AllFirstFailed(results)' = AllFirstFailed(results)
  BY <1>1 DEF AllFirstFailed
<1>6. pc' \in {"measured", "sampling"} => Busy'
  BY <1>1, <1>5 DEF LInv, Busy
<1> QED
  BY <1>2, <1>3, <1>4, <1>6 DEF LInv, LevelsMakeTheResult

LEMMA LevelsStep ==
    ASSUME PInv, LInv, [Next]_vars
    PROVE  LInv'
<1>1. CASE DelayOver
  <2>1. /\ pc = "between" /\ Underway /\ LevelsCoherent /\ at \in DOMAIN Levels
        /\ StartLevel(at + 1) /\ UNCHANGED <<failed, cancel, levels, status>>
    BY <1>1 DEF DelayOver, LInv, LevelsMakeTheResult, PInv, PoolAccounts, TypeOK
  <2>2. at + 1 \in DOMAIN Levels /\ at \in Nat
    BY <2>1, ConfigAssumption DEF PInv
  <2>3. Len(levels') = (at + 1) - 1 /\ \A i \in DOMAIN levels' : ~levels'[i].early
    BY <2>1, <2>2 DEF Underway
  <2>4. pc' # "done"
    BY <2>1 DEF StartLevel, StartPhase
  <2>5. LevelsCoherent'
    BY <2>1, <2>4, CoherentStays
  <2> QED
    BY <2>1, <2>2, <2>3, <2>5, LevelStartsLevels
<1>2. CASE SamplerStops
  BY <1>2, NothingMoves DEF SamplerStops
<1>3. CASE Cancel
  BY <1>3, NothingMoves DEF Cancel
<1>4. CASE UNCHANGED vars
  BY <1>4, NothingMoves DEF vars, pool
<1>5. CASE Done
  BY <1>4, <1>5 DEF Done
<1> QED
  BY <1>1, <1>2, <1>3, <1>4, <1>5, StartWorkerLevels, SettleLevels, RaiseLevels,
     AbortLevels, WarmupEndsLevels, MeasuredEndsLevels, LevelEndsLevels,
     CancelledLevels, FailedLevels DEF Next

(* For every list of levels: a recorded level has its own requests, each once  *)
(* and as an unbroken run unless a task failed, and says so when it is short;  *)
(* a completed run has every level up to an early stop, and a cancelled one    *)
(* every row it measured.                                                      *)
THEOREM LevelsAreTheResult ==
    Spec => []LevelsMakeTheResult
<1>1. Init => PInv /\ LInv
  BY PoolInit, LevelsInit
<1>2. (PInv /\ LInv) /\ [Next]_vars => (PInv /\ LInv)'
  BY PoolStep, LevelsStep
<1>3. PInv /\ LInv => LevelsMakeTheResult
  BY DEF LInv
<1> QED
  BY <1>1, <1>2, <1>3, PTL DEF Spec

-----------------------------------------------------------------------------
(* Every run runs out of steps *)

(* Nothing but the end of a measured phase waits for the sampler. *)
HInv == sampler = "stopping" => pc = "sampling"

LEMMA SamplerInit ==
    ASSUME Init
    PROVE  HInv
BY DEF Init, HInv

LEMMA SamplerStep ==
    ASSUME HInv, [Next]_vars
    PROVE  HInv'
<1>1. CASE StartWorker
  BY <1>1 DEF StartWorker, HInv
<1>2. ASSUME NEW s \in flight, NEW outcome \in Outcomes, Settle(s, outcome)
      PROVE  HInv'
  BY <1>2 DEF Settle, HInv
<1>3. ASSUME NEW s \in flight, Raise(s)
      PROVE  HInv'
  BY <1>3 DEF Raise, HInv
<1>4. CASE Abort
  BY <1>4 DEF Abort, HInv
<1>5. CASE WarmupEnds
  <2>1. sampler # "stopping"
    BY <1>5 DEF WarmupEnds, HInv
  <2>2. sampler' \in {sampler, "on"}
    BY <1>5 DEF WarmupEnds
  <2> QED
    BY <2>1, <2>2 DEF HInv
<1>6. CASE MeasuredEnds
  BY <1>6 DEF MeasuredEnds, HInv
<1>7. CASE SamplerStops
  BY <1>7 DEF SamplerStops, HInv
<1>8. CASE LevelEnds
  <2>1. sampler = "off" /\ sampler' \in {sampler, "on"}
    BY <1>8 DEF LevelEnds, StartLevel
  <2> QED
    BY <2>1 DEF HInv
<1>9. CASE DelayOver
  <2>1. sampler # "stopping" /\ sampler' \in {sampler, "on"}
    BY <1>9 DEF DelayOver, StartLevel, HInv
  <2> QED
    BY <2>1 DEF HInv
<1>10. CASE Cancelled \/ Failed
  <2>1. sampler # "stopping" /\ sampler' = sampler
    BY <1>10 DEF Cancelled, Failed, HInv
  <2> QED
    BY <2>1 DEF HInv
<1>11. CASE Cancel \/ Done \/ UNCHANGED vars
  BY <1>11 DEF Cancel, Done, vars, HInv
<1> QED
  BY <1>1, <1>2, <1>3, <1>4, <1>5, <1>6, <1>7, <1>8, <1>9, <1>10, <1>11 DEF Next

AbortSteps == IF aborting THEN 0 ELSE 1

CancelSteps == IF cancel THEN 0 ELSE 1

LEMMA StepsAre ==
    ASSUME PInv
    PROVE  /\ Warmups \in Nat /\ Requests \in Nat \ {0} /\ StepsPerLevel \in Nat
           /\ Len(Levels) - at \in Nat
           /\ AbortSteps \in {0, 1} /\ CancelSteps \in {0, 1}
           /\ fresh \in Nat /\ Cardinality(flight) \in Nat
           /\ pc \in Phase => /\ Count(pc) - claimed \in Nat
                              /\ PoolSteps \in Nat
           /\ pc # "done" => StepsInLevel \in Nat \ {0}
<1>1. Warmups \in Nat /\ Requests \in Nat \ {0} /\ StepsPerLevel \in Nat
  BY ConfigAssumption DEF StepsPerLevel
<1>2. Len(Levels) - at \in Nat
  <2>1. at \in 1 .. Len(Levels) /\ Len(Levels) \in Nat
    BY ConfigAssumption DEF PInv, PoolAccounts, TypeOK
  <2> QED
    BY <2>1
<1>3. AbortSteps \in {0, 1} /\ CancelSteps \in {0, 1}
  BY DEF AbortSteps, CancelSteps
<1>4. fresh \in Nat /\ Cardinality(flight) \in Nat /\ claimed \in Nat
  BY FS_CardinalityType DEF PInv, PoolAccounts, TypeOK
<1>5. ASSUME pc \in Phase
      PROVE  Count(pc) - claimed \in Nat /\ PoolSteps \in Nat
  <2>1. Count(pc) \in Nat /\ claimed <= Count(pc)
    BY <1>1, <1>5 DEF Count, PInv
  <2>2. Count(pc) - claimed \in Nat
    BY <1>4, <2>1
  <2> HIDE DEF Count
  <2>3. PoolSteps = fresh + (Count(pc) - claimed) + Cardinality(flight) + AbortSteps
    BY DEF PoolSteps, AbortSteps
  <2> QED
    BY <1>3, <1>4, <2>2, <2>3
<1>6. ASSUME pc # "done"
      PROVE  StepsInLevel \in Nat \ {0}
  <2>1. CASE pc \in {"between", "sampling"}
    BY <2>1 DEF StepsInLevel
  <2>2. CASE pc \in Phase
    <3>1. PoolSteps \in Nat
      BY <1>5, <2>2
    <3>2. StepsInLevel = PoolSteps + 4 \/ StepsInLevel = PoolSteps + 2 * Requests + 6
      BY <2>2 DEF StepsInLevel, Phase
    <3> QED
      BY <1>1, <3>1, <3>2
  <2> QED
    BY <1>6, <2>1, <2>2 DEF PInv, PoolAccounts, TypeOK
<1> QED
  BY <1>1, <1>2, <1>3, <1>4, <1>5, <1>6

LEMMA StepsAreCounted ==
    ASSUME PInv
    PROVE  /\ StepsLeft \in Nat
           /\ pc # "done" => StepsLeft > 0
<1>1. CASE pc = "done"
  BY <1>1 DEF StepsLeft
<1>2. CASE pc # "done"
  <2> DEFINE left == (Len(Levels) - at) * StepsPerLevel
             here == StepsInLevel
  <2>1. left \in Nat /\ here \in Nat \ {0} /\ CancelSteps \in {0, 1}
    BY <1>2, StepsAre
  <2>2. StepsLeft = left + here + CancelSteps
    BY <1>2 DEF StepsLeft, CancelSteps
  <2> HIDE DEF left, here
  <2> QED
    BY <2>1, <2>2
<1> QED
  BY <1>1, <1>2

(* The two ways a run goes on: within a level, and with the next one.         *)
Advances ==
    /\ pc' # "done" /\ at' = at
    /\ StepsInLevel' \in Int /\ StepsInLevel' < StepsInLevel

MovesOn ==
    /\ pc' # "done" /\ at' = at + 1
    /\ StepsInLevel' \in Int /\ StepsInLevel' <= StepsPerLevel

LEMMA AdvancesLess ==
    ASSUME PInv, pc # "done", Advances, cancel' = cancel
    PROVE  StepsLeft' < StepsLeft
<1> DEFINE left == (Len(Levels) - at) * StepsPerLevel
           here == StepsInLevel
           next == StepsInLevel'
<1>1. left \in Nat /\ here \in Nat /\ CancelSteps \in {0, 1} /\ next \in Int /\ next < here
  BY StepsAre DEF Advances
<1>2. StepsLeft = left + here + CancelSteps
  BY DEF StepsLeft, CancelSteps
<1>3. StepsLeft' = left + next + CancelSteps
  BY DEF StepsLeft, CancelSteps, Advances, StepsPerLevel
<1> HIDE DEF left, here, next
<1> QED
  BY <1>1, <1>2, <1>3

LEMMA MovesOnLess ==
    ASSUME PInv, pc # "done", MovesOn, cancel' = cancel
    PROVE  StepsLeft' < StepsLeft
<1> DEFINE p == StepsPerLevel
           t == Len(Levels) - at
           a == t * p
           b == (t - 1) * p
           i == StepsInLevel
           j == StepsInLevel'
<1>1. /\ p \in Nat /\ t \in Nat /\ i \in Nat \ {0} /\ CancelSteps \in {0, 1}
      /\ j \in Int /\ j <= p
  BY StepsAre DEF MovesOn
<1>2. StepsLeft = a + i + CancelSteps
  BY DEF StepsLeft, CancelSteps
<1>3. StepsLeft' = b + j + CancelSteps
  <2>1. at \in Nat /\ Len(Levels) \in Nat
    BY ConfigAssumption DEF PInv, PoolAccounts, TypeOK
  <2>2. Len(Levels) - at' = t - 1
    BY <2>1 DEF MovesOn
  <2>3. StepsLeft' = (Len(Levels) - at') * p + j + CancelSteps
    BY DEF StepsLeft, CancelSteps, MovesOn, StepsPerLevel
  <2> QED
    BY <2>2, <2>3
<1>4. a \in Int /\ b \in Int /\ b + p = a
  <2> HIDE DEF p, t
  <2> QED
    BY <1>1
<1> HIDE DEF p, t, a, b, i, j
<1> QED
  BY <1>1, <1>2, <1>3, <1>4

(* Within a phase. *)
LEMMA PoolAdvances ==
    ASSUME PInv, pc \in Phase, pc' = pc, at' = at, PoolSteps' \in Int, PoolSteps' < PoolSteps
    PROVE  Advances
<1>1. pc # "done" /\ PoolSteps \in Nat /\ Requests \in Nat
  BY StepsAre DEF Phase
<1>2. \/ StepsInLevel = PoolSteps + 4 /\ StepsInLevel' = PoolSteps' + 4
      \/ /\ StepsInLevel = PoolSteps + 2 * Requests + 6
         /\ StepsInLevel' = PoolSteps' + 2 * Requests + 6
  BY DEF StepsInLevel, Phase
<1> HIDE DEF PoolSteps
<1> QED
  BY <1>1, <1>2 DEF Advances

(* A claim takes an item from those to claim to those in flight. *)
LEMMA ClaimKeeps ==
    ASSUME PInv, pc \in Phase, NEW before \in SUBSET flight, NEW rows, Claim(before, rows)
    PROVE  /\ claimed' \in Nat /\ Cardinality(flight') \in Nat
           /\ Cardinality(flight') - claimed' <= Cardinality(before) - claimed
<1>1. claimed \in Nat
  BY DEF PInv, PoolAccounts, TypeOK
<1>2. Claims(before)
  BY <1>1, ClaimCases
<1>3. /\ claimed' \in Nat /\ Cardinality(flight') \in Nat /\ Cardinality(before) \in Nat
      /\ Cardinality(flight') <= Cardinality(before) + 1
  BY <1>2, ClaimIsOne
<1>4. CASE flight' = before /\ claimed' = claimed
  BY <1>1, <1>3, <1>4
<1>5. CASE claimed' = claimed + 1
  BY <1>1, <1>3, <1>5
<1> QED
  BY <1>2, <1>3, <1>4, <1>5 DEF Claims

LEMMA StartWorkerAdvances ==
    ASSUME PInv, StartWorker
    PROVE  Advances
<1>1. /\ pc \in Phase /\ pc' = pc /\ at' = at /\ aborting' = aborting
      /\ fresh' = fresh - 1 /\ Claim(flight, results)
  BY DEF PInv, StartWorker
<1>2. /\ claimed' \in Nat /\ Cardinality(flight') \in Nat
      /\ Cardinality(flight') - claimed' <= Cardinality(flight) - claimed
  BY <1>1, ClaimKeeps
<1>3. /\ PoolSteps = fresh + (Count(pc) - claimed) + Cardinality(flight) + AbortSteps
      /\ PoolSteps' = (fresh - 1) + (Count(pc) - claimed') + Cardinality(flight') + AbortSteps
  BY <1>1 DEF PoolSteps, AbortSteps, Count
<1>4. /\ fresh \in Nat /\ claimed \in Nat /\ Cardinality(flight) \in Nat
      /\ AbortSteps \in {0, 1} /\ Count(pc) \in Nat
  BY StepsAre, ConfigAssumption DEF Count, PInv, PoolAccounts, TypeOK
<1>5. PoolSteps' \in Int /\ PoolSteps' < PoolSteps
  <2> HIDE DEF Count
  <2> QED
    BY <1>2, <1>3, <1>4
<1> QED
  BY <1>1, <1>5, PoolAdvances

(* A request that ends leaves room for one more claim at most. *)
LEMMA RequestEndsAdvances ==
    ASSUME PInv, NEW s \in flight, pc' = pc, at' = at, aborting' = aborting, fresh' = fresh,
           \/ \E rows : Claim(flight \ {s}, rows)
           \/ flight' = flight \ {s} /\ claimed' = claimed
    PROVE  Advances
<1>1. pc \in Phase
  BY DEF PInv
<1>2. /\ IsFiniteSet(flight) /\ Cardinality(flight) \in Nat
      /\ Cardinality(flight \ {s}) = Cardinality(flight) - 1
  BY FS_RemoveElement, FS_CardinalityType DEF PInv
<1>3. claimed \in Nat
  BY DEF PInv, PoolAccounts, TypeOK
<1>4. /\ claimed' \in Nat /\ Cardinality(flight') \in Nat
      /\ Cardinality(flight') - claimed' <= (Cardinality(flight) - 1) - claimed
  <2>1. CASE flight' = flight \ {s} /\ claimed' = claimed
    <3>1. Cardinality(flight \ {s}) \in Nat
      BY <1>2, FS_RemoveElement, FS_CardinalityType
    <3> QED
      BY <1>2, <1>3, <2>1, <3>1
  <2>2. CASE \E rows : Claim(flight \ {s}, rows)
    <3>1. PICK rows : Claim(flight \ {s}, rows)
      BY <2>2
    <3>2. flight \ {s} \in SUBSET flight
      OBVIOUS
    <3> QED
      BY <1>1, <1>2, <3>1, <3>2, ClaimKeeps
  <2> QED
    BY <2>1, <2>2
<1>5. /\ PoolSteps = fresh + (Count(pc) - claimed) + Cardinality(flight) + AbortSteps
      /\ PoolSteps' = fresh + (Count(pc) - claimed') + Cardinality(flight') + AbortSteps
  BY DEF PoolSteps, AbortSteps, Count
<1>6. fresh \in Nat /\ AbortSteps \in {0, 1} /\ Count(pc) \in Nat
  BY StepsAre, ConfigAssumption DEF Count
<1>7. PoolSteps' \in Int /\ PoolSteps' < PoolSteps
  <2> HIDE DEF Count
  <2> QED
    BY <1>2, <1>3, <1>4, <1>5, <1>6
<1> QED
  BY <1>1, <1>7, PoolAdvances

LEMMA AbortAdvances ==
    ASSUME PInv, Abort
    PROVE  Advances
<1>1. /\ pc \in Phase /\ pc' = pc /\ at' = at /\ flight' = flight /\ claimed' = claimed
      /\ fresh' = 0 /\ ~aborting /\ aborting'
  BY DEF Abort, CancelTasks
<1>2. /\ PoolSteps = fresh + (Count(pc) - claimed) + Cardinality(flight) + 1
      /\ PoolSteps' = 0 + (Count(pc) - claimed) + Cardinality(flight) + 0
  BY <1>1 DEF PoolSteps, Count
<1>3. fresh \in Nat /\ Count(pc) - claimed \in Nat /\ Cardinality(flight) \in Nat
  BY <1>1, StepsAre
<1>4. PoolSteps' \in Int /\ PoolSteps' < PoolSteps
  <2> HIDE DEF Count
  <2> QED
    BY <1>2, <1>3
<1> QED
  BY <1>1, <1>4, PoolAdvances

(* A pool that starts has no more workers than items. *)
LEMMA PhaseStartsSteps ==
    ASSUME NEW phase \in Phase, NEW i \in DOMAIN Levels, StartPhase(phase, i)
    PROVE  /\ pc' = phase /\ at' = i
           /\ PoolSteps' \in Nat /\ PoolSteps' <= 2 * Count(phase) + 1
<1>1. Levels[i] \in Nat /\ Count(phase) \in Nat
  BY ConfigAssumption DEF Count
<1>2. /\ pc' = phase /\ at' = i /\ fresh' \in Nat /\ fresh' <= Count(phase)
      /\ claimed' = 0 /\ flight' = {} /\ ~aborting'
  BY <1>1 DEF StartPhase, Smaller
<1>3. PoolSteps' = fresh' + (Count(phase) - 0) + 0 + 1
  BY <1>2, FS_EmptySet DEF PoolSteps, Count
<1> HIDE DEF Count
<1> QED
  BY <1>1, <1>2, <1>3

LEMMA NextLevel ==
    ASSUME PInv, at # Len(Levels)
    PROVE  at + 1 \in DOMAIN Levels
<1>1. at \in DOMAIN Levels /\ Levels \in Seq(Nat \ {0})
  BY ConfigAssumption DEF PInv, PoolAccounts, TypeOK
<1>2. at < Len(Levels)
  BY <1>1
<1> QED
  BY <1>1, <1>2

LEMMA StartLevelMoves ==
    ASSUME PInv, at + 1 \in DOMAIN Levels, StartLevel(at + 1)
    PROVE  MovesOn
<1> DEFINE n == PoolSteps'
<1>1. PICK phase \in Phase : StartPhase(phase, at + 1)
  BY DEF StartLevel, Phase
<1>2. /\ pc' = phase /\ at' = at + 1
      /\ PoolSteps' \in Nat /\ PoolSteps' <= 2 * Count(phase) + 1
  BY <1>1, PhaseStartsSteps
<1>3. Warmups \in Nat /\ Requests \in Nat
  BY ConfigAssumption
<1>4. CASE phase = "warmup"
  <2>1. StepsInLevel' = n + 2 * Requests + 6 /\ n \in Nat /\ n <= 2 * Warmups + 1
    BY <1>2, <1>4 DEF StepsInLevel, Count
  <2>2. StepsInLevel' \in Int /\ StepsInLevel' <= StepsPerLevel
    <3> HIDE DEF n
    <3> QED
      BY <1>3, <2>1 DEF StepsPerLevel
  <2> QED
    BY <1>2, <1>4, <2>2 DEF MovesOn
<1>5. CASE phase = "measured"
  <2>1. StepsInLevel' = n + 4 /\ n \in Nat /\ n <= 2 * Requests + 1
    BY <1>2, <1>5 DEF StepsInLevel, Count
  <2>2. StepsInLevel' \in Int /\ StepsInLevel' <= StepsPerLevel
    <3> HIDE DEF n
    <3> QED
      BY <1>3, <2>1 DEF StepsPerLevel
  <2> QED
    BY <1>2, <1>5, <2>2 DEF MovesOn
<1> QED
  BY <1>4, <1>5 DEF Phase

LEMMA WarmupEndsAdvances ==
    ASSUME PInv, WarmupEnds
    PROVE  pc' = "done" \/ Advances
<1> DEFINE m == PoolSteps
           n == PoolSteps'
<1>1. CASE Finish(IF failed THEN "error" ELSE "cancelled") \/ Finish("error")
  BY <1>1 DEF Finish
<1>2. CASE StartPhase("measured", at)
  <2>1. at \in DOMAIN Levels /\ "measured" \in Phase /\ pc = "warmup" /\ pc \in Phase
    BY DEF PInv, PoolAccounts, TypeOK, Phase, WarmupEnds
  <2>2. /\ pc' = "measured" /\ at' = at
        /\ n \in Nat /\ n <= 2 * Requests + 1
    BY <1>2, <2>1, PhaseStartsSteps DEF Count
  <2>3. /\ StepsInLevel' = n + 4
        /\ StepsInLevel = m + 2 * Requests + 6
    BY <2>1, <2>2 DEF StepsInLevel
  <2>4. m \in Nat /\ Requests \in Nat
    BY <2>1, StepsAre
  <2>5. StepsInLevel' \in Int /\ StepsInLevel' < StepsInLevel
    <3> HIDE DEF m, n
    <3> QED
      BY <2>2, <2>3, <2>4
  <2> QED
    BY <2>2, <2>5 DEF Advances
<1> QED
  BY <1>1, <1>2 DEF WarmupEnds

LEMMA MeasuredEndsAdvances ==
    ASSUME PInv, MeasuredEnds
    PROVE  Advances
<1>1. pc = "measured" /\ pc \in Phase /\ pc' = "sampling" /\ at' = at /\ sampler' = "stopping"
  BY DEF MeasuredEnds, Phase
<1>2. PoolSteps \in Nat
  BY <1>1, StepsAre
<1>3. StepsInLevel = PoolSteps + 4 /\ StepsInLevel' = 3
  BY <1>1 DEF StepsInLevel
<1>4. StepsInLevel' \in Int /\ StepsInLevel' < StepsInLevel
  <2> HIDE DEF PoolSteps
  <2> QED
    BY <1>2, <1>3
<1> QED
  BY <1>1, <1>4 DEF Advances

LEMMA SamplerStopsAdvances ==
    ASSUME HInv, SamplerStops
    PROVE  Advances
<1>1. pc = "sampling" /\ sampler = "stopping" /\ sampler' = "off" /\ pc' = pc /\ at' = at
  BY DEF HInv, SamplerStops
<1>2. StepsInLevel = 3 /\ StepsInLevel' = 2
  BY <1>1 DEF StepsInLevel
<1> QED
  BY <1>1, <1>2 DEF Advances

LEMMA LevelEndsMoves ==
    ASSUME PInv, LevelEnds
    PROVE  pc' = "done" \/ Advances \/ MovesOn
<1>1. CASE Finish("completed")
  BY <1>1 DEF Finish
<1>2. CASE pc' = "between" /\ at' = at
  <2>1. StepsInLevel = 2 /\ StepsInLevel' = 1
    BY <1>2 DEF LevelEnds, StepsInLevel
  <2> QED
    BY <1>2, <2>1 DEF Advances
<1>3. CASE at # Len(Levels) /\ StartLevel(at + 1)
  <2>1. at # Len(Levels)
    BY <1>3
  <2>2. at + 1 \in DOMAIN Levels
    BY <2>1, NextLevel
  <2> QED
    BY <1>3, <2>2, StartLevelMoves
<1> QED
  BY <1>1, <1>2, <1>3 DEF LevelEnds, LastLevel, pool

LEMMA DelayOverMoves ==
    ASSUME PInv, DelayOver
    PROVE  MovesOn
<1>1. at # Len(Levels)
  BY ConfigAssumption DEF DelayOver, PInv, PoolAccounts, TypeOK
<1>2. at + 1 \in DOMAIN Levels
  BY <1>1, NextLevel
<1> QED
  BY <1>2, StartLevelMoves DEF DelayOver

LEMMA CancelLess ==
    ASSUME PInv, Cancel
    PROVE  StepsLeft' < StepsLeft
<1> DEFINE left == (Len(Levels) - at) * StepsPerLevel
           here == StepsInLevel
<1>1. pc # "done" /\ left \in Nat /\ here \in Nat
  BY StepsAre DEF Cancel
<1>2. StepsLeft = left + here + 1
  BY <1>1 DEF StepsLeft, Cancel
<1>3. StepsLeft' = left + here
  <2>1. here' = here
    BY DEF Cancel, pool, StepsInLevel, PoolSteps, Count
  <2>2. StepsLeft' = left + here' + 0
    BY <1>1 DEF StepsLeft, Cancel, StepsPerLevel
  <2> HIDE DEF left, here
  <2> QED
    BY <1>1, <2>1, <2>2
<1> HIDE DEF left, here
<1> QED
  BY <1>1, <1>2, <1>3

LEMMA StepsLess ==
    ASSUME PInv, HInv, [Next]_vars
    PROVE  [StepsLeft' < StepsLeft]_vars
<1> SUFFICES ASSUME Next, vars' # vars
             PROVE  StepsLeft' < StepsLeft
  BY Zenon DEF vars
<1>1. ASSUME pc # "done", cancel' = cancel, pc' = "done" \/ Advances \/ MovesOn
      PROVE  StepsLeft' < StepsLeft
  <2>1. CASE pc' = "done"
    <3>1. StepsLeft' = 0
      BY <2>1 DEF StepsLeft
    <3> QED
      BY <1>1, <3>1, StepsAreCounted
  <2> QED
    BY <1>1, <2>1, AdvancesLess, MovesOnLess
<1>2. pc = "done" => flight = {} /\ fresh = 0 /\ sampler # "stopping"
  BY DEF PInv, HInv, Phase
<1>3. CASE StartWorker
  <2>1. pc # "done" /\ cancel' = cancel
    BY <1>2, <1>3 DEF StartWorker
  <2> QED
    BY <1>1, <1>3, <2>1, StartWorkerAdvances
<1>4. ASSUME NEW s \in flight, NEW outcome \in Outcomes, Settle(s, outcome)
      PROVE  StepsLeft' < StepsLeft
  <2>1. /\ pc' = pc /\ at' = at /\ aborting' = aborting /\ fresh' = fresh
        /\ Claim(flight \ {s}, results')
        /\ pc # "done" /\ cancel' = cancel
    BY <1>2, <1>4 DEF Settle
  <2> QED
    BY <1>1, <2>1, RequestEndsAdvances
<1>5. ASSUME NEW s \in flight, Raise(s)
      PROVE  StepsLeft' < StepsLeft
  <2>1. /\ pc' = pc /\ at' = at /\ aborting' = aborting /\ fresh' = fresh
        /\ flight' = flight \ {s} /\ claimed' = claimed
        /\ pc # "done" /\ cancel' = cancel
    BY <1>2, <1>5 DEF Raise
  <2> QED
    BY <1>1, <2>1, RequestEndsAdvances
<1>6. CASE Abort
  <2>1. pc # "done" /\ cancel' = cancel
    BY <1>6 DEF Abort, Phase
  <2> QED
    BY <1>1, <1>6, <2>1, AbortAdvances
<1>7. CASE WarmupEnds
  BY <1>1, <1>7, WarmupEndsAdvances DEF WarmupEnds
<1>8. CASE MeasuredEnds
  BY <1>1, <1>8, MeasuredEndsAdvances DEF MeasuredEnds
<1>9. CASE SamplerStops
  BY <1>1, <1>2, <1>9, SamplerStopsAdvances DEF SamplerStops
<1>10. CASE LevelEnds
  BY <1>1, <1>10, LevelEndsMoves DEF LevelEnds
<1>11. CASE DelayOver
  BY <1>1, <1>11, DelayOverMoves DEF DelayOver
<1>12. CASE Cancelled \/ Failed
  <2>1. pc # "done" /\ cancel' = cancel /\ pc' = "done"
    BY <1>12 DEF Cancelled, Failed, Finish
  <2> QED
    BY <1>1, <2>1
<1>13. CASE Cancel
  BY <1>13, CancelLess
<1> QED
  BY <1>3, <1>4, <1>5, <1>6, <1>7, <1>8, <1>9, <1>10, <1>11, <1>12, <1>13 DEF Next, Done

(* For every list of levels and every number of requests: each step of a run,  *)
(* of the main task or of a worker, is one of a number of steps fixed at its   *)
(* beginning.  What remains of termination is that a run which is not over     *)
(* has a step to take.                                                         *)
THEOREM StepsDoRunOut == Spec => StepsRunOut
<1>1. Init => PInv /\ HInv
  BY PoolInit, SamplerInit
<1>2. (PInv /\ HInv) /\ [Next]_vars => (PInv /\ HInv)'
  BY PoolStep, SamplerStep
<1>3. PInv /\ HInv => StepsLeft \in Nat
  BY StepsAreCounted
<1>4. (PInv /\ HInv) /\ [Next]_vars => [StepsLeft' < StepsLeft]_vars
  BY StepsLess
<1>5. Spec => [](StepsLeft \in Nat) /\ [][StepsLeft' < StepsLeft]_vars
  BY <1>1, <1>2, <1>3, <1>4, PTL DEF Spec
<1> QED
  BY <1>5 DEF StepsRunOut

=============================================================================
