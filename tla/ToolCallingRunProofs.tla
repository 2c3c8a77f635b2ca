------------------------- MODULE ToolCallingRunProofs -------------------------
(* Proofs about ToolCallingRun for every suite: what its results say, and how *)
(* its progress is shown; and about HardwareMonitor: who owns its sessions,   *)
(* its child and its flag.                                                    *)
EXTENDS ToolCallingRun, HardwareMonitor, FiniteSetTheorems, TLAPS

-------------------------------------------------------------------------------
(* Sums.  The folds of the community modules pick the elements of a set one   *)
(* by one, through a recursive function on its subsets.  That there is such a *)
(* function, and what it says of every subset, is shown by a smallest subset  *)
(* of which it would fail.                                                    *)
Some(s) == CHOOSE x \in s : TRUE

Rest(s) == s \ {Some(s)}

(* h[s] is the sum of f over s, for every subset s of S. *)
Sums(h, f, S) ==
    h = [s \in SUBSET S |-> IF s = {} THEN 0 ELSE f[Some(s)] + h[Rest(s)]]

LEMMA SmallestSubset ==
    ASSUME NEW S, IsFiniteSet(S), NEW T \in SUBSET (SUBSET S), T # {}
    PROVE  \E m \in T : \A u \in T : u \subseteq m => u = m
<1>1. T \subseteq FiniteSubsetsOf(S)
  BY FS_FiniteSubsetsOfFinite
<1>2. PICK m \in T : \A u \in T : <<u, m>> \notin StrictSubsetOrdering(S)
  BY <1>1, FS_StrictSubsetOrderingWellFounded, WFMin
<1>3. \A u \in T : u \subseteq m => u = m
  BY <1>2 DEF StrictSubsetOrdering
<1> QED
  BY <1>3

LEMMA RestSmaller ==
    ASSUME NEW s, s # {}
    PROVE  Some(s) \in s /\ Rest(s) \subseteq s /\ Rest(s) # s /\
           s = Rest(s) \cup {Some(s)} /\ Some(s) \notin Rest(s)
<1>1. Some(s) \in s
  BY DEF Some
<1> QED
  BY <1>1 DEF Rest

LEMMA SumStep ==
    ASSUME NEW h, NEW f, NEW S, Sums(h, f, S), NEW s \in SUBSET S
    PROVE  /\ s = {} => h[s] = 0
           /\ s # {} => h[s] = f[Some(s)] + h[Rest(s)]
  BY DEF Sums

(* Two such functions agree where both are defined. *)
LEMMA SumsAgree ==
    ASSUME NEW f, NEW S, IsFiniteSet(S), NEW g, Sums(g, f, S),
           NEW T \in SUBSET S, NEW h, Sums(h, f, T),
           NEW s \in SUBSET T
    PROVE  g[s] = h[s]
<1> DEFINE Bad == {u \in SUBSET T : g[u] # h[u]}
<1> SUFFICES ASSUME Bad # {} PROVE FALSE
  OBVIOUS
<1>1. IsFiniteSet(T) /\ Bad \in SUBSET (SUBSET T)
  BY FS_Subset
<1>2. PICK m \in Bad : \A u \in Bad : u \subseteq m => u = m
  <2> HIDE DEF Bad
  <2> QED
    BY <1>1, SmallestSubset
<1>3. CASE m = {}
  BY <1>2, <1>3, SumStep
<1>4. CASE m # {}
  <2>1. Rest(m) \subseteq m /\ Rest(m) # m
    BY <1>4, RestSmaller
  <2>2. g[Rest(m)] = h[Rest(m)]
    BY <1>2, <2>1
  <2>3. g[m] = f[Some(m)] + g[Rest(m)] /\ h[m] = f[Some(m)] + h[Rest(m)]
    BY <1>2, <1>4, SumStep
  <2> QED
    BY <1>2, <2>2, <2>3
<1> QED
  BY <1>3, <1>4

LEMMA SumExists ==
    ASSUME NEW f, NEW S, IsFiniteSet(S)
    PROVE  \E h : Sums(h, f, S)
<1> DEFINE H(t) == CHOOSE h : Sums(h, f, t)
           Bad == {t \in SUBSET S : ~\E h : Sums(h, f, t)}
<1> SUFFICES ASSUME Bad # {} PROVE FALSE
  OBVIOUS
<1>1. PICK m \in Bad : \A u \in Bad : u \subseteq m => u = m
  <2>1. Bad \in SUBSET (SUBSET S)
    OBVIOUS
  <2> HIDE DEF Bad
  <2> QED
    BY <2>1, SmallestSubset
<1>2. ASSUME NEW t \in SUBSET m, t # m PROVE Sums(H(t), f, t)
  <2>1. \E h : Sums(h, f, t)
    BY <1>1, <1>2
  <2> QED
    BY <2>1
<1>3. \A t \in SUBSET m : IsFiniteSet(t)
  BY <1>1, FS_Subset
<1> DEFINE g == [s \in SUBSET m |->
                    IF s = {} THEN 0 ELSE f[Some(s)] + H(Rest(s))[Rest(s)]]
<1> HIDE DEF H
<1>4. ASSUME NEW t \in SUBSET m, t # m PROVE g[t] = H(t)[t]
  <2>1. Sums(H(t), f, t)
    BY <1>2, <1>4
  <2>2. CASE t = {}
    BY <2>1, <2>2, SumStep
  <2>3. CASE t # {}
    <3>1. Rest(t) \in SUBSET t /\ Rest(t) # m
      BY <2>3, <1>4, RestSmaller
    <3>2. Sums(H(Rest(t)), f, Rest(t))
      BY <1>2, <3>1
    <3>3. H(t)[Rest(t)] = H(Rest(t))[Rest(t)]
      BY <2>1, <3>1, <3>2, <1>3, SumsAgree
    <3>4. H(t)[t] = f[Some(t)] + H(t)[Rest(t)]
      BY <2>1, <2>3, SumStep
    <3>5. g[t] = f[Some(t)] + H(Rest(t))[Rest(t)]
      BY <2>3
    <3> QED
      BY <3>3, <3>4, <3>5
  <2> QED
    BY <2>2, <2>3
<1>5. ASSUME NEW s \in SUBSET m, s # {} PROVE g[s] = f[Some(s)] + g[Rest(s)]
  <2>1. Rest(s) \in SUBSET m /\ Rest(s) # m
    BY <1>5, RestSmaller
  <2>2. g[Rest(s)] = H(Rest(s))[Rest(s)]
    BY <1>4, <2>1
  <2> QED
    BY <1>5, <2>2
<1>6. g[{}] = 0
  OBVIOUS
<1>7. DOMAIN g = SUBSET m
  OBVIOUS
<1>8. g = [s \in SUBSET m |-> g[s]]
  OBVIOUS
<1> HIDE DEF g
<1>9. Sums(g, f, m)
  BY <1>5, <1>6, <1>8 DEF Sums
<1> QED
  BY <1>1, <1>9

(* What a fold adds up is what such a function says of the whole set. *)
LEMMA TotalSums ==
    ASSUME NEW scores, IsFiniteSet(DOMAIN scores)
    PROVE  \E h : Sums(h, scores, DOMAIN scores) /\ Total(scores) = h[DOMAIN scores]
<1> DEFINE S == DOMAIN scores
           Adds(h) == h = [s \in SUBSET S |->
               IF s = {} THEN 0 ELSE scores[CHOOSE x \in s : TRUE]
                                     + h[s \ {CHOOSE x \in s : TRUE}]]
           iter == CHOOSE h : Adds(h)
<1>1. Total(scores) = iter[S]
  BY DEF Total, MapThenSumSet, MapThenFoldSet
<1>2. \A h : Sums(h, scores, S) <=> Adds(h)
  BY DEF Sums, Some, Rest
<1>3. \E h : Sums(h, scores, S)
  BY SumExists
<1> HIDE DEF Adds, S
<1>4. Adds(iter)
  BY <1>2, <1>3
<1> QED
  BY <1>1, <1>2, <1>4 DEF S

PointsOf(rs, T) == MapThenSumSet(LAMBDA i : Points[rs[i].outcome], T)

LEMMA PointsSums ==
    ASSUME NEW rs, NEW T, IsFiniteSet(T)
    PROVE  \E h : /\ Sums(h, [i \in T |-> Points[rs[i].outcome]], T)
                  /\ PointsOf(rs, T) = h[T]
<1> DEFINE f == [i \in T |-> Points[rs[i].outcome]]
           Adds(h) == h = [s \in SUBSET T |->
               IF s = {} THEN 0 ELSE Points[rs[CHOOSE x \in s : TRUE].outcome]
                                     + h[s \ {CHOOSE x \in s : TRUE}]]
           iter == CHOOSE h : Adds(h)
<1>1. PointsOf(rs, T) = iter[T]
  BY DEF PointsOf, MapThenSumSet, MapThenFoldSet
<1>2. ASSUME NEW s \in SUBSET T, s # {}
      PROVE  Points[rs[CHOOSE x \in s : TRUE].outcome] = f[Some(s)]
  BY <1>2, RestSmaller DEF Some
<1>3. \A h : Sums(h, f, T) <=> Adds(h)
  BY <1>2 DEF Sums, Some, Rest
<1>4. \E h : Sums(h, f, T)
  BY SumExists
<1> HIDE DEF Adds, f
<1>5. Adds(iter)
  BY <1>3, <1>4
<1> QED
  BY <1>1, <1>3, <1>5 DEF f


(* Points earned with some scenarios: at most two for each, and two for each  *)
(* of them exactly when all are among those that earn the full score.         *)
Fits(points, of, full) ==
    /\ IsFiniteSet(of) /\ points \in Nat
    /\ points <= 2 * Cardinality(of)
    /\ points = 2 * Cardinality(of) <=> of \subseteq full

LEMMA FitsTogether ==
    ASSUME NEW a, NEW b, NEW m, NEW n, NEW full,
           Fits(m, a, full), Fits(n, b, full), a \cap b = {}
    PROVE  Fits(m + n, a \cup b, full)
<1>1. IsFiniteSet(a) /\ IsFiniteSet(b) /\ IsFiniteSet(a \cup b)
  BY FS_Union DEF Fits
<1>2. Cardinality(a) \in Nat /\ Cardinality(b) \in Nat
  BY <1>1, FS_CardinalityType
<1>3. Cardinality(a \cup b) = Cardinality(a) + Cardinality(b)
  <2>1. Cardinality(a \cap b) = 0
    BY FS_EmptySet
  <2>2. Cardinality(a \cup b)
          = Cardinality(a) + Cardinality(b) - Cardinality(a \cap b)
    BY <1>1, FS_Union
  <2> QED
    BY <1>2, <2>1, <2>2
<1>4. m + n \in Nat /\ m + n <= 2 * Cardinality(a \cup b)
  BY <1>2, <1>3 DEF Fits
<1>5. m + n = 2 * Cardinality(a \cup b)
        <=> (m = 2 * Cardinality(a)) /\ (n = 2 * Cardinality(b))
  BY <1>2, <1>3 DEF Fits
<1> QED
  BY <1>1, <1>4, <1>5 DEF Fits

(* What fits the parts of a disjoint union fits, added up, the whole. *)
LEMMA SumFits ==
    ASSUME NEW S, IsFiniteSet(S), NEW f, NEW h, Sums(h, f, S),
           NEW A, NEW full,
           \A x \in S : Fits(f[x], A[x], full),
           \A x, y \in S : x # y => A[x] \cap A[y] = {},
           NEW all, \A e : e \in all <=> \E x \in S : e \in A[x]
    PROVE  Fits(h[S], all, full)
<1> DEFINE Of(s) == UNION {A[x] : x \in s}
           Bad == {s \in SUBSET S : ~Fits(h[s], Of(s), full)}
<1> HIDE DEF Of
<1>1. Bad = {}
  <2> SUFFICES ASSUME Bad # {} PROVE FALSE
    OBVIOUS
  <2>1. PICK m \in Bad : \A u \in Bad : u \subseteq m => u = m
    <3>1. Bad \in SUBSET (SUBSET S)
      OBVIOUS
    <3> HIDE DEF Bad
    <3> QED
      BY <3>1, SmallestSubset
  <2>2. CASE m = {}
    <3>1. Of({}) = {}
      BY DEF Of
    <3>2. h[{}] = 0 /\ Cardinality({}) = 0 /\ IsFiniteSet({})
      BY SumStep, FS_EmptySet
    <3>3. Fits(0, {}, full)
      BY <3>2 DEF Fits
    <3> QED
      BY <2>1, <2>2, <3>1, <3>2, <3>3
  <2>3. CASE m # {}
    <3> DEFINE x == Some(m)
               rest == Rest(m)
    <3>1. /\ x \in S /\ rest \in SUBSET S /\ rest \subseteq m /\ rest # m
          /\ m = rest \cup {x} /\ x \notin rest
      BY <2>3, RestSmaller
    <3>2. h[m] = f[x] + h[rest]
      BY <2>3, SumStep
    <3> HIDE DEF x, rest
    <3>3. Fits(h[rest], Of(rest), full)
      BY <2>1, <3>1
    <3>4. Of(m) = A[x] \cup Of(rest)
      BY <3>1 DEF Of
    <3>5. A[x] \cap Of(rest) = {}
      BY <3>1 DEF Of
    <3>6. Fits(f[x], A[x], full)
      BY <3>1
    <3>7. Fits(f[x] + h[rest], A[x] \cup Of(rest), full)
      BY <3>3, <3>5, <3>6, FitsTogether
    <3> QED
      BY <2>1, <3>2, <3>4, <3>7
  <2> QED
    BY <2>2, <2>3
<1>2. Fits(h[S], Of(S), full)
  BY <1>1
<1>3. all = Of(S)
  BY DEF Of
<1> QED
  BY <1>2, <1>3

-------------------------------------------------------------------------------
(* Scores *)

Rows == Seq([scenario : 1 .. N, outcome : Outcomes])

(* The points of a category fit the gradable rows of the category. *)
InCategory(rs, c) == {i \in GradableIn(rs) : Category[rs[i].scenario] = c}

FullMarks(rs) == {i \in DOMAIN rs : rs[i].outcome \in {"pass", "excluded"}}

LEMMA OutcomeNames == Outcomes = {"pass", "partial", "fail", "excluded"}
  BY DEF Outcomes, Points

LEMMA RowType ==
    ASSUME NEW rs \in Rows, NEW i \in DOMAIN rs
    PROVE  rs[i].scenario \in 1 .. N /\ rs[i].outcome \in Outcomes
<1> DEFINE Row == [scenario : 1 .. N, outcome : Outcomes]
<1>1. rs \in Seq(Row)
  BY DEF Rows
<1>2. rs[i] \in Row
  <2> HIDE DEF Row
  <2> QED
    BY <1>1
<1> QED
  BY <1>2

LEMMA GradableFinite ==
    ASSUME NEW rs \in Rows
    PROVE  /\ DOMAIN rs = 1 .. Len(rs) /\ Len(rs) \in Nat
           /\ IsFiniteSet(DOMAIN rs) /\ IsFiniteSet(GradableIn(rs))
           /\ \A c : IsFiniteSet(InCategory(rs, c))
<1>1. DOMAIN rs = 1 .. Len(rs) /\ Len(rs) \in Nat
  BY DEF Rows
<1>2. IsFiniteSet(DOMAIN rs)
  BY <1>1, FS_Interval
<1>3. /\ GradableIn(rs) \in SUBSET DOMAIN rs
      /\ \A c : InCategory(rs, c) \in SUBSET DOMAIN rs
  BY DEF GradableIn, InCategory
<1> QED
  BY <1>1, <1>2, <1>3, FS_Subset

LEMMA CategoriesFinite == IsFiniteSet(Categories)
<1>1. IsFiniteSet(1 .. N)
  BY SuiteAssumption, FS_Interval
<1>2. [s \in 1 .. N |-> Category[s]] \in Surjection(1 .. N, Categories)
  BY DEF Surjection, Categories
<1> QED
  BY <1>1, <1>2, FS_Surjection

LEMMA RowFits ==
    ASSUME NEW rs \in Rows, NEW i \in GradableIn(rs)
    PROVE  Fits(Points[rs[i].outcome], {i}, FullMarks(rs))
<1>1. i \in DOMAIN rs /\ rs[i].outcome \in {"pass", "partial", "fail"}
  BY RowType, OutcomeNames DEF GradableIn
<1>2. Points["pass"] = 2 /\ Points["partial"] = 1 /\ Points["fail"] = 0
  BY DEF Points
<1>3. IsFiniteSet({i}) /\ Cardinality({i}) = 1
  BY FS_Singleton
<1> QED
  BY <1>1, <1>2, <1>3 DEF Fits, FullMarks

LEMMA CategoryFits ==
    ASSUME NEW rs \in Rows, NEW c \in Categories
    PROVE  Fits(Earned(rs)[c], InCategory(rs, c), FullMarks(rs))
<1> DEFINE T == InCategory(rs, c)
           f == [i \in T |-> Points[rs[i].outcome]]
           A == [i \in T |-> {i}]
<1>1. IsFiniteSet(T)
  BY GradableFinite
<1>2. Earned(rs)[c] = PointsOf(rs, T)
  BY DEF Earned, InCategory, PointsOf
<1>3. PICK h : Sums(h, f, T) /\ PointsOf(rs, T) = h[T]
  BY <1>1, PointsSums
<1>4. \A i \in T : Fits(f[i], A[i], FullMarks(rs))
  BY RowFits DEF InCategory
<1>5. \A i, j \in T : i # j => A[i] \cap A[j] = {}
  OBVIOUS
<1>6. \A e : e \in T <=> \E i \in T : e \in A[i]
  OBVIOUS
<1> HIDE DEF T, f, A
<1>7. Fits(h[T], T, FullMarks(rs))
  BY <1>1, <1>3, <1>4, <1>5, <1>6, SumFits
<1> QED
  BY <1>2, <1>3, <1>7 DEF T

(* The total fits all gradable rows: the categories share none of them. *)
LEMMA TotalFits ==
    ASSUME NEW rs \in Rows
    PROVE  Fits(Total(Earned(rs)), GradableIn(rs), FullMarks(rs))
<1> DEFINE f == Earned(rs)
           A == [c \in Categories |-> InCategory(rs, c)]
<1>1. DOMAIN f = Categories
  BY DEF Earned
<1>2. PICK h : Sums(h, f, Categories) /\ Total(f) = h[Categories]
  BY <1>1, CategoriesFinite, TotalSums
<1>3. \A c \in Categories : Fits(f[c], A[c], FullMarks(rs))
  BY CategoryFits
<1>4. \A c, d \in Categories : c # d => A[c] \cap A[d] = {}
  BY DEF InCategory
<1>5. \A e : e \in GradableIn(rs) <=> \E c \in Categories : e \in A[c]
  <2>1. \A i \in GradableIn(rs) : Category[rs[i].scenario] \in Categories
    BY RowType DEF GradableIn, Categories
  <2> QED
    BY <2>1 DEF InCategory
<1> HIDE DEF f, A
<1>6. Fits(h[Categories], GradableIn(rs), FullMarks(rs))
  BY <1>2, <1>3, <1>4, <1>5, CategoriesFinite, SumFits
<1> QED
  BY <1>2, <1>6 DEF f


-------------------------------------------------------------------------------
(* The run.  Between the calls of the library the rows are a prefix of the    *)
(* suite and the two counts of progress trail them in this order, the second  *)
(* no longer once the suite is complete; at the end the result is about the   *)
(* rows, and only an accepted envelope brings scores.                         *)
Prefix == rows \in Rows /\ InOrder(rows) /\ Len(rows) <= N

Trailing ==
    /\ shown <= buffered /\ buffered <= Len(rows)
    /\ pc = "upstream" /\ Len(rows) = N => shown = N
    /\ pc = "entry" => rows = <<>>

Accounted ==
    /\ result.rows = rows
    /\ result.gradable = Cardinality(GradableIn(rows))
    /\ \/ /\ result.status = "completed" /\ ~asked
          /\ Len(rows) = N /\ result.earned = Earned(rows)
       \/ result.status \in Errors \cup {"cancelled"} /\ result.earned = NoScores

Outcome ==
    /\ pc = "done" => Accounted
    /\ pc # "done" => result.status = "none"

TInv == TypeOK /\ Prefix /\ Trailing /\ Outcome

LEMMA InitInv == Init => TInv
<1> SUFFICES ASSUME Init PROVE TInv
  OBVIOUS
<1>1. rows \in Rows /\ InOrder(rows) /\ Len(rows) = 0
  BY DEF Init, Rows, InOrder
<1>2. TypeOK
  <2>1. asked \in BOOLEAN
    BY DEF Init
  <2>2. rows \in Seq([scenario : 1 .. N, outcome : Outcomes])
    BY <1>1 DEF Rows
  <2>3. /\ pc \in {"entry", "upstream", "done"}
        /\ lane \in {"validating", "running", "cancelling", "idle"}
        /\ result.status = "none"
        /\ current \in 0 .. N /\ buffered \in 0 .. N /\ shown \in 0 .. N
    BY SuiteAssumption DEF Init, NoResult
  <2> QED
    BY <2>1, <2>2, <2>3 DEF TypeOK
<1>3. Prefix /\ Trailing /\ Outcome
  BY <1>1, SuiteAssumption DEF Init, Prefix, Trailing, Outcome, NoResult
<1> QED
  BY <1>2, <1>3 DEF TInv

(* However the run ends, its result accounts for its rows. *)
LEMMA EndInv ==
    ASSUME TInv, NEW ending, NEW scores, End(ending, scores),
           \/ ending = "completed" /\ ~asked /\ Len(rows) = N /\ scores = Earned(rows)
           \/ ending \in Errors \cup {"cancelled"} /\ scores = NoScores
    PROVE  TInv'
<1>1. /\ pc' = "done" /\ lane' = "idle" /\ buffered' = 0 /\ shown' = 0
      /\ rows' = rows /\ current' = current /\ asked' = asked
      /\ result'.status = ending /\ result'.rows = rows /\ result'.earned = scores
      /\ result'.gradable = Cardinality(GradableIn(rows))
  BY DEF End
<1>2. Len(rows) \in Nat
  BY DEF TInv, Prefix, Rows
<1>3. TypeOK'
  BY <1>1, SuiteAssumption DEF TInv, TypeOK
<1>4. Prefix'
  BY <1>1 DEF TInv, Prefix, InOrder
<1>5. Trailing'
  BY <1>1, <1>2 DEF Trailing
<1>6. GradableIn(rows)' = GradableIn(rows) /\ Earned(rows)' = Earned(rows)
  BY <1>1
<1>7. Outcome'
  BY <1>1, <1>6 DEF Outcome, Accounted
<1> QED
  BY <1>3, <1>4, <1>5, <1>7 DEF TInv

LEMMA StutterInv == TInv /\ UNCHANGED vars => TInv'
<1> SUFFICES ASSUME TInv, UNCHANGED vars PROVE TInv'
  OBVIOUS
<1>1. /\ pc' = pc /\ current' = current /\ rows' = rows /\ buffered' = buffered
      /\ shown' = shown /\ asked' = asked /\ lane' = lane /\ result' = result
  BY DEF vars
<1>2. TypeOK' /\ Prefix' /\ Trailing'
  BY <1>1 DEF TInv, TypeOK, Prefix, Trailing, InOrder
<1>3. Outcome'
  BY <1>1 DEF TInv, Outcome, Accounted
<1> QED
  BY <1>2, <1>3 DEF TInv

LEMMA EndsWithoutInv ==
    ASSUME TInv, NEW ending \in Errors \cup {"cancelled"}, EndsWithout(ending)
    PROVE  TInv'
  BY EndInv DEF EndsWithout

LEMMA RaisesInv ==
    ASSUME TInv, NEW ending \in Errors \cup {"cancelled"}, Raises(ending)
    PROVE  TInv'
  BY EndsWithoutInv, StutterInv DEF Raises

(* What both throttles let through: neither count goes back, and the last row *)
(* of the suite passes both.                                                  *)
LEMMA ProgressCounts ==
    ASSUME NEW rs \in Rows, Len(rs) <= N, Len(rows) <= Len(rs), rows \in Rows,
           NEW forced \in BOOLEAN, Progress(rs, forced),
           TypeOK, Trailing, pc = "upstream",
           Len(rs) = N => forced \/ Len(rows) = N
    PROVE  /\ shown' \in 0 .. N /\ buffered' \in 0 .. N /\ lane' = lane
           /\ shown <= shown' /\ shown' <= buffered' /\ buffered' <= Len(rs)
           /\ Len(rs) = N => shown' = N
<1>1. Len(rs) \in Nat /\ Len(rows) \in Nat /\ N \in Nat
  BY SuiteAssumption DEF Rows
<1>2. shown \in Nat /\ buffered \in Nat
  BY <1>1 DEF TypeOK
<1> QED
  BY <1>1, <1>2 DEF Progress, Trailing


LEMMA EnterInv == ASSUME TInv, Enter PROVE TInv'
<1>1. CASE \E e \in {"dependency_unavailable", "invalid_upstream_result"} :
              EndsWithout(e)
  BY <1>1, EndsWithoutInv DEF Errors
<1>2. CASE /\ pc' = "upstream" /\ lane' = "running"
           /\ UNCHANGED <<current, rows, buffered, shown, asked, result>>
  <2>1. pc = "entry" /\ rows = <<>>
    BY DEF Enter, TInv, Trailing
  <2>2. TypeOK' /\ Prefix'
    BY <1>2 DEF TInv, TypeOK, Prefix, InOrder
  <2>3. Trailing'
    BY <1>2, <2>1, SuiteAssumption DEF TInv, Trailing
  <2>4. Outcome'
    BY <1>2, <2>1 DEF TInv, Outcome
  <2> QED
    BY <2>2, <2>3, <2>4 DEF TInv
<1> QED
  BY <1>1, <1>2 DEF Enter

(* A callback that is let through: the rows grow, by a row that continues the *)
(* suite, or stay, and the counts trail them.                                 *)
LEMMA CallbackInv ==
    ASSUME TInv, pc = "upstream", NEW forced \in BOOLEAN,
           \/ rows' = rows
           \/ \E o \in Outcomes :
                 /\ rows' = Append(rows, [scenario |-> Len(rows) + 1, outcome |-> o])
                 /\ Len(rows) + 1 <= N /\ (Len(rows) + 1 = N => forced),
           Progress(rows', forced), current' \in 0 .. N,
           UNCHANGED <<pc, asked, result>>
    PROVE  /\ TInv'
           /\ shown' >= shown /\ (Len(rows') = N => shown' = N)
<1> DEFINE Row == [scenario : 1 .. N, outcome : Outcomes]
<1>1. rows \in Seq(Row) /\ Len(rows) \in Nat /\ Len(rows) <= N /\ N \in Nat
  BY SuiteAssumption DEF TInv, Prefix, Rows
<1>2. /\ rows' \in Seq(Row) /\ Len(rows') \in Nat
      /\ Len(rows) <= Len(rows') /\ Len(rows') <= N
      /\ InOrder(rows')
      /\ Len(rows') = N => forced \/ Len(rows) = N
  <2>1. CASE rows' = rows
    BY <1>1, <2>1 DEF TInv, Prefix
  <2>2. ASSUME NEW o \in Outcomes,
               rows' = Append(rows, [scenario |-> Len(rows) + 1, outcome |-> o]),
               Len(rows) + 1 <= N, Len(rows) + 1 = N => forced
        PROVE  /\ rows' \in Seq(Row) /\ Len(rows') \in Nat
               /\ Len(rows) <= Len(rows') /\ Len(rows') <= N
               /\ InOrder(rows')
               /\ Len(rows') = N => forced \/ Len(rows) = N
    <3> DEFINE row == [scenario |-> Len(rows) + 1, outcome |-> o]
    <3>1. row \in Row /\ row.scenario = Len(rows) + 1
      BY <1>1, <2>2
    <3> HIDE DEF Row, row
    <3>2. /\ rows' \in Seq(Row) /\ Len(rows') = Len(rows) + 1
          /\ DOMAIN rows' = 1 .. Len(rows) + 1
          /\ \A i \in 1 .. Len(rows) : rows'[i] = rows[i]
          /\ rows'[Len(rows) + 1] = row
      BY <1>1, <2>2, <3>1 DEF row
    <3>3. \A i \in 1 .. Len(rows) : rows[i].scenario = i
      BY <1>1 DEF TInv, Prefix, InOrder
    <3>4. InOrder(rows')
      BY <1>1, <3>1, <3>2, <3>3 DEF InOrder
    <3> QED
      BY <1>1, <2>2, <3>2, <3>4
  <2> QED
    BY <2>1, <2>2
<1>3. rows \in Rows /\ rows' \in Rows
  BY <1>1, <1>2 DEF Rows
<1>4. /\ shown' \in 0 .. N /\ buffered' \in 0 .. N /\ lane' = lane
      /\ shown <= shown' /\ shown' <= buffered' /\ buffered' <= Len(rows')
      /\ Len(rows') = N => shown' = N
  BY <1>2, <1>3, ProgressCounts DEF TInv
<1>5. TypeOK'
  BY <1>2, <1>4 DEF TInv, TypeOK
<1>6. Prefix'
  BY <1>2, <1>3 DEF Prefix
<1>7. Trailing' /\ Outcome'
  BY <1>4 DEF TInv, Trailing, Outcome
<1>8. shown \in 0 .. N
  BY DEF TInv, TypeOK
<1> QED
  BY <1>4, <1>5, <1>6, <1>7, <1>8 DEF TInv


(* A callback that raises ends the run or changes nothing. *)
LEMMA QuietRaises ==
    ASSUME TInv, pc = "upstream", NEW ending, Raises(ending), pc' = "upstream"
    PROVE  shown' >= shown /\ (Len(rows') = N => shown' = N)
<1>1. UNCHANGED vars
  BY DEF Raises, EndsWithout, End
<1>2. shown \in 0 .. N
  BY DEF TInv, TypeOK
<1> QED
  BY <1>1, <1>2 DEF vars, TInv, Trailing


LEMMA StartInv ==
    ASSUME TInv, NEW i \in 1 .. N, NEW honest \in BOOLEAN, OnScenarioStart(i, honest)
    PROVE  /\ TInv'
           /\ pc' = "upstream" => shown' >= shown /\ (Len(rows') = N => shown' = N)
<1>1. CASE asked
  BY <1>1, QuietRaises, RaisesInv DEF OnScenarioStart
<1>2. CASE ~asked /\ ~honest
  BY <1>2, QuietRaises, RaisesInv DEF OnScenarioStart, Errors
<1>3. CASE ~asked /\ honest
  <2>1. /\ pc = "upstream" /\ current' = i
        /\ Progress(rows, i = 1)
        /\ UNCHANGED <<pc, rows, asked, result>>
    BY <1>3 DEF OnScenarioStart
  <2>2. rows' = rows /\ current' \in 0 .. N /\ (i = 1) \in BOOLEAN
    BY <2>1
  <2>3. Progress(rows', i = 1)
    BY <2>1, <2>2
  <2> QED
    BY <2>1, <2>2, <2>3, CallbackInv
<1> QED
  BY <1>1, <1>2, <1>3

LEMMA ResultInv ==
    ASSUME TInv, NEW i \in 1 .. N, NEW o \in Outcomes, NEW honest \in BOOLEAN,
           OnScenarioResult(i, o, honest)
    PROVE  /\ TInv'
           /\ pc' = "upstream" => shown' >= shown /\ (Len(rows') = N => shown' = N)
<1>1. CASE asked
  BY <1>1, QuietRaises, RaisesInv DEF OnScenarioResult
<1>2. CASE ~asked /\ ~(honest /\ Expected(i))
  BY <1>2, QuietRaises, RaisesInv DEF OnScenarioResult, Errors
<1>3. CASE ~asked /\ honest /\ Expected(i)
  <2>1. /\ pc = "upstream" /\ current' = 0
        /\ rows' = Append(rows, [scenario |-> i, outcome |-> o])
        /\ Progress(rows', i = N)
        /\ UNCHANGED <<pc, asked, result>>
        /\ i = Len(rows) + 1
    BY <1>3 DEF OnScenarioResult, Expected
  <2>2. Len(rows) \in Nat /\ N \in Nat
    BY SuiteAssumption DEF TInv, Prefix, Rows
  <2>3. /\ rows' = Append(rows, [scenario |-> Len(rows) + 1, outcome |-> o])
        /\ Len(rows) + 1 <= N /\ (Len(rows) + 1 = N => i = N)
        /\ current' \in 0 .. N /\ (i = N) \in BOOLEAN
    BY <2>1, <2>2
  <2> QED
    BY <2>1, <2>3, CallbackInv
<1> QED
  BY <1>1, <1>2, <1>3


LEMMA UpstreamInv ==
    ASSUME TInv,
           \/ pc = "upstream" /\ \E e \in Envelopes : UpstreamReturns(e)
           \/ UpstreamRaises
    PROVE  TInv' /\ pc' = "done" /\ pc = "upstream"
<1>1. ASSUME NEW e \in Envelopes, UpstreamReturns(e) PROVE TInv' /\ pc' = "done"
  <2>1. CASE asked
    BY <1>1, <2>1, EndsWithoutInv DEF UpstreamReturns, EndsWithout, End
  <2>2. CASE ~asked /\ Accepts(e)
    <3>1. End("completed", e.earned) /\ Len(rows) = N /\ e.earned = Earned(rows)
      BY <1>1, <2>2 DEF UpstreamReturns, Accepts
    <3> QED
      BY <2>2, <3>1, EndInv DEF End
  <2>3. CASE ~asked /\ ~Accepts(e)
    <3>1. EndsWithout("invalid_upstream_result")
      BY <1>1, <2>3 DEF UpstreamReturns
    <3>2. "invalid_upstream_result" \in Errors
      BY DEF Errors
    <3> QED
      BY <3>1, <3>2, EndsWithoutInv DEF EndsWithout, End
  <2> QED
    BY <2>1, <2>2, <2>3
<1>2. CASE UpstreamRaises
  <2>1. PICK ending \in Errors \cup {"cancelled"} : EndsWithout(ending)
    BY <1>2 DEF UpstreamRaises
  <2> QED
    BY <1>2, <2>1, EndsWithoutInv DEF EndsWithout, End, UpstreamRaises
<1> QED
  BY <1>1, <1>2

LEMMA CancelInv == ASSUME TInv, Cancel PROVE TInv'
<1>1. /\ pc = "upstream" /\ pc' = pc /\ asked' = TRUE /\ lane' = "cancelling"
      /\ current' = current /\ rows' = rows /\ buffered' = buffered
      /\ shown' = shown /\ result' = result
  BY DEF Cancel
<1>2. TypeOK'
  BY <1>1 DEF TInv, TypeOK
<1>3. Prefix' /\ Trailing' /\ Outcome'
  BY <1>1 DEF TInv, Prefix, InOrder, Trailing, Outcome
<1> QED
  BY <1>2, <1>3 DEF TInv

Shows ==
    /\ pc' = "upstream" => shown' >= shown /\ (Len(rows') = N => shown' = N)
    /\ result.status # "none" => UNCHANGED <<result, lane>>

LEMMA NextInv == ASSUME TInv, [Next]_vars PROVE TInv' /\ [Shows]_vars
<1>1. CASE Done \/ UNCHANGED vars
  <2>1. UNCHANGED vars
    BY <1>1 DEF Done
  <2> QED
    BY <2>1, StutterInv
<1>2. ASSUME pc # "done", Next,
             TInv', pc' = "upstream" => shown' >= shown /\ (Len(rows') = N => shown' = N)
      PROVE  TInv' /\ [Shows]_vars
  BY <1>2 DEF TInv, Outcome, Shows
<1>3. shown \in 0 .. N
  BY DEF TInv, TypeOK
<1>4. CASE Enter
  <2>1. TInv' /\ pc = "entry"
    BY <1>4, EnterInv DEF Enter
  <2>2. pc' = "upstream" => shown' = shown /\ rows' = <<>>
    BY <1>4, <2>1 DEF Enter, EndsWithout, End, TInv, Trailing
  <2> QED
    BY <1>2, <1>3, <1>4, <2>1, <2>2, SuiteAssumption DEF Next
<1>5. CASE \E i \in 1 .. N, h \in BOOLEAN : OnScenarioStart(i, h)
  BY <1>2, <1>5, StartInv DEF OnScenarioStart, Next
<1>6. CASE \E i \in 1 .. N, o \in Outcomes, h \in BOOLEAN : OnScenarioResult(i, o, h)
  BY <1>2, <1>6, ResultInv DEF OnScenarioResult, Next
<1>7. CASE \/ pc = "upstream" /\ \E e \in Envelopes : UpstreamReturns(e)
           \/ UpstreamRaises
  BY <1>2, <1>7, UpstreamInv DEF Next
<1>8. CASE Cancel
  <2>1. /\ pc = "upstream" /\ shown' = shown /\ rows' = rows
    BY <1>8 DEF Cancel
  <2> QED
    BY <1>2, <1>3, <1>8, <2>1, CancelInv DEF Next, TInv, Trailing
<1> QED
  BY <1>1, <1>4, <1>5, <1>6, <1>7, <1>8 DEF Next

LEMMA Invariance == Spec => []TInv
<1>1. TInv /\ [Next]_vars => TInv'
  BY NextInv
<1> QED
  BY <1>1, InitInv, PTL DEF Spec

(* A completed result has a score that is full if and only if every scenario  *)
(* passed or was excluded.                                                    *)
LEMMA TellsTheTruth == TInv => ResultTellsTheTruth
<1> SUFFICES ASSUME TInv PROVE ResultTellsTheTruth
  OBVIOUS
<1>1. /\ TypeOK /\ InOrder(rows) /\ Len(rows) <= N /\ rows \in Rows
      /\ result.status # "none" => pc = "done"
      /\ pc = "done" => Accounted
  BY DEF TInv, Prefix, Outcome
<1>2. ASSUME result.status = "completed"
      PROVE  /\ Len(result.rows) = N
             /\ ~asked
             /\ Total(result.earned) <= 2 * result.gradable
             /\ Total(result.earned) = 2 * result.gradable <=>
                   \A i \in 1 .. N : result.rows[i].outcome \in {"pass", "excluded"}
  <2>1. /\ result.rows = rows /\ result.earned = Earned(rows) /\ Len(rows) = N
        /\ result.gradable = Cardinality(GradableIn(rows)) /\ ~asked
    BY <1>1, <1>2 DEF Accounted, Errors
  <2>2. Fits(Total(Earned(rows)), GradableIn(rows), FullMarks(rows))
    BY <1>1, TotalFits
  <2>3. DOMAIN rows = 1 .. N
    BY <1>1, <2>1, GradableFinite
  <2>4. GradableIn(rows) \subseteq FullMarks(rows) <=>
            \A i \in 1 .. N : rows[i].outcome \in {"pass", "excluded"}
    BY <2>3 DEF GradableIn, FullMarks
  <2> QED
    BY <2>1, <2>2, <2>4 DEF Fits
<1>3. result.status \notin {"none", "completed"} => result.earned = NoScores
  BY <1>1 DEF Accounted
<1>4. pc = "done" => result.rows = rows
  BY <1>1 DEF Accounted
<1> QED
  BY <1>1, <1>2, <1>3, <1>4 DEF ResultTellsTheTruth

(* Whatever the library calls and returns, for a suite of any size and any    *)
(* categories: a result has the reported scenarios in their order, a          *)
(* completed one all of them and the score they earned, and a run the user    *)
(* cancelled is not completed, even by a library that goes on.                *)
THEOREM ResultsTellTheTruth == Spec => []ResultTellsTheTruth
  BY Invariance, TellsTheTruth, PTL

(* The count on the lane never goes back and reaches the size of the suite    *)
(* with its last row; and no step follows a terminal result.                  *)
THEOREM ProgressesAreShown == Spec => ProgressIsShown
<1>1. TInv /\ [Next]_vars => [Shows]_vars
  BY NextInv
<1>2. Spec => [][Shows]_vars
  <2> HIDE DEF Shows
  <2> QED
    BY <1>1, Invariance, PTL DEF Spec
<1> QED
  BY <1>2 DEF Shows, ProgressIsShown

-------------------------------------------------------------------------------
(* The hardware monitor.  Where its worker waits determines which call NVML   *)
(* may be in and how many sessions are open before and after it.              *)

(* Where a cancellation has been delivered, and the refresh finishes what it  *)
(* cannot stop.                                                               *)
Unwinding == {"unmaking", "undoing", "awaiting", "reaping"}

(* Only the shutdown cancels, and it cancels a refresh once.                  *)
CancelledOnce ==
    /\ refresh = "idle" => ~cancel
    /\ refresh \in Unwinding => app = "waiting" /\ ~cancel
    /\ refresh \notin Unwinding \cup {"idle"} =>
          app \in {"up", "waiting"} /\ cancel = (app = "waiting")
    /\ abandoned => app # "up"

ProviderFits ==
    /\ refresh \in Creating => provider = "none"
    /\ refresh \in {"nvml", "awaiting"} => provider = "nvml"
    /\ refresh \in Collecting \ {"nvml", "awaiting"} => provider = "nvidia-smi"

Runs(call, before, after) ==
    \/ threads = {call} /\ sessions = before
    \/ threads = {} /\ sessions = after

(* The call NVML is in, if any, and the sessions it began with or leaves.     *)
SessionsFit ==
    CASE refresh \in {"creating", "unmaking"} ->
            Runs("init", 0, IF Initialised THEN 1 ELSE 0)
      [] refresh \in {"zero", "undoing"} -> Runs("shutdown", 1, 0)
      [] refresh \in {"nvml", "awaiting"} -> Runs("collect", 1, 1)
      [] app = "closing" -> Runs("shutdown", 1, 0)
      [] app = "stopped" -> threads = {} /\ sessions = 0
      [] OTHER -> threads = {} /\ sessions = IF provider = "nvml" THEN 1 ELSE 0

ChildFits ==
    /\ child = "alive" => refresh \in {"waiting", "grace"} \/ abandoned
    /\ child = "killed" => refresh \in {"killing", "reaping"} \/ app # "up"
    /\ refresh = "spawning" => child \in {"none", "gone"}

MInv ==
    /\ MonitorTypeOK /\ CancelledOnce /\ ProviderFits /\ SessionsFit /\ ChildFits
    /\ FlagOwned

LEMMA WorkerKeeps ==
    ASSUME MInv, Worker
    PROVE  MInv'
<1> USE DEF MInv, MonitorTypeOK, CancelledOnce, ProviderFits, SessionsFit, ChildFits, FlagOwned,
           Runs, Initialised, Creating, Collecting, Calls, Unwinding,
           config, published, nvml, smi
<1>1. CASE EnterRefresh
  <2>1. /\ refresh = "pending" /\ app = "up" /\ ~cancel /\ flag /\ threads = {}
        /\ child \in {"none", "gone", "alive"} /\ ~abandoned
        /\ UNCHANGED <<config, app, cancel, closed, smi>> /\ pending' = FALSE
    BY <1>1 DEF EnterRefresh
  <2>2. CASE /\ provider = "nvml"
             /\ refresh' = "nvml" /\ Start("collect")
             /\ UNCHANGED <<published, provider>>
    BY <2>1, <2>2 DEF Start
  <2>3. CASE /\ provider = "nvidia-smi"
             /\ refresh' = "spawning" /\ UNCHANGED <<published, provider, nvml>>
    BY <2>1, <2>3
  <2>4. CASE /\ provider = "unavailable"
             /\ CollectedUnavailable /\ UNCHANGED <<provider, nvml>>
    BY <2>1, <2>4 DEF CollectedUnavailable
  <2>5. CASE /\ provider = "none" /\ preferred # "nvidia-smi"
             /\ refresh' = "creating" /\ Start("init")
             /\ UNCHANGED <<published, provider>>
    BY <2>1, <2>5 DEF Start
  <2>6. CASE provider = "none" /\ TrySmi /\ UNCHANGED nvml
    <3>1. CASE SelectUnavailable
      BY <2>1, <2>6, <3>1 DEF SelectUnavailable, CollectedUnavailable
    <3>2. CASE provider' = "nvidia-smi" /\ refresh' = "spawning" /\ UNCHANGED published
      BY <2>1, <2>6, <3>2
    <3> QED
      BY <2>6, <3>1, <3>2 DEF TrySmi
  <2> QED
    BY <1>1, <2>2, <2>3, <2>4, <2>5, <2>6 DEF EnterRefresh
<1>2. CASE Created
  BY <1>2 DEF Created, NextCandidate, TrySmi, SelectUnavailable, CollectedUnavailable, ZeroDevices, Start
<1>3. CASE ZeroShutDown
  BY <1>3 DEF ZeroShutDown, NextCandidate, TrySmi, SelectUnavailable, CollectedUnavailable,
               Failed
<1>4. CASE Unmade
  BY <1>4 DEF Unmade, Undo, Start, Cancelled
<1>5. CASE Undone
  BY <1>5 DEF Undone, Cancelled
<1>6. CASE NvmlCollected
  BY <1>6 DEF NvmlCollected, Failed, Collected, GpuReadings, SystemPartial
<1>7. CASE Awaited
  BY <1>7 DEF Awaited, Cancelled
<1>8. CASE Spawned
  <2>1. refresh = "spawning" /\ ~cancel /\ UNCHANGED <<cancel, abandoned>> /\ SmiFrame
    BY <1>8 DEF Spawned
  <2>2. CASE refresh' = "waiting" /\ child' = "alive" /\ UNCHANGED published
    BY <2>1, <2>2 DEF SmiFrame
  <2>3. ASSUME NEW s \in {"unavailable", "error"}, Failed(s), UNCHANGED child
        PROVE  MInv'
    BY <2>1, <2>3 DEF SmiFrame, Failed
  <2> QED
    BY <1>8, <2>2, <2>3 DEF Spawned
<1>9. CASE SmiCollected
  BY <1>9 DEF SmiCollected, SmiOutput, Failed, Collected, SystemPartial, SmiFrame
<1>10. CASE TimedOut
  BY <1>10 DEF TimedOut, SmiFrame
<1>11. CASE GraceOver
  BY <1>11 DEF GraceOver, SmiFrame
<1>12. CASE Terminated
  BY <1>12 DEF Terminated, Failed, SmiFrame
<1>13. CASE Reaped
  BY <1>13 DEF Reaped, Cancelled, SmiFrame
<1> QED
  BY <1>1, <1>2, <1>3, <1>4, <1>5, <1>6, <1>7, <1>8, <1>9, <1>10, <1>11, <1>12, <1>13 DEF Worker

LEMMA CancellingKeeps ==
    ASSUME MInv, Cancelling
    PROVE  MInv'
<1> USE DEF MInv, MonitorTypeOK, CancelledOnce, ProviderFits, SessionsFit, ChildFits, FlagOwned,
           Runs, Initialised, Creating, Collecting, Calls, Unwinding,
           config, published, nvml, smi
<1>1. CASE CancelledPending
  <2>1. /\ refresh = "pending" /\ refresh' = "idle" /\ cancel /\ cancel' = FALSE
        /\ UNCHANGED <<config, app, pending, published, provider, closed, nvml, smi>>
    BY <1>1 DEF CancelledPending, Cancelled, Deliver
  <2>2. app = "waiting" /\ app' = "waiting"
    BY <2>1
  <2>3. /\ threads' = {} /\ provider' = provider
        /\ sessions' = IF provider = "nvml" THEN 1 ELSE 0
    BY <2>1, <2>2
  <2>4. SessionsFit'
    BY <2>1, <2>2, <2>3
  <2>5. CancelledOnce' /\ ProviderFits' /\ ChildFits'
    BY <2>1, <2>2
  <2>6. MonitorTypeOK' /\ FlagOwned'
    BY <2>1, <2>2
  <2> QED
    BY <2>4, <2>5, <2>6
<1>2. CASE CancelledCreating
  <2>1. CancelledOnce' /\ ProviderFits' /\ ChildFits'
    BY <1>2 DEF CancelledCreating, Deliver
  <2>2. SessionsFit'
    BY <1>2 DEF CancelledCreating, Deliver
  <2>3. MonitorTypeOK' /\ FlagOwned'
    BY <1>2 DEF CancelledCreating, Deliver
  <2> QED
    BY <2>1, <2>2, <2>3
<1>3. CASE CancelledZero
  <2>1. CancelledOnce' /\ ProviderFits' /\ ChildFits'
    BY <1>3 DEF CancelledZero, Deliver
  <2>2. SessionsFit'
    BY <1>3 DEF CancelledZero, Deliver
  <2>3. MonitorTypeOK' /\ FlagOwned'
    BY <1>3 DEF CancelledZero, Deliver
  <2> QED
    BY <2>1, <2>2, <2>3
<1>4. CASE CancelledCollecting
  <2>1. CancelledOnce' /\ ProviderFits' /\ ChildFits'
    BY <1>4 DEF CancelledCollecting, Deliver
  <2>2. SessionsFit'
    BY <1>4 DEF CancelledCollecting, Deliver
  <2>3. MonitorTypeOK' /\ FlagOwned'
    BY <1>4 DEF CancelledCollecting, Deliver
  <2> QED
    BY <2>1, <2>2, <2>3
<1>5. CASE CancelledSpawning
  <2>1. CancelledOnce' /\ ProviderFits' /\ ChildFits'
    BY <1>5 DEF CancelledSpawning, Cancelled, Deliver, SmiFrame
  <2>2. SessionsFit'
    BY <1>5 DEF CancelledSpawning, Cancelled, Deliver, SmiFrame
  <2>3. MonitorTypeOK' /\ FlagOwned'
    BY <1>5 DEF CancelledSpawning, Cancelled, Deliver, SmiFrame
  <2> QED
    BY <2>1, <2>2, <2>3
<1>6. CASE CancelledWaiting
  <2>1. CancelledOnce' /\ ProviderFits' /\ ChildFits'
    BY <1>6 DEF CancelledWaiting, Deliver, SmiFrame
  <2>2. SessionsFit'
    BY <1>6 DEF CancelledWaiting, Deliver, SmiFrame
  <2>3. MonitorTypeOK' /\ FlagOwned'
    BY <1>6 DEF CancelledWaiting, Deliver, SmiFrame
  <2> QED
    BY <2>1, <2>2, <2>3
<1>7. CASE CancelledGrace
  <2>1. CancelledOnce' /\ ProviderFits' /\ ChildFits'
    BY <1>7 DEF CancelledGrace, Cancelled, Deliver, SmiFrame
  <2>2. SessionsFit'
    BY <1>7 DEF CancelledGrace, Cancelled, Deliver, SmiFrame
  <2>3. MonitorTypeOK' /\ FlagOwned'
    BY <1>7 DEF CancelledGrace, Cancelled, Deliver, SmiFrame
  <2> QED
    BY <2>1, <2>2, <2>3
<1>8. CASE CancelledKilling
  <2>1. CancelledOnce' /\ ProviderFits' /\ ChildFits'
    BY <1>8 DEF CancelledKilling, Failed, Deliver, SmiFrame
  <2>2. SessionsFit'
    BY <1>8 DEF CancelledKilling, Failed, Deliver, SmiFrame
  <2>3. MonitorTypeOK' /\ FlagOwned'
    BY <1>8 DEF CancelledKilling, Failed, Deliver, SmiFrame
  <2> QED
    BY <2>1, <2>2, <2>3
<1> QED
  BY <1>1, <1>2, <1>3, <1>4, <1>5, <1>6, <1>7, <1>8 DEF Cancelling

LEMMA ThreadsKeep ==
    ASSUME MInv, Threads
    PROVE  MInv'
<1> USE DEF MInv, MonitorTypeOK, CancelledOnce, ProviderFits, SessionsFit, ChildFits, FlagOwned,
           Runs, Initialised, Creating, Collecting, Calls, Unwinding,
           config, published, nvml, smi
<1>1. CASE InitReturns
  BY <1>1 DEF InitReturns
<1>2. CASE ShutdownReturns
  BY <1>2 DEF ShutdownReturns
<1>3. CASE CollectReturns
  BY <1>3 DEF CollectReturns
<1> QED
  BY <1>1, <1>2, <1>3 DEF Threads

LEMMA MonitorStarts == MonitorInit => MInv
<1> SUFFICES ASSUME MonitorInit
             PROVE  MInv
  OBVIOUS
<1>1. MonitorTypeOK
  <2>1. {primeFailed, cancel, pending, flag, snapshot, closed, abandoned} \subseteq BOOLEAN
    BY DEF MonitorInit
  <2>2. /\ refresh = "idle" /\ app = "up" /\ status = "disabled" /\ provider = "none"
        /\ threads = {} /\ found = "error" /\ sessions = 0 /\ child = "none"
        /\ preferred \in {"auto", "nvml", "nvidia-smi"}
    BY DEF MonitorInit
  <2> QED
    BY <2>1, <2>2 DEF MonitorTypeOK
<1>2. CancelledOnce /\ ChildFits /\ FlagOwned
  BY DEF MonitorInit, CancelledOnce, Unwinding, ChildFits, FlagOwned
<1>3. ProviderFits /\ SessionsFit
  BY DEF MonitorInit, ProviderFits, SessionsFit, Creating, Collecting
<1> QED
  BY <1>1, <1>2, <1>3 DEF MInv

LEMMA MonitorStep == MInv /\ [MonitorNext]_monitorVars => MInv'
<1> SUFFICES ASSUME MInv, [MonitorNext]_monitorVars
             PROVE  MInv'
  OBVIOUS
<1>1. CASE Worker \/ Cancelling \/ Threads
  BY <1>1, WorkerKeeps, CancellingKeeps, ThreadsKeep
<1> USE DEF MInv, MonitorTypeOK, CancelledOnce, ProviderFits, SessionsFit, ChildFits, FlagOwned,
           Runs, Initialised, Creating, Collecting, Calls, Unwinding,
           config, published, nvml, smi
<1>2. CASE BeginRefresh
  BY <1>2 DEF BeginRefresh
<1>3. CASE ChildExits
  BY <1>3 DEF ChildExits, SmiFrame
<1>4. CASE KilledDies
  BY <1>4 DEF KilledDies, SmiFrame
<1>5. CASE Quit
  BY <1>5 DEF Quit
<1>6. CASE Close
  BY <1>6 DEF Close, Start
<1>7. CASE Closed
  BY <1>7 DEF Closed
<1>8. CASE UNCHANGED monitorVars
  BY <1>8 DEF monitorVars
<1> QED
  BY <1>1, <1>2, <1>3, <1>4, <1>5, <1>6, <1>7, <1>8 DEF MonitorNext, Stopped

LEMMA MonitorAlways == MonitorSpec => []MInv
  BY MonitorStarts, MonitorStep, PTL DEF MonitorSpec

LEMMA SessionsAreOwned ==
    ASSUME MInv
    PROVE  SessionOwned
<1>1. threads = {} \/ \E call : threads = {call}
  BY DEF MInv, SessionsFit, Runs
<1>2. threads # {} => Cardinality(threads) = 1
  BY <1>1, FS_Singleton
<1>3. MonitorTypeOK
  BY DEF MInv
<1>4. refresh = "idle" /\ app \in {"up", "waiting"} =>
          sessions = (IF provider = "nvml" THEN 1 ELSE 0)
  BY DEF MInv, SessionsFit, Runs
<1>5. app = "stopped" => sessions = 0
  BY DEF MInv, SessionsFit, Runs, CancelledOnce, Unwinding
<1>6. threads \cap {"collect", "shutdown"} # {} => sessions = 1
  BY DEF MInv, SessionsFit, Runs
<1> QED
  BY <1>2, <1>3, <1>4, <1>5, <1>6 DEF SessionOwned

LEMMA ChildrenAreReaped == MInv => ChildReaped
  BY DEF MInv, ChildFits, ChildReaped

(* Whatever fails, hangs or is cancelled: every nvmlInit is undone once and no *)
(* thread uses NVML while another shuts it down; no refresh leaves a living    *)
(* nvidia-smi behind, but one cancelled in the grace period; the flag is set   *)
(* exactly while a refresh is reserved or runs.                                *)
THEOREM MonitorLeaksNothing == MonitorSpec => []NothingLeaks
<1>1. MInv => NothingLeaks
  BY SessionsAreOwned, ChildrenAreReaped DEF NothingLeaks, MInv
<1> QED
  BY <1>1, MonitorAlways, PTL

=============================================================================
