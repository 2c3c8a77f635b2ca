--------------------------- MODULE MCResultArchive ---------------------------
(* Two processes, and a result for each; and the selection in the Results     *)
(* workspace among three archived results, two of them of one benchmark.      *)
(* What ResultArchive writes is any answer to a load of ArchivedSelection, so *)
(* each is checked while the other stands at its beginning, with nothing      *)
(* loaded yet for ResultArchive.                                              *)
EXTENDS ResultArchive, ArchivedSelection, FiniteSets, TLC

CONSTANTS p1, p2, r1, r2

\* Both are of one benchmark and complete in the same second, each in a process
\* of its own or one after the other in one.
MCStamp == r1 :> 1 @@ r2 :> 1

MCArchived == 1 .. 3

MCKind == <<"speed-test", "speed-test", "context">>

\* What is known of a selection is what the tuple comprehensions select.
ASSUME KnownSelects ==
    \A n \in 0 .. 2 : \A ids \in [1 .. n -> 1 .. 3] : \A loaded \in SUBSET (1 .. 3) :
        Known(ids, loaded) = SelectSeq(ids, LAMBDA id : id \in loaded)

\* What is of no interest apart is which process and which result is which.
MCSymmetry == Permutations(Procs) \cup Permutations(Results)

\* One document and one entry are damaged at most, of the two or three there are.
MCDamage == Cardinality(damaged) <= 1 /\ Cardinality(index.invalid) <= 1

MCInit == Init /\ SelectionInit

MCNext ==
    \/ SelectionInit /\ documents = {} /\ Next /\ UNCHANGED selectionVars
    \/ Init /\ SelectionNext /\ UNCHANGED vars

MCSpec == MCInit /\ [][MCNext]_<<vars, selectionVars>>

=============================================================================
