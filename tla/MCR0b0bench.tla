---------------------------- MODULE MCR0b0bench ----------------------------
(* Runs of r0b0bench and installations of its datasets.  A run reads which    *)
(* datasets are offered once, in its form, so the two share nothing: each is  *)
(* checked while the other stands at its beginning.                           *)
EXTENDS R0b0benchRun, R0b0benchDatasets

MCInit == Init /\ DatasetsInit

MCNext ==
    \/ DatasetsInit /\ Next /\ UNCHANGED datasetsVars
    \/ Init /\ DatasetsNext /\ UNCHANGED vars

MCSpec == MCInit /\ [][MCNext]_<<vars, datasetsVars>> /\ Fairness

=============================================================================
