---------------------------- MODULE MCSequentialRun ----------------------------
EXTENDS SequentialRun

(* A request that drafts nothing, and one that drafts two tokens, one of them *)
(* accepted.                                                                  *)
MCUsage == {[draft |-> 0, accepted |-> 0], [draft |-> 2, accepted |-> 1]}

=============================================================================
