---------------------------- MODULE MCContextRun ----------------------------
(* Three targets, so that two partly rejected ones may follow each other. *)
EXTENDS ContextRun

MCTargets == <<1, 2, 3>>

=============================================================================
