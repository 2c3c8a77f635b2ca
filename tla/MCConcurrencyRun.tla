--------------------------- MODULE MCConcurrencyRun ---------------------------
(* ConcurrencyRun for TLC: two levels, the second with three workers; the early  *)
(* stop counts two requests where the code counts eight.                       *)
EXTENDS ConcurrencyRun

MCLevels == <<1, 3>>

=============================================================================
