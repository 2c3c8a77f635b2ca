----------------------------- MODULE ProbePlanner -----------------------------
(* ContextProbePlanner: which prompt length a Context Length probe tries next. *)
(* It doubles from a start until a length is rejected or the maximum is        *)
(* accepted, then halves the gap between the highest accepted and the lowest   *)
(* rejected length.  Lengths that were not tried are never taken for evidence. *)
(* Definitions named M_... are deliberate mistakes: each stands for a bug the  *)
(* code could have in the definition after it, and no behaviour uses them.     *)
EXTENDS Integers, Sequences, FiniteSets

CONSTANTS
    Start,          \* probe_start_tokens
    Maximum,        \* the smaller of probe_maximum_tokens and the safety maximum
    Resolution      \* probe_resolution_tokens

(* What __init__ verifies, or raises. *)
ASSUME PlannerAssumption ==
    /\ Start \in Nat /\ Maximum \in Nat /\ Resolution \in Nat
    /\ Resolution > 0
    /\ 0 < Start /\ Start < Maximum
    /\ Start % Resolution = 0 /\ Maximum % Resolution = 0

VARIABLES
    success,        \* highest confirmed success, 0 before the first
    rejection,      \* first confirmed rejection, 0 before the first
    attempted,      \* candidates recorded so far
    candidate,      \* the next candidate, 0 when planning is terminal
    stage           \* exponential, binary, complete, inconclusive

planner == <<success, rejection, attempted, candidate, stage>>

Least(m, n) == IF m < n THEN m ELSE n

AlignDown(n) == (n \div Resolution) * Resolution

-----------------------------------------------------------------------------
Complete == candidate' = 0 /\ stage' = "complete"

(* _advance_after_success without a rejection. *)
Double(c) ==
    LET next == AlignDown(Least(2 * c, Maximum)) IN
    /\ candidate' = IF next <= c THEN Least(c + Resolution, Maximum) ELSE next
    /\ UNCHANGED stage

M_RoundsUp(low, high) == AlignDown((low + high) \div 2) + Resolution

Middle(low, high) == AlignDown((low + high) \div 2)

(* _choose_binary_candidate, between the bounds as they are now. *)
Halve(low, high) ==
    LET middle == Middle(low, high)
        next == IF middle <= low THEN low + Resolution ELSE middle
    IN IF high - low <= Resolution \/ next >= high \/ next \in attempted'
       THEN Complete
       ELSE candidate' = next /\ stage' = "binary"

M_KeepsDoubling(c) ==
    /\ success' = c
    /\ UNCHANGED rejection
    /\ IF c >= Maximum THEN Complete ELSE Double(c)

Accepted(c) ==
    /\ success' = c
    /\ UNCHANGED rejection
    /\ IF c >= Maximum THEN Complete
       ELSE IF rejection = 0 THEN Double(c)
       ELSE Halve(c, rejection)

Rejected(c) ==
    /\ rejection' = c
    /\ UNCHANGED success
    /\ IF success = 0 THEN Complete ELSE Halve(success, c)

(* Mixed outcomes, or an acceptance nobody knows, move no bound. *)
Inconclusive ==
    /\ candidate' = 0 /\ stage' = "inconclusive"
    /\ UNCHANGED <<success, rejection>>

AllAccepted(outcomes) == outcomes = {"accepted"}

AllRejected(outcomes) == outcomes = {"rejected"}

(* record, with the set of the outcomes of the candidate's repetitions. *)
Record(outcomes) ==
    /\ candidate # 0
    /\ attempted' = attempted \cup {candidate}
    /\ IF AllAccepted(outcomes) THEN Accepted(candidate)
       ELSE IF AllRejected(outcomes) THEN Rejected(candidate)
       ELSE Inconclusive

PlannerInit ==
    /\ success = 0 /\ rejection = 0
    /\ attempted = {}
    /\ candidate = Start
    /\ stage = "exponential"

PlannerNext == \E outcomes \in SUBSET {"accepted", "rejected", "unknown"} :
                   outcomes # {} /\ Record(outcomes)

PlannerSpec == PlannerInit /\ [][PlannerNext]_planner

-----------------------------------------------------------------------------
PlannerTypeOK ==
    /\ success \in Nat /\ rejection \in Nat /\ candidate \in Nat
    /\ attempted \subseteq 1 .. Maximum
    /\ stage \in {"exponential", "binary", "complete", "inconclusive"}

(* The bounds never cross and each was tried; the next candidate was not, and *)
(* lies between them; and a probe that calls itself complete has closed the   *)
(* gap to the resolution, accepted the maximum or seen the start rejected.    *)
ProbeSound ==
    /\ PlannerTypeOK
    /\ success # 0 => success \in attempted
    /\ rejection # 0 => rejection \in attempted /\ success < rejection
    /\ candidate # 0 =>
          /\ candidate \notin attempted
          /\ success < candidate /\ candidate <= Maximum
          /\ rejection # 0 => candidate < rejection
    /\ stage = "complete" =>
          \/ success = Maximum
          \/ success = 0 /\ rejection = Start
          \/ rejection # 0 /\ rejection - success <= Resolution

=============================================================================
