-------------------------- MODULE TrafficOwnership --------------------------
(* What ModelTop promises about the traffic it sends to the one model server, *)
(* without workers, services or statuses.  At any time the traffic belongs to *)
(* nobody or to one user: one of the benchmark lanes, or Chat.  Discovery     *)
(* (GET /v1/models) runs beside it as the one other source of requests.  A    *)
(* quiet lane never shares the server with discovery and works on one model   *)
(* from its reservation to its result.  TrafficLanes implements this module.  *)

CONSTANTS
    Lanes,      \* the benchmark lanes
    Quiet,      \* the lanes that must not share the server with discovery
    Chat,       \* the chat lane
    Nobody,     \* the owner when no user holds the traffic
    Models,     \* the model ids a server may announce
    NoModel     \* no model is selected

VARIABLES
    owner,      \* who holds the generation traffic
    probing,    \* whether discovery is reserved or in flight
    selected    \* the model new work would use

vars == <<owner, probing, selected>>

Users == Lanes \cup {Chat}

TypeOK ==
    /\ owner \in Users \cup {Nobody}
    /\ probing \in BOOLEAN
    /\ selected \in Models \cup {NoModel}

Init ==
    /\ owner = Nobody
    /\ probing \in BOOLEAN
    /\ selected = NoModel

(* A user takes free traffic, on the selected model. *)
Acquire(u) ==
    /\ owner = Nobody
    /\ selected # NoModel
    /\ u \in Quiet => ~probing
    /\ owner' = u
    /\ UNCHANGED <<probing, selected>>

(* The owner's run ends; discovery may resume in the same step. *)
Release ==
    /\ owner # Nobody
    /\ owner' = Nobody
    /\ probing => probing'
    /\ probing' \in BOOLEAN
    /\ UNCHANGED selected

(* Discovery starts; every lane, quiet or not, keeps it from starting. *)
StartDiscovery ==
    /\ ~probing
    /\ owner \notin Lanes
    /\ probing' = TRUE
    /\ UNCHANGED <<owner, selected>>

(* Discovery ends, with a selection the fresh announcement supports. *)
EndDiscovery ==
    /\ probing
    /\ probing' = FALSE
    /\ selected' \in Models \cup {NoModel}
    /\ UNCHANGED owner

(* The user picks a model, never while a lane is at work. *)
Choose ==
    /\ owner \notin Lanes
    /\ selected' \in Models
    /\ UNCHANGED <<owner, probing>>

Next ==
    \/ \E u \in Users : Acquire(u)
    \/ Release
    \/ StartDiscovery
    \/ EndDiscovery
    \/ Choose

Spec == Init /\ [][Next]_vars

-----------------------------------------------------------------------------
(* A quiet lane and discovery never hold the server together: the claim of   *)
(* src/README.md, "no /v1/models traffic contaminates the benchmark".        *)
QuietMeansQuiet == owner \in Quiet => ~probing

(* While a quiet lane keeps the traffic, the selection does not move.        *)
SelectionHeld ==
    [][(owner \in Quiet /\ owner' = owner) => selected' = selected]_vars

=============================================================================
