--------------------------- MODULE MCTrafficLanes ---------------------------
(* ModelTopApp for TLC: TrafficLanes with two models a server may announce,   *)
(* the configured default being the one that sorts last; and Dashboard, with  *)
(* two configurations, the larger of which the program has by itself.  Each   *)
(* is checked while the other stands at its beginning: what a reservation may *)
(* come to is any answer to the dashboard.                                    *)
EXTENDS TrafficLanes, Dashboard

MCModels == 1 .. 2

MCDefault == 2

MCInit == Init /\ DashboardInit

MCNext ==
    \/ DashboardInit /\ Next /\ UNCHANGED dashboardVars
    \/ Init /\ DashboardNext /\ UNCHANGED vars

MCSpec == MCInit /\ [][MCNext]_<<vars, dashboardVars>> /\ Fairness

=============================================================================
