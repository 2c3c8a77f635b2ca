-------------------------- MODULE MCToolCallingRun --------------------------
(* Three scenarios, two of them of one category; and, beside them, all of     *)
(* HardwareMonitor, which has no constants.  The two share nothing: each is   *)
(* checked while the other stands at its beginning.                           *)
EXTENDS ToolCallingRun, HardwareMonitor

MCCategory == <<"A", "A", "K">>

MCInit == Init /\ MonitorInit

MCNext ==
    \/ MonitorInit /\ Next /\ UNCHANGED monitorVars
    \/ Init /\ MonitorNext /\ UNCHANGED vars

MCSpec == MCInit /\ [][MCNext]_<<vars, monitorVars>> /\ MonitorFairness

=============================================================================
