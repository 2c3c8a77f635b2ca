---------------------------- MODULE HardwareMonitor ----------------------------
(* The monitor of the local machine: a refresh worker that selects a provider *)
(* once and collects through it, the threads in which NVML runs, the child    *)
(* process nvidia-smi runs in, and the shutdown of the application, which     *)
(* cancels the worker at any of its awaits, waits for it and closes NVML.     *)
(* Definitions named M_... are deliberate mistakes: each stands for a bug the *)
(* code could have in the definition after it, and no behaviour uses them.    *)
EXTENDS Naturals, FiniteSets

VARIABLES
    preferred,  \* config.preferred_provider: auto, nvml, nvidia-smi
    primeFailed,\* the CPU metrics could not be primed: every sample is partial
    app,        \* up, waiting (for its workers), closing (the provider), stopped
    refresh,    \* where the refresh worker waits; idle when there is none
    cancel,     \* it has a cancellation to deliver
    pending,    \* _refresh_pending
    flag,       \* state.hardware_is_refreshing
    status,     \* state.hardware_status
    snapshot,   \* state.hardware_snapshot is not None
    provider,   \* the selected provider: none, nvml, nvidia-smi, unavailable
    closed,     \* the monitor and its provider are closed
    threads,    \* NVML calls running in threads: init, collect, shutdown
    found,      \* what the last init found: error, zero, many
    sessions,   \* nvmlInit calls not yet undone by nvmlShutdown
    child,      \* nvidia-smi: none, alive, killed (SIGKILL sent), gone
    abandoned   \* history: a cancellation ended the grace period after SIGTERM

config == <<preferred, primeFailed>>
published == <<flag, status, snapshot>>
nvml == <<threads, found, sessions>>
smi == <<child, abandoned>>
monitorVars ==
    <<config, app, refresh, cancel, pending, published, provider, closed, nvml, smi>>

Creating == {"creating", "zero", "unmaking", "undoing"}
Collecting == {"nvml", "awaiting", "spawning", "waiting", "grace", "killing", "reaping"}
Calls == {"init", "collect", "shutdown"}

MonitorTypeOK ==
    /\ preferred \in {"auto", "nvml", "nvidia-smi"}
    /\ {primeFailed, cancel, pending, flag, snapshot, closed, abandoned} \subseteq BOOLEAN
    /\ app \in {"up", "waiting", "closing", "stopped"}
    /\ refresh \in Creating \cup Collecting \cup {"idle", "pending"}
    /\ status \in {"disabled", "initialising", "available", "degraded",
                   "unavailable", "error"}
    /\ provider \in {"none", "nvml", "nvidia-smi", "unavailable"}
    /\ threads \subseteq Calls
    /\ found \in {"error", "zero", "many"}
    /\ sessions \in 0 .. 2
    /\ child \in {"none", "alive", "killed", "gone"}

-----------------------------------------------------------------------------
(* The end of a refresh *)

M_FailureKeepsFlag(s) ==
    /\ refresh' = "idle"
    /\ status' = s
    /\ UNCHANGED <<flag, snapshot>>

(* _finish_failure: the last snapshot is kept. *)
Failed(s) ==
    /\ refresh' = "idle"
    /\ status' = s
    /\ flag' = FALSE
    /\ UNCHANGED snapshot

(* Whether a sample of CPU, load and memory lacks a value: any may fail, and  *)
(* all do since the first if the CPU counters could not be primed.            *)
SystemPartial == {TRUE, primeFailed}

(* A coherent snapshot of a provider; any missing metric degrades it. *)
Collected(gpuPartial) ==
    /\ refresh' = "idle"
    /\ flag' = FALSE
    /\ snapshot' = TRUE
    /\ \E systemPartial \in SystemPartial :
          status' = IF gpuPartial \/ systemPartial THEN "degraded" ELSE "available"

M_ErrorDegrades ==
    /\ refresh' = "idle"
    /\ flag' = FALSE
    /\ snapshot' = TRUE
    /\ status' = "degraded"

(* Of a machine without a usable GPU: system metrics and the reason. *)
CollectedUnavailable ==
    /\ refresh' = "idle"
    /\ flag' = FALSE
    /\ snapshot' = TRUE
    /\ status' = "unavailable"

(* A cancelled refresh publishes nothing. *)
Cancelled == refresh' = "idle" /\ UNCHANGED published

Deliver == cancel /\ cancel' = FALSE

-----------------------------------------------------------------------------
(* Launch *)

BeginRefresh ==
    /\ app = "up" /\ refresh = "idle"
    /\ ~closed /\ ~pending /\ ~flag
    /\ pending' = TRUE
    /\ flag' = TRUE
    /\ status' = IF snapshot THEN status ELSE "initialising"
    /\ refresh' = "pending"
    /\ UNCHANGED <<config, app, cancel, snapshot, provider, closed, nvml, smi>>

Start(call) == threads' = threads \cup {call} /\ UNCHANGED <<found, sessions>>

(* No candidate is left. *)
SelectUnavailable == provider' = "unavailable" /\ CollectedUnavailable

(* nvidia-smi is on the PATH, or it is no provider. *)
TrySmi ==
    \/ provider' = "nvidia-smi" /\ refresh' = "spawning" /\ UNCHANGED published
    \/ SelectUnavailable

(* After NVML turned out to be unusable. *)
NextCandidate == IF preferred = "auto" THEN TrySmi ELSE SelectUnavailable

(* refresh, up to its first await: the selected provider, or the first        *)
(* candidate.                                                                 *)
EnterRefresh ==
    /\ refresh = "pending" /\ ~cancel
    /\ pending' = FALSE
    /\ \/ /\ provider = "nvml"
          /\ refresh' = "nvml" /\ Start("collect") /\ UNCHANGED <<published, provider>>
       \/ /\ provider = "nvidia-smi"
          /\ refresh' = "spawning" /\ UNCHANGED <<published, provider, nvml>>
       \/ /\ provider = "unavailable"
          /\ CollectedUnavailable /\ UNCHANGED <<provider, nvml>>
       \/ /\ provider = "none" /\ preferred # "nvidia-smi"
          /\ refresh' = "creating" /\ Start("init") /\ UNCHANGED <<published, provider>>
       \/ /\ provider = "none" /\ preferred = "nvidia-smi"
          /\ TrySmi /\ UNCHANGED nvml
    /\ UNCHANGED <<config, app, cancel, closed, smi>>

(* A worker cancelled before its entry never runs. *)
CancelledPending ==
    /\ refresh = "pending" /\ Deliver
    /\ Cancelled
    /\ UNCHANGED <<config, app, pending, provider, closed, nvml, smi>>

-----------------------------------------------------------------------------
(* NVML: creation *)

(* The thread of initialize: a count that fails is undone there.              *)
InitReturns ==
    /\ "init" \in threads
    /\ threads' = threads \ {"init"}
    /\ found' \in {"error", "zero", "many"}
    /\ sessions' = IF found' = "error" THEN sessions ELSE sessions + 1
    /\ UNCHANGED <<config, app, refresh, cancel, pending, published, provider, closed, smi>>

ShutdownReturns ==
    /\ "shutdown" \in threads
    /\ threads' = threads \ {"shutdown"}
    /\ sessions' = sessions - 1
    /\ UNCHANGED <<config, app, refresh, cancel, pending, published, provider, closed,
                   found, smi>>

CollectReturns ==
    /\ "collect" \in threads
    /\ threads' = threads \ {"collect"}
    /\ UNCHANGED <<config, app, refresh, cancel, pending, published, provider, closed,
                   found, sessions, smi>>

(* No device: NVML is shut down before the next candidate is tried. *)
ZeroDevices == refresh' = "zero" /\ Start("shutdown") /\ UNCHANGED <<published, provider>>

Created ==
    /\ refresh = "creating" /\ ~cancel
    /\ "init" \notin threads
    /\ \/ found = "error" /\ NextCandidate /\ UNCHANGED nvml
       \/ found = "zero" /\ ZeroDevices
       \/ /\ found = "many" /\ provider' = "nvml"
          /\ refresh' = "nvml" /\ Start("collect") /\ UNCHANGED published
    /\ UNCHANGED <<config, app, cancel, pending, closed, smi>>

(* An NVMLError of that shutdown is forgiven; any other exception leaves       *)
(* create, tries no other candidate and fails the refresh.                     *)
ZeroShutDown ==
    /\ refresh = "zero" /\ ~cancel
    /\ "shutdown" \notin threads
    /\ \/ NextCandidate
       \/ Failed("error") /\ UNCHANGED provider
    /\ UNCHANGED <<config, app, cancel, pending, closed, nvml, smi>>

(* The thread cannot be cancelled: its end is awaited first. *)
CancelledCreating ==
    /\ refresh = "creating" /\ Deliver
    /\ refresh' = "unmaking"
    /\ UNCHANGED <<config, app, pending, published, provider, closed, nvml, smi>>

M_AlwaysInitialised == TRUE

(* The initialized of create, set by its thread. *)
Initialised == found # "error"

Undo == refresh' = "undoing" /\ Start("shutdown") /\ UNCHANGED published

Unmade ==
    /\ refresh = "unmaking"
    /\ "init" \notin threads
    /\ IF Initialised THEN Undo ELSE Cancelled /\ UNCHANGED nvml
    /\ UNCHANGED <<config, app, cancel, pending, provider, closed, smi>>

CancelledZero ==
    /\ refresh = "zero" /\ Deliver
    /\ refresh' = "undoing"
    /\ UNCHANGED <<config, app, pending, published, provider, closed, nvml, smi>>

Undone ==
    /\ refresh = "undoing"
    /\ "shutdown" \notin threads
    /\ Cancelled
    /\ UNCHANGED <<config, app, cancel, pending, provider, closed, nvml, smi>>

-----------------------------------------------------------------------------
(* NVML: collection *)

(* One GPU, or its count, may fail for good; an unsupported metric is missing. *)
GpuReadings == {"whole", "partial", "error"}

NvmlCollected ==
    /\ refresh = "nvml" /\ ~cancel
    /\ "collect" \notin threads
    /\ \E r \in GpuReadings :
          IF r = "error" THEN Failed("error") ELSE Collected(r = "partial")
    /\ UNCHANGED <<config, app, cancel, pending, provider, closed, nvml, smi>>

M_AbandonsThread ==
    /\ refresh = "nvml" /\ Deliver
    /\ Cancelled
    /\ UNCHANGED <<config, app, pending, provider, closed, nvml, smi>>

(* _shielded_thread waits for the thread it cannot stop, under the lock. *)
CancelledCollecting ==
    /\ refresh = "nvml" /\ Deliver
    /\ refresh' = "awaiting"
    /\ UNCHANGED <<config, app, pending, published, provider, closed, nvml, smi>>

Awaited ==
    /\ refresh = "awaiting"
    /\ "collect" \notin threads
    /\ Cancelled
    /\ UNCHANGED <<config, app, cancel, pending, provider, closed, nvml, smi>>

-----------------------------------------------------------------------------
(* nvidia-smi *)

SmiFrame == UNCHANGED <<config, app, pending, provider, closed, nvml>>

Spawned ==
    /\ refresh = "spawning" /\ ~cancel
    /\ \/ refresh' = "waiting" /\ child' = "alive" /\ UNCHANGED published
       \/ \E s \in {"unavailable", "error"} : Failed(s) /\ UNCHANGED child
    /\ UNCHANGED <<cancel, abandoned>> /\ SmiFrame

(* asyncio ends a process whose creation is cancelled. *)
CancelledSpawning ==
    /\ refresh = "spawning" /\ Deliver
    /\ Cancelled
    /\ UNCHANGED smi /\ SmiFrame

(* Rows of the wrong shape, or none, are an error; "[N/A]" is a missing value. *)
SmiOutput == {"whole", "partial", "error"}

(* Its output is complete; it may be unusable, or its exit code an error. *)
SmiCollected ==
    /\ refresh = "waiting" /\ ~cancel
    /\ child = "gone"
    /\ \E o \in SmiOutput :
          IF o = "error" THEN Failed("error") ELSE Collected(o = "partial")
    /\ UNCHANGED <<cancel, smi>> /\ SmiFrame

(* timeout_seconds passed: SIGTERM, and a grace period. *)
TimedOut ==
    /\ refresh = "waiting" /\ ~cancel
    /\ child = "alive"
    /\ refresh' = "grace"
    /\ UNCHANGED <<cancel, published, smi>> /\ SmiFrame

M_NoKill ==
    /\ refresh = "grace" /\ ~cancel /\ child = "alive"
    /\ Failed("error")
    /\ UNCHANGED <<cancel, smi>> /\ SmiFrame

(* The grace period passed: SIGKILL, and the child is reaped. *)
GraceOver ==
    /\ refresh = "grace" /\ ~cancel
    /\ child = "alive"
    /\ child' = "killed"
    /\ refresh' = "killing"
    /\ UNCHANGED <<cancel, published, abandoned>> /\ SmiFrame

Terminated ==
    /\ refresh \in {"grace", "killing"} /\ ~cancel
    /\ child = "gone"
    /\ Failed("error")
    /\ UNCHANGED <<cancel, smi>> /\ SmiFrame

M_WaitsUnkilled ==
    /\ refresh = "waiting" /\ Deliver
    /\ refresh' = "reaping"
    /\ UNCHANGED <<published, smi>> /\ SmiFrame

CancelledWaiting ==
    /\ refresh = "waiting" /\ Deliver
    /\ child' = IF child = "alive" THEN "killed" ELSE child
    /\ refresh' = "reaping"
    /\ UNCHANGED <<published, abandoned>> /\ SmiFrame

Reaped ==
    /\ refresh = "reaping"
    /\ child = "gone"
    /\ Cancelled
    /\ UNCHANGED <<cancel, smi>> /\ SmiFrame

(* Neither clause around the grace period catches a cancellation in it: no    *)
(* SIGKILL is sent and nothing is reaped.                                     *)
CancelledGrace ==
    /\ refresh = "grace" /\ Deliver
    /\ Cancelled
    /\ abandoned' = TRUE
    /\ UNCHANGED child /\ SmiFrame

(* The wait after SIGKILL swallows the cancellation: the refresh fails with   *)
(* its timeout instead.                                                       *)
CancelledKilling ==
    /\ refresh = "killing" /\ Deliver
    /\ Failed("error")
    /\ UNCHANGED smi /\ SmiFrame

(* The child may end at any time, must once killed, and may hang till then.   *)
ChildExits ==
    /\ child = "alive"
    /\ child' = "gone"
    /\ UNCHANGED <<refresh, cancel, published, abandoned>> /\ SmiFrame

KilledDies ==
    /\ child = "killed"
    /\ child' = "gone"
    /\ UNCHANGED <<refresh, cancel, published, abandoned>> /\ SmiFrame

-----------------------------------------------------------------------------
(* Shutdown *)

(* on_unmount: no timer launches a refresh any more, the worker is cancelled. *)
Quit ==
    /\ app = "up"
    /\ app' = "waiting"
    /\ cancel' = (refresh # "idle")
    /\ UNCHANGED <<config, refresh, pending, published, provider, closed, nvml, smi>>

(* aclose, after the worker ended. *)
Close ==
    /\ app = "waiting" /\ refresh = "idle"
    /\ closed' = TRUE
    /\ IF provider = "nvml" THEN app' = "closing" /\ Start("shutdown")
       ELSE app' = "stopped" /\ UNCHANGED nvml
    /\ UNCHANGED <<config, refresh, cancel, pending, published, provider, smi>>

Closed ==
    /\ app = "closing"
    /\ "shutdown" \notin threads
    /\ app' = "stopped"
    /\ UNCHANGED <<config, refresh, cancel, pending, published, provider, closed, nvml, smi>>

Stopped == app = "stopped" /\ UNCHANGED monitorVars

MonitorInit ==
    /\ preferred \in {"auto", "nvml", "nvidia-smi"}
    /\ primeFailed \in BOOLEAN
    /\ app = "up" /\ refresh = "idle" /\ cancel = FALSE /\ pending = FALSE
    /\ flag = FALSE /\ status = "disabled" /\ snapshot = FALSE
    /\ provider = "none" /\ closed = FALSE
    /\ threads = {} /\ found = "error" /\ sessions = 0
    /\ child = "none" /\ abandoned = FALSE

Worker ==
    \/ EnterRefresh \/ Created \/ ZeroShutDown \/ Unmade \/ Undone
    \/ NvmlCollected \/ Awaited
    \/ Spawned \/ SmiCollected \/ TimedOut \/ GraceOver \/ Terminated \/ Reaped

Cancelling ==
    \/ CancelledPending \/ CancelledCreating \/ CancelledZero \/ CancelledCollecting
    \/ CancelledSpawning \/ CancelledWaiting \/ CancelledGrace \/ CancelledKilling

Threads == InitReturns \/ ShutdownReturns \/ CollectReturns

MonitorNext ==
    \/ BeginRefresh
    \/ Worker
    \/ Cancelling
    \/ Threads
    \/ ChildExits \/ KilledDies
    \/ Quit \/ Close \/ Closed \/ Stopped

MonitorSpec == MonitorInit /\ [][MonitorNext]_monitorVars

(* The event loop resumes what is ready and its timers pass, a call of NVML   *)
(* returns, and a killed process dies.  nvidia-smi itself may hang for ever.  *)
MonitorFairness ==
    /\ WF_monitorVars(Worker) /\ WF_monitorVars(Cancelling)
    /\ WF_monitorVars(Threads) /\ WF_monitorVars(KilledDies)
    /\ WF_monitorVars(Close) /\ WF_monitorVars(Closed)

FairMonitorSpec == MonitorSpec /\ MonitorFairness

-----------------------------------------------------------------------------
(* Safety *)

(* Every nvmlInit is undone once: between refreshes a session is open exactly *)
(* while the NVML provider is, none is open when the application has stopped, *)
(* and no thread uses NVML while another shuts it down.                       *)
SessionOwned ==
    /\ MonitorTypeOK
    /\ refresh = "idle" /\ app \in {"up", "waiting"} =>
          sessions = (IF provider = "nvml" THEN 1 ELSE 0)
    /\ app = "stopped" => sessions = 0
    /\ threads # {} => Cardinality(threads) = 1
    /\ threads \cap {"collect", "shutdown"} # {} => sessions = 1

(* A refresh leaves no living child behind, however it ended, unless it was   *)
(* cancelled in the grace period after SIGTERM; nor does a second collection  *)
(* start beside the child of the first.                                       *)
ChildReaped ==
    /\ child = "alive" => refresh \in {"waiting", "grace"} \/ abandoned
    /\ refresh = "idle" /\ child = "killed" => app # "up"
    /\ refresh = "spawning" => child \in {"none", "gone"}

(* The refresh flag is set exactly while a refresh is reserved or runs, but   *)
(* for one that shutdown cancelled, and what it publishes fits: a usable      *)
(* status has a snapshot, and a status of a running GPU has a GPU provider.   *)
FlagOwned ==
    /\ app = "up" => flag = (refresh # "idle")
    /\ pending = (refresh = "pending") \/ app # "up"
    /\ status \in {"available", "degraded"} =>
          snapshot /\ provider \in {"nvml", "nvidia-smi"}

(* What a refresh takes it gives back: sessions, threads, the child, the flag. *)
NothingLeaks == SessionOwned /\ ChildReaped /\ FlagOwned

-----------------------------------------------------------------------------
(* Progress *)

RefreshEnds == flag ~> (~flag \/ app # "up")

ShutdownCompletes == app # "up" ~> app = "stopped"

(* A refresh ends, although nvidia-smi may ignore SIGTERM, and polling goes   *)
(* on; and quitting completes, whatever the refresh was doing.                *)
NothingHangs == RefreshEnds /\ ShutdownCompletes

=============================================================================
