# ModelTop: a TLA+ verification project

ModelTop is a terminal dashboard for one OpenAI-compatible model server.  It
discovers models, chats, and runs six kinds of benchmark against the server,
all from one asyncio event loop.  This directory holds TLA+ models of its core
logic, the TLC configurations that check them, and TLAPS proofs about them.
Paths are relative to the repository; `src/modeltop/` is abbreviated `mt/`.

A step of every model is what the code does between two awaits (or messages):
on one event loop nothing else runs in between, and everything may run at an
await.  Names follow the code where TLA+ allows it.  Definitions called `M_...`
are deliberate mistakes: each is a bug the definition after it could have, and
a property is kept only if such a mistake breaks it.

## Inventory

| Component | State | Operations | Interactions | Hard behaviour | What makes it correct |
|---|---|---|---|---|---|
| State store (`mt/state.py`) | one immutable `ApplicationState`: lanes, server, hardware, chat | atomic `update(transform)` | every service writes it, the app renders it | each service guards itself against all others | at most one lane active; a lane's id is its owner's |
| Server monitor and discovery (`mt/services/server_monitor.py`, `model_discovery.py`) | `_refresh_pending`, `_preserve_online_on_failure`, `is_refreshing`, selection | `begin_refresh`, `refresh`, `select_model` | timers, keys and ends of runs start it | reads before an await, applies after; cancellation; an online server kept online | the flag is always cleared; the selection is announced, and the user's choice wins |
| Hardware monitor (`mt/services/hardware_monitor.py`, `mt/hardware/`) | reservation, provider, snapshot | `begin_refresh`, `refresh`, `close` | a timer; NVML in threads, nvidia-smi as a child | threads nobody can stop, a child that hangs, cancellation at every await | every session undone once, every child reaped, the flag never leaks |
| Benchmark orchestration (`mt/app.py`) | nine worker handles, `_pending_x` | start, run, finish, cancel, `on_unmount` | Textual workers around each service | cancellation before a worker's entry; quitting at any moment | one terminal result per reservation; polling resumes; nothing left behind |
| Chat lane and conversation (`mt/services/chat.py`, `mt/chat/`) | active generation, `ChatSession` | begin, stream, cancel, clear | the generation service | partial answers; cancel before entry | roles alternate; one assistant turn per user turn |
| Generation and streaming (`mt/services/generation.py`, `mt/api/`) | per request: content, metrics, retries | run, stream, fall back | httpx | retry only before content; timeout against cancellation; SSE boundaries | no token lost or duplicated, each request ends one way |
| Speed Test, Drafter (`mt/services/speed_test.py`, `drafter_benchmark.py`) | lane; rows, counters read around a request | begin, run, cancel | sequential requests; the server's counters | a partial row on cancellation or exception; counters of a server that restarts or serves others | one row per request begun; telemetry is that of its window |
| Concurrency (`mt/services/benchmark_service.py`, `mt/benchmarks/concurrency.py`, `runner.py`) | lane; levels, rows, claims, sampler | begin, run, cancel | a TaskGroup of bounded workers | early stop with requests in flight; structured cancellation | no request lost or counted twice, nothing outlives the run |
| Context Length (`mt/services/context_benchmark.py`, `mt/benchmarks/context*.py`, `token_budget.py`) | lane; targets, current attempts, probe bounds | begin, run, cancel | sequential requests through a pool of one; tokenisation | bisection, stop rules, timeouts against cancellation | bounds never cross; evidence alone stops a run; no attempt is lost |
| Tool Calling (`mt/services/tool_calling.py`, `mt/benchmarks/tool_calling.py`) | lane; current scenario, rows, throttled progress | begin, run, cancel | a library that runs the suite and calls back | callbacks out of order, an envelope that disagrees, a swallowed cancellation | a completed result has every scenario and the score they earned |
| r0b0bench (`mt/services/r0b0bench.py`, `mt/benchmarks/r0b0bench*.py`) | lane; child process | prepare, run, reap | a process group | cancel during prepare, run or reap | no child survives its lane |
| r0b0bench datasets (`mt/services/r0b0bench_datasets.py`, `mt/cli.py`) | pinned files, a manifest | install, status | the form of r0b0bench offers what is installed | several installers, one killed between two steps | only whole files appear; success means all of them |
| Result archive and export (`mt/services/result_archive.py`, `result_export.py`) | files and an index | archive, export | every terminal result | several processes, a crash between two files | the index names what exists, only a race loses an entry |
| Results workspace (`mt/screens/results.py`) | which archived results are selected | toggle, open, compare | posts messages the app handles later | a list that is out of date, an archive loaded again in between | only results of one benchmark are compared |
| Configuration (`mt/config.py`, `mt/models.py`) | none after start-up | load, validate | | | validated bounds |
| Models and statistics (`mt/benchmarks/models.py`, `statistics.py`) | none | aggregates | | small samples | |
| Workspaces (`mt/screens/`, forms and result panels in `mt/widgets/`) | per benchmark a form and the panel shown; dialogs | edit, start, run again, edit again, back | keys at once, buttons by messages, state changes drawn later | six ways to start a run, and they overlap | a run is confirmed where it must be, its result is shown, a form stays |
| Other user interface (other widgets, themes) | widgets | render | | | |

`PROJECT.json` lists the components with their files and status, and under
`hazards` what in this code is hard to test, at its line.

## Modules

| Module | What it is |
|---|---|
| `TrafficOwnership` | abstract: the traffic to the server has at most one owner, and quiet lanes exclude discovery |
| `TrafficLanes` | the lanes, services, workers, discovery and shutdown; implements `TrafficOwnership` |
| `ConcurrencyRun` | one run of the Concurrency benchmark with its bounded pool |
| `SequentialRun` | one Speed Test or one Drafter benchmark |
| `ProbePlanner` | which prompt length a Context Length probe tries next, exactly |
| `ContextRun` | one Context Length run in any mode; extends `ProbePlanner` |
| `ToolCallingRun` | one Tool Calling run against a library it does not trust |
| `R0b0benchRun` | one r0b0bench run: service, runner, child process and its group |
| `ResultArchive` | the history directory shared by several processes |
| `EventStream` | the decoder of a streamed answer, as functions on sequences |
| `ChatGeneration` | the conversation, its generations and the request of each; reads answers with `EventStream` |
| `HardwareMonitor` | the refresh worker, its providers, threads and child process, and its shutdown |
| `Dashboard` | the workspaces of the benchmarks: forms, panels, dialogs, keys and messages |
| `ArchivedSelection` | the selection of archived results in the Results workspace |
| `R0b0benchDatasets` | installers of r0b0bench's pinned datasets over one directory |

`MCTrafficLanes`, `MCConcurrencyRun`, `MCSequentialRun`, `MCContextRun`,
`MCToolCallingRun` and `MCResultArchive` give constants that a configuration file
cannot express.  Four of them also put a second module beside the first:
`MCTrafficLanes` adds `Dashboard`, `MCResultArchive` adds `ArchivedSelection`,
`MCR0b0bench` is `R0b0benchRun` and `R0b0benchDatasets`, `MCToolCallingRun` adds
`HardwareMonitor`.  The two share no variable and each leaves room for anything the
other may do (any reservation may be refused, any load of the archive may return
anything), so their behaviours are those of either alone: one module moves only
while the other stands at its beginning.  `TrafficLanesProofs`, `ConcurrencyRunProofs`,
`SequentialRunProofs`, `ContextRunProofs`, `ToolCallingRunProofs`,
`R0b0benchRunProofs`, `ResultArchiveProofs` and `ChatGenerationProofs` hold the
theorems about the module they are named after and about the one that belongs to it:
`ContextRunProofs` also those about `ProbePlanner`, `TrafficLanesProofs` about
`Dashboard`, `ResultArchiveProofs` about `ArchivedSelection`, `ToolCallingRunProofs`
about `HardwareMonitor`, `R0b0benchRunProofs` about `R0b0benchDatasets` and
`ChatGenerationProofs` about `EventStream`.

How the parts fit together.  `TrafficLanes` is the application seen from its lanes:
what a run does between its entry and its end is one nondeterministic step there.
The `...Run` modules and `ChatGeneration` are those steps in detail: each begins
where `TrafficLanes` enters the worker (or reserves it) and ends with the terminal
result that `TrafficLanes` counts.  What a run may assume of the application (it
owns the traffic, at most Escape and quitting reach it) is what `TrafficLanes` shows.

### TrafficLanes

State.  `lane[u]` is the status and id a benchmark lane or Chat has in
`ApplicationState` (`idle` stands for IDLE and every terminal status,
`reserved` for VALIDATING or its equivalent); `pending[u]` is the app's
`_pending_x`; `worker[w]` is the Textual worker of a lane or of discovery;
`cancelled` are the workers whose task has a cancellation to deliver; `server`,
`monitor` and `probe` are the monitor's fields and what a running `refresh`
read at its entry; `published` counts the terminal results per reservation.

Actions.  `Begin...` is the app's `_start_...` handler with its service's
`begin_...`: the guards of the reserve transform, the reservation and the start
of the worker.  `Enter...` is the worker's first step with the service's entry
check, `...Progress` and `R0b0benchPrepared` are what a run publishes,
`End...` its finalisation and the worker's `finally` clause, which may launch a
refresh.  `Cancel...` is Escape, in its two forms: a running worker gets a
cancellation; a pending one is finalised by `cancel_reservation`.  `Quit` is
`on_unmount` up to its first wait, `Stop` the end of its waits.  The discovery
actions are the refresh worker's entry, success, failure and cancellation.

Details that matter:

- Textual need not run a worker that is cancelled while PENDING.  Whether its
  handle then reads finished is outside the repository: the model leaves it
  `free` or `stranded`.  A stranded lane cannot start again, as its guard says.
- `_pending_x` of such a worker stays set; the model keeps the stale value and
  `Settled` compares ids as `_finalize` does.
- Concurrency and Context Length may publish RUNNING over CANCELLING while
  their tasks unwind; the others may not.
- A refresh cancelled at shutdown leaves `is_refreshing` set.
- Speed Test and Drafter do not look at `is_refreshing`; Chat neither blocks
  discovery nor is blocked by it.
- A r0b0bench run whose hinted lanes have a gap leaves without `_finalize`
  (`LoseR0b0bench`; `R0b0benchRun` has it in detail).  The app forgets the
  reservation, its refresh is refused, and the lane stays active with no worker
  (`Orphaned`): no other benchmark, selection or discovery starts, Escape reaches
  nothing, quitting still completes.  It is never over and has no result.
- The Tool Calling library may swallow the cancellation of its run and go on
  (`SwallowToolCalling`, `Ignored`); Escape again cancels it again, and at quitting
  `on_unmount` waits for it.

### TrafficOwnership

Who owns the traffic, whether discovery runs, and which model is selected.
`Acquire`, `Release`, `StartDiscovery`, `EndDiscovery` and `Choose` are all it
allows.  The mapping sends the (unique) active lane to `owner`,
`server.refreshing` to `probing` and `server.selected` to `selected`.

### ConcurrencyRun

State.  `pc` is where the main task waits: in the pool's TaskGroup (`warmup`,
`measured`), for the sampler, between levels, or nowhere (`done`).  `fresh`,
`flight`, `doomed` and `claimed` are the pool: tasks that never ran, sequence
numbers in flight, those with a cancellation to deliver, and `next_index`.
`results` are the rows `on_result` collected in this phase; `terminal` is
`_terminal`, which outlives the phase; `levels` is `_levels`.

Actions.  `StartWorker` is a pool task's first step.  `Settle` is a request
that ended with its row, through `on_result` to the next claim, all without an
await.  A cancellation ends a request as a *cancelled* or *timeout* row too: the
code swallows it.  `Raise` is an unexpected exception of a request, or of
`on_result` after it kept the row.  `Abort` is the TaskGroup cancelling its
tasks, `PoolDone` its exit.  `WarmupEnds`, `MeasuredEnds`, `SamplerStops`,
`LevelEnds` and `DelayOver` move the main task through the phases; `Cancelled`
and `Failed` are the two ways an exception leaves `run` and what
`run_benchmark` publishes then; `Cancel` is Escape or quitting.

Details that matter:

- Both `request_cancellation` and the worker's cancellation come with Escape;
  the main task always ends with `CancelledError`, so the `break`s on the cancel
  event are not reached by it.
- With a failed task and a cancellation in the same measured phase, Python 3.12
  (the repository's version) raises the failure while later versions deliver the
  cancellation again at `await sampler`; the model allows both.
- A level recorded by the `except` clause is never marked `early` and keeps no
  hardware samples.
- Rows carry sequence number, level and outcome.  Token counts, times, warnings
  and the observations of `analyze_scaling` are left out.

### SequentialRun

State.  `config` says which of the two benchmarks it is, whether it goes on after an
error and whether the Drafter has a counter reader; `pc` is where the worker waits
(reading counters, generating) or is about to act; `rows` are the rows of the lane
(Speed Test) or of the worker (Drafter), `recorded` is `current_recorded`, `seen`
whether `current_metrics` is set and `shown` whether the lane shows them;
`raised` is what unwinds the worker.  `server` are the counters of the server.
`answered`, `cost`, `others` and `disturbed` are history: which requests were answered,
what the last answered one cost the server, and what the server did for others, and
whether it restarted, since the counters were read before a request.

Actions.  `BeginTest` and `BeginBenchmark` reserve, `BeginRequest` and `Complete` are
the top of the loop, `CountersBefore`, `Progress`, `Answers`, `Fails` and
`CountersAfter` what a request meets, `SpeedRecord` and `DrafterRecord` what becomes
of its outcome, `SpeedUnwind` and `DrafterUnwind` the `except` and `finally`
clauses.  `RequestCancellation`, `CancelledGenerating` and `CancelledReading` are
Escape and its delivery; `Restart` and `Traffic` are the server's.

Details that matter:

- The Speed Test appends its row to the lane and sets `current_recorded` after it,
  with a callback in between that may raise; then the unwinding records the request
  again.  The Drafter keeps both in its worker before it publishes.
- A cancellation while a request generates makes a row of what it has; one while the
  counters are read after an answer makes a cancelled row of an answered request.
- Any exception of reading counters is forgiven, but `CancelledError` is none.
- A restarted server counts from zero.  A difference that could not be a
  measure is dropped; one that could be is believed, restart or not.
- The counters are the server's, summed per model, not a client's.  `Traffic` is
  whatever else moves them: other clients, and requests this run gave up (failed, timed
  out or cancelled), which the server may still decode during the next one.  So the
  code's telemetry may show the tokens of others; that it shows no more than those of
  its window is what `TelemetryIsOfItsWindow` says.
- Assumed of the server: when it has answered a request it has counted it.

### ProbePlanner and ContextRun

`ProbePlanner` is `ContextProbePlanner` with its integer arithmetic: doubling aligned
to the resolution, then halving between the highest accepted and the lowest
rejected length.  `ContextRun` extends it with the run.

State.  `pc` is where the run waits: for the prompt to be built, for a request, for
the hardware sampler after the pool, or between targets; `phase` tells the shared
prompt, the warm-ups and the measured attempts apart.  `current` is
`_current_requests`, `lengths` is `_lengths`, `streak` the count of partly rejected
lengths in a row.  `cancel` is the cancel event, `pending` a cancellation of the task
that is not delivered.  `attempts` is history: all attempts the pool collected.

Actions.  `Built` and `BuildFails` end a build, `Answered` and `TimesOut` a request,
each up to the next wait: the next attempt, the end of the pool.  `Sampled` is the
main task after the pool: it commits the length, records the evidence or applies the
rules of a list, and starts the next target, waits, or ends.  `Cancel` is Escape,
`CancelledWaiting`, `CancelledLate` and `CancelledSampling` are its delivery.

Details that matter:

- Measured attempts are made by a task of the pool.  The cancellation of the main
  task cancels that one first, so an attempt may still end before it (`Resumes`);
  what the main task itself awaits is overtaken.
- An exception of the pool's task together with a cancellation keeps the cancellation
  or loses it, by the version of Python (`PoolCrashes`).
- `_measure_request` tells its own timeout from a cancellation by
  `timeout.expired()`.  If both came at once, the cancellation is taken for the
  timeout: in the pool the next claim still sees the cancel event, after the last
  warm-up the run goes on with no attempt (`CancelledLate`).
- `run` clears the current attempts in its `finally` clause, before the service
  builds the result of an unexpected exception.
- The prompt builder's search is bounded (`MAX_BUILD_ITERATIONS`,
  `MAX_BUILD_FRAGMENTS`) and is one step here: it returns a prompt or raises
  `ValueError`.
- The validated configuration implies `PlannerAssumption`: the maximum, aligned
  down, stays above the start.

### ToolCallingRun

State.  `current` and `rows` are what the callbacks left, `buffered` and `shown` how
many rows the last progress had that the service kept and the lane shows, `asked` is
the cancel request.

Actions.  `OnScenarioStart` and `OnScenarioResult` are the callbacks, with any
scenario, outcome and identity; `UpstreamReturns` is the end of the library's call
with any envelope that agrees with the rows or differs from them in one place;
`UpstreamRaises` an exception instead.

Details that matter:

- A callback that raises does so into the library, which may pass the exception on or
  swallow it and call back again (`Raises`).
- The run re-reads the cancel request after the library returned, as it may have
  swallowed the cancellation, too.
- A `CancelledError` the library raises makes the result cancelled although nobody
  asked: `except asyncio.CancelledError` does not look at the request
  (`tool_calling.py:418`).
- Progress passes two clocks, the run's and the service's; neither is modelled, so
  either may hold any publication back but those the code forces.

### HardwareMonitor

State.  `refresh` is where the refresh worker waits; `flag`, `status` and `snapshot` are
the hardware fields of `ApplicationState`; `threads` are the calls of NVML that run,
`sessions` how many `nvmlInit` are not undone; `child` is nvidia-smi.  `abandoned` is
history.

Actions.  `BeginRefresh` and `EnterRefresh` launch a refresh; `Created`, `ZeroShutDown` and
`NvmlCollected` are NVML's creation and collection as the worker sees them,
`InitReturns`, `CollectReturns` and `ShutdownReturns` as the threads do; `Spawned`,
`SmiCollected`, `TimedOut`, `GraceOver` and `Terminated` are nvidia-smi; each
`Cancelled...` is the delivery of shutdown's cancellation at one await; `Quit`,
`Close` and `Closed` are `on_unmount` and `close`.

Details that matter:

- Nothing cancels a refresh but shutdown, and a thread cannot be cancelled at all: the
  worker waits for its end and then undoes what it did (`Unmade`, `Undone`).
- A cancellation in the grace period after SIGTERM escapes both handlers, so the
  child is neither killed nor reaped (`CancelledGrace`); one in the wait after SIGKILL
  is swallowed and becomes the timeout's failure (`CancelledKilling`).
- Selected once, a provider is never given up: its failures degrade or fail a
  refresh.
- The shutdown of an NVML without devices forgives an `NVMLError` only; any other
  exception fails the refresh and tries no other provider (`ZeroShutDown`).

### R0b0benchRun

State.  `pc` is where `run_benchmark` waits: for a process to start, a probe to
end, the next line, the exit, or inside `_reap_process` after SIGTERM
(`reaping`) or SIGKILL (`killing`).  `leader` is the child process, `helper`
stands for any other process of its group, which keeps the output pipe open.
`disk` are the lanes whose `lane_result.json` loads, `completed` those the service
learnt of from a hint, `result.rows` those of the terminal result.

Actions.  `Enter`, `Spawned`, `SpawnFails` and `ProbeEnds` are `prepare` and the
beginning of `run`; `ReadMarker`, `ReadHint`, `ReadReport`, `ReadEnd` and
`Exits` its loop and what follows; `Reaped` and `TermTimeout` the two ends of a
wait in `_reap_process`; `Cancel` the request and the three `Cancelled...` actions
what the task does when it is resumed with it.  The processes of the group do as
they like: they write lanes, fork, exit, or ignore SIGTERM; what the child prints
is any line the runner tells apart, true or not.

Details that matter:

- Rows come from three places: the report, the files (`_partial_report`) after a
  cancellation, the hints after an error or an interrupted reaping.
- `R0b0benchBenchmarkResult` rejects rows that are not the first selected lanes.
  `Finish` models what happens then: no result, and the lane stays active.
- Escape cancels the task twice (`request_cancellation` and the worker), without
  a step in between: asyncio delivers one `CancelledError`.

### ResultArchive

State.  On disk: `index` (its entries, which of them are `invalid`, and whether it can
be read at all: an unreadable one keeps, for the model, what a repair would bring
back), `docs` and which of them are `damaged`.  Per process: the results in its state
(`held`), the loop of `_archive_terminal_results` (`pc`, `todo`, `now`), the loaded
snapshot (`good`, `skipped`, `lost`) and what the dashboard shows.  `since` is no
state of the code: it holds what others brought into the index since a process read
it, for `HistoryIsKept`; also an entry that a third process had lost and an old
snapshot brings back.

Actions.  `Change` is any state change the app handles, `Read` is
`load_archive` with the early returns of `archive_result`, `Name`, `Publish` and
`Replace` its writes, each of which may fail and end the loop; `Restart` is a crash
or an end at any point, with the next process.  `DamageIndex` (the whole or one
entry), `RemoveIndex` and `DamageDocument` come from outside.  Within a process this
is synchronous code; the steps are what another process can see.

Details that matter:

- One invalid entry makes the archive unavailable, and then nothing is archived; its
  valid entries are still loaded.  Without an index the archive is empty and available.
- A document's name is its benchmark, its second and its result's identity; if that
  is taken (the index was not written last time), benchmark, second and a number,
  without the identity.  So two results of one second can meet in a numbered name.
- A link that finds its name taken counts as made (`Linked`), whoever's document has it.

### EventStream

`Feed` and `AtEnd` are `SSEDecoder.feed` and `finish`; `Drain`, `ProcessLine` and
`Dispatch` are its private methods.  A byte is a line end, half of a two-byte code
point, or stands for a whole data line; `Chars` is the incremental UTF-8 decoder.
The events of a chunk are returned together, so those before a malformed one in
the same chunk are lost with it, as in the code.  `SaidSoFar` and `SaidInAll` are
what a body says without regard to chunks: `AnswerIsBody` and `AnswersAreKept`
compare the decoder with them.  `Drain` goes line by line by recursion on the decoder;
`Only`, the elements of a sequence that are in a set, stands where `SelectSeq` would:
the provers have no facts about that one.

### ChatGeneration

State.  The chat part of `ApplicationState` under short names (`status` is
`generation_status`, `shown` is `current_response`, `notice` whether
`generation_notice` is set), and one worker: `pc` is where it waits, `context`
what its request carries, `usage` and `plain` which of the three forms the request
has, `decoder` and `content` what it read, `cancel` whether its task has a
cancellation to deliver.  `requests` and `body` are history.

Actions.  `Begin` is `submit_chat_prompt` with `begin_generation`, `BeginFails` the
same with a raising callback, `ClearConversation` and `UpdatePreferences` the other
two operations on the session.  `Enter` sends the request; `Rejected`,
`RetryWithoutUsage`, `RetryWithoutStreaming` and `GiveUp` are an answer other than
2xx and what becomes of it; `StreamStarts` and `JsonStarts` the headers of an
answer; `Read` one chunk from the decoder to the publications it causes;
`EndOfStream` and `Load` the end of the body, to the end of the worker; `Breaks` an
API error and `BreaksUnexpectedly` any other, at every wait.  `CancelRunning`,
`CancelReserved` and `Cancelled` are Escape and its delivery.

Details that matter:

- Publication is coalesced to one per 50 ms.  The clock is not modelled: after a
  chunk any of its events may be the last published, but not one before an event
  that is published in any case (the first content, a finish, an end mark).
- An API error or a cancellation keeps what was read, any other exception what was
  published; `AnswersAreKept` covers both.
- A raising callback has already updated the store.  In `begin_generation` it ends
  the application: only `ChatOperationError` is caught by the handler.
- A worker cancelled while PENDING is `free` or `stranded`, as in `TrafficLanes`.
- The guards of the other lanes on `begin_generation` are in `TrafficLanes`.
- Closing a response that was read to its end, or rejected, is part of the step
  before: whether httpx suspends there is outside the repository.

### Dashboard

State.  `bench` holds, per benchmark, its lane (status, `config`, `latest_result` as
the configuration it ran) and its screen (what the form holds, `_show_ready` as
`ready`, the panel of the switcher); `session` and `opened` are the Speed Tests in
`results` and `selected_result_id`; `dialogs` are the modal screens, `posted` the
messages of buttons that the app has not handled, `stale` says that a
`DashboardStateChanged` is under way.  `asked` is history.

Actions.  `RunOrRerun`, `EditAgain` and `GoBack` are the keys R, E and Escape,
`SelectWorkspace` the sidebar; `EditForm`, `PressStart`, `PressResult` and
`OpenSpeedTest` what the user does to a panel; the `Handle...` actions are the app's
`@on` handlers; `AnswerDialog` dismisses a confirmation; `Draw` is
`on_dashboard_state_changed`; `RunEnds` is a run's result.

Details that matter:

- A start may be refused by a guard of `TrafficLanes`, and then changes nothing; so
  may the rerun of a Speed Test, but then its form has already been loaded.
- Keys do not reach the app below a dialog, messages do: dialogs can be stacked,
  and a run may begin under one.
- After E or Escape the form is shown, but R still runs the latest result again and
  `prepare_run` loads that configuration over what was edited, although
  `action_run_or_rerun` speaks of "the visible draft" (`app.py:1290`).  The model has
  it so; no property forbids it.
- A form holds a configuration, or something that does not parse.  What is loaded into
  it is read back from it; the paths that r0b0bench's form fills in by itself, and the
  prerequisites it refuses for, are left out.

### ArchivedSelection

State.  `documents` and `selection` are `documents` and `archive_selection` of the
state's snapshot, `view` the panel of the switcher, `stale` that it is to be updated,
`posted` the messages on their way.

Actions.  `ToggleSelection`, `OpenResult` and `Back` are the keys of `ResultsView`;
`HandleSelection` is `change_archived_result_selection`, alone or after
`show_archived_result_comparison`; `HandleOpen` and `EnterResults` open and close the
detail of a result of this session; `StateChanges` is what any of them ends with, the
archiving loop that may load the documents again.

### R0b0benchDatasets

State.  `files` is what `_file_matches` would say of each asset, `manifest` whether the
manifest exists, `temps` whose temporary file is on disk; each installer has a place
in the list of files and in the five steps it takes with one.

Actions.  The steps of `install_r0b0bench_assets` as another process can see them,
each of which may fail; `Kill` ends an installer anywhere, `Spoil` is a file lost or
changed by somebody else.  The manifest is the last file.  What a server answers is
right, or anything else: status, range, size and digest decide.

## Runs

| Run | Checks | Bounds |
|---|---|---|
| `lanes` | `TrafficIsOwned`, `SelectionIsSound`, `ExactlyOneResult`, `WorkersOwnReservations`, `PollingResumes`, `SelectionKept`, `CancelledWorkEnds`, and that it implements `TrafficOwnership`; `RunsAreSeen` | 2 reservations, 2 models, default model 2; in the dashboard 1 benchmark that is used, 2 configurations, 1 waiting message, 2 dialogs |
| `concurrency` | `PoolAccounts`, `LevelsMakeTheResult`, `StopsClaiming`, `StepsRunOut`, `RunEnds` | levels 1 and 3, 2 warm-ups, 4 requests, early stop after 2, with and without a delay |
| `concurrency_siblings` | disagreement: siblings of a failed worker go on | levels 1 and 3, no warm-up, 3 requests |
| `sequential` | `RunTellsTheTruth`, `TelemetryIsOfItsWindow`, `CancellationHolds`, `CancelledRunEnds` | 1 warm-up, 2 measured requests, 1 unexpected exception, 1 restart of the server, 2 times that it works for others, requests that draft nothing or 2 tokens |
| `context` | `ResultTellsTheTruth`, `EvidenceDecides`, `ProbeSound`, `AttemptsKept`, `StepsRunOut`, `RunEnds` | probe from 2 to 14 by 2, a list of 3 targets, 2 warm-ups, 2 repetitions, every configuration |
| `context_timeout` | disagreement: a timeout that does not stop a list | the same |
| `toolcalling` | `ResultTellsTheTruth`, `ProgressIsShown`; `NothingLeaks`, `NothingHangs` of the hardware monitor | 3 scenarios, two of them of one category; none for the hardware monitor, which is finite as it is |
| `r0b0bench` | `OneResult`, `ResultTellsTheTruth`, `ChildGone`, `CancelledRunEnds`; `InstallsAreWhole` | 3 lanes, 2 cancellations, both probes; 2 installers of 3 assets |
| `r0b0bench_gap` | disagreement: no result when a lane's hint was lost | 2 lanes, 1 cancellation |
| `archive` | `EntriesMatch`, `HistoryIsKept`; `ComparesLikes` | 2 processes, 2 results of the same second, suffixes 2 and 3, at most 1 damaged document and 1 invalid entry, processes and results symmetric; 3 archived results of 2 benchmarks, 2 waiting messages |
| `archive_same_second` | disagreement: a link that fails over another result's document | the same, without symmetry |
| `chat` | `AnswerIsBody`, `GenerationOwnsConversation`, `AnswersAreKept`, `ResentOnlyUnanswered` | 2 generations, answers of 6 bytes in chunks of up to 3 |

What the properties say is written above each of them.  In short: the traffic of
seven independent reservations is exclusive, and discovery and selection rest under
quiet lanes; each reservation that is over has exactly one result, however it ended,
and each lives and dies with its worker, but for the lane of r0b0bench that the code
leaves unsettled; the refresh flags never leak; quitting completes unless a library
ignores its cancellation.  Every
request of a run is accounted for once, the rows and the status of a result agree
with what happened, no matter where a cancellation, a timeout or an exception came,
and nothing starts after a stop.  A Concurrency or Context Length run ends, and can
take only so many steps until then.  What comes from outside (a child's output, a
library's envelope, another process's index, bytes of a stream) is never believed
beyond what the code verified, and nothing of it that was seen is lost.

The bounds and why they are enough:

- `lanes`: of two reservations one can be cancelled and stranded while another takes
  the traffic or is refused; what a third could meet is one of these situations
  again, as reservations share nothing but their lane.  Discovery is not bounded at
  all.  Two models give a default that is not the first id, an announcement with and
  without the prior selection, and the empty one.
- `concurrency`: a level of one worker and one of three cover a pool smaller than, and
  nearly as large as, its requests; with four requests and an early stop of two (the
  code's eight, as the constant `EarlyStop`) a claim can follow the two that decide
  it, answers arrive in every order, and requests are in flight at the decision.
- `sequential`: a warm-up and two measured requests make a first, a middle and a last
  one; one exception and one restart, in any place, meet each of them, and what a
  second exception could do follows the first in the same unwinding.  Others' work can
  come twice, so once in a window and once before or after it.
- `context`: from 2 to 14 the probe doubles up to a maximum that is no power of two and
  halves more than once; three targets let two partly rejected ones follow each other
  with a target left; two repetitions make a length mixed, and two warm-ups let one be
  not the last.
- `toolcalling`: three scenarios have a first, a middle and a last one, and a category
  with a sum.
- `r0b0bench`: three selected lanes let a hint be missing before, between or after
  others; of cancellations, the second can interrupt what the first began, and after
  it the run is over.
- `archive`: two processes with one result each, or one with both, cover a process
  alone and a race; failures and restarts are not bounded, but documents stop at
  suffix 3, after three writes of one result.  Both results have the same second, as
  those of different seconds share no name and meet only in the index.  One damaged
  document and one invalid entry leave another beside them (`MCDamage`); losing the
  whole index, or its file, is not bounded.
- `chat`: six bytes hold a code point in two halves, its line, the CR LF pairs that end
  it and a finish, or two events after each other; chunks of one to three bytes cut
  them at every place.  All sequences of bytes are tried, malformed ones included.  A
  second generation meets whatever the first left behind.

- In the dashboard, of the six benchmarks any one is used in a behaviour
  (`MaxTouched`), as they share only the lane, which may refuse at any time; a dialog
  may come over another, and a message be handled after any key.  In the Results
  workspace three results have two of one benchmark and one of another, and a second
  message is decided before the first is handled.
- Two installers meet each other at every step; of three assets one has a field of its
  own and two share one.

Deadlock is checked in every run but `chat`: `Stopped` and `Done` stutter once the
program really is over.  In `chat` the application may end by a raising callback.

### Fairness

All fairness is weak, as asyncio's ready queue is first in, first out; no user, timer
or server is assumed to act.

- `TrafficLanes`: a pending worker is entered, discovery answers (its HTTP request has
  a timeout), a cancelled task is resumed with its cancellation, whatever it makes of
  it (`Delivery`), `on_unmount` returns when its workers ended.  A run nobody cancels
  is not assumed to end, nor that the Tool Calling library does not swallow the
  cancellation: `CancelledWorkEnds` excepts a run whose cancellation it did, and a lane
  r0b0bench left.
- `ConcurrencyRun`: ready tasks run, and a request ends, which its own
  `asyncio.timeout` guarantees.
- `SequentialRun`: only the worker's own steps and the delivery of a cancellation; the
  server need never answer.
- `ContextRun`: a build does a bounded search, a request has a timeout, the sampler is
  told to stop, a delay passes, a cancelled task is resumed.
- `R0b0benchRun`: a cancelled task is resumed, the five seconds pass and an ended child
  is noticed; the child owes nothing.
- `HardwareMonitor`: the loop resumes what is ready and its timers pass, a call of NVML
  returns, a killed process dies; nvidia-smi may hang for ever.
- `ToolCallingRun`, `ResultArchive`, `ChatGeneration`, `Dashboard`, `ArchivedSelection` and
  `R0b0benchDatasets` state none.

## Disagreements between the code and what is said of it

Four runs show one each:

- `concurrency_siblings`: `runner.py` says an unexpected exception cancels the
  sibling workers, and a test asserts that no further item starts.  The requests
  of the real benchmark swallow the cancellation, and their workers go on to claim
  all remaining requests before the run ends with its error.
- `r0b0bench_gap`: `run_benchmark` promises exactly one terminal result.  If the
  hint of a lane was lost and that of a later one was read, neither its cancelled nor
  its error result can be built, and the lane stays active.
- `archive_same_second`: a document's name is said to be taken only by an equivalent
  writer (`result_archive.py:272`).  Numbered names drop the identity of the result
  (`result_archive.py:241`): two processes that archive results of one second again can
  choose the same one, and the one whose link fails indexes its result over the other's
  document.  From then on that entry is skipped as unreadable and its result not
  archived again.  `EntriesMatch` says what remains true of such an entry.
- `context_timeout`: `src/README.md:271` says a timeout follows
  `continue_after_timeout`.  With the option off, a timeout in the last repetition of a
  length leaves that length whole, and the run goes on to longer ones.

The models contain these too, as the code has them; the properties name them as
exceptions where they are concerned:

- Discovery is said to be paused during Drafter work (`src/README.md:343`); one reserved
  just before `begin_benchmark` is not waited for (`drafter_benchmark.py:192`).
  `TrafficIsOwned` leaves the Drafter out of the quiet lanes.
- Polling is said to resume immediately at the terminal state (`src/README.md:343`);
  after Escape before the worker's entry it resumes with the next tick (`app.py:1193`).
  `PollingResumes` is about workers that ran.  After the gap of `r0b0bench_gap` it does
  not resume at all, since no terminal state is reached; `PollingResumes`,
  `WorkersOwnReservations`, `SelectionIsSound` and `CancelledWorkEnds` name that lane.
- The Drafter's telemetry is that of the server between two readings
  (`drafter_benchmark.py:640`), shown as that of the request; the server counts for all
  its clients (`api/metrics.py:53`) and cancellation there is only "best-effort"
  (`src/README.md:227`).
- The runtime configuration of Concurrency is built "from effective YAML defaults"
  (`benchmarks/models.py:521`) and put into its lane (`app.py:658`), but its form is not
  told: it keeps the built-in defaults (`benchmark_configuration.py:105`), the built-in
  `maximum_concurrency` among them, and the first run starts with these.  `Loaded` and
  `LaneDefault` of `Dashboard` differ so; no property forbids it.
- "Except `asyncio.CancelledError`" reports a Tool Calling run as cancelled that nobody
  cancelled, if the library raises one (`tool_calling.py:418`).
- SIGTERM, five seconds, SIGKILL are promised (`src/README.md:294`); a second
  cancellation during the five seconds skips SIGKILL, and other processes of the group
  are not signalled when the child itself has exited
  (`benchmarks/r0b0bench.py:312`, `:318`).  `ChildGone` says when.
- "Retain ... current attempts" after an unexpected error (`context.py:767`): `run` has
  cleared them by then (`context.py:861`).  `AttemptsKept` excepts that end.
- A cancellation that meets the timeout of the last warm-up of a length is swallowed
  (`context.py:392`); `ResultTellsTheTruth` of `ContextRun` says what it leaves.
- The input rate is documented as `(prompt tokens - 1) / TTFT` (`src/README.md:265`) and
  computed without the subtraction (`context.py:300`); retrieval with a target in
  characters leaves the builder's search after its first trial and then finds it
  inexact (`context_builder.py:304`, `:324`).  Neither is modelled.

## Proofs

The theorems hold for every value of the constants that the named assumptions allow.
Each property was checked with TLC on the bounds above before it was proved.  `TypeOK`
of `TrafficLanes` and of `ResultArchive` is proved (`TypeCorrect`) and no longer part
of a run.

`TrafficLanesProofs` (from `ModelsAssumption`, `BoundAssumption`): `TypeCorrect`,
`TrafficIsExclusive`, `WorkersOwnTheirLanes`, `SelectionIsKept`,
`ResultsArePublishedOnce`, and `LanesImplementOwnership`, the refinement.  No single
invariant is inductive.  Mutual exclusion needs that a lane whose worker is still to
run is active, since entering a worker makes its lane running; a frozen selection
needs exclusive discovery, as the end of a discovery moves the selection; and that
needs the reserved refresh flag, since a discovery that outlived its flag would set it
again under a quiet lane.  A lane that r0b0bench left is still active and keeps all
others out; `LostLane` says that what its worker leaves is the named exception.
`IInv` is their conjunction with `TypeOK`.  Each group of actions preserves it by a
lemma of its own, and `NextCases` reduces `Next` to the groups.  `RInv` adds
`Numbered` (an active lane holds an id that was given out, an idle one none) to count
results.  `PollingIsResumed` needs one more invariant, `RefreshNotStranded` (only the
shutdown leaves a reserved discovery that never starts), as only then is a free flag
enough for the step that ends a run to start a discovery.  `SelectionsAreKept` is the
action property beside `SelectionIsKept`.  For the refinement, mutual exclusion makes
the `CHOOSE` of `Owner` unique, and each action is shown to be one of the abstract
ones, or a stutter.

`RunsAreSeenAndConfirmed`, in the same module, is about `Dashboard` (from
`ConfigsAssumption`).  Between two drawings a panel may be anything, so what is proved
of it is what the next drawing will make of it: `Consistent` says that a result is
there wherever one is shown or drawn, and that the flag of the form is set only where
the form was asked for and unset only where it was not asked for since the run ended.
The three ways in which the code rewrites a screen keep it (`DrawnIs` and the lemmas
after it), and every key, message and dialog is one of them for one benchmark.  That a
warned run is confirmed follows from the dialogs being a stack of complete requests:
what an answer starts is the first of them, whatever was posted or edited below.

`ConcurrencyRunProofs` (from `ConfigAssumption`): `PoolIsAccounted`,
`NothingFollowsAStop`, `LevelsAreTheResult`, `StepsDoRunOut`.  The invariant of the
pool, `PInv`, says that a pool lives only in its phase and claims no more than its
items: with `PoolAccounts` this makes a finished pool's rows complete or explained.  A
stop is kept because it is a fact about the first rows, which are never removed in a
phase.  `LInv` adds what the level under way owes to the result (`Underway`, `Busy`).
`StepsDoRunOut` is the safety half of `RunEnds`: every step makes `StepsLeft`, a
natural number, smaller.  In a pool it counts the workers to start, the items to
claim, the requests in flight and an abort, so that a claim moves one from one count
to the next and an answer takes one away (`ClaimKeeps`, `RequestEndsAdvances`); a
level to come is worth more than anything a level can hold (`MovesOnLess`).

`SequentialRunProofs` (from `SequenceAssumption`, `UsageAssumption`):
`CountersMeasureTheirWindow`, `CancellationIsKept`, `RunsTellTheTruth`.  `TInv`
follows the counters through a request: those read before it are short of the server's
by what others cost it since, and once it is answered by its own cost as well.  `KInv`
says that whatever unwinds a cancelled run is the cancellation, unless something
raised, and that shown metrics are kept metrics.  `RInv` is about the rows and needs
both: how many rows there are follows from the place of the worker and the exceptions
raised so far, and which of them may be a failure or a cancellation from what unwinds,
so that the status chosen at the end can only be one its rows bear out.

`ContextRunProofs` (from `PlannerAssumption` and `PlanAssumption`): `ProbeIsSound`,
`RunProbesSoundly`, `RunKeepsAttempts`, `ResultsTellTheTruth`, `EvidenceDecidesRuns`,
`StepsDoRunOut`.  Of the planner, what was tried lies on one side of both bounds; that
makes a candidate strictly between them new.  The arithmetic of alignment is in lemmas
of its own.  `CInv` is the planner's invariant with `Active` and `Ended`: lengths are
those of the targets before the one under way, so committing its attempts repeats no
target, and every attempt is in a length or among the current ones.  `DInv` says what
the lengths show of the decisions so far: each length that was passed holds no reason
to stop, a bound has the rows it was decided on, a timeout is the last of its length
unless the run may go on after it, and the last length of a completed run says why it
stopped.  `StepsDoRunOut` counts the steps left as in the Concurrency run.  How many
lengths a probe will try is not known at its beginning; it counts those between the
two bounds, which every decision brings together (`ProbeNarrows`, from `ProbeSound`).

`ToolCallingRunProofs` (from `SuiteAssumption`): `ResultsTellTheTruth`,
`ProgressesAreShown`.  `TInv` says that the rows are the first scenarios of the suite
(`Prefix`), that progress trails the rows by what the two clocks hold back
(`Trailing`), and that a result, which only the end has, is accounted for
(`Outcome`).  That the score is full exactly when all that is gradable passed is an
equation between a sum over the categories and a sum over the scenarios.  `SumsAgree`
and the lemmas around it get by without an induction theorem: of the subsets where a
claim about sums fails, a smallest one exists, and taking an element out of it
contradicts that.

`MonitorLeaksNothing`, in the same module, is about `HardwareMonitor`, which has no
constants: the run covers all of it, and the proof says why it holds.  Where the
refresh waits determines the rest: which call of NVML may run and how many sessions it
began with or leaves (`SessionsFit`), which provider is selected (`ProviderFits`), and
whether the child lives (`ChildFits`).  That the waits of an unwinding refresh meet no
second cancellation (`CancelledOnce`) is what lets each of them undo what it must.

`R0b0benchRunProofs` (from `SelectionAssumption`, `AssetsAssumption`):
`ResultIsPublished`, `ResultIsTrue`, `ChildIsGone`, `InstallationsAreWhole`.  The rows
of a result come from the report, the files or the hints.  `HintsAscend` is about the
hints: their lanes ascend and have files, and a hint whose lane and all before it were
heard of has as many hints before it.  This is what makes the hints acceptable rows
when none was lost (`HintsInOrder`), and it is inductive without a sum or an induction
over sequences.  `CancelsCounted` says that a cancellation is to be delivered or is
what the run unwinds from.  Of the datasets, `PlaceFits` says that an installer has
seen installed, at some time, every asset before the one it is at, and
`VerifiedStands` that what it has verified is still installed unless somebody spoiled
a file since.  Files only ever become installed in a step of an installer, so one's
step leaves both facts of the others true (`OneMoves`), whoever they are and wherever
they were killed.

`ResultArchiveProofs` (from `ArchiveAssumption`, `NoEntryAssumption`): `TypeCorrect`,
`EntriesAreTheirs`, `HistoriesAreKept`, for results of the same second or not.
Documents never change once linked, so what matched once matches for ever; an entry
reaches the index or the screen only through a load, which compares it with its
document, or after a link.  The link may find the name taken: `DocsNamed` and `NowNamed`
say that a name with an identity holds a document of that result, the same entry, and
that a number is only tried when the result's own document is there already; so what
such an entry may name instead (`Renamed`) costs the index a document, never the disk.
`ReadOrSince`, for the history, says that every entry of the index was in what a
process loaded or came in since.  It did not hold of an earlier `since`, which counted
only the entry that a process archived: with three processes and four results, one can
bring back from its snapshot an entry that another had lost, and a third then lose it
again.  The two results of the run are too few for this; now `since` counts all that a
replacement brings in.

`LikesAreCompared`, in the same module, is about `ArchivedSelection` (from
`SelectionIdsAssumption`).  The selection is of one benchmark because whoever changes
it has just looked, or leaves out some of it: a toggle and a load of the archive keep
a part of what was selected, a message is compared with the documents when it is
handled.  That no result is in it twice is not looked at then: `SInv` says that every
message on its way names each result once, and one that opens a result only one of the
session.  `Known`, the part of a selection that is loaded, is written for selections
of at most two, as the provers cannot unfold `SelectSeq`; an assumption of
`MCResultArchive` (`KnownSelects`), which TLC evaluates, compares the two.

`ChatGenerationProofs` (from `BoundAssumption`): `ConversationIsOwned`,
`RetriesAreConservative`, `AnswersAreRead`, `AnswersAreWhole`.  The three parts of
`GenerationOwnsConversation` need each other: an answer follows its prompt because the
prompt of an active generation is still the last message, which is so because nothing
but its own worker ends it.  `Inv` adds `Numbered`, `Prompted` and `Sent` (how many
requests were sent follows from the features given up).  What the decoder returns does
not matter to any of this.

`AnswersAreRead` and `AnswersAreWhole`, in the same module, are about what it
returns.  `KeepsUp` relates the decoder between two chunks to the body as a whole: it
has taken lines up to some line end (`At`), returned what the events up to there say,
owes at most one data line of it (`Owes`), and has a text left in which no line is
known to end.  That a CR waits for the next chunk is what keeps a CR LF in one piece:
`Settled` says that no CR was taken at the end of the text, without which a chunk that
begins with an LF would end another line.  A chunk only appends to the text
(`MoreText`), one line taken keeps the relation (`AdvanceReads`), and the end of the
stream returns what was owed (`AtEndSaysAll`).  `Drain` and `Only` are recursive
functions: that one line after the other is what they compute is proved by the
shortest text, or the first position, at which it fails (`DrainStep`, `DrainStops`,
`OnlyConcat`).  `Told` adds that nothing of an answer outlives its stream, and
`StepKinds` that whatever ends a generation keeps what was shown.

Only model-checked:

- all liveness: `CancelledWorkEnds`, `RunEnds`, `CancelledRunEnds`, `NothingHangs`.  The
  prover does not handle `ENABLED`.  Of `RunEnds` in `ConcurrencyRun` and `ContextRun`
  what is left, beside `StepsDoRunOut`, is that a run which is not over has a fair step;
- the four properties that a run shows to be violated.

## Not modelled

- Rendering, logging, wording, timestamps and floating-point aggregates
  (most of `mt/widgets/`, `mt/benchmarks/statistics.py`, most of `mt/models.py`): they keep no
  state that a step of another component could disturb.
- Configuration: parsed and validated once; the runs take its bounds as assumptions.
- The prompt builder's search and the texts of prompts and retrieval keys: a pure
  function of the configuration, whose two outcomes `ContextRun` has.
- The result export: one exclusive creation of a file.  The mock server is a program of
  its own.
- Of the streaming client: metrics, usage, the listing of models, tokenisation.
- httpx, Textual, asyncio, NVML and the Tool Calling library are modelled only by what
  this code relies on (a worker's states, a task's cancellation, the TaskGroup's abort,
  threads that return), marked external in the map.

## Plan

What is left, most valuable first:

1. Pure algorithms as functions: the builder's search against its bounds, percentile
   ranks.
2. The forms' parsing and validation, whose outcome `Dashboard` leaves open.
3. The steps left of a generation in `ChatGeneration`, whose chunks are not bounded, and
   of a run in `R0b0benchRun`, whose child may write for ever: both would need a bound on
   what the server or the child sends.

An abstract terminal result for the benchmarks is not planned: what it would promise is
in the `ResultTellsTheTruth` of each run, which is proved.

A new run replaces or merges an old one, so that the project stays small enough to
check in one go.
