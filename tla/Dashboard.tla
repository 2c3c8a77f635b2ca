------------------------------ MODULE Dashboard ------------------------------
(* The workspaces of ModelTopApp: for each benchmark a form, a progress panel *)
(* and a result panel, and the ways to start a run from them: the button of   *)
(* the form, Run Again, the R key.  Keys are handled at once; what a button   *)
(* asks for is a message, handled after other messages may have been; a state *)
(* change is drawn by a message of its own.  What a run does is elsewhere.    *)
(* Definitions named M_... are deliberate mistakes: each stands for a bug the *)
(* code could have in the definition after it, and no behaviour uses them.    *)
EXTENDS Naturals, Sequences, FiniteSets

CONSTANTS
    Configs,        \* configurations a form can hold
    Invalid,        \* what a form holds when it does not parse
    Configured,     \* the defaults of the configuration file
    Builtin,        \* the defaults of the program
    Large,          \* configurations a dialog warns of before they run
    MaxPosted,      \* bound on messages waiting for the application
    MaxDialogs,     \* bound on dialogs one above the other
    MaxTouched      \* bound on benchmarks one behaviour edits or runs

ASSUME ConfigsAssumption ==
    /\ {Configured, Builtin} \cup Large \subseteq Configs
    /\ Invalid \notin Configs

SpeedTest == "speed-test"

Asking == {"context", "tool-calling", "r0b0bench"}

Benchmarks == Asking \cup {"concurrency", "drafter", SpeedTest}

Views == Benchmarks \cup {"results", "other"}

VARIABLES
    bench,      \* per benchmark: its lane, and its screen
    session,    \* configurations of the Speed Tests this session ran
    opened,     \* that of the Speed Test opened in Results
    view,       \* active_view
    dialogs,    \* confirmations on the screen, the upper one first
    posted,     \* messages the application has not handled
    stale,      \* a DashboardStateChanged is among them
    asked       \* history: how the form was last asked for since the run began

dashboardVars ==
    <<bench, session, opened, view, dialogs, posted, stale, asked>>

NoResult == Invalid

Runs == [bench : Benchmarks, config : Configs]

Requests ==
    [asks : {"start", "again", "edit"}, bench : Benchmarks, config : Configs]

DashboardTypeOK ==
    /\ bench \in [Benchmarks ->
           [status : {"ready", "active", "ended"}, config : Configs,
            result : Configs \cup {NoResult}, form : Configs \cup {Invalid},
            ready : BOOLEAN, panel : {"config", "progress", "result"}]]
    /\ session \subseteq Configs
    /\ opened \in session \cup {NoResult}
    /\ view \in Views
    /\ dialogs \in Seq(Runs)
    /\ posted \in Seq(Requests)
    /\ stale \in BOOLEAN
    /\ asked \in [Benchmarks -> {"no", "running", "stopped"}]

Idle == \A b \in Benchmarks : bench[b].status # "active"

Modal == dialogs # <<>>

-----------------------------------------------------------------------------
(* The screen of a benchmark *)

(* update_state: progress while it runs, then the result, until the form is   *)
(* asked for.                                                                 *)
Drawn(s) ==
    IF s.status = "active" THEN [s EXCEPT !.ready = FALSE, !.panel = "progress"]
    ELSE IF s.status = "ended" /\ ~s.ready /\ s.result # NoResult
    THEN [s EXCEPT !.panel = "result"]
    ELSE [s EXCEPT !.panel = "config"]

(* show_config *)
WithForm(s, c) == [s EXCEPT !.ready = TRUE, !.form = c, !.panel = "config"]

M_KeepsTheForm(s, c) ==
    [s EXCEPT !.status = "active", !.config = c, !.form = c]

(* begin reserves the lane, prepare_run leaves the form. *)
Begun(s, c) ==
    [s EXCEPT !.status = "active", !.config = c, !.form = c, !.ready = FALSE]

-----------------------------------------------------------------------------
(* The beginning *)

(* The defaults a lane begins with; no file configures the Speed Test. *)
LaneDefault(b) == IF b = SpeedTest THEN Builtin ELSE Configured

(* on_mount loads a lane's defaults into four of the forms; two keep what     *)
(* they were mounted with.                                                    *)
Loaded(b) == IF b \in {"concurrency", SpeedTest} THEN Builtin ELSE LaneDefault(b)

Mounted(b) ==
    [status |-> "ready", config |-> LaneDefault(b), result |-> NoResult,
     form |-> Loaded(b), ready |-> TRUE, panel |-> "config"]

Touchable(b) ==
    Cardinality({b} \cup {o \in Benchmarks : bench[o] # Mounted(o)})
        <= MaxTouched

-----------------------------------------------------------------------------
(* Starting a run *)

(* Nothing else has the traffic.  s is what the screen is by then. *)
Begins(b, s, c) ==
    /\ Idle /\ Touchable(b)
    /\ bench' = [bench EXCEPT ![b] = Begun(s, c)]
    /\ asked' = [asked EXCEPT ![b] = "no"]
    /\ stale' = TRUE

(* The lane, the server or another lane may refuse: the user is told. *)
Start(b, c) ==
    \/ Begins(b, bench[b], c)
    \/ UNCHANGED <<bench, asked, stale>>

(* LargeContextConfirmation and its like, over whatever is on the screen. *)
Confirm(b, c) ==
    /\ Len(dialogs) < MaxDialogs
    /\ dialogs' = <<[bench |-> b, config |-> c]>> \o dialogs
    /\ UNCHANGED <<bench, asked, stale>>

Needs(b, c) == b \in Asking /\ c \in Large

M_AsksOnTheFirstRun(b, c) ==
    IF Needs(b, c) /\ bench[b].status = "ready"
    THEN Confirm(b, c) ELSE Start(b, c) /\ UNCHANGED dialogs

Request(b, c) ==
    IF Needs(b, c) THEN Confirm(b, c) ELSE Start(b, c) /\ UNCHANGED dialogs

(* A Speed Test of this session, again: nothing while the worker of the last  *)
(* one has not finished; else its workspace comes back with its configuration *)
(* in the form, and only then the run is tried.                               *)
SpeedTestAgain(c) ==
    \/ UNCHANGED <<bench, opened, view, asked, stale>>
    \/ /\ bench[SpeedTest].status # "active"
       /\ opened' = NoResult
       /\ view' = SpeedTest
       /\ stale' = TRUE
       /\ \/ Begins(SpeedTest, WithForm(bench[SpeedTest], c), c)
          \/ /\ bench' = [bench EXCEPT ![SpeedTest] = WithForm(@, c)]
             /\ asked' = [asked EXCEPT ![SpeedTest] = "stopped"]

(* The other five: the latest result of the lane. *)
RunAgain(b) ==
    IF bench[b].result = NoResult
    THEN UNCHANGED <<bench, dialogs, asked, stale>>
    ELSE Request(b, bench[b].result)

-----------------------------------------------------------------------------
(* Keys of the application: none of them acts below a dialog *)

ShowForm(b) ==
    /\ bench' = [bench EXCEPT ![b] = WithForm(@, @.config)]
    /\ asked' = [asked EXCEPT
                    ![b] = IF bench[b].status = "active" THEN "running" ELSE "stopped"]

(* R: what ended is run again, else the form is tried.  A Speed Test is only  *)
(* run again, here or from Results.                                           *)
RunOrRerun ==
    /\ ~Modal
    /\ \/ /\ view \in Benchmarks \ {SpeedTest}
          /\ bench[view].status # "active"
          /\ IF bench[view].status = "ended" /\ bench[view].result # NoResult
             THEN Request(view, bench[view].result)
             ELSE bench[view].form # Invalid /\ Request(view, bench[view].form)
          /\ UNCHANGED <<session, opened, view, posted>>
       \/ /\ view = SpeedTest /\ bench[view].status = "ended"
          /\ SpeedTestAgain(bench[view].result)
          /\ UNCHANGED <<session, dialogs, posted>>
       \/ /\ view = "results" /\ opened # NoResult
          /\ SpeedTestAgain(opened)
          /\ UNCHANGED <<session, dialogs, posted>>

(* E: back to the form of a run that ended.  On a Speed Test it exports.      *)
EditAgain ==
    /\ ~Modal
    /\ view \in Benchmarks \ {SpeedTest}
    /\ bench[view].status = "ended"
    /\ ShowForm(view)
    /\ UNCHANGED <<session, opened, view, dialogs, posted, stale>>

(* Escape where nothing runs: the form of what ended, or out of Results.  A   *)
(* Speed Test gets ready again, its result stays in the session.              *)
GoBack ==
    /\ ~Modal /\ Idle
    /\ \/ EditAgain
       \/ /\ view = SpeedTest /\ bench[view].status = "ended"
          /\ bench' = [bench EXCEPT ![view] =
                 [WithForm(@, @.config) EXCEPT !.status = "ready"]]
          /\ asked' = [asked EXCEPT ![view] = "stopped"]
          /\ stale' = TRUE
          /\ UNCHANGED <<session, opened, view, dialogs, posted>>
       \/ /\ view = "results"
          /\ opened' = NoResult
          /\ view' = IF opened # NoResult THEN view ELSE SpeedTest
          /\ stale' = TRUE
          /\ UNCHANGED <<bench, session, dialogs, posted, asked>>

(* A workspace is chosen in the sidebar; Results opens with its list. *)
SelectWorkspace(v) ==
    /\ ~Modal
    /\ view' = v
    /\ opened' = IF v = "results" THEN NoResult ELSE opened
    /\ stale' = TRUE
    /\ UNCHANGED <<bench, session, dialogs, posted, asked>>

-----------------------------------------------------------------------------
(* The panels: what the user does to them *)

Post(asks, b, c) ==
    /\ Len(posted) < MaxPosted
    /\ posted' = Append(posted, [asks |-> asks, bench |-> b, config |-> c])
    /\ UNCHANGED <<bench, session, opened, view, dialogs, stale, asked>>

Visible(panel) ==
    ~Modal /\ view \in Benchmarks /\ bench[view].panel = panel

EditForm ==
    /\ Visible("config") /\ Touchable(view)
    /\ \E c \in Configs \cup {Invalid} :
          /\ c # bench[view].form
          /\ bench' = [bench EXCEPT ![view].form = c]
    /\ UNCHANGED <<session, opened, view, dialogs, posted, stale, asked>>

PressStart ==
    /\ Visible("config")
    /\ bench[view].form # Invalid
    /\ Post("start", view, bench[view].form)

PressResult(asks) ==
    /\ Visible("result")
    /\ asks = "edit" => view # SpeedTest
    /\ Post(asks, view, bench[view].result)

(* A line of Results that is a Speed Test of this session. *)
OpenSpeedTest ==
    /\ ~Modal /\ view = "results"
    /\ opened' \in session
    /\ stale' = TRUE
    /\ UNCHANGED <<bench, session, view, dialogs, posted, asked>>

-----------------------------------------------------------------------------
(* Messages, which are handled below a dialog too *)

HandleStart ==
    /\ posted # <<>> /\ posted[1].asks = "start"
    /\ Request(posted[1].bench, posted[1].config)
    /\ posted' = Tail(posted)
    /\ UNCHANGED <<session, opened, view>>

HandleAgain ==
    /\ posted # <<>> /\ posted[1].asks = "again"
    /\ posted[1].bench # SpeedTest
    /\ RunAgain(posted[1].bench)
    /\ posted' = Tail(posted)
    /\ UNCHANGED <<session, opened, view>>

(* The message names one of the session's results. *)
HandleSpeedTestAgain ==
    /\ posted # <<>> /\ posted[1].asks = "again"
    /\ posted[1].bench = SpeedTest
    /\ SpeedTestAgain(posted[1].config)
    /\ posted' = Tail(posted)
    /\ UNCHANGED <<session, dialogs>>

HandleEdit ==
    /\ posted # <<>> /\ posted[1].asks = "edit"
    /\ ShowForm(posted[1].bench)
    /\ posted' = Tail(posted)
    /\ UNCHANGED <<session, opened, view, dialogs, stale>>

(* Continue, or not. *)
AnswerDialog ==
    /\ Modal
    /\ dialogs' = Tail(dialogs)
    /\ \/ Start(dialogs[1].bench, dialogs[1].config)
       \/ UNCHANGED <<bench, asked, stale>>
    /\ UNCHANGED <<session, opened, view, posted>>

Draw ==
    /\ stale
    /\ stale' = FALSE
    /\ bench' = [b \in Benchmarks |-> Drawn(bench[b])]
    /\ UNCHANGED <<session, opened, view, dialogs, posted, asked>>

-----------------------------------------------------------------------------
(* The runs, as far as the dashboard sees them *)

(* Whatever the run came to, its one result; also when Escape cancelled it    *)
(* before its worker was entered.                                             *)
RunEnds(b) ==
    /\ bench[b].status = "active"
    /\ bench' = [bench EXCEPT ![b].status = "ended", ![b].result = bench[b].config]
    /\ IF b = SpeedTest
       THEN session' = session \cup {bench[b].config}
       ELSE UNCHANGED session
    /\ stale' = TRUE
    /\ UNCHANGED <<opened, view, dialogs, posted, asked>>

(* Progress of a run, the server, the hardware, the chat. *)
OtherStateChange ==
    /\ stale' = TRUE
    /\ UNCHANGED <<bench, session, opened, view, dialogs, posted, asked>>

-----------------------------------------------------------------------------
DashboardInit ==
    /\ bench = [b \in Benchmarks |-> Mounted(b)]
    /\ session = {}
    /\ opened = NoResult
    /\ view = "other"
    /\ dialogs = <<>>
    /\ posted = <<>>
    /\ stale = FALSE
    /\ asked = [b \in Benchmarks |-> "no"]

DashboardNext ==
    \/ RunOrRerun
    \/ EditAgain
    \/ GoBack
    \/ \E v \in Views : SelectWorkspace(v)
    \/ EditForm
    \/ PressStart
    \/ \E asks \in {"again", "edit"} : PressResult(asks)
    \/ OpenSpeedTest
    \/ HandleStart
    \/ HandleAgain
    \/ HandleSpeedTestAgain
    \/ HandleEdit
    \/ AnswerDialog
    \/ Draw
    \/ \E b \in Benchmarks : RunEnds(b)
    \/ OtherStateChange

DashboardSpec == DashboardInit /\ [][DashboardNext]_dashboardVars

-----------------------------------------------------------------------------
(* Safety *)

(* What the panel of a benchmark ought to be: its form until it runs, then    *)
(* its progress, then its result, or the form again where it was asked for.   *)
(* The form can be asked for of a result another message just ran again.      *)
Fitting(b) ==
    CASE bench[b].status = "ready"  -> {"config"}
      [] bench[b].status = "active" -> {"progress"} \cup
             (IF asked[b] = "running" THEN {"config"} ELSE {})
      [] bench[b].status = "ended"  ->
             (IF asked[b] = "stopped" THEN {} ELSE {"result"}) \cup
             (IF asked[b] = "no" THEN {} ELSE {"config"})

(* Once the state is drawn every panel fits: a result is shown wherever its   *)
(* run was started from and however soon it ended, and nobody is thrown out   *)
(* of a form by a refresh, another run or a rerun that was refused.           *)
ScreenFits ==
    ~stale => \A b \in Benchmarks : bench[b].panel \in Fitting(b)

Starts(b) == bench[b].status # "active" /\ bench'[b].status = "active"

(* A run its benchmark warns of starts only by the answer to a dialog about   *)
(* that very configuration, from the button, from Run Again and from R.       *)
ConfirmedFirst ==
    [][\A b \in Benchmarks :
          Starts(b) /\ b \in Asking /\ bench'[b].config \in Large =>
             /\ Modal /\ dialogs' = Tail(dialogs)
             /\ dialogs[1] = [bench |-> b, config |-> bench'[b].config]
      ]_dashboardVars

RunsAreSeen == [](DashboardTypeOK /\ ScreenFits) /\ ConfirmedFirst

=============================================================================
