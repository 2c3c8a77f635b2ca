---------------------------- MODULE ChatGeneration ----------------------------
(* Chat: the conversation, one generation at a time, the request that answers *)
(* it and its retries, and the reading of the answer.  Prompts are reserved   *)
(* by begin_generation; a worker sends the request, publishes what it reads   *)
(* and commits what it got when the answer ends, fails or is cancelled.       *)
(* TrafficLanes says when Chat may start at all; here only Chat runs.         *)
(* Definitions named M_... are deliberate mistakes: each stands for a bug the *)
(* code could have in the definition after it, and no behaviour uses them.    *)
EXTENDS EventStream

CONSTANTS
    MaxTurns,       \* bound on generations in one behaviour
    MaxBody,        \* bound on the bytes of one streamed answer
    MaxChunk        \* bound on the bytes of one chunk

ASSUME BoundAssumption ==
    /\ MaxTurns \in Nat
    /\ MaxBody \in Nat
    /\ MaxChunk \in Nat \ {0}

VARIABLES
    \* the chat part of the application state
    messages,   \* chat_session.messages
    system,     \* chat_session has a nonblank system prompt
    status,     \* generation_status
    latest,     \* generation_id
    active,     \* active_generation_id; 0 for None
    shown,      \* current_response
    notice,     \* generation_notice is set
    \* the worker and its request
    pc,         \* free (none or finished), pending (not entered), stranded (never
                \* entered and not finished), crashed (the application is),
                \* or where it waits: sending, rejected, streaming, loading
    context,    \* the messages of the request
    usage,      \* include_usage: the payload asks for stream_options
    plain,      \* the request is the one without streaming
    decoder,    \* the SSEDecoder
    content,    \* content_parts
    cancel,     \* the task has a cancellation to deliver
    \* history
    requests,   \* requests sent for this generation
    body        \* bytes of the answer received so far

vars == <<messages, system, status, latest, active, shown, notice, pc, context,
          usage, plain, decoder, content, cancel, requests, body>>

session == <<messages, system, latest>>

stream == <<decoder, body, content>>

request == <<context, usage, plain, requests>>

Waiting == {"sending", "rejected", "streaming", "loading"}

Running == pc \in Waiting

Message == [role : {"system", "user", "assistant"}, of : Nat, text : Seq(Content)]

TypeOK ==
    /\ messages \in Seq(Message)
    /\ system \in BOOLEAN
    /\ status \in {"idle", "starting", "streaming", "completed", "cancelled", "error"}
    /\ latest \in 0 .. MaxTurns
    /\ active \in 0 .. MaxTurns
    /\ shown \in Seq(Content)
    /\ notice \in BOOLEAN
    /\ pc \in Waiting \cup {"free", "pending", "stranded", "crashed"}
    /\ context \in Seq(Message)
    /\ usage \in BOOLEAN
    /\ plain \in BOOLEAN
    /\ decoder \in Decoder
    /\ content \in Seq(Content)
    /\ cancel \in BOOLEAN
    /\ requests \in Nat
    /\ body \in Seq(Byte)

-----------------------------------------------------------------------------
(* The conversation *)

User(g) == [role |-> "user", of |-> g, text |-> <<>>]

M_NamesModel(g, text) == [role |-> "model", of |-> g, text |-> text]

Assistant(g, text) == [role |-> "assistant", of |-> g, text |-> text]

System == [role |-> "system", of |-> 0, text |-> <<>>]

(* request_context: at most one system message, the history, the prompt. *)
RequestContext(prompt) ==
    (IF system THEN <<System>> ELSE <<>>) \o messages \o <<prompt>>

(* begin_generation, called when no worker is unfinished. *)
Reserve ==
    /\ pc = "free"
    /\ active = 0
    /\ latest < MaxTurns
    /\ latest' = latest + 1
    /\ messages' = Append(messages, User(latest'))
    /\ notice' = FALSE
    /\ shown' = <<>>
    /\ UNCHANGED <<system, usage, plain, requests, stream, cancel>>

Begin ==
    /\ Reserve
    /\ active' = latest'
    /\ context' = RequestContext(User(latest'))
    /\ status' = "starting"
    /\ pc' = "pending"

(* The callback raises: the reservation is undone and the exception leaves    *)
(* the message handler, which ends the application.                           *)
BeginFails ==
    /\ Reserve
    /\ UNCHANGED <<active, context>>
    /\ status' = "error"
    /\ pc' = "crashed"

M_ClearsAnytime ==
    /\ pc # "crashed"
    /\ messages # <<>>
    /\ messages' = <<>>
    /\ status' = "idle"
    /\ shown' = <<>>
    /\ notice' = FALSE
    /\ UNCHANGED <<system, latest, active, pc, request, stream, cancel>>

ClearConversation ==
    /\ pc # "crashed"
    /\ active = 0
    /\ messages' = <<>>
    /\ status' = "idle"
    /\ shown' = <<>>
    /\ notice' = FALSE
    /\ UNCHANGED <<system, latest, active, pc, request, stream, cancel>>

(* update_preferences, of which the system prompt matters here. *)
UpdatePreferences ==
    /\ pc # "crashed"
    /\ active = 0
    /\ system' \in BOOLEAN
    /\ UNCHANGED <<messages, status, latest, active, shown, notice, pc, request,
                   stream, cancel>>

-----------------------------------------------------------------------------
(* The end of a generation *)

(* The locals of the worker are gone. *)
Forget ==
    /\ context' = <<>>
    /\ usage' = TRUE
    /\ plain' = FALSE
    /\ requests' = 0
    /\ decoder' = NewDecoder
    /\ body' = <<>>
    /\ content' = <<>>
    /\ cancel' = FALSE

M_LeavesReservation(outcome, text, told) ==
    /\ status' = outcome
    /\ messages' = IF outcome # "completed" /\ text = <<>> THEN messages
                   ELSE Append(messages, Assistant(active, text))
    /\ notice' = told
    /\ shown' = <<>>
    /\ active' = IF outcome = "error" THEN active ELSE 0
    /\ pc' = "free"
    /\ Forget
    /\ UNCHANGED <<system, latest>>

(* _finish_success, _finish_cancelled, _finish_error and _finish_unexpected:  *)
(* a completed answer is kept even if empty, any other unless it is empty.    *)
(* Nothing is awaited from here to the end of the worker.                     *)
Finish(outcome, text, told) ==
    /\ status' = outcome
    /\ messages' = IF outcome # "completed" /\ text = <<>> THEN messages
                   ELSE Append(messages, Assistant(active, text))
    /\ notice' = told
    /\ shown' = <<>>
    /\ active' = 0
    /\ pc' = "free"
    /\ Forget
    /\ UNCHANGED <<system, latest>>

(* An APIClientError: what was read is kept. *)
Fail == Finish("error", content, FALSE)

(* _handle_progress published this much and its callback raised, or something *)
(* else raised after it did: what the application state shows is kept.        *)
FailUnexpectedly(published, told) == Finish("error", published, told)

-----------------------------------------------------------------------------
(* The request *)

(* The worker runs for the first time and sends the request. *)
Enter ==
    /\ pc = "pending"
    /\ pc' = "sending"
    /\ requests' = requests + 1
    /\ UNCHANGED <<session, status, active, shown, notice, context, usage, plain,
                   stream, cancel>>

Awaits(place) == pc = place /\ ~cancel

(* A status other than 2xx: its body tells what was wrong. *)
Rejected ==
    /\ Awaits("sending")
    /\ pc' = "rejected"
    /\ UNCHANGED <<session, status, active, shown, notice, request, stream, cancel>>

Resend ==
    /\ pc' = "sending"
    /\ requests' = requests + 1
    /\ UNCHANGED <<session, status, active, shown, notice, context, stream, cancel>>

M_RetriesAgain ==
    /\ Awaits("rejected")
    /\ ~plain
    /\ usage' = FALSE
    /\ Resend
    /\ UNCHANGED plain

(* stream_options is not supported: once more without it. *)
RetryWithoutUsage ==
    /\ Awaits("rejected")
    /\ ~plain /\ usage
    /\ usage' = FALSE
    /\ Resend
    /\ UNCHANGED plain

(* Streaming is not supported: once more without it. *)
RetryWithoutStreaming ==
    /\ Awaits("rejected")
    /\ ~plain
    /\ plain' = TRUE
    /\ Resend
    /\ UNCHANGED usage

(* Any other rejection, or a repeated one. *)
GiveUp ==
    /\ Awaits("rejected")
    /\ Fail

(* The connection fails or times out, whatever the worker waits for; or the   *)
(* answer is not what was asked for.                                          *)
Breaks ==
    /\ Running
    /\ ~cancel
    /\ Fail

(* An exception that is not the API's, such as a recursion limit met in an    *)
(* answer: what was read and not yet published is lost.                       *)
BreaksUnexpectedly ==
    /\ Running
    /\ ~cancel
    /\ FailUnexpectedly(shown, notice)

(* The headers of an answer.  ResponseStarted is published at once.           *)
Started(place) ==
    /\ Awaits("sending")
    /\ \/ /\ pc' = place
          /\ status' = "streaming"
          /\ UNCHANGED <<session, active, shown, notice, request, stream, cancel>>
       \/ FailUnexpectedly(shown, notice)

StreamStarts == ~plain /\ Started("streaming")

(* A server may answer the streaming request with JSON as well. *)
JsonStarts == Started("loading")

-----------------------------------------------------------------------------
(* The answer *)

ContentOf(events) == Only(events, Content)

(* Events that are published whatever the clock says: the first content, and  *)
(* every event that is no content.                                            *)
Forced(events) ==
    {i \in DOMAIN events :
        \/ events[i] \notin Content
        \/ shown = <<>> /\ \A j \in 1 .. i - 1 : events[j] \notin Content}

(* The last of these events to be published, 0 if none is: after it, every    *)
(* content came within the interval of the last publication.                  *)
LastPublished(events) ==
    {k \in 0 .. Len(events) : \A i \in Forced(events) : i <= k}

(* What is shown once the k-th event was published. *)
Publication(events, k) ==
    IF k = 0 THEN shown ELSE content \o ContentOf(SubSeq(events, 1, k))

(* The events of one chunk, handled without a wait. *)
Progress(events) ==
    /\ content' = content \o ContentOf(events)
    /\ \E k \in LastPublished(events) : shown' = Publication(events, k)
    /\ UNCHANGED <<session, status, active, notice, pc, request, cancel>>

(* A callback of theirs raises. *)
ProgressRaises(events) ==
    \E k \in DOMAIN events : FailUnexpectedly(Publication(events, k), notice)

(* Up to MaxChunk bytes at a time, MaxBody in all. *)
Chunks == UNION {[1 .. n -> Byte] : n \in {n \in 1 .. MaxChunk : n + Len(body) <= MaxBody}}

Read(chunk) ==
    LET fed == Feed(decoder, chunk)
    IN  /\ Awaits("streaming")
        /\ IF fed.failed THEN Fail
           ELSE \/ /\ decoder' = [fed EXCEPT !.events = <<>>]
                   /\ body' = body \o chunk
                   /\ Progress(fed.events)
                   \/ ProgressRaises(fed.events)

M_CommitsTwice(text, told) ==
    /\ messages' = messages \o <<Assistant(active, text), Assistant(active, text)>>
    /\ status' = "error"
    /\ notice' = told
    /\ shown' = <<>>
    /\ active' = 0
    /\ pc' = "free"
    /\ Forget
    /\ UNCHANGED <<system, latest>>

(* What the stream says is complete is a success; its last publication may    *)
(* raise, and nothing is lost then either.                                    *)
Complete(text, told) ==
    \/ Finish("completed", text, told)
    \/ FailUnexpectedly(text, told)

M_AcceptsAnyEnd ==
    LET ended == AtEnd(decoder)
    IN  /\ Awaits("streaming")
        /\ IF ended.failed THEN Fail
           ELSE Complete(content \o ContentOf(ended.events), FALSE)

(* The end of the body.  Without a finish reason or an end mark it is an      *)
(* error, which keeps the last events too.                                    *)
EndOfStream ==
    LET ended == AtEnd(decoder)
        whole == content \o ContentOf(ended.events)
    IN  /\ Awaits("streaming")
        /\ IF ended.failed THEN Fail
           ELSE \/ ended.complete /\ Complete(whole, FALSE)
                \/ ~ended.complete /\ Finish("error", whole, FALSE)
                \/ ProgressRaises(ended.events)

(* The JSON answer: the notice is published, then its content.  A callback    *)
(* may raise at either, and an answer of another shape fails in between.      *)
Load ==
    /\ Awaits("loading")
    /\ \/ \E text \in {<<>>, <<"x">>} : Complete(text, TRUE)
       \/ FailUnexpectedly(<<>>, TRUE)
       \/ Finish("error", <<>>, TRUE)

-----------------------------------------------------------------------------
(* Cancellation *)

(* Escape while the worker runs. *)
CancelRunning ==
    /\ Running
    /\ active # 0
    /\ cancel' = TRUE
    /\ UNCHANGED <<session, status, active, shown, notice, pc, request, stream>>

(* Escape before it ran: cancel_reservation, and a worker that never enters   *)
(* the generation.  Whether Textual then calls it finished is not the app's   *)
(* to decide.                                                                 *)
CancelReserved ==
    /\ pc = "pending"
    /\ active # 0
    /\ status' = "cancelled"
    /\ notice' = FALSE
    /\ shown' = <<>>
    /\ active' = 0
    /\ pc' \in {"free", "stranded"}
    /\ context' = <<>>
    /\ UNCHANGED <<session, usage, plain, requests, stream, cancel>>

M_KeepsShown ==
    /\ Running
    /\ cancel
    /\ Finish("cancelled", shown, FALSE)

(* The cancellation reaches the worker where it waits. *)
Cancelled ==
    /\ Running
    /\ cancel
    /\ Finish("cancelled", content, FALSE)

-----------------------------------------------------------------------------
(* Specification *)

Init ==
    /\ messages = <<>>
    /\ system = TRUE
    /\ status = "idle"
    /\ latest = 0
    /\ active = 0
    /\ shown = <<>>
    /\ notice = FALSE
    /\ pc = "free"
    /\ context = <<>>
    /\ usage = TRUE
    /\ plain = FALSE
    /\ decoder = NewDecoder
    /\ content = <<>>
    /\ cancel = FALSE
    /\ requests = 0
    /\ body = <<>>

Next ==
    \/ Begin
    \/ BeginFails
    \/ ClearConversation
    \/ UpdatePreferences
    \/ Enter
    \/ Rejected
    \/ RetryWithoutUsage
    \/ RetryWithoutStreaming
    \/ GiveUp
    \/ Breaks
    \/ BreaksUnexpectedly
    \/ StreamStarts
    \/ JsonStarts
    \/ \E chunk \in Chunks : Read(chunk)
    \/ EndOfStream
    \/ Load
    \/ CancelRunning
    \/ CancelReserved
    \/ Cancelled

Spec == Init /\ [][Next]_vars

-----------------------------------------------------------------------------
(* Properties *)

(* However the bytes of an answer were cut into chunks, what was read of it   *)
(* is what its complete events say: a CR LF or a code point split between two *)
(* chunks neither adds an event nor loses or repeats one.                     *)
AnswerIsBody == TypeOK /\ (pc = "streaming" => content = SaidSoFar(body))

(* The text a step added to the conversation as an answer. *)
Kept == IF Len(messages') > Len(messages) THEN messages'[Len(messages')].text ELSE <<>>

Ends == active # 0 /\ active' = 0

CompletedIsWhole ==
    [][Ends /\ status' = "completed" /\ pc = "streaming" =>
          /\ \E i \in DOMAIN body : body[i] = "end"
          /\ Kept = SaidInAll(body)]_vars

StartsWith(text, start) == Len(start) <= Len(text) /\ SubSeq(text, 1, Len(start)) = start

PartialAnswersKept ==
    [][Ends => /\ StartsWith(Kept, shown)
               /\ status' = "cancelled" => Kept = content]_vars

(* A streamed answer is called complete only if it carried its finish reason  *)
(* or end mark, and then the conversation keeps all of it.  However else a    *)
(* generation ends, the conversation keeps at least what the user saw of its  *)
(* answer, and after a cancellation all that was read, published or not.      *)
AnswersAreKept == CompletedIsWhole /\ PartialAnswersKept

ContextIsConversation ==
    active # 0 => /\ context = (IF system THEN <<System>> ELSE <<>>) \o messages
                  /\ messages[Len(messages)] = User(active)

TurnsInOrder ==
    \A i \in DOMAIN messages :
        /\ messages[i].role = "assistant" =>
               i > 1 /\ messages[i - 1] = User(messages[i].of)
        /\ messages[i].role = "user" =>
               \A j \in 1 .. i - 1 : messages[j].of < messages[i].of

(* A request is sent again at most twice, and only while nothing of an answer *)
(* has come: a retry cannot repeat what was already read.                     *)
ResentOnlyUnanswered ==
    [][requests > 0 /\ requests' > requests =>
          status = "starting" /\ requests < 3]_vars

ReservationHasWorker == active # 0 <=> pc = "pending" \/ Running

(* A conversation is a list of generations in order, each a prompt with at    *)
(* most one answer, which follows it at once.  While a generation is active   *)
(* its request carries the very conversation that its answer will be appended *)
(* to, with the system prompt in force, and a worker is there to end it.      *)
GenerationOwnsConversation ==
    TurnsInOrder /\ ContextIsConversation /\ ReservationHasWorker

=============================================================================
