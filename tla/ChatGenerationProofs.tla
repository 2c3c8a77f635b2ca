------------------------- MODULE ChatGenerationProofs -------------------------
(* Proofs about ChatGeneration for every number of turns, body and chunk.     *)
(* First the conversation: who holds the reservation, what its request        *)
(* carries, how the conversation grows, and how often a request is sent.      *)
(* Then the answer: what the decoder makes of a body however it was cut into  *)
(* chunks, and what the conversation keeps of it.                             *)
EXTENDS ChatGeneration, SequenceTheorems, NaturalsInduction, WellFoundedInduction, TLAPS

(* A sequence, whatever its elements are. *)
IsSeq(s) == s \in Seq({s[i] : i \in DOMAIN s})

(* An appended element goes last and leaves the others where they are. *)
LEMMA Appending ==
    ASSUME NEW s, IsSeq(s), NEW e
    PROVE  /\ IsSeq(Append(s, e))
           /\ Len(s) \in Nat
           /\ DOMAIN s = 1 .. Len(s)
           /\ Len(Append(s, e)) = Len(s) + 1
           /\ DOMAIN Append(s, e) = 1 .. Len(s) + 1
           /\ Append(s, e)[Len(s) + 1] = e
           /\ \A i \in 1 .. Len(s) : Append(s, e)[i] = s[i]
<1> DEFINE S == {s[i] : i \in DOMAIN s} \cup {e}
           t == Append(s, e)
           T == {t[i] : i \in DOMAIN t}
<1>1. s \in Seq(S)
  BY DEF IsSeq
<1>2. /\ t \in Seq(S)
      /\ Len(t) = Len(s) + 1
      /\ Len(s) \in Nat
      /\ DOMAIN s = 1 .. Len(s)
      /\ DOMAIN t = 1 .. Len(s) + 1
      /\ t[Len(s) + 1] = e
      /\ \A i \in 1 .. Len(s) : t[i] = s[i]
  BY <1>1
<1>3. \A i \in 1 .. Len(t) : t[i] \in T
  BY <1>2
<1> HIDE DEF T
<1>4. t \in Seq(T)
  BY <1>2, <1>3
<1> QED
  BY <1>2, <1>4 DEF IsSeq, T

-----------------------------------------------------------------------------
(* The invariant *)

Places == Waiting \cup {"free", "pending", "stranded", "crashed"}

(* Generations are numbered upwards and only the latest can be active. *)
Numbered ==
    /\ latest \in Nat
    /\ active \in {0, latest}
    /\ IsSeq(messages)
    /\ \A i \in DOMAIN messages : messages[i].of <= latest /\ messages[i].of \in Nat

(* The prompt of an active generation is the last message. *)
Prompted == active # 0 => Len(messages) > 0

(* The request was sent once, and once more for each feature given up; until  *)
(* its answer begins nothing of it is published.                              *)
Sent ==
    /\ pc \in {"sending", "rejected"} => status = "starting"
    /\ pc = "pending" => requests = 0 /\ usage /\ ~plain /\ status = "starting"
    /\ ~Running => requests = 0 /\ usage /\ ~plain
    /\ usage \in BOOLEAN /\ plain \in BOOLEAN
    /\ requests \in Nat
    /\ Running => requests = 1 + (IF usage THEN 0 ELSE 1) + (IF plain THEN 1 ELSE 0)

Inv ==
    /\ pc \in Places
    /\ Numbered
    /\ Prompted
    /\ Sent
    /\ ReservationHasWorker
    /\ ContextIsConversation
    /\ TurnsInOrder

-----------------------------------------------------------------------------
(* Steps *)

(* Nothing of the conversation, the reservation or the request changes. *)
LEMMA Going ==
    ASSUME Inv, Running, pc' \in Waiting,
           UNCHANGED <<messages, system, latest, active, context, requests, usage, plain>>,
           pc' \in {"sending", "rejected"} => status' = "starting"
    PROVE  Inv'
<1>1. Running'
  BY DEF Running
<1>2. pc' \in Places
  BY DEF Places
<1>3. Numbered' /\ Prompted' /\ TurnsInOrder'
  BY DEF Inv, Numbered, Prompted, TurnsInOrder, IsSeq
<1>4. ContextIsConversation'
  BY DEF Inv, ContextIsConversation
<1>5. active # 0
  BY DEF Inv, ReservationHasWorker
<1>6. ReservationHasWorker'
  BY <1>1, <1>5 DEF ReservationHasWorker
<1>7. Sent'
  BY <1>1 DEF Inv, Sent, Running, Waiting
<1> QED
  BY <1>2, <1>3, <1>4, <1>6, <1>7 DEF Inv

(* However a generation ends, its answer follows its prompt and the           *)
(* reservation is gone.                                                       *)
LEMMA Ending ==
    ASSUME Inv, Running, NEW outcome, NEW text, NEW told, Finish(outcome, text, told)
    PROVE  Inv'
<1>1. /\ active # 0 /\ active = latest /\ latest \in Nat
      /\ Len(messages) > 0 /\ messages[Len(messages)] = User(active)
  BY DEF Inv, Numbered, Prompted, ReservationHasWorker, ContextIsConversation
<1>2. /\ active' = 0 /\ pc' = "free" /\ latest' = latest
      /\ requests' = 0 /\ usage' = TRUE /\ plain' = FALSE
  BY DEF Finish, Forget
<1>3. ~Running' /\ pc' \in Places
  BY <1>2 DEF Running, Waiting, Places
<1>4. Sent' /\ ReservationHasWorker' /\ ContextIsConversation' /\ Prompted'
  BY <1>2, <1>3 DEF Sent, ReservationHasWorker, ContextIsConversation, Prompted
<1>5. CASE messages' = messages
  BY <1>1, <1>2, <1>3, <1>4, <1>5 DEF Inv, Numbered, TurnsInOrder, IsSeq
<1>6. CASE messages' = Append(messages, Assistant(active, text))
  <2> DEFINE n == Len(messages)
             answer == Assistant(active, text)
  <2>1. IsSeq(messages)
    BY DEF Inv, Numbered
  <2>2. /\ IsSeq(messages')
        /\ n \in Nat
        /\ DOMAIN messages = 1 .. n
        /\ DOMAIN messages' = 1 .. n + 1
        /\ messages'[n + 1] = answer
        /\ \A i \in 1 .. n : messages'[i] = messages[i]
    BY <1>6, <2>1, Appending
  <2>3. answer.role = "assistant" /\ answer.of = active
    BY DEF Assistant
  <2>4. \A i \in DOMAIN messages' : messages'[i].of <= latest' /\ messages'[i].of \in Nat
    BY <1>1, <1>2, <2>2, <2>3 DEF Inv, Numbered
  <2>5. Numbered'
    BY <1>1, <1>2, <2>2, <2>4 DEF Numbered, IsSeq
  <2>6. TurnsInOrder'
    <3> SUFFICES ASSUME NEW i \in DOMAIN messages'
                 PROVE  /\ messages'[i].role = "assistant" =>
                              i > 1 /\ messages'[i - 1] = User(messages'[i].of)
                        /\ messages'[i].role = "user" =>
                              \A j \in 1 .. i - 1 : messages'[j].of < messages'[i].of
      BY DEF TurnsInOrder, User
    <3>1. CASE i \in 1 .. n
      <4>1. \A j \in 1 .. i : j \in 1 .. n /\ messages'[j] = messages[j]
        BY <2>2, <3>1
      <4> QED
        BY <2>2, <3>1, <4>1 DEF Inv, TurnsInOrder, User
    <3>2. CASE i = n + 1
      <4>1. messages'[i] = answer /\ messages'[i - 1] = User(active) /\ i > 1
        BY <1>1, <2>2, <3>2
      <4> QED
        BY <2>3, <4>1
    <3> QED
      BY <2>2, <3>1, <3>2
  <2> QED
    BY <1>3, <1>4, <2>5, <2>6 DEF Inv
<1> QED
  BY <1>5, <1>6 DEF Finish

(* A prompt is appended under the next number. *)
LEMMA Reserving ==
    ASSUME Inv, Reserve
    PROVE  /\ latest \in Nat /\ latest' = latest + 1 /\ IsSeq(messages')
           /\ \A i \in DOMAIN messages' :
                 messages'[i].of <= latest' /\ messages'[i].of \in Nat
           /\ Len(messages') > 0
           /\ messages'[Len(messages')] = User(latest')
           /\ TurnsInOrder'
<1> DEFINE n == Len(messages)
           prompt == User(latest')
<1>1. latest \in Nat /\ latest' = latest + 1 /\ IsSeq(messages)
  BY DEF Inv, Numbered, Reserve
<1>2. messages' = Append(messages, prompt)
  BY DEF Reserve
<1>3. /\ IsSeq(messages')
      /\ n \in Nat
      /\ DOMAIN messages = 1 .. n
      /\ Len(messages') = n + 1
      /\ DOMAIN messages' = 1 .. n + 1
      /\ messages'[n + 1] = prompt
      /\ \A i \in 1 .. n : messages'[i] = messages[i]
  BY <1>1, <1>2, Appending
<1>4. prompt.role = "user" /\ prompt.of = latest + 1
  BY <1>1 DEF User
<1>5. \A i \in 1 .. n : messages[i].of <= latest /\ messages[i].of \in Nat
  BY <1>3 DEF Inv, Numbered
<1>6. \A i \in DOMAIN messages' : messages'[i].of <= latest' /\ messages'[i].of \in Nat
  <2> SUFFICES ASSUME NEW i \in 1 .. n + 1
               PROVE  messages'[i].of <= latest' /\ messages'[i].of \in Nat
    BY <1>3
  <2>1. CASE i \in 1 .. n
    BY <1>1, <1>3, <1>5, <2>1
  <2>2. CASE i = n + 1
    BY <1>1, <1>3, <1>4, <2>2
  <2> QED
    BY <1>3, <2>1, <2>2
<1>7. TurnsInOrder'
  <2> SUFFICES ASSUME NEW i \in DOMAIN messages'
               PROVE  /\ messages'[i].role = "assistant" =>
                            i > 1 /\ messages'[i - 1] = User(messages'[i].of)
                      /\ messages'[i].role = "user" =>
                            \A j \in 1 .. i - 1 : messages'[j].of < messages'[i].of
    BY DEF TurnsInOrder, User
  <2>1. CASE i \in 1 .. n
    <3>1. \A j \in 1 .. i : j \in 1 .. n /\ messages'[j] = messages[j]
      BY <1>3, <2>1
    <3> QED
      BY <1>3, <2>1, <3>1 DEF Inv, TurnsInOrder, User
  <2>2. CASE i = n + 1
    <3>1. \A j \in 1 .. n : messages'[j].of < latest + 1
      BY <1>1, <1>3, <1>5
    <3> QED
      BY <1>3, <1>4, <2>2, <3>1
  <2> QED
    BY <1>3, <2>1, <2>2
<1> QED
  BY <1>1, <1>3, <1>6, <1>7

-----------------------------------------------------------------------------
(* The invariant holds *)

LEMMA Starts == Init => Inv
<1> SUFFICES ASSUME Init PROVE Inv
  OBVIOUS
<1>1. Numbered /\ Prompted /\ TurnsInOrder
  BY DEF Init, Numbered, Prompted, TurnsInOrder, IsSeq
<1>2. pc \in Places /\ Sent /\ ReservationHasWorker /\ ContextIsConversation
  BY DEF Init, Places, Sent, ReservationHasWorker, ContextIsConversation, Running, Waiting
<1> QED
  BY <1>1, <1>2 DEF Inv

LEMMA BeginStep ==
    ASSUME Inv, Begin
    PROVE  Inv'
<1>1. /\ latest \in Nat /\ latest' = latest + 1 /\ IsSeq(messages')
      /\ \A i \in DOMAIN messages' :
            messages'[i].of <= latest' /\ messages'[i].of \in Nat
      /\ Len(messages') > 0
      /\ messages'[Len(messages')] = User(latest')
      /\ TurnsInOrder'
  BY Reserving DEF Begin
<1>2. /\ active' = latest' /\ pc' = "pending" /\ status' = "starting"
      /\ UNCHANGED <<system, usage, plain, requests>>
      /\ pc = "free"
  BY DEF Begin, Reserve
<1>3. messages' = messages \o <<User(latest')>>
  BY DEF Inv, Numbered, IsSeq, Begin, Reserve
<1>4. ContextIsConversation'
  <2>1. context' = (IF system THEN <<System>> ELSE <<>>) \o messages \o <<User(latest')>>
    BY DEF Begin, RequestContext
  <2>2. DEFINE S == {messages[i] : i \in DOMAIN messages} \cup {System, User(latest')}
  <2>3. messages \in Seq(S) /\ <<User(latest')>> \in Seq(S)
    BY DEF Inv, Numbered, IsSeq
  <2>4. (IF system THEN <<System>> ELSE <<>>) \in Seq(S)
    <3>1. System \in S
      OBVIOUS
    <3> HIDE DEF S
    <3>2. <<System>> \in Seq(S) /\ <<>> \in Seq(S)
      BY <3>1
    <3> QED
      BY <3>2
  <2> HIDE DEF S
  <2>5. context' = (IF system THEN <<System>> ELSE <<>>) \o (messages \o <<User(latest')>>)
    BY <2>1, <2>3, <2>4
  <2> QED
    BY <1>1, <1>2, <1>3, <2>5 DEF ContextIsConversation, System
<1>5. ~Running'
  BY <1>2 DEF Running, Waiting
<1>6. Sent'
  BY <1>2, <1>5 DEF Inv, Sent, Running, Waiting
<1>7. Numbered' /\ Prompted' /\ ReservationHasWorker' /\ pc' \in Places
  BY <1>1, <1>2 DEF Numbered, Prompted, ReservationHasWorker, Places
<1> QED
  BY <1>1, <1>4, <1>6, <1>7 DEF Inv

LEMMA BeginFailsStep ==
    ASSUME Inv, BeginFails
    PROVE  Inv'
<1>1. /\ latest \in Nat /\ latest' = latest + 1 /\ IsSeq(messages')
      /\ \A i \in DOMAIN messages' :
            messages'[i].of <= latest' /\ messages'[i].of \in Nat
      /\ TurnsInOrder'
  BY Reserving DEF BeginFails
<1>2. /\ active' = 0 /\ pc' = "crashed" /\ pc = "free"
      /\ UNCHANGED <<usage, plain, requests>>
  BY DEF BeginFails, Reserve
<1>3. ~Running /\ ~Running'
  BY <1>2 DEF Running, Waiting
<1>4. Sent'
  BY <1>2, <1>3 DEF Inv, Sent
<1> QED
  BY <1>1, <1>2, <1>3, <1>4
     DEF Inv, Numbered, Prompted, ReservationHasWorker, ContextIsConversation, Places

(* Steps of the user while nothing is active.                                 *)
LEMMA IdleStep ==
    ASSUME Inv, ClearConversation \/ UpdatePreferences
    PROVE  Inv'
<1>1. /\ active = 0
      /\ UNCHANGED <<latest, active, pc, requests, usage, plain>>
      /\ messages' \in {messages, <<>>}
  BY DEF ClearConversation, UpdatePreferences, request
<1>2. pc # "pending" /\ ~Running
  BY <1>1 DEF Inv, ReservationHasWorker
<1>3. Sent' /\ ReservationHasWorker' /\ ContextIsConversation' /\ Prompted'
  BY <1>1, <1>2 DEF Inv, Sent, ReservationHasWorker, ContextIsConversation, Prompted,
                    Running, Waiting
<1>4. Numbered' /\ TurnsInOrder'
  <2>1. CASE messages' = messages
    BY <1>1, <2>1 DEF Inv, Numbered, TurnsInOrder, IsSeq
  <2>2. CASE messages' = <<>>
    <3>1. IsSeq(messages') /\ DOMAIN messages' = {}
      BY <2>2 DEF IsSeq
    <3> QED
      BY <1>1, <3>1 DEF Inv, Numbered, TurnsInOrder, IsSeq
  <2> QED
    BY <1>1, <2>1, <2>2
<1> QED
  BY <1>1, <1>3, <1>4 DEF Inv

LEMMA CancelReservedStep ==
    ASSUME Inv, CancelReserved
    PROVE  Inv'
<1>1. /\ pc = "pending" /\ active' = 0 /\ pc' \in {"free", "stranded"}
      /\ UNCHANGED <<messages, latest, requests, usage, plain>>
  BY DEF CancelReserved, session
<1>2. Sent' /\ ReservationHasWorker' /\ ContextIsConversation' /\ Prompted'
  BY <1>1 DEF Inv, Sent, ReservationHasWorker, ContextIsConversation, Prompted,
              Running, Waiting
<1>3. Numbered' /\ TurnsInOrder'
  BY <1>1 DEF Inv, Numbered, TurnsInOrder, IsSeq
<1> QED
  BY <1>1, <1>2, <1>3 DEF Inv, Places

LEMMA EnterStep ==
    ASSUME Inv, Enter
    PROVE  Inv'
<1>1. /\ pc = "pending" /\ pc' = "sending" /\ requests' = requests + 1
      /\ UNCHANGED <<messages, system, latest, status, active, context, usage, plain>>
  BY DEF Enter, session
<1>2. Sent' /\ ReservationHasWorker' /\ pc' \in Places
  BY <1>1 DEF Inv, Sent, ReservationHasWorker, Running, Waiting, Places
<1>3. Numbered' /\ Prompted' /\ TurnsInOrder' /\ ContextIsConversation'
  BY <1>1 DEF Inv, Numbered, Prompted, TurnsInOrder, ContextIsConversation, IsSeq
<1> QED
  BY <1>2, <1>3 DEF Inv

LEMMA RetryStep ==
    ASSUME Inv, RetryWithoutUsage \/ RetryWithoutStreaming
    PROVE  Inv'
<1>1. /\ pc = "rejected" /\ pc' = "sending" /\ requests' = requests + 1 /\ ~plain
      /\ UNCHANGED <<messages, system, latest, status, active, context>>
      /\ \/ usage /\ usage' = FALSE /\ plain' = plain
         \/ plain' = TRUE /\ usage' = usage
  BY DEF RetryWithoutUsage, RetryWithoutStreaming, Resend, Awaits, session
<1>2. Running /\ Running' /\ pc' \in Places
  BY <1>1 DEF Running, Waiting, Places
<1>3. Sent'
  <2>1. /\ status = "starting" /\ requests \in Nat
        /\ usage \in BOOLEAN /\ plain \in BOOLEAN
        /\ requests = 1 + (IF usage THEN 0 ELSE 1) + (IF plain THEN 1 ELSE 0)
    BY <1>1, <1>2 DEF Inv, Sent
  <2>2. requests = 1 + (IF usage THEN 0 ELSE 1)
    BY <1>1, <2>1
  <2>3. requests' = 1 + (IF usage' THEN 0 ELSE 1) + (IF plain' THEN 1 ELSE 0)
    <3>1. CASE usage /\ usage' = FALSE /\ plain' = plain
      <4>1. requests = 1
        BY <2>2, <3>1
      <4>2. requests' = 2
        BY <1>1, <4>1
      <4>3. (IF usage' THEN 0 ELSE 1) = 1 /\ (IF plain' THEN 1 ELSE 0) = 0
        BY <1>1, <3>1
      <4> QED
        BY <4>2, <4>3
    <3>2. CASE plain' = TRUE /\ usage' = usage
      <4>1. (IF usage' THEN 0 ELSE 1) = (IF usage THEN 0 ELSE 1)
            /\ (IF plain' THEN 1 ELSE 0) = 1
        BY <3>2
      <4>2. (IF usage THEN 0 ELSE 1) \in Nat
        OBVIOUS
      <4> QED
        BY <1>1, <2>2, <4>1, <4>2
    <3> QED
      BY <1>1, <3>1, <3>2
  <2>4. requests' \in Nat /\ usage' \in BOOLEAN /\ plain' \in BOOLEAN
    <3>1. requests' \in Nat
      BY <1>1, <2>1
    <3>2. usage' \in {usage, FALSE} /\ plain' \in {plain, TRUE}
      BY <1>1, Zenon
    <3> QED
      BY <2>1, <3>1, <3>2
  <2>5. status' = "starting" /\ pc' # "pending"
    BY <1>1, <2>1
  <2> QED
    BY <1>2, <2>3, <2>4, <2>5 DEF Sent
<1>4. ReservationHasWorker'
  BY <1>1, <1>2 DEF Inv, ReservationHasWorker
<1>5. Numbered' /\ Prompted' /\ TurnsInOrder' /\ ContextIsConversation'
  BY <1>1 DEF Inv, Numbered, Prompted, TurnsInOrder, ContextIsConversation, IsSeq
<1> QED
  BY <1>2, <1>3, <1>4, <1>5 DEF Inv

(* The other steps of the worker either go on or end the generation. *)
LEMMA WorkerStep ==
    ASSUME Inv,
           \/ Rejected \/ GiveUp \/ Breaks \/ BreaksUnexpectedly
           \/ StreamStarts \/ JsonStarts
           \/ (\E chunk \in Chunks : Read(chunk))
           \/ EndOfStream \/ Load \/ CancelRunning \/ Cancelled
    PROVE  Inv'
<1> USE DEF session, request
<1>1. ASSUME \E outcome, text, told : Finish(outcome, text, told), Running
      PROVE  Inv'
  BY <1>1, Ending
<1>2. CASE Rejected
  <2>1. Running /\ pc' = "rejected" /\ pc = "sending"
    BY <1>2 DEF Rejected, Awaits, Running, Waiting
  <2>2. status' = status /\ status = "starting"
    BY <1>2, <2>1 DEF Rejected, Inv, Sent
  <2> QED
    BY <1>2, <2>1, <2>2, Going DEF Rejected, Waiting
<1>3. CASE GiveUp
  BY <1>1, <1>3 DEF GiveUp, Fail, Awaits, Running, Waiting
<1>4. CASE Breaks
  BY <1>1, <1>4 DEF Breaks, Fail
<1>5. CASE BreaksUnexpectedly
  BY <1>1, <1>5 DEF BreaksUnexpectedly, FailUnexpectedly
<1>6. ASSUME NEW place \in {"streaming", "loading"}, Started(place)
      PROVE  Inv'
  <2>1. Running
    BY <1>6 DEF Started, Awaits, Running, Waiting
  <2>2. CASE FailUnexpectedly(shown, notice)
    BY <1>1, <2>1, <2>2 DEF FailUnexpectedly
  <2>3. CASE pc' = place /\ UNCHANGED <<session, active, shown, notice, request, stream, cancel>>
    BY <1>6, <2>1, <2>3, Going DEF Waiting
  <2> QED
    BY <1>6, <2>2, <2>3 DEF Started
<1>7. CASE StreamStarts \/ JsonStarts
  BY <1>6, <1>7 DEF StreamStarts, JsonStarts
<1>8. ASSUME NEW events, ProgressRaises(events), Running
      PROVE  Inv'
  BY <1>1, <1>8 DEF ProgressRaises, FailUnexpectedly
<1>9. ASSUME NEW chunk \in Chunks, Read(chunk)
      PROVE  Inv'
  <2> DEFINE fed == Feed(decoder, chunk)
  <2>1. pc = "streaming" /\ Running
    BY <1>9 DEF Read, Awaits, Running, Waiting
  <2>2. CASE Fail
    BY <1>1, <2>1, <2>2 DEF Fail
  <2>3. CASE Progress(fed.events)
    <3>1. UNCHANGED <<messages, system, latest, active, context, requests, usage, plain, pc>>
      BY <2>3 DEF Progress
    <3> QED
      BY <2>1, <3>1, Going DEF Waiting
  <2>4. CASE ProgressRaises(fed.events)
    BY <1>8, <2>1, <2>4
  <2> HIDE DEF fed
  <2> QED
    BY <1>9, <2>2, <2>3, <2>4 DEF Read, fed
<1>10. ASSUME NEW text, NEW told, Complete(text, told), Running
       PROVE  Inv'
  BY <1>1, <1>10 DEF Complete, FailUnexpectedly
<1>11. CASE EndOfStream
  <2> DEFINE ended == AtEnd(decoder)
             whole == content \o ContentOf(ended.events)
  <2>1. Running
    BY <1>11 DEF EndOfStream, Awaits, Running, Waiting
  <2>2. \/ Fail
        \/ Complete(whole, FALSE)
        \/ Finish("error", whole, FALSE)
        \/ ProgressRaises(ended.events)
    BY <1>11 DEF EndOfStream
  <2> HIDE DEF ended, whole
  <2> QED
    BY <1>1, <1>8, <1>10, <2>1, <2>2 DEF Fail
<1>12. CASE Load
  <2>1. Running
    BY <1>12 DEF Load, Awaits, Running, Waiting
  <2> QED
    BY <1>1, <1>10, <1>12, <2>1 DEF Load, FailUnexpectedly
<1>13. CASE CancelRunning
  <2>1. Running /\ UNCHANGED <<messages, system, latest, active, context, requests,
                              usage, plain, pc, status>>
    BY <1>13 DEF CancelRunning
  <2>2. pc' \in Waiting /\ (pc' \in {"sending", "rejected"} => status' = "starting")
    BY <2>1 DEF Running, Inv, Sent
  <2> QED
    BY <2>1, <2>2, Going
<1>14. CASE Cancelled
  BY <1>1, <1>14 DEF Cancelled
<1> QED
  BY <1>2, <1>3, <1>4, <1>5, <1>7, <1>9, <1>11, <1>12, <1>13, <1>14

LEMMA Preserved == Inv /\ [Next]_vars => Inv'
<1> SUFFICES ASSUME Inv, [Next]_vars PROVE Inv'
  OBVIOUS
<1>1. CASE UNCHANGED vars
  <2>1. UNCHANGED <<messages, system, status, latest, active, pc, context, usage, plain,
                    requests>>
    BY <1>1 DEF vars
  <2> QED
    BY <2>1 DEF Inv, Numbered, Prompted, Sent, ReservationHasWorker, ContextIsConversation,
                TurnsInOrder, Running, IsSeq
<1>2. CASE Next
  BY <1>2, BeginStep, BeginFailsStep, IdleStep, CancelReservedStep, EnterStep, RetryStep,
     WorkerStep DEF Next
<1> QED
  BY <1>1, <1>2

LEMMA Always == Spec => []Inv
  BY Starts, Preserved, PTL DEF Spec

-----------------------------------------------------------------------------
(* Theorems about the conversation *)

(* However generations begin, end, fail or are cancelled, the conversation is *)
(* a list of prompts in order, each with at most one answer after it; the     *)
(* request of an active generation carries the very conversation its answer   *)
(* is appended to; and active_generation_id is set exactly while a worker is  *)
(* there to clear it.                                                         *)
THEOREM ConversationIsOwned == Spec => []GenerationOwnsConversation
<1>1. Inv => GenerationOwnsConversation
  BY DEF Inv, GenerationOwnsConversation
<1> QED
  BY <1>1, Always, PTL

(* A request is sent again at most twice, and never once something of its     *)
(* answer was published: the fallbacks of stream_chat_completion cannot       *)
(* repeat an answer.                                                          *)
THEOREM RetriesAreConservative == Spec => ResentOnlyUnanswered
<1> DEFINE Careful == requests > 0 /\ requests' > requests =>
                          status = "starting" /\ requests < 3
<1>1. Inv /\ [Next]_vars => [Careful]_vars
  <2> SUFFICES ASSUME Inv, Next, requests > 0, requests' > requests
               PROVE  status = "starting" /\ requests < 3
    OBVIOUS
  <2>1. requests \in Nat
    BY DEF Inv, Sent
  <2>2. ASSUME \E outcome, text, told : Finish(outcome, text, told)
        PROVE  FALSE
    BY <2>1, <2>2 DEF Finish, Forget
  <2>3. ~Enter
    BY DEF Enter, Inv, Sent, Running, Waiting
  <2>4. ASSUME NEW events, ProgressRaises(events)
        PROVE  FALSE
    BY <2>2, <2>4 DEF ProgressRaises, FailUnexpectedly
  <2>5. ~(\E chunk \in Chunks : Read(chunk))
    <3> SUFFICES ASSUME NEW chunk \in Chunks, Read(chunk) PROVE FALSE
      OBVIOUS
    <3> DEFINE fed == Feed(decoder, chunk)
    <3>1. ~Progress(fed.events)
      BY <2>1 DEF Progress, request
    <3>2. ~Fail
      BY <2>2 DEF Fail
    <3>3. ~ProgressRaises(fed.events)
      BY <2>4
    <3> HIDE DEF fed
    <3> QED
      BY <3>1, <3>2, <3>3 DEF Read, fed
  <2>6. ~EndOfStream /\ ~Load
    BY <2>2, <2>4 DEF EndOfStream, Load, Complete, Fail, FailUnexpectedly
  <2>7. ~GiveUp /\ ~Breaks /\ ~BreaksUnexpectedly /\ ~Cancelled
    BY <2>2 DEF GiveUp, Breaks, BreaksUnexpectedly, Cancelled, Fail, FailUnexpectedly
  <2>8. ~StreamStarts /\ ~JsonStarts
    BY <2>1, <2>2 DEF StreamStarts, JsonStarts, Started, FailUnexpectedly, request
  <2>9. ~Begin /\ ~BeginFails /\ ~ClearConversation /\ ~UpdatePreferences /\ ~Rejected
        /\ ~CancelRunning /\ ~CancelReserved
    BY <2>1 DEF Begin, BeginFails, Reserve, ClearConversation, UpdatePreferences,
                Rejected, CancelRunning, CancelReserved, request
  <2>10. RetryWithoutUsage \/ RetryWithoutStreaming
    BY <2>3, <2>5, <2>6, <2>7, <2>8, <2>9 DEF Next
  <2>11. pc = "rejected" /\ ~plain
    BY <2>10 DEF RetryWithoutUsage, RetryWithoutStreaming, Awaits
  <2> QED
    BY <2>11 DEF Inv, Sent, Running, Waiting
<1> QED
  BY <1>1, Always, PTL DEF Spec, ResentOnlyUnanswered

-----------------------------------------------------------------------------
(* Choosing elements of a sequence: Only *)

(* Of a set of numbers, one is the least. *)
LEMMA Least ==
    ASSUME NEW B \in SUBSET Nat, B # {}
    PROVE  \E n \in B : \A m \in B : n <= m
<1>1. PICK n \in B : \A m \in B : <<m, n>> \notin OpToRel(<, Nat)
  BY NatLessThanWellFounded, WFMin
<1>2. \A m \in B : ~(m < n)
  BY <1>1 DEF OpToRel
<1> QED
  BY <1>2

(* f[i] is what the first i elements of s have in S, up to n. *)
Selects(f, s, S, n) ==
    /\ f[0] = <<>>
    /\ \A i \in 1 .. n : f[i] = IF s[i] \in S THEN Append(f[i - 1], s[i]) ELSE f[i - 1]

Selecting(f, s, S) ==
    [n \in 0 .. Len(s) |-> IF n = 0 THEN <<>>
                           ELSE IF s[n] \in S THEN Append(f[n - 1], s[n]) ELSE f[n - 1]]

(* What LET hides in Only, as a function that is defined by itself. *)
LEMMA OnlyChooses ==
    ASSUME NEW s, NEW S
    PROVE  Only(s, S) = (CHOOSE f : f = Selecting(f, s, S))[Len(s)]
  BY Zenon DEF Only, Selecting

(* Two functions that choose along the same sequence agree. *)
LEMMA SelectsUnique ==
    ASSUME NEW s, NEW S, NEW n \in Nat, NEW f, NEW g, Selects(f, s, S, n), Selects(g, s, S, n)
    PROVE  f[n] = g[n]
<1> DEFINE Bad == {i \in 0 .. n : f[i] # g[i]}
<1> SUFFICES ASSUME Bad # {} PROVE FALSE
  OBVIOUS
<1>1. PICK m \in Bad : \A i \in Bad : m <= i
  <2>1. Bad \in SUBSET Nat
    OBVIOUS
  <2> HIDE DEF Bad
  <2> QED
    BY <2>1, Least
<1>2. CASE m = 0
  BY <1>1, <1>2 DEF Selects
<1>3. CASE m \in 1 .. n
  <2>1. f[m - 1] = g[m - 1]
    BY <1>1, <1>3
  <2> QED
    BY <1>1, <1>3, <2>1 DEF Selects
<1> QED
  BY <1>1, <1>2, <1>3

Selectable(s, S, T, n) == \E f \in [0 .. n -> Seq(T \cap S)] : Selects(f, s, S, n)

(* There is one, up to every position of a sequence. *)
LEMMA SelectsExists ==
    ASSUME NEW T, NEW s \in Seq(T), NEW S, NEW n \in 0 .. Len(s)
    PROVE  Selectable(s, S, T, n)
<1> DEFINE Bad == {i \in 0 .. n : ~Selectable(s, S, T, i)}
<1> SUFFICES ASSUME Bad # {} PROVE FALSE
  OBVIOUS
<1>1. PICK m \in Bad : \A i \in Bad : m <= i
  <2>1. Bad \in SUBSET Nat
    OBVIOUS
  <2> HIDE DEF Bad
  <2> QED
    BY <2>1, Least
<1>2. CASE m = 0
  <2> DEFINE e == [i \in 0 .. 0 |-> <<>>]
  <2>1. e \in [0 .. 0 -> Seq(T \cap S)] /\ Selects(e, s, S, 0)
    BY DEF Selects
  <2> QED
    BY <1>1, <1>2, <2>1 DEF Selectable
<1>3. CASE m \in 1 .. n
  <2>1. m - 1 \in 0 .. n /\ m - 1 \notin Bad
    BY <1>1, <1>3
  <2>2. PICK f \in [0 .. m - 1 -> Seq(T \cap S)] : Selects(f, s, S, m - 1)
    BY <2>1 DEF Selectable
  <2> DEFINE g == [i \in 0 .. m |-> IF i < m THEN f[i]
                                    ELSE IF s[m] \in S THEN Append(f[m - 1], s[m]) ELSE f[m - 1]]
  <2>3. s[m] \in T
    BY <1>3
  <2>4. g \in [0 .. m -> Seq(T \cap S)]
    <3>1. f[m - 1] \in Seq(T \cap S)
      BY <1>3, <2>2
    <3>2. s[m] \in S => Append(f[m - 1], s[m]) \in Seq(T \cap S)
      BY <2>3, <3>1, AppendProperties
    <3>3. \A i \in 0 .. m : i < m => f[i] \in Seq(T \cap S)
      BY <1>3, <2>2
    <3> QED
      BY <3>1, <3>2, <3>3
  <2>5. Selects(g, s, S, m)
    <3>1. g[0] = <<>>
      BY <1>3, <2>2 DEF Selects
    <3>2. ASSUME NEW i \in 1 .. m
          PROVE  g[i] = IF s[i] \in S THEN Append(g[i - 1], s[i]) ELSE g[i - 1]
      <4>1. CASE i < m
        <5>1. i \in 1 .. m - 1 /\ g[i] = f[i] /\ g[i - 1] = f[i - 1]
          BY <1>3, <4>1
        <5> QED
          BY <2>2, <5>1 DEF Selects
      <4>2. CASE i = m
        <5>1. g[i - 1] = f[m - 1]
          BY <1>3, <4>2
        <5> QED
          BY <1>3, <4>2, <5>1
      <4> QED
        BY <1>3, <4>1, <4>2
    <3> QED
      BY <3>1, <3>2 DEF Selects
  <2> QED
    BY <1>1, <2>4, <2>5 DEF Selectable
<1> QED
  BY <1>1, <1>2, <1>3

(* What Only selects is what any such function says it does. *)
LEMMA OnlySelects ==
    ASSUME NEW T, NEW s \in Seq(T), NEW S
    PROVE  /\ Only(s, S) \in Seq(T \cap S)
           /\ \A f, n : n = Len(s) /\ Selects(f, s, S, n) => Only(s, S) = f[n]
<1> DEFINE N == Len(s)
           C == CHOOSE f : f = Selecting(f, s, S)
<1>1. N \in Nat /\ N \in 0 .. Len(s)
  OBVIOUS
<1>2. PICK f \in [0 .. N -> Seq(T \cap S)] : Selects(f, s, S, N)
  <2> HIDE DEF N
  <2> QED
    BY <1>1, SelectsExists DEF Selectable
<1>3. f = Selecting(f, s, S)
  <2>1. f = [n \in 0 .. N |-> f[n]]
    OBVIOUS
  <2>2. ASSUME NEW n \in 0 .. N
        PROVE  f[n] = IF n = 0 THEN <<>>
                      ELSE IF s[n] \in S THEN Append(f[n - 1], s[n]) ELSE f[n - 1]
    <3> HIDE DEF N
    <3>1. CASE n = 0
      BY <1>2, <3>1 DEF Selects
    <3>2. CASE n \in 1 .. N
      BY <1>2, <3>2 DEF Selects
    <3> QED
      BY <1>1, <3>1, <3>2
  <2> QED
    BY <2>1, <2>2 DEF Selecting
<1>4. C = Selecting(C, s, S)
  <2> HIDE DEF N
  <2> QED
    BY <1>3
<1> HIDE DEF C
<1>5. Selects(C, s, S, N)
  <2>1. \A n \in 0 .. N : C[n] = IF n = 0 THEN <<>>
             ELSE IF s[n] \in S THEN Append(C[n - 1], s[n]) ELSE C[n - 1]
    BY <1>4 DEF Selecting
  <2> QED
    BY <1>1, <2>1 DEF Selects
<1>6. Only(s, S) = C[N]
  BY OnlyChooses DEF C
<1> HIDE DEF N
<1>7. ASSUME NEW g, Selects(g, s, S, N)
      PROVE  C[N] = g[N]
  BY <1>1, <1>5, <1>7, SelectsUnique
<1>8. f[N] \in Seq(T \cap S)
  BY <1>1, <1>2
<1> QED
  BY <1>2, <1>6, <1>7, <1>8 DEF N

LEMMA OnlyTyped ==
    ASSUME NEW T, NEW s \in Seq(T), NEW S
    PROVE  Only(s, S) \in Seq(T \cap S) /\ Only(s, S) \in Seq(T) /\ Only(s, S) \in Seq(S)
<1>1. Only(s, S) \in Seq(T \cap S)
  BY OnlySelects
<1> QED
  BY <1>1, SeqMonotonic

LEMMA OnlyEmpty == ASSUME NEW S PROVE Only(<<>>, S) = <<>>
<1>1. <<>> \in Seq({}) /\ Len(<<>>) = 0
  BY EmptySeq
<1>2. PICK f \in [0 .. 0 -> Seq({} \cap S)] : Selects(f, <<>>, S, 0)
  <2>1. 0 \in 0 .. Len(<<>>)
    BY <1>1
  <2>2. Selectable(<<>>, S, {}, 0)
    BY <1>1, <2>1, SelectsExists
  <2> QED
    BY <2>2 DEF Selectable
<1>3. Only(<<>>, S) = f[0]
  BY <1>1, <1>2, OnlySelects
<1> QED
  BY <1>2, <1>3 DEF Selects

(* One element more is chosen or passed over. *)
LEMMA OnlyAppend ==
    ASSUME NEW T, NEW s \in Seq(T), NEW e \in T, NEW S
    PROVE  Only(Append(s, e), S) = IF e \in S THEN Append(Only(s, S), e) ELSE Only(s, S)
<1> DEFINE t == Append(s, e)
           n == Len(s)
<1>1. /\ t \in Seq(T) /\ n \in Nat /\ Len(t) = n + 1 /\ t[n + 1] = e
      /\ \A i \in 1 .. n : t[i] = s[i]
  BY AppendProperties
<1> HIDE DEF t
<1>2. PICK f \in [0 .. n + 1 -> Seq(T \cap S)] : Selects(f, t, S, n + 1)
  <2>1. n + 1 \in 0 .. Len(t)
    BY <1>1
  <2> HIDE DEF n
  <2> QED
    BY <1>1, <2>1, SelectsExists DEF Selectable
<1>3. Only(t, S) = f[n + 1]
  <2>1. \A g, k : k = Len(t) /\ Selects(g, t, S, k) => Only(t, S) = g[k]
    BY <1>1, OnlySelects
  <2> HIDE DEF n
  <2> QED
    BY <1>1, <1>2, <2>1
<1>4. Selects(f, s, S, n)
  <2>1. \A i \in 1 .. n : i \in 1 .. n + 1
    BY <1>1
  <2> HIDE DEF n
  <2> QED
    BY <1>1, <1>2, <2>1 DEF Selects
<1>5. Only(s, S) = f[n]
  BY <1>4, OnlySelects
<1>6. n + 1 \in 1 .. n + 1 /\ (n + 1) - 1 = n
  BY <1>1
<1>7. f[n + 1] = IF t[n + 1] \in S THEN Append(f[n], t[n + 1]) ELSE f[n]
  <2> HIDE DEF n
  <2> QED
    BY <1>2, <1>6 DEF Selects
<1> HIDE DEF n
<1> QED
  BY <1>1, <1>3, <1>5, <1>7 DEF t

LEMMA OnlyOne ==
    ASSUME NEW e, NEW S
    PROVE  Only(<<e>>, S) = IF e \in S THEN <<e>> ELSE <<>>
<1>1. <<>> \in Seq({e}) /\ Append(<<>>, e) = <<e>>
  OBVIOUS
<1> QED
  <2> DEFINE s == <<>>
             T == {e}
  <2>2. s \in Seq(T) /\ e \in T
    BY <1>1
  <2> HIDE DEF s, T
  <2>3. Only(Append(s, e), S) = IF e \in S THEN Append(Only(s, S), e) ELSE Only(s, S)
    BY Zenon, <2>2, OnlyAppend
  <2>1. Only(Append(<<>>, e), S)
            = IF e \in S THEN Append(Only(<<>>, S), e) ELSE Only(<<>>, S)
    BY <2>3 DEF s
  <2> QED
    BY <1>1, <2>1, OnlyEmpty

LEMMA AppendLast ==
    ASSUME NEW T, NEW s \in Seq(T), NEW t \in Seq(T), NEW e \in T
    PROVE  Append(s \o t, e) = s \o Append(t, e)
<1>1. Append(s \o t, e) \in Seq(T) /\ s \o Append(t, e) \in Seq(T)
  OBVIOUS
<1>2. Len(Append(s \o t, e)) = Len(s \o Append(t, e))
  OBVIOUS
<1>3. \A i \in 1 .. Len(Append(s \o t, e)) : Append(s \o t, e)[i] = (s \o Append(t, e))[i]
  OBVIOUS
<1> QED
  BY <1>1, <1>2, <1>3, SeqEqual

Splits(s, t, S) == Only(s \o t, S) = Only(s, S) \o Only(t, S)

LEMMA OnlyConcatStep ==
    ASSUME NEW T, NEW s \in Seq(T), NEW u \in Seq(T), NEW e \in T, NEW S,
           Splits(s, u, S)
    PROVE  Splits(s, Append(u, e), S)
<1> DEFINE a == Only(s, S)
           b == Only(u, S)
           su == s \o u
<1>1. /\ a \in Seq(T)
      /\ b \in Seq(T)
      /\ su \in Seq(T)
  <2>1. a \in Seq(T)
    BY OnlyTyped
  <2>2. b \in Seq(T)
    BY OnlyTyped
  <2> QED
    BY <2>1, <2>2
<1>2. s \o Append(u, e) = Append(su, e)
  BY AppendLast
<1>3. Only(Append(u, e), S) = IF e \in S THEN Append(b, e) ELSE b
  BY Zenon, OnlyAppend
<1>4. Only(su, S) = a \o b
  BY DEF Splits
<1> HIDE DEF a, b, su
<1>5. Only(Append(su, e), S) = IF e \in S THEN Append(Only(su, S), e) ELSE Only(su, S)
  BY Zenon, <1>1, OnlyAppend
<1>6. Append(a \o b, e) = a \o Append(b, e)
  <2> DEFINE l == Append(a \o b, e)
             r == a \o Append(b, e)
  <2>1. l \in Seq(T) /\ r \in Seq(T) /\ Len(l) = Len(r)
    BY <1>1
  <2>2. \A i \in 1 .. Len(l) : l[i] = r[i]
    BY <1>1
  <2> HIDE DEF l, r
  <2>3. l = r
    BY <2>1, <2>2, SeqEqual
  <2> QED
    BY <2>3 DEF l, r
<1>7. Only(s \o Append(u, e), S) = a \o Only(Append(u, e), S)
  BY Zenon, <1>2, <1>3, <1>4, <1>5, <1>6
<1> QED
  BY <1>7 DEF a, Splits

(* Choosing from a concatenation is choosing from its parts: what a decoder   *)
(* may rely on when a text comes in pieces.                                   *)
LEMMA OnlyConcat ==
    ASSUME NEW T, NEW s \in Seq(T), NEW t \in Seq(T), NEW S
    PROVE  Only(s \o t, S) = Only(s, S) \o Only(t, S)
<1> DEFINE N == Len(t)
           Bad == {n \in 0 .. N : ~Splits(s, SubSeq(t, 1, n), S)}
<1>1. N \in Nat /\ t = SubSeq(t, 1, N) /\ N \in 0 .. N
  BY SubSeqFull
<1> SUFFICES ASSUME Bad # {} PROVE FALSE
  <2>1. Splits(s, SubSeq(t, 1, N), S) => Splits(s, t, S)
    BY <1>1
  <2> HIDE DEF N
  <2>2. Splits(s, t, S)
    BY <1>1, <2>1
  <2> QED
    BY <2>2 DEF Splits
<1>2. PICK m \in Bad : \A n \in Bad : m <= n
  <2>1. Bad \in SUBSET Nat
    BY <1>1
  <2> HIDE DEF Bad
  <2> QED
    BY <2>1, Least
<1>3. Only(s, S) \in Seq(T)
  BY OnlyTyped
<1>4. CASE m = 0
  <2>1. SubSeq(t, 1, 0) = <<>>
    BY SubSeqEmpty
  <2>2. s \o <<>> = s /\ Only(s, S) \o <<>> = Only(s, S)
    BY <1>3, ConcatEmptySeq
  <2>3. Splits(s, <<>>, S)
    BY <2>2, OnlyEmpty DEF Splits
  <2> QED
    BY <1>2, <1>4, <2>1, <2>3
<1>5. CASE m \in 1 .. N
  <2> DEFINE u == SubSeq(t, 1, m - 1)
             e == t[m]
  <2>1. m - 1 \in 0 .. N /\ e \in T
    BY <1>1, <1>5
  <2>2. SubSeq(t, 1, m) = Append(u, e) /\ u \in Seq(T)
    BY <1>1, <1>5, <2>1
  <2>3. Splits(s, u, S)
    <3>1. m - 1 \notin Bad
      <4> HIDE DEF Bad
      <4> QED
        BY <1>1, <1>2, <1>5, <2>1
    <3> HIDE DEF N
    <3> QED
      BY <2>1, <3>1
  <2> HIDE DEF u, e
  <2>9. Splits(s, Append(u, e), S)
    BY Zenon, <2>1, <2>2, <2>3, OnlyConcatStep
  <2> QED
    BY <1>2, <2>2, <2>9
<1> QED
  BY <1>1, <1>2, <1>4, <1>5

-----------------------------------------------------------------------------
(* Bytes and characters *)

(* What was chosen was there. *)
LEMMA OnlyFrom ==
    ASSUME NEW T, NEW s \in Seq(T), NEW S, NEW i \in DOMAIN Only(s, S)
    PROVE  \E j \in DOMAIN s : s[j] = Only(s, S)[i]
<1> DEFINE R == {s[j] : j \in DOMAIN s}
<1>1. s \in Seq(R)
  <2>1. Len(s) \in Nat /\ s \in [1 .. Len(s) -> T] /\ DOMAIN s = 1 .. Len(s)
    BY LenProperties
  <2>2. s \in [1 .. Len(s) -> R]
    BY <2>1
  <2> QED
    BY <2>1, <2>2
<1> HIDE DEF R
<1>2. Only(s, S) \in Seq(R)
  BY <1>1, OnlyTyped
<1>3. Only(s, S)[i] \in R
  BY <1>2
<1> QED
  BY <1>3 DEF R

Closing == Byte \ {"x1"}

(* The characters of bytes none of which is a first half. *)
Wholes(s) == [i \in DOMAIN s |-> Whole(s[i])]

LEMMA CharsAre == ASSUME NEW bytes PROVE Chars(bytes) = Wholes(Only(bytes, Closing))
  BY DEF Chars, Wholes, Closing

LEMMA WholeTyped ==
    ASSUME NEW s \in Seq(Closing)
    PROVE  Wholes(s) \in Seq(Char) /\ Len(Wholes(s)) = Len(s) /\ DOMAIN Wholes(s) = DOMAIN s
<1>1. \A i \in DOMAIN s : Whole(s[i]) \in Char
  <2> SUFFICES ASSUME NEW i \in DOMAIN s PROVE Whole(s[i]) \in Char
    OBVIOUS
  <2>1. s[i] \in Closing
    OBVIOUS
  <2> QED
    BY <2>1 DEF Whole, Closing, Byte, Char
<1>2. Len(s) \in Nat /\ DOMAIN s = 1 .. Len(s)
  BY LenProperties
<1>3. Wholes(s) \in [1 .. Len(s) -> Char]
  BY <1>1, <1>2 DEF Wholes
<1> QED
  BY <1>2, <1>3

LEMMA CharsTyped ==
    ASSUME NEW bytes \in Seq(Byte)
    PROVE  Chars(bytes) \in Seq(Char)
<1>1. Only(bytes, Closing) \in Seq(Closing)
  BY OnlyTyped
<1> QED
  BY <1>1, WholeTyped, CharsAre

(* Bytes that come in two parts make the same characters. *)
LEMMA CharsConcat ==
    ASSUME NEW a \in Seq(Byte), NEW b \in Seq(Byte)
    PROVE  Chars(a \o b) = Chars(a) \o Chars(b)
<1> DEFINE x == Only(a, Closing)
           y == Only(b, Closing)
<1>1. x \in Seq(Closing)
  BY OnlyTyped
<1>2. y \in Seq(Closing)
  BY OnlyTyped
<1>3. Only(a \o b, Closing) = x \o y
  BY OnlyConcat
<1> HIDE DEF x, y
<1>4. Wholes(x \o y) = Wholes(x) \o Wholes(y)
  <2> DEFINE l == Wholes(x \o y)
             r == Wholes(x) \o Wholes(y)
  <2>1. x \o y \in Seq(Closing) /\ Len(x \o y) = Len(x) + Len(y)
    BY <1>1, <1>2
  <2>2. l \in Seq(Char) /\ Len(l) = Len(x) + Len(y)
    <3> DEFINE z == x \o y
    <3>1. z \in Seq(Closing) /\ Len(z) = Len(x) + Len(y)
      BY <2>1
    <3> HIDE DEF z
    <3>2. Wholes(z) \in Seq(Char) /\ Len(Wholes(z)) = Len(x) + Len(y)
      BY <3>1, WholeTyped
    <3> QED
      BY <3>2 DEF z
  <2>3. /\ Wholes(x) \in Seq(Char) /\ Len(Wholes(x)) = Len(x)
        /\ Wholes(y) \in Seq(Char) /\ Len(Wholes(y)) = Len(y)
    BY <1>1, <1>2, WholeTyped
  <2>4. r \in Seq(Char) /\ Len(r) = Len(x) + Len(y)
    BY <2>3
  <2>5. ASSUME NEW i \in 1 .. Len(x) + Len(y)
        PROVE  l[i] = r[i]
    <3>1. l[i] = Whole((x \o y)[i])
      BY <2>1, <2>5 DEF Wholes
    <3>2. CASE i <= Len(x)
      <4>1. r[i] = Wholes(x)[i] /\ (x \o y)[i] = x[i] /\ i \in DOMAIN x
        BY <1>1, <1>2, <2>3, <2>5, <3>2
      <4> QED
        BY <3>1, <4>1 DEF Wholes
    <3>3. CASE i > Len(x)
      <4>1. r[i] = Wholes(y)[i - Len(x)] /\ (x \o y)[i] = y[i - Len(x)] /\ i - Len(x) \in DOMAIN y
        BY <1>1, <1>2, <2>3, <2>5, <3>3
      <4> QED
        BY <3>1, <4>1 DEF Wholes
    <3>4. Len(x) \in Nat /\ Len(y) \in Nat
      BY <1>1, <1>2
    <3> HIDE DEF l, r
    <3> QED
      BY <2>5, <3>2, <3>3, <3>4
  <2> HIDE DEF l, r
  <2>6. l = r
    BY <2>2, <2>4, <2>5, SeqEqual
  <2> QED
    BY <2>6 DEF l, r
<1> QED
  BY <1>3, <1>4, CharsAre DEF x, y

(* The first half of a code point that an earlier chunk ended with changes    *)
(* nothing: it is its second half that counts.                                *)
LEMMA CharsOfHalf ==
    ASSUME NEW a \in Seq(Byte)
    PROVE  Chars(<<"x1">> \o a) = Chars(a)
<1>1. <<"x1">> \in Seq(Byte)
  BY DEF Byte
<1>2. Chars(<<"x1">> \o a) = Chars(<<"x1">>) \o Chars(a)
  BY <1>1, CharsConcat
<1>3. Only(<<"x1">>, Closing) = <<>>
  BY OnlyOne DEF Closing
<1>4. Chars(<<"x1">>) = <<>>
  BY <1>3, CharsAre DEF Wholes
<1>5. Chars(a) \in Seq(Char)
  BY CharsTyped
<1> QED
  BY <1>2, <1>4, <1>5, ConcatEmptySeq

LEMMA CharsOfNone == Chars(<<>>) = <<>>
  BY OnlyEmpty, CharsAre DEF Wholes

(* An end mark was received as one. *)
LEMMA EndWasReceived ==
    ASSUME NEW bytes \in Seq(Byte), NEW i \in DOMAIN Chars(bytes), Chars(bytes)[i] = "end"
    PROVE  \E j \in DOMAIN bytes : bytes[j] = "end"
<1> DEFINE s == Only(bytes, Closing)
<1>1. s \in Seq(Closing)
  BY OnlyTyped
<1>2. Chars(bytes) = Wholes(s)
  BY CharsAre
<1>3. i \in DOMAIN s /\ \E j \in DOMAIN bytes : bytes[j] = s[i]
  <2>1. i \in DOMAIN s
    BY <1>1, <1>2, WholeTyped
  <2> QED
    BY <2>1, OnlyFrom
<1> HIDE DEF s
<1>4. s[i] = "end"
  BY <1>2, <1>3 DEF Wholes, Whole
<1> QED
  BY <1>3, <1>4

-----------------------------------------------------------------------------
(* Lines *)

LineEnds == {"LF", "CR"}

(* Where the first line end is. *)
LEMMA LineEndIs ==
    ASSUME NEW text \in Seq(Char)
    PROVE  /\ LineEnd(text) \in 0 .. Len(text)
           /\ LineEnd(text) = 0 => \A i \in 1 .. Len(text) : text[i] \notin LineEnds
           /\ LineEnd(text) # 0 => /\ text[LineEnd(text)] \in LineEnds
                                   /\ \A j \in 1 .. LineEnd(text) - 1 : text[j] \notin LineEnds
<1> DEFINE ends == {i \in DOMAIN text : text[i] \in {"LF", "CR"}}
<1>1. LineEnd(text) = IF ends = {} THEN 0 ELSE CHOOSE i \in ends : \A j \in ends : i <= j
  BY DEF LineEnd
<1>2. DOMAIN text = 1 .. Len(text) /\ Len(text) \in Nat
  BY LenProperties
<1>3. CASE ends = {}
  BY <1>1, <1>2, <1>3 DEF LineEnds
<1>4. CASE ends # {}
  <2>1. ends \in SUBSET Nat
    BY <1>2
  <2> HIDE DEF ends
  <2>2. \E i \in ends : \A j \in ends : i <= j
    BY <1>4, <2>1, Least
  <2>3. LineEnd(text) \in ends /\ \A j \in ends : LineEnd(text) <= j
    BY <1>1, <1>4, <2>2
  <2>4. LineEnd(text) \in 1 .. Len(text) /\ text[LineEnd(text)] \in LineEnds
    BY <1>2, <2>3 DEF ends, LineEnds
  <2>5. ASSUME NEW j \in 1 .. LineEnd(text) - 1 PROVE text[j] \notin LineEnds
    <3>1. j \notin ends
      BY <2>3, <2>4
    <3> QED
      BY <1>2, <2>4, <3>1 DEF ends, LineEnds
  <2> QED
    BY <2>4, <2>5
<1> QED
  BY <1>3, <1>4

LEMMA DispatchTyped ==
    ASSUME NEW d \in Decoder
    PROVE  Dispatch(d) \in Decoder /\ Dispatch(d).text = d.text
<1>4. <<>> \in Seq(Seq(Char)) /\ TRUE \in BOOLEAN
  BY EmptySeq
<1>1. CASE d.lines = <<>>
  BY <1>1 DEF Dispatch
<1>2. CASE d.lines # <<>> /\ (Len(d.lines) > 1 \/ d.lines[1] \notin {<<e>> : e \in Event})
  <2>1. Dispatch(d) = [d EXCEPT !.lines = <<>>, !.failed = TRUE]
    BY <1>2 DEF Dispatch
  <2> QED
    BY <1>4, <2>1 DEF Decoder
<1>3. CASE d.lines # <<>> /\ ~(Len(d.lines) > 1 \/ d.lines[1] \notin {<<e>> : e \in Event})
  <2>1. PICK e \in Event : d.lines[1] = <<e>>
    BY <1>3
  <2>2. d.lines[1][1] = e
    BY <2>1
  <2>3. Dispatch(d) = [d EXCEPT !.lines = <<>>, !.events = Append(d.events, e),
                                !.complete = d.complete \/ e = "end"]
    BY <1>3, <2>2 DEF Dispatch
  <2>4. d.complete \in BOOLEAN /\ d.events \in Seq(Event)
    BY DEF Decoder
  <2>5. Append(d.events, e) \in Seq(Event) /\ (d.complete \/ e = "end") \in BOOLEAN
    BY <2>4
  <2> QED
    BY <1>4, <2>3, <2>5 DEF Decoder
<1> QED
  BY <1>1, <1>2, <1>3

LEMMA ProcessLineTyped ==
    ASSUME NEW d \in Decoder, NEW line \in Seq(Char)
    PROVE  ProcessLine(d, line) \in Decoder /\ ProcessLine(d, line).text = d.text
<1>1. CASE line = <<>>
  BY <1>1, DispatchTyped DEF ProcessLine
<1>2. CASE line # <<>>
  <2>1. ProcessLine(d, line) = [d EXCEPT !.lines = Append(d.lines, line)]
    BY <1>2 DEF ProcessLine
  <2>2. Append(d.lines, line) \in Seq(Seq(Char))
    BY AppendProperties DEF Decoder
  <2> QED
    BY <2>1, <2>2 DEF Decoder
<1> QED
  BY <1>1, <1>2

(* The first line of a decoder's text, what follows its line end, and the     *)
(* decoder once it has processed the line.                                    *)
LineOf(d) == SubSeq(d.text, 1, LineEnd(d.text) - 1)

RestOf(d) == After(d.text, LineEnd(d.text) + Width(d.text, LineEnd(d.text)) - 1)

Advance(d) == ProcessLine([d EXCEPT !.text = RestOf(d)], LineOf(d))

LEMMA LineAndRest ==
    ASSUME NEW text \in Seq(Char), NEW i \in 1 .. Len(text), i = LineEnd(text)
    PROVE  /\ Width(text, i) \in 1 .. 2 /\ i + Width(text, i) - 1 \in i .. Len(text)
           /\ SubSeq(text, 1, i - 1) \in Seq(Char) /\ Len(SubSeq(text, 1, i - 1)) = i - 1
           /\ After(text, i + Width(text, i) - 1) \in Seq(Char)
           /\ Len(After(text, i + Width(text, i) - 1)) = Len(text) - (i + Width(text, i) - 1)
<1>1. Len(text) \in Nat /\ Width(text, i) \in 1 .. 2 /\ i + Width(text, i) - 1 \in i .. Len(text)
  BY DEF Width
<1> DEFINE k == i + Width(text, i) - 1
<1>2. k \in i .. Len(text)
  BY <1>1
<1> HIDE DEF k
<1>3. After(text, k) \in Seq(Char) /\ Len(After(text, k)) = Len(text) - k
  <2>1. After(text, k) = SubSeq(text, k + 1, Len(text))
    BY DEF After
  <2>2. \A j \in k + 1 .. Len(text) : text[j] \in Char
    BY <1>1, <1>2
  <2>3. k + 1 \in Int /\ Len(text) \in Int
    BY <1>1, <1>2
  <2> QED
    BY <1>1, <1>2, <2>1, <2>2, <2>3, SubSeqProperties
<1>4. SubSeq(text, 1, i - 1) \in Seq(Char) /\ Len(SubSeq(text, 1, i - 1)) = i - 1
  <2>1. \A j \in 1 .. i - 1 : text[j] \in Char
    BY <1>1
  <2>2. 1 \in Int /\ i - 1 \in Int /\ i - 1 >= 0
    BY <1>1
  <2> QED
    BY <2>1, <2>2, SubSeqProperties
<1> QED
  BY <1>1, <1>3, <1>4 DEF k

LEMMA AdvanceTyped ==
    ASSUME NEW d \in Decoder, LineEnd(d.text) # 0
    PROVE  /\ Advance(d) \in Decoder
           /\ Advance(d).text = RestOf(d)
           /\ Len(RestOf(d)) < Len(d.text)
           /\ RestOf(d) \in Seq(Char) /\ LineOf(d) \in Seq(Char)
<1> DEFINE text == d.text
           i == LineEnd(text)
<1>1. text \in Seq(Char) /\ Len(text) \in Nat
  BY DEF Decoder
<1> HIDE DEF text
<1>2. i \in 1 .. Len(text)
  BY <1>1, LineEndIs DEF text
<1> HIDE DEF i
<1>3. /\ Width(text, i) \in 1 .. 2
      /\ SubSeq(text, 1, i - 1) \in Seq(Char)
      /\ After(text, i + Width(text, i) - 1) \in Seq(Char)
      /\ Len(After(text, i + Width(text, i) - 1)) = Len(text) - (i + Width(text, i) - 1)
  BY <1>1, <1>2, LineAndRest DEF i
<1>4. RestOf(d) \in Seq(Char) /\ LineOf(d) \in Seq(Char) /\ Len(RestOf(d)) < Len(d.text)
  BY <1>1, <1>2, <1>3 DEF RestOf, LineOf, i, text
<1>5. [d EXCEPT !.text = RestOf(d)] \in Decoder /\ [d EXCEPT !.text = RestOf(d)].text = RestOf(d)
  BY <1>4 DEF Decoder
<1> QED
  BY <1>4, <1>5, ProcessLineTyped DEF Advance

-----------------------------------------------------------------------------
(* Draining is defined by recursion: a function that follows it exists for    *)
(* texts of every length, and any two agree.                                  *)

(* Nothing, or nothing more, can be read from the decoder's text; a last line *)
(* without an end is left then, unless it is final.                           *)
Stuck(d, final) ==
    \/ d.failed
    \/ d.text = <<>>
    \/ LineEnd(d.text) # 0 /\ Waits(d.text, LineEnd(d.text), final)

Drained(f, d, final) ==
    IF Stuck(d, final) THEN d
    ELSE IF LineEnd(d.text) = 0
         THEN IF final THEN ProcessLine([d EXCEPT !.text = <<>>], d.text) ELSE d
    ELSE f[Advance(d)]

Draining(f, final) == [d \in Decoder |-> Drained(f, d, final)]

(* What LET hides in Drain. *)
LEMMA DrainChooses ==
    ASSUME NEW first, NEW final
    PROVE  Drain(first, final) = (CHOOSE f : f = Draining(f, final))[first]
<1> DEFINE F(f) ==
        [d \in Decoder |->
            LET i == LineEnd(d.text)
            IN  IF d.failed \/ d.text = <<>> THEN d
                ELSE IF i = 0
                     THEN IF final THEN ProcessLine([d EXCEPT !.text = <<>>], d.text) ELSE d
                ELSE IF Waits(d.text, i, final) THEN d
                ELSE f[ProcessLine(
                           [d EXCEPT !.text = After(d.text, i + Width(d.text, i) - 1)],
                           SubSeq(d.text, 1, i - 1))]]
<1>1. Drain(first, final) = (CHOOSE f : f = F(f))[first]
  BY Zenon DEF Drain
<1>2. ASSUME NEW f PROVE F(f) = Draining(f, final)
  <2>1. ASSUME NEW d \in Decoder
        PROVE  F(f)[d] = Drained(f, d, final)
    <3>1. CASE d.failed \/ d.text = <<>>
      BY <3>1 DEF Drained, Stuck
    <3>2. CASE ~(d.failed \/ d.text = <<>>) /\ LineEnd(d.text) = 0
      BY <3>2 DEF Drained, Stuck
    <3>3. CASE ~(d.failed \/ d.text = <<>>) /\ LineEnd(d.text) # 0
      BY <3>3 DEF Drained, Stuck, Advance, RestOf, LineOf
    <3> QED
      BY <3>1, <3>2, <3>3
  <2> QED
    BY <2>1 DEF Draining
<1> HIDE DEF F
<1>3. (CHOOSE f : f = F(f)) = (CHOOSE f : f = Draining(f, final))
  BY <1>2
<1> QED
  BY <1>1, <1>3

(* f drains every decoder with less than n characters of text. *)
Follows(f, final, n) ==
    \A d \in Decoder : Len(d.text) < n => f[d] = Drained(f, d, final)

Drains(f, final, n) == f \in [Decoder -> Decoder] /\ Follows(f, final, n)

Drainable(final, n) == \E f : Drains(f, final, n)

LEMMA TextLength ==
    ASSUME NEW d \in Decoder
    PROVE  Len(d.text) \in Nat
<1>1. d.text \in Seq(Char)
  BY DEF Decoder
<1> QED
  BY <1>1

LEMMA DrainedTyped ==
    ASSUME NEW f \in [Decoder -> Decoder], NEW d \in Decoder, NEW final
    PROVE  Drained(f, d, final) \in Decoder
<1>1. CASE Stuck(d, final)
  BY <1>1 DEF Drained
<1>2. CASE ~Stuck(d, final) /\ LineEnd(d.text) = 0
  <2>1. d.text \in Seq(Char) /\ [d EXCEPT !.text = <<>>] \in Decoder
    <3>1. <<>> \in Seq(Char)
      BY EmptySeq
    <3> QED
      BY <3>1 DEF Decoder
  <2>2. ProcessLine([d EXCEPT !.text = <<>>], d.text) \in Decoder
    BY <2>1, ProcessLineTyped
  <2> QED
    BY <1>2, <2>2 DEF Drained
<1>3. CASE ~Stuck(d, final) /\ LineEnd(d.text) # 0
  <2>1. Advance(d) \in Decoder
    BY <1>3, AdvanceTyped
  <2> QED
    BY <1>3, <2>1 DEF Drained
<1> QED
  BY <1>1, <1>2, <1>3

(* What a function drains depends only on what it drains of shorter texts. *)
LEMMA DrainedAgree ==
    ASSUME NEW f, NEW g, NEW d \in Decoder, NEW final,
           \A e \in Decoder : Len(e.text) < Len(d.text) => f[e] = g[e]
    PROVE  Drained(f, d, final) = Drained(g, d, final)
<1>1. CASE LineEnd(d.text) = 0
  BY <1>1 DEF Drained, Stuck
<1>2. CASE LineEnd(d.text) # 0
  <2>1. Advance(d) \in Decoder /\ Len(Advance(d).text) < Len(d.text)
    BY <1>2, AdvanceTyped
  <2>2. f[Advance(d)] = g[Advance(d)]
    BY <2>1
  <2> QED
    BY <1>2, <2>2 DEF Drained
<1> QED
  BY <1>1, <1>2

LEMMA DrainableStep ==
    ASSUME NEW final, NEW n \in Nat, Drainable(final, n)
    PROVE  Drainable(final, n + 1)
<1>1. PICK f : Drains(f, final, n)
  BY DEF Drainable
<1> DEFINE g == [d \in Decoder |-> Drained(f, d, final)]
<1>2. f \in [Decoder -> Decoder]
  BY <1>1 DEF Drains, Follows
<1>3. \A d \in Decoder : Drained(f, d, final) \in Decoder
  BY <1>2, DrainedTyped
<1>4. g \in [Decoder -> Decoder]
  BY <1>3
<1>5. ASSUME NEW d \in Decoder, Len(d.text) < n + 1
      PROVE  g[d] = Drained(g, d, final)
  <2>1. ASSUME NEW e \in Decoder, Len(e.text) < Len(d.text)
        PROVE  f[e] = g[e]
    <3>1. Len(e.text) < n
      BY <1>5, <2>1, TextLength
    <3> QED
      BY <1>1, <2>1, <3>1 DEF Drains, Follows
  <2>2. g[d] = Drained(f, d, final)
    OBVIOUS
  <2> HIDE DEF g
  <2> QED
    BY <2>1, <2>2, DrainedAgree
<1> HIDE DEF g
<1> QED
  BY <1>4, <1>5 DEF Drains, Follows, Drainable

(* For texts of every length: by the smallest one without such a function. *)
LEMMA AllDrainable ==
    ASSUME NEW final, NEW n \in Nat
    PROVE  Drainable(final, n)
<1> DEFINE Bad == {m \in Nat : ~Drainable(final, m)}
<1> SUFFICES ASSUME Bad # {} PROVE FALSE
  OBVIOUS
<1>1. PICK m \in Bad : \A k \in Bad : m <= k
  <2> HIDE DEF Bad
  <2>1. Bad \in SUBSET Nat
    BY DEF Bad
  <2> QED
    BY <2>1, Least
<1>2. Drainable(final, 0)
  <2> DEFINE i == [d \in Decoder |-> d]
  <2>1. i \in [Decoder -> Decoder]
    OBVIOUS
  <2>2. \A d \in Decoder : ~(Len(d.text) < 0)
    BY TextLength
  <2> HIDE DEF i
  <2> QED
    BY <2>1, <2>2 DEF Drains, Follows, Drainable
<1>3. m \in Nat \ {0}
  BY <1>1, <1>2
<1>4. m - 1 \in Nat /\ Drainable(final, m - 1)
  BY <1>1, <1>3
<1>5. Drainable(final, (m - 1) + 1)
  BY <1>4, DrainableStep
<1>6. (m - 1) + 1 = m
  BY <1>3
<1> QED
  BY <1>1, <1>5, <1>6

(* By the shortest text on which two of them differ. *)
LEMMA DrainsAgree ==
    ASSUME NEW final, NEW f, NEW g, NEW n \in Nat,
           Follows(f, final, n), Follows(g, final, n)
    PROVE  \A d \in Decoder : Len(d.text) < n => f[d] = g[d]
<1> DEFINE Differ(m) == \E d \in Decoder : Len(d.text) = m /\ f[d] # g[d]
           Bad == {m \in 0 .. n - 1 : Differ(m)}
<1>1. CASE Bad = {}
  <2>1. ASSUME NEW d \in Decoder, Len(d.text) < n PROVE f[d] = g[d]
    <3>1. Len(d.text) \in 0 .. n - 1
      BY <2>1, TextLength
    <3>2. ~Differ(Len(d.text))
      <4> HIDE DEF Differ
      <4> QED
        BY <1>1, <3>1
    <3> QED
      BY <3>2
  <2> QED
    BY <2>1
<1>2. CASE Bad # {}
  <2>1. PICK m \in Bad : \A k \in Bad : m <= k
    <3>1. Bad \in SUBSET Nat
      OBVIOUS
    <3> HIDE DEF Bad
    <3> QED
      BY <1>2, <3>1, Least
  <2>2. m \in 0 .. n - 1 /\ Differ(m)
    BY <2>1
  <2>3. PICK d \in Decoder : Len(d.text) = m /\ f[d] # g[d]
    BY <2>2
  <2>4. ASSUME NEW e \in Decoder, Len(e.text) < Len(d.text) PROVE f[e] = g[e]
    <3>1. Len(e.text) \in 0 .. n - 1 /\ ~(m <= Len(e.text))
      BY <2>2, <2>3, <2>4, TextLength
    <3>2. ~Differ(Len(e.text))
      <4> HIDE DEF Differ
      <4> QED
        BY <2>1, <3>1
    <3> QED
      BY <3>2
  <2>5. Drained(f, d, final) = Drained(g, d, final)
    BY <2>4, DrainedAgree
  <2>6. f[d] = Drained(f, d, final) /\ g[d] = Drained(g, d, final)
    BY <2>2, <2>3 DEF Drains, Follows
  <2> QED
    BY <2>3, <2>5, <2>6
<1> QED
  BY <1>1, <1>2

(* A draining function for texts of every length. *)
LEMMA DrainingExists ==
    ASSUME NEW final
    PROVE  \E h \in [Decoder -> Decoder] : h = Draining(h, final)
<1> DEFINE F(n) == CHOOSE f : Drains(f, final, n)
           h == [d \in Decoder |-> F(Len(d.text) + 1)[d]]
<1>1. ASSUME NEW n \in Nat PROVE Drains(F(n), final, n)
  <2>1. \E f : Drains(f, final, n)
    BY AllDrainable DEF Drainable
  <2> QED
    BY <2>1
<1> HIDE DEF F
<1>2. \A d \in Decoder : F(Len(d.text) + 1) \in [Decoder -> Decoder]
  BY <1>1, TextLength DEF Drains, Follows
<1>3. h \in [Decoder -> Decoder]
  BY <1>2
<1>4. ASSUME NEW d \in Decoder
      PROVE  h[d] = Drained(h, d, final)
  <2> DEFINE n == Len(d.text) + 1
  <2>1. n \in Nat /\ Drains(F(n), final, n)
    BY <1>1, TextLength
  <2>2. F(n)[d] = Drained(F(n), d, final)
    BY <2>1, TextLength DEF Drains, Follows
  <2>3. ASSUME NEW e \in Decoder, Len(e.text) < Len(d.text)
        PROVE  F(n)[e] = h[e]
    <3> DEFINE m == Len(e.text) + 1
    <3>1. m \in Nat /\ m < n
      BY <2>3, TextLength
    <3>2. Drains(F(m), final, m)
      BY <1>1, <3>1
    <3>3. Drains(F(n), final, m)
      BY <2>1, <3>1, TextLength DEF Drains, Follows
    <3>4. Len(e.text) < m
      BY TextLength
    <3>5. h[e] = F(m)[e]
      OBVIOUS
    <3> HIDE DEF m, h
    <3>6. F(m)[e] = F(n)[e]
      BY <3>1, <3>2, <3>3, <3>4, DrainsAgree DEF Drains
    <3> QED
      BY <3>5, <3>6
  <2>4. h[d] = F(n)[d]
    OBVIOUS
  <2> HIDE DEF h, n
  <2>5. Drained(F(n), d, final) = Drained(h, d, final)
    BY <2>3, DrainedAgree
  <2> QED
    BY <2>2, <2>4, <2>5
<1>5. h = [d \in Decoder |-> h[d]]
  OBVIOUS
<1> HIDE DEF h
<1>6. h = Draining(h, final)
  BY <1>4, <1>5 DEF Draining
<1> QED
  BY <1>3, <1>6

(* Drain processes one line and then what is left of the text. *)
LEMMA DrainStep ==
    ASSUME NEW d \in Decoder, NEW final
    PROVE  /\ Drain(d, final) \in Decoder
           /\ Stuck(d, final) => Drain(d, final) = d
           /\ ~Stuck(d, final) /\ LineEnd(d.text) = 0 =>
                 Drain(d, final) =
                    IF final THEN ProcessLine([d EXCEPT !.text = <<>>], d.text) ELSE d
           /\ ~Stuck(d, final) /\ LineEnd(d.text) # 0 =>
                 Drain(d, final) = Drain(Advance(d), final)
<1> DEFINE C == CHOOSE f : f = Draining(f, final)
<1>1. C = Draining(C, final)
  <2>1. \E f : f = Draining(f, final)
    BY DrainingExists
  <2> QED
    BY <2>1
<1>2. \A e : Drain(e, final) = C[e]
  BY DrainChooses
<1> HIDE DEF C
<1>3. \A e \in Decoder : C[e] = Drained(C, e, final)
  BY <1>1 DEF Draining
<1>4. Drain(d, final) = Drained(C, d, final)
  BY <1>2, <1>3
<1>5. Drain(d, final) \in Decoder
  <2>1. PICK h \in [Decoder -> Decoder] : h = Draining(h, final)
    BY DrainingExists
  <2>2. \A e \in Decoder : h[e] = Drained(h, e, final)
    BY <2>1 DEF Draining
  <2> DEFINE n == Len(d.text) + 1
  <2>3. n \in Nat /\ Len(d.text) < n
    BY TextLength
  <2> HIDE DEF n
  <2>4. Follows(h, final, n) /\ Follows(C, final, n)
    BY <1>3, <2>2 DEF Follows
  <2>5. C[d] = h[d]
    BY <2>3, <2>4, DrainsAgree
  <2> QED
    BY <1>2, <2>1, <2>5
<1>6. CASE Stuck(d, final)
  BY <1>4, <1>5, <1>6 DEF Drained
<1>7. CASE ~Stuck(d, final) /\ LineEnd(d.text) = 0
  BY <1>4, <1>5, <1>7 DEF Drained
<1>8. CASE ~Stuck(d, final) /\ LineEnd(d.text) # 0
  BY <1>2, <1>4, <1>5, <1>8 DEF Drained
<1> QED
  BY <1>6, <1>7, <1>8

-----------------------------------------------------------------------------
(* What a text says, as it grows *)

(* What the first n characters of a text say. *)
Says(T, n) == Only(SubSeq(T, 1, n), Content)

(* Nothing is chosen where there is nothing to choose. *)
LEMMA OnlyNone ==
    ASSUME NEW T, NEW s \in Seq(T), NEW S, \A i \in 1 .. Len(s) : s[i] \notin S
    PROVE  Only(s, S) = <<>>
<1> DEFINE o == Only(s, S)
<1>1. o \in Seq(S)
  BY OnlyTyped
<1>2. \A i \in DOMAIN o : \E j \in DOMAIN s : s[j] = o[i]
  BY OnlyFrom
<1>3. DOMAIN s = 1 .. Len(s)
  BY LenProperties
<1> HIDE DEF o
<1>4. Len(o) \in Nat /\ DOMAIN o = 1 .. Len(o)
  BY <1>1
<1>5. Len(o) = 0
  <2> SUFFICES ASSUME Len(o) # 0 PROVE FALSE
    OBVIOUS
  <2>1. 1 \in DOMAIN o /\ o[1] \in S
    BY <1>1, <1>4
  <2> QED
    BY <1>2, <1>3, <2>1
<1>6. o = <<>>
  BY <1>1, <1>5, EmptySeq
<1> QED
  BY <1>6 DEF o

(* A part of a text, by its positions. *)
LEMMA Parts ==
    ASSUME NEW T \in Seq(Char), NEW k \in 0 .. Len(T), NEW m \in k .. Len(T)
    PROVE  /\ SubSeq(T, k + 1, m) \in Seq(Char)
           /\ Len(SubSeq(T, k + 1, m)) = m - k
           /\ \A i \in 1 .. m - k : SubSeq(T, k + 1, m)[i] = T[k + i]
<1>1. Len(T) \in Nat /\ \A i \in k + 1 .. m : T[i] \in Char
  OBVIOUS
<1>2. k + 1 \in Int /\ m \in Int
  BY <1>1
<1>3. /\ SubSeq(T, k + 1, m) \in Seq(Char)
      /\ Len(SubSeq(T, k + 1, m)) = IF k + 1 <= m THEN m - (k + 1) + 1 ELSE 0
      /\ \A i \in 1 .. m - (k + 1) + 1 : SubSeq(T, k + 1, m)[i] = T[k + 1 + i - 1]
  BY <1>1, <1>2, SubSeqProperties
<1>4. m - (k + 1) + 1 = m - k /\ (k + 1 <= m \/ m - k = 0)
  BY <1>1
<1>5. \A i \in 1 .. m - k : k + 1 + i - 1 = k + i
  BY <1>1
<1> QED
  BY <1>3, <1>4, <1>5

(* What a longer text says begins with what a shorter one says. *)
LEMMA SaysMore ==
    ASSUME NEW T \in Seq(Char), NEW k \in 0 .. Len(T), NEW m \in k .. Len(T)
    PROVE  /\ Says(T, k) \in Seq(Content)
           /\ Says(T, m) = Says(T, k) \o Only(SubSeq(T, k + 1, m), Content)
<1> DEFINE a == SubSeq(T, 1, k)
           b == SubSeq(T, k + 1, m)
<1>1. b \in Seq(Char)
  BY Parts
<1>2. a \in Seq(Char)
  <2>1. 0 \in 0 .. Len(T) /\ k \in 0 .. Len(T) /\ 0 + 1 = 1
    OBVIOUS
  <2> QED
    BY <2>1, Parts
<1>3. a \o b = SubSeq(T, 1, m)
  <2>1. 1 \in 1 .. Len(T) + 1 /\ k \in 1 - 1 .. Len(T) /\ m \in k .. Len(T)
    OBVIOUS
  <2> QED
    BY <2>1, ConcatAdjacentSubSeq
<1> HIDE DEF a, b
<1>4. Only(a \o b, Content) = Only(a, Content) \o Only(b, Content)
  BY <1>1, <1>2, OnlyConcat
<1>5. Only(a, Content) \in Seq(Content)
  BY <1>2, OnlyTyped
<1> QED
  BY <1>3, <1>4, <1>5 DEF Says, a, b

(* Line ends say nothing. *)
LEMMA SaysNoMore ==
    ASSUME NEW T \in Seq(Char), NEW k \in 0 .. Len(T), NEW m \in k .. Len(T),
           \A i \in k + 1 .. m : T[i] \in LineEnds
    PROVE  Says(T, m) = Says(T, k)
<1> DEFINE b == SubSeq(T, k + 1, m)
<1>1. b \in Seq(Char) /\ Len(b) = m - k /\ \A i \in 1 .. m - k : b[i] = T[k + i]
  BY Parts
<1>2. \A i \in 1 .. Len(b) : b[i] \notin Content
  <2> SUFFICES ASSUME NEW i \in 1 .. Len(b) PROVE b[i] \notin Content
    OBVIOUS
  <2>1. b[i] = T[k + i] /\ k + i \in k + 1 .. m
    BY <1>1
  <2> HIDE DEF b
  <2> QED
    BY <2>1 DEF LineEnds, Content
<1>3. Says(T, m) = Says(T, k) \o Only(b, Content) /\ Says(T, k) \in Seq(Content)
  BY SaysMore
<1> HIDE DEF b
<1>4. Only(b, Content) = <<>>
  BY <1>1, <1>2, OnlyNone
<1> QED
  BY <1>3, <1>4, ConcatEmptySeq

LastOf(E) == CHOOSE i \in E : \A j \in E : j <= i

SaysTo(T, E) == IF E = {} THEN <<>> ELSE Says(T, LastOf(E))

EventEnds(T, n) == {i \in 1 .. n : EndsEvent(T, i)}

LEMMA UptoIs == ASSUME NEW T, NEW n PROVE ContentUpto(T, n) = SaysTo(T, EventEnds(T, n))
  BY Zenon DEF ContentUpto, SaysTo, EventEnds, LastOf, Says

LEMMA LastIs ==
    ASSUME NEW E, NEW p \in E, E \subseteq Nat, \A j \in E : j <= p
    PROVE  LastOf(E) = p
<1>1. \E i \in E : \A j \in E : j <= i
  OBVIOUS
<1>2. LastOf(E) \in E /\ \A j \in E : j <= LastOf(E)
  BY <1>1 DEF LastOf
<1>3. LastOf(E) \in Nat /\ p \in Nat /\ LastOf(E) <= p /\ p <= LastOf(E)
  BY <1>2
<1> QED
  BY <1>3

LEMMA HasLast ==
    ASSUME NEW k \in Nat, NEW E \in SUBSET (1 .. k), E # {}
    PROVE  LastOf(E) \in E
<1> DEFINE B == {k - i : i \in E}
<1>1. B \in SUBSET Nat /\ B # {}
  <2>1. \A i \in E : k - i \in Nat
    OBVIOUS
  <2>2. PICK e \in E : TRUE
    OBVIOUS
  <2>3. k - e \in B
    OBVIOUS
  <2> QED
    BY <2>1, <2>3
<1>2. PICK b \in B : \A a \in B : b <= a
  <2> HIDE DEF B
  <2> QED
    BY <1>1, Least
<1>3. PICK i \in E : b = k - i
  OBVIOUS
<1>4. ASSUME NEW j \in E PROVE j <= i
  <2>1. k - j \in B
    OBVIOUS
  <2>2. b <= k - j
    BY <1>2, <2>1
  <2> QED
    BY <1>3, <2>2
<1>5. \E l \in E : \A j \in E : j <= l
  BY <1>4
<1> QED
  BY <1>5 DEF LastOf

(* Until another event ends, no more is to be returned. *)
LEMMA UptoSame ==
    ASSUME NEW T \in Seq(Char), NEW k \in 0 .. Len(T), NEW m \in k .. Len(T),
           \A i \in k + 1 .. m : ~EndsEvent(T, i)
    PROVE  ContentUpto(T, m) = ContentUpto(T, k)
<1>1. EventEnds(T, m) = EventEnds(T, k)
  BY DEF EventEnds
<1> QED
  BY <1>1, UptoIs

(* When one ends, all that was said before it is. *)
LEMMA UptoEnd ==
    ASSUME NEW T \in Seq(Char), NEW p \in 1 .. Len(T), NEW m \in p .. Len(T),
           EndsEvent(T, p), \A i \in p + 1 .. m : ~EndsEvent(T, i)
    PROVE  ContentUpto(T, m) = Says(T, p)
<1>1. /\ p \in EventEnds(T, m) /\ EventEnds(T, m) \subseteq Nat
      /\ \A j \in EventEnds(T, m) : j <= p
  BY DEF EventEnds
<1>2. LastOf(EventEnds(T, m)) = p
  BY <1>1, LastIs
<1> QED
  BY <1>1, <1>2, UptoIs DEF SaysTo

(* What is appended to a text does not change what its beginning says. *)
LEMMA UptoExtends ==
    ASSUME NEW T \in Seq(Char), NEW U \in Seq(Char), NEW k \in 0 .. Len(T)
    PROVE  /\ ContentUpto(T \o U, k) = ContentUpto(T, k)
           /\ Says(T \o U, k) = Says(T, k)
<1> DEFINE V == T \o U
<1>1. V \in Seq(Char) /\ Len(V) >= Len(T) /\ Len(V) \in Nat /\ \A i \in 1 .. Len(T) : V[i] = T[i]
  OBVIOUS
<1> HIDE DEF V
<1>2. ASSUME NEW i \in 0 .. k PROVE SubSeq(V, 1, i) = SubSeq(T, 1, i)
  <2>1. /\ SubSeq(T, 0 + 1, i) \in Seq(Char) /\ Len(SubSeq(T, 0 + 1, i)) = i - 0
        /\ \A j \in 1 .. i - 0 : SubSeq(T, 0 + 1, i)[j] = T[0 + j]
    <3>1. 0 \in 0 .. Len(T) /\ i \in 0 .. Len(T)
      BY <1>2
    <3> QED
      BY <3>1, Parts
  <2>2. /\ SubSeq(V, 0 + 1, i) \in Seq(Char) /\ Len(SubSeq(V, 0 + 1, i)) = i - 0
        /\ \A j \in 1 .. i - 0 : SubSeq(V, 0 + 1, i)[j] = V[0 + j]
    <3>1. 0 \in 0 .. Len(V) /\ i \in 0 .. Len(V)
      BY <1>1, <1>2
    <3> QED
      BY <1>1, <3>1, Parts
  <2>3. \A j \in 1 .. i : V[0 + j] = T[0 + j]
    BY <1>1, <1>2
  <2>4. 0 + 1 = 1 /\ i - 0 = i
    OBVIOUS
  <2> QED
    BY <2>1, <2>2, <2>3, <2>4, SeqEqual
<1>3. ASSUME NEW i \in 1 .. k PROVE EndsEvent(V, i) = EndsEvent(T, i)
  <2>1. V[i] = T[i] /\ (i > 1 => V[i - 1] = T[i - 1])
    BY <1>1, <1>3
  <2> QED
    BY <2>1 DEF EndsEvent
<1>4. EventEnds(V, k) = EventEnds(T, k) /\ EventEnds(T, k) \in SUBSET (1 .. k)
  BY <1>3 DEF EventEnds
<1>5. SaysTo(V, EventEnds(T, k)) = SaysTo(T, EventEnds(T, k))
  <2>1. CASE EventEnds(T, k) = {}
    BY <2>1 DEF SaysTo
  <2>2. CASE EventEnds(T, k) # {}
    <3>1. LastOf(EventEnds(T, k)) \in 0 .. k
      <4>1. k \in Nat
        OBVIOUS
      <4>2. LastOf(EventEnds(T, k)) \in EventEnds(T, k)
        BY <1>4, <2>2, <4>1, HasLast
      <4>3. LastOf(EventEnds(T, k)) \in 1 .. k
        BY <1>4, <4>2
      <4> QED
        BY <4>3
    <3>2. Says(V, LastOf(EventEnds(T, k))) = Says(T, LastOf(EventEnds(T, k)))
      BY <1>2, <3>1 DEF Says
    <3> QED
      BY <2>2, <3>2 DEF SaysTo
  <2> QED
    BY <2>1, <2>2
<1>6. k \in 0 .. k
  OBVIOUS
<1> QED
  BY <1>2, <1>4, <1>5, <1>6, UptoIs DEF Says, V

-----------------------------------------------------------------------------
(* What is said and not yet an event *)

(* What was said by the events decoded so far, c being what earlier calls     *)
(* returned.                                                                  *)
Out(d, c) == c \o Only(d.events, Content)

(* The lines processed so far say s, of which one data line is still to come. *)
(* With more of them, the event they make is malformed.                       *)
Owes(s, d, c) ==
    /\ d.lines = <<>> => s = Out(d, c)
    /\ Len(d.lines) = 1 => s = Out(d, c) \o Only(d.lines[1], Content)

HasEnd(T) == \E k \in DOMAIN T : T[k] = "end"

(* A decoder says complete only of a text that has an end mark. *)
EndKnown(T, d) ==
    d.complete \/ (\E i \in DOMAIN d.lines : \E j \in DOMAIN d.lines[i] : d.lines[i][j] = "end")
        => HasEnd(T)

LEMMA OutTyped ==
    ASSUME NEW d \in Decoder, NEW c \in Seq(Content)
    PROVE  Out(d, c) \in Seq(Content)
<1>1. d.events \in Seq(Event)
  BY DEF Decoder
<1>2. Only(d.events, Content) \in Seq(Content)
  BY <1>1, OnlyTyped
<1> QED
  BY <1>2, ConcatProperties DEF Out

(* An empty line makes an event of the data line before it, or fails. *)
LEMMA DispatchOwes ==
    ASSUME NEW d \in Decoder, NEW c \in Seq(Content), NEW s, NEW T,
           ~d.failed, Owes(s, d, c), EndKnown(T, d), ~Dispatch(d).failed
    PROVE  /\ Dispatch(d).lines = <<>>
           /\ Out(Dispatch(d), c) = s
           /\ EndKnown(T, Dispatch(d))
<1>1. CASE d.lines = <<>>
  BY <1>1 DEF Dispatch, Owes
<1>2. CASE d.lines # <<>> /\ (Len(d.lines) > 1 \/ d.lines[1] \notin {<<e>> : e \in Event})
  <2>1. Dispatch(d) = [d EXCEPT !.lines = <<>>, !.failed = TRUE]
    BY <1>2 DEF Dispatch
  <2>2. Dispatch(d).failed = TRUE
    BY <2>1 DEF Decoder
  <2> QED
    BY <2>2
<1>3. CASE d.lines # <<>> /\ ~(Len(d.lines) > 1 \/ d.lines[1] \notin {<<e>> : e \in Event})
  <2>1. PICK e \in Event : d.lines[1] = <<e>>
    BY <1>3
  <2>2. d.lines[1][1] = e /\ DOMAIN d.lines[1] = {1}
    BY <2>1
  <2>3. Dispatch(d) = [d EXCEPT !.lines = <<>>, !.events = Append(d.events, e),
                                !.complete = d.complete \/ e = "end"]
    BY <1>3, <2>2 DEF Dispatch
  <2>4. /\ Dispatch(d).lines = <<>> /\ Dispatch(d).events = Append(d.events, e)
        /\ Dispatch(d).complete <=> d.complete \/ e = "end"
    BY <2>3 DEF Decoder
  <2>5. d.lines \in Seq(Seq(Char)) /\ Len(d.lines) = 1 /\ DOMAIN d.lines = {1}
    <3>1. d.lines \in Seq(Seq(Char))
      BY DEF Decoder
    <3>2. Len(d.lines) \in Nat /\ Len(d.lines) # 0 /\ DOMAIN d.lines = 1 .. Len(d.lines)
      BY <1>3, <3>1
    <3> QED
      BY <1>3, <3>1, <3>2
  <2>6. s = Out(d, c) \o Only(<<e>>, Content)
    BY <2>1, <2>5 DEF Owes
  <2>7. Out(Dispatch(d), c) = s
    <3> DEFINE o == Only(d.events, Content)
    <3>1. d.events \in Seq(Event)
      BY DEF Decoder
    <3>2. o \in Seq(Content)
      BY <3>1, OnlyTyped
    <3>3. Only(Append(d.events, e), Content) = IF e \in Content THEN Append(o, e) ELSE o
      BY <3>1, OnlyAppend
    <3>4. Only(<<e>>, Content) = IF e \in Content THEN <<e>> ELSE <<>>
      BY OnlyOne
    <3> HIDE DEF o
    <3>5. CASE e \in Content
      <4>1. c \o Append(o, e) = (c \o o) \o <<e>>
        <5> DEFINE l == c \o Append(o, e)
                   r == (c \o o) \o <<e>>
        <5>1. l \in Seq(Content) /\ r \in Seq(Content) /\ Len(l) = Len(r)
          BY <3>2, <3>5
        <5>2. \A i \in 1 .. Len(l) : l[i] = r[i]
          BY <3>2, <3>5
        <5> HIDE DEF l, r
        <5>3. l = r
          BY <5>1, <5>2, SeqEqual
        <5> QED
          BY <5>3 DEF l, r
      <4>2. Only(Append(d.events, e), Content) = Append(o, e) /\ Only(<<e>>, Content) = <<e>>
        BY <3>3, <3>4, <3>5
      <4>3. Out(Dispatch(d), c) = c \o Append(o, e)
        BY Zenon, <2>4, <4>2 DEF Out
      <4>4. s = (c \o o) \o <<e>>
        BY Zenon, <2>6, <4>2 DEF Out, o
      <4> QED
        BY Zenon, <4>1, <4>3, <4>4
    <3>6. CASE e \notin Content
      <4>1. c \o o \in Seq(Content)
        BY <3>2, ConcatProperties
      <4>2. (c \o o) \o <<>> = c \o o
        BY <4>1, ConcatEmptySeq
      <4>3. Only(Append(d.events, e), Content) = o /\ Only(<<e>>, Content) = <<>>
        BY <3>3, <3>4, <3>6
      <4>4. Out(Dispatch(d), c) = c \o o
        BY Zenon, <2>4, <4>3 DEF Out
      <4>5. s = (c \o o) \o <<>>
        BY Zenon, <2>6, <4>3 DEF Out, o
      <4> QED
        BY Zenon, <4>2, <4>4, <4>5
    <3> QED
      BY <3>5, <3>6
  <2>8. EndKnown(T, Dispatch(d))
    BY <2>2, <2>4, <2>5 DEF EndKnown
  <2> QED
    BY <2>4, <2>7, <2>8
<1> QED
  BY <1>1, <1>2, <1>3

(* A data line is owed until an empty line comes. *)
LEMMA LineOwes ==
    ASSUME NEW d \in Decoder, NEW c \in Seq(Content), NEW s, NEW T,
           ~d.failed, Owes(s, d, c), EndKnown(T, d),
           NEW line \in Seq(Char), line # <<>>,
           (\E j \in DOMAIN line : line[j] = "end") => HasEnd(T)
    PROVE  /\ ~ProcessLine(d, line).failed
           /\ Out(ProcessLine(d, line), c) = Out(d, c)
           /\ Owes(s \o Only(line, Content), ProcessLine(d, line), c)
           /\ EndKnown(T, ProcessLine(d, line))
<1> DEFINE e == ProcessLine(d, line)
<1>1. e = [d EXCEPT !.lines = Append(d.lines, line)]
  BY DEF ProcessLine
<1>2. /\ e.lines = Append(d.lines, line) /\ e.events = d.events
      /\ (e.complete <=> d.complete) /\ (e.failed <=> d.failed)
  BY <1>1 DEF Decoder
<1> HIDE DEF e
<1>3. d.lines \in Seq(Seq(Char)) /\ Len(d.lines) \in Nat
  <2>1. d.lines \in Seq(Seq(Char))
    BY DEF Decoder
  <2> QED
    BY <2>1
<1>4. /\ e.lines \in Seq(Seq(Char)) /\ e.lines # <<>> /\ Len(e.lines) = Len(d.lines) + 1
      /\ \A i \in 1 .. Len(d.lines) : e.lines[i] = d.lines[i]
      /\ e.lines[Len(d.lines) + 1] = line
  <2> DEFINE S == Seq(Char)
             ls == d.lines
  <2>1. ls \in Seq(S) /\ line \in S
    BY <1>3
  <2> HIDE DEF S, ls
  <2>2. /\ Append(ls, line) \in Seq(S) /\ Append(ls, line) # <<>>
        /\ Len(Append(ls, line)) = Len(ls) + 1
        /\ \A i \in 1 .. Len(ls) : Append(ls, line)[i] = ls[i]
        /\ Append(ls, line)[Len(ls) + 1] = line
    BY <2>1, AppendProperties
  <2> QED
    BY <1>2, <2>2 DEF S, ls
<1>5. Out(e, c) = Out(d, c)
  BY <1>2 DEF Out
<1>6. Owes(s \o Only(line, Content), e, c)
  <2> SUFFICES ASSUME Len(e.lines) = 1
               PROVE  s \o Only(line, Content) = Out(e, c) \o Only(e.lines[1], Content)
    BY <1>4 DEF Owes
  <2>1. Len(d.lines) = 0
    BY <1>3, <1>4
  <2>2. d.lines = <<>> /\ e.lines[1] = line
    BY <1>3, <1>4, <2>1, EmptySeq
  <2> QED
    BY <1>5, <2>2 DEF Owes
<1>7. EndKnown(T, e)
  <2> SUFFICES ASSUME e.complete \/ (\E i \in DOMAIN e.lines :
                         \E j \in DOMAIN e.lines[i] : e.lines[i][j] = "end")
               PROVE  HasEnd(T)
    BY DEF EndKnown
  <2>1. CASE e.complete
    BY <1>2, <2>1 DEF EndKnown
  <2>2. CASE \E i \in DOMAIN e.lines : \E j \in DOMAIN e.lines[i] : e.lines[i][j] = "end"
    <3>1. PICK i \in DOMAIN e.lines : \E j \in DOMAIN e.lines[i] : e.lines[i][j] = "end"
      BY <2>2
    <3>2. i \in 1 .. Len(d.lines) + 1 /\ DOMAIN d.lines = 1 .. Len(d.lines)
      BY <1>3, <1>4
    <3>3. CASE i \in 1 .. Len(d.lines)
      BY <1>4, <3>1, <3>2, <3>3 DEF EndKnown
    <3>4. CASE i = Len(d.lines) + 1
      BY <1>4, <3>1, <3>4
    <3> QED
      BY <1>3, <3>2, <3>3, <3>4
  <2> QED
    BY <2>1, <2>2
<1> QED
  BY <1>2, <1>5, <1>6, <1>7 DEF e

-----------------------------------------------------------------------------
(* Where a decoder is in its text *)

(* How many characters of T the decoder has taken lines from. *)
At(T, d) == Len(T) - Len(d.text)

(* The decoder d has read T up to At(T, d), where a line ended. *)
Reading(T, d, c) ==
    /\ d \in Decoder /\ ~d.failed
    /\ Len(d.text) <= Len(T)
    /\ d.text = SubSeq(T, At(T, d) + 1, Len(T))
    /\ Out(d, c) = ContentUpto(T, At(T, d))
    /\ Owes(Says(T, At(T, d)), d, c)
    /\ EndKnown(T, d)
    /\ At(T, d) > 0 => T[At(T, d)] \in LineEnds
    /\ At(T, d) > 0 /\ T[At(T, d)] = "CR" /\ At(T, d) < Len(T) => T[At(T, d) + 1] # "LF"

(* A CR was not taken for a line end before it was known what follows.        *)
Settled(T, d) == At(T, d) > 0 /\ T[At(T, d)] = "CR" => At(T, d) < Len(T)

(* Where the first line end of the text is, and where the line after starts.  *)
EndAt(T, d) == At(T, d) + LineEnd(d.text)

NextAt(T, d) == At(T, d) + LineEnd(d.text) + Width(d.text, LineEnd(d.text)) - 1

(* The text of the decoder, in terms of the text as a whole. *)
LEMMA Positions ==
    ASSUME NEW T \in Seq(Char), NEW d \in Decoder, Len(d.text) <= Len(T),
           d.text = SubSeq(T, At(T, d) + 1, Len(T))
    PROVE  /\ At(T, d) \in 0 .. Len(T) /\ Len(d.text) = Len(T) - At(T, d) /\ Len(T) \in Nat
           /\ d.text \in Seq(Char)
           /\ \A j \in 1 .. Len(d.text) : d.text[j] = T[At(T, d) + j]
           /\ LineEnd(d.text) = 0 => \A j \in At(T, d) + 1 .. Len(T) : T[j] \notin LineEnds
           /\ LineEnd(d.text) # 0 =>
                 \A j \in At(T, d) + 1 .. EndAt(T, d) - 1 : T[j] \notin LineEnds
<1> DEFINE k == At(T, d)
           n == Len(T)
           t == d.text
<1>1. t \in Seq(Char) /\ Len(t) \in Nat /\ n \in Nat
  <2>1. t \in Seq(Char)
    BY DEF Decoder
  <2> HIDE DEF t
  <2> QED
    BY <2>1
<1>2. k \in 0 .. n /\ Len(t) = n - k
  BY <1>1 DEF At
<1>3. \A j \in 1 .. Len(t) : t[j] = T[k + j]
  <2>1. n \in k .. Len(T)
    BY <1>1, <1>2
  <2>2. \A j \in 1 .. n - k : SubSeq(T, k + 1, n)[j] = T[k + j]
    <3> HIDE DEF n, k
    <3> QED
      BY <1>2, <2>1, Parts DEF n
  <2> QED
    BY <1>2, <2>2
<1> HIDE DEF t, n, k
<1>4. /\ LineEnd(t) \in 0 .. Len(t)
      /\ LineEnd(t) = 0 => \A j \in 1 .. Len(t) : t[j] \notin LineEnds
      /\ LineEnd(t) # 0 => \A j \in 1 .. LineEnd(t) - 1 : t[j] \notin LineEnds
  BY <1>1, LineEndIs
<1>5. ASSUME NEW m \in 0 .. Len(t), \A j \in 1 .. m : t[j] \notin LineEnds
      PROVE  \A j \in k + 1 .. k + m : T[j] \notin LineEnds
  <2> SUFFICES ASSUME NEW j \in k + 1 .. k + m PROVE T[j] \notin LineEnds
    OBVIOUS
  <2>1. j - k \in 1 .. m /\ j - k \in 1 .. Len(t) /\ k + (j - k) = j
    BY <1>1, <1>2
  <2>2. t[j - k] = T[k + (j - k)]
    BY <1>3, <2>1
  <2> QED
    BY <1>5, <2>1, <2>2
<1>6. LineEnd(t) = 0 => \A j \in k + 1 .. n : T[j] \notin LineEnds
  <2>1. Len(t) \in 0 .. Len(t) /\ k + Len(t) = n
    BY <1>1, <1>2
  <2>2. (\A j \in 1 .. Len(t) : t[j] \notin LineEnds) =>
            \A j \in k + 1 .. k + Len(t) : T[j] \notin LineEnds
    BY <1>5, <2>1
  <2> QED
    BY <1>4, <2>1, <2>2
<1>7. LineEnd(t) # 0 => \A j \in k + 1 .. k + LineEnd(t) - 1 : T[j] \notin LineEnds
  <2> SUFFICES ASSUME LineEnd(t) # 0
               PROVE  \A j \in k + 1 .. k + LineEnd(t) - 1 : T[j] \notin LineEnds
    OBVIOUS
  <2>1. LineEnd(t) - 1 \in 0 .. Len(t) /\ k + (LineEnd(t) - 1) = k + LineEnd(t) - 1
    BY <1>1, <1>2, <1>4
  <2>2. \A j \in k + 1 .. k + (LineEnd(t) - 1) : T[j] \notin LineEnds
    BY <1>4, <1>5, <2>1
  <2> QED
    BY <2>1, <2>2
<1>8. k = At(T, d) /\ n = Len(T) /\ t = d.text /\ EndAt(T, d) = k + LineEnd(t)
  BY DEF t, n, k, EndAt
<1>9. At(T, d) \in 0 .. Len(T) /\ Len(d.text) = Len(T) - At(T, d) /\ Len(T) \in Nat
  BY <1>1, <1>2, <1>8
<1>10. d.text \in Seq(Char) /\ \A j \in 1 .. Len(d.text) : d.text[j] = T[At(T, d) + j]
  BY <1>1, <1>3, <1>8
<1>11. LineEnd(d.text) = 0 => \A j \in At(T, d) + 1 .. Len(T) : T[j] \notin LineEnds
  BY <1>6, <1>8
<1>12. LineEnd(d.text) # 0 =>
          \A j \in At(T, d) + 1 .. EndAt(T, d) - 1 : T[j] \notin LineEnds
  <2>1. LineEnd(t) \in Int /\ EndAt(T, d) - 1 = k + LineEnd(t) - 1
    BY <1>1, <1>2, <1>4, <1>8
  <2> QED
    BY <1>7, <1>8, <2>1
<1> QED
  BY <1>9, <1>10, <1>11, <1>12

(* The line taken next, in terms of the text as a whole. *)
LEMMA NextLine ==
    ASSUME NEW T \in Seq(Char), NEW d \in Decoder, Len(d.text) <= Len(T),
           d.text = SubSeq(T, At(T, d) + 1, Len(T)), LineEnd(d.text) # 0
    PROVE  /\ EndAt(T, d) \in At(T, d) + 1 .. Len(T)
           /\ NextAt(T, d) \in EndAt(T, d) .. EndAt(T, d) + 1 /\ NextAt(T, d) <= Len(T)
           /\ LineOf(d) = SubSeq(T, At(T, d) + 1, EndAt(T, d) - 1)
           /\ RestOf(d) = SubSeq(T, NextAt(T, d) + 1, Len(T))
           /\ Len(RestOf(d)) = Len(T) - NextAt(T, d)
           /\ T[EndAt(T, d)] \in LineEnds
           /\ NextAt(T, d) = EndAt(T, d) + 1 =>
                 T[EndAt(T, d)] = "CR" /\ T[EndAt(T, d) + 1] = "LF"
           /\ NextAt(T, d) = EndAt(T, d) /\ T[EndAt(T, d)] = "CR" /\ EndAt(T, d) < Len(T) =>
                 T[EndAt(T, d) + 1] # "LF"
<1> DEFINE k == At(T, d)
           n == Len(T)
           t == d.text
           i == LineEnd(t)
           w == Width(t, i)
<1>1. /\ k \in 0 .. n /\ Len(t) = n - k /\ n \in Nat /\ t \in Seq(Char)
      /\ \A j \in 1 .. Len(t) : t[j] = T[k + j]
  BY Positions
<1>2. i \in 1 .. Len(t) /\ t[i] \in LineEnds
  <2>1. i # 0
    OBVIOUS
  <2> HIDE DEF t
  <2> QED
    BY <1>1, <2>1, LineEndIs
<1>3. /\ w \in 1 .. 2 /\ i + w - 1 \in i .. Len(t)
      /\ SubSeq(t, 1, i - 1) \in Seq(Char) /\ Len(SubSeq(t, 1, i - 1)) = i - 1
      /\ After(t, i + w - 1) \in Seq(Char)
      /\ Len(After(t, i + w - 1)) = Len(t) - (i + w - 1)
  <2> HIDE DEF t
  <2>1. i = LineEnd(t)
    OBVIOUS
  <2> HIDE DEF i
  <2> QED
    BY <1>1, <1>2, <2>1, LineAndRest
<1>4. EndAt(T, d) = k + i /\ NextAt(T, d) = k + i + w - 1
  BY DEF EndAt, NextAt
<1>5. LineOf(d) = SubSeq(t, 1, i - 1) /\ RestOf(d) = After(t, i + w - 1)
  BY DEF LineOf, RestOf
<1> HIDE DEF t, i
<1>6. w = 2 => t[i] = "CR" /\ i < Len(t) /\ t[i + 1] = "LF"
  BY DEF Width
<1>7. w = 1 => ~(t[i] = "CR" /\ i < Len(t) /\ t[i + 1] = "LF")
  BY DEF Width
<1>15. k = At(T, d) /\ n = Len(T)
  OBVIOUS
<1> HIDE DEF k, n, t, i, w
<1>8. SubSeq(t, 1, i - 1) = SubSeq(T, k + 1, k + i - 1)
  <2> DEFINE m == k + i - 1
  <2>2. m \in k .. Len(T) /\ m - k = i - 1
    BY <1>1, <1>2, <1>15
  <2> HIDE DEF m
  <2>3. /\ SubSeq(T, k + 1, m) \in Seq(Char) /\ Len(SubSeq(T, k + 1, m)) = m - k
        /\ \A j \in 1 .. m - k : SubSeq(T, k + 1, m)[j] = T[k + j]
    BY <1>1, <2>2, Parts DEF n
  <2>4. \A j \in 1 .. i - 1 : SubSeq(t, 1, i - 1)[j] = t[j] /\ t[j] = T[k + j]
    <3>1. i - 1 \in 0 .. Len(t) /\ 0 \in 0 .. Len(t) /\ 0 + 1 = 1 /\ (i - 1) - 0 = i - 1
      BY <1>1, <1>2
    <3>2. \A j \in 1 .. (i - 1) - 0 : SubSeq(t, 0 + 1, i - 1)[j] = t[0 + j]
      BY <1>1, <3>1, Parts
    <3>3. \A j \in 1 .. i - 1 : j \in 1 .. Len(t) /\ 0 + j = j
      BY <1>1, <1>2
    <3> QED
      BY <1>1, <3>1, <3>2, <3>3
  <2>5. SubSeq(t, 1, i - 1) = SubSeq(T, k + 1, m)
    BY <1>3, <2>2, <2>3, <2>4, SeqEqual
  <2> QED
    BY <2>5 DEF m
<1>9. After(t, i + w - 1) = SubSeq(T, k + i + w - 1 + 1, n)
  <2> DEFINE q == i + w - 1
             m == k + i + w - 1
  <2>1. m = k + q /\ q \in i .. Len(t) /\ m \in 0 .. n /\ n - m = Len(t) - q
    BY <1>1, <1>2, <1>3
  <2> HIDE DEF q, m
  <2>2. n \in m .. Len(T) /\ m \in 0 .. Len(T)
    BY <1>1, <2>1 DEF n
  <2>3. /\ SubSeq(T, m + 1, n) \in Seq(Char) /\ Len(SubSeq(T, m + 1, n)) = n - m
        /\ \A j \in 1 .. n - m : SubSeq(T, m + 1, n)[j] = T[m + j]
    BY <2>2, Parts
  <2>4. Len(t) \in q .. Len(t) /\ q \in 0 .. Len(t)
    BY <1>1, <1>2, <2>1
  <2>5. /\ After(t, q) \in Seq(Char) /\ Len(After(t, q)) = Len(t) - q
        /\ \A j \in 1 .. Len(t) - q : After(t, q)[j] = t[q + j]
    BY <1>1, <2>4, Parts DEF After
  <2>6. \A j \in 1 .. Len(t) - q : t[q + j] = T[m + j]
    <3> SUFFICES ASSUME NEW j \in 1 .. Len(t) - q PROVE t[q + j] = T[m + j]
      OBVIOUS
    <3>1. q + j \in 1 .. Len(t) /\ k + (q + j) = m + j
      BY <1>1, <1>2, <2>1
    <3> QED
      BY <1>1, <3>1
  <2>7. After(t, q) = SubSeq(T, m + 1, n)
    <3> DEFINE a == After(t, q)
               b == SubSeq(T, m + 1, n)
    <3>1. /\ a \in Seq(Char) /\ b \in Seq(Char) /\ Len(a) = Len(b)
          /\ \A j \in 1 .. Len(a) : a[j] = b[j]
      BY <2>1, <2>3, <2>5, <2>6
    <3> HIDE DEF a, b
    <3>2. a = b
      BY <3>1, SeqEqual
    <3> QED
      BY <3>2 DEF a, b
  <2> QED
    BY <2>7 DEF q, m
<1>10. t[i] = T[k + i] /\ (i < Len(t) => t[i + 1] = T[k + i + 1])
  <2>1. i + 1 \in Nat /\ k + (i + 1) = k + i + 1
    <3>1. i \in Nat /\ k \in Nat
      BY <1>1, <1>2
    <3> QED
      BY <3>1
  <2> QED
    BY <1>1, <1>2, <2>1
<1>11. k + i \in k + 1 .. n /\ k + i + w - 1 \in k + i .. k + i + 1 /\ k + i + w - 1 <= n
  BY <1>1, <1>2, <1>3
<1>12. Len(After(t, i + w - 1)) = n - (k + i + w - 1)
  BY <1>1, <1>2, <1>3
<1>13. k + i + w - 1 = k + i + 1 => T[k + i] = "CR" /\ T[k + i + 1] = "LF"
  BY <1>1, <1>2, <1>3, <1>6, <1>10
<1>14. k + i + w - 1 = k + i /\ T[k + i] = "CR" /\ k + i < n => T[k + i + 1] # "LF"
  BY <1>1, <1>2, <1>3, <1>7, <1>10
<1> QED
  <2>1. LineOf(d) = SubSeq(T, k + 1, k + i - 1)
    BY <1>5, <1>8
  <2>2. RestOf(d) = SubSeq(T, k + i + w - 1 + 1, n) /\ Len(RestOf(d)) = n - (k + i + w - 1)
    BY <1>5, <1>9, <1>12
  <2>3. T[k + i] \in LineEnds
    BY <1>2, <1>10
  <2> DEFINE p == EndAt(T, d)
             q == NextAt(T, d)
  <2>4. p = k + i /\ q = k + i + w - 1
    BY <1>4
  <2> HIDE DEF p, q
  <2>5. LineOf(d) = SubSeq(T, k + 1, p - 1)
    <3>1. p - 1 = k + i - 1
      BY <1>1, <1>2, <2>4
    <3> QED
      BY <2>1, <3>1
  <2>6. RestOf(d) = SubSeq(T, q + 1, n) /\ Len(RestOf(d)) = n - q
    BY <2>2, <2>4
  <2>7. p \in k + 1 .. n /\ q \in p .. p + 1 /\ q <= n /\ T[p] \in LineEnds
    BY <1>11, <2>3, <2>4
  <2>8. q = p + 1 => T[p] = "CR" /\ T[p + 1] = "LF"
    BY <1>13, <2>4
  <2>9. q = p /\ T[p] = "CR" /\ p < n => T[p + 1] # "LF"
    BY <1>14, <2>4
  <2> QED
    BY <1>15, <2>5, <2>6, <2>7, <2>8, <2>9 DEF p, q

(* Taking a line leaves the decoder where the next one starts, with what the  *)
(* text says so far, unless the event that the line ends is malformed.        *)
LEMMA AdvanceReads ==
    ASSUME NEW T \in Seq(Char), NEW d, NEW c \in Seq(Content), Reading(T, d, c),
           LineEnd(d.text) # 0
    PROVE  Advance(d).failed \/ Reading(T, Advance(d), c)
<1> DEFINE k == At(T, d)
           n == Len(T)
           p == EndAt(T, d)
           q == NextAt(T, d)
           rest == RestOf(d)
           line == LineOf(d)
           m == [d EXCEPT !.text = rest]
           e == Advance(d)
<1>1. d \in Decoder /\ ~d.failed /\ Len(d.text) <= n /\ d.text = SubSeq(T, k + 1, n)
  BY DEF Reading
<1>2. /\ k \in 0 .. n /\ n \in Nat
      /\ \A j \in k + 1 .. p - 1 : T[j] \notin LineEnds
  BY <1>1, Positions
<1>3. /\ p \in k + 1 .. n /\ q \in p .. p + 1 /\ q <= n
      /\ line = SubSeq(T, k + 1, p - 1)
      /\ rest = SubSeq(T, q + 1, n)
      /\ Len(rest) = n - q
      /\ T[p] \in LineEnds
      /\ q = p + 1 => T[p] = "CR" /\ T[p + 1] = "LF"
      /\ q = p /\ T[p] = "CR" /\ p < n => T[p + 1] # "LF"
  BY <1>1, NextLine
<1>4. e \in Decoder /\ e.text = rest /\ rest \in Seq(Char) /\ line \in Seq(Char)
  BY <1>1, AdvanceTyped
<1>5. e = ProcessLine(m, line)
  BY DEF Advance
<1>6. /\ m \in Decoder /\ m.text = rest /\ m.lines = d.lines /\ m.events = d.events
      /\ (m.complete <=> d.complete) /\ ~m.failed
  BY <1>1, <1>4 DEF Decoder
<1>7. /\ Out(d, c) = ContentUpto(T, k) /\ Owes(Says(T, k), d, c) /\ EndKnown(T, d)
      /\ k > 0 => T[k] \in LineEnds
      /\ k > 0 /\ T[k] = "CR" /\ k < n => T[k + 1] # "LF"
  BY DEF Reading
<1>0. n = Len(T)
  OBVIOUS
<1> HIDE DEF k, n, p, q, rest, line, m, e
<1>8. At(T, e) = q /\ Len(e.text) <= Len(T)
  <2>1. At(T, e) = n - Len(rest)
    BY <1>0, <1>4 DEF At
  <2>2. Len(rest) = n - q /\ q \in Int /\ q >= 0
    BY <1>2, <1>3
  <2> QED
    BY <1>0, <1>2, <1>4, <2>1, <2>2
<1>9. Out(m, c) = Out(d, c) /\ Owes(Says(T, k), m, c) /\ EndKnown(T, m)
  BY <1>6, <1>7 DEF Out, Owes, EndKnown
<1>10. Says(T, p) = Says(T, k) \o Only(line, Content) /\ Says(T, q) = Says(T, p)
  <2>0. p \in Int /\ k \in Int /\ q \in Int
    BY <1>2, <1>3
  <2>1. p - 1 \in k .. Len(T) /\ p - 1 \in 0 .. Len(T) /\ p \in p - 1 .. Len(T)
        /\ k \in 0 .. Len(T) /\ q \in p .. Len(T) /\ p \in 0 .. Len(T)
    BY <1>2, <1>3 DEF n
  <2> DEFINE o == p - 1
  <2>2. o \in k .. Len(T) /\ o \in 0 .. Len(T) /\ p \in o .. Len(T)
    BY <2>1
  <2>3. \A i \in o + 1 .. p : T[i] \in LineEnds
    BY <1>3, <2>0
  <2>4. \A i \in p + 1 .. q : T[i] \in LineEnds
    BY <1>3, <2>0 DEF LineEnds
  <2>5. line = SubSeq(T, k + 1, o)
    BY <1>3
  <2> HIDE DEF o
  <2>6. Says(T, o) = Says(T, k) \o Only(line, Content)
    BY <2>1, <2>2, <2>5, SaysMore
  <2>7. Says(T, p) = Says(T, o)
    BY <2>2, <2>3, SaysNoMore
  <2>8. Says(T, q) = Says(T, p)
    BY <2>1, <2>4, SaysNoMore
  <2> QED
    BY <2>6, <2>7, <2>8
<1>11. Says(T, k) \in Seq(Content)
  <2>1. k \in 0 .. Len(T) /\ k \in k .. Len(T)
    BY <1>2 DEF n
  <2> QED
    BY <2>1, SaysMore
<1>12. \A i \in p + 1 .. q : ~EndsEvent(T, i)
  <2> SUFFICES ASSUME NEW i \in p + 1 .. q PROVE ~EndsEvent(T, i)
    OBVIOUS
  <2>1. i = p + 1 /\ q = p + 1 /\ i > 1 /\ i - 1 = p
    BY <1>2, <1>3
  <2> QED
    BY <1>3, <2>1 DEF EndsEvent
<1>13. ASSUME ~e.failed
       PROVE  /\ Out(e, c) = ContentUpto(T, q)
              /\ Owes(Says(T, q), e, c)
              /\ EndKnown(T, e)
  <2>1. CASE line = <<>>
    <3>1. p = k + 1
      <4>1. Len(line) = (p - 1) - k
        <5> DEFINE o == p - 1
        <5>1. o \in k .. Len(T) /\ k \in 0 .. Len(T) /\ line = SubSeq(T, k + 1, o)
          BY <1>2, <1>3 DEF n
        <5> HIDE DEF o
        <5>2. Len(line) = o - k
          BY <5>1, Parts
        <5> QED
          BY <5>2 DEF o
      <4>2. Len(line) = 0
        BY <2>1
      <4> QED
        BY <1>2, <1>3, <4>1, <4>2
    <3>2. EndsEvent(T, p)
      <4>1. CASE k = 0
        <5>1. p = 1
          BY <3>1, <4>1
        <5> QED
          BY <1>3, <5>1 DEF EndsEvent, LineEnds
      <4>2. CASE k > 0
        <5>1. p > 1 /\ p - 1 = k /\ k < n
          BY <1>2, <1>3, <3>1, <4>2
        <5>2. T[k] \in LineEnds /\ (T[k] = "CR" => T[p] # "LF")
          BY <1>7, <3>1, <4>2, <5>1
        <5> QED
          BY <1>3, <5>1, <5>2 DEF EndsEvent, LineEnds
      <4> QED
        BY <1>2, <4>1, <4>2
    <3>3. ContentUpto(T, q) = Says(T, p)
      <4>1. p \in 1 .. Len(T) /\ q \in p .. Len(T)
        BY <1>2, <1>3 DEF n
      <4> QED
        BY <1>12, <3>2, <4>1, UptoEnd
    <3>4. Says(T, p) = Says(T, k)
      BY <1>10, <1>11, <2>1, OnlyEmpty, ConcatEmptySeq
    <3>5. e = Dispatch(m)
      BY <1>5, <2>1 DEF ProcessLine
    <3>6. e.lines = <<>> /\ Out(e, c) = Says(T, k) /\ EndKnown(T, e)
      BY <1>6, <1>9, <1>13, <3>5, DispatchOwes
    <3>7. Owes(Says(T, q), e, c)
      BY <1>10, <3>4, <3>6 DEF Owes
    <3> QED
      BY <3>3, <3>4, <3>6, <3>7
  <2>2. CASE line # <<>>
    <3>1. p > k + 1
      <4> SUFFICES ASSUME p = k + 1 PROVE FALSE
        BY <1>2, <1>3
      <4>1. line = SubSeq(T, k + 1, k) /\ k < k + 1
        BY <1>2, <1>3
      <4>2. line = <<>>
        BY <1>2, <4>1, SubSeqEmpty
      <4> QED
        BY <2>2, <4>2
    <3>2. \A i \in k + 1 .. q : ~EndsEvent(T, i)
      <4> SUFFICES ASSUME NEW i \in k + 1 .. q PROVE ~EndsEvent(T, i)
        OBVIOUS
      <4>1. CASE i \in k + 1 .. p - 1
        BY <1>2, <4>1 DEF EndsEvent, LineEnds
      <4>2. CASE i = p
        <5>1. p - 1 \in k + 1 .. p - 1 /\ p # 1
          BY <1>2, <1>3, <3>1
        <5> QED
          BY <1>2, <4>2, <5>1 DEF EndsEvent, LineEnds
      <4>3. CASE i \in p + 1 .. q
        BY <1>12, <4>3
      <4> QED
        BY <1>2, <1>3, <4>1, <4>2, <4>3
    <3>3. ContentUpto(T, q) = ContentUpto(T, k)
      <4>1. k \in 0 .. Len(T) /\ q \in k .. Len(T)
        BY <1>2, <1>3 DEF n
      <4> QED
        BY <3>2, <4>1, UptoSame
    <3>4. (\E j \in DOMAIN line : line[j] = "end") => HasEnd(T)
      <4> SUFFICES ASSUME NEW j \in DOMAIN line, line[j] = "end" PROVE HasEnd(T)
        OBVIOUS
      <4> DEFINE o == p - 1
      <4>1. o \in k .. Len(T) /\ k \in 0 .. Len(T) /\ line = SubSeq(T, k + 1, o)
        BY <1>2, <1>3 DEF n
      <4> HIDE DEF o
      <4>2. Len(line) = o - k /\ \A i \in 1 .. o - k : line[i] = T[k + i]
        BY <4>1, Parts
      <4>3. j \in 1 .. Len(line)
        BY <1>4
      <4>4. T[k + j] = "end" /\ k + j \in 1 .. Len(T)
        BY <1>2, <4>1, <4>2, <4>3
      <4> QED
        BY <4>4 DEF HasEnd
    <3>5. /\ Out(e, c) = Out(m, c)
          /\ Owes(Says(T, k) \o Only(line, Content), e, c)
          /\ EndKnown(T, e)
      BY <1>4, <1>5, <1>6, <1>9, <2>2, <3>4, LineOwes
    <3> QED
      BY <1>7, <1>9, <1>10, <3>3, <3>5
  <2> QED
    BY <2>1, <2>2
<1>14. /\ q > 0 /\ T[q] \in LineEnds
       /\ T[q] = "CR" /\ q < n => T[q + 1] # "LF"
  <2>1. CASE q = p
    BY <1>2, <1>3, <2>1
  <2>2. CASE q = p + 1
    BY <1>2, <1>3, <2>2 DEF LineEnds
  <2> QED
    BY <1>2, <1>3, <2>1, <2>2
<1>15. ~e.failed => Reading(T, e, c)
  <2> SUFFICES ASSUME ~e.failed PROVE Reading(T, e, c)
    OBVIOUS
  <2>1. e.text = SubSeq(T, At(T, e) + 1, Len(T))
    BY <1>3, <1>4, <1>8 DEF n
  <2>2. /\ Out(e, c) = ContentUpto(T, At(T, e)) /\ Owes(Says(T, At(T, e)), e, c)
        /\ EndKnown(T, e)
    BY <1>8, <1>13
  <2>3. /\ T[At(T, e)] \in LineEnds
        /\ T[At(T, e)] = "CR" /\ At(T, e) < Len(T) => T[At(T, e) + 1] # "LF"
    BY <1>8, <1>14 DEF n
  <2> QED
    BY <1>4, <1>8, <2>1, <2>2, <2>3 DEF Reading
<1> QED
  BY <1>15 DEF e

(* A line that ends with a CR is taken only if it is known what follows. *)
LEMMA AdvanceSettles ==
    ASSUME NEW T \in Seq(Char), NEW d, NEW c \in Seq(Content), Reading(T, d, c),
           LineEnd(d.text) # 0, ~Waits(d.text, LineEnd(d.text), FALSE)
    PROVE  Settled(T, Advance(d))
<1> DEFINE k == At(T, d)
           n == Len(T)
           i == LineEnd(d.text)
<1>1. d \in Decoder /\ Len(d.text) <= n /\ d.text = SubSeq(T, k + 1, n)
  BY DEF Reading
<1>2. /\ k \in 0 .. n /\ n \in Nat /\ Len(d.text) = n - k /\ d.text \in Seq(Char)
      /\ \A j \in 1 .. Len(d.text) : d.text[j] = T[k + j]
  BY <1>1, Positions
<1>3. /\ EndAt(T, d) \in k + 1 .. n /\ NextAt(T, d) \in EndAt(T, d) .. EndAt(T, d) + 1
      /\ Len(RestOf(d)) = n - NextAt(T, d) /\ NextAt(T, d) <= n
      /\ NextAt(T, d) = EndAt(T, d) + 1 => T[EndAt(T, d) + 1] = "LF"
  BY <1>1, NextLine
<1>4. Advance(d).text = RestOf(d)
  BY <1>1, AdvanceTyped
<1>5. At(T, Advance(d)) = NextAt(T, d)
  BY <1>2, <1>3, <1>4 DEF At
<1>6. d.text[i] = "CR" => i # Len(d.text)
  BY DEF Waits
<1>7. i \in 1 .. Len(d.text) /\ EndAt(T, d) = k + i
  BY <1>2, LineEndIs DEF EndAt
<1>8. d.text[i] = T[k + i]
  BY <1>2, <1>7
<1>12. NextAt(T, d) \in Int /\ EndAt(T, d) \in Int /\ k \in Int /\ n \in Int
  BY <1>2, <1>3
<1> HIDE DEF k, n, i
<1>9. SUFFICES ASSUME T[NextAt(T, d)] = "CR"
               PROVE  NextAt(T, d) < n
  BY <1>5 DEF Settled, n
<1>10. CASE NextAt(T, d) = EndAt(T, d)
  BY <1>2, <1>3, <1>6, <1>7, <1>8, <1>9, <1>10
<1>11. CASE NextAt(T, d) = EndAt(T, d) + 1
  BY <1>3, <1>9, <1>11
<1> QED
  BY <1>3, <1>10, <1>11, <1>12

-----------------------------------------------------------------------------
(* Draining, line by line *)

(* The decoder may go on: what it has taken is what was said, and unless the  *)
(* text is final no CR was taken at its end.                                  *)
Ready(T, d, c, final) == Reading(T, d, c) /\ (~final => Settled(T, d))

(* No line is left in the text. *)
Exhausted(d, final) == LineEnd(d.text) = 0 \/ Waits(d.text, LineEnd(d.text), final)

(* Draining d is draining a decoder that has no line left.                    *)
Stops(T, d, c, final) ==
    \E e \in Decoder :
        /\ Drain(d, final) = Drain(e, final)
        /\ e.failed \/ (Ready(T, e, c, final) /\ Exhausted(e, final))

Runaway(T, c, final, m) ==
    \E d \in Decoder : Len(d.text) = m /\ Ready(T, d, c, final) /\ ~Stops(T, d, c, final)

(* By the shortest text of a decoder that draining does not bring to a stop. *)
LEMMA DrainStops ==
    ASSUME NEW T \in Seq(Char), NEW d \in Decoder, NEW c \in Seq(Content),
           NEW final \in BOOLEAN, Ready(T, d, c, final)
    PROVE  Stops(T, d, c, final)
<1> DEFINE Bad == {m \in Nat : Runaway(T, c, final, m)}
<1> SUFFICES ASSUME ~Stops(T, d, c, final) PROVE FALSE
  OBVIOUS
<1>1. Len(d.text) \in Bad
  BY TextLength DEF Runaway
<1>2. PICK m \in Bad : \A k \in Bad : m <= k
  <2> HIDE DEF Bad
  <2>1. Bad \in SUBSET Nat
    BY DEF Bad
  <2> QED
    BY <1>1, <2>1, Least
<1>3. PICK e \in Decoder : Len(e.text) = m /\ Ready(T, e, c, final) /\ ~Stops(T, e, c, final)
  BY <1>2 DEF Runaway
<1>4. ~Exhausted(e, final)
  BY <1>3 DEF Stops
<1>5. LineEnd(e.text) # 0 /\ ~Waits(e.text, LineEnd(e.text), final)
  BY <1>4 DEF Exhausted
<1>6. ~Stuck(e, final)
  <2>1. ~e.failed
    BY <1>3 DEF Ready, Reading
  <2>2. e.text # <<>>
    <3> SUFFICES ASSUME e.text = <<>> PROVE FALSE
      OBVIOUS
    <3>1. LineEnd(<<>>) \in 0 .. Len(<<>>)
      <4>1. <<>> \in Seq(Char)
        BY EmptySeq
      <4> QED
        BY <4>1, LineEndIs
    <3> QED
      BY <1>5, <3>1, EmptySeq
  <2> QED
    BY <1>5, <2>1, <2>2 DEF Stuck
<1> DEFINE a == Advance(e)
<1>7. Drain(e, final) = Drain(a, final)
  BY <1>5, <1>6, DrainStep
<1>8. a \in Decoder /\ Len(a.text) < Len(e.text)
  BY <1>5, AdvanceTyped
<1>9. a.failed \/ Ready(T, a, c, final)
  <2>1. Reading(T, e, c)
    BY <1>3 DEF Ready
  <2>2. a.failed \/ Reading(T, a, c)
    BY <1>5, <2>1, AdvanceReads
  <2>3. ~final => Settled(T, a)
    <3> SUFFICES ASSUME ~final PROVE Settled(T, a)
      OBVIOUS
    <3>1. ~Waits(e.text, LineEnd(e.text), FALSE)
      BY <1>5 DEF Waits
    <3> QED
      BY <1>5, <2>1, <3>1, AdvanceSettles
  <2> QED
    BY <2>2, <2>3 DEF Ready
<1> HIDE DEF a, Bad
<1>10. Stops(T, a, c, final)
  <2>1. CASE a.failed
    BY <1>8, <2>1 DEF Stops
  <2>2. CASE Ready(T, a, c, final)
    <3> SUFFICES ASSUME ~Stops(T, a, c, final) PROVE FALSE
      OBVIOUS
    <3>1. Runaway(T, c, final, Len(a.text)) /\ Len(a.text) \in Nat
      BY <1>8, <2>2, TextLength DEF Runaway
    <3>2. Len(a.text) \in Bad
      BY <3>1 DEF Bad
    <3>3. m <= Len(a.text) /\ Len(a.text) < m /\ m \in Nat
      BY <1>2, <1>3, <1>8, <3>2, TextLength
    <3> QED
      BY <3>1, <3>3
  <2> QED
    BY <1>9, <2>1, <2>2
<1>11. Stops(T, e, c, final)
  BY <1>7, <1>10 DEF Stops
<1> QED
  BY <1>3, <1>11

(* What draining leaves before the end of the text. *)
LEMMA DrainReads ==
    ASSUME NEW T \in Seq(Char), NEW d \in Decoder, NEW c \in Seq(Content),
           Reading(T, d, c), Settled(T, d), ~Drain(d, FALSE).failed
    PROVE  /\ Drain(d, FALSE) \in Decoder
           /\ Reading(T, Drain(d, FALSE), c)
           /\ Settled(T, Drain(d, FALSE))
           /\ Exhausted(Drain(d, FALSE), FALSE)
<1>1. PICK e \in Decoder :
        /\ Drain(d, FALSE) = Drain(e, FALSE)
        /\ e.failed \/ (Ready(T, e, c, FALSE) /\ Exhausted(e, FALSE))
  <2>1. Ready(T, d, c, FALSE) /\ FALSE \in BOOLEAN
    BY DEF Ready
  <2>2. Stops(T, d, c, FALSE)
    BY <2>1, DrainStops
  <2> QED
    BY <2>2 DEF Stops
<1>2. Drain(e, FALSE) = e
  <2>1. CASE Stuck(e, FALSE)
    BY <2>1, DrainStep
  <2>2. CASE ~Stuck(e, FALSE)
    <3>1. LineEnd(e.text) = 0
      BY <1>1, <2>2 DEF Stuck, Exhausted
    <3> QED
      BY <2>2, <3>1, DrainStep
  <2> QED
    BY <2>1, <2>2
<1> QED
  BY <1>1, <1>2 DEF Ready

(* What it leaves at the end: everything was said, and the last event waits   *)
(* for its end.                                                               *)
LEMMA DrainFinishes ==
    ASSUME NEW T \in Seq(Char), NEW d \in Decoder, NEW c \in Seq(Content),
           Reading(T, d, c), ~Drain(d, TRUE).failed
    PROVE  /\ Drain(d, TRUE) \in Decoder
           /\ Owes(Says(T, Len(T)), Drain(d, TRUE), c)
           /\ EndKnown(T, Drain(d, TRUE))
<1> DEFINE n == Len(T)
<1>1. PICK e \in Decoder :
        /\ Drain(d, TRUE) = Drain(e, TRUE)
        /\ e.failed \/ (Ready(T, e, c, TRUE) /\ Exhausted(e, TRUE))
  <2>1. Ready(T, d, c, TRUE) /\ TRUE \in BOOLEAN
    BY DEF Ready
  <2>2. Stops(T, d, c, TRUE)
    BY <2>1, DrainStops
  <2> QED
    BY <2>2 DEF Stops
<1> DEFINE k == At(T, e)
           t == e.text
<1>2. ~e.failed
  <2> SUFFICES ASSUME e.failed PROVE FALSE
    OBVIOUS
  <2>1. Drain(e, TRUE) = e
    BY DrainStep DEF Stuck
  <2> QED
    BY <1>1, <2>1
<1>3. /\ Reading(T, e, c) /\ LineEnd(t) = 0
  BY <1>1, <1>2 DEF Ready, Exhausted, Waits
<1>4. /\ k \in 0 .. n /\ n \in Nat /\ Len(t) = n - k /\ t \in Seq(Char)
      /\ \A j \in 1 .. Len(t) : t[j] = T[k + j]
  BY <1>3, Positions DEF Reading
<1>5. t = SubSeq(T, k + 1, n)
  BY <1>3 DEF Reading
<1>6. Owes(Says(T, k), e, c) /\ EndKnown(T, e)
  BY <1>3 DEF Reading
<1>0. n = Len(T)
  OBVIOUS
<1> HIDE DEF k, n
<1>7. CASE t = <<>>
  <2>1. Drain(e, TRUE) = e
    BY <1>7, DrainStep DEF Stuck
  <2>2. Len(t) = 0
    BY <1>7
  <2>3. k = n
    BY <1>4, <2>2
  <2> QED
    BY <1>0, <1>1, <1>6, <2>1, <2>3
<1>8. CASE t # <<>>
  <2> DEFINE m == [e EXCEPT !.text = <<>>]
  <2>1. Drain(d, TRUE) = ProcessLine(m, t)
    <3>1. ~Stuck(e, TRUE)
      BY <1>2, <1>3, <1>8 DEF Stuck
    <3> QED
      BY <1>1, <1>3, <3>1, DrainStep
  <2>2. m \in Decoder /\ m.lines = e.lines /\ m.events = e.events /\ ~m.failed
        /\ (m.complete <=> e.complete)
    <3>1. <<>> \in Seq(Char)
      BY EmptySeq
    <3> QED
      BY <1>2, <3>1 DEF Decoder
  <2> HIDE DEF m, t
  <2>3. Owes(Says(T, k), m, c) /\ EndKnown(T, m)
    BY <1>6, <2>2 DEF Out, Owes, EndKnown
  <2>4. (\E j \in DOMAIN t : t[j] = "end") => HasEnd(T)
    <3> SUFFICES ASSUME NEW j \in DOMAIN t, t[j] = "end" PROVE HasEnd(T)
      OBVIOUS
    <3>1. j \in 1 .. Len(t)
      BY <1>4
    <3>2. T[k + j] = "end" /\ k + j \in 1 .. Len(T)
      BY <1>0, <1>4, <3>1
    <3> QED
      BY <3>2 DEF HasEnd
  <2>5. Says(T, n) = Says(T, k) \o Only(t, Content)
    <3>1. k \in 0 .. Len(T) /\ n \in k .. Len(T)
      BY <1>0, <1>4
    <3> QED
      BY <1>5, <3>1, SaysMore DEF t
  <2>6. /\ Owes(Says(T, k) \o Only(t, Content), ProcessLine(m, t), c)
        /\ EndKnown(T, ProcessLine(m, t))
    <3>1. t # <<>> /\ t \in Seq(Char)
      BY <1>4, <1>8 DEF t
    <3> QED
      BY <2>2, <2>3, <2>4, <3>1, LineOwes
  <2>7. ProcessLine(m, t) \in Decoder
    BY <1>4, <2>2, ProcessLineTyped DEF t
  <2>8. Drain(d, TRUE) = ProcessLine(m, t)
    BY <2>1 DEF m, t
  <2> QED
    BY Zenon, <1>0, <2>5, <2>6, <2>7, <2>8
<1> QED
  BY <1>7, <1>8

-----------------------------------------------------------------------------
(* A chunk, and the end *)

(* Where what the text says so far ends: a trailing CR says nothing yet. *)
Bound(T) == IF Len(T) > 0 /\ T[Len(T)] = "CR" THEN Len(T) - 1 ELSE Len(T)

(* A decoder that has no line left has returned what the text says so far. *)
LEMMA SaidIs ==
    ASSUME NEW T \in Seq(Char), NEW d, NEW c \in Seq(Content),
           Reading(T, d, c), Settled(T, d), Exhausted(d, FALSE)
    PROVE  Out(d, c) = ContentUpto(T, Bound(T))
<1> DEFINE k == At(T, d)
           n == Len(T)
           b == Bound(T)
           t == d.text
<1>1. d \in Decoder /\ Len(t) <= Len(T) /\ t = SubSeq(T, k + 1, Len(T))
      /\ Out(d, c) = ContentUpto(T, k)
      /\ (k > 0 => T[k] \in LineEnds)
  BY DEF Reading
<1>2. /\ k \in 0 .. Len(T) /\ Len(T) \in Nat /\ Len(t) = Len(T) - k /\ t \in Seq(Char)
      /\ \A j \in 1 .. Len(t) : t[j] = T[k + j]
      /\ LineEnd(t) = 0 => \A j \in k + 1 .. Len(T) : T[j] \notin LineEnds
      /\ LineEnd(t) # 0 => \A j \in k + 1 .. EndAt(T, d) - 1 : T[j] \notin LineEnds
  BY <1>1, Positions
<1>3. k > 0 /\ T[k] = "CR" => k < Len(T)
  BY DEF Settled
<1>4. EndAt(T, d) = k + LineEnd(t)
  BY DEF EndAt
<1>0. n = Len(T) /\ n \in Nat
  BY <1>2
<1>5. b = IF n > 0 /\ T[n] = "CR" THEN n - 1 ELSE n
  BY DEF Bound
<1>6. LineEnd(t) = 0 \/ (LineEnd(t) = Len(t) /\ t[LineEnd(t)] = "CR")
  BY DEF Exhausted, Waits
<1> HIDE DEF k, n, t
<1>7. b \in k .. Len(T)
  BY <1>0, <1>2, <1>3, <1>5
<1>8. \A i \in k + 1 .. b : T[i] \notin LineEnds
  <2>1. CASE LineEnd(t) = 0
    BY <1>0, <1>2, <1>5, <2>1
  <2>2. CASE LineEnd(t) # 0
    <3>1. LineEnd(t) = Len(t) /\ t[Len(t)] = "CR" /\ Len(t) \in Nat
      BY <1>2, <1>6, <2>2
    <3>2. EndAt(T, d) = n /\ n > 0
      BY <1>0, <1>2, <1>4, <2>2, <3>1
    <3>3. T[n] = "CR"
      BY <1>0, <1>2, <2>2, <3>1
    <3>4. b = n - 1
      BY <1>5, <3>2, <3>3
    <3> QED
      BY <1>2, <2>2, <3>2, <3>4
  <2> QED
    BY <2>1, <2>2
<1> HIDE DEF b
<1>9. \A i \in k + 1 .. b : ~EndsEvent(T, i)
  BY <1>8 DEF EndsEvent, LineEnds
<1>10. ContentUpto(T, b) = ContentUpto(T, k)
  BY <1>2, <1>7, <1>9, UptoSame
<1> QED
  BY <1>1, <1>10 DEF b

(* Between two chunks: every line of the body that is known to have ended was *)
(* processed, and c is what was returned.                                     *)
KeepsUp(bytes, d, c) ==
    /\ Reading(Chars(bytes), d, c)
    /\ Settled(Chars(bytes), d)
    /\ Exhausted(d, FALSE)
    /\ d.events = <<>>

LEMMA NothingOut == ASSUME NEW d, NEW c \in Seq(Content), d.events = <<>> PROVE Out(d, c) = c
<1>1. Only(d.events, Content) = <<>>
  BY OnlyEmpty
<1> QED
  BY <1>1, ConcatEmptySeq DEF Out

(* So what was returned is what the body says so far. *)
LEMMA UpToDate ==
    ASSUME NEW bytes \in Seq(Byte), NEW d, NEW c \in Seq(Content), KeepsUp(bytes, d, c)
    PROVE  c = SaidSoFar(bytes)
<1>1. Chars(bytes) \in Seq(Char)
  BY CharsTyped
<1>2. Out(d, c) = ContentUpto(Chars(bytes), Bound(Chars(bytes)))
  BY <1>1, SaidIs DEF KeepsUp
<1>3. Out(d, c) = c
  BY NothingOut DEF KeepsUp
<1>4. SaidSoFar(bytes) = ContentUpto(Chars(bytes), Bound(Chars(bytes)))
  BY Zenon DEF SaidSoFar, Bound
<1> QED
  BY <1>2, <1>3, <1>4

(* More text leaves the decoder where it was. *)
LEMMA MoreText ==
    ASSUME NEW T \in Seq(Char), NEW d, NEW c \in Seq(Content),
           Reading(T, d, c), Settled(T, d),
           NEW U \in Seq(Char), NEW e \in Decoder, e.text = d.text \o U,
           e.lines = d.lines, e.events = d.events, e.complete = d.complete, ~e.failed
    PROVE  Reading(T \o U, e, c) /\ Settled(T \o U, e)
<1> DEFINE V == T \o U
           k == At(T, d)
<1>1. /\ d \in Decoder /\ ~d.failed /\ Len(d.text) <= Len(T)
      /\ d.text = SubSeq(T, k + 1, Len(T))
      /\ Out(d, c) = ContentUpto(T, k)
      /\ Owes(Says(T, k), d, c)
      /\ EndKnown(T, d)
      /\ k > 0 => T[k] \in LineEnds
      /\ k > 0 /\ T[k] = "CR" /\ k < Len(T) => T[k + 1] # "LF"
      /\ k > 0 /\ T[k] = "CR" => k < Len(T)
  BY DEF Reading, Settled
<1>2. /\ k \in 0 .. Len(T) /\ Len(T) \in Nat /\ Len(d.text) = Len(T) - k
      /\ d.text \in Seq(Char)
      /\ \A j \in 1 .. Len(d.text) : d.text[j] = T[k + j]
  BY <1>1, Positions
<1>3. /\ V \in Seq(Char) /\ Len(V) = Len(T) + Len(U) /\ Len(U) \in Nat
      /\ \A j \in 1 .. Len(T) : V[j] = T[j]
      /\ \A j \in 1 .. Len(U) : V[Len(T) + j] = U[j]
  OBVIOUS
<1>4. /\ Len(e.text) = Len(d.text) + Len(U) /\ e.text \in Seq(Char)
      /\ \A j \in 1 .. Len(d.text) : e.text[j] = d.text[j]
      /\ \A j \in 1 .. Len(U) : e.text[Len(d.text) + j] = U[j]
  <2> DEFINE t == d.text
  <2>1. t \in Seq(Char) /\ e.text = t \o U
    BY <1>2
  <2> HIDE DEF t
  <2>2. /\ Len(e.text) = Len(t) + Len(U) /\ e.text \in Seq(Char)
        /\ \A j \in 1 .. Len(t) : e.text[j] = t[j]
        /\ \A j \in 1 .. Len(U) : e.text[Len(t) + j] = U[j]
    BY <2>1
  <2> QED
    BY <2>2 DEF t
<1> HIDE DEF V
<1>5. At(V, e) = k
  BY <1>2, <1>3, <1>4 DEF At
<1>6. ContentUpto(V, k) = ContentUpto(T, k) /\ Says(V, k) = Says(T, k)
  BY <1>2, UptoExtends DEF V
<1> HIDE DEF k
<1>7. e.text = SubSeq(V, k + 1, Len(V))
  <2>1. /\ SubSeq(V, k + 1, Len(V)) \in Seq(Char) /\ Len(SubSeq(V, k + 1, Len(V))) = Len(V) - k
        /\ \A j \in 1 .. Len(V) - k : SubSeq(V, k + 1, Len(V))[j] = V[k + j]
    <3>1. k \in 0 .. Len(V) /\ Len(V) \in k .. Len(V)
      BY <1>2, <1>3
    <3> QED
      BY <1>3, <3>1, Parts
  <2>2. \A j \in 1 .. Len(V) - k : e.text[j] = V[k + j]
    <3> SUFFICES ASSUME NEW j \in 1 .. Len(V) - k PROVE e.text[j] = V[k + j]
      OBVIOUS
    <3>1. CASE j <= Len(d.text)
      <4>1. j \in 1 .. Len(d.text) /\ k + j \in 1 .. Len(T)
        BY <1>2, <1>3, <3>1
      <4> QED
        BY <1>2, <1>3, <1>4, <4>1
    <3>2. CASE ~(j <= Len(d.text))
      <4> DEFINE i == j - Len(d.text)
      <4>1. i \in 1 .. Len(U) /\ j = Len(d.text) + i /\ k + j = Len(T) + i
        BY <1>2, <1>3, <3>2
      <4> HIDE DEF i
      <4> QED
        BY <1>3, <1>4, <4>1
    <3> QED
      BY <3>1, <3>2
  <2>3. Len(e.text) = Len(V) - k
    BY <1>2, <1>3, <1>4
  <2> DEFINE s == SubSeq(V, k + 1, Len(V))
             t == e.text
  <2>4. s \in Seq(Char) /\ t \in Seq(Char) /\ Len(s) = Len(t)
        /\ \A j \in 1 .. Len(t) : t[j] = s[j]
    BY <1>4, <2>1, <2>2, <2>3
  <2> HIDE DEF s, t
  <2>5. t = s
    BY <2>4, SeqEqual
  <2> QED
    BY <2>5 DEF s, t
<1>8. Out(e, c) = Out(d, c) /\ Owes(Says(V, k), e, c)
  BY <1>1, <1>6 DEF Out, Owes
<1>9. EndKnown(V, e)
  <2>1. HasEnd(T) => HasEnd(V)
    <3> SUFFICES ASSUME NEW i \in DOMAIN T, T[i] = "end" PROVE HasEnd(V)
      BY DEF HasEnd
    <3>1. i \in 1 .. Len(T) /\ DOMAIN V = 1 .. Len(V)
      BY <1>3
    <3>2. i \in DOMAIN V /\ V[i] = "end"
      BY <1>2, <1>3, <3>1
    <3> QED
      BY <3>2 DEF HasEnd
  <2> QED
    BY <1>1, <2>1 DEF EndKnown
<1>10. /\ k > 0 => V[k] \in LineEnds
       /\ k > 0 /\ V[k] = "CR" => k < Len(V) /\ V[k + 1] # "LF"
  <2>1. k > 0 => V[k] = T[k]
    BY <1>2, <1>3
  <2>2. k < Len(T) => V[k + 1] = T[k + 1] /\ k < Len(V)
    BY <1>2, <1>3
  <2> QED
    BY <1>1, <2>1, <2>2
<1>11. Len(e.text) <= Len(V)
  BY <1>1, <1>2, <1>3, <1>4
<1>12. Reading(V, e, c)
  BY <1>1, <1>5, <1>6, <1>7, <1>8, <1>9, <1>10, <1>11 DEF Reading
<1>13. Settled(V, e)
  BY <1>5, <1>10 DEF Settled
<1> QED
  BY <1>12, <1>13 DEF V

(* One chunk: the decoder keeps up, or it met a malformed event. *)
LEMMA FeedKeepsUp ==
    ASSUME NEW bytes \in Seq(Byte), NEW d, NEW c \in Seq(Content), KeepsUp(bytes, d, c),
           NEW chunk \in Seq(Byte), ~Feed(d, chunk).failed
    PROVE  /\ Feed(d, chunk) \in Decoder
           /\ Out(Feed(d, chunk), c) \in Seq(Content)
           /\ KeepsUp(bytes \o chunk, [Feed(d, chunk) EXCEPT !.events = <<>>],
                      Out(Feed(d, chunk), c))
<1> DEFINE all == IF d.half THEN <<"x1">> \o chunk ELSE chunk
           read == [d EXCEPT !.half = all[Len(all)] = "x1",
                             !.text = d.text \o Chars(all),
                             !.events = <<>>]
           T == Chars(bytes)
           U == Chars(chunk)
           r == Drain(read, FALSE)
<1>1. T \in Seq(Char) /\ U \in Seq(Char) /\ Chars(bytes \o chunk) = T \o U
  BY CharsTyped, CharsConcat
<1>2. Chars(all) = U
  BY CharsOfHalf
<1>3. Feed(d, chunk) = IF WellFormed(all) THEN r ELSE [read EXCEPT !.failed = TRUE]
  BY DEF Feed
<1>4. d \in Decoder /\ ~d.failed /\ d.events = <<>>
  BY DEF KeepsUp, Reading
<1>5. /\ read \in Decoder /\ read.text = d.text \o U /\ read.lines = d.lines
      /\ read.events = <<>> /\ read.complete = d.complete /\ ~read.failed
  <2> DEFINE half == all[Len(all)] = "x1"
             text == d.text \o U
  <2>1. text \in Seq(Char) /\ half \in BOOLEAN /\ <<>> \in Seq(Event)
    <3>1. d.text \in Seq(Char)
      BY <1>4 DEF Decoder
    <3>2. text \in Seq(Char)
      BY <1>1, <3>1, ConcatProperties
    <3> QED
      BY <3>2, EmptySeq
  <2> HIDE DEF U, all
  <2>2. read = [d EXCEPT !.half = half, !.text = text, !.events = <<>>]
    BY <1>2
  <2> HIDE DEF half, read, text
  <2>3. /\ read \in Decoder /\ read.text = text /\ read.lines = d.lines
        /\ read.events = <<>> /\ read.complete = d.complete /\ read.failed = d.failed
    BY <1>4, <2>1, <2>2 DEF Decoder
  <2> QED
    BY <1>4, <2>3 DEF text
<1> HIDE DEF all, read
<1>6. Feed(d, chunk) = r
  <2> SUFFICES ASSUME ~WellFormed(all) PROVE FALSE
    BY <1>3
  <2>1. Feed(d, chunk) = [read EXCEPT !.failed = TRUE]
    BY <1>3
  <2>2. Feed(d, chunk).failed = TRUE
    BY <1>5, <2>1 DEF Decoder
  <2> QED
    BY <2>2
<1>7. Reading(T \o U, read, c) /\ Settled(T \o U, read)
  BY <1>1, <1>4, <1>5, MoreText DEF KeepsUp
<1> DEFINE V == T \o U
<1>8. V \in Seq(Char)
  BY <1>1, ConcatProperties
<1> HIDE DEF V, T, U
<1>9. /\ r \in Decoder /\ Reading(V, r, c) /\ Settled(V, r) /\ Exhausted(r, FALSE)
  <2>1. ~r.failed
    BY <1>6
  <2> QED
    BY <1>5, <1>7, <1>8, <2>1, DrainReads DEF V
<1> HIDE DEF r
<1> DEFINE o == Out(r, c)
           e == [r EXCEPT !.events = <<>>]
<1>10. o \in Seq(Content)
  BY <1>9, OutTyped
<1>11. /\ e \in Decoder /\ e.text = r.text /\ e.lines = r.lines /\ e.events = <<>>
       /\ e.complete = r.complete /\ e.failed = r.failed
  <2>1. <<>> \in Seq(Event)
    BY EmptySeq
  <2> QED
    BY <1>9, <2>1 DEF Decoder
<1> HIDE DEF o, e
<1>12. Out(e, o) = Out(r, c)
  BY <1>10, <1>11, NothingOut DEF o
<1>13. At(V, e) = At(V, r)
  BY <1>11 DEF At
<1>14. Owes(Says(V, At(V, e)), e, o)
  BY <1>9, <1>11, <1>12, <1>13 DEF Reading, Owes
<1>15. EndKnown(V, e)
  BY <1>9, <1>11 DEF Reading, EndKnown
<1>16. Reading(V, e, o) /\ Settled(V, e)
  BY <1>9, <1>11, <1>12, <1>13, <1>14, <1>15 DEF Reading, Settled
<1>17. Exhausted(e, FALSE)
  BY <1>9, <1>11 DEF Exhausted
<1>18. KeepsUp(bytes \o chunk, e, o)
  BY <1>1, <1>11, <1>16, <1>17 DEF KeepsUp, V
<1> QED
  BY <1>6, <1>9, <1>10, <1>18 DEF e, o

(* The end of the stream: all is said, and it was complete if it says so. *)
LEMMA AtEndSaysAll ==
    ASSUME NEW bytes \in Seq(Byte), NEW d, NEW c \in Seq(Content), KeepsUp(bytes, d, c),
           ~AtEnd(d).failed
    PROVE  /\ AtEnd(d) \in Decoder
           /\ Out(AtEnd(d), c) = SaidInAll(bytes)
           /\ AtEnd(d).complete => \E i \in DOMAIN bytes : bytes[i] = "end"
<1> DEFINE T == Chars(bytes)
           s == [d EXCEPT !.events = <<>>]
           r == Drain(s, TRUE)
<1>1. T \in Seq(Char)
  BY CharsTyped
<1>2. d \in Decoder /\ d.events = <<>> /\ Reading(T, d, c)
  BY DEF KeepsUp, Reading
<1>3. s = d
  BY <1>2 DEF Decoder
<1>4. AtEnd(d) = IF d.half THEN [d EXCEPT !.failed = TRUE]
                 ELSE IF r.failed THEN r ELSE Dispatch(r)
  BY DEF AtEnd
<1>5. ~d.half
  <2> SUFFICES ASSUME d.half PROVE FALSE
    OBVIOUS
  <2>1. AtEnd(d).failed = TRUE
    BY <1>2, <1>4 DEF Decoder
  <2> QED
    BY <2>1
<1> HIDE DEF s
<1>6. ~r.failed /\ AtEnd(d) = Dispatch(r)
  BY <1>4, <1>5
<1>7. r = Drain(d, TRUE)
  BY <1>3
<1> HIDE DEF r, T
<1>8. r \in Decoder /\ Owes(Says(T, Len(T)), r, c) /\ EndKnown(T, r)
  BY <1>1, <1>2, <1>6, <1>7, DrainFinishes
<1>9. /\ Dispatch(r) \in Decoder
      /\ Out(Dispatch(r), c) = Says(T, Len(T))
      /\ EndKnown(T, Dispatch(r))
  BY <1>6, <1>8, DispatchOwes, DispatchTyped
<1>10. Says(T, Len(T)) = SaidInAll(bytes)
  <2>1. SubSeq(T, 1, Len(T)) = T
    BY <1>1, SubSeqFull
  <2> QED
    BY Zenon, <2>1 DEF Says, SaidInAll, T
<1>11. AtEnd(d).complete => HasEnd(T)
  BY <1>6, <1>9 DEF EndKnown
<1>12. HasEnd(T) => \E i \in DOMAIN bytes : bytes[i] = "end"
  BY EndWasReceived DEF HasEnd, T
<1> QED
  BY <1>6, <1>9, <1>10, <1>11, <1>12

-----------------------------------------------------------------------------
(* The invariant of the answer *)

(* Outside of a stream nothing of an answer is kept; in one, the decoder      *)
(* keeps up with the body and what is shown was read.                         *)
Told ==
    IF pc = "streaming"
    THEN KeepsUp(body, decoder, content) /\ StartsWith(content, shown)
    ELSE shown = <<>> /\ content = <<>> /\ decoder = NewDecoder /\ body = <<>>

Heard == TypeOK /\ Told

LEMMA NewDecoderTyped == NewDecoder \in Decoder
<1>1. <<>> \in Seq(Char) /\ <<>> \in Seq(Seq(Char)) /\ <<>> \in Seq(Event)
  BY EmptySeq
<1> QED
  BY <1>1 DEF NewDecoder, Decoder

(* A decoder that was given nothing. *)
LEMMA KeepsUpFirst == KeepsUp(<<>>, NewDecoder, <<>>)
<1> DEFINE T == <<>>
           d == NewDecoder
<1>1. T \in Seq(Char) /\ T \in Seq(Content) /\ Len(T) = 0 /\ Chars(<<>>) = T
  BY EmptySeq, CharsOfNone
<1>2. /\ d \in Decoder /\ ~d.failed /\ d.text = T /\ d.lines = T /\ d.events = T
      /\ ~d.complete
  BY NewDecoderTyped DEF NewDecoder
<1> HIDE DEF d
<1>3. SubSeq(T, 0 + 1, 0) = T
  <2>1. 0 \in 0 .. Len(T) /\ 0 \in 0 .. Len(T) /\ 0 - 0 = 0
    BY <1>1
  <2>2. SubSeq(T, 0 + 1, 0) \in Seq(Char) /\ Len(SubSeq(T, 0 + 1, 0)) = 0
    BY <1>1, <2>1, Parts
  <2> QED
    BY <2>2, EmptySeq
<1>4. Says(T, 0) = T
  <2>1. SubSeq(T, 1, 0) = T
    BY <1>3
  <2> QED
    BY <2>1, OnlyEmpty DEF Says
<1>5. ContentUpto(T, 0) = T
  <2>1. EventEnds(T, 0) = {}
    BY DEF EventEnds
  <2> QED
    BY <2>1, UptoIs DEF SaysTo
<1>6. Out(d, T) = T
  BY <1>1, <1>2, NothingOut
<1>7. At(T, d) = 0
  BY <1>1, <1>2 DEF At
<1>8. LineEnd(T) = 0
  <2>1. LineEnd(T) \in 0 .. Len(T)
    BY <1>1, LineEndIs
  <2> QED
    BY <1>1, <2>1
<1>9. Owes(T, d, T) /\ EndKnown(T, d)
  BY <1>1, <1>2, <1>6 DEF Owes, EndKnown
<1>10. Reading(T, d, T)
  <2>1. T = SubSeq(T, 0 + 1, Len(T))
    BY <1>1, <1>3
  <2> QED
    BY <1>1, <1>2, <1>4, <1>5, <1>6, <1>7, <1>9, <2>1 DEF Reading
<1>11. Settled(T, d) /\ Exhausted(d, FALSE)
  BY <1>2, <1>7, <1>8 DEF Settled, Exhausted
<1> QED
  BY <1>1, <1>2, <1>10, <1>11 DEF KeepsUp, d

-----------------------------------------------------------------------------
(* What is shown *)

LEMMA StartsWithSame ==
    ASSUME NEW s \in Seq(Content)
    PROVE  StartsWith(s, s) /\ StartsWith(s, <<>>)
<1>1. SubSeq(s, 1, Len(s)) = s /\ Len(s) \in Nat
  BY SubSeqFull
<1>2. SubSeq(s, 1, 0) = <<>> /\ Len(<<>>) = 0
  <2>1. SubSeq(s, 1, 0) = <<>>
    BY SubSeqEmpty
  <2> QED
    BY <2>1
<1> QED
  BY <1>1, <1>2 DEF StartsWith

(* More of an answer still starts with what was shown of it. *)
LEMMA StartsWithMore ==
    ASSUME NEW s \in Seq(Content), NEW t \in Seq(Content), StartsWith(t, s),
           NEW u \in Seq(Content)
    PROVE  StartsWith(t \o u, s)
<1> DEFINE v == t \o u
           n == Len(s)
<1>1. /\ v \in Seq(Content) /\ Len(v) >= Len(t) /\ Len(v) \in Nat /\ Len(t) \in Nat
      /\ \A i \in 1 .. Len(t) : v[i] = t[i]
  OBVIOUS
<1>2. n \in Nat /\ n <= Len(t) /\ SubSeq(t, 1, n) = s
  BY DEF StartsWith
<1> HIDE DEF v, n
<1>3. /\ SubSeq(v, 1, n) \in Seq(Content) /\ Len(SubSeq(v, 1, n)) = n
      /\ \A i \in 1 .. n : SubSeq(v, 1, n)[i] = v[i]
  BY <1>1, <1>2
<1>4. /\ SubSeq(t, 1, n) \in Seq(Content) /\ Len(SubSeq(t, 1, n)) = n
      /\ \A i \in 1 .. n : SubSeq(t, 1, n)[i] = t[i]
  BY <1>1, <1>2
<1> DEFINE a == SubSeq(v, 1, n)
           b == SubSeq(t, 1, n)
<1>5. a \in Seq(Content) /\ b \in Seq(Content) /\ Len(a) = Len(b)
      /\ \A i \in 1 .. Len(a) : a[i] = b[i]
  BY <1>1, <1>2, <1>3, <1>4
<1> HIDE DEF a, b
<1>6. a = b
  BY <1>5, SeqEqual
<1> QED
  BY <1>1, <1>2, <1>6 DEF StartsWith, a, b, v, n

(* Whatever event was published last, no more than all is shown, and no less  *)
(* than before.                                                               *)
LEMMA Publishing ==
    ASSUME Heard, pc = "streaming", NEW events \in Seq(Event), NEW k \in 0 .. Len(events)
    PROVE  /\ Publication(events, k) \in Seq(Content)
           /\ StartsWith(Publication(events, k), shown)
           /\ StartsWith(content \o ContentOf(events), Publication(events, k))
           /\ content \o ContentOf(events) \in Seq(Content)
           /\ StartsWith(content \o ContentOf(events), shown)
<1>1. content \in Seq(Content) /\ shown \in Seq(Content) /\ StartsWith(content, shown)
  BY DEF Heard, TypeOK, Told
<1>2. ContentOf(events) \in Seq(Content)
  BY OnlyTyped DEF ContentOf
<1>3. /\ content \o ContentOf(events) \in Seq(Content)
      /\ StartsWith(content \o ContentOf(events), shown)
  BY <1>1, <1>2, StartsWithMore, ConcatProperties
<1>4. CASE k = 0
  BY <1>1, <1>3, <1>4, StartsWithSame DEF Publication
<1>5. CASE k # 0
  <2> DEFINE a == SubSeq(events, 1, k)
             b == SubSeq(events, k + 1, Len(events))
  <2>1. a \in Seq(Event) /\ b \in Seq(Event) /\ a \o b = events
    <3>1. Len(events) \in Nat /\ k \in 1 .. Len(events)
      BY <1>5
    <3>2. a \in Seq(Event)
      BY <3>1
    <3>3. b \in Seq(Event)
      BY <3>1
    <3>4. a \o b = SubSeq(events, 1, Len(events))
      <4>1. 1 \in 1 .. Len(events) + 1 /\ k \in 1 - 1 .. Len(events)
            /\ Len(events) \in k .. Len(events)
        BY <3>1
      <4> QED
        BY <4>1, ConcatAdjacentSubSeq
    <3>5. SubSeq(events, 1, Len(events)) = events
      BY SubSeqFull
    <3> QED
      BY <3>2, <3>3, <3>4, <3>5
  <2> HIDE DEF a, b
  <2> DEFINE x == ContentOf(a)
             y == ContentOf(b)
  <2>2. x \in Seq(Content) /\ y \in Seq(Content)
    BY <2>1, OnlyTyped DEF ContentOf
  <2>3. ContentOf(events) = x \o y
    <3>1. Only(a \o b, Content) = Only(a, Content) \o Only(b, Content)
      <4>1. a \in Seq(Event) /\ b \in Seq(Event)
        BY <2>1
      <4> QED
        BY <4>1, OnlyConcat
    <3> QED
      BY Zenon, <2>1, <3>1 DEF ContentOf
  <2>4. Publication(events, k) = content \o x
    BY <1>5 DEF Publication, a
  <2> HIDE DEF x, y
  <2>5. content \o (x \o y) = (content \o x) \o y
    <3> DEFINE l == content \o (x \o y)
               r == (content \o x) \o y
    <3>1. /\ l \in Seq(Content) /\ r \in Seq(Content) /\ Len(l) = Len(r)
          /\ \A i \in 1 .. Len(l) : l[i] = r[i]
      BY <1>1, <2>2
    <3> HIDE DEF l, r
    <3>2. l = r
      BY <3>1, SeqEqual
    <3> QED
      BY <3>2 DEF l, r
  <2>6. content \o x \in Seq(Content) /\ StartsWith(content \o x, shown)
    BY <1>1, <2>2, StartsWithMore, ConcatProperties
  <2>7. StartsWith((content \o x) \o y, content \o x)
    BY <2>2, <2>6, StartsWithMore, StartsWithSame
  <2> QED
    BY <1>3, <2>3, <2>4, <2>5, <2>6, <2>7
<1> QED
  BY <1>4, <1>5

-----------------------------------------------------------------------------
(* What a step can do to an answer *)

Outcome == {"completed", "cancelled", "error"}

(* A generation ends with no less than was shown: with all that was read if   *)
(* it was cancelled, and with all that was said if a stream was complete.     *)
Concludes(outcome, text, told) ==
    /\ Finish(outcome, text, told)
    /\ outcome \in Outcome /\ told \in BOOLEAN /\ text \in Seq(Content)
    /\ StartsWith(text, shown)
    /\ outcome = "cancelled" => text = content
    /\ outcome = "completed" /\ pc = "streaming" =>
          text = SaidInAll(body) /\ \E i \in DOMAIN body : body[i] = "end"

Ended == \E outcome, text, told : Concludes(outcome, text, told)

(* The steps that neither read nor end an answer. *)
Continues ==
    \/ Begin \/ BeginFails \/ ClearConversation \/ UpdatePreferences \/ Enter \/ Rejected
    \/ RetryWithoutUsage \/ RetryWithoutStreaming \/ CancelRunning \/ CancelReserved

Opens(place) ==
    /\ pc = "sending" /\ pc' = place /\ place \in {"streaming", "loading"}
    /\ status' = "streaming"
    /\ UNCHANGED <<session, active, shown, notice, request, stream, cancel>>

Hears(chunk) ==
    LET fed == Feed(decoder, chunk)
    IN  /\ pc = "streaming" /\ ~fed.failed
        /\ decoder' = [fed EXCEPT !.events = <<>>]
        /\ body' = body \o chunk
        /\ Progress(fed.events)

(* An end that keeps what was read, or what is shown, is no conclusion of a   *)
(* stream.                                                                    *)
LEMMA ErrorConcludes ==
    ASSUME Heard, NEW text \in Seq(Content), NEW told \in BOOLEAN, Finish("error", text, told),
           StartsWith(text, shown)
    PROVE  Ended
<1>1. Concludes("error", text, told)
  BY DEF Concludes, Outcome
<1> QED
  BY <1>1 DEF Ended

(* What was read starts with what is shown, inside of a stream or not. *)
LEMMA ReadIsShown ==
    ASSUME Heard
    PROVE  /\ content \in Seq(Content) /\ shown \in Seq(Content) /\ notice \in BOOLEAN
           /\ StartsWith(content, shown) /\ StartsWith(shown, shown)
<1>1. content \in Seq(Content) /\ shown \in Seq(Content) /\ notice \in BOOLEAN
  BY DEF Heard, TypeOK
<1>2. StartsWith(shown, shown) /\ StartsWith(content, <<>>)
  BY <1>1, StartsWithSame
<1>3. StartsWith(content, shown)
  BY <1>2 DEF Heard, Told
<1> QED
  BY <1>1, <1>2, <1>3

LEMMA FailConcludes == ASSUME Heard, Fail PROVE Ended
  BY ErrorConcludes, ReadIsShown DEF Fail

LEMMA UnexpectedConcludes == ASSUME Heard, FailUnexpectedly(shown, notice) PROVE Ended
  BY ErrorConcludes, ReadIsShown DEF FailUnexpectedly

(* A callback that raises leaves what was published, which is no less than    *)
(* what was shown before.                                                     *)
LEMMA RaiseConcludes ==
    ASSUME Heard, pc = "streaming", NEW events \in Seq(Event), ProgressRaises(events)
    PROVE  Ended
<1>1. PICK k \in DOMAIN events : Finish("error", Publication(events, k), notice)
  BY DEF ProgressRaises, FailUnexpectedly
<1>2. k \in 0 .. Len(events)
  OBVIOUS
<1>3. Publication(events, k) \in Seq(Content) /\ StartsWith(Publication(events, k), shown)
  BY <1>2, Publishing
<1> QED
  BY <1>1, <1>3, ErrorConcludes, ReadIsShown

LEMMA ChunkTyped ==
    ASSUME NEW chunk \in Chunks
    PROVE  chunk \in Seq(Byte)
<1>1. PICK n \in {n \in 1 .. MaxChunk : n + Len(body) <= MaxBody} : chunk \in [1 .. n -> Byte]
  BY DEF Chunks
<1>2. n \in Nat
  BY <1>1, BoundAssumption
<1> QED
  BY <1>1, <1>2

(* A chunk is read, or it ends the generation. *)
LEMMA ReadKinds ==
    ASSUME Heard, NEW chunk \in Chunks, Read(chunk)
    PROVE  Hears(chunk) \/ Ended
<1> DEFINE fed == Feed(decoder, chunk)
<1>1. pc = "streaming"
  BY DEF Read, Awaits
<1>2. CASE fed.failed
  <2>1. Fail
    BY <1>2 DEF Read
  <2> QED
    BY <2>1, FailConcludes
<1>3. CASE ~fed.failed
  <2>1. fed \in Decoder
    <3>1. body \in Seq(Byte) /\ content \in Seq(Content) /\ KeepsUp(body, decoder, content)
      BY <1>1 DEF Heard, TypeOK, Told
    <3> QED
      BY <1>3, <3>1, ChunkTyped, FeedKeepsUp
  <2>2. fed.events \in Seq(Event)
    BY <2>1 DEF Decoder
  <2>3. \/ /\ decoder' = [fed EXCEPT !.events = <<>>]
           /\ body' = body \o chunk
           /\ Progress(fed.events)
        \/ ProgressRaises(fed.events)
    BY <1>3 DEF Read
  <2> HIDE DEF fed
  <2>4. CASE ProgressRaises(fed.events)
    BY <1>1, <2>2, <2>4, RaiseConcludes
  <2>5. CASE /\ decoder' = [fed EXCEPT !.events = <<>>]
             /\ body' = body \o chunk
             /\ Progress(fed.events)
    BY Zenon, <1>1, <1>3, <2>5 DEF Hears, fed
  <2> QED
    BY <2>3, <2>4, <2>5
<1> QED
  BY <1>2, <1>3

(* The end of the stream, whole or not, loses nothing. *)
LEMMA EndOfStreamConcludes ==
    ASSUME Heard, EndOfStream
    PROVE  Ended
<1> DEFINE ended == AtEnd(decoder)
           whole == content \o ContentOf(ended.events)
<1>1. pc = "streaming"
  BY DEF EndOfStream, Awaits
<1>2. CASE ended.failed
  <2>1. Fail
    BY <1>2 DEF EndOfStream
  <2> QED
    BY <2>1, FailConcludes
<1>3. CASE ~ended.failed
  <2>1. /\ ended \in Decoder
        /\ Out(ended, content) = SaidInAll(body)
        /\ ended.complete => \E i \in DOMAIN body : body[i] = "end"
    <3>1. body \in Seq(Byte) /\ content \in Seq(Content) /\ KeepsUp(body, decoder, content)
      BY <1>1 DEF Heard, TypeOK, Told
    <3> QED
      BY <1>3, <3>1, AtEndSaysAll
  <2>2. ended.events \in Seq(Event)
    BY <2>1 DEF Decoder
  <2>3. whole = SaidInAll(body)
    BY Zenon, <2>1 DEF Out, ContentOf
  <2>4. \/ ended.complete /\ Complete(whole, FALSE)
        \/ ~ended.complete /\ Finish("error", whole, FALSE)
        \/ ProgressRaises(ended.events)
    BY <1>3 DEF EndOfStream
  <2>5. whole \in Seq(Content) /\ StartsWith(whole, shown)
    <3>1. 0 \in 0 .. Len(ended.events)
      BY <2>2
    <3> QED
      BY <1>1, <2>2, <3>1, Publishing
  <2> HIDE DEF ended, whole
  <2>6. CASE ended.complete /\ Finish("completed", whole, FALSE)
    <3>1. Concludes("completed", whole, FALSE)
      BY <2>1, <2>3, <2>5, <2>6 DEF Concludes, Outcome
    <3> QED
      BY <3>1 DEF Ended
  <2>7. CASE Finish("error", whole, FALSE)
    BY <2>5, <2>7, ErrorConcludes
  <2>8. CASE ProgressRaises(ended.events)
    BY <1>1, <2>2, <2>8, RaiseConcludes
  <2> QED
    BY <2>4, <2>6, <2>7, <2>8 DEF Complete, FailUnexpectedly
<1> QED
  BY <1>2, <1>3

LEMMA LoadConcludes ==
    ASSUME Heard, Load
    PROVE  Ended
<1>1. pc = "loading" /\ shown = <<>>
  BY DEF Load, Awaits, Heard, Told
<1>2. \A text \in {<<>>, <<"x">>} : text \in Seq(Content) /\ StartsWith(text, shown)
  <2>1. <<>> \in Seq(Content) /\ <<"x">> \in Seq(Content)
    BY DEF Content
  <2> QED
    BY <1>1, <2>1, StartsWithSame
<1>3. ASSUME NEW text \in {<<>>, <<"x">>}, Finish("error", text, TRUE)
      PROVE  Ended
  BY <1>2, <1>3, ErrorConcludes
<1>4. ASSUME NEW text \in {<<>>, <<"x">>}, Finish("completed", text, TRUE)
      PROVE  Ended
  <2>1. Concludes("completed", text, TRUE)
    BY <1>1, <1>2, <1>4 DEF Concludes, Outcome
  <2> QED
    BY <2>1 DEF Ended
<1> QED
  BY <1>3, <1>4 DEF Load, Complete, FailUnexpectedly

LEMMA CancelledConcludes ==
    ASSUME Heard, Cancelled
    PROVE  Ended
<1>1. Concludes("cancelled", content, FALSE)
  BY ReadIsShown DEF Cancelled, Concludes, Outcome
<1> QED
  BY <1>1 DEF Ended

LEMMA StartedKinds ==
    ASSUME Heard, NEW place \in {"streaming", "loading"}, Started(place)
    PROVE  Opens(place) \/ Ended
<1>1. CASE FailUnexpectedly(shown, notice)
  BY <1>1, UnexpectedConcludes
<1>2. CASE ~FailUnexpectedly(shown, notice)
  BY <1>2 DEF Started, Awaits, Opens
<1> QED
  BY <1>1, <1>2

(* A step goes on with the request, opens its answer, reads a chunk of it or  *)
(* ends it.                                                                   *)
LEMMA StepKinds ==
    ASSUME Heard, Next
    PROVE  \/ Continues
           \/ \E place : Opens(place)
           \/ \E chunk \in Chunks : Hears(chunk)
           \/ Ended
<1>1. CASE StreamStarts \/ JsonStarts
  BY <1>1, StartedKinds DEF StreamStarts, JsonStarts
<1>2. CASE GiveUp \/ Breaks
  BY <1>2, FailConcludes DEF GiveUp, Breaks
<1>3. CASE BreaksUnexpectedly
  BY <1>3, UnexpectedConcludes DEF BreaksUnexpectedly
<1> QED
  BY <1>1, <1>2, <1>3, ReadKinds, EndOfStreamConcludes, LoadConcludes, CancelledConcludes
     DEF Next, Continues

-----------------------------------------------------------------------------
(* The invariant of the answer holds *)

LEMMA TurnTyped ==
    ASSUME TypeOK, NEW m \in Message
    PROVE  Append(messages, m) \in Seq(Message)
<1> HIDE DEF Message
<1> QED
  BY DEF TypeOK

LEMMA BeginTyped ==
    ASSUME Heard, Reserve
    PROVE  /\ latest' \in 0 .. MaxTurns
           /\ messages' \in Seq(Message)
           /\ notice' \in BOOLEAN
           /\ User(latest') \in Message /\ System \in Message
<1>1. latest \in 0 .. MaxTurns /\ latest' = latest + 1 /\ latest < MaxTurns
      /\ messages' = Append(messages, User(latest')) /\ notice' = FALSE
  BY DEF Heard, TypeOK, Reserve
<1>2. latest' \in 0 .. MaxTurns /\ latest' \in Nat
  BY <1>1, BoundAssumption
<1>3. User(latest') \in Message /\ System \in Message
  <2>1. <<>> \in Seq(Content)
    BY EmptySeq
  <2> QED
    BY <1>2, <2>1 DEF User, System, Message
<1> QED
  BY <1>1, <1>2, <1>3, TurnTyped DEF Heard

LEMMA ContextTyped ==
    ASSUME NEW h \in Seq(Message), NEW p \in Message, System \in Message
    PROVE  (IF system THEN <<System>> ELSE <<>>) \o h \o <<p>> \in Seq(Message)
<1> DEFINE f == IF system THEN <<System>> ELSE <<>>
           l == <<p>>
<1> HIDE DEF Message
<1>1. f \in Seq(Message) /\ l \in Seq(Message)
  OBVIOUS
<1> HIDE DEF f, l
<1>2. f \o h \o l \in Seq(Message)
  BY <1>1
<1> QED
  BY <1>2 DEF f, l

LEMMA ContinuesTyped ==
    ASSUME Heard, Continues
    PROVE  TypeOK'
<1> USE DEF session, stream, request
<1> SUFFICES ASSUME TypeOK PROVE TypeOK'
  BY DEF Heard
<1>1. CASE Begin
  <2>1. /\ latest' \in 0 .. MaxTurns /\ messages' \in Seq(Message) /\ notice' \in BOOLEAN
        /\ User(latest') \in Message /\ System \in Message
    BY <1>1, BeginTyped DEF Begin
  <2>2. context' \in Seq(Message)
    <3>1. context' = (IF system THEN <<System>> ELSE <<>>) \o messages \o <<User(latest')>>
      BY <1>1 DEF Begin, RequestContext
    <3>2. messages \in Seq(Message)
      BY DEF TypeOK
    <3> QED
      BY <2>1, <3>1, <3>2, ContextTyped
  <2>3. shown' = <<>> /\ <<>> \in Seq(Content)
    BY <1>1, EmptySeq DEF Begin, Reserve
  <2>4. /\ active' = latest' /\ status' = "starting" /\ pc' = "pending"
        /\ UNCHANGED <<system, usage, plain, requests, decoder, body, content, cancel>>
    BY <1>1 DEF Begin, Reserve
  <2> QED
    BY <2>1, <2>2, <2>3, <2>4 DEF TypeOK
<1>2. CASE BeginFails
  <2>1. /\ latest' \in 0 .. MaxTurns /\ messages' \in Seq(Message) /\ notice' \in BOOLEAN
    BY <1>2, BeginTyped DEF BeginFails
  <2>2. shown' = <<>> /\ <<>> \in Seq(Content)
    BY <1>2, EmptySeq DEF BeginFails, Reserve
  <2>3. /\ status' = "error" /\ pc' = "crashed"
        /\ UNCHANGED <<active, context, system, usage, plain, requests, decoder, body,
                       content, cancel>>
    BY <1>2 DEF BeginFails, Reserve
  <2> QED
    BY <2>1, <2>2, <2>3 DEF TypeOK
<1>3. CASE ClearConversation
  <2>1. <<>> \in Seq(Content) /\ <<>> \in Seq(Message)
    BY EmptySeq
  <2>2. /\ messages' = <<>> /\ status' = "idle" /\ shown' = <<>> /\ notice' = FALSE
        /\ UNCHANGED <<system, latest, active, pc, context, usage, plain, requests,
                       decoder, body, content, cancel>>
    BY <1>3 DEF ClearConversation
  <2> QED
    BY <2>1, <2>2 DEF TypeOK
<1>4. CASE UpdatePreferences
  BY <1>4 DEF UpdatePreferences, TypeOK
<1>5. CASE Enter
  BY <1>5 DEF Enter, TypeOK, Waiting
<1>6. CASE Rejected
  BY <1>6 DEF Rejected, TypeOK, Waiting
<1>7. CASE RetryWithoutUsage
  <2>1. /\ usage' = FALSE /\ pc' = "sending" /\ requests' = requests + 1
        /\ UNCHANGED <<messages, system, latest, status, active, shown, notice, context,
                       plain, decoder, body, content, cancel>>
    BY <1>7 DEF RetryWithoutUsage, Resend
  <2>2. usage' \in BOOLEAN /\ requests' \in Nat /\ pc' \in Waiting
    <3>1. usage' \in BOOLEAN
      BY Zenon, <2>1
    <3>2. requests' \in Nat
      BY <2>1 DEF TypeOK
    <3>3. pc' \in Waiting
      BY <2>1 DEF Waiting
    <3> QED
      BY <3>1, <3>2, <3>3
  <2> HIDE DEF session, stream, request
  <2> QED
    BY <2>1, <2>2 DEF TypeOK
<1>8. CASE RetryWithoutStreaming
  BY <1>8 DEF RetryWithoutStreaming, Resend, TypeOK, Waiting
<1>9. CASE CancelRunning
  BY <1>9 DEF CancelRunning, TypeOK
<1>10. CASE CancelReserved
  <2>1. <<>> \in Seq(Content) /\ <<>> \in Seq(Message)
    BY EmptySeq
  <2>2. /\ status' = "cancelled" /\ notice' = FALSE /\ shown' = <<>> /\ active' = 0
        /\ pc' \in {"free", "stranded"} /\ context' = <<>>
        /\ UNCHANGED <<messages, system, latest, usage, plain, requests, decoder, body,
                       content, cancel>>
    BY <1>10 DEF CancelReserved
  <2> QED
    <3>2. notice' \in BOOLEAN
      BY Zenon, <2>2
    <3>1. /\ active' \in 0 .. MaxTurns /\ shown' \in Seq(Content)
          /\ context' \in Seq(Message)
          /\ pc' \in Waiting \cup {"free", "pending", "stranded", "crashed"}
          /\ status' \in {"idle", "starting", "streaming", "completed", "cancelled", "error"}
      BY <2>1, <2>2, BoundAssumption
    <3> HIDE DEF session, stream, request
    <3> QED
      BY <2>2, <3>1, <3>2 DEF TypeOK
<1> QED
  BY <1>1, <1>2, <1>3, <1>4, <1>5, <1>6, <1>7, <1>8, <1>9, <1>10 DEF Continues

LEMMA ContinuesTold ==
    ASSUME Heard, Continues
    PROVE  Told'
<1> USE DEF session, stream, request
<1>1. UNCHANGED <<decoder, body, content>> /\ shown' \in {shown, <<>>}
      /\ (pc' = "streaming" <=> pc = "streaming")
  BY DEF Continues, Begin, BeginFails, Reserve, ClearConversation, UpdatePreferences, Enter,
         Rejected, RetryWithoutUsage, RetryWithoutStreaming, Resend, Awaits, CancelRunning,
         CancelReserved
<1>2. CASE pc = "streaming"
  <2>1. KeepsUp(body, decoder, content) /\ StartsWith(content, shown)
        /\ content \in Seq(Content)
    BY <1>2 DEF Heard, Told, TypeOK
  <2>2. StartsWith(content, <<>>)
    BY <2>1, StartsWithSame
  <2>3. StartsWith(content, shown')
    BY <1>1, <2>1, <2>2
  <2>4. pc' = "streaming" /\ body' = body /\ decoder' = decoder /\ content' = content
    BY <1>1, <1>2
  <2> QED
    BY Zenon, <2>1, <2>3, <2>4 DEF Told
<1>3. CASE pc # "streaming"
  BY <1>1, <1>3 DEF Heard, Told
<1> QED
  BY <1>2, <1>3

LEMMA OpensHeard ==
    ASSUME Heard, NEW place, Opens(place)
    PROVE  Heard'
<1>1. TypeOK'
  BY DEF Heard, TypeOK, Opens, session, stream, request, Waiting
<1>2. /\ shown' = <<>> /\ content' = <<>> /\ decoder' = NewDecoder /\ body' = <<>>
      /\ pc' = place
  BY DEF Heard, Told, Opens, stream
<1>3. KeepsUp(body', decoder', content') /\ StartsWith(content', shown')
  <2>1. StartsWith(<<>>, <<>>)
    BY EmptySeq, StartsWithSame
  <2> QED
    BY <1>2, <2>1, KeepsUpFirst
<1>4. Told'
  BY <1>2, <1>3 DEF Told
<1> QED
  BY <1>1, <1>4 DEF Heard

LEMMA HearsHeard ==
    ASSUME Heard, NEW chunk \in Chunks, Hears(chunk)
    PROVE  Heard'
<1> DEFINE fed == Feed(decoder, chunk)
           next == [fed EXCEPT !.events = <<>>]
           said == content \o ContentOf(fed.events)
<1>1. pc = "streaming" /\ ~fed.failed
  BY DEF Hears
<1>2. /\ decoder' = next /\ body' = body \o chunk /\ content' = said
      /\ \E k \in LastPublished(fed.events) : shown' = Publication(fed.events, k)
      /\ UNCHANGED <<messages, system, latest, status, active, notice, pc, context, usage,
                     plain, requests, cancel>>
  BY DEF Hears, Progress, session, request
<1>3. /\ body \in Seq(Byte) /\ content \in Seq(Content) /\ KeepsUp(body, decoder, content)
      /\ chunk \in Seq(Byte)
  BY <1>1, ChunkTyped DEF Heard, TypeOK, Told
<1>4. /\ fed \in Decoder /\ Out(fed, content) \in Seq(Content)
      /\ KeepsUp(body \o chunk, next, Out(fed, content))
  BY <1>1, <1>3, FeedKeepsUp
<1>5. said = Out(fed, content)
  BY Zenon DEF Out, ContentOf
<1>6. fed.events \in Seq(Event) /\ next \in Decoder
  <2>1. <<>> \in Seq(Event)
    BY EmptySeq
  <2> HIDE DEF fed
  <2> QED
    BY <1>4, <2>1 DEF Decoder
<1>7. body' \in Seq(Byte)
  BY <1>2, <1>3, ConcatProperties
<1> HIDE DEF fed, next
<1>8. PICK k \in LastPublished(fed.events) : shown' = Publication(fed.events, k)
  BY <1>2
<1>9. k \in 0 .. Len(fed.events)
  BY DEF LastPublished
<1>10. /\ Publication(fed.events, k) \in Seq(Content)
       /\ StartsWith(said, Publication(fed.events, k)) /\ said \in Seq(Content)
  BY <1>1, <1>6, <1>9, Publishing
<1> HIDE DEF said
<1>11. shown' \in Seq(Content) /\ StartsWith(content', shown') /\ content' \in Seq(Content)
  BY <1>2, <1>8, <1>10
<1>12. TypeOK'
  BY <1>2, <1>6, <1>7, <1>11 DEF Heard, TypeOK
<1>13. KeepsUp(body', decoder', content')
  BY Zenon, <1>2, <1>4, <1>5
<1>14. Told'
  BY <1>1, <1>2, <1>11, <1>13 DEF Told
<1> QED
  BY <1>12, <1>14 DEF Heard

LEMMA EndedHeard ==
    ASSUME Heard, Ended
    PROVE  Heard'
<1>1. PICK outcome, text, told : Concludes(outcome, text, told)
  BY DEF Ended
<1>2. /\ outcome \in Outcome /\ told \in BOOLEAN /\ text \in Seq(Content)
      /\ Finish(outcome, text, told)
  BY <1>1 DEF Concludes
<1>3. /\ status' = outcome /\ notice' = told /\ shown' = <<>> /\ active' = 0 /\ pc' = "free"
      /\ context' = <<>> /\ usage' = TRUE /\ plain' = FALSE /\ requests' = 0
      /\ decoder' = NewDecoder /\ body' = <<>> /\ content' = <<>> /\ cancel' = FALSE
      /\ UNCHANGED <<system, latest>>
  BY <1>2 DEF Finish, Forget
<1>4. messages' \in Seq(Message)
  <2>1. messages \in Seq(Message) /\ active \in Nat
    BY DEF Heard, TypeOK
  <2>2. Assistant(active, text) \in Message
    BY <1>2, <2>1 DEF Assistant, Message
  <2>3. messages' = messages \/ messages' = Append(messages, Assistant(active, text))
    BY <1>2 DEF Finish
  <2> QED
    BY <2>1, <2>2, <2>3, TurnTyped DEF Heard
<1>5. /\ <<>> \in Seq(Content) /\ <<>> \in Seq(Message) /\ <<>> \in Seq(Byte)
      /\ NewDecoder \in Decoder
  BY EmptySeq, NewDecoderTyped
<1>6. 0 \in 0 .. MaxTurns
  BY BoundAssumption
<1>7. TypeOK'
  BY <1>2, <1>3, <1>4, <1>5, <1>6 DEF Heard, TypeOK, Outcome
<1> QED
  BY <1>3, <1>7 DEF Heard, Told

LEMMA HeardFirst == Init => Heard
<1> SUFFICES ASSUME Init PROVE Heard
  OBVIOUS
<1>1. /\ <<>> \in Seq(Content) /\ <<>> \in Seq(Message) /\ <<>> \in Seq(Byte)
      /\ NewDecoder \in Decoder /\ 0 \in 0 .. MaxTurns
  BY EmptySeq, NewDecoderTyped, BoundAssumption
<1> QED
  BY <1>1 DEF Init, Heard, TypeOK, Told

LEMMA HeardPreserved == Heard /\ [Next]_vars => Heard'
<1> SUFFICES ASSUME Heard, [Next]_vars PROVE Heard'
  OBVIOUS
<1>1. CASE UNCHANGED vars
  BY <1>1 DEF vars, Heard, TypeOK, Told
<1>2. CASE Next
  BY <1>2, StepKinds, ContinuesTyped, ContinuesTold, OpensHeard, HearsHeard, EndedHeard
     DEF Heard
<1> QED
  BY <1>1, <1>2

LEMMA AlwaysHeard == Spec => []Heard
  BY HeardFirst, HeardPreserved, PTL DEF Spec

-----------------------------------------------------------------------------
(* Theorems about the answer *)

(* The decoder is right: whatever the body and wherever it was cut, between   *)
(* two chunks the content read of it is that of its complete events.  A CR    *)
(* LF or a code point split between chunks makes no difference.               *)
THEOREM AnswersAreRead == Spec => []AnswerIsBody
<1>1. Heard => AnswerIsBody
  <2> SUFFICES ASSUME Heard PROVE AnswerIsBody
    OBVIOUS
  <2>1. ASSUME pc = "streaming" PROVE content = SaidSoFar(body)
    <3>1. body \in Seq(Byte) /\ content \in Seq(Content) /\ KeepsUp(body, decoder, content)
      BY <2>1 DEF Heard, TypeOK, Told
    <3> QED
      BY <3>1, UpToDate
  <2> QED
    BY <2>1 DEF Heard, AnswerIsBody
<1> QED
  BY <1>1, AlwaysHeard, PTL

(* What the conversation keeps of a generation that ends. *)
LEMMA FinishKeeps ==
    ASSUME TypeOK, NEW outcome, NEW text, NEW told, Finish(outcome, text, told)
    PROVE  Kept = text /\ status' = outcome
<1>1. messages \in Seq(Message) /\ status' = outcome
  BY DEF TypeOK, Finish
<1>2. CASE messages' = messages /\ text = <<>>
  <2>1. Len(messages) \in Nat
    BY <1>1
  <2>2. ~(Len(messages') > Len(messages))
    BY <1>2, <2>1
  <2> QED
    BY <1>1, <1>2, <2>2 DEF Kept
<1>3. CASE messages' = Append(messages, Assistant(active, text))
  <2> DEFINE m == Assistant(active, text)
             S == Message \cup {m}
  <2>1. messages \in Seq(S) /\ m \in S
    BY <1>1
  <2> HIDE DEF S, m
  <2>2. /\ Len(messages) \in Nat /\ Len(Append(messages, m)) = Len(messages) + 1
        /\ Append(messages, m)[Len(messages) + 1] = m
    BY <2>1, AppendProperties
  <2>3. Len(messages') > Len(messages) /\ messages'[Len(messages')] = m
    BY <1>3, <2>2 DEF m
  <2>4. m.text = text
    BY DEF m, Assistant
  <2> QED
    BY <1>1, <2>3, <2>4 DEF Kept
<1> QED
  BY <1>2, <1>3 DEF Finish

(* What is kept is right: a streamed answer that was called complete carried  *)
(* its finish reason or end mark and is kept in whole; whatever else ends a   *)
(* generation keeps at least what was shown, and a cancellation all that was  *)
(* read.                                                                      *)
THEOREM AnswersAreWhole == Spec => AnswersAreKept
<1> DEFINE WholeKept == Ends /\ status' = "completed" /\ pc = "streaming" =>
                            /\ \E i \in DOMAIN body : body[i] = "end"
                            /\ Kept = SaidInAll(body)
           Partial == Ends => /\ StartsWith(Kept, shown)
                              /\ status' = "cancelled" => Kept = content
<1>1. Heard /\ [Next]_vars => [WholeKept /\ Partial]_vars
  <2> SUFFICES ASSUME Heard, Next, Ends PROVE WholeKept /\ Partial
    OBVIOUS
  <2>1. CASE Ended
    <3>1. PICK outcome, text, told : Concludes(outcome, text, told)
      BY <2>1 DEF Ended
    <3>2. Kept = text /\ status' = outcome
      BY <3>1, FinishKeeps DEF Concludes, Heard
    <3> QED
      BY <3>1, <3>2 DEF Concludes
  <2>2. CASE CancelReserved
    <3>1. messages' = messages /\ pc = "pending" /\ messages \in Seq(Message)
      BY <2>2 DEF CancelReserved, session, Heard, TypeOK
    <3>2. Kept = <<>>
      <4>1. Len(messages) \in Nat
        BY <3>1
      <4>2. ~(Len(messages') > Len(messages))
        BY <3>1, <4>1
      <4> QED
        BY <4>2 DEF Kept
    <3>3. shown = <<>> /\ content = <<>> /\ pc # "streaming"
      BY <3>1 DEF Heard, Told
    <3>4. StartsWith(<<>>, <<>>)
      BY EmptySeq, StartsWithSame
    <3> QED
      BY <3>2, <3>3, <3>4
  <2>3. CASE Continues /\ ~CancelReserved
    <3>1. active = 0 \/ active' = active
      BY <2>3 DEF Continues, Begin, BeginFails, Reserve, ClearConversation,
                  UpdatePreferences, Enter, Rejected, RetryWithoutUsage,
                  RetryWithoutStreaming, Resend, CancelRunning
    <3> QED
      BY <3>1 DEF Ends
  <2>4. CASE (\E place : Opens(place)) \/ (\E chunk \in Chunks : Hears(chunk))
    <3>1. active' = active
      BY <2>4 DEF Opens, Hears, Progress
    <3> QED
      BY <3>1 DEF Ends
  <2> QED
    BY <2>1, <2>2, <2>3, <2>4, StepKinds
<1>2. Heard /\ [Next]_vars => [WholeKept]_vars /\ [Partial]_vars
  BY <1>1
<1> QED
  BY <1>2, AlwaysHeard, PTL DEF Spec, AnswersAreKept, CompletedIsWhole, PartialAnswersKept

=============================================================================
