-------------------------- MODULE ArchivedSelection --------------------------
(* The Results workspace: which archived results are selected for comparison. *)
(* ResultsView decides on a key press, from the state of that moment, and     *)
(* posts a message; ModelTopApp handles it later, when the documents may be   *)
(* others: every state change may load the archive again.                     *)
(* Definitions named M_... are deliberate mistakes: each stands for a bug the *)
(* code could have in the definition after it, and no behaviour uses them.    *)
EXTENDS Naturals, Sequences

CONSTANTS
    Archived,       \* result ids in the archive
    Kind,           \* the benchmark family of each
    Session,        \* the Speed Tests this session holds
    NoDetail,       \* no session result is open
    MaxSent         \* bound on messages waiting for the application

ASSUME SelectionIdsAssumption ==
    /\ Kind \in [Archived -> STRING]
    /\ Session \subseteq Archived
    /\ NoDetail \notin Archived
    /\ MaxSent \in Nat

VARIABLES
    documents,  \* state.result_archive.documents: ids that loaded
    selection,  \* state.result_archive.archive_selection
    detail,     \* state.speed_test.selected_result_id
    posted,     \* messages of the view the application has not handled
    view,       \* what the view shows: empty, list, detail, comparison
    stale       \* the state changed since the view was updated

selectionVars == <<documents, selection, detail, posted, view, stale>>

Selections == UNION {[1 .. n -> Archived] : n \in 0 .. 2}

(* Replace the selection, compare its two results, open one of the session. *)
Messages == [asks : {"select", "compare", "open"}, ids : Selections]

SelectionTypeOK ==
    /\ documents \subseteq Archived
    /\ selection \in Selections
    /\ detail \in Session \cup {NoDetail}
    /\ posted \in Seq(Messages)
    /\ view \in {"empty", "list", "detail", "comparison"}
    /\ stale \in BOOLEAN

Selected(id) == \E i \in DOMAIN selection : selection[i] = id

-----------------------------------------------------------------------------
(* The archive *)

(* The ids that are among the loaded documents, in their order.  There are at *)
(* most two: of a selection that loses one, at most the other is left.        *)
Known(ids, loaded) ==
    LET known == {i \in DOMAIN ids : ids[i] \in loaded}
    IN  IF known = DOMAIN ids THEN ids
        ELSE IF known = {} THEN <<>> ELSE <<ids[CHOOSE i \in known : TRUE]>>

(* A state change archives the results the application holds, which loads the *)
(* documents again and keeps the selected ids that loaded.  Nothing is loaded *)
(* without a result, from an unreadable index or after a failed write; and a  *)
(* missing index leaves the new document alone, the selection as it was.      *)
StateChanges(ids) ==
    /\ \/ documents' = documents /\ selection' = ids
       \/ \E loaded \in SUBSET Archived :
             documents' = loaded /\ selection' = Known(ids, loaded)
       \/ \E new \in Archived : documents' = {new} /\ selection' = ids
    /\ stale' = TRUE

-----------------------------------------------------------------------------
(* ResultsView *)

Post(asks, ids) ==
    /\ Len(posted) < MaxSent
    /\ posted' = Append(posted, [asks |-> asks, ids |-> ids])
    /\ UNCHANGED <<documents, selection, detail, view, stale>>

(* The newest two of the selection and id, provided the first selected one,   *)
(* if it is loaded, is of its family.                                         *)
Toggle(id) ==
    IF Selected(id)
    THEN Post("select", Known(selection, Archived \ {id}))
    ELSE /\ id \in documents
         /\ Len(selection) > 0 /\ selection[1] \in documents =>
               Kind[selection[1]] = Kind[id]
         /\ Post("select", IF Len(selection) = 2 THEN <<selection[2], id>>
                   ELSE Append(selection, id))

(* Space on the highlighted line, of a list that may be out of date or hidden *)
(* behind a detail.                                                           *)
ToggleSelection(id) == view # "empty" /\ Toggle(id)

(* Enter on a line: a comparison of the two selected, else the detail of a    *)
(* result of this session, else the same as Space.                            *)
OpenResult(id) ==
    /\ view = "list"
    /\ IF Len(selection) = 2 THEN Post("compare", selection)
       ELSE IF id \in Session THEN Post("open", <<id>>)
       ELSE id \in documents /\ Toggle(id)

(* Escape closes the detail, else clears the selection, else leaves. *)
Back ==
    \/ /\ view = "detail"
       /\ detail' = NoDetail
       /\ StateChanges(selection)
       /\ UNCHANGED <<posted, view>>
    \/ view # "detail" /\ selection # <<>> /\ Post("select", <<>>)

(* The workspace is chosen in the sidebar. *)
EnterResults ==
    /\ detail' = NoDetail
    /\ StateChanges(selection)
    /\ UNCHANGED <<posted, view>>

Comparable(ids) ==
    /\ Len(ids) = 2
    /\ ids[1] \in documents /\ ids[2] \in documents
    /\ Kind[ids[1]] = Kind[ids[2]]

(* update_state: an open detail, a comparison, the list, or nothing. *)
UpdateView ==
    /\ stale
    /\ view' = IF detail # NoDetail THEN "detail"
               ELSE IF Comparable(selection) THEN "comparison"
               ELSE IF documents = {} THEN "empty" ELSE "list"
    /\ stale' = FALSE
    /\ UNCHANGED <<documents, selection, detail, posted>>

-----------------------------------------------------------------------------
(* ModelTopApp *)

M_TrustsTheView(ids) == Known(ids, documents)

(* At most two ids that are loaded, the second only if of the first's family. *)
Accepted(ids) ==
    LET known == Known(ids, documents)
    IN  IF Len(known) = 2 /\ Kind[known[1]] # Kind[known[2]]
        THEN <<known[1]>> ELSE known

First(ids) == SubSeq(ids, 1, IF ids = <<>> THEN 0 ELSE 1)

(* A comparison that is no longer possible keeps what is left of it. *)
Requested(message) ==
    IF message.asks = "compare" /\ ~Comparable(message.ids)
    THEN First(Known(message.ids, documents))
    ELSE message.ids

HandleSelection ==
    /\ posted # <<>> /\ posted[1].asks # "open"
    /\ StateChanges(Accepted(Requested(posted[1])))
    /\ posted' = Tail(posted)
    /\ UNCHANGED <<detail, view>>

HandleOpen ==
    /\ posted # <<>> /\ posted[1].asks = "open"
    /\ detail' = posted[1].ids[1]
    /\ StateChanges(selection)
    /\ posted' = Tail(posted)
    /\ UNCHANGED view

(* Any other change of the state, of a lane say. *)
OtherChange ==
    /\ StateChanges(selection)
    /\ UNCHANGED <<detail, posted, view>>

-----------------------------------------------------------------------------
SelectionInit ==
    /\ documents \in SUBSET Archived
    /\ selection = <<>>
    /\ detail = NoDetail
    /\ posted = <<>>
    /\ view = "empty"
    /\ stale = TRUE

SelectionNext ==
    \/ \E id \in Archived : ToggleSelection(id) \/ OpenResult(id)
    \/ Back
    \/ EnterResults
    \/ UpdateView
    \/ HandleSelection
    \/ HandleOpen
    \/ OtherChange

SelectionSpec == SelectionInit /\ [][SelectionNext]_selectionVars

-----------------------------------------------------------------------------
(* Safety *)

(* However stale the view was when a key was pressed, and whichever documents *)
(* came and went since, at most two results are selected, each once, and all  *)
(* of one benchmark: "family-safe comparison".                                *)
ComparesLikes ==
    /\ SelectionTypeOK
    /\ Len(selection) <= 2
    /\ \A i, j \in DOMAIN selection :
          /\ Kind[selection[i]] = Kind[selection[j]]
          /\ selection[i] = selection[j] => i = j

=============================================================================
