---------------------------- MODULE ResultArchive ----------------------------
(* The durable history of terminal results: one directory that several        *)
(* ModelTop processes may share, with an immutable document per result and an *)
(* index replaced as a whole.  A process is synchronous while it archives, so *)
(* its steps are those other processes can see: reading the index, finding a  *)
(* name, publishing the document, replacing the index.                        *)
(* Definitions named M_... are deliberate mistakes: each stands for a bug the *)
(* code could have in the definition after it, and no behaviour uses them.    *)
EXTENDS Naturals

CONSTANTS
    Procs,          \* processes that use the directory
    Results,        \* identities of terminal results, unique to a run
    Stamp,          \* the benchmark and the second each completed in, as in its name
    MaxTag,         \* bound on the suffix of a document's name
    NoEntry

ASSUME ArchiveAssumption ==
    /\ Stamp \in [Results -> Nat]
    /\ MaxTag \in Nat \ {0, 1}
    /\ Results \cap Nat = {}

(* A document is named by its benchmark's directory, its second and, at       *)
(* first, its result; if that name is taken, by directory, second and a       *)
(* number alone.                                                              *)
Tags == Results \cup 2 .. MaxTag

Names == [stamp : {Stamp[r] : r \in Results}, tag : Tags]

Entries == [id : Results, name : Names]

ASSUME NoEntryAssumption == NoEntry \notin Entries

VARIABLES
    index,      \* index.json: whether it is readable, its entries, and which
                \* of them are no longer entries the program can read
    docs,       \* the published documents, by name: the entry each holds
    damaged,    \* names of documents that no longer load
    held,       \* terminal results in the state of each process
    born,       \* results any process ever had
    pc,         \* idle, load, name, publish, replace
    todo,       \* results the loop has not handled yet
    now,        \* the entry being archived
    good, skipped,  \* the snapshot: entries with and without their document
    lost,       \* the snapshot says the archive is unavailable
    shown,      \* state.result_archive.entries
    since       \* entries others brought into the index since the process loaded

disk == <<index, docs, damaged>>

snapshot == <<good, skipped, lost>>

vars == <<disk, held, born, pc, todo, now, snapshot, shown, since>>

TypeOK ==
    /\ index \in [ok : BOOLEAN, entries : SUBSET Entries, invalid : SUBSET Entries]
    /\ index.invalid \subseteq index.entries
    /\ DOMAIN docs \subseteq Names /\ docs \in [DOMAIN docs -> Entries]
    /\ damaged \subseteq DOMAIN docs
    /\ held \in [Procs -> SUBSET Results] /\ born \subseteq Results
    /\ pc \in [Procs -> {"idle", "load", "name", "publish", "replace"}]
    /\ todo \in [Procs -> SUBSET Results]
    /\ now \in [Procs -> Entries \cup {NoEntry}]
    /\ good \in [Procs -> SUBSET Entries]
    /\ skipped \in [Procs -> SUBSET Entries]
    /\ lost \in [Procs -> BOOLEAN]
    /\ shown \in [Procs -> SUBSET Entries]
    /\ since \in [Procs -> SUBSET Entries]
    /\ \A p \in Procs :
        /\ todo[p] = {} <=> pc[p] = "idle"
        /\ now[p] = NoEntry <=> pc[p] \in {"idle", "load"}

Set(f, p, v) == [f EXCEPT ![p] = v]

Ids(entries) == {e.id : e \in entries}

-----------------------------------------------------------------------------
(* Loading *)

(* The document of an indexed entry loads and repeats the entry. *)
Loads(e) == e.name \in DOMAIN docs \ damaged /\ docs[e.name] = e

(* The entries the index yields. *)
Valid == {e \in index.entries \ index.invalid : index.ok}

(* One invalid entry is enough to call the archive unavailable. *)
Unavailable == ~index.ok \/ index.invalid # {}

Readable == {e \in Valid : Loads(e)}

Unreadable == {e \in Valid : ~Loads(e)}

Load(p) ==
    /\ good' = Set(good, p, Readable)
    /\ skipped' = Set(skipped, p, Unreadable)
    /\ lost' = Set(lost, p, Unavailable)
    /\ since' = Set(since, p, {})

M_AlwaysDisplayed(p, entries, unavailable) == entries

(* What the dashboard shows after the loop.  An archive that became           *)
(* unavailable does not clear what it showed.                                 *)
Displayed(p, entries, unavailable) ==
    IF unavailable /\ entries = {} THEN shown[p] ELSE entries

(* The loop is done with r; after the last result the state is updated. *)
Handled(p, r, entries, unavailable) ==
    /\ todo' = Set(todo, p, todo[p] \ {r})
    /\ now' = Set(now, p, NoEntry)
    /\ IF todo[p] = {r}
       THEN /\ pc' = Set(pc, p, "idle")
            /\ shown' = Set(shown, p, Displayed(p, entries, unavailable))
       ELSE pc' = Set(pc, p, "load") /\ UNCHANGED shown

-----------------------------------------------------------------------------
(* A process *)

(* A state change starts the loop over the results the process holds.  It may *)
(* bring a new one, which may take the place of an older one of its lane.     *)
Change(p) ==
    /\ pc[p] = "idle"
    /\ \/ /\ held[p] # {}
          /\ todo' = Set(todo, p, held[p])
          /\ UNCHANGED <<held, born>>
       \/ \E new \in Results \ born, old \in SUBSET held[p] :
            /\ held' = Set(held, p, (held[p] \ old) \cup {new})
            /\ born' = born \cup {new}
            /\ todo' = Set(todo, p, (held[p] \ old) \cup {new})
    /\ pc' = Set(pc, p, "load")
    /\ UNCHANGED <<disk, now, snapshot, shown, since>>

(* archive_result has nothing to do: the result is indexed, readable or not,  *)
(* or the index cannot be extended.                                           *)
Settled(r) == Unavailable \/ r \in Ids(Readable) \cup Ids(Unreadable)

Read(p) ==
    /\ pc[p] = "load"
    /\ \E r \in todo[p] :
        /\ Load(p)
        /\ IF Settled(r)
           THEN Handled(p, r, Readable, Unavailable)
           ELSE /\ pc' = Set(pc, p, "name")
                /\ now' = Set(now, p, [id |-> r, name |-> [stamp |-> Stamp[r], tag |-> r]])
                /\ UNCHANGED <<todo, shown>>
    /\ UNCHANGED <<disk, held, born>>

Free(name) == name \notin DOMAIN docs

(* The first number whose name is free. *)
Numbered(t, s) ==
    /\ Free([stamp |-> s, tag |-> t])
    /\ \A u \in 2 .. t - 1 : ~Free([stamp |-> s, tag |-> u])

(* _with_available_name *)
Name(p) ==
    /\ pc[p] = "name"
    /\ IF Free(now[p].name) THEN UNCHANGED now
       ELSE \E t \in 2 .. MaxTag :
                /\ Numbered(t, now[p].name.stamp)
                /\ now' = [now EXCEPT ![p].name.tag = t]
    /\ pc' = Set(pc, p, "publish")
    /\ UNCHANGED <<disk, held, born, todo, snapshot, shown, since>>

M_LoopGoesOn(p) ==
    /\ pc' = Set(pc, p, "idle")
    /\ now' = Set(now, p, NoEntry)
    /\ UNCHANGED todo

(* An OSError ends the loop, and the state stays as it is. *)
Fail(p) ==
    /\ pc' = Set(pc, p, "idle")
    /\ todo' = Set(todo, p, {})
    /\ now' = Set(now, p, NoEntry)

(* The link is made, or fails because the name was taken meanwhile, by the    *)
(* document of an earlier attempt or of another process's result: either way  *)
(* the writer goes on as if the document were its own.                        *)
Linked(p) ==
    docs' = IF Free(now[p].name)
            THEN [n \in DOMAIN docs \cup {now[p].name} |->
                    IF n = now[p].name THEN now[p] ELSE docs[n]]
            ELSE docs

M_FailureForgotten(p) ==
    /\ pc[p] = "publish"
    /\ (Linked(p) \/ UNCHANGED docs)
    /\ pc' = Set(pc, p, "replace")
    /\ UNCHANGED <<index, damaged, held, born, todo, now, snapshot, shown, since>>

(* Either write may fail, the second after the link (removing the temporary   *)
(* file does).                                                                *)
Publish(p) ==
    /\ pc[p] = "publish"
    /\ \/ /\ Linked(p)
          /\ pc' = Set(pc, p, "replace")
          /\ UNCHANGED <<todo, now>>
       \/ (Linked(p) \/ UNCHANGED docs) /\ Fail(p)
    /\ UNCHANGED <<index, damaged, held, born, snapshot, shown, since>>

M_SkippedDropped(p) == good[p] \cup {now[p]}

(* The entries of the new index: unreadable ones are kept. *)
Indexed(p) == good[p] \cup skipped[p] \cup {now[p]}

Replace(p) ==
    /\ pc[p] = "replace"
    /\ \/ /\ index' = [ok |-> TRUE, entries |-> Indexed(p), invalid |-> {}]
          /\ good' = Set(good, p, good[p] \cup {now[p]})
          /\ Handled(p, now[p].id, good[p] \cup {now[p]}, FALSE)
          /\ since' = [q \in Procs |-> IF q = p THEN {}
                        ELSE since[q] \cup (Indexed(p) \ index.entries)]
          /\ UNCHANGED <<skipped, lost>>
       \/ Fail(p) /\ UNCHANGED <<index, snapshot, shown, since>>
    /\ UNCHANGED <<docs, damaged, held, born>>

(* The process ends at any point; the next one shows what it loads. *)
Restart(p) ==
    /\ Load(p)
    /\ shown' = Set(shown, p, Readable)
    /\ held' = Set(held, p, {})
    /\ pc' = Set(pc, p, "idle")
    /\ todo' = Set(todo, p, {})
    /\ now' = Set(now, p, NoEntry)
    /\ UNCHANGED <<disk, born>>

(* From outside: the index, or an entry of it, is no longer readable. *)
DamageIndex ==
    /\ \/ index' = [index EXCEPT !.ok = FALSE]
       \/ \E e \in index.entries :
            index' = [index EXCEPT !.invalid = index.invalid \cup {e}]
    /\ UNCHANGED <<docs, damaged, held, born, pc, todo, now, snapshot, shown, since>>

(* Without an index the archive is empty, and available. *)
RemoveIndex ==
    /\ index.entries # {}
    /\ index' = [ok |-> TRUE, entries |-> {}, invalid |-> {}]
    /\ UNCHANGED <<docs, damaged, held, born, pc, todo, now, snapshot, shown, since>>

(* A document stays in its place, and no longer loads. *)
DamageDocument ==
    /\ \E n \in DOMAIN docs : damaged' = damaged \cup {n}
    /\ UNCHANGED <<index, docs, held, born, pc, todo, now, snapshot, shown, since>>

-----------------------------------------------------------------------------
Init ==
    /\ index = [ok |-> TRUE, entries |-> {}, invalid |-> {}]
    /\ docs = [n \in {} |-> NoEntry]
    /\ damaged = {}
    /\ held = [p \in Procs |-> {}]
    /\ born = {}
    /\ pc = [p \in Procs |-> "idle"]
    /\ todo = [p \in Procs |-> {}]
    /\ now = [p \in Procs |-> NoEntry]
    /\ good = [p \in Procs |-> {}]
    /\ skipped = [p \in Procs |-> {}]
    /\ lost = [p \in Procs |-> FALSE]
    /\ shown = [p \in Procs |-> {}]
    /\ since = [p \in Procs |-> {}]

Next ==
    \/ \E p \in Procs :
        Change(p) \/ Read(p) \/ Name(p) \/ Publish(p) \/ Replace(p) \/ Restart(p)
    \/ DamageIndex
    \/ RemoveIndex
    \/ DamageDocument

Spec == Init /\ [][Next]_vars

-----------------------------------------------------------------------------
(* Safety *)

Own(e) == [stamp |-> Stamp[e.id], tag |-> e.id]

(* Whatever crashed, failed or raced, an indexed entry and an entry on the    *)
(* screen name a published document, and it is theirs.  Only an entry with a  *)
(* number in its name may name the document of another result, one that       *)
(* completed in the same second and took the number in between; its own       *)
(* document is then published under its first name, and lost to the index.    *)
EntriesMatch ==
    \A e \in index.entries \cup UNION {shown[p] : p \in Procs} :
        /\ e.name \in DOMAIN docs
        /\ \/ docs[e.name] = e
           \/ /\ e.name.tag \notin Results
              /\ Own(e) \in DOMAIN docs /\ docs[Own(e)].id = e.id

(* "A concurrent equivalent writer won": the document that is kept when a     *)
(* link fails is the one the entry describes.  The code does not see to it.   *)
WinnerIsEquivalent == \A e \in index.entries : docs[e.name] = e

OnlyRacesLose ==
    [][\A e \in index.entries \ index'.entries :
        \/ index'.entries = {}
        \/ \E p \in Procs : pc[p] = "replace" /\ e \in since[p]]_vars

KeepsShowing ==
    [][\A p \in Procs :
        shown[p] # {} /\ shown'[p] = {} =>
            held'[p] = {} \/ \A e \in index.entries : ~Loads(e)]_vars

(* "Append-only": unless the index is removed from outside, no entry leaves   *)
(* it but one that another process brought into it, anew or again, after the  *)
(* process that replaces it read it; unreadable entries and those of an       *)
(* unreadable index are not lost either.  And a running process does not lose *)
(* sight of its history while a document of an indexed entry still loads,     *)
(* although the index may become unreadable, in whole or in part, or          *)
(* disappear at any time.                                                     *)
HistoryIsKept == OnlyRacesLose /\ KeepsShowing

=============================================================================
