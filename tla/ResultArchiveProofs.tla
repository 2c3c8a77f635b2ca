-------------------------- MODULE ResultArchiveProofs --------------------------
(* Proofs about ResultArchive for any number of processes, results and        *)
(* suffixes, and about ArchivedSelection for any archive and any number of    *)
(* messages.                                                                  *)
EXTENDS ResultArchive, ArchivedSelection, SequenceTheorems, TLAPS

(* The result of an entry with a number in its name has a document under its  *)
(* first name.                                                                *)
Renamed(e, d) ==
    e.name.tag \notin Results /\ Own(e) \in DOMAIN d /\ d[Own(e)].id = e.id

Match(e, d) == e.name \in DOMAIN d /\ (d[e.name] = e \/ Renamed(e, d))

Theirs(entries, d) == \A e \in entries : Match(e, d)

(* A document repeats its name; the result that is part of a name, if one is, *)
(* is the one the document is of.                                             *)
DocsNamed ==
    \A n \in DOMAIN docs :
        /\ docs[n].name = n /\ n.stamp = Stamp[docs[n].id]
        /\ n.tag \in Results => n.tag = docs[n].id

Named(e, d) ==
    e.name = Own(e) \/ (e.name.stamp = Stamp[e.id] /\ Renamed(e, d))

(* A number is taken only where the first name is.                            *)
NowNamed == \A p \in Procs : now[p] # NoEntry => Named(now[p], docs)

KnownMatch ==
    /\ Theirs(index.entries, docs)
    /\ \A p \in Procs : Theirs(good[p] \cup skipped[p] \cup shown[p], docs)

ReplaceMatches ==
    \A p \in Procs : pc[p] = "replace" => Theirs({now[p]}, docs)

IInv == TypeOK /\ DocsNamed /\ NowNamed /\ KnownMatch /\ ReplaceMatches

-------------------------------------------------------------------------------
(* Type correctness *)

LEMMA LoadType ==
    ASSUME TypeOK, NEW p \in Procs, Load(p)
    PROVE  /\ good' \in [Procs -> SUBSET Entries]
           /\ skipped' \in [Procs -> SUBSET Entries]
           /\ lost' \in [Procs -> BOOLEAN]
           /\ since' \in [Procs -> SUBSET Entries]
  BY DEF TypeOK, Load, Set, Readable, Unreadable, Valid, Unavailable

(* The loop moves on, or ends. *)
LEMMA HandledType ==
    ASSUME TypeOK, NEW p \in Procs, todo[p] # {}, NEW r,
           NEW entries \in SUBSET Entries, NEW unavailable \in BOOLEAN,
           Handled(p, r, entries, unavailable)
    PROVE  /\ todo' \in [Procs -> SUBSET Results]
           /\ now' \in [Procs -> Entries \cup {NoEntry}]
           /\ pc' \in [Procs -> {"idle", "load", "name", "publish", "replace"}]
           /\ shown' \in [Procs -> SUBSET Entries]
           /\ \A q \in Procs :
                /\ todo'[q] = {} <=> pc'[q] = "idle"
                /\ now'[q] = NoEntry <=> pc'[q] \in {"idle", "load"}
<1>1. /\ todo' = [todo EXCEPT ![p] = todo[p] \ {r}]
      /\ now' = [now EXCEPT ![p] = NoEntry]
      /\ todo \in [Procs -> SUBSET Results]
      /\ now \in [Procs -> Entries \cup {NoEntry}]
      /\ pc \in [Procs -> {"idle", "load", "name", "publish", "replace"}]
      /\ shown \in [Procs -> SUBSET Entries]
      /\ \A q \in Procs :
            /\ todo[q] = {} <=> pc[q] = "idle"
            /\ now[q] = NoEntry <=> pc[q] \in {"idle", "load"}
  BY DEF Handled, Set, TypeOK
<1>2. CASE todo[p] = {r}
  <2>1. /\ pc' = [pc EXCEPT ![p] = "idle"]
        /\ shown' = [shown EXCEPT ![p] = Displayed(p, entries, unavailable)]
    BY <1>2 DEF Handled, Set
  <2>2. Displayed(p, entries, unavailable) \in SUBSET Entries
    BY <1>1 DEF Displayed
  <2> QED
    BY <1>1, <1>2, <2>1, <2>2
<1>3. CASE todo[p] # {r}
  <2>1. pc' = [pc EXCEPT ![p] = "load"] /\ shown' = shown
    BY <1>3 DEF Handled, Set
  <2> QED
    BY <1>1, <1>3, <2>1
<1> QED
  BY <1>2, <1>3

LEMMA FailType ==
    ASSUME TypeOK, NEW p \in Procs, Fail(p)
    PROVE  /\ todo' \in [Procs -> SUBSET Results]
           /\ now' \in [Procs -> Entries \cup {NoEntry}]
           /\ pc' \in [Procs -> {"idle", "load", "name", "publish", "replace"}]
           /\ \A q \in Procs :
                /\ todo'[q] = {} <=> pc'[q] = "idle"
                /\ now'[q] = NoEntry <=> pc'[q] \in {"idle", "load"}
  BY DEF TypeOK, Fail, Set

LEMMA LinkedType ==
    ASSUME TypeOK, NEW p \in Procs, now[p] \in Entries, Linked(p)
    PROVE  /\ DOMAIN docs' \subseteq Names
           /\ docs' \in [DOMAIN docs' -> Entries]
           /\ DOMAIN docs \subseteq DOMAIN docs'
           /\ \A n \in DOMAIN docs : docs'[n] = docs[n]
<1>1. now[p].name \in Names
  BY DEF Entries
<1> QED
  BY <1>1 DEF TypeOK, Linked, Free

LEMMA ChangeType == ASSUME TypeOK, NEW p \in Procs, Change(p) PROVE TypeOK'
<1>1. /\ pc[p] = "idle" /\ pc' = [pc EXCEPT ![p] = "load"]
      /\ UNCHANGED <<index, docs, damaged, now, good, skipped, lost, shown, since>>
  BY DEF Change, Set, disk, snapshot
<1>2. \E results \in SUBSET Results :
        /\ results # {}
        /\ held' \in [Procs -> SUBSET Results] /\ born' \subseteq Results
        /\ todo' = [todo EXCEPT ![p] = results]
  <2>1. CASE /\ held[p] # {}
             /\ todo' = Set(todo, p, held[p])
             /\ UNCHANGED <<held, born>>
    <3>1. held[p] \in SUBSET Results
      BY DEF TypeOK
    <3> QED
      BY <2>1, <3>1 DEF Set, TypeOK
  <2>2. ASSUME NEW new \in Results \ born, NEW old \in SUBSET held[p],
               held' = Set(held, p, (held[p] \ old) \cup {new}),
               born' = born \cup {new},
               todo' = Set(todo, p, (held[p] \ old) \cup {new})
        PROVE  \E results \in SUBSET Results :
                /\ results # {}
                /\ held' \in [Procs -> SUBSET Results] /\ born' \subseteq Results
                /\ todo' = [todo EXCEPT ![p] = results]
    <3>1. /\ (held[p] \ old) \cup {new} \in SUBSET Results
          /\ (held[p] \ old) \cup {new} # {}
      BY DEF TypeOK
    <3>2. held' \in [Procs -> SUBSET Results] /\ born' \subseteq Results
      BY <2>2, <3>1 DEF Set, TypeOK
    <3> QED
      BY <2>2, <3>1, <3>2 DEF Set
  <2> QED
    BY <2>1, <2>2 DEF Change
<1> QED
  BY <1>1, <1>2 DEF TypeOK

LEMMA ReadType == ASSUME TypeOK, NEW p \in Procs, Read(p) PROVE TypeOK'
<1>1. PICK r \in todo[p] :
        /\ Load(p)
        /\ IF Settled(r)
           THEN Handled(p, r, Readable, Unavailable)
           ELSE /\ pc' = [pc EXCEPT ![p] = "name"]
                /\ now' = [now EXCEPT ![p] =
                            [id |-> r, name |-> [stamp |-> Stamp[r], tag |-> r]]]
                /\ UNCHANGED <<todo, shown>>
  BY DEF Read, Set
<1>2. pc[p] = "load" /\ UNCHANGED <<index, docs, damaged, held, born>>
  BY DEF Read, disk
<1>3. /\ good' \in [Procs -> SUBSET Entries]
      /\ skipped' \in [Procs -> SUBSET Entries]
      /\ lost' \in [Procs -> BOOLEAN]
      /\ since' \in [Procs -> SUBSET Entries]
  BY <1>1, LoadType
<1>4. CASE Settled(r)
  <2>1. /\ Readable \in SUBSET Entries /\ Unavailable \in BOOLEAN
        /\ todo[p] # {}
    BY DEF TypeOK, Readable, Valid, Unavailable
  <2>2. /\ todo' \in [Procs -> SUBSET Results]
        /\ now' \in [Procs -> Entries \cup {NoEntry}]
        /\ pc' \in [Procs -> {"idle", "load", "name", "publish", "replace"}]
        /\ shown' \in [Procs -> SUBSET Entries]
        /\ \A q \in Procs :
            /\ todo'[q] = {} <=> pc'[q] = "idle"
            /\ now'[q] = NoEntry <=> pc'[q] \in {"idle", "load"}
    BY <1>1, <1>4, <2>1, HandledType
  <2> QED
    BY <1>2, <1>3, <2>2 DEF TypeOK
<1>5. CASE ~Settled(r)
  <2>1. r \in Results
    BY DEF TypeOK
  <2>2. [id |-> r, name |-> [stamp |-> Stamp[r], tag |-> r]] \in Entries
    BY <2>1 DEF Entries, Names, Tags
  <2> DEFINE e == [id |-> r, name |-> [stamp |-> Stamp[r], tag |-> r]]
  <2>3. /\ e \in Entries /\ e # NoEntry
        /\ now' = [now EXCEPT ![p] = e]
        /\ pc' = [pc EXCEPT ![p] = "name"]
        /\ UNCHANGED <<todo, shown>>
    BY <1>1, <1>5, <2>2, NoEntryAssumption
  <2> HIDE DEF e
  <2>4. todo[p] # {}
    OBVIOUS
  <2> QED
    BY <1>2, <1>3, <2>3, <2>4 DEF TypeOK
<1> QED
  BY <1>4, <1>5

LEMMA NameType ==
    ASSUME TypeOK, NEW p \in Procs, Name(p)
    PROVE  /\ TypeOK'
           /\ now'[p] \in Entries /\ now[p] \in Entries
           /\ now'[p].name.stamp = now[p].name.stamp
           /\ now'[p].id = now[p].id
           /\ \A q \in Procs \ {p} : now'[q] = now[q]
<1>1. /\ pc[p] = "name" /\ pc' = [pc EXCEPT ![p] = "publish"]
      /\ UNCHANGED <<index, docs, damaged, held, born, todo, good, skipped, lost,
                     shown, since>>
  BY DEF Name, Set, disk, snapshot
<1>2. now[p] \in Entries
  BY <1>1 DEF TypeOK
<1>3. CASE UNCHANGED now
  BY <1>1, <1>2, <1>3 DEF TypeOK
<1>4. CASE ~UNCHANGED now
  <2>1. PICK t \in 2 .. MaxTag : now' = [now EXCEPT ![p].name.tag = t]
    BY <1>4 DEF Name
  <2> DEFINE e == [now[p] EXCEPT !.name.tag = t]
  <2>2. /\ e \in Entries
        /\ e.name.stamp = now[p].name.stamp
        /\ e.id = now[p].id
    BY <1>2, <2>1 DEF Entries, Names, Tags
  <2>3. now' = [now EXCEPT ![p] = e]
    BY <2>1
  <2> HIDE DEF e
  <2>4. /\ now' \in [Procs -> Entries \cup {NoEntry}]
        /\ now'[p] = e
        /\ \A q \in Procs \ {p} : now'[q] = now[q]
    BY <2>2, <2>3 DEF TypeOK
  <2>5. e # NoEntry
    BY <2>2, NoEntryAssumption
  <2> QED
    BY <1>1, <1>2, <2>2, <2>4, <2>5 DEF TypeOK
<1> QED
  BY <1>3, <1>4

LEMMA PublishType == ASSUME TypeOK, NEW p \in Procs, Publish(p) PROVE TypeOK'
<1>1. /\ pc[p] = "publish"
      /\ UNCHANGED <<index, damaged, held, born, good, skipped, lost, shown, since>>
  BY DEF Publish, snapshot
<1>2. now[p] \in Entries
  BY <1>1 DEF TypeOK
<1>3. /\ DOMAIN docs' \subseteq Names
      /\ docs' \in [DOMAIN docs' -> Entries]
      /\ DOMAIN docs \subseteq DOMAIN docs'
  <2>1. Linked(p) \/ UNCHANGED docs
    BY DEF Publish
  <2>2. CASE Linked(p)
    BY <1>2, <2>2, LinkedType
  <2>3. CASE UNCHANGED docs
    BY <2>3 DEF TypeOK
  <2> QED
    BY <2>1, <2>2, <2>3
<1>4. CASE pc' = Set(pc, p, "replace") /\ UNCHANGED <<todo, now>>
  BY <1>1, <1>3, <1>4 DEF TypeOK, Set
<1>5. CASE Fail(p)
  <2>1. /\ todo' \in [Procs -> SUBSET Results]
        /\ now' \in [Procs -> Entries \cup {NoEntry}]
        /\ pc' \in [Procs -> {"idle", "load", "name", "publish", "replace"}]
        /\ \A q \in Procs :
            /\ todo'[q] = {} <=> pc'[q] = "idle"
            /\ now'[q] = NoEntry <=> pc'[q] \in {"idle", "load"}
    BY <1>5, FailType
  <2> QED
    BY <1>1, <1>3, <2>1 DEF TypeOK
<1> QED
  BY <1>4, <1>5 DEF Publish

LEMMA ReplaceType ==
    ASSUME TypeOK, NEW p \in Procs, Replace(p)
    PROVE  TypeOK'
<1>1. pc[p] = "replace" /\ UNCHANGED <<docs, damaged, held, born>>
  BY DEF Replace
<1>2. now[p] \in Entries
  BY <1>1 DEF TypeOK
<1>3. CASE Fail(p) /\ UNCHANGED <<index, snapshot, shown, since>>
  <2>1. /\ todo' \in [Procs -> SUBSET Results]
        /\ now' \in [Procs -> Entries \cup {NoEntry}]
        /\ pc' \in [Procs -> {"idle", "load", "name", "publish", "replace"}]
        /\ \A q \in Procs :
            /\ todo'[q] = {} <=> pc'[q] = "idle"
            /\ now'[q] = NoEntry <=> pc'[q] \in {"idle", "load"}
    BY <1>3, FailType
  <2> QED
    BY <1>1, <1>3, <2>1 DEF TypeOK, snapshot
<1>4. CASE ~(Fail(p) /\ UNCHANGED <<index, snapshot, shown, since>>)
  <2>1. /\ index' = [ok |-> TRUE, entries |-> Indexed(p), invalid |-> {}]
        /\ good' = [good EXCEPT ![p] = good[p] \cup {now[p]}]
        /\ Handled(p, now[p].id, good[p] \cup {now[p]}, FALSE)
        /\ since' = [q \in Procs |-> IF q = p THEN {}
                        ELSE since[q] \cup (Indexed(p) \ index.entries)]
        /\ UNCHANGED <<skipped, lost>>
    BY <1>4 DEF Replace, Set
  <2>2. /\ Indexed(p) \in SUBSET Entries
        /\ good[p] \cup {now[p]} \in SUBSET Entries
    BY <1>2 DEF TypeOK, Indexed
  <2>3. /\ index' \in [ok : BOOLEAN, entries : SUBSET Entries, invalid : SUBSET Entries]
        /\ index'.invalid \subseteq index'.entries
        /\ good' \in [Procs -> SUBSET Entries]
        /\ since' \in [Procs -> SUBSET Entries]
    BY <1>2, <2>1, <2>2 DEF TypeOK
  <2>4. todo[p] # {}
    BY <1>1 DEF TypeOK
  <2> QED
    BY <1>1, <2>1, <2>2, <2>3, <2>4, HandledType DEF TypeOK
<1> QED
  BY <1>3, <1>4

LEMMA RestartType == ASSUME TypeOK, NEW p \in Procs, Restart(p) PROVE TypeOK'
<1>1. /\ good' \in [Procs -> SUBSET Entries]
      /\ skipped' \in [Procs -> SUBSET Entries]
      /\ lost' \in [Procs -> BOOLEAN]
      /\ since' \in [Procs -> SUBSET Entries]
  BY LoadType DEF Restart
<1>2. Readable \in SUBSET Entries
  BY DEF TypeOK, Readable, Valid
<1>3. /\ shown' = [shown EXCEPT ![p] = Readable]
      /\ held' = [held EXCEPT ![p] = {}]
      /\ pc' = [pc EXCEPT ![p] = "idle"]
      /\ todo' = [todo EXCEPT ![p] = {}]
      /\ now' = [now EXCEPT ![p] = NoEntry]
      /\ UNCHANGED <<index, docs, damaged, born>>
  BY DEF Restart, Set, disk
<1> QED
  BY <1>1, <1>2, <1>3 DEF TypeOK

LEMMA DamageType ==
    ASSUME TypeOK, DamageIndex \/ RemoveIndex \/ DamageDocument
    PROVE  TypeOK' /\ (index'.entries = index.entries \/ index'.entries = {})
<1>1. /\ UNCHANGED <<docs, held, born, pc, todo, now, good, skipped, lost, shown,
                     since>>
      /\ index' \in [ok : BOOLEAN, entries : SUBSET Entries, invalid : SUBSET Entries]
      /\ index'.invalid \subseteq index'.entries
      /\ index'.entries = index.entries \/ index'.entries = {}
      /\ damaged' \subseteq DOMAIN docs
  <2>1. CASE DamageIndex
    <3>1. /\ index \in [ok : BOOLEAN, entries : SUBSET Entries, invalid : SUBSET Entries]
          /\ index.invalid \subseteq index.entries
      BY DEF TypeOK
    <3>2. PICK ok \in BOOLEAN, invalid \in SUBSET index.entries :
            index' = [ok |-> ok, entries |-> index.entries, invalid |-> invalid]
      <4>1. CASE index' = [index EXCEPT !.ok = FALSE]
        BY <3>1, <4>1
      <4>2. ASSUME NEW e \in index.entries,
                   index' = [index EXCEPT !.invalid = index.invalid \cup {e}]
            PROVE  /\ index.invalid \cup {e} \in SUBSET index.entries
                   /\ index' = [ok |-> index.ok, entries |-> index.entries,
                                invalid |-> index.invalid \cup {e}]
        BY <3>1, <4>2
      <4> QED
        BY <2>1, <3>1, <4>1, <4>2 DEF DamageIndex
    <3>3. UNCHANGED <<docs, damaged, held, born, pc, todo, now, good, skipped, lost,
                      shown, since>>
      BY <2>1 DEF DamageIndex, snapshot
    <3> QED
      BY <3>1, <3>2, <3>3 DEF TypeOK
  <2>2. CASE RemoveIndex
    BY <2>2 DEF RemoveIndex, TypeOK, snapshot
  <2>3. CASE DamageDocument
    BY <2>3 DEF DamageDocument, TypeOK, snapshot
  <2> QED
    BY <2>1, <2>2, <2>3
<1> QED
  BY <1>1 DEF TypeOK

LEMMA InitType == Init => TypeOK
<1> SUFFICES ASSUME Init PROVE TypeOK
  OBVIOUS
<1>1. /\ DOMAIN docs = {}
      /\ docs \in [DOMAIN docs -> Entries]
  BY DEF Init
<1> QED
  BY <1>1 DEF Init, TypeOK

LEMMA NextType == TypeOK /\ [Next]_vars => TypeOK'
<1> SUFFICES ASSUME TypeOK, [Next]_vars PROVE TypeOK'
  OBVIOUS
<1>1. CASE Next
  BY <1>1, ChangeType, ReadType, NameType, PublishType, ReplaceType, RestartType,
     DamageType DEF Next
<1>2. CASE UNCHANGED vars
  BY <1>2 DEF vars, disk, snapshot, TypeOK
<1> QED
  BY <1>1, <1>2

(* The variables keep their types, and a process is in its loop exactly while *)
(* results are left to handle.                                                *)
THEOREM TypeCorrect == Spec => []TypeOK
  BY InitType, NextType, PTL DEF Spec

-------------------------------------------------------------------------------
(* Every entry names a document, its own or one that took its number *)

(* What was theirs stays theirs: no document is ever replaced or removed. *)
LEMMA LinkedKeeps ==
    ASSUME TypeOK, NEW p \in Procs, now[p] \in Entries, Linked(p)
    PROVE  /\ \A entries : Theirs(entries, docs) => Theirs(entries, docs')
           /\ \A e : Named(e, docs) => Named(e, docs')
<1>1. \A e : Renamed(e, docs) => Renamed(e, docs')
  BY LinkedType DEF Renamed
<1>2. \A e : Match(e, docs) => Match(e, docs')
  BY <1>1, LinkedType DEF Match
<1> QED
  BY <1>1, <1>2 DEF Theirs, Named

(* A first name taken by another process was taken for the same result, and   *)
(* holds the same entry; and a number is tried after the first name.          *)
LEMMA LinkedMatches ==
    ASSUME IInv, NEW p \in Procs, now[p] \in Entries, Linked(p)
    PROVE  Theirs({now[p]}, docs') /\ DocsNamed'
<1> DEFINE n == now[p].name
<1>1. /\ n \in Names /\ now[p].id \in Results
      /\ now[p] = [id |-> now[p].id, name |-> n]
      /\ Named(now[p], docs)
  BY NoEntryAssumption DEF IInv, NowNamed, Entries
<1>2. /\ n.stamp = Stamp[now[p].id]
      /\ n.tag \in Results => n.tag = now[p].id
  BY <1>1 DEF Named, Renamed, Own
<1>3. CASE Free(n)
  <2>1. /\ n \in DOMAIN docs' /\ docs'[n] = now[p]
        /\ DOMAIN docs' = DOMAIN docs \cup {n}
        /\ \A m \in DOMAIN docs : docs'[m] = docs[m]
    BY <1>3 DEF Linked, Free
  <2>2. Theirs({now[p]}, docs')
    BY <2>1 DEF Theirs, Match
  <2> QED
    BY <1>1, <1>2, <2>1, <2>2 DEF IInv, DocsNamed
<1>4. CASE ~Free(n)
  <2>1. docs' = docs /\ n \in DOMAIN docs
    BY <1>4 DEF Linked, Free
  <2>2. CASE Renamed(now[p], docs)
    <3>1. Match(now[p], docs)
      BY <2>1, <2>2 DEF Match
    <3> QED
      BY <2>1, <3>1 DEF IInv, DocsNamed, Theirs
  <2>3. CASE n = Own(now[p])
    <3>1. /\ docs[n] \in Entries /\ docs[n].name = n
          /\ n.tag \in Results => n.tag = docs[n].id
      BY <2>1 DEF IInv, TypeOK, DocsNamed
    <3>2. n.tag = now[p].id
      BY <2>3 DEF Own
    <3>3. docs[n].id = now[p].id
      BY <1>1, <3>1, <3>2
    <3>4. docs[n] = [id |-> docs[n].id, name |-> docs[n].name]
      BY <3>1 DEF Entries
    <3>5. docs[n] = now[p]
      BY <1>1, <3>1, <3>3, <3>4
    <3>6. Match(now[p], docs)
      BY <2>1, <3>5 DEF Match
    <3> QED
      BY <2>1, <3>6 DEF IInv, DocsNamed, Theirs
  <2> QED
    BY <1>1, <2>2, <2>3 DEF Named
<1> QED
  BY <1>3, <1>4

LEMMA PublishInv ==
    ASSUME IInv, NEW p \in Procs, Publish(p)
    PROVE  DocsNamed' /\ NowNamed' /\ KnownMatch' /\ ReplaceMatches'
<1>1. /\ pc[p] = "publish" /\ UNCHANGED <<index, good, skipped, shown>>
      /\ pc \in [Procs -> {"idle", "load", "name", "publish", "replace"}]
      /\ now \in [Procs -> Entries \cup {NoEntry}]
  BY DEF Publish, snapshot, IInv, TypeOK
<1>2. now[p] \in Entries
  BY <1>1 DEF IInv, TypeOK
<1>3. /\ \A entries : Theirs(entries, docs) => Theirs(entries, docs')
      /\ \A e : Named(e, docs) => Named(e, docs')
  <2>1. CASE Linked(p)
    BY <1>2, <2>1, LinkedKeeps DEF IInv
  <2>2. CASE UNCHANGED docs
    BY <2>2
  <2> QED
    BY <2>1, <2>2 DEF Publish
<1>4. DocsNamed'
  <2>1. CASE Linked(p)
    BY <1>2, <2>1, LinkedMatches
  <2>2. CASE UNCHANGED docs
    BY <2>2 DEF IInv, DocsNamed
  <2> QED
    BY <2>1, <2>2 DEF Publish
<1>5. KnownMatch'
  BY <1>1, <1>3 DEF IInv, KnownMatch
<1>6. CASE Linked(p) /\ pc' = Set(pc, p, "replace") /\ UNCHANGED now
  <2>1. Theirs({now[p]}, docs')
    BY <1>2, <1>6, LinkedMatches
  <2>2. ReplaceMatches'
    BY <1>1, <1>3, <1>6, <2>1 DEF IInv, ReplaceMatches, Set
  <2> QED
    BY <1>3, <1>4, <1>5, <1>6, <2>2 DEF IInv, NowNamed
<1>7. CASE Fail(p)
  <2>1. NowNamed'
    BY <1>1, <1>3, <1>7 DEF IInv, NowNamed, Fail, Set
  <2>2. ReplaceMatches'
    BY <1>1, <1>3, <1>7 DEF IInv, ReplaceMatches, Fail, Set
  <2> QED
    BY <1>4, <1>5, <2>1, <2>2
<1> QED
  BY <1>6, <1>7 DEF Publish

(* Loading finds entries that match. *)
LEMMA LoadMatches ==
    ASSUME IInv, NEW p \in Procs, Load(p), UNCHANGED docs
    PROVE  /\ Theirs(Readable \cup Unreadable, docs')
           /\ \A q \in Procs : Theirs(good'[q] \cup skipped'[q], docs')
<1>1. Theirs(index.entries, docs)
  BY DEF IInv, KnownMatch
<1>2. Theirs(Readable, docs) /\ Theirs(Unreadable, docs)
  BY <1>1 DEF Readable, Unreadable, Valid, Theirs
<1>3. \A q \in Procs : Theirs(good[q], docs) /\ Theirs(skipped[q], docs)
  BY DEF IInv, KnownMatch, Theirs
<1>4. /\ good' = [good EXCEPT ![p] = Readable]
      /\ skipped' = [skipped EXCEPT ![p] = Unreadable]
      /\ good \in [Procs -> SUBSET Entries]
      /\ skipped \in [Procs -> SUBSET Entries]
  BY DEF Load, Set, IInv, TypeOK
<1>5. \A q \in Procs : Theirs(good'[q], docs) /\ Theirs(skipped'[q], docs)
  BY <1>2, <1>3, <1>4
<1> QED
  BY <1>2, <1>5 DEF Theirs

(* The loop shows entries that match. *)
LEMMA HandledMatches ==
    ASSUME IInv, NEW p \in Procs, NEW r, NEW entries, NEW unavailable,
           Handled(p, r, entries, unavailable), Theirs(entries, docs),
           UNCHANGED docs
    PROVE  /\ \A q \in Procs : Theirs(shown'[q], docs)
           /\ NowNamed'
           /\ \A q \in Procs :
                pc'[q] = "replace" => pc[q] = "replace" /\ now'[q] = now[q]
<1>1. /\ now' = [now EXCEPT ![p] = NoEntry]
      /\ now \in [Procs -> Entries \cup {NoEntry}]
      /\ pc \in [Procs -> {"idle", "load", "name", "publish", "replace"}]
      /\ shown \in [Procs -> SUBSET Entries]
      /\ \A q \in Procs : Theirs(shown[q], docs)
  BY DEF Handled, Set, IInv, TypeOK, KnownMatch, Theirs
<1>2. NowNamed'
  BY <1>1 DEF IInv, NowNamed
<1>3. CASE todo[p] = {r}
  <2>1. /\ pc' = [pc EXCEPT ![p] = "idle"]
        /\ shown' = [shown EXCEPT ![p] = Displayed(p, entries, unavailable)]
    BY <1>3 DEF Handled, Set
  <2>2. Theirs(Displayed(p, entries, unavailable), docs)
    BY <1>1 DEF Displayed
  <2> QED
    BY <1>1, <1>2, <2>1, <2>2
<1>4. CASE todo[p] # {r}
  <2>1. pc' = [pc EXCEPT ![p] = "load"] /\ shown' = shown
    BY <1>4 DEF Handled, Set
  <2> QED
    BY <1>1, <1>2, <2>1
<1> QED
  BY <1>3, <1>4

LEMMA ReadInv ==
    ASSUME IInv, NEW p \in Procs, Read(p)
    PROVE  DocsNamed' /\ NowNamed' /\ KnownMatch' /\ ReplaceMatches'
<1>1. PICK r \in todo[p] :
        /\ Load(p)
        /\ IF Settled(r)
           THEN Handled(p, r, Readable, Unavailable)
           ELSE /\ pc' = [pc EXCEPT ![p] = "name"]
                /\ now' = [now EXCEPT ![p] =
                            [id |-> r, name |-> [stamp |-> Stamp[r], tag |-> r]]]
                /\ UNCHANGED <<todo, shown>>
  BY DEF Read, Set
<1>2. /\ UNCHANGED <<index, docs>>
      /\ pc \in [Procs -> {"idle", "load", "name", "publish", "replace"}]
      /\ now \in [Procs -> Entries \cup {NoEntry}]
  BY DEF Read, disk, IInv, TypeOK
<1>3. /\ Theirs(Readable \cup Unreadable, docs)
      /\ \A q \in Procs : Theirs(good'[q] \cup skipped'[q], docs)
  BY <1>1, <1>2, LoadMatches
<1>4. DocsNamed'
  BY <1>2 DEF IInv, DocsNamed
<1>5. /\ \A q \in Procs : Theirs(shown'[q], docs)
      /\ NowNamed'
      /\ \A q \in Procs :
            pc'[q] = "replace" => pc[q] = "replace" /\ now'[q] = now[q]
  <2>1. CASE Settled(r)
    <3>1. Theirs(Readable, docs)
      BY <1>3 DEF Theirs
    <3> QED
      BY <1>1, <1>2, <2>1, <3>1, HandledMatches
  <2>2. CASE ~Settled(r)
    <3>1. /\ pc' = [pc EXCEPT ![p] = "name"]
          /\ now' = [now EXCEPT ![p] =
                        [id |-> r, name |-> [stamp |-> Stamp[r], tag |-> r]]]
          /\ shown' = shown
      BY <1>1, <2>2
    <3>2. \A q \in Procs : Theirs(shown'[q], docs)
      BY <3>1 DEF IInv, KnownMatch, Theirs
    <3>3. NowNamed'
      <4> DEFINE e == [id |-> r, name |-> [stamp |-> Stamp[r], tag |-> r]]
      <4>1. Named(e, docs)
        BY DEF Named, Own
      <4>2. now'[p] = e /\ \A q \in Procs \ {p} : now'[q] = now[q]
        BY <1>2, <3>1
      <4> HIDE DEF e
      <4> QED
        BY <1>2, <4>1, <4>2 DEF IInv, NowNamed
    <3> QED
      BY <1>2, <3>1, <3>2, <3>3
  <2> QED
    BY <2>1, <2>2
<1>6. KnownMatch'
  BY <1>2, <1>3, <1>5 DEF IInv, KnownMatch, Theirs
<1>7. ReplaceMatches'
  BY <1>2, <1>5 DEF IInv, ReplaceMatches
<1> QED
  BY <1>4, <1>5, <1>6, <1>7

LEMMA NameInv ==
    ASSUME IInv, NEW p \in Procs, Name(p)
    PROVE  DocsNamed' /\ NowNamed' /\ KnownMatch' /\ ReplaceMatches'
<1>1. /\ pc' = [pc EXCEPT ![p] = "publish"]
      /\ UNCHANGED <<index, docs, good, skipped, shown>>
      /\ pc \in [Procs -> {"idle", "load", "name", "publish", "replace"}]
  BY DEF Name, Set, disk, snapshot, IInv, TypeOK
<1>2. /\ now[p] \in Entries /\ now'[p] \in Entries
      /\ now'[p].name.stamp = now[p].name.stamp
      /\ now'[p].id = now[p].id
      /\ \A q \in Procs \ {p} : now'[q] = now[q]
  BY NameType DEF IInv
<1>3. DocsNamed' /\ KnownMatch'
  BY <1>1 DEF IInv, DocsNamed, KnownMatch
<1>4. Named(now'[p], docs)
  <2>1. Named(now[p], docs)
    BY <1>2, NoEntryAssumption DEF IInv, NowNamed
  <2>2. CASE UNCHANGED now
    BY <2>1, <2>2
  <2>3. CASE ~UNCHANGED now
    <3>1. ~Free(now[p].name) /\ now'[p].name.tag \in 2 .. MaxTag
      <4>1. ~Free(now[p].name)
        BY <2>3 DEF Name
      <4>2. PICK t \in 2 .. MaxTag : now' = [now EXCEPT ![p].name.tag = t]
        BY <2>3 DEF Name
      <4>3. now[p] \in [id : Results, name : [stamp : {Stamp[r] : r \in Results}, tag : Tags]]
        BY <1>2 DEF Entries, Names
      <4>4. now \in [Procs -> Entries \cup {NoEntry}]
        BY DEF IInv, TypeOK
      <4>5. now'[p].name.tag = t
        BY <4>2, <4>3, <4>4
      <4> QED
        BY <4>1, <4>5
    <3>2. now'[p].name.tag \notin Results
      <4>1. now'[p].name.tag \in Nat
        BY <3>1, ArchiveAssumption
      <4> QED
        BY <4>1, ArchiveAssumption
    <3>3. Own(now'[p]) = Own(now[p]) /\ now[p].id \in Results
      BY <1>2 DEF Own, Entries
    <3>4. Own(now[p]) \in DOMAIN docs /\ docs[Own(now[p])].id = now[p].id
      <4>1. CASE now[p].name = Own(now[p])
        <5>1. Own(now[p]) \in DOMAIN docs /\ Own(now[p]).tag = now[p].id
          BY <3>1, <4>1 DEF Free, Own
        <5> QED
          BY <3>3, <5>1 DEF IInv, DocsNamed
      <4>2. CASE Renamed(now[p], docs)
        BY <4>2 DEF Renamed
      <4> QED
        BY <2>1, <4>1, <4>2 DEF Named
    <3>5. now[p].name.stamp = Stamp[now[p].id]
      BY <2>1 DEF Named, Own
    <3> QED
      BY <1>2, <3>2, <3>3, <3>4, <3>5 DEF Named, Renamed
  <2> QED
    BY <2>2, <2>3
<1>6. NowNamed'
  BY <1>1, <1>2, <1>4 DEF IInv, NowNamed
<1>5. ReplaceMatches'
  BY <1>1, <1>2 DEF IInv, ReplaceMatches
<1> QED
  BY <1>3, <1>5, <1>6

LEMMA ReplaceInv ==
    ASSUME IInv, NEW p \in Procs, Replace(p)
    PROVE  DocsNamed' /\ NowNamed' /\ KnownMatch' /\ ReplaceMatches'
<1>1. /\ pc[p] = "replace" /\ UNCHANGED docs
      /\ pc \in [Procs -> {"idle", "load", "name", "publish", "replace"}]
      /\ now \in [Procs -> Entries \cup {NoEntry}]
      /\ good \in [Procs -> SUBSET Entries]
  BY DEF Replace, IInv, TypeOK
<1>2. DocsNamed'
  BY <1>1 DEF IInv, DocsNamed
<1>3. CASE Fail(p) /\ UNCHANGED <<index, snapshot, shown, since>>
  <2>1. NowNamed' /\ ReplaceMatches'
    BY <1>1, <1>3 DEF IInv, NowNamed, ReplaceMatches, Fail, Set
  <2>2. KnownMatch'
    BY <1>1, <1>3 DEF IInv, KnownMatch, snapshot
  <2> QED
    BY <1>2, <2>1, <2>2
<1>4. CASE ~(Fail(p) /\ UNCHANGED <<index, snapshot, shown, since>>)
  <2>1. /\ index' = [ok |-> TRUE, entries |-> Indexed(p), invalid |-> {}]
        /\ good' = [good EXCEPT ![p] = good[p] \cup {now[p]}]
        /\ Handled(p, now[p].id, good[p] \cup {now[p]}, FALSE)
        /\ skipped' = skipped
    BY <1>4 DEF Replace, Set
  <2>2. /\ Theirs(good[p] \cup skipped[p], docs)
        /\ Theirs({now[p]}, docs)
        /\ \A q \in Procs : Theirs(good[q], docs) /\ Theirs(skipped[q], docs)
    BY <1>1 DEF IInv, KnownMatch, ReplaceMatches, Theirs
  <2>3. Theirs(Indexed(p), docs) /\ Theirs(good[p] \cup {now[p]}, docs)
    BY <2>2 DEF Theirs, Indexed
  <2>4. /\ \A q \in Procs : Theirs(shown'[q], docs)
        /\ NowNamed'
        /\ \A q \in Procs :
              pc'[q] = "replace" => pc[q] = "replace" /\ now'[q] = now[q]
    BY <1>1, <2>1, <2>3, HandledMatches
  <2>5. \A q \in Procs : Theirs(good'[q], docs)
    BY <1>1, <2>1, <2>2, <2>3
  <2>6. KnownMatch'
    <3>1. index'.entries = Indexed(p)
      BY <2>1
    <3> QED
      BY <1>1, <2>1, <2>2, <2>3, <2>4, <2>5, <3>1 DEF KnownMatch, Theirs
  <2>7. ReplaceMatches'
    BY <1>1, <2>4 DEF IInv, ReplaceMatches
  <2> QED
    BY <1>2, <2>4, <2>6, <2>7
<1> QED
  BY <1>3, <1>4

LEMMA RestartInv ==
    ASSUME IInv, NEW p \in Procs, Restart(p)
    PROVE  DocsNamed' /\ NowNamed' /\ KnownMatch' /\ ReplaceMatches'
<1>1. /\ Load(p) /\ UNCHANGED <<index, docs>>
      /\ shown' = [shown EXCEPT ![p] = Readable]
      /\ pc' = [pc EXCEPT ![p] = "idle"]
      /\ now' = [now EXCEPT ![p] = NoEntry]
      /\ pc \in [Procs -> {"idle", "load", "name", "publish", "replace"}]
      /\ now \in [Procs -> Entries \cup {NoEntry}]
      /\ shown \in [Procs -> SUBSET Entries]
  BY DEF Restart, Set, disk, IInv, TypeOK
<1>2. /\ Theirs(Readable \cup Unreadable, docs)
      /\ \A q \in Procs : Theirs(good'[q] \cup skipped'[q], docs)
  BY <1>1, LoadMatches
<1>3. \A q \in Procs : Theirs(shown'[q], docs)
  BY <1>1, <1>2 DEF IInv, KnownMatch, Theirs
<1>4. KnownMatch'
  BY <1>1, <1>2, <1>3 DEF IInv, KnownMatch, Theirs
<1>5. DocsNamed' /\ NowNamed' /\ ReplaceMatches'
  BY <1>1 DEF IInv, DocsNamed, NowNamed, ReplaceMatches
<1> QED
  BY <1>4, <1>5

LEMMA OthersInv ==
    ASSUME IInv, (\E p \in Procs : Change(p)) \/ DamageIndex \/ RemoveIndex \/ DamageDocument
    PROVE  DocsNamed' /\ NowNamed' /\ KnownMatch' /\ ReplaceMatches'
<1>1. /\ UNCHANGED <<docs, now, good, skipped, shown>>
      /\ \A q \in Procs : pc'[q] = "replace" => pc[q] = "replace"
  BY DEF Change, DamageIndex, RemoveIndex, DamageDocument, disk, snapshot, Set, IInv, TypeOK
<1>2. index'.entries \subseteq index.entries
  BY DamageType DEF Change, disk, IInv
<1> QED
  BY <1>1, <1>2 DEF IInv, DocsNamed, NowNamed, KnownMatch, ReplaceMatches, Theirs

LEMMA InitInv == Init => IInv
<1> SUFFICES ASSUME Init PROVE IInv
  OBVIOUS
<1>1. TypeOK
  BY InitType
<1>2. DocsNamed /\ NowNamed /\ KnownMatch /\ ReplaceMatches
  BY DEF Init, DocsNamed, NowNamed, KnownMatch, ReplaceMatches, Theirs
<1> QED
  BY <1>1, <1>2 DEF IInv

LEMMA NextInv == IInv /\ [Next]_vars => IInv'
<1> SUFFICES ASSUME IInv, [Next]_vars PROVE IInv'
  OBVIOUS
<1>1. TypeOK'
  BY NextType DEF IInv
<1>2. CASE Next
  <2>1. DocsNamed' /\ NowNamed' /\ KnownMatch' /\ ReplaceMatches'
    BY <1>2, ReadInv, NameInv, PublishInv, ReplaceInv, RestartInv, OthersInv DEF Next
  <2> QED
    BY <1>1, <2>1 DEF IInv
<1>3. CASE UNCHANGED vars
  BY <1>1, <1>3 DEF vars, disk, snapshot, IInv, DocsNamed, NowNamed, KnownMatch,
     ReplaceMatches
<1> QED
  BY <1>2, <1>3

LEMMA InvMatches == IInv => EntriesMatch
  BY DEF IInv, TypeOK, KnownMatch, Theirs, Match, Renamed, EntriesMatch

(* Whatever crashed, failed or raced, and whatever seconds results complete   *)
(* in, an indexed entry and an entry on the screen name a published document, *)
(* and it is theirs, or the entry has a number in its name and a document of  *)
(* its result is published under the first one.                               *)
THEOREM EntriesAreTheirs == Spec => []EntriesMatch
<1>1. Init => IInv
  BY InitInv
<1>2. IInv /\ [Next]_vars => IInv'
  BY NextInv
<1>3. IInv => EntriesMatch
  BY InvMatches
<1> QED
  BY <1>1, <1>2, <1>3, PTL DEF Spec

-------------------------------------------------------------------------------
(* History.  What a process writes is what it read and its own entry, so that *)
(* a replacement loses only what came in between: whatever is indexed while a *)
(* process is on its way to replace the index, it has read, or another put it *)
(* there since.  An entry that was lost and comes back with the snapshot of a *)
(* third process counts as put there again.                                   *)
ReadOrSince ==
    \A p \in Procs : pc[p] \in {"name", "publish", "replace"} =>
        index.entries \subseteq good[p] \cup skipped[p] \cup since[p]

(* Reading the index leaves out nothing of one that is readable throughout. *)
LEMMA ReadsAll ==
    ASSUME TypeOK, ~Unavailable
    PROVE  Readable \cup Unreadable = index.entries
  BY DEF Readable, Unreadable, Valid, Unavailable

LEMMA ReadReadOrSince ==
    ASSUME TypeOK, ReadOrSince, NEW p \in Procs, Read(p)
    PROVE  ReadOrSince'
<1>1. PICK r \in todo[p] :
        /\ Load(p)
        /\ IF Settled(r)
           THEN Handled(p, r, Readable, Unavailable)
           ELSE /\ pc' = [pc EXCEPT ![p] = "name"]
                /\ now' = [now EXCEPT ![p] =
                            [id |-> r, name |-> [stamp |-> Stamp[r], tag |-> r]]]
                /\ UNCHANGED <<todo, shown>>
  BY DEF Read, Set
<1>2. /\ good' = [good EXCEPT ![p] = Readable]
      /\ skipped' = [skipped EXCEPT ![p] = Unreadable]
      /\ since' = [since EXCEPT ![p] = {}]
      /\ index' = index
  BY <1>1 DEF Load, Set, Read, disk
<1>3. /\ good \in [Procs -> SUBSET Entries]
      /\ skipped \in [Procs -> SUBSET Entries]
      /\ since \in [Procs -> SUBSET Entries]
      /\ pc \in [Procs -> {"idle", "load", "name", "publish", "replace"}]
  BY DEF TypeOK
<1>4. /\ pc'[p] \in {"idle", "load"} \/ ~Unavailable
      /\ \A q \in Procs \ {p} : pc'[q] = pc[q]
  <2>1. CASE Settled(r)
    BY <1>1, <1>3, <2>1 DEF Handled, Set
  <2>2. CASE ~Settled(r)
    BY <1>1, <1>3, <2>2 DEF Settled
  <2> QED
    BY <2>1, <2>2
<1>5. ~Unavailable => index.entries \subseteq good'[p] \cup skipped'[p]
  BY <1>2, <1>3, ReadsAll
<1>6. \A q \in Procs \ {p} :
          good'[q] = good[q] /\ skipped'[q] = skipped[q] /\ since'[q] = since[q]
  BY <1>2, <1>3
<1> QED
  BY <1>2, <1>4, <1>5, <1>6 DEF ReadOrSince

LEMMA ReplaceReadOrSince ==
    ASSUME TypeOK, ReadOrSince, NEW p \in Procs, Replace(p)
    PROVE  /\ ReadOrSince'
           /\ \A e \in index.entries \ index'.entries :
                  pc[p] = "replace" /\ e \in since[p]
<1>1. /\ pc[p] = "replace"
      /\ pc \in [Procs -> {"idle", "load", "name", "publish", "replace"}]
      /\ good \in [Procs -> SUBSET Entries]
      /\ skipped \in [Procs -> SUBSET Entries]
      /\ since \in [Procs -> SUBSET Entries]
      /\ index.entries \subseteq good[p] \cup skipped[p] \cup since[p]
  BY DEF Replace, TypeOK, ReadOrSince
<1>2. CASE Fail(p) /\ UNCHANGED <<index, snapshot, shown, since>>
  BY <1>1, <1>2 DEF Fail, Set, snapshot, ReadOrSince
<1>3. CASE ~(Fail(p) /\ UNCHANGED <<index, snapshot, shown, since>>)
  <2>1. /\ index' = [ok |-> TRUE, entries |-> Indexed(p), invalid |-> {}]
        /\ good' = [good EXCEPT ![p] = good[p] \cup {now[p]}]
        /\ Handled(p, now[p].id, good[p] \cup {now[p]}, FALSE)
        /\ since' = [q \in Procs |-> IF q = p THEN {}
                        ELSE since[q] \cup (Indexed(p) \ index.entries)]
        /\ skipped' = skipped
    BY <1>3 DEF Replace, Set
  <2>2. index'.entries = Indexed(p)
    BY <2>1
  <2>3. \A e \in index.entries \ index'.entries : e \in since[p]
    BY <1>1, <2>2 DEF Indexed
  <2>4. /\ pc'[p] \in {"idle", "load"}
        /\ \A q \in Procs \ {p} : pc'[q] = pc[q]
    BY <1>1, <2>1 DEF Handled, Set
  <2>5. ASSUME NEW q \in Procs \ {p}
        PROVE  /\ good'[q] = good[q] /\ skipped'[q] = skipped[q]
               /\ since'[q] = since[q] \cup (Indexed(p) \ index.entries)
    BY <1>1, <2>1, <2>5
  <2>6. ReadOrSince'
    BY <2>2, <2>4, <2>5 DEF ReadOrSince
  <2> QED
    BY <1>1, <2>3, <2>6
<1> QED
  BY <1>2, <1>3

LEMMA RestartReadOrSince ==
    ASSUME TypeOK, ReadOrSince, NEW p \in Procs, Restart(p)
    PROVE  ReadOrSince'
<1>1. /\ good' = [good EXCEPT ![p] = Readable]
      /\ skipped' = [skipped EXCEPT ![p] = Unreadable]
      /\ since' = [since EXCEPT ![p] = {}]
      /\ pc' = [pc EXCEPT ![p] = "idle"]
      /\ index' = index
  BY DEF Restart, Load, Set, disk
<1>2. /\ good \in [Procs -> SUBSET Entries]
      /\ skipped \in [Procs -> SUBSET Entries]
      /\ since \in [Procs -> SUBSET Entries]
      /\ pc \in [Procs -> {"idle", "load", "name", "publish", "replace"}]
  BY DEF TypeOK
<1>3. /\ pc'[p] = "idle"
      /\ \A q \in Procs \ {p} :
            /\ pc'[q] = pc[q] /\ good'[q] = good[q]
            /\ skipped'[q] = skipped[q] /\ since'[q] = since[q]
  BY <1>1, <1>2
<1> QED
  BY <1>1, <1>3 DEF ReadOrSince

(* The other steps leave the snapshots alone, and the index or remove it, and *)
(* none of them takes a process past its reading.                             *)
LEMMA OthersReadOrSince ==
    ASSUME TypeOK, ReadOrSince,
           \/ \E p \in Procs : Change(p) \/ Name(p) \/ Publish(p)
           \/ DamageIndex \/ RemoveIndex \/ DamageDocument
    PROVE  ReadOrSince' /\ (index'.entries = index.entries \/ index'.entries = {})
<1>1. /\ UNCHANGED <<good, skipped, since>>
      /\ index'.entries = index.entries \/ index'.entries = {}
      /\ \A q \in Procs : pc'[q] \in {"name", "publish", "replace"} =>
              pc[q] \in {"name", "publish", "replace"}
  <2>1. pc \in [Procs -> {"idle", "load", "name", "publish", "replace"}]
    BY DEF TypeOK
  <2>2. ASSUME NEW p \in Procs, Change(p) \/ Name(p) \/ Publish(p)
        PROVE  /\ UNCHANGED <<good, skipped, since, index>>
               /\ \A q \in Procs : pc'[q] \in {"name", "publish", "replace"} =>
                       pc[q] \in {"name", "publish", "replace"}
    BY <2>1, <2>2 DEF Change, Name, Publish, Fail, Set, disk, snapshot
  <2>3. ASSUME DamageIndex \/ RemoveIndex \/ DamageDocument
        PROVE  /\ UNCHANGED <<good, skipped, since, pc>>
               /\ index'.entries = index.entries \/ index'.entries = {}
    BY <2>3, DamageType DEF DamageIndex, RemoveIndex, DamageDocument, snapshot
  <2> QED
    BY <2>2, <2>3
<1> QED
  BY <1>1 DEF ReadOrSince

LEMMA HistoryStep ==
    ASSUME TypeOK, ReadOrSince, [Next]_vars
    PROVE  /\ ReadOrSince'
           /\ \A e \in index.entries \ index'.entries :
                  \/ index'.entries = {}
                  \/ \E p \in Procs : pc[p] = "replace" /\ e \in since[p]
<1>1. ASSUME NEW p \in Procs, Read(p) \/ Restart(p)
      PROVE  ReadOrSince' /\ index' = index
  BY <1>1, ReadReadOrSince, RestartReadOrSince DEF Read, Restart, disk
<1>2. CASE UNCHANGED vars
  BY <1>2 DEF vars, disk, snapshot, ReadOrSince
<1> QED
  BY <1>1, <1>2, ReplaceReadOrSince, OthersReadOrSince DEF Next

(* A display becomes empty only where no indexed document loads: a process    *)
(* that finds the archive unavailable keeps what it showed, and one that      *)
(* finds its result indexed finds every entry.                                *)
LEMMA ReadKeepsShowing ==
    ASSUME TypeOK, NEW p \in Procs, Read(p),
           NEW q \in Procs, shown[q] # {}, shown'[q] = {}
    PROVE  \A e \in index.entries : ~Loads(e)
<1>1. PICK r \in todo[p] :
        IF Settled(r) THEN Handled(p, r, Readable, Unavailable) ELSE UNCHANGED shown
  BY DEF Read
<1>2. shown \in [Procs -> SUBSET Entries]
  BY DEF TypeOK
<1>3. shown'[p] = Displayed(p, Readable, Unavailable) /\ q = p
  BY <1>1, <1>2 DEF Handled, Set
<1>4. ~Unavailable /\ Readable = {}
  BY <1>3 DEF Displayed
<1> QED
  BY <1>4, ReadsAll DEF Unreadable

LEMMA DisplayStep ==
    ASSUME TypeOK, [Next]_vars, NEW q \in Procs, shown[q] # {}, shown'[q] = {}
    PROVE  held'[q] = {} \/ \A e \in index.entries : ~Loads(e)
<1>1. shown \in [Procs -> SUBSET Entries] /\ held \in [Procs -> SUBSET Results]
  BY DEF TypeOK
<1>2. ASSUME NEW p \in Procs, Replace(p) PROVE FALSE
  BY <1>1, <1>2 DEF Replace, Handled, Displayed, Set
<1>3. ASSUME NEW p \in Procs, Restart(p) PROVE held'[q] = {}
  BY <1>1, <1>3 DEF Restart, Set
<1>4. ASSUME \/ \E p \in Procs : Change(p) \/ Name(p) \/ Publish(p)
             \/ DamageIndex \/ RemoveIndex \/ DamageDocument \/ UNCHANGED vars
      PROVE  FALSE
  BY <1>4 DEF Change, Name, Publish, DamageIndex, RemoveIndex, DamageDocument, vars
<1> QED
  BY <1>2, <1>3, <1>4, ReadKeepsShowing DEF Next

(* No entry leaves the index, unless the index is removed, but one that       *)
(* another process put there between this process's reading and its writing,  *)
(* with any number of processes, and whatever they name their documents.  And *)
(* no running process loses sight of its history while an indexed document    *)
(* loads.                                                                     *)
THEOREM HistoriesAreKept == Spec => HistoryIsKept
<1> DEFINE Raced ==
      \A e \in index.entries \ index'.entries :
          \/ index'.entries = {}
          \/ \E p \in Procs : pc[p] = "replace" /\ e \in since[p]
<1> DEFINE Shows ==
      \A p \in Procs :
          shown[p] # {} /\ shown'[p] = {} =>
              held'[p] = {} \/ \A e \in index.entries : ~Loads(e)
<1>1. Init => TypeOK /\ ReadOrSince
  BY InitType DEF Init, ReadOrSince
<1>2. (TypeOK /\ ReadOrSince) /\ [Next]_vars => (TypeOK /\ ReadOrSince)'
  BY NextType, HistoryStep
<1>3. (TypeOK /\ ReadOrSince) /\ [Next]_vars => [Raced]_vars
  BY HistoryStep
<1>4. (TypeOK /\ ReadOrSince) /\ [Next]_vars => [Shows]_vars
  BY DisplayStep
<1> HIDE DEF Raced, Shows
<1>5. Spec => [][Raced]_vars /\ [][Shows]_vars
  BY <1>1, <1>2, <1>3, <1>4, PTL DEF Spec
<1> QED
  BY <1>5 DEF Raced, Shows, OnlyRacesLose, KeepsShowing, HistoryIsKept

-------------------------------------------------------------------------------
(* ArchivedSelection *)

(* Each result once.                                                          *)
Distinct(ids) == \A i, j \in DOMAIN ids : ids[i] = ids[j] => i = j

Alike(ids) == Distinct(ids) /\ \A i, j \in DOMAIN ids : Kind[ids[i]] = Kind[ids[j]]

(* A message names each result once; one that opens names one of the session. *)
Sensible(message) ==
    /\ Distinct(message.ids)
    /\ message.asks = "open" => Len(message.ids) = 1 /\ message.ids[1] \in Session

SInv ==
    /\ SelectionTypeOK
    /\ Alike(selection)
    /\ \A i \in 1 .. Len(posted) : Sensible(posted[i])

LEMMA SelectionsAre ==
    /\ \A ids \in Selections :
          /\ ids \in Seq(Archived) /\ Len(ids) \in 0 .. 2
          /\ DOMAIN ids = 1 .. Len(ids) /\ \A i \in 1 .. Len(ids) : ids[i] \in Archived
    /\ \A ids \in Seq(Archived) : Len(ids) <= 2 => ids \in Selections
<1>1. ASSUME NEW ids \in Selections
      PROVE  /\ ids \in Seq(Archived) /\ Len(ids) \in 0 .. 2
             /\ DOMAIN ids = 1 .. Len(ids) /\ \A i \in 1 .. Len(ids) : ids[i] \in Archived
  <2>1. PICK n \in 0 .. 2 : ids \in [1 .. n -> Archived]
    BY DEF Selections
  <2>2. n \in Nat
    OBVIOUS
  <2>3. ids \in Seq(Archived) /\ Len(ids) = n
    BY <2>1, <2>2
  <2> QED
    BY <2>1, <2>2, <2>3
<1>2. ASSUME NEW ids \in Seq(Archived), Len(ids) <= 2
      PROVE  ids \in Selections
  <2>1. Len(ids) \in Nat /\ ids \in [1 .. Len(ids) -> Archived]
    BY <1>2, LenProperties
  <2>2. Len(ids) \in 0 .. 2
    BY <1>2, <2>1
  <2> QED
    BY <2>1, <2>2 DEF Selections
<1> QED
  BY <1>1, <1>2

LEMMA ShortSelections ==
    /\ <<>> \in Selections /\ Alike(<<>>)
    /\ \A a \in Archived : <<a>> \in Selections /\ Alike(<<a>>)
    /\ \A a, b \in Archived :
          <<a, b>> \in Selections /\ (a # b => Distinct(<<a, b>>))
<1>1. <<>> \in Selections /\ Alike(<<>>)
  <2>1. <<>> \in Seq(Archived) /\ Len(<<>>) = 0 /\ DOMAIN <<>> = {}
    OBVIOUS
  <2>2. <<>> \in Selections
    <3> DEFINE ids == <<>>
    <3>1. ids \in Seq(Archived) /\ Len(ids) <= 2
      BY <2>1
    <3> HIDE DEF ids
    <3>2. ids \in Selections
      BY <3>1, SelectionsAre
    <3> QED
      BY <3>2 DEF ids
  <2>3. Alike(<<>>)
    BY <2>1 DEF Alike, Distinct
  <2> QED
    BY <2>2, <2>3
<1>2. ASSUME NEW a \in Archived
      PROVE  <<a>> \in Selections /\ Alike(<<a>>)
  <2>1. <<a>> \in Seq(Archived) /\ Len(<<a>>) = 1 /\ DOMAIN <<a>> = {1} /\ <<a>>[1] = a
    OBVIOUS
  <2>2. <<a>> \in Selections
    <3> DEFINE ids == <<a>>
    <3>1. ids \in Seq(Archived) /\ Len(ids) <= 2
      BY <2>1
    <3> HIDE DEF ids
    <3>2. ids \in Selections
      BY <3>1, SelectionsAre
    <3> QED
      BY <3>2 DEF ids
  <2>3. Alike(<<a>>)
    BY <2>1 DEF Alike, Distinct
  <2> QED
    BY <2>2, <2>3
<1>3. ASSUME NEW a \in Archived, NEW b \in Archived
      PROVE  <<a, b>> \in Selections /\ (a # b => Distinct(<<a, b>>))
  <2>1. /\ <<a, b>> \in Seq(Archived) /\ Len(<<a, b>>) = 2 /\ DOMAIN <<a, b>> = {1, 2}
        /\ <<a, b>>[1] = a /\ <<a, b>>[2] = b
    OBVIOUS
  <2>2. <<a, b>> \in Selections
    <3> DEFINE ids == <<a, b>>
    <3>1. ids \in Seq(Archived) /\ Len(ids) <= 2
      BY <2>1
    <3> HIDE DEF ids
    <3>2. ids \in Selections
      BY <3>1, SelectionsAre
    <3> QED
      BY <3>2 DEF ids
  <2>3. ASSUME a # b
        PROVE  Distinct(<<a, b>>)
    BY <2>1, <2>3 DEF Distinct
  <2> QED
    BY <2>2, <2>3
<1> QED
  BY <1>1, <1>2, <1>3

(* What is known of a selection is the selection, or one of its results alone. *)
LEMMA KnownIs ==
    ASSUME NEW ids \in Selections, NEW loaded
    PROVE  /\ Known(ids, loaded) \in Selections
           /\ \/ Known(ids, loaded) = ids
              \/ Len(Known(ids, loaded)) <= 1 /\ Alike(Known(ids, loaded))
<1> DEFINE known == {i \in DOMAIN ids : ids[i] \in loaded}
<1>1. CASE known = DOMAIN ids
  BY <1>1 DEF Known
<1>2. CASE known # DOMAIN ids /\ known = {}
  <2>1. Known(ids, loaded) = <<>> /\ Len(<<>>) = 0
    BY <1>2 DEF Known
  <2> QED
    BY <2>1, ShortSelections
<1>3. CASE known # DOMAIN ids /\ known # {}
  <2> DEFINE i == CHOOSE i \in known : TRUE
  <2>1. ids[i] \in Archived
    BY <1>3, SelectionsAre
  <2>2. Known(ids, loaded) = <<ids[i]>> /\ Len(<<ids[i]>>) = 1
    BY <1>3 DEF Known
  <2> HIDE DEF i
  <2> QED
    BY <2>1, <2>2, ShortSelections
<1> QED
  BY <1>1, <1>2, <1>3

LEMMA KnownStays ==
    ASSUME NEW ids \in Selections, NEW loaded
    PROVE  /\ Distinct(ids) => Distinct(Known(ids, loaded))
           /\ Alike(ids) => Alike(Known(ids, loaded))
  BY KnownIs DEF Alike

(* What the application accepts is alike, of whatever is named once.          *)
LEMMA AcceptedIs ==
    ASSUME NEW ids \in Selections, Distinct(ids)
    PROVE  Accepted(ids) \in Selections /\ Alike(Accepted(ids))
<1> DEFINE known == Known(ids, documents)
<1>1. known \in Selections /\ Distinct(known)
  BY KnownIs, KnownStays
<1>2. Accepted(ids) = IF Len(known) = 2 /\ Kind[known[1]] # Kind[known[2]]
                      THEN <<known[1]>> ELSE known
  BY DEF Accepted
<1> HIDE DEF known
<1>3. CASE Len(known) = 2 /\ Kind[known[1]] # Kind[known[2]]
  <2>1. known[1] \in Archived
    BY <1>1, <1>3, SelectionsAre
  <2> QED
    BY <1>2, <1>3, <2>1, ShortSelections
<1>4. CASE ~(Len(known) = 2 /\ Kind[known[1]] # Kind[known[2]])
  <2>1. Len(known) \in 0 .. 2 /\ DOMAIN known = 1 .. Len(known)
    BY <1>1, SelectionsAre
  <2>2. \A i, j \in DOMAIN known : Kind[known[i]] = Kind[known[j]]
    BY <1>4, <2>1
  <2> QED
    BY <1>1, <1>2, <1>4, <2>2 DEF Alike
<1> QED
  BY <1>3, <1>4

LEMMA RequestedIs ==
    ASSUME NEW message \in Messages, Sensible(message)
    PROVE  Requested(message) \in Selections /\ Distinct(Requested(message))
<1>1. message.ids \in Selections /\ Distinct(message.ids)
  BY DEF Messages, Sensible
<1>2. CASE message.asks = "compare" /\ ~Comparable(message.ids)
  <2> DEFINE known == Known(message.ids, documents)
  <2>1. known \in Selections
    BY <1>1, KnownIs
  <2>2. Requested(message) = First(known)
    BY <1>2 DEF Requested
  <2> HIDE DEF known
  <2>3. known \in Seq(Archived) /\ Len(known) \in 0 .. 2
    BY <2>1, SelectionsAre
  <2>4. CASE known = <<>>
    <3>1. First(known) = <<>>
      BY <2>4 DEF First
    <3> QED
      BY <2>2, <3>1, ShortSelections DEF Alike
  <2>5. CASE known # <<>>
    <3>1. Len(known) >= 1 /\ known[1] \in Archived
      BY <2>3, <2>5
    <3>2. First(known) = <<known[1]>>
      <4>1. First(known) = SubSeq(known, 1, 1)
        BY <2>5 DEF First
      <4>2. SubSeq(known, 1, 1) \in Seq(Archived) /\ Len(SubSeq(known, 1, 1)) = 1
        BY <2>3, <3>1
      <4>3. SubSeq(known, 1, 1)[1] = known[1]
        BY <2>3, <3>1
      <4> DEFINE head == SubSeq(known, 1, 1)
      <4>4. head \in Seq(Archived) /\ Len(head) = 1 /\ head[1] = known[1]
        BY <4>2, <4>3
      <4> HIDE DEF head, known
      <4>5. head = <<known[1]>>
        BY <4>4, <3>1
      <4> QED
        BY <4>1, <4>5 DEF head
    <3> QED
      BY <2>2, <3>1, <3>2, ShortSelections DEF Alike
  <2> QED
    BY <2>4, <2>5
<1>3. CASE ~(message.asks = "compare" /\ ~Comparable(message.ids))
  BY <1>1, <1>3 DEF Requested
<1> QED
  BY <1>2, <1>3

(* A change of the state may load any documents, and keeps what it selects.   *)
LEMMA ChangesKeep ==
    ASSUME NEW ids \in Selections, Alike(ids), documents \subseteq Archived, StateChanges(ids)
    PROVE  /\ documents' \subseteq Archived
           /\ selection' \in Selections /\ Alike(selection')
           /\ stale' = TRUE
<1>1. CASE documents' = documents /\ selection' = ids
  BY <1>1 DEF StateChanges
<1>2. ASSUME NEW loaded \in SUBSET Archived,
             documents' = loaded, selection' = Known(ids, loaded)
      PROVE  /\ documents' \subseteq Archived
             /\ selection' \in Selections /\ Alike(selection')
  BY <1>2, KnownIs, KnownStays
<1>3. ASSUME NEW new \in Archived, documents' = {new}, selection' = ids
      PROVE  documents' \subseteq Archived
  BY <1>3
<1> QED
  BY <1>1, <1>2, <1>3 DEF StateChanges

(* A message more is posted, a sensible one.                                  *)
LEMMA PostKeeps ==
    ASSUME SInv, NEW asks \in {"select", "compare", "open"}, NEW ids \in Selections,
           Distinct(ids), asks = "open" => Len(ids) = 1 /\ ids[1] \in Session,
           Post(asks, ids)
    PROVE  SInv'
<1> DEFINE message == [asks |-> asks, ids |-> ids]
<1>1. message \in Messages /\ Sensible(message)
  BY DEF Messages, Sensible
<1>2. /\ posted' = Append(posted, message)
      /\ UNCHANGED <<documents, selection, detail, view, stale>>
  BY DEF Post
<1>3. posted \in Seq(Messages)
  BY DEF SInv, SelectionTypeOK
<1> HIDE DEF message
<1>4. /\ posted' \in Seq(Messages) /\ Len(posted') = Len(posted) + 1
      /\ \A i \in 1 .. Len(posted) : posted'[i] = posted[i]
      /\ posted'[Len(posted) + 1] = message
  BY <1>1, <1>2, <1>3
<1>5. \A i \in 1 .. Len(posted') : Sensible(posted'[i])
  BY <1>1, <1>3, <1>4 DEF SInv
<1>6. SelectionTypeOK'
  BY <1>2, <1>4 DEF SInv, SelectionTypeOK
<1> QED
  BY <1>2, <1>5, <1>6 DEF SInv

LEMMA ToggleKeeps ==
    ASSUME SInv, NEW id \in Archived, Toggle(id)
    PROVE  SInv'
<1>1. /\ selection \in Selections /\ Distinct(selection)
      /\ selection \in Seq(Archived) /\ Len(selection) \in 0 .. 2
      /\ DOMAIN selection = 1 .. Len(selection)
      /\ \A i \in 1 .. Len(selection) : selection[i] \in Archived
  BY SelectionsAre DEF SInv, SelectionTypeOK, Alike
<1>2. CASE Selected(id)
  <2> DEFINE ids == Known(selection, Archived \ {id})
  <2>1. Post("select", ids)
    BY <1>2 DEF Toggle
  <2>2. ids \in Selections /\ Distinct(ids)
    BY <1>1, KnownIs, KnownStays
  <2> HIDE DEF ids
  <2> QED
    BY <2>1, <2>2, PostKeeps
<1>3. CASE ~Selected(id) /\ Len(selection) = 2
  <2> DEFINE ids == <<selection[2], id>>
  <2>1. Post("select", ids)
    BY <1>3 DEF Toggle
  <2>2. selection[2] \in Archived /\ selection[2] # id
    BY <1>1, <1>3 DEF Selected
  <2>3. ids \in Selections /\ Distinct(ids)
    BY <2>2, ShortSelections
  <2> HIDE DEF ids
  <2> QED
    BY <2>1, <2>3, PostKeeps
<1>4. CASE ~Selected(id) /\ Len(selection) # 2
  <2> DEFINE ids == Append(selection, id)
  <2>1. Post("select", ids)
    BY <1>4 DEF Toggle
  <2>2. /\ ids \in Seq(Archived) /\ Len(ids) = Len(selection) + 1
        /\ ids[Len(selection) + 1] = id
        /\ \A i \in 1 .. Len(selection) : ids[i] = selection[i]
        /\ DOMAIN ids = 1 .. Len(selection) + 1
    BY <1>1
  <2> HIDE DEF ids
  <2>3. Len(ids) <= 2
    BY <1>1, <1>4, <2>2
  <2>4. \A i \in 1 .. Len(selection) : selection[i] # id
    BY <1>1, <1>4 DEF Selected
  <2>5. Distinct(ids)
    BY <1>1, <2>2, <2>4 DEF Distinct
  <2>6. ids \in Selections
    BY <2>2, <2>3, SelectionsAre
  <2> QED
    BY <2>1, <2>5, <2>6, PostKeeps
<1> QED
  BY <1>2, <1>3, <1>4

(* The application takes a message off; what it handles is in Messages.       *)
LEMMA TakenOff ==
    ASSUME SInv, posted # <<>>
    PROVE  /\ posted[1] \in Messages /\ Sensible(posted[1])
           /\ Tail(posted) \in Seq(Messages)
           /\ \A i \in 1 .. Len(Tail(posted)) : Sensible(Tail(posted)[i])
<1>1. posted \in Seq(Messages) /\ Len(posted) \in Nat /\ Len(posted) >= 1
  BY DEF SInv, SelectionTypeOK
<1>2. /\ Tail(posted) \in Seq(Messages) /\ Len(Tail(posted)) = Len(posted) - 1
      /\ \A i \in 1 .. Len(posted) - 1 : Tail(posted)[i] = posted[i + 1]
  BY <1>1
<1> QED
  BY <1>1, <1>2 DEF SInv

LEMMA SelectionStarts == SelectionInit => SInv
<1> SUFFICES ASSUME SelectionInit
             PROVE  SInv
  OBVIOUS
<1>1. SelectionTypeOK
  BY ShortSelections DEF SelectionInit, SelectionTypeOK
<1>2. Len(posted) = 0
  BY DEF SelectionInit
<1> QED
  BY <1>1, <1>2, ShortSelections DEF SInv, SelectionInit

LEMMA SelectionStep == SInv /\ [SelectionNext]_selectionVars => SInv'
<1> SUFFICES ASSUME SInv, [SelectionNext]_selectionVars
             PROVE  SInv'
  OBVIOUS
<1>1. /\ SelectionTypeOK /\ documents \subseteq Archived
      /\ selection \in Selections /\ Alike(selection) /\ Distinct(selection)
  BY DEF SInv, SelectionTypeOK, Alike
<1>2. ASSUME NEW id \in Archived, ToggleSelection(id)
      PROVE  SInv'
  BY <1>2, ToggleKeeps DEF ToggleSelection
<1>3. ASSUME NEW id \in Archived, OpenResult(id)
      PROVE  SInv'
  <2>1. CASE Post("compare", selection)
    BY <1>1, <2>1, PostKeeps
  <2>2. CASE id \in Session /\ Post("open", <<id>>)
    <3>1. <<id>> \in Selections /\ Distinct(<<id>>) /\ Len(<<id>>) = 1 /\ <<id>>[1] = id
      BY ShortSelections DEF Alike
    <3> QED
      BY <2>2, <3>1, PostKeeps
  <2>3. CASE Toggle(id)
    BY <2>3, ToggleKeeps
  <2> QED
    BY <1>3, <2>1, <2>2, <2>3 DEF OpenResult
<1>4. ASSUME StateChanges(selection), UNCHANGED posted,
             detail' \in Session \cup {NoDetail},
             view' \in {"empty", "list", "detail", "comparison"}
      PROVE  SInv'
  <2>1. /\ documents' \subseteq Archived
        /\ selection' \in Selections /\ Alike(selection') /\ stale' = TRUE
    BY <1>1, <1>4, ChangesKeep
  <2>2. SelectionTypeOK'
    BY <1>1, <1>4, <2>1 DEF SelectionTypeOK
  <2> QED
    BY <1>4, <2>1, <2>2 DEF SInv
<1>5. CASE Back \/ EnterResults \/ OtherChange
  <2>1. CASE Post("select", <<>>)
    <3>1. <<>> \in Selections /\ Distinct(<<>>)
      BY ShortSelections DEF Alike
    <3> QED
      BY <2>1, <3>1, PostKeeps
  <2>2. CASE StateChanges(selection) /\ UNCHANGED <<posted, view>> /\ detail' \in {detail, NoDetail}
    <3>1. detail' \in Session \cup {NoDetail}
      BY <1>1, <2>2 DEF SelectionTypeOK
    <3>2. view' \in {"empty", "list", "detail", "comparison"}
      BY <1>1, <2>2 DEF SelectionTypeOK
    <3> QED
      BY <1>4, <2>2, <3>1, <3>2
  <2> QED
    BY <1>5, <2>1, <2>2 DEF Back, EnterResults, OtherChange
<1>6. CASE UpdateView
  <2>1. SelectionTypeOK'
    BY <1>1, <1>6 DEF UpdateView, SelectionTypeOK
  <2> QED
    BY <1>6, <2>1 DEF UpdateView, SInv
<1>7. CASE HandleSelection
  <2> DEFINE ids == Accepted(Requested(posted[1]))
  <2>1. /\ posted # <<>> /\ StateChanges(ids) /\ posted' = Tail(posted)
        /\ UNCHANGED <<detail, view>>
    BY <1>7 DEF HandleSelection
  <2>2. ids \in Selections /\ Alike(ids)
    BY <2>1, TakenOff, RequestedIs, AcceptedIs
  <2> HIDE DEF ids
  <2>3. /\ documents' \subseteq Archived
        /\ selection' \in Selections /\ Alike(selection') /\ stale' = TRUE
    BY <1>1, <2>1, <2>2, ChangesKeep
  <2>4. posted' \in Seq(Messages) /\ \A i \in 1 .. Len(posted') : Sensible(posted'[i])
    BY <2>1, TakenOff
  <2>5. SelectionTypeOK'
    BY <1>1, <2>1, <2>3, <2>4 DEF SelectionTypeOK
  <2> QED
    BY <2>3, <2>4, <2>5 DEF SInv
<1>8. CASE HandleOpen
  <2>1. /\ posted # <<>> /\ StateChanges(selection) /\ posted' = Tail(posted)
        /\ posted[1].asks = "open" /\ detail' = posted[1].ids[1] /\ UNCHANGED view
    BY <1>8 DEF HandleOpen
  <2>2. detail' \in Session
    BY <2>1, TakenOff DEF Sensible
  <2>3. /\ documents' \subseteq Archived
        /\ selection' \in Selections /\ Alike(selection') /\ stale' = TRUE
    BY <1>1, <2>1, ChangesKeep
  <2>4. posted' \in Seq(Messages) /\ \A i \in 1 .. Len(posted') : Sensible(posted'[i])
    BY <2>1, TakenOff
  <2>5. SelectionTypeOK'
    BY <1>1, <2>1, <2>2, <2>3, <2>4 DEF SelectionTypeOK
  <2> QED
    BY <2>3, <2>4, <2>5 DEF SInv
<1>9. CASE UNCHANGED selectionVars
  BY <1>1, <1>9 DEF selectionVars, SInv, SelectionTypeOK
<1> QED
  BY <1>2, <1>3, <1>5, <1>6, <1>7, <1>8, <1>9 DEF SelectionNext

(* However many results are archived and however long messages wait: what is  *)
(* selected for comparison is at most two results, each once, of one          *)
(* benchmark.                                                                 *)
THEOREM LikesAreCompared == SelectionSpec => []ComparesLikes
<1>1. SInv => ComparesLikes
  <2> SUFFICES ASSUME SInv
               PROVE  ComparesLikes
    OBVIOUS
  <2>1. SelectionTypeOK /\ Alike(selection)
    BY DEF SInv
  <2>2. Len(selection) <= 2
    BY <2>1, SelectionsAre DEF SelectionTypeOK
  <2> QED
    BY <2>1, <2>2 DEF ComparesLikes, Alike, Distinct
<1> QED
  BY <1>1, SelectionStarts, SelectionStep, PTL DEF SelectionSpec

=============================================================================
