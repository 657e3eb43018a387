--------------------------- MODULE FeedReadersProofs ---------------------------
(***************************************************************************)
(* Proofs about the readers of the change feed, for every set of paths,    *)
(* home, limit, page size and number of bundles and edits.                 *)
(*                                                                         *)
(* The host: at the head of the feed, with no reconciliation due, its      *)
(* mirror is the scope (MirrorAtHead).  The exchange: bundles, replica and *)
(* source keep to the moments of the source's history (ReplicaFollows).    *)
(***************************************************************************)
EXTENDS FeedReaders, FileStoreProofs, WellFoundedInduction

-----------------------------------------------------------------------------
(* What events say of the version of a path.                               *)

Silent == {"erased", "scope_erased"}
Marking == {"tracking_started", "restored"}

\* e tells what became of p.
Names(e, p) == p \in {e.path, e.from} /\ e.kind \notin Silent

\* The newest event that names a path, unless the host has to list after it,
\* gives the version of the path.
EventsTellVersions ==
    \A p \in Path, n \in DOMAIN events :
        /\ Names(events[n], p)
        /\ \A k \in DOMAIN events :
              k > n => ~Names(events[k], p) /\ events[k].kind \notin Marking
        => VersionAfter(p, events[n]) = ShownOf(docs[p])

\* A feed that was not pruned begins with an event that makes the host list.
BeginsMarked ==
    head # Untracked /\ head.floor = 0 =>
        1 \in DOMAIN events /\ events[1].kind \in Marking

\* A change says what it does to the versions: marks, or names exactly the
\* paths whose version it moves, and their new versions.
Says(change) ==
    \/ change = Change("restored", NoPath, 0)
    \/ \A p \in Path :
          IF Names(change, p) THEN VersionAfter(p, change) = ShownOf(docs'[p])
          ELSE ShownOf(docs'[p]) = ShownOf(docs[p])

TellInv == EventsTellVersions /\ BeginsMarked

\* What a step of the store is to a host: events stay until the floor passes
\* them, new ones are past the head, and a version moves only with an event
\* that names the path or makes the host list.
Moves ==
    /\ head'.floor >= head.floor /\ head'.sequence >= head.sequence
    /\ head # Untracked => head' # Untracked
    /\ \A n \in DOMAIN events : n > head'.floor => n \in DOMAIN events' /\ events'[n] = events[n]
    /\ \A n \in DOMAIN events' \ DOMAIN events : n > head.sequence
    /\ \A p \in Path :
          (\A n \in DOMAIN events' \ DOMAIN events :
              ~Names(events'[n], p) /\ events'[n].kind \notin Marking) =>
                  ShownOf(docs'[p]) = ShownOf(docs[p])

\* A recorded change goes on top of the feed, the marker below it.
LEMMA Topped ==
    ASSUME IInv, NEW change \in Events, Record(change)
    PROVE  /\ head' # Untracked /\ head'.floor = head.floor
           /\ head'.sequence > head.sequence
           /\ head'.sequence \in DOMAIN events' \ DOMAIN events
           /\ events'[head'.sequence] = change
           /\ \A n \in DOMAIN events' : n <= head'.sequence
           /\ \A n \in DOMAIN events' \ DOMAIN events :
                n = head'.sequence \/ events'[n] = Marker
           /\ head = Untracked => 1 \in DOMAIN events' /\ events'[1].kind \in Marking
<1> DEFINE new == Announced(change)
           last == head.sequence
<1>1. /\ head' = [head EXCEPT !.stream = Stream, !.sequence = last + Len(new)]
      /\ events' = [n \in DOMAIN events \cup (last + 1 .. last + Len(new)) |->
                        IF n > last THEN new[n - last] ELSE events[n]]
  BY DEF Record
<1>2. /\ head \in [stream : {Stream, NoStream}, sequence : Nat, floor : Nat]
      /\ last \in Nat /\ head.floor \in Nat /\ head.floor <= last
      /\ DOMAIN events = head.floor + 1 .. last
      /\ head = Untracked => last = 0
  BY DEF IInv, FeedTypes, FeedWhole, Heads, Untracked
<1>3. \/ new = <<change>> /\ Len(new) = 1
      \/ new = <<Marker, change>> /\ Len(new) = 2
  BY DEF Announced, Marker
<1>4. head = Untracked => new[1].kind \in Marking
  BY DEF Announced, Change, Marking
<1>5. /\ head'.stream = Stream /\ head'.floor = head.floor
      /\ head'.sequence = last + Len(new)
  BY <1>1, <1>2
<1>6. head' # Untracked
  BY <1>5, NamesAssumption DEF Untracked
<1> HIDE DEF new, last
<1>7. CASE Len(new) = 1 /\ new = <<change>>
  <2>1. last + 1 .. last + Len(new) = {last + 1} /\ head'.sequence = last + 1
    BY <1>2, <1>5, <1>7
  <2>2. events' = [n \in DOMAIN events \cup {last + 1} |->
                        IF n > last THEN new[n - last] ELSE events[n]]
    BY <1>1, <2>1
  <2>3. events'[last + 1] = new[1] /\ new[1] = change /\ last + 1 \in DOMAIN events'
    BY <1>2, <1>7, <2>2
  <2>4. last + 1 \notin DOMAIN events
    BY <1>2
  <2>5. \A n \in DOMAIN events' : n <= last + 1
    BY <1>2, <2>2
  <2> QED
    BY <1>2, <1>4, <1>5, <1>6, <2>1, <2>2, <2>3, <2>4, <2>5 DEF last
<1>8. CASE Len(new) = 2 /\ new = <<Marker, change>>
  <2>1. last + 1 .. last + Len(new) = {last + 1, last + 2} /\ head'.sequence = last + 2
    BY <1>2, <1>5, <1>8
  <2>2. events' = [n \in DOMAIN events \cup {last + 1, last + 2} |->
                        IF n > last THEN new[n - last] ELSE events[n]]
    BY <1>1, <2>1
  <2>3. /\ events'[last + 1] = new[1] /\ new[1] = Marker
        /\ events'[last + 2] = new[2] /\ new[2] = change
        /\ last + 1 \in DOMAIN events' /\ last + 2 \in DOMAIN events'
    BY <1>2, <1>8, <2>2
  <2>4. last + 2 \notin DOMAIN events
    BY <1>2
  <2>5. \A n \in DOMAIN events' : n <= last + 2
    BY <1>2, <2>2
  <2> QED
    BY <1>2, <1>4, <1>5, <1>6, <2>1, <2>2, <2>3, <2>4, <2>5 DEF last
<1> QED
  BY <1>3, <1>7, <1>8

\* An event that says what its mutation does to the versions keeps the feed
\* telling, and moves the store as hosts expect.
LEMMA SayingKeeps ==
    ASSUME IInv, TellInv, NEW change \in Events, Record(change), Says(change)
    PROVE  TellInv' /\ Moves
<1>1. /\ head' # Untracked /\ head'.floor = head.floor
      /\ head'.sequence > head.sequence
      /\ head'.sequence \in DOMAIN events' \ DOMAIN events
      /\ events'[head'.sequence] = change
      /\ \A n \in DOMAIN events' : n <= head'.sequence
      /\ \A n \in DOMAIN events' \ DOMAIN events :
            n = head'.sequence \/ events'[n] = Marker
      /\ head = Untracked => 1 \in DOMAIN events' /\ events'[1].kind \in Marking
  BY Topped
<1>2. /\ \A n \in DOMAIN events : n \in DOMAIN events' /\ events'[n] = events[n]
      /\ \A n \in DOMAIN events' \ DOMAIN events : n > head.sequence
  BY News
<1>3. /\ head.sequence \in Nat /\ head.floor \in Nat
      /\ DOMAIN events = head.floor + 1 .. head.sequence
  BY DEF IInv, FeedTypes, FeedWhole, Heads
<1>4. head'.sequence \in Nat
  BY Recorded DEF IInv, FeedTypes, Heads
<1>5. Marker.kind \in Marking /\ \A p \in Path : ~Names(Marker, p)
  BY NamesAssumption DEF Marker, Change, Marking, Names
<1>6. EventsTellVersions'
  <2> SUFFICES ASSUME NEW p \in Path, NEW n \in DOMAIN events', Names(events'[n], p),
                      \A k \in DOMAIN events' :
                        k > n => ~Names(events'[k], p) /\ events'[k].kind \notin Marking
               PROVE  VersionAfter(p, events'[n]) = ShownOf(docs'[p])
    BY DEF EventsTellVersions
  <2>1. CASE n = head'.sequence
    <3>1. change # Change("restored", NoPath, 0)
      BY <1>1, <2>1, NamesAssumption DEF Names, Change
    <3> QED
      BY <1>1, <2>1, <3>1 DEF Says
  <2>2. CASE n # head'.sequence
    <3>1. n < head'.sequence
      <4>1. n \in Nat
        BY <1>1, <1>3, <1>4, <2>2, <1>2, Recorded DEF IInv, FeedWhole
      <4> QED
        BY <1>1, <1>4, <2>2, <4>1
    <3>2. ~Names(change, p) /\ change.kind \notin Marking
      BY <1>1, <3>1
    <3>3. n \in DOMAIN events
      BY <1>1, <1>5, <2>2
    <3>4. \A k \in DOMAIN events : k > n => ~Names(events[k], p) /\ events[k].kind \notin Marking
      BY <1>2
    <3>5. VersionAfter(p, events[n]) = ShownOf(docs[p])
      BY <1>2, <3>3, <3>4 DEF TellInv, EventsTellVersions
    <3> QED
      BY <1>2, <3>2, <3>3, <3>5 DEF Says, Change, Marking
  <2> QED
    BY <2>1, <2>2
<1>7. BeginsMarked'
  BY <1>1, <1>2 DEF TellInv, BeginsMarked
<1>8. Moves
  <2>1. head'.floor >= head.floor /\ head'.sequence >= head.sequence
    BY <1>1, <1>3, <1>4
  <2>2. ASSUME NEW p \in Path,
               \A n \in DOMAIN events' \ DOMAIN events :
                  ~Names(events'[n], p) /\ events'[n].kind \notin Marking
        PROVE  ShownOf(docs'[p]) = ShownOf(docs[p])
    BY <1>1, <2>2 DEF Says, Change, Marking
  <2> QED
    BY <1>1, <1>2, <2>1, <2>2 DEF Moves
<1> QED
  BY <1>6, <1>7, <1>8 DEF TellInv

-----------------------------------------------------------------------------
(* The calls.                                                              *)

\* What changes name, and the versions they give.
LEMMA NamedBy ==
    ASSUME NEW p \in Path, NEW q \in Path
    PROVE  /\ \A kind \in RowActions, v \in Nat :
                Names(Change(kind, p, v), q) <=> q = p
           /\ \A kind \in RowActions, v \in Nat :
                VersionAfter(p, Change(kind, p, v)) = IF kind = "deleted" THEN 0 ELSE v
           /\ \A kind \in Silent : \A named, v : ~Names(Change(kind, named, v), q)
           /\ \A dst \in Path : \A old, v :
                Names(Renaming(p, old, dst, v), q) <=> q \in {p, dst}
           /\ \A dst \in Path : \A old, v :
                VersionAfter(q, Renaming(p, old, dst, v)) = IF q = dst THEN v ELSE 0
BY NamesAssumption DEF Names, Change, Renaming, VersionAfter, RowActions, Silent

\* The version a document shows is its own.
LEMMA ShownDoc ==
    ASSUME NEW version \in Versions, NEW content \in Contents, NEW mark \in Marks
    PROVE  ShownOf(DocOf(version, content, mark)) = version
<1>1. "created" \in RowActions
  BY DEF RowActions
<1> QED
  BY <1>1, MadeParts DEF ShownOf

LEMMA WriteMoves ==
    ASSUME IInv, TellInv, NEW p \in Path, NEW text \in Text, NEW expected,
           Write(p, text, expected)
    PROVE  TellInv' /\ Moves
<1> DEFINE action  == IF Live(p) THEN "modified" ELSE "created"
           version == IF Live(p) THEN After(journal[p], docs[p]) ELSE NextVersion(journal[p])
<1>1. PathInv(docs[p], journal[p])
  BY DEF IInv
<1>2. version \in Versions /\ version \in Nat /\ action \in RowActions /\ action # "deleted"
  BY <1>1, LiveParts, NextIsPast DEF PathInv, RowActions, Versions
<1>3. /\ docs \in [Path -> Documents \cup {NoDoc}]
      /\ docs' = [docs EXCEPT ![p] = DocOf(version, text, "plain")]
      /\ Record(Change(action, p, version))
  BY DEF Write, IInv
<1>4. ShownOf(DocOf(version, text, "plain")) = version
  BY <1>2, ShownDoc DEF Contents, Marks
<1>5. Change(action, p, version) \in Events
  BY <1>2, ChangeTypes DEF Kinds
<1> HIDE DEF action, version
<1>6. Says(Change(action, p, version))
  <2> SUFFICES ASSUME NEW q \in Path
               PROVE  IF Names(Change(action, p, version), q)
                      THEN VersionAfter(q, Change(action, p, version)) = ShownOf(docs'[q])
                      ELSE ShownOf(docs'[q]) = ShownOf(docs[q])
    BY DEF Says
  <2> QED
    BY <1>2, <1>3, <1>4, NamedBy
<1> QED
  BY <1>3, <1>5, <1>6, SayingKeeps

LEMMA DeleteMoves ==
    ASSUME IInv, TellInv, NEW p \in Path, Delete(p)
    PROVE  TellInv' /\ Moves
<1> DEFINE version == After(journal[p], docs[p])
<1>1. PathInv(docs[p], journal[p]) /\ Live(p)
  BY DEF IInv, Delete
<1>2. version \in Versions /\ version \in Nat /\ "deleted" \in RowActions
  BY <1>1, LiveParts DEF RowActions, Versions
<1>3. /\ docs \in [Path -> Documents \cup {NoDoc}]
      /\ docs' = [docs EXCEPT ![p] = NoDoc]
      /\ Record(Change("deleted", p, version))
  BY DEF Delete, IInv
<1>4. Change("deleted", p, version) \in Events
  BY <1>2, ChangeTypes DEF Kinds
<1> HIDE DEF version
<1>5. Says(Change("deleted", p, version))
  <2> SUFFICES ASSUME NEW q \in Path
               PROVE  IF Names(Change("deleted", p, version), q)
                      THEN VersionAfter(q, Change("deleted", p, version)) = ShownOf(docs'[q])
                      ELSE ShownOf(docs'[q]) = ShownOf(docs[q])
    BY DEF Says
  <2> QED
    BY <1>2, <1>3, NamedBy DEF ShownOf
<1> QED
  BY <1>3, <1>4, <1>5, SayingKeeps

LEMMA RenameMoves ==
    ASSUME IInv, TellInv, NEW src \in Path, NEW dst \in Path, Rename(src, dst)
    PROVE  TellInv' /\ Moves
<1> DEFINE doc == docs[src]
           old == After(journal[src], doc)
           version == NextVersion(journal[dst])
           change == Renaming(src, old, dst, version)
           come == DocOf(version, doc.content, doc.mark)
<1>1. /\ PathInv(doc, journal[src]) /\ Live(src) /\ src # dst
      /\ PathInv(docs[dst], journal[dst])
  BY DEF IInv, Rename
<1>2. /\ docs \in [Path -> Documents \cup {NoDoc}]
      /\ docs' = [docs EXCEPT ![src] = NoDoc, ![dst] = come]
      /\ Record(change)
  BY DEF Rename, IInv
<1>3. old \in Versions /\ doc.content \in Contents /\ doc.mark \in Marks
  BY <1>1, LiveParts
<1>4. version \in Versions /\ version \in Nat
  BY <1>1, NextIsPast DEF PathInv, Versions
<1>5. ShownOf(come) = version
  BY <1>3, <1>4, ShownDoc
<1>6. change \in Events
  BY <1>3, <1>4, ChangeTypes DEF Kinds
<1>7. \A q \in Path :
        /\ Names(change, q) <=> q \in {src, dst}
        /\ VersionAfter(q, change) = IF q = dst THEN version ELSE 0
  BY NamedBy
<1> HIDE DEF doc, old, version, change, come
<1>8. Says(change)
  <2> SUFFICES ASSUME NEW q \in Path
               PROVE  IF Names(change, q) THEN VersionAfter(q, change) = ShownOf(docs'[q])
                      ELSE ShownOf(docs'[q]) = ShownOf(docs[q])
    BY DEF Says
  <2>1. ShownOf(NoDoc) = 0
    BY DEF ShownOf
  <2> QED
    BY <1>1, <1>2, <1>5, <1>7, <2>1
<1> QED
  BY <1>2, <1>6, <1>8, SayingKeeps

LEMMA RedactMoves ==
    ASSUME IInv, TellInv, NEW named \in Path \cup {NoPath}, Redact(named)
    PROVE  TellInv' /\ Moves
<1> DEFINE kind == IF named = NoPath THEN "scope_erased" ELSE "erased"
<1>1. kind \in Silent /\ kind \in Kinds
  BY DEF Silent, Kinds
<1>2. /\ \A p \in Path : docs'[p] = docs[p] \/ (Live(p) /\ docs'[p] = Clear(docs[p]))
      /\ Record(Change(kind, named, 0))
  BY DEF Redact
<1>3. Change(kind, named, 0) \in Events
  BY <1>1, ChangeTypes
<1> HIDE DEF kind
<1>4. Says(Change(kind, named, 0))
  <2> SUFFICES ASSUME NEW p \in Path
               PROVE  ~Names(Change(kind, named, 0), p) /\ ShownOf(docs'[p]) = ShownOf(docs[p])
    BY DEF Says
  <2>1. ~Names(Change(kind, named, 0), p)
    BY <1>1 DEF Names, Change
  <2>2. ASSUME Live(p), docs'[p] = Clear(docs[p]) PROVE ShownOf(docs'[p]) = ShownOf(docs[p])
    <3>1. docs[p] \in Documents
      BY <2>2 DEF IInv, Live
    <3>2. docs[p] # NoDoc /\ Clear(docs[p]) \in Documents
          /\ Clear(docs[p]).version = docs[p].version
      BY <3>1, <2>2 DEF Clear, Documents, Contents, Marks, Live
    <3> QED
      BY <2>2, <3>2, NamesAssumption DEF ShownOf
  <2> QED
    BY <1>2, <2>1, <2>2
<1> QED
  BY <1>2, <1>3, <1>4, SayingKeeps

LEMMA RestoreMoves ==
    ASSUME IInv, TellInv, NEW h \in Homes, Restore(h)
    PROVE  TellInv' /\ Moves
<1>1. Record(Change("restored", NoPath, 0)) /\ Change("restored", NoPath, 0) \in Events
  BY ChangeTypes DEF Restore, Kinds
<1> QED
  BY <1>1, SayingKeeps DEF Says

LEMMA PruneMoves ==
    ASSUME IInv, TellInv, NEW end, Prune(end)
    PROVE  TellInv' /\ Moves
<1>1. /\ head \in Heads /\ head.floor \in Nat /\ head.sequence \in Nat
      /\ DOMAIN events = head.floor + 1 .. head.sequence
  BY DEF IInv, FeedTypes, FeedWhole, Heads
<1>2. /\ end \in head.floor + 1 .. head.sequence
      /\ events' = [n \in DOMAIN events \ (head.floor + 1 .. end) |-> events[n]]
      /\ head' = [head EXCEPT !.floor = end] /\ docs' = docs
  BY DEF Prune
<1>3. /\ head'.floor = end /\ end \in Nat /\ end > head.floor /\ end > 0
      /\ head'.sequence = head.sequence /\ head.sequence > 0
  BY <1>1, <1>2 DEF Heads
<1>4. head' # Untracked
  BY <1>3 DEF Untracked
<1>5. DOMAIN events' = {n \in DOMAIN events : n > end}
  BY <1>1, <1>2, <1>3
<1>6. \A n \in DOMAIN events' : events'[n] = events[n]
  BY <1>2
<1>7. EventsTellVersions'
  <2> SUFFICES ASSUME NEW p \in Path, NEW n \in DOMAIN events', Names(events'[n], p),
                      \A k \in DOMAIN events' :
                        k > n => ~Names(events'[k], p) /\ events'[k].kind \notin Marking
               PROVE  VersionAfter(p, events'[n]) = ShownOf(docs'[p])
    BY DEF EventsTellVersions
  <2>1. \A k \in DOMAIN events : k > n => k \in DOMAIN events'
    BY <1>1, <1>3, <1>5
  <2>2. n \in DOMAIN events /\ events'[n] = events[n]
    BY <1>5, <1>6
  <2>3. \A k \in DOMAIN events : k > n => ~Names(events[k], p) /\ events[k].kind \notin Marking
    BY <1>6, <2>1
  <2> QED
    BY <1>2, <2>2, <2>3 DEF TellInv, EventsTellVersions
<1>8. BeginsMarked'
  BY <1>3 DEF BeginsMarked
<1>9. Moves
  BY <1>1, <1>2, <1>3, <1>4, <1>5, <1>6 DEF Moves
<1> QED
  BY <1>7, <1>8, <1>9 DEF TellInv

LEMMA StoreMoves ==
    ASSUME IInv, TellInv, Next
    PROVE  TellInv' /\ Moves
<1>1. ASSUME NEW p \in Path, WriteAny(p) PROVE TellInv' /\ Moves
  BY <1>1, WriteMoves DEF WriteAny
<1>2. ASSUME NEW end \in head.floor + 1 .. head.sequence, Prune(end)
      PROVE  TellInv' /\ Moves
  BY <1>2, PruneMoves
<1> QED
  BY <1>1, <1>2, DeleteMoves, RenameMoves, RedactMoves, RestoreMoves DEF Next, Mutate

-----------------------------------------------------------------------------
(* The host.                                                               *)

\* What the host has not applied yet.
Since(c) == {n \in DOMAIN events : n > c}

\* A cursor of this stream is in it.
CursorOK ==
    \/ cursor \in {NoCursor, Cursor(Elsewhere, 1)}
    \/ /\ cursor.stream = Stream /\ cursor.sequence \in Nat
       /\ head # Untracked /\ cursor.sequence <= head.sequence
       /\ cursor = Cursor(cursor.stream, cursor.sequence)

\* A path no later event names is in the mirror as it is in the scope.
MirrorKnows ==
    host = "poll" /\ cursor.stream = Stream /\ cursor.sequence >= head.floor
    /\ (\A n \in Since(cursor.sequence) : events[n].kind \notin Marking)
    => \A p \in Path :
          (\A n \in Since(cursor.sequence) : ~Names(events[n], p)) =>
              mirror[p] = ShownOf(docs[p])

HostInv == CursorOK /\ MirrorKnows

-----------------------------------------------------------------------------
(* The steps of the host and of the store under it.                        *)

LEMMA StoreUnder ==
    ASSUME IInv, IInv', HostInv, Moves, UNCHANGED <<cursor, mirror, host>>
    PROVE  HostInv'
<1>1. /\ head.floor \in Nat /\ head.sequence \in Nat
      /\ DOMAIN events = head.floor + 1 .. head.sequence
  BY DEF IInv, FeedTypes, FeedWhole, Heads
<1>2. /\ head'.floor \in Nat /\ head'.sequence \in Nat
      /\ DOMAIN events' = head'.floor + 1 .. head'.sequence
  BY DEF IInv, FeedTypes, FeedWhole, Heads
<1>3. /\ head'.floor >= head.floor /\ head'.sequence >= head.sequence
      /\ head # Untracked => head' # Untracked
      /\ \A n \in DOMAIN events : n > head'.floor => n \in DOMAIN events' /\ events'[n] = events[n]
      /\ \A n \in DOMAIN events' \ DOMAIN events : n > head.sequence
  BY DEF Moves
<1>4. cursor' = cursor /\ mirror' = mirror /\ host' = host
  OBVIOUS
<1>5. CursorOK'
  <2>1. CASE cursor \in {NoCursor, Cursor(Elsewhere, 1)}
    BY <1>4, <2>1 DEF CursorOK, NoCursor, Cursor
  <2>2. CASE /\ cursor.stream = Stream /\ cursor.sequence \in Nat
             /\ head # Untracked /\ cursor.sequence <= head.sequence
             /\ cursor = Cursor(cursor.stream, cursor.sequence)
    <3>1. cursor.sequence <= head'.sequence
      BY <1>1, <1>2, <1>3, <2>2
    <3> QED
      BY <1>3, <1>4, <2>2, <3>1 DEF CursorOK, Cursor
  <2> QED
    BY <2>1, <2>2 DEF HostInv, CursorOK
<1>6. MirrorKnows'
  <2> DEFINE c == cursor.sequence
  <2> SUFFICES ASSUME host = "poll", cursor.stream = Stream, c >= head'.floor,
                      \A n \in DOMAIN events' : n > c => events'[n].kind \notin Marking,
                      NEW p \in Path,
                      \A n \in DOMAIN events' : n > c => ~Names(events'[n], p)
               PROVE  mirror[p] = ShownOf(docs'[p])
    BY <1>4 DEF MirrorKnows, Since
  <2>1. c \in Nat /\ c <= head.sequence
    BY NamesAssumption, FeedAssumption DEF HostInv, CursorOK, NoCursor, Cursor
  <2> HIDE DEF c
  <2>2. c >= head.floor
    BY <1>1, <1>2, <1>3, <2>1
  <2>3. \A n \in DOMAIN events : n > c => n \in DOMAIN events' /\ events'[n] = events[n]
    BY <1>1, <1>2, <1>3, <2>1
  <2>4. mirror[p] = ShownOf(docs[p])
    BY <2>2, <2>3 DEF HostInv, MirrorKnows, Since, c
  <2>5. \A n \in DOMAIN events' \ DOMAIN events : n > c
    BY <1>1, <1>2, <1>3, <2>1
  <2>6. ShownOf(docs'[p]) = ShownOf(docs[p])
    BY <2>5 DEF Moves
  <2> QED
    BY <2>4, <2>6
<1> QED
  BY <1>5, <1>6 DEF HostInv

\* Between a cursor with no gap and the head lie its page and what follows.
LEMMA PageParts ==
    ASSUME IInv, HostInv, Gap(cursor) = "none", ~Ahead(cursor), head # Untracked
    PROVE  /\ cursor.sequence \in Nat /\ head.floor <= cursor.sequence
           /\ cursor.sequence <= head.sequence
           /\ End(cursor) \in Nat /\ cursor.sequence <= End(cursor)
           /\ End(cursor) <= head.sequence
           /\ Page(cursor) = {n \in DOMAIN events : cursor.sequence < n /\ n <= End(cursor)}
           /\ head.stream = Stream
           /\ cursor = NoCursor \/ cursor.stream = Stream
           /\ cursor = NoCursor => head.floor = 0
<1>1. /\ head \in Heads /\ head.floor \in Nat /\ head.sequence \in Nat
      /\ head.floor <= head.sequence /\ head.stream = Stream
  BY DEF IInv, FeedTypes, FeedWhole, Heads
<1>2. /\ cursor = NoCursor \/ cursor.stream = Stream
      /\ cursor = NoCursor => head.floor = 0
      /\ cursor # NoCursor => cursor.sequence >= head.floor
      /\ cursor.sequence \in Nat
  BY <1>1, NamesAssumption, FeedAssumption DEF Gap, HostInv, CursorOK, NoCursor, Cursor
<1>3. head.floor <= cursor.sequence
  BY <1>1, <1>2 DEF NoCursor, Cursor
<1>4. cursor.sequence <= head.sequence
  BY <1>1, <1>2 DEF Ahead
<1>5. Position(cursor) = cursor.sequence
  BY DEF Position
<1>6. End(cursor) \in Nat /\ cursor.sequence <= End(cursor) /\ End(cursor) <= head.sequence
  BY <1>1, <1>2, <1>4, <1>5, FeedAssumption DEF End, Lesser
<1> QED
  BY <1>1, <1>2, <1>3, <1>4, <1>5, <1>6 DEF Page

\* A set of numbers that is not empty and has a bound has a largest.
LEMMA HasLargest ==
    ASSUME NEW S \in SUBSET Nat, S # {}, NEW bound \in Nat, \A n \in S : n <= bound
    PROVE  \E n \in S : \A k \in S : k <= n
<1> DEFINE Below == {bound - n : n \in S}
           Less == {pair \in Nat \X Nat : pair[1] < pair[2]}
<1>1. Below \subseteq Nat /\ Below # {}
  <2>1. \A n \in S : bound - n \in Nat
    OBVIOUS
  <2> QED
    BY <2>1
<1>2. IsWellFoundedOn(Less, Nat)
  BY NatLessThanWellFounded DEF OpToRel
<1> HIDE DEF Less
<1>3. PICK x \in Below : \A y \in Below : <<y, x>> \notin Less
  BY <1>1, <1>2, WFMin
<1>4. PICK n \in S : x = bound - n
  BY <1>3
<1>5. \A y \in Below : ~(y < x)
  BY <1>1, <1>3 DEF Less
<1>6. ASSUME NEW k \in S PROVE k <= n
  <2>1. bound - k \in Below
    OBVIOUS
  <2>2. ~(bound - k < bound - n)
    BY <1>4, <1>5, <2>1
  <2> QED
    BY <2>2
<1> QED
  BY <1>6

\* What a page does to the mirror: a path whose last word is in the page gets
\* the version it has, a path of which the page is silent keeps its own.
LEMMA ReplayParts ==
    ASSUME IInv, TellInv, HostInv, Gap(cursor) = "none", ~Ahead(cursor), head # Untracked,
           NEW p \in Path
    PROVE  /\ (\A n \in Page(cursor) : ~Names(events[n], p)) =>
                  Replayed(Page(cursor))[p] = mirror[p]
           /\ /\ \E n \in Page(cursor) : Names(events[n], p)
              /\ \A n \in Since(cursor.sequence) : events[n].kind \notin Marking
              /\ \A n \in Since(End(cursor)) : ~Names(events[n], p)
              => Replayed(Page(cursor))[p] = ShownOf(docs[p])
<1> DEFINE page == Page(cursor)
           of == Of(p, page)
<1>1. of = {n \in page : Names(events[n], p)}
  BY DEF Of, Names, Silent
<1>2. Replayed(page)[p] =
        IF of = {} THEN mirror[p] ELSE VersionAfter(p, events[LastOf(of)])
  BY DEF Replayed
<1>3. /\ cursor.sequence \in Nat /\ End(cursor) \in Nat /\ cursor.sequence <= End(cursor)
      /\ page = {n \in DOMAIN events : cursor.sequence < n /\ n <= End(cursor)}
      /\ DOMAIN events \subseteq Nat
  BY PageParts DEF IInv, FeedTypes, FeedWhole, Heads
<1> HIDE DEF of, page
<1>4. ASSUME of # {} PROVE LastOf(of) \in of /\ \A k \in of : k <= LastOf(of)
  <2>1. of \subseteq Nat /\ \A k \in of : k <= End(cursor)
    BY <1>1, <1>3
  <2>2. \E n \in of : \A k \in of : k <= n
    BY <1>3, <1>4, <2>1, HasLargest
  <2> QED
    BY <2>2 DEF LastOf
<1>5. ASSUME of # {},
             \A n \in Since(cursor.sequence) : events[n].kind \notin Marking,
             \A n \in Since(End(cursor)) : ~Names(events[n], p)
      PROVE  VersionAfter(p, events[LastOf(of)]) = ShownOf(docs[p])
  <2> DEFINE l == LastOf(of)
  <2>1. /\ l \in DOMAIN events /\ l \in Nat /\ l > cursor.sequence
        /\ Names(events[l], p) /\ \A k \in of : k <= l
    BY <1>1, <1>3, <1>4, <1>5
  <2> HIDE DEF l
  <2>2. ASSUME NEW k \in DOMAIN events, k > l
        PROVE  ~Names(events[k], p) /\ events[k].kind \notin Marking
    <3>1. k \in Nat /\ k > cursor.sequence
      BY <1>3, <2>1, <2>2
    <3>2. events[k].kind \notin Marking
      BY <1>5, <3>1, <2>2 DEF Since
    <3>3. CASE k <= End(cursor)
      <4>1. k \in page
        BY <1>3, <2>2, <3>1, <3>3
      <4>2. k \notin of
        BY <2>1, <2>2, <3>1
      <4> QED
        BY <1>1, <3>2, <4>1, <4>2
    <3>4. CASE ~(k <= End(cursor))
      BY <1>3, <1>5, <2>2, <3>1, <3>2, <3>4 DEF Since
    <3> QED
      BY <3>3, <3>4
  <2> QED
    BY <2>1, <2>2 DEF TellInv, EventsTellVersions, l
<1> QED
  BY <1>1, <1>2, <1>5 DEF page

LEMMA FollowKeeps ==
    ASSUME IInv, TellInv, HostInv, NEW saved \in BOOLEAN, Follow(saved)
    PROVE  HostInv'
<1>1. /\ Gap(cursor) = "none" /\ ~Ahead(cursor) /\ host = "poll"
      /\ mirror' = Replayed(Page(cursor)) /\ Page(cursor) # {}
      /\ IF saved
         THEN /\ cursor' = Cursor(head.stream, End(cursor))
              /\ host' = IF Resets(Page(cursor)) THEN "list" ELSE "poll"
         ELSE cursor' = cursor /\ host' = host
      /\ head' = head /\ events' = events /\ docs' = docs
  BY DEF Follow, vars, store
<1>2. head # Untracked
  BY <1>1 DEF IInv, FeedWhole, Untracked, Page
<1>3. /\ cursor.sequence \in Nat /\ head.floor <= cursor.sequence
      /\ cursor.sequence <= head.sequence
      /\ End(cursor) \in Nat /\ cursor.sequence <= End(cursor)
      /\ End(cursor) <= head.sequence
      /\ Page(cursor) = {n \in DOMAIN events : cursor.sequence < n /\ n <= End(cursor)}
      /\ head.stream = Stream
      /\ cursor = NoCursor \/ cursor.stream = Stream
      /\ cursor = NoCursor => head.floor = 0
      /\ DOMAIN events \subseteq Nat
      /\ head.floor \in Nat /\ head.sequence \in Nat
  BY <1>1, <1>2, PageParts DEF IInv, FeedTypes, FeedWhole, Heads
<1>4. CASE saved
  <2>1. cursor' = Cursor(Stream, End(cursor))
    BY <1>1, <1>3, <1>4
  <2>2. CursorOK'
    BY <1>1, <1>2, <1>3, <2>1 DEF CursorOK, Cursor
  <2>3. MirrorKnows'
    <3> DEFINE e == End(cursor)
               c == cursor.sequence
    <3>1. cursor'.sequence = e
      BY <2>1 DEF Cursor
    <3> SUFFICES ASSUME host' = "poll",
                        \A n \in Since(e) : events[n].kind \notin Marking,
                        NEW p \in Path,
                        \A n \in Since(e) : ~Names(events[n], p)
                 PROVE  mirror'[p] = ShownOf(docs[p])
      BY <1>1, <3>1 DEF MirrorKnows, Since
    <3>2. \A n \in Since(c) : n \in Page(cursor) \/ n \in Since(e)
      BY <1>3 DEF Since
    <3>3. \A n \in Page(cursor) : events[n].kind \notin Marking
      BY <1>1, <1>4 DEF Resets, Marking
    <3>4. \A n \in Since(c) : events[n].kind \notin Marking
      BY <3>2, <3>3
    <3>5. cursor # NoCursor
      <4> SUFFICES ASSUME cursor = NoCursor PROVE FALSE
        OBVIOUS
      <4>1. c = 0 /\ head.floor = 0
        BY <1>3 DEF NoCursor, Cursor
      <4>2. 1 \in DOMAIN events /\ events[1].kind \in Marking
        BY <1>2, <4>1 DEF TellInv, BeginsMarked
      <4> QED
        BY <3>4, <4>1, <4>2 DEF Since
    <3>6. CASE \E n \in Page(cursor) : Names(events[n], p)
      BY <1>1, <1>2, <3>4, <3>6, ReplayParts
    <3>7. CASE \A n \in Page(cursor) : ~Names(events[n], p)
      <4>1. mirror'[p] = mirror[p]
        BY <1>1, <1>2, <3>7, ReplayParts
      <4>2. \A n \in Since(c) : ~Names(events[n], p)
        BY <3>2, <3>7
      <4>3. mirror[p] = ShownOf(docs[p])
        BY <1>1, <1>3, <3>4, <3>5, <4>2 DEF HostInv, MirrorKnows
      <4> QED
        BY <4>1, <4>3
    <3> QED
      BY <3>6, <3>7
  <2> QED
    BY <2>2, <2>3 DEF HostInv
<1>5. CASE ~saved
  <2>1. cursor' = cursor /\ host' = host
    BY <1>1, <1>5
  <2>2. CursorOK'
    BY <1>1, <2>1 DEF HostInv, CursorOK, NoCursor, Cursor, Untracked
  <2>3. MirrorKnows'
    <3> SUFFICES ASSUME cursor.stream = Stream,
                        \A n \in Since(cursor.sequence) : events[n].kind \notin Marking,
                        NEW p \in Path,
                        \A n \in Since(cursor.sequence) : ~Names(events[n], p)
                 PROVE  mirror'[p] = ShownOf(docs[p])
      BY <1>1, <2>1 DEF MirrorKnows, Since
    <3>1. \A n \in Page(cursor) : ~Names(events[n], p)
      BY <1>3 DEF Since
    <3>2. mirror'[p] = mirror[p]
      BY <1>1, <1>2, <3>1, ReplayParts
    <3> QED
      BY <1>1, <1>3, <3>2 DEF HostInv, MirrorKnows
  <2> QED
    BY <2>2, <2>3 DEF HostInv
<1> QED
  BY <1>4, <1>5

LEMMA MeetGapKeeps ==
    ASSUME IInv, HostInv, MeetGap
    PROVE  HostInv'
<1>1. /\ cursor' = IF head = Untracked THEN NoCursor ELSE HeadCursor
      /\ host' = "list" /\ head' = head
  BY DEF MeetGap, vars, store
<1>2. head # Untracked => head.stream = Stream /\ head.sequence \in Nat
                          /\ head.sequence <= head.sequence
  BY DEF IInv, FeedTypes, FeedWhole, Heads
<1>3. CursorOK'
  BY <1>1, <1>2 DEF CursorOK, HeadCursor, Cursor
<1>4. MirrorKnows'
  BY <1>1 DEF MirrorKnows
<1> QED
  BY <1>3, <1>4 DEF HostInv

LEMMA ListKeeps ==
    ASSUME HostInv, List
    PROVE  HostInv'
<1>1. /\ mirror' = [p \in Path |-> IF Live(p) THEN docs[p].version ELSE 0]
      /\ head' = head /\ docs' = docs /\ cursor' = cursor
  BY DEF List, vars, store
<1>2. \A p \in Path : mirror'[p] = ShownOf(docs'[p])
  BY <1>1 DEF ShownOf, Live
<1>3. CursorOK'
  BY <1>1 DEF HostInv, CursorOK, NoCursor, Cursor, Untracked
<1>4. MirrorKnows'
  BY <1>2 DEF MirrorKnows
<1> QED
  BY <1>3, <1>4 DEF HostInv

-----------------------------------------------------------------------------
(* The readers of a behaviour: a host, or an exporter.                     *)

ReadersInv == IInv /\ TellInv /\ HostInv

LEMMA ReadersStart == ReadersInit => ReadersInv
<1> SUFFICES ASSUME ReadersInit PROVE ReadersInv
  OBVIOUS
<1>1. Init /\ cursor \in {NoCursor, Cursor(Elsewhere, 1)}
  BY DEF ReadersInit, FeedInit, ExchangeInit
<1>2. IInv /\ head = Untracked /\ events = <<>>
  BY <1>1, Starts DEF Init
<1>3. TellInv
  BY <1>2 DEF TellInv, EventsTellVersions, BeginsMarked
<1>4. cursor.stream # Stream
  BY <1>1, NamesAssumption, FeedAssumption DEF NoCursor, Cursor
<1> QED
  BY <1>1, <1>2, <1>3, <1>4 DEF ReadersInv, HostInv, CursorOK, MirrorKnows

LEMMA ReadersSteps == ReadersInv /\ [ReadersNext]_exchangeVars => ReadersInv'
<1> SUFFICES ASSUME ReadersInv, [ReadersNext]_exchangeVars PROVE ReadersInv'
  OBVIOUS
<1> USE DEF ReadersInv
<1>1. ASSUME Store PROVE ReadersInv'
  <2>1. Next /\ UNCHANGED <<cursor, mirror, host>>
    BY <1>1 DEF Store
  <2>2. IInv' /\ TellInv' /\ Moves
    BY <2>1, Steps, StoreMoves
  <2> QED
    BY <2>1, <2>2, StoreUnder
<1>2. ASSUME UNCHANGED vars PROVE IInv' /\ TellInv'
  BY <1>2, Steps DEF vars, store, TellInv, EventsTellVersions, BeginsMarked
<1>3. ASSUME FeedNext PROVE ReadersInv'
  <2>1. CASE Follow(TRUE) \/ Follow(FALSE)
    BY <1>2, <2>1, FollowKeeps DEF Follow
  <2>2. CASE MeetGap
    BY <1>2, <2>2, MeetGapKeeps DEF MeetGap
  <2>3. CASE List
    BY <1>2, <2>3, ListKeeps DEF List
  <2> QED
    BY <1>1, <1>3, <2>1, <2>2, <2>3 DEF FeedNext
<1>4. ASSUME UNCHANGED feedVars PROVE ReadersInv'
  BY <1>2, <1>4 DEF feedVars, vars, store, HostInv, CursorOK, MirrorKnows, NoCursor,
                    Cursor, Untracked, Since, ShownOf
<1>5. ASSUME ExchangeNext PROVE ReadersInv'
  BY <1>1, <1>4, <1>5 DEF ExchangeNext, Source
<1> QED
  BY <1>3, <1>4, <1>5 DEF ReadersNext, exchangeVars

\* A host at the head has no gap left, and nothing left to apply.
LEMMA HeadIsMirrored == ReadersInv => MirrorAtHead
<1> SUFFICES ASSUME ReadersInv, AtHead, NEW p \in Path
             PROVE  mirror[p] = IF Live(p) THEN docs[p].version ELSE 0
  BY DEF MirrorAtHead
<1>1. /\ host = "poll" /\ head # Untracked
      /\ cursor.stream = head.stream /\ cursor.sequence = head.sequence
  BY DEF AtHead, HeadCursor, Cursor
<1>2. /\ head.stream = Stream /\ head.sequence >= head.floor
      /\ DOMAIN events = head.floor + 1 .. head.sequence
      /\ head.floor \in Nat /\ head.sequence \in Nat
  BY <1>1 DEF ReadersInv, IInv, FeedTypes, FeedWhole, Heads
<1>3. Since(cursor.sequence) = {}
  BY <1>1, <1>2 DEF Since
<1>4. mirror[p] = ShownOf(docs[p])
  BY <1>1, <1>2, <1>3 DEF ReadersInv, HostInv, MirrorKnows
<1> QED
  BY <1>4 DEF ShownOf, Live

\* A host that stands at the head of the feed with no reconciliation due knows
\* the version of every live document (changes.md:76-91), however mutations,
\* erasures, pruning, gaps and its own crashes fell between its polls.
THEOREM HostKnowsScope == ReadersSpec => []MirrorAtHead
BY ReadersStart, ReadersSteps, HeadIsMirrored, PTL DEF ReadersSpec
-----------------------------------------------------------------------------
(* The source, moment by moment.  A moment is what it held at a sequence.  *)

Erases(e, p) == e.kind \in Silent /\ e.path \in {p, NoPath}

CutDoc(d) == IF d = NoDoc THEN NoDoc ELSE Clear(d)

\* A live document is the newest row of its journal.
Journalled(d, rows) ==
    d # NoDoc =>
        /\ rows # <<>> /\ Last(rows).version = d.version
        /\ Last(rows).content = d.content /\ Last(rows).mark = d.mark

\* From one moment to a later one a path keeps its rows, at most cleared, and
\* without a new row its document is the same, at most cleared.
Later(p, v, w) ==
    /\ RowsStay(v.journal[p], w.journal[p])
    /\ Len(v.journal[p]) <= Len(w.journal[p])
    /\ Len(v.journal[p]) = Len(w.journal[p]) =>
          w.docs[p] \in {v.docs[p], CutDoc(v.docs[p])}

\* The path got no new row.
Unmoved(p, v, w) == Len(v.journal[p]) = Len(w.journal[p])

\* Nothing of the path was erased.
Kept(p, v, w) ==
    /\ \A i \in DOMAIN v.journal[p] : w.journal[p][i] = v.journal[p][i]
    /\ Unmoved(p, v, w) => w.docs[p] = v.docs[p]

\* Everything of the path was erased.
Wiped(p, v, w) ==
    /\ \A i \in DOMAIN v.journal[p] : w.journal[p][i] = Clear(v.journal[p][i])
    /\ Unmoved(p, v, w) => w.docs[p] = CutDoc(v.docs[p])

MomentOK(w) ==
    /\ w.docs \in [Path -> Documents \cup {NoDoc}]
    /\ w.journal \in [Path -> Seq(Rows)]
    /\ \A p \in Path : PathInv(w.docs[p], w.journal[p]) /\ Journalled(w.docs[p], w.journal[p])

Now == [docs |-> docs, journal |-> journal]

Between(m, n) == {k \in DOMAIN events : m < k /\ k <= n}

\* What the events between two moments tell of a path.
EventsTellMoments(p, m, n) ==
    /\ (\A k \in Between(m, n) : ~Names(events[k], p)) => Unmoved(p, was[m], was[n])
    /\ (\A k \in Between(m, n) : ~Erases(events[k], p)) => Kept(p, was[m], was[n])
    /\ (\E k \in Between(m, n) : Erases(events[k], p)) => Wiped(p, was[m], was[n])

HistoryInv ==
    /\ MomentOK(Now)
    /\ DOMAIN was = 1..head.sequence
    /\ head # Untracked => was[head.sequence] = Now
    /\ \A n \in DOMAIN was : MomentOK(was[n])
    /\ \A m, n \in DOMAIN was : m <= n =>
         \A p \in Path :
            /\ Later(p, was[m], was[n])
            /\ m >= head.floor => EventsTellMoments(p, m, n)

-----------------------------------------------------------------------------
(* The exporter.                                                           *)

\* What an update says of a path.
Carries(u, d, rows) ==
    IF d # NoDoc THEN u = Present(d)
    ELSE rows # <<>> /\ Last(rows).action = "deleted" /\ u = Deletion(Last(rows))

Done(e) == e.paths \cup DOMAIN e.updates

\* What an interval from moment v to moment w left out of a delta.
Gathered(done, erased, v, w) ==
    \A p \in Path :
        /\ p \notin done => Unmoved(p, v, w)
        /\ {p, NoPath} \cap erased = {} => Kept(p, v, w)
        /\ {p, NoPath} \cap erased # {} => Wiped(p, v, w)
        /\ p \in erased => p \in done

\* What an export is made of.
Shape(e) ==
    /\ e = [stage |-> e.stage, base |-> e.base, end |-> e.end, at |-> e.at,
            paths |-> e.paths, erasures |-> e.erasures, updates |-> e.updates]
    /\ e.stage \in {"page", "list", "read", "row"}
    /\ e.end = Cursor(Stream, e.end.sequence)
    /\ e.paths \subseteq Path /\ DOMAIN e.updates \subseteq Path
    /\ e.stage = "row" => e.paths # {}
    /\ e.base = NoCursor =>
          /\ e.stage \in {"list", "read"} /\ e.erasures = <<>>
          /\ e.stage = "list" => Done(e) = {}
    /\ e.base # NoCursor =>
          /\ e.base = Cursor(Stream, e.base.sequence)
          /\ e.at = Cursor(Stream, e.at.sequence)
          /\ \A k \in DOMAIN e.erasures : k \in Nat /\ k <= e.at.sequence

\* Where it stands in the history of its source.
Spans(e) ==
    /\ e.end.sequence \in DOMAIN was
    /\ e.base # NoCursor =>
          /\ {e.base.sequence, e.at.sequence} \subseteq DOMAIN was
          /\ e.base.sequence <= e.at.sequence /\ e.at.sequence <= e.end.sequence
          /\ e.stage # "page" => e.at.sequence = e.end.sequence
          /\ Gathered(Done(e), Range(e.erasures), was[e.base.sequence], was[e.at.sequence])

\* What it knows, while the head is where it was.
Fresh(e) ==
    /\ e.base = NoCursor => \A p \in Done(e) : Live(p)
    /\ /\ e.stage \in {"read", "row"}
       /\ e.base = NoCursor \/ NoPath \in Range(e.erasures)
       => \A p \in Path : Live(p) => p \in Done(e)
    /\ \A p \in DOMAIN e.updates : Carries(e.updates[p], docs[p], journal[p])
    /\ e.stage = "row" => ~Live(NextPath(e))

ExportInv ==
    export # NotExporting =>
        /\ Shape(export) /\ Spans(export)
        /\ export.end.sequence = head.sequence => Fresh(export)

BundleOK(b) ==
    LET s == b.checkpoint.sequence
        f == b.base.sequence
    IN
        /\ b = [base |-> b.base, checkpoint |-> b.checkpoint,
                updates |-> b.updates, erasures |-> b.erasures]
        /\ b.checkpoint = Cursor(Stream, s) /\ s \in DOMAIN was
        /\ DOMAIN b.updates \subseteq Path
        /\ \A p \in DOMAIN b.updates :
              Carries(b.updates[p], was[s].docs[p], was[s].journal[p])
        /\ b.base = NoCursor =>
              /\ b.erasures = <<>>
              /\ \A p \in Path : p \in DOMAIN b.updates <=> was[s].docs[p] # NoDoc
        /\ b.base # NoCursor =>
              /\ b.base = Cursor(Stream, f) /\ f \in DOMAIN was /\ f <= s
              /\ \A p \in Path : Later(p, was[f], was[s])
              /\ Gathered(DOMAIN b.updates, Range(b.erasures), was[f], was[s])
              /\ \A p \in Path : Erased(b, p) /\ p \notin DOMAIN b.updates =>
                    was[s].docs[p] = NoDoc

BundlesInv == \A b \in bundles : BundleOK(b)

-----------------------------------------------------------------------------
(* The replica.                                                            *)

ReplicaOK(r) ==
    /\ r = [docs |-> r.docs, journal |-> r.journal, trail |-> r.trail]
    /\ r.docs \in [Path -> Documents \cup {NoDoc}]
    /\ r.journal \in [Path -> Seq(Rows)]

\* The row stands for the newest of a journal, d the document of the path.
Top(row, d, js) ==
    /\ js # <<>> /\ row.version = Last(js).version /\ row.mark = Last(js).mark
    /\ row.content = IF d # NoDoc THEN Last(js).content ELSE Cleared
    /\ row.action = "deleted" <=> d = NoDoc

\* The newest row of a replica is the newest of its source.
Tops(rows, d, js) == rows # <<>> => Top(Last(rows), d, js)

\* Every text in its journal is in its source's.
Travels(rows, js) ==
    \A i \in DOMAIN rows : rows[i].content # Cleared =>
        \E k \in DOMAIN js : js[k].version = rows[i].version /\ js[k].content = rows[i].content

Mirrors(r, w) ==
    \A p \in Path :
        /\ r.docs[p] = w.docs[p]
        /\ Tops(r.journal[p], w.docs[p], w.journal[p])
        /\ Travels(r.journal[p], w.journal[p])

\* A person changed the path since the files were t.
Changed(p, r, t) ==
    \/ Len(r.journal[p]) > Len(t.journal[p])
    \/ \E i \in DOMAIN t.journal[p] :
          i \in DOMAIN r.journal[p] /\ r.journal[p][i] = Clear(t.journal[p][i])
          /\ Clear(t.journal[p][i]) # t.journal[p][i]
    \/ /\ t.docs[p] # NoDoc /\ r.docs[p] = Clear(t.docs[p])
       /\ Clear(t.docs[p]) # t.docs[p]

ReplicaInv ==
    /\ ReplicaOK(replica) /\ edits \in Seq(Range(edits))
    /\ receipt = NoReceipt => replica = NoFiles /\ edits = <<>>
    /\ receipt # NoReceipt =>
          /\ receipt = [bundle |-> receipt.bundle, checkpoint |-> receipt.checkpoint,
                        print |-> receipt.print]
          /\ ReplicaOK(receipt.print)
          /\ \E n \in DOMAIN was :
                receipt.checkpoint = Cursor(Stream, n) /\ Mirrors(receipt.print, was[n])
          /\ \A p \in Path : Len(replica.journal[p]) >= Len(receipt.print.journal[p])
          /\ edits = <<>> => replica = receipt.print
          /\ edits # <<>> =>
                replica = Last(edits) /\ \E p \in Path : Changed(p, replica, receipt.print)

Away == host = "away" => HistoryInv /\ ExportInv /\ BundlesInv /\ ReplicaInv
Near == host # "away" => NoExchange /\ was = <<>>

Then == [docs |-> docs', journal |-> journal']

-----------------------------------------------------------------------------
(* How moments chain.                                                      *)

LEMMA ClearTwice ==
    ASSUME NEW x \in Rows \cup Documents
    PROVE  /\ Clear(Clear(x)) = Clear(x)
           /\ Clear(x).content = Cleared /\ Clear(x).mark = "redacted"
           /\ Clear(x).version = x.version
           /\ x \in Rows => Clear(x) \in Rows /\ Clear(x).action = x.action
           /\ x \in Documents => Clear(x) \in Documents
<1>1. CASE x \in Rows
  BY <1>1 DEF Rows, Clear, Contents, Marks, Documents
<1>2. CASE x \in Documents
  BY <1>2 DEF Documents, Clear, Contents, Marks, Rows
<1> QED
  BY <1>1, <1>2

LEMMA CutTwice ==
    ASSUME NEW d \in Documents \cup {NoDoc}
    PROVE  /\ CutDoc(CutDoc(d)) = CutDoc(d) /\ CutDoc(d) \in Documents \cup {NoDoc}
           /\ CutDoc(d) = NoDoc <=> d = NoDoc
BY ClearTwice, NamesAssumption DEF CutDoc

\* What a moment holds of a path.
LEMMA MomentParts ==
    ASSUME NEW w, MomentOK(w), NEW p \in Path
    PROVE  /\ w.docs[p] \in Documents \cup {NoDoc}
           /\ w.journal[p] \in Seq(Rows) /\ Len(w.journal[p]) \in Nat
           /\ DOMAIN w.journal[p] = 1..Len(w.journal[p])
           /\ \A i \in DOMAIN w.journal[p] : w.journal[p][i] \in Rows
           /\ PathInv(w.docs[p], w.journal[p]) /\ Journalled(w.docs[p], w.journal[p])
BY DEF MomentOK

LEMMA Unchanged ==
    ASSUME NEW w, MomentOK(w), NEW p \in Path
    PROVE  Later(p, w, w) /\ Unmoved(p, w, w) /\ Kept(p, w, w)
BY MomentParts DEF Later, Unmoved, Kept, RowsStay

LEMMA LaterChain ==
    ASSUME NEW u, NEW v, NEW w, MomentOK(u), MomentOK(v), MomentOK(w), NEW p \in Path,
           Later(p, u, v), Later(p, v, w)
    PROVE  /\ Later(p, u, w)
           /\ Unmoved(p, u, w) <=> Unmoved(p, u, v) /\ Unmoved(p, v, w)
           /\ Kept(p, u, v) /\ Kept(p, v, w) => Kept(p, u, w)
           /\ Wiped(p, u, v) \/ Wiped(p, v, w) => Wiped(p, u, w)
<1> DEFINE a == u.journal[p]
           b == v.journal[p]
           c == w.journal[p]
           d == u.docs[p]
           e == v.docs[p]
           f == w.docs[p]
<1>1. /\ Len(a) \in Nat /\ Len(b) \in Nat /\ Len(c) \in Nat
      /\ \A i \in DOMAIN a : a[i] \in Rows
      /\ \A i \in DOMAIN b : b[i] \in Rows
      /\ d \in Documents \cup {NoDoc} /\ e \in Documents \cup {NoDoc}
  BY MomentParts
<1>2. /\ Len(a) <= Len(b) /\ Len(b) <= Len(c)
      /\ \A i \in DOMAIN a : i \in DOMAIN b /\ b[i] \in {a[i], Clear(a[i])}
      /\ \A i \in DOMAIN b : i \in DOMAIN c /\ c[i] \in {b[i], Clear(b[i])}
      /\ Len(a) = Len(b) => e \in {d, CutDoc(d)}
      /\ Len(b) = Len(c) => f \in {e, CutDoc(e)}
  BY DEF Later, RowsStay
<1>3. /\ \A i \in DOMAIN a : Clear(Clear(a[i])) = Clear(a[i])
      /\ CutDoc(CutDoc(d)) = CutDoc(d)
  BY <1>1, ClearTwice, CutTwice
<1> HIDE DEF a, b, c, d, e, f
<1>4. Len(a) = Len(c) <=> Len(a) = Len(b) /\ Len(b) = Len(c)
  BY <1>1, <1>2
<1>5. \A i \in DOMAIN a : i \in DOMAIN c /\ c[i] \in {a[i], Clear(a[i])}
  BY <1>2, <1>3
<1>6. Len(a) = Len(c) => f \in {d, CutDoc(d)}
  BY <1>2, <1>3, <1>4
<1>7. Later(p, u, w)
  BY <1>1, <1>2, <1>5, <1>6 DEF Later, RowsStay, a, c, d, f
<1>8. ASSUME Kept(p, u, v), Kept(p, v, w) PROVE Kept(p, u, w)
  <2>1. /\ \A i \in DOMAIN a : b[i] = a[i]
        /\ \A i \in DOMAIN b : c[i] = b[i]
        /\ Len(a) = Len(b) => e = d
        /\ Len(b) = Len(c) => f = e
    BY <1>8 DEF Kept, Unmoved, a, b, c, d, e, f
  <2>2. (\A i \in DOMAIN a : c[i] = a[i]) /\ (Len(a) = Len(c) => f = d)
    BY <1>2, <1>4, <2>1
  <2> QED
    BY <2>2 DEF Kept, Unmoved, a, c, d, f
<1>9. ASSUME Wiped(p, u, v) PROVE Wiped(p, u, w)
  <2>1. /\ \A i \in DOMAIN a : b[i] = Clear(a[i])
        /\ Len(a) = Len(b) => e = CutDoc(d)
    BY <1>9 DEF Wiped, Unmoved, a, b, d, e
  <2>2. (\A i \in DOMAIN a : c[i] = Clear(a[i])) /\ (Len(a) = Len(c) => f = CutDoc(d))
    BY <1>2, <1>3, <1>4, <2>1
  <2> QED
    BY <2>2 DEF Wiped, Unmoved, a, c, d, f
<1>10. ASSUME Wiped(p, v, w) PROVE Wiped(p, u, w)
  <2>1. /\ \A i \in DOMAIN b : c[i] = Clear(b[i])
        /\ Len(b) = Len(c) => f = CutDoc(e)
    BY <1>10 DEF Wiped, Unmoved, b, c, e, f
  <2>2. (\A i \in DOMAIN a : c[i] = Clear(a[i])) /\ (Len(a) = Len(c) => f = CutDoc(d))
    BY <1>2, <1>3, <1>4, <2>1
  <2> QED
    BY <2>2 DEF Wiped, Unmoved, a, c, d, f
<1> QED
  BY <1>4, <1>7, <1>8, <1>9, <1>10 DEF Unmoved, a, b, c

-----------------------------------------------------------------------------
(* What one mutation does from moment to moment.                           *)

StepTells(change) ==
    \A p \in Path :
        /\ Later(p, Now, Then)
        /\ ~Names(change, p) => Unmoved(p, Now, Then)
        /\ ~Erases(change, p) => Kept(p, Now, Then)
        /\ Erases(change, p) => Wiped(p, Now, Then)

\* A path gets a row.
LEMMA GotRow ==
    ASSUME NEW v, NEW w, MomentOK(v), NEW p \in Path, NEW row \in Rows,
           w.journal[p] = Append(v.journal[p], row)
    PROVE  Later(p, v, w) /\ Kept(p, v, w)
<1>1. v.journal[p] \in Seq(Rows) /\ Len(v.journal[p]) \in Nat
  BY MomentParts
<1>2. Len(w.journal[p]) = Len(v.journal[p]) + 1
  BY <1>1
<1>3. \A i \in DOMAIN v.journal[p] :
        i \in DOMAIN w.journal[p] /\ w.journal[p][i] = v.journal[p][i]
  BY <1>1, Stays
<1> QED
  BY <1>1, <1>2, <1>3 DEF Later, Kept, Unmoved, RowsStay

\* A path is left alone.
LEMMA LeftAlone ==
    ASSUME NEW v, NEW w, MomentOK(v), NEW p \in Path,
           w.journal[p] = v.journal[p], w.docs[p] = v.docs[p]
    PROVE  Later(p, v, w) /\ Kept(p, v, w) /\ Unmoved(p, v, w)
BY MomentParts DEF Later, Kept, Unmoved, RowsStay

\* A path is erased.
LEMMA Cut ==
    ASSUME NEW v, NEW w, MomentOK(v), NEW p \in Path,
           w.journal[p] = [i \in DOMAIN v.journal[p] |-> Clear(v.journal[p][i])],
           w.docs[p] = CutDoc(v.docs[p])
    PROVE  Later(p, v, w) /\ Wiped(p, v, w) /\ Unmoved(p, v, w)
<1>1. v.journal[p] \in Seq(Rows) /\ Len(v.journal[p]) \in Nat
      /\ DOMAIN v.journal[p] = 1..Len(v.journal[p])
  BY MomentParts
<1>2. Len(w.journal[p]) = Len(v.journal[p]) /\ DOMAIN w.journal[p] = DOMAIN v.journal[p]
  BY <1>1
<1> QED
  BY <1>1, <1>2 DEF Later, Wiped, Unmoved, RowsStay

\* The new row and its document.
LEMMA RowOnTop ==
    ASSUME NEW rows \in Seq(Rows), NEW version \in Versions, NEW action \in RowActions,
           NEW content \in Contents, NEW mark \in Marks
    PROVE  /\ Journalled(DocOf(version, content, mark),
                         Append(rows, RowOf(version, action, content, mark)))
           /\ Journalled(NoDoc, Append(rows, RowOf(version, action, content, mark)))
           /\ RowOf(version, action, content, mark) \in Rows
<1> DEFINE row == RowOf(version, action, content, mark)
<1>1. /\ row \in Rows /\ row.version = version /\ row.content = content /\ row.mark = mark
      /\ DocOf(version, content, mark).version = version
      /\ DocOf(version, content, mark).content = content
      /\ DocOf(version, content, mark).mark = mark
  BY MadeParts
<1> HIDE DEF row
<1>2. Append(rows, row) # <<>> /\ Last(Append(rows, row)) = row
  BY <1>1 DEF Last
<1> QED
  BY <1>1, <1>2 DEF Journalled, row

LEMMA WriteTellsMoment ==
    ASSUME IInv, MomentOK(Now), NEW p \in Path, NEW text \in Text, NEW expected,
           Write(p, text, expected)
    PROVE  \E change \in Events :
              /\ Record(change) /\ change.kind # "restored" /\ StepTells(change)
              /\ \A q \in Path : Journalled(docs'[q], journal'[q])
<1> DEFINE action  == IF Live(p) THEN "modified" ELSE "created"
           version == IF Live(p) THEN After(journal[p], docs[p]) ELSE NextVersion(journal[p])
           row == RowOf(version, action, text, "plain")
           change == Change(action, p, version)
<1>1. PathInv(docs[p], journal[p]) /\ journal[p] \in Seq(Rows)
  BY DEF IInv
<1>2. /\ version \in Versions /\ version \in Nat /\ action \in RowActions
      /\ action \notin Silent /\ text \in Contents /\ "plain" \in Marks
      /\ action # "restored"
  BY <1>1, LiveParts, NextIsPast DEF PathInv, RowActions, Versions, Silent, Contents, Marks
<1>3. /\ \A q \in Path : journal'[q] = IF q = p THEN Append(journal[p], row) ELSE journal[q]
      /\ \A q \in Path : docs'[q] = IF q = p THEN DocOf(version, text, "plain") ELSE docs[q]
      /\ Record(change)
  BY DEF Write, IInv
<1>4. change \in Events /\ change.kind = action
  BY <1>2, ChangeTypes DEF Kinds, Change
<1>5. \A q \in Path : Names(change, q) <=> q = p
  BY <1>2, NamedBy
<1> HIDE DEF action, version
<1>6. /\ row \in Rows /\ Journalled(DocOf(version, text, "plain"), Append(journal[p], row))
  BY <1>1, <1>2, RowOnTop
<1> HIDE DEF row, change
<1>7. ASSUME NEW q \in Path
      PROVE  /\ Later(q, Now, Then) /\ Kept(q, Now, Then)
             /\ q # p => Unmoved(q, Now, Then)
  <2>1. CASE q = p
    <3>1. Then.journal[p] = Append(Now.journal[p], row)
      BY <1>3 DEF Now, Then
    <3> QED
      BY <1>6, <2>1, <3>1, GotRow
  <2>2. CASE q # p
    <3>1. Then.journal[q] = Now.journal[q] /\ Then.docs[q] = Now.docs[q]
      BY <1>3, <2>2 DEF Now, Then
    <3> QED
      BY <3>1, LeftAlone
  <2> QED
    BY <2>1, <2>2
<1>8. \A q \in Path : ~Erases(change, q)
  BY <1>2, <1>4 DEF Erases
<1>9. StepTells(change)
  BY <1>5, <1>7, <1>8 DEF StepTells
<1>10. \A q \in Path : Journalled(docs'[q], journal'[q])
  BY <1>3, <1>6 DEF MomentOK, Now
<1> QED
  BY <1>2, <1>3, <1>4, <1>9, <1>10

LEMMA DeleteTellsMoment ==
    ASSUME IInv, MomentOK(Now), NEW p \in Path, Delete(p)
    PROVE  \E change \in Events :
              /\ Record(change) /\ change.kind # "restored" /\ StepTells(change)
              /\ \A q \in Path : Journalled(docs'[q], journal'[q])
<1> DEFINE version == After(journal[p], docs[p])
           row == RowOf(version, "deleted", docs[p].content, docs[p].mark)
           change == Change("deleted", p, version)
<1>1. PathInv(docs[p], journal[p]) /\ journal[p] \in Seq(Rows) /\ Live(p)
  BY DEF IInv, Delete
<1>2. /\ version \in Versions /\ version \in Nat /\ "deleted" \in RowActions
      /\ docs[p].content \in Contents /\ docs[p].mark \in Marks
  BY <1>1, LiveParts DEF RowActions, Versions
<1>3. /\ \A q \in Path : journal'[q] = IF q = p THEN Append(journal[p], row) ELSE journal[q]
      /\ \A q \in Path : docs'[q] = IF q = p THEN NoDoc ELSE docs[q]
      /\ Record(change)
  BY DEF Delete, IInv
<1>4. change \in Events /\ change.kind = "deleted"
  BY <1>2, ChangeTypes DEF Kinds, Change
<1>5. \A q \in Path : Names(change, q) <=> q = p
  BY <1>2, NamedBy
<1> HIDE DEF version
<1>6. /\ row \in Rows /\ Journalled(NoDoc, Append(journal[p], row))
  BY <1>1, <1>2, RowOnTop
<1> HIDE DEF row, change
<1>7. ASSUME NEW q \in Path
      PROVE  /\ Later(q, Now, Then) /\ Kept(q, Now, Then)
             /\ q # p => Unmoved(q, Now, Then)
  <2>1. CASE q = p
    <3>1. Then.journal[p] = Append(Now.journal[p], row)
      BY <1>3 DEF Now, Then
    <3> QED
      BY <1>6, <2>1, <3>1, GotRow
  <2>2. CASE q # p
    <3>1. Then.journal[q] = Now.journal[q] /\ Then.docs[q] = Now.docs[q]
      BY <1>3, <2>2 DEF Now, Then
    <3> QED
      BY <3>1, LeftAlone
  <2> QED
    BY <2>1, <2>2
<1>8. \A q \in Path : ~Erases(change, q)
  BY <1>4 DEF Erases, Silent
<1>9. StepTells(change)
  BY <1>5, <1>7, <1>8 DEF StepTells
<1>10. \A q \in Path : Journalled(docs'[q], journal'[q])
  BY <1>3, <1>6 DEF MomentOK, Now
<1> QED
  BY <1>3, <1>4, <1>9, <1>10

LEMMA RenameTellsMoment ==
    ASSUME IInv, MomentOK(Now), NEW src \in Path, NEW dst \in Path, Rename(src, dst)
    PROVE  \E change \in Events :
              /\ Record(change) /\ change.kind # "restored" /\ StepTells(change)
              /\ \A q \in Path : Journalled(docs'[q], journal'[q])
<1> DEFINE doc == docs[src]
           old == After(journal[src], doc)
           version == NextVersion(journal[dst])
           gone == RowOf(old, "deleted", doc.content, doc.mark)
           come == RowOf(version, "created", doc.content, doc.mark)
           put == DocOf(version, doc.content, doc.mark)
           change == Renaming(src, old, dst, version)
<1>1. /\ PathInv(doc, journal[src]) /\ Live(src) /\ src # dst
      /\ PathInv(docs[dst], journal[dst])
      /\ journal[src] \in Seq(Rows) /\ journal[dst] \in Seq(Rows)
  BY DEF IInv, Rename
<1>2. /\ \A q \in Path : journal'[q] = IF q = src THEN Append(journal[src], gone)
                                       ELSE IF q = dst THEN Append(journal[dst], come)
                                       ELSE journal[q]
      /\ \A q \in Path : docs'[q] = IF q = src THEN NoDoc
                                    ELSE IF q = dst THEN put ELSE docs[q]
      /\ Record(change)
  BY <1>1 DEF Rename, IInv
<1>3. /\ old \in Versions /\ doc.content \in Contents /\ doc.mark \in Marks
      /\ "deleted" \in RowActions /\ "created" \in RowActions
  BY <1>1, LiveParts DEF RowActions
<1>4. version \in Versions /\ version \in Nat
  BY <1>1, NextIsPast DEF PathInv, Versions
<1>5. change \in Events /\ change.kind = "renamed"
  BY <1>3, <1>4, ChangeTypes DEF Kinds, Renaming, Change
<1>6. \A q \in Path : Names(change, q) <=> q \in {src, dst}
  BY NamedBy
<1> HIDE DEF doc, old, version
<1>7. /\ gone \in Rows /\ Journalled(NoDoc, Append(journal[src], gone))
      /\ come \in Rows /\ Journalled(put, Append(journal[dst], come))
  BY <1>1, <1>3, <1>4, RowOnTop
<1> HIDE DEF gone, come, put, change
<1>8. ASSUME NEW q \in Path
      PROVE  /\ Later(q, Now, Then) /\ Kept(q, Now, Then)
             /\ q \notin {src, dst} => Unmoved(q, Now, Then)
  <2>1. CASE q = src
    <3>1. Then.journal[src] = Append(Now.journal[src], gone)
      BY <1>2 DEF Now, Then
    <3> QED
      BY <1>7, <2>1, <3>1, GotRow
  <2>2. CASE q = dst
    <3>1. Then.journal[dst] = Append(Now.journal[dst], come)
      BY <1>1, <1>2 DEF Now, Then
    <3> QED
      BY <1>7, <2>2, <3>1, GotRow
  <2>3. CASE q \notin {src, dst}
    <3>1. Then.journal[q] = Now.journal[q] /\ Then.docs[q] = Now.docs[q]
      BY <1>2, <2>3 DEF Now, Then
    <3> QED
      BY <3>1, LeftAlone
  <2> QED
    BY <2>1, <2>2, <2>3
<1>9. \A q \in Path : ~Erases(change, q)
  BY <1>5 DEF Erases, Silent
<1>10. StepTells(change)
  BY <1>6, <1>8, <1>9 DEF StepTells
<1>11. \A q \in Path : Journalled(docs'[q], journal'[q])
  BY <1>2, <1>7 DEF MomentOK, Now
<1> QED
  BY <1>2, <1>5, <1>10, <1>11

\* What erasing does to a journalled document.
LEMMA CutJournalled ==
    ASSUME NEW d \in Documents \cup {NoDoc}, NEW rows \in Seq(Rows), Journalled(d, rows)
    PROVE  Journalled(CutDoc(d), [i \in DOMAIN rows |-> Clear(rows[i])])
<1> DEFINE new == [i \in DOMAIN rows |-> Clear(rows[i])]
<1> SUFFICES ASSUME d # NoDoc
             PROVE  /\ new # <<>> /\ Last(new).version = CutDoc(d).version
                    /\ Last(new).content = CutDoc(d).content /\ Last(new).mark = CutDoc(d).mark
  BY DEF Journalled, CutDoc
<1>1. /\ rows # <<>> /\ rows[Len(rows)].version = d.version /\ Len(rows) \in DOMAIN rows
      /\ DOMAIN rows = 1..Len(rows) /\ Len(rows) \in Nat
  BY DEF Journalled, Last
<1>2. DOMAIN new = DOMAIN rows /\ Len(new) = Len(rows) /\ new # <<>>
  BY <1>1
<1>3. rows[Len(rows)] \in Rows
  BY <1>1
<1>4. /\ Clear(rows[Len(rows)]).version = rows[Len(rows)].version
      /\ Clear(rows[Len(rows)]).content = Cleared /\ Clear(rows[Len(rows)]).mark = "redacted"
      /\ Clear(d).version = d.version /\ Clear(d).content = Cleared /\ Clear(d).mark = "redacted"
  BY <1>3, ClearTwice
<1> QED
  BY <1>1, <1>2, <1>4 DEF Last, CutDoc

LEMMA RedactTellsMoment ==
    ASSUME IInv, MomentOK(Now), NEW named \in Path \cup {NoPath}, Redact(named)
    PROVE  \E change \in Events :
              /\ Record(change) /\ change.kind # "restored" /\ StepTells(change)
              /\ \A q \in Path : Journalled(docs'[q], journal'[q])
<1> DEFINE kind == IF named = NoPath THEN "scope_erased" ELSE "erased"
           targets == Targets(IF named = NoPath THEN Path ELSE {named})
           change == Change(kind, named, 0)
<1>1. kind \in Silent /\ kind \in Kinds /\ kind # "restored"
  BY DEF Silent, Kinds
<1>2. change \in Events /\ change.kind = kind /\ change.path = named /\ change.from = NoPath
  BY <1>1, ChangeTypes DEF Change
<1>3. /\ \A q \in Path : q \in targets =>
            /\ journal'[q] = [i \in DOMAIN journal[q] |-> Clear(journal[q][i])]
            /\ docs'[q] = CutDoc(docs[q])
      /\ \A q \in Path : q \notin targets => journal'[q] = journal[q] /\ docs'[q] = docs[q]
      /\ Record(change)
  BY DEF Redact, Live, CutDoc
<1>4. /\ \A q \in Path : q \in targets => named \in {q, NoPath}
      /\ \A q \in Path : named \in {q, NoPath} /\ q \notin targets =>
            journal[q] = <<>> /\ docs[q] = NoDoc
  BY NamesAssumption DEF Targets, Live
<1> HIDE DEF kind, targets, change
<1>5. ASSUME NEW q \in Path
      PROVE  /\ Later(q, Now, Then) /\ Unmoved(q, Now, Then)
             /\ ~Erases(change, q) => Kept(q, Now, Then)
             /\ Erases(change, q) => Wiped(q, Now, Then)
  <2>1. Erases(change, q) <=> named \in {q, NoPath}
    BY <1>1, <1>2 DEF Erases
  <2>2. CASE q \in targets
    <3>1. /\ Then.journal[q] = [i \in DOMAIN Now.journal[q] |-> Clear(Now.journal[q][i])]
          /\ Then.docs[q] = CutDoc(Now.docs[q])
      BY <1>3, <2>2 DEF Now, Then
    <3> QED
      BY <1>4, <2>1, <2>2, <3>1, Cut
  <2>3. CASE q \notin targets
    <3>1. Then.journal[q] = Now.journal[q] /\ Then.docs[q] = Now.docs[q]
      BY <1>3, <2>3 DEF Now, Then
    <3>2. Later(q, Now, Then) /\ Kept(q, Now, Then) /\ Unmoved(q, Now, Then)
      BY <3>1, LeftAlone
    <3>3. ASSUME named \in {q, NoPath} PROVE Wiped(q, Now, Then)
      <4>1. Now.journal[q] = <<>> /\ Now.docs[q] = NoDoc
        BY <1>4, <2>3, <3>3 DEF Now
      <4> QED
        BY <3>1, <4>1 DEF Wiped, CutDoc
    <3> QED
      BY <2>1, <3>2, <3>3
  <2> QED
    BY <2>2, <2>3
<1>6. StepTells(change)
  BY <1>5 DEF StepTells
<1>7. ASSUME NEW q \in Path PROVE Journalled(docs'[q], journal'[q])
  <2>1. /\ Journalled(docs[q], journal[q])
        /\ docs[q] \in Documents \cup {NoDoc} /\ journal[q] \in Seq(Rows)
    BY DEF MomentOK, Now
  <2>2. CASE q \in targets
    BY <1>3, <2>1, <2>2, CutJournalled
  <2>3. CASE q \notin targets
    BY <1>3, <2>1, <2>3
  <2> QED
    BY <2>2, <2>3
<1> QED
  BY <1>1, <1>2, <1>3, <1>6, <1>7

\* A home's documents are journalled.
LEMMA HomeJournalled ==
    ASSUME NEW h \in Homes, NEW p \in Path
    PROVE  Journalled(h.docs[p], h.journal[p])
<1> DEFINE d == h.docs[p]
           rows == h.journal[p]
<1> SUFFICES ASSUME d # NoDoc
             PROVE  /\ rows # <<>> /\ Last(rows).version = d.version
                    /\ Last(rows).content = d.content /\ Last(rows).mark = d.mark
  BY DEF Journalled
<1>1. rows \in Seq(Rows) /\ Agree(d, rows) /\ d \in Documents
  BY HomeParts DEF PathInv
<1>2. rows # <<>> /\ Last(rows).version = d.version
  BY JournalledAssumption
<1>3. Len(rows) \in DOMAIN rows /\ Last(rows) = rows[Len(rows)]
  BY <1>1, <1>2 DEF Last
<1>4. d.version \in Nat
  BY <1>1 DEF Documents, Versions
<1> HIDE DEF d, rows
<1>5. rows[Len(rows)].content = d.content /\ rows[Len(rows)].mark = d.mark
  BY <1>1, <1>2, <1>3, <1>4 DEF Agree
<1> QED
  BY <1>2, <1>3, <1>5

\* Every mutation but a restore tells what it does.
LEMMA MutationTells ==
    ASSUME IInv, MomentOK(Now), Mutate, ~\E h \in Homes : Restore(h)
    PROVE  \E change \in Events :
              /\ Record(change) /\ change.kind # "restored" /\ StepTells(change)
              /\ \A q \in Path : Journalled(docs'[q], journal'[q])
<1>1. ASSUME NEW p \in Path, WriteAny(p)
      PROVE  \E change \in Events :
              /\ Record(change) /\ change.kind # "restored" /\ StepTells(change)
              /\ \A q \in Path : Journalled(docs'[q], journal'[q])
  <2>1. PICK text \in Text, expected \in {0} \cup (IF Live(p) THEN {docs[p].version} ELSE {}) :
            Write(p, text, expected)
    BY <1>1 DEF WriteAny
  <2> QED
    BY <2>1, WriteTellsMoment
<1> QED
  BY <1>1, DeleteTellsMoment, RenameTellsMoment, RedactTellsMoment DEF Mutate

-----------------------------------------------------------------------------
(* The history stays true.                                                 *)

\* How far the head goes.
LEMMA Grows ==
    ASSUME IInv, NEW change \in Events, Record(change)
    PROVE  head'.sequence = head.sequence +
                (IF head = Untracked /\ change.kind # "restored" THEN 2 ELSE 1)
<1> DEFINE new == Announced(change)
<1>1. head' = [head EXCEPT !.stream = Stream, !.sequence = head.sequence + Len(new)]
  BY DEF Record
<1>2. head \in [stream : {Stream, NoStream}, sequence : Nat, floor : Nat]
  BY DEF IInv, FeedTypes, Heads
<1>3. Len(new) = IF head = Untracked /\ change.kind # "restored" THEN 2 ELSE 1
  BY DEF Announced
<1> HIDE DEF new
<1> QED
  BY <1>1, <1>2, <1>3

\* The head, in numbers.
LEMMA HeadParts ==
    ASSUME IInv, TellInv
    PROVE  /\ head.sequence \in Nat /\ head.floor \in Nat /\ head.floor <= head.sequence
           /\ DOMAIN events = head.floor + 1 .. head.sequence
           /\ head # Untracked => head.sequence > 0 /\ head.stream = Stream
           /\ head = Untracked => head.sequence = 0 /\ head.floor = 0
<1>1. /\ head.sequence \in Nat /\ head.floor \in Nat /\ head.floor <= head.sequence
      /\ DOMAIN events = head.floor + 1 .. head.sequence
      /\ head # Untracked => head.stream = Stream
  BY DEF IInv, FeedTypes, FeedWhole, Heads
<1>2. head # Untracked => head.sequence > 0
  BY <1>1 DEF TellInv, BeginsMarked
<1> QED
  BY <1>1, <1>2 DEF Untracked

LEMMA ThenOK ==
    ASSUME IInv', \A q \in Path : Journalled(docs'[q], journal'[q])
    PROVE  MomentOK(Then) /\ Then = Now'
<1>1. /\ docs' \in [Path -> Documents \cup {NoDoc}] /\ journal' \in [Path -> Seq(Rows)]
      /\ \A q \in Path : PathInv(docs'[q], journal'[q])
  BY DEF IInv, PathInv
<1> QED
  BY <1>1 DEF MomentOK, Then, Now

\* The events up to the head, and one more mutation.
LEMMA RecordTells ==
    ASSUME IInv, TellInv, IInv', HistoryInv,
           NEW change \in Events, Record(change), change.kind # "restored", StepTells(change),
           \A q \in Path : Journalled(docs'[q], journal'[q]),
           was' = [n \in 1..head'.sequence |->
                     IF n = head'.sequence THEN Then
                     ELSE IF n \in DOMAIN was THEN was[n] ELSE Now]
    PROVE  HistoryInv'
<1> DEFINE h == head.sequence
           N == head'.sequence
<1>1. /\ h \in Nat /\ head.floor \in Nat /\ head.floor <= h
      /\ DOMAIN events = head.floor + 1 .. h
      /\ head # Untracked => h > 0
      /\ head = Untracked => h = 0 /\ head.floor = 0
  BY HeadParts
<1>2. /\ head' # Untracked /\ head'.floor = head.floor
      /\ N = h + (IF head = Untracked THEN 2 ELSE 1)
      /\ events'[N] = change
  BY Topped, Grows
<1>3. /\ N \in Nat /\ DOMAIN events' = head'.floor + 1 .. N
  BY DEF IInv, FeedTypes, FeedWhole, Heads
<1>4. \A k \in DOMAIN events : k \in DOMAIN events' /\ events'[k] = events[k]
  BY News
<1>5. MomentOK(Then) /\ Then = Now' /\ MomentOK(Now)
  BY ThenOK DEF HistoryInv
<1>6. /\ DOMAIN was = 1..h
      /\ head # Untracked => was[h] = Now
      /\ \A n \in DOMAIN was : MomentOK(was[n])
      /\ \A m, n \in DOMAIN was : m <= n =>
           \A p \in Path :
              /\ Later(p, was[m], was[n])
              /\ m >= head.floor => EventsTellMoments(p, m, n)
  BY DEF HistoryInv
<1>7. /\ DOMAIN was' = 1..N /\ was'[N] = Then
      /\ \A n \in DOMAIN was : n \in DOMAIN was' /\ was'[n] = was[n]
      /\ head = Untracked => was'[1] = Now
  BY <1>1, <1>2, <1>3, <1>6
<1>11. \A n \in DOMAIN was' : n \in Nat /\ n >= 1 /\ n <= N
  BY <1>3, <1>7
<1> HIDE DEF h, N
<1>12. head # Untracked => N = h + 1
  BY <1>2
<1>13. head = Untracked => N = 2
  BY <1>1, <1>2
<1>8. MomentOK(Now)'
  BY <1>5 DEF MomentOK, Now, Then
<1>9. \A n \in DOMAIN was' : MomentOK(was'[n])
  <2> SUFFICES ASSUME NEW n \in DOMAIN was' PROVE MomentOK(was'[n])
    OBVIOUS
  <2>0. n \in Nat /\ n >= 1 /\ n <= N
    BY <1>11
  <2>1. n = N \/ n \in DOMAIN was \/ (head = Untracked /\ n = 1)
    BY <1>1, <1>3, <1>6, <1>12, <1>13, <2>0
  <2> QED
    BY <1>5, <1>6, <1>7, <2>1
<1>10. ASSUME NEW m \in DOMAIN was', NEW n \in DOMAIN was', m <= n, NEW p \in Path
       PROVE  /\ Later(p, was'[m], was'[n])
              /\ m >= head'.floor => EventsTellMoments(p, m, n)'
  <2> DEFINE between == {k \in DOMAIN events' : m < k /\ k <= n}
             Telling ==
                /\ (\A k \in between : ~Names(events'[k], p)) => Unmoved(p, was'[m], was'[n])
                /\ (\A k \in between : ~Erases(events'[k], p)) => Kept(p, was'[m], was'[n])
                /\ (\E k \in between : Erases(events'[k], p)) => Wiped(p, was'[m], was'[n])
  <2>1. EventsTellMoments(p, m, n)' <=> Telling
    BY DEF EventsTellMoments, Between
  <2>2. m \in Nat /\ n \in Nat /\ m >= 1 /\ n >= 1 /\ n <= N
    BY <1>11
  <2>3. CASE m = n
    <3>1. between = {}
      BY <1>3, <2>2, <2>3
    <3> QED
      BY <1>9, <2>1, <2>3, <3>1, Unchanged
  <2>4. CASE m < n /\ n # N /\ head # Untracked
    <3>1. m \in DOMAIN was /\ n \in DOMAIN was /\ n <= h
      BY <1>1, <1>2, <1>3, <1>6, <2>2, <2>4
    <3>2. was'[m] = was[m] /\ was'[n] = was[n]
      BY <1>7, <3>1
    <3>3. between = Between(m, n)
      BY <1>1, <1>2, <1>3, <2>2, <3>1 DEF Between
    <3>4. \A k \in Between(m, n) : events'[k] = events[k]
      BY <1>4 DEF Between
    <3>5. Later(p, was[m], was[n]) /\ (m >= head.floor => EventsTellMoments(p, m, n))
      BY <1>6, <2>4, <3>1
    <3> QED
      BY <1>2, <2>1, <3>2, <3>3, <3>4, <3>5 DEF EventsTellMoments
  <2>5. CASE m < n /\ n = N /\ head # Untracked
    <3>1. m \in DOMAIN was /\ h \in DOMAIN was /\ m <= h
      BY <1>1, <1>2, <1>3, <1>6, <2>2, <2>5
    <3>2. was'[m] = was[m] /\ was'[n] = Then /\ was[h] = Now
      BY <1>6, <1>7, <2>5, <3>1
    <3>3. Later(p, was[m], Now) /\ (m >= head.floor => EventsTellMoments(p, m, h))
      BY <1>6, <2>5, <3>1, <3>2
    <3>4. /\ Later(p, Now, Then)
          /\ ~Names(change, p) => Unmoved(p, Now, Then)
          /\ ~Erases(change, p) => Kept(p, Now, Then)
          /\ Erases(change, p) => Wiped(p, Now, Then)
      BY DEF StepTells
    <3>5. /\ Later(p, was[m], Then)
          /\ Unmoved(p, was[m], Then) <=> Unmoved(p, was[m], Now) /\ Unmoved(p, Now, Then)
          /\ Kept(p, was[m], Now) /\ Kept(p, Now, Then) => Kept(p, was[m], Then)
          /\ Wiped(p, was[m], Now) \/ Wiped(p, Now, Then) => Wiped(p, was[m], Then)
      BY <1>5, <1>6, <3>1, <3>3, <3>4, LaterChain
    <3>6. ASSUME m >= head.floor PROVE Telling
      <4>1. between = Between(m, h) \cup {N}
        BY <1>1, <1>2, <1>3, <2>2, <2>5, <3>1, <3>6 DEF Between
      <4>2. \A k \in Between(m, h) : events'[k] = events[k]
        BY <1>4 DEF Between
      <4>3. /\ (\A k \in Between(m, h) : ~Names(events[k], p)) => Unmoved(p, was[m], Now)
            /\ (\A k \in Between(m, h) : ~Erases(events[k], p)) => Kept(p, was[m], Now)
            /\ (\E k \in Between(m, h) : Erases(events[k], p)) => Wiped(p, was[m], Now)
        BY <3>2, <3>3, <3>6 DEF EventsTellMoments
      <4> HIDE DEF between
      <4>4. (\A k \in between : ~Names(events'[k], p)) => Unmoved(p, was[m], Then)
        BY <1>2, <3>4, <3>5, <4>1, <4>2, <4>3
      <4>5. (\A k \in between : ~Erases(events'[k], p)) => Kept(p, was[m], Then)
        BY <1>2, <3>4, <3>5, <4>1, <4>2, <4>3
      <4>6. (\E k \in between : Erases(events'[k], p)) => Wiped(p, was[m], Then)
        BY <1>2, <3>4, <3>5, <4>1, <4>2, <4>3
      <4> QED
        BY <3>2, <4>4, <4>5, <4>6
    <3> QED
      BY <1>2, <2>1, <3>2, <3>5, <3>6
  <2>6. CASE m < n /\ head = Untracked
    <3>1. m = 1 /\ n = 2 /\ N = 2
      BY <1>1, <1>2, <2>2, <2>6
    <3>2. was'[m] = Now /\ was'[n] = Then
      BY <1>7, <2>6, <3>1
    <3>3. between = {2}
      BY <1>1, <1>2, <1>3, <2>6, <3>1
    <3>4. /\ Later(p, Now, Then)
          /\ ~Names(change, p) => Unmoved(p, Now, Then)
          /\ ~Erases(change, p) => Kept(p, Now, Then)
          /\ Erases(change, p) => Wiped(p, Now, Then)
      BY DEF StepTells
    <3> QED
      BY <1>2, <2>1, <3>1, <3>2, <3>3, <3>4
  <2> QED
    BY <1>10, <2>2, <2>3, <2>4, <2>5, <2>6
<1> QED
  BY <1>2, <1>5, <1>7, <1>8, <1>9, <1>10 DEF HistoryInv, N

\* A restored scope starts its history.
LEMMA RestoreMoments ==
    ASSUME IInv, TellInv, FeedInv, IInv', HistoryInv, NEW h \in Homes, Restore(h),
           was' = [n \in 1..head'.sequence |->
                     IF n = head'.sequence THEN Then
                     ELSE IF n \in DOMAIN was THEN was[n] ELSE Now]
    PROVE  HistoryInv' /\ head = Untracked
<1> DEFINE change == Change("restored", NoPath, 0)
<1>1. /\ ~Occupied /\ docs' = h.docs /\ journal' = h.journal /\ Record(change)
      /\ change \in Events /\ change.kind = "restored"
  BY ChangeTypes DEF Restore, Kinds, Change
<1>2. head = Untracked
  BY <1>1 DEF FeedInv
<1>3. head'.sequence = 1 /\ head'.floor = 0
  BY <1>1, <1>2, Grows, Topped DEF Untracked
<1>4. DOMAIN was' = {1} /\ was'[1] = Then
  BY <1>3
<1>5. \A q \in Path : Journalled(docs'[q], journal'[q])
  BY <1>1, HomeJournalled
<1>6. MomentOK(Then) /\ Then = Now'
  BY <1>5, ThenOK
<1>7. MomentOK(Now)'
  BY <1>6 DEF MomentOK, Now, Then
<1>8. DOMAIN events' = {1}
  <2>1. DOMAIN events' = head'.floor + 1 .. head'.sequence
    BY DEF IInv, FeedWhole
  <2> QED
    BY <1>3, <2>1
<1>9. ASSUME NEW p \in Path
      PROVE  Later(p, was'[1], was'[1]) /\ EventsTellMoments(p, 1, 1)'
  <2>1. Later(p, Then, Then) /\ Unmoved(p, Then, Then) /\ Kept(p, Then, Then)
    BY <1>6, Unchanged
  <2>2. {k \in DOMAIN events' : 1 < k /\ k <= 1} = {}
    BY <1>8
  <2> QED
    BY <1>4, <2>1, <2>2 DEF EventsTellMoments, Between
<1> HIDE DEF change
<1> QED
  BY <1>2, <1>3, <1>4, <1>6, <1>7, <1>9 DEF HistoryInv

\* Pruning takes from what the events tell, and adds nothing.
LEMMA PruneMoments ==
    ASSUME IInv, TellInv, IInv', HistoryInv, NEW end, Prune(end),
           was' = [n \in 1..head'.sequence |->
                     IF n = head'.sequence THEN Then
                     ELSE IF n \in DOMAIN was THEN was[n] ELSE Now]
    PROVE  HistoryInv' /\ (\A n \in DOMAIN was : n \in DOMAIN was' /\ was'[n] = was[n])
           /\ head'.sequence = head.sequence /\ head' # Untracked
           /\ docs' = docs /\ journal' = journal
<1>1. /\ head.sequence \in Nat /\ head.floor \in Nat /\ head.floor <= head.sequence
      /\ DOMAIN events = head.floor + 1 .. head.sequence
      /\ head # Untracked => head.sequence > 0
      /\ head = Untracked => head.sequence = 0 /\ head.floor = 0
  BY HeadParts
<1>2. /\ end \in head.floor + 1 .. head.sequence
      /\ events' = [n \in DOMAIN events \ (head.floor + 1 .. end) |-> events[n]]
      /\ head' = [head EXCEPT !.floor = end]
      /\ docs' = docs /\ journal' = journal
  BY DEF Prune
<1>3. head # Untracked /\ end \in Nat /\ end > head.floor /\ end > 0
  BY <1>1, <1>2
<1>4. head'.sequence = head.sequence /\ head'.floor = end /\ head' # Untracked
  BY <1>2, <1>3 DEF IInv, FeedTypes, Heads, Untracked
<1>5. DOMAIN was = 1..head.sequence /\ was[head.sequence] = Now
  BY <1>3 DEF HistoryInv
<1>6. Then = Now
  BY <1>2 DEF Then, Now
<1>7. DOMAIN was' = DOMAIN was /\ \A n \in DOMAIN was : was'[n] = was[n]
  BY <1>4, <1>5, <1>6
<1>8. ASSUME NEW m \in DOMAIN was, NEW n \in DOMAIN was, m <= n, NEW p \in Path, m >= end
      PROVE  EventsTellMoments(p, m, n)'
  <2>1. m \in Nat /\ n \in Nat
    BY <1>5
  <2>2. {k \in DOMAIN events' : m < k /\ k <= n} = Between(m, n)
    BY <1>1, <1>2, <1>3, <1>8, <2>1 DEF Between
  <2>3. \A k \in Between(m, n) : events'[k] = events[k]
    BY <1>2, <2>2
  <2>4. EventsTellMoments(p, m, n)
    BY <1>1, <1>3, <1>8, <2>1 DEF HistoryInv
  <2> QED
    BY <1>7, <2>2, <2>3, <2>4 DEF EventsTellMoments, Between
<1>9. MomentOK(Now)'
  BY <1>2 DEF HistoryInv, MomentOK, Now
<1>10. HistoryInv'
  <2>1. was'[head'.sequence] = Now'
    BY <1>1, <1>3, <1>4, <1>5, <1>6, <1>7 DEF Then, Now
  <2> QED
    BY <1>4, <1>5, <1>7, <1>8, <1>9, <2>1 DEF HistoryInv
<1> QED
  BY <1>2, <1>3, <1>4, <1>7, <1>10

\* What a step of the source is to its readers: the moments there were stay,
\* and the head goes on, or nothing but the floor moves.
Goes ==
    /\ \A n \in DOMAIN was : n \in DOMAIN was' /\ was'[n] = was[n]
    /\ head' # Untracked
    /\ \/ head'.sequence > head.sequence
       \/ head'.sequence = head.sequence /\ docs' = docs /\ journal' = journal

LEMMA SourceGoes ==
    ASSUME IInv, TellInv, FeedInv, IInv', HistoryInv, Source
    PROVE  HistoryInv' /\ Goes
<1>1. Next /\ was' = [n \in 1..head'.sequence |->
                     IF n = head'.sequence THEN Then
                     ELSE IF n \in DOMAIN was THEN was[n] ELSE Now]
  BY DEF Source, Store, Then, Now
<1>2. /\ head.sequence \in Nat /\ DOMAIN was = 1..head.sequence
      /\ head = Untracked => head.sequence = 0
  BY HeadParts DEF HistoryInv
<1>3. ASSUME NEW h \in Homes, Restore(h) PROVE HistoryInv' /\ Goes
  <2>1. HistoryInv' /\ head = Untracked
    BY <1>1, <1>3, RestoreMoments
  <2>2. Record(Change("restored", NoPath, 0)) /\ Change("restored", NoPath, 0) \in Events
    BY <1>3, ChangeTypes DEF Restore, Kinds
  <2>3. head' # Untracked /\ head'.sequence > head.sequence
    BY <2>2, Topped
  <2> QED
    BY <1>2, <2>1, <2>3 DEF Goes
<1>4. ASSUME NEW end, Prune(end) PROVE HistoryInv' /\ Goes
  BY <1>1, <1>4, PruneMoments DEF Goes
<1>5. ASSUME Mutate, ~\E h \in Homes : Restore(h) PROVE HistoryInv' /\ Goes
  <2>1. PICK change \in Events :
              /\ Record(change) /\ change.kind # "restored" /\ StepTells(change)
              /\ \A q \in Path : Journalled(docs'[q], journal'[q])
    BY <1>5, MutationTells DEF HistoryInv
  <2>2. HistoryInv'
    BY <1>1, <2>1, RecordTells
  <2>3. head' # Untracked /\ head'.sequence > head.sequence
    BY <2>1, Topped
  <2>4. head'.sequence \in Nat
    BY DEF IInv, FeedTypes, Heads
  <2>5. \A n \in DOMAIN was : n \in DOMAIN was' /\ was'[n] = was[n]
    BY <1>1, <1>2, <2>3, <2>4
  <2> QED
    BY <2>2, <2>3, <2>5 DEF Goes
<1> QED
  BY <1>1, <1>3, <1>4, <1>5 DEF Next

-----------------------------------------------------------------------------
(* The exporter.                                                           *)

\* What is exported stays so while the source goes on.
LEMMA ExportUnder ==
    ASSUME IInv, TellInv, HistoryInv, IInv', Goes, ExportInv, export' = export
    PROVE  ExportInv'
<1> SUFFICES ASSUME export # NotExporting
             PROVE  /\ Shape(export) /\ Spans(export)'
                    /\ export.end.sequence = head'.sequence => Fresh(export)'
  BY DEF ExportInv
<1>1. /\ Shape(export) /\ Spans(export)
      /\ export.end.sequence = head.sequence => Fresh(export)
  BY DEF ExportInv
<1>2. \A n \in DOMAIN was : n \in DOMAIN was' /\ was'[n] = was[n]
  BY DEF Goes
<1>3. Spans(export)'
  BY <1>1, <1>2 DEF Spans
<1>4. ASSUME export.end.sequence = head'.sequence PROVE Fresh(export)'
  <2>1. /\ export.end.sequence \in Nat /\ export.end.sequence <= head.sequence
        /\ head.sequence \in Nat
    BY <1>1, HeadParts DEF Spans, HistoryInv
  <2>2. head'.sequence = head.sequence /\ docs' = docs /\ journal' = journal
    BY <1>4, <2>1 DEF Goes
  <2>3. Fresh(export)
    BY <1>1, <1>4, <2>2
  <2> QED
    BY <2>2, <2>3 DEF Fresh, Live
<1> QED
  BY <1>1, <1>3, <1>4

LEMMA BundlesUnder ==
    ASSUME Goes, BundlesInv, bundles' = bundles
    PROVE  BundlesInv'
<1>1. \A n \in DOMAIN was : n \in DOMAIN was' /\ was'[n] = was[n]
  BY DEF Goes
<1> SUFFICES ASSUME NEW b \in bundles PROVE BundleOK(b)'
  BY DEF BundlesInv
<1>2. BundleOK(b)
  BY DEF BundlesInv
<1> QED
  BY <1>1, <1>2 DEF BundleOK

\* A page that makes no reset, between the cursor and its end.
LEMMA PageOf ==
    ASSUME IInv, TellInv, head # Untracked, NEW a \in Nat, Gap(Cursor(Stream, a)) = "none",
           a <= head.sequence
    PROVE  /\ head.floor <= a
           /\ End(Cursor(Stream, a)) \in Nat /\ a <= End(Cursor(Stream, a))
           /\ End(Cursor(Stream, a)) <= head.sequence
           /\ Page(Cursor(Stream, a)) = Between(a, End(Cursor(Stream, a)))
<1> DEFINE c == Cursor(Stream, a)
<1>1. /\ head.sequence \in Nat /\ head.floor \in Nat /\ head.floor <= head.sequence
      /\ head.stream = Stream
  BY HeadParts
<1>2. c.stream = Stream /\ c.sequence = a /\ c # NoCursor
  BY NamesAssumption DEF Cursor, NoCursor
<1> HIDE DEF c
<1>3. head.floor <= a
  BY <1>1, <1>2 DEF Gap, c
<1>4. Position(c) = a
  BY <1>2 DEF Position, c
<1>5. End(c) = Lesser(head.sequence, a + Limit)
  BY <1>4 DEF End, c
<1>6. End(c) \in Nat /\ a <= End(c) /\ End(c) <= head.sequence
  BY <1>1, <1>5, FeedAssumption DEF Lesser
<1>7. Page(c) = Between(a, End(c))
  BY <1>4 DEF Page, Between
<1> QED
  BY <1>3, <1>6, <1>7 DEF c

\* A page tells an exporter what it has to know of the interval.
LEMMA PageGathers ==
    ASSUME HistoryInv, NEW b \in DOMAIN was, NEW a \in DOMAIN was, NEW n \in DOMAIN was,
           b <= a, a <= n, head.floor <= a,
           NEW done, NEW erased, NEW done2, NEW erased2,
           Gathered(done, erased, was[b], was[a]),
           done2 = done \cup PathsOf(Between(a, n)),
           erased2 = erased \cup {events[k].path : k \in {j \in Between(a, n) : events[j].kind \in Silent}}
    PROVE  Gathered(done2, erased2, was[b], was[n])
<1> SUFFICES ASSUME NEW p \in Path
             PROVE  /\ p \notin done2 => Unmoved(p, was[b], was[n])
                    /\ {p, NoPath} \cap erased2 = {} => Kept(p, was[b], was[n])
                    /\ {p, NoPath} \cap erased2 # {} => Wiped(p, was[b], was[n])
                    /\ p \in erased2 => p \in done2
  BY DEF Gathered
<1>1. /\ p \notin done => Unmoved(p, was[b], was[a])
      /\ {p, NoPath} \cap erased = {} => Kept(p, was[b], was[a])
      /\ {p, NoPath} \cap erased # {} => Wiped(p, was[b], was[a])
      /\ p \in erased => p \in done
  BY DEF Gathered
<1>2. /\ Later(p, was[b], was[a]) /\ Later(p, was[a], was[n])
      /\ EventsTellMoments(p, a, n)
      /\ MomentOK(was[b]) /\ MomentOK(was[a]) /\ MomentOK(was[n])
  BY DEF HistoryInv
<1>3. /\ Unmoved(p, was[b], was[n]) <=> Unmoved(p, was[b], was[a]) /\ Unmoved(p, was[a], was[n])
      /\ Kept(p, was[b], was[a]) /\ Kept(p, was[a], was[n]) => Kept(p, was[b], was[n])
      /\ Wiped(p, was[b], was[a]) \/ Wiped(p, was[a], was[n]) => Wiped(p, was[b], was[n])
  BY <1>2, LaterChain
<1>4. /\ (\A k \in Between(a, n) : ~Names(events[k], p)) => Unmoved(p, was[a], was[n])
      /\ (\A k \in Between(a, n) : ~Erases(events[k], p)) => Kept(p, was[a], was[n])
      /\ (\E k \in Between(a, n) : Erases(events[k], p)) => Wiped(p, was[a], was[n])
  BY <1>2 DEF EventsTellMoments
<1>5. \A k \in Between(a, n) : {events[k].path, events[k].from} \ {NoPath} \subseteq PathsOf(Between(a, n))
  <2> DEFINE named(k) == {events[k].path, events[k].from}
             all == {named(k) : k \in Between(a, n)}
  <2>1. PathsOf(Between(a, n)) = (UNION all) \ {NoPath}
    BY DEF PathsOf
  <2>2. \A k \in Between(a, n) : named(k) \in all
    OBVIOUS
  <2> HIDE DEF all
  <2>3. ASSUME NEW k \in Between(a, n), NEW x \in named(k) \ {NoPath}
        PROVE  x \in PathsOf(Between(a, n))
    <3>1. \E S \in all : x \in S
      BY <2>2
    <3>2. x \in UNION all /\ x # NoPath
      BY <3>1
    <3> QED
      BY <2>1, <3>2
  <2> QED
    BY <2>3
<1>6. p # NoPath
  BY NamesAssumption
<1>7. ASSUME p \notin done2 PROVE Unmoved(p, was[b], was[n])
  <2>1. \A k \in Between(a, n) : ~Names(events[k], p)
    BY <1>5, <1>6, <1>7 DEF Names
  <2> QED
    BY <1>1, <1>3, <1>4, <1>7, <2>1
<1>8. (\E k \in Between(a, n) : Erases(events[k], p))
        <=> {p, NoPath} \cap {events[k].path : k \in {j \in Between(a, n) : events[j].kind \in Silent}} # {}
  <2> DEFINE new == {events[k].path : k \in {j \in Between(a, n) : events[j].kind \in Silent}}
  <2>1. ASSUME NEW k \in Between(a, n), Erases(events[k], p)
        PROVE  {p, NoPath} \cap new # {}
    BY <2>1 DEF Erases
  <2>2. ASSUME NEW x \in {p, NoPath} \cap new
        PROVE  \E k \in Between(a, n) : Erases(events[k], p)
    <3>1. PICK k \in {j \in Between(a, n) : events[j].kind \in Silent} : x = events[k].path
      BY <2>2
    <3> QED
      BY <2>2, <3>1 DEF Erases
  <2> QED
    BY <2>1, <2>2
<1>9. ({p, NoPath} \cap erased2 = {} => Kept(p, was[b], was[n]))
  BY <1>1, <1>3, <1>4, <1>8
<1>10. {p, NoPath} \cap erased2 # {} => Wiped(p, was[b], was[n])
  BY <1>1, <1>3, <1>4, <1>8
<1>11. p \in erased2 => p \in done2
  BY <1>1, <1>5, <1>6
<1> QED
  BY <1>7, <1>9, <1>10, <1>11

\* What a page adds to the erasures of an export.
LEMMA ErasuresAdd ==
    ASSUME NEW old, NEW page, NEW both,
           \A k \in DOMAIN old : k \notin page,
           DOMAIN both = DOMAIN old \cup DOMAIN ErasedBy(page),
           \A n \in DOMAIN ErasedBy(page) : both[n] = ErasedBy(page)[n],
           \A n \in DOMAIN old \ DOMAIN ErasedBy(page) : both[n] = old[n]
    PROVE  /\ Range(both) = Range(old) \cup
                {events[k].path : k \in {j \in page : events[j].kind \in Silent}}
           /\ \A k \in DOMAIN both : k \in DOMAIN old \/ k \in page
<1> DEFINE new == ErasedBy(page)
           quiet == {j \in page : events[j].kind \in Silent}
<1>1. DOMAIN new = quiet /\ \A k \in quiet : new[k] = events[k].path
  BY DEF ErasedBy, Silent
<1> HIDE DEF new
<1>2. /\ DOMAIN both = DOMAIN old \cup quiet
      /\ \A k \in quiet : both[k] = events[k].path
      /\ \A k \in DOMAIN old : both[k] = old[k]
  BY <1>1 DEF new
<1>3. Range(both) = {both[k] : k \in DOMAIN both} /\ Range(old) = {old[k] : k \in DOMAIN old}
  BY DEF Range
<1>4. quiet \subseteq page
  OBVIOUS
<1> HIDE DEF quiet
<1>5. ASSUME NEW x \in Range(both) PROVE x \in Range(old) \cup {events[k].path : k \in quiet}
  BY <1>2, <1>3
<1>6. ASSUME NEW x \in Range(old) PROVE x \in Range(both)
  BY <1>2, <1>3
<1>7. ASSUME NEW x \in {events[k].path : k \in quiet} PROVE x \in Range(both)
  BY <1>2, <1>3
<1>8. Range(both) = Range(old) \cup {events[k].path : k \in quiet}
  BY <1>5, <1>6, <1>7
<1> QED
  BY <1>2, <1>4, <1>8 DEF quiet

\* Turning a page keeps the export sound.
LEMMA TurnedKeeps ==
    ASSUME IInv, TellInv, HistoryInv, head # Untracked,
           NEW e, NEW a, NEW b, NEW stage \in {"page", "list", "read", "row"},
           e = [stage |-> stage, base |-> Cursor(Stream, b), end |-> HeadCursor,
                at |-> Cursor(Stream, a), paths |-> e.paths, erasures |-> e.erasures,
                updates |-> e.updates],
           a \in DOMAIN was, b \in DOMAIN was, b <= a, Gap(Cursor(Stream, a)) = "none",
           e.paths \subseteq Path, DOMAIN e.updates \subseteq Path,
           \A p \in DOMAIN e.updates : Carries(e.updates[p], docs[p], journal[p]),
           \A k \in DOMAIN e.erasures : k \in Nat /\ k <= a,
           Gathered(Done(e), Range(e.erasures), was[b], was[a]),
           NEW f, f = Turned(e, Cursor(Stream, a)), f # NotExporting
    PROVE  Shape(f) /\ Spans(f) /\ Fresh(f)
<1> DEFINE c == Cursor(Stream, a)
           n == End(c)
           page == Page(c)
           new == ErasedBy(page)
           erased == [k \in DOMAIN e.erasures \cup DOMAIN new |->
                        IF k \in DOMAIN new THEN new[k] ELSE e.erasures[k]]
           then == IF n < head.sequence THEN "page"
                   ELSE IF NoPath \in Range(erased) THEN "list" ELSE "read"
<1>1. /\ head.sequence \in Nat /\ head.floor \in Nat /\ head.stream = Stream
      /\ head.sequence > 0 /\ DOMAIN was = 1..head.sequence
      /\ DOMAIN events = head.floor + 1 .. head.sequence
  BY HeadParts DEF HistoryInv
<1>2. a \in Nat /\ a <= head.sequence /\ b \in Nat /\ a >= 1
  BY <1>1
<1>3. /\ head.floor <= a /\ n \in Nat /\ a <= n /\ n <= head.sequence
      /\ page = Between(a, n)
  BY <1>2, PageOf
<1>4. n \in DOMAIN was
  BY <1>1, <1>2, <1>3
<1>5. f = [e EXCEPT !.paths = @ \cup PathsOf(page), !.erasures = erased,
                    !.at = Cursor(head.stream, n), !.stage = then]
  BY DEF Turned
<1> HIDE DEF n, page, then, erased
<1>6. /\ f = [stage |-> then, base |-> Cursor(Stream, b), end |-> HeadCursor,
              at |-> Cursor(Stream, n), paths |-> e.paths \cup PathsOf(page),
              erasures |-> erased, updates |-> e.updates]
  <2> DEFINE ps == e.paths
             us == e.updates
             er == e.erasures
  <2>1. e = [stage |-> stage, base |-> Cursor(Stream, b), end |-> HeadCursor,
             at |-> Cursor(Stream, a), paths |-> ps, erasures |-> er, updates |-> us]
    OBVIOUS
  <2> HIDE DEF ps, us, er
  <2>2. f = [stage |-> then, base |-> Cursor(Stream, b), end |-> HeadCursor,
             at |-> Cursor(Stream, n), paths |-> ps \cup PathsOf(page),
             erasures |-> erased, updates |-> us]
    BY <1>1, <1>5, <2>1
  <2> QED
    BY <2>2 DEF ps, us
<1>7. /\ f.stage = then /\ f.base = Cursor(Stream, b) /\ f.end = HeadCursor
      /\ f.at = Cursor(Stream, n) /\ f.paths = e.paths \cup PathsOf(page)
      /\ f.erasures = erased /\ f.updates = e.updates
      /\ f = [stage |-> f.stage, base |-> f.base, end |-> f.end, at |-> f.at,
              paths |-> f.paths, erasures |-> f.erasures, updates |-> f.updates]
  BY <1>6
<1>8. /\ f.base.sequence = b /\ f.at.sequence = n /\ f.end.sequence = head.sequence
      /\ f.end = Cursor(Stream, head.sequence)
      /\ f.base # NoCursor
  BY <1>1, <1>7, NamesAssumption DEF Cursor, HeadCursor, NoCursor
<1>9. \A k \in page : k \in Nat /\ k > a /\ k <= n
  BY <1>1, <1>3 DEF Between
<1>10. \A k \in DOMAIN e.erasures : k \notin page
  BY <1>2, <1>9
<1>11. /\ Range(erased) = Range(e.erasures) \cup
                {events[k].path : k \in {j \in page : events[j].kind \in Silent}}
       /\ \A k \in DOMAIN erased : k \in DOMAIN e.erasures \/ k \in page
  <2> DEFINE old == e.erasures
  <2>1. /\ DOMAIN erased = DOMAIN old \cup DOMAIN ErasedBy(page)
        /\ \A k \in DOMAIN ErasedBy(page) : erased[k] = ErasedBy(page)[k]
        /\ \A k \in DOMAIN old \ DOMAIN ErasedBy(page) : erased[k] = old[k]
    BY DEF erased
  <2>2. \A k \in DOMAIN old : k \notin page
    BY <1>10
  <2> HIDE DEF old
  <2>3. /\ Range(erased) = Range(old) \cup
                {events[k].path : k \in {j \in page : events[j].kind \in Silent}}
        /\ \A k \in DOMAIN erased : k \in DOMAIN old \/ k \in page
    BY <2>1, <2>2, ErasuresAdd
  <2> QED
    BY <2>3 DEF old
<1>12. \A k \in DOMAIN erased : k \in Nat /\ k <= n
  <2> SUFFICES ASSUME NEW k \in DOMAIN erased PROVE k \in Nat /\ k <= n
    OBVIOUS
  <2>1. CASE k \in page
    BY <1>9, <2>1
  <2>2. CASE k \in DOMAIN e.erasures
    BY <1>2, <1>3, <2>2
  <2> QED
    BY <1>11, <2>1, <2>2
<1>13. PathsOf(page) \subseteq Path
  <2>1. \A k \in page : events[k] \in Events
    BY <1>3 DEF Between, IInv, FeedTypes
  <2>2. \A k \in page : {events[k].path, events[k].from} \subseteq Path \cup {NoPath}
    BY <2>1 DEF Events
  <2> QED
    BY <2>2 DEF PathsOf
<1>14. Done(f) = Done(e) \cup PathsOf(page)
  BY <1>7 DEF Done
<1>15. Gathered(Done(f), Range(erased), was[b], was[n])
  <2> DEFINE done == Done(e)
             gone == Range(e.erasures)
  <2>1. Gathered(done, gone, was[b], was[a])
    OBVIOUS
  <2>2. /\ Done(f) = done \cup PathsOf(Between(a, n))
        /\ Range(erased) = gone \cup
              {events[k].path : k \in {j \in Between(a, n) : events[j].kind \in Silent}}
    BY <1>3, <1>11, <1>14
  <2> HIDE DEF done, gone
  <2> QED
    BY <1>3, <1>4, <2>1, <2>2, PageGathers
<1>16. then \in {"page", "list", "read"} /\ (then # "page" => n = head.sequence)
       /\ (then = "read" => NoPath \notin Range(erased))
  BY <1>1, <1>3 DEF then
<1>17. Shape(f)
  BY <1>7, <1>8, <1>12, <1>13, <1>16 DEF Shape
<1>18. Spans(f)
  <2>1. b <= n /\ head.sequence \in DOMAIN was
    BY <1>1, <1>2, <1>3
  <2> QED
    BY <1>1, <1>3, <1>4, <1>7, <1>8, <1>15, <1>16, <2>1 DEF Spans
<1>19. Fresh(f)
  BY <1>7, <1>8, <1>16 DEF Fresh
<1> QED
  BY <1>17, <1>18, <1>19

-----------------------------------------------------------------------------
(* The steps of an export.                                                 *)

Sound(e) ==
    e # NotExporting =>
        /\ Shape(e) /\ Spans(e)
        /\ e.end.sequence = head.sequence => Fresh(e)

LEMMA ExportSet ==
    ASSUME UNCHANGED <<feedVars, was>>, NEW e, export' = e, Sound(e)
    PROVE  ExportInv'
<1>1. docs' = docs /\ journal' = journal /\ head' = head /\ was' = was
  BY DEF feedVars, vars, store
<1>2. e # NotExporting =>
        /\ Shape(e) /\ Spans(e)'
        /\ e.end.sequence = head'.sequence => Fresh(e)'
  BY <1>1 DEF Sound, Spans, Fresh, Live
<1> QED
  BY <1>2 DEF ExportInv

LEMMA BundlesStay ==
    ASSUME UNCHANGED <<feedVars, was>>, BundlesInv,
           \A b \in bundles' : b \in bundles \/ BundleOK(b)
    PROVE  BundlesInv'
<1> SUFFICES ASSUME NEW b \in bundles' PROVE BundleOK(b)'
  BY DEF BundlesInv
<1>1. BundleOK(b)
  BY DEF BundlesInv
<1> QED
  BY <1>1 DEF BundleOK

\* The checkpoints there are.
LEMMA CheckpointParts ==
    ASSUME BundlesInv, NEW from \in Checkpoints, from # NoCursor
    PROVE  from = Cursor(Stream, from.sequence) /\ from.sequence \in DOMAIN was
<1>1. PICK b \in bundles : from = b.checkpoint
  BY DEF Checkpoints
<1> QED
  BY <1>1 DEF BundlesInv, BundleOK

LEMMA BeginSound ==
    ASSUME IInv, TellInv, HistoryInv, BundlesInv, NEW from \in Checkpoints, Begin(from),
           NEW f, export' = f
    PROVE  Sound(f)
<1>1. /\ head # Untracked
      /\ from # NoCursor => Gap(from) = "none" /\ ~Ahead(from)
      /\ f = IF from = NoCursor THEN Starting(from) ELSE Turned(Starting(from), from)
  BY DEF Begin
<1>2. /\ head.sequence \in Nat /\ head.sequence > 0 /\ head.stream = Stream
      /\ head.sequence \in DOMAIN was /\ DOMAIN was = 1..head.sequence
  BY <1>1, HeadParts DEF HistoryInv
<1> SUFFICES ASSUME f # NotExporting PROVE Shape(f) /\ Spans(f) /\ Fresh(f)
  BY DEF Sound
<1>3. HeadCursor = Cursor(Stream, head.sequence) /\ HeadCursor.sequence = head.sequence
  BY <1>2 DEF HeadCursor, Cursor
<1> DEFINE e == Starting(from)
<1>4. /\ e = [stage |-> "list", base |-> from, end |-> HeadCursor, at |-> from,
              paths |-> {}, erasures |-> <<>>, updates |-> <<>>]
      /\ e.stage = "list" /\ e.base = from /\ e.end = HeadCursor /\ e.at = from
      /\ e.paths = {} /\ e.erasures = <<>> /\ e.updates = <<>>
      /\ DOMAIN e.updates = {} /\ DOMAIN e.erasures = {} /\ Range(e.erasures) = {}
  BY DEF Starting, Range
<1> HIDE DEF e
<1>5. Done(e) = {}
  BY <1>4 DEF Done
<1>6. CASE from = NoCursor
  <2>1. f = e
    BY <1>1, <1>6 DEF e
  <2>2. Shape(e)
    BY <1>3, <1>4, <1>5, <1>6 DEF Shape
  <2>3. Spans(e)
    BY <1>2, <1>3, <1>4, <1>6 DEF Spans
  <2>4. Fresh(e)
    BY <1>4, <1>5 DEF Fresh
  <2> QED
    BY <2>1, <2>2, <2>3, <2>4
<1>7. CASE from # NoCursor
  <2>1. PICK a \in DOMAIN was : from = Cursor(Stream, a)
    BY <1>7, CheckpointParts
  <2>2. f = Turned(e, Cursor(Stream, a)) /\ Gap(Cursor(Stream, a)) = "none"
    BY <1>1, <1>7, <2>1 DEF e
  <2>3. a \in Nat /\ a <= a
    BY <1>2, <2>1
  <2>4. Gathered(Done(e), Range(e.erasures), was[a], was[a])
    <3>1. \A p \in Path : Unmoved(p, was[a], was[a]) /\ Kept(p, was[a], was[a])
      BY Unchanged DEF HistoryInv
    <3> QED
      BY <1>4, <1>5, <3>1 DEF Gathered
  <2>5. /\ e = [stage |-> "list", base |-> Cursor(Stream, a), end |-> HeadCursor,
                at |-> Cursor(Stream, a), paths |-> e.paths, erasures |-> e.erasures,
                updates |-> e.updates]
        /\ e.paths \subseteq Path /\ DOMAIN e.updates \subseteq Path
        /\ \A p \in DOMAIN e.updates : Carries(e.updates[p], docs[p], journal[p])
        /\ \A k \in DOMAIN e.erasures : k \in Nat /\ k <= a
    BY <1>4, <2>1
  <2> QED
    BY <1>1, <2>2, <2>3, <2>4, <2>5, TurnedKeeps
<1> QED
  BY <1>6, <1>7

LEMMA NextPageSound ==
    ASSUME IInv, TellInv, HistoryInv, ExportInv, NextPage, NEW f, export' = f
    PROVE  Sound(f)
<1>1. /\ export.stage = "page"
      /\ f = IF HeadCursor = export.end /\ Gap(export.at) = "none"
             THEN Turned(export, export.at) ELSE NotExporting
  BY DEF NextPage
<1> SUFFICES ASSUME f # NotExporting PROVE Shape(f) /\ Spans(f) /\ Fresh(f)
  BY DEF Sound
<1>2. HeadCursor = export.end /\ Gap(export.at) = "none" /\ f = Turned(export, export.at)
  BY <1>1
<1>3. export # NotExporting
  BY <1>1 DEF NotExporting
<1>4. /\ Shape(export) /\ Spans(export)
      /\ export.end.sequence = head.sequence => Fresh(export)
  BY <1>3 DEF ExportInv
<1> DEFINE e == export
           b == export.base.sequence
           a == export.at.sequence
<1>5. export.base # NoCursor
  BY <1>1, <1>4 DEF Shape
<1>6. /\ e = [stage |-> e.stage, base |-> e.base, end |-> e.end, at |-> e.at,
            paths |-> e.paths, erasures |-> e.erasures, updates |-> e.updates]
      /\ e.base = Cursor(Stream, b) /\ e.at = Cursor(Stream, a)
      /\ e.end = Cursor(Stream, e.end.sequence)
      /\ e.paths \subseteq Path /\ DOMAIN e.updates \subseteq Path
      /\ \A k \in DOMAIN e.erasures : k \in Nat /\ k <= a
  BY <1>4, <1>5 DEF Shape
<1>7. /\ a \in DOMAIN was /\ b \in DOMAIN was /\ b <= a
      /\ Gathered(Done(e), Range(e.erasures), was[b], was[a])
  BY <1>4, <1>5 DEF Spans
<1>8. head.sequence = e.end.sequence /\ head.stream = Stream
  BY <1>2, <1>6 DEF HeadCursor, Cursor
<1>9. \A p \in DOMAIN e.updates : Carries(e.updates[p], docs[p], journal[p])
  BY <1>4, <1>8 DEF Fresh
<1>10. head # Untracked
  BY <1>8, NamesAssumption DEF Untracked
<1>11. f = Turned(e, Cursor(Stream, a)) /\ Gap(Cursor(Stream, a)) = "none"
  BY <1>2, <1>6
<1>12. e = [stage |-> "page", base |-> Cursor(Stream, b), end |-> HeadCursor,
            at |-> Cursor(Stream, a), paths |-> e.paths, erasures |-> e.erasures,
            updates |-> e.updates]
  BY <1>1, <1>2, <1>6
<1> HIDE DEF e, a, b
<1> QED
  BY <1>6, <1>7, <1>9, <1>10, <1>11, <1>12, TurnedKeeps

\* The parts of an export of which only some change.
LEMMA ListSound ==
    ASSUME ExportInv, ListPaths, NEW f, export' = f
    PROVE  Sound(f)
<1>1. /\ export.stage = "list"
      /\ f = [export EXCEPT !.stage = "read", !.paths = @ \cup {p \in Path : Live(p)}]
  BY DEF ListPaths
<1>2. export # NotExporting
  BY <1>1 DEF NotExporting
<1>3. /\ Shape(export) /\ Spans(export)
      /\ export.end.sequence = head.sequence => Fresh(export)
  BY <1>2 DEF ExportInv
<1>4. PICK start, end, at, paths, erasures, updates :
        export = [stage |-> "list", base |-> start, end |-> end, at |-> at,
                  paths |-> paths, erasures |-> erasures, updates |-> updates]
  BY <1>1, <1>3 DEF Shape
<1> DEFINE more == paths \cup {p \in Path : Live(p)}
<1>5. f = [stage |-> "read", base |-> start, end |-> end, at |-> at,
           paths |-> more, erasures |-> erasures, updates |-> updates]
  BY <1>1, <1>4
<1>6. Done(export) = paths \cup DOMAIN updates /\ Done(f) = more \cup DOMAIN updates
  BY <1>4, <1>5 DEF Done
<1>7. Shape(f)
  BY <1>3, <1>4, <1>5 DEF Shape
<1>8. Spans(f)
  <2>1. start # NoCursor =>
          Gathered(Done(f), Range(erasures), was[start.sequence], was[at.sequence])
    <3> SUFFICES ASSUME start # NoCursor,
                        Gathered(Done(export), Range(erasures), was[start.sequence], was[at.sequence])
                 PROVE  Gathered(Done(f), Range(erasures), was[start.sequence], was[at.sequence])
      BY <1>3, <1>4 DEF Spans
    <3> QED
      BY <1>6 DEF Gathered
  <2> QED
    BY <1>3, <1>4, <1>5, <2>1 DEF Spans
<1>9. ASSUME end.sequence = head.sequence PROVE Fresh(f)
  <2>1. Fresh(export)
    BY <1>3, <1>4, <1>9
  <2>2. start = NoCursor => paths = {} /\ DOMAIN updates = {}
    BY <1>3, <1>4, <1>6 DEF Shape
  <2>3. \A p \in Path : Live(p) => p \in Done(f)
    BY <1>6
  <2>4. start = NoCursor => \A p \in Done(f) : Live(p)
    BY <1>6, <2>2
  <2>5. \A p \in DOMAIN updates : Carries(updates[p], docs[p], journal[p])
    BY <1>4, <2>1 DEF Fresh
  <2> QED
    BY <1>5, <2>3, <2>4, <2>5 DEF Fresh
<1> QED
  BY <1>5, <1>7, <1>8, <1>9 DEF Sound

\* A path is taken off the list and its update into the bundle.
LEMMA TakeSound ==
    ASSUME Shape(export), Spans(export),
           export.end.sequence = head.sequence => Fresh(export),
           export.stage \in {"read", "row"}, NEW p \in export.paths, NEW u,
           export.end.sequence = head.sequence => Carries(u, docs[p], journal[p]),
           NEW f, f = Taken(export, p, u)
    PROVE  Sound(f)
<1>1. PICK stage, start, end, at, paths, erasures, updates :
        export = [stage |-> stage, base |-> start, end |-> end, at |-> at,
                  paths |-> paths, erasures |-> erasures, updates |-> updates]
  BY DEF Shape
<1> DEFINE more == [q \in DOMAIN updates \cup {p} |-> IF q = p THEN u ELSE updates[q]]
           less == paths \ {p}
<1>2. f = [stage |-> "read", base |-> start, end |-> end, at |-> at,
           paths |-> less, erasures |-> erasures, updates |-> more]
  BY <1>1 DEF Taken
<1>3. /\ DOMAIN more = DOMAIN updates \cup {p} /\ more[p] = u
      /\ \A q \in DOMAIN updates : q # p => more[q] = updates[q]
  OBVIOUS
<1> HIDE DEF more
<1>4. Done(f) = Done(export)
  BY <1>1, <1>2, <1>3 DEF Done
<1>5. stage \in {"read", "row"} /\ p \in paths /\ paths \subseteq Path
  BY <1>1 DEF Shape
<1>6. Shape(f)
  BY <1>1, <1>2, <1>3, <1>5 DEF Shape
<1>7. Spans(f)
  BY <1>1, <1>2, <1>4, <1>5 DEF Spans
<1>8. ASSUME end.sequence = head.sequence PROVE Fresh(f)
  <2>1. Fresh(export) /\ Carries(u, docs[p], journal[p])
    BY <1>1, <1>8
  <2>2. \A q \in DOMAIN more : Carries(more[q], docs[q], journal[q])
    BY <1>1, <1>3, <2>1 DEF Fresh
  <2>3. /\ start = NoCursor => \A q \in Done(f) : Live(q)
        /\ start = NoCursor \/ NoPath \in Range(erasures) =>
              \A q \in Path : Live(q) => q \in Done(f)
    BY <1>1, <1>4, <1>5, <2>1 DEF Fresh
  <2>4. /\ f.stage = "read" /\ f.base = start
        /\ f.erasures = erasures /\ f.updates = more
    BY <1>2
  <2> QED
    BY <2>2, <2>3, <2>4 DEF Fresh
<1> QED
  BY <1>2, <1>6, <1>7, <1>8 DEF Sound

LEMMA NextPathOf ==
    ASSUME NEW e, e.paths # {}
    PROVE  NextPath(e) \in e.paths
BY DEF NextPath

LEMMA ReadSound ==
    ASSUME ExportInv, ReadPath, NEW f, export' = f
    PROVE  Sound(f)
<1> DEFINE p == NextPath(export)
<1>1. /\ export.stage = "read" /\ export.paths # {}
      /\ f = IF Live(p) THEN Taken(export, p, Present(docs[p]))
             ELSE IF export.base = NoCursor THEN NotExporting
             ELSE [export EXCEPT !.stage = "row"]
  BY DEF ReadPath
<1>2. export # NotExporting
  BY <1>1 DEF NotExporting
<1>3. /\ Shape(export) /\ Spans(export)
      /\ export.end.sequence = head.sequence => Fresh(export)
  BY <1>2 DEF ExportInv
<1>4. p \in export.paths
  BY <1>1, NextPathOf
<1>5. CASE Live(p)
  <2>1. Carries(Present(docs[p]), docs[p], journal[p])
    BY <1>5 DEF Carries, Live
  <2>2. f = Taken(export, p, Present(docs[p]))
    BY <1>1, <1>5
  <2> HIDE DEF p
  <2> QED
    BY <1>1, <1>3, <1>4, <2>1, <2>2, TakeSound
<1>6. CASE ~Live(p) /\ export.base = NoCursor
  BY <1>1, <1>6 DEF Sound
<1>7. CASE ~Live(p) /\ export.base # NoCursor
  <2>1. PICK start, end, at, paths, erasures, updates :
          export = [stage |-> "read", base |-> start, end |-> end, at |-> at,
                    paths |-> paths, erasures |-> erasures, updates |-> updates]
    BY <1>1, <1>3 DEF Shape
  <2>2. f = [stage |-> "row", base |-> start, end |-> end, at |-> at,
             paths |-> paths, erasures |-> erasures, updates |-> updates]
    BY <1>1, <1>7, <2>1
  <2>3. start # NoCursor /\ paths # {} /\ f.paths = export.paths
    BY <1>1, <1>7, <2>1, <2>2
  <2>4. NextPath(f) = p
    <3>1. \A x, y : x.paths = y.paths => NextPath(x) = NextPath(y)
      BY Zenon DEF NextPath
    <3> QED
      BY <2>3, <3>1
  <2>5. Done(f) = Done(export)
    BY <2>1, <2>2 DEF Done
  <2>6. Shape(f)
    BY <1>3, <2>1, <2>2, <2>3 DEF Shape
  <2>7. Spans(f)
    BY <1>3, <2>1, <2>2, <2>5 DEF Spans
  <2>8. ASSUME end.sequence = head.sequence PROVE Fresh(f)
    <3>1. Fresh(export)
      BY <1>3, <2>1, <2>8
    <3>2. /\ NoPath \in Range(erasures) => \A q \in Path : Live(q) => q \in Done(f)
          /\ \A q \in DOMAIN updates : Carries(updates[q], docs[q], journal[q])
      BY <2>1, <2>5, <3>1 DEF Fresh
    <3> HIDE DEF p
    <3> QED
      BY <1>7, <2>2, <2>3, <2>4, <3>2 DEF Fresh
  <2> QED
    BY <2>2, <2>6, <2>7, <2>8 DEF Sound
<1> QED
  BY <1>5, <1>6, <1>7

LEMMA RowSound ==
    ASSUME ExportInv, ReadRow, NEW f, export' = f
    PROVE  Sound(f)
<1> DEFINE p == NextPath(export)
<1>1. /\ export.stage = "row"
      /\ f = IF journal[p] # <<>> /\ Last(journal[p]).action = "deleted"
             THEN Taken(export, p, Deletion(Last(journal[p])))
             ELSE NotExporting
  BY DEF ReadRow
<1>2. export # NotExporting
  BY <1>1 DEF NotExporting
<1>3. /\ Shape(export) /\ Spans(export)
      /\ export.end.sequence = head.sequence => Fresh(export)
  BY <1>2 DEF ExportInv
<1>4. p \in export.paths
  BY <1>1, <1>3, NextPathOf DEF Shape
<1>5. export.end.sequence = head.sequence => ~Live(p)
  BY <1>1, <1>3 DEF Fresh
<1> HIDE DEF p
<1>6. CASE journal[p] # <<>> /\ Last(journal[p]).action = "deleted"
  <2>1. export.end.sequence = head.sequence =>
          Carries(Deletion(Last(journal[p])), docs[p], journal[p])
    BY <1>5, <1>6 DEF Carries, Live
  <2> QED
    BY <1>1, <1>3, <1>4, <1>6, <2>1, TakeSound
<1>7. CASE ~(journal[p] # <<>> /\ Last(journal[p]).action = "deleted")
  BY <1>1, <1>7 DEF Sound
<1> QED
  BY <1>6, <1>7

\* What Finish writes is a bundle of one moment.
LEMMA FinishBundles ==
    ASSUME IInv, TellInv, HistoryInv, ExportInv, Finish, NEW b, b \in bundles', b \notin bundles
    PROVE  BundleOK(b)
<1>1. /\ export.stage = "read" /\ export.paths = {} /\ HeadCursor = export.end
      /\ b = BundleOf(export)
  BY DEF Finish
<1>2. export # NotExporting
  BY <1>1 DEF NotExporting
<1>3. /\ Shape(export) /\ Spans(export)
      /\ export.end.sequence = head.sequence => Fresh(export)
  BY <1>2 DEF ExportInv
<1>4. PICK start, end, at, paths, erasures, updates :
          export = [stage |-> "read", base |-> start, end |-> end, at |-> at,
                    paths |-> paths, erasures |-> erasures, updates |-> updates]
  BY <1>1, <1>3 DEF Shape
<1> DEFINE s == head.sequence
           f == start.sequence
<1>5. b = [base |-> start, checkpoint |-> end, updates |-> updates, erasures |-> erasures]
  BY <1>1, <1>4 DEF BundleOf
<1>6. end = Cursor(Stream, s) /\ end.sequence = s /\ head.stream = Stream
  BY <1>1, <1>3, <1>4 DEF Shape, HeadCursor, Cursor
<1>7. head # Untracked
  BY <1>6, NamesAssumption DEF Untracked
<1>8. s \in DOMAIN was /\ was[s].docs = docs /\ was[s].journal = journal
  BY <1>3, <1>4, <1>6, <1>7 DEF Spans, HistoryInv, Now
<1>9. Fresh(export) /\ Done(export) = DOMAIN updates
  BY <1>1, <1>3, <1>4, <1>6 DEF Done
<1>10. \A p \in DOMAIN updates : Carries(updates[p], docs[p], journal[p])
  BY <1>4, <1>9 DEF Fresh
<1>11. /\ start = NoCursor => \A p \in DOMAIN updates : Live(p)
       /\ start = NoCursor \/ NoPath \in Range(erasures) =>
              \A p \in Path : Live(p) => p \in DOMAIN updates
  BY <1>4, <1>9 DEF Fresh
<1>12. /\ DOMAIN updates \subseteq Path
       /\ start = NoCursor => erasures = <<>>
       /\ start # NoCursor => start = Cursor(Stream, f)
  BY <1>3, <1>4 DEF Shape
<1>13. ASSUME start # NoCursor
       PROVE  /\ f \in DOMAIN was /\ f <= s
              /\ Gathered(DOMAIN updates, Range(erasures), was[f], was[s])
              /\ \A p \in Path : Later(p, was[f], was[s])
  <2>1. /\ f \in DOMAIN was /\ f <= s
        /\ Gathered(DOMAIN updates, Range(erasures), was[f], was[s])
    BY <1>3, <1>4, <1>6, <1>9, <1>13 DEF Spans
  <2> QED
    BY <1>8, <2>1 DEF HistoryInv
<1>14. ASSUME start # NoCursor, NEW p \in Path, Erased(b, p), p \notin DOMAIN updates
       PROVE  docs[p] = NoDoc
  <2>1. {p, NoPath} \cap Range(erasures) # {}
    BY <1>5, <1>14 DEF Erased
  <2>2. p \notin Range(erasures)
    BY <1>13, <1>14 DEF Gathered
  <2> QED
    BY <1>11, <1>14, <2>1, <2>2 DEF Live
<1>15. b.base = start /\ b.checkpoint = end /\ b.updates = updates /\ b.erasures = erasures
  BY <1>5
<1> HIDE DEF s, f
<1>16. start = NoCursor => \A p \in Path : p \in DOMAIN updates <=> docs[p] # NoDoc
  BY <1>11, <1>12 DEF Live
<1> QED
  BY <1>5, <1>6, <1>8, <1>10, <1>12, <1>13, <1>14, <1>15, <1>16 DEF BundleOK, f

\* Every step of an export keeps it sound, and its bundles.
LEMMA ExportKeeps ==
    ASSUME IInv, TellInv, HistoryInv, ExportInv, BundlesInv,
           Export, UNCHANGED <<feedVars, was>>
    PROVE  ExportInv' /\ BundlesInv' /\ UNCHANGED <<replica, receipt, edits>>
<1>1. PICK f : export' = f
  OBVIOUS
<1>2. ASSUME NEW from \in Checkpoints, Begin(from)
      PROVE  ExportInv' /\ BundlesInv' /\ UNCHANGED <<replica, receipt, edits>>
  <2>1. Sound(f)
    BY <1>1, <1>2, BeginSound
  <2>2. bundles' = bundles /\ UNCHANGED <<replica, receipt, edits>>
    BY <1>2 DEF Begin
  <2> QED
    BY <1>1, <2>1, <2>2, ExportSet, BundlesStay
<1>3. ASSUME NextPage \/ ListPaths \/ ReadPath \/ ReadRow
      PROVE  ExportInv' /\ BundlesInv' /\ UNCHANGED <<replica, receipt, edits>>
  <2>1. Sound(f)
    BY <1>1, <1>3, NextPageSound, ListSound, ReadSound, RowSound
  <2>2. bundles' = bundles /\ UNCHANGED <<replica, receipt, edits>>
    BY <1>3 DEF NextPage, ListPaths, ReadPath, ReadRow
  <2> QED
    BY <1>1, <2>1, <2>2, ExportSet, BundlesStay
<1>4. ASSUME Finish
      PROVE  ExportInv' /\ BundlesInv' /\ UNCHANGED <<replica, receipt, edits>>
  <2>1. f = NotExporting /\ UNCHANGED <<replica, receipt, edits>>
    BY <1>1, <1>4 DEF Finish
  <2>2. Sound(f)
    BY <2>1 DEF Sound
  <2>3. \A b \in bundles' : b \in bundles \/ BundleOK(b)
    BY <1>4, FinishBundles
  <2> QED
    BY <1>1, <2>1, <2>2, <2>3, ExportSet, BundlesStay
<1> QED
  BY <1>2, <1>3, <1>4 DEF Export

-----------------------------------------------------------------------------
(* What a bundle brings to a path.                                         *)

LEMMA LastRow ==
    ASSUME NEW rows \in Seq(Rows), rows # <<>>
    PROVE  /\ Len(rows) \in DOMAIN rows /\ Len(rows) \in Nat /\ Len(rows) >= 1
           /\ DOMAIN rows = 1..Len(rows)
           /\ Last(rows) = rows[Len(rows)] /\ Last(rows) \in Rows
           /\ Last(rows).version \in Nat
<1>1. Len(rows) \in Nat /\ DOMAIN rows = 1..Len(rows)
  OBVIOUS
<1>2. Len(rows) >= 1 /\ Len(rows) \in DOMAIN rows
  BY <1>1
<1>3. Last(rows) = rows[Len(rows)] /\ Last(rows) \in Rows
  BY <1>2 DEF Last
<1>4. Last(rows).version \in Nat
  BY <1>3, RowParts
<1> QED
  BY <1>1, <1>2, <1>3, <1>4

LEMMA ClearedRows ==
    ASSUME NEW rows \in Seq(Rows), NEW new, new = [i \in DOMAIN rows |-> Clear(rows[i])]
    PROVE  /\ new \in Seq(Rows) /\ Len(new) = Len(rows) /\ DOMAIN new = DOMAIN rows
           /\ \A i \in DOMAIN rows : new[i] = Clear(rows[i])
           /\ new # <<>> <=> rows # <<>>
           /\ rows # <<>> => Last(new) = Clear(Last(rows))
<1>1. \A i \in DOMAIN rows : Clear(rows[i]) \in Rows
  BY ClearTwice
<1>2. Len(rows) \in Nat /\ DOMAIN rows = 1..Len(rows)
  OBVIOUS
<1>3. new \in Seq(Rows) /\ Len(new) = Len(rows) /\ DOMAIN new = DOMAIN rows
  BY <1>1, <1>2
<1>4. new # <<>> <=> rows # <<>>
  BY <1>2, <1>3
<1>5. rows # <<>> => Last(new) = Clear(Last(rows))
  BY <1>2, <1>3 DEF Last
<1> QED
  BY <1>3, <1>4, <1>5

\* The newest row of a path from one moment to a later one.
LEMMA LastLater ==
    ASSUME NEW v, NEW w, MomentOK(v), MomentOK(w), NEW p \in Path, Later(p, v, w),
           v.journal[p] # <<>>
    PROVE  /\ w.journal[p] # <<>>
           /\ Last(v.journal[p]).version <= Last(w.journal[p]).version
           /\ Last(v.journal[p]).version = Last(w.journal[p]).version => Unmoved(p, v, w)
           /\ Unmoved(p, v, w) /\ Kept(p, v, w) => Last(w.journal[p]) = Last(v.journal[p])
           /\ Unmoved(p, v, w) /\ Wiped(p, v, w) =>
                  Last(w.journal[p]) = Clear(Last(v.journal[p]))
<1> DEFINE a == v.journal[p]
           b == w.journal[p]
<1>1. /\ a \in Seq(Rows) /\ b \in Seq(Rows) /\ Increasing(b)
      /\ a # <<>> /\ Len(a) <= Len(b)
      /\ \A i \in DOMAIN a : i \in DOMAIN b /\ b[i] \in {a[i], Clear(a[i])}
  BY MomentParts DEF Later, RowsStay, PathInv
<1>2. /\ Unmoved(p, v, w) <=> Len(a) = Len(b)
      /\ Kept(p, v, w) => \A i \in DOMAIN a : b[i] = a[i]
      /\ Wiped(p, v, w) => \A i \in DOMAIN a : b[i] = Clear(a[i])
  BY DEF Unmoved, Kept, Wiped
<1> HIDE DEF a, b
<1>3. /\ Len(a) \in DOMAIN a /\ Len(a) \in Nat /\ Len(a) >= 1
      /\ Last(a) = a[Len(a)] /\ Last(a) \in Rows /\ Last(a).version \in Nat
  BY <1>1, LastRow
<1>4. b # <<>>
  BY <1>1, <1>3
<1>5. /\ Len(b) \in DOMAIN b /\ Len(b) \in Nat /\ Last(b) = b[Len(b)] /\ Last(b).version \in Nat
  BY <1>1, <1>4, LastRow
<1>6. /\ Len(a) \in DOMAIN b /\ b[Len(a)].version = Last(a).version
  BY <1>1, <1>3, ClearTwice
<1>7. Len(a) < Len(b) => Last(a).version < Last(b).version
  BY <1>1, <1>3, <1>5, <1>6 DEF Increasing
<1>8. Len(a) = Len(b) => Last(a).version = Last(b).version
  BY <1>3, <1>5, <1>6
<1>9. Last(a).version <= Last(b).version
  BY <1>1, <1>3, <1>5, <1>7, <1>8
<1>10. Last(a).version = Last(b).version => Len(a) = Len(b)
  BY <1>1, <1>3, <1>5, <1>7
<1>11. /\ Len(a) = Len(b) /\ Kept(p, v, w) => Last(b) = Last(a)
       /\ Len(a) = Len(b) /\ Wiped(p, v, w) => Last(b) = Clear(Last(a))
  BY <1>2, <1>3, <1>5
<1> QED
  BY <1>2, <1>4, <1>9, <1>10, <1>11 DEF a, b

\* A row that stood for the newest of a path stands for it at a later moment
\* at which the path has no newer one, cleared when the path was erased.
LEMMA TopLater ==
    ASSUME NEW v, NEW w, MomentOK(v), MomentOK(w), NEW p \in Path, Later(p, v, w),
           Unmoved(p, v, w), NEW row \in Rows, Top(row, v.docs[p], v.journal[p])
    PROVE  /\ Kept(p, v, w) => Top(row, w.docs[p], w.journal[p])
           /\ Wiped(p, v, w) => Top(Clear(row), w.docs[p], w.journal[p])
<1> DEFINE a == v.journal[p]
           b == w.journal[p]
           d == v.docs[p]
           e == w.docs[p]
<1>1. /\ a # <<>> /\ row.version = Last(a).version /\ row.mark = Last(a).mark
      /\ row.content = IF d # NoDoc THEN Last(a).content ELSE Cleared
      /\ row.action = "deleted" <=> d = NoDoc
  BY DEF Top
<1>2. /\ b # <<>>
      /\ Kept(p, v, w) => Last(b) = Last(a)
      /\ Wiped(p, v, w) => Last(b) = Clear(Last(a))
  BY <1>1, LastLater
<1>3. /\ Kept(p, v, w) => e = d
      /\ Wiped(p, v, w) => e = CutDoc(d)
  BY DEF Kept, Wiped
<1>4. d \in Documents \cup {NoDoc} /\ a \in Seq(Rows)
  BY MomentParts
<1> HIDE DEF a, b, d, e
<1>5. Last(a) \in Rows
  BY <1>1, <1>4, LastRow
<1>6. ASSUME Kept(p, v, w) PROVE Top(row, e, b)
  BY <1>1, <1>2, <1>3, <1>6 DEF Top
<1>7. ASSUME Wiped(p, v, w) PROVE Top(Clear(row), e, b)
  <2>1. /\ Clear(row).version = row.version /\ Clear(row).mark = "redacted"
        /\ Clear(row).content = Cleared /\ Clear(row).action = row.action
        /\ Clear(Last(a)).version = Last(a).version /\ Clear(Last(a)).mark = "redacted"
        /\ Clear(Last(a)).content = Cleared
    BY <1>5, ClearTwice
  <2>2. e = NoDoc <=> d = NoDoc
    BY <1>3, <1>4, <1>7, CutTwice
  <2> QED
    BY <1>1, <1>2, <1>7, <2>1, <2>2 DEF Top
<1> QED
  BY <1>6, <1>7 DEF b, e

\* What an update is made of.
LEMMA UpdateParts ==
    ASSUME NEW w, MomentOK(w), NEW p \in Path, NEW u, Carries(u, w.docs[p], w.journal[p])
    PROVE  /\ w.journal[p] # <<>>
           /\ u.version \in Versions /\ u.content \in Contents /\ u.mark \in Marks
           /\ u.state = "deleted" <=> w.docs[p] = NoDoc
           /\ u.version = Last(w.journal[p]).version /\ u.mark = Last(w.journal[p]).mark
           /\ u.content = IF w.docs[p] # NoDoc THEN Last(w.journal[p]).content ELSE Cleared
           /\ w.docs[p] # NoDoc => DocOf(u.version, u.content, u.mark) = w.docs[p]
<1> DEFINE d == w.docs[p]
           js == w.journal[p]
<1>1. /\ d \in Documents \cup {NoDoc} /\ js \in Seq(Rows) /\ Journalled(d, js)
      /\ Carries(u, d, js)
  BY MomentParts
<1> HIDE DEF d, js
<1>2. CASE d # NoDoc
  <2>1. u = Present(d) /\ d \in Documents
    BY <1>1, <1>2 DEF Carries
  <2>2. /\ u.state = "present" /\ u.version = d.version /\ u.content = d.content
        /\ u.mark = d.mark
    BY <2>1 DEF Present
  <2>3. /\ d.version \in Versions /\ d.content \in Contents /\ d.mark \in Marks
        /\ DocOf(d.version, d.content, d.mark) = d
    BY <2>1 DEF Documents, DocOf
  <2>4. /\ js # <<>> /\ Last(js).version = d.version
        /\ Last(js).content = d.content /\ Last(js).mark = d.mark
    BY <1>1, <1>2 DEF Journalled
  <2> QED
    BY <1>2, <2>2, <2>3, <2>4 DEF d, js
<1>3. CASE d = NoDoc
  <2>1. js # <<>> /\ u = Deletion(Last(js))
    BY <1>1, <1>3 DEF Carries
  <2>2. Last(js) \in Rows
    BY <1>1, <2>1, LastRow
  <2>3. /\ u.state = "deleted" /\ u.version = Last(js).version /\ u.content = Cleared
        /\ u.mark = Last(js).mark
    BY <2>1 DEF Deletion
  <2> QED
    BY <1>3, <2>1, <2>2, <2>3 DEF d, js, Rows, Contents
<1> QED
  BY <1>2, <1>3

LEMMA SameTop ==
    ASSUME NEW old, NEW new, NEW d, NEW js, Top(new, d, js)
    PROVE  /\ Top(old, d, js) => SameRevision(old, new)
           /\ SameRevision(old, new) /\ old.version = new.version => Top(old, d, js)
BY DEF Top, SameRevision

\* The row and the document of an update.
LEMMA RowForParts ==
    ASSUME NEW w, MomentOK(w), NEW p \in Path, NEW b, p \in DOMAIN b.updates,
           Carries(b.updates[p], w.docs[p], w.journal[p])
    PROVE  /\ RowFor(b, p) \in Rows /\ Top(RowFor(b, p), w.docs[p], w.journal[p])
           /\ RowFor(b, p).version = b.updates[p].version
           /\ RowFor(b, p).version \in Nat
           /\ DocAfter(b, p) = w.docs[p]
<1> DEFINE u == b.updates[p]
           action == IF u.state = "deleted" THEN "deleted"
                     ELSE IF replica.docs[p] # NoDoc THEN "modified" ELSE "created"
           row == RowOf(u.version, action, u.content, u.mark)
           d == w.docs[p]
           js == w.journal[p]
<1>1. /\ js # <<>>
      /\ u.version \in Versions /\ u.content \in Contents /\ u.mark \in Marks
      /\ u.state = "deleted" <=> d = NoDoc
      /\ u.version = Last(js).version /\ u.mark = Last(js).mark
      /\ u.content = IF d # NoDoc THEN Last(js).content ELSE Cleared
      /\ d # NoDoc => DocOf(u.version, u.content, u.mark) = d
  BY UpdateParts
<1>2. action \in RowActions /\ (action = "deleted" <=> d = NoDoc)
  BY <1>1 DEF RowActions
<1>3. RowFor(b, p) = row
  BY DEF RowFor
<1>4. DocAfter(b, p) = IF u.state = "deleted" THEN NoDoc
                       ELSE DocOf(u.version, u.content, u.mark)
  BY DEF DocAfter
<1> HIDE DEF u, action, row, d, js
<1>5. /\ row \in Rows /\ row.version = u.version /\ row.action = action
      /\ row.content = u.content /\ row.mark = u.mark
  BY <1>1, <1>2, MadeParts DEF row
<1>6. Top(row, d, js)
  BY <1>1, <1>2, <1>5 DEF Top
<1>7. DocAfter(b, p) = d
  BY <1>1, <1>4
<1>8. row.version \in Nat
  BY <1>1, <1>5 DEF Versions
<1> QED
  BY <1>3, <1>5, <1>6, <1>7, <1>8 DEF u, d, js

\* What the receiver keeps of a path.
LEMMA RetainedParts ==
    ASSUME ReplicaOK(replica), NEW b, NEW p \in Path
    PROVE  /\ Retained(b, p) \in Seq(Rows)
           /\ Retained(b, p) # <<>> <=> replica.journal[p] # <<>>
           /\ ~Erased(b, p) => Retained(b, p) = replica.journal[p]
           /\ Erased(b, p) =>
                 /\ \A i \in DOMAIN Retained(b, p) : Retained(b, p)[i].content = Cleared
                 /\ replica.journal[p] # <<>> =>
                       Last(Retained(b, p)) = Clear(Last(replica.journal[p]))
<1> DEFINE rows == replica.journal[p]
           new == [i \in DOMAIN rows |-> Clear(rows[i])]
<1>1. rows \in Seq(Rows)
  BY DEF ReplicaOK
<1>2. Retained(b, p) = IF Erased(b, p) THEN new ELSE rows
  BY DEF Retained
<1> HIDE DEF rows
<1>3. /\ new \in Seq(Rows) /\ DOMAIN new = DOMAIN rows
      /\ \A i \in DOMAIN rows : new[i] = Clear(rows[i])
      /\ new # <<>> <=> rows # <<>>
      /\ rows # <<>> => Last(new) = Clear(Last(rows))
  BY <1>1, ClearedRows
<1>4. \A i \in DOMAIN rows : Clear(rows[i]).content = Cleared
  BY <1>1, ClearTwice
<1> HIDE DEF new
<1> QED
  BY <1>1, <1>2, <1>3, <1>4 DEF rows

\* A path the bundle carries.
LEMMA UpdatedPath ==
    ASSUME ReplicaOK(replica), NEW w, MomentOK(w), NEW p \in Path, NEW b,
           p \in DOMAIN b.updates, Carries(b.updates[p], w.docs[p], w.journal[p]),
           ~Disagrees(b, p), Travels(Retained(b, p), w.journal[p])
    PROVE  /\ DocAfter(b, p) = w.docs[p] /\ RowsAfter(b, p) \in Seq(Rows)
           /\ Tops(RowsAfter(b, p), w.docs[p], w.journal[p])
           /\ Travels(RowsAfter(b, p), w.journal[p])
<1> DEFINE rows == Retained(b, p)
           row == RowFor(b, p)
           d == w.docs[p]
           js == w.journal[p]
<1>1. /\ row \in Rows /\ Top(row, d, js) /\ row.version \in Nat
      /\ row.version = b.updates[p].version /\ DocAfter(b, p) = d
  BY RowForParts
<1>2. rows \in Seq(Rows) /\ Travels(rows, js)
  BY RetainedParts
<1>3. js \in Seq(Rows)
  BY MomentParts
<1>4. RowsAfter(b, p) = IF rows # <<>> => Last(rows).version # row.version
                        THEN Append(rows, row) ELSE rows
  BY <1>1 DEF RowsAfter
<1>5. rows # <<>> /\ Last(rows).version = row.version => SameRevision(Last(rows), row)
  BY DEF Disagrees
<1> HIDE DEF rows, row, d, js
<1>6. CASE rows # <<>> => Last(rows).version # row.version
  <2> DEFINE new == Append(rows, row)
  <2>1. new \in Seq(Rows) /\ new # <<>> /\ Last(new) = row
    BY <1>1, <1>2 DEF Last
  <2>2. Tops(new, d, js)
    BY <1>1, <2>1 DEF Tops
  <2>3. Travels(new, js)
    <3> SUFFICES ASSUME NEW i \in DOMAIN new, new[i].content # Cleared
                 PROVE  \E k \in DOMAIN js : js[k].version = new[i].version
                                              /\ js[k].content = new[i].content
      BY DEF Travels
    <3>1. CASE i \in DOMAIN rows
      <4>1. new[i] = rows[i]
        BY <1>1, <1>2, <3>1
      <4> QED
        BY <1>2, <3>1, <4>1 DEF Travels
    <3>2. CASE i \notin DOMAIN rows
      <4>1. new[i] = row
        BY <1>1, <1>2, <3>2
      <4>2. /\ js # <<>> /\ row.version = Last(js).version
            /\ row.content = Last(js).content
        BY <1>1, <4>1 DEF Top
      <4>3. Len(js) \in DOMAIN js /\ Last(js) = js[Len(js)]
        BY <1>3, <4>2, LastRow
      <4> QED
        BY <4>1, <4>2, <4>3
    <3> QED
      BY <3>1, <3>2
  <2> QED
    BY <1>1, <1>4, <1>6, <2>1, <2>2, <2>3 DEF d, js
<1>7. CASE rows # <<>> /\ Last(rows).version = row.version
  <2>1. Top(Last(rows), d, js)
    BY <1>1, <1>5, <1>7, SameTop
  <2> QED
    BY <1>1, <1>2, <1>4, <1>7, <2>1 DEF Tops, d, js
<1> QED
  BY <1>6, <1>7

\* What an interval tells of a path of a replica that stood at its start.
Brought(p, b, v, w) ==
    /\ Later(p, v, w)
    /\ p \notin DOMAIN b.updates => Unmoved(p, v, w)
    /\ ~Erased(b, p) => Kept(p, v, w)
    /\ Erased(b, p) => Wiped(p, v, w)

LEMMA TravelsOn ==
    ASSUME ReplicaOK(replica), NEW v, NEW w, MomentOK(v), MomentOK(w), NEW p \in Path, NEW b,
           Brought(p, b, v, w), Travels(replica.journal[p], v.journal[p])
    PROVE  Travels(Retained(b, p), w.journal[p])
<1>1. CASE Erased(b, p)
  BY <1>1, RetainedParts DEF Travels
<1>2. CASE ~Erased(b, p)
  <2>1. Retained(b, p) = replica.journal[p]
    BY <1>2, RetainedParts
  <2>2. \A k \in DOMAIN v.journal[p] : k \in DOMAIN w.journal[p] /\ w.journal[p][k] = v.journal[p][k]
    BY <1>2 DEF Brought, Later, RowsStay, Kept
  <2> QED
    BY <2>1, <2>2 DEF Travels
<1> QED
  BY <1>1, <1>2

\* A path the bundle does not carry.
LEMMA SilentPath ==
    ASSUME ReplicaOK(replica), NEW v, NEW w, MomentOK(v), MomentOK(w), NEW p \in Path, NEW b,
           p \notin DOMAIN b.updates, Brought(p, b, v, w),
           Erased(b, p) => w.docs[p] = NoDoc,
           replica.docs[p] = v.docs[p],
           Tops(replica.journal[p], v.docs[p], v.journal[p])
    PROVE  /\ DocAfter(b, p) = w.docs[p] /\ RowsAfter(b, p) = Retained(b, p)
           /\ Tops(RowsAfter(b, p), w.docs[p], w.journal[p])
<1> DEFINE rows == replica.journal[p]
           kept == Retained(b, p)
<1>1. /\ Unmoved(p, v, w) /\ Later(p, v, w)
      /\ ~Erased(b, p) => Kept(p, v, w) /\ w.docs[p] = v.docs[p]
      /\ Erased(b, p) => Wiped(p, v, w) /\ w.docs[p] = CutDoc(v.docs[p])
  BY DEF Brought, Kept, Wiped
<1>2. v.docs[p] \in Documents \cup {NoDoc}
  BY MomentParts
<1>3. Erased(b, p) => v.docs[p] = NoDoc
  BY <1>1, <1>2, CutTwice
<1>4. DocAfter(b, p) = w.docs[p]
  BY <1>1, <1>3 DEF DocAfter
<1>5. RowsAfter(b, p) = kept
  BY DEF RowsAfter
<1>6. /\ rows \in Seq(Rows) /\ (kept # <<>> <=> rows # <<>>)
      /\ ~Erased(b, p) => kept = rows
      /\ Erased(b, p) /\ rows # <<>> => Last(kept) = Clear(Last(rows))
  BY RetainedParts DEF ReplicaOK
<1> HIDE DEF rows, kept
<1>7. ASSUME kept # <<>> PROVE Top(Last(kept), w.docs[p], w.journal[p])
  <2>1. rows # <<>> /\ Last(rows) \in Rows
    BY <1>6, <1>7, LastRow
  <2>2. Top(Last(rows), v.docs[p], v.journal[p])
    BY <2>1 DEF Tops, rows
  <2>3. /\ Kept(p, v, w) => Top(Last(rows), w.docs[p], w.journal[p])
        /\ Wiped(p, v, w) => Top(Clear(Last(rows)), w.docs[p], w.journal[p])
    BY <1>1, <2>1, <2>2, TopLater
  <2> QED
    BY <1>1, <1>6, <2>1, <2>3
<1> QED
  BY <1>4, <1>5, <1>7 DEF Tops, kept

\* A bundle and a replica that stood at its base do not disagree.
LEMMA PathAgrees ==
    ASSUME ReplicaOK(replica), NEW v, NEW w, MomentOK(v), MomentOK(w), NEW p \in Path, NEW b,
           p \in DOMAIN b.updates, Carries(b.updates[p], w.docs[p], w.journal[p]),
           Brought(p, b, v, w), Tops(replica.journal[p], v.docs[p], v.journal[p])
    PROVE  ~Disagrees(b, p)
<1> DEFINE rows == replica.journal[p]
           kept == Retained(b, p)
           row == RowFor(b, p)
<1> SUFFICES ASSUME kept # <<>>
             PROVE  /\ ~(Last(kept).version > row.version)
                    /\ Last(kept).version = row.version => SameRevision(Last(kept), row)
  BY DEF Disagrees
<1>1. /\ Later(p, v, w)
      /\ ~Erased(b, p) => Kept(p, v, w)
      /\ Erased(b, p) => Wiped(p, v, w)
  BY DEF Brought
<1>2. /\ rows \in Seq(Rows) /\ rows # <<>>
      /\ ~Erased(b, p) => kept = rows
      /\ Erased(b, p) => Last(kept) = Clear(Last(rows))
  BY RetainedParts DEF ReplicaOK
<1>3. row \in Rows /\ Top(row, w.docs[p], w.journal[p]) /\ row.version \in Nat
  BY RowForParts
<1> HIDE DEF rows, kept, row
<1>4. Last(rows) \in Rows /\ Last(rows).version \in Nat
  BY <1>2, LastRow
<1>5. Top(Last(rows), v.docs[p], v.journal[p])
  BY <1>2 DEF Tops, rows
<1>6. Last(kept).version = Last(rows).version
  BY <1>2, <1>4, ClearTwice
<1>7. /\ v.journal[p] # <<>> /\ Last(v.journal[p]).version = Last(rows).version
      /\ w.journal[p] # <<>> /\ Last(w.journal[p]).version = row.version
  BY <1>3, <1>5 DEF Top
<1>8. /\ Last(rows).version <= row.version
      /\ Last(rows).version = row.version => Unmoved(p, v, w)
  BY <1>1, <1>7, LastLater
<1>9. ASSUME Last(kept).version = row.version PROVE SameRevision(Last(kept), row)
  <2>1. Unmoved(p, v, w)
    BY <1>6, <1>8, <1>9
  <2>2. /\ Kept(p, v, w) => Top(Last(rows), w.docs[p], w.journal[p])
        /\ Wiped(p, v, w) => Top(Clear(Last(rows)), w.docs[p], w.journal[p])
    BY <1>1, <1>4, <1>5, <2>1, TopLater
  <2>3. Top(Last(kept), w.docs[p], w.journal[p])
    BY <1>1, <1>2, <2>2
  <2> QED
    BY <1>3, <2>3, SameTop
<1> QED
  BY <1>3, <1>4, <1>6, <1>8, <1>9

-----------------------------------------------------------------------------
(* Bundles and the people at the replica.                                  *)

\* A bundle fits a receiver that holds nothing, or that stands at its base and
\* that nobody has touched.
LEMMA FitsParts ==
    ASSUME ReplicaInv, NEW b, Fits(b)
    PROVE  /\ edits = <<>>
           /\ \/ replica = NoFiles /\ b.base = NoCursor
              \/ /\ b.base # NoCursor
                 /\ \E n \in DOMAIN was : b.base = Cursor(Stream, n) /\ Mirrors(replica, was[n])
<1>1. CASE Status = "empty" /\ b.base = NoCursor
  <2>1. receipt = NoReceipt /\ replica = NoFiles
    BY <1>1 DEF Status
  <2> QED
    BY <1>1, <2>1 DEF ReplicaInv
<1>2. CASE Status = "ready" /\ receipt.checkpoint = b.base
  <2>1. receipt # NoReceipt /\ receipt.print = replica
    BY <1>2 DEF Status, Fingerprint
  <2>2. PICK n \in DOMAIN was :
            receipt.checkpoint = Cursor(Stream, n) /\ Mirrors(receipt.print, was[n])
    BY <2>1 DEF ReplicaInv
  <2>3. b.base # NoCursor
    BY <1>2, <2>2, NamesAssumption DEF NoCursor, Cursor
  <2>4. edits = <<>>
    <3> SUFFICES ASSUME edits # <<>> PROVE FALSE
      OBVIOUS
    <3>1. PICK p \in Path : Changed(p, replica, receipt.print)
      BY <2>1 DEF ReplicaInv
    <3>2. Changed(p, replica, replica)
      BY <2>1, <3>1
    <3>3. Len(replica.journal[p]) \in Nat
      BY <2>1 DEF ReplicaInv, ReplicaOK
    <3> QED
      BY <3>2, <3>3 DEF Changed
  <2> QED
    BY <1>2, <2>1, <2>2, <2>3, <2>4
<1> QED
  BY <1>1, <1>2 DEF Fits

\* What a bundle tells of a path, from its base to its checkpoint.
LEMMA BundleTells ==
    ASSUME NEW b, BundleOK(b), b.base # NoCursor, NEW n \in DOMAIN was,
           b.base = Cursor(Stream, n), NEW p \in Path
    PROVE  /\ Brought(p, b, was[n], was[b.checkpoint.sequence])
           /\ Erased(b, p) /\ p \notin DOMAIN b.updates =>
                 was[b.checkpoint.sequence].docs[p] = NoDoc
<1>1. b.base.sequence = n
  BY DEF Cursor
<1>2. /\ Later(p, was[n], was[b.checkpoint.sequence])
      /\ Gathered(DOMAIN b.updates, Range(b.erasures), was[n], was[b.checkpoint.sequence])
      /\ Erased(b, p) /\ p \notin DOMAIN b.updates =>
                 was[b.checkpoint.sequence].docs[p] = NoDoc
  BY <1>1 DEF BundleOK
<1>3. /\ p \notin DOMAIN b.updates => Unmoved(p, was[n], was[b.checkpoint.sequence])
      /\ ~Erased(b, p) => Kept(p, was[n], was[b.checkpoint.sequence])
      /\ Erased(b, p) => Wiped(p, was[n], was[b.checkpoint.sequence])
  BY <1>2 DEF Gathered, Erased
<1> QED
  BY <1>2, <1>3 DEF Brought

LEMMA NothingHeld ==
    ASSUME replica = NoFiles, NEW b, b.erasures = <<>>, NEW p \in Path
    PROVE  /\ replica.docs[p] = NoDoc /\ replica.journal[p] = <<>>
           /\ ~Erased(b, p) /\ Retained(b, p) = <<>>
           /\ ~Disagrees(b, p)
           /\ p \notin DOMAIN b.updates => DocAfter(b, p) = NoDoc /\ RowsAfter(b, p) = <<>>
<1>1. replica.docs[p] = NoDoc /\ replica.journal[p] = <<>>
  BY DEF NoFiles
<1>2. Range(b.erasures) = {}
  BY DEF Range
<1>3. ~Erased(b, p)
  BY <1>2 DEF Erased
<1>4. Retained(b, p) = <<>>
  BY <1>1, <1>3 DEF Retained
<1> QED
  BY <1>1, <1>3, <1>4 DEF Disagrees, DocAfter, RowsAfter

\* No bundle that fits disagrees with the replica.
LEMMA FitsAgrees ==
    ASSUME HistoryInv, BundlesInv, ReplicaInv, NEW b \in bundles, Fits(b), NEW p \in Path
    PROVE  ~Disagrees(b, p)
<1>1. BundleOK(b) /\ ReplicaOK(replica)
  BY DEF BundlesInv, ReplicaInv
<1> SUFFICES ASSUME p \in DOMAIN b.updates PROVE ~Disagrees(b, p)
  BY DEF Disagrees
<1> DEFINE w == was[b.checkpoint.sequence]
<1>2. MomentOK(w) /\ Carries(b.updates[p], w.docs[p], w.journal[p])
  BY <1>1 DEF BundleOK, HistoryInv
<1> HIDE DEF w
<1>3. CASE replica = NoFiles /\ b.base = NoCursor
  BY <1>1, <1>3, NothingHeld DEF BundleOK
<1>4. CASE /\ b.base # NoCursor
           /\ \E n \in DOMAIN was : b.base = Cursor(Stream, n) /\ Mirrors(replica, was[n])
  <2>1. PICK n \in DOMAIN was : b.base = Cursor(Stream, n) /\ Mirrors(replica, was[n])
    BY <1>4
  <2>2. Brought(p, b, was[n], w)
    BY <1>1, <1>4, <2>1, BundleTells DEF w
  <2>3. MomentOK(was[n]) /\ Tops(replica.journal[p], was[n].docs[p], was[n].journal[p])
    BY <2>1 DEF HistoryInv, Mirrors
  <2> QED
    BY <1>1, <1>2, <2>2, <2>3, PathAgrees
<1> QED
  BY <1>3, <1>4, FitsParts

\* A bundle takes the replica to its checkpoint.
LEMMA ApplyMirrors ==
    ASSUME HistoryInv, BundlesInv, ReplicaInv, NEW b \in bundles, Fits(b), NEW p \in Path
    PROVE  LET w == was[b.checkpoint.sequence]
           IN  /\ DocAfter(b, p) = w.docs[p] /\ RowsAfter(b, p) \in Seq(Rows)
               /\ Tops(RowsAfter(b, p), w.docs[p], w.journal[p])
               /\ Travels(RowsAfter(b, p), w.journal[p])
<1> DEFINE w == was[b.checkpoint.sequence]
<1>1. BundleOK(b) /\ ReplicaOK(replica) /\ ~Disagrees(b, p)
  BY FitsAgrees DEF BundlesInv, ReplicaInv
<1>2. /\ MomentOK(w)
      /\ p \in DOMAIN b.updates => Carries(b.updates[p], w.docs[p], w.journal[p])
  BY <1>1 DEF BundleOK, HistoryInv
<1>3. b.base = NoCursor => b.erasures = <<>> /\ (p \in DOMAIN b.updates <=> w.docs[p] # NoDoc)
  BY <1>1 DEF BundleOK
<1> HIDE DEF w
<1>4. CASE replica = NoFiles /\ b.base = NoCursor
  <2>1. /\ Retained(b, p) = <<>>
        /\ p \notin DOMAIN b.updates => DocAfter(b, p) = NoDoc /\ RowsAfter(b, p) = <<>>
    BY <1>3, <1>4, NothingHeld
  <2>2. Travels(Retained(b, p), w.journal[p])
    BY <2>1 DEF Travels
  <2>3. CASE p \in DOMAIN b.updates
    BY <1>1, <1>2, <2>2, <2>3, UpdatedPath DEF w
  <2>4. CASE p \notin DOMAIN b.updates
    <3>1. RowsAfter(b, p) = <<>> /\ DocAfter(b, p) = w.docs[p]
      BY <1>3, <1>4, <2>1, <2>4
    <3>2. RowsAfter(b, p) \in Seq(Rows) /\ Tops(RowsAfter(b, p), w.docs[p], w.journal[p])
          /\ Travels(RowsAfter(b, p), w.journal[p])
      BY <3>1 DEF Tops, Travels
    <3> QED
      BY <3>1, <3>2 DEF w
  <2> QED
    BY <2>3, <2>4
<1>5. CASE /\ b.base # NoCursor
           /\ \E n \in DOMAIN was : b.base = Cursor(Stream, n) /\ Mirrors(replica, was[n])
  <2>1. PICK n \in DOMAIN was : b.base = Cursor(Stream, n) /\ Mirrors(replica, was[n])
    BY <1>5
  <2>2. Brought(p, b, was[n], w) /\ (Erased(b, p) /\ p \notin DOMAIN b.updates => w.docs[p] = NoDoc)
    BY <1>1, <1>5, <2>1, BundleTells DEF w
  <2>3. /\ MomentOK(was[n]) /\ replica.docs[p] = was[n].docs[p]
        /\ Tops(replica.journal[p], was[n].docs[p], was[n].journal[p])
        /\ Travels(replica.journal[p], was[n].journal[p])
    BY <2>1 DEF HistoryInv, Mirrors
  <2>4. Travels(Retained(b, p), w.journal[p])
    BY <1>1, <1>2, <2>2, <2>3, TravelsOn
  <2>5. CASE p \in DOMAIN b.updates
    BY <1>1, <1>2, <2>4, <2>5, UpdatedPath DEF w
  <2>6. CASE p \notin DOMAIN b.updates
    <3>1. /\ DocAfter(b, p) = w.docs[p] /\ RowsAfter(b, p) = Retained(b, p)
          /\ Tops(RowsAfter(b, p), w.docs[p], w.journal[p])
      BY <1>1, <1>2, <2>2, <2>3, <2>6, SilentPath
    <3>2. Retained(b, p) \in Seq(Rows)
      BY <1>1, RetainedParts
    <3> QED
      BY <2>4, <3>1, <3>2 DEF w
  <2> QED
    BY <2>5, <2>6
<1> QED
  BY <1>4, <1>5, FitsParts

LEMMA ApplyKeeps ==
    ASSUME HistoryInv, BundlesInv, ReplicaInv, NEW b \in bundles, Apply(b), was' = was
    PROVE  ReplicaInv'
<1> DEFINE n == b.checkpoint.sequence
           w == was[n]
           next == [p \in Path |-> DocAfter(b, p)]
           rows == [p \in Path |-> RowsAfter(b, p)]
           acts == replica.trail \o ActsOf(b)
<1>1. /\ Fits(b) /\ replica' = [docs |-> next, journal |-> rows, trail |-> acts]
      /\ receipt' = [bundle |-> b, checkpoint |-> b.checkpoint, print |-> replica']
      /\ edits' = edits
  BY DEF Apply, Fingerprint
<1>2. /\ BundleOK(b) /\ n \in DOMAIN was /\ b.checkpoint = Cursor(Stream, n)
      /\ MomentOK(w)
  BY DEF BundlesInv, BundleOK, HistoryInv
<1>3. edits = <<>>
  BY <1>1, FitsParts
<1>4. \A p \in Path : /\ next[p] = w.docs[p] /\ rows[p] \in Seq(Rows)
                      /\ Tops(rows[p], w.docs[p], w.journal[p])
                      /\ Travels(rows[p], w.journal[p])
  BY <1>1, ApplyMirrors
<1>5. DOMAIN next = Path /\ DOMAIN rows = Path /\ next = [p \in Path |-> next[p]]
      /\ rows = [p \in Path |-> rows[p]]
  OBVIOUS
<1> HIDE DEF next, rows, acts, w
<1>6. /\ next \in [Path -> Documents \cup {NoDoc}]
      /\ rows \in [Path -> Seq(Rows)]
  <2>1. \A p \in Path : w.docs[p] \in Documents \cup {NoDoc}
    BY <1>2, MomentParts
  <2> QED
    BY <1>4, <1>5, <2>1
<1>7. replica'.docs = next /\ replica'.journal = rows /\ replica'.trail = acts
  BY <1>1
<1>8. ReplicaOK(replica')
  BY <1>1, <1>6, <1>7 DEF ReplicaOK
<1>9. Mirrors(replica', w)
  BY <1>4, <1>7 DEF Mirrors
<1>10. /\ receipt'.bundle = b /\ receipt'.checkpoint = b.checkpoint
       /\ receipt'.print = replica' /\ receipt' # NoReceipt
       /\ receipt' = [bundle |-> receipt'.bundle, checkpoint |-> receipt'.checkpoint,
                      print |-> receipt'.print]
  <2>1. "print" \in DOMAIN receipt' /\ "print" \notin DOMAIN NoReceipt
    BY <1>1 DEF NoReceipt
  <2> QED
    BY <1>1, <2>1
<1>11. \A p \in Path : Len(replica'.journal[p]) >= Len(receipt'.print.journal[p])
  BY <1>6, <1>7, <1>10
<1>12. \E k \in DOMAIN was' :
          receipt'.checkpoint = Cursor(Stream, k) /\ Mirrors(receipt'.print, was'[k])
  BY <1>2, <1>9, <1>10 DEF w
<1> QED
  BY <1>1, <1>3, <1>8, <1>10, <1>11, <1>12 DEF ReplicaInv, NoReceipt

-----------------------------------------------------------------------------
(* What people do to the replica.                                          *)

LEMMA EditsGrow ==
    ASSUME NEW s, s \in Seq(Range(s)), NEW r
    PROVE  /\ Append(s, r) \in Seq(Range(Append(s, r)))
           /\ Last(Append(s, r)) = r /\ Append(s, r) # <<>>
<1> DEFINE T == Range(s) \cup {r}
           new == Append(s, r)
<1>1. s \in Seq(T) /\ r \in T
  OBVIOUS
<1> HIDE DEF T
<1>2. new \in Seq(T) /\ Len(new) = Len(s) + 1 /\ new[Len(s) + 1] = r /\ Len(s) \in Nat
  BY <1>1
<1>3. DOMAIN new = 1..Len(new)
  BY <1>2
<1>4. \A i \in 1..Len(new) : new[i] \in Range(new)
  BY <1>3 DEF Range
<1> HIDE DEF new
<1>5. new \in Seq(Range(new))
  BY <1>2, <1>3, <1>4
<1>6. Last(new) = r /\ new # <<>>
  BY <1>2, <1>3 DEF Last
<1> QED
  BY <1>5, <1>6 DEF new

\* What a person leaves of a document, and of its rows.
LeftDoc(how, d) == IF how = "erase" /\ d # NoDoc THEN Clear(d) ELSE NoDoc
LeftRows(how, d, rows) ==
    IF how = "erase" THEN [i \in DOMAIN rows |-> Clear(rows[i])]
    ELSE Append(rows, RowOf(After(rows, d), "deleted", d.content, d.mark))

LEMMA EditParts ==
    ASSUME ReplicaOK(replica), NEW p \in Path, NEW how \in {"erase", "delete"}, Edit(p, how)
    PROVE  /\ replica' = [docs    |-> replica'.docs, journal |-> replica'.journal,
                          trail   |-> replica'.trail]
           /\ replica'.docs = [replica.docs EXCEPT ![p] = LeftDoc(how, replica.docs[p])]
           /\ replica'.journal = [replica.journal EXCEPT ![p] = LeftRows(how, replica.docs[p], replica.journal[p])]
           /\ replica'.trail = replica.trail
           /\ replica' # replica /\ edits' = Append(edits, replica') /\ receipt' = receipt
           /\ how = "delete" => replica.docs[p] # NoDoc
<1> DEFINE ds == [replica.docs EXCEPT ![p] = LeftDoc(how, replica.docs[p])]
           js == [replica.journal EXCEPT ![p] = LeftRows(how, replica.docs[p], replica.journal[p])]
<1>1. replica' = [replica EXCEPT !.docs = ds, !.journal = js]
  BY DEF Edit, LeftDoc, LeftRows
<1> HIDE DEF ds, js
<1>2. replica' = [docs |-> ds, journal |-> js, trail |-> replica.trail]
  BY <1>1 DEF ReplicaOK
<1>3. replica'.docs = ds /\ replica'.journal = js /\ replica'.trail = replica.trail
  BY <1>2
<1>4. replica' = [docs |-> replica'.docs, journal |-> replica'.journal, trail |-> replica'.trail]
  BY <1>2, <1>3
<1>5. /\ replica' # replica /\ edits' = Append(edits, replica') /\ receipt' = receipt
      /\ how = "delete" => replica.docs[p] # NoDoc
  BY DEF Edit
<1> QED
  BY <1>3, <1>4, <1>5 DEF ds, js

LEMMA LeftParts ==
    ASSUME NEW rows \in Seq(Rows), NEW how \in {"erase", "delete"},
           NEW d, how = "delete" => d \in Documents
    PROVE  /\ LeftRows(how, d, rows) \in Seq(Rows) /\ Len(LeftRows(how, d, rows)) \in Nat
           /\ how = "delete" => Len(LeftRows(how, d, rows)) = Len(rows) + 1
           /\ how = "erase" =>
                 /\ Len(LeftRows(how, d, rows)) = Len(rows)
                 /\ DOMAIN LeftRows(how, d, rows) = DOMAIN rows
                 /\ \A i \in DOMAIN rows : LeftRows(how, d, rows)[i] = Clear(rows[i])
<1>1. CASE how = "erase"
  <2> DEFINE new == [i \in DOMAIN rows |-> Clear(rows[i])]
  <2>1. LeftRows(how, d, rows) = new
    BY <1>1 DEF LeftRows
  <2> QED
    BY <1>1, <2>1, ClearedRows
<1>2. CASE how = "delete"
  <2> DEFINE row == RowOf(After(rows, d), "deleted", d.content, d.mark)
  <2>1. row \in Rows
    <3>1. d.version \in Nat /\ d.version > 0 /\ d.content \in Contents /\ d.mark \in Marks
      BY <1>2 DEF Documents, Versions
    <3>2. NextVersion(rows) \in Nat /\ NextVersion(rows) > 0
      <4>1. rows # <<>> => rows[Len(rows)].version \in Nat
        BY LastRow DEF Last
      <4> QED
        BY <4>1 DEF NextVersion
    <3>3. After(rows, d) \in Versions
      BY <3>1, <3>2 DEF After, Versions
    <3>4. "deleted" \in RowActions
      BY DEF RowActions
    <3> QED
      BY <3>1, <3>3, <3>4, MadeParts
  <2>2. LeftRows(how, d, rows) = Append(rows, row)
    BY <1>2 DEF LeftRows
  <2> HIDE DEF row
  <2> QED
    BY <1>2, <2>1, <2>2
<1> QED
  BY <1>1, <1>2

\* What a person changed stays changed.
LEMMA ChangedStays ==
    ASSUME NEW r, NEW s, NEW t, ReplicaOK(r), ReplicaOK(s), ReplicaOK(t),
           NEW p \in Path, Changed(p, r, t), NEW how \in {"erase", "delete"},
           s.journal[p] = LeftRows(how, r.docs[p], r.journal[p]), s.docs[p] = LeftDoc(how, r.docs[p]),
           how = "delete" => r.docs[p] # NoDoc,
           Len(r.journal[p]) >= Len(t.journal[p])
    PROVE  Changed(p, s, t)
<1> DEFINE rr == r.journal[p]
           ss == s.journal[p]
           tt == t.journal[p]
<1>1. /\ rr \in Seq(Rows) /\ ss \in Seq(Rows) /\ tt \in Seq(Rows)
      /\ Len(rr) \in Nat /\ Len(ss) \in Nat /\ Len(tt) \in Nat /\ Len(rr) >= Len(tt)
      /\ ss = LeftRows(how, r.docs[p], rr)
  BY DEF ReplicaOK
<1>2. /\ t.docs[p] \in Documents \cup {NoDoc}
      /\ how = "delete" => r.docs[p] \in Documents
  BY DEF ReplicaOK
<1> HIDE DEF rr, ss, tt
<1>3. CASE how = "delete"
  <2>1. Len(ss) = Len(rr) + 1
    BY <1>1, <1>2, <1>3, LeftParts
  <2>2. Len(ss) > Len(tt)
    BY <1>1, <2>1
  <2> QED
    BY <2>2 DEF Changed, ss, tt
<1>4. CASE how = "erase"
  <2>1. /\ Len(ss) = Len(rr) /\ DOMAIN ss = DOMAIN rr
        /\ \A i \in DOMAIN rr : ss[i] = Clear(rr[i])
    BY <1>1, <1>2, <1>4, LeftParts
  <2>2. CASE Len(rr) > Len(tt)
    BY <2>1, <2>2 DEF Changed, ss, tt
  <2>3. ASSUME NEW i \in DOMAIN tt, i \in DOMAIN rr, rr[i] = Clear(tt[i]), Clear(tt[i]) # tt[i]
        PROVE  Changed(p, s, t)
    <3>1. tt[i] \in Rows
      BY <1>1
    <3>2. ss[i] = Clear(tt[i])
      BY <2>1, <2>3, <3>1, ClearTwice
    <3> QED
      BY <2>1, <2>3, <3>2 DEF Changed, ss, tt
  <2>4. CASE t.docs[p] # NoDoc /\ r.docs[p] = Clear(t.docs[p]) /\ Clear(t.docs[p]) # t.docs[p]
    <3>1. t.docs[p] \in Documents
      BY <1>2, <2>4
    <3>2. r.docs[p] \in Documents /\ Clear(r.docs[p]) = Clear(t.docs[p])
      BY <2>4, <3>1, ClearTwice
    <3>3. s.docs[p] = Clear(t.docs[p])
      BY <1>4, <3>2, NamesAssumption DEF LeftDoc
    <3> QED
      BY <2>4, <3>3 DEF Changed
  <2> QED
    BY <2>2, <2>3, <2>4 DEF Changed, rr, tt
<1> QED
  BY <1>3, <1>4

\* The first change of a replica is one.
LEMMA ChangedFirst ==
    ASSUME NEW r, NEW s, ReplicaOK(r), ReplicaOK(s),
           NEW p \in Path, NEW how \in {"erase", "delete"}, how = "delete" => r.docs[p] # NoDoc,
           s.docs = [r.docs EXCEPT ![p] = LeftDoc(how, r.docs[p])],
           s.journal = [r.journal EXCEPT ![p] = LeftRows(how, r.docs[p], r.journal[p])],
           s.trail = r.trail, s # r
    PROVE  Changed(p, s, r)
<1> DEFINE d == r.docs[p]
           rr == r.journal[p]
           ss == s.journal[p]
<1>1. /\ d \in Documents \cup {NoDoc} /\ rr \in Seq(Rows) /\ ss \in Seq(Rows)
      /\ r.docs \in [Path -> Documents \cup {NoDoc}] /\ r.journal \in [Path -> Seq(Rows)]
  BY DEF ReplicaOK
<1>2. ss = LeftRows(how, d, rr) /\ s.docs[p] = LeftDoc(how, d)
  BY <1>1
<1>3. d # s.docs[p] \/ rr # ss
  <2> SUFFICES ASSUME d = s.docs[p], rr = ss PROVE FALSE
    OBVIOUS
  <2>1. s.docs = r.docs /\ s.journal = r.journal
    BY <1>1, <1>2
  <2>2. /\ r = [docs |-> r.docs, journal |-> r.journal, trail |-> r.trail]
        /\ s = [docs |-> s.docs, journal |-> s.journal, trail |-> s.trail]
    BY DEF ReplicaOK
  <2> QED
    BY <2>1, <2>2
<1> HIDE DEF d, rr, ss
<1>4. CASE how = "delete"
  <2>1. Len(ss) = Len(rr) + 1 /\ Len(rr) \in Nat /\ Len(ss) \in Nat
    BY <1>1, <1>2, <1>4, LeftParts DEF d
  <2>2. Len(ss) > Len(rr)
    BY <2>1
  <2> QED
    BY <2>2 DEF Changed, ss, rr
<1>5. CASE how = "erase"
  <2>1. /\ Len(ss) = Len(rr) /\ DOMAIN ss = DOMAIN rr
        /\ \A i \in DOMAIN rr : ss[i] = Clear(rr[i])
    BY <1>1, <1>2, <1>5, LeftParts
  <2>2. CASE d # s.docs[p]
    <3>1. d # NoDoc /\ s.docs[p] = Clear(d)
      BY <1>2, <1>5, <2>2 DEF LeftDoc
    <3> QED
      BY <2>2, <3>1 DEF Changed, d
  <2>3. CASE rr # ss
    <3>1. PICK i \in DOMAIN rr : ss[i] # rr[i]
      BY <1>1, <2>1, <2>3
    <3> QED
      BY <2>1, <3>1 DEF Changed, rr, ss
  <2> QED
    BY <1>3, <2>2, <2>3
<1> QED
  BY <1>4, <1>5

LEMMA EditKeeps ==
    ASSUME ReplicaInv, NEW p \in Path, NEW how \in {"erase", "delete"}, Edit(p, how),
           was' = was
    PROVE  ReplicaInv'
<1>1. ReplicaOK(replica) /\ edits \in Seq(Range(edits))
  BY DEF ReplicaInv
<1>2. /\ replica' = [docs    |-> replica'.docs, journal |-> replica'.journal,
                     trail   |-> replica'.trail]
      /\ replica'.docs = [replica.docs EXCEPT ![p] = LeftDoc(how, replica.docs[p])]
      /\ replica'.journal =
            [replica.journal EXCEPT ![p] = LeftRows(how, replica.docs[p], replica.journal[p])]
      /\ replica'.trail = replica.trail
      /\ replica' # replica /\ edits' = Append(edits, replica') /\ receipt' = receipt
      /\ how = "delete" => replica.docs[p] # NoDoc
  BY <1>1, EditParts
<1>3. /\ replica.docs \in [Path -> Documents \cup {NoDoc}]
      /\ replica.journal \in [Path -> Seq(Rows)]
      /\ how = "delete" => replica.docs[p] \in Documents
  BY <1>1, <1>2 DEF ReplicaOK
<1>4. /\ replica'.journal[p] = LeftRows(how, replica.docs[p], replica.journal[p])
      /\ replica'.docs[p] = LeftDoc(how, replica.docs[p])
      /\ \A q \in Path : q # p => replica'.journal[q] = replica.journal[q]
                                  /\ replica'.docs[q] = replica.docs[q]
  BY <1>2, <1>3
<1>5. /\ replica'.journal[p] \in Seq(Rows)
      /\ Len(replica'.journal[p]) \in Nat /\ Len(replica.journal[p]) \in Nat
      /\ Len(replica'.journal[p]) >= Len(replica.journal[p])
  <2>1. replica.journal[p] \in Seq(Rows)
    BY <1>3
  <2>2. LeftRows(how, replica.docs[p], replica.journal[p]) \in Seq(Rows)
    BY <1>3, <2>1, LeftParts
  <2>3. Len(LeftRows(how, replica.docs[p], replica.journal[p])) \in
            {Len(replica.journal[p]), Len(replica.journal[p]) + 1}
    BY <1>3, <2>1, LeftParts
  <2> QED
    BY <1>4, <2>1, <2>2, <2>3
<1>6. LeftDoc(how, replica.docs[p]) \in Documents \cup {NoDoc}
  BY <1>3, ClearTwice DEF LeftDoc
<1>7. ReplicaOK(replica')
  <2>1. replica'.docs \in [Path -> Documents \cup {NoDoc}]
    BY <1>2, <1>3, <1>6
  <2>2. replica'.journal \in [Path -> Seq(Rows)]
    BY <1>2, <1>3, <1>4, <1>5
  <2> QED
    BY <1>2, <2>1, <2>2 DEF ReplicaOK
<1>8. edits' \in Seq(Range(edits')) /\ edits' # <<>> /\ replica' = Last(edits')
  BY <1>1, <1>2, EditsGrow
<1>9. receipt # NoReceipt
  <2> SUFFICES ASSUME receipt = NoReceipt PROVE FALSE
    OBVIOUS
  <2>1. replica = NoFiles
    BY DEF ReplicaInv
  <2>2. replica.docs[p] = NoDoc /\ replica.journal[p] = <<>>
    BY <2>1 DEF NoFiles
  <2>3. how = "erase"
    BY <1>2, <2>2
  <2>4. LeftRows(how, replica.docs[p], replica.journal[p]) = <<>>
    BY <2>2, <2>3 DEF LeftRows
  <2>5. LeftDoc(how, replica.docs[p]) = NoDoc
    BY <2>2 DEF LeftDoc
  <2>6. replica'.docs = replica.docs /\ replica'.journal = replica.journal
    BY <1>2, <1>3, <2>2, <2>4, <2>5
  <2>7. replica = [docs |-> replica.docs, journal |-> replica.journal, trail |-> replica.trail]
    BY <1>1 DEF ReplicaOK
  <2> QED
    BY <1>2, <2>6, <2>7
<1> DEFINE t == receipt.print
<1>10. /\ ReplicaOK(t) /\ t = receipt'.print
       /\ \A q \in Path : Len(replica.journal[q]) >= Len(t.journal[q])
       /\ edits = <<>> => replica = t
       /\ edits # <<>> => \E q \in Path : Changed(q, replica, t)
  BY <1>2, <1>9 DEF ReplicaInv
<1> HIDE DEF t
<1>11. \A q \in Path : Len(replica'.journal[q]) >= Len(t.journal[q])
  <2> SUFFICES ASSUME NEW q \in Path PROVE Len(replica'.journal[q]) >= Len(t.journal[q])
    OBVIOUS
  <2>1. Len(t.journal[q]) \in Nat /\ Len(replica.journal[q]) \in Nat
        /\ Len(replica.journal[q]) >= Len(t.journal[q])
    BY <1>1, <1>10 DEF ReplicaOK
  <2>2. CASE q = p
    BY <1>5, <2>1, <2>2
  <2>3. CASE q # p
    BY <1>4, <2>1, <2>3
  <2> QED
    BY <2>2, <2>3
<1>12. \E q \in Path : Changed(q, replica', t)
  <2>1. CASE edits = <<>>
    <3>1. Changed(p, replica', replica)
      BY <1>1, <1>2, <1>7, ChangedFirst
    <3> QED
      BY <1>10, <2>1, <3>1
  <2>2. CASE edits # <<>>
    <3>1. PICK q \in Path : Changed(q, replica, t)
      BY <1>10, <2>2
    <3>2. CASE q # p
      BY <1>4, <3>1, <3>2 DEF Changed
    <3>3. CASE q = p
      <4>1. Len(replica.journal[p]) >= Len(t.journal[p]) /\ Changed(p, replica, t)
        BY <1>10, <3>1, <3>3
      <4>2. Changed(p, replica', t)
        BY <1>1, <1>2, <1>4, <1>7, <1>10, <4>1, ChangedStays
      <4> QED
        BY <4>2
    <3> QED
      BY <3>2, <3>3
  <2> QED
    BY <2>1, <2>2
<1>13. /\ receipt' = [bundle |-> receipt'.bundle, checkpoint |-> receipt'.checkpoint,
                      print |-> receipt'.print]
       /\ \E n \in DOMAIN was' :
              receipt'.checkpoint = Cursor(Stream, n) /\ Mirrors(receipt'.print, was'[n])
  BY <1>2, <1>9 DEF ReplicaInv
<1>14. receipt' # NoReceipt /\ NoReceipt' = NoReceipt
  BY <1>2, <1>9 DEF NoReceipt
<1> QED
  BY <1>7, <1>8, <1>10, <1>11, <1>12, <1>13, <1>14 DEF ReplicaInv, t

-----------------------------------------------------------------------------
(* An exchange, and a behaviour of either reader.                          *)

WholeInv == ReadersInv /\ FeedInv /\ Away /\ Near

\* What was in the replica's past stays there.
LEMMA ReplicaUnder ==
    ASSUME ReplicaInv, \A n \in DOMAIN was : n \in DOMAIN was' /\ was'[n] = was[n],
           UNCHANGED <<replica, receipt, edits>>
    PROVE  ReplicaInv'
<1>1. receipt' = receipt /\ replica' = replica /\ edits' = edits
  OBVIOUS
<1>2. /\ ReplicaOK(replica) /\ edits \in Seq(Range(edits))
      /\ receipt = NoReceipt => replica = NoFiles /\ edits = <<>>
  BY DEF ReplicaInv
<1>3. ASSUME receipt # NoReceipt
      PROVE  /\ receipt = [bundle |-> receipt.bundle, checkpoint |-> receipt.checkpoint,
                           print |-> receipt.print]
             /\ ReplicaOK(receipt.print)
             /\ \A p \in Path : Len(replica.journal[p]) >= Len(receipt.print.journal[p])
             /\ edits = <<>> => replica = receipt.print
             /\ edits # <<>> =>
                   replica = Last(edits) /\ \E p \in Path : Changed(p, replica, receipt.print)
  BY <1>3 DEF ReplicaInv
<1>4. ASSUME receipt # NoReceipt
      PROVE  \E n \in DOMAIN was' :
                receipt.checkpoint = Cursor(Stream, n) /\ Mirrors(receipt.print, was'[n])
  <2>1. PICK n \in DOMAIN was :
            receipt.checkpoint = Cursor(Stream, n) /\ Mirrors(receipt.print, was[n])
    BY <1>4 DEF ReplicaInv
  <2> QED
    BY <2>1
<1> QED
  BY <1>1, <1>2, <1>3, <1>4 DEF ReplicaInv, NoReceipt

LEMMA ExchangeStart ==
    ASSUME ExchangeInit, IInv
    PROVE  HistoryInv /\ ExportInv /\ BundlesInv /\ ReplicaInv
<1>1. /\ Init /\ head = Untracked /\ was = <<>> /\ export = NotExporting /\ bundles = {}
      /\ replica = NoFiles /\ receipt = NoReceipt /\ edits = <<>>
  BY DEF ExchangeInit, Init
<1>2. MomentOK(Now)
  <2>1. PICK h \in Homes : docs = h.docs /\ journal = h.journal
    BY <1>1 DEF Init
  <2>2. \A p \in Path : Journalled(docs[p], journal[p])
    BY <2>1, HomeJournalled
  <2>3. Now.docs = docs /\ Now.journal = journal
    BY DEF Now
  <2> QED
    BY <2>2, <2>3 DEF IInv, MomentOK
<1>3. DOMAIN was = {} /\ 1..head.sequence = {}
  BY <1>1 DEF Untracked
<1>4. HistoryInv
  BY <1>1, <1>2, <1>3 DEF HistoryInv
<1>5. ExportInv /\ BundlesInv
  BY <1>1 DEF ExportInv, BundlesInv
<1>6. ReplicaInv
  <2>1. ReplicaOK(NoFiles)
    <3> DEFINE ds == [p \in Path |-> NoDoc]
               js == [p \in Path |-> <<>>]
    <3>1. ds \in [Path -> Documents \cup {NoDoc}] /\ js \in [Path -> Seq(Rows)]
      OBVIOUS
    <3> HIDE DEF ds, js
    <3>2. NoFiles = [docs |-> ds, journal |-> js, trail |-> <<>>]
      BY DEF NoFiles, ds, js
    <3> QED
      BY <3>1, <3>2 DEF ReplicaOK
  <2>2. edits \in Seq(Range(edits))
    BY <1>1
  <2> QED
    BY <1>1, <2>1, <2>2 DEF ReplicaInv
<1> QED
  BY <1>4, <1>5, <1>6

LEMMA ExchangeSteps ==
    ASSUME IInv, TellInv, FeedInv, IInv', HistoryInv, ExportInv, BundlesInv, ReplicaInv,
           ExchangeNext
    PROVE  HistoryInv' /\ ExportInv' /\ BundlesInv' /\ ReplicaInv'
<1>1. CASE Source
  <2>1. HistoryInv' /\ Goes
    BY <1>1, SourceGoes
  <2>2. export' = export /\ bundles' = bundles /\ UNCHANGED <<replica, receipt, edits>>
    BY <1>1 DEF Source, exchange
  <2>3. ExportInv' /\ BundlesInv'
    BY <2>1, <2>2, ExportUnder, BundlesUnder
  <2>4. \A n \in DOMAIN was : n \in DOMAIN was' /\ was'[n] = was[n]
    BY <2>1 DEF Goes
  <2> QED
    BY <2>1, <2>2, <2>3, <2>4, ReplicaUnder
<1>2. ASSUME UNCHANGED <<feedVars, was>> PROVE HistoryInv'
  BY <1>2 DEF HistoryInv, feedVars, vars, store, Now, EventsTellMoments, Between, Untracked
<1>3. CASE Export /\ UNCHANGED <<feedVars, was>>
  <2>1. ExportInv' /\ BundlesInv' /\ UNCHANGED <<replica, receipt, edits>>
    BY <1>3, ExportKeeps
  <2> QED
    BY <1>2, <1>3, <2>1, ReplicaUnder
<1>4. CASE Receive /\ UNCHANGED <<feedVars, was>>
  <2>1. export' = export /\ bundles' = bundles
    BY <1>4 DEF Receive, Apply, Edit
  <2>2. ExportInv' /\ BundlesInv'
    <3>1. head' = head /\ docs' = docs /\ journal' = journal /\ was' = was /\ events' = events
      BY <1>4 DEF feedVars, vars, store
    <3> QED
      BY <2>1, <3>1 DEF ExportInv, Spans, Fresh, BundlesInv, BundleOK, Live
  <2>3. ReplicaInv'
    <3>1. ASSUME NEW b \in bundles, Apply(b) PROVE ReplicaInv'
      BY <1>4, <3>1, ApplyKeeps
    <3>2. ASSUME NEW p \in Path, NEW how \in {"erase", "delete"}, Edit(p, how)
          PROVE  ReplicaInv'
      BY <1>4, <3>2, EditKeeps
    <3> QED
      BY <1>4, <3>1, <3>2 DEF Receive
  <2> QED
    BY <1>2, <1>4, <2>2, <2>3
<1> QED
  BY <1>1, <1>3, <1>4 DEF ExchangeNext

LEMMA WholeStart == ReadersInit => WholeInv
<1> SUFFICES ASSUME ReadersInit PROVE WholeInv
  OBVIOUS
<1>1. ReadersInv /\ FeedInv /\ IInv
  BY ReadersStart, FeedStarts DEF ReadersInit, FeedInit, ExchangeInit, ReadersInv
<1>2. CASE FeedInit /\ NoExchange
  BY <1>1, <1>2 DEF FeedInit, NoExchange, WholeInv, Away, Near
<1>3. CASE ExchangeInit
  <2>1. host = "away"
    BY <1>3 DEF ExchangeInit
  <2> QED
    BY <1>1, <1>3, <2>1, ExchangeStart DEF WholeInv, Away, Near
<1> QED
  BY <1>2, <1>3 DEF ReadersInit

LEMMA WholeSteps == WholeInv /\ [ReadersNext]_exchangeVars => WholeInv'
<1> SUFFICES ASSUME WholeInv, [ReadersNext]_exchangeVars PROVE WholeInv'
  OBVIOUS
<1>1. ReadersInv' /\ IInv /\ IInv' /\ TellInv
  BY ReadersSteps DEF WholeInv, ReadersInv
<1>2. ASSUME [Next]_vars PROVE FeedInv'
  BY <1>1, <1>2, FeedSteps DEF WholeInv
<1>3. CASE Following /\ FeedNext /\ UNCHANGED <<exchange, was>>
  <2>1. [Next]_vars
    BY <1>3 DEF FeedNext, Store, Follow, MeetGap, List
  <2>2. host' # "away"
    BY <1>3 DEF Following, FeedNext, Store, Follow, MeetGap, List
  <2>3. NoExchange' /\ was' = <<>>
    BY <1>3 DEF WholeInv, Near, Following, NoExchange, exchange
  <2> QED
    BY <1>1, <1>2, <2>1, <2>2, <2>3 DEF WholeInv, Away, Near
<1>4. CASE ~Following /\ ExchangeNext
  <2>1. host = "away" /\ host' = host
    BY <1>4 DEF Following, ExchangeNext, Source, Store, feedVars
  <2>2. [Next]_vars
    BY <1>4 DEF ExchangeNext, Source, Store, feedVars
  <2>3. HistoryInv' /\ ExportInv' /\ BundlesInv' /\ ReplicaInv'
    BY <1>1, <1>4, <2>1, ExchangeSteps DEF WholeInv, Away
  <2> QED
    BY <1>1, <1>2, <2>1, <2>2, <2>3 DEF WholeInv, Away, Near
<1>5. CASE UNCHANGED exchangeVars
  <2>1. UNCHANGED <<docs, journal, head, events, host, export, bundles, replica, receipt,
                    edits, was>> /\ UNCHANGED vars
    BY <1>5 DEF exchangeVars, exchange, feedVars, vars, store
  <2>2. Near'
    BY <2>1 DEF WholeInv, Near, NoExchange, NotExporting, NoFiles, NoReceipt
  <2>3. ASSUME host = "away" PROVE HistoryInv' /\ ExportInv' /\ BundlesInv' /\ ReplicaInv'
    <3>1. HistoryInv /\ ExportInv /\ BundlesInv /\ ReplicaInv
      BY <2>3 DEF WholeInv, Away
    <3>2. HistoryInv'
      BY <2>1, <3>1 DEF HistoryInv, Now, EventsTellMoments, Between, Untracked
    <3>3. ExportInv' /\ BundlesInv'
      BY <2>1, <3>1 DEF ExportInv, Spans, Fresh, BundlesInv, BundleOK, Live
    <3> QED
      BY <2>1, <3>1, <3>2, <3>3, ReplicaUnder
  <2> QED
    BY <1>1, <1>2, <2>1, <2>2, <2>3 DEF WholeInv, Away
<1> QED
  BY <1>3, <1>4, <1>5 DEF ReadersNext

\* What a bundle carries of a path is what the source had at its checkpoint.
LEMMA BundlesTell == HistoryInv /\ BundlesInv => BundleIsOneMoment
<1> SUFFICES ASSUME HistoryInv, BundlesInv, NEW b \in bundles, NEW p \in DOMAIN b.updates
             PROVE  LET doc == was[b.checkpoint.sequence].docs[p]
                    IN  IF b.updates[p].state = "deleted" THEN doc = NoDoc
                        ELSE doc # NoDoc /\ b.updates[p] = Present(doc)
  BY DEF BundleIsOneMoment
<1> DEFINE doc  == was[b.checkpoint.sequence].docs[p]
           rows == was[b.checkpoint.sequence].journal[p]
           u    == b.updates[p]
<1>1. Carries(u, doc, rows)
  BY DEF BundlesInv, BundleOK
<1> HIDE DEF doc, rows, u
<1>2. CASE doc # NoDoc
  <2>1. u = Present(doc) /\ u.state = "present"
    BY <1>1, <1>2 DEF Carries, Present
  <2> QED
    BY <1>2, <2>1 DEF doc, u
<1>3. CASE doc = NoDoc
  <2>1. u.state = "deleted"
    BY <1>1, <1>3 DEF Carries, Deletion
  <2> QED
    BY <1>3, <2>1 DEF doc, u
<1> QED
  BY <1>2, <1>3

\* A ready replica mirrors its source at the checkpoint.
LEMMA ReadyMirrors ==
    ASSUME HistoryInv, ReplicaInv, Status = "ready"
    PROVE  LET w == was[receipt.checkpoint.sequence]
           IN  ReplicaOK(replica) /\ MomentOK(w) /\ Mirrors(replica, w)
<1>1. receipt # NoReceipt /\ receipt.print = replica
  BY DEF Status, Fingerprint
<1>2. PICK n \in DOMAIN was :
          receipt.checkpoint = Cursor(Stream, n) /\ Mirrors(receipt.print, was[n])
  BY <1>1 DEF ReplicaInv
<1>3. receipt.checkpoint.sequence = n
  BY <1>2 DEF Cursor
<1> QED
  BY <1>1, <1>2, <1>3 DEF HistoryInv, ReplicaInv

LEMMA SameFunctions ==
    ASSUME NEW S, NEW T, NEW f \in [S -> T], NEW g \in [S -> T], \A x \in S : f[x] = g[x]
    PROVE  f = g
OBVIOUS

LEMMA ReplicaIs == HistoryInv /\ ReplicaInv => ReplicaIsSource /\ ErasureTravels
<1> SUFFICES ASSUME HistoryInv, ReplicaInv, Status = "ready"
             PROVE  /\ replica.docs = was[receipt.checkpoint.sequence].docs
                    /\ ErasureTravels
  BY DEF ReplicaIsSource, ErasureTravels
<1> DEFINE w == was[receipt.checkpoint.sequence]
<1>1. ReplicaOK(replica) /\ MomentOK(w) /\ Mirrors(replica, w)
  BY ReadyMirrors
<1>2. replica.docs = w.docs
  <2>1. /\ replica.docs \in [Path -> Documents \cup {NoDoc}]
        /\ w.docs \in [Path -> Documents \cup {NoDoc}]
    BY <1>1 DEF ReplicaOK, MomentOK
  <2>2. \A p \in Path : replica.docs[p] = w.docs[p]
    BY <1>1 DEF Mirrors
  <2> QED
    BY <2>1, <2>2, SameFunctions
<1>3. ASSUME NEW p \in Path, NEW i \in DOMAIN replica.journal[p],
             replica.journal[p][i].content # Cleared
      PROVE  \E k \in DOMAIN w.journal[p] :
                 /\ w.journal[p][k].version = replica.journal[p][i].version
                 /\ w.journal[p][k].content = replica.journal[p][i].content
  BY <1>1, <1>3 DEF Mirrors, Travels
<1>4. ErasureTravels
  BY <1>3 DEF ErasureTravels
<1> QED
  BY <1>2, <1>4

LEMMA ExchangeFollows ==
    HistoryInv /\ BundlesInv /\ ReplicaInv => ReplicaFollows
<1> SUFFICES ASSUME HistoryInv, BundlesInv, ReplicaInv PROVE ReplicaFollows
  OBVIOUS
<1>1. BundleIsOneMoment /\ ReplicaIsSource /\ ErasureTravels
  BY BundlesTell, ReplicaIs
<1>2. DeltaApplies
  BY FitsAgrees DEF DeltaApplies
<1>3. LocalWorkStands
  BY DEF ReplicaInv, LocalWorkStands
<1> QED
  BY <1>1, <1>2, <1>3 DEF ReplicaFollows

\* Where a host reads the feed there is no bundle and no replica.
LEMMA HostFollows == NoExchange => ReplicaFollows
<1> SUFFICES ASSUME NoExchange PROVE ReplicaFollows
  OBVIOUS
<1>1. Status = "empty"
  BY DEF NoExchange, Status
<1> QED
  BY <1>1 DEF NoExchange, ReplicaFollows, BundleIsOneMoment, ReplicaIsSource, ErasureTravels,
              DeltaApplies, LocalWorkStands

LEMMA WholeFollows == WholeInv => ReplicaFollows
BY ExchangeFollows, HostFollows DEF WholeInv, Away, Near

\* A replica follows its source from moment to moment (exchange.rs:106): every
\* bundle tells of one moment of a source that went on changing while it was
\* collected, a ready replica is the source at the checkpoint of the last
\* bundle applied, with none of the texts the source had erased by then, a
\* delta of the state the replica stands at never disagrees with it, and what
\* people left in the replica is not replaced.
THEOREM ReplicaFollowsSource == ReadersSpec => []ReplicaFollows
BY WholeStart, WholeSteps, WholeFollows, PTL DEF ReadersSpec
===============================================================================
