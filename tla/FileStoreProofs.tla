---------------------------- MODULE FileStoreProofs ----------------------------
(***************************************************************************)
(* Proofs about FileStore for every set of paths and texts, every home the *)
(* scope may start from and every limit: types, versions given once,       *)
(* redaction marks, a feed without holes, the version clock, the records   *)
(* that stay, whole erasures and the feed that is the history.             *)
(***************************************************************************)
EXTENDS FileStore, SequenceTheorems, FiniteSetTheorems, TLAPS

-----------------------------------------------------------------------------
(* Journals.                                                               *)

\* The parts of a row.
LEMMA RowParts ==
    ASSUME NEW r \in Rows
    PROVE  /\ r.version \in Nat /\ r.version > 0 /\ r.version \in Versions
           /\ r.action \in RowActions /\ r.content \in Contents /\ r.mark \in Marks
           /\ r = RowOf(r.version, r.action, r.content, r.mark)
BY DEF Rows, Versions, RowOf

LEMMA RowsParts ==
    ASSUME NEW rows \in Seq(Rows), NEW i \in DOMAIN rows
    PROVE  /\ rows[i] \in Rows
           /\ rows[i].version \in Nat /\ rows[i].version > 0
<1>1. rows[i] \in Rows
  OBVIOUS
<1> QED
  BY <1>1, RowParts

\* The next version is past every row.
LEMMA NextIsPast ==
    ASSUME NEW rows \in Seq(Rows), Increasing(rows)
    PROVE  /\ NextVersion(rows) \in Versions
           /\ \A i \in DOMAIN rows : rows[i].version < NextVersion(rows)
<1>1. CASE rows = <<>>
  BY <1>1 DEF NextVersion, Versions
<1>2. CASE rows # <<>>
  <2>1. Len(rows) \in DOMAIN rows /\ Len(rows) \in Nat
    BY <1>2
  <2>2. \A i \in DOMAIN rows : rows[i].version \in Nat /\ rows[i].version > 0
    BY RowsParts
  <2>3. \A i \in DOMAIN rows : rows[i].version <= rows[Len(rows)].version
    <3> SUFFICES ASSUME NEW i \in DOMAIN rows
                 PROVE  rows[i].version <= rows[Len(rows)].version
      OBVIOUS
    <3>1. i = Len(rows) \/ i < Len(rows)
      BY DEF Increasing
    <3> QED
      BY <3>1, <2>1, <2>2 DEF Increasing
  <2> QED
    BY <1>2, <2>1, <2>2, <2>3 DEF NextVersion, Versions
<1> QED
  BY <1>1, <1>2

\* The version after a live document is past it and past every row.
LEMMA AfterIsPast ==
    ASSUME NEW rows \in Seq(Rows), Increasing(rows), NEW doc \in Documents
    PROVE  /\ After(rows, doc) \in Versions
           /\ After(rows, doc) > doc.version
           /\ \A i \in DOMAIN rows : rows[i].version < After(rows, doc)
<1>1. doc.version \in Nat /\ doc.version > 0
  BY DEF Documents, Versions
<1>2. \A i \in DOMAIN rows : rows[i].version \in Nat
  BY RowsParts
<1>3. NextVersion(rows) \in Nat /\ NextVersion(rows) > 0
  BY NextIsPast DEF Versions
<1> QED
  BY <1>1, <1>2, <1>3, NextIsPast DEF After, Versions

\* A row past all others goes on top.
LEMMA Stacked ==
    ASSUME NEW rows \in Seq(Rows), Increasing(rows), NEW r \in Rows,
           \A i \in DOMAIN rows : rows[i].version < r.version
    PROVE  /\ Append(rows, r) \in Seq(Rows)
           /\ Increasing(Append(rows, r))
           /\ \A i \in DOMAIN Append(rows, r) :
                Append(rows, r)[i].version >= r.version =>
                    i = Len(Append(rows, r)) /\ Append(rows, r)[i] = r
           /\ (\A i \in DOMAIN rows : Marked(rows[i])) /\ Marked(r) =>
                \A i \in DOMAIN Append(rows, r) : Marked(Append(rows, r)[i])
<1> DEFINE new == Append(rows, r)
<1>1. /\ new \in Seq(Rows) /\ Len(new) = Len(rows) + 1 /\ Len(rows) \in Nat
      /\ DOMAIN new = 1..(Len(rows) + 1) /\ DOMAIN rows = 1..Len(rows)
      /\ new[Len(rows) + 1] = r
      /\ \A i \in 1..Len(rows) : new[i] = rows[i]
  OBVIOUS
<1>2. \A i \in 1..Len(rows) : rows[i].version \in Nat
  BY RowsParts
<1>3. r.version \in Nat
  BY RowParts
<1> HIDE DEF new
<1>4. Increasing(new)
  <2> SUFFICES ASSUME NEW i \in DOMAIN new, NEW j \in DOMAIN new, i < j
               PROVE  new[i].version < new[j].version
    BY DEF Increasing
  <2>1. i \in 1..Len(rows)
    BY <1>1
  <2>2. j \in 1..Len(rows) \/ j = Len(rows) + 1
    BY <1>1
  <2> QED
    BY <1>1, <2>1, <2>2 DEF Increasing
<1>5. \A i \in DOMAIN new : new[i].version >= r.version => i = Len(new) /\ new[i] = r
  <2> SUFFICES ASSUME NEW i \in DOMAIN new, new[i].version >= r.version
               PROVE  i = Len(new) /\ new[i] = r
    OBVIOUS
  <2>1. CASE i \in 1..Len(rows)
    BY <1>1, <1>2, <1>3, <2>1
  <2>2. CASE i = Len(rows) + 1
    BY <1>1, <2>2
  <2> QED
    BY <1>1, <2>1, <2>2
<1>6. (\A i \in DOMAIN rows : Marked(rows[i])) /\ Marked(r) =>
        \A i \in DOMAIN new : Marked(new[i])
  <2> SUFFICES ASSUME \A i \in DOMAIN rows : Marked(rows[i]), Marked(r), NEW i \in DOMAIN new
               PROVE  Marked(new[i])
    OBVIOUS
  <2>1. i \in 1..Len(rows) \/ i = Len(rows) + 1
    BY <1>1
  <2> QED
    BY <1>1, <2>1
<1> QED
  BY <1>1, <1>4, <1>5, <1>6 DEF new

-----------------------------------------------------------------------------
(* One path: its document and its journal.                                 *)

PathInv(doc, rows) ==
    /\ doc \in Documents \cup {NoDoc}
    /\ rows \in Seq(Rows)
    /\ Increasing(rows)
    /\ \A i \in DOMAIN rows : Marked(rows[i])
    /\ doc # NoDoc => Marked(doc) /\ Agree(doc, rows)

\* The parts of a new row and document.
LEMMA MadeParts ==
    ASSUME NEW v \in Versions, NEW action \in RowActions,
           NEW content \in Contents, NEW mark \in Marks
    PROVE  /\ RowOf(v, action, content, mark) \in Rows
           /\ RowOf(v, action, content, mark).version = v
           /\ RowOf(v, action, content, mark).action = action
           /\ RowOf(v, action, content, mark).content = content
           /\ RowOf(v, action, content, mark).mark = mark
           /\ DocOf(v, content, mark) \in Documents
           /\ DocOf(v, content, mark).version = v
           /\ DocOf(v, content, mark).content = content
           /\ DocOf(v, content, mark).mark = mark
           /\ DocOf(v, content, mark) # NoDoc
<1>1. DocOf(v, content, mark) \in Documents
  BY DEF DocOf, Documents
<1>2. RowOf(v, action, content, mark) \in Rows
  BY DEF RowOf, Rows
<1> QED
  BY <1>1, <1>2, NamesAssumption DEF RowOf, DocOf

\* A write puts a document beside its row.
LEMMA Put ==
    ASSUME NEW doc, NEW rows, PathInv(doc, rows),
           NEW v \in Versions, \A i \in DOMAIN rows : rows[i].version < v,
           NEW action \in {"created", "modified"},
           NEW content \in Contents, NEW mark \in Marks,
           mark = "redacted" <=> content = Cleared
    PROVE  PathInv(DocOf(v, content, mark), Append(rows, RowOf(v, action, content, mark)))
<1> DEFINE r == RowOf(v, action, content, mark)
           d == DocOf(v, content, mark)
<1>1. /\ r \in Rows /\ r.version = v /\ r.action = action
      /\ r.content = content /\ r.mark = mark
      /\ d \in Documents /\ d.version = v /\ d.content = content /\ d.mark = mark
  BY MadeParts DEF RowActions
<1>2. Marked(r) /\ Marked(d)
  BY <1>1 DEF Marked
<1> HIDE DEF r, d
<1>3. /\ Append(rows, r) \in Seq(Rows) /\ Increasing(Append(rows, r))
      /\ \A i \in DOMAIN Append(rows, r) :
            Append(rows, r)[i].version >= r.version =>
                i = Len(Append(rows, r)) /\ Append(rows, r)[i] = r
      /\ \A i \in DOMAIN Append(rows, r) : Marked(Append(rows, r)[i])
  BY <1>1, <1>2, Stacked DEF PathInv
<1>4. Agree(d, Append(rows, r))
  BY <1>1, <1>3 DEF Agree
<1> QED
  BY <1>1, <1>2, <1>3, <1>4 DEF PathInv, r, d

\* A removal leaves only the row.
LEMMA Removed ==
    ASSUME NEW doc, NEW rows, PathInv(doc, rows),
           NEW v \in Versions, \A i \in DOMAIN rows : rows[i].version < v,
           NEW content \in Contents, NEW mark \in Marks,
           mark = "redacted" <=> content = Cleared
    PROVE  PathInv(NoDoc, Append(rows, RowOf(v, "deleted", content, mark)))
<1> DEFINE r == RowOf(v, "deleted", content, mark)
<1>1. r \in Rows /\ r.version = v /\ r.content = content /\ r.mark = mark
  BY MadeParts DEF RowActions
<1>2. Marked(r)
  BY <1>1 DEF Marked
<1> HIDE DEF r
<1>3. /\ Append(rows, r) \in Seq(Rows) /\ Increasing(Append(rows, r))
      /\ \A i \in DOMAIN Append(rows, r) : Marked(Append(rows, r)[i])
  BY <1>1, <1>2, Stacked DEF PathInv
<1> QED
  BY <1>3 DEF PathInv, r

\* Clearing keeps numbers and actions.
LEMMA ClearParts ==
    /\ \A x \in Rows : /\ Clear(x) \in Rows /\ Marked(Clear(x))
                       /\ Clear(x).version = x.version /\ Clear(x).action = x.action
                       /\ Clear(x).content = Cleared /\ Clear(x).mark = "redacted"
    /\ \A x \in Documents : /\ Clear(x) \in Documents /\ Marked(Clear(x))
                            /\ Clear(x).version = x.version
                            /\ Clear(x).content = Cleared /\ Clear(x).mark = "redacted"
<1>1. Cleared \in Contents /\ "redacted" \in Marks
  BY DEF Contents, Marks
<1>2. \A x \in Rows : /\ Clear(x) \in Rows
                      /\ Clear(x).version = x.version /\ Clear(x).action = x.action
                      /\ Clear(x).content = Cleared /\ Clear(x).mark = "redacted"
  BY <1>1 DEF Clear, Rows
<1>3. \A x \in Documents : /\ Clear(x) \in Documents
                           /\ Clear(x).version = x.version
                           /\ Clear(x).content = Cleared /\ Clear(x).mark = "redacted"
  BY <1>1 DEF Clear, Documents
<1> QED
  BY <1>2, <1>3 DEF Marked

LEMMA Blanked ==
    ASSUME NEW doc, NEW rows, PathInv(doc, rows)
    PROVE  /\ PathInv(IF doc # NoDoc THEN Clear(doc) ELSE doc,
                      [i \in DOMAIN rows |-> Clear(rows[i])])
           /\ Len([i \in DOMAIN rows |-> Clear(rows[i])]) = Len(rows)
<1> DEFINE new == [i \in DOMAIN rows |-> Clear(rows[i])]
<1>1. \A i \in DOMAIN rows : rows[i] \in Rows
  BY RowsParts DEF PathInv
<1>2. /\ new \in Seq(Rows) /\ Len(new) = Len(rows) /\ DOMAIN new = DOMAIN rows
      /\ \A i \in DOMAIN new : /\ Marked(new[i])
                               /\ new[i].version = rows[i].version
                               /\ new[i].action = rows[i].action
                               /\ new[i].content = Cleared /\ new[i].mark = "redacted"
  BY <1>1, ClearParts DEF PathInv
<1> HIDE DEF new
<1>3. Increasing(new)
  BY <1>2 DEF PathInv, Increasing
<1>4. CASE doc = NoDoc
  BY <1>2, <1>3, <1>4 DEF PathInv, new
<1>5. CASE doc # NoDoc
  <2>1. doc \in Documents
    BY <1>5 DEF PathInv
  <2>2. /\ Clear(doc) \in Documents /\ Marked(Clear(doc))
        /\ Clear(doc).version = doc.version
        /\ Clear(doc).content = Cleared /\ Clear(doc).mark = "redacted"
    BY <2>1, ClearParts
  <2>3. Agree(Clear(doc), new)
    BY <1>2, <1>5, <2>2 DEF PathInv, Agree
  <2> QED
    BY <1>2, <1>3, <1>5, <2>2, <2>3 DEF PathInv, new
<1> QED
  BY <1>4, <1>5

-----------------------------------------------------------------------------
(* The feed.                                                               *)

FeedTypes == head \in Heads /\ \A n \in DOMAIN events : events[n] \in Events

\* A mutation announces one event or two.
LEMMA AnnouncedParts ==
    ASSUME NEW change \in Events
    PROVE  /\ Len(Announced(change)) \in {1, 2}
           /\ \A i \in 1..Len(Announced(change)) : Announced(change)[i] \in Events
<1>1. Change("tracking_started", NoPath, 0) \in Events
  BY DEF Change, Events, Kinds, RowActions
<1> QED
  BY <1>1 DEF Announced

\* Recording an event keeps the feed whole.
LEMMA Recorded ==
    ASSUME FeedTypes, FeedWhole, NEW change \in Events, Record(change)
    PROVE  FeedTypes' /\ FeedWhole'
<1> DEFINE new == Announced(change)
           last == head.sequence
           next == last + Len(new)
<1>1. /\ Len(new) \in {1, 2} /\ \A i \in 1..Len(new) : new[i] \in Events
  BY AnnouncedParts
<1>2. /\ head' = [head EXCEPT !.stream = Stream, !.sequence = next]
      /\ events' = [n \in DOMAIN events \cup (last + 1 .. next) |->
                        IF n > last THEN new[n - last] ELSE events[n]]
      /\ next <= MaxSequence
  BY DEF Record, Room
<1>3. /\ head \in [stream : {Stream, NoStream}, sequence : Nat, floor : Nat]
      /\ last \in Nat /\ head.floor \in Nat
      /\ head.floor <= last
      /\ DOMAIN events = head.floor + 1 .. last
      /\ \A n \in DOMAIN events : events[n] \in Events
  BY DEF FeedTypes, FeedWhole, Heads
<1> HIDE DEF new
<1>4. next \in Nat /\ next > last
  <2>1. Len(new) = 1 \/ Len(new) = 2
    BY <1>1
  <2>2. last \in Nat
    BY <1>3
  <2>3. \A l \in {1, 2} : last + l \in Nat /\ last + l > last
    BY <2>2
  <2> QED
    BY <2>1, <2>3
<1>5. /\ head' \in Heads /\ head'.stream = Stream
      /\ head'.sequence = next /\ head'.floor = head.floor
  BY <1>2, <1>3, <1>4 DEF Heads
<1>6. DOMAIN events' = head.floor + 1 .. next
  BY <1>2, <1>3, <1>4
<1>7. ASSUME NEW n \in DOMAIN events' PROVE events'[n] \in Events
  <2>1. n \in head.floor + 1 .. next
    BY <1>6
  <2>2. CASE n > last
    <3>1. n - last \in 1..Len(new)
      BY <1>1, <1>3, <1>4, <2>1, <2>2
    <3> QED
      BY <1>1, <1>2, <2>2, <3>1, <1>6
  <2>3. CASE ~(n > last)
    <3>1. n \in DOMAIN events
      BY <1>3, <1>4, <2>1, <2>3
    <3> QED
      BY <1>2, <1>3, <2>3, <3>1
  <2> QED
    BY <2>2, <2>3
<1>8. head' # Untracked
  BY <1>5, NamesAssumption DEF Untracked
<1>9. head'.floor <= head'.sequence /\ head'.sequence <= MaxSequence
  BY <1>2, <1>3, <1>4, <1>5
<1>10. FeedWhole'
  BY <1>5, <1>6, <1>8, <1>9, NamesAssumption DEF FeedWhole
<1> QED
  BY <1>5, <1>7, <1>10 DEF FeedTypes

\* The events that mutations record are events.
LEMMA ChangeTypes ==
    ASSUME NEW kind \in Kinds, NEW p \in Path \cup {NoPath}, NEW v \in Nat
    PROVE  /\ Change(kind, p, v) \in Events
           /\ \A src \in Path, was \in Versions : Renaming(src, was, p, v) \in Events
<1>1. Change(kind, p, v) \in Events
  BY DEF Change, Events
<1>2. Change("renamed", p, v) \in Events
  BY DEF Change, Events, Kinds
<1>3. \A src \in Path, was \in Versions : Renaming(src, was, p, v) \in Events
  BY <1>2 DEF Renaming, Events, Versions
<1> QED
  BY <1>1, <1>3

-----------------------------------------------------------------------------
(* The invariant.                                                          *)

IInv ==
    /\ docs \in [Path -> Documents \cup {NoDoc}]
    /\ journal \in [Path -> Seq(Rows)]
    /\ trail \in Seq(Acts)
    /\ \A p \in Path : PathInv(docs[p], journal[p])
    /\ FeedTypes /\ FeedWhole

LEMMA Gives ==
    IInv => TypeOK /\ VersionsOnce /\ SkeletonsMarked /\ FeedWhole
BY DEF IInv, FeedTypes, TypeOK, VersionsOnce, SkeletonsMarked, PathInv, Live

\* A home is well formed, path by path.
LEMMA HomeParts ==
    ASSUME NEW h \in Homes
    PROVE  /\ h.docs \in [Path -> Documents \cup {NoDoc}]
           /\ h.journal \in [Path -> Seq(Rows)]
           /\ h.trail \in Seq(Acts)
           /\ \A p \in Path : PathInv(h.docs[p], h.journal[p])
BY HomesAssumption DEF IsHome, PathInv

LEMMA Starts == Init => IInv
<1> SUFFICES ASSUME Init PROVE IInv
  OBVIOUS
<1>1. PICK h \in Homes : docs = h.docs /\ journal = h.journal /\ trail = h.trail
  BY DEF Init
<1>2. FeedTypes /\ FeedWhole
  <2>1. head = Untracked /\ events = <<>> /\ DOMAIN events = {}
    BY DEF Init
  <2>2. head \in Heads /\ head.sequence = 0 /\ head.floor = 0 /\ head.stream = NoStream
    BY <2>1 DEF Untracked, Heads
  <2> QED
    BY <2>1, <2>2, BoundsAssumption DEF FeedTypes, FeedWhole
<1> QED
  BY <1>1, <1>2, HomeParts DEF IInv

\* The document of a live path, and what may be recorded of it.
LEMMA LiveParts ==
    ASSUME NEW p, PathInv(docs[p], journal[p]), Live(p)
    PROVE  /\ docs[p] \in Documents
           /\ docs[p].version \in Versions
           /\ docs[p].content \in Contents /\ docs[p].mark \in Marks
           /\ docs[p].mark = "redacted" <=> docs[p].content = Cleared
           /\ After(journal[p], docs[p]) \in Versions
           /\ After(journal[p], docs[p]) > docs[p].version
           /\ \A i \in DOMAIN journal[p] : journal[p][i].version < After(journal[p], docs[p])
<1>1. docs[p] \in Documents /\ Marked(docs[p])
  BY DEF PathInv, Live
<1> QED
  BY <1>1, AfterIsPast DEF PathInv, Documents, Marked

LEMMA WriteKeeps ==
    ASSUME IInv, NEW p \in Path, NEW text \in Text, NEW expected, Write(p, text, expected)
    PROVE  IInv'
<1> DEFINE action  == IF Live(p) THEN "modified" ELSE "created"
           version == IF Live(p) THEN After(journal[p], docs[p]) ELSE NextVersion(journal[p])
<1>1. PathInv(docs[p], journal[p])
  BY DEF IInv
<1>2. /\ version \in Versions
      /\ \A i \in DOMAIN journal[p] : journal[p][i].version < version
  BY <1>1, LiveParts, NextIsPast DEF PathInv
<1>3. /\ text \in Contents /\ text # Cleared /\ "plain" \in Marks
      /\ action \in {"created", "modified"}
  BY NamesAssumption DEF Contents, Marks
<1>4. /\ docs' = [docs EXCEPT ![p] = DocOf(version, text, "plain")]
      /\ journal' = [journal EXCEPT
                        ![p] = Append(@, RowOf(version, action, text, "plain"))]
      /\ trail' = trail /\ Record(Change(action, p, version))
  BY DEF Write
<1> HIDE DEF action, version
<1>5. PathInv(DocOf(version, text, "plain"),
              Append(journal[p], RowOf(version, action, text, "plain")))
  BY <1>1, <1>2, <1>3, Put
<1>6. FeedTypes' /\ FeedWhole'
  BY <1>2, <1>3, <1>4, ChangeTypes, Recorded DEF IInv, Kinds, RowActions, Versions
<1> QED
  BY <1>4, <1>5, <1>6 DEF IInv, PathInv

LEMMA DeleteKeeps ==
    ASSUME IInv, NEW p \in Path, Delete(p)
    PROVE  IInv'
<1> DEFINE version == After(journal[p], docs[p])
           doc == docs[p]
<1>1. PathInv(doc, journal[p]) /\ Live(p)
  BY DEF IInv, Delete
<1>2. /\ docs' = [docs EXCEPT ![p] = NoDoc]
      /\ journal' = [journal EXCEPT
                        ![p] = Append(@, RowOf(version, "deleted", doc.content, doc.mark))]
      /\ trail' = trail /\ Record(Change("deleted", p, version))
  BY DEF Delete
<1>3. /\ version \in Versions
      /\ \A i \in DOMAIN journal[p] : journal[p][i].version < version
      /\ doc.content \in Contents /\ doc.mark \in Marks
      /\ doc.mark = "redacted" <=> doc.content = Cleared
  BY <1>1, LiveParts
<1> HIDE DEF version, doc
<1>4. PathInv(NoDoc, Append(journal[p], RowOf(version, "deleted", doc.content, doc.mark)))
  BY <1>1, <1>3, Removed
<1>5. FeedTypes' /\ FeedWhole'
  BY <1>2, <1>3, ChangeTypes, Recorded DEF IInv, Kinds, RowActions, Versions
<1> QED
  BY <1>2, <1>4, <1>5 DEF IInv, PathInv

LEMMA RenameKeeps ==
    ASSUME IInv, NEW src \in Path, NEW dst \in Path, Rename(src, dst)
    PROVE  IInv'
<1> DEFINE doc == docs[src]
           was == After(journal[src], doc)
           version == NextVersion(journal[dst])
           gone == RowOf(was, "deleted", doc.content, doc.mark)
           come == RowOf(version, "created", doc.content, doc.mark)
<1>1. /\ PathInv(doc, journal[src]) /\ Live(src) /\ ~Live(dst) /\ src # dst
      /\ PathInv(docs[dst], journal[dst])
  BY DEF IInv, Rename
<1>2. /\ docs' = [docs EXCEPT ![src] = NoDoc, ![dst] = DocOf(version, doc.content, doc.mark)]
      /\ journal' = [journal EXCEPT ![src] = Append(@, gone), ![dst] = Append(@, come)]
      /\ trail' = trail /\ Record(Renaming(src, was, dst, version))
  BY DEF Rename
<1>3. /\ was \in Versions
      /\ \A i \in DOMAIN journal[src] : journal[src][i].version < was
      /\ doc.content \in Contents /\ doc.mark \in Marks
      /\ doc.mark = "redacted" <=> doc.content = Cleared
  BY <1>1, LiveParts
<1>4. /\ version \in Versions
      /\ \A i \in DOMAIN journal[dst] : journal[dst][i].version < version
  BY <1>1, NextIsPast DEF PathInv
<1> HIDE DEF doc, was, version
<1>5. PathInv(NoDoc, Append(journal[src], gone))
  BY <1>1, <1>3, Removed
<1>6. PathInv(DocOf(version, doc.content, doc.mark), Append(journal[dst], come))
  BY <1>1, <1>3, <1>4, Put
<1> HIDE DEF gone, come
<1>7. FeedTypes' /\ FeedWhole'
  BY <1>2, <1>3, <1>4, ChangeTypes, Recorded DEF IInv, Kinds, RowActions, Versions
<1>8. /\ docs'[src] = NoDoc /\ journal'[src] = Append(journal[src], gone)
      /\ docs'[dst] = DocOf(version, doc.content, doc.mark)
      /\ journal'[dst] = Append(journal[dst], come)
      /\ \A p \in Path \ {src, dst} : docs'[p] = docs[p] /\ journal'[p] = journal[p]
  BY <1>1, <1>2 DEF IInv
<1>9. \A p \in Path : PathInv(docs'[p], journal'[p])
  BY <1>5, <1>6, <1>8 DEF IInv
<1> QED
  BY <1>2, <1>7, <1>9 DEF IInv, PathInv

LEMMA RedactKeeps ==
    ASSUME IInv, NEW named \in Path \cup {NoPath}, Redact(named)
    PROVE  IInv'
<1> DEFINE targets == Targets(IF named = NoPath THEN Path ELSE {named})
           kind    == IF named = NoPath THEN "scope_erased" ELSE "erased"
           act     == [path |-> named, count |-> Cardinality(targets)]
<1>1. /\ journal' = [p \in Path |->
                        IF p \in targets
                        THEN [i \in DOMAIN journal[p] |-> Clear(journal[p][i])]
                        ELSE journal[p]]
      /\ docs' = [p \in Path |->
                        IF p \in targets /\ Live(p) THEN Clear(docs[p]) ELSE docs[p]]
      /\ trail' = Append(trail, act)
      /\ Record(Change(kind, named, 0))
  BY DEF Redact
<1>2. kind \in Kinds
  BY DEF Kinds
<1>4. act \in Acts
  <2>1. targets \subseteq Path
    BY DEF Targets
  <2>2. Cardinality(targets) \in Nat
    BY <2>1, PathAssumption, FS_Subset, FS_CardinalityType
  <2> QED
    BY <2>2 DEF Acts
<1> HIDE DEF targets, kind, act
<1>3. ASSUME NEW p \in Path PROVE PathInv(docs'[p], journal'[p])
  <2>1. PathInv(docs[p], journal[p])
    BY DEF IInv
  <2>2. CASE p \in targets
    BY <1>1, <2>1, <2>2, Blanked DEF Live
  <2>3. CASE p \notin targets
    BY <1>1, <2>1, <2>3
  <2> QED
    BY <2>2, <2>3
<1>5. FeedTypes' /\ FeedWhole'
  BY <1>1, <1>2, ChangeTypes, Recorded DEF IInv
<1>6. trail' \in Seq(Acts)
  BY <1>1, <1>4 DEF IInv
<1> QED
  BY <1>1, <1>3, <1>5, <1>6 DEF IInv, PathInv

LEMMA RestoreKeeps ==
    ASSUME IInv, NEW h \in Homes, Restore(h)
    PROVE  IInv'
<1>1. /\ docs' = h.docs /\ journal' = h.journal /\ trail' = h.trail
      /\ Record(Change("restored", NoPath, 0))
  BY DEF Restore
<1>2. FeedTypes' /\ FeedWhole'
  BY <1>1, ChangeTypes, Recorded DEF IInv, Kinds
<1> QED
  BY <1>1, <1>2, HomeParts DEF IInv, PathInv

LEMMA PruneKeeps ==
    ASSUME IInv, NEW end, Prune(end)
    PROVE  IInv'
<1>1. /\ head \in Heads /\ head.floor \in Nat /\ head.sequence \in Nat
      /\ head.sequence <= MaxSequence
      /\ DOMAIN events = head.floor + 1 .. head.sequence
      /\ \A n \in DOMAIN events : events[n] \in Events
      /\ head = Untracked <=> head.stream = NoStream
  BY DEF IInv, FeedTypes, FeedWhole, Heads
<1>2. /\ end \in head.floor + 1 .. head.sequence
      /\ events' = [n \in DOMAIN events \ (head.floor + 1 .. end) |-> events[n]]
      /\ head' = [head EXCEPT !.floor = end]
      /\ docs' = docs /\ journal' = journal /\ trail' = trail
  BY DEF Prune
<1>3. end \in Nat /\ end <= head.sequence /\ head.sequence > 0
  BY <1>1, <1>2
<1>4. /\ head' \in Heads /\ head'.floor = end /\ head'.sequence = head.sequence
      /\ head'.stream = head.stream
  BY <1>1, <1>2, <1>3 DEF Heads
<1>5. DOMAIN events' = end + 1 .. head.sequence
  BY <1>1, <1>2, <1>3
<1>6. \A n \in DOMAIN events' : events'[n] \in Events
  BY <1>1, <1>2
<1>7. head # Untracked /\ head' # Untracked
  BY <1>3, <1>4 DEF Untracked
<1>8. FeedTypes' /\ FeedWhole'
  BY <1>1, <1>3, <1>4, <1>5, <1>6, <1>7 DEF FeedTypes, FeedWhole
<1> QED
  BY <1>2, <1>8 DEF IInv, PathInv

LEMMA Steps == IInv /\ [Next]_vars => IInv'
<1> SUFFICES ASSUME IInv, [Next]_vars PROVE IInv'
  OBVIOUS
<1>1. ASSUME NEW p \in Path, WriteAny(p) PROVE IInv'
  BY <1>1, WriteKeeps DEF WriteAny
<1>2. ASSUME NEW p \in Path, Delete(p) PROVE IInv'
  BY <1>2, DeleteKeeps
<1>3. ASSUME NEW src \in Path, NEW dst \in Path, Rename(src, dst) PROVE IInv'
  BY <1>3, RenameKeeps
<1>4. ASSUME NEW named \in Path \cup {NoPath}, Redact(named) PROVE IInv'
  BY <1>4, RedactKeeps
<1>5. ASSUME NEW h \in Homes, Restore(h) PROVE IInv'
  BY <1>5, RestoreKeeps
<1>6. ASSUME NEW end \in head.floor + 1 .. head.sequence, Prune(end) PROVE IInv'
  BY <1>6, PruneKeeps
<1>7. CASE UNCHANGED vars
  BY <1>7 DEF vars, store, IInv, PathInv, FeedTypes, FeedWhole
<1> QED
  BY <1>1, <1>2, <1>3, <1>4, <1>5, <1>6, <1>7 DEF Next, Mutate

THEOREM Inductive == Spec => []IInv
BY Starts, Steps, PTL DEF Spec

\* Every file of a scope keeps its shape, whatever the calls.
THEOREM TypeCorrect == Spec => []TypeOK
BY Inductive, Gives, PTL

\* Version numbers are given once per path and upwards (write.rs:3), however
\* writes, deletes, renames, redactions and restores follow one another.
THEOREM NumbersOnce == Spec => []VersionsOnce
BY Inductive, Gives, PTL

\* Content is gone exactly where the record says so (write.rs:165, 216).
THEOREM MarksTrue == Spec => []SkeletonsMarked
BY Inductive, Gives, PTL

\* The feed has every event above its floor (changes.rs:87, 127).
THEOREM FeedHasNoHole == Spec => []FeedWhole
BY Inductive, Gives, PTL

-----------------------------------------------------------------------------
(* The version clock.                                                      *)

MarkOf(doc, rows) == IF doc # NoDoc THEN doc.version ELSE NextVersion(rows) - 1
ShownOf(doc) == IF doc # NoDoc THEN doc.version ELSE 0

\* The mapping of a path, before and after a step.
LEMMA MappedParts ==
    ASSUME NEW p
    PROVE  /\ Mark(p) = MarkOf(docs[p], journal[p])
           /\ (IF Live(p) THEN docs[p].version ELSE 0) = ShownOf(docs[p])
BY DEF Mark, MarkOf, ShownOf, Live

\* The clock of a path shows the last number given.
LEMMA MarkParts ==
    ASSUME NEW doc, NEW rows, PathInv(doc, rows)
    PROVE  /\ MarkOf(doc, rows) \in Nat
           /\ ShownOf(doc) \in {0, MarkOf(doc, rows)} /\ ShownOf(doc) \in Nat
           /\ doc # NoDoc => /\ After(rows, doc) = MarkOf(doc, rows) + 1
                             /\ ShownOf(doc) # 0
           /\ doc = NoDoc => /\ NextVersion(rows) = MarkOf(doc, rows) + 1
                             /\ ShownOf(doc) = 0
<1>1. NextVersion(rows) \in Nat /\ NextVersion(rows) > 0
  BY NextIsPast DEF PathInv, Versions
<1>2. CASE doc = NoDoc
  BY <1>1, <1>2 DEF MarkOf, ShownOf
<1>3. CASE doc # NoDoc
  <2>1. doc.version \in Nat /\ doc.version > 0
    BY <1>3 DEF PathInv, Documents, Versions
  <2>2. NextVersion(rows) <= doc.version + 1
    <3>1. CASE rows = <<>>
      BY <3>1, <2>1 DEF NextVersion
    <3>2. CASE rows # <<>>
      <4>1. Len(rows) \in DOMAIN rows
        BY <3>2 DEF PathInv
      <4>2. rows[Len(rows)].version \in Nat
        BY <4>1, RowsParts DEF PathInv
      <4>3. rows[Len(rows)].version >= doc.version => rows[Len(rows)].version = doc.version
        BY <1>3, <4>1 DEF PathInv, Agree
      <4> QED
        BY <2>1, <3>2, <4>2, <4>3 DEF NextVersion
    <3> QED
      BY <3>1, <3>2
  <2>3. After(rows, doc) = doc.version + 1
    BY <1>1, <2>1, <2>2 DEF After
  <2> QED
    BY <1>3, <2>1, <2>3 DEF MarkOf, ShownOf
<1> QED
  BY <1>2, <1>3

\* A new row moves the clock of a removed document to its number.
LEMMA MarkMoves ==
    ASSUME NEW rows \in Seq(Rows), NEW r \in Rows
    PROVE  MarkOf(NoDoc, Append(rows, r)) = r.version
<1>1. /\ Append(rows, r) # <<>> /\ Len(Append(rows, r)) = Len(rows) + 1
      /\ Append(rows, r)[Len(rows) + 1] = r
  OBVIOUS
<1> QED
  BY <1>1, RowParts DEF MarkOf, NextVersion

\* Clearing leaves the clock alone.
LEMMA MarkStays ==
    ASSUME NEW doc, NEW rows, PathInv(doc, rows)
    PROVE  /\ MarkOf(IF doc # NoDoc THEN Clear(doc) ELSE doc,
                     [i \in DOMAIN rows |-> Clear(rows[i])]) = MarkOf(doc, rows)
           /\ ShownOf(IF doc # NoDoc THEN Clear(doc) ELSE doc) = ShownOf(doc)
<1> DEFINE new == [i \in DOMAIN rows |-> Clear(rows[i])]
<1>1. CASE doc # NoDoc
  <2>1. doc \in Documents
    BY <1>1 DEF PathInv
  <2>2. Clear(doc) # NoDoc /\ Clear(doc).version = doc.version
    BY <2>1, ClearParts, NamesAssumption
  <2> QED
    BY <1>1, <2>2 DEF MarkOf, ShownOf
<1>2. CASE doc = NoDoc
  <2>1. NextVersion(new) = NextVersion(rows)
    <3>1. Len(new) = Len(rows) /\ rows \in Seq(Rows)
      BY Blanked DEF PathInv
    <3>2. CASE rows = <<>>
      BY <3>1, <3>2 DEF NextVersion
    <3>3. CASE rows # <<>>
      <4>1. Len(rows) \in DOMAIN rows /\ rows[Len(rows)] \in Rows
        BY <3>1, <3>3
      <4>2. new[Len(rows)].version = rows[Len(rows)].version
        BY <4>1, ClearParts
      <4>3. new # <<>>
        BY <3>1, <3>3, <4>1
      <4> QED
        BY <3>1, <3>3, <4>2, <4>3 DEF NextVersion
    <3> QED
      BY <3>2, <3>3
  <2> QED
    BY <1>2, <2>1 DEF MarkOf, ShownOf
<1> QED
  BY <1>1, <1>2

Marks0 == [p \in Path |-> Mark(p)]
Shown0 == [p \in Path |-> IF Live(p) THEN docs[p].version ELSE 0]

\* The clocks as functions, now and after a step.
LEMMA Clocks ==
    ASSUME IInv
    PROVE  /\ Marks0 \in [Path -> Nat] /\ Shown0 \in [Path -> Nat]
           /\ \A p \in Path : /\ Marks0[p] = MarkOf(docs[p], journal[p])
                              /\ Shown0[p] = ShownOf(docs[p])
                              /\ Shown0[p] \in {0, Marks0[p]}
BY MappedParts, MarkParts DEF IInv, Marks0, Shown0

LEMMA ClocksNext ==
    ASSUME IInv'
    PROVE  /\ Marks0' \in [Path -> Nat] /\ Shown0' \in [Path -> Nat]
           /\ \A p \in Path : /\ Marks0'[p] = MarkOf(docs'[p], journal'[p])
                              /\ Shown0'[p] = ShownOf(docs'[p])
                              /\ Shown0'[p] \in {0, Marks0'[p]}
<1>1. \A p \in Path : /\ PathInv(docs'[p], journal'[p])
  BY DEF IInv, PathInv
<1>2. \A p \in Path : /\ Marks0'[p] = MarkOf(docs'[p], journal'[p])
                      /\ Shown0'[p] = ShownOf(docs'[p])
  BY DEF Marks0, Shown0, Mark, MarkOf, ShownOf, Live
<1> QED
  BY <1>1, <1>2, MarkParts DEF Marks0, Shown0

LEMMA WriteTicks ==
    ASSUME IInv, IInv', NEW p \in Path, NEW text \in Text, NEW expected,
           Write(p, text, expected)
    PROVE  Clock!Put(p)
<1> DEFINE action  == IF Live(p) THEN "modified" ELSE "created"
           version == IF Live(p) THEN After(journal[p], docs[p]) ELSE NextVersion(journal[p])
<1>1. /\ docs' = [docs EXCEPT ![p] = DocOf(version, text, "plain")]
      /\ journal' = [journal EXCEPT
                        ![p] = Append(@, RowOf(version, action, text, "plain"))]
  BY DEF Write
<1>2. PathInv(docs[p], journal[p])
  BY DEF IInv
<1>3. version = Marks0[p] + 1 /\ version \in Versions
  BY <1>2, Clocks, MarkParts, LiveParts, NextIsPast DEF Live, PathInv
<1> HIDE DEF version
<1>4. docs'[p] = DocOf(version, text, "plain") /\ docs'[p] # NoDoc /\ docs'[p].version = version
  BY <1>1, <1>3, MadeParts, NamesAssumption DEF IInv, Contents, Marks, RowActions
<1>5. Marks0'[p] = Marks0[p] + 1 /\ Shown0'[p] = Marks0'[p]
  BY <1>3, <1>4, ClocksNext DEF MarkOf, ShownOf
<1>6. \A q \in Path \ {p} : Marks0'[q] = Marks0[q] /\ Shown0'[q] = Shown0[q]
  BY <1>1, Clocks, ClocksNext DEF IInv
<1>7. Marks0' = [Marks0 EXCEPT ![p] = @ + 1]
  BY <1>5, <1>6, Clocks, ClocksNext
<1>8. Shown0' = [Shown0 EXCEPT ![p] = Marks0'[p]]
  BY <1>5, <1>6, Clocks, ClocksNext
<1> QED
  BY <1>7, <1>8 DEF Clock!Put, Clock!Tick, Marks0, Shown0

LEMMA DeleteTicks ==
    ASSUME IInv, IInv', NEW p \in Path, Delete(p)
    PROVE  Clock!Remove(p)
<1> DEFINE version == After(journal[p], docs[p])
           gone == RowOf(version, "deleted", docs[p].content, docs[p].mark)
<1>1. /\ Live(p)
      /\ docs' = [docs EXCEPT ![p] = NoDoc]
      /\ journal' = [journal EXCEPT ![p] = Append(@, gone)]
  BY DEF Delete
<1>2. PathInv(docs[p], journal[p]) /\ docs[p] # NoDoc
  BY <1>1 DEF IInv, Live
<1>3. version = Marks0[p] + 1 /\ Shown0[p] # 0
  BY <1>2, Clocks, MarkParts
<1>4. gone \in Rows /\ gone.version = version
  BY <1>1, <1>2, LiveParts, MadeParts DEF RowActions
<1> HIDE DEF version, gone
<1>5. docs'[p] = NoDoc /\ journal'[p] = Append(journal[p], gone)
  BY <1>1 DEF IInv
<1>6. Marks0'[p] = Marks0[p] + 1 /\ Shown0'[p] = 0
  BY <1>2, <1>3, <1>4, <1>5, MarkMoves, ClocksNext DEF ShownOf, PathInv
<1>7. \A q \in Path \ {p} : Marks0'[q] = Marks0[q] /\ Shown0'[q] = Shown0[q]
  BY <1>1, Clocks, ClocksNext DEF IInv
<1>8. Marks0' = [Marks0 EXCEPT ![p] = @ + 1]
  BY <1>6, <1>7, Clocks, ClocksNext
<1>9. Shown0' = [Shown0 EXCEPT ![p] = 0]
  BY <1>6, <1>7, Clocks, ClocksNext
<1> QED
  BY <1>3, <1>8, <1>9 DEF Clock!Remove, Clock!Tick, Marks0, Shown0

LEMMA RenameTicks ==
    ASSUME IInv, IInv', NEW src \in Path, NEW dst \in Path, Rename(src, dst)
    PROVE  Clock!Move(src, dst)
<1> DEFINE doc == docs[src]
           was == After(journal[src], doc)
           version == NextVersion(journal[dst])
           gone == RowOf(was, "deleted", doc.content, doc.mark)
           come == RowOf(version, "created", doc.content, doc.mark)
           new == DocOf(version, doc.content, doc.mark)
<1>1. /\ PathInv(doc, journal[src]) /\ doc # NoDoc /\ src # dst
      /\ PathInv(docs[dst], journal[dst]) /\ docs[dst] = NoDoc /\ Live(src)
  BY DEF IInv, Rename, Live
<1>2. /\ docs' = [docs EXCEPT ![src] = NoDoc, ![dst] = new]
      /\ journal' = [journal EXCEPT ![src] = Append(@, gone), ![dst] = Append(@, come)]
  BY DEF Rename
<1>3. was = Marks0[src] + 1 /\ Shown0[src] # 0
  BY <1>1, Clocks, MarkParts
<1>4. version = Marks0[dst] + 1 /\ Shown0[dst] = 0 /\ version \in Versions
  BY <1>1, Clocks, MarkParts, NextIsPast DEF PathInv
<1>5. gone \in Rows /\ gone.version = was
  BY <1>1, LiveParts, MadeParts DEF RowActions
<1>6. new # NoDoc /\ new.version = version
  BY <1>1, <1>4, LiveParts, MadeParts DEF RowActions
<1> HIDE DEF was, version, gone, come, new
<1>7. /\ docs'[src] = NoDoc /\ journal'[src] = Append(journal[src], gone)
      /\ docs'[dst] = new
      /\ \A q \in Path \ {src, dst} : docs'[q] = docs[q] /\ journal'[q] = journal[q]
  BY <1>1, <1>2 DEF IInv
<1>8. Marks0'[src] = Marks0[src] + 1 /\ Shown0'[src] = 0
  BY <1>1, <1>3, <1>5, <1>7, MarkMoves, ClocksNext DEF ShownOf, PathInv
<1>9. Marks0'[dst] = Marks0[dst] + 1 /\ Shown0'[dst] = Marks0'[dst]
  BY <1>4, <1>6, <1>7, ClocksNext DEF MarkOf, ShownOf
<1>10. \A q \in Path \ {src, dst} : Marks0'[q] = Marks0[q] /\ Shown0'[q] = Shown0[q]
  BY <1>7, Clocks, ClocksNext
<1>11. Marks0' = [Marks0 EXCEPT ![src] = @ + 1, ![dst] = @ + 1]
  BY <1>1, <1>8, <1>9, <1>10, Clocks, ClocksNext
<1>12. Shown0' = [Shown0 EXCEPT ![src] = 0, ![dst] = Marks0'[dst]]
  BY <1>1, <1>8, <1>9, <1>10, Clocks, ClocksNext
<1> QED
  BY <1>3, <1>4, <1>11, <1>12 DEF Clock!Move, Marks0, Shown0

LEMMA RedactStutters ==
    ASSUME IInv, IInv', NEW named \in Path \cup {NoPath}, Redact(named)
    PROVE  Marks0' = Marks0 /\ Shown0' = Shown0
<1> DEFINE targets == Targets(IF named = NoPath THEN Path ELSE {named})
<1>1. /\ journal' = [p \in Path |->
                        IF p \in targets
                        THEN [i \in DOMAIN journal[p] |-> Clear(journal[p][i])]
                        ELSE journal[p]]
      /\ docs' = [p \in Path |->
                        IF p \in targets /\ Live(p) THEN Clear(docs[p]) ELSE docs[p]]
  BY DEF Redact
<1> HIDE DEF targets
<1>2. ASSUME NEW p \in Path
      PROVE  Marks0'[p] = Marks0[p] /\ Shown0'[p] = Shown0[p]
  <2>1. PathInv(docs[p], journal[p])
    BY DEF IInv
  <2>2. CASE p \in targets
    <3>1. /\ journal'[p] = [i \in DOMAIN journal[p] |-> Clear(journal[p][i])]
          /\ docs'[p] = IF docs[p] # NoDoc THEN Clear(docs[p]) ELSE docs[p]
      BY <1>1, <2>2 DEF Live
    <3> QED
      BY <2>1, <3>1, MarkStays, Clocks, ClocksNext
  <2>3. CASE p \notin targets
    <3>1. journal'[p] = journal[p] /\ docs'[p] = docs[p]
      BY <1>1, <2>3
    <3> QED
      BY <3>1, Clocks, ClocksNext
  <2> QED
    BY <2>2, <2>3
<1> QED
  BY <1>2, Clocks, ClocksNext

LEMMA RestoreLoads ==
    ASSUME IInv, IInv', NEW h \in Homes, Restore(h)
    PROVE  Clock!Load
<1>1. \A p \in Path : docs[p] = NoDoc /\ journal[p] = <<>>
  BY DEF Restore, Occupied, Live
<1>2. \A p \in Path : Marks0[p] = 0
  BY <1>1, Clocks DEF MarkOf, NextVersion
<1> QED
  BY <1>2, Clocks, ClocksNext DEF Clock!Load, Marks0, Shown0

\* The store keeps the version clock: each mutation of a document ticks its
\* path once, deletes consume a version, redaction and pruning none.
THEOREM ImplementsClock == Spec => KeepsClock
<1>1. IInv => (Marks0 \in [Path -> Nat] /\ Shown0 \in [Path -> Nat]
                /\ \A p \in Path : Shown0[p] \in {0, Marks0[p]})
  BY Clocks
<1>2. Init => Clock!Init
  BY <1>1, Starts DEF Clock!Init, Marks0, Shown0
<1>3. IInv /\ IInv' /\ [Next]_vars => [Clock!Next]_<<Marks0, Shown0>>
  <2> SUFFICES ASSUME IInv, IInv', [Next]_vars
               PROVE  Clock!Next \/ (Marks0' = Marks0 /\ Shown0' = Shown0)
    OBVIOUS
  <2>1. ASSUME NEW p \in Path, WriteAny(p) PROVE Clock!Next
    BY <2>1, WriteTicks DEF WriteAny, Clock!Next
  <2>2. ASSUME NEW p \in Path, Delete(p) PROVE Clock!Next
    BY <2>2, DeleteTicks DEF Clock!Next
  <2>3. ASSUME NEW src \in Path, NEW dst \in Path, Rename(src, dst) PROVE Clock!Next
    BY <2>3, RenameTicks DEF Clock!Next
  <2>4. ASSUME NEW named \in Path \cup {NoPath}, Redact(named)
        PROVE  Marks0' = Marks0 /\ Shown0' = Shown0
    BY <2>4, RedactStutters
  <2>5. ASSUME NEW h \in Homes, Restore(h) PROVE Clock!Next
    BY <2>5, RestoreLoads DEF Clock!Next
  <2>6. ASSUME NEW end, Prune(end) PROVE Marks0' = Marks0 /\ Shown0' = Shown0
    BY <2>6, Clocks, ClocksNext DEF Prune, Marks0, Shown0, Mark, Live
  <2>7. CASE UNCHANGED vars
    BY <2>7 DEF vars, store, Marks0, Shown0, Mark, Live
  <2> QED
    BY <2>1, <2>2, <2>3, <2>4, <2>5, <2>6, <2>7 DEF Next, Mutate
<1> QED
  BY <1>2, <1>3, Inductive, PTL DEF Spec, KeepsClock, Clock!Spec, Marks0, Shown0

-----------------------------------------------------------------------------
(* What is on record in a scope stays there, an erasure reaches all of     *)
(* what it names, and the change feed is the history: RecordsKept,         *)
(* ErasureWhole and FeedIsHistory, from the same invariant.                *)

(* What one step does to a path and to the feed.                           *)

\* The rows stay in place, at most cleared.
RowsStay(rows, new) ==
    \A i \in DOMAIN rows : i \in DOMAIN new /\ new[i] \in {rows[i], Clear(rows[i])}

ActsStay == \A i \in DOMAIN trail : i \in DOMAIN trail' /\ trail'[i] = trail[i]

\* Appending a row leaves the others as they are.
LEMMA Stays ==
    ASSUME NEW S, NEW rows \in Seq(S), NEW r \in S
    PROVE  \A i \in DOMAIN rows :
              i \in DOMAIN Append(rows, r) /\ Append(rows, r)[i] = rows[i]
OBVIOUS

Marker == Change("tracking_started", NoPath, 0)

\* Recording adds events past the head, of the mutation or the marker before
\* it, and touches no other.
LEMMA News ==
    ASSUME IInv, NEW change \in Events, Record(change)
    PROVE  /\ head'.floor = head.floor
           /\ \A n \in DOMAIN events : n \in DOMAIN events' /\ events'[n] = events[n]
           /\ \A n \in DOMAIN events' \ DOMAIN events :
                n > head.sequence /\ events'[n] \in {Marker, change}
<1> DEFINE new == Announced(change)
           last == head.sequence
<1>1. /\ head' = [head EXCEPT !.stream = Stream, !.sequence = last + Len(new)]
      /\ events' = [n \in DOMAIN events \cup (last + 1 .. last + Len(new)) |->
                        IF n > last THEN new[n - last] ELSE events[n]]
  BY DEF Record
<1>2. /\ head \in [stream : {Stream, NoStream}, sequence : Nat, floor : Nat]
      /\ last \in Nat /\ head.floor \in Nat
      /\ DOMAIN events = head.floor + 1 .. last
  BY DEF IInv, FeedTypes, FeedWhole, Heads
<1>3. /\ new = <<change>> \/ new = <<Marker, change>>
      /\ Len(new) \in {1, 2}
      /\ \A i \in 1..Len(new) : new[i] \in {Marker, change}
  BY DEF Announced, Marker
<1> HIDE DEF new, last
<1>4. head'.floor = head.floor
  BY <1>1, <1>2
<1>5. ASSUME NEW n \in DOMAIN events
      PROVE  n \in DOMAIN events' /\ events'[n] = events[n]
  <2>1. ~(n > last)
    BY <1>2
  <2> QED
    BY <1>1, <2>1
<1>6. ASSUME NEW n \in DOMAIN events' \ DOMAIN events
      PROVE  n > last /\ events'[n] \in {Marker, change}
  <2>1. n \in last + 1 .. last + Len(new)
    BY <1>1
  <2>2. n > last /\ n - last \in 1..Len(new)
    BY <1>2, <1>3, <2>1
  <2> QED
    BY <1>1, <1>3, <2>1, <2>2
<1> QED
  BY <1>4, <1>5, <1>6 DEF last

-----------------------------------------------------------------------------
(* Each call keeps the record, and announces what it is.                   *)

\* The events of a mutation that erases nothing.
Harmless(change) == change \in Events /\ change.kind \notin {"erased", "scope_erased"}

LEMMA HarmlessParts ==
    /\ \A kind \in RowActions \cup {"restored"}, p \in Path \cup {NoPath}, v \in Nat :
          Harmless(Change(kind, p, v))
    /\ \A src, dst \in Path, was, v \in Versions : Harmless(Renaming(src, was, dst, v))
    /\ Marker.kind \notin {"erased", "scope_erased"}
<1>1. \A kind \in RowActions \cup {"restored"}, p \in Path \cup {NoPath}, v \in Nat :
          Harmless(Change(kind, p, v))
  BY DEF Harmless, Change, Events, Kinds, RowActions
<1>2. \A src, dst \in Path, was, v \in Versions : Harmless(Renaming(src, was, dst, v))
  <2> SUFFICES ASSUME NEW src \in Path, NEW dst \in Path,
                      NEW was \in Versions, NEW v \in Versions
               PROVE  Harmless(Renaming(src, was, dst, v))
    OBVIOUS
  <2>1. v \in Nat
    BY DEF Versions
  <2>2. Renaming(src, was, dst, v) \in Events
    BY <2>1, ChangeTypes DEF Kinds
  <2>3. Renaming(src, was, dst, v).kind = "renamed"
    BY DEF Renaming, Change
  <2> QED
    BY <2>2, <2>3 DEF Harmless
<1>3. Marker.kind \notin {"erased", "scope_erased"}
  BY DEF Marker, Change
<1> QED
  BY <1>1, <1>2, <1>3

\* A step whose only event erases nothing adds no erasure.
LEMMA NoErasure ==
    ASSUME IInv, NEW change, Harmless(change), Record(change)
    PROVE  Erasures' \subseteq Erasures
<1>1. change \in Events /\ change.kind \notin {"erased", "scope_erased"}
  BY DEF Harmless
<1> SUFFICES ASSUME NEW n \in DOMAIN events', events'[n].kind \in {"erased", "scope_erased"}
             PROVE  n \in DOMAIN events /\ events[n].kind \in {"erased", "scope_erased"}
  BY DEF Erasures
<1>2. n \in DOMAIN events
  BY <1>1, News, HarmlessParts
<1> QED
  BY <1>1, <1>2, News

\* The record is kept where rows and acts stay and an event is recorded.
LEMMA KeptByRecording ==
    ASSUME IInv, NEW change \in Events, Record(change), ActsStay,
           \A p \in Path : RowsStay(journal[p], journal'[p])
    PROVE  RecordKept
BY News DEF RecordKept, RowsStay, ActsStay

Quiet == RecordKept /\ Erasures' \subseteq Erasures

LEMMA WriteQuiet ==
    ASSUME IInv, NEW p \in Path, NEW text \in Text, NEW expected, Write(p, text, expected)
    PROVE  Quiet
<1> DEFINE action  == IF Live(p) THEN "modified" ELSE "created"
           version == IF Live(p) THEN After(journal[p], docs[p]) ELSE NextVersion(journal[p])
           row == RowOf(version, action, text, "plain")
<1>1. PathInv(docs[p], journal[p])
  BY DEF IInv
<1>2. version \in Versions
  BY <1>1, LiveParts, NextIsPast DEF PathInv
<1>3. /\ journal' = [journal EXCEPT ![p] = Append(@, row)]
      /\ trail' = trail /\ Record(Change(action, p, version))
  BY DEF Write
<1>4. row \in Rows
  BY <1>2, MadeParts DEF Contents, Marks, RowActions
<1>5. Harmless(Change(action, p, version))
  BY <1>2, HarmlessParts DEF RowActions, Versions
<1> HIDE DEF action, version, row
<1>6. ASSUME NEW q \in Path PROVE RowsStay(journal[q], journal'[q])
  BY <1>3, <1>4, Stays DEF IInv, RowsStay
<1> QED
  BY <1>3, <1>5, <1>6, NoErasure, KeptByRecording DEF Quiet, Harmless, ActsStay

LEMMA DeleteQuiet ==
    ASSUME IInv, NEW p \in Path, Delete(p)
    PROVE  Quiet
<1> DEFINE version == After(journal[p], docs[p])
           row == RowOf(version, "deleted", docs[p].content, docs[p].mark)
<1>1. PathInv(docs[p], journal[p]) /\ Live(p)
  BY DEF IInv, Delete
<1>2. /\ version \in Versions
      /\ docs[p].content \in Contents /\ docs[p].mark \in Marks
  BY <1>1, LiveParts
<1>3. /\ journal' = [journal EXCEPT ![p] = Append(@, row)]
      /\ trail' = trail /\ Record(Change("deleted", p, version))
  BY DEF Delete
<1>4. row \in Rows
  BY <1>2, MadeParts DEF RowActions
<1>5. Harmless(Change("deleted", p, version))
  BY <1>2, HarmlessParts DEF RowActions, Versions
<1> HIDE DEF version, row
<1>6. ASSUME NEW q \in Path PROVE RowsStay(journal[q], journal'[q])
  BY <1>3, <1>4, Stays DEF IInv, RowsStay
<1> QED
  BY <1>3, <1>5, <1>6, NoErasure, KeptByRecording DEF Quiet, Harmless, ActsStay

LEMMA RenameQuiet ==
    ASSUME IInv, NEW src \in Path, NEW dst \in Path, Rename(src, dst)
    PROVE  Quiet
<1> DEFINE doc == docs[src]
           was == After(journal[src], doc)
           version == NextVersion(journal[dst])
           gone == RowOf(was, "deleted", doc.content, doc.mark)
           come == RowOf(version, "created", doc.content, doc.mark)
<1>1. /\ PathInv(doc, journal[src]) /\ Live(src) /\ src # dst
      /\ PathInv(docs[dst], journal[dst])
  BY DEF IInv, Rename
<1>2. /\ journal' = [journal EXCEPT ![src] = Append(@, gone), ![dst] = Append(@, come)]
      /\ trail' = trail /\ Record(Renaming(src, was, dst, version))
  BY DEF Rename
<1>3. was \in Versions /\ doc.content \in Contents /\ doc.mark \in Marks
  BY <1>1, LiveParts
<1>4. version \in Versions
  BY <1>1, NextIsPast DEF PathInv
<1>5. gone \in Rows /\ come \in Rows
  BY <1>3, <1>4, MadeParts DEF RowActions
<1>6. Harmless(Renaming(src, was, dst, version))
  BY <1>3, <1>4, HarmlessParts
<1> HIDE DEF doc, was, version, gone, come
<1>7. ASSUME NEW q \in Path PROVE RowsStay(journal[q], journal'[q])
  <2>1. \/ journal'[q] = journal[q]
        \/ journal'[q] = Append(journal[q], gone)
        \/ journal'[q] = Append(journal[q], come)
    BY <1>1, <1>2 DEF IInv
  <2>2. journal[q] \in Seq(Rows)
    BY DEF IInv
  <2>3. ASSUME NEW r \in Rows PROVE RowsStay(journal[q], Append(journal[q], r))
    BY <2>2, Stays DEF RowsStay
  <2>4. RowsStay(journal[q], journal[q])
    BY DEF RowsStay
  <2> QED
    BY <1>5, <2>1, <2>3, <2>4
<1> QED
  BY <1>2, <1>6, <1>7, NoErasure, KeptByRecording DEF Quiet, Harmless, ActsStay

LEMMA RestoreQuiet ==
    ASSUME IInv, NEW h \in Homes, Restore(h)
    PROVE  Quiet
<1>1. /\ \A p \in Path : journal[p] = <<>>
      /\ trail = <<>> /\ Record(Change("restored", NoPath, 0))
  BY DEF Restore, Occupied
<1>2. Harmless(Change("restored", NoPath, 0))
  BY HarmlessParts
<1> QED
  BY <1>1, <1>2, NoErasure, KeptByRecording DEF Quiet, Harmless, ActsStay, RowsStay

LEMMA PruneQuiet ==
    ASSUME IInv, NEW end, Prune(end)
    PROVE  Quiet
<1>1. /\ head \in Heads /\ head.floor \in Nat /\ head.sequence \in Nat
      /\ DOMAIN events = head.floor + 1 .. head.sequence
  BY DEF IInv, FeedTypes, FeedWhole, Heads
<1>2. /\ end \in head.floor + 1 .. head.sequence
      /\ events' = [n \in DOMAIN events \ (head.floor + 1 .. end) |-> events[n]]
      /\ head' = [head EXCEPT !.floor = end]
      /\ journal' = journal /\ trail' = trail
  BY DEF Prune
<1>3. head'.floor = end
  BY <1>1, <1>2 DEF Heads
<1>4. \A n \in DOMAIN events : n > end => n \in DOMAIN events' /\ events'[n] = events[n]
  BY <1>1, <1>2
<1>5. DOMAIN events' \subseteq DOMAIN events /\ \A n \in DOMAIN events' : events'[n] = events[n]
  BY <1>2
<1> QED
  BY <1>2, <1>3, <1>4, <1>5 DEF Quiet, RecordKept, Erasures

LEMMA RedactEvent ==
    ASSUME NEW named \in Path \cup {NoPath}
    PROVE  \A kind \in {"erased", "scope_erased"} :
              Change(kind, named, 0) \in Events /\ Change(kind, named, 0).path = named
BY ChangeTypes DEF Kinds, Change

LEMMA RedactKeepsRecord ==
    ASSUME IInv, NEW named \in Path \cup {NoPath}, Redact(named)
    PROVE  RecordKept
<1> DEFINE targets == Targets(IF named = NoPath THEN Path ELSE {named})
           kind    == IF named = NoPath THEN "scope_erased" ELSE "erased"
           act     == [path |-> named, count |-> Cardinality(targets)]
<1>1. /\ journal' = [p \in Path |->
                        IF p \in targets
                        THEN [i \in DOMAIN journal[p] |-> Clear(journal[p][i])]
                        ELSE journal[p]]
      /\ trail' = Append(trail, act)
      /\ Record(Change(kind, named, 0))
  BY DEF Redact
<1>2. Change(kind, named, 0) \in Events
  BY RedactEvent
<1>3. \A p \in Path : RowsStay(journal[p], journal'[p])
  BY <1>1 DEF RowsStay
<1>4. trail \in Seq(Acts \cup {act})
  BY DEF IInv
<1> HIDE DEF targets, kind, act
<1>5. ActsStay
  BY <1>1, <1>4, Stays DEF ActsStay
<1> QED
  BY <1>1, <1>2, <1>3, <1>5, KeptByRecording

-----------------------------------------------------------------------------
(* Erasure.                                                                *)

\* What ErasureReaches asks of one new erasure.
Reaches(named) ==
    /\ \A p \in IF named = NoPath THEN Path ELSE {named} :
        /\ \A i \in DOMAIN journal'[p] : journal'[p][i].content = Cleared
        /\ docs'[p] # NoDoc => docs'[p].content = Cleared
    /\ Len(trail') = Len(trail) + 1
    /\ trail'[Len(trail')].path = named

LEMMA RedactReaches ==
    ASSUME IInv, NEW named \in Path \cup {NoPath}, Redact(named)
    PROVE  Reaches(named)
<1> DEFINE reach   == IF named = NoPath THEN Path ELSE {named}
           targets == Targets(reach)
           act     == [path |-> named, count |-> Cardinality(targets)]
<1>1. /\ journal' = [p \in Path |->
                        IF p \in targets
                        THEN [i \in DOMAIN journal[p] |-> Clear(journal[p][i])]
                        ELSE journal[p]]
      /\ docs' = [p \in Path |->
                        IF p \in targets /\ Live(p) THEN Clear(docs[p]) ELSE docs[p]]
      /\ trail' = Append(trail, act)
  BY DEF Redact
<1>2. reach \subseteq Path
  OBVIOUS
<1>3. targets = {p \in reach : journal[p] # <<>> \/ Live(p)}
  BY DEF Targets
<1>4. act.path = named
  OBVIOUS
<1>5. trail \in Seq(Acts \cup {act})
  BY DEF IInv
<1>6. Len(trail') = Len(trail) + 1 /\ trail'[Len(trail')] = act
  BY <1>1, <1>5
<1> HIDE DEF targets, act, reach
<1>7. ASSUME NEW p \in reach
      PROVE  /\ \A i \in DOMAIN journal'[p] : journal'[p][i].content = Cleared
             /\ docs'[p] # NoDoc => docs'[p].content = Cleared
  <2>1. p \in Path /\ PathInv(docs[p], journal[p])
    BY <1>2 DEF IInv
  <2>2. CASE p \in targets
    <3>1. /\ journal'[p] = [i \in DOMAIN journal[p] |-> Clear(journal[p][i])]
          /\ docs'[p] = IF Live(p) THEN Clear(docs[p]) ELSE docs[p]
      BY <1>1, <2>1, <2>2
    <3>2. \A i \in DOMAIN journal[p] : journal[p][i] \in Rows
      BY <2>1, RowsParts DEF PathInv
    <3>3. docs[p] # NoDoc => docs[p] \in Documents
      BY <2>1 DEF PathInv
    <3> QED
      BY <3>1, <3>2, <3>3, ClearParts DEF Live
  <2>3. CASE p \notin targets
    <3>1. journal[p] = <<>> /\ docs[p] = NoDoc
      BY <1>3, <2>3 DEF Live
    <3> QED
      BY <1>1, <2>1, <2>3, <3>1
  <2> QED
    BY <2>2, <2>3
<1> QED
  BY <1>4, <1>6, <1>7 DEF Reaches, reach

LEMMA RedactNames ==
    ASSUME IInv, NEW named \in Path \cup {NoPath}, Redact(named),
           NEW n \in Erasures' \ Erasures
    PROVE  events'[n].path = named
<1> DEFINE kind == IF named = NoPath THEN "scope_erased" ELSE "erased"
<1>1. Record(Change(kind, named, 0))
  BY DEF Redact
<1>2. Change(kind, named, 0) \in Events /\ Change(kind, named, 0).path = named
  BY RedactEvent
<1> HIDE DEF kind
<1>3. n \in DOMAIN events' /\ events'[n].kind \in {"erased", "scope_erased"}
  BY DEF Erasures
<1>4. n \notin DOMAIN events
  BY <1>1, <1>2, <1>3, News DEF Erasures
<1>5. events'[n] \in {Marker, Change(kind, named, 0)}
  BY <1>1, <1>2, <1>3, <1>4, News
<1> QED
  BY <1>2, <1>3, <1>5, HarmlessParts

-----------------------------------------------------------------------------
(* The theorems.                                                           *)

LEMMA StepKeepsAndReaches ==
    ASSUME IInv, [Next]_vars
    PROVE  /\ RecordKept \/ UNCHANGED vars
           /\ \A n \in Erasures' \ Erasures : Reaches(events'[n].path)
<1> DEFINE Goal == RecordKept /\ \A n \in Erasures' \ Erasures : Reaches(events'[n].path)
<1>1. Quiet => Goal
  BY DEF Quiet
<1>2. ASSUME NEW p \in Path, WriteAny(p) PROVE Goal
  BY <1>1, <1>2, WriteQuiet DEF WriteAny
<1>3. ASSUME NEW p \in Path, Delete(p) PROVE Goal
  BY <1>1, <1>3, DeleteQuiet
<1>4. ASSUME NEW src \in Path, NEW dst \in Path, Rename(src, dst) PROVE Goal
  BY <1>1, <1>4, RenameQuiet
<1>5. ASSUME NEW named \in Path \cup {NoPath}, Redact(named) PROVE Goal
  BY <1>5, RedactKeepsRecord, RedactReaches, RedactNames
<1>6. ASSUME NEW h \in Homes, Restore(h) PROVE Goal
  BY <1>1, <1>6, RestoreQuiet
<1>7. ASSUME NEW end, Prune(end) PROVE Goal
  BY <1>1, <1>7, PruneQuiet
<1>8. UNCHANGED vars => Erasures' = Erasures
  BY DEF vars, store, Erasures
<1> QED
  BY <1>2, <1>3, <1>4, <1>5, <1>6, <1>7, <1>8 DEF Next, Mutate

\* Rows, acts and events are never rewritten: rows are at most cleared, events
\* go only below the floor, and new ones are numbered past the head
\* (journal.rs:3, changes.md:101).
THEOREM RecordStands == Spec => RecordsKept
BY Inductive, StepKeepsAndReaches, PTL DEF Spec, RecordsKept

\* An erasure clears every row and the live document of what it names, adds its
\* act, and what is cleared stays marked (write.rs:256).
THEOREM ErasureIsWhole == Spec => ErasureWhole
<1>1. IInv /\ [Next]_vars =>
        [\A n \in Erasures' \ Erasures :
            LET named == events'[n].path
                reach == IF named = NoPath THEN Path ELSE {named}
            IN  /\ \A p \in reach :
                    /\ \A i \in DOMAIN journal'[p] : journal'[p][i].content = Cleared
                    /\ docs'[p] # NoDoc => docs'[p].content = Cleared
                /\ Len(trail') = Len(trail) + 1
                /\ trail'[Len(trail')].path = named]_vars
  BY StepKeepsAndReaches DEF Reaches
<1> QED
  BY <1>1, Inductive, MarksTrue, PTL DEF Spec, ErasureWhole, ErasureReaches
-----------------------------------------------------------------------------
(* The change feed is the history: FeedIsHistory.  Its events are the rows *)
(* there are since tracking started, because a mutation's event names the  *)
(* rows of its own plan and their numbers are new.                         *)

-----------------------------------------------------------------------------
(* Rows as the feed names them.                                            *)

NameOf(p, r) == <<p, r.version, r.action>>

LEMMA NamedParts ==
    ASSUME NEW j, NEW x
    PROVE  x \in Named(j) <=> \E p \in Path : \E i \in DOMAIN j[p] : x = NameOf(p, j[p][i])
BY DEF Named, NameOf

\* From j to k the path p gets one more row.
Adds(j, k, p, r) ==
    \A q \in Path : k[q] = IF q = p THEN Append(j[p], r) ELSE j[q]

\* A new row adds its name.
LEMMA NamedAppend ==
    ASSUME NEW j \in [Path -> Seq(Rows)], NEW p \in Path, NEW r \in Rows,
           NEW k, Adds(j, k, p, r)
    PROVE  Named(k) = Named(j) \cup {NameOf(p, r)}
<1>1. /\ \A q \in Path \ {p} : k[q] = j[q]
      /\ k[p] = Append(j[p], r)
  BY DEF Adds
<1>2. j[p] \in Seq(Rows)
  OBVIOUS
<1>3. /\ DOMAIN k[p] = 1..(Len(j[p]) + 1) /\ DOMAIN j[p] = 1..Len(j[p]) /\ Len(j[p]) \in Nat
      /\ k[p][Len(j[p]) + 1] = r
      /\ \A i \in 1..Len(j[p]) : k[p][i] = j[p][i]
  BY <1>1, <1>2
<1>4. ASSUME NEW x \in Named(k) PROVE x \in Named(j) \cup {NameOf(p, r)}
  <2>1. PICK q \in Path : \E i \in DOMAIN k[q] : x = NameOf(q, k[q][i])
    BY NamedParts
  <2>2. PICK i \in DOMAIN k[q] : x = NameOf(q, k[q][i])
    BY <2>1
  <2>3. CASE q # p
    BY <1>1, <2>2, <2>3, NamedParts
  <2>4. CASE q = p /\ i = Len(j[p]) + 1
    BY <1>3, <2>2, <2>4
  <2>5. CASE q = p /\ i # Len(j[p]) + 1
    <3>1. i \in DOMAIN j[p] /\ x = NameOf(p, j[p][i])
      BY <1>3, <2>2, <2>5
    <3> QED
      BY <3>1, NamedParts
  <2> QED
    BY <2>3, <2>4, <2>5
<1>5. ASSUME NEW x \in Named(j) PROVE x \in Named(k)
  <2>1. PICK q \in Path : \E i \in DOMAIN j[q] : x = NameOf(q, j[q][i])
    BY NamedParts
  <2>2. PICK i \in DOMAIN j[q] : x = NameOf(q, j[q][i])
    BY <2>1
  <2>3. i \in DOMAIN k[q] /\ k[q][i] = j[q][i]
    BY <1>1, <1>3, <2>2
  <2> QED
    BY <2>2, <2>3, NamedParts
<1>6. NameOf(p, r) \in Named(k)
  <2>1. Len(j[p]) + 1 \in DOMAIN k[p]
    BY <1>3
  <2> QED
    BY <1>3, <2>1, NamedParts
<1> QED
  BY <1>4, <1>5, <1>6

\* A number past every row of its path names a new row.
LEMMA NamedNew ==
    ASSUME NEW j \in [Path -> Seq(Rows)], NEW p \in Path, NEW v \in Versions, NEW action,
           \A i \in DOMAIN j[p] : j[p][i].version < v
    PROVE  <<p, v, action>> \notin Named(j)
<1> SUFFICES ASSUME <<p, v, action>> \in Named(j) PROVE FALSE
  OBVIOUS
<1>1. PICK q \in Path : \E i \in DOMAIN j[q] : <<p, v, action>> = NameOf(q, j[q][i])
  BY NamedParts
<1>2. PICK i \in DOMAIN j[q] : <<p, v, action>> = NameOf(q, j[q][i])
  BY <1>1
<1>3. q = p /\ j[q][i].version = v
  BY <1>2 DEF NameOf
<1>4. v \in Nat
  BY DEF Versions
<1> QED
  BY <1>3, <1>4

\* Clearing names the same rows.
LEMMA NamedCleared ==
    ASSUME NEW j \in [Path -> Seq(Rows)], NEW S
    PROVE  Named([p \in Path |-> IF p \in S THEN [i \in DOMAIN j[p] |-> Clear(j[p][i])]
                                            ELSE j[p]]) = Named(j)
<1> DEFINE k == [p \in Path |-> IF p \in S THEN [i \in DOMAIN j[p] |-> Clear(j[p][i])]
                                           ELSE j[p]]
<1>1. ASSUME NEW p \in Path
      PROVE  /\ DOMAIN k[p] = DOMAIN j[p]
             /\ \A i \in DOMAIN j[p] : NameOf(p, k[p][i]) = NameOf(p, j[p][i])
  <2>1. \A i \in DOMAIN j[p] : j[p][i] \in Rows
    OBVIOUS
  <2> QED
    BY <2>1, ClearParts DEF NameOf
<1> HIDE DEF k
<1>2. \A x : x \in Named(k) <=> x \in Named(j)
  BY <1>1, NamedParts
<1> QED
  BY <1>2 DEF k

-----------------------------------------------------------------------------
(* What events tell.                                                       *)


LEMMA ToldParts ==
    /\ Told(Marker) = {}
    /\ \A kind \in RowActions, p \in Path, v \in Nat :
          Told(Change(kind, p, v)) = {<<p, v, kind>>}
    /\ \A kind \in {"erased", "scope_erased", "restored"}, p \in Path \cup {NoPath} :
          Told(Change(kind, p, 0)) = {}
    /\ \A src, dst \in Path, was, v \in Versions :
          Told(Renaming(src, was, dst, v)) = {<<dst, v, "created">>, <<src, was, "deleted">>}
<1>1. Told(Marker) = {}
  BY DEF Told, Marker, Change, RowActions
<1>2. \A kind \in RowActions, p \in Path, v \in Nat :
          Told(Change(kind, p, v)) = {<<p, v, kind>>}
  BY DEF Told, Change, RowActions
<1>3. \A kind \in {"erased", "scope_erased", "restored"}, p \in Path \cup {NoPath} :
          Told(Change(kind, p, 0)) = {}
  BY DEF Told, Change, RowActions
<1>4. \A src, dst \in Path, was, v \in Versions :
          Told(Renaming(src, was, dst, v)) = {<<dst, v, "created">>, <<src, was, "deleted">>}
  BY DEF Told, Renaming, Change, RowActions
<1> QED
  BY <1>1, <1>2, <1>3, <1>4

\* The invariant: events are rows, and what came before tracking is there too.
FeedInv ==
    /\ EventsAreRows
    /\ head # Untracked => base \subseteq Named(journal) /\ Occupied

\* The feed after an event was recorded: the old events, then the marker if
\* this is the first, then the event.
LEMMA Announces ==
    ASSUME IInv, NEW change \in Events, Record(change)
    PROVE  /\ head' # Untracked /\ head'.floor = head.floor
           /\ \A n \in DOMAIN events : n \in DOMAIN events' /\ events'[n] = events[n]
           /\ \E top \in DOMAIN events' \ DOMAIN events :
                /\ events'[top] = change
                /\ \A n \in DOMAIN events' \ DOMAIN events :
                      n = top \/ Told(events'[n]) = {}
           /\ head = Untracked => head.floor = 0 /\ DOMAIN events = {}
<1> DEFINE new == Announced(change)
           last == head.sequence
           top == last + Len(new)
<1>1. /\ head' = [head EXCEPT !.stream = Stream, !.sequence = last + Len(new)]
      /\ events' = [n \in DOMAIN events \cup (last + 1 .. last + Len(new)) |->
                        IF n > last THEN new[n - last] ELSE events[n]]
  BY DEF Record
<1>2. /\ head \in [stream : {Stream, NoStream}, sequence : Nat, floor : Nat]
      /\ last \in Nat /\ head.floor \in Nat
      /\ DOMAIN events = head.floor + 1 .. last
  BY DEF IInv, FeedTypes, FeedWhole, Heads
<1>3. \/ new = <<change>> /\ Len(new) = 1
      \/ new = <<Marker, change>> /\ Len(new) = 2
  BY DEF Announced, Marker
<1>9. Len(new) \in {1, 2}
  BY <1>3
<1>4. head' # Untracked /\ head'.floor = head.floor
  BY <1>1, <1>2, NamesAssumption DEF Untracked
<1>5. head = Untracked => head.floor = 0 /\ DOMAIN events = {}
  BY <1>2 DEF Untracked
<1> HIDE DEF new, last
<1>6. ASSUME NEW n \in DOMAIN events
      PROVE  n \in DOMAIN events' /\ events'[n] = events[n]
  <2>1. ~(n > last)
    BY <1>2
  <2> QED
    BY <1>1, <2>1
<1>7. top \in DOMAIN events' \ DOMAIN events /\ events'[top] = change
  <2>1. top \in last + 1 .. last + Len(new) /\ top > last /\ top - last = Len(new)
    <3>1. CASE Len(new) = 1
      BY <1>2, <3>1
    <3>2. CASE Len(new) = 2
      BY <1>2, <3>2
    <3> QED
      BY <1>9, <3>1, <3>2
  <2>2. events'[top] = new[Len(new)]
    BY <1>1, <2>1
  <2>3. new[Len(new)] = change
    BY <1>3
  <2> QED
    BY <1>1, <1>2, <2>1, <2>2, <2>3
<1>8. ASSUME NEW n \in DOMAIN events' \ DOMAIN events, n # top
      PROVE  Told(events'[n]) = {}
  <2>1. n \in last + 1 .. last + Len(new)
    BY <1>1
  <2>2. Len(new) = 2 /\ n = last + 1 /\ new = <<Marker, change>>
    <3>1. last + 1 .. last + 1 = {last + 1}
      BY <1>2
    <3>2. last + 1 .. last + 2 = {last + 1, last + 2}
      BY <1>2
    <3>3. Len(new) # 1
      BY <1>8, <2>1, <3>1
    <3> QED
      BY <1>3, <1>8, <2>1, <3>2, <3>3
  <2>3. n > last /\ n - last = 1
    BY <1>2, <2>2
  <2>4. events'[n] = Marker
    BY <1>1, <2>2, <2>3
  <2> QED
    BY <2>4, ToldParts
<1> QED
  BY <1>4, <1>5, <1>6, <1>7, <1>8

\* A mutation whose event tells its own new rows keeps the feed a history.
LEMMA Tells ==
    ASSUME IInv, FeedInv, NEW change \in Events, Record(change), change.kind # "restored",
           Named(journal') = Named(journal) \cup Told(change),
           Told(change) \cap Named(journal) = {}, Occupied'
    PROVE  FeedInv'
<1>1. /\ head' # Untracked /\ head'.floor = head.floor
      /\ \A n \in DOMAIN events : n \in DOMAIN events' /\ events'[n] = events[n]
      /\ head = Untracked => head.floor = 0 /\ DOMAIN events = {}
  BY Announces
<1>2. PICK top \in DOMAIN events' \ DOMAIN events :
                /\ events'[top] = change
                /\ \A n \in DOMAIN events' \ DOMAIN events :
                      n = top \/ Told(events'[n]) = {}
  BY Announces
<1>3. base' = IF head # Untracked THEN base ELSE Named(journal)
  BY DEF Record
<1>4. base' \subseteq Named(journal)
  BY <1>3 DEF FeedInv
<1>5. ASSUME NEW n \in DOMAIN events
      PROVE  /\ Told(events'[n]) = Told(events[n])
             /\ Told(events[n]) \subseteq Named(journal) \ base'
             /\ \A k \in DOMAIN events : n # k => Told(events[n]) \cap Told(events[k]) = {}
  BY <1>1, <1>3 DEF FeedInv, EventsAreRows
<1>6. \A n \in DOMAIN events' : n \in DOMAIN events \/ n = top \/ Told(events'[n]) = {}
  BY <1>2
<1>7. \A n \in DOMAIN events' : Told(events'[n]) \subseteq Named(journal') \ base'
  BY <1>2, <1>4, <1>5, <1>6
<1>8. \A n, k \in DOMAIN events' : n # k => Told(events'[n]) \cap Told(events'[k]) = {}
  BY <1>2, <1>5, <1>6
<1>9. head'.floor = 0 =>
        Named(journal') = base' \cup UNION {Told(events'[n]) : n \in DOMAIN events'}
  <2> SUFFICES ASSUME head.floor = 0
               PROVE  Named(journal') = base' \cup UNION {Told(events'[n]) : n \in DOMAIN events'}
    BY <1>1
  <2> DEFINE old == UNION {Told(events[n]) : n \in DOMAIN events}
             now == UNION {Told(events'[n]) : n \in DOMAIN events'}
  <2>1. Named(journal) = base' \cup old
    BY <1>1, <1>3 DEF FeedInv, EventsAreRows
  <2>2. \A x : x \in old <=> \E n \in DOMAIN events : x \in Told(events[n])
    OBVIOUS
  <2>3. \A x : x \in now <=> \E n \in DOMAIN events' : x \in Told(events'[n])
    OBVIOUS
  <2>4. \A n \in DOMAIN events : n \in DOMAIN events' /\ Told(events'[n]) = Told(events[n])
    BY <1>1
  <2> HIDE DEF old, now
  <2>5. ASSUME NEW x \in now PROVE x \in old \cup Told(change)
    <3>1. PICK n \in DOMAIN events' : x \in Told(events'[n])
      BY <2>3
    <3>2. CASE n \in DOMAIN events
      BY <2>2, <2>4, <3>1, <3>2
    <3>3. CASE n = top
      BY <1>2, <3>1, <3>3
    <3> QED
      BY <1>6, <3>1, <3>2, <3>3
  <2>6. old \subseteq now
    BY <2>2, <2>3, <2>4
  <2>7. Told(change) \subseteq now
    BY <1>2, <2>3
  <2>8. Named(journal') = base' \cup now
    BY <2>1, <2>5, <2>6, <2>7
  <2> QED
    BY <2>8 DEF now
<1> QED
  BY <1>1, <1>4, <1>7, <1>8, <1>9 DEF FeedInv, EventsAreRows

-----------------------------------------------------------------------------
(* The calls.                                                              *)

LEMMA WriteTells ==
    ASSUME IInv, FeedInv, NEW p \in Path, NEW text \in Text, NEW expected,
           Write(p, text, expected)
    PROVE  FeedInv'
<1> DEFINE action  == IF Live(p) THEN "modified" ELSE "created"
           version == IF Live(p) THEN After(journal[p], docs[p]) ELSE NextVersion(journal[p])
           row == RowOf(version, action, text, "plain")
<1>1. PathInv(docs[p], journal[p])
  BY DEF IInv
<1>2. /\ version \in Versions /\ version \in Nat /\ action \in RowActions
      /\ \A i \in DOMAIN journal[p] : journal[p][i].version < version
  BY <1>1, LiveParts, NextIsPast DEF PathInv, RowActions, Versions
<1>3. /\ \A q \in Path : journal'[q] = IF q = p THEN Append(journal[p], row) ELSE journal[q]
      /\ docs' = [docs EXCEPT ![p] = DocOf(version, text, "plain")]
      /\ Record(Change(action, p, version))
  BY DEF Write, IInv
<1>4. /\ row \in Rows /\ NameOf(p, row) = <<p, version, action>>
      /\ DocOf(version, text, "plain") # NoDoc
  BY <1>2, MadeParts DEF Contents, Marks, NameOf
<1>5. Change(action, p, version) \in Events /\ Change(action, p, version).kind # "restored"
  BY <1>2, ChangeTypes DEF Kinds, RowActions, Change
<1>6. Told(Change(action, p, version)) = {<<p, version, action>>}
  BY <1>2, ToldParts
<1> HIDE DEF action, version, row
<1>7. Named(journal') = Named(journal) \cup {<<p, version, action>>}
  <2>1. journal \in [Path -> Seq(Rows)] /\ Adds(journal, journal', p, row)
    BY <1>3 DEF IInv, Adds
  <2> QED
    BY <1>4, <2>1, NamedAppend
<1>8. <<p, version, action>> \notin Named(journal)
  BY <1>2, NamedNew DEF IInv
<1>9. Occupied'
  BY <1>3, <1>4 DEF Occupied, Live, IInv
<1> QED
  BY <1>3, <1>5, <1>6, <1>7, <1>8, <1>9, Tells

LEMMA DeleteTells ==
    ASSUME IInv, FeedInv, NEW p \in Path, Delete(p)
    PROVE  FeedInv'
<1> DEFINE version == After(journal[p], docs[p])
           row == RowOf(version, "deleted", docs[p].content, docs[p].mark)
<1>1. PathInv(docs[p], journal[p]) /\ Live(p)
  BY DEF IInv, Delete
<1>2. /\ version \in Versions /\ version \in Nat
      /\ docs[p].content \in Contents /\ docs[p].mark \in Marks
      /\ \A i \in DOMAIN journal[p] : journal[p][i].version < version
  BY <1>1, LiveParts DEF Versions
<1>3. /\ \A q \in Path : journal'[q] = IF q = p THEN Append(journal[p], row) ELSE journal[q]
      /\ Record(Change("deleted", p, version))
  BY DEF Delete, IInv
<1>4. row \in Rows /\ NameOf(p, row) = <<p, version, "deleted">>
  BY <1>2, MadeParts DEF NameOf, RowActions
<1>5. /\ Change("deleted", p, version) \in Events
      /\ Change("deleted", p, version).kind # "restored"
      /\ Told(Change("deleted", p, version)) = {<<p, version, "deleted">>}
  BY <1>2, ChangeTypes, ToldParts DEF Kinds, RowActions, Change
<1> HIDE DEF version, row
<1>6. Named(journal') = Named(journal) \cup {<<p, version, "deleted">>}
  <2>1. journal \in [Path -> Seq(Rows)] /\ Adds(journal, journal', p, row)
    BY <1>3 DEF IInv, Adds
  <2> QED
    BY <1>4, <2>1, NamedAppend
<1>7. <<p, version, "deleted">> \notin Named(journal)
  BY <1>2, NamedNew DEF IInv
<1>8. Occupied'
  <2>1. journal'[p] = Append(journal[p], row) /\ journal[p] \in Seq(Rows)
    BY <1>3 DEF IInv
  <2> QED
    BY <1>4, <2>1 DEF Occupied
<1> QED
  BY <1>3, <1>5, <1>6, <1>7, <1>8, Tells

LEMMA RenameTells ==
    ASSUME IInv, FeedInv, NEW src \in Path, NEW dst \in Path, Rename(src, dst)
    PROVE  FeedInv'
<1> DEFINE doc == docs[src]
           was == After(journal[src], doc)
           version == NextVersion(journal[dst])
           gone == RowOf(was, "deleted", doc.content, doc.mark)
           come == RowOf(version, "created", doc.content, doc.mark)
           half == [q \in Path |-> IF q = src THEN Append(journal[src], gone) ELSE journal[q]]
           change == Renaming(src, was, dst, version)
<1>1. /\ PathInv(doc, journal[src]) /\ Live(src) /\ src # dst
      /\ PathInv(docs[dst], journal[dst])
  BY DEF IInv, Rename
<1>2. /\ journal' = [journal EXCEPT ![src] = Append(@, gone), ![dst] = Append(@, come)]
      /\ docs' = [docs EXCEPT ![src] = NoDoc, ![dst] = DocOf(version, doc.content, doc.mark)]
      /\ Record(change)
  BY DEF Rename
<1>3. /\ was \in Versions /\ doc.content \in Contents /\ doc.mark \in Marks
      /\ \A i \in DOMAIN journal[src] : journal[src][i].version < was
  BY <1>1, LiveParts
<1>4. /\ version \in Versions /\ version \in Nat
      /\ \A i \in DOMAIN journal[dst] : journal[dst][i].version < version
  BY <1>1, NextIsPast DEF PathInv, Versions
<1>5. /\ gone \in Rows /\ NameOf(src, gone) = <<src, was, "deleted">>
      /\ come \in Rows /\ NameOf(dst, come) = <<dst, version, "created">>
      /\ DocOf(version, doc.content, doc.mark) # NoDoc
  BY <1>3, <1>4, MadeParts DEF NameOf, RowActions
<1>6. /\ change \in Events /\ change.kind # "restored"
      /\ Told(change) = {<<dst, version, "created">>, <<src, was, "deleted">>}
  <2>1. change \in Events
    BY <1>3, <1>4, ChangeTypes DEF Kinds
  <2>2. change.kind = "renamed"
    BY DEF Renaming, Change
  <2> QED
    BY <1>3, <1>4, <2>1, <2>2, ToldParts
<1>7. /\ half \in [Path -> Seq(Rows)]
      /\ Adds(half, journal', dst, come)
  <2>1. journal \in [Path -> Seq(Rows)] /\ Append(journal[src], gone) \in Seq(Rows)
    BY <1>5 DEF IInv
  <2>2. half \in [Path -> Seq(Rows)] /\ half[dst] = journal[dst]
    BY <1>1, <2>1
  <2> QED
    BY <1>1, <1>2, <2>1, <2>2 DEF Adds
<1>8. Occupied'
  BY <1>1, <1>2, <1>5 DEF Occupied, Live, IInv
<1>9. Named(half) = Named(journal) \cup {<<src, was, "deleted">>}
  <2>1. gone \in Rows /\ NameOf(src, gone) = <<src, was, "deleted">>
    BY <1>5
  <2>2. journal \in [Path -> Seq(Rows)]
    BY DEF IInv
  <2>3. Adds(journal, half, src, gone)
    BY DEF Adds
  <2> HIDE DEF gone, was, half
  <2> QED
    BY <2>1, <2>2, <2>3, NamedAppend
<1> HIDE DEF doc, was, version, gone, come, half, change
<1>10. Named(journal') = Named(half) \cup {<<dst, version, "created">>}
  <2>1. come \in Rows /\ NameOf(dst, come) = <<dst, version, "created">>
    BY <1>5
  <2>2. half \in [Path -> Seq(Rows)] /\ Adds(half, journal', dst, come)
    BY <1>7
  <2> QED
    BY <2>1, <2>2, NamedAppend
<1>11. <<src, was, "deleted">> \notin Named(journal) /\ <<dst, version, "created">> \notin Named(journal)
  BY <1>3, <1>4, NamedNew DEF IInv
<1> QED
  BY <1>2, <1>6, <1>8, <1>9, <1>10, <1>11, Tells

LEMMA RedactTells ==
    ASSUME IInv, FeedInv, NEW named \in Path \cup {NoPath}, Redact(named)
    PROVE  FeedInv'
<1> DEFINE targets == Targets(IF named = NoPath THEN Path ELSE {named})
           kind    == IF named = NoPath THEN "scope_erased" ELSE "erased"
           act     == [path |-> named, count |-> Cardinality(targets)]
<1>1. /\ journal' = [p \in Path |->
                        IF p \in targets
                        THEN [i \in DOMAIN journal[p] |-> Clear(journal[p][i])]
                        ELSE journal[p]]
      /\ trail' = Append(trail, act)
      /\ Record(Change(kind, named, 0))
  BY DEF Redact
<1>2. /\ Change(kind, named, 0) \in Events /\ Change(kind, named, 0).kind # "restored"
      /\ Told(Change(kind, named, 0)) = {}
  BY ChangeTypes, ToldParts DEF Kinds, Change
<1>3. trail \in Seq(Acts \cup {act})
  BY DEF IInv
<1> HIDE DEF targets, kind, act
<1>4. Named(journal') = Named(journal)
  BY <1>1, NamedCleared DEF IInv
<1>5. Occupied'
  BY <1>1, <1>3 DEF Occupied
<1> QED
  BY <1>1, <1>2, <1>4, <1>5, Tells

\* Only a scope with nothing in it is restored, so the stream starts there.
LEMMA RestoreTells ==
    ASSUME IInv, FeedInv, NEW h \in Homes, Restore(h)
    PROVE  FeedInv'
<1> DEFINE change == Change("restored", NoPath, 0)
<1>1. /\ ~Occupied /\ h # Blank /\ Record(change)
      /\ docs' = h.docs /\ journal' = h.journal /\ trail' = h.trail
  BY DEF Restore
<1>2. change \in Events /\ change.kind = "restored" /\ Told(change) = {}
  BY ChangeTypes, ToldParts DEF Kinds, Change
<1>3. head = Untracked
  BY <1>1 DEF FeedInv
<1>4. base' = Named(journal')
  BY <1>1, <1>2, <1>3 DEF Record
<1>5. Occupied'
  <2>1. /\ h = [docs |-> h.docs, journal |-> h.journal, trail |-> h.trail]
        /\ h.docs \in [Path -> Documents \cup {NoDoc}]
        /\ h.journal \in [Path -> Seq(Rows)]
    BY HomesAssumption DEF IsHome
  <2> SUFFICES ASSUME ~Occupied' PROVE FALSE
    OBVIOUS
  <2>2. /\ \A p \in Path : h.docs[p] = NoDoc /\ h.journal[p] = <<>>
        /\ h.trail = <<>>
    BY <1>1 DEF Occupied, Live
  <2>3. h.docs = [p \in Path |-> NoDoc] /\ h.journal = [p \in Path |-> <<>>]
    BY <2>1, <2>2
  <2> QED
    BY <1>1, <2>1, <2>2, <2>3 DEF Blank
<1> HIDE DEF change
<1>6. \A n \in DOMAIN events' : Told(events'[n]) = {}
  BY <1>1, <1>2, <1>3, Announces
<1>7. UNION {Told(events'[n]) : n \in DOMAIN events'} = {}
  BY <1>6
<1> QED
  BY <1>4, <1>5, <1>6, <1>7 DEF FeedInv, EventsAreRows

LEMMA PruneTells ==
    ASSUME IInv, FeedInv, NEW end, Prune(end)
    PROVE  FeedInv'
<1>1. /\ head \in [stream : {Stream, NoStream}, sequence : Nat, floor : Nat]
      /\ head.floor \in Nat /\ head.sequence \in Nat
  BY DEF IInv, FeedTypes, Heads
<1>2. /\ end \in head.floor + 1 .. head.sequence
      /\ events' = [n \in DOMAIN events \ (head.floor + 1 .. end) |-> events[n]]
      /\ head' = [head EXCEPT !.floor = end]
      /\ UNCHANGED <<docs, journal, trail, base>>
  BY DEF Prune
<1>3. head # Untracked
  BY <1>1, <1>2 DEF Untracked
<1>4. head'.floor # 0
  BY <1>1, <1>2
<1>5. DOMAIN events' \subseteq DOMAIN events /\ \A n \in DOMAIN events' : events'[n] = events[n]
  BY <1>2
<1> QED
  BY <1>2, <1>3, <1>4, <1>5 DEF FeedInv, EventsAreRows, Occupied, Live, Named

-----------------------------------------------------------------------------
(* The theorem.                                                            *)

LEMMA FeedStarts == Init => FeedInv
BY DEF Init, FeedInv, EventsAreRows

LEMMA FeedSteps == IInv /\ FeedInv /\ [Next]_vars => FeedInv'
<1> SUFFICES ASSUME IInv, FeedInv, [Next]_vars PROVE FeedInv'
  OBVIOUS
<1>1. ASSUME NEW p \in Path, WriteAny(p) PROVE FeedInv'
  BY <1>1, WriteTells DEF WriteAny
<1>2. ASSUME NEW p \in Path, Delete(p) PROVE FeedInv'
  BY <1>2, DeleteTells
<1>3. ASSUME NEW src \in Path, NEW dst \in Path, Rename(src, dst) PROVE FeedInv'
  BY <1>3, RenameTells
<1>4. ASSUME NEW named \in Path \cup {NoPath}, Redact(named) PROVE FeedInv'
  BY <1>4, RedactTells
<1>5. ASSUME NEW h \in Homes, Restore(h) PROVE FeedInv'
  BY <1>5, RestoreTells
<1>6. ASSUME NEW end, Prune(end) PROVE FeedInv'
  BY <1>6, PruneTells
<1>7. CASE UNCHANGED vars
  BY <1>7 DEF vars, store, FeedInv, EventsAreRows, Occupied, Live, Named
<1> QED
  BY <1>1, <1>2, <1>3, <1>4, <1>5, <1>6, <1>7 DEF Next, Mutate

\* No mutation goes unannounced, none is announced twice, and the feed has no
\* hole: since tracking started the events of a scope are the rows of its
\* journals, whatever is deleted, renamed, erased, restored or pruned
\* (store/changes.rs:87).
THEOREM EventsTellHistory == Spec => []FeedIsHistory
<1>1. IInv /\ FeedInv => FeedIsHistory
  BY DEF IInv, FeedInv, FeedIsHistory
<1> QED
  BY <1>1, FeedStarts, FeedSteps, Inductive, PTL DEF Spec
=============================================================================
