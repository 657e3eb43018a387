--------------------------- MODULE PostgresProofs ---------------------------
(***************************************************************************)
(* Proofs about Postgres, for any callers with any requests, any paths,    *)
(* connections and number of attempts, with the change feed or without.    *)
(*                                                                         *)
(* What a statement wants to do was decided on a snapshot.  The numbers of *)
(* a path have no hole, and every statement that changes a document brings *)
(* the number after the last one its snapshot showed; when that number is  *)
(* still free nothing happened to the path in between (Fits).              *)
(*                                                                         *)
(* With the extension the snapshot of a mutation is the state it lands on, *)
(* since it is taken under the lock of the scope (Locking, Fresh): that is *)
(* what the feed and the erasures rest on (FeedInv).                       *)
(***************************************************************************)
EXTENDS Postgres, FiniteSetTheorems, TLAPS

Kinds == {"created", "modified", "deleted", "renamed", "erased", "reset"}
Events == [kind : Kinds, path : Path, version : Nat, from : Path]
Docs == [path : Path, version : Nat \ {0}, text : Texts, born : Nat \ {0}]
Requests == [kind : Ops, path : Path, to : Path, fence : Nat \cup {NoFence}]
Work == [rows : SUBSET RowType, put : SUBSET RowType, fresh : SUBSET Path,
         gone : SUBSET (Path \X Nat), clear : SUBSET (RowType \cup Docs), turn : Nat,
         event : Seq(Events)]
Places == {"ask", "queued", "begun", "ready", "running", "done"}
Calls == [op : Requests, pc : Places, on : Slots, tries : Nat, work : Work,
          answer : {"none", "ok", "failed"}]

Versions(p) == {r.version : r \in {v \in memory_versions : v.path = p}}
Numbers == {t.turn : t \in turns}

\* What a statement may want to do to the rows: nothing, one row and the
\* document, a removal with its row, or a move.
Still(w) == w.rows = {} /\ w.put = {} /\ w.gone = {} /\ w.fresh = {}
Puts(w, r) == w.rows = {r} /\ w.put = {r} /\ w.gone = {} /\ w.fresh \subseteq {r.path}
Removes(w, r, b) == w.rows = {r} /\ w.put = {} /\ w.gone = {<<r.path, b>>} /\ w.fresh = {}
Carries(w, r, s, b) ==
    /\ w.rows = {r, s} /\ r.path # s.path
    /\ w.put = {s} /\ w.gone = {<<r.path, b>>} /\ w.fresh = {s.path}
Shaped(w) ==
    \/ Still(w)
    \/ \E r \in RowType : Puts(w, r)
    \/ \E r \in RowType, b \in Nat : Removes(w, r, b)
    \/ \E r, s \in RowType, b \in Nat : Carries(w, r, s, b)

\* What a mutation brings while it holds the lock of the scope: its rows show the
\* texts there are or its caller's own, and its event tells them.
Stated(t) ==
    \/ \E r \in memory_versions : r.text = t
    \/ \E p \in Path : Live(p) /\ memories[p].text = t
Calm(w) == Still(w) /\ w.clear = {} /\ w.event = <<>>
Says(e, kinds, r, from) ==
    e.kind \in kinds /\ e.path = r.path /\ e.version = r.version /\ e.from = from
Moved(r) == Live(r.path) /\ r.text = memories[r.path].text
Snapped(c, w) ==
    \/ Calm(w)
    \/ \E r \in RowType, e \in Events :
         /\ Puts(w, r) /\ w.clear = {} /\ w.event = <<e>> /\ r.text = c
         /\ \/ Says(e, {"created", "modified"}, r, r.path)
            \/ e.kind = "reset" /\ memory_versions = {}
    \/ \E r \in RowType, b \in Nat, e \in Events :
         /\ Removes(w, r, b) /\ w.clear = {} /\ w.event = <<e>> /\ Moved(r)
         /\ Says(e, {"deleted"}, r, r.path)
    \/ \E r, s \in RowType, b \in Nat, e \in Events :
         /\ Carries(w, r, s, b) /\ w.clear = {} /\ w.event = <<e>> /\ Moved(r) /\ s.text = r.text
         /\ Says(e, {"renamed"}, s, r.path)
    \/ \E e \in Events : /\ Still(w) /\ w.event = <<e>> /\ e.kind = "erased"
                         /\ \A r \in w.clear : Stated(r.text)

\* A number that is still the next one says that the snapshot still holds.
Next1(r) == r.version = Mark(r.path) + 1
Fits(q, w) ==
    /\ \A r \in w.rows :
         /\ r.version <= Mark(r.path) + 1
         /\ Next1(r) /\ r \notin w.put =>
              Live(r.path) /\ <<r.path, memories[r.path].born>> \in w.gone
    /\ q.kind = "write" /\ q.fence # NoFence =>
         \A r \in w.rows : r.path = q.path /\ (Next1(r) => Shown(q.path) = q.fence)
    /\ w.turn <= Cardinality(turns) + 1
    /\ (q.kind = "turn") = (w.turn # 0)

Dense == \A p \in Path : \E n \in Nat : Versions(p) = 1..n
OneRow == \A r, s \in memory_versions : r.path = s.path /\ r.version = s.version => r = s
Heads == \A p \in Path : Live(p) => memories[p].version = Mark(p)
Numbered == IsFiniteSet(turns) /\ Numbers = 1..Cardinality(turns)
Deciding == \A c \in Busy : At(c, "running") => Shaped(call[c].work) /\ Fits(call[c].op, call[c].work)
Lands1 ==
    /\ \A l \in landed : l.by \in Busy /\ At(l.by, "done")
    /\ \A k, l \in landed : k.by = l.by => k = l
    /\ \A t \in turns : t.text \in Busy /\ At(t.text, "done")
    /\ \A c \in Busy : At(c, "done") /\ call[c].answer = "ok" /\ call[c].op.kind = "turn"
         => \E t \in turns : {x \in turns : x.text = c} = {t}

\* With the extension the lock makes snapshots current: only its holder is past the
\* lock with a mutation, and a text is its writer's once the writer is done.
Locking == \A c \in Busy :
    call[c].pc \in {"ready", "running"} /\ call[c].op.kind \in Mutations => lock = c
Fresh == \A c \in Busy : At(c, "running") =>
    /\ call[c].op.kind # "prune" /\ Snapped(c, call[c].work)
    /\ call[c].op.kind = "turn" => Calm(call[c].work)
Rowed == \A i \in DOMAIN changes :
    changes[i].kind \notin {"reset", "erased"} => memory_versions # {}
Known == \A c \in Caller : c \in erased \/ Stated(c) => c \in Busy /\ At(c, "done")
FeedInv == tracked =>
    /\ Locking /\ Fresh /\ Rowed /\ Known /\ Cleared \notin erased
    /\ EventsTell /\ ErasedStaysErased

Types ==
    /\ TypeOK /\ next \in Slots
    /\ memories \in [Path -> Docs \cup {NoDoc}]
    /\ changes \in Seq(Events) /\ floor \in Nat
    /\ Busy \subseteq Caller /\ call \in [Busy -> Calls]
StoreInv ==
    /\ Types /\ Dense /\ OneRow /\ Heads /\ Numbered
    /\ Deciding /\ FenceHolds /\ Lands1
-----------------------------------------------------------------------------
(* Greatest members.                                                       *)

LEMMA GreatestOfRange == ASSUME NEW n \in Nat PROVE Max0(1..n) = n
<1>1. n \in 1..n \cup {0} /\ \A k \in 1..n \cup {0} : k <= n
  OBVIOUS
<1>2. \A m \in 1..n \cup {0} : (\A k \in 1..n \cup {0} : k <= m) => m = n
  OBVIOUS
<1> QED
  BY <1>1, <1>2 DEF Max0

LEMMA GreatestOfTwo == ASSUME NEW n \in Nat, NEW m \in {0, n} PROVE Max0({n, m}) = n
<1>1. n \in {n, m} \cup {0} /\ \A k \in {n, m} \cup {0} : k <= n
  OBVIOUS
<1>2. \A x \in {n, m} \cup {0} : (\A k \in {n, m} \cup {0} : k <= x) => x = n
  OBVIOUS
<1> QED
  BY <1>1, <1>2 DEF Max0

\* The mark of a path is the number of its rows, and its clock the next one.
LEMMA Marks ==
    ASSUME Dense, NEW p \in Path
    PROVE  Mark(p) \in Nat /\ Versions(p) = 1..Mark(p)
<1>1. PICK n \in Nat : Versions(p) = 1..n
  BY DEF Dense
<1>2. Mark(p) = n
  BY <1>1, GreatestOfRange DEF Mark, Versions
<1> QED
  BY <1>1, <1>2

LEMMA Clocks ==
    ASSUME Types, Dense, Heads, NEW p \in Path
    PROVE  /\ NextVersion(p) = Mark(p) + 1
           /\ Shown(p) \in {0, Mark(p)} /\ (Shown(p) = 0 <=> ~Live(p))
<1>1. Mark(p) \in Nat
  BY Marks
<1>2. Live(p) => memories[p] \in Docs /\ memories[p].version = Mark(p)
  BY DEF Types, Heads, Live
<1>3. Shown(p) \in {0, Mark(p)} /\ (Shown(p) = 0 <=> ~Live(p))
  BY <1>1, <1>2 DEF Shown, Docs
<1>4. Max0({Mark(p), Shown(p)}) = Mark(p)
  BY <1>1, <1>3, GreatestOfTwo
<1> QED
  BY <1>3, <1>4 DEF NextVersion

\* A path without rows is not live; a number up to the mark is taken.
LEMMA TakenNumbers ==
    ASSUME Types, Dense, NEW r \in RowType, r.version <= Mark(r.path)
    PROVE  \E s \in memory_versions : s.path = r.path /\ s.version = r.version
<1>1. r.path \in Path /\ r.version \in 1..Mark(r.path)
  BY Marks DEF RowType
<1>2. r.version \in Versions(r.path)
  BY <1>1, Marks
<1> QED
  BY <1>2 DEF Versions
-----------------------------------------------------------------------------
(* What statements decide.                                                 *)

LEMMA EventSeq ==
    ASSUME NEW kind \in Kinds, NEW p \in Path, NEW v \in Nat, NEW from \in Path
    PROVE  /\ Event(kind, p, v, from) \in Seq(Events)
           /\ \E e \in Events : /\ Event(kind, p, v, from) = <<e>> /\ e.kind = kind
                               /\ e.path = p /\ e.version = v /\ e.from = from
<1> DEFINE e == [kind |-> kind, path |-> p, version |-> v, from |-> from]
<1>1. e \in Events /\ e.kind = kind /\ e.path = p /\ e.version = v /\ e.from = from
  BY DEF Events
<1>2. Event(kind, p, v, from) = <<e>>
  BY DEF Event
<1> HIDE DEF e
<1> QED
  BY <1>1, <1>2

LEMMA NothingWork ==
    /\ Nothing \in Work /\ Still(Nothing) /\ Nothing.turn = 0
    /\ Calm(Nothing)
BY DEF Nothing, Work, Still, Calm

LEMMA RowTyped ==
    ASSUME NEW p \in Path, NEW v \in Nat \ {0}, NEW text \in Texts
    PROVE  /\ RowOf(p, v, text) \in RowType
           /\ RowOf(p, v, text).path = p /\ RowOf(p, v, text).version = v
           /\ RowOf(p, v, text).text = text
BY DEF RowOf, RowType

LEMMA WriteDecides ==
    ASSUME Types, Dense, Heads, Numbered, NEW c \in Caller, NEW q \in Requests, q.kind = "write",
           NEW w, w = WriteDocument(c, q)
    PROVE  w \in Work /\ Shaped(w) /\ Fits(q, w) /\ Snapped(c, w)
<1> DEFINE v == NextVersion(q.path)
           r == RowOf(q.path, v, c)
           e == Event(IF Live(q.path) THEN "modified" ELSE "created", q.path, v, q.path)
<1>1. q.path \in Path /\ v = Mark(q.path) + 1 /\ Mark(q.path) \in Nat
  BY Clocks, Marks DEF Requests
<1>2. r \in RowType /\ r.path = q.path /\ r.version = v /\ r.text = c
  BY <1>1, RowTyped DEF Texts
<1>3. Cardinality(turns) \in Nat
  BY FS_CardinalityType DEF Numbered
<1>4. CASE w = Nothing
  BY <1>3, <1>4, NothingWork DEF Shaped, Fits, Still, Snapped
<1>5. CASE /\ w = [Nothing EXCEPT !.rows = {r}, !.put = {r}, !.event = e]
           /\ q.fence # NoFence => Shown(q.path) = q.fence
  <2>1. w = [rows |-> {r}, put |-> {r}, fresh |-> {}, gone |-> {}, clear |-> {},
             turn |-> 0, event |-> e]
    <3> HIDE DEF r, e
    <3> QED
      BY <1>5 DEF Nothing
  <2>2. /\ e \in Seq(Events)
        /\ \E x \in Events : /\ e = <<x>> /\ x.kind \in {"created", "modified"}
                            /\ x.path = q.path /\ x.version = v /\ x.from = q.path
    <3>1. "modified" \in Kinds /\ "created" \in Kinds /\ v \in Nat /\ q.path \in Path
      BY <1>1 DEF Kinds
    <3> HIDE DEF v
    <3> QED
      BY <3>1, EventSeq
  <2> HIDE DEF r, e
  <2>3. w \in Work /\ w.rows = {r} /\ w.put = {r} /\ w.fresh = {} /\ w.gone = {} /\ w.turn = 0
        /\ w.clear = {} /\ w.event = e
    BY <1>2, <2>1, <2>2 DEF Work
  <2>4. Shaped(w)
    BY <1>2, <2>3 DEF Shaped, Puts
  <2>5. Fits(q, w)
    BY <1>1, <1>2, <1>3, <1>5, <2>3 DEF Fits, Next1
  <2>6. Snapped(c, w)
    <3>1. PICK x \in Events : /\ e = <<x>> /\ x.kind \in {"created", "modified"}
                              /\ x.path = q.path /\ x.version = v /\ x.from = q.path
      BY <2>2
    <3>2. Puts(w, r) /\ Says(x, {"created", "modified"}, r, r.path)
      BY <1>2, <2>3, <3>1 DEF Puts, Says
    <3> QED
      BY <1>2, <2>3, <3>1, <3>2 DEF Snapped
  <2> QED
    BY <2>3, <2>4, <2>5, <2>6
<1> QED
  BY Zenon, <1>4, <1>5 DEF WriteDocument

LEMMA DeleteDecides ==
    ASSUME Types, Dense, Heads, Numbered, NEW q \in Requests, q.kind = "delete",
           NEW w, w = DeleteDocument(q), NEW c
    PROVE  w \in Work /\ Shaped(w) /\ Fits(q, w) /\ Snapped(c, w)
<1> DEFINE v == NextVersion(q.path)
           r == RowOf(q.path, v, memories[q.path].text)
           b == memories[q.path].born
           e == Event("deleted", q.path, v, q.path)
<1>1. q.path \in Path /\ v = Mark(q.path) + 1 /\ Mark(q.path) \in Nat
  BY Clocks, Marks DEF Requests
<1>3. Cardinality(turns) \in Nat
  BY FS_CardinalityType DEF Numbered
<1>4. CASE ~Live(q.path)
  <2>1. w = Nothing
    BY <1>4 DEF DeleteDocument
  <2> QED
    BY <1>3, <2>1, NothingWork DEF Shaped, Fits, Still, Snapped
<1>5. CASE Live(q.path)
  <2>1. memories[q.path] \in Docs
    BY <1>1, <1>5 DEF Types, Live
  <2>2. r \in RowType /\ r.path = q.path /\ r.version = v /\ r.text = memories[q.path].text
    BY <1>1, <2>1, RowTyped DEF Docs
  <2>3. b \in Nat
    BY <2>1 DEF Docs
  <2>4. /\ e \in Seq(Events)
        /\ \E x \in Events : /\ e = <<x>> /\ x.kind = "deleted"
                            /\ x.path = q.path /\ x.version = v /\ x.from = q.path
    <3>1. "deleted" \in Kinds /\ v \in Nat /\ q.path \in Path
      BY <1>1 DEF Kinds
    <3> HIDE DEF v
    <3> QED
      BY <3>1, EventSeq
  <2>5. w = [Nothing EXCEPT !.rows = {r}, !.gone = {<<q.path, b>>}, !.event = e]
    BY <1>5 DEF DeleteDocument
  <2>6. w = [rows |-> {r}, put |-> {}, fresh |-> {}, gone |-> {<<q.path, b>>}, clear |-> {},
             turn |-> 0, event |-> e]
    <3> HIDE DEF r, e, b
    <3> QED
      BY <2>5 DEF Nothing
  <2>7. b = memories[q.path].born
    OBVIOUS
  <2> HIDE DEF r, e, b
  <2>8. w \in Work /\ w.rows = {r} /\ w.put = {} /\ w.fresh = {} /\ w.gone = {<<q.path, b>>} /\ w.turn = 0
        /\ w.clear = {} /\ w.event = e
    BY <1>1, <2>2, <2>3, <2>4, <2>6 DEF Work
  <2>9. Shaped(w)
    BY <2>2, <2>3, <2>8 DEF Shaped, Removes
  <2>10. Fits(q, w)
    BY <1>1, <1>3, <1>5, <2>2, <2>7, <2>8 DEF Fits, Next1
  <2>11. Snapped(c, w)
    <3>1. PICK x \in Events : /\ e = <<x>> /\ x.kind = "deleted"
                              /\ x.path = q.path /\ x.version = v /\ x.from = q.path
      BY <2>4
    <3>2. Removes(w, r, b) /\ Says(x, {"deleted"}, r, r.path) /\ Moved(r)
      BY <1>5, <2>2, <2>8, <3>1 DEF Removes, Says, Moved
    <3> QED
      BY <2>2, <2>3, <2>8, <3>1, <3>2 DEF Snapped
  <2> QED
    BY <2>8, <2>9, <2>10, <2>11
<1> QED
  BY <1>4, <1>5

LEMMA RenameDecides ==
    ASSUME Types, Dense, Heads, Numbered, NEW q \in Requests, q.kind = "rename",
           NEW w, w = RenameDocument(q), NEW c
    PROVE  w \in Work /\ Shaped(w) /\ Fits(q, w) /\ Snapped(c, w)
<1> DEFINE v == NextVersion(q.path)
           r == RowOf(q.path, v, memories[q.path].text)
           s == RowOf(q.to, Mark(q.to) + 1, memories[q.path].text)
           b == memories[q.path].born
           e == Event("renamed", q.to, s.version, q.path)
<1>1. /\ q.path \in Path /\ v = Mark(q.path) + 1 /\ Mark(q.path) \in Nat
      /\ q.to \in Path /\ Mark(q.to) \in Nat
  BY Clocks, Marks DEF Requests
<1>3. Cardinality(turns) \in Nat
  BY FS_CardinalityType DEF Numbered
<1>4. CASE ~(Live(q.path) /\ ~Live(q.to))
  <2>1. w = Nothing
    BY <1>4 DEF RenameDocument
  <2> QED
    BY <1>3, <2>1, NothingWork DEF Shaped, Fits, Still, Snapped
<1>5. CASE Live(q.path) /\ ~Live(q.to)
  <2>1. memories[q.path] \in Docs /\ q.path # q.to
    BY <1>1, <1>5 DEF Types, Live
  <2>2. /\ r \in RowType /\ r.path = q.path /\ r.version = v
        /\ s \in RowType /\ s.path = q.to /\ s.version = Mark(q.to) + 1
        /\ r.text = memories[q.path].text /\ s.text = r.text
    <3>1. memories[q.path].text \in Texts /\ v \in Nat \ {0} /\ Mark(q.to) + 1 \in Nat \ {0}
      BY <1>1, <2>1 DEF Docs
    <3>2. r \in RowType /\ r.path = q.path /\ r.version = v /\ r.text = memories[q.path].text
      BY <1>1, <3>1, RowTyped
    <3>3. /\ s \in RowType /\ s.path = q.to /\ s.version = Mark(q.to) + 1
          /\ s.text = memories[q.path].text
      BY <1>1, <3>1, RowTyped
    <3> QED
      BY <3>2, <3>3
  <2>3. b \in Nat /\ b = memories[q.path].born
    BY <2>1 DEF Docs
  <2>4. /\ e \in Seq(Events)
        /\ \E x \in Events : /\ e = <<x>> /\ x.kind = "renamed"
                            /\ x.path = q.to /\ x.version = s.version /\ x.from = q.path
    <3>1. "renamed" \in Kinds /\ s.version \in Nat /\ q.path \in Path /\ q.to \in Path
      BY <1>1, <2>2 DEF Kinds
    <3> HIDE DEF s
    <3> QED
      BY <3>1, EventSeq
  <2>5. w = [Nothing EXCEPT !.rows = {r, s}, !.put = {s}, !.fresh = {q.to},
                            !.gone = {<<q.path, b>>}, !.event = e]
    BY <1>5 DEF RenameDocument
  <2>6. w = [rows |-> {r, s}, put |-> {s}, fresh |-> {q.to}, gone |-> {<<q.path, b>>}, clear |-> {},
             turn |-> 0, event |-> e]
    <3> HIDE DEF r, s, e, b
    <3> QED
      BY <2>5 DEF Nothing
  <2> HIDE DEF r, s, e, b
  <2>8. /\ w \in Work /\ w.rows = {r, s} /\ w.put = {s} /\ w.fresh = {q.to}
        /\ w.gone = {<<q.path, b>>} /\ w.turn = 0
        /\ w.clear = {} /\ w.event = e
    BY <1>1, <2>2, <2>3, <2>4, <2>6 DEF Work
  <2>9. Shaped(w)
    BY <2>1, <2>2, <2>3, <2>8 DEF Shaped, Carries
  <2>10. Fits(q, w)
    BY <1>1, <1>3, <1>5, <2>1, <2>2, <2>3, <2>8 DEF Fits, Next1
  <2>11. Snapped(c, w)
    <3>1. PICK x \in Events : /\ e = <<x>> /\ x.kind = "renamed"
                              /\ x.path = q.to /\ x.version = s.version /\ x.from = q.path
      BY <2>4
    <3>2. Carries(w, r, s, b) /\ Says(x, {"renamed"}, s, r.path) /\ Moved(r)
      BY <1>5, <2>1, <2>2, <2>8, <3>1 DEF Carries, Says, Moved
    <3> QED
      BY <2>2, <2>3, <2>8, <3>1, <3>2 DEF Snapped
  <2> QED
    BY <2>8, <2>9, <2>10, <2>11
<1> QED
  BY <1>4, <1>5

LEMMA RestoreDecides ==
    ASSUME Types, Dense, Heads, Numbered, NEW c \in Caller, NEW q \in Requests, q.kind = "restore",
           NEW w, w = RestoreScope(c, q)
    PROVE  w \in Work /\ Shaped(w) /\ Fits(q, w) /\ Snapped(c, w)
<1> DEFINE r == RowOf(q.path, 1, c)
           e == Event("reset", q.path, 0, q.path)
<1>1. q.path \in Path /\ Mark(q.path) \in Nat
  BY Marks DEF Requests
<1>2. r \in RowType /\ r.path = q.path /\ r.version = 1 /\ r.text = c
  BY <1>1, RowTyped DEF Texts
<1>3. Cardinality(turns) \in Nat
  BY FS_CardinalityType DEF Numbered
<1>4. CASE w = Nothing
  BY <1>3, <1>4, NothingWork DEF Shaped, Fits, Still, Snapped
<1>5. CASE /\ w = [Nothing EXCEPT !.rows = {r}, !.put = {r}, !.fresh = {q.path}, !.event = e]
           /\ memory_versions = {}
  <2>1. w = [rows |-> {r}, put |-> {r}, fresh |-> {q.path}, gone |-> {}, clear |-> {},
             turn |-> 0, event |-> e]
    <3> HIDE DEF r, e
    <3> QED
      BY <1>5 DEF Nothing
  <2>2. e \in Seq(Events) /\ \E x \in Events : e = <<x>> /\ x.kind = "reset"
    BY <1>1, EventSeq DEF Kinds
  <2> HIDE DEF r, e
  <2>3. w \in Work /\ w.rows = {r} /\ w.put = {r} /\ w.fresh = {q.path} /\ w.gone = {} /\ w.turn = 0
        /\ w.clear = {} /\ w.event = e
    BY <1>1, <1>2, <2>1, <2>2 DEF Work
  <2>4. Shaped(w)
    BY <1>2, <2>3 DEF Shaped, Puts
  <2>5. Fits(q, w)
    BY <1>1, <1>2, <1>3, <2>3 DEF Fits, Next1
  <2>6. Snapped(c, w)
    <3>1. Puts(w, r)
      BY <1>2, <2>3 DEF Puts
    <3> QED
      BY <1>2, <1>5, <2>2, <2>3, <3>1 DEF Snapped
  <2> QED
    BY <2>3, <2>4, <2>5, <2>6
<1> QED
  BY Zenon, <1>4, <1>5 DEF RestoreScope

LEMMA RedactDecides ==
    ASSUME Types, Numbered, NEW q \in Requests, q.kind = "redact", NEW w, w = Redact(q), NEW c
    PROVE  w \in Work /\ Shaped(w) /\ Fits(q, w) /\ Snapped(c, w)
<1> DEFINE rows == {r \in memory_versions : r.path = q.path}
           clear == rows \cup IF Live(q.path) THEN {memories[q.path]} ELSE {}
           e == Event("erased", q.path, 0, q.path)
<1>3. Cardinality(turns) \in Nat
  BY FS_CardinalityType DEF Numbered
<1>4. CASE w = Nothing
  BY <1>3, <1>4, NothingWork DEF Shaped, Fits, Still, Snapped
<1>5. CASE w = [Nothing EXCEPT !.clear = clear, !.event = e]
  <2>1. q.path \in Path
    BY DEF Requests
  <2>2. clear \subseteq RowType \cup Docs
    BY <2>1 DEF Types, TypeOK, Live
  <2>3. e \in Seq(Events) /\ \E x \in Events : e = <<x>> /\ x.kind = "erased"
    BY <2>1, EventSeq DEF Kinds
  <2> HIDE DEF clear, e
  <2>4. w = [rows |-> {}, put |-> {}, fresh |-> {}, gone |-> {}, clear |-> clear,
             turn |-> 0, event |-> e]
    BY <1>5 DEF Nothing
  <2>5. w \in Work /\ w.rows = {} /\ w.put = {} /\ w.fresh = {} /\ w.gone = {} /\ w.turn = 0
        /\ w.clear = clear /\ w.event = e
    BY <2>2, <2>3, <2>4 DEF Work
  <2>6. \A r \in clear : Stated(r.text)
    BY <2>1 DEF clear, Stated, Live
  <2> QED
    BY <1>3, <2>1, <2>3, <2>5, <2>6 DEF Shaped, Still, Fits, Snapped
<1> QED
  BY Zenon, <1>4, <1>5 DEF Redact

LEMMA TurnDecides ==
    ASSUME Types, Numbered, NEW q \in Requests, q.kind = "turn", NEW w, w = AppendTurn
    PROVE  w \in Work /\ Shaped(w) /\ Fits(q, w) /\ w.turn = Cardinality(turns) + 1 /\ Calm(w)
<1> DEFINE n == Cardinality(turns)
<1>1. n \in Nat
  BY FS_CardinalityType DEF Numbered
<1>2. Max0({t.turn : t \in turns}) = n
  BY <1>1, GreatestOfRange DEF Numbered, Numbers
<1>3. w = [Nothing EXCEPT !.turn = n + 1]
  BY <1>2 DEF AppendTurn
<1>4. w = [rows |-> {}, put |-> {}, fresh |-> {}, gone |-> {}, clear |-> {},
           turn |-> n + 1, event |-> <<>>]
  <2> HIDE DEF n
  <2> QED
    BY <1>3 DEF Nothing
<1>5. w \in Work /\ w.rows = {} /\ w.put = {} /\ w.fresh = {} /\ w.gone = {} /\ w.turn = n + 1
      /\ w.clear = {} /\ w.event = <<>>
  BY <1>1, <1>4 DEF Work
<1> QED
  BY <1>1, <1>5 DEF Shaped, Still, Fits, Calm
-----------------------------------------------------------------------------
(* What a commit makes of the rows.                                        *)

Writes(w) ==
    /\ memories' = [p \in Path |-> Landed(w, p)]
    /\ memory_versions' = {Blanked(w, r) : r \in memory_versions} \cup w.rows
Touched(w, p) == \E r \in w.rows : r.path = p

\* Numbers that violate no key are the next ones.
LEMMA FreeIsNext ==
    ASSUME Types, Dense, NEW w \in Work, NEW q, Fits(q, w), ~Violates(w), NEW r \in w.rows
    PROVE  r.path \in Path /\ Next1(r) /\ Mark(r.path) \in Nat
<1>1. r \in RowType
  BY DEF Work
<1>2. r.path \in Path /\ r.version \in Nat \ {0}
  BY <1>1 DEF RowType
<1>3. Mark(r.path) \in Nat
  BY <1>2, Marks
<1>4. r.version <= Mark(r.path) + 1
  BY DEF Fits
<1>5. ~(r.version <= Mark(r.path))
  BY <1>1, TakenNumbers DEF Violates
<1> QED
  BY <1>2, <1>3, <1>4, <1>5 DEF Next1

LEMMA BlankedRow ==
    ASSUME Types, NEW w, NEW r \in memory_versions
    PROVE  /\ Blanked(w, r) \in RowType
           /\ Blanked(w, r).path = r.path /\ Blanked(w, r).version = r.version
BY DEF Types, TypeOK, Blanked, RowType, Texts

LEMMA VersionsAfter ==
    ASSUME Types, NEW w \in Work, Writes(w), NEW p \in Path
    PROVE  Versions(p)' = Versions(p) \cup {r.version : r \in {x \in w.rows : x.path = p}}
<1>1. ASSUME NEW n \in Versions(p)'
      PROVE  n \in Versions(p) \/ \E r \in w.rows : r.path = p /\ r.version = n
  <2>1. PICK s \in memory_versions' : s.path = p /\ s.version = n
    BY DEF Versions
  <2>2. CASE s \in w.rows
    BY <2>1, <2>2
  <2>3. CASE \E r \in memory_versions : s = Blanked(w, r)
    BY <2>1, <2>3, BlankedRow DEF Versions
  <2> QED
    BY <2>2, <2>3 DEF Writes
<1>2. ASSUME NEW n \in Versions(p) PROVE n \in Versions(p)'
  <2>1. PICK r \in memory_versions : r.path = p /\ r.version = n
    BY DEF Versions
  <2>2. Blanked(w, r) \in memory_versions'
    BY DEF Writes
  <2>3. Blanked(w, r).path = p /\ Blanked(w, r).version = n
    BY <2>1, BlankedRow
  <2> QED
    BY <2>2, <2>3 DEF Versions
<1>3. ASSUME NEW r \in w.rows, r.path = p PROVE r.version \in Versions(p)'
  BY <1>3 DEF Writes, Versions
<1> QED
  BY <1>1, <1>2, <1>3

\* The rows of a statement are of different paths.
LEMMA OneRowAPath ==
    ASSUME NEW w, Shaped(w), NEW r \in w.rows, NEW s \in w.rows, r.path = s.path
    PROVE  r = s
BY DEF Shaped, Still, Puts, Removes, Carries

LEMMA MarksAfter ==
    ASSUME Types, Dense, NEW w \in Work, NEW q, Shaped(w), Fits(q, w), ~Violates(w), Writes(w)
    PROVE  /\ Dense'
           /\ \A p \in Path : ~Touched(w, p) => Mark(p)' = Mark(p)
           /\ \A r \in w.rows : Mark(r.path)' = Mark(r.path) + 1 /\ r.version = Mark(r.path)'
<1>1. ASSUME NEW p \in Path, ~Touched(w, p)
      PROVE  Versions(p)' = 1..Mark(p) /\ Mark(p)' = Mark(p) /\ Mark(p) \in Nat
  <2>1. Versions(p)' = Versions(p)
    <3>1. {x \in w.rows : x.path = p} = {}
      BY <1>1 DEF Touched
    <3>2. Versions(p)' = Versions(p) \cup {r.version : r \in {x \in w.rows : x.path = p}}
      BY VersionsAfter
    <3> QED
      BY <3>1, <3>2
  <2>2. Versions(p) = 1..Mark(p) /\ Mark(p) \in Nat
    BY Marks
  <2>3. Mark(p)' = Max0(Versions(p)')
    BY DEF Mark, Versions
  <2> QED
    BY <2>1, <2>2, <2>3, GreatestOfRange
<1>2. ASSUME NEW r \in w.rows
      PROVE  /\ Versions(r.path)' = 1..(Mark(r.path) + 1)
             /\ Mark(r.path)' = Mark(r.path) + 1 /\ r.version = Mark(r.path) + 1
             /\ Mark(r.path) \in Nat
  <2>1. r.path \in Path /\ r.version = Mark(r.path) + 1 /\ Mark(r.path) \in Nat
    BY FreeIsNext DEF Next1
  <2>2. {x \in w.rows : x.path = r.path} = {r}
    BY OneRowAPath
  <2>3. Versions(r.path)' = Versions(r.path) \cup {r.version}
    BY <2>1, <2>2, VersionsAfter
  <2>4. Versions(r.path)' = 1..(Mark(r.path) + 1)
    BY <2>1, <2>3, Marks
  <2>5. Mark(r.path)' = Max0(Versions(r.path)')
    BY DEF Mark, Versions
  <2> QED
    BY <2>1, <2>4, <2>5, GreatestOfRange
<1>3. \A p \in Path : \E n \in Nat : Versions(p)' = 1..n
  <2> SUFFICES ASSUME NEW p \in Path PROVE \E n \in Nat : Versions(p)' = 1..n
    OBVIOUS
  <2>1. CASE Touched(w, p)
    BY <1>2, <2>1 DEF Touched
  <2>2. CASE ~Touched(w, p)
    BY <1>1, <2>2
  <2> QED
    BY <2>1, <2>2
<1> QED
  BY <1>1, <1>2, <1>3 DEF Dense

LEMMA RowsAfter ==
    ASSUME Types, Dense, OneRow, NEW w \in Work, NEW q, Shaped(w), Fits(q, w), ~Violates(w), Writes(w)
    PROVE  memory_versions' \subseteq RowType /\ OneRow'
<1>1. memory_versions' \subseteq RowType
  BY BlankedRow DEF Writes, Work
<1>2. ASSUME NEW r \in memory_versions, NEW s \in w.rows, r.path = s.path
      PROVE  r.version # s.version
  BY <1>2 DEF Violates
<1>3. ASSUME NEW x \in memory_versions', NEW y \in memory_versions',
             x.path = y.path, x.version = y.version
      PROVE  x = y
  <2>1. CASE x \in w.rows /\ y \in w.rows
    BY <2>1, <1>3, OneRowAPath
  <2>2. ASSUME NEW r \in memory_versions, NEW s \in w.rows
        PROVE  ~(Blanked(w, r).path = s.path /\ Blanked(w, r).version = s.version)
    BY <1>2, BlankedRow
  <2>3. ASSUME NEW r \in memory_versions, NEW s \in memory_versions,
               x = Blanked(w, r), y = Blanked(w, s)
        PROVE  x = y
    BY <1>3, <2>3, BlankedRow DEF OneRow
  <2> QED
    BY <1>3, <2>1, <2>2, <2>3 DEF Writes
<1> QED
  BY <1>1, <1>3 DEF OneRow
\* What becomes of the live rows: a path whose rows do not change keeps its
\* document, at most blanked; a row that is put is the document; the document
\* of a row that is not put is gone.
LEMMA DocsAfter ==
    ASSUME Types, Dense, NEW w \in Work, NEW q, Shaped(w), Fits(q, w), ~Violates(w), Writes(w)
    PROVE  /\ memories' \in [Path -> Docs \cup {NoDoc}]
           /\ \A p \in Path : ~Touched(w, p) =>
                /\ Live(p)' <=> Live(p)
                /\ Live(p) => /\ memories'[p].version = memories[p].version
                             /\ memories'[p].born = memories[p].born
           /\ \A r \in w.put : Live(r.path)' /\ memories'[r.path].version = r.version
           /\ \A r \in w.rows \ w.put : Live(r.path) /\ ~Live(r.path)'
           /\ \A p \in Path : Live(p)' => memories'[p].path = p
<1>1. \A p \in Path : memories'[p] = Landed(w, p)
  BY DEF Writes
<1>2. NoDoc \notin Docs
  BY NamesAssumption DEF Docs
<1>3. w.put \subseteq w.rows /\ w.rows \subseteq RowType /\ w.put \subseteq RowType
  BY DEF Shaped, Still, Puts, Removes, Carries, Work
<1>4. \A p \in Path : memories[p] \in Docs \cup {NoDoc} /\ (Live(p) => memories[p].path = p)
  BY DEF Types, TypeOK, Live
<1>5. ASSUME NEW r \in w.put
      PROVE  /\ r.path \in Path /\ memories'[r.path] \in Docs
             /\ memories'[r.path].version = r.version /\ memories'[r.path].path = r.path
  <2>1. {x \in w.put : x.path = r.path} = {r}
    BY <1>3, OneRowAPath
  <2>2. r \in RowType /\ r.path \in Path /\ r.version \in Nat \ {0}
    BY <1>3 DEF RowType
  <2>3. (CHOOSE x \in {r} : TRUE) = r
    OBVIOUS
  <2>4. memories'[r.path] = [path |-> r.path, version |-> r.version, text |-> r.text,
            born |-> IF memories[r.path] = NoDoc THEN r.version ELSE memories[r.path].born]
    BY <1>1, <2>1, <2>2, <2>3 DEF Landed
  <2>5. (IF memories[r.path] = NoDoc THEN r.version ELSE memories[r.path].born) \in Nat \ {0}
    BY <1>4, <2>2 DEF Docs
  <2> QED
    BY <2>2, <2>4, <2>5 DEF Docs, RowType
<1>6. ASSUME NEW r \in w.rows, r \notin w.put
      PROVE  r.path \in Path /\ Live(r.path) /\ memories'[r.path] = NoDoc
  <2>1. {x \in w.put : x.path = r.path} = {}
    BY <1>3, <1>6, OneRowAPath
  <2>2. r.path \in Path /\ Next1(r)
    BY FreeIsNext
  <2>3. Live(r.path) /\ <<r.path, memories[r.path].born>> \in w.gone
    BY <1>6, <2>2 DEF Fits
  <2> QED
    BY <1>1, <2>1, <2>2, <2>3 DEF Landed, Live
<1>7. ASSUME NEW p \in Path, ~Touched(w, p)
      PROVE  \/ memories'[p] = memories[p]
             \/ Live(p) /\ memories'[p] = [memories[p] EXCEPT !.text = Cleared]
  <2>1. {x \in w.put : x.path = p} = {}
    BY <1>3, <1>7 DEF Touched
  <2>2. \A b : <<p, b>> \notin w.gone
    BY <1>7 DEF Touched, Shaped, Still, Puts, Removes, Carries
  <2> QED
    BY <1>1, <2>1, <2>2 DEF Landed, Live
<1>8. ASSUME NEW d \in Docs
      PROVE  /\ [d EXCEPT !.text = Cleared] \in Docs
             /\ [d EXCEPT !.text = Cleared].version = d.version
             /\ [d EXCEPT !.text = Cleared].born = d.born
             /\ [d EXCEPT !.text = Cleared].path = d.path
  BY DEF Docs, Texts
<1>9. ASSUME NEW p \in Path, ~Touched(w, p)
      PROVE  /\ memories'[p] \in Docs \cup {NoDoc} /\ (Live(p)' <=> Live(p))
             /\ Live(p) => /\ memories'[p].version = memories[p].version
                          /\ memories'[p].born = memories[p].born
                          /\ memories'[p].path = p
  <2>1. memories[p] \in Docs \cup {NoDoc} /\ (Live(p) => memories[p] \in Docs /\ memories[p].path = p)
    BY <1>4 DEF Live
  <2>2. CASE memories'[p] = memories[p]
    BY <2>1, <2>2 DEF Live
  <2>3. CASE Live(p) /\ memories'[p] = [memories[p] EXCEPT !.text = Cleared]
    <3>1. /\ memories'[p] \in Docs /\ memories'[p].version = memories[p].version
          /\ memories'[p].born = memories[p].born /\ memories'[p].path = p
      BY <2>1, <2>3, <1>8
    <3> QED
      BY <3>1, <2>3, <1>2 DEF Live
  <2> QED
    BY <1>7, <1>9, <2>2, <2>3
<1>10. ASSUME NEW p \in Path
       PROVE  memories'[p] \in Docs \cup {NoDoc} /\ (Live(p)' => memories'[p].path = p)
  <2>1. CASE Touched(w, p)
    BY <1>5, <1>6, <2>1 DEF Touched, Live
  <2>2. CASE ~Touched(w, p)
    BY <1>9, <2>2
  <2> QED
    BY <2>1, <2>2
<1>11. memories' \in [Path -> Docs \cup {NoDoc}]
  BY <1>10 DEF Writes
<1> QED
  BY <1>2, <1>5, <1>6, <1>9, <1>10, <1>11 DEF Live

\* The live rows are the last of their histories.
LEMMA HeadsAfter ==
    ASSUME Types, Dense, Heads, NEW w \in Work, NEW q,
           Shaped(w), Fits(q, w), ~Violates(w), Writes(w)
    PROVE  Heads'
<1> SUFFICES ASSUME NEW p \in Path, Live(p)' PROVE memories'[p].version = Mark(p)'
  BY DEF Heads
<1>1. CASE ~Touched(w, p)
  BY <1>1, DocsAfter, MarksAfter DEF Heads
<1>2. CASE Touched(w, p)
  <2>1. PICK r \in w.rows : r.path = p
    BY <1>2 DEF Touched
  <2>2. r \in w.put
    BY <2>1, DocsAfter
  <2> QED
    BY <2>1, <2>2, DocsAfter, MarksAfter
<1> QED
  BY <1>1, <1>2

\* Another statement under way still fits: where rows were added its number is
\* taken, elsewhere nothing it looked at changed.
LEMMA OthersFit ==
    ASSUME Types, Dense, Heads, Numbered, NEW w \in Work, NEW q,
           Shaped(w), Fits(q, w), ~Violates(w), Writes(w),
           Cardinality(turns)' \in {Cardinality(turns), Cardinality(turns) + 1},
           NEW u \in Work, NEW o \in Requests, Fits(o, u)
    PROVE  Fits(o, u)'
<1>1. ASSUME NEW r \in u.rows
      PROVE  /\ r.version <= Mark(r.path)' + 1
             /\ Next1(r)' => Next1(r) /\ ~Touched(w, r.path)
  <2>1. r.path \in Path /\ r.version \in Nat /\ Mark(r.path) \in Nat /\ r.version <= Mark(r.path) + 1
    BY Marks DEF Work, RowType, Fits
  <2>2. CASE Touched(w, r.path)
    <3>1. Mark(r.path)' = Mark(r.path) + 1
      BY <2>2, MarksAfter DEF Touched
    <3> QED
      BY <2>1, <3>1 DEF Next1
  <2>3. CASE ~Touched(w, r.path)
    <3>1. Mark(r.path)' = Mark(r.path)
      BY <2>1, <2>3, MarksAfter
    <3> QED
      BY <2>1, <2>3, <3>1 DEF Next1
  <2> QED
    BY <2>2, <2>3
<1>2. \A p \in Path : ~Touched(w, p) =>
        /\ memories'[p] # NoDoc <=> memories[p] # NoDoc
        /\ memories[p] # NoDoc => /\ memories'[p].version = memories[p].version
                                 /\ memories'[p].born = memories[p].born
  BY DocsAfter DEF Live
<1>3. \A r \in u.rows : r.path \in Path
  BY DEF Work, RowType
<1>4. ASSUME NEW r \in u.rows, Next1(r)', r \notin u.put
      PROVE  Live(r.path)' /\ <<r.path, memories'[r.path].born>> \in u.gone
  <2>1. Next1(r) /\ ~Touched(w, r.path) /\ r.path \in Path
    BY <1>1, <1>3, <1>4
  <2>2. Live(r.path) /\ <<r.path, memories[r.path].born>> \in u.gone
    BY <1>4, <2>1 DEF Fits
  <2>3. Live(r.path)' /\ memories'[r.path].born = memories[r.path].born
    BY <1>2, <2>1, <2>2 DEF Live
  <2> QED
    BY <2>2, <2>3
<1>5. ASSUME o.kind = "write" /\ o.fence # NoFence, NEW r \in u.rows
      PROVE  r.path = o.path /\ (Next1(r)' => Shown(o.path)' = o.fence)
  <2>1. r.path = o.path /\ r.path \in Path /\ (Next1(r) => Shown(o.path) = o.fence)
    BY <1>3, <1>5 DEF Fits
  <2>2. ASSUME Next1(r)' PROVE Shown(r.path)' = Shown(r.path) /\ Next1(r)
    <3>1. Next1(r) /\ ~Touched(w, r.path)
      BY <1>1, <2>2
    <3> QED
      BY <1>2, <2>1, <3>1 DEF Shown, Live
  <2> QED
    BY <2>1, <2>2
<1>6. u.turn <= Cardinality(turns)' + 1
  <2>1. Cardinality(turns) \in Nat /\ u.turn \in Nat
    BY FS_CardinalityType DEF Numbered, Work
  <2> QED
    BY <2>1 DEF Fits
<1> QED
  BY <1>1, <1>4, <1>5, <1>6 DEF Fits
-----------------------------------------------------------------------------
(* What the steps write of a call.                                         *)

CallMoves(c) ==
    /\ call' \in [Busy -> Calls]
    /\ \A d \in Busy \ {c} : call'[d] = call[d]
    /\ call'[c].op = call[c].op

LEMMA PlaceMoves ==
    ASSUME call \in [Busy -> Calls], NEW c \in Busy, NEW p \in Places, NEW s \in Slots,
           \/ call' = [call EXCEPT ![c].pc = p]
           \/ call' = [call EXCEPT ![c].pc = p, ![c].on = s]
    PROVE  /\ CallMoves(c) /\ call'[c].pc = p /\ call'[c].work = call[c].work
BY DEF CallMoves, Calls, Busy

LEMMA StartMoves ==
    ASSUME call \in [Busy -> Calls], NEW c \in Busy, NEW w \in Work,
           call' = [call EXCEPT ![c].pc = "running", ![c].work = w]
    PROVE  /\ CallMoves(c) /\ call'[c].pc = "running" /\ call'[c].work = w
BY DEF CallMoves, Calls, Busy, Places

LEMMA RetryMoves ==
    ASSUME call \in [Busy -> Calls], NEW c \in Busy, NEW w \in Work,
           call' = [call EXCEPT ![c].pc = "ask", ![c].tries = @ + 1, ![c].work = w]
    PROVE  /\ CallMoves(c) /\ call'[c].pc = "ask"
BY DEF CallMoves, Calls, Busy, Places

LEMMA EndMoves ==
    ASSUME call \in [Busy -> Calls], NEW c \in Busy, NEW answer \in {"ok", "failed"},
           End(c, answer)
    PROVE  /\ CallMoves(c) /\ call'[c].pc = "done" /\ call'[c].answer = answer
BY DEF End, CallMoves, Calls, Busy, Places

LEMMA CallTyped ==
    ASSUME call \in [Busy -> Calls], NEW c \in Busy
    PROVE  /\ call[c].op \in Requests /\ call[c].pc \in Places /\ call[c].on \in Slots
           /\ call[c].work \in Work
BY DEF Calls

\* The pool and the lock hold callers.
LEMMA ReleaseTyped ==
    ASSUME Types, NEW c \in Busy, Release(c)
    PROVE  lock' \in Caller \cup {NoOne} /\ slot' \in [Slots -> Caller \cup {NoOne}]
<1>1. slot \in [Slots -> Caller \cup {NoOne}] /\ lock \in Caller \cup {NoOne}
  BY DEF Types, TypeOK
<1> QED
  BY <1>1 DEF Release

\* A step that leaves the rows alone.
LEMMA QuietKeeps ==
    ASSUME StoreInv, NEW c \in Busy, ~At(c, "done"), CallMoves(c),
           UNCHANGED <<tracked, memories, memory_versions, turns, changes, history>>,
           floor' \in 0..Len(changes), next' \in Slots,
           lock' \in Caller \cup {NoOne}, slot' \in [Slots -> Caller \cup {NoOne}],
           call'[c].pc = "running" => Shaped(call'[c].work) /\ Fits(call'[c].op, call'[c].work),
           call'[c].pc = "done" /\ call'[c].answer = "ok" => call'[c].op.kind # "turn"
    PROVE  StoreInv'
<1>1. Busy' = Busy /\ \A d \in Busy : call'[d].op = call[d].op
  BY DEF Busy, CallMoves
<1>2. UNCHANGED <<memories, memory_versions, turns, changes, tracked, erased, landed>>
  BY DEF history
<1>3. Types'
  <2>1. TypeOK'
    BY <1>2 DEF StoreInv, Types, TypeOK, Live
  <2> QED
    BY <1>1, <1>2, <2>1 DEF StoreInv, Types, CallMoves
<1>4. Dense' /\ OneRow' /\ Heads' /\ Numbered'
  BY <1>2 DEF StoreInv, Dense, Versions, OneRow, Heads, Live, Mark, Numbered, Numbers
<1>5. Deciding'
  <2> SUFFICES ASSUME NEW d \in Busy, At(d, "running")'
               PROVE  Shaped(call'[d].work) /\ Fits(call[d].op, call[d].work)'
    BY <1>1 DEF Deciding
  <2>1. Shaped(call'[d].work) /\ Fits(call'[d].op, call'[d].work)
    <3>1. CASE d = c
      BY <3>1 DEF At
    <3>2. CASE d # c
      BY <3>2 DEF At, CallMoves, StoreInv, Deciding
    <3> QED
      BY <3>1, <3>2
  <2> QED
    BY <1>2, <2>1 DEF Fits, Next1, Mark, Live, Shown
<1>6. FenceHolds'
  BY <1>1, <1>2 DEF StoreInv, FenceHolds, Lands1
<1>7. Lands1'
  <2>1. \A d \in Busy : At(d, "done") => d # c /\ call'[d] = call[d]
    BY DEF CallMoves
  <2>2. (\A l \in landed : l.by \in Busy /\ At(l.by, "done"))'
    BY <1>1, <1>2, <2>1 DEF StoreInv, Lands1, At
  <2>3. (\A t \in turns : t.text \in Busy /\ At(t.text, "done"))'
    BY <1>1, <1>2, <2>1 DEF StoreInv, Lands1, At
  <2>4. ASSUME NEW d \in Busy, (At(d, "done") /\ call[d].answer = "ok" /\ call[d].op.kind = "turn")'
        PROVE  \E t \in turns : {x \in turns : x.text = d} = {t}
    <3>1. d # c
      BY <2>4 DEF At
    <3>2. call'[d] = call[d]
      BY <3>1 DEF CallMoves
    <3> QED
      BY <2>4, <3>2 DEF StoreInv, Lands1, At
  <2> QED
    BY <1>1, <1>2, <2>2, <2>3, <2>4 DEF StoreInv, Lands1
<1> QED
  BY <1>3, <1>4, <1>5, <1>6, <1>7 DEF StoreInv

\* What a snapshot decides.
LEMMA StatementDecides ==
    ASSUME StoreInv, NEW c \in Busy, call[c].op.kind # "prune", NEW w, w = Statement(c)
    PROVE  /\ w \in Work /\ Shaped(w) /\ Fits(call[c].op, w)
           /\ Snapped(c, w) /\ (call[c].op.kind = "turn" => Calm(w))
<1> DEFINE q == call[c].op
<1>1. q \in Requests /\ q.kind \in Ops \ {"prune"} /\ c \in Caller
  BY CallTyped DEF StoreInv, Types, Requests
<1>2. Types /\ Dense /\ Heads /\ Numbered
  BY DEF StoreInv
<1>3. /\ q.kind = "write" => w = WriteDocument(c, q)
      /\ q.kind = "delete" => w = DeleteDocument(q)
      /\ q.kind = "rename" => w = RenameDocument(q)
      /\ q.kind = "redact" => w = Redact(q)
      /\ q.kind = "restore" => w = RestoreScope(c, q)
      /\ q.kind = "turn" => w = AppendTurn
  BY DEF Statement
<1> HIDE DEF q
<1>4. CASE q.kind = "write"
  BY <1>1, <1>2, <1>3, <1>4, WriteDecides DEF q
<1>5. CASE q.kind = "delete"
  BY <1>1, <1>2, <1>3, <1>5, DeleteDecides DEF q
<1>6. CASE q.kind = "rename"
  BY <1>1, <1>2, <1>3, <1>6, RenameDecides DEF q
<1>7. CASE q.kind = "redact"
  BY <1>1, <1>2, <1>3, <1>7, RedactDecides DEF q
<1>8. CASE q.kind = "restore"
  BY <1>1, <1>2, <1>3, <1>8, RestoreDecides DEF q
<1>9. CASE q.kind = "turn"
  BY <1>1, <1>2, <1>3, <1>9, TurnDecides DEF q, Snapped
<1> QED
  BY <1>1, <1>4, <1>5, <1>6, <1>7, <1>8, <1>9 DEF Ops

LEMMA StartKeeps == ASSUME StoreInv, NEW c \in Busy, Start(c) PROVE StoreInv'
<1>1. PICK w : w = Statement(c)
  OBVIOUS
<1>2. w \in Work /\ Shaped(w) /\ Fits(call[c].op, w)
  BY <1>1, StatementDecides DEF Start
<1>3. CallMoves(c) /\ call'[c].pc = "running" /\ call'[c].work = w
  BY <1>1, <1>2, StartMoves DEF Start, StoreInv, Types
<1>4. Shaped(call'[c].work) /\ Fits(call'[c].op, call'[c].work)
  BY <1>2, <1>3 DEF CallMoves
<1>5. UNCHANGED <<tracked, database, lock, next, slot, history>> /\ ~At(c, "done")
  BY DEF Start, At
<1> QED
  BY <1>3, <1>4, <1>5, QuietKeeps DEF StoreInv, Types, TypeOK, database

\* The steps of a call before its statement runs.
LEMMA WaitKeeps ==
    ASSUME StoreInv, NEW c \in Busy, Ask(c) \/ Checkout(c) \/ Lock(c)
    PROVE  StoreInv'
<1>1. call \in [Busy -> Calls] /\ call[c].on \in Slots /\ next \in Slots /\ c \in Caller
  BY CallTyped DEF StoreInv, Types
<1>2. \E p \in Places \ {"running", "done"}, s \in Slots :
         \/ call' = [call EXCEPT ![c].pc = p]
         \/ call' = [call EXCEPT ![c].pc = p, ![c].on = s]
  <2>1. CASE Ask(c)
    BY <1>1, <2>1 DEF Ask, Places
  <2>2. CASE Checkout(c)
    <3>1. (IF UnderLock(c) THEN "begun" ELSE "ready") \in Places \ {"running", "done"}
      BY DEF Places
    <3> QED
      BY <1>1, <2>2, <3>1 DEF Checkout, Step
  <2>3. CASE Lock(c)
    <3>1. "ready" \in Places \ {"running", "done"}
      BY DEF Places
    <3> QED
      BY <1>1, <2>3, <3>1 DEF Lock, Step
  <2> QED
    BY <2>1, <2>2, <2>3
<1>3. CallMoves(c) /\ call'[c].pc \notin {"running", "done"}
  <2>1. PICK p \in Places \ {"running", "done"}, s \in Slots :
             \/ call' = [call EXCEPT ![c].pc = p]
             \/ call' = [call EXCEPT ![c].pc = p, ![c].on = s]
    BY <1>2
  <2> QED
    BY <1>1, <2>1, PlaceMoves
<1>4. next' \in Slots
  <2>1. CASE Ask(c)
    BY <1>1, <2>1, PoolAssumption DEF Ask, Slots
  <2>2. CASE Checkout(c) \/ Lock(c)
    BY <1>1, <2>2 DEF Checkout, Lock
  <2> QED
    BY <2>1, <2>2
<1>5. lock' \in Caller \cup {NoOne} /\ slot' \in [Slots -> Caller \cup {NoOne}]
  BY <1>1 DEF Ask, Checkout, Lock, StoreInv, Types, TypeOK
<1>6. UNCHANGED <<tracked, database, history>> /\ ~At(c, "done")
  BY DEF Ask, Checkout, Lock, At
<1> QED
  BY <1>3, <1>4, <1>5, <1>6, QuietKeeps DEF StoreInv, Types, TypeOK, database

\* A call that ends without having written rows.
LEMMA EndKeeps ==
    ASSUME StoreInv, NEW c \in Busy, Expire(c) \/ Prune(c) \/ Disconnect(c)
    PROVE  StoreInv'
<1>1. /\ ~At(c, "done")
      /\ UNCHANGED <<tracked, memories, memory_versions, turns, changes, next, history>>
  BY DEF Expire, Prune, Disconnect, At, database
<1>2. PICK answer \in {"ok", "failed"} :
          End(c, answer) /\ (answer = "ok" => call[c].op.kind = "prune")
  BY DEF Expire, Prune, Disconnect
<1>3. CallMoves(c) /\ call'[c].pc = "done" /\ call'[c].answer = answer
  BY <1>2, EndMoves DEF StoreInv, Types
<1>4. lock' \in Caller \cup {NoOne} /\ slot' \in [Slots -> Caller \cup {NoOne}]
  <2>1. CASE Expire(c)
    BY <2>1 DEF Expire, StoreInv, Types, TypeOK
  <2>2. CASE Release(c)
    BY <2>2, ReleaseTyped DEF StoreInv
  <2> QED
    BY <2>1, <2>2 DEF Prune, Disconnect
<1>5. floor' \in 0..Len(changes)
  <2>1. floor \in Nat /\ floor \in 0..Len(changes) /\ Len(changes) \in Nat
    BY DEF StoreInv, Types, TypeOK
  <2>2. CASE Prune(c)
    <3>1. PICK through \in floor..Len(changes) : floor' = through
      BY <2>2 DEF Prune
    <3> QED
      BY <2>1, <3>1
  <2>3. CASE Expire(c) \/ Disconnect(c)
    BY <2>1, <2>3 DEF Expire, Disconnect, database
  <2> QED
    BY <2>2, <2>3
<1>6. call'[c].answer = "ok" => call'[c].op.kind # "turn"
  BY <1>2, <1>3 DEF CallMoves
<1> QED
  BY <1>1, <1>3, <1>4, <1>5, <1>6, QuietKeeps DEF StoreInv, Types

LEMMA RetryPlaces ==
    ASSUME StoreInv, NEW c \in Busy, Retry(c)
    PROVE  /\ CallMoves(c) /\ call'[c].pc \in {"ask", "done"}
           /\ call'[c].pc = "done" => call'[c].answer = "failed"
<1>1. CallMoves(c) /\ (call'[c].pc = "ask" \/ (call'[c].pc = "done" /\ call'[c].answer = "failed"))
  <2>1. CASE call' = [call EXCEPT ![c].pc = "ask", ![c].tries = @ + 1, ![c].work = Nothing]
    <3>1. call \in [Busy -> Calls] /\ Nothing \in Work
      BY NothingWork DEF StoreInv, Types
    <3>2. PICK w \in Work : w = Nothing
      BY <3>1
    <3>3. call' = [call EXCEPT ![c].pc = "ask", ![c].tries = @ + 1, ![c].work = w]
      BY <2>1, <3>2
    <3>4. CallMoves(c) /\ call'[c].pc = "ask"
      BY <3>1, <3>3, RetryMoves
    <3> QED
      BY Zenon, <3>4
  <2>2. CASE End(c, "failed")
    BY <2>2, EndMoves DEF StoreInv, Types
  <2> QED
    BY <2>1, <2>2 DEF Retry
<1> QED
  BY <1>1

LEMMA RetryKeeps == ASSUME StoreInv, NEW c \in Busy, Retry(c) PROVE StoreInv'
<1>1. /\ ~At(c, "done") /\ Release(c)
      /\ UNCHANGED <<tracked, database, next, history>>
  BY DEF Retry, At
<1>2. CallMoves(c) /\ call'[c].pc \in {"ask", "done"}
      /\ (call'[c].pc = "done" => call'[c].answer = "failed")
  BY RetryPlaces
<1>3. lock' \in Caller \cup {NoOne} /\ slot' \in [Slots -> Caller \cup {NoOne}]
  BY <1>1, ReleaseTyped DEF StoreInv
<1> QED
  BY <1>1, <1>2, <1>3, QuietKeeps DEF StoreInv, Types, TypeOK, database
-----------------------------------------------------------------------------
(* A commit.                                                               *)

\* The texts a commit erases, and the events it appends, are of their kinds.
LEMMA SweptTyped == ASSUME NEW w \in Work PROVE Swept(w) \subseteq Texts
<1>1. \A r \in w.clear : r.text \in Texts
  BY DEF Work, RowType, Docs
<1> QED
  BY <1>1 DEF Swept

LEMMA EventsTyped ==
    ASSUME changes \in Seq(Events), NEW w \in Work
    PROVE  Append1(w) \in Seq(Events) /\ Len(changes) <= Len(Append1(w))
<1>1. w.event \in Seq(Events)
  BY DEF Work
<1>2. CASE w.event = <<>>
  BY <1>2 DEF Append1
<1>3. CASE w.event # <<>>
  <2>1. w.event[1] \in Events
    BY <1>1, <1>3
  <2>2. Event("reset", w.event[1].path, 0, w.event[1].path) \in Seq(Events)
    <3>1. "reset" \in Kinds /\ w.event[1].path \in Path /\ 0 \in Nat
      BY <2>1 DEF Kinds, Events
    <3> QED
      BY <3>1, EventSeq
  <2>3. \/ /\ changes = <<>>
           /\ Append1(w) = Event("reset", w.event[1].path, 0, w.event[1].path) \o w.event
        \/ Append1(w) = changes \o w.event
    BY <1>3 DEF Append1
  <2>4. \A a, b \in Seq(Events) : a \o b \in Seq(Events) /\ Len(a \o b) = Len(a) + Len(b)
                              /\ Len(a) \in Nat /\ Len(b) \in Nat
    OBVIOUS
  <2>5. CASE Append1(w) = changes \o w.event
    BY <1>1, <2>4, <2>5
  <2>6. CASE /\ changes = <<>>
             /\ Append1(w) = Event("reset", w.event[1].path, 0, w.event[1].path) \o w.event
    <3>1. Len(changes) = 0
      BY <2>6
    <3>2. Append1(w) \in Seq(Events) /\ Len(Append1(w)) \in Nat
      BY <1>1, <2>2, <2>4, <2>6
    <3> QED
      BY <3>1, <3>2
  <2> QED
    BY <2>3, <2>5, <2>6
<1> QED
  BY <1>2, <1>3

\* A turn that violates no key is the next one, and the only one of its caller.
LEMMA TurnsAfter ==
    ASSUME Numbered, Lands1, turns \subseteq [turn : Nat \ {0}, text : Caller],
           NEW c \in Caller, ~(c \in Busy /\ At(c, "done")),
           NEW w \in Work, w.turn <= Cardinality(turns) + 1, ~Violates(w),
           turns' = turns \cup IF w.turn > 0 THEN {[turn |-> w.turn, text |-> c]} ELSE {}
    PROVE  /\ turns' \subseteq [turn : Nat \ {0}, text : Caller]
           /\ Numbered' /\ Cardinality(turns)' \in {Cardinality(turns), Cardinality(turns) + 1}
           /\ w.turn # 0 => \E t \in turns' : {x \in turns' : x.text = c} = {t}
           /\ \A t \in turns' : t \in turns \/ t.text = c
<1> DEFINE n == Cardinality(turns)
           t == [turn |-> w.turn, text |-> c]
<1>1. n \in Nat /\ Numbers = 1..n /\ IsFiniteSet(turns)
  BY FS_CardinalityType DEF Numbered
<1>2. w.turn \in Nat
  BY DEF Work
<1>3. CASE w.turn = 0
  <2>1. turns' = turns
    BY <1>3
  <2> QED
    BY <1>3, <2>1 DEF Numbered, Numbers
<1>4. CASE w.turn > 0
  <2>1. w.turn \notin Numbers
    BY DEF Violates, Numbers
  <2>2. w.turn = n + 1
    BY <1>1, <1>2, <1>4, <2>1
  <2>3. t.turn = n + 1 /\ t.text = c /\ t \in [turn : Nat \ {0}, text : Caller]
    BY <1>1, <2>2
  <2>4. t \notin turns
    BY <2>1, <2>2, <2>3 DEF Numbers
  <2>5. turns' = turns \cup {t}
    BY <1>4
  <2> HIDE DEF t
  <2>6. IsFiniteSet(turns') /\ Cardinality(turns') = n + 1
    BY <1>1, <2>4, <2>5, FS_AddElement
  <2>7. Numbers' = 1..(n + 1)
    <3>1. Numbers' = Numbers \cup {n + 1}
      BY <2>3, <2>5 DEF Numbers
    <3> QED
      BY <1>1, <3>1
  <2>8. {x \in turns' : x.text = c} = {t}
    BY <2>3, <2>5 DEF Lands1
  <2> QED
    BY <2>3, <2>5, <2>6, <2>7, <2>8 DEF Numbered
<1> QED
  BY <1>2, <1>3, <1>4

LEMMA CommitKeeps == ASSUME StoreInv, NEW c \in Busy, Commit(c) PROVE StoreInv'
<1> DEFINE w == call[c].work
           q == call[c].op
           l == [by |-> c, over |-> Shown(q.path), work |-> w]
<1>1. w \in Work /\ q \in Requests /\ c \in Caller /\ call \in [Busy -> Calls]
  BY CallTyped DEF StoreInv, Types
<1>2. At(c, "running") /\ Shaped(w) /\ Fits(q, w) /\ ~Violates(w) /\ Writes(w)
  BY DEF Commit, StoreInv, Deciding, Writes
<1>3. /\ turns' = turns \cup IF w.turn > 0 THEN {[turn |-> w.turn, text |-> c]} ELSE {}
      /\ changes' = IF UnderLock(c) THEN Append1(w) ELSE changes
      /\ erased' = erased \cup (Swept(w) \ {Cleared})
      /\ landed' = landed \cup {l}
      /\ Release(c) /\ UNCHANGED <<tracked, floor, next>>
  BY DEF Commit
<1>4. PICK answer \in {"ok", "failed"} : End(c, answer)
  BY DEF Commit
<1>5. CallMoves(c) /\ call'[c].pc = "done" /\ call'[c].answer = answer
  BY <1>1, <1>4, EndMoves
<1>6. l.by = c /\ l.over = Shown(q.path) /\ l.work = w
  OBVIOUS
<1> HIDE DEF w, q, l
<1>7. Busy' = Busy /\ \A d \in Busy : call'[d].op = call[d].op
  BY <1>5 DEF Busy, CallMoves
<1>8. ~At(c, "done") /\ call'[c].op = q
  BY <1>2, <1>5 DEF At, CallMoves, q
<1>9. /\ turns' \subseteq [turn : Nat \ {0}, text : Caller]
      /\ Numbered' /\ Cardinality(turns)' \in {Cardinality(turns), Cardinality(turns) + 1}
      /\ w.turn # 0 => \E t \in turns' : {x \in turns' : x.text = c} = {t}
      /\ \A t \in turns' : t \in turns \/ t.text = c
  <2>1. w.turn <= Cardinality(turns) + 1 /\ turns \subseteq [turn : Nat \ {0}, text : Caller]
    BY <1>2 DEF Fits, StoreInv, Types, TypeOK
  <2> QED
    BY <1>1, <1>2, <1>3, <1>8, <2>1, TurnsAfter DEF StoreInv
<1>10. Types /\ Dense /\ OneRow /\ Heads /\ Numbered
  BY DEF StoreInv
<1>11. Dense'
  BY <1>1, <1>2, <1>10, MarksAfter
<1>12. memory_versions' \subseteq RowType /\ OneRow'
  BY <1>1, <1>2, <1>10, RowsAfter
<1>13. /\ memories' \in [Path -> Docs \cup {NoDoc}]
       /\ \A p \in Path : Live(p)' => memories'[p].path = p
  BY <1>1, <1>2, <1>10, DocsAfter
<1>14. Heads'
  BY <1>1, <1>2, <1>10, HeadsAfter
<1>15. Types'
  <2>1. lock' \in Caller \cup {NoOne} /\ slot' \in [Slots -> Caller \cup {NoOne}]
    BY <1>3, <1>10, ReleaseTyped
  <2>2. erased' \subseteq Texts
    BY <1>1, <1>3, <1>10, SweptTyped DEF Types, TypeOK
  <2>3. changes' \in Seq(Events) /\ floor' \in Nat /\ floor' \in 0..Len(changes')
    <3>1. changes \in Seq(Events) /\ floor \in Nat /\ floor <= Len(changes)
      BY <1>10 DEF Types, TypeOK
    <3>2. changes' \in Seq(Events) /\ Len(changes) <= Len(changes')
      BY <1>1, <1>3, <3>1, EventsTyped
    <3>3. Len(changes) \in Nat /\ Len(changes') \in Nat
      BY <3>1, <3>2
    <3> QED
      BY <1>3, <3>1, <3>2, <3>3
  <2>4. \A p \in Path : Live(p)' => memories'[p] \in
            [path : {p}, version : Nat \ {0}, text : Texts, born : Nat \ {0}]
    BY <1>13 DEF Docs, Live
  <2>5. tracked' \in BOOLEAN /\ next' \in Slots
    BY <1>3, <1>10 DEF Types, TypeOK
  <2>6. TypeOK'
    BY <1>9, <1>12, <2>1, <2>2, <2>3, <2>4, <2>5 DEF TypeOK
  <2>7. Busy' \subseteq Caller /\ call' \in [Busy' -> Calls]
    BY <1>5, <1>7, <1>10 DEF Types, CallMoves
  <2> QED
    BY <1>13, <2>3, <2>5, <2>6, <2>7 DEF Types
<1>16. Deciding'
  <2> SUFFICES ASSUME NEW d \in Busy, At(d, "running")'
               PROVE  Shaped(call'[d].work) /\ Fits(call[d].op, call[d].work)'
    BY <1>7 DEF Deciding
  <2>1. d # c /\ call'[d] = call[d]
    BY <1>5 DEF At, CallMoves
  <2>2. Shaped(call[d].work) /\ Fits(call[d].op, call[d].work)
    BY <2>1 DEF At, StoreInv, Deciding
  <2>3. PICK u \in Work, o \in Requests : u = call[d].work /\ o = call[d].op
    BY CallTyped DEF StoreInv, Types
  <2>4. Fits(o, u)'
    BY <1>1, <1>2, <1>9, <1>10, <2>2, <2>3, OthersFit
  <2> QED
    BY <2>1, <2>2, <2>3, <2>4 DEF Fits
<1>17. FenceHolds'
  <2> SUFFICES ASSUME NEW k \in landed', call'[k.by].op.kind = "write",
                      call'[k.by].op.fence # NoFence, k.work.rows # {}
               PROVE  k.over = call'[k.by].op.fence
    BY DEF FenceHolds
  <2>1. CASE k \in landed
    <3>1. call'[k.by].op = call[k.by].op
      BY <1>7, <2>1 DEF StoreInv, Lands1
    <3> QED
      BY <2>1, <3>1 DEF StoreInv, FenceHolds
  <2>2. CASE k = l
    <3>1. q.kind = "write" /\ q.fence # NoFence /\ w.rows # {}
      BY <1>6, <1>8, <2>2
    <3>2. PICK r \in w.rows : TRUE
      BY <3>1
    <3>3. Next1(r)
      BY <1>1, <1>2, <1>10, FreeIsNext
    <3>4. Shown(q.path) = q.fence
      BY <1>2, <3>1, <3>3 DEF Fits
    <3> QED
      BY <1>6, <1>8, <2>2, <3>4
  <2> QED
    BY <1>3, <2>1, <2>2
<1>18. Lands1'
  <2>1. \A d \in Busy : At(d, "done") => d # c /\ call'[d] = call[d]
    BY <1>5, <1>8 DEF CallMoves
  <2>2. ASSUME NEW k \in landed' PROVE k.by \in Busy /\ At(k.by, "done")' /\ (k.by = c => k = l)
    <3>1. CASE k \in landed
      BY <2>1, <3>1 DEF StoreInv, Lands1, At
    <3>2. CASE k = l
      BY <1>5, <1>6, <3>2 DEF At
    <3> QED
      BY <1>3, <3>1, <3>2
  <2>3. ASSUME NEW k \in landed', NEW m \in landed', k.by = m.by PROVE k = m
    <3>1. CASE k.by = c
      BY <2>2, <2>3, <3>1
    <3>2. CASE k.by # c
      <4>1. k \in landed /\ m \in landed
        BY <1>3, <1>6, <2>3, <3>2
      <4> QED
        BY <2>3, <4>1 DEF StoreInv, Lands1
    <3> QED
      BY <3>1, <3>2
  <2>4. ASSUME NEW t \in turns' PROVE t.text \in Busy /\ At(t.text, "done")'
    <3>1. CASE t \in turns
      BY <2>1, <3>1 DEF StoreInv, Lands1, At
    <3>2. CASE t.text = c
      BY <1>5, <3>2 DEF At
    <3> QED
      BY <1>9, <3>1, <3>2
  <2>5. ASSUME NEW d \in Busy, At(d, "done")', call'[d].answer = "ok", call'[d].op.kind = "turn"
        PROVE  \E t \in turns' : {x \in turns' : x.text = d} = {t}
    <3>1. CASE d = c
      <4>1. q.kind = "turn"
        BY <1>8, <2>5, <3>1
      <4>2. w.turn # 0
        BY <1>2, <4>1 DEF Fits
      <4> QED
        BY <1>9, <3>1, <4>2
    <3>2. CASE d # c
      <4>1. call'[d] = call[d]
        BY <1>5, <3>2 DEF CallMoves
      <4>2. \E t \in turns : {x \in turns : x.text = d} = {t}
        BY <2>5, <4>1 DEF StoreInv, Lands1, At
      <4>3. \A x \in turns' : x.text = d => x \in turns
        BY <1>9, <3>2
      <4>4. turns \subseteq turns'
        BY <1>3
      <4>5. {x \in turns' : x.text = d} = {x \in turns : x.text = d}
        BY <4>3, <4>4
      <4> QED
        BY <4>2, <4>4, <4>5
    <3> QED
      BY <3>1, <3>2
  <2> QED
    BY <1>7, <2>2, <2>3, <2>4, <2>5 DEF Lands1
<1> QED
  BY <1>9, <1>11, <1>12, <1>14, <1>15, <1>16, <1>17, <1>18 DEF StoreInv
-----------------------------------------------------------------------------
(* The theorems.                                                           *)

LEMMA InitHolds == ASSUME Init PROVE StoreInv
<1>1. PICK held \in SUBSET Path :
         /\ memory_versions = {RowOf(p, 1, Prior) : p \in held}
         /\ memories = [p \in Path |->
                IF p \in held THEN [path |-> p, version |-> 1, text |-> Prior, born |-> 1]
                ELSE NoDoc]
  BY DEF Init
<1>2. PICK plan \in Plans : call = [c \in DOMAIN plan |->
         [op |-> plan[c], pc |-> "ask", on |-> 0, tries |-> 1, work |-> Nothing,
          answer |-> "none"]]
  BY DEF Init
<1>3. /\ turns = {} /\ changes = <<>> /\ floor = 0 /\ lock = NoOne /\ erased = {} /\ landed = {}
      /\ next = 0 /\ slot = [s \in Slots |-> NoOne] /\ tracked \in BOOLEAN
  BY DEF Init
<1>4. \A p \in Path : /\ RowOf(p, 1, Prior) \in RowType
                      /\ RowOf(p, 1, Prior).path = p /\ RowOf(p, 1, Prior).version = 1
  BY RowTyped DEF Texts
<1>5. \A p \in Path : Versions(p) = IF p \in held THEN {1} ELSE {}
  BY <1>1, <1>4 DEF Versions
<1>6. Dense
  <2> SUFFICES ASSUME NEW p \in Path PROVE \E n \in Nat : Versions(p) = 1..n
    BY DEF Dense
  <2>1. CASE p \in held
    <3>1. Versions(p) = 1..1
      BY <1>5, <2>1
    <3> QED
      BY <3>1
  <2>2. CASE p \notin held
    <3>1. Versions(p) = 1..0
      BY <1>5, <2>2
    <3> QED
      BY <3>1
  <2> QED
    BY <2>1, <2>2
<1>7. NoDoc \notin Docs
  BY NamesAssumption DEF Docs
<1>8. \A p \in Path :
        /\ p \in held => memories[p] \in Docs /\ memories[p].version = 1 /\ memories[p].path = p
        /\ p \notin held => memories[p] = NoDoc
  BY <1>1 DEF Docs, Texts
<1>9. Heads
  <2> SUFFICES ASSUME NEW p \in Path, Live(p) PROVE memories[p].version = Mark(p)
    BY DEF Heads
  <2>1. p \in held
    BY <1>8 DEF Live
  <2>2. Versions(p) = 1..1
    BY <1>5, <2>1
  <2>3. Mark(p) = 1
    BY <2>2, GreatestOfRange DEF Mark, Versions
  <2> QED
    BY <1>8, <2>1, <2>3
<1>10. OneRow
  BY <1>1, <1>4 DEF OneRow
<1>11. Numbered
  <2>1. Numbers = {} /\ Cardinality(turns) = 0 /\ IsFiniteSet(turns)
    BY <1>3, FS_EmptySet DEF Numbers
  <2> QED
    BY <2>1 DEF Numbered
<1>12. Busy = DOMAIN plan /\ \A c \in Busy : call[c].op = plan[c] /\ call[c].pc = "ask"
  BY <1>2 DEF Busy
<1>13. Busy \subseteq Caller /\ call \in [Busy -> Calls]
  <2>1. \A c \in DOMAIN plan : plan[c] \in Requests
    BY PlansAssumption DEF Requests
  <2>2. 0 \in Slots
    BY PoolAssumption DEF Slots
  <2>3. \A o \in Requests, w \in Work :
          [op |-> o, pc |-> "ask", on |-> 0, tries |-> 1, work |-> w, answer |-> "none"] \in Calls
    BY <2>2 DEF Calls, Places
  <2> QED
    BY <1>2, <2>1, <2>3, NothingWork, PlansAssumption DEF Busy
<1>14. Types
  <2>1. memory_versions \subseteq RowType
    BY <1>1, <1>4
  <2>2. memories \in [Path -> Docs \cup {NoDoc}]
    <3>1. \A p \in Path : memories[p] \in Docs \cup {NoDoc}
      BY <1>8
    <3> QED
      BY <1>1, <3>1
  <2>3. \A p \in Path : Live(p) => memories[p] \in
           [path : {p}, version : Nat \ {0}, text : Texts, born : Nat \ {0}]
    BY <1>8 DEF Live, Docs
  <2>4. floor \in 0..Len(changes) /\ changes \in Seq(Events) /\ floor \in Nat
    BY <1>3
  <2>5. 0 \in Slots
    BY PoolAssumption DEF Slots
  <2> QED
    BY <1>3, <1>13, <2>1, <2>2, <2>3, <2>4, <2>5 DEF Types, TypeOK
<1>15. Deciding /\ FenceHolds /\ Lands1
  BY <1>3, <1>12 DEF Deciding, At, FenceHolds, Lands1
<1> QED
  BY <1>6, <1>9, <1>10, <1>11, <1>14, <1>15 DEF StoreInv

LEMMA StepKeeps == StoreInv /\ [Next]_vars => StoreInv'
<1> SUFFICES ASSUME StoreInv, [Next]_vars PROVE StoreInv'
  OBVIOUS
<1>1. ASSUME NEW c \in Busy, Start(c) PROVE StoreInv'
  BY <1>1, StartKeeps
<1>2. ASSUME NEW c \in Busy, Ask(c) \/ Checkout(c) \/ Lock(c) PROVE StoreInv'
  BY <1>2, WaitKeeps
<1>3. ASSUME NEW c \in Busy, Expire(c) \/ Prune(c) \/ Disconnect(c) PROVE StoreInv'
  BY <1>3, EndKeeps
<1>4. ASSUME NEW c \in Busy, Retry(c) PROVE StoreInv'
  BY <1>4, RetryKeeps
<1>5. ASSUME NEW c \in Busy, Commit(c) PROVE StoreInv'
  BY <1>5, CommitKeeps
<1>6. CASE UNCHANGED vars
  <2>1. UNCHANGED <<tracked, memories, memory_versions, turns, changes, floor, lock, next, slot,
                    call, erased, landed>>
    BY <1>6 DEF vars, database, history
  <2>2. Types'
    BY <2>1 DEF StoreInv, Types, TypeOK, Live, Busy
  <2>3. Dense' /\ OneRow' /\ Heads' /\ Numbered'
    BY <2>1 DEF StoreInv, Dense, Versions, OneRow, Heads, Live, Mark, Numbered, Numbers
  <2>4. Deciding'
    BY <2>1 DEF StoreInv, Deciding, Fits, Next1, Mark, Live, Shown, At, Busy
  <2>5. FenceHolds' /\ Lands1'
    BY <2>1 DEF StoreInv, FenceHolds, Lands1, At, Busy
  <2> QED
    BY <2>2, <2>3, <2>4, <2>5 DEF StoreInv
<1> QED
  BY <1>1, <1>2, <1>3, <1>4, <1>5, <1>6 DEF Next, Finished

LEMMA Inductive == Spec => []StoreInv
BY InitHolds, StepKeeps, PTL DEF Spec

\* A call lands once, over the version it names, under a number of its own
\* (postgres/memory.rs, postgres/turns.rs), however snapshots, retries,
\* lost answers and broken connections interleave.
THEOREM CallsLandOnce == Spec => []CallsLand
<1>1. StoreInv => CallsLand
  <2> SUFFICES ASSUME StoreInv PROVE CallsLand
    OBVIOUS
  <2>1. TypeOK /\ VersionsNameRows /\ FenceHolds
    BY DEF StoreInv, Types, VersionsNameRows, OneRow, Heads
  <2>2. \A t : Cardinality({t}) = 1
    BY FS_Singleton
  <2>3. LandsOnce
    BY <2>2 DEF StoreInv, LandsOnce, Lands1, Numbered, Numbers
  <2> QED
    BY <2>1, <2>3 DEF CallsLand
<1> QED
  BY <1>1, Inductive, PTL
-----------------------------------------------------------------------------
(* The version clock.                                                      *)

Marks0 == [p \in Path |-> NextVersion(p) - 1]
Shown0 == [p \in Path |-> Shown(p)]

\* The clock of a path is the number of its rows.
LEMMA ClockValues ==
    ASSUME StoreInv
    PROVE  /\ Marks0 \in [Path -> Nat] /\ Shown0 \in [Path -> Nat]
           /\ \A p \in Path : /\ Marks0[p] = Mark(p) /\ Shown0[p] = Shown(p)
                              /\ Shown0[p] \in {0, Marks0[p]} /\ (Shown0[p] = 0 <=> ~Live(p))
<1>1. ASSUME NEW p \in Path
      PROVE  /\ NextVersion(p) - 1 = Mark(p) /\ Mark(p) \in Nat
             /\ Shown(p) \in {0, Mark(p)} /\ (Shown(p) = 0 <=> ~Live(p))
  BY Clocks, Marks DEF StoreInv
<1> QED
  BY <1>1 DEF Marks0, Shown0

\* The same after a step, with what the live rows show.
LEMMA ClocksAfter ==
    ASSUME StoreInv'
    PROVE  /\ Marks0' \in [Path -> Nat] /\ Shown0' \in [Path -> Nat]
           /\ \A p \in Path : /\ Marks0'[p] = Mark(p)'
                              /\ Shown0'[p] = IF memories'[p] # NoDoc THEN memories'[p].version ELSE 0
                              /\ Shown0'[p] \in {0, Marks0'[p]}
<1>1. ASSUME NEW p \in Path
      PROVE  /\ (NextVersion(p) - 1)' = Mark(p)' /\ Mark(p)' \in Nat
             /\ Shown(p)' \in {0, Mark(p)'}
  <2>1. PICK n \in Nat : Versions(p)' = 1..n
    BY DEF StoreInv, Dense
  <2>2. Mark(p)' = n
    BY <2>1, GreatestOfRange DEF Mark, Versions
  <2>3. Shown(p)' \in {0, n}
    BY <2>2 DEF StoreInv, Heads, Shown
  <2>4. Max0({n, Shown(p)'}) = n
    BY <2>3, GreatestOfTwo
  <2>5. NextVersion(p)' = n + 1
    BY <2>2, <2>4 DEF NextVersion
  <2> QED
    BY <2>2, <2>3, <2>5
<1> QED
  BY <1>1 DEF Marks0, Shown0, Shown, Live

\* A commit ticks the clock of every path it changes once, or of none.
LEMMA CommitTicks ==
    ASSUME StoreInv, StoreInv', NEW c \in Busy, Commit(c)
    PROVE  [Clock!Next]_<<Marks0, Shown0>>
<1> DEFINE w == call[c].work
           q == call[c].op
<1>1. w \in Work /\ Shaped(w) /\ Fits(q, w) /\ ~Violates(w) /\ Writes(w)
  BY CallTyped DEF Commit, StoreInv, Types, Deciding, Writes
<1> HIDE DEF w, q
<1>2. Types /\ Dense /\ Heads
  BY DEF StoreInv
<1>3. \A r \in w.rows : r.path \in Path
  BY <1>1, <1>2, FreeIsNext
<1>4. \A p \in Path : ~Touched(w, p) => Marks0'[p] = Marks0[p] /\ Shown0'[p] = Shown0[p]
  <2> SUFFICES ASSUME NEW p \in Path, ~Touched(w, p)
               PROVE  Marks0'[p] = Marks0[p] /\ Shown0'[p] = Shown0[p]
    OBVIOUS
  <2>1. Mark(p)' = Mark(p)
    BY <1>1, <1>2, MarksAfter
  <2>2. /\ memories'[p] # NoDoc <=> memories[p] # NoDoc
        /\ memories[p] # NoDoc => memories'[p].version = memories[p].version
    BY <1>1, <1>2, DocsAfter DEF Live
  <2> QED
    BY <2>1, <2>2, ClockValues, ClocksAfter DEF Shown, Live
<1>5. \A r \in w.rows : Marks0'[r.path] = Marks0[r.path] + 1
  <2> SUFFICES ASSUME NEW r \in w.rows PROVE Marks0'[r.path] = Marks0[r.path] + 1
    OBVIOUS
  <2>1. Mark(r.path)' = Mark(r.path) + 1
    BY <1>1, <1>2, MarksAfter
  <2> QED
    BY <1>3, <2>1, ClockValues, ClocksAfter
<1>6. \A r \in w.rows \cap w.put : Shown0'[r.path] = Marks0'[r.path]
  <2> SUFFICES ASSUME NEW r \in w.rows, r \in w.put PROVE Shown0'[r.path] = Marks0'[r.path]
    OBVIOUS
  <2>1. memories'[r.path] # NoDoc /\ memories'[r.path].version = r.version
    BY <1>1, <1>2, DocsAfter DEF Live
  <2>2. r.version = Mark(r.path)'
    BY <1>1, <1>2, MarksAfter
  <2> QED
    BY <1>3, <2>1, <2>2, ClocksAfter
<1>7. \A r \in w.rows \ w.put : Shown0[r.path] # 0 /\ Shown0'[r.path] = 0
  <2> SUFFICES ASSUME NEW r \in w.rows \ w.put PROVE Shown0[r.path] # 0 /\ Shown0'[r.path] = 0
    OBVIOUS
  <2>1. Live(r.path) /\ memories'[r.path] = NoDoc
    BY <1>1, <1>2, DocsAfter DEF Live
  <2> QED
    BY <1>3, <2>1, ClockValues, ClocksAfter
<1>8. \A p \in w.fresh \cap Path : Shown0[p] = 0
  BY <1>1, ClockValues DEF Violates
<1>9. /\ Marks0 \in [Path -> Nat] /\ Shown0 \in [Path -> Nat]
      /\ Marks0' \in [Path -> Nat] /\ Shown0' \in [Path -> Nat]
  BY ClockValues, ClocksAfter
<1>10. CASE Still(w)
  <2>1. \A p \in Path : ~Touched(w, p)
    BY <1>10 DEF Still, Touched
  <2>2. Marks0' = Marks0 /\ Shown0' = Shown0
    BY <1>4, <1>9, <2>1
  <2> QED
    BY <2>2
<1>11. ASSUME NEW r \in RowType, Puts(w, r) PROVE Clock!Put(r.path)
  <2>1. /\ r \in w.rows /\ r \in w.put /\ r.path \in Path
        /\ \A p \in Path : p # r.path => ~Touched(w, p)
    BY <1>3, <1>11 DEF Puts, Touched
  <2>2. Marks0' = [Marks0 EXCEPT ![r.path] = @ + 1]
    BY <1>4, <1>5, <1>9, <2>1
  <2>3. Shown0' = [Shown0 EXCEPT ![r.path] = Marks0'[r.path]]
    BY <1>4, <1>6, <1>9, <2>1
  <2> QED
    BY <2>2, <2>3 DEF Clock!Put, Clock!Tick, Marks0, Shown0
<1>12. ASSUME NEW r \in RowType, NEW b \in Nat, Removes(w, r, b) PROVE Clock!Remove(r.path)
  <2>1. /\ r \in w.rows \ w.put /\ r.path \in Path
        /\ \A p \in Path : p # r.path => ~Touched(w, p)
    BY <1>3, <1>12 DEF Removes, Touched
  <2>2. Marks0' = [Marks0 EXCEPT ![r.path] = @ + 1]
    BY <1>4, <1>5, <1>9, <2>1
  <2>3. Shown0' = [Shown0 EXCEPT ![r.path] = 0] /\ Shown0[r.path] # 0
    BY <1>4, <1>7, <1>9, <2>1
  <2> QED
    BY <2>2, <2>3 DEF Clock!Remove, Clock!Tick, Marks0, Shown0
<1>13. ASSUME NEW r \in RowType, NEW s \in RowType, NEW b \in Nat, Carries(w, r, s, b)
       PROVE  Clock!Move(r.path, s.path)
  <2>1. /\ r \in w.rows \ w.put /\ s \in w.rows \cap w.put /\ r.path # s.path
        /\ r.path \in Path /\ s.path \in Path /\ s.path \in w.fresh
        /\ \A p \in Path : p \notin {r.path, s.path} => ~Touched(w, p)
    BY <1>3, <1>13 DEF Carries, Touched
  <2>2. Marks0' = [Marks0 EXCEPT ![r.path] = @ + 1, ![s.path] = @ + 1]
    BY <1>4, <1>5, <1>9, <2>1
  <2>3. Shown0' = [Shown0 EXCEPT ![r.path] = 0, ![s.path] = Marks0'[s.path]]
    BY <1>4, <1>6, <1>7, <1>9, <2>1
  <2>4. Shown0[r.path] # 0 /\ Shown0[s.path] = 0
    BY <1>7, <1>8, <2>1
  <2> QED
    BY <2>2, <2>3, <2>4 DEF Clock!Move, Marks0, Shown0
<1>14. \A r \in RowType : r.path \in Path
  BY DEF RowType
<1> QED
  BY <1>1, <1>10, <1>11, <1>12, <1>13, <1>14 DEF Shaped, Clock!Next

\* The rows keep the version clock of the file store: a mutation that lands
\* ticks each path it changes once, and nothing else moves a number
\* (assets/sql/), whatever statements, retries and lost answers race.
THEOREM ImplementsClock == Spec => KeepsClock
<1>1. Init => Clock!Init
  <2> SUFFICES ASSUME Init PROVE Clock!Init
    OBVIOUS
  <2>1. /\ Marks0 \in [Path -> Nat] /\ Shown0 \in [Path -> Nat]
        /\ \A p \in Path : Shown0[p] \in {0, Marks0[p]}
    BY InitHolds, ClockValues
  <2> QED
    BY <2>1 DEF Clock!Init, Marks0, Shown0
<1>2. StoreInv /\ StoreInv' /\ [Next]_vars => [Clock!Next]_<<Marks0, Shown0>>
  <2> SUFFICES ASSUME StoreInv, StoreInv', [Next]_vars
               PROVE  [Clock!Next]_<<Marks0, Shown0>>
    OBVIOUS
  <2>1. ASSUME UNCHANGED <<memories, memory_versions>>
        PROVE  Marks0' = Marks0 /\ Shown0' = Shown0
    BY <2>1 DEF Marks0, Shown0, NextVersion, Mark, Shown, Live
  <2>2. ASSUME NEW c \in Busy, Commit(c) PROVE [Clock!Next]_<<Marks0, Shown0>>
    BY <2>2, CommitTicks
  <2>3. \/ \E c \in Busy : Commit(c)
        \/ UNCHANGED <<memories, memory_versions>>
    BY DEF Next, Finished, vars, database, Ask, Checkout, Expire, Lock, Start, Retry, Prune, Disconnect
  <2> QED
    BY <2>1, <2>2, <2>3
<1> QED
  BY <1>1, <1>2, Inductive, PTL DEF Spec, KeepsClock, Clock!Spec, Marks0, Shown0

-----------------------------------------------------------------------------
(* The feed: what a commit tells and what it leaves of erased texts.       *)

Lands(q, w) == Shaped(w) /\ Fits(q, w) /\ ~Violates(w) /\ Writes(w)

LEMMA ShownAfter ==
    ASSUME Types, Dense, NEW w \in Work, NEW q, Lands(q, w)
    PROVE  /\ \A p \in Path : ~Touched(w, p) => Shown(p)' = Shown(p)
           /\ \A r \in w.put : Shown(r.path)' = r.version
           /\ \A r \in w.rows \ w.put : Shown(r.path)' = 0
BY DocsAfter DEF Lands, Shown, Live

\* The commit's event is the last one; those before it are old, but for the reset
\* that begins a feed.
LEMMA EventLast ==
    ASSUME changes \in Seq(Events), NEW w \in Work, NEW e \in Events, w.event = <<e>>,
           NEW news, news = Append1(w)
    PROVE  /\ news \in Seq(Events) /\ Len(news) \in Nat \ {0} /\ news[Len(news)] = e
           /\ \A i \in 1..Len(news) : \/ i = Len(news)
                                      \/ news[i].kind = "reset" /\ changes = <<>>
                                      \/ i \in DOMAIN changes /\ news[i] = changes[i]
           /\ \A i \in DOMAIN changes : i < Len(news) /\ news[i] = changes[i]
<1>1. w.event[1] = e /\ e.path \in Path /\ w.event # <<>>
  BY DEF Events
<1>2. CASE changes = <<>> /\ e.kind # "reset"
  <2>1. PICK x \in Events : Event("reset", e.path, 0, e.path) = <<x>> /\ x.kind = "reset"
    BY <1>1, EventSeq DEF Kinds
  <2>2. news = <<x>> \o <<e>>
    BY <1>1, <1>2, <2>1 DEF Append1
  <2> QED
    BY <1>2, <2>1, <2>2
<1>3. CASE ~(changes = <<>> /\ e.kind # "reset")
  <2>1. news = changes \o <<e>>
    BY <1>1, <1>3 DEF Append1
  <2> QED
    BY <2>1
<1> QED
  BY <1>2, <1>3

\* The event of a commit tells what became of the paths it touches, and the
\* other paths stay as they were unless the feed begins with it.
LEMMA EventSays ==
    ASSUME Types, Dense, NEW w \in Work, NEW q, Lands(q, w), NEW c, Snapped(c, w),
           NEW e \in Events, w.event = <<e>>
    PROVE  /\ \A p \in Path :
                \/ /\ Touches(e, p) /\ e.kind # "erased"
                   /\ Shown(p)' = IF e.path = p /\ e.kind # "deleted" THEN e.version ELSE 0
                \/ /\ ~Touches(e, p) \/ e.kind = "erased"
                   /\ Shown(p)' = Shown(p) \/ (e.kind = "reset" /\ memory_versions = {})
           /\ e.kind \notin {"reset", "erased"} => w.rows # {}
<1>1. /\ \A p \in Path : ~Touched(w, p) => Shown(p)' = Shown(p)
      /\ \A r \in w.put : Shown(r.path)' = r.version
      /\ \A r \in w.rows \ w.put : Shown(r.path)' = 0
  BY ShownAfter
<1>2. \A x : w.event = <<x>> => x = e
  OBVIOUS
<1>3. w.event # <<>>
  OBVIOUS
<1>4. CASE \E r \in RowType : Puts(w, r) /\ Says(e, {"created", "modified"}, r, r.path)
  BY <1>1, <1>4 DEF Puts, Says, Touches, Touched
<1>5. CASE \E r \in RowType : e.kind = "reset" /\ memory_versions = {} /\ Puts(w, r)
  BY <1>5 DEF Puts, Touches
<1>6. CASE \E r \in RowType, b \in Nat : Removes(w, r, b) /\ Says(e, {"deleted"}, r, r.path)
  BY <1>1, <1>6 DEF Removes, Says, Touches, Touched
<1>7. CASE \E r, s \in RowType, b \in Nat : Carries(w, r, s, b) /\ Says(e, {"renamed"}, s, r.path)
  <2>1. PICK r \in RowType, s \in RowType, b \in Nat :
             Carries(w, r, s, b) /\ Says(e, {"renamed"}, s, r.path)
    BY <1>7
  <2>2. s \in w.put /\ r \in w.rows /\ r \notin w.put /\ r.path # s.path
    BY <2>1 DEF Carries
  <2>3. Shown(s.path)' = s.version /\ Shown(r.path)' = 0
    BY <1>1, <2>2
  <2> QED
    BY <1>1, <2>1, <2>2, <2>3 DEF Carries, Says, Touches, Touched
<1>8. CASE Still(w) /\ e.kind = "erased"
  BY <1>1, <1>8 DEF Still, Touched
<1> QED
  BY <1>2, <1>3, <1>4, <1>5, <1>6, <1>7, <1>8 DEF Snapped, Calm

LEMMA CalmWrites ==
    ASSUME Types, NEW w \in Work, Calm(w), Writes(w)
    PROVE  memories' = memories /\ memory_versions' = memory_versions
<1>1. w.put = {} /\ w.gone = {} /\ w.rows = {} /\ w.clear = {}
  BY DEF Calm, Still
<1>2. \A p \in Path : Landed(w, p) = memories[p]
  BY <1>1 DEF Landed
<1>3. \A r \in memory_versions : Blanked(w, r) = r
  BY <1>1 DEF Blanked
<1> QED
  BY <1>1, <1>2, <1>3 DEF Writes, Types

\* A commit makes events tell, and a journal that tells of a document has rows.
LEMMA EventsAfter ==
    ASSUME Types, Dense, tracked, EventsTell, Rowed, NEW w \in Work, NEW q, Lands(q, w),
           NEW c, Snapped(c, w), changes' = Append1(w), tracked' = tracked
    PROVE  EventsTell' /\ Rowed'
<1>1. \A r \in memory_versions : memory_versions' # {}
  BY DEF Lands, Writes
<1>2. w.rows # {} => memory_versions' # {}
  BY DEF Lands, Writes
<1>3. changes \in Seq(Events)
  BY DEF Types
<1>4. CASE Calm(w)
  <2>1. changes' = changes /\ memories' = memories
    BY <1>4, CalmWrites DEF Calm, Append1, Lands
  <2> QED
    BY <1>1, <2>1 DEF EventsTell, Rowed, Shown, Live
<1>5. CASE \E e \in Events : w.event = <<e>>
  <2>1. PICK e \in Events : w.event = <<e>>
    BY <1>5
  <2>2. PICK news : news = Append1(w)
    OBVIOUS
  <2>3. /\ news \in Seq(Events) /\ Len(news) \in Nat \ {0} /\ news[Len(news)] = e
        /\ \A i \in 1..Len(news) : \/ i = Len(news)
                                   \/ news[i].kind = "reset" /\ changes = <<>>
                                   \/ i \in DOMAIN changes /\ news[i] = changes[i]
        /\ \A i \in DOMAIN changes : i < Len(news) /\ news[i] = changes[i]
    BY <1>3, <2>1, <2>2, EventLast
  <2>4. /\ \A p \in Path :
                \/ /\ Touches(e, p) /\ e.kind # "erased"
                   /\ Shown(p)' = IF e.path = p /\ e.kind # "deleted" THEN e.version ELSE 0
                \/ /\ ~Touches(e, p) \/ e.kind = "erased"
                   /\ Shown(p)' = Shown(p) \/ (e.kind = "reset" /\ memory_versions = {})
        /\ e.kind \notin {"reset", "erased"} => w.rows # {}
    BY <2>1, EventSays
  <2>5. changes' = news /\ DOMAIN news = 1..Len(news)
    BY <2>2, <2>3
  <2>6. Rowed'
    <3> SUFFICES ASSUME NEW i \in DOMAIN news, news[i].kind \notin {"reset", "erased"}
                 PROVE  memory_versions' # {}
      BY <2>5 DEF Rowed
    <3> QED
      BY <1>1, <1>2, <2>3, <2>4, <2>5 DEF Rowed
  <2>7. EventsTell'
    <3> SUFFICES ASSUME NEW p \in Path, NEW i \in DOMAIN news,
                        Touches(news[i], p), news[i].kind # "erased",
                        \A j \in (i + 1)..Len(news) :
                            ~Touches(news[j], p) \/ news[j].kind = "erased"
                 PROVE  Shown(p)' = IF news[i].path = p /\ news[i].kind # "deleted"
                                    THEN news[i].version ELSE 0
      BY <2>5 DEF EventsTell, Touches
    <3>1. CASE i = Len(news)
      BY <2>3, <2>4, <3>1
    <3>2. CASE i # Len(news)
      <4>1. i \in DOMAIN changes /\ news[i] = changes[i] /\ i \in 1..Len(news)
        BY <2>3, <2>5, <3>2 DEF Touches
      <4>2. Len(news) \in (i + 1)..Len(news)
        BY <2>3, <3>2, <4>1
      <4>3. ~Touches(e, p) \/ e.kind = "erased"
        BY <2>3, <4>2
      <4>4. memory_versions # {}
        BY <4>1 DEF Rowed, Touches
      <4>5. Shown(p)' = Shown(p)
        BY <2>4, <4>3, <4>4
      <4>6. \A j \in (i + 1)..Len(changes) :
               ~Touches(changes[j], p) \/ changes[j].kind = "erased"
        <5> SUFFICES ASSUME NEW j \in (i + 1)..Len(changes)
                     PROVE  ~Touches(changes[j], p) \/ changes[j].kind = "erased"
          OBVIOUS
        <5>1. j \in DOMAIN changes
          BY <1>3, <4>1
        <5>2. j < Len(news) /\ news[j] = changes[j]
          BY <2>3, <5>1
        <5>3. j \in (i + 1)..Len(news)
          BY <2>3, <4>1, <5>2
        <5> QED
          BY <5>2, <5>3
      <4> QED
        BY <4>1, <4>5, <4>6 DEF EventsTell
    <3> QED
      BY <3>1, <3>2
  <2> QED
    BY <2>6, <2>7
<1> QED
  BY <1>4, <1>5 DEF Snapped

\* What a commit's rows say was said before, or is its caller's own.
LEMMA RowsSay ==
    ASSUME NEW w, NEW c, Snapped(c, w)
    PROVE  /\ \A r \in w.rows : r.text = c \/ Stated(r.text)
           /\ w.put \subseteq w.rows /\ (w.rows # {} => w.clear = {})
           /\ \A r \in w.clear : Stated(r.text)
<1>1. \A r \in RowType : Moved(r) => Stated(r.text)
  BY DEF Moved, Stated, RowType
<1> QED
  BY <1>1 DEF Snapped, Calm, Still, Puts, Removes, Carries

\* A live document shows the text that was put, or the text it had, blanked when
\* the document was told to be.
LEMMA DocTextAfter ==
    ASSUME Types, Dense, NEW w \in Work, NEW q, Lands(q, w), NEW p \in Path, Live(p)'
    PROVE  \/ \E r \in w.put : memories'[p].text = r.text
           \/ Live(p) /\ memories[p] \notin w.clear /\ memories'[p].text = memories[p].text
           \/ memories'[p].text = Cleared
<1>1. memories'[p] = Landed(w, p)
  BY DEF Lands, Writes
<1>2. memories[p] \in Docs \cup {NoDoc} /\ (Live(p) => memories[p].path = p)
  BY DEF Types, TypeOK, Live
<1>3. CASE {r \in w.put : r.path = p} # {}
  <2>1. PICK r : r = CHOOSE x \in {y \in w.put : y.path = p} : TRUE
    OBVIOUS
  <2>2. r \in w.put
    BY <1>3, <2>1
  <2>3. memories'[p].text = r.text
    BY <1>1, <1>3, <2>1 DEF Landed
  <2> QED
    BY <2>2, <2>3
<1>4. CASE {r \in w.put : r.path = p} = {}
  <2>1. PICK d : d = memories[p]
    OBVIOUS
  <2>2. d \in Docs /\ d.path = p
    BY <1>1, <1>2, <1>4, <2>1 DEF Landed, Live
  <2>3. "born" \in DOMAIN d /\ d.born = d.born
    BY <2>2 DEF Docs
  <2>4. CASE memories'[p] = [d EXCEPT !.text = Cleared]
    BY <2>2, <2>4 DEF Docs
  <2>5. CASE memories'[p] # [d EXCEPT !.text = Cleared]
    <3>1. memories'[p] = d /\ d # NoDoc
      BY <1>1, <1>4, <2>1, <2>5 DEF Landed, Live
    <3>2. d \notin w.clear
      BY <1>1, <1>4, <2>1, <2>2, <2>3, <2>5, <3>1 DEF Landed, Live
    <3> QED
      BY <2>1, <3>1, <3>2 DEF Live
  <2> QED
    BY <2>4, <2>5
<1> QED
  BY <1>3, <1>4

\* The texts there are after a commit.
LEMMA TextsAfter ==
    ASSUME Types, Dense, NEW w \in Work, NEW q, Lands(q, w), NEW c, Snapped(c, w),
           NEW t, Stated(t)'
    PROVE  \/ t = Cleared
           \/ \E r \in w.rows : r.text = t
           \/ \E r \in memory_versions \ w.clear : r.text = t
           \/ \E p \in Path : Live(p) /\ memories[p] \notin w.clear /\ memories[p].text = t
<1>1. CASE \E r \in memory_versions' : r.text = t
  <2>1. PICK r \in memory_versions' : r.text = t
    BY <1>1
  <2>2. CASE r \in w.rows
    BY <2>1, <2>2
  <2>3. CASE \E s \in memory_versions : r = Blanked(w, s)
    <3>1. PICK s \in memory_versions : r = Blanked(w, s)
      BY <2>3
    <3>2. s \in RowType
      BY DEF Types, TypeOK
    <3>3. CASE s \in w.clear
      BY <2>1, <3>1, <3>2, <3>3 DEF Blanked, RowType
    <3>4. CASE s \notin w.clear
      BY <2>1, <3>1, <3>4 DEF Blanked
    <3> QED
      BY <3>3, <3>4
  <2> QED
    BY <2>1, <2>2, <2>3 DEF Lands, Writes
<1>2. CASE \E p \in Path : Live(p)' /\ memories'[p].text = t
  <2>1. PICK p \in Path : Live(p)' /\ memories'[p].text = t
    BY <1>2
  <2> QED
    BY <2>1, DocTextAfter, RowsSay
<1> QED
  BY <1>1, <1>2 DEF Stated

\* A commit brings back no text that was cleared, and its own caller is the
\* only one it brings a text of.
LEMMA TextsKept ==
    ASSUME Types, Dense, tracked, ErasedStaysErased, Known, Cleared \notin erased,
           NEW w \in Work, NEW q, Lands(q, w), NEW c \in Caller, Snapped(c, w),
           c \in Busy, ~At(c, "done"), CallMoves(c), call'[c].pc = "done", tracked' = tracked,
           erased' = erased \cup (Swept(w) \ {Cleared})
    PROVE  ErasedStaysErased' /\ Known' /\ (Cleared \notin erased)'
<1>1. /\ \A r \in w.rows : r.text = c \/ Stated(r.text)
      /\ w.put \subseteq w.rows /\ (w.rows # {} => w.clear = {})
      /\ \A r \in w.clear : Stated(r.text)
  BY RowsSay
<1>2. \A t : Stated(t) => t \notin erased
  BY DEF ErasedStaysErased, Stated
<1>3. c \notin erased
  BY DEF Known
<1>4. ASSUME NEW t, Stated(t)' PROVE t \notin erased'
  <2>1. \/ t = Cleared
        \/ \E r \in w.rows : r.text = t
        \/ \E r \in memory_versions \ w.clear : r.text = t
        \/ \E p \in Path : Live(p) /\ memories[p] \notin w.clear /\ memories[p].text = t
    BY <1>4, TextsAfter
  <2>2. CASE t = Cleared
    BY <2>2
  <2>3. CASE \E r \in w.rows : r.text = t
    <3>1. Swept(w) = {}
      BY <1>1, <2>3 DEF Swept
    <3> QED
      BY <1>1, <1>2, <1>3, <2>3, <3>1
  <2>4. CASE \E r \in memory_versions \ w.clear : r.text = t
    BY <1>2, <2>4 DEF Swept, Stated
  <2>5. CASE \E p \in Path : Live(p) /\ memories[p] \notin w.clear /\ memories[p].text = t
    BY <1>2, <2>5 DEF Swept, Stated
  <2> QED
    BY <2>1, <2>2, <2>3, <2>4, <2>5
<1>5. ErasedStaysErased'
  BY <1>4 DEF ErasedStaysErased, Stated
<1>6. ASSUME NEW d \in Caller, d \in erased' \/ Stated(d)'
      PROVE  d \in Busy' /\ At(d, "done")'
  <2>1. d # Cleared
    BY NamesAssumption
  <2>2. Busy' = Busy
    BY DEF CallMoves, Busy
  <2>3. d = c \/ d \in erased \/ Stated(d)
    <3>1. CASE d \in erased'
      BY <1>1, <3>1 DEF Swept
    <3>2. CASE Stated(d)'
      <4>1. \/ \E r \in w.rows : r.text = d
            \/ \E r \in memory_versions \ w.clear : r.text = d
            \/ \E p \in Path : Live(p) /\ memories[p] \notin w.clear /\ memories[p].text = d
        BY <2>1, <3>2, TextsAfter
      <4> QED
        BY <1>1, <4>1 DEF Stated
    <3> QED
      BY <1>6, <3>1, <3>2
  <2>4. CASE d = c
    BY <2>2, <2>4 DEF At
  <2>5. CASE d # c
    <3>1. d \in Busy /\ At(d, "done")
      BY <2>3, <2>5 DEF Known
    <3> QED
      BY <2>2, <2>5, <3>1 DEF At, CallMoves
  <2> QED
    BY <2>4, <2>5
<1> QED
  BY <1>4, <1>5, <1>6 DEF Known

\* Who is past the lock with a mutation holds it.
LEMMA LockKeeps ==
    ASSUME StoreInv, Locking, NEW c \in Busy, CallMoves(c),
           \/ lock' = lock /\ (call'[c].pc \in {"ready", "running"} /\ call[c].op.kind \in Mutations
                                => At(c, "ready"))
           \/ Release(c) /\ call'[c].pc \notin {"ready", "running"}
           \/ lock = NoOne /\ lock' = c
    PROVE  Locking'
<1> SUFFICES ASSUME NEW d \in Busy, call'[d].pc \in {"ready", "running"},
                    call'[d].op.kind \in Mutations
             PROVE  lock' = d
  BY DEF Locking, CallMoves, Busy
<1>1. CASE d = c
  BY <1>1 DEF Locking, CallMoves, At
<1>2. CASE d # c
  <2>1. call'[d] = call[d] /\ d \in Caller
    BY <1>2 DEF CallMoves, StoreInv, Types
  <2>2. lock = d /\ d # NoOne
    BY <2>1, NamesAssumption DEF Locking
  <2> QED
    BY <1>2, <2>2 DEF Release
<1> QED
  BY <1>1, <1>2

\* A step that leaves the rows and the events alone.
LEMMA QuietTells ==
    ASSUME StoreInv, FeedInv, NEW c \in Busy, ~At(c, "done"), CallMoves(c),
           UNCHANGED <<tracked, memories, memory_versions, changes, history>>,
           tracked /\ call'[c].pc = "running" =>
               /\ call[c].op.kind # "prune" /\ Snapped(c, call'[c].work)
               /\ call[c].op.kind = "turn" => Calm(call'[c].work),
           tracked /\ Locking => Locking'
    PROVE  FeedInv'
<1> SUFFICES ASSUME tracked PROVE FeedInv'
  BY DEF FeedInv
<1>1. Busy' = Busy /\ erased' = erased
  BY DEF Busy, CallMoves, history
<1>2. \A t : Stated(t)' = Stated(t)
  BY DEF Stated, Live
<1>3. Fresh'
  <2> SUFFICES ASSUME NEW d \in Busy, At(d, "running")'
               PROVE  /\ call'[d].op.kind # "prune" /\ Snapped(d, call[d].work)'
                      /\ call'[d].op.kind = "turn" => Calm(call'[d].work)
    BY <1>1 DEF Fresh
  <2>1. /\ call'[d].op.kind # "prune" /\ Snapped(d, call'[d].work)
        /\ call'[d].op.kind = "turn" => Calm(call'[d].work)
    <3>1. CASE d = c
      BY <3>1 DEF At, CallMoves
    <3>2. CASE d # c
      BY <3>2 DEF At, CallMoves, FeedInv, Fresh
    <3> QED
      BY <3>1, <3>2
  <2> QED
    BY <2>1, <1>2 DEF Snapped, Moved, Live
<1>4. Known'
  BY <1>1, <1>2 DEF FeedInv, Known, At, CallMoves
<1> QED
  BY <1>1, <1>3, <1>4 DEF FeedInv, Rowed, EventsTell, ErasedStaysErased, Shown, Live

LEMMA StartTells == ASSUME StoreInv, FeedInv, NEW c \in Busy, Start(c) PROVE FeedInv'
<1>1. PICK w : w = Statement(c)
  OBVIOUS
<1>2. w \in Work /\ Snapped(c, w) /\ (call[c].op.kind = "turn" => Calm(w))
  BY <1>1, StatementDecides DEF Start
<1>3. CallMoves(c) /\ call'[c].pc = "running" /\ call'[c].work = w
  BY <1>1, <1>2, StartMoves DEF Start, StoreInv, Types
<1>4. /\ UNCHANGED <<tracked, database, lock, next, slot, history>>
      /\ At(c, "ready") /\ ~At(c, "done") /\ call[c].op.kind # "prune"
  BY DEF Start, At
<1>5. Locking => Locking'
  BY <1>3, <1>4, LockKeeps
<1> QED
  BY <1>2, <1>3, <1>4, <1>5, QuietTells DEF database

LEMMA WaitTells ==
    ASSUME StoreInv, FeedInv, NEW c \in Busy, Ask(c) \/ Checkout(c) \/ Lock(c)
    PROVE  FeedInv'
<1>1. call \in [Busy -> Calls] /\ call[c].on \in Slots /\ next \in Slots /\ c \in Caller
  BY CallTyped DEF StoreInv, Types
<1>2. /\ UNCHANGED <<tracked, database, history>> /\ ~At(c, "done")
  BY DEF Ask, Checkout, Lock, At
<1>3. CASE Ask(c)
  <2>1. CallMoves(c) /\ call'[c].pc = "queued" /\ lock' = lock
    BY <1>1, <1>3, PlaceMoves DEF Ask, Places
  <2>2. Locking => Locking'
    BY <2>1, LockKeeps
  <2> QED
    BY <1>2, <2>1, <2>2, QuietTells DEF database
<1>4. CASE Checkout(c)
  <2>1. PICK p : p = IF UnderLock(c) THEN "begun" ELSE "ready"
    OBVIOUS
  <2>2. p \in Places /\ p # "running"
    BY <2>1 DEF Places
  <2>3. call' = [call EXCEPT ![c].pc = p] /\ lock' = lock
    BY <1>4, <2>1 DEF Checkout, Step
  <2>4. CallMoves(c) /\ call'[c].pc = p
    BY <1>1, <2>2, <2>3, PlaceMoves
  <2>5. tracked /\ Locking => Locking'
    BY <2>1, <2>3, <2>4, LockKeeps DEF UnderLock
  <2> QED
    BY <1>2, <2>2, <2>4, <2>5, QuietTells DEF database
<1>5. CASE Lock(c)
  <2>1. CallMoves(c) /\ call'[c].pc = "ready"
    BY <1>1, <1>5, PlaceMoves DEF Lock, Step, Places
  <2>2. Locking => Locking'
    BY <1>5, <2>1, LockKeeps DEF Lock
  <2> QED
    BY <1>2, <2>1, <2>2, QuietTells DEF database
<1> QED
  BY <1>3, <1>4, <1>5

LEMMA EndTells ==
    ASSUME StoreInv, FeedInv, NEW c \in Busy, Expire(c) \/ Prune(c) \/ Disconnect(c)
    PROVE  FeedInv'
<1>1. /\ ~At(c, "done")
      /\ UNCHANGED <<tracked, memories, memory_versions, turns, changes, next, history>>
      /\ lock' = lock \/ Release(c)
  BY DEF Expire, Prune, Disconnect, At, database
<1>2. PICK answer \in {"ok", "failed"} : End(c, answer)
  BY DEF Expire, Prune, Disconnect
<1>3. CallMoves(c) /\ call'[c].pc = "done"
  BY <1>2, EndMoves DEF StoreInv, Types
<1>4. Locking => Locking'
  BY <1>1, <1>3, LockKeeps
<1> QED
  BY <1>1, <1>3, <1>4, QuietTells

LEMMA RetryTells == ASSUME StoreInv, FeedInv, NEW c \in Busy, Retry(c) PROVE FeedInv'
<1>1. /\ ~At(c, "done") /\ Release(c)
      /\ UNCHANGED <<tracked, database, next, history>>
  BY DEF Retry, At
<1>2. CallMoves(c) /\ call'[c].pc \in {"ask", "done"}
  BY RetryPlaces
<1>3. Locking => Locking'
  BY <1>1, <1>2, LockKeeps
<1> QED
  BY <1>1, <1>2, <1>3, QuietTells DEF database

LEMMA CommitTells == ASSUME StoreInv, FeedInv, NEW c \in Busy, Commit(c) PROVE FeedInv'
<1> SUFFICES ASSUME tracked PROVE FeedInv'
  BY DEF FeedInv, Commit
<1> DEFINE w == call[c].work
           q == call[c].op
<1>1. w \in Work /\ q \in Requests /\ c \in Caller /\ call \in [Busy -> Calls]
  BY CallTyped DEF StoreInv, Types
<1>2. At(c, "running") /\ Lands(q, w)
  BY DEF Commit, StoreInv, Deciding, Writes, Lands
<1>3. /\ changes' = IF UnderLock(c) THEN Append1(w) ELSE changes
      /\ erased' = erased \cup (Swept(w) \ {Cleared})
      /\ Release(c) /\ tracked' = tracked
  BY DEF Commit
<1>4. CallMoves(c) /\ call'[c].pc = "done"
  <2>1. PICK answer \in {"ok", "failed"} : End(c, answer)
    BY DEF Commit
  <2> QED
    BY <1>1, <2>1, EndMoves
<1>5. Snapped(c, w) /\ (q.kind = "turn" => Calm(w)) /\ q.kind # "prune"
  BY <1>2 DEF FeedInv, Fresh
<1> HIDE DEF w
<1>6. Types /\ Dense /\ Locking /\ Fresh /\ Rowed /\ Known /\ Cleared \notin erased
      /\ EventsTell /\ ErasedStaysErased
  BY DEF StoreInv, FeedInv
<1>7. q.kind \in Mutations \/ q.kind = "turn"
  BY <1>1 DEF Mutations, Requests
<1>8. changes' = Append1(w)
  <2>1. CASE q.kind \in Mutations
    BY <1>3, <2>1 DEF UnderLock
  <2>2. CASE q.kind = "turn"
    <3>1. w.event = <<>> /\ q.kind \notin Mutations
      BY <1>5, <2>2 DEF Calm, Mutations
    <3> QED
      BY <1>3, <3>1 DEF Append1, UnderLock
  <2> QED
    BY <1>7, <2>1, <2>2
<1>9. EventsTell' /\ Rowed'
  BY <1>1, <1>2, <1>3, <1>5, <1>6, <1>8, EventsAfter
<1>10. ErasedStaysErased' /\ Known' /\ (Cleared \notin erased)'
  <2>1. ~At(c, "done")
    BY <1>2 DEF At
  <2> QED
    BY <1>1, <1>2, <1>3, <1>4, <1>5, <1>6, <2>1, TextsKept
<1>11. Locking'
  BY <1>3, <1>4, <1>6, LockKeeps
<1>12. Fresh'
  <2> SUFFICES ASSUME NEW d \in Busy, At(d, "running")'
               PROVE  /\ call'[d].op.kind # "prune" /\ Snapped(d, call[d].work)'
                      /\ call'[d].op.kind = "turn" => Calm(call'[d].work)
    BY <1>4 DEF Fresh, CallMoves, Busy
  <2>1. d # c /\ call'[d] = call[d] /\ At(d, "running")
    BY <1>4 DEF At, CallMoves
  <2>2. /\ call[d].op.kind # "prune" /\ Snapped(d, call[d].work)
        /\ call[d].op.kind = "turn" => Calm(call[d].work)
    BY <1>6, <2>1 DEF Fresh
  <2>3. CASE call[d].op.kind = "turn"
    BY <2>1, <2>2, <2>3 DEF Snapped
  <2>4. CASE call[d].op.kind # "turn"
    <3>1. call[d].op.kind \in Mutations
      BY <2>4, CallTyped DEF StoreInv, Types, Mutations, Requests
    <3>2. lock = d
      BY <1>6, <2>1, <3>1 DEF Locking, At
    <3>3. q.kind \notin Mutations
      BY <1>2, <1>6, <2>1, <3>2 DEF Locking, At
    <3>4. memories' = memories /\ memory_versions' = memory_versions
      BY <1>1, <1>2, <1>5, <1>6, <1>7, <3>3, CalmWrites DEF Lands
    <3> QED
      BY <2>1, <2>2, <3>4 DEF Snapped, Moved, Stated, Live
  <2> QED
    BY <2>3, <2>4
<1> QED
  BY <1>9, <1>10, <1>11, <1>12 DEF FeedInv

LEMMA FeedBegins == ASSUME Init PROVE FeedInv
<1>1. PICK held \in SUBSET Path :
         /\ memory_versions = {RowOf(p, 1, Prior) : p \in held}
         /\ memories = [p \in Path |->
                IF p \in held THEN [path |-> p, version |-> 1, text |-> Prior, born |-> 1]
                ELSE NoDoc]
  BY DEF Init
<1>2. PICK plan \in Plans : call = [c \in DOMAIN plan |->
         [op |-> plan[c], pc |-> "ask", on |-> 0, tries |-> 1, work |-> Nothing,
          answer |-> "none"]]
  BY DEF Init
<1>3. changes = <<>> /\ erased = {}
  BY DEF Init
<1>4. \A c \in Busy : call[c].pc = "ask"
  BY <1>2 DEF Busy
<1>5. \A t : Stated(t) => t = Prior
  BY <1>1 DEF Stated, Live, RowOf
<1>6. Known
  BY <1>3, <1>5, NamesAssumption DEF Known
<1> QED
  BY <1>3, <1>4, <1>6 DEF FeedInv, Locking, Fresh, At, Rowed, EventsTell, ErasedStaysErased

LEMMA FeedStep == StoreInv /\ FeedInv /\ [Next]_vars => FeedInv'
<1> SUFFICES ASSUME StoreInv, FeedInv, [Next]_vars PROVE FeedInv'
  OBVIOUS
<1>1. ASSUME NEW c \in Busy, Start(c) PROVE FeedInv'
  BY <1>1, StartTells
<1>2. ASSUME NEW c \in Busy, Ask(c) \/ Checkout(c) \/ Lock(c) PROVE FeedInv'
  BY <1>2, WaitTells
<1>3. ASSUME NEW c \in Busy, Expire(c) \/ Prune(c) \/ Disconnect(c) PROVE FeedInv'
  BY <1>3, EndTells
<1>4. ASSUME NEW c \in Busy, Retry(c) PROVE FeedInv'
  BY <1>4, RetryTells
<1>5. ASSUME NEW c \in Busy, Commit(c) PROVE FeedInv'
  BY <1>5, CommitTells
<1>6. CASE UNCHANGED vars
  <2>1. UNCHANGED <<tracked, memories, memory_versions, changes, lock, call, erased>>
    BY <1>6 DEF vars, database, history
  <2>2. \A t : Stated(t)' = Stated(t)
    BY <2>1 DEF Stated, Live
  <2>3. \A c, u : Snapped(c, u)' = Snapped(c, u)
    BY <2>1, <2>2 DEF Snapped, Moved, Live
  <2>4. (Locking' = Locking) /\ (Fresh' = Fresh) /\ (Known' = Known)
    BY <2>1, <2>2, <2>3 DEF Locking, Fresh, Known, At, Busy
  <2> QED
    BY <2>1, <2>4 DEF FeedInv, Rowed, EventsTell, ErasedStaysErased, Shown, Live
<1> QED
  BY <1>1, <1>2, <1>3, <1>4, <1>5, <1>6 DEF Next, Finished

\* With the extension no mutation escapes the feed, none is announced that did not
\* land, and no text that an erasure cleared comes back with a statement that had
\* read it before (postgres/changes.rs, postgres/memory.rs): the advisory lock is
\* taken before the snapshot and kept to the commit.
THEOREM FeedTellsAll == Spec => []FeedTells
<1>1. StoreInv /\ FeedInv => FeedTells
  BY DEF FeedInv, FeedTells, EventsTell, ErasedStaysErased
<1>2. Spec => []FeedInv
  <2>1. Spec => Init /\ [][Next]_vars
    BY DEF Spec
  <2> QED
    BY <2>1, FeedBegins, FeedStep, Inductive, PTL
<1> QED
  BY <1>1, <1>2, Inductive, PTL
=============================================================================
