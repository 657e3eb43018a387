------------------------------ MODULE FileStore ------------------------------
(***************************************************************************)
(* The documents of one scope in the file store (store/write.rs,           *)
(* journal.rs, changes.rs, restore.rs): live documents, a journal of       *)
(* versions per path, the trail of erasures and the feed of change events. *)
(* Each call runs whole under the root lock and commits one redo plan, so  *)
(* a call is one step here (RedoLog shows why).  A refused call changes    *)
(* nothing and is a stuttering step.                                       *)
(*                                                                         *)
(* Texts are opaque; timestamps, actors and envelope metadata, case folds  *)
(* and malformed files are left out.                                       *)
(***************************************************************************)
EXTENDS Integers, Sequences, FiniteSets

CONSTANTS
    Path,         \* document paths of the scope
    Text,         \* what callers write
    Cleared,      \* the content redaction leaves, ""
    NoPath,       \* the path of an act or event about the whole scope
    NoDoc,        \* no live document
    Stream,       \* the UUID the scope's change stream gets
    NoStream,     \* the scope has no head.json
    Homes,        \* what a scope may hold from earlier binaries or archives
    MaxSequence,  \* i64::MAX in the code: the last sequence of a stream
    PruneLimit    \* 10,000 in the code: events pruned by one call

VARIABLES
    docs,         \* documents/<path>.md: the envelope's version and the body
    journal,      \* versions/<path>.jsonl: one row per mutation, oldest first
    trail,        \* redactions.jsonl
    head,         \* .changes/head.json
    events,       \* .changes/events/<sequence>.json
    base          \* history: the rows there were when tracking started

store == <<docs, journal, trail, head, events>>
vars  == <<store, base>>

Versions == Nat \ {0}
Marks == {"plain", "redacted"}
RowActions == {"created", "modified", "deleted"}
Contents == Text \cup {Cleared}
Rows == [version : Versions, action : RowActions, content : Contents, mark : Marks]
Documents == [version : Versions, content : Contents, mark : Marks]
Acts == [path : Path \cup {NoPath}, count : Nat]
Kinds == RowActions \cup
    {"renamed", "erased", "scope_erased", "tracking_started", "restored"}
Events == [kind : Kinds, path : Path \cup {NoPath}, version : Nat,
           from : Path \cup {NoPath}, fromVersion : Nat]
Heads == [stream : {Stream, NoStream}, sequence : Nat, floor : Nat]

\* A row or document whose content is gone says so, and only such a one.
Marked(x) == x.mark = "redacted" <=> x.content = Cleared

\* The journal numbers its rows upwards.
Increasing(rows) ==
    \A i, j \in DOMAIN rows : i < j => rows[i].version < rows[j].version

\* No row is past a live document, and a row with its number is its own.
Agree(doc, rows) ==
    \A i \in DOMAIN rows : rows[i].version >= doc.version =>
        /\ i = Len(rows) /\ rows[i].version = doc.version
        /\ rows[i].content = doc.content /\ rows[i].mark = doc.mark
        /\ rows[i].action # "deleted"

\* What an earlier binary, an archive or a careful hand leaves in a scope.
IsHome(h) ==
    /\ h = [docs |-> h.docs, journal |-> h.journal, trail |-> h.trail]
    /\ h.docs \in [Path -> Documents \cup {NoDoc}]
    /\ h.journal \in [Path -> Seq(Rows)]
    /\ h.trail \in Seq(Acts)
    /\ \A p \in Path :
        /\ Increasing(h.journal[p])
        /\ \A i \in DOMAIN h.journal[p] : Marked(h.journal[p][i])
        /\ h.docs[p] # NoDoc =>
            Marked(h.docs[p]) /\ Agree(h.docs[p], h.journal[p])

ASSUME NamesAssumption ==
    /\ Cleared \notin Text /\ NoPath \notin Path
    /\ NoDoc \notin Documents /\ NoStream # Stream
ASSUME PathAssumption == IsFiniteSet(Path)
ASSUME BoundsAssumption == MaxSequence \in Nat /\ PruneLimit \in Nat
ASSUME HomesAssumption == \A h \in Homes : IsHome(h)

Blank ==
    [docs |-> [p \in Path |-> NoDoc], journal |-> [p \in Path |-> <<>>],
     trail |-> <<>>]
Untracked == [stream |-> NoStream, sequence |-> 0, floor |-> 0]

Live(p) == docs[p] # NoDoc
Occupied == \/ \E p \in Path : Live(p) \/ journal[p] # <<>>
            \/ trail # <<>>

\* Every row, named as the feed names it.
Named(j) ==
    UNION {{<<p, j[p][i].version, j[p][i].action>> : i \in DOMAIN j[p]} : p \in Path}

-----------------------------------------------------------------------------
(* Versions.                                                               *)

\* Mutant: numbering starts at 0.
NextVersionZero(rows) == IF rows = <<>> THEN 0 ELSE rows[Len(rows)].version + 1

NextVersion(rows) == IF rows = <<>> THEN 1 ELSE rows[Len(rows)].version + 1

\* Past the sidecar, and past the version the live document declares.
After(rows, doc) ==
    LET next == NextVersion(rows)
    IN  IF next > doc.version + 1 THEN next ELSE doc.version + 1

RowOf(version, action, content, mark) ==
    [version |-> version, action |-> action, content |-> content, mark |-> mark]

DocOf(version, content, mark) ==
    [version |-> version, content |-> content, mark |-> mark]

Clear(x) == [x EXCEPT !.content = Cleared, !.mark = "redacted"]

-----------------------------------------------------------------------------
(* Events.                                                                 *)

Change(kind, path, version) ==
    [kind |-> kind, path |-> path, version |-> version,
     from |-> NoPath, fromVersion |-> 0]

Renaming(src, was, dst, version) ==
    [Change("renamed", dst, version) EXCEPT !.from = src, !.fromVersion = was]

\* Mutant: the first mutation starts the stream without a marker.
AnnouncedUnmarked(change) == <<change>>

\* The first tracked mutation announces the stream before itself.
Announced(change) ==
    IF head = Untracked /\ change.kind # "restored"
    THEN <<Change("tracking_started", NoPath, 0), change>>
    ELSE <<change>>

\* head.event refuses a sequence past the limit, and with it the mutation.
Room(change) == head.sequence + Len(Announced(change)) <= MaxSequence

\* Mutant: a new event overwrites the newest.
RecordOver(change) ==
    LET new == Announced(change)
        last == IF head.sequence = 0 THEN 0 ELSE head.sequence - 1
    IN  /\ Room(change)
        /\ head' = [head EXCEPT !.stream = Stream, !.sequence = last + Len(new)]
        /\ events' = [n \in DOMAIN events \cup (last + 1 .. last + Len(new)) |->
                        IF n > last THEN new[n - last] ELSE events[n]]
        /\ base' = IF head = Untracked THEN Named(journal) ELSE base

\* change_writes: the event files and the head, in the mutation's own plan.
Record(change) ==
    LET new == Announced(change)
        last == head.sequence
    IN  /\ Room(change)
        /\ head' = [head EXCEPT !.stream = Stream, !.sequence = last + Len(new)]
        /\ events' = [n \in DOMAIN events \cup (last + 1 .. last + Len(new)) |->
                        IF n > last THEN new[n - last] ELSE events[n]]
        /\ base' = IF head # Untracked THEN base
                   ELSE IF change.kind = "restored" THEN Named(journal')
                   ELSE Named(journal)

-----------------------------------------------------------------------------
(* The operations.                                                         *)

Init ==
    /\ \E h \in Homes : docs = h.docs /\ journal = h.journal /\ trail = h.trail
    /\ head = Untracked
    /\ events = <<>>
    /\ base = {}

\* expected is 0 when the caller names no version.
Accepts(p, expected) ==
    expected # 0 => Live(p) /\ docs[p].version = expected

\* Mutant: a write takes the number after the document it finds, or 1.
WriteUnjournalled(p, text, expected) ==
    LET action  == IF Live(p) THEN "modified" ELSE "created"
        version == IF Live(p) THEN docs[p].version + 1 ELSE 1
    IN  /\ Accepts(p, expected)
        /\ journal' = [journal EXCEPT
                        ![p] = Append(@, RowOf(version, action, text, "plain"))]
        /\ docs' = [docs EXCEPT ![p] = DocOf(version, text, "plain")]
        /\ Record(Change(action, p, version))
        /\ UNCHANGED trail

\* write_document.
Write(p, text, expected) ==
    LET action  == IF Live(p) THEN "modified" ELSE "created"
        version == IF Live(p) THEN After(journal[p], docs[p])
                              ELSE NextVersion(journal[p])
    IN  /\ Accepts(p, expected)
        /\ journal' = [journal EXCEPT
                        ![p] = Append(@, RowOf(version, action, text, "plain"))]
        /\ docs' = [docs EXCEPT ![p] = DocOf(version, text, "plain")]
        /\ Record(Change(action, p, version))
        /\ UNCHANGED trail

\* Mutants of Delete: the row forgets that its content was redacted; the
\* journal goes with the document.
DeleteUnmarked(p) ==
    /\ Live(p)
    /\ LET version == After(journal[p], docs[p])
       IN /\ journal' = [journal EXCEPT ![p] =
                Append(@, RowOf(version, "deleted", docs[p].content, "plain"))]
          /\ docs' = [docs EXCEPT ![p] = NoDoc]
          /\ Record(Change("deleted", p, version))
    /\ UNCHANGED trail

DeleteForgets(p) ==
    /\ Live(p)
    /\ LET version == After(journal[p], docs[p])
       IN /\ journal' = [journal EXCEPT ![p] = <<>>]
          /\ docs' = [docs EXCEPT ![p] = NoDoc]
          /\ Record(Change("deleted", p, version))
    /\ UNCHANGED trail

\* delete: the row keeps the content, and whether it was redacted.
Delete(p) ==
    /\ Live(p)
    /\ LET version == After(journal[p], docs[p])
           gone == RowOf(version, "deleted", docs[p].content, docs[p].mark)
       IN /\ journal' = [journal EXCEPT ![p] = Append(@, gone)]
          /\ docs' = [docs EXCEPT ![p] = NoDoc]
          /\ Record(Change("deleted", p, version))
    /\ UNCHANGED trail

\* Mutant: the document keeps its version number at its destination.
RenameKeepsVersion(src, dst) ==
    /\ Live(src) /\ ~Live(dst)
    /\ LET doc     == docs[src]
           was     == After(journal[src], doc)
           version == doc.version
       IN /\ journal' = [journal EXCEPT
                ![src] = Append(@, RowOf(was, "deleted", doc.content, doc.mark)),
                ![dst] = Append(@, RowOf(version, "created", doc.content, doc.mark))]
          /\ docs' = [docs EXCEPT ![src] = NoDoc,
                                  ![dst] = DocOf(version, doc.content, doc.mark)]
          /\ Record(Renaming(src, was, dst, version))
    /\ UNCHANGED trail

\* rename_document: deleted at the source, created at the destination, whose
\* own history goes on.
Rename(src, dst) ==
    /\ Live(src) /\ ~Live(dst)
    /\ LET doc     == docs[src]
           was     == After(journal[src], doc)
           version == NextVersion(journal[dst])
       IN /\ journal' = [journal EXCEPT
                ![src] = Append(@, RowOf(was, "deleted", doc.content, doc.mark)),
                ![dst] = Append(@, RowOf(version, "created", doc.content, doc.mark))]
          /\ docs' = [docs EXCEPT ![src] = NoDoc,
                                  ![dst] = DocOf(version, doc.content, doc.mark)]
          /\ Record(Renaming(src, was, dst, version))
    /\ UNCHANGED trail

\* redact_targets: the paths with a history or a document.
Targets(paths) == {p \in paths : journal[p] # <<>> \/ Live(p)}

\* Mutant: only the live document is cleared.
RedactLive(named) ==
    LET targets == Targets(IF named = NoPath THEN Path ELSE {named})
        kind    == IF named = NoPath THEN "scope_erased" ELSE "erased"
    IN  /\ targets # {}
        /\ docs' = [p \in Path |->
                        IF p \in targets /\ Live(p) THEN Clear(docs[p]) ELSE docs[p]]
        /\ trail' = Append(trail, [path |-> named, count |-> Cardinality(targets)])
        /\ Record(Change(kind, named, 0))
        /\ UNCHANGED journal

\* redact: every row and the live document of the targets, and the act.
Redact(named) ==
    LET targets == Targets(IF named = NoPath THEN Path ELSE {named})
        kind    == IF named = NoPath THEN "scope_erased" ELSE "erased"
    IN  /\ targets # {}
        /\ journal' = [p \in Path |->
                        IF p \in targets
                        THEN [i \in DOMAIN journal[p] |-> Clear(journal[p][i])]
                        ELSE journal[p]]
        /\ docs' = [p \in Path |->
                        IF p \in targets /\ Live(p) THEN Clear(docs[p]) ELSE docs[p]]
        /\ trail' = Append(trail, [path |-> named, count |-> Cardinality(targets)])
        /\ Record(Change(kind, named, 0))

\* restore_scope: whole and verbatim, into a scope that holds nothing.
Restore(h) ==
    /\ ~Occupied /\ h # Blank
    /\ docs' = h.docs /\ journal' = h.journal /\ trail' = h.trail
    /\ Record(Change("restored", NoPath, 0))

\* Mutant: the pruned events go but the floor stays.
PruneKeepsFloor(end) ==
    /\ end \in head.floor + 1 .. head.sequence
    /\ end - head.floor <= PruneLimit
    /\ events' = [n \in DOMAIN events \ (head.floor + 1 .. end) |-> events[n]]
    /\ UNCHANGED <<docs, journal, trail, head, base>>

\* prune_changes with write: the events through end go, the head stays.
Prune(end) ==
    /\ end \in head.floor + 1 .. head.sequence
    /\ end - head.floor <= PruneLimit
    /\ events' = [n \in DOMAIN events \ (head.floor + 1 .. end) |-> events[n]]
    /\ head' = [head EXCEPT !.floor = end]
    /\ UNCHANGED <<docs, journal, trail, base>>

WriteAny(p) ==
    \E text \in Text :
        \E expected \in {0} \cup (IF Live(p) THEN {docs[p].version} ELSE {}) :
            Write(p, text, expected)

Mutate ==
    \/ \E p \in Path : WriteAny(p) \/ Delete(p)
    \/ \E src, dst \in Path : Rename(src, dst)
    \/ \E named \in Path \cup {NoPath} : Redact(named)
    \/ \E h \in Homes : Restore(h)

Next == Mutate \/ \E end \in head.floor + 1 .. head.sequence : Prune(end)

Spec == Init /\ [][Next]_vars

-----------------------------------------------------------------------------
(* Each path keeps the promise of a version clock.                         *)

Mark(p) == IF Live(p) THEN docs[p].version ELSE NextVersion(journal[p]) - 1

Clock == INSTANCE VersionClock WITH
    mark <- [p \in Path |-> Mark(p)],
    shown <- [p \in Path |-> IF Live(p) THEN docs[p].version ELSE 0]

\* The store gives every path a clock that each mutation ticks once: deletes
\* consume a version, and a recreated or renamed document goes on with the
\* numbering of its path (write.rs:1-3, journal.rs:3).
KeepsClock == Clock!Spec

-----------------------------------------------------------------------------
(* Properties.                                                             *)

\* Every file has its shape.
TypeOK ==
    /\ docs \in [Path -> Documents \cup {NoDoc}]
    /\ journal \in [Path -> Seq(Rows)]
    /\ trail \in Seq(Acts)
    /\ head \in Heads
    /\ \A n \in DOMAIN events : events[n] \in Events

\* A version number is given once per path, upwards, whatever is deleted,
\* recreated, renamed over, redacted or restored in between (write.rs:3); no
\* row is past the live document, so the next number is past both.
VersionsOnce ==
    \A p \in Path :
        /\ Increasing(journal[p])
        /\ Live(p) => Agree(docs[p], journal[p])

\* The feed holds exactly the events above the floor: nothing missing and
\* nothing beyond the head (store/changes.rs:87, 127).
FeedWhole ==
    /\ DOMAIN events = head.floor + 1 .. head.sequence
    /\ head.floor <= head.sequence /\ head.sequence <= MaxSequence
    /\ head = Untracked <=> head.stream = NoStream

\* What the events say happened is what the journals recorded since tracking
\* began, row by row: no mutation goes unannounced and none is announced twice.
Told(e) ==
    CASE e.kind \in RowActions -> {<<e.path, e.version, e.kind>>}
      [] e.kind = "renamed" -> {<<e.path, e.version, "created">>,
                                <<e.from, e.fromVersion, "deleted">>}
      [] OTHER -> {}

EventsAreRows ==
    head # Untracked =>
        /\ \A n \in DOMAIN events : Told(events[n]) \subseteq Named(journal) \ base
        /\ \A n, k \in DOMAIN events :
               n # k => Told(events[n]) \cap Told(events[k]) = {}
        /\ head.floor = 0 =>
               Named(journal) = base \cup UNION {Told(events[n]) : n \in DOMAIN events}

\* The feed is the history: every event above the floor is there, and they are
\* the rows of the journals (store/changes.rs:87).
FeedIsHistory == FeedWhole /\ EventsAreRows

\* Content is gone exactly where the record says redacted, also on the rows a
\* later delete or rename writes (write.rs:165, 216).
SkeletonsMarked ==
    \A p \in Path :
        /\ \A i \in DOMAIN journal[p] : Marked(journal[p][i])
        /\ Live(p) => Marked(docs[p])

\* A step never rewrites what is on record: rows stay, at most cleared, acts
\* stay, events stay until the floor passes them, and new events are numbered
\* past the old ones (journal.rs:3, changes.md:101).
RecordKept ==
    /\ \A p \in Path : \A i \in DOMAIN journal[p] :
        i \in DOMAIN journal'[p] /\ journal'[p][i] \in {journal[p][i], Clear(journal[p][i])}
    /\ \A i \in DOMAIN trail : i \in DOMAIN trail' /\ trail'[i] = trail[i]
    /\ \A n \in DOMAIN events : n > head'.floor =>
        n \in DOMAIN events' /\ events'[n] = events[n]
    /\ \A n \in DOMAIN events' \ DOMAIN events : n > head.sequence

RecordsKept == [][RecordKept]_vars

\* After a path or the scope is erased, what was there before is nowhere in it,
\* and the trail has grown by the act and the count of paths (write.rs:256).
Erasures == {n \in DOMAIN events : events[n].kind \in {"erased", "scope_erased"}}

ErasureReaches ==
    [][\A n \in Erasures' \ Erasures :
        LET named == events'[n].path
            reach == IF named = NoPath THEN Path ELSE {named}
        IN  /\ \A p \in reach :
                /\ \A i \in DOMAIN journal'[p] : journal'[p][i].content = Cleared
                /\ docs'[p] # NoDoc => docs'[p].content = Cleared
            /\ Len(trail') = Len(trail) + 1
            /\ trail'[Len(trail')].path = named]_vars

\* An erasure is whole, and what it leaves says so, whatever mutations follow.
ErasureWhole == []SkeletonsMarked /\ ErasureReaches
=============================================================================
