------------------------------- MODULE Exchange -------------------------------
(***************************************************************************)
(* One-way exchange of a scope (exchange/): an exporter collects a bundle  *)
(* from many reads of a source that writers go on changing, and a receiver *)
(* applies bundles, in whatever order they are handed to it, to a replica  *)
(* that somebody may have edited (store/exchange.rs).                      *)
(*                                                                         *)
(* The source is FileStore's scope.  A digest is what it digests: a bundle *)
(* is its own id, a fingerprint the replica's files.  Applying is one step *)
(* (one plan of the redo log).  Sizes, path folding, probes of the         *)
(* receiver's file system and the JSON of bundles are left out, and so is  *)
(* the receiver's own feed.  The pages of a listing are one step: whatever *)
(* moves between them moves the head, which Finish asks for again.         *)
(***************************************************************************)
EXTENDS ChangeFeed, SequencesExt

CONSTANTS
    MaxBundles,   \* bound: bundles exported
    MaxEdits      \* bound: local edits of the replica

ASSUME ExchangeAssumption == {MaxBundles, MaxEdits} \subseteq Nat

\* Bound: a home's document is the newest row of its journal.  The source has
\* no row of a document planted by hand once another replaces it.
ASSUME JournalledAssumption ==
    \A h \in Homes : \A p \in Path :
        h.docs[p] # NoDoc =>
            h.journal[p] # <<>> /\ Last(h.journal[p]).version = h.docs[p].version

VARIABLES
    export,     \* the export under way
    bundles,    \* the bundle files there are
    replica,    \* the receiver's documents, journals and trail
    receipt,    \* its .exchange/receipt.json
    edits,      \* history: what a person left in the replica, newest last
    was         \* history: the source's documents and journals at each sequence

exchange     == <<export, bundles, replica, receipt, edits>>
exchangeVars == <<feedVars, exchange, was>>

NotExporting == [stage |-> "idle"]

\* A replica no bundle was applied to.
NoReceipt == [bundle |-> "none"]

-----------------------------------------------------------------------------
(* collect.  Any surprise ends the export without a bundle.                *)

Starting(from) ==
    [stage |-> "list", base |-> from, end |-> HeadCursor, at |-> from,
     paths |-> {}, erasures |-> <<>>, updates |-> <<>>]

\* What was erased, by the number of the event.
ErasedBy(page) ==
    [n \in {k \in page : events[k].kind \in {"erased", "scope_erased"}} |-> events[n].path]
PathsOf(page) == (UNION {{events[n].path, events[n].from} : n \in page}) \ {NoPath}

\* A page of the interval, read at c; the last one decides whether the
\* listing is needed too.
Turned(e, c) ==
    LET new    == ErasedBy(Page(c))
        erased == [n \in DOMAIN e.erasures \cup DOMAIN new |->
                     IF n \in DOMAIN new THEN new[n] ELSE e.erasures[n]]
    IN  IF Resets(Page(c)) THEN NotExporting
        ELSE [e EXCEPT !.paths = @ \cup PathsOf(Page(c)),
                       !.erasures = erased,
                       !.at = Cursor(head.stream, End(c)),
                       !.stage = IF End(c) < head.sequence THEN "page"
                                 ELSE IF NoPath \in Range(erased) THEN "list"
                                 ELSE "read"]

\* The head and the first page are one read.
Begin(from) ==
    /\ export = NotExporting /\ Cardinality(bundles) < MaxBundles
    /\ head # Untracked
    /\ from # NoCursor => Gap(from) = "none" /\ ~Ahead(from)
    /\ export' = IF from = NoCursor THEN Starting(from) ELSE Turned(Starting(from), from)
    /\ UNCHANGED <<bundles, replica, receipt, edits>>

NextPage ==
    /\ export.stage = "page"
    /\ export' = IF HeadCursor = export.end /\ Gap(export.at) = "none"
                 THEN Turned(export, export.at) ELSE NotExporting
    /\ UNCHANGED <<bundles, replica, receipt, edits>>

ListPaths ==
    /\ export.stage = "list"
    /\ export' = [export EXCEPT !.stage = "read", !.paths = @ \cup {p \in Path : Live(p)}]
    /\ UNCHANGED <<bundles, replica, receipt, edits>>

Present(doc) == [state |-> "present", version |-> doc.version,
                 content |-> doc.content, mark |-> doc.mark]
Deletion(row) == [state |-> "deleted", version |-> row.version,
                  content |-> Cleared, mark |-> row.mark]

Taken(e, p, update) ==
    [e EXCEPT !.stage = "read", !.paths = @ \ {p},
              !.updates = [q \in DOMAIN @ \cup {p} |-> IF q = p THEN update ELSE @[q]]]

NextPath(e) == CHOOSE p \in e.paths : TRUE

\* A path is read, and when it is gone its newest row in another call.
ReadPath ==
    /\ export.stage = "read" /\ export.paths # {}
    /\ LET p == NextPath(export)
       IN  export' = IF Live(p) THEN Taken(export, p, Present(docs[p]))
                     ELSE IF export.base = NoCursor THEN NotExporting
                     ELSE [export EXCEPT !.stage = "row"]
    /\ UNCHANGED <<bundles, replica, receipt, edits>>

ReadRow ==
    /\ export.stage = "row"
    /\ LET p == NextPath(export)
       IN  export' = IF journal[p] # <<>> /\ Last(journal[p]).action = "deleted"
                     THEN Taken(export, p, Deletion(Last(journal[p])))
                     ELSE NotExporting
    /\ UNCHANGED <<bundles, replica, receipt, edits>>

BundleOf(e) == [base |-> e.base, checkpoint |-> e.end,
                updates |-> e.updates, erasures |-> e.erasures]

\* Mutant: the bundle is written without asking for the head again.
FinishUnchecked ==
    /\ export.stage = "read" /\ export.paths = {}
    /\ export' = NotExporting
    /\ bundles' = bundles \cup {BundleOf(export)}
    /\ UNCHANGED <<replica, receipt, edits>>

\* The head is asked for once more; only if nothing moved is there a bundle.
Finish ==
    /\ export.stage = "read" /\ export.paths = {}
    /\ export' = NotExporting
    /\ bundles' = IF HeadCursor = export.end THEN bundles \cup {BundleOf(export)}
                  ELSE bundles
    /\ UNCHANGED <<replica, receipt, edits>>

-----------------------------------------------------------------------------
(* apply_exchange.                                                         *)

NoFiles == [docs |-> [p \in Path |-> NoDoc], journal |-> [p \in Path |-> <<>>],
            trail |-> <<>>]
Observed(r) == {p \in Path : r.docs[p] # NoDoc \/ r.journal[p] # <<>>}

\* Mutant: only version numbers are fingerprinted.
FingerprintVersions(r) ==
    [p \in Path |-> <<r.docs[p] # NoDoc,
                      [i \in DOMAIN r.journal[p] |-> r.journal[p][i].version]>>]

\* fingerprint: every document, journal and trail in full.
Fingerprint(r) == r

\* Mutant: an erasure of the scope reaches no path.
ErasedNamed(b, p) == p \in Range(b.erasures)

Erased(b, p) == {p, NoPath} \cap Range(b.erasures) # {}

\* The retained rows of a path, cleared first when the bundle erases it.
Retained(b, p) ==
    IF Erased(b, p) THEN [i \in DOMAIN replica.journal[p] |-> Clear(replica.journal[p][i])]
                    ELSE replica.journal[p]

RowFor(b, p) ==
    LET u == b.updates[p]
    IN  RowOf(u.version,
              IF u.state = "deleted" THEN "deleted"
              ELSE IF replica.docs[p] # NoDoc THEN "modified" ELSE "created",
              u.content, u.mark)

SameRevision(old, new) ==
    /\ old.content = new.content /\ old.mark = new.mark
    /\ (old.action = "deleted") = (new.action = "deleted")

\* A version that goes back, or a revision changed without an erasure.
Disagrees(b, p) ==
    LET rows == Retained(b, p)
    IN  /\ p \in DOMAIN b.updates /\ rows # <<>>
        /\ LET old == Last(rows)
               new == RowFor(b, p)
           IN  \/ old.version > new.version
               \/ old.version = new.version /\ ~SameRevision(old, new)

RowsAfter(b, p) ==
    LET rows == Retained(b, p)
    IN  IF p \in DOMAIN b.updates
           /\ (rows # <<>> => Last(rows).version # b.updates[p].version)
        THEN Append(rows, RowFor(b, p)) ELSE rows

DocAfter(b, p) ==
    IF p \in DOMAIN b.updates
    THEN LET u == b.updates[p]
         IN  IF u.state = "deleted" THEN NoDoc ELSE DocOf(u.version, u.content, u.mark)
    ELSE IF Erased(b, p) /\ replica.docs[p] # NoDoc THEN Clear(replica.docs[p])
    ELSE replica.docs[p]

ActsOf(b) ==
    LET order == SetToSortSeq(DOMAIN b.erasures, <)
    IN  [i \in DOMAIN order |->
            LET named == b.erasures[order[i]]
            IN  [path |-> named,
                 count |-> Cardinality({p \in Observed(replica) : named \in {p, NoPath}})]]

\* exchange_status.
Status ==
    IF receipt # NoReceipt
    THEN IF receipt.print = Fingerprint(replica) THEN "ready" ELSE "conflict"
    ELSE IF replica = NoFiles THEN "empty" ELSE "snapshot_required"

\* Mutant: any bundle from the same source will do.
FitsAny(b) ==
    \/ Status = "empty" /\ b.base = NoCursor
    \/ Status = "ready" /\ receipt.bundle # b

\* The receipt's state and checkpoint, or an empty receiver and a snapshot.
Fits(b) ==
    \/ Status = "empty" /\ b.base = NoCursor
    \/ Status = "ready" /\ receipt.bundle # b /\ receipt.checkpoint = b.base

\* A preview, a duplicate and a refusal change nothing.
Apply(b) ==
    /\ Fits(b) /\ \A p \in Path : ~Disagrees(b, p)
    /\ replica' = [docs    |-> [p \in Path |-> DocAfter(b, p)],
                   journal |-> [p \in Path |-> RowsAfter(b, p)],
                   trail   |-> replica.trail \o ActsOf(b)]
    /\ receipt' = [bundle |-> b, checkpoint |-> b.checkpoint, print |-> Fingerprint(replica')]
    /\ UNCHANGED <<export, bundles, edits>>

\* Somebody deletes a document of the replica, or erases one.
Edit(p, how) ==
    /\ Len(edits) < MaxEdits
    /\ how = "delete" => replica.docs[p] # NoDoc
    /\ LET doc  == replica.docs[p]
           rows == replica.journal[p]
       IN  replica' = [replica EXCEPT
             !.docs    = [replica.docs EXCEPT ![p] =
                            IF how = "erase" /\ doc # NoDoc THEN Clear(doc) ELSE NoDoc],
             !.journal = [replica.journal EXCEPT ![p] =
                            IF how = "erase" THEN [i \in DOMAIN rows |-> Clear(rows[i])]
                            ELSE Append(rows, RowOf(After(rows, doc), "deleted",
                                                    doc.content, doc.mark))]]
    /\ replica' # replica
    /\ edits' = Append(edits, replica')
    /\ UNCHANGED <<export, bundles, receipt>>

-----------------------------------------------------------------------------
ExchangeInit ==
    /\ Init
    /\ cursor = NoCursor /\ mirror = [p \in Path |-> 0] /\ host = "away"
    /\ export = NotExporting /\ bundles = {}
    /\ replica = NoFiles /\ receipt = NoReceipt /\ edits = <<>>
    /\ was = <<>>

Source ==
    /\ Store /\ UNCHANGED exchange
    /\ was' = [n \in 1..head'.sequence |->
                 IF n = head'.sequence THEN [docs |-> docs', journal |-> journal']
                 ELSE IF n \in DOMAIN was THEN was[n] ELSE [docs |-> docs, journal |-> journal]]

Checkpoints == {NoCursor} \cup {b.checkpoint : b \in bundles}

Export ==
    \/ \E from \in Checkpoints : Begin(from)
    \/ NextPage \/ ListPaths \/ ReadPath \/ ReadRow \/ Finish

Receive ==
    \/ \E b \in bundles : Apply(b)
    \/ \E p \in Path, how \in {"erase", "delete"} : Edit(p, how)

ExchangeNext == Source \/ ((Export \/ Receive) /\ UNCHANGED <<feedVars, was>>)

ExchangeSpec == ExchangeInit /\ [][ExchangeNext]_exchangeVars

-----------------------------------------------------------------------------
(* Properties.                                                             *)

\* A bundle tells of one moment of its source, though it was put together from
\* many reads: what it carries of a path is what the source had at the
\* checkpoint (export.rs:159).
BundleIsOneMoment ==
    \A b \in bundles : \A p \in DOMAIN b.updates :
        LET doc == was[b.checkpoint.sequence].docs[p]
        IN  IF b.updates[p].state = "deleted" THEN doc = NoDoc
            ELSE doc # NoDoc /\ b.updates[p] = Present(doc)

\* A replica whose status is ready is its source at the checkpoint of the last
\* bundle applied, whichever bundles were handed to it and in whatever order.
ReplicaIsSource ==
    Status = "ready" =>
        replica.docs = was[receipt.checkpoint.sequence].docs

\* And no text stays in its history that the source had erased by then.
ErasureTravels ==
    Status = "ready" =>
        \A p \in Path : \A i \in DOMAIN replica.journal[p] :
            LET row == replica.journal[p][i]
                at  == was[receipt.checkpoint.sequence]
            IN  row.content # Cleared =>
                  \/ at.docs[p] # NoDoc /\ at.docs[p].version = row.version
                     /\ at.docs[p].content = row.content
                  \/ \E k \in DOMAIN at.journal[p] :
                        at.journal[p][k].version = row.version
                        /\ at.journal[p][k].content = row.content

\* A delta of the state the replica stands at never disagrees with it.
DeltaApplies ==
    \A b \in bundles : Fits(b) => \A p \in Path : ~Disagrees(b, p)

\* What a person left in the replica is never replaced by a bundle.
LocalWorkStands ==
    edits # <<>> => replica = Last(edits)

\* A replica follows its source from moment to moment, whichever bundles reach
\* it, and gives way to what people do to it (exchange.rs:106).
ReplicaFollows ==
    /\ BundleIsOneMoment
    /\ ReplicaIsSource
    /\ ErasureTravels
    /\ DeltaApplies
    /\ LocalWorkStands
===============================================================================
