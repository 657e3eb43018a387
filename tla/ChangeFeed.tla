------------------------------ MODULE ChangeFeed ------------------------------
(***************************************************************************)
(* A host that follows the change feed of a scope (changes/cursor.rs,      *)
(* store/changes.rs read_changes) while writers mutate it and an operator  *)
(* prunes it.  The host keeps a mirror of the live versions, polls pages,  *)
(* and on a gap or a reset event reads the listing again.  It may die      *)
(* between applying a page and saving its checkpoint.                      *)
(***************************************************************************)
EXTENDS FileStore

CONSTANTS
    Elsewhere,   \* the stream of another root, where a checkpoint may be from
    Limit        \* events per page, 1 to 100 in the code

ASSUME FeedAssumption ==
    /\ Elsewhere \notin {Stream, NoStream}
    /\ Limit \in Nat \ {0}

VARIABLES
    cursor,      \* the host's checkpoint; its stream is NoStream for none
    mirror,      \* the versions the host believes live, 0 for none
    host         \* "poll", "list" while a reconciliation is due, or "away"

feedVars == <<vars, cursor, mirror, host>>

Cursor(stream, sequence) == [stream |-> stream, sequence |-> sequence]
NoCursor == Cursor(NoStream, 0)
HeadCursor == Cursor(head.stream, head.sequence)

Lesser(a, b) == IF a < b THEN a ELSE b

-----------------------------------------------------------------------------
(* cursor::page.                                                           *)

\* Mutant: a checkpoint at the floor is a gap.
GapAtFloor(c) ==
    IF head = Untracked
    THEN IF c = NoCursor THEN "untracked" ELSE "stream_reset"
    ELSE IF c = NoCursor THEN IF head.floor > 0 THEN "retention" ELSE "none"
    ELSE IF c.stream # head.stream THEN "stream_reset"
    ELSE IF c.sequence <= head.floor THEN "retention"
    ELSE "none"

Gap(c) ==
    IF head = Untracked
    THEN IF c = NoCursor THEN "untracked" ELSE "stream_reset"
    ELSE IF c = NoCursor THEN IF head.floor > 0 THEN "retention" ELSE "none"
    ELSE IF c.stream # head.stream THEN "stream_reset"
    ELSE IF c.sequence < head.floor THEN "retention"
    ELSE "none"

\* A checkpoint past the head is refused.
Ahead(c) == Gap(c) = "none" /\ c.sequence > head.sequence

Position(c) == IF Gap(c) = "none" THEN c.sequence ELSE head.floor

End(c) ==
    IF Gap(c) = "none" THEN Lesser(head.sequence, Position(c) + Limit)
                       ELSE Position(c)

Page(c) == {n \in DOMAIN events : Position(c) < n /\ n <= End(c)}

-----------------------------------------------------------------------------
(* The host, which is not part of the repository.                          *)

\* The events of the page that tell of p, and the version the last leaves.
Of(p, page) == {n \in page : p \in {events[n].path, events[n].from}
                               /\ events[n].kind \notin {"erased", "scope_erased"}}

LastOf(page) == CHOOSE n \in page : \A k \in page : k <= n

VersionAfter(p, e) ==
    IF e.path # p \/ e.kind = "deleted" THEN 0 ELSE e.version

Replayed(page) ==
    [p \in Path |->
        IF Of(p, page) = {} THEN mirror[p]
        ELSE VersionAfter(p, events[LastOf(Of(p, page))])]

Resets(page) ==
    \E n \in page : events[n].kind \in {"tracking_started", "restored"}

\* A page of events: apply it, and save the checkpoint unless the host dies.
Follow(saved) ==
    /\ host = "poll" /\ Gap(cursor) = "none" /\ ~Ahead(cursor)
    /\ Page(cursor) # {}
    /\ mirror' = Replayed(Page(cursor))
    /\ IF saved
       THEN /\ cursor' = Cursor(head.stream, End(cursor))
            /\ host' = IF Resets(Page(cursor)) THEN "list" ELSE "poll"
       ELSE UNCHANGED <<cursor, host>>
    /\ UNCHANGED vars

\* A gap: save the head, reconcile next.
MeetGap ==
    /\ host = "poll" /\ Gap(cursor) # "none"
    /\ cursor' = IF head = Untracked THEN NoCursor ELSE HeadCursor
    /\ host' = "list"
    /\ UNCHANGED <<vars, mirror>>

\* list_documents, one locked call.
List ==
    /\ host = "list"
    /\ mirror' = [p \in Path |-> IF Live(p) THEN docs[p].version ELSE 0]
    /\ host' = "poll"
    /\ UNCHANGED <<vars, cursor>>

FeedInit ==
    /\ Init
    /\ cursor \in {NoCursor, Cursor(Elsewhere, 1)}
    /\ mirror = [p \in Path |-> 0]
    /\ host = "poll"

Store == Next /\ UNCHANGED <<cursor, mirror, host>>

FeedNext == Store \/ Follow(TRUE) \/ Follow(FALSE) \/ MeetGap \/ List

FeedSpec == FeedInit /\ [][FeedNext]_feedVars

FairFeedSpec ==
    FeedSpec /\ WF_feedVars(Follow(TRUE)) /\ WF_feedVars(MeetGap) /\ WF_feedVars(List)

-----------------------------------------------------------------------------
(* Properties.                                                             *)

\* A host that stands at the head with no gap and no reconciliation due knows
\* the version of every live document, however mutations, erasures, pruning
\* and its own crashes fell between its polls (changes.md:76-91).
AtHead == host = "poll" /\ head # Untracked /\ cursor = HeadCursor

MirrorAtHead ==
    AtHead => \A p \in Path : mirror[p] = IF Live(p) THEN docs[p].version ELSE 0

\* Once mutations and pruning end, a polling host arrives at the head and
\* stays: no gap repeats for ever.
CatchesUp == host # "away" => <>[](AtHead \/ head = Untracked)
===============================================================================
