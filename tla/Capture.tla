------------------------------ MODULE Capture ------------------------------
(***************************************************************************)
(* How an agent's session becomes a recorded conversation, and how its     *)
(* handoff note reaches the next session.  A client's hooks start one      *)
(* process each; a process takes the session's lock, appends one record to *)
(* the session's spool and, at the end of a span, lands the span:          *)
(* one turn in the conversation's log, the sessions document rewritten,    *)
(* a pending note linked, the spool removed last (record/land.rs,          *)
(* record/spool.rs, store/turns.rs).  Every store call of a landing takes  *)
(* the store's root lock for itself, so a landing is several steps between *)
(* which other sessions, the eraser (operator/erasure.rs) and a            *)
(* continue_session call (conversation/handoff.rs) may move.               *)
(*                                                                         *)
(* A record is one hook event: its number in the session, its kind and,    *)
(* for a continue call, the conversation it delivered.  Of a text only     *)
(* whether there is any is kept.                                           *)
(***************************************************************************)
EXTENDS Integers, Sequences, SequencesExt, FiniteSets

CONSTANTS
    Session,      \* the sessions of one scope
    NoSession,    \* no conversation; a note that is not linked or not picked up
    Cursor,       \* the sessions whose client is Cursor
    Fires,        \* the kinds of events a session's client sends
    Idle,         \* no landing, no pickup, no note
    MaxEvents,    \* bound: hook events of each session
    MaxTools,     \* bound: handoff and continue_session calls
    MaxTroubles   \* bound: processes killed, appends torn, erasures by the operator

ASSUME CaptureAssumption ==
    /\ Cursor \subseteq Session
    /\ NoSession \notin Session
    /\ MaxEvents \in [Session -> Nat]
    /\ {MaxTools, MaxTroubles} \subseteq Nat

Kinds == {"prompt", "handoff", "continue", "assistant", "stop", "halt"}
Record == [number : Nat, kind : Kinds, of : Session \union {NoSession}]
Note == [version : Nat, written : Nat, writer : Session,
         link : Session \union {NoSession}, pending : BOOLEAN,
         by : Session \union {NoSession}]
Owed == [kind : {"handoff", "continue"}, of : Session \union {NoSession}]
Pickup == [target : Session, note : Note \union {Idle}, retried : BOOLEAN]
Landing ==
    [stage : {"append", "note", "clear"}]
    \union [stage : {"list"}, turn : Nat, said : SUBSET Record]
    \union [stage : {"write"}, turn : Nat, said : SUBSET Record, lineage : SUBSET Session]
    \union [stage : {"link"}, note : Note]

ASSUME IdleAssumption == Idle \notin Note \union Owed \union Pickup \union Landing

VARIABLES
    fired,     \* how many events each session's client has sent
    owed,      \* a tool's record the client has still to send
    spool,     \* the session's spool file
    landing,   \* the landing that holds the session's lock
    log,       \* turns.jsonl of the session's conversation
    docs,      \* the scope's sessions/<id> documents
    baton,     \* the scope's handoff document
    pickup,    \* a continue_session call in progress
    eraser,    \* conversations whose documents `redact --all` has still to erase
    seq,       \* the scope's version sequence; its order is the order of times
    budget,    \* what is left of each bound
    told,      \* the records whose append succeeded
    erased,    \* the records of erased turns
    halted     \* the records in the spool when a landing ended half-way

vars == <<fired, owed, spool, landing, log, docs, baton, pickup, eraser, seq,
          budget, told, erased, halted>>
clients == <<fired, owed>>
scope   == <<docs, baton, seq>>
history == <<told, erased, halted>>

Records(s) == [number : 1..MaxEvents[s], kind : Kinds, of : Session \union {NoSession}]
Sent(s) == {"prompt", "assistant", "stop", "halt"} \intersect Fires[s]

(* Whether a record becomes messages.  Cursor's stop has no text of its    *)
(* own; a halt is a stop that failed or whose answer is empty.             *)
Says(s, r) == r.kind \in {"prompt", "handoff", "continue", "assistant"}
              \/ (r.kind = "stop" /\ s \notin Cursor)
Said(s, records) == {r \in Range(records) : Says(s, r)}

LandsAt(s, kind) == kind \in {"stop", "halt"} \/ (s \in Cursor /\ kind = "assistant")

(* Cursor may send its stop before the answer: the span waits for both.    *)
Stops(records) == SelectSeq(records, LAMBDA r : r.kind \in {"stop", "halt"})
Waits(s, records) ==
    /\ s \in Cursor
    /\ Stops(records) # <<>> =>
          /\ Last(Stops(records)).kind = "stop"
          /\ \A r \in Range(records) : r.kind # "assistant"
          /\ Said(s, records) # {}

-----------------------------------------------------------------------------
(* The turn log.  `good` counts its readable lines: an append that died    *)
(* half-way leaves a malformed line, and one that lost only the newline    *)
(* leaves a line the next append runs into.                                *)

EmptyLog == [rows |-> <<>>, good |-> 0, ended |-> TRUE]
NoDocument == [live |-> FALSE, version |-> 0, turns |-> 0, continues |-> {}]
EmptySpool == [records |-> <<>>, torn |-> FALSE]

Readable(s) == log[s].good = Len(log[s].rows)
FirstReadable(s) == log[s].rows = <<>> \/ log[s].good > 0
WithRow(s, said, whole, ended) ==
    [rows  |-> Append(log[s].rows, said),
     good  |-> IF ~log[s].ended THEN log[s].good - 1
               ELSE IF whole THEN log[s].good + 1 ELSE log[s].good,
     ended |-> ended]

Continued(records) == {r.of : r \in {x \in records : x.kind = "continue"}}
Declares(records) == \E r \in records : r.kind = "handoff"

Init ==
    /\ fired = [s \in Session |-> 0]
    /\ owed = [s \in Session |-> Idle]
    /\ spool = [s \in Session |-> EmptySpool]
    /\ landing = [s \in Session |-> Idle]
    /\ log = [s \in Session |-> EmptyLog]
    /\ docs = [s \in Session |-> NoDocument]
    /\ baton = Idle
    /\ pickup = [s \in Session |-> Idle]
    /\ eraser = {}
    /\ seq = 0
    /\ budget = [tools |-> MaxTools, troubles |-> MaxTroubles]
    /\ told = [s \in Session |-> {}]
    /\ erased = [s \in Session |-> {}]
    /\ halted = [s \in Session |-> {}]

-----------------------------------------------------------------------------
(* One hook process.  The client sends a tool's record once the call has   *)
(* answered and nothing else before it; a lock that is held is waited for. *)

Due(s) == IF owed[s] # Idle THEN {owed[s]}
          ELSE {[kind |-> k, of |-> NoSession] : k \in Sent(s)}

NextRecord(s, kind, of) ==
    /\ fired[s] < MaxEvents[s]
    /\ [kind |-> kind, of |-> of] \in Due(s)
    /\ fired' = [fired EXCEPT ![s] = @ + 1]
    /\ owed' = [owed EXCEPT ![s] = Idle]

Spooled(s, kind, of) ==
    Append(spool[s].records, [number |-> fired[s] + 1, kind |-> kind, of |-> of])

Acknowledged(s, kind, of) ==
    /\ told' = [told EXCEPT ![s] = @ \union {Last(Spooled(s, kind, of))}]
    /\ UNCHANGED <<erased, halted>>

Locked(s) == landing[s] # Idle

(* Mutant: a process that only appends does not wait for the lock.         *)
HookUnlocked(s, kind, of) ==
    /\ NextRecord(s, kind, of)
    /\ ~LandsAt(s, kind) \/ spool[s].torn \/ Waits(s, Spooled(s, kind, of))
    /\ spool' = [spool EXCEPT ![s].records = Spooled(s, kind, of)]
    /\ Acknowledged(s, kind, of)
    /\ UNCHANGED <<landing, log, scope, pickup, eraser, budget>>

(* A record waits in the spool: no end of a span, or Cursor's other half   *)
(* is missing, or the spool has a torn line and every reading is refused.  *)
Hook(s, kind, of) ==
    /\ ~Locked(s)
    /\ NextRecord(s, kind, of)
    /\ ~LandsAt(s, kind) \/ spool[s].torn \/ Waits(s, Spooled(s, kind, of))
    /\ spool' = [spool EXCEPT ![s].records = Spooled(s, kind, of)]
    /\ Acknowledged(s, kind, of)
    /\ UNCHANGED <<landing, log, scope, pickup, eraser, budget>>

(* The end of a span; an empty one only clears the spool.                  *)
Begin(s, kind, of) ==
    /\ ~Locked(s)
    /\ NextRecord(s, kind, of)
    /\ LandsAt(s, kind) /\ ~spool[s].torn /\ ~Waits(s, Spooled(s, kind, of))
    /\ IF Said(s, Spooled(s, kind, of)) = {}
       THEN spool' = [spool EXCEPT ![s] = EmptySpool] /\ UNCHANGED landing
       ELSE /\ spool' = [spool EXCEPT ![s].records = Spooled(s, kind, of)]
            /\ landing' = [landing EXCEPT ![s] = [stage |-> "append"]]
    /\ Acknowledged(s, kind, of)
    /\ UNCHANGED <<log, scope, pickup, eraser, budget>>

Trouble == budget.troubles > 0 /\ budget' = [budget EXCEPT !.troubles = @ - 1]

(* The process dies or the disk is full within the append: a torn line.    *)
TearSpool(s, kind, of) ==
    /\ ~Locked(s)
    /\ NextRecord(s, kind, of)
    /\ Trouble
    /\ spool' = [spool EXCEPT ![s].torn = TRUE]
    /\ UNCHANGED <<landing, log, scope, pickup, eraser, history>>

-----------------------------------------------------------------------------
(* A landing, one store call a step; the lock is held from Begin on.       *)

At(s, stage) == Locked(s) /\ landing[s].stage = stage

(* Mutant: the log's last line is counted and not parsed.                  *)
AppendTurnBlind(s) ==
    /\ At(s, "append")
    /\ log' = [log EXCEPT ![s] = WithRow(s, Said(s, spool[s].records), TRUE, TRUE)]
    /\ landing' = [landing EXCEPT ![s] =
           [stage |-> "list", turn |-> Len(log[s].rows) + 1, said |-> Said(s, spool[s].records)]]
    /\ UNCHANGED <<clients, spool, scope, pickup, eraser, budget, history>>

AppendTurn(s) ==
    /\ At(s, "append")
    /\ Readable(s)
    /\ log' = [log EXCEPT ![s] = WithRow(s, Said(s, spool[s].records), TRUE, TRUE)]
    /\ landing' = [landing EXCEPT ![s] =
           [stage |-> "list", turn |-> Len(log[s].rows) + 1, said |-> Said(s, spool[s].records)]]
    /\ UNCHANGED <<clients, spool, scope, pickup, eraser, budget, history>>

(* Mutant: the lineage is the span's own.                                  *)
ReadDocumentAnew(s) ==
    /\ At(s, "list")
    /\ landing' = [landing EXCEPT ![s] =
           [stage |-> "write", turn |-> @.turn, said |-> @.said, lineage |-> Continued(@.said)]]
    /\ UNCHANGED <<clients, spool, log, scope, pickup, eraser, budget, history>>

ReadDocument(s) ==
    /\ At(s, "list")
    /\ landing' = [landing EXCEPT ![s] =
           [stage |-> "write", turn |-> @.turn, said |-> @.said,
            lineage |-> docs[s].continues \union Continued(@.said)]]
    /\ UNCHANGED <<clients, spool, log, scope, pickup, eraser, budget, history>>

(* Mutant: a span without a note returns before the spool is cleared.      *)
WriteDocumentReturns(s) ==
    /\ At(s, "write")
    /\ FirstReadable(s)
    /\ seq' = seq + 1
    /\ docs' = [docs EXCEPT ![s] =
           [live |-> TRUE, version |-> seq', turns |-> landing[s].turn,
            continues |-> landing[s].lineage]]
    /\ landing' = [landing EXCEPT ![s] = IF Declares(@.said) THEN [stage |-> "note"] ELSE Idle]
    /\ UNCHANGED <<clients, spool, log, baton, pickup, eraser, budget, history>>

(* The document is rewritten whole, against no version.                    *)
WriteDocument(s) ==
    /\ At(s, "write")
    /\ FirstReadable(s)
    /\ seq' = seq + 1
    /\ docs' = [docs EXCEPT ![s] =
           [live |-> TRUE, version |-> seq', turns |-> landing[s].turn,
            continues |-> landing[s].lineage]]
    /\ landing' = [landing EXCEPT ![s] =
           [stage |-> IF Declares(@.said) THEN "note" ELSE "clear"]]
    /\ UNCHANGED <<clients, spool, log, baton, pickup, eraser, budget, history>>

Pending == baton # Idle /\ baton.pending
Newest(note) == baton.version = note.version

(* link_handoff: whatever pending, unlinked note the scope holds is read   *)
(* and, against the version read, linked to this session.                  *)
ReadNote(s) ==
    /\ At(s, "note")
    /\ landing' = [landing EXCEPT ![s] =
           IF Pending /\ baton.link = NoSession
           THEN [stage |-> "link", note |-> baton] ELSE [stage |-> "clear"]]
    /\ UNCHANGED <<clients, spool, log, scope, pickup, eraser, budget, history>>

(* Mutant: the link is written against no version.                         *)
LinkNoteUnfenced(s) ==
    /\ At(s, "link")
    /\ seq' = seq + 1
    /\ baton' = [landing[s].note EXCEPT !.version = seq', !.link = s]
    /\ landing' = [landing EXCEPT ![s] = [stage |-> "clear"]]
    /\ UNCHANGED <<clients, spool, log, docs, pickup, eraser, budget, history>>

LinkNote(s) ==
    /\ At(s, "link")
    /\ IF Newest(landing[s].note)
       THEN /\ seq' = seq + 1
            /\ baton' = [landing[s].note EXCEPT !.version = seq', !.link = s]
       ELSE UNCHANGED <<baton, seq>>
    /\ landing' = [landing EXCEPT ![s] = [stage |-> "clear"]]
    /\ UNCHANGED <<clients, spool, log, docs, pickup, eraser, budget, history>>

Clear(s) ==
    /\ At(s, "clear")
    /\ spool' = [spool EXCEPT ![s] = EmptySpool]
    /\ landing' = [landing EXCEPT ![s] = Idle]
    /\ UNCHANGED <<clients, log, scope, pickup, eraser, budget, history>>

(* A landing that ends early leaves the spool for the next one.            *)
Ends(s) ==
    /\ landing' = [landing EXCEPT ![s] = Idle]
    /\ UNCHANGED <<clients, spool, scope, pickup, eraser, told, erased>>

LeavesTurn(s) == halted' = [halted EXCEPT ![s] = @ \union Range(spool[s].records)]

Refuse(s) ==
    /\ \/ At(s, "append") /\ ~Readable(s) /\ UNCHANGED halted
       \/ At(s, "write") /\ ~FirstReadable(s) /\ LeavesTurn(s)
    /\ Ends(s)
    /\ UNCHANGED <<log, budget>>

Die(s) ==
    /\ Locked(s)
    /\ IF At(s, "append") THEN UNCHANGED halted ELSE LeavesTurn(s)
    /\ Trouble
    /\ Ends(s)
    /\ UNCHANGED log

(* The append of the turn loses its end, or only its newline.              *)
TearTurn(s, whole) ==
    /\ At(s, "append")
    /\ Readable(s)
    /\ log' = [log EXCEPT ![s] =
           WithRow(s, IF whole THEN Said(s, spool[s].records) ELSE {}, whole, FALSE)]
    /\ LeavesTurn(s)
    /\ Trouble
    /\ Ends(s)

-----------------------------------------------------------------------------
(* The eraser: redact blanks turns (and heals a missing newline, for it    *)
(* rewrites the log); with --all, and for prune, the document follows in   *)
(* a call of its own.                                                      *)

(* Mutant: erased turns leave the log.                                     *)
RedactDrops(s, all, through) ==
    /\ Trouble
    /\ Readable(s)
    /\ through \in DOMAIN log[s].rows
    /\ all => through = Len(log[s].rows)
    /\ erased' = [erased EXCEPT ![s] = @ \union UNION {log[s].rows[i] : i \in 1..through}]
    /\ log' = [log EXCEPT ![s] = [rows |-> SubSeq(@.rows, through + 1, Len(@.rows)),
                                 good |-> @.good - through, ended |-> TRUE]]
    /\ eraser' = IF all THEN eraser \union {s} ELSE eraser
    /\ UNCHANGED <<clients, spool, landing, scope, pickup, told, halted>>

Redact(s, all, through) ==
    /\ Trouble
    /\ Readable(s)
    /\ through \in DOMAIN log[s].rows
    /\ all => through = Len(log[s].rows)
    /\ erased' = [erased EXCEPT ![s] = @ \union UNION {log[s].rows[i] : i \in 1..through}]
    /\ log' = [log EXCEPT
           ![s].rows  = [i \in DOMAIN @ |-> IF i <= through THEN {} ELSE @[i]],
           ![s].ended = TRUE]
    /\ eraser' = IF all THEN eraser \union {s} ELSE eraser
    /\ UNCHANGED <<clients, spool, landing, scope, pickup, told, halted>>

RedactDocument(s) ==
    /\ s \in eraser
    /\ eraser' = eraser \ {s}
    /\ docs' = [docs EXCEPT ![s] = [NoDocument EXCEPT !.version = docs[s].version]]
    /\ UNCHANGED <<clients, spool, landing, log, baton, pickup, seq, budget, history>>

-----------------------------------------------------------------------------
(* The two tools of the handoff.                                           *)

Calls(s, tool) ==
    /\ tool \in Fires[s]
    /\ owed[s] = Idle /\ pickup[s] = Idle
    /\ budget.tools > 0
    /\ budget' = [budget EXCEPT !.tools = @ - 1]

Handoff(s) ==
    /\ Calls(s, "handoff")
    /\ seq' = seq + 1
    /\ baton' = [version |-> seq', written |-> seq', writer |-> s,
                 link |-> NoSession, pending |-> TRUE, by |-> NoSession]
    /\ owed' = [owed EXCEPT ![s] = [kind |-> "handoff", of |-> NoSession]]
    /\ UNCHANGED <<fired, spool, landing, log, docs, pickup, eraser, history>>

(* The session a bare call means: the linked one, else the newest listed   *)
(* one, updated after the note when one is pending.                        *)
Listed == {t \in Session : docs[t].live /\ (Pending => docs[t].version > baton.written)}
DefaultTarget ==
    IF Pending /\ baton.link # NoSession THEN {baton.link}
    ELSE {t \in Listed : \A u \in Listed : docs[u].version <= docs[t].version}

(* The reads of one call are one step; named = NoSession is a bare call.   *)
ContinueFrom(s, named) ==
    /\ Calls(s, "continue")
    /\ \E target \in IF named = NoSession THEN DefaultTarget ELSE {named} :
          /\ Readable(target) /\ log[target].rows # <<>>
          /\ pickup' = [pickup EXCEPT ![s] =
                [target  |-> target,
                 note    |-> IF Pending /\ (baton.link = target
                                            \/ (baton.link = NoSession /\ named = NoSession))
                             THEN baton ELSE Idle,
                 retried |-> FALSE]]
    /\ UNCHANGED <<clients, spool, landing, log, scope, eraser, history>>

Delivers(s) ==
    /\ owed' = [owed EXCEPT ![s] = [kind |-> "continue", of |-> pickup[s].target]]
    /\ pickup' = [pickup EXCEPT ![s] = Idle]

(* picked_up: the note is marked against the version read; after one       *)
(* conflict once more against whatever note is pending then.               *)
Calling(s) == pickup[s] # Idle
Carries(s) == Calling(s) /\ pickup[s].note # Idle

Mark(s) ==
    /\ Carries(s) /\ Newest(pickup[s].note)
    /\ seq' = seq + 1
    /\ baton' = [pickup[s].note EXCEPT !.version = seq', !.link = pickup[s].target,
                                      !.pending = FALSE, !.by = s]
    /\ Delivers(s)
    /\ UNCHANGED docs

Retry(s) ==
    /\ Carries(s) /\ ~Newest(pickup[s].note) /\ ~pickup[s].retried /\ Pending
    /\ pickup' = [pickup EXCEPT ![s].note = baton, ![s].retried = TRUE]
    /\ UNCHANGED <<owed, scope>>

(* No note of this conversation, or somebody else picked it up meanwhile.  *)
DeliverOnly(s) ==
    /\ Calling(s)
    /\ Carries(s) => ~Newest(pickup[s].note) /\ ~pickup[s].retried /\ ~Pending
    /\ Delivers(s)
    /\ UNCHANGED scope

(* The second conflict is the call's error.                                *)
GiveUp(s) ==
    /\ Carries(s) /\ ~Newest(pickup[s].note) /\ pickup[s].retried
    /\ pickup' = [pickup EXCEPT ![s] = Idle]
    /\ UNCHANGED <<owed, scope>>

PickUp(s) ==
    /\ Mark(s) \/ Retry(s) \/ DeliverOnly(s) \/ GiveUp(s)
    /\ UNCHANGED <<fired, spool, landing, log, eraser, budget, history>>

Event(s) ==
    \E r \in Due(s) :
        Hook(s, r.kind, r.of) \/ Begin(s, r.kind, r.of) \/ TearSpool(s, r.kind, r.of)

Land(s) ==
    \/ AppendTurn(s) \/ ReadDocument(s) \/ WriteDocument(s)
    \/ ReadNote(s) \/ LinkNote(s) \/ Clear(s)
    \/ Refuse(s) \/ Die(s) \/ \E whole \in BOOLEAN : TearTurn(s, whole)

Erase(s) ==
    \/ \E all \in BOOLEAN, through \in 1..MaxEvents[s] : Redact(s, all, through)
    \/ RedactDocument(s)

Tool(s) ==
    \/ Handoff(s)
    \/ \E named \in (Session \ {s}) \union {NoSession} : ContinueFrom(s, named)
    \/ PickUp(s)

Next == \E s \in Session : Event(s) \/ Land(s) \/ Erase(s) \/ Tool(s)

Spec == Init /\ [][Next]_vars

-----------------------------------------------------------------------------
(* Properties.                                                             *)

Rows(s) == UNION Range(log[s].rows)

TypeOK ==
    /\ DOMAIN fired = Session
    /\ \A s \in Session :
          /\ fired[s] \in 0..MaxEvents[s]
          /\ owed[s] = Idle \/ owed[s].kind \in {"handoff", "continue"}
          /\ Range(spool[s].records) \union Rows(s) \subseteq told[s]
          /\ told[s] \subseteq Records(s)
          /\ log[s].good \in 0..Len(log[s].rows)
          /\ docs[s].version \in 0..seq /\ docs[s].continues \subseteq Session
          /\ Locked(s) => landing[s].stage \in {"append", "list", "write", "note", "link", "clear"}
    /\ Pending => baton.version \in 1..seq /\ baton.link \in Session \union {NoSession}
    /\ eraser \subseteq Session

(* Whatever a hook has put on record and answered for is in the session's  *)
(* spool or in a turn until the operator erases it, however the landings   *)
(* of the span fail and whatever other sessions do.                        *)
NothingLost ==
    \A s \in Session : \A r \in told[s] :
        Says(s, r) => r \in Range(spool[s].records) \union Rows(s) \union erased[s]

(* A record stands in two turns only when a landing that had written the   *)
(* first of them ended before it cleared the spool.                        *)
LandsOnce ==
    \A s \in Session : \A i, j \in DOMAIN log[s].rows :
        i # j => log[s].rows[i] \intersect log[s].rows[j] \subseteq halted[s]

(* When no landing of the session is under way or was left half-way, its   *)
(* document, unless erased, counts the turns of its log: no older landing  *)
(* has overwritten it.                                                     *)
DocumentCurrent ==
    \A s \in Session :
        ~Locked(s) /\ docs[s].live /\ Range(spool[s].records) \intersect halted[s] = {}
            => docs[s].turns = Len(log[s].rows)

(* The rewritten document keeps the lineage the document had; only the     *)
(* operator's erasure ends it.                                             *)
LineageKept ==
    [][\A s \in Session : docs[s].live /\ docs'[s].live
          => docs[s].continues \subseteq docs'[s].continues]_vars

(* A note that a session has picked up stays picked up by that session     *)
(* until another note replaces it: a landing that links it late changes    *)
(* nothing, and of two sessions that continue at once one marks it.        *)
PickedOnce ==
    [][baton # Idle /\ ~baton.pending /\ baton'.written = baton.written
          => ~baton'.pending /\ baton'.by = baton.by]_vars

(* handoff_recorded tells the writer of a note that continue_session       *)
(* delivers "this conversation": a note is delivered with the conversation *)
(* of the session that wrote it.  Refuted: the link and the default target *)
(* name whichever session of the scope stops next.                         *)
NoteWithItsConversation ==
    \A s \in Session : Carries(s) /\ ~pickup[s].retried
        => pickup[s].target = pickup[s].note.writer

\* A span that was put on record lands, whole and once.
SpansLand == TypeOK /\ NothingLost /\ LandsOnce

\* The links between a scope's sessions, their documents and the note, survive
\* the landings that rewrite them.
LinksKept == LineageKept /\ PickedOnce
=============================================================================
