------------------------------ MODULE Postgres ------------------------------
(***************************************************************************)
(* The Postgres store (postgres/, assets/sql/): callers that share a pool  *)
(* of connections send one statement each.  A statement reads the snapshot *)
(* it starts with and lands later; the primary keys refuse what another    *)
(* transaction inserted meanwhile.  With the change-feed extension a       *)
(* mutation runs under an advisory lock of the scope and appends its event *)
(* in the same transaction; without it the statement stands alone.         *)
(*                                                                         *)
(* One scope and one conversation; contents are opaque, timestamps,        *)
(* actors, formats and the codec of parameters are left out.  Requests to  *)
(* read are single statements and see a landed state.                      *)
(***************************************************************************)
EXTENDS Integers, Sequences, FiniteSets

CONSTANTS
    Caller,       \* threads that call the store
    Path,         \* document paths of the scope
    Prior,        \* a text written before the run
    Cleared,      \* the content redaction leaves, ''
    NoDoc,        \* no row in memories
    NoOne,        \* nobody holds a lock or a connection
    NoFence,      \* a write without expected_version
    Connections,  \* CONNECTIONS, 4 in the code
    Attempts,     \* ATTEMPTS, 25 in the code
    Plans         \* the requests each caller may bring

Ops == {"write", "delete", "rename", "redact", "restore", "prune", "turn"}
Texts == Caller \cup {Prior, Cleared}

ASSUME NamesAssumption ==
    /\ NoOne \notin Caller
    /\ NoDoc \notin [path : Path, version : Nat, text : Texts, born : Nat]
    /\ {Prior, Cleared} \cap Caller = {}
ASSUME PoolAssumption == Connections \in Nat \ {0} /\ Attempts \in Nat
\* Each caller brings one request, of any kind.
ASSUME PlansAssumption == \A plan \in Plans :
    /\ DOMAIN plan \subseteq Caller
    /\ plan = [c \in DOMAIN plan |-> plan[c]]
    /\ \A c \in DOMAIN plan :
         /\ plan[c] = [kind |-> plan[c].kind, path |-> plan[c].path,
                       to |-> plan[c].to, fence |-> plan[c].fence]
         /\ plan[c].kind \in Ops /\ {plan[c].path, plan[c].to} \subseteq Path
         /\ plan[c].fence = NoFence \/ plan[c].fence \in Nat

VARIABLES
    tracked,          \* supports_changes: the extension is installed
    memories,         \* path -> live row
    memory_versions,  \* rows keyed by path and version
    turns,            \* rows of one conversation, keyed by number
    changes,          \* every event ever appended; sequence = index
    floor,            \* events up to it are pruned
    lock,             \* holder of the advisory transaction lock
    next,             \* Pool.next: the connection the next attempt asks for
    slot,             \* who holds each connection
    call,             \* the calls in progress
    erased,           \* history: texts that an erasure was told to clear
    landed            \* history: who committed what, over which version

database == <<memories, memory_versions, turns, changes, floor>>
history == <<erased, landed>>
vars == <<tracked, database, lock, next, slot, call, history>>

Slots == 0..(Connections - 1)
\* What `retry` is for each statement.
Repeatable == {"write", "delete", "rename", "restore", "turn"}
\* What runs in a transaction under the scope's lock when the feed is there.
MutationsButDelete == Ops \ {"turn", "delete"}
Mutations == Ops \ {"turn"}

Max0(S) == CHOOSE n \in S \cup {0} : \A k \in S \cup {0} : k <= n
Live(p) == memories[p] # NoDoc
Mark(p) == Max0({r.version : r \in {v \in memory_versions : v.path = p}})
Shown(p) == IF Live(p) THEN memories[p].version ELSE 0
NextVersion(p) == Max0({Mark(p), Shown(p)}) + 1

\* One statement's work, as its snapshot lets it decide: rows to insert,
\* live rows to put and to remove, keys to blank, and the event it makes.
Nothing == [rows |-> {}, put |-> {}, fresh |-> {}, gone |-> {}, clear |-> {},
            turn |-> 0, event |-> <<>>]
RowOf(p, v, text) == [path |-> p, version |-> v, text |-> text]
Event(kind, p, v, from) == <<[kind |-> kind, path |-> p, version |-> v, from |-> from]>>

WriteUnfenced(c, q) ==
    LET v == NextVersion(q.path) IN
    [Nothing EXCEPT !.rows = {RowOf(q.path, v, c)}, !.put = {RowOf(q.path, v, c)},
        !.event = Event(IF Live(q.path) THEN "modified" ELSE "created", q.path, v, q.path)]

WriteDocument(c, q) ==
    LET v == NextVersion(q.path) IN
    IF q.fence \in {NoFence, Shown(q.path)} /\ (q.fence # NoFence => Live(q.path))
    THEN [Nothing EXCEPT !.rows = {RowOf(q.path, v, c)}, !.put = {RowOf(q.path, v, c)},
              !.event = Event(IF Live(q.path) THEN "modified" ELSE "created", q.path, v, q.path)]
    ELSE Nothing

DeleteDocument(q) ==
    LET v == NextVersion(q.path) IN
    IF Live(q.path)
    THEN [Nothing EXCEPT !.rows = {RowOf(q.path, v, memories[q.path].text)},
              !.gone = {<<q.path, memories[q.path].born>>},
              !.event = Event("deleted", q.path, v, q.path)]
    ELSE Nothing

RenameRestarts(q) ==
    IF Live(q.path) /\ ~Live(q.to)
    THEN [Nothing EXCEPT
              !.rows = {RowOf(q.path, NextVersion(q.path), memories[q.path].text),
                        RowOf(q.to, Mark(q.to) + 1, memories[q.path].text)},
              !.put = {RowOf(q.to, 1, memories[q.path].text)}, !.fresh = {q.to},
              !.gone = {<<q.path, memories[q.path].born>>},
              !.event = Event("renamed", q.to, Mark(q.to) + 1, q.path)]
    ELSE Nothing

RenameUnjournalled(q) ==
    LET moved == RowOf(q.to, Mark(q.to) + 1, memories[q.path].text) IN
    IF Live(q.path) /\ ~Live(q.to)
    THEN [Nothing EXCEPT
              !.rows = {moved}, !.put = {moved}, !.fresh = {q.to},
              !.gone = {<<q.path, memories[q.path].born>>},
              !.event = Event("renamed", q.to, moved.version, q.path)]
    ELSE Nothing

RenameDocument(q) ==
    LET moved == RowOf(q.to, Mark(q.to) + 1, memories[q.path].text) IN
    IF Live(q.path) /\ ~Live(q.to)
    THEN [Nothing EXCEPT
              !.rows = {RowOf(q.path, NextVersion(q.path), memories[q.path].text), moved},
              !.put = {moved}, !.fresh = {q.to},
              !.gone = {<<q.path, memories[q.path].born>>},
              !.event = Event("renamed", q.to, moved.version, q.path)]
    ELSE Nothing

\* The rows the snapshot shows, and the live row as it is when it is blanked.
Redact(q) ==
    LET rows == {r \in memory_versions : r.path = q.path} IN
    IF Live(q.path) \/ rows # {}
    THEN [Nothing EXCEPT
              !.clear = rows \cup IF Live(q.path) THEN {memories[q.path]} ELSE {},
              !.event = Event("erased", q.path, 0, q.path)]
    ELSE Nothing

\* An archive of one document, into a scope that never held anything.
RestoreScope(c, q) ==
    IF memory_versions = {} /\ \A p \in Path : ~Live(p)
    THEN [Nothing EXCEPT !.rows = {RowOf(q.path, 1, c)}, !.put = {RowOf(q.path, 1, c)},
              !.fresh = {q.path}, !.event = Event("reset", q.path, 0, q.path)]
    ELSE Nothing

AppendTurn == [Nothing EXCEPT !.turn = Max0({t.turn : t \in turns}) + 1]

Statement(c) ==
    LET q == call[c].op IN
    CASE q.kind = "write"   -> WriteDocument(c, q)
      [] q.kind = "delete"  -> DeleteDocument(q)
      [] q.kind = "rename"  -> RenameDocument(q)
      [] q.kind = "redact"  -> Redact(q)
      [] q.kind = "restore" -> RestoreScope(c, q)
      [] q.kind = "turn"    -> AppendTurn
      [] OTHER              -> Nothing

Init ==
    /\ tracked \in BOOLEAN
    /\ \E held \in SUBSET Path :
         /\ memory_versions = {RowOf(p, 1, Prior) : p \in held}
         /\ memories = [p \in Path |->
                IF p \in held THEN [path |-> p, version |-> 1, text |-> Prior, born |-> 1]
                ELSE NoDoc]
    /\ turns = {} /\ changes = <<>> /\ floor = 0 /\ lock = NoOne /\ erased = {} /\ landed = {}
    /\ next = 0 /\ slot = [s \in Slots |-> NoOne]
    /\ \E plan \in Plans : call = [c \in DOMAIN plan |->
         [op |-> plan[c], pc |-> "ask", on |-> 0, tries |-> 1, work |-> Nothing,
          answer |-> "none"]]

\* The callers of this run.
Busy == DOMAIN call
At(c, pc) == call[c].pc = pc
Step(c, pc) == call' = [call EXCEPT ![c].pc = pc]
UnderLock(c) == tracked /\ call[c].op.kind \in Mutations
End(c, answer) == call' = [call EXCEPT ![c].pc = "done", ![c].answer = answer]
ReleaseLockOnly(c) ==
    slot' = slot /\ lock' = IF lock = c THEN NoOne ELSE lock

\* The guard of the connection is dropped, and with it the transaction.
Release(c) ==
    /\ slot' = [slot EXCEPT ![call[c].on] = NoOne]
    /\ lock' = IF lock = c THEN NoOne ELSE lock

\* Each attempt queues on the next connection in turn, free or not.
Ask(c) ==
    /\ At(c, "ask")
    /\ next' = (next + 1) % Connections
    /\ call' = [call EXCEPT ![c].pc = "queued", ![c].on = next]
    /\ UNCHANGED <<tracked, database, lock, slot, history>>

Checkout(c) ==
    /\ At(c, "queued") /\ slot[call[c].on] = NoOne
    /\ slot' = [slot EXCEPT ![call[c].on] = c]
    /\ Step(c, IF UnderLock(c) THEN "begun" ELSE "ready")
    /\ UNCHANGED <<tracked, database, lock, next, history>>

\* Thirty seconds on one connection's queue.
Expire(c) ==
    /\ At(c, "queued") /\ slot[call[c].on] # NoOne
    /\ End(c, "failed")
    /\ UNCHANGED <<tracked, database, lock, next, slot, history>>

LockFree(c) ==
    /\ At(c, "begun")
    /\ Step(c, "ready")
    /\ UNCHANGED <<tracked, database, lock, next, slot, history>>

Lock(c) ==
    /\ At(c, "begun") /\ lock = NoOne
    /\ lock' = c
    /\ Step(c, "ready")
    /\ UNCHANGED <<tracked, database, next, slot, history>>

\* The statement starts: its snapshot fixes what it will do.
Start(c) ==
    /\ At(c, "ready") /\ call[c].op.kind # "prune"
    /\ call' = [call EXCEPT ![c].pc = "running", ![c].work = Statement(c)]
    /\ UNCHANGED <<tracked, database, lock, next, slot, history>>

\* The primary keys of memory_versions, memories and turns.
Violates(w) ==
    \/ \E r \in w.rows, s \in memory_versions : r.path = s.path /\ r.version = s.version
    \/ \E p \in w.fresh : Live(p)
    \/ w.turn \in {t.turn : t \in turns}

\* A statement whose row another transaction has just inserted is rolled
\* back, and tried again where its caller asked for that.
Retry(c) ==
    /\ At(c, "running") /\ Violates(call[c].work)
    /\ Release(c)
    /\ IF call[c].op.kind \in Repeatable /\ call[c].tries < Attempts
       THEN call' = [call EXCEPT ![c].pc = "ask", ![c].tries = @ + 1, ![c].work = Nothing]
       ELSE End(c, "failed")
    /\ UNCHANGED <<tracked, database, next, history>>

\* An upsert meets the live row there is; blanking and removal follow the row
\* the snapshot showed, in whatever version they find it.
Landed(w, p) ==
    LET put == {r \in w.put : r.path = p}
        doc == memories[p] IN
    IF put # {}
    THEN LET r == CHOOSE r \in put : TRUE IN
         [path |-> p, version |-> r.version, text |-> r.text,
          born |-> IF doc = NoDoc THEN r.version ELSE doc.born]
    ELSE IF doc # NoDoc /\ <<p, doc.born>> \in w.gone THEN NoDoc
    ELSE IF doc # NoDoc /\ \E r \in w.clear : "born" \in DOMAIN r /\ r.path = p /\ r.born = doc.born
    THEN [doc EXCEPT !.text = Cleared]
    ELSE doc

Blanked(w, r) == IF r \in w.clear THEN [r EXCEPT !.text = Cleared] ELSE r

\* The first event of a scope says that tracking starts here.
Append1(w) ==
    IF w.event = <<>> THEN changes
    ELSE IF changes = <<>> /\ w.event[1].kind # "reset"
    THEN Event("reset", w.event[1].path, 0, w.event[1].path) \o w.event
    ELSE changes \o w.event

\* Texts that leave no trace once the targets are blanked.
Swept(w) ==
    {r.text : r \in w.clear}
      \ ({r.text : r \in memory_versions \ w.clear}
         \cup {memories[p].text : p \in {q \in Path : Live(q) /\ memories[q] \notin w.clear}})

CommitAsksAgain(c) ==
    LET w == call[c].work IN
    /\ At(c, "running") /\ ~Violates(w)
    /\ memories' = [p \in Path |-> Landed(w, p)]
    /\ memory_versions' = {Blanked(w, r) : r \in memory_versions} \cup w.rows
    /\ turns' = turns \cup IF w.turn > 0 THEN {[turn |-> w.turn, text |-> c]} ELSE {}
    /\ changes' = IF UnderLock(c) THEN Append1(w) ELSE changes
    /\ erased' = erased \cup (Swept(w) \ {Cleared})
    /\ landed' = landed \cup {[by |-> c, over |-> Shown(call[c].op.path), work |-> w]}
    /\ Release(c)
    /\ \/ End(c, "ok")
       \/ IF call[c].op.kind \in Repeatable /\ call[c].tries < Attempts
          THEN call' = [call EXCEPT ![c].pc = "ask", ![c].tries = @ + 1, ![c].work = Nothing]
          ELSE End(c, "failed")
    /\ UNCHANGED <<tracked, floor, next>>

\* Execute, append the event and commit.  The answer may be lost on its way.
Commit(c) ==
    LET w == call[c].work IN
    /\ At(c, "running") /\ ~Violates(w)
    /\ memories' = [p \in Path |-> Landed(w, p)]
    /\ memory_versions' = {Blanked(w, r) : r \in memory_versions} \cup w.rows
    /\ turns' = turns \cup IF w.turn > 0 THEN {[turn |-> w.turn, text |-> c]} ELSE {}
    /\ changes' = IF UnderLock(c) THEN Append1(w) ELSE changes
    /\ erased' = erased \cup (Swept(w) \ {Cleared})
    /\ landed' = landed \cup {[by |-> c, over |-> Shown(call[c].op.path), work |-> w]}
    /\ Release(c)
    /\ \E answer \in {"ok", "failed"} : End(c, answer)
    /\ UNCHANGED <<tracked, floor, next>>

PruneAhead(c) ==
    /\ At(c, "ready") /\ call[c].op.kind = "prune"
    /\ \E through \in floor..(Len(changes) + 1) : floor' = through
    /\ Release(c)
    /\ \E answer \in {"ok", "failed"} : End(c, answer)
    /\ UNCHANGED <<tracked, memories, memory_versions, turns, changes, next, history>>

\* Retention deletes a prefix of the events, in a transaction of its own.
Prune(c) ==
    /\ At(c, "ready") /\ call[c].op.kind = "prune"
    /\ \E through \in floor..Len(changes) : floor' = through
    /\ Release(c)
    /\ \E answer \in {"ok", "failed"} : End(c, answer)
    /\ UNCHANGED <<tracked, memories, memory_versions, turns, changes, next, history>>

\* The connection dies before the commit: the server rolls back.
Disconnect(c) ==
    /\ call[c].pc \in {"begun", "ready", "running"}
    /\ Release(c)
    /\ End(c, "failed")
    /\ UNCHANGED <<tracked, database, next, history>>

Quiet == \A c \in Busy : At(c, "done")
Finished == Quiet /\ UNCHANGED vars

Next == \/ \E c \in Busy :
             \/ Ask(c) \/ Checkout(c) \/ Expire(c) \/ Lock(c) \/ Start(c)
             \/ Retry(c) \/ Commit(c) \/ Prune(c) \/ Disconnect(c)
        \/ Finished

\* The runtime polls every call and Postgres answers every statement.
Moves(c) == \/ Ask(c) \/ Checkout(c) \/ Lock(c) \/ Start(c)
            \/ Retry(c) \/ Commit(c) \/ Prune(c)
Fairness == \A c \in Caller : WF_vars(c \in Busy /\ Moves(c))

Spec == Init /\ [][Next]_vars /\ Fairness
-----------------------------------------------------------------------------
RowType == [path : Path, version : Nat \ {0}, text : Texts]
TypeOK ==
    /\ tracked \in BOOLEAN /\ floor \in 0..Len(changes)
    /\ \A p \in Path : Live(p) => memories[p] \in
           [path : {p}, version : Nat \ {0}, text : Texts, born : Nat \ {0}]
    /\ memory_versions \subseteq RowType
    /\ turns \subseteq [turn : Nat \ {0}, text : Caller]
    /\ lock \in Caller \cup {NoOne} /\ slot \in [Slots -> Caller \cup {NoOne}]
    /\ erased \subseteq Texts

\* A version number names one content for ever, and the live row is the last
\* row of its history unless it was blanked after it (memories, memory_versions).
VersionsNameRows ==
    /\ \A r, s \in memory_versions : r.path = s.path /\ r.version = s.version => r = s
    /\ \A p \in Path : Live(p) => memories[p].version = Mark(p)

\* A write with expected_version replaced exactly the version it names, whatever
\* raced it and however often it was tried.
FenceHolds ==
    \A l \in landed : LET q == call[l.by].op IN
        q.kind = "write" /\ q.fence # NoFence /\ l.work.rows # {} => l.over = q.fence

\* A retried or unanswered call lands once: one row for a write, one turn for
\* an append, and turns are numbered without holes.
LandsOnce ==
    /\ \A k, l \in landed : k.by = l.by => k = l
    /\ {t.turn : t \in turns} = 1..Cardinality(turns)
    /\ \A c \in Busy : At(c, "done") /\ call[c].answer = "ok" /\ call[c].op.kind = "turn"
          => Cardinality({t \in turns : t.text = c}) = 1

\* With the extension, the last event about a path tells its live version: no
\* mutation escapes the feed and none is announced that did not land.
Touches(e, p) == e.kind # "reset" /\ p \in {e.path, e.from}
EventsTell ==
    tracked => \A p \in Path, i \in DOMAIN changes :
        Touches(changes[i], p) /\ changes[i].kind # "erased"
        /\ (\A j \in (i + 1)..Len(changes) :
               ~Touches(changes[j], p) \/ changes[j].kind = "erased")
        => Shown(p) = IF changes[i].path = p /\ changes[i].kind # "deleted"
                      THEN changes[i].version ELSE 0

\* With the extension, a text that an erasure cleared does not come back: no
\* statement that had read it lands after the erasure.
ErasedStaysErased ==
    tracked => /\ \A r \in memory_versions : r.text \notin erased
               /\ \A p \in Path : Live(p) => memories[p].text \notin erased

\* Every call is answered: pool, lock and retries let everybody through.
Answered == \A c \in Caller : c \in Busy ~> c \in Busy /\ At(c, "done")

\* The rows keep the version clock that the file store keeps.
Clock == INSTANCE VersionClock WITH
    mark <- [p \in Path |-> NextVersion(p) - 1],
    shown <- [p \in Path |-> Shown(p)]
KeepsClock == Clock!Spec

\* A call lands once, over the version it names, under a number of its own.
CallsLand == TypeOK /\ VersionsNameRows /\ FenceHolds /\ LandsOnce

\* With the extension, events and erasures hold whatever statements race.
FeedTells == EventsTell /\ ErasedStaysErased
=============================================================================
