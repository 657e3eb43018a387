------------------------------ MODULE Sessions ------------------------------
(***************************************************************************)
(* The sessions of the MCP surface of the HTTP server (serve/sessions.rs,  *)
(* serve/mcp.rs): one table under a lock, requests that hold a session     *)
(* while they are answered, one event stream a session, an idle time after *)
(* which a session nobody holds is swept, and one MCP server that handles  *)
(* one call at a time for the session it was told is its reader.           *)
(*                                                                         *)
(* A request is POST (initialize, ping or a tool call), GET or DELETE; its *)
(* headers and body are right or malformed.  The client may go away at any *)
(* await; the call it started is still handled.                            *)
(***************************************************************************)
EXTENDS Integers, FiniteSets

CONSTANTS
    Request,      \* the requests that arrive
    Plans,        \* bound: which method each request has, [Request -> Methods]
    Id,           \* bound: UUIDs a session may get
    NoId,         \* a request without Mcp-Session-Id
    MaxSessions,  \* MAX_SESSIONS, 10,000 in the code
    Idle,         \* IDLE, 30 minutes: here in ticks
    MaxTime       \* bound: ticks of the clock

Methods == {"initialize", "ping", "call", "GET", "DELETE", "malformed"}

ASSUME RequestsAssumption == IsFiniteSet(Request) /\ Plans \subseteq [Request -> Methods]
ASSUME IdsAssumption == NoId \notin Id
ASSUME LimitsAssumption == MaxSessions \in Nat /\ Idle \in Nat /\ MaxTime \in Nat

VARIABLES
    sessions,  \* Table: id -> Session, for the ids present
    minted,    \* ids given so far: a UUID is given once
    req,       \* the requests
    reader,    \* Server.reader, under the server's mutex
    now,       \* the clock
    closing    \* the server is shutting down

vars == <<sessions, minted, req, reader, now, closing>>

Posts == Methods \ {"GET", "DELETE"}
Session == [initialized : BOOLEAN, in_flight : Nat, stream_open : BOOLEAN, idle_since : 0..MaxTime]
Put(f, k, v) == [x \in DOMAIN f \cup {k} |-> IF x = k THEN v ELSE f[x]]
Without(f, K) == [x \in DOMAIN f \ K |-> f[x]]

\* Mutant: only the stream keeps a session.
ExpiredHeld(s) == ~s.stream_open /\ now - s.idle_since >= Idle
Expired(s) == s.in_flight = 0 /\ ~s.stream_open /\ now - s.idle_since >= Idle
Swept == {i \in DOMAIN sessions : Expired(sessions[i])}
\* find drops the session it looks up when that has expired.
Found(i) == i \in DOMAIN sessions /\ ~Expired(sessions[i])
Lookup(i) == IF i \in Swept THEN Without(sessions, {i}) ELSE sessions
Terminate(table, i) == Without(table, {i})

\* Mutant: the count is not given back.
DropUncounted(table, r) ==
    LET i == req[r].id IN
    IF i \in DOMAIN table THEN [table EXCEPT ![i].idle_since = now] ELSE table
\* Dropping a Hold: the session may be gone.
Drop(table, r) ==
    LET i == req[r].id IN
    IF i \notin DOMAIN table THEN table
    ELSE [table EXCEPT ![i].in_flight = @ - 1, ![i].idle_since = now]
DropStream(table, r) ==
    LET i == req[r].id IN
    IF i \notin DOMAIN table THEN table
    ELSE [table EXCEPT ![i].stream_open = FALSE, ![i].idle_since = now]

Init ==
    /\ sessions = [i \in {} |-> 0] /\ minted = {} /\ reader = NoId /\ now = 0
    /\ closing = FALSE
    /\ \E plan \in Plans :
         req = [r \in Request |-> [pc |-> "none", method |-> plan[r], id |-> NoId,
                                   opening |-> FALSE, status |-> 0, runs |-> FALSE,
                                   late |-> FALSE]]

At(r, pc) == req[r].pc = pc
\* Mutant: a refused opening leaves its session.
AnswerOpen(r, table, status) ==
    /\ req' = [req EXCEPT ![r].pc = "answered", ![r].status = status]
    /\ sessions' = Drop(table, r)
\* The endpoint drops its hold before it ends a session that failed to open.
Answer(r, table, status) ==
    /\ req' = [req EXCEPT ![r].pc = "answered", ![r].status = status]
    /\ sessions' = LET t == Drop(table, r) IN
                   IF req[r].opening /\ status >= 400 THEN Terminate(t, req[r].id) ELSE t

\* A request without the header opens a session if the table has room.
Open(r) ==
    /\ At(r, "none")
    /\ LET kept == Without(sessions, Swept) IN
       IF Cardinality(DOMAIN kept) >= MaxSessions
       THEN /\ sessions' = kept
            /\ req' = [req EXCEPT ![r].pc = "answered", ![r].status = 503]
            /\ UNCHANGED minted
       ELSE LET i == CHOOSE x \in Id \ minted : TRUE IN
            /\ minted # Id
            /\ sessions' = Put(kept, i, [initialized |-> FALSE, in_flight |-> 0,
                                         stream_open |-> FALSE, idle_since |-> now])
            /\ minted' = minted \cup {i}
            /\ req' = [req EXCEPT ![r].pc = "named", ![r].id = i, ![r].opening = TRUE]
    /\ UNCHANGED <<reader, now, closing>>

Present(r) ==
    /\ At(r, "none")
    /\ \E i \in minted : req' = [req EXCEPT ![r].pc = "named", ![r].id = i]
    /\ UNCHANGED <<sessions, minted, reader, now, closing>>

\* Mutant: the session is found, not held.
HoldUncounted(r) ==
    /\ At(r, "named") /\ Found(req[r].id)
    /\ req' = [req EXCEPT ![r].pc = "held"]
    /\ UNCHANGED <<sessions, minted, reader, now, closing>>
Hold(r) ==
    /\ At(r, "named")
    /\ IF Found(req[r].id)
       THEN /\ sessions' = [sessions EXCEPT ![req[r].id].in_flight = @ + 1]
            /\ req' = [req EXCEPT ![r].pc = "held"]
       ELSE /\ sessions' = Lookup(req[r].id)
            /\ req' = [req EXCEPT ![r].pc = "answered", ![r].status = 404]
    /\ UNCHANGED <<minted, reader, now, closing>>

\* What is refused before the session's gate is asked.
Refuse(r) ==
    /\ At(r, "held")
    /\ req[r].method = "malformed" \/ (req[r].opening /\ req[r].method # "initialize")
    /\ Answer(r, sessions, 400)
    /\ UNCHANGED <<minted, reader, now, closing>>

\* Mutant: the gate is not asked.
AdmitUngated(r) ==
    /\ At(r, "held") /\ req[r].method \in Posts \ {"malformed"}
    /\ req[r].opening => req[r].method = "initialize"
    /\ req' = [req EXCEPT ![r].pc = "queued", ![r].runs = TRUE]
    /\ UNCHANGED <<sessions, minted, reader, now, closing>>
\* The gate, under the table's lock; what it admits is queued for the server.
Admit(r) ==
    /\ At(r, "held") /\ req[r].method \in Posts \ {"malformed"}
    /\ req[r].opening => req[r].method = "initialize"
    /\ IF ~Found(req[r].id)
       THEN Answer(r, Lookup(req[r].id), 404)
       ELSE IF req[r].method = "call" /\ ~sessions[req[r].id].initialized
       THEN Answer(r, sessions, 200)
       ELSE /\ sessions' = [sessions EXCEPT ![req[r].id].initialized =
                                @ \/ req[r].method = "initialize"]
            /\ req' = [req EXCEPT ![r].pc = "queued", ![r].runs = TRUE]
    /\ UNCHANGED <<minted, reader, now, closing>>

\* Mutant: the reader is named once, by the first call.
HandleStale(r) ==
    /\ req[r].runs /\ At(r, "queued")
    /\ \A q \in Request : req[q].pc # "handling"
    /\ reader' = IF reader = NoId THEN req[r].id ELSE reader
    /\ req' = [req EXCEPT ![r].pc = "handling"]
    /\ UNCHANGED <<sessions, minted, now, closing>>
\* spawn_blocking: the server's mutex, set_reader and handle are one section.
Handle(r) ==
    /\ req[r].runs /\ At(r, "queued")
    /\ \A q \in Request : req[q].pc # "handling"
    /\ reader' = req[r].id
    /\ req' = [req EXCEPT ![r].pc = "handling"]
    /\ UNCHANGED <<sessions, minted, now, closing>>

Finish(r) ==
    /\ At(r, "handling")
    /\ IF req[r].status = 499
       THEN req' = [req EXCEPT ![r].pc = "answered"] /\ UNCHANGED sessions
       ELSE Answer(r, sessions, 200)
    /\ UNCHANGED <<minted, reader, now, closing>>

\* The receiver of the closing signal is made here: a signal given before it
\* counts as seen, and this stream never hears it.
OpenStream(r) ==
    /\ At(r, "held") /\ req[r].method = "GET" /\ ~req[r].opening
    /\ LET i == req[r].id IN
       IF ~Found(i) THEN Answer(r, Lookup(i), 404)
       ELSE IF sessions[i].stream_open THEN Answer(r, sessions, 409)
       ELSE /\ sessions' = [Drop(sessions, r) EXCEPT ![i].stream_open = TRUE]
            /\ req' = [req EXCEPT ![r].pc = "streaming", ![r].status = 200,
                                     ![r].late = closing]
    /\ UNCHANGED <<minted, reader, now, closing>>

Delete(r) ==
    /\ At(r, "held") /\ req[r].method = "DELETE" /\ ~req[r].opening
    /\ Answer(r, Terminate(sessions, req[r].id), 200)
    /\ UNCHANGED <<minted, reader, now, closing>>

\* The standing stream ends with its session, at the closing signal, or when
\* the client goes away.
\* Mutant: DELETE drops the session and tells nobody.
ToldOfClosing(r) == closing /\ ~req[r].late
Told(r) == req[r].id \notin DOMAIN sessions \/ (closing /\ ~req[r].late)
EndStream(r) ==
    /\ At(r, "streaming")
    /\ req' = [req EXCEPT ![r].pc = "answered"]
    /\ sessions' = DropStream(sessions, r)
    /\ UNCHANGED <<minted, reader, now, closing>>

\* The client goes away: the endpoint's future is dropped with its hold, and
\* what follows it, the end of a failed opening, is never run.
Vanish(r) ==
    /\ req[r].pc \in {"held", "queued", "handling"} /\ req[r].status # 499
    /\ sessions' = Drop(sessions, r)
    /\ req' = [req EXCEPT ![r].status = 499, ![r].pc = IF req[r].runs THEN @ ELSE "answered"]
    /\ UNCHANGED <<minted, reader, now, closing>>

Tick == now < MaxTime /\ now' = now + 1 /\ UNCHANGED <<sessions, minted, req, reader, closing>>
\* A signal stops the server from taking connections and ends its streams.
Close == ~closing /\ closing' = TRUE /\ UNCHANGED <<sessions, minted, req, reader, now>>

Serve(r) == \/ Hold(r) \/ Refuse(r) \/ Admit(r) \/ Handle(r) \/ Finish(r)
            \/ OpenStream(r) \/ Delete(r)
Next ==
    \/ \E r \in Request :
         \/ ~closing /\ (Open(r) \/ Present(r))
         \/ Serve(r) \/ EndStream(r) \/ Vanish(r)
    \/ Tick \/ Close

\* Tasks are polled; a stream that was told to end is polled too.
Fairness == \A r \in Request : WF_vars(Serve(r)) /\ WF_vars(Told(r) /\ EndStream(r))
Spec == Init /\ [][Next]_vars /\ Fairness
-----------------------------------------------------------------------------
TypeOK ==
    /\ DOMAIN sessions \subseteq minted /\ minted \subseteq Id
    /\ \A i \in DOMAIN sessions : sessions[i] \in Session
    /\ reader \in Id \cup {NoId} /\ now \in 0..MaxTime
    /\ closing \in BOOLEAN

Holding(r) == req[r].pc \in {"held", "queued", "handling"} /\ req[r].status # 499

\* Table and requests agree: in_flight counts the requests that hold the
\* session, stream_open says that one stream stands, and there is no second.
CountsHolds ==
    \A i \in DOMAIN sessions :
        /\ sessions[i].in_flight = Cardinality({r \in Request : Holding(r) /\ req[r].id = i})
        /\ LET S == {r \in Request : At(r, "streaming") /\ req[r].id = i} IN
           Cardinality(S) = IF sessions[i].stream_open THEN 1 ELSE 0

\* A session somebody uses leaves the table only because a DELETE ended it or
\* because its opening failed: neither the sweep of an admission nor a lookup
\* takes it, however long the call takes.
InUseStays ==
    [][\A i \in DOMAIN sessions :
        i \notin DOMAIN sessions'
        /\ (\E r \in Request : (Holding(r) \/ At(r, "streaming")) /\ req[r].id = i)
        => \E r \in Request : /\ Holding(r) /\ req'[r].pc = "answered" /\ req[r].id = i
                              /\ req[r].method = "DELETE" \/ req[r].opening]_vars

\* The table stays within its ceiling, and a session whose opening request was
\* refused is not left in it.
TableBounded ==
    /\ Cardinality(DOMAIN sessions) <= MaxSessions
    /\ \A r \in Request : At(r, "answered") /\ req[r].opening /\ req[r].status \in 400..498
         => req[r].id \notin DOMAIN sessions

\* The server works for the session whose call it handles: what it reads is
\* put down to that reader and nobody else's.
ReaderIsCaller ==
    \A r \in Request : At(r, "handling") => reader = req[r].id

\* No call is handled in a session that was never initialized.
HandshakeFirst ==
    \A r \in Request : req[r].method = "call" /\ At(r, "queued") /\ req[r].id \in DOMAIN sessions
        => sessions[req[r].id].initialized

\* A stream whose session is ended ends, and so does every stream the closing
\* signal reaches: nothing else is waited for.
StreamsEnd ==
    \A r \in Request :
        /\ (At(r, "streaming") /\ req[r].id \notin DOMAIN sessions) ~> ~At(r, "streaming")
        /\ (At(r, "streaming") /\ closing /\ ~req[r].late) ~> ~At(r, "streaming")

\* What serve/mcp.rs:41 and serve/cli.rs:162 say: the signal ends every standing
\* stream at shutdown, so that the connections can close.
EveryStreamEnds == \A r \in Request : (At(r, "streaming") /\ closing) ~> ~At(r, "streaming")

\* The table is what the requests make it: counted, bounded, and no session is
\* served under another's name or before its handshake.
TableHolds ==
    /\ TypeOK
    /\ CountsHolds
    /\ TableBounded
    /\ ReaderIsCaller
    /\ HandshakeFirst
=============================================================================
