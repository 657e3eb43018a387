--------------------------- MODULE SessionsProofs ---------------------------
(***************************************************************************)
(* Proofs about the HTTP server, and about installing its clients.         *)
(*                                                                         *)
(* Sessions, for any finite set of requests with any methods, any ids, any *)
(* ceiling of the table, idle time and time.  The table counts who uses a  *)
(* session, so the argument is about one request at a time: a step changes *)
(* one request and, in the session it names, exactly the count that this   *)
(* request stands for (TableStep).                                         *)
(*                                                                         *)
(* Serving, for any clients, requests, rows, page size, limits and changes *)
(* of the store between the calls of one read.  A reader is an invariant:  *)
(* what it holds is a prefix of what one read gives (HasRead), or for a    *)
(* listing, which has no such moment, every key up to its cursor that was  *)
(* always there (ReadsList); each page keeps it and brings a row.          *)
(*                                                                         *)
(* ClientFiles, for files with any entries of the user's own, any status   *)
(* lines and any versions of the skill.  Hooks and servers: what each      *)
(* write of each client leaves (JsonHooksAre ... MuseHooksAre).  The       *)
(* status line and the skill: an invariant of any number of installations  *)
(* that die anywhere (LineStates, SkillStates).                            *)
(***************************************************************************)
EXTENDS Sessions, Serving, ClientFiles, FiniteSetTheorems, SequenceTheorems, WellFoundedInduction, TLAPS

Places == {"none", "named", "held", "queued", "handling", "streaming", "answered"}
Asked == [pc : Places, method : Methods, id : Id \cup {NoId}, opening : BOOLEAN,
          status : Nat, runs : BOOLEAN, late : BOOLEAN]

\* What a request adds to the counts of session i.
Holds(q, i) == q.pc \in {"held", "queued", "handling"} /\ q.status # 499 /\ q.id = i
Streams(q, i) == q.pc = "streaming" /\ q.id = i
Count(b) == IF b THEN 1 ELSE 0
Holders(i) == {r \in Request : Holds(req[r], i)}
Streamers(i) == {r \in Request : Streams(req[r], i)}

\* Where a request stands says what is known of it.
Placed(q) ==
    /\ q.pc = "none" => ~q.opening /\ ~q.runs
    /\ q.pc \in {"none", "named", "held"} => ~q.runs /\ q.status # 499
    /\ q.pc \in {"queued", "handling"} => q.runs
    /\ q.pc \in {"named", "held", "queued", "handling", "streaming"} => q.id \in minted
    /\ q.opening => q.id \in minted
    /\ q.pc = "streaming" => ~q.opening

Refused(q) == q.pc = "answered" /\ q.opening /\ q.status \in 400..498
Shook(q) ==
    q.method = "call" /\ q.pc = "queued" /\ q.id \in DOMAIN sessions
        => sessions[q.id].initialized
Sound(q) == Placed(q) /\ Shook(q) /\ (Refused(q) => q.id \notin DOMAIN sessions)

Counted ==
    \A i \in DOMAIN sessions :
        /\ sessions[i].in_flight = Cardinality(Holders(i))
        /\ Count(sessions[i].stream_open) = Cardinality(Streamers(i))

OneCall == \A r, q \in Request : req[r].pc = "handling" /\ req[q].pc = "handling" => r = q

TableInv ==
    /\ TypeOK /\ req \in [Request -> Asked]
    /\ IsFiniteSet(DOMAIN sessions) /\ Cardinality(DOMAIN sessions) <= MaxSessions
    /\ \A r \in Request : Sound(req[r])
    /\ Counted /\ OneCall /\ ReaderIsCaller

\* One request moves: other requests stay, and a session that stays counts
\* that request as it stands now.
OnlyMoves(r) ==
    /\ req' \in [Request -> Asked]
    /\ \A q \in Request \ {r} : req'[q] = req[q]
TableStep(r) ==
    /\ DOMAIN sessions' \subseteq DOMAIN sessions \cup (minted' \ minted)
    /\ \A i \in DOMAIN sessions' :
         /\ sessions'[i] \in Session
         /\ i \in DOMAIN sessions =>
              /\ sessions[i].initialized => sessions'[i].initialized
              /\ sessions'[i].in_flight + Count(Holds(req[r], i))
                   = sessions[i].in_flight + Count(Holds(req'[r], i))
              /\ Count(sessions'[i].stream_open) + Count(Streams(req[r], i))
                   = Count(sessions[i].stream_open) + Count(Streams(req'[r], i))
         /\ i \notin DOMAIN sessions =>
              /\ sessions'[i].in_flight = 0 /\ ~sessions'[i].stream_open
              /\ ~Holds(req'[r], i) /\ ~Streams(req'[r], i)
-----------------------------------------------------------------------------
\* The number of members that one member's change leaves.
LEMMA OneCounts ==
    ASSUME NEW S, NEW T, NEW r, IsFiniteSet(S), S \ {r} = T \ {r}
    PROVE  /\ IsFiniteSet(T)
           /\ Cardinality(T) + Count(r \in S) = Cardinality(S) + Count(r \in T)
<1> DEFINE U == S \ {r}
<1>1. /\ IsFiniteSet(U)
      /\ Cardinality(U) = IF r \in S THEN Cardinality(S) - 1 ELSE Cardinality(S)
  BY FS_RemoveElement
<1>2. Cardinality(S) \in Nat /\ Cardinality(U) \in Nat
  BY <1>1, FS_CardinalityType
<1>3. CASE r \in T
  <2>1. T = U \cup {r} /\ r \notin U
    BY <1>3
  <2>2. IsFiniteSet(T) /\ Cardinality(T) = Cardinality(U) + 1
    BY <2>1, <1>1, FS_AddElement
  <2> QED
    BY <2>2, <1>1, <1>2, <1>3 DEF Count
<1>4. CASE r \notin T
  <2>1. T = U
    BY <1>4
  <2> HIDE DEF U
  <2> QED
    BY <2>1, <1>1, <1>2, <1>4 DEF Count
<1> QED
  BY <1>3, <1>4

\* A move keeps the counts.
LEMMA CountsKept ==
    ASSUME TableInv, NEW r \in Request, OnlyMoves(r), TableStep(r), minted \subseteq minted'
    PROVE  Counted'
<1> SUFFICES ASSUME NEW i \in DOMAIN sessions'
             PROVE  /\ sessions'[i].in_flight = Cardinality(Holders(i)')
                    /\ Count(sessions'[i].stream_open) = Cardinality(Streamers(i)')
  BY DEF Counted
<1>1. IsFiniteSet(Holders(i)) /\ IsFiniteSet(Streamers(i))
  <2>1. Holders(i) \subseteq Request /\ Streamers(i) \subseteq Request
    BY DEF Holders, Streamers
  <2> QED
    BY <2>1, RequestsAssumption, FS_Subset
<1>2. /\ Holders(i) \ {r} = Holders(i)' \ {r}
      /\ Streamers(i) \ {r} = Streamers(i)' \ {r}
  BY DEF Holders, Streamers, OnlyMoves
<1>3. /\ (r \in Holders(i)) <=> Holds(req[r], i)
      /\ (r \in Holders(i)') <=> Holds(req'[r], i)
      /\ (r \in Streamers(i)) <=> Streams(req[r], i)
      /\ (r \in Streamers(i)') <=> Streams(req'[r], i)
  BY DEF Holders, Streamers
<1>4. /\ Cardinality(Holders(i)') + Count(Holds(req[r], i))
           = Cardinality(Holders(i)) + Count(Holds(req'[r], i))
      /\ IsFiniteSet(Holders(i)')
  <2>1. /\ Cardinality(Holders(i)') + Count(r \in Holders(i))
             = Cardinality(Holders(i)) + Count(r \in Holders(i)')
        /\ IsFiniteSet(Holders(i)')
    BY <1>1, <1>2, OneCounts
  <2> QED
    BY <2>1, <1>3 DEF Count
<1>5. /\ Cardinality(Streamers(i)') + Count(Streams(req[r], i))
           = Cardinality(Streamers(i)) + Count(Streams(req'[r], i))
      /\ IsFiniteSet(Streamers(i)')
  <2>1. /\ Cardinality(Streamers(i)') + Count(r \in Streamers(i))
             = Cardinality(Streamers(i)) + Count(r \in Streamers(i)')
        /\ IsFiniteSet(Streamers(i)')
    BY <1>1, <1>2, OneCounts
  <2> QED
    BY <2>1, <1>3 DEF Count
<1>6. /\ Cardinality(Holders(i)) \in Nat /\ Cardinality(Holders(i)') \in Nat
      /\ Cardinality(Streamers(i)) \in Nat /\ Cardinality(Streamers(i)') \in Nat
  BY <1>1, <1>4, <1>5, FS_CardinalityType
<1>7. \A b : Count(b) \in {0, 1}
  BY DEF Count
<1>8. sessions'[i].in_flight \in Nat
  BY DEF TableStep, Session
<1>9. CASE i \in DOMAIN sessions
  <2>1. /\ sessions[i].in_flight = Cardinality(Holders(i))
        /\ Count(sessions[i].stream_open) = Cardinality(Streamers(i))
    BY <1>9 DEF TableInv, Counted
  <2>2. /\ sessions'[i].in_flight + Count(Holds(req[r], i))
             = sessions[i].in_flight + Count(Holds(req'[r], i))
        /\ Count(sessions'[i].stream_open) + Count(Streams(req[r], i))
             = Count(sessions[i].stream_open) + Count(Streams(req'[r], i))
    BY <1>9 DEF TableStep
  <2>3. sessions'[i].in_flight = Cardinality(Holders(i)')
    BY <2>1, <2>2, <1>4, <1>6, <1>7, <1>8
  <2>4. Count(sessions'[i].stream_open) = Cardinality(Streamers(i)')
    BY <2>1, <2>2, <1>5, <1>6, <1>7
  <2> QED
    BY <2>3, <2>4
<1>10. CASE i \notin DOMAIN sessions
  <2>1. i \notin minted
    BY <1>10 DEF TableStep
  <2>2. \A q \in Request : ~Holds(req[q], i) /\ ~Streams(req[q], i)
    BY <2>1 DEF TableInv, Sound, Placed, Holds, Streams
  <2>3. Holders(i)' = {} /\ Streamers(i)' = {}
    BY <2>2, <1>10 DEF Holders, Streamers, OnlyMoves, TableStep
  <2>4. Cardinality({}) = 0
    BY FS_EmptySet
  <2>5. sessions'[i].in_flight = 0 /\ ~sessions'[i].stream_open
    BY <1>10 DEF TableStep
  <2> QED
    BY <2>3, <2>4, <2>5 DEF Count
<1> QED
  BY <1>9, <1>10

\* A move keeps what is said of the table and of every request, if it does of
\* the request that moves and of the server.
LEMMA MoveKeeps ==
    ASSUME TableInv, NEW r \in Request, OnlyMoves(r), TableStep(r),
           minted \subseteq minted', minted' \subseteq Id, now' = now, closing' = closing,
           \/ DOMAIN sessions' \subseteq DOMAIN sessions
           \/ IsFiniteSet(DOMAIN sessions') /\ Cardinality(DOMAIN sessions') <= MaxSessions,
           Sound(req[r])',
           \/ reader' = reader /\ (req'[r].pc = "handling" => req[r].pc = "handling")
           \/ reader' = req'[r].id /\ reader' \in Id /\ \A q \in Request : req[q].pc # "handling",
           req[r].pc = "handling" => req'[r].id = req[r].id
    PROVE  TableInv'
<1>1. TypeOK'
  BY DEF TableInv, TypeOK, TableStep
<1>2. IsFiniteSet(DOMAIN sessions') /\ Cardinality(DOMAIN sessions') <= MaxSessions
  <2>1. CASE DOMAIN sessions' \subseteq DOMAIN sessions
    <3>1. /\ IsFiniteSet(DOMAIN sessions')
          /\ Cardinality(DOMAIN sessions') <= Cardinality(DOMAIN sessions)
      BY <2>1, FS_Subset DEF TableInv
    <3>2. Cardinality(DOMAIN sessions') \in Nat /\ Cardinality(DOMAIN sessions) \in Nat
      BY <3>1, FS_CardinalityType DEF TableInv
    <3> QED
      BY <3>1, <3>2, LimitsAssumption DEF TableInv
  <2> QED
    BY <2>1
<1>3. \A q \in Request : Sound(req[q])'
  <2> SUFFICES ASSUME NEW q \in Request, q # r
               PROVE  Sound(req[q])'
    OBVIOUS
  <2>1. req'[q] = req[q] /\ Sound(req[q])
    BY DEF OnlyMoves, TableInv
  <2>2. Placed(req[q])'
    BY <2>1 DEF Sound, Placed
  <2>3. Shook(req[q])'
    BY <2>1 DEF Sound, Shook, Placed, TableStep
  <2>4. (Refused(req[q]) => req[q].id \notin DOMAIN sessions)'
    BY <2>1 DEF Sound, Refused, Placed, TableStep
  <2> QED
    BY <2>2, <2>3, <2>4 DEF Sound
<1>4. Counted'
  BY CountsKept
<1>5. OneCall' /\ ReaderIsCaller'
  BY DEF OneCall, ReaderIsCaller, At, OnlyMoves, TableInv
<1> QED
  BY <1>1, <1>2, <1>3, <1>4, <1>5 DEF TableInv, OnlyMoves

\* Who holds a session is counted in it, and so is who streams from it.
LEMMA InUse ==
    ASSUME TableInv, NEW r \in Request, req[r].id \in DOMAIN sessions
    PROVE  /\ Holds(req[r], req[r].id) => sessions[req[r].id].in_flight > 0
           /\ Streams(req[r], req[r].id) => sessions[req[r].id].stream_open
<1> DEFINE i == req[r].id
<1>1. IsFiniteSet(Holders(i)) /\ IsFiniteSet(Streamers(i))
  <2>1. Holders(i) \subseteq Request /\ Streamers(i) \subseteq Request
    BY DEF Holders, Streamers
  <2> QED
    BY <2>1, RequestsAssumption, FS_Subset
<1>2. /\ Holds(req[r], i) => Holders(i) # {}
      /\ Streams(req[r], i) => Streamers(i) # {}
  BY DEF Holders, Streamers
<1>3. /\ Holders(i) # {} => Cardinality(Holders(i)) > 0
      /\ Streamers(i) # {} => Cardinality(Streamers(i)) > 0
  <2>1. /\ Cardinality(Holders(i)) \in Nat
        /\ Cardinality(Holders(i)) = 0 <=> Holders(i) = {}
        /\ Cardinality(Streamers(i)) \in Nat
        /\ Cardinality(Streamers(i)) = 0 <=> Streamers(i) = {}
    BY <1>1, FS_CardinalityType, FS_EmptySet
  <2> QED
    BY <2>1
<1>4. /\ sessions[i].in_flight = Cardinality(Holders(i))
      /\ Count(sessions[i].stream_open) = Cardinality(Streamers(i))
  BY DEF TableInv, Counted
<1> QED
  BY <1>2, <1>3, <1>4 DEF Count

LEMMA InUseNotSwept ==
    ASSUME TableInv, NEW r \in Request, Holds(req[r], req[r].id) \/ Streams(req[r], req[r].id)
    PROVE  req[r].id \notin Swept
BY InUse DEF Swept, Expired, TableInv, TypeOK, Session

\* Dropping the hold of a request takes it from the count of its session.
LEMMA DropTakesOne ==
    ASSUME TypeOK, NEW r \in Request, NEW table,
           \A i \in DOMAIN table : table[i] \in Session,
           req[r].id \in DOMAIN table => table[req[r].id].in_flight > 0
    PROVE  /\ DOMAIN Drop(table, r) = DOMAIN table
           /\ \A i \in DOMAIN table :
                /\ Drop(table, r)[i] \in Session
                /\ Drop(table, r)[i].initialized = table[i].initialized
                /\ Drop(table, r)[i].stream_open = table[i].stream_open
                /\ Drop(table, r)[i].in_flight
                     = table[i].in_flight - Count(i = req[r].id)
<1> DEFINE k == req[r].id
<1>1. CASE k \notin DOMAIN table
  BY <1>1 DEF Drop, Count, Session
<1>2. CASE k \in DOMAIN table
  <2>1. Drop(table, r) = [table EXCEPT ![k] = [table[k] EXCEPT !.in_flight = @ - 1, !.idle_since = now]]
    BY <1>2 DEF Drop
  <2>2. table[k] \in Session /\ table[k].in_flight - 1 \in Nat /\ now \in 0..MaxTime
    BY <1>2 DEF Session, TypeOK
  <2>3. [table[k] EXCEPT !.in_flight = @ - 1, !.idle_since = now] \in Session
    BY <2>2 DEF Session
  <2>4. \A i \in DOMAIN table : table[i].in_flight \in Nat
    BY DEF Session
  <2> QED
    BY <2>1, <2>2, <2>3, <2>4 DEF Count, Session
<1> QED
  BY <1>1, <1>2

\* What the steps write of a request.
LEMMA AnswerMoves ==
    ASSUME req \in [Request -> Asked], NEW r \in Request, NEW status \in Nat,
           req' = [req EXCEPT ![r].pc = "answered", ![r].status = status]
    PROVE  /\ OnlyMoves(r) /\ req'[r].pc = "answered" /\ req'[r].status = status
           /\ req'[r].id = req[r].id /\ req'[r].opening = req[r].opening
BY DEF OnlyMoves, Asked, Places

LEMMA NameMoves ==
    ASSUME req \in [Request -> Asked], NEW r \in Request, NEW k \in Id, NEW o \in BOOLEAN,
           \/ req' = [req EXCEPT ![r].pc = "named", ![r].id = k] /\ o = req[r].opening
           \/ req' = [req EXCEPT ![r].pc = "named", ![r].id = k, ![r].opening = TRUE] /\ o = TRUE
    PROVE  /\ OnlyMoves(r) /\ req'[r].pc = "named" /\ req'[r].id = k
           /\ req'[r].opening = o /\ req'[r].status = req[r].status
           /\ req'[r].runs = req[r].runs
BY DEF OnlyMoves, Asked, Places

LEMMA PlaceMoves ==
    ASSUME req \in [Request -> Asked], NEW r \in Request, NEW p \in Places, NEW u \in BOOLEAN,
           \/ req' = [req EXCEPT ![r].pc = p] /\ u = req[r].runs
           \/ req' = [req EXCEPT ![r].pc = p, ![r].runs = TRUE] /\ u = TRUE
    PROVE  /\ OnlyMoves(r) /\ req'[r].pc = p /\ req'[r].runs = u
           /\ req'[r].id = req[r].id /\ req'[r].opening = req[r].opening
           /\ req'[r].status = req[r].status /\ req'[r].method = req[r].method
BY DEF OnlyMoves, Asked, Places

\* An answer gives the hold back; the session of a failed opening goes.
LEMMA AnswerKeeps ==
    ASSUME TableInv, NEW r \in Request, Holds(req[r], req[r].id),
           NEW table, DOMAIN table \subseteq DOMAIN sessions,
           \A i \in DOMAIN table : table[i] = sessions[i],
           NEW status \in {200, 400, 404, 409}, Answer(r, table, status),
           UNCHANGED <<minted, reader, now, closing>>
    PROVE  TableInv'
<1> DEFINE k == req[r].id
           t == Drop(table, r)
<1>1. \A i \in DOMAIN table : table[i] \in Session
  BY DEF TableInv, TypeOK
<1>2. k \in DOMAIN table => table[k].in_flight > 0
  BY InUse
<1>3. /\ DOMAIN t = DOMAIN table
      /\ \A i \in DOMAIN table :
           /\ t[i] \in Session
           /\ t[i].initialized = table[i].initialized
           /\ t[i].stream_open = table[i].stream_open
           /\ t[i].in_flight = table[i].in_flight - Count(i = k)
  BY <1>1, <1>2, DropTakesOne DEF TableInv
<1>4. /\ DOMAIN sessions' \subseteq DOMAIN table
      /\ \A i \in DOMAIN sessions' : sessions'[i] = t[i]
      /\ req[r].opening /\ status >= 400 => k \notin DOMAIN sessions'
  BY <1>3 DEF Answer, Terminate, Without
<1> HIDE DEF t
<1>5. req' = [req EXCEPT ![r].pc = "answered", ![r].status = status]
  BY DEF Answer
<1>6. /\ OnlyMoves(r) /\ req'[r].pc = "answered" /\ req'[r].id = k
      /\ req'[r].opening = req[r].opening /\ req'[r].status = status
  <2>1. req \in [Request -> Asked] /\ status \in Nat
    BY DEF TableInv
  <2> HIDE DEF k
  <2>2. /\ OnlyMoves(r) /\ req'[r].pc = "answered" /\ req'[r].status = status
        /\ req'[r].id = req[r].id /\ req'[r].opening = req[r].opening
    BY Zenon, <2>1, <1>5, AnswerMoves
  <2> QED
    BY Zenon, <2>2 DEF k
<1>7. /\ ~Holds(req'[r], k) /\ ~Streams(req'[r], k) /\ ~Streams(req[r], k)
      /\ \A i : i # k => ~Holds(req[r], i) /\ ~Streams(req[r], i)
                       /\ ~Holds(req'[r], i) /\ ~Streams(req'[r], i)
  BY <1>6 DEF Holds, Streams
<1>8. TableStep(r)
  <2> SUFFICES ASSUME NEW i \in DOMAIN sessions'
               PROVE  /\ i \in DOMAIN sessions /\ sessions'[i] \in Session
                      /\ sessions[i].initialized => sessions'[i].initialized
                      /\ sessions'[i].in_flight + Count(Holds(req[r], i))
                           = sessions[i].in_flight + Count(Holds(req'[r], i))
                      /\ Count(sessions'[i].stream_open) + Count(Streams(req[r], i))
                           = Count(sessions[i].stream_open) + Count(Streams(req'[r], i))
    BY <1>4 DEF TableStep
  <2>1. /\ i \in DOMAIN table /\ sessions'[i] = t[i] /\ table[i] = sessions[i]
        /\ sessions[i].in_flight \in Nat
    BY <1>1, <1>4 DEF Session
  <2>2. sessions'[i].in_flight = sessions[i].in_flight - Count(i = k)
    BY <2>1, <1>3
  <2>3. CASE i = k
    BY <2>1, <2>2, <2>3, <1>3, <1>7 DEF Count
  <2>4. CASE i # k
    BY <2>1, <2>2, <2>4, <1>3, <1>7 DEF Count
  <2> QED
    BY <2>3, <2>4
<1>9. Sound(req[r])'
  <2>1. Sound(req[r])
    BY DEF TableInv
  <2>2. Placed(req[r])' /\ Shook(req[r])'
    BY <1>6, <2>1 DEF Sound, Placed, Shook
  <2>3. (Refused(req[r]) => req[r].id \notin DOMAIN sessions)'
    BY <1>4, <1>6 DEF Refused
  <2> QED
    BY <2>2, <2>3 DEF Sound
<1> QED
  <2>1. minted \subseteq minted' /\ minted' \subseteq Id /\ reader' = reader
        /\ now' = now /\ closing' = closing
    BY DEF TableInv, TypeOK
  <2>2. DOMAIN sessions' \subseteq DOMAIN sessions
    BY <1>4
  <2>3. req'[r].pc # "handling" /\ req'[r].id = req[r].id
    BY <1>6
  <2> QED
    BY <1>6, <1>8, <1>9, <2>1, <2>2, <2>3, MoveKeeps

\* A step that leaves the table alone and changes no count.
LEMMA QuietKeeps ==
    ASSUME TableInv, NEW r \in Request, OnlyMoves(r), UNCHANGED <<sessions, minted, now, closing>>,
           \A i \in DOMAIN sessions : /\ (Holds(req'[r], i) <=> Holds(req[r], i))
                                    /\ (Streams(req'[r], i) <=> Streams(req[r], i)),
           Sound(req[r])',
           \/ reader' = reader /\ (req'[r].pc = "handling" => req[r].pc = "handling")
           \/ reader' = req'[r].id /\ reader' \in Id /\ \A q \in Request : req[q].pc # "handling",
           req[r].pc = "handling" => req'[r].id = req[r].id
    PROVE  TableInv'
<1>1. TableStep(r)
  BY DEF TableStep, TableInv, TypeOK, Count
<1> QED
  BY <1>1, MoveKeeps DEF TableInv, TypeOK

LEMMA PresentKeeps == ASSUME TableInv, NEW r \in Request, Present(r) PROVE TableInv'
<1> PICK k \in minted : req' = [req EXCEPT ![r].pc = "named", ![r].id = k]
  BY DEF Present
<1>1. req[r] \in Asked /\ k \in Id /\ req[r].pc = "none" /\ Sound(req[r])
  BY DEF TableInv, TypeOK, Present, At
<1>2. /\ OnlyMoves(r) /\ req'[r].pc = "named" /\ req'[r].id = k
      /\ req'[r].opening = req[r].opening /\ req'[r].status = req[r].status
      /\ req'[r].runs = req[r].runs
  BY <1>1, NameMoves DEF TableInv, Asked
<1>3. Sound(req[r])'
  BY <1>1, <1>2 DEF Present, Sound, Placed, Shook, Refused, Asked
<1>4. \A i : /\ ~Holds(req'[r], i) /\ ~Holds(req[r], i)
             /\ ~Streams(req'[r], i) /\ ~Streams(req[r], i)
  BY <1>1, <1>2 DEF Holds, Streams, Asked
<1> QED
  <2>1. UNCHANGED <<sessions, minted, now, closing>> /\ reader' = reader
    BY DEF Present
  <2> QED
    BY <1>1, <1>2, <1>3, <1>4, <2>1, QuietKeeps

LEMMA OpenKeeps == ASSUME TableInv, NEW r \in Request, Open(r) PROVE TableInv'
<1> DEFINE kept == Without(sessions, Swept)
           k == CHOOSE x \in Id \ minted : TRUE
           fresh == [initialized |-> FALSE, in_flight |-> 0,
                     stream_open |-> FALSE, idle_since |-> now]
<1>1. req[r] \in Asked /\ req[r].pc = "none" /\ Sound(req[r])
  BY DEF TableInv, Open, At
<1>2. /\ DOMAIN kept \subseteq DOMAIN sessions
      /\ \A i \in DOMAIN kept : kept[i] = sessions[i] /\ kept[i] \in Session
  BY DEF Without, TableInv, TypeOK
<1>3. IsFiniteSet(DOMAIN kept) /\ Cardinality(DOMAIN kept) \in Nat
  BY <1>2, FS_Subset, FS_CardinalityType DEF TableInv
<1>4. \A i : ~Holds(req[r], i) /\ ~Streams(req[r], i)
  BY <1>1 DEF Holds, Streams
<1>5. CASE Cardinality(DOMAIN kept) >= MaxSessions
  <2>1. /\ sessions' = kept /\ minted' = minted
        /\ req' = [req EXCEPT ![r].pc = "answered", ![r].status = 503]
    BY <1>5 DEF Open
  <2> HIDE DEF kept
  <2>2. /\ OnlyMoves(r) /\ req'[r].pc = "answered" /\ req'[r].status = 503
        /\ req'[r].id = req[r].id /\ req'[r].opening = req[r].opening
    <3>1. req \in [Request -> Asked] /\ 503 \in Nat
      BY DEF TableInv
    <3> QED
      BY Zenon, <3>1, <2>1, AnswerMoves
  <2>3. Sound(req[r])'
    BY <1>1, <2>1, <2>2 DEF Sound, Placed, Shook, Refused, Asked
  <2>4. \A i : ~Holds(req'[r], i) /\ ~Streams(req'[r], i)
    BY <1>1, <2>2 DEF Holds, Streams, Asked
  <2>5. TableStep(r)
    BY <2>1, <2>4, <1>2, <1>4 DEF TableStep, Count, Session
  <2> QED
    BY <1>1, <1>2, <2>1, <2>2, <2>3, <2>5, MoveKeeps DEF Open, Asked, TableInv, TypeOK
<1>6. CASE ~(Cardinality(DOMAIN kept) >= MaxSessions)
  <2>1. /\ k \in Id \ minted /\ minted' = minted \cup {k}
        /\ sessions' = Put(kept, k, fresh)
        /\ req' = [req EXCEPT ![r].pc = "named", ![r].id = k, ![r].opening = TRUE]
    <3>1. minted # Id
      BY Zenon, <1>6 DEF Open
    <3>2. k \in Id \ minted
      BY <3>1 DEF TableInv, TypeOK
    <3> QED
      BY Zenon, <1>6, <3>2 DEF Open
  <2> HIDE DEF k, kept
  <2>2. /\ OnlyMoves(r) /\ req'[r].pc = "named" /\ req'[r].id = k
        /\ req'[r].opening = TRUE /\ req'[r].status = req[r].status
        /\ req'[r].runs = req[r].runs
    BY <2>1, NameMoves DEF TableInv
  <2>3. Sound(req[r])'
    BY <1>1, <2>1, <2>2 DEF Sound, Placed, Shook, Refused, Asked
  <2>4. \A i : ~Holds(req'[r], i) /\ ~Streams(req'[r], i)
    BY <1>1, <2>2 DEF Holds, Streams, Asked
  <2>5. /\ DOMAIN sessions' = DOMAIN kept \cup {k} /\ k \notin DOMAIN sessions
        /\ sessions'[k] = fresh /\ \A i \in DOMAIN kept : sessions'[i] = kept[i]
    BY <2>1, <1>2 DEF Put, TableInv, TypeOK
  <2>6. fresh \in Session
    BY DEF Session, TableInv, TypeOK
  <2>7. TableStep(r)
    <3>1. DOMAIN sessions' \subseteq DOMAIN sessions \cup (minted' \ minted)
      BY <1>2, <2>1, <2>5
    <3>2. ASSUME NEW i \in DOMAIN kept
          PROVE  /\ i \in DOMAIN sessions /\ sessions'[i] = sessions[i]
                 /\ sessions'[i] \in Session
      BY <1>2, <2>5
    <3>3. \A i : /\ Count(Holds(req[r], i)) = 0 /\ Count(Holds(req'[r], i)) = 0
                 /\ Count(Streams(req[r], i)) = 0 /\ Count(Streams(req'[r], i)) = 0
      BY <1>4, <2>4 DEF Count
    <3>4. /\ sessions'[k] \in Session /\ sessions'[k].in_flight = 0
          /\ ~sessions'[k].stream_open
      BY <2>5, <2>6
    <3>5. \A i \in DOMAIN sessions' : i \in DOMAIN kept \/ i = k
      BY <2>5
    <3>6. ASSUME NEW i \in DOMAIN sessions
          PROVE  sessions[i].in_flight \in Nat /\ Count(sessions[i].stream_open) \in Nat
      BY DEF TableInv, TypeOK, Session, Count
    <3> HIDE DEF fresh
    <3> QED
      BY <3>1, <3>2, <3>3, <3>4, <3>5, <3>6, <2>4, <2>5 DEF TableStep
  <2>8. IsFiniteSet(DOMAIN sessions') /\ Cardinality(DOMAIN sessions') <= MaxSessions
    <3>1. /\ IsFiniteSet(DOMAIN kept \cup {k})
          /\ Cardinality(DOMAIN kept \cup {k}) = Cardinality(DOMAIN kept) + 1
      BY <1>2, <1>3, <2>5, FS_AddElement
    <3> QED
      BY <3>1, <2>5, <1>3, <1>6, LimitsAssumption
  <2> QED
    BY <1>1, <2>1, <2>2, <2>3, <2>7, <2>8, MoveKeeps DEF Open, Asked, TableInv, TypeOK
<1> QED
  BY <1>5, <1>6

\* What Found says: the session is there, and it is a session.
LEMMA FoundSession ==
    ASSUME TableInv, NEW i, Found(i)
    PROVE  i \in DOMAIN sessions /\ sessions[i] \in Session /\ sessions[i].in_flight \in Nat
BY DEF Found, TableInv, TypeOK, Session

LEMMA HoldKeeps == ASSUME TableInv, NEW r \in Request, Hold(r) PROVE TableInv'
<1> DEFINE k == req[r].id
<1>1. /\ req \in [Request -> Asked] /\ req[r].pc = "named" /\ Sound(req[r])
      /\ UNCHANGED <<minted, reader, now, closing>> /\ req[r].status # 499
  BY DEF TableInv, Hold, At, Sound, Placed
<1>2. \A i : ~Holds(req[r], i) /\ ~Streams(req[r], i)
  BY <1>1 DEF Holds, Streams
<1>3. CASE Found(k)
  <2>1. /\ sessions' = [sessions EXCEPT ![k].in_flight = @ + 1]
        /\ req' = [req EXCEPT ![r].pc = "held"]
    BY Zenon, <1>3 DEF Hold
  <2>2. /\ OnlyMoves(r) /\ req'[r].pc = "held" /\ req'[r].runs = req[r].runs
        /\ req'[r].id = k /\ req'[r].opening = req[r].opening
        /\ req'[r].status = req[r].status /\ req'[r].method = req[r].method
    <3>1. /\ "held" \in Places /\ req[r].runs \in BOOLEAN
          /\ req \in [Request -> Asked] /\ req' = [req EXCEPT ![r].pc = "held"]
      BY <1>1, <2>1 DEF Places, Asked
    <3> HIDE DEF k
    <3>2. /\ OnlyMoves(r) /\ req'[r].pc = "held" /\ req'[r].runs = req[r].runs
          /\ req'[r].id = req[r].id /\ req'[r].opening = req[r].opening
          /\ req'[r].status = req[r].status /\ req'[r].method = req[r].method
      BY Zenon, <3>1, PlaceMoves
    <3> QED
      BY Zenon, <3>2 DEF k
  <2>3. /\ k \in DOMAIN sessions /\ sessions[k] \in Session
    BY <1>3, FoundSession
  <2>4. /\ DOMAIN sessions' = DOMAIN sessions
        /\ \A i \in DOMAIN sessions :
             /\ sessions'[i] \in Session
             /\ sessions'[i].initialized = sessions[i].initialized
             /\ sessions'[i].stream_open = sessions[i].stream_open
             /\ sessions'[i].in_flight = sessions[i].in_flight + Count(i = k)
    BY <2>1, <2>3 DEF TableInv, TypeOK, Session, Count
  <2>5. \A i : (Holds(req'[r], i) <=> i = k) /\ ~Streams(req'[r], i)
    BY <1>1, <2>2 DEF Holds, Streams
  <2>6. TableStep(r)
    <3>1. \A i \in DOMAIN sessions : sessions[i].in_flight \in Nat
      BY DEF TableInv, TypeOK, Session
    <3> QED
      BY <2>4, <2>5, <3>1, <1>2 DEF TableStep, Count
  <2>7. Sound(req[r])'
    BY <1>1, <2>2 DEF Sound, Placed, Shook, Refused
  <2> QED
    BY <1>1, <2>2, <2>4, <2>6, <2>7, MoveKeeps DEF TableInv, TypeOK
<1>4. CASE ~Found(k)
  <2>1. /\ sessions' = Lookup(k)
        /\ req' = [req EXCEPT ![r].pc = "answered", ![r].status = 404]
    BY Zenon, <1>4 DEF Hold
  <2>2. /\ OnlyMoves(r) /\ req'[r].pc = "answered" /\ req'[r].status = 404
        /\ req'[r].id = req[r].id /\ req'[r].opening = req[r].opening
    <3>1. 404 \in Nat
      OBVIOUS
    <3> QED
      BY Zenon, <1>1, <2>1, <3>1, AnswerMoves
  <2>3. /\ k \notin DOMAIN sessions' /\ DOMAIN sessions' \subseteq DOMAIN sessions
        /\ \A i \in DOMAIN sessions' : sessions'[i] = sessions[i]
    BY <2>1, <1>4 DEF Lookup, Without, Swept, Found
  <2>4. \A i : ~Holds(req'[r], i) /\ ~Streams(req'[r], i)
    BY <2>2 DEF Holds, Streams
  <2>5. TableStep(r)
    BY <1>2, <2>3, <2>4 DEF TableStep, Count, TableInv, TypeOK, Session
  <2>6. Sound(req[r])'
    BY <1>1, <2>2, <2>3 DEF Sound, Placed, Shook, Refused
  <2> QED
    BY <1>1, <2>2, <2>3, <2>5, <2>6, MoveKeeps DEF TableInv, TypeOK
<1> QED
  BY <1>3, <1>4

LEMMA RefuseKeeps == ASSUME TableInv, NEW r \in Request, Refuse(r) PROVE TableInv'
<1>1. req[r].pc = "held" /\ req[r].status # 499
  BY DEF Refuse, At, TableInv, Sound, Placed
<1>2. Answer(r, sessions, 400) /\ UNCHANGED <<minted, reader, now, closing>>
  BY DEF Refuse
<1> QED
  BY <1>1, <1>2, AnswerKeeps DEF Holds

LEMMA DeleteKeeps == ASSUME TableInv, NEW r \in Request, Delete(r) PROVE TableInv'
<1> DEFINE t == Terminate(sessions, req[r].id)
<1>1. req[r].pc = "held" /\ req[r].status # 499
  BY DEF Delete, At, TableInv, Sound, Placed
<1>2. Answer(r, t, 200) /\ UNCHANGED <<minted, reader, now, closing>>
  BY DEF Delete
<1>3. DOMAIN t \subseteq DOMAIN sessions /\ \A i \in DOMAIN t : t[i] = sessions[i]
  BY DEF Terminate, Without
<1> HIDE DEF t
<1> QED
  BY <1>1, <1>2, <1>3, AnswerKeeps DEF Holds

LEMMA AdmitKeeps == ASSUME TableInv, NEW r \in Request, Admit(r) PROVE TableInv'
<1> DEFINE k == req[r].id
<1>1. /\ req \in [Request -> Asked] /\ req[r].pc = "held" /\ Sound(req[r])
      /\ UNCHANGED <<minted, reader, now, closing>> /\ req[r].status # 499
      /\ req[r].opening => req[r].method = "initialize"
  BY DEF TableInv, Admit, At, Sound, Placed
<1>2. Holds(req[r], k)
  BY <1>1 DEF Holds
<1>3. CASE ~Found(k)
  <2>1. Answer(r, Lookup(k), 404)
    BY Zenon, <1>3 DEF Admit
  <2>2. /\ DOMAIN Lookup(k) \subseteq DOMAIN sessions
        /\ \A i \in DOMAIN Lookup(k) : Lookup(k)[i] = sessions[i]
    BY DEF Lookup, Without
  <2> QED
    BY <1>1, <1>2, <2>1, <2>2, AnswerKeeps
<1>4. CASE Found(k) /\ req[r].method = "call" /\ ~sessions[k].initialized
  <2>1. Answer(r, sessions, 200)
    BY Zenon, <1>4 DEF Admit
  <2> QED
    BY <1>1, <1>2, <2>1, AnswerKeeps
<1>5. CASE Found(k) /\ ~(req[r].method = "call" /\ ~sessions[k].initialized)
  <2>1. /\ sessions' = [sessions EXCEPT ![k].initialized = @ \/ req[r].method = "initialize"]
        /\ req' = [req EXCEPT ![r].pc = "queued", ![r].runs = TRUE]
    BY Zenon, <1>5 DEF Admit
  <2>2. /\ OnlyMoves(r) /\ req'[r].pc = "queued" /\ req'[r].runs = TRUE
        /\ req'[r].id = k /\ req'[r].opening = req[r].opening
        /\ req'[r].status = req[r].status /\ req'[r].method = req[r].method
    <3>1. "queued" \in Places /\ TRUE \in BOOLEAN
      BY DEF Places
    <3> QED
      BY Zenon, <1>1, <2>1, <3>1, PlaceMoves
  <2>3. /\ k \in DOMAIN sessions /\ sessions[k] \in Session
    BY <1>5, FoundSession
  <2>4. /\ DOMAIN sessions' = DOMAIN sessions
        /\ \A i \in DOMAIN sessions :
             /\ sessions'[i] \in Session
             /\ sessions[i].initialized => sessions'[i].initialized
             /\ sessions'[i].stream_open = sessions[i].stream_open
             /\ sessions'[i].in_flight = sessions[i].in_flight
        /\ sessions'[k].initialized <=> sessions[k].initialized \/ req[r].method = "initialize"
    BY <2>1, <2>3 DEF TableInv, TypeOK, Session
  <2>5. \A i : /\ Holds(req'[r], i) <=> Holds(req[r], i)
               /\ ~Streams(req'[r], i) /\ ~Streams(req[r], i)
    BY <1>1, <2>2 DEF Holds, Streams
  <2>6. TableStep(r)
    <3>1. \A i \in DOMAIN sessions : sessions[i].in_flight \in Nat
      BY DEF TableInv, TypeOK, Session
    <3> QED
      BY <2>4, <2>5, <3>1 DEF TableStep, Count
  <2>7. Sound(req[r])'
    BY <1>1, <1>5, <2>2, <2>4 DEF Sound, Placed, Shook, Refused
  <2> QED
    BY <1>1, <2>2, <2>4, <2>6, <2>7, MoveKeeps DEF TableInv, TypeOK
<1> QED
  BY <1>3, <1>4, <1>5

LEMMA HandleKeeps == ASSUME TableInv, NEW r \in Request, Handle(r) PROVE TableInv'
<1>1. /\ req \in [Request -> Asked] /\ req[r].pc = "queued" /\ Sound(req[r])
      /\ UNCHANGED <<sessions, minted, now, closing>> /\ reader' = req[r].id
      /\ \A q \in Request : req[q].pc # "handling"
      /\ req' = [req EXCEPT ![r].pc = "handling"]
  BY DEF TableInv, Handle, At
<1>2. /\ OnlyMoves(r) /\ req'[r].pc = "handling" /\ req'[r].runs = req[r].runs
      /\ req'[r].id = req[r].id /\ req'[r].opening = req[r].opening
      /\ req'[r].status = req[r].status /\ req'[r].method = req[r].method
  <2>1. "handling" \in Places /\ req[r].runs \in BOOLEAN
    BY <1>1 DEF Places, Asked
  <2> QED
    BY Zenon, <1>1, <2>1, PlaceMoves
<1>3. req[r].id \in Id
  BY <1>1 DEF Sound, Placed, TableInv, TypeOK
<1>4. \A i : /\ Holds(req'[r], i) <=> Holds(req[r], i)
             /\ Streams(req'[r], i) <=> Streams(req[r], i)
  BY <1>1, <1>2 DEF Holds, Streams
<1>5. Sound(req[r])'
  BY <1>1, <1>2 DEF Sound, Placed, Shook, Refused
<1> QED
  BY <1>1, <1>2, <1>3, <1>4, <1>5, QuietKeeps

LEMMA FinishKeeps == ASSUME TableInv, NEW r \in Request, Finish(r) PROVE TableInv'
<1>1. /\ req \in [Request -> Asked] /\ req[r].pc = "handling" /\ Sound(req[r])
      /\ UNCHANGED <<minted, reader, now, closing>>
  BY DEF TableInv, Finish, At
<1>2. CASE req[r].status = 499
  <2>1. req' = [req EXCEPT ![r].pc = "answered"] /\ sessions' = sessions
    BY <1>2 DEF Finish
  <2>2. /\ OnlyMoves(r) /\ req'[r].pc = "answered" /\ req'[r].runs = req[r].runs
        /\ req'[r].id = req[r].id /\ req'[r].opening = req[r].opening
        /\ req'[r].status = req[r].status /\ req'[r].method = req[r].method
    <3>1. "answered" \in Places /\ req[r].runs \in BOOLEAN
      BY <1>1 DEF Places, Asked
    <3> QED
      BY Zenon, <1>1, <2>1, <3>1, PlaceMoves
  <2>3. \A i : /\ ~Holds(req'[r], i) /\ ~Holds(req[r], i)
               /\ ~Streams(req'[r], i) /\ ~Streams(req[r], i)
    BY <1>1, <1>2, <2>2 DEF Holds, Streams
  <2>4. Sound(req[r])'
    BY <1>1, <1>2, <2>1, <2>2 DEF Sound, Placed, Shook, Refused
  <2> QED
    BY <1>1, <2>1, <2>2, <2>3, <2>4, QuietKeeps
<1>3. CASE req[r].status # 499
  <2>1. Answer(r, sessions, 200)
    BY <1>3 DEF Finish
  <2>2. Holds(req[r], req[r].id)
    BY <1>1, <1>3 DEF Holds
  <2> QED
    BY <1>1, <2>1, <2>2, AnswerKeeps
<1> QED
  BY <1>2, <1>3

\* What the stream's opening, its end and a client's going write.
LEMMA StreamMoves ==
    ASSUME req \in [Request -> Asked], NEW r \in Request, NEW status \in Nat, NEW l \in BOOLEAN,
           req' = [req EXCEPT ![r].pc = "streaming", ![r].status = status, ![r].late = l]
    PROVE  /\ OnlyMoves(r) /\ req'[r].pc = "streaming" /\ req'[r].status = status
           /\ req'[r].id = req[r].id /\ req'[r].opening = req[r].opening
<1> DEFINE x == [req[r] EXCEPT !.pc = "streaming", !.status = status]
           y == [req[r] EXCEPT !.pc = "streaming", !.status = status, !.late = l]
<1>1. x \in Asked /\ y = [x EXCEPT !.late = l]
  BY DEF Asked, Places
<1>2. y \in Asked
  <2> HIDE DEF x, y
  <2> QED
    BY <1>1 DEF Asked
<1>3. req' = [req EXCEPT ![r] = y]
  BY Zenon
<1>4. OnlyMoves(r)
  <2> HIDE DEF y
  <2> QED
    BY <1>2, <1>3 DEF OnlyMoves
<1>5. /\ req'[r].pc = "streaming" /\ req'[r].status = status
      /\ req'[r].id = req[r].id /\ req'[r].opening = req[r].opening
  BY DEF Asked
<1> QED
  BY <1>4, <1>5

LEMMA VanishMoves ==
    ASSUME req \in [Request -> Asked], NEW r \in Request, NEW status \in Nat, NEW p \in Places,
           req' = [req EXCEPT ![r].status = status, ![r].pc = p]
    PROVE  /\ OnlyMoves(r) /\ req'[r].pc = p /\ req'[r].status = status
           /\ req'[r].id = req[r].id /\ req'[r].opening = req[r].opening
           /\ req'[r].runs = req[r].runs /\ req'[r].method = req[r].method
BY DEF OnlyMoves, Asked, Places

\* Dropping the hold of a request in the table as it is.
LEMMA DropHold ==
    ASSUME TableInv, NEW r \in Request, Holds(req[r], req[r].id)
    PROVE  /\ DOMAIN Drop(sessions, r) = DOMAIN sessions
           /\ \A i \in DOMAIN sessions :
                /\ Drop(sessions, r)[i] \in Session
                /\ Drop(sessions, r)[i].initialized = sessions[i].initialized
                /\ Drop(sessions, r)[i].stream_open = sessions[i].stream_open
                /\ Drop(sessions, r)[i].in_flight
                     = sessions[i].in_flight - Count(i = req[r].id)
BY InUse, DropTakesOne DEF TableInv, TypeOK

LEMMA OpenStreamKeeps == ASSUME TableInv, NEW r \in Request, OpenStream(r) PROVE TableInv'
<1> DEFINE k == req[r].id
<1>1. /\ req \in [Request -> Asked] /\ req[r].pc = "held" /\ Sound(req[r])
      /\ UNCHANGED <<minted, reader, now, closing>> /\ req[r].status # 499 /\ ~req[r].opening
  BY DEF TableInv, OpenStream, At, Sound, Placed
<1>2. Holds(req[r], k)
  BY <1>1 DEF Holds
<1>3. CASE ~Found(k)
  <2>1. Answer(r, Lookup(k), 404)
    BY Zenon, <1>3 DEF OpenStream
  <2>2. /\ DOMAIN Lookup(k) \subseteq DOMAIN sessions
        /\ \A i \in DOMAIN Lookup(k) : Lookup(k)[i] = sessions[i]
    BY DEF Lookup, Without
  <2> QED
    BY <1>1, <1>2, <2>1, <2>2, AnswerKeeps
<1>4. CASE Found(k) /\ sessions[k].stream_open
  <2>1. Answer(r, sessions, 409)
    BY Zenon, <1>4 DEF OpenStream
  <2> QED
    BY <1>1, <1>2, <2>1, AnswerKeeps
<1>5. CASE Found(k) /\ ~sessions[k].stream_open
  <2> DEFINE t == Drop(sessions, r)
             l == closing = TRUE
  <2>1. /\ sessions' = [t EXCEPT ![k].stream_open = TRUE]
        /\ req' = [req EXCEPT ![r].pc = "streaming", ![r].status = 200, ![r].late = closing]
    BY Zenon, <1>5 DEF OpenStream
  <2>2. /\ DOMAIN t = DOMAIN sessions
        /\ \A i \in DOMAIN sessions :
             /\ t[i] \in Session
             /\ t[i].initialized = sessions[i].initialized
             /\ t[i].stream_open = sessions[i].stream_open
             /\ t[i].in_flight = sessions[i].in_flight - Count(i = k)
    BY <1>2, DropHold
  <2> HIDE DEF t
  <2>3. k \in DOMAIN sessions
    BY <1>5, FoundSession
  <2>4. /\ DOMAIN sessions' = DOMAIN sessions
        /\ \A i \in DOMAIN sessions :
             /\ sessions'[i] \in Session
             /\ sessions'[i].initialized = t[i].initialized
             /\ sessions'[i].stream_open = IF i = k THEN TRUE ELSE t[i].stream_open
             /\ sessions'[i].in_flight = t[i].in_flight
    BY <2>1, <2>2, <2>3 DEF Session
  <2>5. /\ OnlyMoves(r) /\ req'[r].pc = "streaming" /\ req'[r].status = 200
        /\ req'[r].id = req[r].id /\ req'[r].opening = req[r].opening
    <3>1. /\ closing \in BOOLEAN /\ 200 \in Nat /\ req \in [Request -> Asked]
          /\ req' = [req EXCEPT ![r].pc = "streaming", ![r].status = 200, ![r].late = closing]
      BY <1>1, <2>1 DEF TableInv, TypeOK
    <3> QED
      BY Zenon, <3>1, StreamMoves
  <2>6. /\ \A i : ~Streams(req[r], i) /\ ~Holds(req'[r], i)
        /\ \A i : (Holds(req[r], i) <=> i = k) /\ (Streams(req'[r], i) <=> i = k)
    BY <1>1, <2>5 DEF Holds, Streams
  <2>7. TableStep(r)
    <3>1. \A i \in DOMAIN sessions : sessions[i].in_flight \in Nat
      BY DEF TableInv, TypeOK, Session
    <3>2. ASSUME NEW i \in DOMAIN sessions
          PROVE  /\ sessions'[i].in_flight + Count(Holds(req[r], i))
                      = sessions[i].in_flight + Count(Holds(req'[r], i))
                 /\ Count(sessions'[i].stream_open) + Count(Streams(req[r], i))
                      = Count(sessions[i].stream_open) + Count(Streams(req'[r], i))
      <4>1. /\ Count(Holds(req[r], i)) = Count(i = k) /\ Count(Holds(req'[r], i)) = 0
            /\ Count(Streams(req[r], i)) = 0 /\ Count(Streams(req'[r], i)) = Count(i = k)
        BY <2>6 DEF Count
      <4>2. /\ sessions'[i].in_flight = sessions[i].in_flight - Count(i = k)
            /\ sessions[i].in_flight \in Nat /\ Count(i = k) \in {0, 1}
        BY <2>2, <2>4, <3>1 DEF Count
      <4>3. Count(sessions'[i].stream_open) = Count(sessions[i].stream_open) + Count(i = k)
        <5>1. sessions[i].stream_open \in BOOLEAN
          BY DEF TableInv, TypeOK, Session
        <5>2. CASE i = k
          <6>1. sessions'[i].stream_open = TRUE /\ ~sessions[i].stream_open
            BY Zenon, <5>2, <1>5, <2>4
          <6> QED
            BY <6>1, <5>2 DEF Count
        <5>3. CASE i # k
          <6>1. sessions'[i].stream_open = sessions[i].stream_open
            BY Zenon, <5>3, <2>2, <2>4
          <6> QED
            BY <6>1, <5>3 DEF Count
        <5> QED
          BY <5>2, <5>3
      <4> QED
        BY <4>1, <4>2, <4>3 DEF Count
    <3> QED
      BY <2>2, <2>4, <3>2 DEF TableStep
  <2>8. Sound(req[r])'
    BY <1>1, <2>5 DEF Sound, Placed, Shook, Refused
  <2> QED
    BY <1>1, <2>4, <2>5, <2>7, <2>8, MoveKeeps DEF TableInv, TypeOK
<1> QED
  BY <1>3, <1>4, <1>5

LEMMA EndStreamKeeps == ASSUME TableInv, NEW r \in Request, EndStream(r) PROVE TableInv'
<1> DEFINE k == req[r].id
<1>1. /\ req \in [Request -> Asked] /\ req[r].pc = "streaming" /\ Sound(req[r])
      /\ UNCHANGED <<minted, reader, now, closing>> /\ sessions' = DropStream(sessions, r)
      /\ req' = [req EXCEPT ![r].pc = "answered"]
  BY DEF TableInv, EndStream, At
<1>2. /\ OnlyMoves(r) /\ req'[r].pc = "answered" /\ req'[r].runs = req[r].runs
      /\ req'[r].id = req[r].id /\ req'[r].opening = req[r].opening
      /\ req'[r].status = req[r].status /\ req'[r].method = req[r].method
  <2>1. "answered" \in Places /\ req[r].runs \in BOOLEAN
    BY <1>1 DEF Places, Asked
  <2> QED
    BY Zenon, <1>1, <2>1, PlaceMoves
<1>3. \A i : /\ Streams(req[r], i) <=> i = k
             /\ ~Holds(req[r], i) /\ ~Holds(req'[r], i) /\ ~Streams(req'[r], i)
  BY <1>1, <1>2 DEF Holds, Streams
<1>4. k \in DOMAIN sessions => sessions[k].stream_open
  BY <1>3, InUse
<1>5. /\ DOMAIN sessions' = DOMAIN sessions
      /\ \A i \in DOMAIN sessions :
           /\ sessions'[i] \in Session
           /\ sessions'[i].initialized = sessions[i].initialized
           /\ sessions'[i].in_flight = sessions[i].in_flight
           /\ sessions'[i].stream_open = IF i = k THEN FALSE ELSE sessions[i].stream_open
  BY <1>1 DEF DropStream, TableInv, TypeOK, Session
<1>6. TableStep(r)
  <2>1. \A i \in DOMAIN sessions : sessions[i].in_flight \in Nat
    BY DEF TableInv, TypeOK, Session
  <2>2. ASSUME NEW i \in DOMAIN sessions
        PROVE  /\ sessions'[i].in_flight + Count(Holds(req[r], i))
                    = sessions[i].in_flight + Count(Holds(req'[r], i))
               /\ Count(sessions'[i].stream_open) + Count(Streams(req[r], i))
                    = Count(sessions[i].stream_open) + Count(Streams(req'[r], i))
    <3>1. /\ Count(Holds(req[r], i)) = 0 /\ Count(Holds(req'[r], i)) = 0
          /\ Count(Streams(req[r], i)) = Count(i = k) /\ Count(Streams(req'[r], i)) = 0
      BY <1>3 DEF Count
    <3>2. sessions'[i].in_flight = sessions[i].in_flight /\ sessions[i].in_flight \in Nat
      BY <1>5, <2>1
    <3>3. Count(sessions'[i].stream_open) + Count(i = k) = Count(sessions[i].stream_open)
      <4>1. CASE i = k
        <5>1. sessions'[i].stream_open = FALSE /\ sessions[i].stream_open
          BY Zenon, <4>1, <1>4, <1>5
        <5> QED
          BY <5>1, <4>1 DEF Count
      <4>2. CASE i # k
        <5>1. sessions'[i].stream_open = sessions[i].stream_open
          BY Zenon, <4>2, <1>5
        <5> QED
          BY <5>1, <4>2 DEF Count
      <4> QED
        BY <4>1, <4>2
    <3> QED
      BY <3>1, <3>2, <3>3 DEF Count
  <2> QED
    BY <1>5, <2>2 DEF TableStep
<1>7. Sound(req[r])'
  BY <1>1, <1>2, <1>5 DEF Sound, Placed, Shook, Refused
<1> QED
  BY <1>1, <1>2, <1>5, <1>6, <1>7, MoveKeeps DEF TableInv, TypeOK

LEMMA VanishKeeps == ASSUME TableInv, NEW r \in Request, Vanish(r) PROVE TableInv'
<1> DEFINE k == req[r].id
           p == IF req[r].runs THEN req[r].pc ELSE "answered"
<1>1. /\ req \in [Request -> Asked] /\ req[r].pc \in {"held", "queued", "handling"}
      /\ req[r].status # 499 /\ Sound(req[r])
      /\ UNCHANGED <<minted, reader, now, closing>> /\ sessions' = Drop(sessions, r)
      /\ req' = [req EXCEPT ![r].status = 499, ![r].pc = p]
  BY DEF TableInv, Vanish
<1>2. Holds(req[r], k)
  BY <1>1 DEF Holds
<1>3. /\ OnlyMoves(r) /\ req'[r].pc = p /\ req'[r].status = 499
      /\ req'[r].id = req[r].id /\ req'[r].opening = req[r].opening
      /\ req'[r].runs = req[r].runs /\ req'[r].method = req[r].method
  <2>1. p \in Places /\ 499 \in Nat
    BY <1>1 DEF Places
  <2> HIDE DEF p, k
  <2> QED
    BY Zenon, <1>1, <2>1, VanishMoves
<1>4. /\ DOMAIN sessions' = DOMAIN sessions
      /\ \A i \in DOMAIN sessions :
           /\ sessions'[i] \in Session
           /\ sessions'[i].initialized = sessions[i].initialized
           /\ sessions'[i].stream_open = sessions[i].stream_open
           /\ sessions'[i].in_flight = sessions[i].in_flight - Count(i = k)
  BY <1>1, <1>2, DropHold
<1>5. p # "streaming" /\ (p = "handling" => req[r].pc = "handling")
  BY <1>1
<1>6. \A i : /\ Holds(req[r], i) <=> i = k
             /\ ~Streams(req[r], i) /\ ~Holds(req'[r], i) /\ ~Streams(req'[r], i)
  BY <1>1, <1>3, <1>5 DEF Holds, Streams
<1>7. TableStep(r)
  <2>1. \A i \in DOMAIN sessions : sessions[i].in_flight \in Nat
    BY DEF TableInv, TypeOK, Session
  <2>2. ASSUME NEW i \in DOMAIN sessions
        PROVE  /\ sessions'[i].in_flight + Count(Holds(req[r], i))
                    = sessions[i].in_flight + Count(Holds(req'[r], i))
               /\ Count(sessions'[i].stream_open) + Count(Streams(req[r], i))
                    = Count(sessions[i].stream_open) + Count(Streams(req'[r], i))
    <3>1. CASE i = k
      BY <3>1, <1>4, <1>6, <2>1 DEF Count
    <3>2. CASE i # k
      BY <3>2, <1>4, <1>6, <2>1 DEF Count
    <3> QED
      BY <3>1, <3>2
  <2> QED
    BY <1>4, <2>2 DEF TableStep
<1>8. Sound(req[r])'
  BY <1>1, <1>3, <1>4 DEF Sound, Placed, Shook, Refused
<1> QED
  BY <1>1, <1>3, <1>4, <1>5, <1>7, <1>8, MoveKeeps DEF TableInv, TypeOK

LEMMA InitHolds == Init => TableInv
<1> SUFFICES ASSUME Init PROVE TableInv
  OBVIOUS
<1>1. PICK plan \in Plans :
        req = [r \in Request |-> [pc |-> "none", method |-> plan[r], id |-> NoId,
                                  opening |-> FALSE, status |-> 0, runs |-> FALSE,
                                  late |-> FALSE]]
  BY DEF Init
<1>2. req \in [Request -> Asked]
  BY <1>1, RequestsAssumption DEF Asked, Places
<1>3. /\ DOMAIN sessions = {} /\ minted = {}
      /\ reader = NoId /\ now = 0 /\ closing = FALSE
  BY DEF Init
<1>4. TypeOK
  <2>1. now \in 0..MaxTime
    BY <1>3, LimitsAssumption
  <2> QED
    BY Zenon, <1>3, <2>1 DEF TypeOK
<1>5. IsFiniteSet(DOMAIN sessions) /\ Cardinality(DOMAIN sessions) <= MaxSessions
  BY <1>3, FS_EmptySet, LimitsAssumption
<1>6. \A r \in Request : Sound(req[r])
  BY <1>1, <1>3 DEF Sound, Placed, Shook, Refused
<1>7. Counted /\ OneCall /\ ReaderIsCaller
  BY <1>1, <1>3 DEF Counted, OneCall, ReaderIsCaller, At
<1> QED
  BY <1>2, <1>4, <1>5, <1>6, <1>7 DEF TableInv

LEMMA StepKeeps == TableInv /\ [Next]_vars => TableInv'
<1> SUFFICES ASSUME TableInv, [Next]_vars PROVE TableInv'
  OBVIOUS
<1>1. ASSUME NEW r \in Request, Open(r) \/ Present(r) \/ Serve(r) \/ EndStream(r) \/ Vanish(r)
      PROVE  TableInv'
  BY <1>1, OpenKeeps, PresentKeeps, HoldKeeps, RefuseKeeps, AdmitKeeps, HandleKeeps,
     FinishKeeps, OpenStreamKeeps, DeleteKeeps, EndStreamKeeps, VanishKeeps DEF Serve
<1>2. ASSUME UNCHANGED <<sessions, minted, req, reader>>,
             now' \in 0..MaxTime, closing' \in BOOLEAN
      PROVE  TableInv'
  <2>1. TypeOK'
    BY <1>2 DEF TableInv, TypeOK
  <2>2. (\A r \in Request : Sound(req[r]))'
    BY <1>2 DEF TableInv, Sound, Placed, Shook, Refused
  <2>3. Counted' /\ OneCall' /\ ReaderIsCaller'
    BY <1>2 DEF TableInv, Counted, OneCall, ReaderIsCaller, At, Holders, Streamers
  <2> QED
    BY <1>2, <2>1, <2>2, <2>3 DEF TableInv
<1>3. now \in 0..MaxTime /\ closing \in BOOLEAN
  BY DEF TableInv, TypeOK
<1>4. CASE Tick
  BY <1>2, <1>3, <1>4, LimitsAssumption DEF Tick
<1>5. CASE Close
  BY <1>2, <1>3, <1>5 DEF Close
<1>6. CASE UNCHANGED vars
  BY <1>2, <1>3, <1>6 DEF vars
<1> QED
  BY <1>1, <1>4, <1>5, <1>6 DEF Next

LEMMA Invariant == Spec => []TableInv
BY InitHolds, StepKeeps, PTL DEF Spec

\* The counts, as the property states them.
LEMMA CountsAgree == TableInv => CountsHolds
<1> SUFFICES ASSUME TableInv, NEW i \in DOMAIN sessions
             PROVE  /\ sessions[i].in_flight = Cardinality({r \in Request : Holding(r) /\ req[r].id = i})
                    /\ Cardinality({r \in Request : At(r, "streaming") /\ req[r].id = i})
                         = IF sessions[i].stream_open THEN 1 ELSE 0
  BY DEF CountsHolds
<1>1. /\ {r \in Request : Holding(r) /\ req[r].id = i} = Holders(i)
      /\ {r \in Request : At(r, "streaming") /\ req[r].id = i} = Streamers(i)
  BY DEF Holders, Streamers, Holds, Streams, Holding, At
<1> QED
  BY <1>1 DEF TableInv, Counted, Count

\* The table is what the requests make it, however many there are: its counts
\* are the requests that hold and stream, it is bounded, no call runs as
\* another's session or before its handshake (serve/sessions.rs, serve/mcp.rs).
THEOREM TableIsRequests == Spec => []TableHolds
<1>1. TableInv => TableHolds
  <2> SUFFICES ASSUME TableInv PROVE TableHolds
    OBVIOUS
  <2>1. TypeOK /\ CountsHolds /\ ReaderIsCaller
    BY CountsAgree DEF TableInv
  <2>2. TableBounded
    BY DEF TableInv, TableBounded, Sound, Refused, At
  <2>3. HandshakeFirst
    BY DEF TableInv, HandshakeFirst, Sound, Shook, At
  <2> QED
    BY <2>1, <2>2, <2>3 DEF TableHolds
<1> QED
  BY <1>1, Invariant, PTL
-----------------------------------------------------------------------------
\* What makes a session leave: a request that holds it and is answered now.
Ends(r, i) ==
    /\ Holding(r) /\ req'[r].pc = "answered" /\ req[r].id = i
    /\ req[r].method = "DELETE" \/ req[r].opening

\* What a dropped hold and an answer leave of a table.
LEMMA DropLeaves ==
    ASSUME NEW r \in Request, NEW table
    PROVE  DOMAIN Drop(table, r) = DOMAIN table
BY DEF Drop

LEMMA AnswerLeaves ==
    ASSUME TableInv, NEW r \in Request, Holding(r), NEW table, NEW status \in Nat,
           Answer(r, table, status), NEW i \in DOMAIN table, i \notin DOMAIN sessions'
    PROVE  Ends(r, i)
<1>1. req[r].opening /\ req[r].id = i
  BY DropLeaves DEF Answer, Terminate, Without
<1>2. req'[r].pc = "answered"
  <2>1. req \in [Request -> Asked] /\ req' = [req EXCEPT ![r].pc = "answered", ![r].status = status]
    BY DEF TableInv, Answer
  <2> QED
    BY Zenon, <2>1, AnswerMoves
<1> QED
  BY <1>1, <1>2 DEF Ends

\* One step takes no session in use, but for a DELETE and a failed opening.
LEMMA StepLeaves ==
    ASSUME TableInv, [Next]_vars, NEW i \in DOMAIN sessions, i \notin DOMAIN sessions',
           NEW user \in Request, Holding(user) \/ At(user, "streaming"), req[user].id = i
    PROVE  \E r \in Request : Ends(r, i)
<1>1. i \notin Swept
  BY InUseNotSwept DEF Holding, At, Holds, Streams
<1>2. sessions' # sessions
  OBVIOUS
<1>3. \A k : i \in DOMAIN Lookup(k)
  BY <1>1 DEF Lookup, Without
<1>4. ASSUME NEW r \in Request, Open(r) PROVE FALSE
  BY <1>1, <1>4 DEF Open, Without, Put
<1>5. ASSUME NEW r \in Request, Hold(r) PROVE FALSE
  BY <1>3, <1>5 DEF Hold
<1>6. ASSUME NEW r \in Request, At(r, "held") PROVE Holding(r)
  BY <1>6 DEF Holding, At, TableInv, Sound, Placed
<1>7. ASSUME NEW r \in Request, Refuse(r) PROVE Ends(r, i)
  <2>1. Holding(r) /\ Answer(r, sessions, 400)
    BY <1>6, <1>7 DEF Refuse
  <2> QED
    BY <2>1, AnswerLeaves
<1>8. ASSUME NEW r \in Request, Admit(r) PROVE Ends(r, i)
  <2>1. Holding(r)
    BY <1>6, <1>8 DEF Admit
  <2>2. CASE Answer(r, Lookup(req[r].id), 404)
    BY <2>1, <2>2, <1>3, AnswerLeaves
  <2>3. CASE Answer(r, sessions, 200)
    BY <2>1, <2>3, AnswerLeaves
  <2>4. CASE ~Answer(r, Lookup(req[r].id), 404) /\ ~Answer(r, sessions, 200)
    <3>1. sessions' = [sessions EXCEPT ![req[r].id].initialized =
                                @ \/ req[r].method = "initialize"]
      BY Zenon, <2>4, <1>8 DEF Admit
    <3> QED
      BY <3>1
  <2> QED
    BY <2>2, <2>3, <2>4
<1>9. ASSUME NEW r \in Request, Finish(r) PROVE Ends(r, i)
  <2>1. req[r].status # 499 /\ Answer(r, sessions, 200) /\ req[r].pc = "handling"
    BY <1>2, <1>9 DEF Finish, At
  <2> QED
    BY <2>1, AnswerLeaves DEF Holding
<1>10. ASSUME NEW r \in Request, OpenStream(r) PROVE Ends(r, i)
  <2>1. Holding(r)
    BY <1>6, <1>10 DEF OpenStream
  <2>2. CASE Answer(r, Lookup(req[r].id), 404)
    BY <2>1, <2>2, <1>3, AnswerLeaves
  <2>3. CASE Answer(r, sessions, 409)
    BY <2>1, <2>3, AnswerLeaves
  <2>4. CASE ~Answer(r, Lookup(req[r].id), 404) /\ ~Answer(r, sessions, 409)
    <3>1. sessions' = [Drop(sessions, r) EXCEPT ![req[r].id].stream_open = TRUE]
      BY Zenon, <2>4, <1>10 DEF OpenStream
    <3> QED
      BY <3>1, DropLeaves
  <2> QED
    BY <2>2, <2>3, <2>4
<1>11. ASSUME NEW r \in Request, Delete(r) PROVE Ends(r, i)
  <2>1. /\ Holding(r) /\ req[r].method = "DELETE"
        /\ Answer(r, Terminate(sessions, req[r].id), 200)
    BY <1>6, <1>11 DEF Delete
  <2>2. CASE i = req[r].id
    <3>1. /\ req \in [Request -> Asked]
          /\ req' = [req EXCEPT ![r].pc = "answered", ![r].status = 200] /\ 200 \in Nat
      BY <2>1 DEF TableInv, Answer
    <3>2. req'[r].pc = "answered"
      BY Zenon, <3>1, AnswerMoves
    <3> QED
      BY <2>1, <2>2, <3>2 DEF Ends
  <2>3. CASE i # req[r].id
    <3>1. i \in DOMAIN Terminate(sessions, req[r].id)
      BY <2>3 DEF Terminate, Without
    <3> QED
      BY <2>1, <3>1, AnswerLeaves
  <2> QED
    BY <2>2, <2>3
<1>12. ASSUME NEW r \in Request, EndStream(r) \/ Vanish(r) PROVE FALSE
  BY <1>12, DropLeaves DEF EndStream, Vanish, DropStream
<1>13. ASSUME NEW r \in Request, Present(r) \/ Handle(r) PROVE FALSE
  BY <1>2, <1>13 DEF Present, Handle
<1>14. CASE Tick \/ Close \/ UNCHANGED vars
  BY <1>2, <1>14 DEF Tick, Close, vars
<1> QED
  BY <1>4, <1>5, <1>7, <1>8, <1>9, <1>10, <1>11, <1>12, <1>13, <1>14 DEF Next, Serve

\* No session leaves under somebody who uses it, however many requests hold
\* it and however long: sweeps and lookups pass it by (serve/sessions.rs).
THEOREM UsedSessionsStay == Spec => InUseStays
<1>1. TableInv /\ [Next]_vars =>
        [\A i \in DOMAIN sessions :
           i \notin DOMAIN sessions'
           /\ (\E r \in Request : (Holding(r) \/ At(r, "streaming")) /\ req[r].id = i)
           => \E r \in Request : /\ Holding(r) /\ req'[r].pc = "answered" /\ req[r].id = i
                                 /\ req[r].method = "DELETE" \/ req[r].opening]_vars
  BY StepLeaves DEF Ends
<1> QED
  BY <1>1, Invariant, PTL DEF Spec, InUseStays

(***************************************************************************)
(* Serving: runs of calls.                                                 *)
(***************************************************************************)
\* What holds of zero and passes from each number to the next holds of all.
LEMMA Induction ==
  ASSUME NEW S, 0 \in S, \A n \in Nat : n \in S => n + 1 \in S
  PROVE  \A n \in Nat : n \in S
<1> DEFINE R == Nat \ S
<1>1. SUFFICES ASSUME R # {} PROVE FALSE OBVIOUS
<1>2. PICK m \in R : \A k \in R : ~(<<k, m>> \in OpToRel(<, Nat))
  BY <1>1, WFMin, NatLessThanWellFounded
<1>3. m \in Nat /\ m # 0 OBVIOUS
<1>4. m - 1 \in Nat /\ m - 1 < m BY <1>3
<1>5. m - 1 \notin R BY <1>2, <1>3, <1>4 DEF OpToRel
<1> QED BY <1>3, <1>4, <1>5

\* A function that starts at start and takes each value from the one before.
RunOf(f, last, T, start, step) ==
    f \in [0..last -> T] /\ f[0] = start /\ \A k \in 1..last : f[k] = step[f[k - 1]][k]
\* Such a function exists; its values are of the type the step keeps.
LEMMA RunExists ==
  ASSUME NEW last \in Nat, NEW T, NEW start \in T, NEW step \in [T -> [1..last -> T]]
  PROVE  \E f : RunOf(f, last, T, start, step)
<1> DEFINE Stepped(n, f) == f = [k \in 0..n |-> IF k = 0 THEN start ELSE step[f[k - 1]][k]]
           S == {n \in Nat : n <= last => \E f \in [0..n -> T] : Stepped(n, f)}
<1>1. 0 \in S
  <2>1. Stepped(0, [k \in 0..0 |-> start]) /\ [k \in 0..0 |-> start] \in [0..0 -> T] OBVIOUS
  <2> QED BY <2>1
<1>2. ASSUME NEW n \in Nat, n \in S, n + 1 <= last PROVE \E g \in [0..(n + 1) -> T] : Stepped(n + 1, g)
  <2>0. n <= last BY <1>2
  <2>1. PICK f \in [0..n -> T] : Stepped(n, f)
    <3> HIDE DEF Stepped
    <3> QED BY <1>2, <2>0
  <2> DEFINE g == [k \in 0..(n + 1) |-> IF k <= n THEN f[k] ELSE step[f[n]][n + 1]]
  <2>2. \A k \in 0..n : f[k] = IF k = 0 THEN start ELSE step[f[k - 1]][k] BY <2>1
  <2>3. f[n] \in T /\ n + 1 \in 1..last BY <1>2
  <2>4. step[f[n]][n + 1] \in T BY <2>3
  <2>5. g \in [0..(n + 1) -> T] BY <2>4
  <2>6. ASSUME NEW k \in 0..(n + 1) PROVE g[k] = IF k = 0 THEN start ELSE step[g[k - 1]][k]
    <3>1. CASE k = 0 BY <2>2, <3>1
    <3>2. CASE k \in 1..n
      <4>1. k - 1 \in 0..n /\ k - 1 \in 0..(n + 1) BY <3>2
      <4> QED BY <2>2, <3>2, <4>1
    <3>3. CASE k = n + 1
      <4>1. g[k] = step[f[n]][n + 1] /\ n \in 0..(n + 1) /\ k - 1 = n BY <3>3
      <4> QED BY <4>1, <3>3
    <3> QED BY <3>1, <3>2, <3>3
  <2>7. g = [k \in 0..(n + 1) |-> g[k]] OBVIOUS
  <2> HIDE DEF g
  <2> QED BY <2>5, <2>6, <2>7
<1>3. \A n \in Nat : n \in S => n + 1 \in S
  <2> SUFFICES ASSUME NEW n \in Nat, n \in S PROVE n + 1 \in S
    <3> HIDE DEF S
    <3> QED OBVIOUS
  <2>1. n + 1 <= last => \E g \in [0..(n + 1) -> T] : Stepped(n + 1, g) BY <1>2
  <2> HIDE DEF Stepped
  <2> QED BY <2>1
<1> HIDE DEF S
<1>4. last \in S BY <1>1, <1>3, Induction
<1>5. \E f \in [0..last -> T] : Stepped(last, f)
  <2> HIDE DEF Stepped
  <2> QED BY <1>4 DEF S
<1>6. PICK f \in [0..last -> T] : Stepped(last, f) BY <1>5
<1>7. \A k \in 0..last : f[k] = IF k = 0 THEN start ELSE step[f[k - 1]][k] BY <1>6
<1>8. f[0] = start /\ \A k \in 1..last : f[k] = step[f[k - 1]][k]
  <2>1. f[0] = start BY <1>7
  <2>2. ASSUME NEW k \in 1..last PROVE f[k] = step[f[k - 1]][k]
    <3>1. k \in 0..last /\ k # 0 OBVIOUS
    <3> QED BY <1>7, <3>1
  <2> QED BY <2>1, <2>2
<1> QED BY <1>8 DEF RunOf

(***************************************************************************)
(* Rows and pages of them.                                                 *)
(***************************************************************************)
\* Rows stand in the order of their turns.
Ordered(rows) == \A i, j \in 1..Len(rows) : i <= j => rows[i] <= rows[j]
Increasing(rows) == \A i, j \in 1..Len(rows) : i < j => rows[i] < rows[j]

LEMMA UptoExists ==
  ASSUME NEW rows \in Seq(Nat), Ordered(rows), NEW turn \in Int
  PROVE  \E m \in 0..Len(rows) : \A i \in 1..Len(rows) : rows[i] <= turn <=> i <= m
<1> DEFINE P(n) == \E m \in 0..n : \A i \in 1..n : rows[i] <= turn <=> i <= m
           S == {n \in Nat : n <= Len(rows) => P(n)}
<1>1. 0 \in S
  <2>1. P(0) OBVIOUS
  <2> QED BY <2>1
<1>2. ASSUME NEW n \in Nat, n \in S, n + 1 <= Len(rows) PROVE P(n + 1)
  <2>1. P(n) BY <1>2
  <2>2. PICK m \in 0..n : \A i \in 1..n : rows[i] <= turn <=> i <= m BY <2>1
  <2>3. \A i \in 1..(n + 1) : rows[i] \in Nat /\ rows[i] <= rows[n + 1] BY <1>2 DEF Ordered
  <2>4. CASE rows[n + 1] <= turn
    <3>1. \A i \in 1..(n + 1) : rows[i] <= turn <=> i <= n + 1 BY <2>3, <2>4
    <3>2. n + 1 \in 0..(n + 1) OBVIOUS
    <3> QED BY <3>1, <3>2
  <2>5. CASE ~(rows[n + 1] <= turn)
    <3>1. \A i \in 1..(n + 1) : rows[i] <= turn <=> i <= m BY <2>2, <2>3, <2>5
    <3>2. m \in 0..(n + 1) OBVIOUS
    <3> QED BY <3>1, <3>2
  <2> QED BY <2>4, <2>5
<1>3. \A n \in Nat : n \in S => n + 1 \in S
  <2> SUFFICES ASSUME NEW n \in Nat, n \in S PROVE n + 1 \in S
    <3> HIDE DEF S
    <3> QED OBVIOUS
  <2>1. n + 1 <= Len(rows) => P(n + 1) BY <1>2
  <2> QED BY <2>1
<1> HIDE DEF S
<1>4. Len(rows) \in S BY <1>1, <1>3, Induction
<1> QED BY <1>4 DEF S

LEMMA UptoIs ==
  ASSUME NEW rows \in Seq(Nat), Ordered(rows), NEW turn \in Int
  PROVE  /\ Upto(rows, turn) \in 0..Len(rows)
         /\ \A i \in 1..Len(rows) : rows[i] <= turn <=> i <= Upto(rows, turn)
<1>1. \E m \in 0..Len(rows) : \A i \in DOMAIN rows : rows[i] <= turn <=> i <= m
  <2>1. DOMAIN rows = 1..Len(rows) OBVIOUS
  <2> QED BY <2>1, UptoExists
<1> QED BY <1>1 DEF Upto

\* The number that tells the rows up to a turn from the others is the one.
LEMMA UptoOnly ==
  ASSUME NEW rows \in Seq(Nat), Ordered(rows), NEW turn \in Int, NEW m \in 0..Len(rows),
         \A i \in 1..Len(rows) : rows[i] <= turn <=> i <= m
  PROVE  Upto(rows, turn) = m
<1> DEFINE u == Upto(rows, turn)
<1>1. u \in 0..Len(rows) /\ \A i \in 1..Len(rows) : rows[i] <= turn <=> i <= u BY UptoIs
<1> HIDE DEF u
<1>2. CASE u < m
  <2>1. m \in 1..Len(rows) BY <1>1, <1>2
  <2> QED BY <1>1, <1>2, <2>1
<1>3. CASE m < u
  <2>1. u \in 1..Len(rows) BY <1>1, <1>3
  <2> QED BY <1>1, <1>3, <2>1
<1>4. u = m BY <1>1, <1>2, <1>3
<1> QED BY <1>4 DEF u

\* What the store answers: the next rows, as many as were asked for or are left.
LEMMA RowsRead ==
  ASSUME NEW rows \in Seq(Nat), Ordered(rows), NEW after \in Int, NEW limit \in Nat
  PROVE  LET from == Upto(rows, after)
             got == ReadRows(rows, after, limit) IN
         /\ got = SubSeq(rows, from + 1, Least(from + limit, Len(rows)))
         /\ got \in Seq(Nat) /\ Ordered(got)
         /\ Len(got) = Least(limit, Len(rows) - from)
         /\ \A i \in 1..Len(got) : got[i] = rows[from + i]
<1> DEFINE from == Upto(rows, after)
           rest == SubSeq(rows, from + 1, Len(rows))
           got == ReadRows(rows, after, limit)
<1>1. from \in 0..Len(rows) BY UptoIs
<1> HIDE DEF from
<1>2. /\ rest \in Seq(Nat) /\ Len(rest) = Len(rows) - from
      /\ \A i \in 1..Len(rest) : rest[i] = rows[from + i]
  BY <1>1
<1>3. limit # Unset BY PageAssumption
<1>4. got = SubSeq(rest, 1, Least(limit, Len(rest))) BY <1>3 DEF ReadRows, Cut, from
<1> HIDE DEF rest, got
<1> DEFINE n == Least(limit, Len(rows) - from)
<1>5. n \in 0..Len(rest) /\ Least(limit, Len(rest)) = n BY <1>1, <1>2 DEF Least
<1> HIDE DEF n
<1>6. /\ got \in Seq(Nat) /\ Len(got) = n
      /\ \A i \in 1..n : got[i] = rest[i]
  BY <1>2, <1>4, <1>5
<1>7. \A i \in 1..n : got[i] = rows[from + i] BY <1>2, <1>5, <1>6
<1>8. Ordered(got)
  <2> SUFFICES ASSUME NEW i \in 1..n, NEW j \in 1..n, i <= j PROVE got[i] <= got[j] BY <1>6 DEF Ordered
  <2>1. from + i \in 1..Len(rows) /\ from + j \in 1..Len(rows) BY <1>1, <1>2, <1>5
  <2>2. rows[from + i] <= rows[from + j] BY <1>1, <2>1 DEF Ordered
  <2> QED BY <1>7, <2>2
<1>9. got = SubSeq(rows, from + 1, Least(from + limit, Len(rows)))
  <2>1. Least(from + limit, Len(rows)) = from + n BY <1>1 DEF Least, n
  <2>2. /\ SubSeq(rows, from + 1, from + n) \in Seq(Nat)
        /\ Len(SubSeq(rows, from + 1, from + n)) = n
        /\ \A i \in 1..n : SubSeq(rows, from + 1, from + n)[i] = rows[from + i]
    <3>1. from \in Nat /\ n \in Nat /\ Len(rows) \in Nat /\ from + n <= Len(rows) BY <1>1, <1>2, <1>5
    <3>2. \A k \in (from + 1)..(from + n) : rows[k] \in Nat BY <3>1
    <3>3. SubSeq(rows, from + 1, from + n) = [k \in 1..n |-> rows[from + k]] BY <3>1
    <3> QED BY <3>1, <3>2, <3>3
  <2> QED BY <1>6, <1>7, <2>1, <2>2, SeqEqual
<1> QED BY <1>6, <1>7, <1>8, <1>9 DEF n, from, got

\* A function that starts at start and takes each value from the one before stays
\* in R when every step that starts in R does.
Guided(f, last, start, next) ==
    f = [n \in 0..last |-> IF n = 0 THEN start ELSE next[f[n - 1]][n]]
LEMMA GuideExists ==
  ASSUME NEW last \in Nat, NEW U, NEW R \in [0..last -> SUBSET U], NEW start \in R[0],
         NEW next \in [U -> [1..last -> U]],
         \A n \in 1..last : \A x \in R[n - 1] : next[x][n] \in R[n]
  PROVE  \E f : Guided(f, last, start, next) /\ \A n \in 0..last : f[n] \in R[n]
<1>1. PICK f : RunOf(f, last, U, start, next) BY RunExists
<1>2. /\ f \in [0..last -> U] /\ f[0] = start
      /\ \A n \in 1..last : f[n] = next[f[n - 1]][n]
  BY <1>1 DEF RunOf
<1> DEFINE S == {n \in Nat : n <= last => f[n] \in R[n]}
<1>3. 0 \in S BY <1>2
<1>4. \A n \in Nat : n \in S => n + 1 \in S
  <2> SUFFICES ASSUME NEW n \in Nat, n \in S, n + 1 <= last PROVE f[n + 1] \in R[n + 1] OBVIOUS
  <2>1. f[n] \in R[n] /\ n + 1 \in 1..last /\ (n + 1) - 1 = n OBVIOUS
  <2>2. f[n + 1] = next[f[n]][n + 1] BY <1>2, <2>1
  <2>3. next[f[n]][n + 1] \in R[n + 1] BY <2>1
  <2> QED BY <2>2, <2>3
<1> HIDE DEF S
<1>5. \A n \in Nat : n \in S BY <1>3, <1>4, Induction
<1>6. \A n \in 0..last : f[n] \in R[n] BY <1>5 DEF S
<1>7. \A n \in 0..last : f[n] = IF n = 0 THEN start ELSE next[f[n - 1]][n]
  <2> TAKE n \in 0..last
  <2>1. n # 0 => n \in 1..last OBVIOUS
  <2> QED BY <1>2, <2>1
<1>8. f = [n \in 0..last |-> f[n]] BY <1>2
<1>9. Guided(f, last, start, next)
  <2>1. [n \in 0..last |-> f[n]] = [n \in 0..last |-> IF n = 0 THEN start ELSE next[f[n - 1]][n]] BY <1>7
  <2> QED BY <1>8, <2>1 DEF Guided
<1> QED BY <1>6, <1>9

\* What holds at the start and passes from each value to the next holds of all.
LEMMA Stays ==
  ASSUME NEW last \in Nat, NEW f, NEW R, f[0] \in R[0],
         \A n \in 1..last : f[n - 1] \in R[n - 1] => f[n] \in R[n]
  PROVE  \A n \in 0..last : f[n] \in R[n]
<1> DEFINE S == {n \in Nat : n <= last => f[n] \in R[n]}
<1>1. 0 \in S OBVIOUS
<1>2. \A n \in Nat : n \in S => n + 1 \in S
  <2> SUFFICES ASSUME NEW n \in Nat, n \in S, n + 1 <= last PROVE f[n + 1] \in R[n + 1] OBVIOUS
  <2>1. f[n] \in R[n] /\ n + 1 \in 1..last /\ (n + 1) - 1 = n OBVIOUS
  <2> QED BY <2>1
<1> HIDE DEF S
<1>3. \A n \in Nat : n \in S BY <1>1, <1>2, Induction
<1> QED BY <1>3 DEF S

Reader == [items : Seq(Nat), after : Nat \cup {Unset}, left : Int \cup {Unset}, more : BOOLEAN]
PageOf == [items : Seq(Nat), next : Nat \cup {Unset}]
AskedFor(limit) == limit \in Nat \cup {Unset}
Rest(limit, n) == IF limit = Unset THEN Unset ELSE limit - n
\* What a reader of whole holds while there is more, n rows of it, and in the end.
HasRead(s, whole, limit, n) ==
    /\ s \in Reader /\ s.more /\ n \in 0..Len(whole)
    /\ s.items = SubSeq(whole, 1, n) /\ s.left = Rest(limit, n)
    /\ limit # Unset => n <= limit
HasAll(s, whole, limit) == s \in Reader /\ ~s.more /\ s.items = Cut(whole, limit)

\* A page that goes on from n rows to m takes the reader there; one that reaches
\* the end, or the limit, is the last.
LEMMA PageRead ==
  ASSUME NEW whole \in Seq(Nat), NEW limit, AskedFor(limit), NEW s, NEW n, HasRead(s, whole, limit, n),
         NEW m \in n..Len(whole), NEW page \in PageOf, page.items = SubSeq(whole, n + 1, m),
         limit # Unset => m <= limit
  PROVE  /\ page.next # Unset /\ m > n /\ (limit # Unset => m < limit) => HasRead(Gathered(s, page), whole, limit, m)
         /\ m = limit \/ (page.next = Unset /\ m = Len(whole)) => HasAll(Gathered(s, page), whole, limit)
<1> DEFINE t == Gathered(s, page)
           left == IF s.left = Unset THEN Unset ELSE s.left - Len(page.items)
<1> HIDE DEF t, left
<1>0. n \in Nat /\ m \in Nat /\ n <= m /\ m <= Len(whole) /\ Unset \notin Int BY PageAssumption DEF HasRead
<1>1. Len(page.items) = m - n /\ (page.items = <<>> <=> m = n)
  <2>1. Len(page.items) = m - n BY <1>0
  <2>2. page.items \in Seq(Nat) BY DEF PageOf
  <2>3. page.items # <<>> => Len(page.items) \in Nat \ {0} BY <2>2, EmptySeq, Zenon
  <2>4. page.items = <<>> => Len(page.items) = 0 BY EmptySeq, Zenon
  <2>5. CASE page.items = <<>> BY <1>0, <2>1, <2>4, <2>5
  <2>6. CASE page.items # <<>>
    <3>1. m - n # 0 BY <2>1, <2>3, <2>6
    <3> QED BY <1>0, <2>1, <2>6, <3>1
  <2> QED BY <2>5, <2>6
<1>2. left = Rest(limit, m)
  <2>1. limit # Unset => limit - n \in Int BY <1>0 DEF AskedFor
  <2> QED BY <1>0, <1>1, <2>1 DEF HasRead, Rest, AskedFor, left
<1>3. s.items \o page.items = SubSeq(whole, 1, m)
  <2> DEFINE a == s.items
             b == page.items
             both == a \o b
  <2>1. a = SubSeq(whole, 1, n) /\ b = SubSeq(whole, n + 1, m) BY DEF HasRead
  <2> HIDE DEF a, b
  <2>2. a \in Seq(Nat) /\ Len(a) = n /\ \A i \in 1..n : a[i] = whole[i] BY <1>0, <2>1
  <2>3. b \in Seq(Nat) /\ Len(b) = m - n /\ \A i \in 1..(m - n) : b[i] = whole[n + i] BY <1>0, <2>1
  <2>4. /\ SubSeq(whole, 1, m) \in Seq(Nat) /\ Len(SubSeq(whole, 1, m)) = m
        /\ \A i \in 1..m : SubSeq(whole, 1, m)[i] = whole[i]
    BY <1>0
  <2>5. /\ both \in Seq(Nat) /\ Len(both) = Len(a) + Len(b)
        /\ \A i \in 1..(Len(a) + Len(b)) : both[i] = IF i <= Len(a) THEN a[i] ELSE b[i - Len(a)]
    <3> HIDE DEF both
    <3> QED BY <2>2, <2>3, ConcatProperties DEF both
  <2>8. Len(both) = m /\ Len(a) + Len(b) = m BY <1>0, <2>2, <2>3, <2>5
  <2> HIDE DEF both
  <2>6. ASSUME NEW i \in 1..m PROVE both[i] = whole[i]
    <3>1. CASE i <= n
      <4>1. i \in 1..n BY <1>0, <3>1
      <4>2. both[i] = a[i] BY <2>2, <2>5, <2>8, <3>1
      <4> QED BY <2>2, <4>1, <4>2
    <3>2. CASE i > n
      <4>1. i - n \in 1..(m - n) /\ n + (i - n) = i BY <1>0, <3>2
      <4>2. both[i] = b[i - n] BY <1>0, <2>2, <2>5, <2>8, <3>2
      <4> QED BY <2>3, <4>1, <4>2
    <3> QED BY <1>0, <3>1, <3>2
  <2>7. both = SubSeq(whole, 1, m) BY <2>4, <2>5, <2>6, <2>8, SeqEqual
  <2> QED BY <2>7 DEF both, a, b
<1>4. t = [items |-> SubSeq(whole, 1, m), after |-> page.next, left |-> Rest(limit, m),
           more |-> page.next # Unset /\ m # n /\ (Rest(limit, m) # Unset => Rest(limit, m) > 0)]
  BY <1>1, <1>2, <1>3 DEF Gathered, HasRead, left, t
<1>5. t \in Reader
  <2>1. SubSeq(whole, 1, m) \in Seq(Nat) BY <1>0
  <2>2. page.next \in Nat \cup {Unset} BY DEF PageOf
  <2>3. Rest(limit, m) \in Int \cup {Unset} BY <1>0 DEF Rest, AskedFor
  <2> QED BY <1>4, <2>1, <2>2, <2>3 DEF Reader
<1>6. Rest(limit, m) # Unset => limit # Unset /\ Rest(limit, m) = limit - m BY DEF Rest
<1>7. ASSUME page.next # Unset, m > n, limit # Unset => m < limit PROVE HasRead(t, whole, limit, m)
  <2>1. Rest(limit, m) # Unset => Rest(limit, m) > 0 BY <1>0, <1>6, <1>7 DEF AskedFor
  <2>3. m # n BY <1>0, <1>7
  <2>2. t.more BY <1>4, <1>7, <2>1, <2>3
  <2> QED BY <1>0, <1>4, <1>5, <1>7, <2>2 DEF HasRead, AskedFor
<1>8. ASSUME m = limit \/ (page.next = Unset /\ m = Len(whole)) PROVE HasAll(t, whole, limit)
  <2>1. ~t.more
    <3>1. CASE m = limit
      <4>1. Rest(limit, m) = 0 BY <1>0, <3>1 DEF Rest
      <4>2. Rest(limit, m) # Unset /\ ~(Rest(limit, m) > 0) BY <1>0, <4>1
      <4> QED BY <1>4, <4>2
    <3>2. CASE page.next = Unset BY <1>4, <3>2
    <3> QED BY <1>8, <3>1, <3>2
  <2>2. SubSeq(whole, 1, m) = Cut(whole, limit)
    <3>1. CASE limit = Unset
      <4>1. m = Len(whole) BY <1>0, <1>8, <3>1
      <4> QED BY <3>1, <4>1 DEF Cut
    <3>2. CASE limit # Unset
      <4>1. Least(limit, Len(whole)) = m BY <1>0, <1>8, <3>2 DEF Least, AskedFor
      <4> QED BY <3>2, <4>1 DEF Cut
    <3> QED BY <3>1, <3>2
  <2> QED BY <1>4, <1>5, <2>1, <2>2 DEF HasAll
<1> QED BY <1>7, <1>8 DEF t

\* A page of rows after some turn goes on where that turn ends: to the last row, or
\* as far as was asked, or to the end of a turn, which it names.
EndsAt(rows, from, left, page, m) ==
    /\ page.items = SubSeq(rows, from + 1, m)
    /\ left # Unset => m <= from + left
    /\ \/ left # Unset /\ m = from + left
       \/ page.next = Unset /\ m = Len(rows)
       \/ /\ page.next \in Nat /\ m > from /\ Upto(rows, page.next) = m
          /\ left # Unset => m < from + left
GoesOn(rows, after, left, page) ==
    /\ page \in PageOf
    /\ \E m \in Upto(rows, after)..Len(rows) : EndsAt(rows, Upto(rows, after), left, page, m)

LEMMA GoesOnTo ==
  ASSUME NEW rows, NEW after, NEW left, NEW page \in PageOf, NEW m \in Upto(rows, after)..Len(rows),
         EndsAt(rows, Upto(rows, after), left, page, m)
  PROVE  GoesOn(rows, after, left, page)
BY DEF GoesOn

LEMMA SizeIs ==
  ASSUME NEW limit, AskedFor(limit)
  PROVE  /\ Size(limit) \in Nat
         /\ limit = Unset => Size(limit) > 0
         /\ limit # Unset => Size(limit) <= limit /\ (Size(limit) = 0 => limit = 0)
BY PageAssumption DEF Size, Least, AskedFor

\* As far as a page that starts here can reach.
LEMMA ReachIs ==
  ASSUME NEW n \in Nat, NEW from \in 0..n, NEW size \in Nat
  PROVE  LET m == Least(from + size, n) IN
         /\ m \in from..n /\ m <= from + size /\ Least(size, n - from) = m - from
         /\ Least(size, n - from) < size => m = n
BY DEF Least

LEMMA TurnsGoOn ==
  ASSUME NEW rows \in Seq(Nat), Increasing(rows), NEW after \in Nat, NEW left, AskedFor(left)
  PROVE  GoesOn(rows, after, left, TurnsPage(rows, after, left))
<1> DEFINE from == Upto(rows, after)
           size == Size(left)
           got == ReadRows(rows, after, size)
           page == TurnsPage(rows, after, left)
           m == Least(from + size, Len(rows))
<1>0. Ordered(rows)
  <2> SUFFICES ASSUME NEW i \in 1..Len(rows), NEW j \in 1..Len(rows), i <= j PROVE rows[i] <= rows[j] BY DEF Ordered
  <2>1. rows[i] \in Nat /\ rows[j] \in Nat OBVIOUS
  <2>2. i # j => rows[i] < rows[j] BY DEF Increasing
  <2> QED BY <2>1, <2>2
<1>1. from \in 0..Len(rows) BY <1>0, UptoIs
<1>2. size \in Nat /\ (left = Unset => size > 0) /\ (left # Unset => size <= left /\ (size = 0 => left = 0)) BY SizeIs
<1>3. /\ got = SubSeq(rows, from + 1, m) /\ got \in Seq(Nat) /\ Len(got) = Least(size, Len(rows) - from)
      /\ \A i \in 1..Len(got) : got[i] = rows[from + i]
  BY <1>0, <1>2, RowsRead
<1>4. page = IF Len(got) < size \/ size = left THEN Answered(got, Unset) ELSE Answered(got, Last(got))
  BY DEF TurnsPage
<1>5. Unset \notin Int /\ Len(rows) \in Nat /\ (left # Unset => left \in Nat) BY PageAssumption DEF AskedFor
<1> HIDE DEF from, size, got, page
<1>6. /\ m \in from..Len(rows) /\ m <= from + size /\ Len(got) = m - from
      /\ Len(got) < size => m = Len(rows)
  <2>1. Len(got) = Least(size, Len(rows) - from) /\ size \in Nat BY <1>2, <1>3
  <2> QED BY <1>1, <1>5, <2>1, ReachIs
<1>9. m \in Nat /\ from \in Nat /\ m <= Len(rows) /\ from <= m BY <1>1, <1>5, <1>6
<1> HIDE DEF m
<1>7. CASE Len(got) < size \/ size = left
  <2>1. page.items = got /\ page.next = Unset /\ page \in PageOf BY <1>3, <1>4, <1>7 DEF Answered, PageOf
  <2>2. Len(got) < size => m = Len(rows) BY <1>6
  <2>3. size = left /\ ~(Len(got) < size) => left # Unset /\ m = from + left BY <1>2, <1>5, <1>6, <1>9
  <2>4. left # Unset => m <= from + left BY <1>2, <1>5, <1>6, <1>9
  <2>5. page.items = SubSeq(rows, from + 1, m) BY <1>3, <2>1
  <2>6. EndsAt(rows, from, left, page, m) BY <1>7, <2>1, <2>2, <2>3, <2>4, <2>5 DEF EndsAt
  <2> QED BY <1>6, <2>1, <2>6, GoesOnTo DEF from, page
<1>8. CASE ~(Len(got) < size \/ size = left)
  <2>1. size > 0 /\ m = from + size /\ Len(got) = size BY <1>2, <1>6, <1>8, <1>9
  <2>9. m \in 1..Len(rows) BY <1>2, <1>5, <1>9, <2>1
  <2>10. got[size] = rows[m]
    <3>1. size \in 1..Len(got) BY <1>2, <2>1
    <3> QED BY <1>3, <2>1, <3>1
  <2>2. Last(got) = rows[m] /\ m \in 1..Len(rows) BY <2>1, <2>9, <2>10 DEF Last
  <2>3. rows[m] \in Nat BY <2>2
  <2>4. page.items = got /\ page.next = rows[m] /\ page \in PageOf BY <1>3, <1>4, <1>8, <2>2, <2>3 DEF Answered, PageOf
  <2>5. \A i \in 1..Len(rows) : rows[i] <= rows[m] <=> i <= m
    <3> TAKE i \in 1..Len(rows)
    <3>1. rows[i] \in Nat /\ rows[m] \in Nat BY <2>3
    <3>2. i < m => rows[i] < rows[m] BY <2>2 DEF Increasing
    <3>3. m < i => rows[m] < rows[i] BY <2>2 DEF Increasing
    <3> QED BY <2>2, <3>1, <3>2, <3>3
  <2>6. Upto(rows, rows[m]) = m
    <3>1. m \in 0..Len(rows) BY <2>2
    <3>2. rows[m] \in Int BY <2>3
    <3> QED BY <1>0, <2>5, <3>1, <3>2, UptoOnly
  <2>7. m > from /\ (left # Unset => m < from + left) BY <1>2, <1>5, <1>8, <1>9, <2>1
  <2>8. left # Unset => m <= from + left BY <1>5, <1>9, <2>7
  <2>11. page.items = SubSeq(rows, from + 1, m) BY <1>3, <2>4
  <2>12. EndsAt(rows, from, left, page, m) BY <2>3, <2>4, <2>6, <2>7, <2>8, <2>11 DEF EndsAt
  <2> QED BY <1>6, <2>4, <2>12, GoesOnTo DEF from, page
<1> QED BY <1>7, <1>8 DEF page

\* The size a page of entries is widened to is enough.
LEMMA WidenedIsEnough ==
  ASSUME NEW rows \in Seq(Nat), Ordered(rows), NEW after \in Nat, NEW left, AskedFor(left)
  PROVE  LET size == Widened(rows, after, left) IN
         /\ size \in Nat /\ (size = 0 => left = 0) /\ (left # Unset => size <= left)
         /\ Enough(ReadRows(rows, after, size), size, left)
<1> DEFINE N == Len(rows)
           Fits(size) == size \in Nat /\ (size = 0 => left = 0) /\ (left # Unset => size <= left)
           next(size) == IF Enough(ReadRows(rows, after, size), size, left) THEN size ELSE Wider(size, left)
           good(size) == Enough(ReadRows(rows, after, size), size, left)
           U == {size \in Nat : Fits(size)}
           R == [n \in 0..N |-> {size \in U : good(size) \/ size > n}]
           step == [size \in U |-> [n \in 1..N |-> next(size)]]
           start == Size(left)
<1>0. N \in Nat /\ Unset \notin Int /\ (left # Unset => left \in Nat) BY PageAssumption DEF AskedFor
<1>1. start \in U
  <2>1. start \in Nat BY SizeIs
  <2>2. left = Unset => start > 0 BY SizeIs
  <2>3. left # Unset => start <= left /\ (start = 0 => left = 0) BY SizeIs
  <2> HIDE DEF start
  <2> QED BY <1>0, <2>1, <2>2, <2>3
<1>2. ASSUME NEW size \in U PROVE size = left => good(size)
  BY <1>2 DEF Enough
<1>3. ASSUME NEW size \in U, ~good(size)
      PROVE  next(size) \in U /\ (next(size) > size) /\ (left # Unset => size < left)
  <2>1. size # left /\ size > 0 /\ size \in Nat /\ (left # Unset => size <= left /\ size < left) BY <1>0, <1>2, <1>3
  <2>2. next(size) = Wider(size, left) BY <1>3
  <2> HIDE DEF good, next
  <2>3. CASE left = Unset
    <3>1. Wider(size, left) = size * 2 BY <2>3 DEF Wider
    <3>2. size * 2 \in Nat /\ size * 2 > size BY <2>1
    <3> QED BY <1>0, <2>1, <2>2, <2>3, <3>1, <3>2
  <2>4. CASE left # Unset
    <3>1. Wider(size, left) = Least(size * 2, left) BY <2>4 DEF Wider
    <3>2. size * 2 \in Nat /\ size * 2 > size BY <2>1
    <3>3. Least(size * 2, left) \in {size * 2, left} /\ Least(size * 2, left) <= left /\ Least(size * 2, left) > size
      BY <1>0, <2>1, <2>4, <3>2 DEF Least
    <3> QED BY <1>0, <2>1, <2>2, <2>4, <3>1, <3>2, <3>3
  <2> QED BY <2>3, <2>4
<1>4. \A size \in U : next(size) \in U
  <2> TAKE size \in U
  <2>1. CASE good(size)
    <3>1. next(size) = size BY <2>1
    <3> QED BY <3>1
  <2>2. CASE ~good(size) BY <1>3, <2>2
  <2> QED BY <2>1, <2>2
<1>5. step \in [U -> [1..N -> U]]
  <2> HIDE DEF next, U, N
  <2> QED BY <1>4
<1>6. R \in [0..N -> SUBSET U] OBVIOUS
<1>7. start \in R[0]
  <2>1. 0 \in 0..N BY <1>0
  <2>2. CASE start = 0
    <3>1. start = left BY <1>1, <2>2
    <3>2. good(start) BY <3>1 DEF Enough
    <3> HIDE DEF start, good
    <3> QED BY <1>1, <2>1, <3>2
  <2>3. CASE start # 0
    <3>1. start \in Nat BY <1>1
    <3> HIDE DEF start, good
    <3> QED BY <1>1, <2>1, <2>3, <3>1
  <2> QED BY <2>2, <2>3
<1>8. \A n \in 1..N : \A x \in R[n - 1] : step[x][n] \in R[n]
  <2> TAKE n \in 1..N
  <2> TAKE x \in R[n - 1]
  <2>0. n - 1 \in 0..N /\ n \in 0..N /\ n \in Int OBVIOUS
  <2>1. x \in U /\ (good(x) \/ x > n - 1)
    <3> HIDE DEF good, U
    <3> QED BY <2>0
  <2>2. step[x][n] = next(x)
    <3> HIDE DEF U, next
    <3> QED BY <2>1
  <2>3. CASE good(x)
    <3>1. next(x) = x BY <2>3
    <3> HIDE DEF good, U, next, step
    <3> QED BY <2>0, <2>1, <2>2, <2>3, <3>1
  <2>4. CASE ~good(x)
    <3>1. next(x) \in U /\ next(x) > x /\ x \in Nat BY <1>3, <2>1, <2>4
    <3>2. next(x) \in Nat BY <3>1
    <3> HIDE DEF good, U, next, step
    <3>3. next(x) > n BY <2>0, <2>1, <2>4, <3>1, <3>2
    <3> QED BY <2>0, <2>2, <3>1, <3>3
  <2> QED BY <2>3, <2>4
<1> HIDE DEF R, step, U, start, N
<1>9. \E f : Guided(f, N, start, step) /\ \A n \in 0..N : f[n] \in R[n]
  BY <1>0, <1>5, <1>6, <1>7, <1>8, GuideExists
<1> DEFINE Sizes(f) == f = [n \in 0..N |-> IF n = 0 THEN start ELSE next(f[n - 1])]
<1>10. \E f : Sizes(f)
  <2>1. PICK f : Guided(f, N, start, step) /\ \A n \in 0..N : f[n] \in R[n] BY <1>9
  <2>2. ASSUME NEW n \in 0..N, n # 0 PROVE step[f[n - 1]][n] = next(f[n - 1])
    <3>1. n \in 1..N /\ n - 1 \in 0..N BY <1>0, <2>2
    <3>2. f[n - 1] \in U BY <1>6, <2>1, <3>1
    <3> HIDE DEF next
    <3> QED BY <3>1, <3>2 DEF step
  <2> HIDE DEF next
  <2>3. Sizes(f) BY <2>1, <2>2 DEF Guided
  <2> QED BY <2>3
<1> DEFINE sizes == CHOOSE f : Sizes(f)
<1>11. Sizes(sizes)
  <2> HIDE DEF next
  <2> QED BY <1>10
<1>12. Widened(rows, after, left) = sizes[N] BY DEF Widened, N, start
<1> HIDE DEF sizes
<1>13. sizes[0] = start /\ \A n \in 1..N : sizes[n] = next(sizes[n - 1])
  <2> HIDE DEF next
  <2>1. \A n \in 0..N : sizes[n] = IF n = 0 THEN start ELSE next(sizes[n - 1]) BY <1>11
  <2>2. 0 \in 0..N /\ \A n \in 1..N : n \in 0..N /\ n # 0 BY <1>0
  <2> QED BY <2>1, <2>2
<1>14. \A n \in 1..N : sizes[n - 1] \in R[n - 1] => sizes[n] \in R[n]
  <2> TAKE n \in 1..N
  <2> HAVE sizes[n - 1] \in R[n - 1]
  <2>1. n - 1 \in 0..N BY <1>0
  <2>2. sizes[n - 1] \in U BY <1>6, <2>1
  <2>3. step[sizes[n - 1]][n] = next(sizes[n - 1])
    <3> HIDE DEF next
    <3> QED BY <2>2 DEF step
  <2> HIDE DEF next
  <2> QED BY <1>8, <1>13, <2>3
<1>15. \A n \in 0..N : sizes[n] \in R[n]
  <2> HIDE DEF next
  <2> QED BY <1>0, <1>7, <1>13, <1>14, Stays
<1> DEFINE size == sizes[N]
<1>16. size \in U /\ (good(size) \/ size > N)
  <2>1. N \in 0..N /\ size \in R[N] BY <1>0, <1>15
  <2> HIDE DEF good, size
  <2> QED BY <2>1 DEF R
<1> HIDE DEF size
<1>17. Fits(size) BY <1>16 DEF U
<1>18. good(size)
  <2>1. CASE size > N
    <3>1. size \in Nat BY <1>17
    <3>2. Upto(rows, after) \in 0..N BY UptoIs DEF N
    <3>3. Len(ReadRows(rows, after, size)) = Least(size, N - Upto(rows, after)) BY <3>1, RowsRead DEF N
    <3>4. Len(ReadRows(rows, after, size)) < size BY <1>0, <2>1, <3>1, <3>2, <3>3 DEF Least
    <3> QED BY <3>4 DEF Enough
  <2> QED BY <1>16, <2>1
<1> QED BY <1>12, <1>17, <1>18 DEF size

LEMMA ProjectionsGoOn ==
  ASSUME NEW rows \in Seq(Nat), Ordered(rows), \A i \in 1..Len(rows) : rows[i] > 0,
         NEW after \in Nat, NEW left, AskedFor(left)
  PROVE  GoesOn(rows, after, left, ProjectionsPage(rows, after, left))
<1> DEFINE from == Upto(rows, after)
           size == Widened(rows, after, left)
           got == ReadRows(rows, after, size)
           page == ProjectionsPage(rows, after, left)
           m == Least(from + size, Len(rows))
           whole == Complete(got)
<1>1. from \in 0..Len(rows) BY UptoIs
<1>2. /\ size \in Nat /\ (size = 0 => left = 0) /\ (left # Unset => size <= left)
      /\ Enough(got, size, left)
  BY WidenedIsEnough
<1>3. /\ got = SubSeq(rows, from + 1, m) /\ got \in Seq(Nat) /\ Ordered(got) /\ Len(got) = Least(size, Len(rows) - from)
      /\ \A i \in 1..Len(got) : got[i] = rows[from + i]
  BY <1>2, RowsRead
<1>4. page = IF Len(got) < size \/ size = left THEN Answered(got, Unset)
             ELSE Answered(SubSeq(got, 1, whole), Last(got) - 1)
  BY DEF ProjectionsPage
<1>5. Unset \notin Int /\ Len(rows) \in Nat /\ (left # Unset => left \in Nat) BY PageAssumption DEF AskedFor
<1> HIDE DEF from, size, got, page, whole
<1>6. /\ m \in from..Len(rows) /\ m <= from + size /\ Len(got) = m - from
      /\ Len(got) < size => m = Len(rows)
  <2>1. Len(got) = Least(size, Len(rows) - from) /\ size \in Nat BY <1>2, <1>3
  <2> QED BY <1>1, <1>5, <2>1, ReachIs
<1>9. m \in Nat /\ from \in Nat /\ m <= Len(rows) /\ from <= m BY <1>1, <1>5, <1>6
<1> HIDE DEF m
<1>7. CASE Len(got) < size \/ size = left
  <2>1. page.items = got /\ page.next = Unset /\ page \in PageOf BY <1>3, <1>4, <1>7 DEF Answered, PageOf
  <2>3. size = left /\ ~(Len(got) < size) => left # Unset /\ m = from + left BY <1>2, <1>5, <1>6, <1>9
  <2>4. left # Unset => m <= from + left BY <1>2, <1>5, <1>6, <1>9
  <2>5. page.items = SubSeq(rows, from + 1, m) BY <1>3, <2>1
  <2>6. EndsAt(rows, from, left, page, m) BY <1>6, <1>7, <2>1, <2>3, <2>4, <2>5 DEF EndsAt
  <2> QED BY <1>6, <2>1, <2>6, GoesOnTo DEF from, page
<1>8. CASE ~(Len(got) < size \/ size = left)
  <2> DEFINE last == rows[m]
             k == from + whole
  <2>1. size > 0 /\ m = from + size /\ Len(got) = size BY <1>2, <1>6, <1>8, <1>9
  <2>2. m \in 1..Len(rows) BY <1>2, <1>5, <1>9, <2>1
  <2>3. Last(got) = last
    <3>1. size \in 1..Len(got) BY <1>2, <2>1
    <3> QED BY <1>3, <2>1, <3>1 DEF Last
  <2>4. last \in Nat /\ last > 0 BY <2>2
  <2> HIDE DEF last
  <2>5. last - 1 \in Nat BY <2>4
  <2>6. /\ whole \in 0..size /\ whole # 0
        /\ \A i \in 1..size : got[i] <= last - 1 <=> i <= whole
    <3>1. Complete(got) = Upto(got, last - 1) BY <2>3 DEF Complete
    <3>2. /\ Upto(got, last - 1) \in 0..Len(got)
          /\ \A i \in 1..Len(got) : got[i] <= last - 1 <=> i <= Upto(got, last - 1)
      <4>1. last - 1 \in Int BY <2>5
      <4> QED BY <1>3, <4>1, UptoIs
    <3>3. Complete(got) # 0 BY <1>2, <1>8 DEF Enough
    <3> QED BY <2>1, <3>1, <3>2, <3>3 DEF whole
  <2>7. whole < size
    <3>1. size \in 1..size /\ got[size] = last BY <1>2, <2>1, <2>3 DEF Last
    <3>2. ~(last <= last - 1) BY <2>4
    <3> QED BY <1>2, <2>6, <3>1, <3>2
  <2>8. k \in from..Len(rows) /\ k > from /\ k < m BY <1>2, <1>9, <2>1, <2>6, <2>7
  <2>9. page.items = SubSeq(rows, from + 1, k)
    <3>1. page.items = SubSeq(got, 1, whole) BY <1>4, <1>8 DEF Answered
    <3>0. /\ whole \in Nat /\ whole <= Len(got) /\ Len(got) \in Nat
          /\ \A i \in 1..whole : i \in 1..Len(got) /\ got[i] \in Nat
      <4>1. whole \in Nat /\ whole <= Len(got) /\ Len(got) \in Nat BY <1>2, <2>1, <2>6
      <4>2. \A i \in 1..whole : i \in 1..Len(got) BY <4>1
      <4> QED BY <1>3, <4>1, <4>2, ElementOfSeq
    <3>2. /\ SubSeq(got, 1, whole) \in Seq(Nat) /\ Len(SubSeq(got, 1, whole)) = whole
          /\ \A i \in 1..whole : SubSeq(got, 1, whole)[i] = got[i]
      <4>2. SubSeq(got, 1, whole) = [i \in 1..whole |-> got[i]] BY <3>0
      <4> QED BY <3>0, <4>2
    <3>3. /\ SubSeq(rows, from + 1, k) \in Seq(Nat) /\ Len(SubSeq(rows, from + 1, k)) = whole
          /\ \A i \in 1..whole : SubSeq(rows, from + 1, k)[i] = rows[from + i]
      <4>1. \A i \in 1..whole : from + i \in 1..Len(rows) /\ rows[from + i] \in Nat BY <1>9, <2>6, <2>8
      <4>2. \A i \in (from + 1)..k : rows[i] \in Nat BY <1>9, <2>8
      <4>3. whole \in Nat /\ from \in Nat /\ from + 1 \in Int /\ k \in Int BY <1>9, <3>0
      <4>4. k - (from + 1) + 1 = whole /\ (from + 1 <= k <=> 1 <= whole) BY <4>3
      <4>5. \A i \in 1..whole : from + 1 + i - 1 = from + i BY <4>3
      <4>6. whole # 0 BY <2>6
      <4> HIDE DEF k
      <4> DEFINE part == SubSeq(rows, from + 1, k)
      <4>7. /\ part \in Seq(Nat) /\ Len(part) = IF from + 1 <= k THEN k - (from + 1) + 1 ELSE 0
            /\ \A i \in 1..(k - (from + 1) + 1) : part[i] = rows[from + 1 + i - 1]
        BY <4>2, <4>3, SubSeqProperties
      <4> HIDE DEF part
      <4>8. Len(part) = whole BY <4>3, <4>4, <4>6, <4>7
      <4> QED BY <4>4, <4>5, <4>7, <4>8 DEF part
    <3>4. \A i \in 1..whole : got[i] = rows[from + i] BY <1>3, <2>1, <2>6
    <3>5. \A i \in 1..whole : SubSeq(got, 1, whole)[i] = SubSeq(rows, from + 1, k)[i] BY <3>2, <3>3, <3>4
    <3> HIDE DEF k
    <3>6. SubSeq(got, 1, whole) = SubSeq(rows, from + 1, k) BY <3>2, <3>3, <3>5, SeqEqual
    <3> QED BY <3>1, <3>6
  <2>10. page.next = last - 1 /\ page \in PageOf
    <3>1. page = Answered(SubSeq(got, 1, whole), last - 1) BY <1>4, <1>8, <2>3
    <3>2. SubSeq(got, 1, whole) \in Seq(Nat)
      <4>1. whole \in Int /\ 1 \in Int BY <2>6
      <4>2. \A i \in 1..whole : i \in 1..Len(got) BY <1>2, <2>1, <2>6
      <4>3. \A i \in 1..whole : got[i] \in Nat BY <1>3, <4>2, ElementOfSeq
      <4> QED BY <4>1, <4>3, SubSeqProperties
    <3> QED BY <2>5, <3>1, <3>2 DEF Answered, PageOf
  <2>11. \A i \in 1..Len(rows) : rows[i] <= last - 1 <=> i <= k
    <3> TAKE i \in 1..Len(rows)
    <3>0. rows[i] \in Nat OBVIOUS
    <3>1. CASE i <= from
      <4>1. rows[i] <= rows[from + 1] BY <1>9, <2>2, <2>8, <3>1 DEF Ordered
      <4>2. rows[from + 1] = got[1] /\ got[1] <= last - 1 /\ got[1] \in Nat
        <5>1. 1 \in 1..Len(got) /\ 1 \in 1..size /\ 1 <= whole BY <1>2, <2>1, <2>6
        <5> QED BY <1>3, <2>6, <5>1
      <4> QED BY <1>9, <2>4, <2>8, <3>0, <3>1, <4>1, <4>2
    <3>2. CASE i > from /\ i <= m
      <4>1. i - from \in 1..size /\ from + (i - from) = i BY <1>9, <2>1, <3>2
      <4>2. got[i - from] = rows[i] BY <1>3, <2>1, <4>1
      <4>3. rows[i] <= last - 1 <=> i - from <= whole BY <2>6, <4>1, <4>2
      <4> QED BY <1>9, <2>6, <3>2, <4>3
    <3>3. CASE i > m
      <4>1. last <= rows[i] BY <1>9, <2>2, <3>3 DEF Ordered, last
      <4> QED BY <1>9, <2>4, <2>8, <3>0, <3>3, <4>1
    <3> QED BY <1>9, <3>1, <3>2, <3>3
  <2>12. Upto(rows, last - 1) = k
    <3>1. k \in 0..Len(rows) BY <1>9, <2>8
    <3> HIDE DEF k
    <3>2. last - 1 \in Int BY <2>5
    <3> QED BY <2>11, <3>1, <3>2, UptoOnly
  <2>13. left # Unset => k < from + left BY <1>2, <1>5, <1>9, <2>1, <2>8
  <2> HIDE DEF k
  <2>14. left # Unset => k <= from + left BY <1>5, <1>9, <2>8, <2>13
  <2>15. EndsAt(rows, from, left, page, k) BY <2>5, <2>8, <2>9, <2>10, <2>12, <2>13, <2>14 DEF EndsAt
  <2> QED BY <2>8, <2>10, <2>15, GoesOnTo DEF from, page
<1> QED BY <1>7, <1>8 DEF page

\* A reader of the rows, after n calls or more: it has all, or at least n rows and
\* knows where they end.
ReadsOn(rows, limit, n) ==
    {s \in Reader : \/ HasAll(s, rows, limit)
                    \/ \E m \in Nat : /\ m >= n /\ HasRead(s, rows, limit, m)
                                      /\ s.after \in Nat /\ Upto(rows, s.after) = m}
LEMMA CallReadsOn ==
  ASSUME NEW rows \in Seq(Nat), NEW limit, AskedFor(limit), NEW n \in Nat, NEW s \in ReadsOn(rows, limit, n),
         NEW page, s.more /\ s.after \in Nat /\ AskedFor(s.left) => GoesOn(rows, s.after, s.left, page)
  PROVE  Gathered(s, page) \in ReadsOn(rows, limit, n + 1)
<1> DEFINE t == Gathered(s, page)
<1>1. CASE HasAll(s, rows, limit)
  <2>1. t = s BY <1>1 DEF Gathered, HasAll
  <2> HIDE DEF t
  <2> QED BY <1>1, <2>1 DEF ReadsOn, HasAll, t
<1>2. CASE ~HasAll(s, rows, limit)
  <2>1. PICK m \in Nat : m >= n /\ HasRead(s, rows, limit, m) /\ s.after \in Nat /\ Upto(rows, s.after) = m
    BY <1>2 DEF ReadsOn
  <2>0. Unset \notin Int /\ (limit # Unset => limit \in Nat) /\ Len(rows) \in Nat BY PageAssumption DEF AskedFor
  <2>2. s.more /\ s.left = Rest(limit, m) /\ m \in 0..Len(rows) /\ (limit # Unset => m <= limit) BY <2>1 DEF HasRead
  <2>3. limit # Unset => limit - m \in Nat BY <2>0, <2>1, <2>2
  <2>4. AskedFor(s.left) BY <2>2, <2>3 DEF Rest, AskedFor
  <2>5. (s.left # Unset <=> limit # Unset) /\ (limit # Unset => s.left = limit - m) BY <2>0, <2>2, <2>3 DEF Rest
  <2>6. GoesOn(rows, s.after, s.left, page) BY <2>1, <2>2, <2>4
  <2>7. page \in PageOf /\ \E k \in m..Len(rows) : EndsAt(rows, m, s.left, page, k) BY <2>1, <2>6 DEF GoesOn
  <2>8. PICK k \in m..Len(rows) : EndsAt(rows, m, s.left, page, k) BY <2>7
  <2>9. page.items = SubSeq(rows, m + 1, k) /\ (limit # Unset => k <= limit)
    <3>1. limit # Unset => m + (limit - m) = limit BY <2>0, <2>1
    <3> QED BY <2>5, <2>8, <3>1 DEF EndsAt
  <2>10. \/ k = limit \/ (page.next = Unset /\ k = Len(rows))
         \/ page.next \in Nat /\ k > m /\ Upto(rows, page.next) = k /\ (limit # Unset => k < limit)
    <3>1. limit # Unset => m + (limit - m) = limit BY <2>0, <2>1
    <3> QED BY <2>5, <2>8, <3>1 DEF EndsAt
  <2>11. /\ page.next # Unset /\ k > m /\ (limit # Unset => k < limit) => HasRead(t, rows, limit, k)
         /\ k = limit \/ (page.next = Unset /\ k = Len(rows)) => HasAll(t, rows, limit)
    <3> HIDE DEF t
    <3> QED BY <2>1, <2>7, <2>9, PageRead DEF t
  <2>12. CASE k = limit \/ (page.next = Unset /\ k = Len(rows))
    <3> HIDE DEF t
    <3> QED BY <2>11, <2>12 DEF ReadsOn, HasAll, t
  <2>13. CASE page.next \in Nat /\ k > m /\ Upto(rows, page.next) = k /\ (limit # Unset => k < limit)
    <3>1. page.next # Unset BY <2>0, <2>13
    <3>2. t.after = page.next BY <2>2 DEF Gathered
    <3> HIDE DEF t
    <3>3. HasRead(t, rows, limit, k) BY <2>11, <2>13, <3>1
    <3>4. k \in Nat /\ k >= n + 1 BY <2>0, <2>1, <2>13
    <3>5. t \in Reader BY <3>3 DEF HasRead
    <3>6. t \in ReadsOn(rows, limit, n + 1) BY <2>13, <3>2, <3>3, <3>4, <3>5 DEF ReadsOn
    <3> QED BY <3>6 DEF t
  <2> QED BY <2>10, <2>12, <2>13
<1> QED BY <1>1, <1>2

LEMMA ReadsOnLess ==
  ASSUME NEW rows \in Seq(Nat), NEW limit, NEW n \in Nat, NEW k \in Nat, k <= n
  PROVE  ReadsOn(rows, limit, n) \subseteq ReadsOn(rows, limit, k)
<1> SUFFICES ASSUME NEW s \in ReadsOn(rows, limit, n) PROVE s \in ReadsOn(rows, limit, k) OBVIOUS
<1>1. CASE HasAll(s, rows, limit) BY <1>1 DEF ReadsOn
<1>2. CASE ~HasAll(s, rows, limit)
  <2>1. PICK m \in Nat : m >= n /\ HasRead(s, rows, limit, m) /\ s.after \in Nat /\ Upto(rows, s.after) = m
    BY <1>2 DEF ReadsOn
  <2>2. m >= k BY <2>1
  <2> QED BY <2>1, <2>2 DEF ReadsOn
<1> QED BY <1>1, <1>2

\* A client that reads turn by turn, or entry by entry, gets what one read gives.
LEMMA FollowIsCut ==
  ASSUME NEW rows \in Seq(Nat), Ordered(rows), \A i \in 1..Len(rows) : rows[i] > 0, NEW limit, AskedFor(limit),
         NEW entries, entries = "turns" => Increasing(rows)
  PROVE  Follow(entries, rows, limit) = Cut(rows, limit)
<1> DEFINE N == Len(rows) + 1
           page(s) == IF entries = "turns" THEN TurnsPage(rows, s.after, s.left) ELSE ProjectionsPage(rows, s.after, s.left)
           next(s) == Gathered(s, page(s))
           U == ReadsOn(rows, limit, 0)
           R == [n \in 0..N |-> ReadsOn(rows, limit, n)]
           step == [s \in U |-> [n \in 1..N |-> next(s)]]
           start == Begun(0, limit)
<1>0. N \in Nat /\ Unset \notin Int /\ (limit # Unset => limit \in Nat) BY PageAssumption DEF AskedFor
<1>1. ASSUME NEW n \in Nat, NEW s \in ReadsOn(rows, limit, n) PROVE next(s) \in ReadsOn(rows, limit, n + 1)
  <2>1. s.more /\ s.after \in Nat /\ AskedFor(s.left) => GoesOn(rows, s.after, s.left, page(s))
    BY TurnsGoOn, ProjectionsGoOn
  <2> HIDE DEF page
  <2> QED BY <2>1, CallReadsOn
<1> HIDE DEF next, N
<1>2. \A s \in U : next(s) \in U
  <2> TAKE s \in U
  <2>1. next(s) \in ReadsOn(rows, limit, 0 + 1) BY <1>1
  <2>2. ReadsOn(rows, limit, 0 + 1) \subseteq U BY ReadsOnLess
  <2> QED BY <2>1, <2>2
<1>3. R \in [0..N -> SUBSET U]
  <2>1. \A n \in 0..N : ReadsOn(rows, limit, n) \subseteq U BY ReadsOnLess
  <2> HIDE DEF U
  <2> QED BY <2>1
<1>4. step \in [U -> [1..N -> U]]
  <2> HIDE DEF U
  <2> QED BY <1>2
<1>5. start \in R[0]
  <2>1. start = [items |-> <<>>, after |-> 0, left |-> limit, more |-> TRUE] BY DEF Begun
  <2> HIDE DEF start
  <2>2. start \in Reader /\ start.more BY <2>1 DEF Reader, AskedFor
  <2>3. start.items = SubSeq(rows, 1, 0) BY <2>1
  <2>4. start.left = Rest(limit, 0) BY <1>0, <2>1 DEF Rest
  <2>5. HasRead(start, rows, limit, 0) BY <1>0, <2>2, <2>3, <2>4 DEF HasRead
  <2>6. Upto(rows, 0) = 0
    <3>1. \A i \in 1..Len(rows) : rows[i] <= 0 <=> i <= 0
      <4> TAKE i \in 1..Len(rows)
      <4>1. rows[i] \in Nat /\ rows[i] > 0 OBVIOUS
      <4> QED BY <4>1
    <3>2. 0 \in 0..Len(rows) OBVIOUS
    <3> QED BY <3>1, <3>2, UptoOnly
  <2>7. start.after = 0 BY <2>1
  <2>8. start \in ReadsOn(rows, limit, 0) BY <2>2, <2>5, <2>6, <2>7 DEF ReadsOn
  <2> QED BY <1>0, <2>8
<1>6. \A n \in 1..N : \A s \in R[n - 1] : step[s][n] \in R[n] /\ step[s][n] = next(s)
  <2> TAKE n \in 1..N
  <2> TAKE s \in R[n - 1]
  <2>1. n - 1 \in 0..N /\ n \in 0..N /\ n - 1 \in Nat /\ (n - 1) + 1 = n BY <1>0
  <2>2. s \in ReadsOn(rows, limit, n - 1) /\ s \in U BY <1>3, <2>1
  <2>3. next(s) \in ReadsOn(rows, limit, (n - 1) + 1) BY <1>1, <2>1, <2>2
  <2>4. step[s][n] = next(s)
    <3> HIDE DEF U
    <3> QED BY <2>2
  <2> HIDE DEF step
  <2> QED BY <2>1, <2>3, <2>4
<1> HIDE DEF R, step, U, start
<1>7. PICK f : Guided(f, N, start, step) /\ \A n \in 0..N : f[n] \in R[n]
  BY <1>0, <1>3, <1>4, <1>5, <1>6, GuideExists
<1> DEFINE Runs(g) == g = [n \in 0..N |-> IF n = 0 THEN start ELSE next(g[n - 1])]
           run == CHOOSE g : Runs(g)
<1>8. Runs(f)
  <2>1. ASSUME NEW n \in 0..N, n # 0 PROVE step[f[n - 1]][n] = next(f[n - 1])
    <3>1. n \in 1..N /\ n - 1 \in 0..N BY <1>0, <2>1
    <3> QED BY <1>6, <1>7, <3>1
  <2> QED BY <1>7, <2>1 DEF Guided
<1>9. Runs(run) BY <1>8
<1>10. Follow(entries, rows, limit) = run[N].items BY DEF Follow, N, start, next
<1> HIDE DEF run
<1>11. run[0] = start /\ \A n \in 1..N : run[n] = next(run[n - 1])
  <2>1. \A n \in 0..N : run[n] = IF n = 0 THEN start ELSE next(run[n - 1]) BY <1>9
  <2>2. 0 \in 0..N /\ \A n \in 1..N : n \in 0..N /\ n # 0 BY <1>0
  <2> QED BY <2>1, <2>2
<1>12. \A n \in 1..N : run[n - 1] \in R[n - 1] => run[n] \in R[n] BY <1>6, <1>11
<1>13. \A n \in 0..N : run[n] \in R[n] BY <1>0, <1>5, <1>11, <1>12, Stays
<1>14. N \in 0..N /\ run[N] \in ReadsOn(rows, limit, N) BY <1>0, <1>13 DEF R
<1>15. HasAll(run[N], rows, limit)
  <2>1. ASSUME NEW m \in Nat, m >= N, HasRead(run[N], rows, limit, m) PROVE FALSE
    BY <2>1 DEF HasRead, N
  <2> QED BY <1>14, <2>1 DEF ReadsOn
<1> QED BY <1>10, <1>15 DEF HasAll

LEMMA ReadAtOnce ==
  ASSUME NEW rows \in Seq(Nat), Ordered(rows), \A i \in 1..Len(rows) : rows[i] > 0, NEW limit
  PROVE  ReadRows(rows, 0, limit) = Cut(rows, limit)
<1>1. Upto(rows, 0) = 0
  <2>1. \A i \in 1..Len(rows) : rows[i] <= 0 <=> i <= 0
    <3> TAKE i \in 1..Len(rows)
    <3>1. rows[i] \in Nat /\ rows[i] > 0 OBVIOUS
    <3> QED BY <3>1
  <2>2. 0 \in 0..Len(rows) OBVIOUS
  <2> QED BY <2>1, <2>2, UptoOnly
<1>2. SubSeq(rows, 0 + 1, Len(rows)) = rows
  <2>1. SubSeq(rows, 1, Len(rows)) = rows OBVIOUS
  <2> QED BY <2>1
<1> QED BY <1>1, <1>2 DEF ReadRows

(***************************************************************************)
(* Histories, which are read from the newest back.                         *)
(***************************************************************************)
\* A reader of a history that had h rows when it began: it knows the oldest row it
\* has, and the rows that come later are newer.
ReadsBack(h, limit, n) ==
    {s \in Reader : \/ HasAll(s, Newest(h), limit)
                    \/ \E m \in Nat : /\ m >= n /\ HasRead(s, Newest(h), limit, m) /\ (limit # Unset => m < limit)
                                      /\ s.after = IF m = 0 THEN Unset ELSE h + 1 - m}

LEMMA NewestIs ==
  ASSUME NEW h \in Nat
  PROVE  /\ Newest(h) \in Seq(Nat) /\ Len(Newest(h)) = h
         /\ \A i \in 1..h : Newest(h)[i] = h + 1 - i
<1>1. \A i \in 1..h : h + 1 - i \in Nat OBVIOUS
<1>2. Newest(h) \in [1..h -> Nat] BY <1>1 DEF Newest
<1> QED BY <1>2 DEF Newest

LEMMA OlderReadsBack ==
  ASSUME NEW h \in Nat, NEW limit, AskedFor(limit), NEW n \in Nat, NEW s \in ReadsBack(h, limit, n),
         NEW head \in Nat, h <= head, n = 0 => head = h
  PROVE  Gathered(s, OlderPage(head, s.after, s.left)) \in ReadsBack(h, limit, n + 1)
<1> DEFINE whole == Newest(h)
           page == OlderPage(head, s.after, s.left)
           t == Gathered(s, page)
<1>0. Unset \notin Int /\ (limit # Unset => limit \in Nat) BY PageAssumption DEF AskedFor
<1>1. CASE HasAll(s, whole, limit)
  <2>1. t = s BY <1>1 DEF Gathered, HasAll
  <2> HIDE DEF t, whole
  <2> QED BY <1>1, <2>1 DEF ReadsBack, HasAll, t, whole
<1>2. CASE ~HasAll(s, whole, limit)
  <2>1. PICK m \in Nat : /\ m >= n /\ HasRead(s, whole, limit, m) /\ (limit # Unset => m < limit)
                         /\ s.after = IF m = 0 THEN Unset ELSE h + 1 - m
    BY <1>2 DEF ReadsBack
  <2> DEFINE left == s.left
             size == Size(left)
             last == h - m
             keys == Newest(last)
             k == Least(m + size, h)
  <2>2. whole \in Seq(Nat) /\ Len(whole) = h /\ \A i \in 1..h : whole[i] = h + 1 - i BY NewestIs
  <2>3. s.more /\ left = Rest(limit, m) /\ m \in 0..h BY <2>1, <2>2 DEF HasRead
  <2>4. last \in Nat BY <2>3
  <2>5. keys \in Seq(Nat) /\ Len(keys) = last /\ \A i \in 1..last : keys[i] = last + 1 - i BY <2>4, NewestIs
  <2>6. page = Paged(keys, size)
    <3>1. CASE m = 0
      <4>1. s.after = Unset /\ head = h /\ last = h BY <2>1, <3>1
      <4> QED BY <4>1 DEF OlderPage
    <3>2. CASE m # 0
      <4>1. s.after = h + 1 - m /\ s.after # Unset BY <1>0, <2>1, <3>2
      <4>2. Least(head, s.after - 1) = last BY <2>3, <4>1 DEF Least
      <4> QED BY <4>1, <4>2 DEF OlderPage
    <3> QED BY <3>1, <3>2
  <2> HIDE DEF whole, page, keys, left, last
  <2>7. /\ left # Unset <=> limit # Unset
        /\ limit # Unset => left = limit - m /\ left \in Nat /\ left > 0
    BY <1>0, <2>1, <2>3 DEF Rest
  <2>8. AskedFor(left) BY <2>7 DEF AskedFor
  <2>9. size \in Nat /\ size > 0 /\ (limit # Unset => size <= left)
    <3>1. /\ size \in Nat
          /\ left = Unset => size > 0
          /\ left # Unset => size <= left /\ (size = 0 => left = 0)
      BY <2>8, SizeIs
    <3> HIDE DEF size
    <3> QED BY <2>7, <3>1
  <2> HIDE DEF size
  <2>10. last = h - m BY DEF last
  <2>11. k \in m..h /\ k \in Nat /\ (limit # Unset => k <= limit) BY <1>0, <2>3, <2>7, <2>9 DEF Least
  <2>12. page = IF last <= size THEN Answered(keys, Unset) ELSE Answered(SubSeq(keys, 1, size), keys[size])
    BY <2>5, <2>6 DEF Paged
  <2>13. page \in PageOf /\ page.items = SubSeq(whole, m + 1, k)
    <3> DEFINE part == SubSeq(whole, m + 1, k)
    <3>1. part \in Seq(Nat) /\ Len(part) = k - m /\ \A i \in 1..(k - m) : part[i] = last + 1 - i
      <4>1. \A i \in (m + 1)..k : whole[i] \in Nat BY <2>2, <2>11
      <4>2. k - (m + 1) + 1 = k - m /\ m + 1 \in Int /\ k \in Int BY <2>11
      <4>3. /\ part \in Seq(Nat) /\ Len(part) = IF m + 1 <= k THEN k - (m + 1) + 1 ELSE 0
            /\ \A i \in 1..(k - (m + 1) + 1) : part[i] = whole[m + 1 + i - 1]
        <5> HIDE DEF k
        <5> QED BY <4>1, <4>2, SubSeqProperties
      <4>4. \A i \in 1..(k - m) : m + 1 + i - 1 \in 1..h /\ whole[m + 1 + i - 1] = last + 1 - i
        <5> TAKE i \in 1..(k - m)
        <5>1. m + 1 + i - 1 = m + i /\ m + i \in 1..h BY <2>11
        <5>2. whole[m + i] = h + 1 - (m + i) BY <2>2, <5>1
        <5>3. h + 1 - (m + i) = last + 1 - i BY <2>10
        <5> QED BY <5>1, <5>2, <5>3
      <4> HIDE DEF part, k
      <4>5. Len(part) = k - m BY <2>11, <4>2, <4>3
      <4> QED BY <4>2, <4>3, <4>4, <4>5
    <3> HIDE DEF part
    <3>2. CASE last <= size
      <4>1. k = h BY <2>3, <2>9, <2>10, <3>2 DEF Least
      <4>2. part = keys BY <2>4, <2>5, <2>10, <3>1, <4>1, SeqEqual
      <4>3. page.items = keys /\ page.next = Unset /\ page \in PageOf BY <2>5, <2>12, <3>2 DEF Answered, PageOf
      <4> QED BY <4>2, <4>3 DEF part
    <3>3. CASE ~(last <= size)
      <4>1. k = m + size BY <2>3, <2>9, <2>10, <3>3 DEF Least
      <4>2. SubSeq(keys, 1, size) \in Seq(Nat) /\ Len(SubSeq(keys, 1, size)) = size
            /\ \A i \in 1..size : SubSeq(keys, 1, size)[i] = keys[i]
        BY <2>4, <2>5, <2>9, <3>3
      <4>3. \A i \in 1..size : keys[i] = last + 1 - i BY <2>4, <2>5, <2>9, <3>3
      <4>4. k - m = size BY <2>9, <4>1
      <4> HIDE DEF k
      <4>5. part = SubSeq(keys, 1, size) BY <3>1, <4>2, <4>3, <4>4, SeqEqual
      <4>6. keys[size] \in Nat BY <2>4, <2>5, <2>9, <3>3
      <4>7. page.items = SubSeq(keys, 1, size) /\ page \in PageOf BY <2>12, <3>3, <4>2, <4>6 DEF Answered, PageOf
      <4> QED BY <4>5, <4>7 DEF part
    <3> QED BY <3>2, <3>3
  <2>14. /\ page.next # Unset /\ k > m /\ (limit # Unset => k < limit) => HasRead(t, whole, limit, k)
         /\ k = limit \/ (page.next = Unset /\ k = Len(whole)) => HasAll(t, whole, limit)
    <3> HIDE DEF t, k
    <3> QED BY <2>1, <2>2, <2>11, <2>13, PageRead DEF t
  <2> HIDE DEF t
  <2>15. CASE last <= size
    <3>1. k = h BY <2>3, <2>9, <2>10, <2>15 DEF Least
    <3>2. page.next = Unset BY <2>12, <2>15 DEF Answered
    <3>3. HasAll(t, whole, limit) BY <2>2, <2>14, <3>1, <3>2
    <3>4. t \in ReadsBack(h, limit, n + 1) BY <3>3 DEF ReadsBack, HasAll, whole
    <3> QED BY <3>4 DEF t, page
  <2>16. CASE ~(last <= size)
    <3>1. k = m + size BY <2>3, <2>9, <2>10, <2>16 DEF Least
    <3>2. page.next = keys[size] BY <2>12, <2>16 DEF Answered
    <3>3. keys[size] = last + 1 - size BY <2>4, <2>5, <2>9, <2>16
    <3>4. page.next = h + 1 - k BY <2>9, <2>10, <3>1, <3>2, <3>3
    <3>5. page.next # Unset BY <1>0, <2>11, <3>4
    <3>6. k > m /\ k >= n + 1 /\ k # 0 BY <2>1, <2>9, <3>1
    <3> HIDE DEF k
    <3>7. CASE k = limit
      <4>1. t \in ReadsBack(h, limit, n + 1) BY <2>14, <3>7 DEF ReadsBack, HasAll, whole
      <4> QED BY <4>1 DEF t, page
    <3>8. CASE k # limit
      <4>1. limit # Unset => k < limit BY <1>0, <2>11, <3>8
      <4>2. HasRead(t, whole, limit, k) BY <2>14, <3>5, <3>6, <4>1
      <4>3. t.after = page.next BY <2>3 DEF Gathered, t
      <4>4. t \in ReadsBack(h, limit, n + 1)
        <5>1. t \in Reader BY <4>2 DEF HasRead
        <5> QED BY <2>11, <3>4, <3>6, <4>1, <4>2, <4>3, <5>1 DEF ReadsBack, whole
      <4> QED BY <4>4 DEF t, page
    <3> QED BY <3>7, <3>8
  <2> QED BY <2>15, <2>16
<1> QED BY <1>1, <1>2

LEMMA LeastIn ==
  ASSUME NEW a \in Nat \ {0}, NEW b \in Nat \ {0}
  PROVE  Least(a, b) \in 1..b /\ (a = 1 => Least(a, b) = 1)
BY DEF Least

\* A history read through pages is the history as it stood at the first page.
LEMMA HistoryIsCut ==
  ASSUME NEW heads \in Seq(Nat), Len(heads) > 0, \A i \in 1..Len(heads) : heads[1] <= heads[i],
         NEW limit, AskedFor(limit), limit # 0
  PROVE  History(heads, limit) = Cut(Newest(heads[1]), limit)
<1> DEFINE h == heads[1]
           N == h + 1
           next(s, n) == Gathered(s, OlderPage(During(heads, n), s.after, s.left))
           U == ReadsBack(h, limit, 0)
           R == [n \in 0..N |-> ReadsBack(h, limit, n)]
           step == [s \in U |-> [n \in 1..N |-> IF s \in R[n - 1] THEN next(s, n) ELSE s]]
           start == Begun(Unset, limit)
<1>0. h \in Nat /\ N \in Nat /\ Unset \notin Int /\ (limit # Unset => limit \in Nat /\ limit > 0)
  BY PageAssumption DEF AskedFor
<1>1. ASSUME NEW n \in 1..N PROVE During(heads, n) \in Nat /\ h <= During(heads, n) /\ (n = 1 => During(heads, n) = h)
  <2>1. n \in Nat \ {0} /\ Len(heads) \in Nat \ {0} BY <1>0
  <2> HIDE DEF N
  <2>2. Least(n, Len(heads)) \in 1..Len(heads) /\ (n = 1 => Least(n, Len(heads)) = 1) BY <2>1, LeastIn
  <2> QED BY <2>2 DEF During
<1> HIDE DEF h
<1>2. ASSUME NEW n \in 1..N, NEW s \in ReadsBack(h, limit, n - 1) PROVE next(s, n) \in ReadsBack(h, limit, n)
  <2>1. n - 1 \in Nat /\ (n - 1) + 1 = n /\ (n - 1 = 0 => n = 1) BY <1>0
  <2> DEFINE head == During(heads, n)
  <2>2. head \in Nat /\ h <= head /\ (n - 1 = 0 => head = h) BY <1>1, <2>1
  <2> HIDE DEF head
  <2>3. Gathered(s, OlderPage(head, s.after, s.left)) \in ReadsBack(h, limit, (n - 1) + 1)
    BY <1>0, <2>1, <2>2, OlderReadsBack
  <2> QED BY <2>1, <2>3 DEF head
<1> HIDE DEF next, N
<1>3. ASSUME NEW n \in Nat PROVE ReadsBack(h, limit, n) \subseteq U
  <2> SUFFICES ASSUME NEW s \in ReadsBack(h, limit, n) PROVE s \in U OBVIOUS
  <2>1. \A m \in Nat : m >= n => m >= 0 OBVIOUS
  <2> QED BY <2>1 DEF ReadsBack
<1>4. R \in [0..N -> SUBSET U]
  <2>1. \A n \in 0..N : ReadsBack(h, limit, n) \subseteq U BY <1>3
  <2> HIDE DEF U
  <2> QED BY <2>1
<1>5. \A n \in 1..N : \A s \in R[n - 1] : next(s, n) \in R[n]
  <2> TAKE n \in 1..N
  <2>1. n - 1 \in 0..N /\ n \in 0..N BY <1>0
  <2> QED BY <1>2, <2>1
<1>6. step \in [U -> [1..N -> U]]
  <2>1. ASSUME NEW s \in U, NEW n \in 1..N PROVE (IF s \in R[n - 1] THEN next(s, n) ELSE s) \in U
    <3>1. n \in 0..N BY <1>0
    <3>2. R[n] \subseteq U BY <1>4, <3>1
    <3> HIDE DEF U, R
    <3> QED BY <1>5, <2>1, <3>2
  <2> HIDE DEF U, R
  <2> QED BY <2>1
<1>7. start \in R[0]
  <2>1. start = [items |-> <<>>, after |-> Unset, left |-> limit, more |-> TRUE] BY DEF Begun
  <2> HIDE DEF start
  <2>2. start \in Reader /\ start.more BY <2>1 DEF Reader, AskedFor
  <2>3. start.items = SubSeq(Newest(h), 1, 0)
    <3>1. Newest(h) \in Seq(Nat) BY <1>0, NewestIs
    <3> QED BY <2>1, <3>1
  <2>4. start.left = Rest(limit, 0) BY <1>0, <2>1 DEF Rest
  <2>5. Len(Newest(h)) \in Nat BY <1>0, NewestIs
  <2>6. HasRead(start, Newest(h), limit, 0) BY <1>0, <2>2, <2>3, <2>4, <2>5 DEF HasRead
  <2>7. start \in ReadsBack(h, limit, 0) 
    <3>1. start.after = Unset BY <2>1
    <3>2. /\ 0 >= 0 /\ HasRead(start, Newest(h), limit, 0) /\ (limit # Unset => 0 < limit)
          /\ start.after = IF 0 = 0 THEN Unset ELSE h + 1 - 0
      BY <1>0, <2>6, <3>1
    <3> QED BY <2>2, <3>2 DEF ReadsBack
  <2> QED BY <1>0, <2>7
<1>8. \A n \in 1..N : \A s \in R[n - 1] : step[s][n] \in R[n] /\ step[s][n] = next(s, n)
  <2> TAKE n \in 1..N
  <2> TAKE s \in R[n - 1]
  <2>1. n - 1 \in 0..N BY <1>0
  <2>2. s \in U BY <1>4, <2>1
  <2>3. step[s][n] = next(s, n)
    <3> HIDE DEF U, R
    <3> QED BY <2>2
  <2> HIDE DEF step, R
  <2> QED BY <1>5, <2>3
<1> HIDE DEF R, step, U, start
<1>9. PICK f : Guided(f, N, start, step) /\ \A n \in 0..N : f[n] \in R[n]
  BY <1>0, <1>4, <1>6, <1>7, <1>8, GuideExists
<1> DEFINE Runs(g) == g = [n \in 0..N |-> IF n = 0 THEN start ELSE next(g[n - 1], n)]
           run == CHOOSE g : Runs(g)
<1>10. Runs(f)
  <2>1. ASSUME NEW n \in 0..N, n # 0 PROVE step[f[n - 1]][n] = next(f[n - 1], n)
    <3>1. n \in 1..N /\ n - 1 \in 0..N BY <1>0, <2>1
    <3> QED BY <1>8, <1>9, <3>1
  <2> QED BY <1>9, <2>1 DEF Guided
<1>11. Runs(run) BY <1>10
<1>12. History(heads, limit) = run[N].items BY DEF History, N, start, next, h
<1> HIDE DEF run
<1>13. run[0] = start /\ \A n \in 1..N : run[n] = next(run[n - 1], n)
  <2>1. \A n \in 0..N : run[n] = IF n = 0 THEN start ELSE next(run[n - 1], n) BY <1>11
  <2>2. 0 \in 0..N /\ \A n \in 1..N : n \in 0..N /\ n # 0 BY <1>0
  <2> QED BY <2>1, <2>2
<1>14. \A n \in 1..N : run[n - 1] \in R[n - 1] => run[n] \in R[n] BY <1>5, <1>13
<1>15. \A n \in 0..N : run[n] \in R[n] BY <1>0, <1>7, <1>13, <1>14, Stays
<1>16. N \in 0..N /\ run[N] \in ReadsBack(h, limit, N) BY <1>0, <1>15 DEF R
<1>17. HasAll(run[N], Newest(h), limit)
  <2>1. Len(Newest(h)) = h BY <1>0, NewestIs
  <2>2. ASSUME NEW m \in Nat, m >= N, HasRead(run[N], Newest(h), limit, m) PROVE FALSE
    BY <1>0, <2>1, <2>2 DEF HasRead, N
  <2> QED BY <1>16, <2>2 DEF ReadsBack
<1> QED BY <1>12, <1>17 DEF HasAll, h

(***************************************************************************)
(* Listings.                                                               *)
(***************************************************************************)
\* Numbers in order: each of the set once, each greater than the one before.
LEMMA InOrderIs ==
  ASSUME NEW S \in SUBSET Nat, IsFiniteSet(S)
  PROVE  /\ InOrder(S) \in Seq(Nat) /\ Len(InOrder(S)) = Cardinality(S) /\ Increasing(InOrder(S))
         /\ \A i \in 1..Len(InOrder(S)) : InOrder(S)[i] \in S
         /\ \A k \in S : \E i \in 1..Len(InOrder(S)) : InOrder(S)[i] = k
<1> DEFINE c == Cardinality(S)
           below(k) == {x \in S : x < k}
           rank(k) == Cardinality(below(k))
           f == [k \in S |-> rank(k)]
<1>1. c \in Nat BY FS_CardinalityType
<1>2. ASSUME NEW k \in S PROVE rank(k) \in Nat /\ rank(k) < c
  <2>1. below(k) \in SUBSET S /\ below(k) # S OBVIOUS
  <2> HIDE DEF below
  <2>2. IsFiniteSet(below(k)) /\ rank(k) <= c /\ rank(k) # c BY <2>1, FS_Subset
  <2>3. rank(k) \in Nat BY <2>2, FS_CardinalityType
  <2> QED BY <1>1, <2>2, <2>3
<1>3. ASSUME NEW k \in S, NEW l \in S, k < l PROVE rank(k) < rank(l)
  <2>1. below(l) \in SUBSET S /\ below(k) \in SUBSET below(l) /\ below(k) # below(l)
    <3>1. k \in below(l) /\ k \notin below(k) BY <1>3
    <3>2. \A x \in S : x < k => x < l BY <1>3
    <3> QED BY <3>1, <3>2
  <2> HIDE DEF below
  <2>2. IsFiniteSet(below(l)) BY <2>1, FS_Subset
  <2>3. rank(k) <= rank(l) /\ rank(k) # rank(l) BY <2>1, <2>2, FS_Subset
  <2> QED BY <1>2, <2>3
<1>13. \A k, l \in S : (f[k] < f[l] => k < l) /\ (f[k] = f[l] => k = l)
  <2> SUFFICES ASSUME NEW k \in S, NEW l \in S PROVE (f[k] < f[l] => k < l) /\ (f[k] = f[l] => k = l) OBVIOUS
  <2>1. k < l => rank(k) < rank(l) BY <1>3
  <2>2. l < k => rank(l) < rank(k) BY <1>3
  <2>3. rank(k) \in Nat /\ rank(l) \in Nat /\ k \in Nat /\ l \in Nat BY <1>2
  <2>4. f[k] = rank(k) /\ f[l] = rank(l) OBVIOUS
  <2> HIDE DEF rank, f
  <2> QED BY <2>1, <2>2, <2>3, <2>4
<1> HIDE DEF rank, c
<1>4. f \in Injection(S, 0..(c - 1))
  <2>1. f \in [S -> 0..(c - 1)] BY <1>1, <1>2
  <2>2. ASSUME NEW k \in S, NEW l \in S, f[k] = f[l] PROVE k = l
    <3> HIDE DEF f
    <3> QED BY <1>13, <2>2
  <2> HIDE DEF f
  <2> QED BY <2>1, <2>2 DEF Injection, IsInjective
<1>5. IsFiniteSet(0..(c - 1)) /\ Cardinality(0..(c - 1)) = c
  <2>1. 0 \in Int /\ c - 1 \in Int BY <1>1
  <2>2. IsFiniteSet(0..(c - 1)) /\ Cardinality(0..(c - 1)) = IF 0 > c - 1 THEN 0 ELSE (c - 1) - 0 + 1
    BY <2>1, FS_Interval
  <2> QED BY <1>1, <2>2
<1>6. f \in Surjection(S, 0..(c - 1))
  <2> HIDE DEF f
  <2> QED BY <1>4, <1>5, FS_Injection DEF c
<1>7. \A r \in 0..(c - 1) : \E k \in S : rank(k) = r
  <2>1. \A r \in 0..(c - 1) : \E k \in S : f[k] = r
    <3> HIDE DEF f
    <3> QED BY <1>6 DEF Surjection
  <2> QED BY <2>1
<1> DEFINE o == [i \in 1..c |-> CHOOSE k \in S : rank(k) = i - 1]
<1>8. InOrder(S) = o BY DEF InOrder, o, c, rank
<1>9. \A i \in 1..c : o[i] \in S /\ rank(o[i]) = i - 1
  <2> TAKE i \in 1..c
  <2>1. i - 1 \in 0..(c - 1) BY <1>1
  <2>2. \E k \in S : rank(k) = i - 1 BY <1>7, <2>1
  <2> QED BY <2>2
<1>10. o \in Seq(Nat) /\ Len(o) = c
  <2>1. \A i \in 1..c : o[i] \in Nat BY <1>9
  <2>2. o \in [1..c -> Nat] BY <2>1
  <2> HIDE DEF o
  <2> QED BY <1>1, <2>2
<1> HIDE DEF o
<1>11. Increasing(o)
  <2> SUFFICES ASSUME NEW i \in 1..c, NEW j \in 1..c, i < j PROVE o[i] < o[j] BY <1>10 DEF Increasing
  <2>1. o[i] \in S /\ o[j] \in S /\ f[o[i]] < f[o[j]] BY <1>1, <1>9
  <2> HIDE DEF f
  <2> QED BY <1>13, <2>1
<1>12. ASSUME NEW k \in S PROVE \E i \in 1..c : o[i] = k
  <2>1. rank(k) + 1 \in 1..c /\ (rank(k) + 1) - 1 = rank(k) BY <1>1, <1>2
  <2> DEFINE i == rank(k) + 1
  <2>2. o[i] \in S /\ f[o[i]] = f[k] BY <1>9, <2>1
  <2>3. o[i] = k
    <3> HIDE DEF f
    <3> QED BY <1>13, <2>2
  <2> QED BY <2>1, <2>3
<1> QED BY <1>8, <1>9, <1>10, <1>11, <1>12 DEF c

\* What comes after a number joins what comes up to it, in order.
LEMMA JoinIs ==
  ASSUME NEW a \in Seq(Nat), NEW b \in Seq(Nat), Increasing(a), Increasing(b), NEW cut \in Nat,
         \A i \in 1..Len(a) : a[i] <= cut, \A i \in 1..Len(b) : b[i] > cut
  PROVE  /\ a \o b \in Seq(Nat) /\ Len(a \o b) = Len(a) + Len(b) /\ Increasing(a \o b)
         /\ \A i \in 1..Len(a) : (a \o b)[i] = a[i]
         /\ \A i \in 1..Len(b) : (a \o b)[Len(a) + i] = b[i]
         /\ \A i \in 1..Len(a \o b) : \/ i \in 1..Len(a) /\ (a \o b)[i] = a[i]
                                      \/ i - Len(a) \in 1..Len(b) /\ (a \o b)[i] = b[i - Len(a)]
<1> DEFINE both == a \o b
           m == Len(a)
           n == Len(b)
<1>1. m \in Nat /\ n \in Nat OBVIOUS
<1>2. /\ both \in Seq(Nat) /\ Len(both) = m + n
      /\ \A i \in 1..(m + n) : both[i] = IF i <= m THEN a[i] ELSE b[i - m]
  <2> HIDE DEF both
  <2> QED BY ConcatProperties DEF both
<1> HIDE DEF both
<1>3. \A i \in 1..m : both[i] = a[i] BY <1>1, <1>2
<1>4. \A i \in 1..n : both[m + i] = b[i]
  <2> TAKE i \in 1..n
  <2>1. m + i \in 1..(m + n) /\ ~(m + i <= m) /\ (m + i) - m = i BY <1>1
  <2> HIDE DEF m, n
  <2> QED BY <1>2, <2>1
<1>5. \A i \in 1..(m + n) : (i \in 1..m /\ both[i] = a[i]) \/ (i - m \in 1..n /\ both[i] = b[i - m])
  <2> TAKE i \in 1..(m + n)
  <2>1. i <= m => i \in 1..m BY <1>1
  <2>2. ~(i <= m) => i - m \in 1..n BY <1>1
  <2> HIDE DEF m, n
  <2> QED BY <1>2, <2>1, <2>2
<1>6. Increasing(both)
  <2> SUFFICES ASSUME NEW i \in 1..(m + n), NEW j \in 1..(m + n), i < j PROVE both[i] < both[j]
    BY <1>2 DEF Increasing
  <2>1. CASE j <= m
    <3>1. i \in 1..m /\ j \in 1..m BY <1>1, <2>1
    <3> QED BY <1>3, <3>1 DEF Increasing
  <2>2. CASE ~(i <= m)
    <3>1. i - m \in 1..n /\ j - m \in 1..n /\ i - m < j - m BY <1>1, <2>2
    <3>2. both[i] = b[i - m] /\ both[j] = b[j - m] BY <1>1, <1>2, <2>2
    <3>3. b[i - m] < b[j - m] BY <3>1 DEF Increasing
    <3> QED BY <3>2, <3>3
  <2>3. CASE i <= m /\ ~(j <= m)
    <3>1. i \in 1..m /\ j - m \in 1..n BY <1>1, <2>3
    <3>2. both[i] = a[i] /\ both[j] = b[j - m] BY <1>1, <1>2, <2>3
    <3>3. a[i] \in Nat /\ b[j - m] \in Nat /\ a[i] <= cut /\ b[j - m] > cut BY <3>1
    <3> QED BY <3>2, <3>3
  <2> QED BY <2>1, <2>2, <2>3
<1> QED BY <1>2, <1>3, <1>4, <1>5, <1>6 DEF both

Names(items, k) == \E i \in 1..Len(items) : items[i] = k
\* A reader of a listing has, in order and out of all the keys there ever were, every
\* key that was always there up to its cursor, and at the end every one of them unless
\* the limit came first.
ReadsList(all, always, limit, n) ==
    {s \in Reader :
        /\ Increasing(s.items)
        /\ \A i \in 1..Len(s.items) : s.items[i] \in all
        /\ limit # Unset => Len(s.items) <= limit
        /\ s.more => /\ s.after \in Nat /\ Len(s.items) >= n /\ s.left = Rest(limit, Len(s.items))
                     /\ \A i \in 1..Len(s.items) : s.items[i] <= s.after
                     /\ \A k \in always : k <= s.after => Names(s.items, k)
        /\ ~s.more /\ (limit # Unset => Len(s.items) < limit) => \A k \in always : Names(s.items, k)}

\* A page of it: the keys after the cursor in order, as many as asked, and the last as
\* the next cursor unless they were all.
LEMMA MemoryPageIs ==
  ASSUME NEW keys \in SUBSET Nat, IsFiniteSet(keys), NEW after \in Nat, NEW limit, AskedFor(limit)
  PROVE  LET page == MemoryPage(keys, after, limit) IN
         /\ page \in PageOf /\ Increasing(page.items)
         /\ \A i \in 1..Len(page.items) : page.items[i] \in keys /\ page.items[i] > after
         /\ limit # Unset => Len(page.items) <= limit
         /\ page.next = Unset => limit = 0 \/ \A k \in keys : k > after => Names(page.items, k)
         /\ page.next # Unset => /\ page.next \in Nat /\ Len(page.items) > 0
                                 /\ page.next = page.items[Len(page.items)]
                                 /\ \A k \in keys : k > after /\ k <= page.next => Names(page.items, k)
<1> DEFINE rest == {k \in keys : k > after}
           o == InOrder(rest)
           size == Size(limit)
           page == MemoryPage(keys, after, limit)
<1>0. Unset \notin Int BY PageAssumption
<1>1. CASE limit = 0
  <2>1. page = [items |-> <<>>, next |-> Unset] BY <1>1 DEF MemoryPage, Answered
  <2>2. <<>> \in Seq(Nat) /\ Len(<<>>) = 0 OBVIOUS
  <2> HIDE DEF page
  <2>3. page \in PageOf /\ Increasing(page.items) BY <2>1, <2>2 DEF PageOf, Increasing
  <2> QED BY <1>0, <1>1, <2>1, <2>2, <2>3 DEF page
<1>2. CASE limit # 0
  <2>1. rest \in SUBSET Nat /\ rest \in SUBSET keys OBVIOUS
  <2>2. IsFiniteSet(rest)
    <3> HIDE DEF rest
    <3> QED BY <2>1, FS_Subset
  <2> HIDE DEF rest
  <2>3. /\ o \in Seq(Nat) /\ Increasing(o)
        /\ \A i \in 1..Len(o) : o[i] \in rest
        /\ \A k \in rest : \E i \in 1..Len(o) : o[i] = k
    BY <2>1, <2>2, InOrderIs
  <2>4. page = Paged(o, size) BY <1>2 DEF MemoryPage, ListPage, rest
  <2>5. size \in Nat /\ size > 0 /\ (limit # Unset => size <= limit)
    <3>1. /\ size \in Nat
          /\ limit = Unset => size > 0
          /\ limit # Unset => size <= limit /\ (size = 0 => limit = 0)
      BY SizeIs
    <3> HIDE DEF size
    <3> QED BY <1>2, <3>1
  <2> HIDE DEF page, o, size
  <2>6. \A i \in 1..Len(o) : o[i] \in keys /\ o[i] > after BY <2>3 DEF rest
  <2>7. \A k \in keys : k > after => Names(o, k) BY <2>3 DEF rest, Names
  <2>8. CASE Len(o) <= size
    <3>1. page.items = o /\ page.next = Unset /\ page \in PageOf
      BY <2>3, <2>4, <2>8 DEF Paged, Answered, PageOf
    <3>2. limit # Unset => Len(o) <= limit
      <4>1. Len(o) \in Nat BY <2>3
      <4> QED BY <2>5, <2>8, <4>1 DEF AskedFor
    <3> QED BY <2>3, <2>6, <2>7, <3>1, <3>2 DEF page
  <2>9. CASE ~(Len(o) <= size)
    <3> DEFINE part == SubSeq(o, 1, size)
    <3>1. Len(o) \in Nat /\ size < Len(o) BY <2>3, <2>5, <2>9
    <3>2. part \in Seq(Nat) /\ Len(part) = size /\ \A i \in 1..size : part[i] = o[i]
      BY <2>3, <2>5, <3>1
    <3> HIDE DEF part
    <3>3. page.items = part /\ page.next = o[size] /\ o[size] \in Nat /\ page \in PageOf
      <4>1. page = [items |-> part, next |-> o[size]] BY <2>4, <2>9 DEF Paged, Answered, part
      <4>2. o[size] \in Nat BY <2>3, <2>5, <3>1
      <4> QED BY <3>2, <4>1, <4>2 DEF PageOf
    <3>4. \A i \in 1..size : i \in 1..Len(o) BY <2>5, <3>1
    <3>5. Increasing(part) BY <2>3, <3>2, <3>4 DEF Increasing
    <3>6. \A i \in 1..size : part[i] \in keys /\ part[i] > after BY <2>6, <3>2, <3>4
    <3>7. ASSUME NEW k \in keys, k > after, k <= o[size] PROVE Names(part, k)
      <4>1. PICK i \in 1..Len(o) : o[i] = k BY <2>7, <3>7 DEF Names
      <4>2. ~(size < i)
        <5>1. size \in 1..Len(o) BY <2>5, <3>1
        <5>2. size < i => o[size] < o[i] BY <2>3, <5>1 DEF Increasing
        <5>3. o[size] \in Nat /\ o[i] \in Nat BY <2>3, <5>1
        <5> QED BY <3>7, <4>1, <5>2, <5>3
      <4>3. i \in 1..size BY <2>5, <4>2
      <4> QED BY <3>2, <4>1, <4>3 DEF Names
    <3>8. size \in 1..size BY <2>5
    <3>9. page.next = page.items[Len(page.items)] /\ Len(page.items) > 0 BY <2>5, <3>2, <3>3, <3>8
    <3>10. limit # Unset => Len(page.items) <= limit BY <2>5, <3>2, <3>3
    <3>11. page.next # Unset BY <1>0, <3>3
    <3> QED BY <3>2, <3>3, <3>5, <3>6, <3>7, <3>9, <3>10, <3>11 DEF page
  <2> QED BY <2>8, <2>9
<1> QED BY <1>1, <1>2

LEMMA PageReadsList ==
  ASSUME NEW all \in SUBSET Nat, IsFiniteSet(all), NEW always \in SUBSET all, NEW limit, AskedFor(limit),
         NEW n \in Nat, NEW s \in ReadsList(all, always, limit, n),
         NEW keys \in SUBSET all, always \subseteq keys
  PROVE  Gathered(s, MemoryPage(keys, s.after, s.left)) \in ReadsList(all, always, limit, n + 1)
<1> DEFINE page == MemoryPage(keys, s.after, s.left)
           t == Gathered(s, page)
           a == s.items
           b == page.items
           both == a \o b
           left == IF s.left = Unset THEN Unset ELSE s.left - Len(b)
<1>0. Unset \notin Int /\ (limit # Unset => limit \in Nat) BY PageAssumption DEF AskedFor
<1>1. CASE ~s.more
  <2>1. t = s BY <1>1 DEF Gathered
  <2> HIDE DEF t
  <2>2. t \in ReadsList(all, always, limit, n + 1) BY <1>1, <2>1 DEF ReadsList
  <2> QED BY <2>2 DEF t, page
<1>2. CASE s.more
  <2>1. /\ s \in Reader /\ Increasing(a)
        /\ \A i \in 1..Len(a) : a[i] \in all
        /\ limit # Unset => Len(a) <= limit
        /\ s.after \in Nat /\ Len(a) >= n /\ s.left = Rest(limit, Len(a))
        /\ \A i \in 1..Len(a) : a[i] <= s.after
        /\ \A k \in always : k <= s.after => Names(a, k)
    BY <1>2 DEF ReadsList
  <2>2. a \in Seq(Nat) /\ Len(a) \in Nat BY <2>1 DEF Reader
  <2>3. /\ s.left # Unset <=> limit # Unset
        /\ limit # Unset => s.left = limit - Len(a) /\ s.left \in Nat
        /\ AskedFor(s.left)
    <3> HIDE DEF a
    <3> QED BY <1>0, <2>1, <2>2 DEF Rest, AskedFor
  <2>4. keys \in SUBSET Nat /\ IsFiniteSet(keys) BY FS_Subset
  <2>5. /\ page \in PageOf /\ Increasing(b)
        /\ \A i \in 1..Len(b) : b[i] \in keys /\ b[i] > s.after
        /\ s.left # Unset => Len(b) <= s.left
        /\ page.next = Unset => s.left = 0 \/ \A k \in keys : k > s.after => Names(b, k)
        /\ page.next # Unset => /\ page.next \in Nat /\ Len(b) > 0
                                /\ page.next = b[Len(b)]
                                /\ \A k \in keys : k > s.after /\ k <= page.next => Names(b, k)
    <3>1. s.after \in Nat BY <2>1
    <3> QED BY <2>3, <2>4, <3>1, MemoryPageIs
  <2> HIDE DEF page, a
  <2>6. b \in Seq(Nat) /\ Len(b) \in Nat BY <2>5 DEF PageOf
  <2> HIDE DEF b
  <2>7. /\ both \in Seq(Nat) /\ Len(both) = Len(a) + Len(b) /\ Increasing(both)
        /\ \A i \in 1..Len(a) : both[i] = a[i]
        /\ \A i \in 1..Len(b) : both[Len(a) + i] = b[i]
        /\ \A i \in 1..Len(both) : \/ i \in 1..Len(a) /\ both[i] = a[i]
                                   \/ i - Len(a) \in 1..Len(b) /\ both[i] = b[i - Len(a)]
    <3>1. s.after \in Nat BY <2>1
    <3> QED BY <2>1, <2>2, <2>5, <2>6, <3>1, JoinIs
  <2> HIDE DEF both
  <2>8. \A i \in 1..Len(both) : both[i] \in all BY <2>1, <2>5, <2>7
  <2>9. \A k : Names(a, k) \/ Names(b, k) => Names(both, k)
    <3>1. ASSUME NEW k, NEW i \in 1..Len(a), a[i] = k PROVE Names(both, k)
      <4>1. i \in 1..Len(both) /\ both[i] = k BY <2>2, <2>6, <2>7, <3>1
      <4> QED BY <4>1 DEF Names
    <3>2. ASSUME NEW k, NEW i \in 1..Len(b), b[i] = k PROVE Names(both, k)
      <4>1. Len(a) + i \in 1..Len(both) BY <2>2, <2>6, <2>7
      <4>2. both[Len(a) + i] = k BY <2>7, <3>2
      <4> QED BY <4>1, <4>2 DEF Names
    <3> QED BY <3>1, <3>2 DEF Names
  <2>10. left = Rest(limit, Len(both))
    <3>1. limit = Unset => left = Unset BY <2>3
    <3>2. limit # Unset => left = (limit - Len(a)) - Len(b) BY <2>3
    <3>3. limit # Unset => left = limit - Len(both) BY <1>0, <2>2, <2>6, <2>7, <3>2
    <3> QED BY <3>1, <3>3 DEF Rest
  <2>11. limit # Unset => Len(both) <= limit /\ (left > 0 <=> Len(both) < limit) /\ left # Unset
    <3>1. limit # Unset => Len(b) <= limit - Len(a) BY <2>3, <2>5
    <3>2. limit # Unset => left = limit - Len(both) BY <2>10 DEF Rest
    <3> HIDE DEF left
    <3> QED BY <1>0, <2>2, <2>6, <2>7, <3>1, <3>2
  <2>12. left # Unset => limit # Unset BY <2>3
  <2>13. t = [items |-> both, after |-> page.next, left |-> left,
              more |-> page.next # Unset /\ b # <<>> /\ (left # Unset => left > 0)]
    BY <1>2 DEF Gathered, both, left, a, b, page, t
  <2> HIDE DEF left, t
  <2>14. t \in Reader
    <3>1. left \in Int \cup {Unset} BY <1>0, <2>7, <2>10 DEF Rest
    <3>2. page.next \in Nat \cup {Unset} BY <2>5
    <3> QED BY <2>7, <2>13, <3>1, <3>2 DEF Reader
  <2>15. /\ t.items = both /\ t.after = page.next /\ t.left = left
         /\ t.more <=> page.next # Unset /\ b # <<>> /\ (left # Unset => left > 0)
    BY <2>13
  <2>16. page.next # Unset => b # <<>>
    <3>1. b = <<>> => Len(b) = 0 BY EmptySeq, Zenon
    <3> QED BY <2>5, <2>6, <3>1
  <2>17. ASSUME t.more
         PROVE /\ t.after \in Nat /\ Len(both) >= n + 1 /\ t.left = Rest(limit, Len(both))
               /\ \A i \in 1..Len(both) : both[i] <= t.after
               /\ \A k \in always : k <= t.after => Names(both, k)
    <3>1. /\ page.next \in Nat /\ Len(b) > 0 /\ page.next = b[Len(b)]
          /\ \A k \in keys : k > s.after /\ k <= page.next => Names(b, k)
      BY <2>5, <2>15, <2>17
    <3>2. Len(both) >= n + 1 BY <2>1, <2>2, <2>6, <2>7, <3>1
    <3>3. Len(b) \in 1..Len(b) BY <2>6, <3>1
    <3>4. \A i \in 1..Len(b) : b[i] <= page.next
      <4> TAKE i \in 1..Len(b)
      <4>1. i = Len(b) \/ i < Len(b) BY <2>6
      <4>2. i < Len(b) => b[i] < b[Len(b)] BY <2>5, <3>3 DEF Increasing
      <4>3. b[i] \in Nat /\ b[Len(b)] \in Nat BY <2>6, <3>3
      <4> QED BY <3>1, <4>1, <4>2, <4>3
    <3>5. s.after < page.next BY <2>5, <3>1, <3>3
    <3>6. \A i \in 1..Len(a) : a[i] <= page.next
      <4> TAKE i \in 1..Len(a)
      <4>1. a[i] \in Nat /\ a[i] <= s.after /\ s.after \in Nat BY <2>1, <2>2
      <4> QED BY <3>1, <3>5, <4>1
    <3>7. \A i \in 1..Len(both) : both[i] <= page.next BY <2>7, <3>4, <3>6
    <3>8. ASSUME NEW k \in always, k <= page.next PROVE Names(both, k)
      <4>1. k \in Nat /\ k \in keys /\ s.after \in Nat BY <2>1
      <4>2. k <= s.after => Names(a, k) BY <2>1
      <4>3. k > s.after => Names(b, k) BY <3>1, <3>8, <4>1
      <4> QED BY <2>9, <4>1, <4>2, <4>3
    <3> QED BY <2>10, <2>15, <3>1, <3>2, <3>7, <3>8
  <2>18. ASSUME ~t.more, limit # Unset => Len(both) < limit, NEW k \in always PROVE Names(both, k)
    <3>1. left # Unset => left > 0 BY <2>11, <2>12, <2>18
    <3>2. page.next = Unset BY <2>15, <2>16, <2>18, <3>1
    <3>3. s.left # 0
      <4>1. s.left = 0 => limit # Unset /\ limit = Len(a) BY <1>0, <2>2, <2>3
      <4>2. limit # Unset => Len(a) < limit BY <1>0, <2>2, <2>6, <2>7, <2>18
      <4> QED BY <1>0, <2>2, <4>1, <4>2
    <3>4. k > s.after => Names(b, k) BY <2>5, <3>2, <3>3
    <3>5. k <= s.after => Names(a, k) BY <2>1
    <3>6. k \in Nat /\ s.after \in Nat BY <2>1
    <3> QED BY <2>9, <3>4, <3>5, <3>6
  <2>19. t \in ReadsList(all, always, limit, n + 1)
    BY <2>7, <2>8, <2>11, <2>14, <2>15, <2>17, <2>18 DEF ReadsList
  <2> QED BY <2>19 DEF t, page
<1> QED BY <1>1, <1>2

LEMMA ReadsListLess ==
  ASSUME NEW all, NEW always, NEW limit, NEW n \in Nat, NEW k \in Nat, k <= n
  PROVE  ReadsList(all, always, limit, n) \subseteq ReadsList(all, always, limit, k)
<1> SUFFICES ASSUME NEW s \in ReadsList(all, always, limit, n) PROVE s \in ReadsList(all, always, limit, k) OBVIOUS
<1>1. s \in Reader BY DEF ReadsList
<1>2. Len(s.items) \in Nat BY <1>1 DEF Reader
<1>3. Len(s.items) >= n => Len(s.items) >= k BY <1>2
<1> QED BY <1>3 DEF ReadsList

\* A strictly increasing sequence has no more members than the set it is drawn from.
LEMMA NoLonger ==
  ASSUME NEW items \in Seq(Nat), Increasing(items), NEW all, IsFiniteSet(all),
         \A i \in 1..Len(items) : items[i] \in all
  PROVE  Len(items) <= Cardinality(all)
<1> DEFINE n == Len(items)
           f == [i \in 1..n |-> items[i]]
<1>1. n \in Nat OBVIOUS
<1>2. f \in [1..n -> all] OBVIOUS
<1>3. ASSUME NEW i \in 1..n, NEW j \in 1..n, f[i] = f[j] PROVE i = j
  <2>1. items[i] = items[j] /\ items[i] \in Nat BY <1>3
  <2>2. ~(i < j) BY <2>1 DEF Increasing
  <2>3. ~(j < i) BY <2>1 DEF Increasing
  <2> QED BY <1>1, <2>2, <2>3
<1> HIDE DEF f, n
<1>4. f \in Injection(1..n, all) BY <1>2, <1>3 DEF Injection, IsInjective
<1>5. Cardinality(1..n) <= Cardinality(all) BY <1>4, FS_Injection
<1>6. Cardinality(1..n) = IF 1 > n THEN 0 ELSE n - 1 + 1 BY <1>1, FS_Interval
<1> QED BY <1>1, <1>5, <1>6 DEF n

\* A listing read through pages while documents come and go.
LEMMA ListingIs ==
  ASSUME NEW all \in SUBSET Nat, IsFiniteSet(all), 0 \notin all, NEW worlds \in Seq(SUBSET all), Len(worlds) > 0,
         UNION ToSet(worlds) = all, NEW limit, AskedFor(limit)
  PROVE  LET listed == Listing(worlds, limit)
             always == {k \in all : \A i \in 1..Len(worlds) : k \in worlds[i]} IN
         /\ listed \in Seq(Nat) /\ Increasing(listed)
         /\ \A i \in 1..Len(listed) : listed[i] \in all
         /\ limit # Unset => Len(listed) <= limit
         /\ (limit # Unset => Len(listed) < limit) => \A k \in always : Names(listed, k)
<1> DEFINE always == {k \in all : \A i \in 1..Len(worlds) : k \in worlds[i]}
           N == Cardinality(all) + 1
           next(s, n) == Gathered(s, MemoryPage(During(worlds, n), s.after, s.left))
           U == ReadsList(all, always, limit, 0)
           R == [n \in 0..N |-> ReadsList(all, always, limit, n)]
           step == [s \in U |-> [n \in 1..N |-> IF s \in R[n - 1] THEN next(s, n) ELSE s]]
           start == Begun(0, limit)
<1>0. N \in Nat /\ N > 0 /\ Unset \notin Int /\ (limit # Unset => limit \in Nat)
  BY PageAssumption, FS_CardinalityType DEF AskedFor
<1>1. ASSUME NEW n \in 1..N PROVE During(worlds, n) \in SUBSET all /\ always \subseteq During(worlds, n)
  <2>1. n \in Nat \ {0} /\ Len(worlds) \in Nat \ {0} BY <1>0
  <2>2. Least(n, Len(worlds)) \in 1..Len(worlds) BY <2>1, LeastIn
  <2> QED BY <2>2 DEF During
<1>2. always \in SUBSET all OBVIOUS
<1> HIDE DEF always
<1>3. ASSUME NEW n \in 1..N, NEW s \in ReadsList(all, always, limit, n - 1)
      PROVE  next(s, n) \in ReadsList(all, always, limit, n)
  <2>1. n - 1 \in Nat /\ (n - 1) + 1 = n BY <1>0
  <2> DEFINE keys == During(worlds, n)
  <2>2. keys \in SUBSET all /\ always \subseteq keys BY <1>1
  <2> HIDE DEF keys
  <2>3. Gathered(s, MemoryPage(keys, s.after, s.left)) \in ReadsList(all, always, limit, (n - 1) + 1)
    BY <1>2, <2>1, <2>2, PageReadsList
  <2> QED BY <2>1, <2>3 DEF keys
<1> HIDE DEF next, N
<1>4. ASSUME NEW n \in Nat PROVE ReadsList(all, always, limit, n) \subseteq U BY ReadsListLess
<1>5. R \in [0..N -> SUBSET U]
  <2>1. \A n \in 0..N : ReadsList(all, always, limit, n) \subseteq U BY <1>4
  <2> HIDE DEF U
  <2> QED BY <2>1
<1>6. \A n \in 1..N : \A s \in R[n - 1] : next(s, n) \in R[n]
  <2> TAKE n \in 1..N
  <2>1. n - 1 \in 0..N /\ n \in 0..N BY <1>0
  <2> QED BY <1>3, <2>1
<1>7. step \in [U -> [1..N -> U]]
  <2>1. ASSUME NEW s \in U, NEW n \in 1..N PROVE (IF s \in R[n - 1] THEN next(s, n) ELSE s) \in U
    <3>1. n \in 0..N BY <1>0
    <3>2. R[n] \subseteq U BY <1>5, <3>1
    <3> HIDE DEF U, R
    <3> QED BY <1>6, <2>1, <3>2
  <2> HIDE DEF U, R
  <2> QED BY <2>1
<1>8. start \in R[0]
  <2>1. start = [items |-> <<>>, after |-> 0, left |-> limit, more |-> TRUE] BY DEF Begun
  <2> HIDE DEF start
  <2>2. start \in Reader /\ start.more BY <2>1 DEF Reader, AskedFor
  <2>3. start.items \in Seq(Nat) /\ Len(start.items) = 0 BY <2>1
  <2>4. start.left = Rest(limit, 0) BY <1>0, <2>1 DEF Rest
  <2>5. \A k \in always : k \in Nat /\ k # 0 BY <1>2
  <2>6. \A k \in always : ~(k <= start.after)
    <3>1. start.after = 0 BY <2>1
    <3> QED BY <2>5, <3>1
  <2>7. start.after \in Nat BY <2>1
  <2>8. Increasing(start.items) BY <2>3 DEF Increasing
  <2>9. start \in ReadsList(all, always, limit, 0) BY <1>0, <2>2, <2>3, <2>4, <2>6, <2>7, <2>8 DEF ReadsList
  <2> QED BY <1>0, <2>9
<1>9. \A n \in 1..N : \A s \in R[n - 1] : step[s][n] \in R[n] /\ step[s][n] = next(s, n)
  <2> TAKE n \in 1..N
  <2> TAKE s \in R[n - 1]
  <2>1. n - 1 \in 0..N BY <1>0
  <2>2. s \in U BY <1>5, <2>1
  <2>3. step[s][n] = next(s, n)
    <3> HIDE DEF U, R
    <3> QED BY <2>2
  <2> HIDE DEF step, R
  <2> QED BY <1>6, <2>3
<1> HIDE DEF R, step, U, start
<1>10. PICK f : Guided(f, N, start, step) /\ \A n \in 0..N : f[n] \in R[n]
  BY <1>0, <1>5, <1>7, <1>8, <1>9, GuideExists
<1> DEFINE Runs(g) == g = [n \in 0..N |-> IF n = 0 THEN start ELSE next(g[n - 1], n)]
           run == CHOOSE g : Runs(g)
<1>11. Runs(f)
  <2>1. ASSUME NEW n \in 0..N, n # 0 PROVE step[f[n - 1]][n] = next(f[n - 1], n)
    <3>1. n \in 1..N /\ n - 1 \in 0..N BY <1>0, <2>1
    <3> QED BY <1>9, <1>10, <3>1
  <2> QED BY <1>10, <2>1 DEF Guided
<1>12. Runs(run) BY <1>11
<1>13. Listing(worlds, limit) = run[N].items BY DEF Listing, N, start, next
<1> HIDE DEF run
<1>14. run[0] = start /\ \A n \in 1..N : run[n] = next(run[n - 1], n)
  <2>1. \A n \in 0..N : run[n] = IF n = 0 THEN start ELSE next(run[n - 1], n) BY <1>12
  <2>2. 0 \in 0..N /\ \A n \in 1..N : n \in 0..N /\ n # 0 BY <1>0
  <2> QED BY <2>1, <2>2
<1>15. \A n \in 1..N : run[n - 1] \in R[n - 1] => run[n] \in R[n] BY <1>6, <1>14
<1>16. \A n \in 0..N : run[n] \in R[n] BY <1>0, <1>8, <1>14, <1>15, Stays
<1> DEFINE last == run[N]
<1>17. last \in ReadsList(all, always, limit, N)
  <2>1. N \in 0..N BY <1>0
  <2> QED BY <1>16, <2>1 DEF R
<1> HIDE DEF last
<1>18. last.items \in Seq(Nat) /\ Increasing(last.items) /\ \A i \in 1..Len(last.items) : last.items[i] \in all
  BY <1>17 DEF ReadsList, Reader
<1>19. Len(last.items) < N
  <2>1. Len(last.items) <= Cardinality(all) BY <1>18, NoLonger
  <2>2. Len(last.items) \in Nat /\ Cardinality(all) \in Nat BY <1>18, FS_CardinalityType
  <2> QED BY <2>1, <2>2 DEF N
<1>20. ~last.more
  <2>1. last.more => Len(last.items) >= N BY <1>17 DEF ReadsList
  <2>2. Len(last.items) \in Nat BY <1>18
  <2> QED BY <1>0, <1>19, <2>1, <2>2
<1>21. /\ limit # Unset => Len(last.items) <= limit
       /\ (limit # Unset => Len(last.items) < limit) => \A k \in always : Names(last.items, k)
  BY <1>17, <1>20 DEF ReadsList
<1>22. Listing(worlds, limit) = last.items BY <1>13 DEF last
<1> QED BY <1>18, <1>21, <1>22 DEF always

(***************************************************************************)
(* Tokens, requests and errors.                                            *)
(***************************************************************************)
LEMMA TokenNamesOwn ==
  ASSUME NEW T, Junk \notin T, NEW A, NEW entries \in Seq([actor : A, token : T]), ParseClients(entries) # Unset
  PROVE  LET clients == ParseClients(entries) IN
         /\ \A i \in DOMAIN clients : Bearer(clients, clients[i].token) = clients[i].actor
         /\ Bearer(clients, Junk) = Unset
<1> DEFINE clients == ParseClients(entries)
           of(token) == {i \in DOMAIN clients : clients[i].token = token}
<1>1. clients = entries /\ \A i \in DOMAIN entries : ~Repeats(entries, i) BY DEF ParseClients
<1> HIDE DEF clients
<1>2. DOMAIN clients = 1..Len(entries) /\ Len(entries) \in Nat BY <1>1
<1>3. ASSUME NEW i \in DOMAIN clients PROVE Bearer(clients, clients[i].token) = clients[i].actor
  <2>1. ASSUME NEW j \in DOMAIN clients, clients[j].token = clients[i].token PROVE j = i
    <3>1. j < i => j \in 1..(i - 1) BY <1>2
    <3>2. i < j => i \in 1..(j - 1) BY <1>2
    <3>3. ~(j < i) /\ ~(i < j) BY <1>1, <2>1, <3>1, <3>2 DEF Repeats
    <3> QED BY <1>2, <3>3
  <2>2. of(clients[i].token) = {i} BY <2>1
  <2>3. Max({i}) = i
    <3>1. \A x \in {i} : (\A y \in {i} : x >= y) <=> x = i BY <1>2
    <3> QED BY <3>1 DEF Max
  <2> QED BY <2>2, <2>3 DEF Bearer
<1>4. of(Junk) = {}
  <2>1. \A i \in 1..Len(entries) : entries[i].token \in T
    <3> DEFINE E == [actor : A, token : T]
    <3>1. \A x \in E : x.token \in T OBVIOUS
    <3>2. entries \in Seq(E) OBVIOUS
    <3> HIDE DEF E
    <3>3. \A i \in 1..Len(entries) : entries[i] \in E BY <3>2
    <3> QED BY <3>1, <3>3
  <2> QED BY <1>1, <1>2, <2>1
<1>5. Bearer(clients, Junk) = Unset BY <1>4 DEF Bearer
<1> QED BY <1>3, <1>5 DEF clients

\* What a route does tells what a grant has to say.
LEMMA RouteIs ==
  ASSUME NEW route \in Routes
  PROVE  /\ route \in MemoryRoutes => /\ route \notin StoreRoutes \cup ListRoutes
                                      /\ Effect(route) = "read" <=> route \notin MemoryWrites \cup MemoryErases
         /\ route \in StoreRoutes => route \notin ListRoutes
         /\ route \in ListRoutes => Effect(route) = "read" /\ route \notin TurnAppends \cup TurnErases
         /\ route \notin MemoryRoutes \cup StoreRoutes \cup ListRoutes =>
              /\ route \in TurnReads \cup TurnAppends \cup TurnErases
              /\ Effect(route) = "read" <=> route \notin TurnAppends \cup TurnErases
         /\ Effect(route) = "erase" => Erases(route)
BY DEF Routes, MemoryRoutes, MemoryReads, MemoryWrites, MemoryErases, TurnReads, TurnAppends, TurnErases,
       ListRoutes, StoreRoutes, Effect, Erases

LEMMA ReachIsWithin ==
  ASSUME NEW c, NEW g, NEW route \in Routes, NEW p, Answers(c, g, route, p), NEW t \in Reach(route, p)
  PROVE  Within(c, g, route, t)
<1> DEFINE store == route \in StoreRoutes
<1>1. ClientAllows(c, route, p) /\ (g # Unset => GrantsAllow(g, route, p)) BY DEF Answers
<1>2. /\ c.scopes # Unset => Constrained(c)
      /\ ~Constrained(c) => \A n : MayScope(c, n) /\ MayConversation(c, n)
  BY DEF Constrained, MayScope, MayConversation
<1>3. CASE route \in MemoryRoutes
  <2>1. /\ route \notin StoreRoutes \cup ListRoutes
        /\ Effect(route) = "read" <=> route \notin MemoryWrites \cup MemoryErases
        /\ Effect(route) = "erase" => Erases(route)
    BY <1>3, RouteIs
  <2>2. p.scope \in Name /\ t = [kind |-> "scope", name |-> p.scope, effect |-> Effect(route)]
    BY <1>3, <2>1 DEF Reach
  <2>3. MayScope(c, p.scope) BY <1>1, <1>2, <2>2 DEF ClientAllows
  <2>4. g # Unset => /\ Erases(route) => g.operator
                     /\ \E s \in g.scopes : s.scope = p.scope /\ IF route \in MemoryWrites \cup MemoryErases THEN s.write ELSE s.read
    BY <1>1, <1>3 DEF GrantsAllow
  <2> HIDE DEF store
  <2>5. t.kind = "scope" /\ t.name = p.scope /\ t.effect = Effect(route) BY <2>2
  <2> QED BY <2>1, <2>3, <2>4, <2>5 DEF Within
<1>4. CASE route \in StoreRoutes
  <2>1. ~Constrained(c) BY <1>1, <1>4 DEF ClientAllows
  <2>2. g # Unset => g.operator BY <1>1, <1>4 DEF GrantsAllow
  <2> QED BY <1>2, <1>4, <2>1, <2>2 DEF Within
<1>5. CASE route \in ListRoutes
  <2>1. /\ route \notin StoreRoutes \cup MemoryRoutes \cup TurnAppends \cup TurnErases /\ Effect(route) = "read"
    BY <1>5, RouteIs
  <2>2. /\ t.kind = "conversation" /\ t.effect = "read" /\ t.name \in Name
        /\ p.conversations # Unset => IsList(p.conversations) /\ t.name \in Listed(p.conversations)
    <3>1. t \in {[kind |-> "conversation", name |-> n, effect |-> Effect(route)] :
                   n \in IF p.conversations = Unset THEN Name
                         ELSE IF IsList(p.conversations) /\ Listed(p.conversations) \subseteq Name
                         THEN Listed(p.conversations) ELSE {}}
      BY <1>5, <2>1 DEF Reach
    <3> QED BY <2>1, <3>1
  <2>3. IsList(p.conversations) => p.conversations # Unset BY DEF IsList
  <2>4. MayConversation(c, t.name)
    <3>1. CASE Constrained(c)
      <4>1. IsList(p.conversations) /\ \A id \in Listed(p.conversations) \cap Name : MayConversation(c, id)
        BY <1>1, <1>5, <3>1 DEF ClientAllows
      <4> QED BY <2>2, <2>3, <4>1
    <3> QED BY <1>2, <3>1
  <2>5. g # Unset => \E s \in g.conversations : t.name \in s.ids /\ s.read
    <3> SUFFICES ASSUME g # Unset PROVE \E s \in g.conversations : t.name \in s.ids /\ s.read OBVIOUS
    <3>1. GrantsAllow(g, route, p) BY <1>1
    <3>2. /\ IsList(p.conversations)
          /\ \A id \in Listed(p.conversations) : \E s \in g.conversations :
                id \in s.ids /\ IF route \in TurnAppends \cup TurnErases THEN s.append ELSE s.read
      BY <1>5, <3>1 DEF GrantsAllow
    <3> QED BY <2>1, <2>2, <2>3, <3>2
  <2> QED BY <2>1, <2>2, <2>4, <2>5 DEF Within
<1>6. CASE route \notin MemoryRoutes \cup StoreRoutes \cup ListRoutes
  <2>1. /\ route \in TurnReads \cup TurnAppends \cup TurnErases
        /\ Effect(route) = "read" <=> route \notin TurnAppends \cup TurnErases
        /\ Effect(route) = "erase" => Erases(route)
    BY <1>6, RouteIs
  <2>2. p.conversation_id \in Name /\ t = [kind |-> "conversation", name |-> p.conversation_id, effect |-> Effect(route)]
    BY <1>6 DEF Reach
  <2>3. MayConversation(c, p.conversation_id) BY <1>1, <1>2, <2>2 DEF ClientAllows
  <2>4. g # Unset => /\ Erases(route) => g.operator
                     /\ \E s \in g.conversations :
                          p.conversation_id \in s.ids /\ IF route \in TurnAppends \cup TurnErases THEN s.append ELSE s.read
    BY <1>1, <2>1 DEF GrantsAllow
  <2>5. t.kind = "conversation" /\ t.name = p.conversation_id /\ t.effect = Effect(route) BY <2>2
  <2> QED BY <1>6, <2>1, <2>3, <2>4, <2>5 DEF Within
<1> QED BY <1>3, <1>4, <1>5, <1>6

LEMMA MeaningKept ==
  ASSUME Unset \notin Codes, NEW e, e.kind \in {"memory", "value", "io"}, e.code \in Codes
  PROVE  LET d == Decode(Fail(e)) IN
         /\ d.refused = (e.kind # "io")
         /\ e.kind = "memory" /\ e.code \in Acted /\ e.details # Junk => d.code = e.code /\ d.details = e.details
         /\ d.code \in Acted => e.kind = "memory" /\ e.code = d.code
<1> DEFINE f == Fail(e)
           d == Decode(f)
<1>1. Unset \notin Acted /\ \A k \in {"value_error", "agent_configuration_error", "neosian_error"} : k \notin Acted /\ k # Unset
  BY DEF Codes, Acted
<1>2. CASE e.kind = "io"
  <2>1. f.code = Unset BY <1>2 DEF Fail
  <2> HIDE DEF f
  <2>2. d.refused = FALSE /\ d.code = Unset BY <2>1 DEF Decode
  <2> QED BY <1>1, <1>2, <2>2 DEF f
<1>3. CASE e.kind = "value"
  <2>1. f.code = "value_error" BY <1>3 DEF Fail
  <2> HIDE DEF f
  <2>2. d.refused = TRUE /\ d.code = "value_error" BY <1>1, <2>1 DEF Decode
  <2> QED BY <1>1, <1>3, <2>2 DEF f
<1>4. CASE e.kind = "memory"
  <2>1. f.code = e.code /\ f.details = e.details BY <1>4 DEF Fail
  <2> HIDE DEF f
  <2>2. f.code # Unset BY <2>1
  <2>3. d.refused = TRUE BY <2>2 DEF Decode
  <2>4. e.code \in Acted /\ e.details # Junk => d.code = e.code /\ d.details = e.details
    BY <2>1, <2>2 DEF Decode, Typed
  <2>5. d.code \in Acted => e.code = d.code
    <3>1. d.code = f.code \/ d.code = "neosian_error" BY <2>2 DEF Decode
    <3> QED BY <1>1, <2>1, <3>1
  <2> QED BY <1>4, <2>3, <2>4, <2>5 DEF f
<1> QED BY <1>2, <1>3, <1>4

(***************************************************************************)
(* The rules.                                                              *)
(***************************************************************************)
\* Inputs of any size: any clients, any request, any rows and any history of them.
Entries == [actor : Name \cup {Junk}, token : Name \cup {Unset}]
Grants ==
    [scopes : SUBSET [scope : Name, read : BOOLEAN, write : BOOLEAN],
     conversations : SUBSET [ids : SUBSET Name, read : BOOLEAN, append : BOOLEAN], operator : BOOLEAN]
Reaches ==
    [client : [scopes : {Unset} \cup SUBSET Name, conversations : {Unset} \cup SUBSET Name],
     route : Routes, grants : {Unset} \cup Grants]
Worlds == {w \in Seq(SUBSET (Nat \ {0})) : Len(w) > 0 /\ \A i \in 1..Len(w) : IsFiniteSet(w[i])}
AnyTokens == Of("tokens", Seq(Entries))
AnyAccess == Of("access", Reaches)
AnyPages == Of("pages", [rows : {s \in Seq(Nat \ {0}) : Ordered(s)}, limit : Nat \cup {Unset}])
AnyListing == Of("listing", [worlds : Worlds, limit : Nat \cup {Unset}])
AnyHistory == Of("history", [heads : {h \in Seq(Nat) : Len(h) > 0 /\ Ordered(h)}, limit : (Nat \ {0}) \cup {Unset}])
AnyErrors == Of("errors", [kind : {"memory", "value", "io"}, code : Codes, details : Name \cup {Junk}])
AnyServingInput == UNION {AnyTokens, AnyAccess, AnyPages, AnyListing, AnyHistory, AnyErrors}

\* The rule an input is for tells its type.
LEMMA ServingInputByRule ==
  ASSUME NEW i \in AnyServingInput
  PROVE  /\ i.rule = "tokens" => i \in AnyTokens
         /\ i.rule = "access" => i \in AnyAccess
         /\ i.rule = "pages" => i \in AnyPages
         /\ i.rule = "listing" => i \in AnyListing
         /\ i.rule = "history" => i \in AnyHistory
         /\ i.rule = "errors" => i \in AnyErrors
<1>1. /\ i \in AnyTokens => i.rule = "tokens"
      /\ i \in AnyAccess => i.rule = "access"
      /\ i \in AnyPages => i.rule = "pages"
      /\ i \in AnyListing => i.rule = "listing"
      /\ i \in AnyHistory => i.rule = "history"
      /\ i \in AnyErrors => i.rule = "errors"
  <2>1. \A rule, inputs : i \in Of(rule, inputs) => i.rule = rule BY DEF Of
  <2> QED BY <2>1, Zenon DEF AnyTokens, AnyAccess, AnyPages, AnyListing, AnyHistory, AnyErrors
<1>2. i \in AnyTokens \/ i \in AnyAccess \/ i \in AnyPages \/ i \in AnyListing \/ i \in AnyHistory \/ i \in AnyErrors
  BY DEF AnyServingInput
<1> QED BY <1>1, <1>2

\* For any names, any number of clients, any page size, rows, limits and changes
\* between the calls: a token names one client, a request reaches what the client was
\* given, what is read through pages is what one read gives, and a refusal keeps its
\* meaning on the wire.
THEOREM ServingRulesHold ==
  ASSUME Unset \notin Codes, input \in AnyServingInput
  PROVE  ServingRules
<1> DEFINE r == input.in
<1>1. TokensNameOne
  <2> SUFFICES ASSUME Is("tokens"), ParseClients(r) # Unset
               PROVE  LET clients == ParseClients(r) IN
                      /\ \A i \in DOMAIN clients : Bearer(clients, clients[i].token) = clients[i].actor
                      /\ Bearer(clients, Junk) = Unset
    BY DEF TokensNameOne
  <2>1. r \in Seq(Entries)
    <3>1. input \in AnyTokens BY ServingInputByRule DEF Is
    <3> QED BY <3>1 DEF AnyTokens, Of
  <2>2. Junk \notin Name \cup {Unset} BY ValuesAssumption
  <2> HIDE DEF r
  <2> QED BY <2>1, <2>2, TokenNamesOwn DEF Entries
<1>2. NothingBeyondReach
  <2> SUFFICES ASSUME Is("access"), NEW p \in Payloads, Answers(r.client, r.grants, r.route, p),
                      NEW t \in Reach(r.route, p)
               PROVE  Within(r.client, r.grants, r.route, t)
    BY DEF NothingBeyondReach
  <2>1. r.route \in Routes
    <3>1. input \in AnyAccess BY ServingInputByRule DEF Is
    <3>2. r \in Reaches BY <3>1 DEF AnyAccess, Of
    <3> QED BY <3>2 DEF Reaches
  <2> HIDE DEF r
  <2> QED BY <2>1, ReachIsWithin
<1>3. PagesAreWhole
  <2> SUFFICES ASSUME Is("pages")
               PROVE  /\ Follow("projections", r.rows, r.limit) = ReadRows(r.rows, 0, r.limit)
                      /\ (\A i, j \in DOMAIN r.rows : i < j => r.rows[i] < r.rows[j])
                           => Follow("turns", r.rows, r.limit) = ReadRows(r.rows, 0, r.limit)
    BY DEF PagesAreWhole
  <2>1. r.rows \in Seq(Nat \ {0}) /\ Ordered(r.rows) /\ AskedFor(r.limit)
    <3>1. input \in AnyPages BY ServingInputByRule DEF Is
    <3> QED BY <3>1 DEF AnyPages, Of, AskedFor
  <2> DEFINE rows == r.rows
             limit == r.limit
  <2> HIDE DEF r
  <2>2. rows \in Seq(Nat) /\ \A i \in 1..Len(rows) : rows[i] > 0
    <3>1. \A i \in 1..Len(rows) : rows[i] \in Nat /\ rows[i] > 0 BY <2>1
    <3> QED BY <2>1, <3>1
  <2>3. DOMAIN rows = 1..Len(rows) BY <2>1
  <2> HIDE DEF rows, limit
  <2>4. Ordered(rows) /\ AskedFor(limit) BY <2>1 DEF rows, limit
  <2>5. ReadRows(rows, 0, limit) = Cut(rows, limit) BY <2>2, <2>4, ReadAtOnce
  <2>6. Follow("projections", rows, limit) = Cut(rows, limit)
    <3>1. "projections" # "turns" OBVIOUS
    <3> QED BY <2>2, <2>4, <3>1, FollowIsCut
  <2>7. Increasing(rows) => Follow("turns", rows, limit) = Cut(rows, limit) BY <2>2, <2>4, FollowIsCut
  <2>8. (\A i, j \in DOMAIN rows : i < j => rows[i] < rows[j]) => Increasing(rows) BY <2>3 DEF Increasing
  <2> QED BY <2>5, <2>6, <2>7, <2>8 DEF rows, limit
<1>4. ListingSteady
  <2> DEFINE all == UNION ToSet(r.worlds)
             listed == Listing(r.worlds, r.limit)
             throughout == {k \in all : \A i \in DOMAIN r.worlds : k \in r.worlds[i]}
  <2> SUFFICES ASSUME Is("listing")
               PROVE  /\ Scannable(listed)
                      /\ ToSet(listed) \subseteq all
                      /\ IF r.limit = Unset THEN throughout \subseteq ToSet(listed)
                         ELSE /\ Len(listed) <= r.limit
                              /\ Len(listed) < r.limit => throughout \subseteq ToSet(listed)
    BY DEF ListingSteady
  <2> DEFINE w == r.worlds
             limit == r.limit
  <2>1. w \in Seq(SUBSET (Nat \ {0})) /\ Len(w) > 0 /\ (\A i \in 1..Len(w) : IsFiniteSet(w[i])) /\ AskedFor(limit)
    <3>1. input \in AnyListing BY ServingInputByRule DEF Is
    <3>2. r.worlds \in Worlds /\ AskedFor(r.limit) BY <3>1 DEF AnyListing, Of, AskedFor
    <3> QED BY <3>2 DEF Worlds
  <2> HIDE DEF r
  <2> HIDE DEF w, limit
  <2>2. all = UNION ToSet(w) /\ listed = Listing(w, limit) BY DEF w, limit
  <2>3. ToSet(w) = {w[i] : i \in 1..Len(w)} BY <2>1 DEF ToSet
  <2>4. all \in SUBSET Nat /\ 0 \notin all /\ w \in Seq(SUBSET all)
    <3>1. \A i \in 1..Len(w) : w[i] \in SUBSET (Nat \ {0}) /\ w[i] \in SUBSET all BY <2>1, <2>2, <2>3
    <3>2. \A k \in all : \E i \in 1..Len(w) : k \in w[i] BY <2>2, <2>3
    <3> HIDE DEF all
    <3>3. \A k \in all : k \in Nat /\ k # 0 BY <3>1, <3>2
    <3> QED BY <2>1, <3>1, <3>3
  <2>5. IsFiniteSet(all)
    <3> DEFINE f == [i \in 1..Len(w) |-> w[i]]
    <3>1. f \in Surjection(1..Len(w), ToSet(w)) BY <2>3 DEF Surjection
    <3>2. Len(w) \in Nat BY <2>1
    <3>3. IsFiniteSet(1..Len(w)) BY <3>2, FS_Interval
    <3> HIDE DEF f
    <3>4. IsFiniteSet(ToSet(w)) BY <3>1, <3>3, FS_Surjection
    <3>5. \A T \in ToSet(w) : IsFiniteSet(T) BY <2>1, <2>3
    <3> QED BY <2>2, <3>4, <3>5, FS_UNION
  <2>6. DOMAIN r.worlds = 1..Len(w) BY <2>1 DEF w
  <2>7. throughout = {k \in all : \A i \in 1..Len(w) : k \in w[i]}
    <3> HIDE DEF all
    <3> QED BY <2>6 DEF w
  <2> HIDE DEF all, listed, throughout
  <2>8. /\ listed \in Seq(Nat) /\ Increasing(listed)
        /\ \A i \in 1..Len(listed) : listed[i] \in all
        /\ limit # Unset => Len(listed) <= limit
        /\ (limit # Unset => Len(listed) < limit) => \A k \in throughout : Names(listed, k)
    <3>1. UNION ToSet(w) = all BY <2>2
    <3>2. Len(w) > 0 /\ AskedFor(limit) BY <2>1
    <3> HIDE DEF w, limit
    <3> DEFINE always == {k \in all : \A i \in 1..Len(w) : k \in w[i]}
               l == Listing(w, limit)
    <3>3. /\ l \in Seq(Nat) /\ Increasing(l)
          /\ \A i \in 1..Len(l) : l[i] \in all
          /\ limit # Unset => Len(l) <= limit
          /\ (limit # Unset => Len(l) < limit) => \A k \in always : Names(l, k)
      BY <2>4, <2>5, <3>1, <3>2, ListingIs
    <3> HIDE DEF always, l
    <3>4. listed = l /\ throughout = always BY <2>2, <2>7 DEF always, l
    <3> QED BY <3>3, <3>4
  <2>9. DOMAIN listed = 1..Len(listed) /\ ToSet(listed) = {listed[i] : i \in 1..Len(listed)} BY <2>8 DEF ToSet
  <2>10. Scannable(listed)
    <3>1. \A i \in 2..Len(listed) : i - 1 \in 1..Len(listed) /\ i \in 1..Len(listed) /\ i - 1 < i BY <2>8
    <3> QED BY <2>8, <3>1 DEF Scannable, Increasing
  <2>11. ToSet(listed) \subseteq all BY <2>8, <2>9
  <2>12. (\A k \in throughout : Names(listed, k)) => throughout \subseteq ToSet(listed) BY <2>9 DEF Names
  <2> QED BY <2>8, <2>10, <2>11, <2>12 DEF limit
<1>5. HistoryIsOneMoment
  <2> SUFFICES ASSUME Is("history")
               PROVE  History(r.heads, r.limit) = Cut(Newest(r.heads[1]), r.limit)
    BY DEF HistoryIsOneMoment
  <2>1. r.heads \in Seq(Nat) /\ Len(r.heads) > 0 /\ Ordered(r.heads) /\ AskedFor(r.limit) /\ r.limit # 0
    <3>1. input \in AnyHistory BY ServingInputByRule DEF Is
    <3>2. r.limit \in (Nat \ {0}) \cup {Unset} BY <3>1 DEF AnyHistory, Of
    <3>3. 0 # Unset BY PageAssumption
    <3> QED BY <3>1, <3>2, <3>3 DEF AnyHistory, Of, AskedFor
  <2> DEFINE heads == r.heads
             limit == r.limit
  <2> HIDE DEF r, heads, limit
  <2>2. heads \in Seq(Nat) /\ Len(heads) > 0 /\ AskedFor(limit) /\ limit # 0 BY <2>1 DEF heads, limit
  <2>3. \A i \in 1..Len(heads) : heads[1] <= heads[i]
    <3>1. Len(heads) \in Nat /\ 1 \in 1..Len(heads) BY <2>2
    <3>2. Ordered(heads) BY <2>1 DEF heads
    <3> QED BY <3>1, <3>2 DEF Ordered
  <2>4. History(heads, limit) = Cut(Newest(heads[1]), limit) BY <2>2, <2>3, HistoryIsCut
  <2> QED BY <2>4 DEF heads, limit
<1>6. ErrorsKeepTheirMeaning
  <2> SUFFICES ASSUME Is("errors")
               PROVE  LET d == Decode(Fail(r)) IN
                      /\ d.refused = (r.kind # "io")
                      /\ r.kind = "memory" /\ r.code \in Acted /\ r.details # Junk
                           => d.code = r.code /\ d.details = r.details
                      /\ d.code \in Acted => r.kind = "memory" /\ r.code = d.code
    BY DEF ErrorsKeepTheirMeaning
  <2>1. r.kind \in {"memory", "value", "io"} /\ r.code \in Codes
    <3>1. input \in AnyErrors BY ServingInputByRule DEF Is
    <3> QED BY <3>1 DEF AnyErrors, Of
  <2> HIDE DEF r
  <2> QED BY <2>1, MeaningKept
<1> QED BY <1>1, <1>2, <1>3, <1>4, <1>5, <1>6 DEF ServingRules

LEMMA OfWidensTo ==
  ASSUME NEW rule, NEW narrow, NEW wide, narrow \subseteq wide
  PROVE  Of(rule, narrow) \subseteq Of(rule, wide)
BY DEF Of

LEMMA BoundedIsSeq ==
  ASSUME NEW S, NEW n \in Nat
  PROVE  BoundedSeq(S, n) \subseteq Seq(S)
BY DEF BoundedSeq, SeqOf

LEMMA ThreeIsSeq ==
  ASSUME NEW S, NEW f \in [1..3 -> S]
  PROVE  f \in Seq(S) /\ Len(f) = 3
<1>1. 3 \in Nat OBVIOUS
<1>2. f \in Seq(S) BY <1>1, SeqDef, Zenon
<1>3. Len(f) \in Nat /\ f \in [1..Len(f) -> S] BY <1>2, LenProperties
<1>4. 1..Len(f) = 1..3 BY <1>3
<1>5. Len(f) = 3
  <2> DEFINE n == Len(f)
  <2> HIDE DEF n
  <2>1. n \in Nat /\ 1..n = 1..3 BY <1>3, <1>4 DEF n
  <2>2. \A i \in Int : i \in 1..n <=> i \in 1..3 BY <2>1
  <2>3. 3 \in 1..n /\ 4 \notin 1..n BY <2>2
  <2>4. n = 3 BY <2>1, <2>3
  <2> QED BY <2>4 DEF n
<1> QED BY <1>2, <1>5

LEMMA StepsOrder ==
  ASSUME NEW rows \in Seq(Nat), \A i \in 2..Len(rows) : rows[i - 1] <= rows[i]
  PROVE  Ordered(rows)
<1> DEFINE n == Len(rows)
           S == {d \in Nat : \A i \in 1..n : i + d <= n => rows[i] <= rows[i + d]}
<1>0. n \in Nat /\ \A i \in 1..n : rows[i] \in Nat OBVIOUS
<1>1. 0 \in S BY <1>0
<1>2. \A d \in Nat : d \in S => d + 1 \in S
  <2> SUFFICES ASSUME NEW d \in Nat, d \in S, NEW i \in 1..n, i + (d + 1) <= n PROVE rows[i] <= rows[i + (d + 1)]
    <3>1. \A d \in Nat : d + 1 \in Nat OBVIOUS
    <3> HIDE DEF n
    <3> QED BY <3>1
  <2>1. i + d \in 1..n /\ i + (d + 1) \in 2..n /\ (i + (d + 1)) - 1 = i + d BY <1>0
  <2>2. rows[i] <= rows[i + d] BY <2>1
  <2>3. rows[i + d] <= rows[i + (d + 1)] BY <2>1
  <2>4. rows[i] \in Nat /\ rows[i + d] \in Nat /\ rows[i + (d + 1)] \in Nat BY <1>0, <2>1
  <2> QED BY <2>2, <2>3, <2>4
<1> HIDE DEF S
<1>3. \A d \in Nat : d \in S BY <1>1, <1>2, Induction
<1> SUFFICES ASSUME NEW i \in 1..n, NEW j \in 1..n, i <= j PROVE rows[i] <= rows[j] BY DEF Ordered
<1>4. j - i \in Nat /\ i + (j - i) = j /\ i + (j - i) <= n BY <1>0
<1>5. j - i \in S BY <1>3, <1>4
<1> QED BY <1>4, <1>5 DEF S

\* The inputs the run takes are among those the theorem is about.
LEMMA ServingInputsCovered ==
  ASSUME Name # {}
  PROVE  ServingInputs \subseteq AnyServingInput
<1> DEFINE prefixes == {Unset} \cup SUBSET Name
           n == CHOOSE x \in Name : TRUE
           given == [scopes : {{}} \cup {{s} : s \in [scope : {n}, read : BOOLEAN, write : BOOLEAN]},
                     conversations : {{}} \cup {{c} : c \in [ids : {{n}}, read : BOOLEAN, append : BOOLEAN]},
                     operator : BOOLEAN]
           tokens == BoundedSeq([actor : Name \cup {Junk}, token : Name \cup {Unset}], 3)
           access == [client : [scopes : prefixes, conversations : prefixes], route : Routes, grants : {Unset} \cup given]
           pages == [rows : {s \in BoundedSeq(1..3, 6) : \A i \in 2..Len(s) : s[i - 1] <= s[i]}, limit : 0..7 \cup {Unset}]
           listing == [worlds : [1..3 -> SUBSET (1..4)], limit : 0..3 \cup {Unset}]
           history == [heads : {h \in [1..3 -> 0..6] : h[1] <= h[2] /\ h[2] <= h[3]}, limit : 1..6 \cup {Unset}]
           errors == [kind : {"memory", "value", "io"}, code : Codes, details : Name \cup {Junk}]
<1>1. ServingInputs = Of("tokens", tokens) \cup Of("access", access) \cup Of("pages", pages)
                      \cup Of("listing", listing) \cup Of("history", history) \cup Of("errors", errors)
  BY DEF ServingInputs
<1>2. n \in Name OBVIOUS
<1> HIDE DEF n
<1>3. Of("tokens", tokens) \subseteq AnyTokens
  <2>1. tokens \subseteq Seq(Entries) BY BoundedIsSeq DEF Entries
  <2> HIDE DEF tokens
  <2> QED BY <2>1, OfWidensTo DEF AnyTokens
<1>4. Of("access", access) \subseteq AnyAccess
  <2>1. given \subseteq Grants BY <1>2 DEF Grants
  <2> HIDE DEF given
  <2>2. access \subseteq Reaches BY <2>1 DEF Reaches
  <2> HIDE DEF access
  <2> QED BY <2>2, OfWidensTo DEF AnyAccess
<1>5. Of("pages", pages) \subseteq AnyPages
  <2>1. ASSUME NEW s \in BoundedSeq(1..3, 6), \A i \in 2..Len(s) : s[i - 1] <= s[i]
        PROVE  s \in Seq(Nat \ {0}) /\ Ordered(s)
    <3>1. s \in Seq(1..3) BY BoundedIsSeq
    <3>2. s \in Seq(Nat \ {0}) /\ s \in Seq(Nat) BY <3>1
    <3> QED BY <2>1, <3>2, StepsOrder
  <2>2. pages \subseteq [rows : {s \in Seq(Nat \ {0}) : Ordered(s)}, limit : Nat \cup {Unset}] BY <2>1
  <2> HIDE DEF pages
  <2> QED BY <2>2, OfWidensTo DEF AnyPages
<1>6. Of("listing", listing) \subseteq AnyListing
  <2>1. ASSUME NEW w \in [1..3 -> SUBSET (1..4)] PROVE w \in Worlds
    <3>1. \A i \in 1..3 : w[i] \in SUBSET (1..4) OBVIOUS
    <3>2. 1 \in Int /\ 4 \in Int OBVIOUS
    <3>5. IsFiniteSet(1..4) BY <3>2, FS_Interval
    <3>3. \A i \in 1..3 : IsFiniteSet(w[i]) BY <3>1, <3>5, FS_Subset
    <3>6. w \in [1..3 -> SUBSET (Nat \ {0})] BY <3>1
    <3>4. w \in Seq(SUBSET (Nat \ {0})) /\ Len(w) = 3 BY <3>6, ThreeIsSeq
    <3>7. Len(w) > 0 BY <3>4
    <3>8. \A i \in 1..Len(w) : IsFiniteSet(w[i]) BY <3>3, <3>4
    <3> QED BY <3>4, <3>7, <3>8 DEF Worlds
  <2>2. listing \subseteq [worlds : Worlds, limit : Nat \cup {Unset}] BY <2>1
  <2> HIDE DEF listing
  <2> QED BY <2>2, OfWidensTo DEF AnyListing
<1>7. Of("history", history) \subseteq AnyHistory
  <2>1. ASSUME NEW h \in [1..3 -> 0..6], h[1] <= h[2], h[2] <= h[3] PROVE h \in Seq(Nat) /\ Len(h) > 0 /\ Ordered(h)
    <3>4. h \in [1..3 -> Nat] OBVIOUS
    <3>1. h \in Seq(Nat) /\ Len(h) = 3 BY <3>4, ThreeIsSeq
    <3>2. \A i \in 2..3 : h[i - 1] <= h[i] BY <2>1
    <3>3. Ordered(h) BY <3>1, <3>2, StepsOrder
    <3> QED BY <3>1, <3>3
  <2>2. history \subseteq [heads : {h \in Seq(Nat) : Len(h) > 0 /\ Ordered(h)}, limit : (Nat \ {0}) \cup {Unset}] BY <2>1
  <2> HIDE DEF history
  <2> QED BY <2>2, OfWidensTo DEF AnyHistory
<1>8. Of("errors", errors) = AnyErrors BY DEF AnyErrors
<1> HIDE DEF tokens, access, pages, listing, history, errors
<1> QED BY <1>1, <1>3, <1>4, <1>5, <1>6, <1>7, <1>8 DEF AnyServingInput

(***************************************************************************)
(* The files of clients: what the writes of one place do.                  *)
(***************************************************************************)
Sources == {"user", "project", "managed"}
\* A file with any entries of the user's own; one that cannot be read has none of ours.
AnyFile(T) ==
    {f \in [shape : {"absent", "object", "malformed"}, ours : BOOLEAN, theirs : T] : Malformed(f) => ~f.ours}
AnyFiles(T) ==
    [user : AnyFile(T), project : AnyFile(T), managed : AnyFile(T), pointer : {"none", "ours", "foreign"}]

\* What a file may hold of the user's; FALSE when it holds nothing of theirs.
Marks(T) == FALSE \in T

LEMMA MergedIs ==
  ASSUME NEW T, NEW f \in AnyFile(T)
  PROVE  /\ Merged(f) \in AnyFile(T) /\ ~Malformed(Merged(f)) /\ Merged(f).ours /\ Merged(f).theirs = f.theirs
<1>1. f \in [shape : {"absent", "object", "malformed"}, ours : BOOLEAN, theirs : T] BY DEF AnyFile
<1>2. f = [shape |-> f.shape, ours |-> f.ours, theirs |-> f.theirs] BY <1>1
<1>3. Merged(f) = [shape |-> "object", ours |-> TRUE, theirs |-> f.theirs] BY <1>1, <1>2 DEF Merged
<1> QED BY <1>1, <1>3 DEF AnyFile, Malformed

LEMMA StrippedIs ==
  ASSUME NEW T, NEW f \in AnyFile(T)
  PROVE  /\ Stripped(f) \in AnyFile(T) /\ (Malformed(Stripped(f)) <=> Malformed(f)) /\ ~Stripped(f).ours
         /\ Stripped(f).theirs = f.theirs
<1>1. f \in [shape : {"absent", "object", "malformed"}, ours : BOOLEAN, theirs : T] BY DEF AnyFile
<1>3. Stripped(f) = [shape |-> f.shape, ours |-> FALSE, theirs |-> f.theirs] BY <1>1 DEF Stripped
<1> QED BY <1>1, <1>3 DEF AnyFile, Malformed

LEMMA WholeIs ==
  ASSUME NEW T, Marks(T), NEW f
  PROVE  Whole(f) \in AnyFile(T) /\ ~Malformed(Whole(f)) /\ Whole(f).ours
BY DEF Whole, AnyFile, Malformed, Marks

LEMMA RemovedIs ==
  ASSUME NEW T, Marks(T), NEW f
  PROVE  Removed(f) \in AnyFile(T) /\ ~Removed(f).ours
BY DEF Removed, AnyFile, Malformed, Marks

LEMMA PutIs ==
  ASSUME NEW T, NEW fs \in AnyFiles(T), NEW s \in Sources, NEW f \in AnyFile(T)
  PROVE  LET t == [fs EXCEPT ![s] = f] IN
         /\ t \in AnyFiles(T) /\ t[s] = f /\ t.pointer = fs.pointer
         /\ \A u \in Sources : u # s => t[u] = fs[u]
BY DEF AnyFiles, Sources

LEMMA FileAt ==
  ASSUME NEW T, NEW fs \in AnyFiles(T), NEW s \in Sources
  PROVE  fs[s] \in AnyFile(T) /\ fs[s].ours \in BOOLEAN
BY DEF AnyFiles, Sources, AnyFile

LEMMA AppendIs ==
  ASSUME NEW a, NEW b
  PROVE  Append(<<>>, b) = <<b>> /\ Append(<<a>>, b) = <<a, b>>
<1> DEFINE S == {a, b}
           s == <<a>>
           t == Append(s, b)
<1>1. Append(<<>>, b) = <<b>> OBVIOUS
<1>2. s \in Seq(S) /\ b \in S /\ Len(s) = 1 /\ s[1] = a OBVIOUS
<1> HIDE DEF s, S
<1>3. /\ t \in Seq(S) /\ Len(t) = Len(s) + 1
      /\ \A i \in 1..Len(s) : t[i] = s[i]
      /\ t[Len(s) + 1] = b
  <2> HIDE DEF t
  <2>1. s \in Seq(S) /\ b \in S BY <1>2
  <2> QED BY <2>1, AppendProperties DEF t
<1> HIDE DEF t
<1>4. Len(t) = 2 /\ t[1] = a /\ t[2] = b BY <1>2, <1>3
<1>5. <<a, b>> \in Seq(S) /\ Len(<<a, b>>) = 2 /\ <<a, b>>[1] = a /\ <<a, b>>[2] = b BY DEF S
<1>6. \A i \in 1..2 : i = 1 \/ i = 2 OBVIOUS
<1>7. t = <<a, b>>
  <2> DEFINE u == <<a, b>>
  <2>1. u \in Seq(S) /\ Len(u) = 2 /\ u[1] = a /\ u[2] = b BY <1>5
  <2> HIDE DEF u
  <2>2. t = u BY <1>3, <1>4, <1>6, <2>1, SeqEqual
  <2> QED BY <2>2 DEF u
<1> QED BY <1>1, <1>7 DEF t, s

LEMMA JoinTwo ==
  ASSUME NEW a, NEW b
  PROVE  <<a>> \o <<b>> = <<a, b>> /\ <<>> \o <<b>> = <<b>> /\ <<a>> \o <<>> = <<a>>
<1>1. <<a>> \in Seq({a, b}) /\ <<b>> \in Seq({a, b}) /\ b \in {a, b} OBVIOUS
<1>2. Append(<<a>>, b) = <<a>> \o <<b>> BY <1>1, AppendIsConcat
<1>3. <<>> \o <<b>> = <<b>> /\ <<a>> \o <<>> = <<a>> BY <1>1, ConcatEmptySeq
<1> QED BY <1>2, <1>3, AppendIs

Levels == {"user", "project"}
Plain(T) == {fs \in AnyFiles(T) : fs.pointer = "none"}

LEMMA TraceIs ==
  ASSUME NEW fs, NEW did
  PROVE  /\ did.trace = <<>> => Passed(fs, did) = {fs} /\ Left(fs, did) = fs
         /\ \A a : did.trace = <<a>> => Passed(fs, did) = {fs, a} /\ Left(fs, did) = a
         /\ \A a, b : did.trace = <<a, b>> => Passed(fs, did) = {fs, a, b} /\ Left(fs, did) = b
<1>1. ASSUME did.trace = <<>> PROVE Passed(fs, did) = {fs} /\ Left(fs, did) = fs
  BY <1>1 DEF Passed, Left
<1>2. ASSUME NEW a, did.trace = <<a>> PROVE Passed(fs, did) = {fs, a} /\ Left(fs, did) = a
  <2>1. DOMAIN did.trace = {1} /\ did.trace[1] = a /\ Len(did.trace) = 1 /\ did.trace # <<>> BY <1>2
  <2> QED BY <2>1 DEF Passed, Left
<1>3. ASSUME NEW a, NEW b, did.trace = <<a, b>> PROVE Passed(fs, did) = {fs, a, b} /\ Left(fs, did) = b
  <2>1. DOMAIN did.trace = {1, 2} /\ did.trace[1] = a /\ did.trace[2] = b /\ Len(did.trace) = 2 /\ did.trace # <<>>
    BY <1>3
  <2> QED BY <2>1 DEF Passed, Left
<1> QED BY <1>1, <1>2, <1>3

LEMMA PlainFires ==
  ASSUME NEW T, NEW fs \in Plain(T)
  PROVE  /\ Fires(fs) = {s \in Levels : fs[s].ours}
         /\ DoubleFire(fs) <=> fs["user"].ours /\ fs["project"].ours
<1>1. Fires(fs) = {s \in Levels : fs[s].ours} BY DEF Fires, Plain, Levels
<1>2. fs["user"].ours /\ fs["project"].ours => DoubleFire(fs)
  <2> SUFFICES ASSUME fs["user"].ours, fs["project"].ours PROVE DoubleFire(fs) OBVIOUS
  <2>1. Fires(fs) = {"user"} \cup {"project"} BY <1>1 DEF Levels
  <2>2. IsFiniteSet({"user"}) /\ Cardinality({"user"}) = 1 BY FS_Singleton
  <2>3. "project" \notin {"user"} OBVIOUS
  <2>4. Cardinality({"user"} \cup {"project"}) = 1 + 1 BY <2>2, <2>3, FS_AddElement
  <2>5. Cardinality(Fires(fs)) = 1 + 1 BY <2>1, <2>4, Zenon
  <2> QED BY <2>5 DEF DoubleFire
<1>3. ~(fs["user"].ours /\ fs["project"].ours) => ~DoubleFire(fs)
  <2> SUFFICES ASSUME ~(fs["user"].ours /\ fs["project"].ours) PROVE ~DoubleFire(fs) OBVIOUS
  <2>1. PICK l \in Levels : Fires(fs) \in SUBSET {l} BY <1>1 DEF Levels
  <2>2. IsFiniteSet({l}) /\ Cardinality({l}) = 1 BY FS_Singleton
  <2>3. IsFiniteSet(Fires(fs)) /\ Cardinality(Fires(fs)) <= 1 BY <2>1, <2>2, FS_Subset
  <2>4. Cardinality(Fires(fs)) \in Nat BY <2>3, FS_CardinalityType
  <2> QED BY <2>3, <2>4 DEF DoubleFire
<1> QED BY <1>1, <1>2, <1>3

\* One write: the file of one place gets ours, or loses it; its own entries stay.
LEMMA MergePut ==
  ASSUME NEW T, NEW fs \in AnyFiles(T), NEW s \in Sources
  PROVE  LET t == [fs EXCEPT ![s] = Merged(@)] IN
         /\ t \in AnyFiles(T) /\ t.pointer = fs.pointer
         /\ t[s].ours /\ ~Malformed(t[s]) /\ t[s].theirs = fs[s].theirs
         /\ \A u \in Sources : u # s => t[u] = fs[u]
<1> DEFINE t == [fs EXCEPT ![s] = Merged(@)]
           f == Merged(fs[s])
<1>1. fs[s] \in AnyFile(T) BY FileAt
<1>2. f \in AnyFile(T) /\ f.ours /\ ~Malformed(f) /\ f.theirs = fs[s].theirs BY <1>1, MergedIs
<1>3. t = [fs EXCEPT ![s] = f] BY DEF AnyFiles, Sources
<1> HIDE DEF f
<1>4. LET v == [fs EXCEPT ![s] = f] IN
      /\ v \in AnyFiles(T) /\ v[s] = f /\ v.pointer = fs.pointer
      /\ \A u \in Sources : u # s => v[u] = fs[u]
  BY <1>2, PutIs
<1> HIDE DEF t
<1>5. t \in AnyFiles(T) /\ t[s] = f /\ t.pointer = fs.pointer /\ \A u \in Sources : u # s => t[u] = fs[u]
  BY <1>3, <1>4
<1> QED BY <1>2, <1>5 DEF t

LEMMA StripPut ==
  ASSUME NEW T, NEW fs \in AnyFiles(T), NEW s \in Sources
  PROVE  LET t == [fs EXCEPT ![s] = Stripped(@)] IN
         /\ t \in AnyFiles(T) /\ t.pointer = fs.pointer
         /\ ~t[s].ours /\ (Malformed(t[s]) <=> Malformed(fs[s])) /\ t[s].theirs = fs[s].theirs
         /\ \A u \in Sources : u # s => t[u] = fs[u]
<1> DEFINE t == [fs EXCEPT ![s] = Stripped(@)]
           f == Stripped(fs[s])
<1>1. fs[s] \in AnyFile(T) BY FileAt
<1>2. f \in AnyFile(T) /\ ~f.ours /\ (Malformed(f) <=> Malformed(fs[s])) /\ f.theirs = fs[s].theirs BY <1>1, StrippedIs
<1>3. t = [fs EXCEPT ![s] = f] BY DEF AnyFiles, Sources
<1> HIDE DEF f
<1>4. LET v == [fs EXCEPT ![s] = f] IN
      /\ v \in AnyFiles(T) /\ v[s] = f /\ v.pointer = fs.pointer
      /\ \A u \in Sources : u # s => v[u] = fs[u]
  BY <1>2, PutIs
<1> HIDE DEF t
<1>5. t \in AnyFiles(T) /\ t[s] = f /\ t.pointer = fs.pointer /\ \A u \in Sources : u # s => t[u] = fs[u]
  BY <1>3, <1>4
<1> QED BY <1>2, <1>5 DEF t

\* One write of a plugin: the file of one place becomes ours, or is gone.
LEMMA WholePut ==
  ASSUME NEW T, Marks(T), NEW fs \in AnyFiles(T), NEW s \in Sources
  PROVE  LET t == [fs EXCEPT ![s] = Whole(@)] IN
         /\ t \in AnyFiles(T) /\ t.pointer = fs.pointer /\ t[s].ours
         /\ \A u \in Sources : u # s => t[u] = fs[u]
<1> DEFINE t == [fs EXCEPT ![s] = Whole(@)]
           f == Whole(fs[s])
<1>2. f \in AnyFile(T) /\ f.ours BY WholeIs
<1>3. t = [fs EXCEPT ![s] = f] BY DEF AnyFiles, Sources
<1> HIDE DEF f
<1>4. LET v == [fs EXCEPT ![s] = f] IN
      /\ v \in AnyFiles(T) /\ v[s] = f /\ v.pointer = fs.pointer
      /\ \A u \in Sources : u # s => v[u] = fs[u]
  BY <1>2, PutIs
<1> HIDE DEF t
<1>5. t \in AnyFiles(T) /\ t[s] = f /\ t.pointer = fs.pointer /\ \A u \in Sources : u # s => t[u] = fs[u]
  BY <1>3, <1>4
<1> QED BY <1>2, <1>5 DEF t

LEMMA RemovePut ==
  ASSUME NEW T, Marks(T), NEW fs \in AnyFiles(T), NEW s \in Sources
  PROVE  LET t == [fs EXCEPT ![s] = Removed(@)] IN
         /\ t \in AnyFiles(T) /\ t.pointer = fs.pointer /\ ~t[s].ours
         /\ \A u \in Sources : u # s => t[u] = fs[u]
<1> DEFINE t == [fs EXCEPT ![s] = Removed(@)]
           f == Removed(fs[s])
<1>2. f \in AnyFile(T) /\ ~f.ours BY RemovedIs
<1>3. t = [fs EXCEPT ![s] = f] BY DEF AnyFiles, Sources
<1> HIDE DEF f
<1>4. LET v == [fs EXCEPT ![s] = f] IN
      /\ v \in AnyFiles(T) /\ v[s] = f /\ v.pointer = fs.pointer
      /\ \A u \in Sources : u # s => v[u] = fs[u]
  BY <1>2, PutIs
<1> HIDE DEF t
<1>5. t \in AnyFiles(T) /\ t[s] = f /\ t.pointer = fs.pointer /\ \A u \in Sources : u # s => t[u] = fs[u]
  BY <1>3, <1>4
<1> QED BY <1>2, <1>5 DEF t

\* The user's own entries stay, and a file that cannot be read stays as it is.
EntriesKept(fs, t) == \A s \in Sources : t[s].theirs = fs[s].theirs
UnreadKept(fs, t) == \A s \in Sources : Malformed(fs[s]) => t[s] = fs[s]
\* Of a plugin: a file that is neither ours nor the one asked for stays.
OthersKept(fs, level, t) == \A s \in Sources : s # level /\ ~fs[s].ours => t[s] = fs[s]

LEMMA JsonHooksAre ==
  ASSUME NEW T, NEW fs \in Plain(T), NEW level \in Levels
  PROVE  LET did == JsonHooks(fs, level) IN
         /\ \A t \in Passed(fs, did) :
               /\ t \in Plain(T) /\ EntriesKept(fs, t) /\ UnreadKept(fs, t)
               /\ ~DoubleFire(fs) => ~DoubleFire(t)
               /\ ~Malformed(fs[level]) => ~Malformed(t[level])
         /\ did.ok => ~Malformed(fs[level]) /\ Left(fs, did) \in Plain(T) /\ Fires(Left(fs, did)) = {level}
         /\ level = "user" /\ ~Malformed(fs[level]) => did.ok
         /\ ~Malformed(fs[level]) => did.ok = ~(fs[OtherLevel(level)].ours /\ level = "project")
<1> DEFINE did == JsonHooks(fs, level)
           o == OtherLevel(level)
           apart == [fs EXCEPT ![o] = Stripped(@)]
           both == [apart EXCEPT ![level] = Merged(@)]
           direct == [fs EXCEPT ![level] = Merged(@)]
<1>0. /\ o \in Levels /\ o # level /\ o \in Sources /\ level \in Sources /\ Levels = {o, level}
      /\ fs \in AnyFiles(T) /\ fs.pointer = "none"
  BY DEF OtherLevel, Levels, Sources, Plain
<1>1. /\ apart \in AnyFiles(T) /\ apart.pointer = fs.pointer
      /\ ~apart[o].ours /\ (Malformed(apart[o]) <=> Malformed(fs[o])) /\ apart[o].theirs = fs[o].theirs
      /\ \A u \in Sources : u # o => apart[u] = fs[u]
  BY <1>0, StripPut
<1>2. /\ direct \in AnyFiles(T) /\ direct.pointer = fs.pointer
      /\ direct[level].ours /\ ~Malformed(direct[level]) /\ direct[level].theirs = fs[level].theirs
      /\ \A u \in Sources : u # level => direct[u] = fs[u]
  BY <1>0, MergePut
<1> HIDE DEF apart, direct, o
<1>3. /\ both \in AnyFiles(T) /\ both.pointer = apart.pointer
      /\ both[level].ours /\ ~Malformed(both[level]) /\ both[level].theirs = apart[level].theirs
      /\ \A u \in Sources : u # level => both[u] = apart[u]
  BY <1>0, <1>1, MergePut
<1> HIDE DEF both
<1>4. \A t \in {apart, both, direct} : t \in Plain(T) BY <1>0, <1>1, <1>2, <1>3 DEF Plain
<1>5. fs[o].ours => ~Malformed(fs[o]) BY <1>0, FileAt DEF AnyFile
<1>6. /\ EntriesKept(fs, fs) /\ UnreadKept(fs, fs)
      /\ EntriesKept(fs, apart) /\ EntriesKept(fs, both) /\ EntriesKept(fs, direct)
      /\ fs[o].ours => UnreadKept(fs, apart)
      /\ fs[o].ours /\ ~Malformed(fs[level]) => UnreadKept(fs, both)
      /\ ~Malformed(fs[level]) => UnreadKept(fs, direct)
  BY <1>0, <1>1, <1>2, <1>3, <1>5 DEF EntriesKept, UnreadKept
<1>7. ~DoubleFire(apart) /\ ~DoubleFire(both) /\ (~fs[o].ours => ~DoubleFire(direct))
  <2>1. \A t \in Plain(T) : ~t[o].ours => ~DoubleFire(t) BY <1>0, PlainFires DEF Levels
  <2> QED BY <1>0, <1>1, <1>2, <1>3, <1>4, <2>1
<1>8. Fires(both) = {level} /\ (~fs[o].ours => Fires(direct) = {level})
  <2>1. \A t \in Plain(T) : ~t[o].ours /\ t[level].ours => Fires(t) = {level} BY <1>0, PlainFires
  <2> QED BY <1>0, <1>1, <1>2, <1>3, <1>4, <2>1
<1>9. ~Malformed(fs[level]) => ~Malformed(apart[level]) /\ ~Malformed(both[level]) /\ ~Malformed(direct[level])
  BY <1>0, <1>1, <1>2, <1>3
<1>10. CASE fs[o].ours /\ level = "project"
  <2>1. did.trace = <<>> /\ did.ok = FALSE BY <1>10 DEF JsonHooks, Stopped, o
  <2> HIDE DEF did
  <2>2. Passed(fs, did) = {fs} BY <2>1, TraceIs
  <2> QED BY <1>6, <1>10, <2>1, <2>2 DEF did, o
<1>11. CASE ~(fs[o].ours /\ level = "project") /\ Malformed(fs[level])
  <2>1. did.trace = (IF fs[o].ours THEN <<apart>> ELSE <<>>) /\ did.ok = FALSE
    BY <1>11 DEF JsonHooks, Stopped, o, apart
  <2> HIDE DEF did
  <2>2. Passed(fs, did) = IF fs[o].ours THEN {fs, apart} ELSE {fs} BY <2>1, TraceIs
  <2> QED BY <1>4, <1>6, <1>7, <1>11, <2>1, <2>2 DEF did
<1>12. CASE ~(fs[o].ours /\ level = "project") /\ ~Malformed(fs[level])
  <2>1. did.ok = TRUE /\ did.trace = IF fs[o].ours THEN <<apart, both>> ELSE <<direct>>
    <3>1. CASE fs[o].ours
      <4>1. did = Done(Append(<<apart>>, both)) BY <1>12, <3>1 DEF JsonHooks, o, apart, both
      <4>2. Append(<<apart>>, both) = <<apart, both>> BY AppendIs
      <4> QED BY <3>1, <4>1, <4>2 DEF Done
    <3>2. CASE ~fs[o].ours
      <4>1. did = Done(Append(<<>>, direct)) BY <1>12, <3>2 DEF JsonHooks, o, direct
      <4>2. Append(<<>>, direct) = <<direct>> BY AppendIs
      <4> QED BY <3>2, <4>1, <4>2 DEF Done
    <3> QED BY <3>1, <3>2
  <2> HIDE DEF did
  <2>2. /\ Passed(fs, did) = IF fs[o].ours THEN {fs, apart, both} ELSE {fs, direct}
        /\ Left(fs, did) = IF fs[o].ours THEN both ELSE direct
    BY <2>1, TraceIs
  <2>3. \A t \in Passed(fs, did) :
          /\ t \in Plain(T) /\ EntriesKept(fs, t) /\ UnreadKept(fs, t)
          /\ ~DoubleFire(fs) => ~DoubleFire(t)
          /\ ~Malformed(fs[level]) => ~Malformed(t[level])
    BY <1>4, <1>6, <1>7, <1>9, <1>12, <2>2
  <2>4. Left(fs, did) \in Plain(T) /\ Fires(Left(fs, did)) = {level} BY <1>4, <1>8, <2>2
  <2>5. did.ok = TRUE BY <2>1
  <2> QED BY <1>12, <2>3, <2>4, <2>5 DEF did, o
<1> QED BY <1>10, <1>11, <1>12

LEMMA PluginHooksAre ==
  ASSUME NEW T, Marks(T), NEW fs \in Plain(T), NEW level \in Levels
  PROVE  LET did == PluginHooks(fs, level) IN
         /\ \A t \in Passed(fs, did) :
               t \in Plain(T) /\ OthersKept(fs, level, t) /\ (~DoubleFire(fs) => ~DoubleFire(t))
         /\ did.ok => Left(fs, did) \in Plain(T) /\ Fires(Left(fs, did)) = {level}
         /\ did.ok = ~(fs[OtherLevel(level)].ours /\ level = "project")
<1> DEFINE did == PluginHooks(fs, level)
           o == OtherLevel(level)
           apart == [fs EXCEPT ![o] = Removed(@)]
           both == [apart EXCEPT ![level] = Whole(@)]
           direct == [fs EXCEPT ![level] = Whole(@)]
<1>0. /\ o \in Levels /\ o # level /\ o \in Sources /\ level \in Sources /\ Levels = {o, level}
      /\ fs \in AnyFiles(T) /\ fs.pointer = "none"
  BY DEF OtherLevel, Levels, Sources, Plain
<1>1. /\ apart \in AnyFiles(T) /\ apart.pointer = fs.pointer /\ ~apart[o].ours
      /\ \A u \in Sources : u # o => apart[u] = fs[u]
  BY <1>0, RemovePut
<1>2. /\ direct \in AnyFiles(T) /\ direct.pointer = fs.pointer /\ direct[level].ours
      /\ \A u \in Sources : u # level => direct[u] = fs[u]
  BY <1>0, WholePut
<1> HIDE DEF apart, direct, o
<1>3. /\ both \in AnyFiles(T) /\ both.pointer = apart.pointer /\ both[level].ours
      /\ \A u \in Sources : u # level => both[u] = apart[u]
  BY <1>0, <1>1, WholePut
<1> HIDE DEF both
<1>4. \A t \in {apart, both, direct} : t \in Plain(T) BY <1>0, <1>1, <1>2, <1>3 DEF Plain
<1>6. /\ OthersKept(fs, level, fs) /\ OthersKept(fs, level, direct)
      /\ fs[o].ours => OthersKept(fs, level, apart) /\ OthersKept(fs, level, both)
  BY <1>0, <1>1, <1>2, <1>3 DEF OthersKept
<1>7. ~DoubleFire(apart) /\ ~DoubleFire(both) /\ (~fs[o].ours => ~DoubleFire(direct))
  <2>1. \A t \in Plain(T) : ~t[o].ours => ~DoubleFire(t) BY <1>0, PlainFires DEF Levels
  <2> QED BY <1>0, <1>1, <1>2, <1>3, <1>4, <2>1
<1>8. Fires(both) = {level} /\ (~fs[o].ours => Fires(direct) = {level})
  <2>1. \A t \in Plain(T) : ~t[o].ours /\ t[level].ours => Fires(t) = {level} BY <1>0, PlainFires
  <2> QED BY <1>0, <1>1, <1>2, <1>3, <1>4, <2>1
<1>10. CASE fs[o].ours /\ level = "project"
  <2>1. did.trace = <<>> /\ did.ok = FALSE BY <1>10 DEF PluginHooks, Stopped, o
  <2> HIDE DEF did
  <2>2. Passed(fs, did) = {fs} BY <2>1, TraceIs
  <2> QED BY <1>6, <1>10, <2>1, <2>2 DEF did, o
<1>12. CASE ~(fs[o].ours /\ level = "project")
  <2>1. did.ok = TRUE /\ did.trace = IF fs[o].ours THEN <<apart, both>> ELSE <<direct>>
    <3>1. CASE fs[o].ours
      <4> DEFINE j == <<apart>> \o <<both>>
      <4>1. did = Done(j) BY <1>12, <3>1 DEF PluginHooks, o, apart, both
      <4>2. j = <<apart, both>> BY JoinTwo
      <4> HIDE DEF did, j
      <4> QED BY <3>1, <4>1, <4>2 DEF Done
    <3>2. CASE ~fs[o].ours
      <4>1. did = Done(<<>> \o <<direct>>) BY <1>12, <3>2 DEF PluginHooks, o, direct
      <4>2. <<>> \o <<direct>> = <<direct>> BY JoinTwo
      <4> QED BY <3>2, <4>1, <4>2 DEF Done
    <3> QED BY <3>1, <3>2
  <2> HIDE DEF did
  <2>2. /\ Passed(fs, did) = IF fs[o].ours THEN {fs, apart, both} ELSE {fs, direct}
        /\ Left(fs, did) = IF fs[o].ours THEN both ELSE direct
    BY <2>1, TraceIs
  <2>3. \A t \in Passed(fs, did) : t \in Plain(T) /\ OthersKept(fs, level, t) /\ (~DoubleFire(fs) => ~DoubleFire(t))
    BY <1>4, <1>6, <1>7, <1>12, <2>2
  <2>4. Left(fs, did) \in Plain(T) /\ Fires(Left(fs, did)) = {level} BY <1>4, <1>8, <2>2
  <2>5. did.ok = TRUE BY <2>1
  <2> QED BY <1>12, <2>3, <2>4, <2>5 DEF did, o
<1> QED BY <1>10, <1>12

LEMMA CursorHooksAre ==
  ASSUME NEW T, NEW fs \in Plain(T), NEW level \in Levels
  PROVE  LET did == CursorHooks(fs, level) IN
         /\ \A t \in Passed(fs, did) :
               /\ t \in Plain(T) /\ EntriesKept(fs, t) /\ UnreadKept(fs, t)
               /\ Fires(fs) # {} => Fires(t) # {}
               /\ \A s \in Levels : ~Malformed(fs[s]) => ~Malformed(t[s])
         /\ did.ok => /\ Left(fs, did) \in Plain(T) /\ Fires(Left(fs, did)) = {level}
                      /\ \A s \in Levels : ~Malformed(fs[s])
         /\ level = "user" /\ (\A s \in Levels : ~Malformed(fs[s])) => did.ok
<1> DEFINE did == CursorHooks(fs, level)
           o == OtherLevel(level)
           with == [fs EXCEPT ![level] = Merged(@)]
           both == [with EXCEPT ![o] = Stripped(@)]
<1>0. /\ o \in Levels /\ o # level /\ o \in Sources /\ level \in Sources /\ Levels = {o, level}
      /\ fs \in AnyFiles(T) /\ fs.pointer = "none"
  BY DEF OtherLevel, Levels, Sources, Plain
<1>1. /\ with \in AnyFiles(T) /\ with.pointer = fs.pointer
      /\ with[level].ours /\ ~Malformed(with[level]) /\ with[level].theirs = fs[level].theirs
      /\ \A u \in Sources : u # level => with[u] = fs[u]
  BY <1>0, MergePut
<1> HIDE DEF with, o
<1>2. /\ both \in AnyFiles(T) /\ both.pointer = with.pointer
      /\ ~both[o].ours /\ (Malformed(both[o]) <=> Malformed(with[o])) /\ both[o].theirs = with[o].theirs
      /\ \A u \in Sources : u # o => both[u] = with[u]
  BY <1>0, <1>1, StripPut
<1> HIDE DEF both
<1>4. \A t \in {with, both} : t \in Plain(T) BY <1>0, <1>1, <1>2 DEF Plain
<1>6. /\ EntriesKept(fs, fs) /\ UnreadKept(fs, fs) /\ EntriesKept(fs, with) /\ EntriesKept(fs, both)
      /\ (\A s \in Levels : ~Malformed(fs[s])) => UnreadKept(fs, with) /\ UnreadKept(fs, both)
                                                  /\ \A s \in Levels : ~Malformed(with[s]) /\ ~Malformed(both[s])
  BY <1>0, <1>1, <1>2 DEF EntriesKept, UnreadKept
<1>7. level \in Fires(with) /\ level \in Fires(both) BY <1>0, <1>1, <1>2, <1>4, PlainFires
<1>8. Fires(both) = {level} /\ (~fs[o].ours => Fires(with) = {level})
  <2>1. \A t \in Plain(T) : ~t[o].ours /\ t[level].ours => Fires(t) = {level} BY <1>0, PlainFires
  <2> QED BY <1>0, <1>1, <1>2, <1>4, <2>1
<1>10. CASE Malformed(fs[level]) \/ Malformed(fs[o]) \/ (fs[o].ours /\ level = "project")
  <2>1. did.trace = <<>> /\ did.ok = FALSE BY <1>10 DEF CursorHooks, Stopped, o
  <2> HIDE DEF did
  <2>2. Passed(fs, did) = {fs} BY <2>1, TraceIs
  <2> QED BY <1>0, <1>6, <1>10, <2>1, <2>2 DEF did, o
<1>12. CASE ~(Malformed(fs[level]) \/ Malformed(fs[o]) \/ (fs[o].ours /\ level = "project"))
  <2>1. did.ok = TRUE /\ did.trace = IF fs[o].ours THEN <<with, both>> ELSE <<with>>
    <3>1. CASE fs[o].ours
      <4> DEFINE j == <<with>> \o <<both>>
      <4>1. did = Done(j) BY <1>12, <3>1 DEF CursorHooks, o, with, both
      <4>2. j = <<with, both>> BY JoinTwo
      <4> HIDE DEF did, j
      <4> QED BY <3>1, <4>1, <4>2 DEF Done
    <3>2. CASE ~fs[o].ours
      <4>1. did = Done(<<with>> \o <<>>) BY <1>12, <3>2 DEF CursorHooks, o, with
      <4>2. <<with>> \o <<>> = <<with>> BY JoinTwo
      <4> QED BY <3>2, <4>1, <4>2 DEF Done
    <3> QED BY <3>1, <3>2
  <2> HIDE DEF did
  <2>2. /\ Passed(fs, did) = IF fs[o].ours THEN {fs, with, both} ELSE {fs, with}
        /\ Left(fs, did) = IF fs[o].ours THEN both ELSE with
    BY <2>1, TraceIs
  <2>0. \A s \in Levels : ~Malformed(fs[s]) BY <1>0, <1>12
  <2>3. \A t \in Passed(fs, did) :
          /\ t \in Plain(T) /\ EntriesKept(fs, t) /\ UnreadKept(fs, t)
          /\ Fires(fs) # {} => Fires(t) # {}
          /\ \A s \in Levels : ~Malformed(fs[s]) => ~Malformed(t[s])
    BY <1>4, <1>6, <1>7, <2>0, <2>2
  <2>4. Left(fs, did) \in Plain(T) /\ Fires(Left(fs, did)) = {level} BY <1>4, <1>8, <2>2
  <2>5. did.ok = TRUE BY <2>1
  <2> QED BY <2>0, <2>3, <2>4, <2>5 DEF did, o
<1> QED BY <1>10, <1>12

\* The elements of a sequence; those of two joined are those of either.
Elements(q) == {q[i] : i \in 1..Len(q)}

LEMMA JoinElements ==
  ASSUME NEW S, NEW a \in Seq(S), NEW b \in Seq(S)
  PROVE  a \o b \in Seq(S) /\ Elements(a \o b) = Elements(a) \cup Elements(b)
<1> DEFINE c == a \o b
<1>1. /\ c \in Seq(S) /\ Len(c) = Len(a) + Len(b)
      /\ \A i \in 1..Len(a) : c[i] = a[i]
      /\ \A j \in 1..Len(b) : c[Len(a) + j] = b[j]
  <2> HIDE DEF c
  <2> QED BY ConcatProperties DEF c
<1> HIDE DEF c
<1>2. Len(a) \in Nat /\ Len(b) \in Nat OBVIOUS
<1>3. ASSUME NEW x \in Elements(c) PROVE x \in Elements(a) \cup Elements(b)
  <2>1. PICK i \in 1..Len(c) : x = c[i] BY DEF Elements
  <2>2. i \in 1..Len(a) \/ (i - Len(a) \in 1..Len(b) /\ i = Len(a) + (i - Len(a))) BY <1>1, <1>2
  <2> QED BY <1>1, <2>1, <2>2 DEF Elements
<1>4. ASSUME NEW x \in Elements(a) \cup Elements(b) PROVE x \in Elements(c)
  <2>1. CASE x \in Elements(a)
    <3>1. PICK i \in 1..Len(a) : x = a[i] BY <2>1 DEF Elements
    <3>2. i \in 1..Len(c) /\ c[i] = x BY <1>1, <1>2, <3>1
    <3> QED BY <3>2 DEF Elements
  <2>2. CASE x \in Elements(b)
    <3>1. PICK i \in 1..Len(b) : x = b[i] BY <2>2 DEF Elements
    <3>2. Len(a) + i \in 1..Len(c) /\ c[Len(a) + i] = x BY <1>1, <1>2, <3>1
    <3> QED BY <3>2 DEF Elements
  <2> QED BY <2>1, <2>2
<1> QED BY <1>1, <1>3, <1>4 DEF c

LEMMA FunctionIsSeq ==
  ASSUME NEW S, NEW n \in Nat, NEW f \in [1..n -> S]
  PROVE  f \in Seq(S) /\ Len(f) = n
<1>1. f \in Seq(S) BY SeqDef, Zenon
<1>2. Len(f) \in Nat /\ f \in [1..Len(f) -> S] BY <1>1, LenProperties
<1>3. 1..Len(f) = 1..n BY <1>2
<1> DEFINE m == Len(f)
<1> HIDE DEF m
<1>4. m \in Nat /\ 1..m = 1..n BY <1>2, <1>3 DEF m
<1>5. \A i \in Int : i \in 1..m <=> i \in 1..n BY <1>4
<1>6. (m > 0 => m \in 1..n) /\ m + 1 \notin 1..n BY <1>4, <1>5
<1>7. m = n BY <1>4, <1>6
<1> QED BY <1>1, <1>7 DEF m

\* The writes of Muse after its first: one place after another is stripped, and
\* with the user's settings the pointer is set.
Strips(done, s, p) == [done EXCEPT ![s] = Stripped(@), !.pointer = IF s = "user" THEN p ELSE @]
StripRun(f, with, order, p) ==
    f = [n \in 0..Len(order) |-> IF n = 0 THEN with ELSE Strips(f[n - 1], order[n], p)]
Pointers == {"none", "ours", "foreign"}

LEMMA StripsIs ==
  ASSUME NEW T, NEW fs \in AnyFiles(T), NEW s \in Sources, NEW p \in Pointers,
         NEW t, t = Strips(fs, s, p)
  PROVE  /\ t \in AnyFiles(T) /\ t.pointer = IF s = "user" THEN p ELSE fs.pointer
         /\ ~t[s].ours /\ (Malformed(t[s]) <=> Malformed(fs[s])) /\ t[s].theirs = fs[s].theirs
         /\ \A u \in Sources : u # s => t[u] = fs[u]
<1> DEFINE q == IF s = "user" THEN p ELSE fs.pointer
           f == Stripped(fs[s])
<1>1. q \in {"none", "ours", "foreign"} BY DEF Pointers, AnyFiles
<1>2. f \in AnyFile(T) /\ ~f.ours /\ (Malformed(f) <=> Malformed(fs[s])) /\ f.theirs = fs[s].theirs
  BY FileAt, StrippedIs
<1>3. t = [fs EXCEPT ![s] = f, !.pointer = q] BY DEF Strips, AnyFiles, Sources
<1> HIDE DEF f, q
<1>4. t \in AnyFiles(T) /\ t[s] = f /\ t.pointer = q /\ \A u \in Sources : u # s => t[u] = fs[u]
  BY <1>1, <1>2, <1>3 DEF AnyFiles, Sources
<1> QED BY <1>2, <1>4 DEF q

LEMMA StripRunExists ==
  ASSUME NEW T, NEW with \in AnyFiles(T), NEW order \in Seq(Sources), NEW p \in Pointers
  PROVE  \E f : StripRun(f, with, order, p)
<1> DEFINE F == AnyFiles(T)
           L == Len(order)
           step == [x \in F |-> [n \in 1..L |-> Strips(x, order[n], p)]]
<1>1. L \in Nat /\ \A n \in 1..L : order[n] \in Sources OBVIOUS
<1>2. \A x \in F : \A n \in 1..L : Strips(x, order[n], p) \in F BY <1>1, StripsIs
<1>3. step \in [F -> [1..L -> F]] BY <1>2
<1>4. with \in F OBVIOUS
<1> HIDE DEF F, L
<1>5. \E f : RunOf(f, L, F, with, step)
  <2> HIDE DEF step
  <2> QED BY <1>1, <1>3, <1>4, RunExists
<1>6. PICK f : RunOf(f, L, F, with, step) BY <1>5
<1>7. /\ f \in [0..L -> F] /\ f[0] = with
      /\ \A n \in 1..L : f[n] = step[f[n - 1]][n]
  BY <1>6 DEF RunOf
<1>8. \A n \in 0..L : f[n] = IF n = 0 THEN with ELSE Strips(f[n - 1], order[n], p)
  <2> TAKE n \in 0..L
  <2>1. n # 0 => n \in 1..L /\ n - 1 \in 0..L BY <1>1
  <2>2. n # 0 => f[n - 1] \in F BY <1>7, <2>1
  <2> QED BY <1>7, <2>1, <2>2
<1>9. f = [n \in 0..L |-> f[n]] BY <1>7
<1>10. StripRun(f, with, order, p)
  <2>1. [n \in 0..L |-> f[n]] = [n \in 0..L |-> IF n = 0 THEN with ELSE Strips(f[n - 1], order[n], p)] BY <1>8
  <2> QED BY <1>9, <2>1 DEF StripRun, L
<1> QED BY <1>10

LEMMA StripRunIs ==
  ASSUME NEW T, NEW with \in AnyFiles(T), NEW order \in Seq(Sources), NEW p \in Pointers,
         NEW f, StripRun(f, with, order, p), NEW n \in 0..Len(order)
  PROVE  /\ f[n] \in AnyFiles(T)
         /\ \A s \in Sources : /\ f[n][s].theirs = with[s].theirs
                               /\ Malformed(f[n][s]) <=> Malformed(with[s])
                               /\ f[n][s].ours <=> with[s].ours /\ \A i \in 1..n : order[i] # s
                               /\ (\A i \in 1..n : order[i] # s) => f[n][s] = with[s]
         /\ f[n].pointer = IF \E i \in 1..n : order[i] = "user" THEN p ELSE with.pointer
<1> DEFINE L == Len(order)
           Now(x, k) ==
             /\ x \in AnyFiles(T)
             /\ \A s \in Sources : /\ x[s].theirs = with[s].theirs
                                   /\ Malformed(x[s]) <=> Malformed(with[s])
                                   /\ x[s].ours <=> with[s].ours /\ \A i \in 1..k : order[i] # s
                                   /\ (\A i \in 1..k : order[i] # s) => x[s] = with[s]
             /\ x.pointer = IF \E i \in 1..k : order[i] = "user" THEN p ELSE with.pointer
           S == {k \in Nat : k <= L => Now(f[k], k)}
<1>1. L \in Nat /\ \A k \in 1..L : order[k] \in Sources OBVIOUS
<1>2. \A k \in 0..L : f[k] = IF k = 0 THEN with ELSE Strips(f[k - 1], order[k], p) BY <1>1 DEF StripRun
<1>3. 0 \in S BY <1>1, <1>2
<1>4. \A k \in Nat : k \in S => k + 1 \in S
  <2> SUFFICES ASSUME NEW k \in Nat, k \in S, k + 1 <= L PROVE Now(f[k + 1], k + 1)
    <3> HIDE DEF Now
    <3> QED OBVIOUS
  <2> DEFINE x == f[k]
             y == f[k + 1]
             o == order[k + 1]
  <2>1. k <= L /\ k + 1 \in 1..L /\ k + 1 \in 0..L /\ (k + 1) - 1 = k /\ o \in Sources BY <1>1
  <2>2. Now(x, k)
    <3> HIDE DEF Now
    <3> QED BY <2>1
  <2>3. y = Strips(x, o, p) BY <1>2, <2>1
  <2> HIDE DEF x, y
  <2>4. /\ y \in AnyFiles(T) /\ y.pointer = IF o = "user" THEN p ELSE x.pointer
        /\ ~y[o].ours /\ (Malformed(y[o]) <=> Malformed(x[o])) /\ y[o].theirs = x[o].theirs
        /\ \A u \in Sources : u # o => y[u] = x[u]
    <3>1. x \in AnyFiles(T) BY <2>2
    <3> HIDE DEF o
    <3>2. p \in Pointers OBVIOUS
    <3> QED BY ONLY <2>1, <2>3, <3>1, <3>2, StripsIs
  <2>5. \A i \in 1..(k + 1) : i \in 1..k \/ i = k + 1 OBVIOUS
  <2>6. \A i \in 1..k : i \in 1..(k + 1) OBVIOUS
  <2>7. k + 1 \in 1..(k + 1) OBVIOUS
  <2>8. \A s \in Sources : /\ y[s].theirs = with[s].theirs
                           /\ Malformed(y[s]) <=> Malformed(with[s])
                           /\ y[s].ours <=> with[s].ours /\ \A i \in 1..(k + 1) : order[i] # s
                           /\ (\A i \in 1..(k + 1) : order[i] # s) => y[s] = with[s]
    <3> TAKE s \in Sources
    <3>1. CASE s = o BY <2>1, <2>2, <2>4, <2>7, <3>1
    <3>2. CASE s # o BY <2>1, <2>2, <2>4, <2>5, <2>6, <3>2
    <3> QED BY <3>1, <3>2
  <2>9. y.pointer = IF \E i \in 1..(k + 1) : order[i] = "user" THEN p ELSE with.pointer
    <3>1. CASE o = "user" BY <2>4, <2>7, <3>1
    <3>2. CASE o # "user"
      <4>1. (\E i \in 1..(k + 1) : order[i] = "user") <=> \E i \in 1..k : order[i] = "user" BY <2>5, <2>6, <3>2
      <4> QED BY <2>2, <2>4, <3>2, <4>1
    <3> QED BY <3>1, <3>2
  <2> QED BY <2>4, <2>8, <2>9 DEF y
<1> HIDE DEF S
<1>5. \A k \in Nat : k \in S BY <1>3, <1>4, Induction
<1>6. Now(f[n], n)
  <2>1. n \in Nat /\ n <= L BY <1>1
  <2> HIDE DEF Now
  <2> QED BY <1>5, <2>1 DEF S
<1>7. \A s \in Sources : with[s].ours \in BOOLEAN /\ f[n][s].ours \in BOOLEAN
  <2>1. f[n] \in AnyFiles(T) BY <1>6
  <2> QED BY <2>1, FileAt
<1> QED BY <1>6, <1>7

\* One place or none, in turn.
LEMMA DueIs ==
  ASSUME NEW s \in Sources, NEW b \in BOOLEAN, NEW q, q = IF b THEN <<s>> ELSE <<>>
  PROVE  q \in Seq(Sources) /\ Elements(q) = {u \in {s} : b}
<1>1. CASE b
  <2>1. q = <<s>> BY <1>1
  <2>2. Len(q) = 1 /\ q[1] = s /\ q \in Seq(Sources) BY <2>1
  <2>3. 1..Len(q) = {1} BY <2>2
  <2> QED BY <1>1, <2>2, <2>3 DEF Elements
<1>2. CASE ~b
  <2>1. q = <<>> BY <1>2
  <2>2. Len(q) = 0 /\ q \in Seq(Sources) BY <2>1
  <2> QED BY <1>2, <2>2 DEF Elements
<1> QED BY <1>1, <1>2

\* The file that Muse's hooks belong in.
MusePath(level, cred) == IF level = "project" THEN "project" ELSE IF cred THEN "managed" ELSE "user"

LEMMA MuseHooksAre ==
  ASSUME NEW T, NEW fs \in AnyFiles(T), NEW level \in Levels, NEW cred \in BOOLEAN
  PROVE  LET did == MuseHooks(fs, level, cred)
             path == MusePath(level, cred) IN
         /\ \A t \in Passed(fs, did) :
               /\ t \in AnyFiles(T) /\ EntriesKept(fs, t) /\ UnreadKept(fs, t)
               /\ \A s \in Sources : /\ Malformed(t[s]) <=> Malformed(fs[s])
                                     /\ t[s].ours => fs[s].ours \/ s = path
               /\ t.pointer = fs.pointer \/ (cred /\ t.pointer = "ours")
               /\ Fires(fs) # {} /\ (cred => fs.pointer = "ours") => Fires(t) # {}
         /\ did.ok => Left(fs, did) \in AnyFiles(T) /\ Fires(Left(fs, did)) = {path}
         /\ did.ok <=> /\ \A s \in {"user", "project", path} : ~Malformed(fs[s])
                       /\ fs.pointer # "none" => ~Malformed(fs["managed"])
                       /\ cred => level = "user" /\ fs.pointer # "foreign"
                       /\ level = "project" => /\ ~fs["user"].ours
                                               /\ fs.pointer # "none" => ~fs["managed"].ours
                       /\ fs.pointer = "foreign" /\ path # "managed" => ~fs["managed"].ours
<1> DEFINE did == MuseHooks(fs, level, cred)
           path == MusePath(level, cred)
           sources == {"user", "project"} \cup IF fs.pointer # "none" THEN {"managed"} ELSE {}
           others == {s \in sources \ {path} : fs[s].ours}
           pointer == IF cred THEN "ours" ELSE fs.pointer
           with == [fs EXCEPT ![path] = Merged(@)]
           after(done, s) == [done EXCEPT ![s] = Stripped(@), !.pointer = IF s = "user" THEN pointer ELSE @]
           due(s) == IF s \in others THEN <<s>> ELSE <<>>
           q1 == due("managed")
           q2 == due("user")
           q3 == due("project")
           q4 == IF cred /\ "user" \notin others THEN <<"user">> ELSE <<>>
           order == q1 \o q2 \o q3 \o q4
           at == CHOOSE f : StripRun(f, with, order, pointer)
           trace == [i \in 1..Len(order) + 1 |-> at[i - 1]]
           fails == \/ Malformed(fs.user) \/ \E s \in sources \cup {path} : Malformed(fs[s])
                    \/ cred /\ (level = "project" \/ fs.pointer = "foreign")
                    \/ others # {} /\ level = "project"
                    \/ "managed" \in others /\ fs.pointer = "foreign"
<1>1. did = IF fails THEN Stopped(<<>>) ELSE Done(trace)
  BY Zenon DEF MuseHooks, MusePath, StripRun, Strips
<1>2. /\ path \in Sources /\ sources \subseteq Sources /\ others \subseteq Sources /\ path \notin others
      /\ pointer \in Pointers /\ "user" \in Sources /\ fs["user"] = fs.user
      /\ \A s \in others : fs[s].ours
      /\ \A s \in Sources : fs[s].ours => s = path \/ s \in others \/ (s = "managed" /\ fs.pointer = "none")
  BY DEF MusePath, Sources, Pointers, AnyFiles, Levels
<1>3. /\ with \in AnyFiles(T) /\ with.pointer = fs.pointer
      /\ with[path].ours /\ ~Malformed(with[path]) /\ with[path].theirs = fs[path].theirs
      /\ \A u \in Sources : u # path => with[u] = fs[u]
  BY <1>2, MergePut
<1>4. fails <=> ~(/\ \A s \in {"user", "project", path} : ~Malformed(fs[s])
                  /\ fs.pointer # "none" => ~Malformed(fs["managed"])
                  /\ cred => level = "user" /\ fs.pointer # "foreign"
                  /\ level = "project" => /\ ~fs["user"].ours
                                          /\ fs.pointer # "none" => ~fs["managed"].ours
                  /\ fs.pointer = "foreign" /\ path # "managed" => ~fs["managed"].ours)
  BY DEF MusePath, Levels
<1>5. order \in Seq(Sources) /\ Elements(order) = others \cup {u \in {"user"} : cred}
  <2>1. q1 \in Seq(Sources) /\ Elements(q1) = {u \in {"managed"} : "managed" \in others}
    <3>1. "managed" \in Sources BY DEF Sources
    <3> HIDE DEF others
    <3> QED BY <3>1, DueIs
  <2>2. q2 \in Seq(Sources) /\ Elements(q2) = {u \in {"user"} : "user" \in others}
    <3>1. "user" \in Sources BY DEF Sources
    <3> HIDE DEF others
    <3> QED BY <3>1, DueIs
  <2>3. q3 \in Seq(Sources) /\ Elements(q3) = {u \in {"project"} : "project" \in others}
    <3>1. "project" \in Sources BY DEF Sources
    <3> HIDE DEF others
    <3> QED BY <3>1, DueIs
  <2>4. q4 \in Seq(Sources) /\ Elements(q4) = {u \in {"user"} : cred /\ "user" \notin others}
    <3>1. "user" \in Sources BY DEF Sources
    <3> HIDE DEF others
    <3> QED BY <3>1, DueIs
  <2> HIDE DEF q1, q2, q3, q4
  <2>5. q1 \o q2 \in Seq(Sources) /\ Elements(q1 \o q2) = Elements(q1) \cup Elements(q2)
    BY <2>1, <2>2, JoinElements
  <2> DEFINE q12 == q1 \o q2
  <2>6. q12 \in Seq(Sources) /\ Elements(q12) = Elements(q1) \cup Elements(q2) BY <2>5
  <2> DEFINE q123 == q12 \o q3
  <2>7. q123 \in Seq(Sources) /\ Elements(q123) = Elements(q12) \cup Elements(q3)
    <3> HIDE DEF q12
    <3> QED BY <2>3, <2>6, JoinElements
  <2>8. q123 \o q4 \in Seq(Sources) /\ Elements(q123 \o q4) = Elements(q123) \cup Elements(q4)
    <3> HIDE DEF q123
    <3> QED BY <2>4, <2>7, JoinElements
  <2>9. order = q123 \o q4 OBVIOUS
  <2> HIDE DEF order, q123, q12
  <2>10. Elements(order) = {u \in Sources : u \in others} \cup {u \in {"user"} : cred}
    <3> HIDE DEF others
    <3> QED BY <2>1, <2>2, <2>3, <2>4, <2>6, <2>7, <2>8, <2>9 DEF Sources
  <2> QED BY <1>2, <2>8, <2>9, <2>10
<1>6. CASE fails
  <2>1. did.trace = <<>> /\ did.ok = FALSE
    <3> HIDE DEF did, fails, trace
    <3> QED BY <1>1, <1>6 DEF Stopped
  <2> HIDE DEF did
  <2>2. Passed(fs, did) = {fs} BY <2>1, TraceIs
  <2>3. EntriesKept(fs, fs) /\ UnreadKept(fs, fs) BY DEF EntriesKept, UnreadKept
  <2>4. ~did.ok BY <2>1
  <2>5. \A t \in Passed(fs, did) :
          /\ t \in AnyFiles(T) /\ EntriesKept(fs, t) /\ UnreadKept(fs, t)
          /\ \A s \in Sources : /\ Malformed(t[s]) <=> Malformed(fs[s])
                                /\ t[s].ours => fs[s].ours \/ s = path
          /\ t.pointer = fs.pointer \/ (cred /\ t.pointer = "ours")
          /\ Fires(fs) # {} /\ (cred => fs.pointer = "ours") => Fires(t) # {}
    <3> HIDE DEF path
    <3> QED BY <2>2, <2>3
  <2> HIDE DEF fails, path
  <2> QED BY <1>4, <1>6, <2>4, <2>5 DEF did, path
<1>7. CASE ~fails
  <2> DEFINE L == Len(order)
  <2>1. did.trace = trace /\ did.ok = TRUE
    <3> HIDE DEF did, fails, trace
    <3> QED BY <1>1, <1>7 DEF Done
  <2>2. \E f : StripRun(f, with, order, pointer)
    <3> HIDE DEF with, order, pointer
    <3> QED BY <1>2, <1>3, <1>5, StripRunExists
  <2>3. StripRun(at, with, order, pointer)
    <3> HIDE DEF with, order, pointer
    <3> QED BY <2>2
  <2>4. L \in Nat /\ (\A i \in 1..L : order[i] \in Elements(order)) /\ \A s \in Elements(order) : \E i \in 1..L : order[i] = s
    <3> HIDE DEF order
    <3> QED BY <1>5 DEF Elements
  <2> HIDE DEF at, order
  <2>5. \A n \in 0..L : /\ at[n] \in AnyFiles(T)
                        /\ \A s \in Sources : /\ at[n][s].theirs = with[s].theirs
                                              /\ Malformed(at[n][s]) <=> Malformed(with[s])
                                              /\ at[n][s].ours <=> with[s].ours /\ \A i \in 1..n : order[i] # s
                                              /\ (\A i \in 1..n : order[i] # s) => at[n][s] = with[s]
                        /\ at[n].pointer = IF \E i \in 1..n : order[i] = "user" THEN pointer ELSE with.pointer
    <3> HIDE DEF with, pointer
    <3> QED BY <1>2, <1>3, <1>5, <2>3, StripRunIs
  <2>6. trace \in [1..(L + 1) -> AnyFiles(T)] /\ \A i \in 1..(L + 1) : trace[i] = at[i - 1]
    <3>1. \A i \in 1..(L + 1) : i - 1 \in 0..L BY <2>4
    <3> QED BY <2>5, <3>1
  <2>7. Len(trace) = L + 1 /\ trace # <<>> /\ DOMAIN trace = 1..(L + 1)
    <3> HIDE DEF trace, L
    <3>1. L + 1 \in Nat BY <2>4
    <3>2. Len(trace) = L + 1 BY <2>6, <3>1, FunctionIsSeq
    <3>3. DOMAIN trace = 1..(L + 1) /\ 1 \in 1..(L + 1) BY <2>4, <2>6
    <3>4. trace # <<>> BY <2>4, <3>2
    <3> QED BY <3>2, <3>3, <3>4
  <2> HIDE DEF did, trace, L
  <2>8. Passed(fs, did) = {fs} \cup {at[n] : n \in 0..L}
    <3>1. Passed(fs, did) = {fs} \cup {trace[i] : i \in 1..(L + 1)} BY <2>1, <2>7 DEF Passed
    <3>2. \A n \in 0..L : n + 1 \in 1..(L + 1) /\ (n + 1) - 1 = n BY <2>4
    <3>3. \A i \in 1..(L + 1) : i - 1 \in 0..L BY <2>4
    <3>4. ASSUME NEW i \in 1..(L + 1) PROVE \E n \in 0..L : trace[i] = at[n] BY <2>6, <3>3
    <3>5. ASSUME NEW n \in 0..L PROVE \E i \in 1..(L + 1) : trace[i] = at[n]
      <4>1. trace[n + 1] = at[n] BY <2>6, <3>2
      <4> QED BY <3>2, <4>1
    <3> QED BY <3>1, <3>4, <3>5
  <2>9. Left(fs, did) = at[L] /\ L \in 0..L
    <3>1. L + 1 \in 1..(L + 1) /\ (L + 1) - 1 = L /\ L \in 0..L BY <2>4
    <3>2. Left(fs, did) = trace[L + 1] BY <2>1, <2>7 DEF Left
    <3> QED BY <2>6, <3>1, <3>2
  \* What is not ours, and what cannot be read.
  <2>10. /\ \A s \in sources \cup {path} : ~Malformed(fs[s])
         /\ cred => path = "managed" /\ fs.pointer # "foreign"
         /\ path = "managed" <=> cred
         /\ pointer = IF cred THEN "ours" ELSE fs.pointer
    BY <1>7 DEF MusePath, Levels
  <2>11. path \notin Elements(order) /\ Elements(order) \subseteq sources
    <3>1. "user" \in sources /\ others \subseteq sources OBVIOUS
    <3>2. cred => path # "user" BY <2>10
    <3> HIDE DEF path, others, sources
    <3> QED BY <1>2, <1>5, <3>1, <3>2
  <2>12. "user" \in sources /\ "project" \in sources /\ (fs.pointer # "none" => "managed" \in sources) OBVIOUS
  <2> HIDE DEF with, pointer, path, others, sources, fails
  <2>13. \A n \in 0..L : \A i \in 1..n : i \in 1..L BY <2>4
  <2>14. ASSUME NEW n \in 0..L, NEW s \in Sources
         PROVE  /\ at[n][s].theirs = fs[s].theirs
                /\ Malformed(at[n][s]) <=> Malformed(fs[s])
                /\ at[n][s].ours => fs[s].ours \/ s = path
                /\ Malformed(fs[s]) => at[n][s] = fs[s]
    <3>1. s = path => ~Malformed(fs[s]) BY <2>10
    <3>2. Malformed(fs[s]) => \A i \in 1..n : order[i] # s BY <2>4, <2>10, <2>11, <2>13
    <3> QED BY <1>3, <2>5, <3>1, <3>2
  <2>15. ASSUME NEW n \in 0..L
         PROVE  /\ at[n][path].ours
                /\ at[n].pointer = fs.pointer \/ (cred /\ at[n].pointer = "ours")
                /\ (cred => fs.pointer = "ours") => path \in Fires(at[n])
    <3>1. \A i \in 1..n : order[i] # path BY <2>4, <2>11, <2>13
    <3>2. at[n][path].ours BY <1>2, <1>3, <2>5, <3>1
    <3>3. at[n].pointer = fs.pointer \/ (cred /\ at[n].pointer = "ours") BY <1>3, <2>5, <2>10
    <3>4. (cred => fs.pointer = "ours") /\ path = "managed" => at[n].pointer # "none" BY <2>10, <3>3
    <3> QED BY <1>2, <3>2, <3>3, <3>4 DEF Fires, Sources
  <2>16. \A t \in Passed(fs, did) :
           /\ t \in AnyFiles(T) /\ EntriesKept(fs, t) /\ UnreadKept(fs, t)
           /\ \A s \in Sources : /\ Malformed(t[s]) <=> Malformed(fs[s])
                                 /\ t[s].ours => fs[s].ours \/ s = path
           /\ t.pointer = fs.pointer \/ (cred /\ t.pointer = "ours")
           /\ Fires(fs) # {} /\ (cred => fs.pointer = "ours") => Fires(t) # {}
    <3>1. EntriesKept(fs, fs) /\ UnreadKept(fs, fs) BY DEF EntriesKept, UnreadKept
    <3>2. \A n \in 0..L : EntriesKept(fs, at[n]) /\ UnreadKept(fs, at[n]) BY <2>14 DEF EntriesKept, UnreadKept
    <3>3. \A n \in 0..L : at[n] \in AnyFiles(T) BY <2>5
    <3> QED BY <2>8, <2>14, <2>15, <3>1, <3>2, <3>3
  <2>17. Left(fs, did) \in AnyFiles(T) /\ Fires(Left(fs, did)) = {path}
    <3> DEFINE t == at[L]
    <3>1. t \in AnyFiles(T) BY <2>5, <2>9
    <3>2. \A s \in Sources : t[s].ours => with[s].ours /\ s \notin Elements(order) BY <2>4, <2>5, <2>9
    <3>3. \A s \in Sources : t[s].ours => s = path \/ (s = "managed" /\ fs.pointer = "none")
      BY <1>2, <1>3, <1>5, <3>2
    <3>4. cred => t.pointer = "ours"
      <4>1. cred => \E i \in 1..L : order[i] = "user" BY <1>5, <2>4
      <4> QED BY <2>5, <2>9, <2>10, <4>1
    <3>5. ~cred => t.pointer = fs.pointer BY <1>3, <2>5, <2>9, <2>10
    <3>6. t[path].ours BY <2>9, <2>15
    <3> HIDE DEF t
    <3>7. path \in Fires(t) BY <1>2, <2>10, <3>4, <3>6 DEF Fires, Sources
    <3>8. \A s \in Fires(t) : s \in Sources /\ t[s].ours /\ (s = "managed" => t.pointer # "none")
      BY DEF Fires, Sources
    <3>9. \A s \in Fires(t) : s = path BY <2>10, <3>3, <3>5, <3>8
    <3>10. Fires(t) = {path} BY <3>7, <3>9
    <3> QED BY <2>9, <3>1, <3>10 DEF t
  <2>18. did.ok BY <2>1
  <2> QED BY <1>4, <1>7, <2>16, <2>17, <2>18 DEF did, path
<1> QED BY <1>6, <1>7

(***************************************************************************)
(* Installing the hooks of any client.                                     *)
(***************************************************************************)
HookInputs(T) ==
    [kind : {"json", "plugin", "cursor"}, fs : Plain(T), level : Levels, credentialed : {FALSE}]
    \cup [kind : {"muse"}, fs : AnyFiles(T), level : Levels, credentialed : BOOLEAN]
HookTarget(r) == IF r.kind = "muse" THEN MusePath(r.level, r.credentialed) ELSE r.level

\* Of every client: the user's entries stay, and an installation that ends
\* leaves the hooks in the one file asked for.
LEMMA HooksAre ==
  ASSUME NEW T, Marks(T), NEW r \in HookInputs(T), NEW did, did = Hooks(r.kind, r.fs, r.level, r.credentialed)
  PROVE  /\ r.fs \in AnyFiles(T)
         /\ \A t \in Passed(r.fs, did) : /\ r.kind # "plugin" => EntriesKept(r.fs, t) /\ UnreadKept(r.fs, t)
                                         /\ r.kind = "plugin" => OthersKept(r.fs, r.level, t)
                                         /\ [r EXCEPT !.fs = t] \in HookInputs(T)
         /\ did.ok => Fires(Left(r.fs, did)) = {HookTarget(r)}
<1>1. CASE r \in [kind : {"json", "plugin", "cursor"}, fs : Plain(T), level : Levels, credentialed : {FALSE}]
  <2>1. r.fs \in Plain(T) /\ r.level \in Levels /\ r.fs \in AnyFiles(T) /\ HookTarget(r) = r.level
    BY <1>1 DEF Plain, HookTarget
  <2>2. \A t \in Plain(T) : [r EXCEPT !.fs = t] \in HookInputs(T) BY <1>1 DEF HookInputs
  <2>3. CASE r.kind = "json"
    <3>1. did = JsonHooks(r.fs, r.level) BY <2>3 DEF Hooks
    <3> QED BY <2>1, <2>2, <2>3, <3>1, JsonHooksAre
  <2>4. CASE r.kind = "plugin"
    <3>1. did = PluginHooks(r.fs, r.level) BY <2>4 DEF Hooks
    <3> QED BY <2>1, <2>2, <2>4, <3>1, PluginHooksAre
  <2>5. CASE r.kind = "cursor"
    <3>1. did = CursorHooks(r.fs, r.level) BY <2>5 DEF Hooks
    <3> QED BY <2>1, <2>2, <2>5, <3>1, CursorHooksAre
  <2> QED BY <1>1, <2>3, <2>4, <2>5
<1>2. CASE r \in [kind : {"muse"}, fs : AnyFiles(T), level : Levels, credentialed : BOOLEAN]
  <2>1. /\ r.fs \in AnyFiles(T) /\ r.level \in Levels /\ r.credentialed \in BOOLEAN
        /\ HookTarget(r) = MusePath(r.level, r.credentialed)
    BY <1>2 DEF HookTarget
  <2>2. \A t \in AnyFiles(T) : [r EXCEPT !.fs = t] \in HookInputs(T) BY <1>2 DEF HookInputs
  <2>3. did = MuseHooks(r.fs, r.level, r.credentialed) BY <1>2 DEF Hooks
  <2> QED BY <1>2, <2>1, <2>2, <2>3, MuseHooksAre
<1> QED BY <1>1, <1>2 DEF HookInputs

LEMMA HooksStand ==
  ASSUME NEW T, Marks(T), NEW r \in HookInputs(T), r.kind \in {"cursor", "muse"}, Fires(r.fs) # {},
         r.credentialed => r.fs.pointer = "ours",
         NEW did, did = Hooks(r.kind, r.fs, r.level, r.credentialed), NEW t \in Passed(r.fs, did)
  PROVE  Fires(t) # {}
<1>1. CASE r.kind = "cursor"
  <2>1. r.fs \in Plain(T) /\ r.level \in Levels /\ did = CursorHooks(r.fs, r.level)
    BY <1>1 DEF HookInputs, Hooks
  <2> QED BY <2>1, CursorHooksAre
<1>2. CASE r.kind = "muse"
  <2>1. /\ r.fs \in AnyFiles(T) /\ r.level \in Levels /\ r.credentialed \in BOOLEAN
        /\ did = MuseHooks(r.fs, r.level, r.credentialed)
    BY <1>2 DEF HookInputs, Hooks
  <2> QED BY <2>1, MuseHooksAre
<1> QED BY <1>1, <1>2

LEMMA HooksSingle ==
  ASSUME NEW T, Marks(T), NEW r \in HookInputs(T), r.kind \in {"json", "plugin"}, ~DoubleFire(r.fs),
         NEW did, did = Hooks(r.kind, r.fs, r.level, r.credentialed), NEW t \in Passed(r.fs, did)
  PROVE  ~DoubleFire(t)
<1>1. CASE r.kind = "json"
  <2>1. r.fs \in Plain(T) /\ r.level \in Levels /\ did = JsonHooks(r.fs, r.level)
    BY <1>1 DEF HookInputs, Hooks
  <2> QED BY <2>1, JsonHooksAre
<1>2. CASE r.kind = "plugin"
  <2>1. r.fs \in Plain(T) /\ r.level \in Levels /\ did = PluginHooks(r.fs, r.level)
    BY <1>2 DEF HookInputs, Hooks
  <2> QED BY <2>1, PluginHooksAre
<1> QED BY <1>1, <1>2

\* What an installation for the user leaves, wherever it dies, the same
\* installation takes up.
LEMMA HooksResume ==
  ASSUME NEW T, Marks(T), NEW r \in HookInputs(T), r.level = "user",
         NEW did, did = Hooks(r.kind, r.fs, r.level, r.credentialed), did.ok,
         NEW t \in Passed(r.fs, did), NEW again, again = Hooks(r.kind, t, r.level, r.credentialed)
  PROVE  again.ok
<1>0. "user" \in Levels BY DEF Levels
<1>1. CASE r.kind = "json"
  <2>1. r.fs \in Plain(T) /\ did = JsonHooks(r.fs, "user") /\ again = JsonHooks(t, "user")
    BY <1>1 DEF HookInputs, Hooks
  <2>2. t \in Plain(T) /\ ~Malformed(t["user"]) BY <1>0, <2>1, JsonHooksAre
  <2> QED BY <1>0, <2>1, <2>2, JsonHooksAre
<1>2. CASE r.kind = "plugin"
  <2>1. r.fs \in Plain(T) /\ did = PluginHooks(r.fs, "user") /\ again = PluginHooks(t, "user")
    BY <1>2 DEF HookInputs, Hooks
  <2>2. t \in Plain(T) BY <1>0, <2>1, PluginHooksAre
  <2>3. again.ok = ~(t[OtherLevel("user")].ours /\ "user" = "project") BY <1>0, <2>1, <2>2, PluginHooksAre
  <2> QED BY <2>3
<1>3. CASE r.kind = "cursor"
  <2>1. r.fs \in Plain(T) /\ did = CursorHooks(r.fs, "user") /\ again = CursorHooks(t, "user")
    BY <1>3 DEF HookInputs, Hooks
  <2>2. t \in Plain(T) /\ \A s \in Levels : ~Malformed(t[s]) BY <1>0, <2>1, CursorHooksAre
  <2> QED BY <1>0, <2>1, <2>2, CursorHooksAre
<1>4. CASE r.kind = "muse"
  <2> DEFINE cred == r.credentialed
             path == MusePath("user", cred)
  <2>1. /\ r.fs \in AnyFiles(T) /\ cred \in BOOLEAN
        /\ did = MuseHooks(r.fs, "user", cred) /\ again = MuseHooks(t, "user", cred)
    BY <1>4 DEF HookInputs, Hooks
  <2>2. path = (IF cred THEN "managed" ELSE "user") BY DEF MusePath
  <2> HIDE DEF cred, path
  <2>3. /\ \A s \in {"user", "project", path} : ~Malformed(r.fs[s])
        /\ r.fs.pointer # "none" => ~Malformed(r.fs["managed"])
        /\ cred => r.fs.pointer # "foreign"
        /\ r.fs.pointer = "foreign" /\ path # "managed" => ~r.fs["managed"].ours
    BY <1>0, <2>1, MuseHooksAre DEF path
  <2>4. /\ t \in AnyFiles(T)
        /\ \A s \in Sources : /\ Malformed(t[s]) <=> Malformed(r.fs[s])
                              /\ t[s].ours => r.fs[s].ours \/ s = path
        /\ t.pointer = r.fs.pointer \/ (cred /\ t.pointer = "ours")
    BY <1>0, <2>1, MuseHooksAre DEF path
  <2>5. /\ \A s \in {"user", "project", path} : ~Malformed(t[s])
        /\ t.pointer # "none" => ~Malformed(t["managed"])
        /\ cred => t.pointer # "foreign"
        /\ t.pointer = "foreign" /\ path # "managed" => ~t["managed"].ours
    BY <2>2, <2>3, <2>4 DEF Sources
  <2> QED BY <1>0, <2>1, <2>4, <2>5, MuseHooksAre DEF path
<1> QED BY <1>1, <1>2, <1>3, <1>4 DEF HookInputs

(***************************************************************************)
(* Servers, and setup of a client.                                         *)
(***************************************************************************)
ServerFiles(T) == [user : AnyFile(T), project : AnyFile(T)]

LEMMA ServerMerged ==
  ASSUME NEW T, NEW fs \in ServerFiles(T), NEW s \in Levels, NEW t, t = [fs EXCEPT ![s] = Merged(@)]
  PROVE  /\ t \in ServerFiles(T) /\ t[s].ours /\ ~Malformed(t[s]) /\ t[s].theirs = fs[s].theirs
         /\ \A u \in Levels : u # s => t[u] = fs[u]
<1> DEFINE f == Merged(fs[s])
<1>1. fs[s] \in AnyFile(T) BY DEF ServerFiles, Levels
<1>2. f \in AnyFile(T) /\ f.ours /\ ~Malformed(f) /\ f.theirs = fs[s].theirs BY <1>1, MergedIs
<1>3. t = [fs EXCEPT ![s] = f] BY DEF ServerFiles, Levels
<1> HIDE DEF f
<1>4. t \in ServerFiles(T) /\ t[s] = f /\ \A u \in Levels : u # s => t[u] = fs[u]
  BY <1>2, <1>3 DEF ServerFiles, Levels
<1> QED BY <1>2, <1>4

LEMMA ServerStripped ==
  ASSUME NEW T, NEW fs \in ServerFiles(T), NEW s \in Levels, NEW t, t = [fs EXCEPT ![s] = Stripped(@)]
  PROVE  /\ t \in ServerFiles(T) /\ ~t[s].ours /\ t[s].theirs = fs[s].theirs
         /\ \A u \in Levels : u # s => t[u] = fs[u]
<1> DEFINE f == Stripped(fs[s])
<1>1. fs[s] \in AnyFile(T) BY DEF ServerFiles, Levels
<1>2. f \in AnyFile(T) /\ ~f.ours /\ f.theirs = fs[s].theirs BY <1>1, StrippedIs
<1>3. t = [fs EXCEPT ![s] = f] BY DEF ServerFiles, Levels
<1> HIDE DEF f
<1>4. t \in ServerFiles(T) /\ t[s] = f /\ \A u \in Levels : u # s => t[u] = fs[u]
  BY <1>2, <1>3 DEF ServerFiles, Levels
<1> QED BY <1>2, <1>4

\* A server that was installed stands at its level.
LEMMA McpInstallIs ==
  ASSUME NEW T, NEW fs \in ServerFiles(T), NEW level \in Levels, NEW kind,
         NEW did, did = McpInstall(kind, fs, level), did.ok
  PROVE  Left(fs, did) \in ServerFiles(T) /\ Left(fs, did)[level].ours
<1> DEFINE displaces == kind \in {"plain", "pi"} /\ level = "user" /\ fs.project.ours
           apart == [fs EXCEPT !.project = Stripped(@)]
           base == IF displaces THEN apart ELSE fs
           with == [base EXCEPT ![level] = Merged(@)]
<1>1. apart \in ServerFiles(T)
  <2>1. apart = [fs EXCEPT !["project"] = Stripped(@)] OBVIOUS
  <2>2. "project" \in Levels BY DEF Levels
  <2> HIDE DEF apart
  <2> QED BY <2>1, <2>2, ServerStripped
<1>2. base \in ServerFiles(T) BY <1>1
<1>3. with \in ServerFiles(T) /\ with[level].ours
  <2> HIDE DEF base
  <2> QED BY <1>2, ServerMerged
<1>4. did = Done(Append(IF displaces THEN <<apart>> ELSE <<>>, with))
  BY DEF McpInstall, Stopped
<1> HIDE DEF displaces, apart, with
<1>5. did.trace = IF displaces THEN <<apart, with>> ELSE <<with>>
  <2>1. Append(<<apart>>, with) = <<apart, with>> /\ Append(<<>>, with) = <<with>> BY AppendIs
  <2> DEFINE j == Append(IF displaces THEN <<apart>> ELSE <<>>, with)
  <2>2. j = IF displaces THEN <<apart, with>> ELSE <<with>> BY <2>1
  <2>3. did = Done(j) BY <1>4
  <2> HIDE DEF j
  <2> QED BY <2>2, <2>3 DEF Done
<1>6. Left(fs, did) = with BY <1>5, TraceIs
<1> QED BY <1>3, <1>6

LEMMA JoinThree ==
  ASSUME NEW a, NEW b, NEW c
  PROVE  <<a, b>> \o <<c>> = <<a, b, c>> /\ <<a, b>> \o <<>> = <<a, b>>
<1> DEFINE S == {a, b, c}
           s == <<a, b>>
           t == <<c>>
           u == <<a, b, c>>
<1>1. s \in Seq(S) /\ t \in Seq(S) /\ Len(s) = 2 /\ Len(t) = 1 /\ s[1] = a /\ s[2] = b /\ t[1] = c OBVIOUS
<1>2. u \in Seq(S) /\ Len(u) = 3 /\ u[1] = a /\ u[2] = b /\ u[3] = c OBVIOUS
<1> HIDE DEF S, s, t, u
<1>3. /\ s \o t \in Seq(S) /\ Len(s \o t) = Len(s) + Len(t)
      /\ \A i \in 1..Len(s) + Len(t) : (s \o t)[i] = IF i <= Len(s) THEN s[i] ELSE t[i - Len(s)]
  BY <1>1, ConcatProperties
<1>4. Len(s \o t) = 3 /\ (s \o t)[1] = a /\ (s \o t)[2] = b /\ (s \o t)[3] = c BY <1>1, <1>3
<1>5. \A i \in 1..3 : i = 1 \/ i = 2 \/ i = 3 OBVIOUS
<1>6. s \o t = u
  <2> DEFINE v == s \o t
  <2>1. v \in Seq(S) /\ Len(v) = Len(u) /\ \A i \in 1..Len(v) : v[i] = u[i] BY <1>2, <1>3, <1>4, <1>5
  <2> HIDE DEF v
  <2>2. v = u BY <1>2, <2>1, SeqEqual
  <2> QED BY <2>2 DEF v
<1>7. s \o <<>> = s BY <1>1, ConcatEmptySeq
<1> QED BY <1>6, <1>7 DEF s, t, u

LEMMA TraceOfThree ==
  ASSUME NEW fs, NEW did, NEW a, NEW b, NEW c, did.trace = <<a, b, c>>
  PROVE  Passed(fs, did) = {fs, a, b, c} /\ Left(fs, did) = c
<1>1. /\ DOMAIN did.trace = {1, 2, 3} /\ Len(did.trace) = 3 /\ did.trace # <<>>
      /\ did.trace[1] = a /\ did.trace[2] = b /\ did.trace[3] = c
  OBVIOUS
<1> QED BY <1>1 DEF Passed, Left

LEMMA UserWritten ==
  ASSUME NEW T, NEW fs \in ServerFiles(T)
  PROVE  /\ [fs EXCEPT !.user = Stripped(@)] \in ServerFiles(T)
         /\ [fs EXCEPT !.user = Stripped(@)].project = fs.project
         /\ [fs EXCEPT !.user = Merged(@)] \in ServerFiles(T)
         /\ [fs EXCEPT !.user = Merged(@)].user.ours
         /\ [fs EXCEPT !.user = Merged(@)].project = fs.project
<1> DEFINE f == Stripped(fs.user)
           g == Merged(fs.user)
<1>1. fs.user \in AnyFile(T) BY DEF ServerFiles
<1>2. f \in AnyFile(T) /\ g \in AnyFile(T) /\ g.ours BY <1>1, MergedIs, StrippedIs
<1> HIDE DEF f, g
<1>3. \A x \in AnyFile(T) : /\ [fs EXCEPT !.user = x] \in ServerFiles(T)
                            /\ [fs EXCEPT !.user = x].user = x
                            /\ [fs EXCEPT !.user = x].project = fs.project
  BY DEF ServerFiles
<1> QED BY <1>2, <1>3 DEF f, g

LEMMA ProjectDisplaced ==
  ASSUME NEW T, NEW fs \in ServerFiles(T)
  PROVE  LET t == [fs EXCEPT !.project = Stripped(@)] IN
         /\ t \in ServerFiles(T) /\ t.user = fs.user
         /\ ~t.project.ours /\ t.project.theirs = fs.project.theirs
<1> DEFINE f == Stripped(fs.project)
<1>1. fs.project \in AnyFile(T) BY DEF ServerFiles
<1>2. f \in AnyFile(T) /\ ~f.ours /\ f.theirs = fs.project.theirs BY <1>1, StrippedIs
<1> HIDE DEF f
<1>3. LET t == [fs EXCEPT !.project = f] IN t \in ServerFiles(T) /\ t.user = fs.user /\ t.project = f
  BY <1>2 DEF ServerFiles
<1> QED BY <1>2, <1>3 DEF f

\* The client's own command, with a displacement once it succeeded.
LEMMA McpCommandIs ==
  ASSUME NEW T, NEW fs \in ServerFiles(T), NEW add \in BOOLEAN, NEW remove \in BOOLEAN, NEW again \in BOOLEAN,
         NEW did, did = McpCommand(fs, add, remove, again)
  PROVE  /\ \A t \in Passed(fs, did) : t.project.theirs = fs.project.theirs
         /\ fs.project.ours => \A t \in Passed(fs, did) : Registered(t) # {}
         /\ did.ok => Registered(Left(fs, did)) = {"user"}
<1> DEFINE removed == IF remove THEN [fs EXCEPT !.user = Stripped(@)] ELSE fs
           added(f) == [f EXCEPT !.user = Merged(@)]
           with == IF add THEN added(fs) ELSE added(removed)
           apart == [with EXCEPT !.project = Stripped(@)]
<1>0. "user" \in Levels /\ "project" \in Levels /\ "user" # "project" BY DEF Levels
<1>1. removed \in ServerFiles(T) /\ removed.project = fs.project BY UserWritten
<1>2. with \in ServerFiles(T) /\ with.user.ours /\ with.project = fs.project
  <2> HIDE DEF removed
  <2>1. \A f \in ServerFiles(T) : /\ added(f) \in ServerFiles(T) /\ added(f).user.ours
                                  /\ added(f).project = f.project
    BY UserWritten
  <2> HIDE DEF added
  <2> QED BY <1>1, <2>1
<1> HIDE DEF with, removed
<1>3. /\ apart \in ServerFiles(T) /\ apart.user = with.user
      /\ ~apart.project.ours /\ apart.project.theirs = fs.project.theirs
  BY <1>2, ProjectDisplaced
<1> HIDE DEF apart
<1> DEFINE steps == IF add THEN <<with>> ELSE IF again THEN <<removed, with>> ELSE <<removed>>
           more == IF with.project.ours THEN <<apart>> ELSE <<>>
<1>4. did = IF ~add /\ ~again THEN Stopped(steps) ELSE Done(steps \o more)
  BY DEF McpCommand, with, removed, apart
<1>5. Passed(fs, did) \subseteq {fs, removed, with, apart} /\ (did.ok => Left(fs, did) = IF with.project.ours THEN apart ELSE with)
  <2>1. CASE ~add /\ ~again
    <3>1. did.trace = <<removed>> /\ ~did.ok BY <1>4, <2>1 DEF Stopped
    <3> QED BY <3>1, TraceIs
  <2>2. CASE add
    <3>1. did = Done(<<with>> \o more) BY <1>4, <2>2
    <3>2. did.trace = IF with.project.ours THEN <<with, apart>> ELSE <<with>>
      <4> DEFINE j == <<with>> \o more
      <4>1. j = IF with.project.ours THEN <<with, apart>> ELSE <<with>> BY JoinTwo
      <4>2. did = Done(j) BY <3>1
      <4> HIDE DEF j
      <4> QED BY <4>1, <4>2 DEF Done
    <3> QED BY <3>2, TraceIs
  <2>3. CASE ~add /\ again
    <3>1. did = Done(<<removed, with>> \o more) BY <1>4, <2>3
    <3>2. did.trace = IF with.project.ours THEN <<removed, with, apart>> ELSE <<removed, with>>
      <4> DEFINE j == <<removed, with>> \o more
      <4>1. j = IF with.project.ours THEN <<removed, with, apart>> ELSE <<removed, with>> BY JoinThree
      <4>2. did = Done(j) BY <3>1
      <4> HIDE DEF j
      <4> QED BY <4>1, <4>2 DEF Done
    <3> QED BY <3>2, TraceIs, TraceOfThree
  <2> QED BY <2>1, <2>2, <2>3
<1>6. \A t \in {fs, removed, with, apart} : t.project.theirs = fs.project.theirs BY <1>1, <1>2, <1>3
<1>7. \A t \in {fs, removed, with, apart} : fs.project.ours => Registered(t) # {}
  BY <1>1, <1>2, <1>3 DEF Registered
<1>8. Registered(apart) = {"user"} /\ (~with.project.ours => Registered(with) = {"user"})
  BY <1>2, <1>3 DEF Registered
<1> QED BY <1>5, <1>6, <1>7, <1>8

\* setup of a client at a level: what it reports.
Truthful(s, mcp, hooks, level) ==
    /\ ~s.failed => s.mcp[level].ours /\ Fires(s.hooks) = {level}
    /\ s.dry => s.mcp = mcp /\ s.hooks = hooks

LEMMA SetupIs ==
  ASSUME NEW T, Marks(T), NEW kind \in {"json", "plugin", "cursor", "muse"}, NEW mcp \in ServerFiles(T),
         NEW hooks \in Plain(T), NEW level \in Levels, NEW s, s = SetupReport(kind, mcp, hooks, level)
  PROVE  Truthful(s, mcp, hooks, level)
<1> DEFINE mk == IF kind = "json" THEN "cursor" ELSE IF kind = "plugin" THEN "pi" ELSE kind
           dryMcp == ~Malformed(mcp[level])
           dryHooks == CASE kind = "cursor" -> CursorHooks(hooks, level).ok
                         [] kind = "muse" -> MuseHooks(hooks, level, FALSE).ok
                         [] OTHER -> ~(hooks[OtherLevel(level)].ours /\ level = "project")
           didMcp == McpInstall(mk, mcp, level)
           didHooks == Hooks(kind, hooks, level, FALSE)
           r == [kind |-> kind, fs |-> hooks, level |-> level, credentialed |-> FALSE]
<1>1. s = IF ~(dryMcp /\ dryHooks) THEN [failed |-> TRUE, dry |-> TRUE, mcp |-> mcp, hooks |-> hooks]
          ELSE [failed |-> ~(didMcp.ok /\ didHooks.ok), dry |-> FALSE,
                mcp |-> Left(mcp, didMcp), hooks |-> Left(hooks, didHooks)]
  BY Zenon DEF SetupReport, Setup
<1> HIDE DEF dryMcp, dryHooks, mk
<1>2. didMcp.ok => Left(mcp, didMcp)[level].ours BY McpInstallIs
<1>3. r \in HookInputs(T) BY DEF HookInputs, Plain
<1>4. didHooks.ok => Fires(Left(hooks, didHooks)) = {level}
  <2>1. r.kind = kind /\ r.fs = hooks /\ r.level = level /\ r.credentialed = FALSE OBVIOUS
  <2>2. HookTarget(r) = level BY <2>1 DEF HookTarget, MusePath, Levels
  <2> HIDE DEF r
  <2>3. didHooks = Hooks(r.kind, r.fs, r.level, r.credentialed) BY <2>1
  <2> HIDE DEF didHooks
  <2> QED BY <1>3, <2>1, <2>2, <2>3, HooksAre
<1> HIDE DEF didMcp, didHooks
<1>5. CASE ~(dryMcp /\ dryHooks)
  <2>1. s.failed = TRUE /\ s.mcp = mcp /\ s.hooks = hooks BY <1>1, <1>5
  <2> QED BY <2>1 DEF Truthful
<1>6. CASE dryMcp /\ dryHooks
  <2>1. /\ s.failed = ~(didMcp.ok /\ didHooks.ok) /\ s.dry = FALSE
        /\ s.mcp = Left(mcp, didMcp) /\ s.hooks = Left(hooks, didHooks)
    BY <1>1, <1>6
  <2> QED BY <1>2, <1>4, <2>1 DEF Truthful
<1> QED BY <1>5, <1>6

\* What status says of a server at the level and hooks at that level alone.
LEMMA StatusIs ==
  ASSUME NEW mcp, NEW hooks, NEW level \in Levels, mcp[level].ours, Fires(hooks) = {level},
         NEW seen, seen = ClientStatus(mcp, hooks)
  PROVE  seen.hook = level /\ seen.level \in {level, "both"} /\ ~seen.double
<1> DEFINE servers == Registered(mcp)
           fires == Fires(hooks)
           speaking(found, first) == IF found = {} THEN Unset ELSE IF first \in found THEN first
                                     ELSE CHOOSE l \in found : TRUE
           all == servers \cup fires
           which == CASE {"user", "project"} \subseteq all -> "both"
                      [] all = {} -> "none"
                      [] OTHER -> CHOOSE l \in all : TRUE
<1>1. seen = [server |-> speaking(servers, "project"), hook |-> speaking(fires, "user"),
              level |-> which, double |-> DoubleFire(hooks)]
  BY Zenon DEF ClientStatus
<1>2. level \in servers /\ servers \subseteq Levels BY DEF Registered, Levels
<1>3. speaking(fires, "user") = level BY DEF Levels
<1>4. which \in {level, "both"}
  <2>1. all \subseteq Levels /\ level \in all BY <1>2
  <2> HIDE DEF all
  <2>2. ~({"user", "project"} \subseteq all) => all = {level} BY <2>1 DEF Levels
  <2>3. CASE {"user", "project"} \subseteq all BY <2>3
  <2>4. CASE ~({"user", "project"} \subseteq all)
    <3>1. all = {level} /\ all # {} BY <2>2, <2>4
    <3>2. which = CHOOSE l \in all : TRUE BY <2>4, <3>1
    <3> QED BY <3>1, <3>2
  <2> QED BY <2>3, <2>4
<1>5. ~DoubleFire(hooks)
  <2>1. Cardinality({level}) = 1 BY FS_Singleton
  <2> QED BY <2>1 DEF DoubleFire
<1> HIDE DEF speaking, which
<1> QED BY <1>1, <1>3, <1>4, <1>5

(***************************************************************************)
(* The status line.                                                        *)
(***************************************************************************)
\* What is saved of a status line, and the state of both levels, with any lines
\* of the user's own.
SavedLine(L) == [original : L, restore : L]
LineStates(L) ==
    {s \in [line : [Levels -> L \cup {Wrapper.user, Wrapper.project}],
            saved : [Levels -> SavedLine(L) \cup {Unset}],
            off : [Levels -> BOOLEAN], chosen : [Levels -> L]] :
       \A l \in Levels : /\ s.line[l] = Wrapper[l] => s.saved[l] # Unset /\ s.saved[l].restore = s.chosen[l]
                         /\ s.line[l] # Wrapper[l] => s.line[l] = s.chosen[l]}
OwnLines(L) == /\ "none" \in L /\ Unset \notin SavedLine(L)
               /\ {Wrapper.user, Wrapper.project} \cap L = {}

\* The fields of a state, after it changed at one level.
LEMMA LineStateIs ==
  ASSUME NEW L, OwnLines(L), NEW s \in LineStates(L), NEW level \in Levels,
         NEW line \in L \cup {Wrapper[level]}, NEW saved \in SavedLine(L) \cup {Unset},
         NEW off \in BOOLEAN, NEW chosen \in L,
         line = Wrapper[level] => saved # Unset /\ saved.restore = chosen,
         line # Wrapper[level] => line = chosen,
         NEW t,
         t = [line |-> [s.line EXCEPT ![level] = line], saved |-> [s.saved EXCEPT ![level] = saved],
              off |-> [s.off EXCEPT ![level] = off], chosen |-> [s.chosen EXCEPT ![level] = chosen]]
  PROVE  t \in LineStates(L)
<1>1. /\ s.line \in [Levels -> L \cup {Wrapper.user, Wrapper.project}]
      /\ s.saved \in [Levels -> SavedLine(L) \cup {Unset}]
      /\ s.off \in [Levels -> BOOLEAN] /\ s.chosen \in [Levels -> L]
  BY DEF LineStates
<1>2. Wrapper[level] \in {Wrapper.user, Wrapper.project} BY DEF Wrapper, Levels
<1>3. t \in [line : [Levels -> L \cup {Wrapper.user, Wrapper.project}],
             saved : [Levels -> SavedLine(L) \cup {Unset}],
             off : [Levels -> BOOLEAN], chosen : [Levels -> L]]
  BY <1>1, <1>2
<1>4. \A l \in Levels : /\ s.line[l] = Wrapper[l] => s.saved[l] # Unset /\ s.saved[l].restore = s.chosen[l]
                        /\ s.line[l] # Wrapper[l] => s.line[l] = s.chosen[l]
  BY DEF LineStates
<1>5. /\ t.line[level] = line /\ t.saved[level] = saved /\ t.chosen[level] = chosen
      /\ \A l \in Levels : l # level => /\ t.line[l] = s.line[l] /\ t.saved[l] = s.saved[l]
                                        /\ t.chosen[l] = s.chosen[l]
  BY <1>1
<1>6. \A l \in Levels : /\ t.line[l] = Wrapper[l] => t.saved[l] # Unset /\ t.saved[l].restore = t.chosen[l]
                        /\ t.line[l] # Wrapper[l] => t.line[l] = t.chosen[l]
  <2> TAKE l \in Levels
  <2>1. CASE l = level BY <1>5, <2>1
  <2>2. CASE l # level BY <1>4, <1>5, <2>2
  <2> QED BY <2>1, <2>2
<1> QED BY <1>3, <1>6 DEF LineStates

\* What is known of one level of a state.
LevelKnown(L, s, l) ==
    /\ s.line[l] \in L \cup {Wrapper[l]} /\ s.chosen[l] \in L /\ s.off[l] \in BOOLEAN
    /\ s.saved[l] \in SavedLine(L) \cup {Unset}
    /\ Wrapper[l] \notin L
    /\ s.line[l] = Wrapper[l] => /\ s.saved[l] # Unset /\ s.saved[l].original \in L
                                 /\ s.saved[l].restore = s.chosen[l]
    /\ s.line[l] # Wrapper[l] => s.line[l] = s.chosen[l]
    /\ s = [line |-> s.line, saved |-> s.saved, off |-> s.off, chosen |-> s.chosen]
    /\ s.line = [s.line EXCEPT ![l] = s.line[l]] /\ s.saved = [s.saved EXCEPT ![l] = s.saved[l]]
    /\ s.off = [s.off EXCEPT ![l] = s.off[l]] /\ s.chosen = [s.chosen EXCEPT ![l] = s.chosen[l]]

LEMMA LevelIs ==
  ASSUME NEW L, OwnLines(L), NEW s \in LineStates(L), NEW l \in Levels
  PROVE  LevelKnown(L, s, l)
<1>1. /\ s \in [line : [Levels -> L \cup {Wrapper.user, Wrapper.project}],
                saved : [Levels -> SavedLine(L) \cup {Unset}],
                off : [Levels -> BOOLEAN], chosen : [Levels -> L]]
      /\ s.line[l] = Wrapper[l] => s.saved[l] # Unset /\ s.saved[l].restore = s.chosen[l]
      /\ s.line[l] # Wrapper[l] => s.line[l] = s.chosen[l]
  BY DEF LineStates
<1>2. /\ s.line \in [Levels -> L \cup {Wrapper.user, Wrapper.project}]
      /\ s.saved \in [Levels -> SavedLine(L) \cup {Unset}]
      /\ s.off \in [Levels -> BOOLEAN] /\ s.chosen \in [Levels -> L]
  BY <1>1
<1>3. Wrapper[l] \in {Wrapper.user, Wrapper.project} BY DEF Wrapper, Levels
<1>4. s.chosen[l] \in L /\ s.off[l] \in BOOLEAN /\ s.saved[l] \in SavedLine(L) \cup {Unset} BY <1>2
<1>5. s.line[l] \in L \cup {Wrapper[l]} BY <1>1, <1>4
<1>6. Wrapper[l] \notin L BY <1>3 DEF OwnLines
<1>7. s.saved[l] # Unset => s.saved[l].original \in L BY <1>4 DEF SavedLine
<1>8. s = [line |-> s.line, saved |-> s.saved, off |-> s.off, chosen |-> s.chosen] BY <1>1
<1>9. /\ s.line = [s.line EXCEPT ![l] = s.line[l]] /\ s.saved = [s.saved EXCEPT ![l] = s.saved[l]]
      /\ s.off = [s.off EXCEPT ![l] = s.off[l]] /\ s.chosen = [s.chosen EXCEPT ![l] = s.chosen[l]]
  BY <1>2
<1> QED BY <1>1, <1>4, <1>5, <1>6, <1>7, <1>8, <1>9 DEF LevelKnown

LEMMA DisableIs ==
  ASSUME NEW L, OwnLines(L), NEW s \in LineStates(L), NEW level \in Levels,
         NEW t, t = StatusDisable(s, level)
  PROVE  /\ t \in LineStates(L)
         /\ t.line = [s.line EXCEPT ![level] = s.chosen[level]]
         /\ t.saved = s.saved /\ t.chosen = s.chosen
<1> DEFINE line == IF s.saved[level] # Unset /\ s.line[level] = Wrapper[level]
                   THEN s.saved[level].restore ELSE s.line[level]
<1>0. LevelKnown(L, s, level) BY LevelIs
<1>1. /\ s.line[level] \in L \cup {Wrapper[level]} /\ s.chosen[level] \in L
      /\ s.saved[level] \in SavedLine(L) \cup {Unset}
      /\ s.line[level] = Wrapper[level] => s.saved[level] # Unset /\ s.saved[level].restore = s.chosen[level]
      /\ s.line[level] # Wrapper[level] => s.line[level] = s.chosen[level]
      /\ Wrapper[level] \notin L
      /\ s = [line |-> s.line, saved |-> s.saved, off |-> s.off, chosen |-> s.chosen]
      /\ s.saved = [s.saved EXCEPT ![level] = s.saved[level]]
      /\ s.chosen = [s.chosen EXCEPT ![level] = s.chosen[level]]
  BY <1>0 DEF LevelKnown
<1>2. line = s.chosen[level] BY <1>1
<1>3. t = [line |-> [s.line EXCEPT ![level] = line], saved |-> s.saved,
           off |-> [s.off EXCEPT ![level] = TRUE], chosen |-> s.chosen]
  BY <1>1 DEF StatusDisable
<1> HIDE DEF line
<1>4. t = [line |-> [s.line EXCEPT ![level] = line], saved |-> [s.saved EXCEPT ![level] = s.saved[level]],
           off |-> [s.off EXCEPT ![level] = TRUE], chosen |-> [s.chosen EXCEPT ![level] = s.chosen[level]]]
  BY <1>1, <1>3
<1>5. t \in LineStates(L)
  <2> DEFINE x == s.chosen[level]
             y == s.saved[level]
  <2>1. x \in L /\ y \in SavedLine(L) \cup {Unset} /\ line = x /\ x # Wrapper[level] BY <1>1, <1>2
  <2>2. t = [line |-> [s.line EXCEPT ![level] = line], saved |-> [s.saved EXCEPT ![level] = y],
             off |-> [s.off EXCEPT ![level] = TRUE], chosen |-> [s.chosen EXCEPT ![level] = x]]
    BY <1>4
  <2> HIDE DEF x, y
  <2> QED BY <2>1, <2>2, LineStateIs
<1> QED BY <1>2, <1>3, <1>5

\* What stood before ours is a line of the user's own.
LEMMA PriorIsOwn ==
  ASSUME NEW L, OwnLines(L), NEW s \in LineStates(L), NEW level \in Levels
  PROVE  StatusPrior(s, level) \in L
<1> DEFINE source == IF level = "project" /\ s.line.project = "none" THEN "user" ELSE level
<1>1. source \in Levels BY DEF Levels
<1>2. StatusPrior(s, level) = IF s.saved[source] # Unset /\ s.line[source] = Wrapper[source]
                              THEN s.saved[source].original ELSE s.line[source]
  BY DEF StatusPrior
<1> HIDE DEF source
<1>3. /\ s.line[source] \in L \cup {Wrapper[source]}
      /\ s.line[source] = Wrapper[source] => s.saved[source] # Unset /\ s.saved[source].original \in L
  <2>1. LevelKnown(L, s, source) BY <1>1, LevelIs
  <2> QED BY <2>1 DEF LevelKnown
<1> QED BY <1>2, <1>3

LEMMA InstallKeeps ==
  ASSUME NEW L, OwnLines(L), NEW s \in LineStates(L), NEW level \in Levels, NEW dies \in BOOLEAN
  PROVE  StatusInstall(s, level, dies) \in LineStates(L)
<1> DEFINE ours == s.saved[level] # Unset /\ s.line[level] = Wrapper[level]
           kept == [original |-> StatusPrior(s, level),
                    restore |-> IF ours THEN s.saved[level].restore ELSE s.line[level]]
           line == IF dies THEN s.line[level] ELSE Wrapper[level]
           t == StatusInstall(s, level, dies)
<1>1. CASE s.off[level]
  <2>1. t = StatusDisable(s, level) BY <1>1 DEF StatusInstall
  <2> HIDE DEF t
  <2>2. t \in LineStates(L) BY <2>1, DisableIs
  <2> QED BY <2>2 DEF t
<1>2. CASE ~s.off[level]
  <2> DEFINE c == s.chosen[level]
             o == s.off[level]
  <2>0. LevelKnown(L, s, level) BY LevelIs
  <2>1. /\ s.line[level] \in L \cup {Wrapper[level]} /\ c \in L /\ o \in BOOLEAN
        /\ s.saved[level] \in SavedLine(L) \cup {Unset}
        /\ s.line[level] = Wrapper[level] => s.saved[level] # Unset /\ s.saved[level].restore = c
        /\ s.line[level] # Wrapper[level] => s.line[level] = c
        /\ s = [line |-> s.line, saved |-> s.saved, off |-> s.off, chosen |-> s.chosen]
        /\ s.line = [s.line EXCEPT ![level] = s.line[level]]
        /\ s.off = [s.off EXCEPT ![level] = o]
        /\ s.chosen = [s.chosen EXCEPT ![level] = c]
    BY <2>0 DEF LevelKnown
  <2>2. StatusPrior(s, level) \in L BY PriorIsOwn
  <2>3. kept.restore = c /\ kept \in SavedLine(L) BY <2>1, <2>2 DEF SavedLine
  <2>4. t = [line |-> IF dies THEN s.line ELSE [s.line EXCEPT ![level] = Wrapper[level]],
             saved |-> [s.saved EXCEPT ![level] = kept], off |-> s.off, chosen |-> s.chosen]
    <3> DEFINE p == StatusPrior(s, level)
    <3> QED BY <1>2, <2>1 DEF StatusInstall
  <2>5. kept # Unset /\ line \in L \cup {Wrapper[level]} BY <2>1, <2>3 DEF OwnLines
  <2>6. t = [line |-> [s.line EXCEPT ![level] = line], saved |-> [s.saved EXCEPT ![level] = kept],
             off |-> [s.off EXCEPT ![level] = o], chosen |-> [s.chosen EXCEPT ![level] = c]]
    <3> HIDE DEF t, kept, o, c
    <3> QED BY <2>1, <2>4
  <2>7. line # Wrapper[level] => line = c BY <2>1
  <2> HIDE DEF t, kept, o, c, line
  <2>8. t \in LineStates(L) BY <2>1, <2>3, <2>5, <2>6, <2>7, LineStateIs
  <2> QED BY <2>8 DEF t
<1> QED BY <1>1, <1>2

\* Installations, cut short or not, disablings, and the user's edits.
LineEvents(L) ==
    [do : {"install", "dies", "disable", "enable"} \cup (L \ {"install", "dies", "disable", "enable"}), level : Levels]

LEMMA StatusStepKeeps ==
  ASSUME NEW L, OwnLines(L), NEW s \in LineStates(L), NEW e \in LineEvents(L)
  PROVE  StatusStep(s, e) \in LineStates(L)
<1>1. e.level \in Levels BY DEF LineEvents
<1>2. CASE e.do = "install"
  <2>1. StatusStep(s, e) = StatusInstall(s, e.level, FALSE) BY <1>2 DEF StatusStep
  <2> QED BY <1>1, <2>1, InstallKeeps
<1>3. CASE e.do = "dies"
  <2>1. StatusStep(s, e) = StatusInstall(s, e.level, TRUE) BY <1>3 DEF StatusStep
  <2> QED BY <1>1, <2>1, InstallKeeps
<1>4. CASE e.do = "disable"
  <2>1. StatusStep(s, e) = StatusDisable(s, e.level) BY <1>4 DEF StatusStep
  <2> QED BY <1>1, <2>1, DisableIs
<1> DEFINE l == e.level
           t == StatusStep(s, e)
           line == s.line[l]
           saved == s.saved[l]
           off == s.off[l]
           chosen == s.chosen[l]
<1>0. LevelKnown(L, s, l) BY <1>1, LevelIs
<1>5. /\ l \in Levels /\ line \in L \cup {Wrapper[l]} /\ chosen \in L /\ off \in BOOLEAN
      /\ saved \in SavedLine(L) \cup {Unset} /\ Wrapper[l] \notin L
      /\ line = Wrapper[l] => saved # Unset /\ saved.restore = chosen
      /\ line # Wrapper[l] => line = chosen
      /\ s = [line |-> s.line, saved |-> s.saved, off |-> s.off, chosen |-> s.chosen]
      /\ s.line = [s.line EXCEPT ![l] = line] /\ s.saved = [s.saved EXCEPT ![l] = saved]
      /\ s.off = [s.off EXCEPT ![l] = off] /\ s.chosen = [s.chosen EXCEPT ![l] = chosen]
  BY <1>0, <1>1 DEF LevelKnown
<1>6. CASE e.do = "enable"
  <2>1. t = [s EXCEPT !.off[l] = FALSE] BY <1>6 DEF StatusStep
  <2> HIDE DEF t, l
  <2>2. t = [line |-> s.line, saved |-> s.saved, off |-> [s.off EXCEPT ![l] = FALSE], chosen |-> s.chosen]
    BY <1>5, <2>1
  <2> HIDE DEF line, saved, off, chosen
  <2>3. t = [line |-> [s.line EXCEPT ![l] = line], saved |-> [s.saved EXCEPT ![l] = saved],
             off |-> [s.off EXCEPT ![l] = FALSE], chosen |-> [s.chosen EXCEPT ![l] = chosen]]
    BY <1>5, <2>2
  <2>4. t \in LineStates(L) BY <1>5, <2>3, LineStateIs
  <2> QED BY <2>4 DEF t
<1>7. CASE e.do \notin {"install", "dies", "disable", "enable"}
  <2> DEFINE d == e.do
  <2>1. t = [s EXCEPT !.line[l] = d, !.chosen[l] = d] /\ d \in L BY <1>7 DEF StatusStep, LineEvents
  <2> HIDE DEF t, l, d
  <2>2. t = [line |-> [s.line EXCEPT ![l] = d], saved |-> s.saved, off |-> s.off, chosen |-> [s.chosen EXCEPT ![l] = d]]
    BY <1>5, <2>1
  <2> HIDE DEF line, saved, off, chosen
  <2>3. t = [line |-> [s.line EXCEPT ![l] = d], saved |-> [s.saved EXCEPT ![l] = saved],
             off |-> [s.off EXCEPT ![l] = off], chosen |-> [s.chosen EXCEPT ![l] = d]]
    BY <1>5, <2>2
  <2>4. /\ d \in L \cup {Wrapper[l]} /\ d \in L /\ d # Wrapper[l]
        /\ d = Wrapper[l] => saved # Unset /\ saved.restore = d
        /\ d # Wrapper[l] => d = d
    BY <1>5, <2>1
  <2>5. l \in Levels /\ saved \in SavedLine(L) \cup {Unset} /\ off \in BOOLEAN BY <1>5
  <2>6. t \in LineStates(L) BY <2>3, <2>4, <2>5, LineStateIs
  <2> QED BY <2>6 DEF t
<1> QED BY <1>2, <1>3, <1>4, <1>6, <1>7

LEMMA StatusAfterIs ==
  ASSUME NEW L, OwnLines(L), NEW first \in LineStates(L), NEW events \in Seq(LineEvents(L))
  PROVE  StatusAfter(first, events) \in LineStates(L)
<1> DEFINE N == Len(events)
           S == LineStates(L)
           Runs(f) == f = [n \in 0..N |-> IF n = 0 THEN first ELSE StatusStep(f[n - 1], events[n])]
           after == CHOOSE f : Runs(f)
           step == [x \in S |-> [n \in 1..N |-> StatusStep(x, events[n])]]
<1>1. N \in Nat /\ \A n \in 1..N : events[n] \in LineEvents(L) OBVIOUS
<1>2. \A x \in S : \A n \in 1..N : StatusStep(x, events[n]) \in S BY <1>1, StatusStepKeeps
<1>3. step \in [S -> [1..N -> S]] /\ first \in S BY <1>2
<1>4. StatusAfter(first, events) = after[N] BY DEF StatusAfter
<1> HIDE DEF N, S
<1>5. \E f : RunOf(f, N, S, first, step)
  <2> HIDE DEF step
  <2> QED BY <1>1, <1>3, RunExists
<1>6. \E f : Runs(f)
  <2>1. PICK f : RunOf(f, N, S, first, step) BY <1>5
  <2>2. /\ f \in [0..N -> S] /\ f[0] = first
        /\ \A n \in 1..N : f[n] = step[f[n - 1]][n]
    BY <2>1 DEF RunOf
  <2>3. \A n \in 0..N : f[n] = IF n = 0 THEN first ELSE StatusStep(f[n - 1], events[n])
    <3> TAKE n \in 0..N
    <3>1. n # 0 => n \in 1..N /\ n - 1 \in 0..N BY <1>1
    <3>2. n # 0 => f[n - 1] \in S BY <2>2, <3>1
    <3> QED BY <2>2, <3>1, <3>2
  <2>4. f = [n \in 0..N |-> f[n]] BY <2>2
  <2>5. Runs(f) BY <2>3, <2>4
  <2> QED BY <2>5
<1>7. Runs(after) BY <1>6
<1> HIDE DEF after
<1>8. \A n \in 0..N : after[n] = IF n = 0 THEN first ELSE StatusStep(after[n - 1], events[n]) BY <1>7
<1>9. after[0] = first /\ \A n \in 1..N : after[n] = StatusStep(after[n - 1], events[n])
  <2>1. 0 \in 0..N /\ \A n \in 1..N : n \in 0..N /\ n # 0 BY <1>1
  <2> QED BY <1>8, <2>1
<1> DEFINE R == [n \in 0..N |-> S]
<1>10. after[0] \in R[0] /\ \A n \in 1..N : after[n - 1] \in R[n - 1] => after[n] \in R[n]
  <2>1. 0 \in 0..N /\ \A n \in 1..N : n \in 0..N /\ n - 1 \in 0..N BY <1>1
  <2>2. \A n \in 1..N : after[n - 1] \in S => after[n] \in S
    BY <1>1, <1>2, <1>9
  <2> QED BY <1>3, <1>9, <2>1, <2>2
<1>11. \A n \in 0..N : after[n] \in R[n]
  <2> HIDE DEF R
  <2> QED BY <1>1, <1>10, Stays
<1>12. after[N] \in S
  <2>1. N \in 0..N BY <1>1
  <2> QED BY <1>11, <2>1
<1> QED BY <1>4, <1>12 DEF S

\* Disabling both levels gives each back what was chosen for it last, and what is
\* saved is a line of the user's own.
LEMMA RestoredIs ==
  ASSUME NEW L, OwnLines(L), NEW s \in LineStates(L),
         NEW off, off = StatusDisable(StatusDisable(s, "project"), "user")
  PROVE  /\ off.line = s.chosen
         /\ \A l \in Levels : s.saved[l] # Unset => s.saved[l].original # Wrapper[l]
<1> DEFINE t == StatusDisable(s, "project")
           p == "project"
           u == "user"
<1>0. p \in Levels /\ u \in Levels /\ Levels = {p, u} /\ p # u BY DEF Levels
<1>1. t = StatusDisable(s, p) /\ off = StatusDisable(t, u) OBVIOUS
<1> HIDE DEF t, p, u
<1>2. t \in LineStates(L) /\ t.line = [s.line EXCEPT ![p] = s.chosen[p]] /\ t.chosen = s.chosen
  <2>1. p \in Levels /\ t = StatusDisable(s, p) BY <1>0, <1>1
  <2>2. OwnLines(L) /\ s \in LineStates(L) OBVIOUS
  <2> QED BY ONLY <2>1, <2>2, DisableIs
<1>3. off.line = [t.line EXCEPT ![u] = t.chosen[u]] BY <1>0, <1>1, <1>2, DisableIs
<1>4. DOMAIN s.line = Levels /\ s.chosen \in [Levels -> L] BY DEF LineStates
<1>5. off.line = [l \in Levels |-> s.chosen[l]] BY <1>0, <1>2, <1>3, <1>4
<1>6. off.line = s.chosen BY <1>4, <1>5
<1>7. \A l \in Levels : s.saved[l] # Unset => s.saved[l].original # Wrapper[l]
  <2> TAKE l \in Levels
  <2>1. LevelKnown(L, s, l) BY LevelIs
  <2>2. s.saved[l] \in SavedLine(L) \cup {Unset} /\ Wrapper[l] \notin L BY <2>1 DEF LevelKnown
  <2> QED BY <2>2 DEF SavedLine
<1> QED BY <1>6, <1>7

LEMMA NothingSaved ==
  ASSUME NEW L, OwnLines(L)
  PROVE  [line |-> [l \in Levels |-> "none"], saved |-> [l \in Levels |-> Unset],
          off |-> [l \in Levels |-> FALSE], chosen |-> [l \in Levels |-> "none"]] \in LineStates(L)
<1>1. \A l \in Levels : Wrapper[l] # "none" BY DEF Wrapper, Levels, OwnLines
<1> QED BY <1>1 DEF LineStates, OwnLines

(***************************************************************************)
(* The upkeep skill.                                                       *)
(***************************************************************************)
Copy(v) == [p \in Parts |-> v]
ShippedAs(V) == "none" \notin V /\ "edited" \notin V /\ \A v \in V : Unset # Copy(v)
\* What installations of a version, then of another, leave: a receipt of either,
\* and files of the one the receipt does not name only where it is the older.
SkillStates(v, w) ==
    {s \in [receipt : {NoReceipt} \cup [enabled : BOOLEAN, files : {Copy(v), Copy(w)}],
            files : [Parts -> {"none", v, w}]] :
       /\ s.receipt = NoReceipt => \A p \in Parts : s.files[p] = "none"
       /\ s.receipt.files = Copy(w) => \A p \in Parts : s.files[p] \in {"none", w}}

\* What is known of a state, field by field.
LEMMA SkillStateIs ==
  ASSUME NEW V, ShippedAs(V), NEW v \in V, NEW w \in V, NEW s \in SkillStates(v, w)
  PROVE  /\ s = [receipt |-> s.receipt, files |-> s.files]
         /\ s.receipt # NoReceipt => /\ s.receipt.enabled \in BOOLEAN /\ s.receipt.files \in {Copy(v), Copy(w)}
                                     /\ s.receipt.files # Unset
         /\ s.receipt = NoReceipt => s.receipt.files = Unset /\ \A p \in Parts : s.files[p] = "none"
         /\ s.files \in [Parts -> {"none", v, w}]
         /\ s.receipt.files = Copy(w) => \A p \in Parts : s.files[p] \in {"none", w}
BY DEF SkillStates, ShippedAs, NoReceipt

LEMMA SkillStateMade ==
  ASSUME NEW V, ShippedAs(V), NEW v \in V, NEW w \in V, NEW enabled \in BOOLEAN,
         NEW kept \in {Copy(v), Copy(w)}, NEW files \in [Parts -> {"none", v, w}],
         kept = Copy(w) => \A p \in Parts : files[p] \in {"none", w}
  PROVE  [receipt |-> [enabled |-> enabled, files |-> kept], files |-> files] \in SkillStates(v, w)
<1> DEFINE s == [receipt |-> [enabled |-> enabled, files |-> kept], files |-> files]
<1>1. kept # Unset BY DEF ShippedAs
<1>2. s.receipt = [enabled |-> enabled, files |-> kept] /\ s.files = files OBVIOUS
<1>3. s.receipt # NoReceipt BY <1>1, <1>2 DEF NoReceipt
<1>4. s.receipt.files = kept BY <1>2
<1>5. s \in [receipt : {NoReceipt} \cup [enabled : BOOLEAN, files : {Copy(v), Copy(w)}],
             files : [Parts -> {"none", v, w}]]
  OBVIOUS
<1> QED BY <1>2, <1>3, <1>4, <1>5 DEF SkillStates

\* The last of two sequences joined is the last of the second.
LEMMA JoinLast ==
  ASSUME NEW S, NEW a \in Seq(S), NEW b \in Seq(S), Len(b) > 0
  PROVE  a \o b \in Seq(S) /\ Len(a \o b) > 0 /\ (a \o b)[Len(a \o b)] = b[Len(b)]
<1> DEFINE c == a \o b
<1>1. /\ c \in Seq(S) /\ Len(c) = Len(a) + Len(b)
      /\ \A i \in 1..Len(a) + Len(b) : c[i] = IF i <= Len(a) THEN a[i] ELSE b[i - Len(a)]
  <2> HIDE DEF c
  <2> QED BY ConcatProperties DEF c
<1> HIDE DEF c
<1>2. Len(a) \in Nat /\ Len(b) \in Nat OBVIOUS
<1>3. Len(c) \in 1..Len(a) + Len(b) /\ ~(Len(c) <= Len(a)) /\ Len(c) - Len(a) = Len(b) /\ Len(c) > 0 BY <1>1, <1>2
<1> QED BY <1>1, <1>3 DEF c

\* An installation of the newer version is never refused; it passes through such
\* states and ends with both files and a receipt of what they are.
LEMMA SkillInstallIs ==
  ASSUME NEW V, ShippedAs(V), NEW v \in V, NEW w \in V, NEW s \in SkillStates(v, w),
         NEW mode, NEW did, did = SkillInstall(s, mode, w)
  PROVE  /\ did.ok /\ did.trace \in Seq(SkillStates(v, w)) /\ Len(did.trace) > 0
         /\ LET e == did.trace[Len(did.trace)] IN
            \A p \in Parts : e.files[p] = IF e.receipt.enabled THEN w ELSE "none"
<1> DEFINE S == SkillStates(v, w)
           enabled == IF mode = "on" THEN TRUE ELSE IF mode = "off" THEN FALSE
                      ELSE s.receipt = NoReceipt \/ s.receipt.enabled
           new == [enabled |-> enabled, files |-> [p \in Parts |-> w]]
           owned == IF s.receipt = NoReceipt THEN [s EXCEPT !.receipt = new] ELSE s
           off == [s EXCEPT !.receipt = [enabled |-> FALSE,
                     files |-> IF s.receipt = NoReceipt THEN new.files ELSE s.receipt.files]]
           text == IF enabled THEN w ELSE "none"
           base == IF enabled THEN owned ELSE off
           one == [base EXCEPT !.files[1] = text]
           both == [one EXCEPT !.files[2] = text]
           end == [both EXCEPT !.receipt = new]
           start == IF s.receipt = NoReceipt THEN <<owned>> ELSE <<>>
           turned == IF enabled THEN <<>> ELSE <<off>>
           rest == <<one, both, end>>
<1>1. /\ s = [receipt |-> s.receipt, files |-> s.files]
      /\ s.receipt # NoReceipt => /\ s.receipt.enabled \in BOOLEAN /\ s.receipt.files \in {Copy(v), Copy(w)}
                                  /\ s.receipt.files # Unset
      /\ s.receipt = NoReceipt => s.receipt.files = Unset /\ \A p \in Parts : s.files[p] = "none"
      /\ s.files \in [Parts -> {"none", v, w}]
      /\ s.receipt.files = Copy(w) => \A p \in Parts : s.files[p] \in {"none", w}
  BY SkillStateIs
<1>2. ~SkillForeign(s, w)
  <2>1. ASSUME NEW p \in Parts, s.files[p] \notin {"none", w}, s.receipt.files # Unset
        PROVE  s.files[p] = s.receipt.files[p]
    <3>1. s.receipt # NoReceipt BY <1>1, <2>1
    <3>2. s.receipt.files = Copy(v) BY <1>1, <2>1, <3>1
    <3>3. s.files[p] = v BY <1>1, <2>1
    <3> QED BY <3>2, <3>3 DEF Copy
  <2>2. ASSUME NEW p \in Parts, s.files[p] \notin {"none", w} PROVE s.receipt.files # Unset
    BY <1>1, <2>2
  <2> QED BY <1>1, <2>1, <2>2 DEF SkillForeign
<1>3. did = Done(start \o turned \o rest) BY <1>2, Zenon DEF SkillInstall
<1>4. enabled \in BOOLEAN BY <1>1
<1> HIDE DEF enabled
<1> DEFINE kept == IF s.receipt = NoReceipt THEN Copy(w) ELSE s.receipt.files
           on == IF s.receipt = NoReceipt THEN enabled ELSE s.receipt.enabled
           held == IF enabled THEN on ELSE FALSE
           f1 == [s.files EXCEPT ![1] = text]
           f2 == [f1 EXCEPT ![2] = text]
<1>5. /\ owned = [receipt |-> [enabled |-> on, files |-> kept], files |-> s.files]
      /\ off = [receipt |-> [enabled |-> FALSE, files |-> kept], files |-> s.files]
  <2>1. new = [enabled |-> enabled, files |-> Copy(w)] BY DEF Copy
  <2>2. s.receipt # NoReceipt => s.receipt = [enabled |-> s.receipt.enabled, files |-> s.receipt.files]
    BY DEF SkillStates
  <2> HIDE DEF new
  <2>3. new.files = Copy(w) BY <2>1
  <2>4. CASE s.receipt = NoReceipt
    <3>1. owned = [s EXCEPT !.receipt = new] /\ on = enabled /\ kept = Copy(w) BY <2>4
    <3>2. off = [s EXCEPT !.receipt = [enabled |-> FALSE, files |-> Copy(w)]] BY <2>3, <2>4
    <3> HIDE DEF owned, off, on, kept
    <3> QED BY <1>1, <2>1, <3>1, <3>2
  <2>5. CASE s.receipt # NoReceipt
    <3>1. owned = s /\ on = s.receipt.enabled /\ kept = s.receipt.files BY <2>5
    <3>2. off = [s EXCEPT !.receipt = [enabled |-> FALSE, files |-> s.receipt.files]] BY <2>5
    <3> HIDE DEF owned, off, on, kept
    <3> QED BY <1>1, <2>2, <2>5, <3>1, <3>2
  <2> QED BY <2>4, <2>5
<1>6. base = [receipt |-> [enabled |-> held, files |-> kept], files |-> s.files]
  <2> HIDE DEF owned, off, kept, on
  <2> QED BY <1>4, <1>5
<1>7. kept \in {Copy(v), Copy(w)} /\ on \in BOOLEAN /\ held \in BOOLEAN /\ text \in {"none", w} BY <1>1, <1>4
<1>8. s.receipt.files # Copy(w) /\ s.receipt # NoReceipt => kept # Copy(w) OBVIOUS
<1>9. kept = Copy(w) => \A p \in Parts : s.files[p] \in {"none", w} BY <1>1, <1>8
<1> HIDE DEF owned, off, base, kept, on, held, text
<1>10. one = [receipt |-> [enabled |-> held, files |-> kept], files |-> f1] BY <1>6
<1> HIDE DEF one, f1
<1>11. both = [receipt |-> [enabled |-> held, files |-> kept], files |-> f2] BY <1>10
<1> HIDE DEF both, f2
<1>12. end = [receipt |-> [enabled |-> enabled, files |-> Copy(w)], files |-> f2] BY <1>11 DEF Copy
<1> HIDE DEF end
<1>13. /\ f1 \in [Parts -> {"none", v, w}]
       /\ f1[1] = text /\ f1[2] = s.files[2]
  BY <1>1, <1>7 DEF f1, Parts
<1>14. f2 \in [Parts -> {"none", v, w}] /\ \A p \in Parts : f2[p] = text
  BY <1>7, <1>13 DEF f2, Parts
<1>15. /\ kept = Copy(w) => \A p \in Parts : f1[p] \in {"none", w}
       /\ \A p \in Parts : f2[p] \in {"none", w}
  BY <1>7, <1>9, <1>13, <1>14 DEF Parts
<1>16. owned \in S /\ off \in S
  <2>1. FALSE \in BOOLEAN OBVIOUS
  <2>2. [receipt |-> [enabled |-> on, files |-> kept], files |-> s.files] \in S BY <1>1, <1>7, <1>9, SkillStateMade
  <2>3. [receipt |-> [enabled |-> FALSE, files |-> kept], files |-> s.files] \in S
    BY <1>1, <1>7, <1>9, <2>1, SkillStateMade
  <2> QED BY <1>5, <2>2, <2>3
<1>17. one \in S /\ both \in S
  <2>1. [receipt |-> [enabled |-> held, files |-> kept], files |-> f1] \in S BY <1>7, <1>13, <1>15, SkillStateMade
  <2>2. [receipt |-> [enabled |-> held, files |-> kept], files |-> f2] \in S BY <1>7, <1>14, <1>15, SkillStateMade
  <2> QED BY <1>10, <1>11, <2>1, <2>2
<1>18. end \in S /\ end.receipt = [enabled |-> enabled, files |-> Copy(w)] /\ end.files = f2
  <2>1. [receipt |-> [enabled |-> enabled, files |-> Copy(w)], files |-> f2] \in S
    BY <1>4, <1>14, <1>15, SkillStateMade
  <2> QED BY <1>12, <2>1
<1> HIDE DEF S
<1>19. start \in Seq(S) /\ turned \in Seq(S) BY <1>16
<1>20. rest \in Seq(S) /\ Len(rest) = 3 /\ rest[3] = end BY <1>17, <1>18
<1> HIDE DEF start, turned, rest
<1> DEFINE a == start \o turned
           t == a \o rest
<1>21. a \in Seq(S) BY <1>19, ConcatProperties
<1>22. t \in Seq(S) /\ Len(t) > 0 /\ t[Len(t)] = end
  <2> HIDE DEF a
  <2>1. Len(rest) > 0 BY <1>20
  <2>2. a \o rest \in Seq(S) /\ Len(a \o rest) > 0 /\ (a \o rest)[Len(a \o rest)] = rest[Len(rest)]
    BY <1>20, <1>21, <2>1, JoinLast
  <2> QED BY <1>20, <2>2
<1>23. did = Done(t) BY <1>3
<1> HIDE DEF t
<1>24. did.ok /\ did.trace = t BY <1>23 DEF Done
<1>25. \A p \in Parts : end.files[p] = IF end.receipt.enabled THEN w ELSE "none"
  BY <1>4, <1>14, <1>18 DEF text
<1> QED BY <1>22, <1>24, <1>25 DEF S

\* Of one version all the way.
LEMMA OlderStates ==
  ASSUME NEW V, ShippedAs(V), NEW v \in V, NEW w \in V, NEW s \in SkillStates(v, v)
  PROVE  s \in SkillStates(v, w)
<1>1. /\ s \in [receipt : {NoReceipt} \cup [enabled : BOOLEAN, files : {Copy(v)}], files : [Parts -> {"none", v}]]
      /\ s.receipt = NoReceipt => \A p \in Parts : s.files[p] = "none"
      /\ s.receipt.files = Copy(v) => \A p \in Parts : s.files[p] \in {"none", v}
  BY DEF SkillStates
<1>2. s \in [receipt : {NoReceipt} \cup [enabled : BOOLEAN, files : {Copy(v), Copy(w)}],
             files : [Parts -> {"none", v, w}]]
  BY <1>1
<1>3. s.receipt.files = Copy(w) => \A p \in Parts : s.files[p] \in {"none", w}
  <2>1. SUFFICES ASSUME s.receipt.files = Copy(w) PROVE \A p \in Parts : s.files[p] \in {"none", w} OBVIOUS
  <2>2. CASE s.receipt = NoReceipt BY <1>1, <2>2
  <2>3. CASE s.receipt # NoReceipt
    <3>1. s.receipt.files = Copy(v) BY <1>1, <2>3
    <3>2. Copy(v)[1] = v /\ Copy(w)[1] = w BY DEF Copy, Parts
    <3>3. v = w BY <2>1, <3>1, <3>2
    <3> QED BY <1>1, <3>1, <3>3
  <2> QED BY <2>2, <2>3
<1> QED BY <1>1, <1>2, <1>3 DEF SkillStates

Runs(V) == [mode : {"on", "off", "auto"}, version : V, writes : Nat]
\* Runs of one version, then of another.
SkillRuns(V) ==
    {runs \in Seq(Runs(V)) :
       /\ Len(runs) > 0
       /\ \E k \in 0..Len(runs) - 1, v \in V : \A i \in 1..Len(runs) :
             runs[i].version = IF i <= k THEN v ELSE runs[Len(runs)].version}

LEMMA DiedIs ==
  ASSUME NEW S, NEW s \in S, NEW did, did.trace \in Seq(S), Len(did.trace) > 0, NEW writes \in Nat
  PROVE  Died(s, did, writes) \in S
<1> DEFINE tr == did.trace
           i == IF writes < Len(tr) THEN writes ELSE Len(tr)
<1>1. Len(tr) \in Nat /\ \A j \in 1..Len(tr) : tr[j] \in S OBVIOUS
<1>2. writes # 0 => i \in 1..Len(tr) BY <1>1
<1>3. Died(s, did, writes) = IF writes = 0 \/ tr = <<>> THEN s ELSE tr[i] BY DEF Died
<1> HIDE DEF i, tr
<1> QED BY <1>1, <1>2, <1>3

LEMMA SkillRunIs ==
  ASSUME NEW V, ShippedAs(V), NEW runs \in SkillRuns(V), NEW none,
         none = [receipt |-> NoReceipt, files |-> [p \in Parts |-> "none"]]
  PROVE  \E v \in V : SkillRun(none, runs) \in SkillStates(v, runs[Len(runs)].version)
<1> DEFINE N == Len(runs)
           w == runs[N].version
           next(x, n) == Died(x, SkillInstall(x, runs[n].mode, runs[n].version), runs[n].writes)
           Goes(f) == f = [n \in 0..N |-> IF n = 0 THEN none ELSE next(f[n - 1], n)]
           after == CHOOSE f : Goes(f)
<1>1. PICK k \in 0..N - 1, v \in V : \A i \in 1..N : runs[i].version = IF i <= k THEN v ELSE w
  BY DEF SkillRuns
<1>2. N \in Nat /\ N > 0 /\ k \in Nat /\ k < N
      /\ \A n \in 1..N : runs[n] \in Runs(V) /\ runs[n].writes \in Nat /\ runs[n].version \in V
  <2>1. runs \in Seq(Runs(V)) /\ N > 0 BY DEF SkillRuns
  <2>2. N \in Nat /\ \A n \in 1..N : runs[n] \in Runs(V) BY <2>1
  <2>3. \A r \in Runs(V) : r.writes \in Nat /\ r.version \in V BY DEF Runs
  <2> HIDE DEF N
  <2> QED BY <2>1, <2>2, <2>3
<1>3. w \in V BY <1>2
<1>4. SkillRun(none, runs) = after[N] BY DEF SkillRun
<1> HIDE DEF N, w
<1> DEFINE U == SkillStates(v, w)
           R == [n \in 0..N |-> IF n <= k THEN SkillStates(v, v) ELSE U]
           step == [x \in U |-> [n \in 1..N |-> IF x \in R[n - 1] THEN next(x, n) ELSE x]]
<1>5. SkillStates(v, v) \subseteq U BY <1>3, OlderStates
<1>6. none \in SkillStates(v, v)
  <2>1. NoReceipt.files = Unset /\ Unset # Copy(v) BY DEF NoReceipt, ShippedAs
  <2> QED BY <2>1 DEF SkillStates
<1>7. \A x \in SkillStates(v, v) : \A n \in 1..N : runs[n].version = v => next(x, n) \in SkillStates(v, v)
  <2> SUFFICES ASSUME NEW x \in SkillStates(v, v), NEW n \in 1..N, runs[n].version = v
               PROVE  next(x, n) \in SkillStates(v, v)
    OBVIOUS
  <2> DEFINE did == SkillInstall(x, runs[n].mode, runs[n].version)
  <2>1. did = SkillInstall(x, runs[n].mode, v) OBVIOUS
  <2> HIDE DEF did
  <2>2. did.trace \in Seq(SkillStates(v, v)) /\ Len(did.trace) > 0 BY <2>1, SkillInstallIs
  <2>3. Died(x, did, runs[n].writes) \in SkillStates(v, v) BY <1>2, <2>2, DiedIs
  <2> QED BY <2>3 DEF did
<1>8. \A x \in U : \A n \in 1..N : runs[n].version = w => next(x, n) \in U
  <2> SUFFICES ASSUME NEW x \in U, NEW n \in 1..N, runs[n].version = w
               PROVE  next(x, n) \in U
    OBVIOUS
  <2> DEFINE did == SkillInstall(x, runs[n].mode, runs[n].version)
  <2>1. did = SkillInstall(x, runs[n].mode, w) OBVIOUS
  <2> HIDE DEF did
  <2>2. did.trace \in Seq(U) /\ Len(did.trace) > 0 BY <1>3, <2>1, SkillInstallIs
  <2> HIDE DEF U
  <2>3. Died(x, did, runs[n].writes) \in U BY <1>2, <2>2, DiedIs
  <2> QED BY <2>3 DEF did
<1> HIDE DEF next, U
<1>9. \A n \in 0..N : R[n] = IF n <= k THEN SkillStates(v, v) ELSE U OBVIOUS
<1>10. R \in [0..N -> SUBSET U] /\ none \in R[0]
  <2>1. 0 \in 0..N /\ 0 <= k BY <1>2
  <2> QED BY <1>5, <1>6, <2>1
<1>11. \A n \in 1..N : \A x \in R[n - 1] : next(x, n) \in R[n]
  <2> SUFFICES ASSUME NEW n \in 1..N, NEW x \in R[n - 1] PROVE next(x, n) \in R[n] OBVIOUS
  <2>1. n \in 0..N /\ n - 1 \in 0..N /\ n \in Nat BY <1>2
  <2>2. CASE n <= k
    <3>1. n - 1 <= k BY <1>2, <2>1, <2>2
    <3>2. x \in SkillStates(v, v) /\ runs[n].version = v BY <1>1, <1>9, <2>1, <2>2, <3>1
    <3> QED BY <1>7, <1>9, <2>1, <2>2, <3>2
  <2>3. CASE ~(n <= k)
    <3>1. x \in U /\ runs[n].version = w BY <1>1, <1>5, <1>9, <2>1, <2>3
    <3> QED BY <1>8, <1>9, <2>1, <2>3, <3>1
  <2> QED BY <2>2, <2>3
<1> HIDE DEF R
<1>12. step \in [U -> [1..N -> U]]
  <2>1. \A n \in 1..N : n - 1 \in 0..N /\ n \in 0..N BY <1>2
  <2>2. \A n \in 1..N : \A x \in R[n - 1] : next(x, n) \in U BY <1>10, <1>11, <2>1
  <2> QED BY <2>2
<1>13. \A n \in 1..N : \A x \in R[n - 1] : step[x][n] = next(x, n) /\ step[x][n] \in R[n]
  <2>1. \A n \in 1..N : n - 1 \in 0..N BY <1>2
  <2>2. \A n \in 1..N : \A x \in R[n - 1] : x \in U BY <1>10, <2>1
  <2> QED BY <1>11, <2>2
<1>14. \E f : Guided(f, N, none, step) /\ \A n \in 0..N : f[n] \in R[n]
  <2> HIDE DEF step
  <2> QED BY <1>2, <1>10, <1>12, <1>13, GuideExists
<1>15. \E f : Goes(f)
  <2>1. PICK f : Guided(f, N, none, step) /\ \A n \in 0..N : f[n] \in R[n] BY <1>14
  <2>2. ASSUME NEW n \in 0..N, n # 0 PROVE step[f[n - 1]][n] = next(f[n - 1], n)
    <3>1. n \in 1..N /\ n - 1 \in 0..N BY <1>2, <2>2
    <3> HIDE DEF step
    <3> QED BY <1>13, <2>1, <3>1
  <2> HIDE DEF step
  <2>3. Goes(f) BY <2>1, <2>2 DEF Guided
  <2> QED BY <2>3
<1>16. Goes(after) BY <1>15
<1> HIDE DEF after
<1>17. after[0] = none /\ \A n \in 1..N : after[n] = next(after[n - 1], n)
  <2>1. \A n \in 0..N : after[n] = IF n = 0 THEN none ELSE next(after[n - 1], n) BY <1>16
  <2>2. 0 \in 0..N /\ \A n \in 1..N : n \in 0..N /\ n # 0 BY <1>2
  <2> QED BY <2>1, <2>2
<1>18. after[0] \in R[0] /\ \A n \in 1..N : after[n - 1] \in R[n - 1] => after[n] \in R[n]
  BY <1>10, <1>11, <1>17
<1>19. \A n \in 0..N : after[n] \in R[n] BY <1>2, <1>18, Stays
<1>20. after[N] \in U
  <2>1. N \in 0..N /\ ~(N <= k) BY <1>2
  <2> QED BY <1>9, <1>19, <2>1
<1> QED BY <1>4, <1>20 DEF U, w, N

\* What the user changed is refused: nothing is written.
LEMMA EditStands ==
  ASSUME NEW V, ShippedAs(V), NEW v \in V, NEW w \in V, NEW s \in SkillStates(v, w), NEW p \in Parts,
         NEW mode, NEW edited, edited = [s EXCEPT !.files[p] = "edited"],
         NEW did, did = SkillInstall(edited, mode, w), NEW t \in Passed(edited, did)
  PROVE  t.files[p] = "edited"
<1>1. edited.receipt = s.receipt /\ edited.files[p] = "edited" BY DEF SkillStates
<1>2. "edited" \notin {"none", w} BY DEF ShippedAs
<1>3. s.receipt.files # Unset => "edited" # s.receipt.files[p]
  <2>1. s.receipt.files # Unset => s.receipt.files \in {Copy(v), Copy(w)} BY SkillStateIs
  <2>2. Copy(v)[p] = v /\ Copy(w)[p] = w BY DEF Copy
  <2> QED BY <2>1, <2>2 DEF ShippedAs
<1>4. SkillForeign(edited, w) BY <1>1, <1>2, <1>3 DEF SkillForeign
<1>5. did = Stopped(<<>>) BY <1>4, Zenon DEF SkillInstall
<1>6. Passed(edited, did) = {edited}
  <2>1. did.trace = <<>> BY <1>5 DEF Stopped
  <2> QED BY <2>1, TraceIs
<1> QED BY <1>1, <1>6

(***************************************************************************)
(* The rules of installations.                                             *)
(***************************************************************************)
\* Every input: files with any entries of the user's own (T), any status lines (L)
\* and any number of them, any versions of the skill (V) and any number of runs.
Commands(T) == [fs : ServerFiles(T), add : BOOLEAN, remove : BOOLEAN, again : BOOLEAN]
Setups(T) == [kind : {"json", "plugin", "cursor", "muse"}, level : Levels, mcp : ServerFiles(T), hooks : Plain(T)]
AnyHooks(T) == Of("hooks", HookInputs(T))
AnyCommand(T) == Of("command", Commands(T))
AnySetup(T) == Of("setup", Setups(T))
AnySkill(V) == Of("skill", [edits : Parts, runs : SkillRuns(V)])
AnyLines(L) == Of("statusline", Seq(LineEvents(L)))
AnyClientInput(T, L, V) == UNION {AnyHooks(T), AnyCommand(T), AnySetup(T), AnySkill(V), AnyLines(L)}

LEMMA ClientInputByRule ==
  ASSUME NEW T, NEW L, NEW V, NEW i \in AnyClientInput(T, L, V)
  PROVE  /\ i.rule = "hooks" => i.in \in HookInputs(T)
         /\ i.rule = "command" => i.in \in Commands(T)
         /\ i.rule = "setup" => i.in \in Setups(T)
         /\ i.rule = "skill" => i.in \in [edits : Parts, runs : SkillRuns(V)]
         /\ i.rule = "statusline" => i.in \in Seq(LineEvents(L))
<1>1. \A rule, inputs : i \in Of(rule, inputs) => i.rule = rule /\ i.in \in inputs BY DEF Of
<1>2. /\ i \in AnyHooks(T) => i.rule = "hooks" /\ i.in \in HookInputs(T)
      /\ i \in AnyCommand(T) => i.rule = "command" /\ i.in \in Commands(T)
      /\ i \in AnySetup(T) => i.rule = "setup" /\ i.in \in Setups(T)
      /\ i \in AnySkill(V) => i.rule = "skill" /\ i.in \in [edits : Parts, runs : SkillRuns(V)]
      /\ i \in AnyLines(L) => i.rule = "statusline" /\ i.in \in Seq(LineEvents(L))
  BY <1>1, Zenon DEF AnyHooks, AnyCommand, AnySetup, AnySkill, AnyLines
<1>3. i \in AnyHooks(T) \/ i \in AnyCommand(T) \/ i \in AnySetup(T) \/ i \in AnySkill(V) \/ i \in AnyLines(L)
  BY DEF AnyClientInput
<1> QED BY <1>2, <1>3

\* For files with any entries, any status lines, any two versions of the skill and
\* any number of installations, each dying after any of its writes: hooks are never
\* lost nor doubled where the client's order of writes promises it, what the user
\* wrote stays in every file but a plugin of ours, and the same command completes
\* what an earlier one left.  (T: what a file may hold of the user's.)
THEOREM ClientRulesHold ==
  ASSUME NEW T, Marks(T), NEW L, OwnLines(L), NEW V, ShippedAs(V), input \in AnyClientInput(T, L, V)
  PROVE  ClientRules
<1> DEFINE r == input.in
<1>1. HooksNotLost
  <2> DEFINE did == Hooks(r.kind, r.fs, r.level, r.credentialed)
  <2> SUFFICES ASSUME Is("hooks"), r.kind \in {"cursor", "muse"}, Fires(r.fs) # {},
                      r.credentialed => r.fs.pointer = "ours", NEW fs \in Passed(r.fs, did)
               PROVE  Fires(fs) # {}
    BY DEF HooksNotLost
  <2>1. r \in HookInputs(T) BY ClientInputByRule DEF Is
  <2> HIDE DEF r
  <2> QED BY <2>1, HooksStand
<1>2. HooksNotDoubled
  <2> DEFINE did == Hooks(r.kind, r.fs, r.level, r.credentialed)
  <2> SUFFICES ASSUME Is("hooks"), r.kind \in {"json", "plugin"}, ~DoubleFire(r.fs), NEW fs \in Passed(r.fs, did)
               PROVE  ~DoubleFire(fs)
    BY DEF HooksNotDoubled
  <2>1. r \in HookInputs(T) BY ClientInputByRule DEF Is
  <2> HIDE DEF r
  <2> QED BY <2>1, HooksSingle
<1>3. HandlersKept
  <2> DEFINE did == Hooks(r.kind, r.fs, r.level, r.credentialed)
  <2> SUFFICES ASSUME Is("hooks"), NEW fs \in Passed(r.fs, did), NEW s \in {"user", "project", "managed"}
               PROVE  /\ r.kind # "plugin" => fs[s].theirs = r.fs[s].theirs
                      /\ r.kind # "plugin" /\ Malformed(r.fs[s]) => fs[s] = r.fs[s]
                      /\ r.kind = "plugin" /\ s # r.level /\ ~r.fs[s].ours => fs[s] = r.fs[s]
    BY DEF HandlersKept
  <2>1. r \in HookInputs(T) BY ClientInputByRule DEF Is
  <2> HIDE DEF r
  <2>2. /\ r.kind # "plugin" => EntriesKept(r.fs, fs) /\ UnreadKept(r.fs, fs)
        /\ r.kind = "plugin" => OthersKept(r.fs, r.level, fs)
    BY <2>1, HooksAre
  <2> QED BY <2>2 DEF EntriesKept, UnreadKept, OthersKept, Sources
<1>4. InstallSettles
  <2> DEFINE did == Hooks(r.kind, r.fs, r.level, r.credentialed)
             target == IF r.kind = "muse" /\ r.credentialed THEN "managed" ELSE "user"
  <2> SUFFICES ASSUME Is("hooks"), r.level = "user", did.ok, NEW fs \in Passed(r.fs, did)
               PROVE  LET again == Hooks(r.kind, fs, r.level, r.credentialed) IN
                      again.ok /\ Fires(Left(fs, again)) = {target}
    BY DEF InstallSettles
  <2> DEFINE again == Hooks(r.kind, fs, r.level, r.credentialed)
             q == [r EXCEPT !.fs = fs]
  <2>1. r \in HookInputs(T) BY ClientInputByRule DEF Is
  <2> HIDE DEF r
  <2>2. again.ok
    <3> HIDE DEF did, again
    <3> QED BY <2>1, HooksResume DEF did, again
  <2>3. q \in HookInputs(T) BY <2>1, HooksAre
  <2>4. q.kind = r.kind /\ q.fs = fs /\ q.level = r.level /\ q.credentialed = r.credentialed
    BY <2>1 DEF HookInputs
  <2>5. HookTarget(q) = target BY <2>4 DEF HookTarget, MusePath
  <2> HIDE DEF q, target
  <2>6. again = Hooks(q.kind, q.fs, q.level, q.credentialed) BY <2>4
  <2> HIDE DEF again
  <2>7. Fires(Left(q.fs, again)) = {HookTarget(q)} BY <2>2, <2>3, <2>6, HooksAre
  <2> QED BY <2>2, <2>4, <2>5, <2>7 DEF again
<1>5. CommandDisplacesLast
  <2> DEFINE did == McpCommand(r.fs, r.add, r.remove, r.again)
  <2> SUFFICES ASSUME Is("command")
               PROVE  /\ r.fs.project.ours => \A fs \in Passed(r.fs, did) : Registered(fs) # {}
                      /\ did.ok => Registered(Left(r.fs, did)) = {"user"}
                      /\ \A fs \in Passed(r.fs, did) : fs.project.theirs = r.fs.project.theirs
    BY DEF CommandDisplacesLast
  <2>1. r \in Commands(T) BY ClientInputByRule DEF Is
  <2>2. r.fs \in ServerFiles(T) /\ r.add \in BOOLEAN /\ r.remove \in BOOLEAN /\ r.again \in BOOLEAN
    BY <2>1 DEF Commands
  <2> HIDE DEF r
  <2> QED BY <2>2, McpCommandIs
<1>6. SetupTellsTheTruth
  <2> DEFINE s == SetupReport(r.kind, r.mcp, r.hooks, r.level)
             seen == ClientStatus(s.mcp, s.hooks)
  <2> SUFFICES ASSUME Is("setup")
               PROVE  /\ ~s.failed => s.mcp[r.level].ours /\ Fires(s.hooks) = {r.level}
                      /\ ~s.failed => seen.hook = r.level /\ seen.level \in {r.level, "both"} /\ ~seen.double
                      /\ s.dry => s.mcp = r.mcp /\ s.hooks = r.hooks
    BY DEF SetupTellsTheTruth
  <2>1. r \in Setups(T) BY ClientInputByRule DEF Is
  <2>2. /\ r.kind \in {"json", "plugin", "cursor", "muse"} /\ r.mcp \in ServerFiles(T)
        /\ r.hooks \in Plain(T) /\ r.level \in Levels
    BY <2>1 DEF Setups
  <2> HIDE DEF r
  <2>3. /\ ~s.failed => s.mcp[r.level].ours /\ Fires(s.hooks) = {r.level}
        /\ s.dry => s.mcp = r.mcp /\ s.hooks = r.hooks
    <3>1. s = SetupReport(r.kind, r.mcp, r.hooks, r.level) OBVIOUS
    <3> DEFINE kind == r.kind
               mcp == r.mcp
               hooks == r.hooks
               level == r.level
    <3>2. /\ kind \in {"json", "plugin", "cursor", "muse"} /\ mcp \in ServerFiles(T)
          /\ hooks \in Plain(T) /\ level \in Levels /\ s = SetupReport(kind, mcp, hooks, level)
      BY <2>2, <3>1
    <3> HIDE DEF s, kind, mcp, hooks, level
    <3>3. Truthful(s, mcp, hooks, level) BY <3>2, SetupIs
    <3> QED BY <3>3 DEF Truthful, mcp, hooks, level
  <2> HIDE DEF s
  <2>4. ~s.failed => seen.hook = r.level /\ seen.level \in {r.level, "both"} /\ ~seen.double
    BY <2>2, <2>3, StatusIs
  <2> QED BY <2>3, <2>4 DEF s
<1>7. SkillResumes
  <2> DEFINE none == [receipt |-> NoReceipt, files |-> [p \in Parts |-> "none"]]
             s == SkillRun(none, r.runs)
             last == r.runs[Len(r.runs)]
             again == SkillInstall(s, last.mode, last.version)
             edited == [s EXCEPT !.files[r.edits] = "edited"]
             did == SkillInstall(edited, last.mode, last.version)
             e == Left(s, again)
  <2> SUFFICES ASSUME Is("skill")
               PROVE  /\ again.ok
                      /\ \A p \in Parts : e.files[p] = IF e.receipt.enabled THEN last.version ELSE "none"
                      /\ \A t \in Passed(edited, did) : t.files[r.edits] = "edited"
    BY Zenon DEF SkillResumes
  <2>1. r \in [edits : Parts, runs : SkillRuns(V)] BY ClientInputByRule DEF Is
  <2>2. r.edits \in Parts /\ r.runs \in SkillRuns(V) BY <2>1
  <2> HIDE DEF r
  <2>3. last.version \in V
    <3>1. r.runs \in Seq(Runs(V)) /\ Len(r.runs) > 0 BY <2>2 DEF SkillRuns
    <3>2. last \in Runs(V) BY <3>1
    <3> HIDE DEF last
    <3> QED BY <3>2 DEF Runs
  <2>4. PICK v \in V : s \in SkillStates(v, last.version) BY <2>2, SkillRunIs
  <2> HIDE DEF none, s, last
  <2>5. /\ again.ok /\ again.trace \in Seq(SkillStates(v, last.version)) /\ Len(again.trace) > 0
        /\ LET x == again.trace[Len(again.trace)] IN
           \A p \in Parts : x.files[p] = IF x.receipt.enabled THEN last.version ELSE "none"
    BY <2>3, <2>4, SkillInstallIs
  <2> HIDE DEF again
  <2>6. e = again.trace[Len(again.trace)]
    <3>1. again.trace # <<>> BY <2>5
    <3> QED BY <3>1 DEF Left
  <2>7. \A p \in Parts : e.files[p] = IF e.receipt.enabled THEN last.version ELSE "none" BY <2>5, <2>6
  <2>8. \A t \in Passed(edited, did) : t.files[r.edits] = "edited" BY <2>2, <2>3, <2>4, EditStands
  <2> HIDE DEF e, did, edited
  <2> QED BY <2>5, <2>7, <2>8
<1>8. StatuslineRestored
  <2> DEFINE first == [line |-> [l \in Levels |-> "none"], saved |-> [l \in Levels |-> Unset],
                       off |-> [l \in Levels |-> FALSE], chosen |-> [l \in Levels |-> "none"]]
             s == StatusAfter(first, r)
             off == StatusDisable(StatusDisable(s, "project"), "user")
  <2> SUFFICES ASSUME Is("statusline")
               PROVE  /\ off.line = s.chosen
                      /\ \A l \in Levels : s.saved[l] # Unset => s.saved[l].original # Wrapper[l]
    BY Zenon DEF StatuslineRestored, Levels
  <2>1. r \in Seq(LineEvents(L)) BY ClientInputByRule DEF Is
  <2>2. first \in LineStates(L) BY NothingSaved
  <2> HIDE DEF r, first
  <2>3. s \in LineStates(L) BY <2>1, <2>2, StatusAfterIs
  <2> HIDE DEF s
  <2> QED BY <2>3, RestoredIs
<1> QED BY <1>1, <1>2, <1>3, <1>4, <1>5, <1>6, <1>7, <1>8 DEF ClientRules

\* The inputs of the run are among those: any constant for what is absent will do
\* that is not itself one of the values.
LEMMA ClientInputsCovered ==
  ASSUME Unset \notin SavedLine({"none", "mine"}), \A v \in {"v1", "v2"} : Unset # Copy(v)
  PROVE  /\ Marks(BOOLEAN) /\ OwnLines({"none", "mine"}) /\ ShippedAs({"v1", "v2"})
         /\ ClientInputs \subseteq AnyClientInput(BOOLEAN, {"none", "mine"}, {"v1", "v2"})
<1> DEFINE T == BOOLEAN
           L == {"none", "mine"}
           V == {"v1", "v2"}
           plain == [user : ConfigFile, project : ConfigFile,
                     managed : {[shape |-> "absent", ours |-> FALSE, theirs |-> FALSE]}, pointer : {"none"}]
           hooks == [kind : {"json", "plugin", "cursor"}, fs : plain, level : {"user", "project"}, credentialed : {FALSE}]
           all == [user : ConfigFile, project : ConfigFile, managed : ConfigFile, pointer : {"none", "ours", "foreign"}]
           muse == [kind : {"muse"}, level : {"user", "project"}, credentialed : BOOLEAN, fs : all]
           command == [fs : [user : ConfigFile, project : ConfigFile], add : BOOLEAN, remove : BOOLEAN, again : BOOLEAN]
           setup == [kind : {"json", "plugin", "cursor", "muse"}, level : {"user", "project"},
                     mcp : [user : ConfigFile, project : ConfigFile], hooks : plain]
           whole(v) == {[mode |-> "auto", version |-> v, writes |-> 9]}
           died == [mode : {"on", "off", "auto"}, version : {"v1", "v2"}, writes : 0..5]
           runs == {<<a1, a2>> : a1 \in died, a2 \in {d \in died : d.version = "v2"}}
                   \cup {<<w, d>> : w \in whole("v1"), d \in died}
           skill == [edits : Parts, runs : runs]
           lines == [1..4 -> [do : {"install", "dies", "disable"}, level : {"user", "project"}]
                             \cup [do : {"enable", "mine"}, level : {"user", "project"}]]
<1>1. ClientInputs = Of("hooks", hooks) \cup Of("hooks", muse) \cup Of("command", command)
                     \cup Of("setup", setup) \cup Of("skill", skill) \cup Of("statusline", lines)
  BY DEF ClientInputs
<1>2. Marks(T) /\ OwnLines(L) BY DEF Marks, OwnLines, Wrapper
<1>3. ShippedAs(V) BY DEF ShippedAs
<1>4. ConfigFile \subseteq AnyFile(T) BY DEF ConfigFile, AnyFile, Malformed
<1>5. plain \subseteq Plain(T)
  <2>1. [shape |-> "absent", ours |-> FALSE, theirs |-> FALSE] \in AnyFile(T) BY DEF AnyFile, Malformed
  <2> QED BY <1>4, <2>1 DEF Plain, AnyFiles
<1>6. [user : ConfigFile, project : ConfigFile] \subseteq ServerFiles(T) BY <1>4 DEF ServerFiles
<1>7. Of("hooks", hooks) \subseteq AnyHooks(T) /\ Of("hooks", muse) \subseteq AnyHooks(T)
  <2>1. hooks \subseteq HookInputs(T)
    <3> HIDE DEF plain, T
    <3> QED BY <1>5 DEF HookInputs, Levels
  <2>2. muse \subseteq HookInputs(T)
    <3>1. all \subseteq AnyFiles(T) BY <1>4 DEF AnyFiles
    <3> HIDE DEF all, T
    <3> QED BY <3>1 DEF HookInputs, Levels
  <2> HIDE DEF hooks, muse, T
  <2> QED BY <2>1, <2>2, OfWidensTo DEF AnyHooks
<1>8. Of("command", command) \subseteq AnyCommand(T)
  <2>1. command \subseteq Commands(T) BY <1>6 DEF Commands
  <2> HIDE DEF command, T
  <2> QED BY <2>1, OfWidensTo DEF AnyCommand
<1>9. Of("setup", setup) \subseteq AnySetup(T)
  <2>1. setup \subseteq Setups(T)
    <3> HIDE DEF plain, T
    <3> QED BY <1>5, <1>6 DEF Setups, Levels
  <2> HIDE DEF setup, T
  <2> QED BY <2>1, OfWidensTo DEF AnySetup
<1>10. Of("skill", skill) \subseteq AnySkill(V)
  <2>1. ASSUME NEW a \in Runs(V), NEW b \in Runs(V) PROVE <<a, b>> \in SkillRuns(V)
    <3> DEFINE q == <<a, b>>
    <3>1. q \in Seq(Runs(V)) /\ Len(q) = 2 /\ q[1] = a /\ q[2] = b
      <4> HIDE DEF V
      <4> QED OBVIOUS
    <3> HIDE DEF q, V
    <3>2. a.version \in V BY DEF Runs
    <3>3. 1 \in 0..Len(q) - 1 /\ Len(q) > 0 BY <3>1
    <3>4. \A i \in 1..Len(q) : q[i].version = IF i <= 1 THEN a.version ELSE q[Len(q)].version
      <4>1. \A i \in 1..Len(q) : i = 1 \/ i = 2 BY <3>1
      <4> QED BY <3>1, <4>1
    <3>5. q \in SkillRuns(V) BY <3>1, <3>2, <3>3, <3>4 DEF SkillRuns
    <3> QED BY <3>5 DEF q
  <2>2. died \subseteq Runs(V) /\ whole("v1") \subseteq Runs(V) BY DEF Runs
  <2> HIDE DEF died, whole, V
  <2>3. runs \subseteq SkillRuns(V) BY <2>1, <2>2
  <2> HIDE DEF runs
  <2>4. skill \subseteq [edits : Parts, runs : SkillRuns(V)] BY <2>3
  <2> HIDE DEF skill
  <2> QED BY <2>4, OfWidensTo DEF AnySkill
<1>11. Of("statusline", lines) \subseteq AnyLines(L)
  <2> DEFINE E == [do : {"install", "dies", "disable"}, level : {"user", "project"}]
                  \cup [do : {"enable", "mine"}, level : {"user", "project"}]
  <2>1. E \subseteq LineEvents(L) BY DEF LineEvents, Levels
  <2> HIDE DEF E, L
  <2>2. ASSUME NEW f \in [1..4 -> E] PROVE f \in Seq(LineEvents(L))
    <3>1. f \in [1..4 -> LineEvents(L)] BY <2>1
    <3>2. 4 \in Nat OBVIOUS
    <3> QED BY <3>1, <3>2, FunctionIsSeq
  <2>3. lines \subseteq Seq(LineEvents(L)) BY <2>2 DEF E
  <2> HIDE DEF lines
  <2> QED BY <2>3, OfWidensTo DEF AnyLines
<1> HIDE DEF hooks, muse, command, setup, skill, lines, T, L, V
<1>12. ClientInputs \subseteq AnyClientInput(T, L, V) BY <1>1, <1>7, <1>8, <1>9, <1>10, <1>11 DEF AnyClientInput
<1> QED BY <1>2, <1>3, <1>12 DEF T, L, V
=============================================================================
