---------------------------- MODULE MailboxProofs ----------------------------
(***************************************************************************)
(* However many sessions move a message, and however late what one of them *)
(* decided lands: proofs of OneEach and MovesFenced.  However many         *)
(* documents a collection has, wherever an import dies and whatever a      *)
(* rival writes: proof of KnowledgeRules.  However a scope or conversation  *)
(* is written and erased while it is copied, and wherever a restore, an    *)
(* erasure or a prune dies: proof of VerbRules.                            *)
(***************************************************************************)
EXTENDS Mailbox, Knowledge, Operator, SequenceTheorems, FiniteSetTheorems, WellFoundedInduction, TLAPS

\* The session has no update under way that may still land.
Undecided(c) == call[c] = NoCall \/ call[c].next = Overtaken

\* Work under way is read, and an accepted wake is not reserved.
Sound(x) == (x.owner # Nobody => x.read) /\ (x.accepted => x.hold = 0)

\* The message is owned by whoever counts on a claim, for as long.
Agrees(cl, x) ==
    \A s \in Session :
        cl[s].left > 0 => x.owner = s /\ cl[s].left <= x.lease

\* The message is reserved to whoever holds the wake, for as long.
Held(x) ==
    \A s \in handed : x.waker = s /\ x.hold > 0 /\ wake[s].left <= x.hold

\* Moves that hand a wake out or back, and those that open the message anew.
Wakes(verb) == verb \in {"reserve", "accepted", "retry"}
Reopens(verb) == verb \in {"release", "snooze"}

\* What is true of the message x that a move m is about to write, when the
\* sessions count on the claims cl.
Ready(cl, m, x) ==
    /\ Sound(x) /\ Agrees(cl, x)
    /\ m.verb \in {"claim", "renew"} => x.owner = m.session
    /\ m.verb = "reserve" => handed = {} /\ ~taken /\ x.waker = m.session /\ x.hold > 0
    /\ m.verb \in {"accepted", "retry"} => handed \subseteq {m.session}
    /\ m.verb = "accepted" => x.accepted
    /\ m.verb = "retry" => ~taken
    /\ ~Wakes(m.verb) /\ ~Reopens(m.verb) => Held(x) /\ (taken => x.accepted)

\* What it has in common with the message on file.
Beside(m, x) ==
    file = "live" =>
        /\ item.status = "open" /\ m.occurrence = item.occurrence
        /\ Claimed(item) =>
            \/ Ends(m.verb) /\ item.owner = m.session
            \/ x.owner = item.owner /\ item.lease <= x.lease

\* An update is its session's own; a snooze has an occurrence left to open.
Mine(s) ==
    call[s] # NoCall =>
        /\ call[s].move.session = s
        /\ call[s].move.verb = "snooze" => call[s].move.occurrence < MaxOccurrence

\* What may still land is ready to.
Landing(s) ==
    ~Undecided(s) =>
        Ready(claim, call[s].move, call[s].next) /\ Beside(call[s].move, call[s].next)

\* The message on file, and what there is before it is sent.
OnFile ==
    /\ file = "live" => Sound(item) /\ Agrees(claim, item) /\ Held(item)
    /\ file # "live" => item = Blank
    /\ file = "absent" =>
        /\ \A s \in Session : call[s] = NoCall /\ claim[s].left = 0
        /\ handed = {} /\ ~taken

\* The inductive invariant.
MailInv ==
    /\ TypeOK /\ OneWorker /\ WakeOnce /\ OnFile
    /\ \A s \in Session :
        Mine(s) /\ Landing(s) /\ (wake[s].left = 0 => wake[s] = Nothing)

-----------------------------------------------------------------------------
(* What a move makes of a message.                                         *)

LEMMA FreshToken ==
    ASSUME TypeOK, NEW s \in Session, NEW verb
    PROVE  Fresh(s, verb) \in Token
<1>1. claim[s].token \in Tokens /\ wake[s].token \in Tokens
    BY DEF TypeOK, Grasps
<1>2. item.token \in Tokens /\ item.wakeToken \in Tokens
    BY DEF TypeOK, Items
<1>3. CASE verb = "reserve"
    <2>1. \E t \in Token : t # wake[s].token /\ t # item.wakeToken
        BY <1>1, <1>2, TokensAssumption
    <2>2. QED BY <2>1, <1>3, Zenon DEF Fresh
<1>4. CASE verb # "reserve"
    <2>1. \E t \in Token : t # claim[s].token /\ t # item.token
        BY <1>1, <1>2, TokensAssumption
    <2>2. QED BY <2>1, <1>4, Zenon DEF Fresh
<1>5. QED BY <1>3, <1>4

LEMMA HelpersType ==
    ASSUME NEW x \in Items
    PROVE  /\ Disown(x) \in Items /\ Unwake(x) \in Items /\ Reopened(x) \in Items
           /\ Renewed(x) \in Items
           /\ \A s \in Session, t \in Token : Taken(x, s, t) \in Items
<1> USE TimesAssumption DEF Items, Recipients, Tokens, Times
<1>1. Lease \in 0..Lease /\ 0 \in 0..Lease /\ 0 \in 0..Hold BY TimesAssumption
<1>2. Disown(x) \in Items BY <1>1 DEF Disown
<1>3. \A y \in Items : Unwake(y) \in Items BY <1>1 DEF Unwake
<1>4. Reopened(x) \in Items BY <1>2, <1>3 DEF Reopened
<1>5. Renewed(x) \in Items BY <1>1 DEF Renewed
<1>6. \A s \in Session, t \in Token : Taken(x, s, t) \in Items BY <1>1 DEF Taken
<1>7. QED BY <1>2, <1>3, <1>4, <1>5, <1>6

LEMMA MovedType ==
    ASSUME NEW x \in Items, NEW m \in Moves, NEW fresh \in Token,
           m.verb = "snooze" => x.occurrence < MaxOccurrence
    PROVE  Moved(x, m, fresh) \in Items
<1> DEFINE y == Moved(x, m, fresh)
<1>1. m.session \in Session /\ m.due \in Nat /\ m.verb \in Verbs
    BY DEF Moves
<1>2. CASE m.verb = "cancel" \/ m.verb = "complete"
    <2>1. [x EXCEPT !.status = "cancelled"] \in Items /\ [x EXCEPT !.status = "done"] \in Items
        BY DEF Items
    <2>2. QED BY <1>2, <2>1, Zenon DEF Moved
<1>3. CASE m.verb = "reserve"
    <2>1. [x EXCEPT !.waker = m.session, !.wakeToken = fresh, !.hold = Hold] \in Items
        <3>1. Hold \in 0..Hold BY TimesAssumption
        <3>2. QED BY <1>1, <3>1 DEF Items, Recipients, Tokens
    <2>2. QED BY <1>3, <2>1, Zenon DEF Moved
<1>4. CASE m.verb \in {"accepted", "retry"}
    <2>1. Unwake(x) \in Items BY HelpersType
    <2>2. \A b \in BOOLEAN : [Unwake(x) EXCEPT !.accepted = b] \in Items
        BY <2>1 DEF Items
    <2>3. (m.verb = "accepted") \in BOOLEAN OBVIOUS
    <2>4. QED BY <1>4, <2>2, <2>3, Zenon DEF Moved
<1>5. CASE m.verb = "ack"
    <2>1. Disown(x) \in Items BY HelpersType
    <2>2. [Disown(x) EXCEPT !.read = TRUE] \in Items BY <2>1 DEF Items
    <2>3. QED BY <1>5, <2>2, Zenon DEF Moved
<1>6. CASE m.verb \in {"claim", "renew"}
    BY <1>1, <1>6, HelpersType, Zenon DEF Moved
<1>7. CASE m.verb = "release"
    BY <1>7, HelpersType, Zenon DEF Moved
<1>8. CASE m.verb = "snooze"
    <2>1. Reopened(x) \in Items BY HelpersType
    <2>2. x.occurrence + 1 \in 1..MaxOccurrence
        BY <1>8, TimesAssumption DEF Items
    <2>3. [Reopened(x) EXCEPT !.due = m.due, !.occurrence = x.occurrence + 1] \in Items
        BY <1>1, <2>1, <2>2 DEF Items
    <2>4. QED BY <1>8, <2>3, Zenon DEF Moved
<1>9. QED
    BY <1>1, <1>2, <1>3, <1>4, <1>5, <1>6, <1>7, <1>8 DEF Verbs

\* What a permitted move that changes the message makes of it is ready to land.
LEMMA Decides ==
    ASSUME MailInv, file = "live", NEW m \in Moves, Possible(m.session, m),
           NEW fresh \in Token, NEW x, x = Moved(item, m, fresh), x # item
    PROVE  Ready(Stops(m.session, m.verb), m, x) /\ Beside(m, x)
<1> DEFINE s == m.session
           cl == Stops(s, m.verb)
<1>1. /\ item \in Items /\ m.verb \in Verbs /\ s \in Session
      /\ claim \in [Session -> Grasps] /\ wake \in [Session -> Grasps]
      /\ handed \subseteq Session
    BY DEF MailInv, TypeOK, Moves
<1>2. Sound(item) /\ Agrees(claim, item) /\ Held(item) /\ (taken => item.accepted)
    BY DEF MailInv, OnFile, WakeOnce
<1>3. Permits(item, m) BY DEF Possible
<1>4. ~Settled(item, m)
    <2>1. CASE m.verb = "complete" /\ item.status = "done"
        <3>1. [item EXCEPT !.status = "done"] = item BY <1>1, <2>1 DEF Items
        <3>2. QED BY <2>1, <3>1, Zenon DEF Moved
    <2>2. CASE m.verb = "cancel" /\ item.status = "cancelled"
        <3>1. [item EXCEPT !.status = "cancelled"] = item BY <1>1, <2>2 DEF Items
        <3>2. QED BY <2>2, <3>1, Zenon DEF Moved
    <2>3. QED BY <2>1, <2>2 DEF Settled
<1>5. item.status = "open" /\ m.occurrence = item.occurrence
    BY <1>3, <1>4 DEF Permits, Current, Available
<1>6. \A c \in Session : cl[c].left = claim[c].left \/ (c = s /\ cl[c].left = 0)
    BY <1>1 DEF Stops, Gone, Grasps
<1>7. Agrees(cl, item)
    BY <1>1, <1>2, <1>6, TimesAssumption DEF Agrees, Grasps, Times
<1>8. CASE m.verb = "cancel"
    <2>1. x = [item EXCEPT !.status = "cancelled"] BY <1>8, Zenon DEF Moved
    <2>2. Sound(x) /\ Agrees(cl, x) /\ Held(x) /\ (taken => x.accepted)
        BY <1>1, <1>2, <1>7, <2>1 DEF Items, Sound, Agrees, Held
    <2>3. x.owner = item.owner /\ x.lease = item.lease BY <1>1, <2>1 DEF Items
    <2>4. QED BY <1>1, <1>5, <1>8, <2>2, <2>3 DEF Ready, Beside, Wakes, Items, Times
<1>9. CASE m.verb = "complete"
    <2>1. x = [item EXCEPT !.status = "done"] BY <1>9, Zenon DEF Moved
    <2>2. Sound(x) /\ Agrees(cl, x) /\ Held(x) /\ (taken => x.accepted)
        BY <1>1, <1>2, <1>7, <2>1 DEF Items, Sound, Agrees, Held
    <2>3. x.owner = item.owner /\ x.lease = item.lease BY <1>1, <2>1 DEF Items
    <2>4. QED BY <1>1, <1>5, <1>9, <2>2, <2>3 DEF Ready, Beside, Wakes, Items, Times
<1>10. CASE m.verb = "reserve"
    <2>1. x = [item EXCEPT !.waker = s, !.wakeToken = fresh, !.hold = Hold]
        BY <1>10, Zenon DEF Moved
    <2>2. ~item.accepted /\ item.hold = 0
        BY <1>3, <1>4, <1>10 DEF Permits, PermitsWake, PermitsWork, WakePending
    <2>3. handed = {} /\ ~taken
        BY <1>2, <2>2 DEF Held
    <2>4. x.waker = s /\ x.hold > 0 /\ x.owner = item.owner /\ x.lease = item.lease
          /\ x.read = item.read /\ x.accepted = item.accepted
        BY <1>1, <2>1, TimesAssumption DEF Items
    <2>5. Sound(x) /\ Agrees(cl, x)
        BY <1>2, <1>7, <2>2, <2>4 DEF Sound, Agrees
    <2>6. QED BY <1>1, <1>5, <1>10, <2>3, <2>4, <2>5 DEF Ready, Beside, Wakes, Items, Times
<1>11. CASE m.verb \in {"accepted", "retry"}
    <2>1. x = [Unwake(item) EXCEPT !.accepted = (m.verb = "accepted")]
        BY <1>11, Zenon DEF Moved
    <2>2. item.waker = s /\ item.hold > 0
        BY <1>3, <1>4, <1>11 DEF Permits, PermitsWake, PermitsWork, Settled
    <2>3. handed \subseteq {s} BY <1>2, <2>2 DEF Held
    <2>4. ~taken BY <1>2, <2>2 DEF Sound
    <2>5. Unwake(item) \in Items BY <1>1, HelpersType
    <2>6. x.owner = item.owner /\ x.lease = item.lease /\ x.read = item.read /\ x.hold = 0
        BY <1>1, <2>1 DEF Unwake, Items
    <2>7. m.verb = "accepted" => x.accepted
        BY <2>1, <2>5 DEF Items
    <2>8. Sound(x) /\ Agrees(cl, x)
        BY <1>2, <1>7, <2>6 DEF Sound, Agrees
    <2>9. QED
        BY <1>1, <1>5, <1>11, <2>3, <2>4, <2>6, <2>7, <2>8 DEF Ready, Beside, Wakes, Items, Times
<1>12. CASE m.verb = "ack"
    <2>1. Claimed(item) => item.read /\ ~Unread(item)
        BY <1>2 DEF Claimed, Unread, Sound
    <2>2. ~(item.read /\ ~Unread(item)) BY <1>12, Zenon DEF Moved
    <2>3. x = [Disown(item) EXCEPT !.read = TRUE] BY <1>12, <2>2, Zenon DEF Moved
    <2>4. ~Claimed(item) BY <2>1, <2>2
    <2>5. x.accepted = item.accepted /\ x.hold = item.hold /\ x.waker = item.waker /\ x.read
        BY <1>1, <2>3 DEF Disown, Items
    <2>6. \A c \in Session : ~(cl[c].left > 0)
        BY <1>1, <1>7, <2>4, NamesAssumption DEF Agrees, Claimed, Items, Times, Stops, Gone, Grasps
    <2>7. Sound(x) /\ Agrees(cl, x) /\ Held(x) /\ (taken => x.accepted)
        BY <1>2, <2>5, <2>6 DEF Sound, Agrees, Held
    <2>8. QED BY <1>5, <1>12, <2>4, <2>7 DEF Ready, Beside, Wakes
<1>13. CASE m.verb = "claim"
    <2>1. x = Taken(item, s, fresh) /\ ~(Claimed(item) /\ item.owner = s)
        BY <1>13, Zenon DEF Moved
    <2>2. ~Claimed(item)
        BY <1>3, <1>4, <1>13, <2>1 DEF Permits, PermitsWake, PermitsWork
    <2>3. /\ x.accepted = item.accepted /\ x.hold = item.hold /\ x.waker = item.waker
          /\ x.read /\ x.owner = s
        BY <1>1, <2>1 DEF Taken, Items
    <2>4. \A c \in Session : ~(cl[c].left > 0)
        BY <1>1, <1>7, <2>2, NamesAssumption DEF Agrees, Claimed, Items, Times, Stops, Gone, Grasps
    <2>5. Sound(x) /\ Agrees(cl, x) /\ Held(x) /\ (taken => x.accepted)
        BY <1>2, <2>3, <2>4 DEF Sound, Agrees, Held
    <2>6. QED BY <1>5, <1>13, <2>2, <2>3, <2>5 DEF Ready, Beside, Wakes
<1>14. CASE m.verb = "renew"
    <2>1. x = [item EXCEPT !.lease = Lease] BY <1>14, Zenon DEF Moved, Renewed
    <2>2. item.owner = s
        BY <1>3, <1>4, <1>14 DEF Permits, PermitsWake, PermitsWork
    <2>3. /\ x.accepted = item.accepted /\ x.hold = item.hold /\ x.waker = item.waker
          /\ x.read = item.read /\ x.owner = item.owner /\ x.lease = Lease
        BY <1>1, <2>1 DEF Items
    <2>4. item.lease <= Lease BY <1>1, TimesAssumption DEF Items, Times
    <2>5. Agrees(cl, x)
        BY <1>1, <1>6, <1>7, <2>3, <2>4, TimesAssumption DEF Agrees, Items, Times, Grasps
    <2>6. Sound(x) /\ Held(x) /\ (taken => x.accepted)
        BY <1>2, <2>3 DEF Sound, Held
    <2>7. QED BY <1>5, <1>14, <2>2, <2>3, <2>4, <2>5, <2>6 DEF Ready, Beside, Wakes
<1>15. CASE m.verb \in {"release", "snooze"}
    <2>1. \/ x = Reopened(item)
          \/ x = [Reopened(item) EXCEPT !.due = m.due, !.occurrence = item.occurrence + 1]
        BY <1>15, Zenon DEF Moved
    <2>2. ~x.accepted /\ x.owner = Nobody
        BY <1>1, <2>1 DEF Reopened, Unwake, Disown, Items
    <2>3. item.owner = s
        BY <1>3, <1>4, <1>15 DEF Permits, PermitsWake, PermitsWork
    <2>4. \A c \in Session : ~(cl[c].left > 0)
        <3>1. cl[s].left = 0 BY <1>1, <1>15 DEF Stops, Ends, Gone, Grasps
        <3>2. QED BY <1>7, <2>3, <3>1 DEF Agrees
    <2>5. Sound(x) /\ Agrees(cl, x) BY <2>2, <2>4 DEF Sound, Agrees
    <2>6. QED BY <1>5, <1>15, <2>3, <2>5 DEF Ready, Beside, Wakes, Reopens, Ends
<1>16. QED
    BY <1>1, <1>8, <1>9, <1>10, <1>11, <1>12, <1>13, <1>14, <1>15 DEF Verbs

-----------------------------------------------------------------------------
(* A move lands.                                                           *)

LEMMA GraspType ==
    ASSUME NEW token \in Tokens, NEW left \in Times
    PROVE  /\ Grasp(token, left) \in Grasps /\ Grasp(token, left).left = left
           /\ left = 0 => Grasp(token, left) = Nothing
           /\ Nothing \in Grasps /\ Nothing.left = 0
<1>1. Nothing \in Grasps /\ Nothing.left = 0
    BY TimesAssumption DEF Nothing, Grasps, Tokens, Times
<1>2. [token |-> token, left |-> left] \in Grasps BY DEF Grasps
<1>3. QED BY <1>1, <1>2 DEF Grasp

LEMMA OvertakeType ==
    ASSUME NEW c \in Calls \cup {NoCall}
    PROVE  /\ Overtake(c) \in Calls \cup {NoCall}
           /\ c # NoCall => /\ Overtake(c) # NoCall /\ Overtake(c).next = Overtaken
                            /\ Overtake(c).move = c.move
           /\ c = NoCall => Overtake(c) = NoCall
<1>1. CASE c = NoCall BY <1>1 DEF Overtake
<1>2. CASE c # NoCall
    <2>1. c \in Calls BY <1>2
    <2>2. [c EXCEPT !.next = Overtaken] \in Calls
          /\ [c EXCEPT !.next = Overtaken].next = Overtaken
          /\ [c EXCEPT !.next = Overtaken].move = c.move
          /\ [c EXCEPT !.next = Overtaken].attempt \in 1..Attempts
        BY <2>1 DEF Calls
    <2>3. NoCall.attempt \notin 1..Attempts BY DEF NoCall
    <2>4. QED BY <1>2, <2>2, <2>3 DEF Overtake
<1>3. QED BY <1>1, <1>2

\* Its claims: the session that moved it holds what it wrote, or nothing.
LEMMA ClaimsLand ==
    ASSUME MailInv, NEW m \in Moves, NEW x \in Items, NEW cl \in [Session -> Grasps],
           \A c \in Session : cl[c] = claim[c] \/ (c = m.session /\ Ends(m.verb)),
           Ready(cl, m, x), NEW heard \in BOOLEAN, Writes(m.session, m.verb, x, heard)
    PROVE  claim' \in [Session -> Grasps] /\ Agrees(claim', x)
<1> DEFINE s == m.session
<1>1. s \in Session /\ m.verb \in Verbs /\ claim \in [Session -> Grasps]
      /\ x.token \in Tokens /\ x.lease \in Times
    BY DEF MailInv, TypeOK, Moves, Items
<1>2. Agrees(cl, x) BY DEF Ready
<1>3. CASE Ends(m.verb)
    <2>1. claim' = [claim EXCEPT ![s] = Nothing] \/ claim' = [claim EXCEPT ![s] = Gone(@)]
        BY <1>3, Zenon DEF Writes, Learns, Stops, Ends
    <2>2. Gone(claim[s]) \in Grasps /\ Gone(claim[s]).left = 0
        BY <1>1, TimesAssumption DEF Gone, Grasps, Times
    <2>3. Nothing \in Grasps /\ Nothing.left = 0 BY <1>1, GraspType
    <2>4. claim' \in [Session -> Grasps] /\ claim'[s].left = 0
          /\ \A c \in Session : c # s => claim'[c] = cl[c]
        BY <1>1, <2>1, <2>2, <2>3
    <2>5. QED BY <1>2, <2>4 DEF Agrees
<1>4. CASE m.verb \in {"claim", "renew"} /\ heard
    <2>1. claim' = [claim EXCEPT ![s] = Grasp(x.token, x.lease)]
        <3>1. Learns(s, m.verb, x) BY <1>4 DEF Writes
        <3>2. QED BY <1>4, <3>1, Zenon DEF Learns, Ends
    <2>2. Grasp(x.token, x.lease) \in Grasps /\ Grasp(x.token, x.lease).left = x.lease
        BY <1>1, GraspType
    <2>3. claim' \in [Session -> Grasps] /\ claim'[s].left = x.lease
          /\ \A c \in Session : c # s => claim'[c] = cl[c]
        BY <1>1, <2>1, <2>2
    <2>4. x.owner = s BY <1>4 DEF Ready
    <2>5. x.lease <= x.lease BY <1>1, TimesAssumption DEF Times
    <2>6. QED BY <1>2, <2>3, <2>4, <2>5 DEF Agrees
<1>5. CASE ~Ends(m.verb) /\ ~(m.verb \in {"claim", "renew"} /\ heard)
    <2>1. claim' = claim
        <3>1. CASE heard
            <4>1. m.verb \notin {"claim", "renew"} BY <1>5, <3>1
            <4>2. Learns(s, m.verb, x) BY <3>1 DEF Writes
            <4>3. QED BY <1>5, <4>1, <4>2, Zenon DEF Learns
        <3>2. CASE ~heard BY <1>5, <3>2, Zenon DEF Writes, Stops
        <3>3. QED BY <3>1, <3>2
    <2>2. \A c \in Session : cl[c] = claim[c] BY <1>5
    <2>3. QED BY <1>1, <1>2, <2>1, <2>2 DEF Agrees
<1>6. QED BY <1>3, <1>4, <1>5

\* Its wake: whoever reserved it holds it, whoever reported it does not.
LEMMA WakesLand ==
    ASSUME MailInv, NEW m \in Moves, NEW x \in Items, NEW cl,
           Ready(cl, m, x), NEW heard \in BOOLEAN, Writes(m.session, m.verb, x, heard)
    PROVE  /\ wake' \in [Session -> Grasps]
           /\ \A c \in Session : wake'[c].left = 0 => wake'[c] = Nothing
           /\ handed' \subseteq Session /\ taken' \in BOOLEAN
           /\ \A c \in handed' : x.waker = c /\ x.hold > 0 /\ wake'[c].left <= x.hold
           /\ \A c, d \in handed' : c = d
           /\ taken' => handed' = {} /\ x.accepted
<1> DEFINE s == m.session
<1>1. /\ s \in Session /\ m.verb \in Verbs /\ wake \in [Session -> Grasps]
      /\ x.wakeToken \in Tokens /\ x.hold \in 0..Hold /\ x.hold \in Times
      /\ handed \subseteq Session /\ taken \in BOOLEAN
    BY TimesAssumption DEF MailInv, TypeOK, Moves, Items, Times
<1>2. \A c \in Session : wake[c].left = 0 => wake[c] = Nothing
    BY DEF MailInv
<1>3. (\A c, d \in handed : c = d) /\ (taken => handed = {})
    BY DEF MailInv, WakeOnce
<1>4. Remembers(s, m.verb, heard) BY DEF Writes
<1>5. Nothing \in Grasps /\ Nothing.left = 0 BY <1>1, GraspType
<1>6. CASE m.verb = "reserve"
    <2>1. handed = {} /\ ~taken /\ x.waker = s /\ x.hold > 0
        BY <1>6 DEF Ready
    <2>2. handed' = (IF heard THEN handed \cup {s} ELSE handed) /\ taken' = taken
        BY <1>4, <1>6, Zenon DEF Remembers
    <2>3. CASE heard
        <3>1. wake' = [wake EXCEPT ![s] = Grasp(x.wakeToken, x.hold)]
            BY <1>6, <2>3, Zenon DEF Writes, Learns
        <3>2. Grasp(x.wakeToken, x.hold) \in Grasps /\ Grasp(x.wakeToken, x.hold).left = x.hold
              /\ (x.hold = 0 => Grasp(x.wakeToken, x.hold) = Nothing)
            BY <1>1, GraspType
        <3>3. wake' \in [Session -> Grasps] /\ wake'[s].left = x.hold
              /\ \A c \in Session : wake'[c].left = 0 => wake'[c] = Nothing
            BY <1>1, <1>2, <3>1, <3>2
        <3>4. handed' = {s} /\ taken' = FALSE BY <1>1, <2>1, <2>2, <2>3
        <3>5. x.hold <= x.hold BY <1>1, TimesAssumption
        <3>6. QED BY <1>1, <2>1, <3>3, <3>4, <3>5
    <2>4. CASE ~heard
        <3>1. wake' = wake BY <2>4 DEF Writes
        <3>2. QED BY <1>1, <1>2, <2>1, <2>2, <2>4, <3>1
    <2>5. QED BY <2>3, <2>4
<1>7. CASE m.verb \in {"accepted", "retry"}
    <2>1. /\ handed \subseteq {s}
          /\ (m.verb = "accepted" => x.accepted) /\ (m.verb = "retry" => ~taken)
        BY <1>7 DEF Ready
    <2>2. handed' = handed \ {s} /\ taken' = (m.verb = "accepted" \/ taken)
        BY <1>1, <1>4, <1>7 DEF Remembers
    <2>3. wake' = [wake EXCEPT ![s] = Nothing] \/ wake' = wake
        BY <1>7, Zenon DEF Writes, Learns
    <2>4. wake' \in [Session -> Grasps]
          /\ \A c \in Session : wake'[c].left = 0 => wake'[c] = Nothing
        BY <1>1, <1>2, <1>5, <2>3
    <2>5. handed' = {} BY <2>1, <2>2
    <2>6. taken' => x.accepted BY <1>7, <2>1, <2>2
    <2>7. taken' \in BOOLEAN BY <2>2
    <2>8. QED BY <2>4, <2>5, <2>6, <2>7
<1>8. CASE m.verb \notin {"reserve", "accepted", "retry"}
    <2>1. wake' = wake BY <1>8, Zenon DEF Writes, Learns
    <2>2. CASE m.verb \in {"release", "snooze"}
        <3>1. handed' = {} /\ taken' = FALSE BY <1>4, <2>2, Zenon DEF Remembers
        <3>2. QED BY <1>1, <1>2, <2>1, <3>1
    <2>3. CASE m.verb \notin {"release", "snooze"}
        <3>1. handed' = handed /\ taken' = taken
            BY <1>4, <1>8, <2>3, Zenon DEF Remembers, history
        <3>2. Held(x) /\ (taken => x.accepted)
            BY <1>8, <2>3 DEF Ready, Wakes, Reopens
        <3>3. QED BY <1>1, <1>2, <1>3, <2>1, <3>1, <3>2 DEF Held
    <2>4. QED BY <2>2, <2>3
<1>9. QED BY <1>6, <1>7, <1>8

\* A move that lands keeps the invariant; it overtakes every other update.
LEMMA LandsKeeps ==
    ASSUME MailInv, NEW m \in Moves, NEW x \in Items, NEW cl \in [Session -> Grasps],
           \A c \in Session : cl[c] = claim[c] \/ (c = m.session /\ Ends(m.verb)),
           Ready(cl, m, x), NEW heard \in BOOLEAN, Writes(m.session, m.verb, x, heard),
           UNCHANGED <<links, attached>>
    PROVE  MailInv'
<1> DEFINE s == m.session
<1>1. s \in Session BY DEF Moves
<1>2. claim' \in [Session -> Grasps] /\ Agrees(claim', x) BY ClaimsLand
<1>3. /\ wake' \in [Session -> Grasps]
      /\ \A c \in Session : wake'[c].left = 0 => wake'[c] = Nothing
      /\ handed' \subseteq Session /\ taken' \in BOOLEAN
      /\ \A c \in handed' : x.waker = c /\ x.hold > 0 /\ wake'[c].left <= x.hold
      /\ \A c, d \in handed' : c = d
      /\ taken' => handed' = {} /\ x.accepted
    BY WakesLand
<1>4. file' = "live" /\ item' = x BY DEF Writes
<1>5. call' = [c \in Session |-> IF c = s THEN NoCall ELSE Overtake(call[c])]
    BY DEF Writes
<1>6. \A c \in Session : call[c] \in Calls \cup {NoCall} BY DEF MailInv, TypeOK
<1>7. \A c \in Session :
        /\ call'[c] \in Calls \cup {NoCall}
        /\ call'[c] # NoCall =>
            call'[c].next = Overtaken /\ call[c] # NoCall /\ call'[c].move = call[c].move
    BY <1>5, <1>6, OvertakeType
<1>8. TypeOK'
    <2>1. call' \in [Session -> Calls \cup {NoCall}] BY <1>5, <1>7
    <2>2. links' \subseteq Session \X Session /\ attached' \subseteq Session
        BY DEF MailInv, TypeOK
    <2>3. QED BY <1>2, <1>3, <1>4, <2>1, <2>2 DEF TypeOK
<1>9. OneWorker' BY <1>2 DEF OneWorker, Agrees
<1>10. WakeOnce' BY <1>3, <1>4 DEF WakeOnce
<1>11. OnFile'
    <2>1. Sound(x) BY DEF Ready
    <2>2. QED BY <1>2, <1>3, <1>4, <2>1 DEF OnFile, Sound, Agrees, Held
<1>12. \A c \in Session : Mine(c)' /\ Landing(c)'
    BY <1>7 DEF MailInv, Mine, Landing, Undecided
<1>13. QED BY <1>3, <1>8, <1>9, <1>10, <1>11, <1>12 DEF MailInv

-----------------------------------------------------------------------------
(* What a session does between two writes.                                 *)

\* A session opens an update or gives one up, and its claims change so that
\* they agree with the message and with whatever may still land.
LEMMA CallsKeep ==
    ASSUME MailInv, NEW s \in Session, NEW c \in Calls \cup {NoCall},
           call' = [call EXCEPT ![s] = c],
           claim' \in [Session -> Grasps], OneWorker',
           file = "live" => Agrees(claim', item),
           \A d \in Session :
                d # s /\ ~Undecided(d) => Agrees(claim', call[d].next),
           file = "absent" => c = NoCall /\ \A d \in Session : claim'[d].left = 0,
           c # NoCall => /\ c.move.session = s
                         /\ c.move.verb = "snooze" => c.move.occurrence < MaxOccurrence,
           c # NoCall /\ c.next # Overtaken =>
                Ready(claim', c.move, c.next) /\ Beside(c.move, c.next),
           UNCHANGED <<document, links, attached, wake, history>>
    PROVE  MailInv'
<1>1. /\ file' = file /\ item' = item /\ links' = links /\ attached' = attached
      /\ wake' = wake /\ handed' = handed /\ taken' = taken
    BY DEF document, history
<1>2. call \in [Session -> Calls \cup {NoCall}] BY DEF MailInv, TypeOK
<1>3. call'[s] = c /\ \A d \in Session : d # s => call'[d] = call[d]
    BY <1>2
<1>4. TypeOK'
    <2>1. call' \in [Session -> Calls \cup {NoCall}] BY <1>2
    <2>2. QED BY <1>1, <2>1 DEF MailInv, TypeOK
<1>5. WakeOnce' BY <1>1 DEF MailInv, WakeOnce
<1>6. OnFile'
    <2>1. file = "absent" =>
            \A d \in Session : call'[d] = NoCall
        BY <1>3 DEF MailInv, OnFile
    <2>2. QED BY <1>1, <2>1 DEF MailInv, OnFile, Sound, Agrees, Held
<1>9. ASSUME NEW d \in Session PROVE Mine(d)' /\ Landing(d)'
    <2>1. CASE d = s
        BY <1>1, <1>3, <2>1 DEF Mine, Landing, Undecided, Ready, Held, Beside, Claimed
    <2>2. CASE d # s
        <3>1. call'[d] = call[d] BY <1>3, <2>2
        <3>2. Mine(d) /\ Landing(d) BY DEF MailInv
        <3>3. Mine(d)' BY <3>1, <3>2 DEF Mine
        <3>4. ASSUME ~Undecided(d)
              PROVE  /\ Ready(claim, call[d].move, call[d].next)'
                     /\ Beside(call[d].move, call[d].next)'
            <4>1. Agrees(claim', call[d].next) BY <2>2, <3>4
            <4>2. Ready(claim, call[d].move, call[d].next) /\ Beside(call[d].move, call[d].next)
                BY <3>2, <3>4 DEF Landing
            <4>3. QED BY <1>1, <3>1, <4>1, <4>2 DEF Ready, Held, Agrees, Beside, Claimed
        <3>5. QED BY <3>1, <3>3, <3>4 DEF Landing, Undecided
    <2>3. QED BY <2>1, <2>2
<1>10. \A d \in Session : wake'[d].left = 0 => wake'[d] = Nothing BY <1>1 DEF MailInv
<1>11. QED BY <1>4, <1>5, <1>6, <1>9, <1>10 DEF MailInv

\* In particular when claims are only given up.
LEMMA FewerClaims ==
    ASSUME MailInv, claim' \in [Session -> Grasps],
           \A d \in Session : claim'[d] = claim[d] \/ claim'[d].left = 0
    PROVE  /\ OneWorker'
           /\ file = "live" => Agrees(claim', item)
           /\ \A d \in Session : ~Undecided(d) => Agrees(claim', call[d].next)
           /\ file = "absent" => \A d \in Session : claim'[d].left = 0
<1>1. \A d \in Session : claim'[d].left > 0 => claim'[d] = claim[d] OBVIOUS
<1>2. OneWorker' BY <1>1 DEF MailInv, OneWorker
<1>3. \A x : Agrees(claim, x) => Agrees(claim', x) BY <1>1 DEF Agrees
<1>4. QED BY <1>2, <1>3 DEF MailInv, OnFile, Landing, Ready

\* A repeated claim or renewal: the session learns what it holds already.
LEMMA RepeatsKeep ==
    ASSUME MailInv, NEW m \in Moves, Possible(m.session, m),
           NEW fresh \in Token, Moved(item, m, fresh) = item,
           Undecided(m.session), call' = [call EXCEPT ![m.session] = NoCall],
           Learns(m.session, m.verb, item),
           UNCHANGED <<document, links, attached, history>>
    PROVE  MailInv'
<1> DEFINE s == m.session
<1>1. /\ item \in Items /\ m.verb \in Verbs /\ s \in Session /\ file = "live"
      /\ claim \in [Session -> Grasps] /\ item.token \in Tokens /\ item.lease \in Times
    BY DEF MailInv, TypeOK, Moves, Items, Possible
<1>2. Permits(item, m) BY DEF Possible
<1>3. m.verb # "reserve"
    <2>1. SUFFICES ASSUME m.verb = "reserve" PROVE FALSE OBVIOUS
    <2>2. item.hold = 0
        BY <1>2, <2>1 DEF Permits, Settled, PermitsWake, PermitsWork, WakePending
    <2>3. item = [item EXCEPT !.waker = s, !.wakeToken = fresh, !.hold = Hold]
        BY <2>1, Zenon DEF Moved
    <2>4. item.hold = Hold BY <1>1, <2>3 DEF Items
    <2>5. QED BY <2>2, <2>4, TimesAssumption
<1>4. m.verb \notin {"accepted", "retry"}
    <2>1. SUFFICES ASSUME m.verb \in {"accepted", "retry"} PROVE FALSE OBVIOUS
    <2>2. item.hold > 0
        BY <1>2, <2>1 DEF Permits, Settled, PermitsWake, PermitsWork
    <2>3. item = [Unwake(item) EXCEPT !.accepted = (m.verb = "accepted")]
        BY <2>1, Zenon DEF Moved
    <2>4. item.hold = 0 BY <1>1, <2>3 DEF Items, Unwake
    <2>5. QED BY <2>2, <2>4
<1>5. wake' = wake BY <1>3, <1>4, Zenon DEF Learns
<1>6. NoCall \in Calls \cup {NoCall} OBVIOUS
<1>7. CASE m.verb \in {"claim", "renew"}
    <2>1. item.owner = s /\ item.lease > 0 /\ Claimed(item)
        <3>1. CASE m.verb = "renew"
            BY <1>2, <3>1 DEF Permits, Settled, PermitsWake, PermitsWork, Claimed
        <3>2. CASE m.verb = "claim" /\ Claimed(item) /\ item.owner = s
            BY <3>2 DEF Claimed
        <3>3. CASE m.verb = "claim" /\ ~(Claimed(item) /\ item.owner = s)
            <4>1. item = Taken(item, s, fresh) BY <3>3, Zenon DEF Moved
            <4>2. item.owner = s /\ item.lease = Lease BY <1>1, <4>1 DEF Items, Taken
            <4>3. QED BY <1>1, <4>2, NamesAssumption, TimesAssumption DEF Claimed
        <3>4. QED BY <1>7, <3>1, <3>2, <3>3
    <2>2. claim' = [claim EXCEPT ![s] = Grasp(item.token, item.lease)]
        BY <1>7, Zenon DEF Learns, Ends
    <2>3. Grasp(item.token, item.lease) \in Grasps
          /\ Grasp(item.token, item.lease).left = item.lease
        BY <1>1, GraspType
    <2>4. claim' \in [Session -> Grasps] /\ claim'[s].left = item.lease
          /\ \A c \in Session : c # s => claim'[c] = claim[c]
        BY <1>1, <2>2, <2>3
    <2>5. item.lease <= item.lease BY <1>1, TimesAssumption DEF Times
    <2>6. Agrees(claim', item)
        BY <1>1, <2>1, <2>4, <2>5 DEF MailInv, OnFile, Agrees
    <2>7. OneWorker' BY <2>6 DEF OneWorker, Agrees
    <2>8. ASSUME NEW d \in Session, d # s, ~Undecided(d)
          PROVE  Agrees(claim', call[d].next)
        <3>1. Agrees(claim, call[d].next) /\ Beside(call[d].move, call[d].next)
              /\ call[d].move.session = d
            BY <2>8 DEF MailInv, Landing, Ready, Mine, Undecided
        <3>2. call[d].next.owner = s /\ item.lease <= call[d].next.lease
            BY <1>1, <2>1, <2>8, <3>1 DEF Beside
        <3>3. QED BY <2>4, <3>1, <3>2 DEF Agrees
    <2>9. QED BY <1>1, <1>5, <1>6, <2>4, <2>6, <2>7, <2>8, CallsKeep
<1>8. CASE m.verb \notin {"claim", "renew"}
    <2>1. claim' = claim \/ claim' = [claim EXCEPT ![s] = Nothing]
        BY <1>8, Zenon DEF Learns
    <2>2. Nothing \in Grasps /\ Nothing.left = 0 BY <1>1, GraspType
    <2>3. /\ claim' \in [Session -> Grasps]
          /\ \A d \in Session : claim'[d] = claim[d] \/ claim'[d].left = 0
        BY <1>1, <2>1, <2>2
    <2>4. QED BY <1>1, <1>5, <1>6, <2>3, FewerClaims, CallsKeep
<1>9. QED BY <1>7, <1>8

-----------------------------------------------------------------------------
(* The actions.                                                            *)

\* Nothing a session decided may land while it views again.
LEMMA ViewsKeep ==
    ASSUME MailInv, NEW m \in Moves, NEW n \in 1..Attempts, Views(m.session, m, n),
           m.verb = "snooze" => m.occurrence < MaxOccurrence,
           file = "live" => Undecided(m.session), UNCHANGED <<links, attached>>
    PROVE  MailInv'
<1> DEFINE s == m.session
           fresh == Fresh(s, m.verb)
           next == Moved(item, m, fresh)
           cl == Stops(s, m.verb)
           c == [move |-> m, attempt |-> n, next |-> next]
<1>1. /\ s \in Session /\ item \in Items /\ claim \in [Session -> Grasps]
      /\ fresh \in Token
    BY FreshToken DEF MailInv, TypeOK, Moves
<1>2. /\ cl \in [Session -> Grasps]
      /\ \A d \in Session : cl[d] = claim[d] \/ (d = s /\ Ends(m.verb) /\ cl[d].left = 0)
    <2>1. Gone(claim[s]) \in Grasps /\ Gone(claim[s]).left = 0
        BY <1>1, TimesAssumption DEF Gone, Grasps, Times
    <2>2. \/ cl = [claim EXCEPT ![s] = Gone(claim[s])] /\ Ends(m.verb)
          \/ cl = claim
        BY DEF Stops
    <2>3. QED BY <1>1, <2>1, <2>2
<1>3. ASSUME Possible(s, m), next # item
      PROVE  Ready(cl, m, next) /\ Beside(m, next) /\ next \in Items
    <2>1. file = "live" BY <1>3 DEF Possible
    <2>2. Ready(cl, m, next) /\ Beside(m, next) BY <1>1, <1>3, <2>1, Decides
    <2>3. m.occurrence = item.occurrence BY <2>1, <2>2 DEF Beside
    <2>4. QED BY <1>1, <2>2, <2>3, MovedType
<1>4. ASSUME Possible(s, m), next # item, NEW heard \in BOOLEAN,
             Writes(s, m.verb, next, heard)
      PROVE  MailInv'
    BY <1>2, <1>3, <1>4, LandsKeeps
<1>5. ASSUME Possible(s, m), next # item, call' = [call EXCEPT ![s] = c], claim' = cl,
             UNCHANGED <<document, wake, history>>
      PROVE  MailInv'
    <2>1. c \in Calls BY <1>3, <1>5 DEF Calls
    <2>2. /\ OneWorker'
          /\ file = "live" => Agrees(claim', item)
          /\ \A d \in Session : ~Undecided(d) => Agrees(claim', call[d].next)
        BY <1>2, <1>5, FewerClaims
    <2>3. file # "absent" BY <1>5 DEF Possible
    <2>4. c.move = m /\ c.next = next OBVIOUS
    <2>5. QED BY <1>1, <1>2, <1>3, <1>5, <2>1, <2>2, <2>3, <2>4, CallsKeep
<1>6. ASSUME Possible(s, m), next = item, call' = [call EXCEPT ![s] = NoCall],
             Learns(s, m.verb, item), UNCHANGED <<document, history>>
      PROVE  MailInv'
    <2>1. Undecided(s) BY <1>6 DEF Possible
    <2>2. QED BY <1>1, <1>6, <2>1, RepeatsKeep
<1>7. ASSUME call' = [call EXCEPT ![s] = NoCall], UNCHANGED <<document, known, history>>
      PROVE  MailInv'
    <2>1. claim' = claim /\ wake' = wake BY <1>7 DEF known
    <2>2. /\ OneWorker'
          /\ file = "live" => Agrees(claim', item)
          /\ \A d \in Session : ~Undecided(d) => Agrees(claim', call[d].next)
          /\ file = "absent" => \A d \in Session : claim'[d].left = 0
        BY <1>1, <2>1, FewerClaims
    <2>3. QED BY <1>1, <1>7, <2>1, <2>2, CallsKeep
<1>8. QED BY <1>4, <1>5, <1>6, <1>7 DEF Views

LEMMA UpdateKeeps ==
    ASSUME MailInv, NEW s \in Session, NEW verb \in Verbs, NEW o \in 1..item.occurrence,
           NEW d \in Nat, Update(s, verb, o, d)
    PROVE  MailInv'
<1> DEFINE m == [verb |-> verb, session |-> s, occurrence |-> o, due |-> d,
                 token |-> IF verb \in {"accepted", "retry"}
                           THEN wake[s].token ELSE claim[s].token]
<1>1. item.occurrence \in 1..MaxOccurrence /\ claim[s].token \in Tokens /\ wake[s].token \in Tokens
    BY DEF MailInv, TypeOK, Items, Grasps
<1>2. m \in Moves /\ m.session = s /\ m.verb = verb /\ m.occurrence = o
    BY <1>1, TimesAssumption DEF Moves
<1>3. Undecided(s) /\ Views(s, m, 1) /\ UNCHANGED <<links, attached>>
      /\ (verb = "snooze" => o < MaxOccurrence)
    BY DEF Update, Undecided
<1>4. 1 \in 1..Attempts BY TimesAssumption
<1>5. QED BY <1>2, <1>3, <1>4, ViewsKeep

LEMMA PollKeeps ==
    ASSUME MailInv, NEW s \in Session, Poll(s) PROVE MailInv'
<1>1. item.occurrence \in 1..item.occurrence
    BY TimesAssumption DEF MailInv, TypeOK, Items
<1>2. QED BY <1>1, UpdateKeeps DEF Poll, Verbs

LEMMA ActKeeps ==
    ASSUME MailInv, NEW s \in Session, Act(s) PROVE MailInv'
<1>1. PICK verb \in Verbs, o \in 1..item.occurrence, d \in Delays : Update(s, verb, o, d)
    BY DEF Act
<1>2. d \in Nat BY TimesAssumption
<1>3. QED BY <1>1, <1>2, UpdateKeeps

LEMMA LandKeeps ==
    ASSUME MailInv, NEW s \in Session, NEW heard \in BOOLEAN, Land(s, heard) PROVE MailInv'
<1>1. call[s] # NoCall /\ call[s].next # Overtaken BY DEF Land, Open, Fenced
<1>2. call[s].move \in Moves /\ call[s].next \in Items /\ call[s].move.session = s
    BY <1>1 DEF MailInv, TypeOK, Calls, Mine
<1>3. Ready(claim, call[s].move, call[s].next)
    BY <1>1 DEF MailInv, Landing, Undecided
<1>4. claim \in [Session -> Grasps] BY DEF MailInv, TypeOK
<1>5. Writes(s, call[s].move.verb, call[s].next, heard) /\ UNCHANGED <<links, attached>>
    BY DEF Land
<1>6. QED BY <1>2, <1>3, <1>4, <1>5, LandsKeeps

LEMMA ConflictKeeps ==
    ASSUME MailInv, NEW s \in Session, Conflict(s) PROVE MailInv'
<1>1. call[s] # NoCall /\ ~Fenced(s) /\ UNCHANGED <<links, attached>>
    BY DEF Conflict, Open
<1>2. call[s] \in Calls BY <1>1 DEF MailInv, TypeOK
<1>3. CASE call[s].attempt < Attempts /\ Views(s, call[s].move, call[s].attempt + 1)
    <2>1. call[s].move \in Moves /\ call[s].attempt + 1 \in 1..Attempts
        BY <1>2, <1>3, TimesAssumption DEF Calls
    <2>2. Mine(s) BY DEF MailInv
    <2>3. file = "live" => Undecided(s) BY <1>1 DEF Fenced, Undecided
    <2>4. QED BY <1>1, <1>3, <2>1, <2>2, <2>3, ViewsKeep DEF Mine
<1>4. CASE call' = [call EXCEPT ![s] = NoCall] /\ UNCHANGED <<document, known, history>>
    <2>1. claim' = claim /\ wake' = wake BY <1>4 DEF known
    <2>2. claim \in [Session -> Grasps] BY DEF MailInv, TypeOK
    <2>3. /\ OneWorker'
          /\ file = "live" => Agrees(claim', item)
          /\ \A d \in Session : ~Undecided(d) => Agrees(claim', call[d].next)
          /\ file = "absent" => \A d \in Session : claim'[d].left = 0
        BY <2>1, <2>2, FewerClaims
    <2>4. QED BY <1>1, <1>4, <2>1, <2>2, <2>3, CallsKeep
<1>5. QED BY <1>3, <1>4 DEF Conflict

LEMMA StopKeeps ==
    ASSUME MailInv, NEW s \in Session, Stop(s) PROVE MailInv'
<1>1. /\ file' = file /\ item' = item /\ links' = links /\ handed' = handed /\ taken' = taken
      /\ attached' = attached \ {s}
      /\ call' = [call EXCEPT ![s] = NoCall]
      /\ claim' = [claim EXCEPT ![s] = Nothing] /\ wake' = [wake EXCEPT ![s] = Nothing]
    BY DEF Stop, document, history
<1>2. TypeOK BY DEF MailInv
<1>3. Nothing \in Grasps /\ Nothing.left = 0
    BY TimesAssumption DEF Nothing, Grasps, Tokens, Times
<1>4. /\ call'[s] = NoCall /\ claim'[s] = Nothing /\ wake'[s] = Nothing
      /\ \A d \in Session : d # s =>
            call'[d] = call[d] /\ claim'[d] = claim[d] /\ wake'[d] = wake[d]
    BY <1>1, <1>2 DEF TypeOK
<1>5. TypeOK' BY <1>1, <1>2, <1>3 DEF TypeOK
<1>6. \A d \in Session : claim'[d].left > 0 => claim'[d] = claim[d]
    BY <1>3, <1>4
<1>7. OneWorker' BY <1>6 DEF MailInv, OneWorker
<1>8. WakeOnce' BY <1>1 DEF MailInv, WakeOnce
<1>9. \A x : Agrees(claim, x) => Agrees(claim', x) BY <1>6 DEF Agrees
<1>10. ASSUME NEW x \in Items, Held(x)
       PROVE  \A d \in handed' : x.waker = d /\ x.hold > 0 /\ wake'[d].left <= x.hold
    <2>1. x.hold \in Nat BY <1>10, TimesAssumption DEF Items
    <2>2. QED BY <1>1, <1>2, <1>3, <1>4, <1>10, <2>1 DEF Held, TypeOK
<1>11. OnFile'
    <2>1. file = "live" => Agrees(claim', item) BY <1>9 DEF MailInv, OnFile
    <2>2. file = "live" => \A d \in handed' : /\ item.waker = d /\ item.hold > 0
                                              /\ wake'[d].left <= item.hold
        BY <1>2, <1>10 DEF MailInv, OnFile, TypeOK
    <2>3. QED BY <1>1, <1>3, <1>4, <2>1, <2>2 DEF MailInv, OnFile, Sound, Agrees, Held
<1>12. ASSUME NEW d \in Session
       PROVE  Mine(d)' /\ Landing(d)' /\ (wake'[d].left = 0 => wake'[d] = Nothing)
    <2>1. CASE d = s BY <1>4, <2>1 DEF Mine, Landing, Undecided
    <2>2. CASE d # s
        <3>1. call'[d] = call[d] /\ wake'[d] = wake[d] BY <1>4, <2>2
        <3>2. Mine(d) /\ Landing(d) /\ (wake[d].left = 0 => wake[d] = Nothing) BY DEF MailInv
        <3>3. ASSUME ~Undecided(d)
              PROVE  /\ Ready(claim, call[d].move, call[d].next)'
                     /\ Beside(call[d].move, call[d].next)'
            <4>1. Ready(claim, call[d].move, call[d].next) /\ Beside(call[d].move, call[d].next)
                BY <3>2, <3>3 DEF Landing
            <4>2. call[d].next \in Items BY <1>2, <3>3 DEF TypeOK, Calls, Undecided
            <4>3. Agrees(claim', call[d].next) BY <1>9, <4>1 DEF Ready
            <4>4. Held(call[d].next) => Held(call[d].next)'
                BY <1>10, <3>1, <4>2 DEF Held
            <4>5. QED BY <1>1, <3>1, <4>1, <4>3, <4>4 DEF Ready, Agrees, Beside, Claimed
        <3>4. QED BY <3>1, <3>2, <3>3 DEF Mine, Landing, Undecided
    <2>3. QED BY <2>1, <2>2
<1>13. QED BY <1>5, <1>7, <1>8, <1>11, <1>12 DEF MailInv

LEMMA OlderType ==
    ASSUME NEW x \in Items
    PROVE  /\ Older(x) \in Items
           /\ Older(x).due = Less(x.due) /\ Older(x).lease = Less(x.lease)
           /\ Older(x).hold = Less(x.hold) /\ Older(x).status = x.status
           /\ Older(x).occurrence = x.occurrence /\ Older(x).read = x.read
           /\ Older(x).owner = x.owner /\ Older(x).waker = x.waker
           /\ Older(x).accepted = x.accepted
<1>1. x.due \in Nat /\ x.lease \in 0..Lease /\ x.hold \in 0..Hold BY DEF Items, Times
<1>2. Less(x.due) \in Nat /\ Less(x.lease) \in 0..Lease /\ Less(x.hold) \in 0..Hold
    BY <1>1, TimesAssumption DEF Less
<1>3. QED BY <1>2 DEF Older, Items, Times

LEMMA BlankType == Blank \in Items /\ Blank.status = "open" /\ Older(Blank) = Blank
<1>1. Blank \in Items /\ Blank.status = "open"
    BY TimesAssumption DEF Blank, Items, Recipients, Tokens, Times
<1>2. Blank.due = 0 /\ Blank.lease = 0 /\ Blank.hold = 0 BY DEF Blank
<1>3. [Blank EXCEPT !.due = 0] = Blank /\ [Blank EXCEPT !.lease = 0] = Blank
      /\ [Blank EXCEPT !.hold = 0] = Blank
    BY <1>1, <1>2 DEF Items
<1>4. Older(Blank) = [[[Blank EXCEPT !.due = 0] EXCEPT !.lease = 0] EXCEPT !.hold = 0]
    BY <1>1, <1>2 DEF Older, Less, Items
<1>5. QED BY <1>1, <1>3, <1>4, Zenon

LEMMA SendKeeps ==
    ASSUME MailInv, NEW letter \in Letters, NEW d \in Delays, Send(letter, d) PROVE MailInv'
<1>1. /\ file = "absent" /\ file' = "live" /\ links' = links /\ attached' = attached
      /\ call' = call /\ claim' = claim /\ wake' = wake /\ handed' = handed /\ taken' = taken
      /\ item' = [Blank EXCEPT !.to = letter.to, !.from = letter.from,
                               !.delivery = letter.delivery, !.due = d,
                               !.actionable = letter.actionable \/ d > 0]
    BY DEF Send, known, history
<1>2. /\ letter.to \in Recipients /\ letter.from \in Recipients
      /\ letter.delivery \in {"next_activity", "wake"} /\ d \in Nat
    BY LettersAssumption, TimesAssumption
<1>3. item' \in Items /\ item'.owner = Nobody /\ ~item'.accepted
    BY <1>1, <1>2, BlankType DEF Items, Blank
<1>4. TypeOK' BY <1>1, <1>3 DEF MailInv, TypeOK
<1>5. /\ \A s \in Session : call[s] = NoCall /\ claim[s].left = 0
      /\ handed = {} /\ ~taken
    BY <1>1 DEF MailInv, OnFile
<1>6. OneWorker' /\ WakeOnce' BY <1>1, <1>5 DEF OneWorker, WakeOnce
<1>7. OnFile' BY <1>1, <1>3, <1>5 DEF OnFile, Sound, Agrees, Held
<1>8. \A s \in Session :
        Mine(s)' /\ Landing(s)' /\ (wake'[s].left = 0 => wake'[s] = Nothing)
    BY <1>1, <1>5 DEF MailInv, Mine, Landing, Undecided
<1>9. QED BY <1>4, <1>6, <1>7, <1>8 DEF MailInv

LEMMA EraseKeeps ==
    ASSUME MailInv, Erase PROVE MailInv'
<1>1. /\ file' \in {"redacted", "deleted"} /\ item' = Blank
      /\ links' = links /\ attached' = attached /\ call' = call
      /\ claim' = claim /\ wake' = wake /\ handed' = handed /\ taken' = taken
    BY DEF Erase, known, history
<1>2. TypeOK' BY <1>1, BlankType DEF MailInv, TypeOK
<1>3. OneWorker' /\ WakeOnce' BY <1>1 DEF MailInv, OneWorker, WakeOnce
<1>4. OnFile' BY <1>1 DEF OnFile
<1>5. \A s \in Session :
        Mine(s)' /\ Landing(s)' /\ (wake'[s].left = 0 => wake'[s] = Nothing)
    BY <1>1 DEF MailInv, Mine, Landing, Undecided, Ready, Agrees, Held, Beside
<1>6. QED BY <1>2, <1>3, <1>4, <1>5 DEF MailInv

LEMMA NoteContinuationKeeps ==
    ASSUME MailInv, NEW s \in Session, NEW parent \in Session, NoteContinuation(s, parent)
    PROVE  MailInv'
<1>1. /\ file' = file /\ item' = item /\ attached' = attached /\ call' = call
      /\ claim' = claim /\ wake' = wake /\ handed' = handed /\ taken' = taken
      /\ links' = links \cup {<<s, parent>>}
    BY DEF NoteContinuation, document, known, history
<1>2. TypeOK' BY <1>1 DEF MailInv, TypeOK
<1>3. OneWorker' /\ WakeOnce' /\ OnFile'
    BY <1>1 DEF MailInv, OneWorker, WakeOnce, OnFile, Sound, Agrees, Held
<1>4. \A c \in Session :
        Mine(c)' /\ Landing(c)' /\ (wake'[c].left = 0 => wake'[c] = Nothing)
    BY <1>1 DEF MailInv, Mine, Landing, Undecided, Ready, Agrees, Held, Beside, Claimed
<1>5. QED BY <1>2, <1>3, <1>4 DEF MailInv

LEMMA WaningType ==
    ASSUME NEW g \in Grasps
    PROVE  /\ Waning(g) \in Grasps /\ Waning(g).left = Less(g.left)
           /\ (g.left = 0 => g = Nothing) => (Waning(g).left = 0 => Waning(g) = Nothing)
<1>1. g.left \in 0..Lease /\ Less(g.left) \in 0..Lease
    BY TimesAssumption DEF Grasps, Times, Less
<1>2. Nothing \in Grasps /\ Nothing.left = 0
    BY TimesAssumption DEF Nothing, Grasps, Tokens, Times
<1>3. [g EXCEPT !.left = Less(@)] \in Grasps /\ [g EXCEPT !.left = Less(@)].left = Less(g.left)
    BY <1>1 DEF Grasps, Times
<1>4. CASE g.left = 1 BY <1>1, <1>2, <1>4 DEF Waning, Less
<1>5. CASE g.left # 1
    <2>1. Waning(g) = [g EXCEPT !.left = Less(@)] BY <1>5 DEF Waning
    <2>2. Less(g.left) = 0 => g.left = 0 BY <1>1, <1>5 DEF Less
    <2>3. g = Nothing => [g EXCEPT !.left = Less(@)] = Nothing
        BY DEF Nothing, Less
    <2>4. QED BY <1>3, <2>1, <2>2, <2>3
<1>6. QED BY <1>4, <1>5

\* An update ages with what it would write.
LEMMA AgedCall ==
    ASSUME TypeOK, Tick, NEW s \in Session, call[s] # NoCall
    PROVE  /\ call'[s] \in Calls /\ call'[s] # NoCall
           /\ call'[s].move.session = call[s].move.session
           /\ call'[s].move.verb = call[s].move.verb
           /\ call'[s].move.occurrence = call[s].move.occurrence
           /\ call'[s].next = IF call[s].next = Overtaken THEN Overtaken
                              ELSE Older(call[s].next)
<1> DEFINE c == call[s]
           next == IF c.next = Overtaken THEN c.next ELSE Older(c.next)
           moved == [c EXCEPT !.move.due = Less(@)]
<1>1. c \in Calls BY DEF TypeOK
<1>2. c.move \in Moves /\ c.attempt \in 1..Attempts /\ c.next \in Items \cup {Overtaken}
    BY <1>1 DEF Calls
<1>3. next \in Items \cup {Overtaken} BY <1>2, OlderType
<1>4. Less(c.move.due) \in Nat BY <1>2 DEF Moves, Less
<1>5. [c.move EXCEPT !.due = Less(@)] \in Moves
      /\ [c.move EXCEPT !.due = Less(@)].session = c.move.session
      /\ [c.move EXCEPT !.due = Less(@)].verb = c.move.verb
      /\ [c.move EXCEPT !.due = Less(@)].occurrence = c.move.occurrence
    BY <1>2, <1>4 DEF Moves
<1>6. call'[s] = [c EXCEPT !.move.due = Less(@),
                          !.next = IF @ = Overtaken THEN @ ELSE Older(@)]
    BY DEF Tick
<1>7. call'[s] = [c EXCEPT !.move = [c.move EXCEPT !.due = Less(@)], !.next = next]
    BY <1>1, <1>6 DEF Calls
<1>8. call'[s] \in Calls /\ call'[s].attempt = c.attempt /\ call'[s].next = next
      /\ call'[s].move = [c.move EXCEPT !.due = Less(@)]
    BY <1>1, <1>3, <1>5, <1>7 DEF Calls
<1>9. call'[s] # NoCall
    <2>1. NoCall.attempt \notin 1..Attempts BY DEF NoCall
    <2>2. QED BY <1>2, <1>8, <2>1
<1>10. QED BY <1>5, <1>8, <1>9

LEMMA TickKeeps ==
    ASSUME MailInv, Tick PROVE MailInv'
<1>1. /\ file' = file /\ links' = links /\ attached' = attached /\ taken' = taken
      /\ item' = Older(item)
      /\ claim' = [s \in Session |-> Waning(claim[s])]
      /\ wake' = [s \in Session |-> Waning(wake[s])]
      /\ handed' = {s \in handed : wake'[s] # Nothing}
      /\ DOMAIN call' = Session /\ call' = [s \in Session |-> call'[s]]
      /\ \A s \in Session : call[s] = NoCall => call'[s] = NoCall
    BY DEF Tick
<1>2. TypeOK BY DEF MailInv
<1>3. \A s \in Session :
        /\ claim[s] \in Grasps /\ wake[s] \in Grasps
        /\ claim'[s] \in Grasps /\ claim'[s].left = Less(claim[s].left)
        /\ wake'[s] \in Grasps /\ wake'[s].left = Less(wake[s].left)
        /\ wake'[s].left = 0 => wake'[s] = Nothing
    BY <1>1, <1>2, WaningType DEF TypeOK, MailInv
<1>4. \A s \in Session : claim[s].left \in Nat /\ wake[s].left \in Nat
    BY <1>3, TimesAssumption DEF Grasps, Times
<1>5. item \in Items BY <1>2 DEF TypeOK
<1>6. ASSUME NEW s \in handed'
      PROVE  s \in handed /\ s \in Session /\ wake'[s].left = wake[s].left - 1 /\ wake[s].left >= 2
    <2>1. s \in handed /\ s \in Session /\ wake'[s] # Nothing
        BY <1>1, <1>2, <1>6 DEF TypeOK
    <2>2. wake'[s].left # 0 BY <1>3, <2>1
    <2>3. QED BY <1>3, <1>4, <2>1, <2>2 DEF Less
<1>7. ASSUME NEW x \in Items
      PROVE  /\ Sound(x) => Sound(Older(x))
             /\ Agrees(claim, x) => Agrees(claim', Older(x))
             /\ Held(x) => \A s \in handed' : /\ Older(x).waker = s /\ Older(x).hold > 0
                                              /\ wake'[s].left <= Older(x).hold
    <2>1. x.lease \in Nat /\ x.hold \in Nat BY TimesAssumption DEF Items, Times
    <2>2. Sound(x) => Sound(Older(x)) BY <2>1, OlderType DEF Sound, Less
    <2>3. ASSUME Agrees(claim, x) PROVE Agrees(claim', Older(x))
        <3>1. SUFFICES ASSUME NEW s \in Session, claim'[s].left > 0
                       PROVE  Older(x).owner = s /\ claim'[s].left <= Older(x).lease
            BY DEF Agrees
        <3>2. claim[s].left > 0 /\ claim'[s].left = claim[s].left - 1
            BY <1>3, <1>4, <3>1 DEF Less
        <3>3. x.owner = s /\ claim[s].left <= x.lease BY <2>3, <3>2 DEF Agrees
        <3>4. Older(x).lease = x.lease - 1 /\ Older(x).owner = x.owner
            BY <1>4, <2>1, <3>2, <3>3, OlderType DEF Less
        <3>5. QED BY <1>4, <2>1, <3>2, <3>3, <3>4
    <2>4. ASSUME Held(x), NEW s \in handed'
          PROVE  Older(x).waker = s /\ Older(x).hold > 0 /\ wake'[s].left <= Older(x).hold
        <3>1. s \in Session /\ wake[s].left >= 2 /\ wake'[s].left = wake[s].left - 1
              /\ x.waker = s /\ wake[s].left <= x.hold
            BY <1>6, <2>4 DEF Held
        <3>2. Older(x).hold = x.hold - 1 /\ Older(x).waker = x.waker
            BY <1>4, <2>1, <3>1, OlderType DEF Less
        <3>3. QED BY <1>4, <2>1, <3>1, <3>2
    <2>5. QED BY <2>2, <2>3, <2>4
<1>8. TypeOK'
    <2>1. \A s \in Session : call'[s] \in Calls \cup {NoCall}
        BY <1>1, <1>2, AgedCall
    <2>2. call' \in [Session -> Calls \cup {NoCall}] BY <1>1, <2>1
    <2>3. claim' \in [Session -> Grasps] /\ wake' \in [Session -> Grasps] BY <1>1, <1>3
    <2>4. handed' \subseteq Session BY <1>1, <1>2 DEF TypeOK
    <2>5. item' \in Items BY <1>1, <1>5, OlderType
    <2>6. QED BY <1>1, <1>2, <2>2, <2>3, <2>4, <2>5 DEF TypeOK
<1>9. OneWorker'
    <2>1. \A s \in Session : claim'[s].left > 0 => claim[s].left > 0
        BY <1>3, <1>4 DEF Less
    <2>2. QED BY <2>1 DEF MailInv, OneWorker
<1>10. WakeOnce'
    <2>1. item'.accepted = item.accepted BY <1>1, <1>5, OlderType
    <2>2. QED BY <1>1, <2>1 DEF MailInv, WakeOnce
<1>11. OnFile'
    <2>1. file = "live" => Sound(item') /\ Agrees(claim', item')
                           /\ \A s \in handed' : /\ item'.waker = s /\ item'.hold > 0
                                                 /\ wake'[s].left <= item'.hold
        BY <1>1, <1>5, <1>7 DEF MailInv, OnFile
    <2>2. file # "live" => item' = Blank BY <1>1, BlankType DEF MailInv, OnFile
    <2>3. file = "absent" => /\ \A s \in Session : call'[s] = NoCall /\ claim'[s].left = 0
                             /\ handed' = {} /\ ~taken'
        BY <1>1, <1>3 DEF MailInv, OnFile, Less
    <2>4. QED BY <1>1, <2>1, <2>2, <2>3 DEF OnFile, Sound, Agrees, Held
<1>12. ASSUME NEW s \in Session
       PROVE  Mine(s)' /\ Landing(s)' /\ (wake'[s].left = 0 => wake'[s] = Nothing)
    <2> DEFINE m == call[s].move
               x == call[s].next
    <2>1. CASE call[s] = NoCall BY <1>1, <1>3, <2>1 DEF Mine, Landing, Undecided
    <2>2. CASE call[s] # NoCall
        <3>1. /\ call'[s].move.session = m.session /\ call'[s].move.verb = m.verb
              /\ call'[s].move.occurrence = m.occurrence
              /\ call'[s].next = IF x = Overtaken THEN Overtaken ELSE Older(x)
            BY <1>2, <2>2, AgedCall
        <3>2. Mine(s)' BY <2>2, <3>1 DEF MailInv, Mine
        <3>3. CASE x = Overtaken BY <1>3, <3>1, <3>2, <3>3 DEF Landing, Undecided
        <3>4. CASE x # Overtaken
            <4>1. x \in Items BY <1>2, <2>2, <3>4 DEF TypeOK, Calls
            <4>2. Ready(claim, m, x) /\ Beside(m, x)
                BY <2>2, <3>4 DEF MailInv, Landing, Undecided
            <4>3. call'[s].next = Older(x) BY <3>1, <3>4
            <4>4. /\ Older(x).owner = x.owner /\ Older(x).waker = x.waker
                  /\ Older(x).accepted = x.accepted
                  /\ Older(x).hold = Less(x.hold) /\ Older(x).lease = Less(x.lease)
                BY <4>1, OlderType
            <4>5. handed' \subseteq handed BY <1>1
            <4>6. m.verb = "reserve" => Older(x).hold > 0
                <5>1. m.verb = "reserve" => x.hold > 1
                    BY <2>2, <3>4 DEF Tick, Prompt, Open
                <5>2. x.hold \in Nat BY <4>1, TimesAssumption DEF Items
                <5>3. QED BY <4>4, <5>1, <5>2 DEF Less
            <4>8. /\ Sound(Older(x)) /\ Agrees(claim', Older(x))
                  /\ Held(x) => \A c \in handed' : /\ Older(x).waker = c /\ Older(x).hold > 0
                                                   /\ wake'[c].left <= Older(x).hold
                BY <1>7, <4>1, <4>2 DEF Ready
            <4>9. Ready(claim, call[s].move, call[s].next)'
                <5>1. Sound(call'[s].next) /\ Agrees(claim', call'[s].next)
                    BY <4>3, <4>8
                <5>2. /\ m.verb \in {"claim", "renew"} => Older(x).owner = m.session
                      /\ m.verb = "reserve" => /\ handed' = {} /\ ~taken'
                                               /\ Older(x).waker = m.session /\ Older(x).hold > 0
                      /\ m.verb \in {"accepted", "retry"} => handed' \subseteq {m.session}
                      /\ m.verb = "accepted" => Older(x).accepted
                      /\ m.verb = "retry" => ~taken'
                    BY <1>1, <4>2, <4>4, <4>5, <4>6 DEF Ready
                <5>3. ~Wakes(m.verb) /\ ~Reopens(m.verb) =>
                        /\ \A c \in handed' : /\ Older(x).waker = c /\ Older(x).hold > 0
                                             /\ wake'[c].left <= Older(x).hold
                        /\ taken' => Older(x).accepted
                    BY <1>1, <4>2, <4>4, <4>8 DEF Ready
                <5>4. Sound(call[s].next)' /\ Agrees(claim, call[s].next)'
                    BY <5>1 DEF Sound, Agrees
                <5>5. QED BY <3>1, <4>3, <5>2, <5>3, <5>4 DEF Ready, Held, Wakes, Reopens
            <4>10. Beside(call[s].move, call[s].next)'
                <5>1. SUFFICES ASSUME file = "live"
                               PROVE  /\ item'.status = "open" /\ m.occurrence = item'.occurrence
                                      /\ Claimed(item') =>
                                            \/ Ends(m.verb) /\ item'.owner = m.session
                                            \/ Older(x).owner = item'.owner /\ item'.lease <= Older(x).lease
                    BY <1>1, <3>1, <4>3 DEF Beside, Claimed
                <5>2. /\ item'.status = item.status /\ item'.occurrence = item.occurrence
                      /\ item'.owner = item.owner /\ item'.lease = Less(item.lease)
                    BY <1>1, <1>5, OlderType
                <5>3. item.lease \in Nat /\ x.lease \in Nat
                    BY <1>5, <4>1, TimesAssumption DEF Items, Times
                <5>4. Claimed(item') => Claimed(item) BY <5>2, <5>3 DEF Claimed, Less
                <5>5. item.lease <= x.lease => Less(item.lease) <= Less(x.lease)
                    BY <5>3 DEF Less
                <5>6. QED BY <4>2, <4>4, <5>1, <5>2, <5>4, <5>5 DEF Beside
            <4>11. QED BY <1>3, <3>2, <4>9, <4>10 DEF Landing
        <3>5. QED BY <3>3, <3>4
    <2>3. QED BY <2>1, <2>2
<1>13. QED BY <1>8, <1>9, <1>10, <1>11, <1>12 DEF MailInv

-----------------------------------------------------------------------------
(* The theorems.                                                           *)

LEMMA InitHolds == Init => MailInv
<1> SUFFICES ASSUME Init PROVE MailInv OBVIOUS
<1>1. Nothing \in Grasps /\ Nothing.left = 0
    BY TimesAssumption DEF Nothing, Grasps, Tokens, Times
<1>2. TypeOK BY <1>1, BlankType DEF Init, TypeOK
<1>3. \A s \in Session : call[s] = NoCall /\ claim[s] = Nothing /\ wake[s] = Nothing
    BY DEF Init
<1>4. OneWorker /\ WakeOnce /\ OnFile
    BY <1>1, <1>3 DEF Init, OneWorker, WakeOnce, OnFile
<1>5. QED BY <1>2, <1>3, <1>4 DEF MailInv, Mine, Landing, Undecided

LEMMA StepKeeps == MailInv /\ [Next]_vars => MailInv'
<1> SUFFICES ASSUME MailInv, [Next]_vars PROVE MailInv' OBVIOUS
<1>1. ASSUME NEW letter \in Letters, NEW d \in Delays, Send(letter, d) PROVE MailInv'
    BY <1>1, SendKeeps
<1>2. ASSUME NEW s \in Session, NEW parent \in Session, NoteContinuation(s, parent)
      PROVE  MailInv'
    BY <1>2, NoteContinuationKeeps
<1>3. ASSUME NEW s \in Session, Poll(s) \/ Act(s) \/ Conflict(s) \/ Stop(s) PROVE MailInv'
    BY <1>3, PollKeeps, ActKeeps, ConflictKeeps, StopKeeps
<1>4. ASSUME NEW s \in Session, NEW heard \in BOOLEAN, Land(s, heard) PROVE MailInv'
    BY <1>4, LandKeeps
<1>5. CASE Erase BY <1>5, EraseKeeps
<1>6. CASE Tick BY <1>6, TickKeeps
<1>7. CASE UNCHANGED vars
    <2>1. /\ file' = file /\ item' = item /\ links' = links /\ attached' = attached
          /\ call' = call /\ claim' = claim /\ wake' = wake
          /\ handed' = handed /\ taken' = taken
        BY <1>7 DEF vars, document, known, history
    <2>2. QED
        BY <2>1 DEF MailInv, TypeOK, OneWorker, WakeOnce, OnFile, Sound, Agrees, Held,
                    Mine, Landing, Undecided, Ready, Beside, Claimed
<1>8. QED BY <1>1, <1>2, <1>3, <1>4, <1>5, <1>6, <1>7 DEF Next

LEMMA Invariant == Spec => []MailInv
<1>1. Init => MailInv BY InitHolds
<1>2. MailInv /\ [Next]_vars => MailInv' BY StepKeeps
<1>3. QED BY <1>1, <1>2, PTL DEF Spec

\* A message has one worker at a time and a wake one receiver, for any number
\* of sessions, however late their updates land and whichever replies are lost
\* (transitions.rs, record/mailbox.rs).
THEOREM OneAtATime == Spec => []OneEach
<1>1. MailInv => OneEach BY DEF MailInv, OneEach
<1>2. QED BY <1>1, Invariant, PTL

\* A view that finds a permitted move that changes the message finds it open.
LEMMA ViewsOpen ==
    ASSUME MailInv, NEW m \in Moves, NEW n, Views(m.session, m, n), item' # item
    PROVE  item.status = "open"
<1> DEFINE fresh == Fresh(m.session, m.verb)
<1>1. m.session \in Session BY DEF Moves
<1>2. fresh \in Token BY <1>1, FreshToken DEF MailInv
<1>3. Possible(m.session, m) /\ Moved(item, m, fresh) # item
    <2>1. ~UNCHANGED document BY DEF document
    <2>2. QED BY <2>1 DEF Views
<1>4. file = "live" BY <1>3 DEF Possible
<1>5. QED BY <1>2, <1>3, <1>4, Decides DEF Beside

LEMMA UpdateOpen ==
    ASSUME MailInv, NEW s \in Session, NEW verb \in Verbs, NEW o \in 1..item.occurrence,
           NEW d \in Nat, Update(s, verb, o, d), item' # item
    PROVE  item.status = "open"
<1> DEFINE m == [verb |-> verb, session |-> s, occurrence |-> o, due |-> d,
                 token |-> IF verb \in {"accepted", "retry"}
                           THEN wake[s].token ELSE claim[s].token]
<1>1. item.occurrence \in 1..MaxOccurrence /\ claim[s].token \in Tokens /\ wake[s].token \in Tokens
    BY DEF MailInv, TypeOK, Items, Grasps
<1>2. m \in Moves /\ m.session = s BY <1>1, TimesAssumption DEF Moves
<1>3. Views(s, m, 1) BY DEF Update
<1>4. QED BY <1>2, <1>3, ViewsOpen

LEMMA SettledStep ==
    ASSUME MailInv, [Next]_vars, item.status # "open", file' = file
    PROVE  item' \in {item, Older(item)}
<1>1. ASSUME NEW s \in Session, Poll(s) PROVE item' = item
    <2>1. item.occurrence \in 1..item.occurrence
        BY TimesAssumption DEF MailInv, TypeOK, Items
    <2>2. QED BY <1>1, <2>1, UpdateOpen DEF Poll, Verbs
<1>2. ASSUME NEW s \in Session, Act(s) PROVE item' = item
    <2>1. PICK verb \in Verbs, o \in 1..item.occurrence, d \in Delays : Update(s, verb, o, d)
        BY <1>2 DEF Act
    <2>2. d \in Nat BY TimesAssumption
    <2>3. QED BY <2>1, <2>2, UpdateOpen
<1>3. ASSUME NEW s \in Session, Conflict(s) PROVE item' = item
    <2>1. call[s] \in Calls /\ call[s].move \in Moves /\ call[s].move.session = s
        BY <1>3 DEF Conflict, Open, MailInv, TypeOK, Calls, Mine
    <2>2. CASE Views(s, call[s].move, call[s].attempt + 1) BY <2>1, <2>2, ViewsOpen
    <2>3. CASE UNCHANGED document BY <2>3 DEF document
    <2>4. QED BY <1>3, <2>2, <2>3 DEF Conflict
<1>4. ASSUME NEW s \in Session, NEW heard \in BOOLEAN, Land(s, heard) PROVE FALSE
    <2>1. ~Undecided(s) /\ file' = "live" BY <1>4 DEF Land, Open, Fenced, Undecided, Writes
    <2>2. QED BY <2>1 DEF MailInv, Landing, Beside
<1>5. ASSUME NEW letter, NEW d, Send(letter, d) PROVE FALSE BY <1>5 DEF Send
<1>6. ASSUME Erase PROVE FALSE BY <1>6 DEF Erase
<1>7. ASSUME Tick PROVE item' = Older(item) BY <1>7 DEF Tick
<1>8. ASSUME NEW s, NEW parent, NoteContinuation(s, parent) \/ Stop(s) PROVE item' = item
    BY <1>8 DEF NoteContinuation, Stop, document
<1>9. CASE UNCHANGED vars BY <1>9 DEF vars, document
<1>10. QED BY <1>1, <1>2, <1>3, <1>4, <1>5, <1>6, <1>7, <1>8, <1>9 DEF Next

LEMMA OccurrenceStep ==
    ASSUME MailInv, MailInv', NEW s \in Session, call[s] # NoCall, item' = call[s].next,
           file = "live"
    PROVE  call[s].move.occurrence = item.occurrence
<1>1. item' # Overtaken
    <2>1. item' \in Items BY DEF MailInv, TypeOK
    <2>2. item'.status # "overtaken" BY <2>1 DEF Items
    <2>3. Overtaken.status = "overtaken" BY DEF Overtaken
    <2>4. QED BY <2>2, <2>3
<1>2. ~Undecided(s) BY <1>1 DEF Undecided
<1>3. QED BY <1>2 DEF MailInv, Landing, Beside

\* A move lands only on the open message and the occurrence it was decided
\* for, however many writes came between its view and its write (writes.rs).
THEOREM MovesAreFenced == Spec => MovesFenced
<1>1. MailInv /\ [Next]_vars =>
        [item.status # "open" /\ file' = file => item' \in {item, Older(item)}]_item
    BY SettledStep
<1>2. MailInv /\ MailInv' =>
        \A s \in Session :
            call[s] # NoCall /\ call'[s] = NoCall /\ item' = call[s].next
                /\ item' # item /\ file = "live" =>
            call[s].move.occurrence = item.occurrence
    BY OccurrenceStep
<1>3. Spec => SettledStays BY <1>1, Invariant, PTL DEF Spec, SettledStays
<1>4. Spec => OccurrenceFenced BY <1>2, Invariant, PTL DEF OccurrenceFenced
<1>5. QED BY <1>3, <1>4 DEF MovesFenced

(***************************************************************************)
(* Counting through the steps of a run.                                    *)
(***************************************************************************)
\* What holds of zero and passes from each number to the next holds of all.
LEMMA Induction ==
  ASSUME NEW S, 0 \in S, \A n \in Nat : n \in S => n + 1 \in S
  PROVE  \A n \in Nat : n \in S
<1> DEFINE R == Nat \ S
<1>1. SUFFICES ASSUME R # {} PROVE FALSE OBVIOUS
<1>2. PICK m \in R : \A k \in R : ~(<<k, m>> \in OpToRel(<, Nat))
  BY <1>1, WFMin, NatLessThanWellFounded
<1>3. m \in Nat /\ m # 0 OBVIOUS
<1>4. m - 1 \in Nat /\ m - 1 < m BY <1>3
<1>5. m - 1 \notin R BY <1>2, <1>3, <1>4 DEF OpToRel
<1> QED BY <1>3, <1>4, <1>5

\* A function that starts at start and takes each value from the one before.
RunOf(f, last, T, start, step) ==
    f \in [0..last -> T] /\ f[0] = start /\ \A k \in 1..last : f[k] = step[f[k - 1]][k]
\* Such a function exists; its values are of the type the step keeps.
LEMMA RunExists ==
  ASSUME NEW last \in Nat, NEW T, NEW start \in T, NEW step \in [T -> [1..last -> T]]
  PROVE  \E f : RunOf(f, last, T, start, step)
<1> DEFINE Stepped(n, f) == f = [k \in 0..n |-> IF k = 0 THEN start ELSE step[f[k - 1]][k]]
           S == {n \in Nat : n <= last => \E f \in [0..n -> T] : Stepped(n, f)}
<1>1. 0 \in S
  <2>1. Stepped(0, [k \in 0..0 |-> start]) /\ [k \in 0..0 |-> start] \in [0..0 -> T] OBVIOUS
  <2> QED BY <2>1
<1>2. ASSUME NEW n \in Nat, n \in S, n + 1 <= last PROVE \E g \in [0..(n + 1) -> T] : Stepped(n + 1, g)
  <2>0. n <= last BY <1>2
  <2>1. PICK f \in [0..n -> T] : Stepped(n, f)
    <3> HIDE DEF Stepped
    <3> QED BY <1>2, <2>0
  <2> DEFINE g == [k \in 0..(n + 1) |-> IF k <= n THEN f[k] ELSE step[f[n]][n + 1]]
  <2>2. \A k \in 0..n : f[k] = IF k = 0 THEN start ELSE step[f[k - 1]][k] BY <2>1
  <2>3. f[n] \in T /\ n + 1 \in 1..last BY <1>2
  <2>4. step[f[n]][n + 1] \in T BY <2>3
  <2>5. g \in [0..(n + 1) -> T] BY <2>4
  <2>6. ASSUME NEW k \in 0..(n + 1) PROVE g[k] = IF k = 0 THEN start ELSE step[g[k - 1]][k]
    <3>1. CASE k = 0 BY <2>2, <3>1
    <3>2. CASE k \in 1..n
      <4>1. k - 1 \in 0..n /\ k - 1 \in 0..(n + 1) BY <3>2
      <4> QED BY <2>2, <3>2, <4>1
    <3>3. CASE k = n + 1
      <4>1. g[k] = step[f[n]][n + 1] /\ n \in 0..(n + 1) /\ k - 1 = n BY <3>3
      <4> QED BY <4>1, <3>3
    <3> QED BY <3>1, <3>2, <3>3
  <2>7. g = [k \in 0..(n + 1) |-> g[k]] OBVIOUS
  <2> HIDE DEF g
  <2> QED BY <2>5, <2>6, <2>7
<1>3. \A n \in Nat : n \in S => n + 1 \in S
  <2> SUFFICES ASSUME NEW n \in Nat, n \in S PROVE n + 1 \in S
    <3> HIDE DEF S
    <3> QED OBVIOUS
  <2>1. n + 1 <= last => \E g \in [0..(n + 1) -> T] : Stepped(n + 1, g) BY <1>2
  <2> HIDE DEF Stepped
  <2> QED BY <2>1
<1> HIDE DEF S
<1>4. last \in S BY <1>1, <1>3, Induction
<1>5. \E f \in [0..last -> T] : Stepped(last, f)
  <2> HIDE DEF Stepped
  <2> QED BY <1>4 DEF S
<1>6. PICK f \in [0..last -> T] : Stepped(last, f) BY <1>5
<1>7. \A k \in 0..last : f[k] = IF k = 0 THEN start ELSE step[f[k - 1]][k] BY <1>6
<1>8. f[0] = start /\ \A k \in 1..last : f[k] = step[f[k - 1]][k]
  <2>1. f[0] = start BY <1>7
  <2>2. ASSUME NEW k \in 1..last PROVE f[k] = step[f[k - 1]][k]
    <3>1. k \in 0..last /\ k # 0 OBVIOUS
    <3> QED BY <1>7, <3>1
  <2> QED BY <2>1, <2>2
<1> QED BY <1>8 DEF RunOf

\* A function that starts at start and takes each value from the one before stays
\* in R when every step that starts in R does.
Guided(f, last, start, next) ==
    f = [n \in 0..last |-> IF n = 0 THEN start ELSE next[f[n - 1]][n]]
LEMMA GuideExists ==
  ASSUME NEW last \in Nat, NEW U, NEW R \in [0..last -> SUBSET U], NEW start \in R[0],
         NEW next \in [U -> [1..last -> U]],
         \A n \in 1..last : \A x \in R[n - 1] : next[x][n] \in R[n]
  PROVE  \E f : Guided(f, last, start, next) /\ \A n \in 0..last : f[n] \in R[n]
<1>1. PICK f : RunOf(f, last, U, start, next) BY RunExists
<1>2. /\ f \in [0..last -> U] /\ f[0] = start
      /\ \A n \in 1..last : f[n] = next[f[n - 1]][n]
  BY <1>1 DEF RunOf
<1> DEFINE S == {n \in Nat : n <= last => f[n] \in R[n]}
<1>3. 0 \in S BY <1>2
<1>4. \A n \in Nat : n \in S => n + 1 \in S
  <2> SUFFICES ASSUME NEW n \in Nat, n \in S, n + 1 <= last PROVE f[n + 1] \in R[n + 1] OBVIOUS
  <2>1. f[n] \in R[n] /\ n + 1 \in 1..last /\ (n + 1) - 1 = n OBVIOUS
  <2>2. f[n + 1] = next[f[n]][n + 1] BY <1>2, <2>1
  <2>3. next[f[n]][n + 1] \in R[n + 1] BY <2>1
  <2> QED BY <2>2, <2>3
<1> HIDE DEF S
<1>5. \A n \in Nat : n \in S BY <1>3, <1>4, Induction
<1>6. \A n \in 0..last : f[n] \in R[n] BY <1>5 DEF S
<1>7. \A n \in 0..last : f[n] = IF n = 0 THEN start ELSE next[f[n - 1]][n]
  <2> TAKE n \in 0..last
  <2>1. n # 0 => n \in 1..last OBVIOUS
  <2> QED BY <1>2, <2>1
<1>8. f = [n \in 0..last |-> f[n]] BY <1>2
<1>9. Guided(f, last, start, next)
  <2>1. [n \in 0..last |-> f[n]] = [n \in 0..last |-> IF n = 0 THEN start ELSE next[f[n - 1]][n]] BY <1>7
  <2> QED BY <1>8, <2>1 DEF Guided
<1> QED BY <1>6, <1>9

\* What holds at the start and passes from each value to the next holds of all.
LEMMA Stays ==
  ASSUME NEW last \in Nat, NEW f, NEW R, f[0] \in R[0],
         \A n \in 1..last : f[n - 1] \in R[n - 1] => f[n] \in R[n]
  PROVE  \A n \in 0..last : f[n] \in R[n]
<1> DEFINE S == {n \in Nat : n <= last => f[n] \in R[n]}
<1>1. 0 \in S OBVIOUS
<1>2. \A n \in Nat : n \in S => n + 1 \in S
  <2> SUFFICES ASSUME NEW n \in Nat, n \in S, n + 1 <= last PROVE f[n + 1] \in R[n + 1] OBVIOUS
  <2>1. f[n] \in R[n] /\ n + 1 \in 1..last /\ (n + 1) - 1 = n OBVIOUS
  <2> QED BY <2>1
<1> HIDE DEF S
<1>3. \A n \in Nat : n \in S BY <1>1, <1>2, Induction
<1> QED BY <1>3 DEF S

(***************************************************************************)
(* Knowledge: what was reviewed.                                           *)
(***************************************************************************)
Dates == Int \cup {Unset}
States == {"unmanaged", "draft", "approved", "superseded"}
Policies == {"all", "effective", "approved"}
Seen(B, P) == {"approved"} \X B \X Dates \X Dates \X P
Review(B, P) == [at : Int, seen : Seen(B, P)]
Governed(B, P) ==
    [state : States, body : B, path : P, from : Dates, to : Dates, review : Review(B, P) \cup {Unset}]
LifeEvents(B, P) ==
    [do : {"govern"}, state : {"draft", "approved", "superseded"}, from : Dates, to : Dates]
    \cup [do : {"body"}, to : B] \cup [do : {"redate"}, to : Dates] \cup [do : {"move"}, to : P]
    \cup [do : {"tick"}, to : {1}]
\* Whatever became of a document, the review it carries is of something that was
\* approved.
Approved(seen) == <<seen[3], seen[4], seen[2], seen[5]>>
ReviewedStates(B, P) ==
    {s \in [d : Governed(B, P), now : Int, approved : SUBSET (Dates \X Dates \X B \X P)] :
       s.d.review # Unset => Approved(s.d.review.seen) \in s.approved}

Governs(d, e, now, B, P) ==
    LET g == Govern(d, e, now) IN
    /\ g \in Governed(B, P)
    /\ e.state = "approved" => Approved(g.review.seen) = <<e.from, e.to, d.body, d.path>>
    /\ e.state # "approved" => g.review = Unset
LEMMA GovernIs ==
  ASSUME NEW B, NEW P, NEW d \in Governed(B, P), NEW now \in Int,
         NEW e \in [do : {"govern"}, state : {"draft", "approved", "superseded"}, from : Dates, to : Dates]
  PROVE  Governs(d, e, now, B, P)
<1> DEFINE with(review) == [state |-> e.state, body |-> d.body, path |-> d.path,
                            from |-> e.from, to |-> e.to, review |-> review]
           seen == <<"approved", d.body, e.from, e.to, d.path>>
           review == [at |-> now, seen |-> seen]
           g == Govern(d, e, now)
<1>1. d.body \in B /\ d.path \in P BY DEF Governed
<1>3. e.state \in {"draft", "approved", "superseded"} /\ e.from \in Dates /\ e.to \in Dates OBVIOUS
<1>6. CASE e.state # "approved"
  <2>1. g = with(Unset) BY <1>6 DEF Govern
  <2>2. with(Unset) \in Governed(B, P) BY <1>1, <1>3 DEF Governed, States
  <2>3. with(Unset).review = Unset OBVIOUS
  <2> HIDE DEF with, g
  <2> QED BY <1>6, <2>1, <2>2, <2>3 DEF Governs, g
<1>7. CASE e.state = "approved"
  <2>1. g = with(review)
    <3>1. Fingerprint(with(Unset)) = seen BY <1>7 DEF Fingerprint
    <3>2. g = with([at |-> now, seen |-> Fingerprint(with(Unset))]) BY <1>7 DEF Govern
    <3> QED BY <3>1, <3>2
  <2>2. seen \in Seen(B, P) BY <1>1, <1>3 DEF Seen
  <2>3. review \in Review(B, P)
    <3> HIDE DEF seen
    <3> QED BY <2>2 DEF Review
  <2>4. Approved(seen) = <<e.from, e.to, d.body, d.path>> BY DEF Approved
  <2>5. review.seen = seen OBVIOUS
  <2>6. with(review).review = review OBVIOUS
  <2> HIDE DEF review, g, seen
  <2>7. with(review) \in Governed(B, P) BY <1>1, <1>3, <2>3 DEF Governed, States
  <2> HIDE DEF with
  <2> QED BY <1>7, <2>1, <2>4, <2>5, <2>6, <2>7 DEF Governs, g
<1> QED BY <1>6, <1>7

LEMMA LivedReviewed ==
  ASSUME NEW B, NEW P, NEW s \in ReviewedStates(B, P), NEW e \in LifeEvents(B, P)
  PROVE  Lived(s, e) \in ReviewedStates(B, P)
<1> DEFINE d == s.d
<1>1. /\ s = [d |-> d, now |-> s.now, approved |-> s.approved]
      /\ d = [state |-> d.state, body |-> d.body, path |-> d.path, from |-> d.from, to |-> d.to, review |-> d.review]
      /\ d \in Governed(B, P) /\ s.now \in Int /\ s.approved \in SUBSET (Dates \X Dates \X B \X P)
      /\ d.review # Unset => Approved(d.review.seen) \in s.approved
  BY DEF ReviewedStates, Governed
<1>2. CASE e.do = "govern"
  <2> DEFINE g == Govern(d, e, s.now)
             approved == IF e.state = "approved" THEN s.approved \cup {<<e.from, e.to, d.body, d.path>>} ELSE s.approved
  <2>1. e \in [do : {"govern"}, state : {"draft", "approved", "superseded"}, from : Dates, to : Dates]
    BY <1>2 DEF LifeEvents
  <2>2. /\ g \in Governed(B, P)
        /\ e.state = "approved" => /\ Approved(g.review.seen) = <<e.from, e.to, d.body, d.path>>
        /\ e.state # "approved" => g.review = Unset
    <3>1. d \in Governed(B, P) /\ s.now \in Int BY <1>1
    <3>2. Governs(d, e, s.now, B, P)
      <4> HIDE DEF d
      <4> QED BY <2>1, <3>1, GovernIs
    <3> QED BY <3>2 DEF Governs
  <2>3. e.from \in Dates /\ e.to \in Dates /\ d.body \in B /\ d.path \in P BY <1>1, <2>1 DEF Governed
  <2>4. approved \in SUBSET (Dates \X Dates \X B \X P)
    <3>1. <<e.from, e.to, d.body, d.path>> \in Dates \X Dates \X B \X P BY <2>3
    <3> HIDE DEF d
    <3> QED BY <1>1, <3>1
  <2>5. Lived(s, e) = IF WellFormed(g) THEN [d |-> g, now |-> s.now, approved |-> approved] ELSE s
    <3>1. Lived(s, e) = IF WellFormed(g) THEN [d |-> g, now |-> s.now, approved |-> approved]
                        ELSE CASE e.do = "body" -> [s EXCEPT !.d.body = e.to]
                               [] e.do = "redate" -> [s EXCEPT !.d.to = e.to]
                               [] e.do = "move" -> [s EXCEPT !.d.path = e.to]
                               [] e.do = "tick" -> [s EXCEPT !.now = @ + 1]
                               [] OTHER -> s
      BY <1>2 DEF Lived
    <3> HIDE DEF g, approved, d
    <3> QED BY <1>2, <3>1
  <2>6. g.review # Unset => Approved(g.review.seen) \in approved
    <3> HIDE DEF g
    <3> QED BY <2>2
  <2> HIDE DEF g, approved
  <2> QED BY <1>1, <2>2, <2>4, <2>5, <2>6 DEF ReviewedStates
<1>3. CASE e.do # "govern"
  <2> DEFINE t == Lived(s, e)
             dd == t.d
  <2>1. CASE e.do = "body"
    <3>1. e.to \in B BY <2>1 DEF LifeEvents
    <3>2. t = [d |-> [state |-> d.state, body |-> e.to, path |-> d.path, from |-> d.from, to |-> d.to, review |-> d.review],
               now |-> s.now, approved |-> s.approved] BY <1>1, <2>1 DEF Lived
    <3> HIDE DEF t
    <3> QED BY <1>1, <3>1, <3>2 DEF ReviewedStates, Governed, t
  <2>2. CASE e.do = "redate"
    <3>1. e.to \in Dates BY <2>2 DEF LifeEvents
    <3>2. t = [d |-> [state |-> d.state, body |-> d.body, path |-> d.path, from |-> d.from, to |-> e.to, review |-> d.review],
               now |-> s.now, approved |-> s.approved] BY <1>1, <2>2 DEF Lived
    <3> HIDE DEF t
    <3> QED BY <1>1, <3>1, <3>2 DEF ReviewedStates, Governed, t
  <2>3. CASE e.do = "move"
    <3>1. e.to \in P BY <2>3 DEF LifeEvents
    <3>2. t = [d |-> [state |-> d.state, body |-> d.body, path |-> e.to, from |-> d.from, to |-> d.to, review |-> d.review],
               now |-> s.now, approved |-> s.approved] BY <1>1, <2>3 DEF Lived
    <3> HIDE DEF t
    <3> QED BY <1>1, <3>1, <3>2 DEF ReviewedStates, Governed, t
  <2>4. CASE e.do = "tick"
    <3>1. t = [d |-> d, now |-> s.now + 1, approved |-> s.approved] BY <1>1, <2>4 DEF Lived
    <3> HIDE DEF t
    <3> QED BY <1>1, <3>1 DEF ReviewedStates, t
  <2>5. e.do \in {"body", "redate", "move", "tick"} BY <1>3 DEF LifeEvents
  <2> QED BY <2>1, <2>2, <2>3, <2>4, <2>5
<1> QED BY <1>2, <1>3

LEMMA LifeReviewed ==
  ASSUME NEW B, NEW P, NEW s \in ReviewedStates(B, P), NEW events \in Seq(LifeEvents(B, P))
  PROVE  Life(s, events) \in ReviewedStates(B, P)
<1> DEFINE U == ReviewedStates(B, P)
           N == Len(events)
           step == [x \in U |-> [n \in 1..N |-> Lived(x, events[n])]]
           R == [n \in 0..N |-> U]
           Lives(f) == f = [n \in 0..N |-> IF n = 0 THEN s ELSE Lived(f[n - 1], events[n])]
<1>1. N \in Nat /\ \A n \in 1..N : events[n] \in LifeEvents(B, P) OBVIOUS
<1> HIDE DEF N
<1>2. \A x \in U, n \in 1..N : Lived(x, events[n]) \in U BY <1>1, LivedReviewed
<1>3. step \in [U -> [1..N -> U]] /\ R \in [0..N -> SUBSET U] /\ s \in R[0]
      /\ \A n \in 1..N : \A x \in R[n - 1] : step[x][n] \in R[n]
  <2>1. 0 \in 0..N /\ \A n \in 1..N : n \in 0..N /\ n - 1 \in 0..N BY <1>1
  <2>2. \A x \in U, n \in 1..N : step[x][n] = Lived(x, events[n]) OBVIOUS
  <2> HIDE DEF U
  <2>3. step \in [U -> [1..N -> U]] BY <1>2
  <2>4. R \in [0..N -> SUBSET U] OBVIOUS
  <2>5. R[0] = U /\ \A n \in 1..N : R[n - 1] = U /\ R[n] = U BY <2>1
  <2>6. s \in U BY DEF U
  <2> HIDE DEF step, R
  <2> QED BY <1>2, <2>2, <2>3, <2>4, <2>5, <2>6
<1>4. \E f : Guided(f, N, s, step) /\ \A n \in 0..N : f[n] \in R[n]
  <2> HIDE DEF R, step, U
  <2> QED BY <1>1, <1>3, GuideExists
<1>5. \E f : Lives(f)
  <2>1. PICK f : Guided(f, N, s, step) /\ \A n \in 0..N : f[n] \in R[n]
    <3> HIDE DEF R, step
    <3> QED BY <1>4
  <2>2. ASSUME NEW n \in 1..N PROVE step[f[n - 1]][n] = Lived(f[n - 1], events[n])
    <3>1. n - 1 \in 0..N BY <1>1
    <3>2. f[n - 1] \in U BY <2>1, <3>1
    <3> HIDE DEF U
    <3> QED BY <3>2
  <2>3. f = [n \in 0..N |-> IF n = 0 THEN s ELSE step[f[n - 1]][n]] BY <2>1 DEF Guided
  <2>4. \A n \in 0..N : n # 0 => n \in 1..N BY <1>1
  <2> HIDE DEF step
  <2>5. Lives(f)
    <3>1. [n \in 0..N |-> IF n = 0 THEN s ELSE step[f[n - 1]][n]]
          = [n \in 0..N |-> IF n = 0 THEN s ELSE Lived(f[n - 1], events[n])] BY <2>2, <2>4
    <3> QED BY <2>3, <3>1
  <2> QED BY <2>5
<1> DEFINE after == CHOOSE f : Lives(f)
<1>6. Lives(after) BY <1>5
<1>7. Life(s, events) = after[N] BY DEF Life, N
<1> HIDE DEF after
<1>8. after[0] = s /\ \A n \in 1..N : after[n] = Lived(after[n - 1], events[n])
  <2>1. \A n \in 0..N : after[n] = IF n = 0 THEN s ELSE Lived(after[n - 1], events[n]) BY <1>6
  <2>2. 0 \in 0..N /\ \A n \in 1..N : n \in 0..N /\ n # 0 BY <1>1
  <2> QED BY <2>1, <2>2
<1>9. \A n \in 1..N : after[n - 1] \in R[n - 1] => after[n] \in R[n]
  <2> TAKE n \in 1..N
  <2>1. n \in 0..N /\ n - 1 \in 0..N BY <1>1
  <2> HIDE DEF U
  <2> QED BY <1>2, <1>8, <2>1
<1>10. after[0] \in R[0] BY <1>3, <1>8
<1>11. \A n \in 0..N : after[n] \in R[n]
  <2> HIDE DEF R
  <2> QED BY <1>1, <1>9, <1>10, Stays
<1>12. N \in 0..N BY <1>1
<1> HIDE DEF U
<1> QED BY <1>7, <1>11, <1>12 DEF U

\* What counts as approved.
LEMMA ApprovedStatus ==
  ASSUME NEW B, NEW P, Unset \notin Int, NEW d \in Governed(B, P), NEW now \in Int, Status(d, now) = "approved"
  PROVE  /\ d.review # Unset /\ Approved(d.review.seen) = <<d.from, d.to, d.body, d.path>>
         /\ d.from # Unset => d.from <= now
         /\ d.to # Unset => now < d.to
<1>1. /\ d.state \in States /\ d.from \in Dates /\ d.to \in Dates /\ d.review \in Review(B, P) \cup {Unset}
  BY DEF Governed
<1>2. /\ d.state # "unmanaged" /\ WellFormed(d) /\ d.state \notin {"draft", "superseded"}
      /\ d.review.seen = Fingerprint(d) /\ ~(d.review.at > now)
      /\ ~(d.to # Unset /\ d.to <= now) /\ ~(d.from # Unset /\ d.from > now)
  BY <1>1 DEF Status, States
<1>3. d.review # Unset BY <1>1, <1>2 DEF WellFormed, States
<1>4. Approved(d.review.seen) = <<d.from, d.to, d.body, d.path>> BY <1>2 DEF Fingerprint, Approved
<1>5. (d.from # Unset => d.from \in Int) /\ (d.to # Unset => d.to \in Int) BY <1>1 DEF Dates
<1> QED BY <1>2, <1>3, <1>4, <1>5

LEMMA PolicyIsStricter ==
  ASSUME NEW asked \in Policies, NEW mount \in Policies, NEW status, Accepts(SelectedPolicy(asked, mount), status)
  PROVE  Accepts(mount, status) /\ Accepts(asked, status)
<1>1. Strictness["all"] = 0 /\ Strictness["effective"] = 1 /\ Strictness["approved"] = 2 BY DEF Strictness
<1> QED BY <1>1 DEF Policies, Accepts, SelectedPolicy

(***************************************************************************)
(* Knowledge: the steps of an import.                                      *)
(***************************************************************************)
Entry(C) == [content : C, version : Nat]
Docs(C) == [Paths -> Entry(C) \cup {Unset}]
Worlds(C) == [docs : Docs(C), refusing : SUBSET Paths]
Imports(C) ==
    [rules : C \cup {Unset}, conflict : {"fail", "skip", "replace"}, editOnly : BOOLEAN,
     items : [Documents -> C \cup {Unset}]]
Absent(C) == Unset \notin C /\ Unset \notin Entry(C)
Actions == {"none", "create", "duplicate", "conflict", "skip", "replace"}
Changes(C) ==
    {c \in [path : Paths, content : C \cup {Unset}, before : Entry(C) \cup {Unset}, action : Actions] :
       c.action # "none" => c.content \in C}
ImportStates(C) ==
    [docs : Docs(C), read : Entry(C) \cup {Unset}, stopped : BOOLEAN, wrote : SUBSET Paths]
Rivals(C) == {r \in [at : Nat, path : Paths, content : C \cup {Unset}] : r.at # 0 => r.content \in C}

LEMMA OrderIs ==
  /\ Len(Order) \in Nat /\ Len(Order) > 0 /\ DOMAIN Order = 1..Len(Order)
  /\ \A k \in 1..Len(Order) : Order[k] \in Paths
  /\ \A p \in Paths : \E k \in 1..Len(Order) : Order[k] = p
  /\ \A j, k \in 1..Len(Order) : Order[j] = Order[k] => j = k
  /\ \A k \in 1..Len(Order) : Order[k] = Definition <=> k = 1
  /\ Definition \in Paths /\ 1 \in 1..Len(Order)
<1>1. Order \in Seq(Paths) /\ Order # <<>> /\ \A j, k \in DOMAIN Order : Order[j] = Order[k] => j = k
  BY OrderAssumption
<1>2. Len(Order) \in Nat /\ Len(Order) > 0 /\ DOMAIN Order = 1..Len(Order) BY <1>1
<1>3. 1 \in 1..Len(Order) BY <1>2
<1> QED BY <1>1, <1>2, <1>3 DEF Paths, Definition

\* Which change a step is about, and how many pairs of check and write are over.
Over(n) == IF n <= Len(Order) THEN 0 ELSE (n - Len(Order)) \div 2
LEMMA StepNumbers ==
  ASSUME NEW n \in 1..Steps
  PROVE  /\ Which(n) \in 1..Len(Order) /\ Over(n) \in 0..Len(Order) /\ Over(n - 1) \in 0..Len(Order)
         /\ n <= Len(Order) => Does(n) = "check" /\ Which(n) = n /\ Over(n) = 0 /\ Over(n - 1) = 0
         /\ n > Len(Order) /\ Does(n) = "check" => Over(n) = Which(n) - 1 /\ Over(n - 1) = Over(n)
         /\ Does(n) # "check" => /\ n > Len(Order) /\ Does(n) = "write" /\ Over(n) = Which(n) /\ Over(n - 1) = Which(n) - 1
                                 /\ n - 1 > Len(Order) /\ Does(n - 1) = "check" /\ Which(n - 1) = Which(n)
<1> DEFINE N == Len(Order)
<1>1. N \in Nat /\ N > 0 /\ n \in Nat /\ n >= 1 /\ n <= 3 * N BY OrderIs DEF Steps
<1>2. CASE n <= N
  <2>1. n - 1 <= N BY <1>1, <1>2
  <2>2. Which(n) = n /\ Over(n) = 0 /\ Over(n - 1) = 0 /\ Does(n) = "check" BY <1>2, <2>1 DEF Which, Over, Does
  <2> QED BY <1>1, <1>2, <2>2
<1>3. CASE n > N
  <2>1. PICK h \in Nat : h = n - N /\ h >= 1 /\ h <= 2 * N BY <1>1, <1>3
  <2>2. \E k \in 1..N : h = 2 * k - 1 \/ h = 2 * k
    <3> DEFINE k == (h + 1) \div 2
    <3>1. k \in Nat /\ (h + 1 = 2 * k \/ h + 1 = 2 * k + 1) BY <2>1
    <3> HIDE DEF k
    <3>2. k \in 1..N BY <1>1, <2>1, <3>1
    <3>3. h = 2 * k - 1 \/ h = 2 * k BY <2>1, <3>1
    <3> QED BY <3>2, <3>3
  <2>3. PICK k \in 1..N : h = 2 * k - 1 \/ h = 2 * k BY <2>2
  <2>4. Which(n) = (h + 1) \div 2 /\ Over(n) = h \div 2 /\ Does(n) = IF h % 2 = 1 THEN "check" ELSE "write"
    BY <1>1, <1>3, <2>1 DEF Which, Over, Does
  <2>5. CASE h = 2 * k - 1
    <3>1. (h + 1) \div 2 = k /\ h \div 2 = k - 1 /\ h % 2 = 1 /\ (h - 1) \div 2 = k - 1 BY <2>5
    <3>2. Over(n - 1) = k - 1
      <4>1. CASE n - 1 <= N
        <5>1. h = 1 /\ k = 1 BY <1>1, <1>3, <2>1, <2>5, <4>1
        <5> QED BY <4>1, <5>1 DEF Over
      <4>2. CASE ~(n - 1 <= N)
        <5>1. (n - 1) - N = h - 1 BY <1>1, <2>1
        <5> QED BY <3>1, <4>2, <5>1 DEF Over
      <4> QED BY <4>1, <4>2
    <3> QED BY <1>1, <1>3, <2>4, <3>1, <3>2
  <2>6. CASE h = 2 * k
    <3>1. (h + 1) \div 2 = k /\ h \div 2 = k /\ h % 2 = 0 /\ (h - 1) \div 2 = k - 1 /\ (h - 1) % 2 = 1 BY <2>6
    <3>2. ~(n - 1 <= N) /\ (n - 1) - N = h - 1 /\ ((n - 1) - N) + 1 = h BY <1>1, <2>1, <2>6
    <3>3. Over(n - 1) = k - 1 /\ Does(n - 1) = "check" /\ Which(n - 1) = k BY <3>1, <3>2 DEF Over, Does, Which
    <3> QED BY <1>1, <1>3, <2>4, <3>1, <3>2, <3>3
  <2> QED BY <2>3, <2>5, <2>6
<1> QED BY <1>1, <1>2, <1>3

LEMMA AllOver ==
  Steps \in Nat /\ Over(0) = 0 /\ Over(Steps) = Len(Order)
<1> DEFINE N == Len(Order)
<1>1. N \in Nat /\ N > 0 BY OrderIs
<1>2. Steps = 3 * N BY DEF Steps
<1>3. ~(3 * N <= N) /\ (3 * N - N) = 2 * N /\ (2 * N) \div 2 = N BY <1>1
<1> QED BY <1>1, <1>2, <1>3 DEF Over

\* The plan of an import, change by change.
LEMMA PlannedIs ==
  ASSUME NEW C, Absent(C), NEW w \in Worlds(C), NEW i \in Imports(C), NEW k \in 1..Len(Order)
  PROVE  LET c == Planned(w, i)[k] IN
         /\ c \in Changes(C) /\ DOMAIN Planned(w, i) = 1..Len(Order)
         /\ c.path = Order[k] /\ c.content = Brings(i, Order[k]) /\ c.before = w.docs[Order[k]]
         /\ c.action = Answer(c.before, c.content, i.conflict)
<1> DEFINE c == Planned(w, i)[k]
           p == Order[k]
<1>1. p \in Paths /\ DOMAIN Order = 1..Len(Order) BY OrderIs
<1>2. c = [path |-> p, content |-> Brings(i, p), before |-> w.docs[p], action |-> Answer(w.docs[p], Brings(i, p), i.conflict)]
      /\ DOMAIN Planned(w, i) = 1..Len(Order)
  BY <1>1 DEF Planned, Change
<1>3. w.docs[p] \in Entry(C) \cup {Unset} BY <1>1 DEF Worlds, Docs
<1>4. Brings(i, p) \in C \cup {Unset}
  <2>1. p # Definition => p \in Documents BY <1>1 DEF Documents
  <2> QED BY <2>1 DEF Brings, Imports
<1>5. i.conflict \in {"fail", "skip", "replace"} BY DEF Imports
<1>6. Answer(w.docs[p], Brings(i, p), i.conflict) \in Actions
      /\ (Answer(w.docs[p], Brings(i, p), i.conflict) # "none" => Brings(i, p) \in C)
  BY <1>4, <1>5 DEF Answer, Actions
<1> HIDE DEF c, p
<1> QED BY <1>1, <1>2, <1>3, <1>4, <1>6 DEF Changes, c, p

\* What each answer tells.
Answers(a, found, content, conflict) ==
    /\ a \in Actions
    /\ a = "none" <=> content = Unset
    /\ a = "create" <=> content # Unset /\ found = Unset
    /\ a = "duplicate" <=> content # Unset /\ found # Unset /\ found.content = content
    /\ a = "skip" <=> content # Unset /\ found # Unset /\ found.content # content /\ conflict = "skip"
    /\ a = "replace" <=> content # Unset /\ found # Unset /\ found.content # content /\ conflict = "replace"
    /\ a = "conflict" <=> content # Unset /\ found # Unset /\ found.content # content /\ conflict = "fail"
LEMMA AnswerIs ==
  ASSUME NEW found, NEW content, NEW conflict \in {"fail", "skip", "replace"}
  PROVE  Answers(Answer(found, content, conflict), found, content, conflict)
BY DEF Answer, Answers, Actions

\* One step of a run, and the run as a function of its steps.
NextIn(s, changes, rival, n) == Step(Rivalled(s, rival, n), Does(n), changes[Which(n)])
RunsTo(at, s, changes, rival, last) ==
    /\ at[0] = s
    /\ \A n \in 1..last : at[n] = NextIn(at[n - 1], changes, rival, n)

LEMMA FiledIs ==
  ASSUME NEW C, NEW found \in Entry(C) \cup {Unset}, NEW content \in C
  PROVE  Filed(found, content) \in Entry(C) /\ Filed(found, content).content = content
BY DEF Filed, Entry

LEMMA PutIs ==
  ASSUME NEW C, NEW docs \in Docs(C), NEW p \in Paths, NEW content \in C
  PROVE  /\ Put(docs, p, content) \in Docs(C)
         /\ Put(docs, p, content)[p] = Filed(docs[p], content)
         /\ \A q \in Paths \ {p} : Put(docs, p, content)[q] = docs[q]
<1>1. docs[p] \in Entry(C) \cup {Unset} BY DEF Docs
<1>2. Filed(docs[p], content) \in Entry(C) BY <1>1, FiledIs
<1> QED BY <1>2 DEF Put, Docs

LEMMA RivalledTyped ==
  ASSUME NEW C, NEW s \in ImportStates(C), NEW rival \in Rivals(C), NEW n \in Nat \ {0}
  PROVE  Rivalled(s, rival, n) \in ImportStates(C)
<1>1. rival.at = n => rival.content \in C BY DEF Rivals
<1>2. rival.path \in Paths /\ s.docs \in Docs(C) BY DEF Rivals, ImportStates
<1>3. rival.at = n => Put(s.docs, rival.path, rival.content) \in Docs(C) BY <1>1, <1>2, PutIs
<1> QED BY <1>3 DEF Rivalled, ImportStates

LEMMA StepTyped ==
  ASSUME NEW C, NEW s \in ImportStates(C), NEW do, NEW c \in Changes(C)
  PROVE  Step(s, do, c) \in ImportStates(C)
<1>1. s.docs \in Docs(C) /\ c.path \in Paths /\ s.wrote \in SUBSET Paths BY DEF ImportStates, Changes
<1>2. s.docs[c.path] \in Entry(C) \cup {Unset} BY <1>1 DEF Docs
<1>3. Checked(s, c) \in ImportStates(C) BY <1>2 DEF Checked, ImportStates
<1>4. Due(c) => Wrote(s, c) \in ImportStates(C)
  <2> SUFFICES ASSUME Due(c) PROVE Wrote(s, c) \in ImportStates(C) OBVIOUS
  <2>1. c.content \in C BY DEF Due, Changes
  <2>2. Put(s.docs, c.path, c.content) \in Docs(C) BY <1>1, <2>1, PutIs
  <2>3. s.wrote \cup {c.path} \in SUBSET Paths BY <1>1
  <2> QED BY <2>2, <2>3 DEF Wrote, ImportStates
<1> QED BY <1>3, <1>4 DEF Step

LEMMA ImportRunIs ==
  ASSUME NEW C, NEW s \in ImportStates(C), NEW changes \in [1..Len(Order) -> Changes(C)], NEW rival \in Rivals(C),
         NEW last \in 0..Steps
  PROVE  \E at : /\ RunsTo(at, s, changes, rival, last)
                 /\ \A n \in 0..last : at[n] \in ImportStates(C)
                 /\ ImportRun(s, changes, rival, last) = at[last]
<1> DEFINE U == ImportStates(C)
           step == [x \in U |-> [n \in 1..last |-> NextIn(x, changes, rival, n)]]
           R == [n \in 0..last |-> U]
           Steers(f) == f = [n \in 0..last |-> IF n = 0 THEN s ELSE NextIn(f[n - 1], changes, rival, n)]
<1>1. last \in Nat /\ \A n \in 1..last : n \in 1..Steps BY AllOver
<1>2. \A x \in U, n \in 1..last : NextIn(x, changes, rival, n) \in U
  <2> TAKE x \in U, n \in 1..last
  <2>1. Which(n) \in 1..Len(Order) BY <1>1, StepNumbers
  <2>2. changes[Which(n)] \in Changes(C) BY <2>1
  <2>3. Rivalled(x, rival, n) \in U BY RivalledTyped
  <2> QED BY <2>2, <2>3, StepTyped DEF NextIn
<1>3. step \in [U -> [1..last -> U]] /\ R \in [0..last -> SUBSET U] /\ s \in R[0]
      /\ \A n \in 1..last : \A x \in R[n - 1] : step[x][n] \in R[n]
  <2>1. 0 \in 0..last /\ \A n \in 1..last : n \in 0..last /\ n - 1 \in 0..last BY <1>1
  <2>2. \A x \in U, n \in 1..last : step[x][n] = NextIn(x, changes, rival, n) OBVIOUS
  <2>3. s \in U OBVIOUS
  <2> HIDE DEF U
  <2>4. step \in [U -> [1..last -> U]] BY <1>2
  <2>5. R \in [0..last -> SUBSET U] OBVIOUS
  <2>6. R[0] = U /\ \A n \in 1..last : R[n - 1] = U /\ R[n] = U BY <2>1
  <2>7. ASSUME NEW n \in 1..last, NEW x \in R[n - 1] PROVE step[x][n] \in R[n]
    <3>1. R[n - 1] = U /\ R[n] = U BY <2>6
    <3>2. x \in U BY <3>1
    <3>3. step[x][n] = NextIn(x, changes, rival, n) BY <2>2, <3>2
    <3>4. NextIn(x, changes, rival, n) \in U BY <1>2, <3>2
    <3> HIDE DEF step, R
    <3> QED BY <3>1, <3>3, <3>4
  <2> HIDE DEF step, R
  <2> QED BY <2>3, <2>4, <2>5, <2>6, <2>7
<1>4. \E f : Guided(f, last, s, step) /\ \A n \in 0..last : f[n] \in R[n]
  <2> HIDE DEF R, step, U
  <2> QED BY <1>1, <1>3, GuideExists
<1>5. \E f : Steers(f)
  <2>1. PICK f : Guided(f, last, s, step) /\ \A n \in 0..last : f[n] \in R[n]
    <3> HIDE DEF R, step
    <3> QED BY <1>4
  <2>2. ASSUME NEW n \in 1..last PROVE step[f[n - 1]][n] = NextIn(f[n - 1], changes, rival, n)
    <3>1. n - 1 \in 0..last BY <1>1
    <3>2. f[n - 1] \in U BY <2>1, <3>1
    <3> HIDE DEF U
    <3> QED BY <3>2
  <2>3. f = [n \in 0..last |-> IF n = 0 THEN s ELSE step[f[n - 1]][n]] BY <2>1 DEF Guided
  <2>4. \A n \in 0..last : n # 0 => n \in 1..last BY <1>1
  <2> HIDE DEF step
  <2>5. Steers(f)
    <3>1. [n \in 0..last |-> IF n = 0 THEN s ELSE step[f[n - 1]][n]]
          = [n \in 0..last |-> IF n = 0 THEN s ELSE NextIn(f[n - 1], changes, rival, n)] BY <2>2, <2>4
    <3> QED BY <2>3, <3>1
  <2> QED BY <2>5
<1> DEFINE at == CHOOSE f : Steers(f)
<1>6. Steers(at) BY <1>5
<1>7. ImportRun(s, changes, rival, last) = at[last] BY DEF ImportRun, NextIn
<1> HIDE DEF at
<1>8. RunsTo(at, s, changes, rival, last)
  <2>1. \A n \in 0..last : at[n] = IF n = 0 THEN s ELSE NextIn(at[n - 1], changes, rival, n) BY <1>6
  <2>2. 0 \in 0..last /\ \A n \in 1..last : n \in 0..last /\ n # 0 BY <1>1
  <2> QED BY <2>1, <2>2 DEF RunsTo
<1>9. \A n \in 1..last : at[n - 1] \in R[n - 1] => at[n] \in R[n]
  <2> TAKE n \in 1..last
  <2>1. n \in 0..last /\ n - 1 \in 0..last BY <1>1
  <2>2. R[n] = U /\ R[n - 1] = U BY <2>1
  <2>3. at[n] = NextIn(at[n - 1], changes, rival, n) BY <1>8 DEF RunsTo
  <2> HIDE DEF U, R
  <2> QED BY <1>2, <2>2, <2>3
<1>10. at[0] \in R[0]
  <2>1. at[0] = s BY <1>8 DEF RunsTo
  <2> QED BY <1>3, <2>1
<1>11. \A n \in 0..last : at[n] \in R[n]
  <2> HIDE DEF R
  <2> QED BY <1>1, <1>9, <1>10, Stays
<1>12. \A n \in 0..last : at[n] \in U
  <2> HIDE DEF U
  <2> QED BY <1>11
<1> QED BY <1>7, <1>8, <1>12

\* An import that nobody disturbs, after k of its changes: each that was due is on
\* file as planned, the rest is as it was.
Filing(w, changes, k, j) ==
    IF j <= k /\ Due(changes[j]) THEN Filed(w.docs[Order[j]], changes[j].content) ELSE w.docs[Order[j]]
DocsAt(docs, w, changes, k) == \A j \in 1..Len(Order) : docs[Order[j]] = Filing(w, changes, k, j)
WroteAt(wrote, changes, k) == \A j \in 1..Len(Order) : Order[j] \in wrote <=> j <= k /\ Due(changes[j])
Undisturbed(s, w, changes, n) ==
    /\ s.stopped = FALSE
    /\ DocsAt(s.docs, w, changes, Over(n)) /\ WroteAt(s.wrote, changes, Over(n))
    /\ n > Len(Order) /\ Does(n) = "check" /\ Due(changes[Which(n)]) => s.read = w.docs[Order[Which(n)]]
PlanOf(changes, C, w) ==
    /\ changes \in [1..Len(Order) -> Changes(C)]
    /\ \A k \in 1..Len(Order) : changes[k].path = Order[k] /\ changes[k].before = w.docs[Order[k]]

LEMMA PlanIs ==
  ASSUME NEW C, Absent(C), NEW w \in Worlds(C), NEW i \in Imports(C)
  PROVE  PlanOf(Planned(w, i), C, w)
<1>1. DOMAIN Order = 1..Len(Order) BY OrderIs
<1>2. \A k \in 1..Len(Order) : /\ Planned(w, i)[k] \in Changes(C)
                               /\ Planned(w, i)[k].path = Order[k] /\ Planned(w, i)[k].before = w.docs[Order[k]]
  BY PlannedIs
<1>3. Planned(w, i) = [k \in 1..Len(Order) |-> Planned(w, i)[k]] BY <1>1 DEF Planned
<1>4. Planned(w, i) \in [1..Len(Order) -> Changes(C)] BY <1>2, <1>3
<1> QED BY <1>2, <1>4 DEF PlanOf

\* Writing the change that is due.
LEMMA WroteIs ==
  ASSUME NEW C, NEW w \in Worlds(C), NEW changes, PlanOf(changes, C, w), NEW s \in ImportStates(C),
         NEW k \in 1..Len(Order), DocsAt(s.docs, w, changes, k - 1), WroteAt(s.wrote, changes, k - 1),
         Due(changes[k]), s.read = w.docs[Order[k]], s.stopped = FALSE
  PROVE  LET t == Wrote(s, changes[k]) IN
         t.stopped = FALSE /\ DocsAt(t.docs, w, changes, k) /\ WroteAt(t.wrote, changes, k)
<1> DEFINE c == changes[k]
           p == Order[k]
           docs == Put(s.docs, p, c.content)
<1>1. /\ c \in Changes(C) /\ c.path = p /\ p \in Paths /\ s.docs \in Docs(C) BY OrderIs DEF PlanOf, ImportStates
<1>2. c.content \in C BY <1>1 DEF Due, Changes
<1>3. s.docs[p] = w.docs[p]
  <2>1. ~(k <= k - 1) BY OrderIs
  <2> QED BY <2>1 DEF DocsAt, Filing
<1>4. ~(s.read # Unset /\ (s.docs[p] = Unset \/ s.docs[p].version # s.read.version)) BY <1>3
<1>5. Wrote(s, c) = [s EXCEPT !.docs = docs, !.wrote = @ \cup {p}] BY <1>1, <1>4 DEF Wrote
<1>6. Wrote(s, c).stopped = FALSE /\ Wrote(s, c).docs = docs /\ Wrote(s, c).wrote = s.wrote \cup {p}
  BY <1>5 DEF ImportStates
<1>7. docs[p] = Filed(w.docs[p], c.content) /\ \A q \in Paths \ {p} : docs[q] = s.docs[q]
  BY <1>1, <1>2, <1>3, PutIs
<1> HIDE DEF docs
<1>8. DocsAt(docs, w, changes, k)
  <2> SUFFICES ASSUME NEW j \in 1..Len(Order) PROVE docs[Order[j]] = Filing(w, changes, k, j) BY DEF DocsAt
  <2>1. CASE j = k
    <3>1. j <= k BY <2>1, OrderIs
    <3> QED BY <1>7, <2>1, <3>1 DEF Filing
  <2>2. CASE j # k
    <3>1. Order[j] \in Paths \ {p} BY <2>2, OrderIs
    <3>2. j <= k <=> j <= k - 1 BY <2>2, OrderIs
    <3>3. s.docs[Order[j]] = Filing(w, changes, k - 1, j) BY DEF DocsAt
    <3> QED BY <1>7, <3>1, <3>2, <3>3 DEF Filing
  <2> QED BY <2>1, <2>2
<1>9. WroteAt(s.wrote \cup {p}, changes, k)
  <2> SUFFICES ASSUME NEW j \in 1..Len(Order) PROVE Order[j] \in s.wrote \cup {p} <=> j <= k /\ Due(changes[j])
    BY DEF WroteAt
  <2>1. CASE j = k
    <3>1. j <= k BY <2>1, OrderIs
    <3> QED BY <2>1, <3>1
  <2>2. CASE j # k
    <3>1. Order[j] # p BY <2>2, OrderIs
    <3>2. j <= k <=> j <= k - 1 BY <2>2, OrderIs
    <3>3. Order[j] \in s.wrote <=> j <= k - 1 /\ Due(changes[j]) BY DEF WroteAt
    <3> QED BY <3>1, <3>2, <3>3
  <2> QED BY <2>1, <2>2
<1> QED BY <1>6, <1>8, <1>9

\* A change that is not due leaves everything as it is after it.
LEMMA NotDueIs ==
  ASSUME NEW docs, NEW wrote, NEW w, NEW changes, NEW k \in 1..Len(Order), ~Due(changes[k]),
         DocsAt(docs, w, changes, k - 1), WroteAt(wrote, changes, k - 1)
  PROVE  DocsAt(docs, w, changes, k) /\ WroteAt(wrote, changes, k)
<1>1. \A j \in 1..Len(Order) : j <= k /\ Due(changes[j]) <=> j <= k - 1 /\ Due(changes[j])
  <2> TAKE j \in 1..Len(Order)
  <2>1. j # k => (j <= k <=> j <= k - 1) BY OrderIs
  <2>2. j = k => ~Due(changes[j]) OBVIOUS
  <2>3. j <= k - 1 => j <= k BY OrderIs
  <2> QED BY <2>1, <2>2, <2>3
<1>2. \A j \in 1..Len(Order) : Filing(w, changes, k, j) = Filing(w, changes, k - 1, j) BY <1>1 DEF Filing
<1> QED BY <1>1, <1>2 DEF DocsAt, WroteAt

LEMMA UndisturbedSteps ==
  ASSUME NEW C, NEW w \in Worlds(C), NEW changes, PlanOf(changes, C, w), NEW n \in 1..Steps,
         NEW s \in ImportStates(C), Undisturbed(s, w, changes, n - 1)
  PROVE  Undisturbed(NextIn(s, changes, NoRival, n), w, changes, n)
<1> DEFINE k == Which(n)
           c == changes[k]
           t == NextIn(s, changes, NoRival, n)
<1>0. Rivalled(s, NoRival, n) = s
  <2>1. n # 0 BY AllOver
  <2> QED BY <2>1 DEF Rivalled, NoRival
<1>1. t = Step(s, Does(n), c) BY <1>0 DEF NextIn
<1>2. /\ k \in 1..Len(Order) /\ c \in Changes(C) /\ c.path = Order[k] /\ c.before = w.docs[Order[k]]
      /\ s.stopped = FALSE
  BY StepNumbers DEF PlanOf, Undisturbed
<1>3. /\ n <= Len(Order) => Does(n) = "check" /\ Over(n) = 0 /\ Over(n - 1) = 0
      /\ n > Len(Order) /\ Does(n) = "check" => Over(n) = k - 1 /\ Over(n - 1) = Over(n)
      /\ Does(n) # "check" => /\ n > Len(Order) /\ Over(n) = k /\ Over(n - 1) = k - 1
                              /\ n - 1 > Len(Order) /\ Does(n - 1) = "check" /\ Which(n - 1) = k
      /\ n <= Len(Order) \/ n > Len(Order)
  BY StepNumbers, OrderIs, AllOver
<1> SUFFICES Undisturbed(t, w, changes, n) OBVIOUS
<1> HIDE DEF k, t
<1>4. CASE Does(n) = "check"
  <2>1. Over(n - 1) = Over(n) BY <1>3, <1>4
  <2>2. DocsAt(s.docs, w, changes, Over(n)) /\ WroteAt(s.wrote, changes, Over(n)) BY <2>1 DEF Undisturbed
  <2>3. s.docs[Order[k]] = w.docs[Order[k]]
    <3>1. ~(k <= Over(n)) BY <1>2, <1>3, <1>4, OrderIs
    <3> QED BY <1>2, <2>2, <3>1 DEF DocsAt, Filing
  <2>4. CASE ~Due(c)
    <3>1. t = s BY <1>1, <2>4 DEF Step
    <3> QED BY <1>2, <2>2, <2>4, <3>1 DEF Undisturbed, k
  <2>5. CASE Due(c)
    <3>1. t = [s EXCEPT !.read = w.docs[Order[k]]] BY <1>1, <1>2, <1>4, <2>3, <2>5 DEF Step, Checked
    <3>2. t.read = w.docs[Order[k]] /\ t.docs = s.docs /\ t.wrote = s.wrote /\ t.stopped = FALSE
      BY <1>2, <3>1 DEF ImportStates
    <3> QED BY <2>2, <3>2 DEF Undisturbed, k
  <2> QED BY <2>4, <2>5
<1>5. CASE Does(n) # "check"
  <2>1. DocsAt(s.docs, w, changes, k - 1) /\ WroteAt(s.wrote, changes, k - 1) BY <1>3, <1>5 DEF Undisturbed
  <2>2. CASE ~Due(c)
    <3>1. t = s BY <1>1, <2>2 DEF Step
    <3>2. DocsAt(s.docs, w, changes, k) /\ WroteAt(s.wrote, changes, k) BY <1>2, <2>1, <2>2, NotDueIs
    <3> QED BY <1>2, <1>3, <1>5, <3>1, <3>2 DEF Undisturbed
  <2>3. CASE Due(c)
    <3>1. t = Wrote(s, c) BY <1>1, <1>2, <1>5, <2>3 DEF Step
    <3>2. s.read = w.docs[Order[k]] BY <1>3, <1>5, <2>3 DEF Undisturbed
    <3>3. t.stopped = FALSE /\ DocsAt(t.docs, w, changes, k) /\ WroteAt(t.wrote, changes, k)
      BY <1>2, <2>1, <2>3, <3>1, <3>2, WroteIs
    <3> QED BY <1>3, <1>5, <3>3 DEF Undisturbed
  <2> QED BY <2>2, <2>3
<1> QED BY <1>4, <1>5

ImportStart(w) == [docs |-> w.docs, read |-> Unset, stopped |-> FALSE, wrote |-> {}]
LEMMA StartIs ==
  ASSUME NEW C, NEW w \in Worlds(C), NEW changes
  PROVE  ImportStart(w) \in ImportStates(C) /\ Undisturbed(ImportStart(w), w, changes, 0)
<1>1. ImportStart(w) \in ImportStates(C) BY DEF ImportStart, ImportStates, Worlds
<1>2. \A j \in 1..Len(Order) : ~(j <= 0) BY OrderIs
<1>3. DocsAt(w.docs, w, changes, 0) /\ WroteAt({}, changes, 0) BY <1>2 DEF DocsAt, WroteAt, Filing
<1>4. Over(0) = 0 /\ ~(0 > Len(Order)) BY AllOver, OrderIs
<1> QED BY <1>1, <1>3, <1>4 DEF Undisturbed, ImportStart

\* What an import leaves that nobody disturbs, wherever it dies: nothing if it is
\* refused, and else its first changes.
Imported(s, w, i, dies) ==
    /\ ImportRefused(w, i) => s.stopped = TRUE /\ s.docs = w.docs /\ s.wrote = {}
    /\ ~ImportRefused(w, i) =>
         /\ s.stopped = FALSE
         /\ \E k \in 0..Len(Order) : /\ DocsAt(s.docs, w, Planned(w, i), k) /\ WroteAt(s.wrote, Planned(w, i), k)
                                     /\ dies = Steps => k = Len(Order)
LEMMA ImportIs ==
  ASSUME NEW C, Absent(C), NEW w \in Worlds(C), NEW i \in Imports(C), NEW dies \in 0..Steps
  PROVE  Import(w, i, NoRival, dies) \in ImportStates(C) /\ Imported(Import(w, i, NoRival, dies), w, i, dies)
<1> DEFINE s == Import(w, i, NoRival, dies)
           changes == Planned(w, i)
<1>1. ImportStart(w) \in ImportStates(C) /\ Undisturbed(ImportStart(w), w, changes, 0) BY StartIs
<1>2. PlanOf(changes, C, w) BY PlanIs
<1>3. NoRival \in Rivals(C) BY OrderIs DEF NoRival, Rivals
<1>4. CASE ImportRefused(w, i)
  <2>1. s = [ImportStart(w) EXCEPT !.stopped = TRUE] BY <1>4 DEF Import, ImportStart
  <2>2. s.stopped = TRUE /\ s.docs = w.docs /\ s.wrote = {} /\ s \in ImportStates(C)
    BY <1>1, <2>1 DEF ImportStart, ImportStates
  <2> HIDE DEF s
  <2> QED BY <1>4, <2>2 DEF Imported, s
<1>5. CASE ~ImportRefused(w, i)
  <2>1. s = ImportRun(ImportStart(w), changes, NoRival, dies) BY <1>5 DEF Import, ImportStart
  <2> HIDE DEF s, changes
  <2>2. changes \in [1..Len(Order) -> Changes(C)] BY <1>2 DEF PlanOf
  <2>3. PICK at : /\ RunsTo(at, ImportStart(w), changes, NoRival, dies)
                  /\ \A n \in 0..dies : at[n] \in ImportStates(C)
                  /\ ImportRun(ImportStart(w), changes, NoRival, dies) = at[dies]
    BY <1>1, <1>3, <2>2, ImportRunIs
  <2> DEFINE R == [n \in 0..dies |-> {x \in ImportStates(C) : Undisturbed(x, w, changes, n)}]
  <2>4. dies \in Nat /\ (\A n \in 1..dies : n \in 1..Steps /\ n \in 0..dies /\ n - 1 \in 0..dies) /\ 0 \in 0..dies /\ dies \in 0..dies
    BY AllOver
  <2>5. \A n \in 0..dies : at[n] \in R[n] <=> Undisturbed(at[n], w, changes, n) BY <2>3
  <2>6. at[0] \in R[0]
    <3>1. at[0] = ImportStart(w) BY <2>3 DEF RunsTo
    <3> HIDE DEF R
    <3> QED BY <1>1, <2>4, <2>5, <3>1
  <2>7. \A n \in 1..dies : at[n - 1] \in R[n - 1] => at[n] \in R[n]
    <3> SUFFICES ASSUME NEW n \in 1..dies, at[n - 1] \in R[n - 1] PROVE at[n] \in R[n] OBVIOUS
    <3> HIDE DEF R
    <3>1. n \in 1..Steps /\ n \in 0..dies /\ n - 1 \in 0..dies BY <2>4
    <3>2. Undisturbed(at[n - 1], w, changes, n - 1) /\ at[n - 1] \in ImportStates(C) BY <2>3, <2>5, <3>1
    <3>3. at[n] = NextIn(at[n - 1], changes, NoRival, n) BY <2>3 DEF RunsTo
    <3>4. Undisturbed(at[n], w, changes, n) BY <1>2, <3>1, <3>2, <3>3, UndisturbedSteps
    <3> QED BY <2>5, <3>1, <3>4
  <2>8. \A n \in 0..dies : at[n] \in R[n]
    <3> HIDE DEF R
    <3> QED BY <2>4, <2>6, <2>7, Stays
  <2>9. Undisturbed(s, w, changes, dies) /\ s \in ImportStates(C)
    <3> HIDE DEF R
    <3> QED BY <2>1, <2>3, <2>4, <2>5, <2>8
  <2>10. Over(dies) \in 0..Len(Order) /\ (dies = Steps => Over(dies) = Len(Order))
    <3>1. CASE dies = 0 BY <3>1, AllOver, OrderIs
    <3>2. CASE dies # 0
      <4>1. dies \in 1..Steps BY <2>4, <3>2
      <4> QED BY <4>1, StepNumbers, AllOver
    <3> QED BY <3>1, <3>2
  <2>11. Imported(s, w, i, dies)
    BY <1>5, <2>9, <2>10 DEF Imported, Undisturbed, changes
  <2> QED BY <2>9, <2>11 DEF s
<1> QED BY <1>4, <1>5

(***************************************************************************)
(* Knowledge: what an import keeps.                                        *)
(***************************************************************************)
\* An import that is not refused, change by change.
Fitting(w, i, k) ==
    LET changes == Planned(w, i)
        c == changes[k] IN
    /\ c.action # "none" => Order[k] \notin w.refusing
    /\ c.action # "conflict" /\ ~(i.editOnly /\ c.action = "create")
    /\ \A j \in 1..Len(Order) :
         changes[j].action # "none" /\ SameName(Order[j], Order[k]) => c.action = "none" /\ w.docs[Order[k]] = Unset
    /\ k # 1 /\ c.action \notin {"none", "skip"} /\ Effective(w, i) # Unset => Satisfies(c.content, Effective(w, i))
    /\ k # 1 /\ Due(changes[1]) /\ w.docs[Order[k]] # Unset /\ ~Due(c)
         => Satisfies(w.docs[Order[k]].content, Effective(w, i))

LEMMA RefusedIs ==
  ASSUME NEW C, Absent(C), NEW w \in Worlds(C), NEW i \in Imports(C)
  PROVE  ImportRefused(w, i) <=> \E k \in 1..Len(Order) : ~Fitting(w, i, k)
<1> DEFINE changes == Planned(w, i)
           refused(k) == \/ changes[k].action # "none" /\ Order[k] \in w.refusing
                         \/ changes[k].action = "conflict"
                         \/ i.editOnly /\ changes[k].action = "create"
           collides(k) == \E j \in 1..Len(Order) : /\ changes[j].action # "none" /\ SameName(Order[j], Order[k])
                                                   /\ (changes[k].action # "none" \/ w.docs[Order[k]] # Unset)
           unfit(k) == k # 1 /\ changes[k].action \notin {"none", "skip"} /\ Effective(w, i) # Unset
                       /\ ~Satisfies(changes[k].content, Effective(w, i))
           outdated(k) == k # 1 /\ Due(changes[1]) /\ w.docs[Order[k]] # Unset /\ ~Due(changes[k])
                          /\ ~Satisfies(w.docs[Order[k]].content, Effective(w, i))
<1>1. DOMAIN changes = 1..Len(Order) /\ \A k \in 1..Len(Order) : changes[k].path = Order[k]
  BY PlannedIs, OrderIs
<1>2. \A k \in 1..Len(Order) : Order[k] # Definition <=> k # 1 BY OrderIs
<1>3. (\E k \in DOMAIN changes : Due(changes[k]) /\ changes[k].path = Definition) <=> Due(changes[1])
  BY <1>1, <1>2, OrderIs
<1> HIDE DEF changes
<1>4. CaseCollides(w, changes) <=> \E k \in 1..Len(Order) : collides(k) BY <1>1 DEF CaseCollides
<1>5. Issues(w, i, changes) <=> \E k \in 1..Len(Order) : unfit(k) \/ outdated(k)
  <2>1. IssuesOfItems(w, i, changes) <=> \E k \in 1..Len(Order) : unfit(k) BY <1>1, <1>2 DEF IssuesOfItems
  <2>2. Issues(w, i, changes) <=> IssuesOfItems(w, i, changes) \/ \E k \in 1..Len(Order) : outdated(k)
    BY <1>1, <1>2, <1>3 DEF Issues
  <2> HIDE DEF unfit, outdated
  <2> QED BY <2>1, <2>2
<1>6. (\E k \in DOMAIN changes : \/ changes[k].action # "none" /\ Refusing(w, changes[k].path)
                                 \/ changes[k].action = "conflict"
                                 \/ i.editOnly /\ changes[k].action = "create")
      <=> \E k \in 1..Len(Order) : refused(k)
  BY <1>1 DEF Refusing
<1>7. ImportRefused(w, i) <=> \/ \E k \in 1..Len(Order) : refused(k)
                              \/ CaseCollides(w, changes) \/ Issues(w, i, changes)
  BY <1>6 DEF ImportRefused, changes
<1>8. \A k \in 1..Len(Order) : ~Fitting(w, i, k) <=> refused(k) \/ collides(k) \/ unfit(k) \/ outdated(k)
  <2> TAKE k \in 1..Len(Order)
  <2> QED BY DEF Fitting, changes
<1> HIDE DEF refused, collides, unfit, outdated
<1> QED BY <1>4, <1>5, <1>7, <1>8

\* The rules after the definition had its turn are the rules items were held to.
LEMMA RulesAfter ==
  ASSUME NEW C, Absent(C), NEW w \in Worlds(C), NEW i \in Imports(C), ~ImportRefused(w, i),
         NEW k \in 1..Len(Order), NEW docs, DocsAt(docs, w, Planned(w, i), k)
  PROVE  RulesOf(docs) = Effective(w, i)
<1> DEFINE c == Planned(w, i)[1]
           found == w.docs[Definition]
<1>1. /\ 1 \in 1..Len(Order) /\ Order[1] = Definition /\ Definition \in Paths /\ 1 <= k BY OrderIs
<1>2. found \in Entry(C) \cup {Unset} BY <1>1 DEF Worlds, Docs
<1>3. /\ c \in Changes(C) /\ c.content = i.rules /\ c.before = found /\ c.action = Answer(found, i.rules, i.conflict)
  <2>1. /\ c \in Changes(C) /\ c.content = Brings(i, Order[1]) /\ c.before = w.docs[Order[1]]
        /\ c.action = Answer(c.before, c.content, i.conflict)
    BY <1>1, PlannedIs
  <2> QED BY <1>1, <2>1 DEF Brings
<1>4. i.rules \in C \cup {Unset} /\ i.conflict \in {"fail", "skip", "replace"} BY DEF Imports
<1>5. c.action # "conflict"
  <2>1. Fitting(w, i, 1) BY <1>1, RefusedIs
  <2> QED BY <2>1 DEF Fitting
<1>6. docs[Definition] = IF Due(c) THEN Filed(found, c.content) ELSE found BY <1>1 DEF DocsAt, Filing
<1>7. found # Unset => found.content \in C /\ found.content # Unset BY <1>2 DEF Entry, Absent
<1> HIDE DEF c, found
<1>8. /\ c.action = "none" => i.rules = Unset
      /\ c.action = "create" => i.rules # Unset /\ found = Unset
      /\ c.action = "duplicate" => i.rules # Unset /\ found # Unset /\ found.content = i.rules
      /\ c.action = "skip" => i.rules # Unset /\ found # Unset /\ found.content # i.rules /\ i.conflict = "skip"
      /\ c.action = "replace" => i.rules # Unset /\ i.conflict = "replace"
      /\ c.action \in Actions
  <2>1. Answers(c.action, found, i.rules, i.conflict) BY <1>3, <1>4, AnswerIs
  <2> QED BY <2>1 DEF Answers
<1>9. CASE Due(c)
  <2>1. i.rules \in C BY <1>4, <1>8, <1>9 DEF Due
  <2>2. Filed(found, c.content) \in Entry(C) /\ Filed(found, c.content).content = i.rules
    <3>1. c.content \in C BY <1>3, <2>1
    <3>2. Filed(found, c.content) \in Entry(C) /\ Filed(found, c.content).content = c.content BY <1>2, <3>1, FiledIs
    <3> QED BY <1>3, <3>2
  <2>3. docs[Definition] = Filed(found, c.content) BY <1>6, <1>9
  <2>4. docs[Definition] # Unset BY <2>2, <2>3 DEF Absent
  <2>5. RulesOf(docs) = i.rules BY <2>2, <2>3, <2>4 DEF RulesOf
  <2>6. found = Unset \/ i.conflict # "skip" BY <1>8, <1>9 DEF Due
  <2>7. i.rules # Unset BY <1>8, <1>9 DEF Due
  <2>8. Effective(w, i) = i.rules BY <2>6, <2>7 DEF Effective, RulesOf, found
  <2> QED BY <2>5, <2>8
<1>10. CASE ~Due(c)
  <2>1. RulesOf(docs) = RulesOf(w.docs) BY <1>6, <1>10 DEF RulesOf, found
  <2>2. c.action \in {"none", "duplicate", "skip"} BY <1>5, <1>8, <1>10 DEF Due, Actions
  <2>3. CASE c.action = "none" BY <1>8, <2>1, <2>3 DEF Effective
  <2>4. CASE c.action = "duplicate"
    <3>1. RulesOf(w.docs) = i.rules /\ i.rules # Unset BY <1>8, <2>4 DEF RulesOf, found
    <3> QED BY <2>1, <3>1 DEF Effective
  <2>5. CASE c.action = "skip"
    <3>1. RulesOf(w.docs) = found.content BY <1>8, <2>5 DEF RulesOf, found
    <3>2. RulesOf(w.docs) \notin {Unset, i.rules} /\ i.conflict = "skip" BY <1>7, <1>8, <2>5, <3>1
    <3> QED BY <2>1, <3>2 DEF Effective
  <2> QED BY <2>2, <2>3, <2>4, <2>5
<1> QED BY <1>9, <1>10

\* The documents an import leaves keep the rules it leaves.
LEMMA ImportLeavesValid ==
  ASSUME NEW C, Absent(C), NEW w \in Worlds(C), NEW i \in Imports(C), ~ImportRefused(w, i), CollectionValid(w.docs),
         NEW docs, DocsAt(docs, w, Planned(w, i), Len(Order))
  PROVE  CollectionValid(docs)
<1> DEFINE E == Effective(w, i)
<1>1. Len(Order) \in 1..Len(Order) /\ 1 \in 1..Len(Order) /\ Order[1] = Definition BY OrderIs
<1>2. RulesOf(docs) = E BY <1>1, RulesAfter
<1> HIDE DEF E
<1> SUFFICES ASSUME NEW p \in Documents, docs[p] # Unset, E # Unset PROVE Satisfies(docs[p].content, E)
  BY <1>2 DEF CollectionValid
<1>3. PICK k \in 1..Len(Order) : Order[k] = p /\ k # 1 BY OrderIs DEF Documents
<1> DEFINE c == Planned(w, i)[k]
<1>4. Fitting(w, i, k) /\ Fitting(w, i, 1) BY <1>1, RefusedIs
<1>5. docs[p] = IF Due(c) THEN Filed(w.docs[p], c.content) ELSE w.docs[p]
  <2>1. k <= Len(Order) BY OrderIs
  <2> QED BY <1>3, <2>1 DEF DocsAt, Filing
<1>6. CASE Due(c)
  <2>1. c.action \notin {"none", "skip"} BY <1>6 DEF Due
  <2>2. Satisfies(c.content, E) BY <1>3, <1>4, <2>1 DEF Fitting, E
  <2>3. Filed(w.docs[p], c.content).content = c.content BY DEF Filed
  <2> QED BY <1>5, <1>6, <2>2, <2>3
<1>7. CASE ~Due(c)
  <2>1. docs[p] = w.docs[p] BY <1>5, <1>7
  <2>2. CASE Due(Planned(w, i)[1]) BY <1>3, <1>4, <1>7, <2>1, <2>2 DEF Fitting, E
  <2>3. CASE ~Due(Planned(w, i)[1])
    <3>1. 1 <= Len(Order) BY OrderIs
    <3>2. docs[Definition] = w.docs[Definition] BY <1>1, <2>3 DEF DocsAt, Filing
    <3>3. RulesOf(w.docs) = E BY <1>2, <3>2 DEF RulesOf
    <3> QED BY <2>1, <3>3 DEF CollectionValid
  <2> QED BY <2>2, <2>3
<1> QED BY <1>6, <1>7

LEMMA ImportKeeps ==
  ASSUME NEW C, Absent(C), NEW w \in Worlds(C), NEW i \in Imports(C), CollectionValid(w.docs)
  PROVE  LET s == Import(w, i, NoRival, Steps) IN
         /\ ~s.stopped => CollectionValid(s.docs)
         /\ ~s.stopped => \A p \in s.wrote, q \in Paths : SameName(p, q) => s.docs[q] = Unset
         /\ \A p \in Paths : (p \notin s.wrote \/ s.stopped) => s.docs[p] = w.docs[p]
<1> DEFINE s == Import(w, i, NoRival, Steps)
           changes == Planned(w, i)
           N == Len(Order)
<1>1. Steps \in 0..Steps /\ N \in 0..N BY AllOver, OrderIs
<1>2. s \in ImportStates(C) /\ Imported(s, w, i, Steps) BY <1>1, ImportIs
<1> SUFFICES /\ ~s.stopped => CollectionValid(s.docs)
             /\ ~s.stopped => \A p \in s.wrote, q \in Paths : SameName(p, q) => s.docs[q] = Unset
             /\ \A p \in Paths : (p \notin s.wrote \/ s.stopped) => s.docs[p] = w.docs[p]
  OBVIOUS
<1> HIDE DEF s
<1>3. CASE ImportRefused(w, i) BY <1>2, <1>3 DEF Imported
<1>4. CASE ~ImportRefused(w, i)
  <2>1. s.stopped = FALSE /\ DocsAt(s.docs, w, changes, N) /\ WroteAt(s.wrote, changes, N)
    BY <1>2, <1>4 DEF Imported
  <2>2. CollectionValid(s.docs) BY <1>4, <2>1, ImportLeavesValid
  <2>3. ASSUME NEW p \in s.wrote, NEW q \in Paths, SameName(p, q) PROVE s.docs[q] = Unset
    <3>1. p \in Paths BY <1>2 DEF ImportStates
    <3>2. PICK j \in 1..N : Order[j] = p BY <3>1, OrderIs
    <3>3. PICK k \in 1..N : Order[k] = q BY OrderIs
    <3>4. Due(changes[j]) BY <2>1, <3>2 DEF WroteAt
    <3>5. changes[j].action # "none" BY <3>4 DEF Due
    <3>6. Fitting(w, i, k) BY <1>4, RefusedIs
    <3>7. changes[k].action = "none" /\ w.docs[q] = Unset BY <2>3, <3>2, <3>3, <3>5, <3>6 DEF Fitting
    <3> QED BY <2>1, <3>3, <3>7 DEF DocsAt, Filing, Due
  <2>4. ASSUME NEW p \in Paths, p \notin s.wrote PROVE s.docs[p] = w.docs[p]
    <3>1. PICK j \in 1..N : Order[j] = p BY OrderIs
    <3>2. j <= N BY OrderIs
    <3>3. ~Due(changes[j]) BY <2>1, <2>4, <3>1, <3>2 DEF WroteAt
    <3> QED BY <2>1, <3>1, <3>3 DEF DocsAt, Filing
  <2> QED BY <2>1, <2>2, <2>3, <2>4
<1> QED BY <1>3, <1>4

\* What the same import plans after its first changes landed.
LEMMA PlannedAgain ==
  ASSUME NEW C, Absent(C), NEW w \in Worlds(C), NEW i \in Imports(C), ~ImportRefused(w, i),
         NEW k \in 0..Len(Order), NEW v \in Worlds(C), v.refusing = w.refusing, DocsAt(v.docs, w, Planned(w, i), k),
         NEW j \in 1..Len(Order)
  PROVE  LET c == Planned(w, i)[j]
             again == Planned(v, i)[j] IN
         /\ again.content = c.content
         /\ j <= k /\ Due(c) => again.action = "duplicate" /\ v.docs[Order[j]] # Unset
         /\ ~(j <= k /\ Due(c)) => again.action = c.action /\ v.docs[Order[j]] = w.docs[Order[j]]
<1> DEFINE c == Planned(w, i)[j]
           again == Planned(v, i)[j]
           p == Order[j]
<1>1. /\ c \in Changes(C) /\ c.content = Brings(i, p) /\ c.before = w.docs[p] /\ c.action = Answer(c.before, c.content, i.conflict)
      /\ again \in Changes(C) /\ again.content = Brings(i, p) /\ again.before = v.docs[p]
      /\ again.action = Answer(again.before, again.content, i.conflict)
  BY PlannedIs
<1>2. p \in Paths /\ w.docs[p] \in Entry(C) \cup {Unset} /\ i.conflict \in {"fail", "skip", "replace"}
  BY OrderIs DEF Worlds, Docs, Imports
<1>3. v.docs[p] = Filing(w, Planned(w, i), k, j) BY DEF DocsAt
<1> SUFFICES /\ again.content = c.content
             /\ j <= k /\ Due(c) => again.action = "duplicate" /\ v.docs[p] # Unset
             /\ ~(j <= k /\ Due(c)) => again.action = c.action /\ v.docs[p] = w.docs[p]
  OBVIOUS
<1>4. CASE j <= k /\ Due(c)
  <2>1. c.content \in C BY <1>1, <1>4 DEF Due, Changes
  <2>2. v.docs[p] = Filed(w.docs[p], c.content) BY <1>3, <1>4 DEF Filing
  <2>3. v.docs[p] # Unset /\ v.docs[p].content = c.content /\ c.content # Unset
    <3> HIDE DEF c
    <3> QED BY <1>2, <2>1, <2>2, FiledIs DEF Absent
  <2>4. again.action = "duplicate"
    <3>1. again.action = Answer(v.docs[p], c.content, i.conflict) BY <1>1
    <3> HIDE DEF c, again
    <3>2. Answers(again.action, v.docs[p], c.content, i.conflict) BY <1>2, <3>1, AnswerIs
    <3> QED BY <2>3, <3>2 DEF Answers
  <2> HIDE DEF c, again
  <2> QED BY <1>1, <1>4, <2>3, <2>4
<1>5. CASE ~(j <= k /\ Due(c))
  <2>1. v.docs[p] = w.docs[p] BY <1>3, <1>5 DEF Filing
  <2> HIDE DEF c, again
  <2> QED BY <1>1, <1>5, <2>1
<1> QED BY <1>4, <1>5

\* The first changes of an import that died stay what it would have made of them.
LEMMA AgainFits ==
  ASSUME NEW C, Absent(C), NEW w \in Worlds(C), NEW i \in Imports(C), ~ImportRefused(w, i),
         NEW k \in 0..Len(Order), NEW v \in Worlds(C), v.refusing = w.refusing, DocsAt(v.docs, w, Planned(w, i), k)
  PROVE  ~ImportRefused(v, i)
<1> DEFINE N == Len(Order)
           c(j) == Planned(w, i)[j]
           again(j) == Planned(v, i)[j]
           E == Effective(w, i)
<1>1. \A j \in 1..N : /\ again(j).content = c(j).content
                      /\ j <= k /\ Due(c(j)) => again(j).action = "duplicate" /\ v.docs[Order[j]] # Unset
                      /\ ~(j <= k /\ Due(c(j))) => again(j).action = c(j).action /\ v.docs[Order[j]] = w.docs[Order[j]]
  BY PlannedAgain
<1>2. \A j \in 1..N : Fitting(w, i, j) BY RefusedIs
<1>3. 1 \in 1..N /\ Order[1] = Definition BY OrderIs
<1>4. Effective(v, i) = E
  <2>1. CASE k = 0
    <3>1. ~(1 <= k) BY <2>1
    <3>2. v.docs[Definition] = w.docs[Definition] BY <1>1, <1>3, <3>1
    <3> QED BY <3>2 DEF Effective, RulesOf
  <2>2. CASE k # 0
    <3>1. k \in 1..N BY <2>2, OrderIs
    <3>2. RulesOf(v.docs) = E BY <3>1, RulesAfter
    <3>3. E = i.rules \/ (E = RulesOf(w.docs)
                          /\ (i.rules = Unset \/ (RulesOf(w.docs) \notin {Unset, i.rules} /\ i.conflict = "skip")))
      BY DEF Effective
    <3> HIDE DEF E
    <3> QED BY <3>2, <3>3 DEF Effective
  <2> QED BY <2>1, <2>2
<1>5. ASSUME NEW j \in 1..N PROVE Fitting(v, i, j)
  <2>0. /\ again(j).content = c(j).content
        /\ j <= k /\ Due(c(j)) => again(j).action = "duplicate" /\ v.docs[Order[j]] # Unset
        /\ ~(j <= k /\ Due(c(j))) => again(j).action = c(j).action /\ v.docs[Order[j]] = w.docs[Order[j]]
    BY <1>1
  <2>1. /\ c(j).action # "none" => Order[j] \notin w.refusing
        /\ c(j).action # "conflict" /\ ~(i.editOnly /\ c(j).action = "create")
    BY <1>2 DEF Fitting
  <2>2. again(j).action # "none" => c(j).action # "none" BY <2>0 DEF Due
  <2>3. again(j).action # "none" => Order[j] \notin v.refusing BY <2>1, <2>2
  <2>4. again(j).action # "conflict" /\ ~(i.editOnly /\ again(j).action = "create") BY <2>0, <2>1
  <2>5. \A m \in 1..N : again(m).action # "none" /\ SameName(Order[m], Order[j])
                        => again(j).action = "none" /\ v.docs[Order[j]] = Unset
    <3> SUFFICES ASSUME NEW m \in 1..N, again(m).action # "none", SameName(Order[m], Order[j])
                 PROVE  again(j).action = "none" /\ v.docs[Order[j]] = Unset
      OBVIOUS
    <3>1. c(m).action # "none" BY <1>1 DEF Due
    <3>2. c(j).action = "none" /\ w.docs[Order[j]] = Unset BY <1>2, <3>1 DEF Fitting
    <3>3. ~Due(c(j)) BY <3>2 DEF Due
    <3> QED BY <2>0, <3>2, <3>3
  <2>6. j # 1 /\ again(j).action \notin {"none", "skip"} /\ E # Unset => Satisfies(again(j).content, E)
    <3>1. again(j).action \notin {"none", "skip"} => c(j).action \notin {"none", "skip"} BY <2>0 DEF Due
    <3>2. j # 1 /\ c(j).action \notin {"none", "skip"} /\ E # Unset => Satisfies(c(j).content, E) BY <1>2 DEF Fitting
    <3> HIDE DEF c, again, E
    <3> QED BY <2>0, <3>1, <3>2
  <2>7. j # 1 /\ Due(again(1)) /\ v.docs[Order[j]] # Unset /\ ~Due(again(j)) => Satisfies(v.docs[Order[j]].content, E)
    <3> SUFFICES ASSUME j # 1, Due(again(1)), v.docs[Order[j]] # Unset, ~Due(again(j))
                 PROVE  Satisfies(v.docs[Order[j]].content, E)
      OBVIOUS
    <3>1. ~(1 <= k /\ Due(c(1))) BY <1>1, <1>3 DEF Due
    <3>2. Due(c(1)) BY <1>1, <1>3, <3>1 DEF Due
    <3>3. ~(1 <= k) BY <3>1, <3>2
    <3>4. ~(j <= k) BY <3>3, OrderIs
    <3>5. again(j).action = c(j).action /\ v.docs[Order[j]] = w.docs[Order[j]] BY <2>0, <3>4
    <3>6. ~Due(c(j)) BY <3>5 DEF Due
    <3>7. Satisfies(w.docs[Order[j]].content, E) BY <1>2, <3>2, <3>5, <3>6 DEF Fitting
    <3> QED BY <3>5, <3>7
  <2> HIDE DEF E
  <2> QED BY <1>4, <2>3, <2>4, <2>5, <2>6, <2>7 DEF Fitting
<1> QED BY <1>5, RefusedIs

LEMMA ImportAgain ==
  ASSUME NEW C, Absent(C), NEW w \in Worlds(C), NEW i \in Imports(C), NEW dies \in 0..Steps
  PROVE  LET whole == Import(w, i, NoRival, Steps)
             part == Import(w, i, NoRival, dies)
             again == Import([w EXCEPT !.docs = part.docs], i, NoRival, Steps) IN
         ~whole.stopped => ~again.stopped /\ again.docs = whole.docs
<1> DEFINE whole == Import(w, i, NoRival, Steps)
           part == Import(w, i, NoRival, dies)
           v == [w EXCEPT !.docs = part.docs]
           again == Import(v, i, NoRival, Steps)
           N == Len(Order)
<1>1. Steps \in 0..Steps /\ N \in 1..N BY AllOver, OrderIs
<1>2. whole \in ImportStates(C) /\ Imported(whole, w, i, Steps) BY <1>1, ImportIs
<1>3. part \in ImportStates(C) /\ Imported(part, w, i, dies) BY ImportIs
<1> HIDE DEF part
<1>4. v \in Worlds(C) /\ v.refusing = w.refusing /\ v.docs = part.docs BY <1>3 DEF Worlds, ImportStates
<1> HIDE DEF v
<1>5. again \in ImportStates(C) /\ Imported(again, v, i, Steps) BY <1>1, <1>4, ImportIs
<1> SUFFICES ASSUME ~whole.stopped PROVE ~again.stopped /\ again.docs = whole.docs BY DEF v, part
<1> HIDE DEF whole, again
<1>6. ~ImportRefused(w, i) BY <1>2 DEF Imported
<1>7. DocsAt(whole.docs, w, Planned(w, i), N) BY <1>2, <1>6 DEF Imported
<1>8. PICK k \in 0..N : DocsAt(v.docs, w, Planned(w, i), k) BY <1>3, <1>4, <1>6 DEF Imported
<1>9. ~ImportRefused(v, i) BY <1>4, <1>6, <1>8, AgainFits
<1>10. again.stopped = FALSE /\ DocsAt(again.docs, v, Planned(v, i), N) BY <1>5, <1>9 DEF Imported
<1>11. ASSUME NEW j \in 1..N PROVE again.docs[Order[j]] = whole.docs[Order[j]]
  <2> DEFINE c == Planned(w, i)[j]
             d == Planned(v, i)[j]
  <2>1. /\ d.content = c.content
        /\ j <= k /\ Due(c) => d.action = "duplicate"
        /\ ~(j <= k /\ Due(c)) => d.action = c.action /\ v.docs[Order[j]] = w.docs[Order[j]]
    BY <1>4, <1>6, <1>8, PlannedAgain
  <2>2. j <= N BY OrderIs
  <2>3. again.docs[Order[j]] = IF Due(d) THEN Filed(v.docs[Order[j]], d.content) ELSE v.docs[Order[j]]
    BY <1>10, <2>2 DEF DocsAt, Filing
  <2>4. whole.docs[Order[j]] = IF Due(c) THEN Filed(w.docs[Order[j]], c.content) ELSE w.docs[Order[j]]
    BY <1>7, <2>2 DEF DocsAt, Filing
  <2>5. v.docs[Order[j]] = IF j <= k /\ Due(c) THEN Filed(w.docs[Order[j]], c.content) ELSE w.docs[Order[j]]
    BY <1>8 DEF DocsAt, Filing
  <2> HIDE DEF c, d
  <2>6. CASE j <= k /\ Due(c)
    <3>1. ~Due(d) BY <2>1, <2>6 DEF Due
    <3> QED BY <2>3, <2>4, <2>5, <2>6, <3>1
  <2>7. CASE ~(j <= k /\ Due(c))
    <3>1. Due(d) <=> Due(c) BY <2>1, <2>7 DEF Due
    <3> QED BY <2>1, <2>3, <2>4, <2>7, <3>1
  <2> QED BY <2>6, <2>7
<1>12. again.docs \in [Paths -> Entry(C) \cup {Unset}] /\ whole.docs \in [Paths -> Entry(C) \cup {Unset}]
  BY <1>2, <1>5 DEF ImportStates, Docs
<1>13. \A p \in Paths : again.docs[p] = whole.docs[p] BY <1>11, OrderIs
<1> QED BY <1>10, <1>12, <1>13

\* What another process wrote, from the step before which it wrote it.
Stands(s, w, changes, k, E, n) ==
    /\ s.docs[Order[k]] = E
    /\ E = w.docs[Order[k]] => k <= Over(n)
    /\ n > Len(Order) /\ Does(n) = "check" /\ Which(n) = k /\ Due(changes[k]) => s.stopped

LEMMA RivalStands ==
  ASSUME NEW C, NEW w \in Worlds(C), NEW changes, PlanOf(changes, C, w), NEW n \in 1..Steps, NEW k \in 1..Len(Order),
         NEW E \in Entry(C), NEW s \in ImportStates(C), s.docs[Order[k]] = E,
         E = w.docs[Order[k]] => k <= Over(n - 1),
         Does(n) # "check" /\ Which(n) = k /\ Due(changes[k])
           => s.stopped \/ (s.read # Unset /\ s.read.version # E.version)
  PROVE  Stands(Step(s, Does(n), changes[Which(n)]), w, changes, k, E, n)
<1> DEFINE m == Which(n)
           c == changes[m]
           t == Step(s, Does(n), c)
           q == Order[k]
<1>1. /\ m \in 1..Len(Order) /\ c \in Changes(C) /\ c.path = Order[m] /\ c.before = w.docs[Order[m]]
      /\ Over(n) \in Nat /\ Over(n - 1) \in Nat /\ Over(n - 1) <= Over(n)
      /\ n > Len(Order) /\ Does(n) = "check" => Over(n) = m - 1
  <2>1. m \in 1..Len(Order) /\ Over(n) \in 0..Len(Order) /\ Over(n - 1) \in 0..Len(Order) BY StepNumbers
  <2>2. Over(n - 1) <= Over(n)
    <3>1. n \in Nat /\ Len(Order) \in Nat BY OrderIs, AllOver
    <3>2. n <= Len(Order) => Over(n) = 0 /\ Over(n - 1) = 0 BY StepNumbers
    <3>3. n > Len(Order) /\ Does(n) = "check" => Over(n - 1) = Over(n) BY StepNumbers
    <3>4. Does(n) # "check" => Over(n) = m /\ Over(n - 1) = m - 1 BY StepNumbers
    <3>5. n <= Len(Order) \/ n > Len(Order) BY <3>1
    <3> HIDE DEF m
    <3> QED BY <2>1, <3>1, <3>2, <3>3, <3>4, <3>5
  <2>3. n > Len(Order) /\ Does(n) = "check" => Over(n) = m - 1 BY StepNumbers
  <2> QED BY <2>1, <2>2, <2>3 DEF PlanOf
<1>2. E = w.docs[q] => k <= Over(n) BY <1>1
<1>3. q \in Paths /\ Order[m] \in Paths /\ (m # k => Order[m] # q) /\ s.docs \in Docs(C) BY <1>1, OrderIs DEF ImportStates
<1>4. t.docs[q] = E
  <2>1. CASE s.stopped \/ ~Due(c) BY <2>1 DEF Step
  <2>2. CASE ~s.stopped /\ Due(c) /\ Does(n) = "check"
    <3>1. t = Checked(s, c) BY <2>2 DEF Step
    <3>2. t.docs = s.docs BY <3>1 DEF Checked, ImportStates
    <3> QED BY <3>2
  <2>3. CASE ~s.stopped /\ Due(c) /\ Does(n) # "check"
    <3>1. t = Wrote(s, c) BY <2>3 DEF Step
    <3>2. CASE m = k
      <4>1. s.docs[c.path].version = E.version /\ s.read # Unset /\ s.read.version # E.version
        BY <1>1, <2>3, <3>2
      <4>2. t = [s EXCEPT !.stopped = TRUE] BY <3>1, <4>1 DEF Wrote
      <4> QED BY <4>2 DEF ImportStates
    <3>3. CASE m # k
      <4>1. c.content \in C BY <1>1, <2>3 DEF Due, Changes
      <4>2. Put(s.docs, Order[m], c.content)[q] = s.docs[q] BY <1>3, <3>3, <4>1, PutIs
      <4>3. t.docs = s.docs \/ t.docs = Put(s.docs, Order[m], c.content) BY <1>1, <3>1 DEF Wrote, ImportStates
      <4> QED BY <4>2, <4>3
    <3> QED BY <3>2, <3>3
  <2> QED BY <2>1, <2>2, <2>3
<1>5. n > Len(Order) /\ Does(n) = "check" /\ m = k /\ Due(changes[k]) => t.stopped
  <2> SUFFICES ASSUME n > Len(Order), Does(n) = "check", m = k, Due(changes[k]), ~s.stopped PROVE t.stopped
    BY DEF Step
  <2>1. t = Checked(s, c) BY DEF Step
  <2>2. ~(k <= Over(n)) BY <1>1
  <2>3. s.docs[c.path] # c.before BY <1>1, <1>2, <2>2
  <2>4. t = [s EXCEPT !.stopped = TRUE] BY <2>1, <2>3 DEF Checked
  <2> QED BY <2>4 DEF ImportStates
<1> HIDE DEF t
<1> QED BY <1>2, <1>4, <1>5 DEF Stands, t

LEMMA ImportMeetsRival ==
  ASSUME NEW C, Absent(C), NEW w \in Worlds(C), NEW i \in Imports(C), ~ImportRefused(w, i),
         NEW rival \in Rivals(C), rival.at \in 1..Steps, w.docs[rival.path] # Unset
  PROVE  Import(w, i, rival, Steps).docs[rival.path].content = rival.content
<1> DEFINE s == Import(w, i, rival, Steps)
           changes == Planned(w, i)
           m == rival.at
           N == Len(Order)
<1>1. ImportStart(w) \in ImportStates(C) /\ Undisturbed(ImportStart(w), w, changes, 0) BY StartIs
<1>2. PlanOf(changes, C, w) BY PlanIs
<1>3. s = ImportRun(ImportStart(w), changes, rival, Steps) BY DEF Import, ImportStart
<1> HIDE DEF s, changes
<1>4. Steps \in 0..Steps /\ Steps \in Nat /\ changes \in [1..N -> Changes(C)] BY <1>2, AllOver DEF PlanOf
<1>5. PICK at : /\ RunsTo(at, ImportStart(w), changes, rival, Steps)
                /\ \A n \in 0..Steps : at[n] \in ImportStates(C)
                /\ ImportRun(ImportStart(w), changes, rival, Steps) = at[Steps]
  BY <1>1, <1>4, ImportRunIs
<1>6. at[0] = ImportStart(w) /\ \A n \in 1..Steps : at[n] = NextIn(at[n - 1], changes, rival, n) BY <1>5 DEF RunsTo
<1>7. PICK k \in 1..N : Order[k] = rival.path BY OrderIs DEF Rivals
<1> DEFINE q == Order[k]
           found == at[m - 1].docs[q]
           E == Filed(found, rival.content)
<1>8. m \in Nat /\ m # 0 /\ m - 1 \in 0..Steps /\ m \in 1..Steps /\ rival.content \in C BY <1>4 DEF Rivals
<1>9. /\ q \in Paths /\ w.docs[q] # Unset /\ w.docs[q] \in Entry(C) /\ w.docs[q].version \in Nat
  BY <1>7, OrderIs DEF Worlds, Docs, Entry
<1> DEFINE R == [n \in 0..Steps |->
                   {x \in ImportStates(C) : IF n < m THEN Undisturbed(x, w, changes, n) ELSE Stands(x, w, changes, k, E, n)}]
<1>10. \A n \in 0..Steps : at[n] \in R[n] <=> IF n < m THEN Undisturbed(at[n], w, changes, n) ELSE Stands(at[n], w, changes, k, E, n)
  <2> HIDE DEF E
  <2> QED BY <1>5
<1>11. at[0] \in R[0]
  <2>1. 0 \in 0..Steps /\ 0 < m BY <1>4, <1>8
  <2> HIDE DEF R
  <2> QED BY <1>1, <1>6, <1>10, <2>1
<1>12. ASSUME NEW n \in 1..Steps, at[n - 1] \in R[n - 1] PROVE at[n] \in R[n]
  <2>1. /\ n \in 0..Steps /\ n - 1 \in 0..Steps /\ at[n - 1] \in ImportStates(C) /\ n \in Nat
        /\ at[n] = NextIn(at[n - 1], changes, rival, n)
    BY <1>4, <1>5, <1>6
  <2>2. CASE n < m
    <3>1. n - 1 < m /\ rival.at # n BY <1>8, <2>1, <2>2
    <3>2. Undisturbed(at[n - 1], w, changes, n - 1)
      <4> HIDE DEF R
      <4> QED BY <1>10, <1>12, <2>1, <3>1
    <3>3. NextIn(at[n - 1], changes, rival, n) = NextIn(at[n - 1], changes, NoRival, n)
      <4>1. NoRival.at # n BY <1>4 DEF NoRival
      <4> QED BY <3>1, <4>1 DEF NextIn, Rivalled
    <3>4. Undisturbed(at[n], w, changes, n) BY <1>2, <2>1, <3>2, <3>3, UndisturbedSteps
    <3> HIDE DEF R
    <3> QED BY <1>10, <2>1, <2>2, <3>4
  <2>3. CASE n = m
    <3> DEFINE x == Rivalled(at[n - 1], rival, n)
    <3>1. Undisturbed(at[n - 1], w, changes, n - 1)
      <4>1. n - 1 < m BY <1>8, <2>1, <2>3
      <4> HIDE DEF R
      <4> QED BY <1>10, <1>12, <2>1, <4>1
    <3>2. at[n - 1].docs \in Docs(C) /\ found \in Entry(C) \cup {Unset} /\ found = at[n - 1].docs[q]
      BY <1>9, <2>1, <2>3 DEF ImportStates, Docs
    <3>3. E \in Entry(C) /\ E.content = rival.content
      <4> HIDE DEF found
      <4> QED BY <1>8, <3>2, FiledIs
    <3>4. found = Filing(w, changes, Over(n - 1), k) BY <3>1, <3>2 DEF Undisturbed, DocsAt
    <3>5. ~(k <= Over(n - 1)) => found = w.docs[q] /\ E.version = w.docs[q].version + 1
      <4>1. ~(k <= Over(n - 1)) => found = w.docs[q] BY <3>4 DEF Filing
      <4> HIDE DEF found
      <4> QED BY <1>9, <4>1 DEF Filed
    <3>6. x = [at[n - 1] EXCEPT !.docs = Put(@, q, rival.content)] BY <1>7, <2>3 DEF Rivalled
    <3>7. /\ x.docs = Put(at[n - 1].docs, q, rival.content) /\ x.read = at[n - 1].read
          /\ x.stopped = at[n - 1].stopped
      BY <2>1, <3>6 DEF ImportStates
    <3>8. Put(at[n - 1].docs, q, rival.content)[q] = E
      <4>1. Put(at[n - 1].docs, q, rival.content)[q] = Filed(at[n - 1].docs[q], rival.content)
        BY <1>8, <1>9, <3>2, PutIs
      <4> QED BY <3>2, <4>1
    <3>9. x \in ImportStates(C) BY <1>8, <2>1, <2>3, RivalledTyped
    <3> HIDE DEF E, found, x
    <3>10. E = w.docs[q] => k <= Over(n - 1) BY <1>9, <3>5
    <3>11. Does(n) # "check" /\ Which(n) = k /\ Due(changes[k]) => x.read # Unset /\ x.read.version # E.version
      <4> SUFFICES ASSUME Does(n) # "check", Which(n) = k, Due(changes[k])
                   PROVE  x.read # Unset /\ x.read.version # E.version
        OBVIOUS
      <4>1. n - 1 > N /\ Does(n - 1) = "check" /\ Which(n - 1) = k /\ Over(n - 1) = k - 1 BY StepNumbers
      <4>2. at[n - 1].read = w.docs[q] BY <3>1, <4>1 DEF Undisturbed
      <4>3. ~(k <= Over(n - 1)) BY <4>1
      <4> QED BY <1>9, <3>5, <3>7, <4>2, <4>3
    <3>12. Stands(Step(x, Does(n), changes[Which(n)]), w, changes, k, E, n)
      BY <1>2, <3>3, <3>7, <3>8, <3>9, <3>10, <3>11, RivalStands
    <3>13. Stands(at[n], w, changes, k, E, n) BY <2>1, <3>12 DEF NextIn, x
    <3>14. ~(n < m) BY <1>8, <2>1, <2>3
    <3> HIDE DEF R
    <3> QED BY <1>10, <2>1, <3>13, <3>14
  <2>4. CASE n > m
    <3>1. ~(n - 1 < m) /\ ~(n < m) /\ rival.at # n BY <1>8, <2>1, <2>4
    <3>2. Stands(at[n - 1], w, changes, k, E, n - 1)
      <4> HIDE DEF R, E
      <4> QED BY <1>10, <1>12, <2>1, <3>1
    <3>3. at[n] = Step(at[n - 1], Does(n), changes[Which(n)]) BY <2>1, <3>1 DEF NextIn, Rivalled
    <3>4. E \in Entry(C)
      <4>1. found \in Entry(C) \cup {Unset} BY <1>5, <1>8, <1>9 DEF ImportStates, Docs
      <4> HIDE DEF found
      <4> QED BY <1>8, <4>1, FiledIs
    <3> HIDE DEF E
    <3>5. Does(n) # "check" /\ Which(n) = k /\ Due(changes[k]) => at[n - 1].stopped BY <3>2, StepNumbers DEF Stands
    <3>6. Stands(at[n], w, changes, k, E, n) BY <1>2, <2>1, <3>2, <3>3, <3>4, <3>5, RivalStands DEF Stands
    <3> HIDE DEF R
    <3> QED BY <1>10, <2>1, <3>1, <3>6
  <2> QED BY <1>8, <2>1, <2>2, <2>3, <2>4
<1>13. \A n \in 0..Steps : at[n] \in R[n]
  <2> HIDE DEF R
  <2> QED BY <1>4, <1>11, <1>12, Stays
<1>14. Stands(s, w, changes, k, E, Steps)
  <2>1. ~(Steps < m) BY <1>4, <1>8
  <2> HIDE DEF R, E
  <2> QED BY <1>3, <1>4, <1>5, <1>10, <1>13, <2>1
<1>15. E.content = rival.content BY DEF Filed
<1> HIDE DEF E
<1> QED BY <1>7, <1>14, <1>15 DEF Stands, s

(***************************************************************************)
(* Knowledge: bundles.                                                     *)
(***************************************************************************)
Named(docs) == {p \in Documents : docs[p] # Unset}
Contents(docs) == [p \in Named(docs) |-> docs[p].content]
LEMMA LoadIs ==
  ASSUME NEW docs, NEW lost, NEW swap, Load(Damaged(Export(docs), lost, swap)) # Unset
  PROVE  /\ Load(Damaged(Export(docs), lost, swap)) = Contents(docs)
         /\ \A p, q \in Named(docs) : ~SameName(p, q)
         /\ DOMAIN Export(docs).records = Named(docs) /\ Export(docs).rules = RulesOf(docs)
<1> DEFINE b == Damaged(Export(docs), lost, swap)
           records == [p \in Named(docs) |-> [file |-> p, digest |-> docs[p].content]]
           exported == [p \in Named(docs) |-> docs[p].content]
           files == [f \in DOMAIN exported \ lost |->
                       IF f = swap[1] /\ swap[2] \in DOMAIN exported THEN exported[swap[2]] ELSE exported[f]]
<1>1. Export(docs) = [records |-> records, files |-> exported, rules |-> RulesOf(docs)] BY DEF Export, Named
<1>2. b.records = records /\ b.files = files
  <2>1. b = [Export(docs) EXCEPT !.files = files]
    <3>1. Export(docs).files = exported BY <1>1
    <3> HIDE DEF exported
    <3> QED BY <3>1 DEF Damaged
  <2> HIDE DEF b, files, records, exported
  <2> QED BY <1>1, <2>1
<1>3. Export(docs).records = records /\ Export(docs).rules = RulesOf(docs)
  <2> HIDE DEF records, exported
  <2> QED BY <1>1
<1>4. DOMAIN records = Named(docs) /\ \A p \in Named(docs) : records[p].file = p /\ records[p].digest = docs[p].content
  OBVIOUS
<1> HIDE DEF b, files, records, exported
<1>5. DOMAIN b.records = Named(docs) /\ \A p \in Named(docs) : b.records[p].file = p /\ b.records[p].digest = docs[p].content
  BY <1>2, <1>4
<1>6. /\ Load(b) = [p \in DOMAIN b.records |-> b.files[b.records[p].file]]
      /\ \A p \in DOMAIN b.records : /\ b.files[b.records[p].file] = b.records[p].digest
                                     /\ ~\E q \in DOMAIN b.records : SameName(p, q)
  <2>1. Load(b) # Unset BY DEF b
  <2> QED BY <2>1 DEF Load
<1>7. Load(b) = [p \in Named(docs) |-> docs[p].content] BY <1>5, <1>6
<1> QED BY <1>3, <1>4, <1>5, <1>6, <1>7 DEF Contents, b

\* An import of a whole collection into an empty place.
EmptyPlace == [docs |-> [p \in Paths |-> Unset], refusing |-> {}]
Bringing(docs) ==
    [rules |-> RulesOf(docs), conflict |-> "fail", editOnly |-> FALSE,
     items |-> [p \in Documents |-> IF p \in Named(docs) THEN docs[p].content ELSE Unset]]

LEMMA BringingIs ==
  ASSUME NEW C, Absent(C), NEW docs \in Docs(C)
  PROVE  /\ EmptyPlace \in Worlds(C) /\ Bringing(docs) \in Imports(C)
         /\ \A k \in 1..Len(Order) : LET c == Planned(EmptyPlace, Bringing(docs))[k] IN
              /\ c.content = IF docs[Order[k]] = Unset THEN Unset ELSE docs[Order[k]].content
              /\ c.action = IF docs[Order[k]] = Unset THEN "none" ELSE "create"
<1> DEFINE i == Bringing(docs)
<1>1. EmptyPlace \in Worlds(C) /\ \A p \in Paths : EmptyPlace.docs[p] = Unset BY DEF EmptyPlace, Worlds, Docs
<1>2. Definition \in Paths BY OrderIs
<1>3. \A p \in Paths : docs[p] # Unset => docs[p].content \in C /\ docs[p].content # Unset BY DEF Docs, Entry, Absent
<1>4. RulesOf(docs) \in C \cup {Unset} BY <1>2, <1>3 DEF RulesOf
<1>5. i.items \in [Documents -> C \cup {Unset}] BY <1>3 DEF Bringing, Named, Documents
<1>6. i \in Imports(C) /\ i.rules = RulesOf(docs) /\ i.conflict = "fail" BY <1>4, <1>5 DEF Bringing, Imports
<1>7. \A p \in Documents : i.items[p] = IF docs[p] = Unset THEN Unset ELSE docs[p].content BY DEF Bringing, Named
<1> HIDE DEF i
<1>8. ASSUME NEW k \in 1..Len(Order)
      PROVE  LET c == Planned(EmptyPlace, i)[k] IN
             /\ c.content = IF docs[Order[k]] = Unset THEN Unset ELSE docs[Order[k]].content
             /\ c.action = IF docs[Order[k]] = Unset THEN "none" ELSE "create"
  <2> DEFINE c == Planned(EmptyPlace, i)[k]
             p == Order[k]
  <2>1. p \in Paths BY OrderIs
  <2>2. /\ c.content = Brings(i, p) /\ c.before = EmptyPlace.docs[p] /\ c.action = Answer(c.before, c.content, i.conflict)
    BY <1>1, <1>6, PlannedIs
  <2> SUFFICES /\ c.content = IF docs[p] = Unset THEN Unset ELSE docs[p].content
               /\ c.action = IF docs[p] = Unset THEN "none" ELSE "create"
    OBVIOUS
  <2> HIDE DEF c, p
  <2>3. c.content = IF docs[p] = Unset THEN Unset ELSE docs[p].content
    <3>1. CASE p = Definition BY <1>6, <2>2, <3>1 DEF Brings, RulesOf
    <3>2. CASE p # Definition
      <4>1. p \in Documents BY <2>1, <3>2 DEF Documents
      <4> QED BY <1>7, <2>2, <3>2, <4>1 DEF Brings
    <3> QED BY <3>1, <3>2
  <2>4. c.before = Unset BY <1>1, <2>1, <2>2
  <2>5. Answers(c.action, Unset, c.content, "fail") BY <1>6, <2>2, <2>4, AnswerIs
  <2> QED BY <1>3, <2>1, <2>3, <2>5 DEF Answers
<1> QED BY <1>1, <1>6, <1>8 DEF i

LEMMA BringingFits ==
  ASSUME NEW C, Absent(C), NEW docs \in Docs(C), CollectionValid(docs), \A p, q \in Named(docs) : ~SameName(p, q)
  PROVE  ~ImportRefused(EmptyPlace, Bringing(docs))
<1> DEFINE i == Bringing(docs)
           w == EmptyPlace
           c(k) == Planned(w, i)[k]
           N == Len(Order)
<1>1. w \in Worlds(C) /\ i \in Imports(C) BY BringingIs
<1>2. w.refusing = {} /\ i.editOnly = FALSE /\ i.rules = RulesOf(docs) /\ \A p \in Paths : w.docs[p] = Unset
  BY DEF Bringing, EmptyPlace
<1>3. \A k \in 1..N : /\ c(k).content = IF docs[Order[k]] = Unset THEN Unset ELSE docs[Order[k]].content
                      /\ c(k).action = IF docs[Order[k]] = Unset THEN "none" ELSE "create"
  BY BringingIs
<1>4. Definition \in Paths /\ \A k \in 1..N : Order[k] \in Paths /\ (k # 1 => Order[k] \in Documents) BY OrderIs DEF Documents
<1>5. Effective(w, i) = RulesOf(docs) BY <1>2, <1>4 DEF Effective, RulesOf
<1>6. \A k \in 1..N : FoldOf[Order[k]] = FoldOf[Order[1]] => k = 1 BY OrderAssumption, OrderIs
<1> HIDE DEF w, i
<1> SUFFICES ASSUME NEW k \in 1..N PROVE Fitting(w, i, k) BY <1>1, RefusedIs DEF w, i
<1>7. c(k).action # "none" => Order[k] \notin w.refusing BY <1>2
<1>8. c(k).action # "conflict" /\ ~(i.editOnly /\ c(k).action = "create") BY <1>2, <1>3
<1>9. \A j \in 1..N : c(j).action # "none" /\ SameName(Order[j], Order[k]) => c(k).action = "none" /\ w.docs[Order[k]] = Unset
  <2> SUFFICES ASSUME NEW j \in 1..N, c(j).action # "none", SameName(Order[j], Order[k]), c(k).action # "none" PROVE FALSE
    BY <1>2, <1>4
  <2>1. docs[Order[j]] # Unset /\ docs[Order[k]] # Unset BY <1>3
  <2>2. FoldOf[Order[j]] = FoldOf[Order[k]] /\ Order[j] # Order[k] BY DEF SameName
  <2>3. j # 1 /\ k # 1 BY <1>6, <2>2
  <2>4. Order[j] \in Named(docs) /\ Order[k] \in Named(docs) BY <1>4, <2>1, <2>3 DEF Named
  <2> QED BY <2>4
<1>10. k # 1 /\ c(k).action \notin {"none", "skip"} /\ Effective(w, i) # Unset => Satisfies(c(k).content, Effective(w, i))
  <2> SUFFICES ASSUME k # 1, c(k).action \notin {"none", "skip"}, RulesOf(docs) # Unset
               PROVE  Satisfies(c(k).content, RulesOf(docs))
    BY <1>5
  <2>1. docs[Order[k]] # Unset /\ c(k).content = docs[Order[k]].content BY <1>3
  <2> QED BY <1>4, <2>1 DEF CollectionValid
<1>11. w.docs[Order[k]] = Unset BY <1>2, <1>4
<1> QED BY <1>7, <1>8, <1>9, <1>10, <1>11 DEF Fitting

LEMMA BringingArrives ==
  ASSUME NEW C, Absent(C), NEW docs \in Docs(C), CollectionValid(docs), \A p, q \in Named(docs) : ~SameName(p, q)
  PROVE  LET s == Import(EmptyPlace, Bringing(docs), NoRival, Steps) IN
         ~s.stopped /\ \A p \in Paths : docs[p] # Unset <=> s.docs[p] # Unset
<1> DEFINE s == Import(EmptyPlace, Bringing(docs), NoRival, Steps)
           changes == Planned(EmptyPlace, Bringing(docs))
           N == Len(Order)
<1>1. EmptyPlace \in Worlds(C) /\ Bringing(docs) \in Imports(C) BY BringingIs
<1>2. Imported(s, EmptyPlace, Bringing(docs), Steps)
  <2>1. Steps \in 0..Steps BY AllOver
  <2> QED BY <1>1, <2>1, ImportIs
<1> SUFFICES ~s.stopped /\ \A p \in Paths : docs[p] # Unset <=> s.docs[p] # Unset OBVIOUS
<1> HIDE DEF s
<1>3. ~s.stopped /\ DocsAt(s.docs, EmptyPlace, changes, N) BY <1>2, BringingFits DEF Imported
<1>4. ASSUME NEW p \in Paths PROVE docs[p] # Unset <=> s.docs[p] # Unset
  <2>1. PICK k \in 1..N : Order[k] = p BY OrderIs
  <2> DEFINE c == changes[k]
  <2>2. /\ c.content = IF docs[p] = Unset THEN Unset ELSE docs[p].content
        /\ c.action = IF docs[p] = Unset THEN "none" ELSE "create"
    BY <2>1, BringingIs
  <2>3. k <= N BY OrderIs
  <2>4. EmptyPlace.docs[p] = Unset BY DEF EmptyPlace
  <2>5. s.docs[p] = IF Due(c) THEN Filed(Unset, c.content) ELSE Unset BY <1>3, <2>1, <2>3, <2>4 DEF DocsAt, Filing
  <2> HIDE DEF c
  <2>6. Due(c) <=> docs[p] # Unset BY <2>2 DEF Due
  <2>7. docs[p] # Unset => Filed(Unset, c.content) # Unset
    <3> SUFFICES ASSUME docs[p] # Unset PROVE Filed(Unset, c.content) # Unset OBVIOUS
    <3>1. c.content \in C BY <2>2 DEF Docs, Entry
    <3>2. Filed(Unset, c.content) \in Entry(C) BY <3>1, FiledIs
    <3> QED BY <3>2 DEF Absent
  <2> QED BY <2>5, <2>6, <2>7
<1> QED BY <1>3, <1>4

\* A bundle that loads, whatever happened to its files, and imports.
BundleStands(docs, lost, swap) ==
    LET b == Export(docs)
        items == Load(Damaged(b, lost, swap))
        empty == [docs |-> [p \in Paths |-> Unset], refusing |-> {}]
        brought == [rules |-> b.rules, conflict |-> "fail", editOnly |-> FALSE,
                    items |-> [p \in Documents |-> IF p \in DOMAIN items THEN items[p] ELSE Unset]] IN
    items # Unset =>
      /\ items = [p \in DOMAIN b.records |-> docs[p].content]
      /\ CollectionValid(docs) =>
           LET s == Import(empty, brought, NoRival, Steps) IN
           ~s.stopped /\ \A p \in Paths : docs[p] # Unset <=> s.docs[p] # Unset

LEMMA BundleArrives ==
  ASSUME NEW C, Absent(C), NEW docs \in Docs(C), NEW lost, NEW swap
  PROVE  BundleStands(docs, lost, swap)
<1> DEFINE b == Export(docs)
           items == Load(Damaged(b, lost, swap))
           brought == [rules |-> b.rules, conflict |-> "fail", editOnly |-> FALSE,
                       items |-> [p \in Documents |-> IF p \in DOMAIN items THEN items[p] ELSE Unset]]
           s == Import(EmptyPlace, brought, NoRival, Steps)
<1> SUFFICES ASSUME items # Unset
             PROVE  /\ items = [p \in DOMAIN b.records |-> docs[p].content]
                    /\ CollectionValid(docs) => ~s.stopped /\ \A p \in Paths : docs[p] # Unset <=> s.docs[p] # Unset
  BY DEF EmptyPlace, BundleStands
<1>1. /\ items = Contents(docs) /\ \A p, q \in Named(docs) : ~SameName(p, q)
      /\ DOMAIN b.records = Named(docs) /\ b.rules = RulesOf(docs)
  BY LoadIs
<1> HIDE DEF b, items
<1>2. DOMAIN items = Named(docs) /\ \A p \in Named(docs) : items[p] = docs[p].content BY <1>1 DEF Contents
<1>3. brought = Bringing(docs)
  <2>1. [p \in Documents |-> IF p \in DOMAIN items THEN items[p] ELSE Unset]
        = [p \in Documents |-> IF p \in Named(docs) THEN docs[p].content ELSE Unset] BY <1>2
  <2> QED BY <1>1, <2>1 DEF Bringing
<1>4. s = Import(EmptyPlace, Bringing(docs), NoRival, Steps)
  <2> HIDE DEF brought
  <2> QED BY <1>3
<1> HIDE DEF s, brought
<1>5. CollectionValid(docs) => ~s.stopped /\ \A p \in Paths : docs[p] # Unset <=> s.docs[p] # Unset
  BY <1>1, <1>4, BringingArrives
<1> QED BY <1>1, <1>5 DEF Contents

(***************************************************************************)
(* The rules of knowledge.                                                 *)
(***************************************************************************)
\* Every input: documents with any bodies (B) and places (P) and any dates, any
\* number of events; collections of any number of documents with any contents (C),
\* any imports, deaths, rivals and damage to a bundle.
AnyReview(B, P) == Of("review", [events : Seq(LifeEvents(B, P)), asked : Policies, mount : Policies])
AnyImport(C) == Of("import", [w : Worlds(C), i : Imports(C), dies : 0..Steps])
AnyRival(C) == Of("rival", [w : Worlds(C), i : Imports(C), rival : [at : 1..Steps, path : Paths, content : C]])
AnyBundle(C) ==
    Of("bundle", [docs : Docs(C), lost : SUBSET Paths, swap : (Paths \cup {Unset}) \X (Paths \cup {Unset})])
AnyKnowledgeInput(B, P, C) == UNION {AnyReview(B, P), AnyImport(C), AnyRival(C), AnyBundle(C)}

LEMMA KnowledgeInputByRule ==
  ASSUME NEW B, NEW P, NEW C, NEW i \in AnyKnowledgeInput(B, P, C)
  PROVE  /\ i.rule = "review" => /\ i.in.events \in Seq(LifeEvents(B, P))
                                 /\ i.in.asked \in Policies /\ i.in.mount \in Policies
         /\ i.rule = "import" => i.in.w \in Worlds(C) /\ i.in.i \in Imports(C) /\ i.in.dies \in 0..Steps
         /\ i.rule = "rival" => i.in.w \in Worlds(C) /\ i.in.i \in Imports(C)
                                /\ i.in.rival \in [at : 1..Steps, path : Paths, content : C]
         /\ i.rule = "bundle" => i.in.docs \in Docs(C)
<1>1. \A rule, inputs : i \in Of(rule, inputs) => i.rule = rule /\ i.in \in inputs BY DEF Of
<1>2. /\ i \in AnyReview(B, P) => /\ i.rule = "review"
                                  /\ i.in \in [events : Seq(LifeEvents(B, P)), asked : Policies, mount : Policies]
      /\ i \in AnyImport(C) => i.rule = "import" /\ i.in \in [w : Worlds(C), i : Imports(C), dies : 0..Steps]
      /\ i \in AnyRival(C) => /\ i.rule = "rival"
                              /\ i.in \in [w : Worlds(C), i : Imports(C), rival : [at : 1..Steps, path : Paths, content : C]]
      /\ i \in AnyBundle(C) => /\ i.rule = "bundle"
                               /\ i.in \in [docs : Docs(C), lost : SUBSET Paths, swap : (Paths \cup {Unset}) \X (Paths \cup {Unset})]
  BY <1>1, Zenon DEF AnyReview, AnyImport, AnyRival, AnyBundle
<1>3. i \in AnyReview(B, P) \/ i \in AnyImport(C) \/ i \in AnyRival(C) \/ i \in AnyBundle(C)
  BY DEF AnyKnowledgeInput
<1> QED BY <1>2, <1>3

\* For any history of a document, any number of documents, any contents and rules,
\* an import dying after any of its steps, a rival before any of them and any damage
\* to a bundle: what counts as approved is what was reviewed, an import leaves the
\* collection under its rules and is completed by its repetition, what a rival wrote
\* stands, and a bundle that loads is the collection it was exported from.
THEOREM KnowledgeRulesHold ==
  ASSUME NEW B, 1 \in B, NEW P, "p" \in P, Unset \notin Int, NEW C, Absent(C), input \in AnyKnowledgeInput(B, P, C)
  PROVE  KnowledgeRules
<1> DEFINE r == input.in
<1>1. ApprovedIsReviewed
  <2> DEFINE first == [state |-> "unmanaged", body |-> 1, path |-> "p", from |-> Unset, to |-> Unset, review |-> Unset]
             start == [d |-> first, now |-> 1, approved |-> {}]
             s == Life(start, r.events)
             status == Status(s.d, s.now)
  <2> SUFFICES ASSUME Is("review")
               PROVE  /\ status = "approved" => /\ <<s.d.from, s.d.to, s.d.body, s.d.path>> \in s.approved
                                                /\ s.d.from # Unset => s.d.from <= s.now
                                                /\ s.d.to # Unset => s.now < s.d.to
                      /\ Accepts(SelectedPolicy(r.asked, r.mount), status)
                           => Accepts(r.mount, status) /\ Accepts(r.asked, status)
    BY Zenon DEF ApprovedIsReviewed
  <2>1. r.events \in Seq(LifeEvents(B, P)) /\ r.asked \in Policies /\ r.mount \in Policies
    BY KnowledgeInputByRule DEF Is
  <2>2. start \in ReviewedStates(B, P)
    <3>1. first \in Governed(B, P) /\ first.review = Unset BY DEF Governed, States, Dates
    <3> HIDE DEF first
    <3> QED BY <3>1 DEF ReviewedStates
  <2> HIDE DEF r, start
  <2>3. s \in ReviewedStates(B, P) BY <2>1, <2>2, LifeReviewed
  <2> HIDE DEF s
  <2>4. /\ s.d \in Governed(B, P) /\ s.now \in Int
        /\ s.d.review # Unset => Approved(s.d.review.seen) \in s.approved
    BY <2>3 DEF ReviewedStates
  <2>5. ASSUME status = "approved"
        PROVE  /\ <<s.d.from, s.d.to, s.d.body, s.d.path>> \in s.approved
               /\ s.d.from # Unset => s.d.from <= s.now
               /\ s.d.to # Unset => s.now < s.d.to
    <3>1. /\ s.d.review # Unset /\ Approved(s.d.review.seen) = <<s.d.from, s.d.to, s.d.body, s.d.path>>
          /\ s.d.from # Unset => s.d.from <= s.now
          /\ s.d.to # Unset => s.now < s.d.to
      BY <2>4, <2>5, ApprovedStatus
    <3> QED BY <2>4, <3>1
  <2> HIDE DEF status
  <2>6. Accepts(SelectedPolicy(r.asked, r.mount), status) => Accepts(r.mount, status) /\ Accepts(r.asked, status)
    BY <2>1, PolicyIsStricter
  <2> QED BY <2>5, <2>6
<1>2. ImportKeepsRules
  <2> DEFINE s == Import(r.w, r.i, NoRival, Steps)
  <2> SUFFICES ASSUME Is("import"), CollectionValid(r.w.docs)
               PROVE  /\ ~s.stopped => CollectionValid(s.docs)
                      /\ ~s.stopped => \A p \in s.wrote, q \in Paths : SameName(p, q) => s.docs[q] = Unset
                      /\ \A p \in Paths : (p \notin s.wrote \/ s.stopped) => s.docs[p] = r.w.docs[p]
    BY Zenon DEF ImportKeepsRules
  <2>1. r.w \in Worlds(C) /\ r.i \in Imports(C) BY KnowledgeInputByRule DEF Is
  <2> HIDE DEF r
  <2> QED BY <2>1, ImportKeeps
<1>3. ImportCompletes
  <2> DEFINE whole == Import(r.w, r.i, NoRival, Steps)
             part == Import(r.w, r.i, NoRival, r.dies)
             again == Import([r.w EXCEPT !.docs = part.docs], r.i, NoRival, Steps)
  <2> SUFFICES ASSUME Is("import"), ~whole.stopped PROVE ~again.stopped /\ again.docs = whole.docs
    BY Zenon DEF ImportCompletes
  <2>1. r.w \in Worlds(C) /\ r.i \in Imports(C) /\ r.dies \in 0..Steps BY KnowledgeInputByRule DEF Is
  <2> HIDE DEF r
  <2> QED BY <2>1, ImportAgain
<1>4. ImportKeepsRivals
  <2> DEFINE s == Import(r.w, r.i, r.rival, Steps)
  <2> SUFFICES ASSUME Is("rival"), ~ImportRefused(r.w, r.i), r.w.docs[r.rival.path] # Unset
               PROVE  s.docs[r.rival.path].content = r.rival.content
    BY Zenon DEF ImportKeepsRivals
  <2>1. /\ r.w \in Worlds(C) /\ r.i \in Imports(C)
        /\ r.rival \in [at : 1..Steps, path : Paths, content : C]
    BY KnowledgeInputByRule DEF Is
  <2>2. \A n \in 1..Steps : n \in Nat BY AllOver
  <2> HIDE DEF r
  <2>3. r.rival \in Rivals(C) /\ r.rival.at \in 1..Steps BY <2>1, <2>2 DEF Rivals
  <2> QED BY <2>1, <2>3, ImportMeetsRival
<1>5. BundleIsItsCollection
  <2>1. Is("bundle") => r.docs \in Docs(C) BY KnowledgeInputByRule DEF Is
  <2>2. Is("bundle") => BundleStands(r.docs, r.lost, r.swap)
    <3> HIDE DEF r
    <3> QED BY <2>1, BundleArrives
  <2> QED BY <2>2, Zenon DEF BundleIsItsCollection, BundleStands
<1> QED BY <1>1, <1>2, <1>3, <1>4, <1>5 DEF KnowledgeRules

LEMMA WiderRule ==
  ASSUME NEW rule, NEW narrow, NEW wide, narrow \subseteq wide
  PROVE  Of(rule, narrow) \subseteq Of(rule, wide)
BY DEF Of

\* The inputs of the run are among those, for an order of four names or more: any
\* constant for what is absent will do that is not itself one of the values.
LEMMA KnowledgeInputsCovered ==
  ASSUME Absent(Content \cup {"strict", "loose"}), Len(Order) >= 4
  PROVE  KnowledgeInputs \subseteq AnyKnowledgeInput({1, 2}, {"p", "q"}, Content \cup {"strict", "loose"})
<1> DEFINE B == {1, 2}
           P == {"p", "q"}
           C == Content \cup {"strict", "loose"}
           doc == [content : Content, version : {1}]
           apart(f) == \A p, q \in Documents : SameName(p, q) => f[p] = Unset \/ f[q] = Unset
           with(d, f) == [p \in Paths |-> IF p = Definition THEN IF d = Unset THEN Unset ELSE [content |-> d, version |-> 1]
                                          ELSE f[p]]
           docs == {with(d, f) : d \in {"strict", "loose", Unset}, f \in {g \in [Documents -> doc \cup {Unset}] : apart(g)}}
           imports == [rules : {"strict", Unset}, conflict : {"fail", "skip", "replace"}, editOnly : BOOLEAN,
                       items : {f \in [Documents -> {[attr |-> "ok", body |-> 1], [attr |-> "bad", body |-> 2], Unset}] :
                                  apart(f)}]
           events == [do : {"govern"}, state : {"draft", "approved", "superseded"}, from : {Unset, 2}, to : {Unset, 3}]
                     \cup [do : {"body"}, to : {1, 2}] \cup [do : {"redate"}, to : {Unset, 4}]
                     \cup [do : {"move"}, to : {"p", "q"}] \cup [do : {"tick"}, to : {1}]
           policies == {"all", "effective", "approved"}
           three == [events : [1..3 -> events], asked : policies, mount : {"effective"}]
           two == [events : [1..2 -> events], asked : policies, mount : policies]
           import == [w : [docs : {d \in docs : \E p \in Documents : d[p] = Unset}, refusing : {{}, {Order[Len(Order)]}}],
                      i : {i \in imports : i.editOnly => i.conflict = "replace"}, dies : {6, 8, 10}]
           rival == [w : [docs : {d \in docs : d[Order[2]] = Unset /\ d[Definition] = Unset /\ d[Order[3]] # Unset},
                          refusing : {{}}],
                     i : {i \in imports : i.items[Order[2]] = Unset /\ i.conflict = "replace" /\ ~i.editOnly},
                     rival : [at : 1..Steps, path : {Order[3], Order[4]}, content : {[attr |-> "ok", body |-> 2]}]]
           bundle == [docs : docs, lost : {{}, {Order[3]}},
                      swap : {<<Order[3], Order[4]>>, <<Order[4], Order[2]>>, <<Unset, Unset>>}]
<1>1. KnowledgeInputs = Of("review", three) \cup Of("review", two) \cup Of("import", import)
                        \cup Of("rival", rival) \cup Of("bundle", bundle)
  BY DEF KnowledgeInputs
<1>2. Order[2] \in Paths /\ Order[3] \in Paths /\ Order[4] \in Paths /\ Order[Len(Order)] \in Paths /\ Steps >= 12
  <2>1. Len(Order) \in Nat /\ \A k \in 1..Len(Order) : Order[k] \in Paths BY OrderIs
  <2>2. 2 \in 1..Len(Order) /\ 3 \in 1..Len(Order) /\ 4 \in 1..Len(Order) /\ Len(Order) \in 1..Len(Order) BY <2>1
  <2> QED BY <2>1, <2>2 DEF Steps
<1>3. docs \subseteq Docs(C)
  <2> SUFFICES ASSUME NEW d \in {"strict", "loose", Unset}, NEW f \in [Documents -> doc \cup {Unset}]
               PROVE  with(d, f) \in Docs(C)
    <3> HIDE DEF with, apart, doc, C
    <3> QED OBVIOUS
  <2>1. doc \subseteq Entry(C)
    <3>1. Content \subseteq C OBVIOUS
    <3> HIDE DEF C
    <3> QED BY <3>1 DEF Entry
  <2>2. d # Unset => [content |-> d, version |-> 1] \in Entry(C)
    <3>1. d # Unset => d \in C OBVIOUS
    <3> HIDE DEF C
    <3> QED BY <3>1 DEF Entry
  <2>3. \A p \in Paths : p # Definition => f[p] \in Entry(C) \cup {Unset}
    <3>1. \A p \in Paths : p # Definition => p \in Documents BY DEF Documents
    <3> HIDE DEF doc
    <3> QED BY <2>1, <3>1
  <2> HIDE DEF C, doc
  <2> QED BY <2>2, <2>3 DEF Docs
<1>4. imports \subseteq Imports(C)
  <2>1. [attr |-> "ok", body |-> 1] \in C /\ [attr |-> "bad", body |-> 2] \in C /\ "strict" \in C BY DEF Content
  <2> HIDE DEF C
  <2>2. \A f \in [Documents -> {[attr |-> "ok", body |-> 1], [attr |-> "bad", body |-> 2], Unset}] :
          f \in [Documents -> C \cup {Unset}] BY <2>1
  <2>3. {f \in [Documents -> {[attr |-> "ok", body |-> 1], [attr |-> "bad", body |-> 2], Unset}] : apart(f)}
        \subseteq [Documents -> C \cup {Unset}] BY <2>2
  <2> HIDE DEF apart
  <2> QED BY <2>1, <2>3 DEF Imports
<1>5. [attr |-> "ok", body |-> 2] \in C BY DEF Content
<1>6. events \subseteq LifeEvents(B, P) BY DEF LifeEvents, Dates
<1> HIDE DEF docs, imports, events, C, B, P, doc, apart, with
<1>7. three \subseteq [events : Seq(LifeEvents(B, P)), asked : Policies, mount : Policies]
  <2>1. ASSUME NEW f \in [1..3 -> events] PROVE f \in Seq(LifeEvents(B, P))
    <3>1. f \in [1..3 -> LifeEvents(B, P)] BY <1>6
    <3>2. 3 \in Nat OBVIOUS
    <3> QED BY <3>1, <3>2, SeqDef, Zenon
  <2> QED BY <2>1 DEF Policies
<1>8. two \subseteq [events : Seq(LifeEvents(B, P)), asked : Policies, mount : Policies]
  <2>1. ASSUME NEW f \in [1..2 -> events] PROVE f \in Seq(LifeEvents(B, P))
    <3>1. f \in [1..2 -> LifeEvents(B, P)] BY <1>6
    <3>2. 2 \in Nat OBVIOUS
    <3> QED BY <3>1, <3>2, SeqDef, Zenon
  <2> QED BY <2>1 DEF Policies
<1>9. import \subseteq [w : Worlds(C), i : Imports(C), dies : 0..Steps]
  <2>1. \A d \in docs, x \in {{}, {Order[Len(Order)]}} : [docs |-> d, refusing |-> x] \in Worlds(C)
    BY <1>2, <1>3 DEF Worlds
  <2> DEFINE some == {d \in docs : \E p \in Documents : d[p] = Unset}
             refused == {{}, {Order[Len(Order)]}}
  <2>4. some \subseteq docs /\ \A d \in docs, x \in refused : [docs |-> d, refusing |-> x] \in Worlds(C) BY <2>1
  <2>2. [docs : some, refusing : refused] \subseteq Worlds(C)
    <3> HIDE DEF some, refused
    <3> QED BY <2>4
  <2>3. {6, 8, 10} \subseteq 0..Steps BY <1>2, AllOver
  <2> QED BY <1>4, <2>2, <2>3
<1>10. rival \subseteq [w : Worlds(C), i : Imports(C), rival : [at : 1..Steps, path : Paths, content : C]]
  <2>1. \A d \in docs : [docs |-> d, refusing |-> {}] \in Worlds(C) BY <1>3 DEF Worlds
  <2>2. [docs : {d \in docs : d[Order[2]] = Unset /\ d[Definition] = Unset /\ d[Order[3]] # Unset}, refusing : {{}}]
        \subseteq Worlds(C) BY <2>1
  <2>3. [at : 1..Steps, path : {Order[3], Order[4]}, content : {[attr |-> "ok", body |-> 2]}]
        \subseteq [at : 1..Steps, path : Paths, content : C] BY <1>2, <1>5
  <2> QED BY <1>4, <2>2, <2>3
<1>11. bundle \subseteq [docs : Docs(C), lost : SUBSET Paths, swap : (Paths \cup {Unset}) \X (Paths \cup {Unset})]
  <2>1. {{}, {Order[3]}} \subseteq SUBSET Paths BY <1>2
  <2>2. {<<Order[3], Order[4]>>, <<Order[4], Order[2]>>, <<Unset, Unset>>} \subseteq (Paths \cup {Unset}) \X (Paths \cup {Unset})
    BY <1>2
  <2> QED BY <1>3, <2>1, <2>2
<1> HIDE DEF three, two, import, rival, bundle
<1>12. Of("review", three) \subseteq AnyReview(B, P) /\ Of("review", two) \subseteq AnyReview(B, P)
  BY <1>7, <1>8, WiderRule DEF AnyReview
<1>13. Of("import", import) \subseteq AnyImport(C) BY <1>9, WiderRule DEF AnyImport
<1>14. Of("rival", rival) \subseteq AnyRival(C) BY <1>10, WiderRule DEF AnyRival
<1>15. Of("bundle", bundle) \subseteq AnyBundle(C) BY <1>11, WiderRule DEF AnyBundle
<1>16. KnowledgeInputs \subseteq AnyKnowledgeInput(B, P, C)
  BY <1>1, <1>12, <1>13, <1>14, <1>15 DEF AnyKnowledgeInput
<1> QED BY <1>16 DEF B, P, C

(***************************************************************************)
(* Prune.                                                                  *)
(***************************************************************************)
LEMMA FunctionIsSeq ==
  ASSUME NEW S, NEW n \in Nat, NEW f \in [1..n -> S]
  PROVE  f \in Seq(S) /\ Len(f) = n
<1>1. \E m \in Nat : f \in [1..m -> S] OBVIOUS
<1>2. f \in Seq(S) BY <1>1, SeqDef, Zenon
<1> QED BY <1>2, LenProperties

TurnRecord == [at : Int, redacted : BOOLEAN]
\* A conversation is recorded in the order of time.
TurnLog == {s \in Seq(TurnRecord) : \A i, j \in 1..Len(s) : i <= j => s[i].at <= s[j].at}
Marks == {"none", "live", "redacted"}
PruneWorlds == [turns : [Prunable -> Seq(TurnRecord)], sessions : [Prunable -> Marks]]
Moments == {"planned", "erased"}
Recordings ==
    {Quiet} \cup [what : {"turn"}, id : Prunable, at : Int, when : Moments]
            \cup [what : {"document"}, id : Prunable, when : Moments]

\* What another session records in a conversation is a turn at its end, or nothing.
Lengthened(before, after, change) ==
    after = before \/ (change.what = "turn" /\ \E at \in Int : after = Append(before, TurnAt(at)))
LEMMA MeanwhileIs ==
  ASSUME NEW w \in PruneWorlds, NEW change \in Recordings, NEW when
  PROVE  /\ Meanwhile(w, change, when) \in PruneWorlds
         /\ \A c \in Prunable : Lengthened(w.turns[c], Meanwhile(w, change, when).turns[c], change)
<1> DEFINE m == Meanwhile(w, change, when)
<1>1. CASE m = w BY <1>1 DEF Lengthened
<1>2. CASE change.what = "turn" /\ change.id \in Prunable /\ change.at \in Int
           /\ m = [turns |-> [w.turns EXCEPT ![change.id] = Append(w.turns[change.id], TurnAt(change.at))],
                     sessions |-> w.sessions]
  <2> DEFINE t == Append(w.turns[change.id], TurnAt(change.at))
  <2>1. t \in Seq(TurnRecord)
    <3>1. w.turns[change.id] \in Seq(TurnRecord) BY <1>2 DEF PruneWorlds
    <3>2. TurnAt(change.at) \in TurnRecord BY <1>2 DEF TurnAt, TurnRecord
    <3> QED BY <3>1, <3>2
  <2>2. m = [turns |-> [w.turns EXCEPT ![change.id] = t], sessions |-> w.sessions] BY <1>2
  <2>3. \A c \in Prunable : m.turns[c] = IF c = change.id THEN t ELSE w.turns[c]
    <3> HIDE DEF t, m
    <3> QED BY <2>2 DEF PruneWorlds
  <2>4. m \in PruneWorlds
    <3> HIDE DEF t, m
    <3> QED BY <1>2, <2>1, <2>2 DEF PruneWorlds
  <2>5. \A c \in Prunable : Lengthened(w.turns[c], m.turns[c], change)
    <3>1. Lengthened(w.turns[change.id], t, change) BY <1>2 DEF Lengthened
    <3>2. \A c \in Prunable : Lengthened(w.turns[c], w.turns[c], change) BY DEF Lengthened
    <3> HIDE DEF t, m
    <3> QED BY <2>3, <3>1, <3>2
  <2> QED BY <2>4, <2>5
<1>3. CASE change.id \in Prunable /\ m = [turns |-> w.turns, sessions |-> [w.sessions EXCEPT ![change.id] = "live"]]
  <2> HIDE DEF m
  <2>1. m \in PruneWorlds BY <1>3 DEF PruneWorlds, Marks
  <2>2. m.turns = w.turns BY <1>3
  <2> QED BY <2>1, <2>2 DEF m, Lengthened
<1>4. m = w \/ m = Records(w, change) BY DEF Meanwhile
<1>5. CASE change = Quiet
  <2>1. Records(w, change) = w BY <1>5 DEF Records, Quiet
  <2> HIDE DEF m
  <2> QED BY <1>1, <1>4, <2>1
<1>6. CASE change \in [what : {"turn"}, id : Prunable, at : Int, when : Moments]
  <2>1. change.what = "turn" /\ change.id \in Prunable /\ change.at \in Int BY <1>6
  <2>2. Records(w, change) = [turns |-> [w.turns EXCEPT ![change.id] = Append(w.turns[change.id], TurnAt(change.at))],
                     sessions |-> w.sessions]
    BY <2>1 DEF Records
  <2> HIDE DEF m
  <2> QED BY <1>1, <1>2, <1>4, <2>1, <2>2
<1>7. CASE change \in [what : {"document"}, id : Prunable, when : Moments]
  <2>1. change.what = "document" /\ change.id \in Prunable BY <1>7
  <2>2. Records(w, change) = [turns |-> w.turns, sessions |-> [w.sessions EXCEPT ![change.id] = "live"]]
    BY <2>1 DEF Records
  <2> HIDE DEF m
  <2> QED BY <1>1, <1>3, <1>4, <2>1, <2>2
<1> QED BY <1>5, <1>6, <1>7 DEF Recordings

LEMMA ErasureIs ==
  ASSUME NEW w \in PruneWorlds, NEW ids
  PROVE  /\ EraseTurns(w, ids) \in PruneWorlds /\ EraseTurns(w, ids).sessions = w.sessions
         /\ \A c \in Prunable : EraseTurns(w, ids).turns[c] = IF c \in ids THEN Blacked(w.turns[c]) ELSE w.turns[c]
         /\ EraseSessions(w, ids) \in PruneWorlds /\ EraseSessions(w, ids).turns = w.turns
         /\ \A c \in Prunable : EraseSessions(w, ids).sessions[c] =
                                  IF c \in ids /\ w.sessions[c] = "live" THEN "redacted" ELSE w.sessions[c]
<1>1. \A c \in Prunable : Blacked(w.turns[c]) \in Seq(TurnRecord)
  <2> TAKE c \in Prunable
  <2>1. w.turns[c] \in Seq(TurnRecord) BY DEF PruneWorlds
  <2>2. \A i \in 1..Len(w.turns[c]) : w.turns[c][i] \in TurnRecord BY <2>1
  <2>3. \A i \in 1..Len(w.turns[c]) : [at |-> w.turns[c][i].at, redacted |-> TRUE] \in TurnRecord BY <2>2 DEF TurnRecord
  <2>4. DOMAIN w.turns[c] = 1..Len(w.turns[c]) /\ Len(w.turns[c]) \in Nat BY <2>1
  <2>5. Blacked(w.turns[c]) \in [1..Len(w.turns[c]) -> TurnRecord] BY <2>3, <2>4 DEF Blacked
  <2> QED BY <2>4, <2>5, FunctionIsSeq
<1> DEFINE t == [c \in Prunable |-> IF c \in ids THEN Blacked(w.turns[c]) ELSE w.turns[c]]
           s == [c \in Prunable |-> IF c \in ids /\ w.sessions[c] = "live" THEN "redacted" ELSE w.sessions[c]]
<1>2. t \in [Prunable -> Seq(TurnRecord)] /\ s \in [Prunable -> Marks]
  <2>1. w.turns \in [Prunable -> Seq(TurnRecord)] /\ w.sessions \in [Prunable -> Marks] BY DEF PruneWorlds
  <2> QED BY <1>1, <2>1 DEF Marks
<1>3. EraseTurns(w, ids) = [turns |-> t, sessions |-> w.sessions] BY DEF EraseTurns
<1>4. EraseSessions(w, ids) = [turns |-> w.turns, sessions |-> s] BY DEF EraseSessions, SessionsErased
<1>5. /\ \A c \in Prunable : t[c] = IF c \in ids THEN Blacked(w.turns[c]) ELSE w.turns[c]
      /\ \A c \in Prunable : s[c] = IF c \in ids /\ w.sessions[c] = "live" THEN "redacted" ELSE w.sessions[c]
  OBVIOUS
<1> HIDE DEF t, s
<1>6. EraseTurns(w, ids) \in PruneWorlds /\ EraseTurns(w, ids).turns = t /\ EraseTurns(w, ids).sessions = w.sessions
  BY <1>2, <1>3 DEF PruneWorlds
<1>7. EraseSessions(w, ids) \in PruneWorlds /\ EraseSessions(w, ids).sessions = s /\ EraseSessions(w, ids).turns = w.turns
  BY <1>2, <1>4 DEF PruneWorlds
<1> QED BY <1>5, <1>6, <1>7

\* The conversations a prune erases: all it planned, or those it came to.
Reached(w, dies) ==
    IF dies = Unset THEN Plan(w)
    ELSE {c \in Plan(w) : \E k \in DOMAIN PruneOrder : k <= dies /\ PruneOrder[k] = c}
LEMMA PruneIs ==
  ASSUME NEW w \in PruneWorlds, NEW change \in Recordings, NEW dies
  PROVE  /\ Prune(w, change, dies) \in PruneWorlds
         /\ \A c \in Prunable : \E t \in Seq(TurnRecord) :
              /\ Lengthened(w.turns[c], t, change)
              /\ Lengthened(IF c \in Reached(w, dies) THEN Blacked(t) ELSE t, Prune(w, change, dies).turns[c], change)
<1> DEFINE m == Meanwhile(w, change, "planned")
           x == EraseTurns(m, Reached(w, dies))
           after == Meanwhile(x, change, "erased")
           p == IF dies = Unset THEN EraseSessions(after, Plan(w)) ELSE after
<1>1. Prune(w, change, dies) = p BY DEF Prune, Reached
<1>2. /\ m \in PruneWorlds
      /\ \A c \in Prunable : Lengthened(w.turns[c], m.turns[c], change) BY MeanwhileIs
<1> HIDE DEF m
<1>3. /\ x \in PruneWorlds
      /\ \A c \in Prunable : x.turns[c] = IF c \in Reached(w, dies) THEN Blacked(m.turns[c]) ELSE m.turns[c]
  BY <1>2, ErasureIs
<1> HIDE DEF x
<1>4. /\ after \in PruneWorlds
      /\ \A c \in Prunable : Lengthened(x.turns[c], after.turns[c], change) BY <1>3, MeanwhileIs
<1> HIDE DEF after
<1>5. p \in PruneWorlds /\ p.turns = after.turns BY <1>4, ErasureIs
<1> HIDE DEF p
<1>6. \A c \in Prunable : m.turns[c] \in Seq(TurnRecord) BY <1>2 DEF PruneWorlds
<1> QED BY <1>1, <1>2, <1>3, <1>4, <1>5, <1>6

LEMMA QuietPruneIs ==
  ASSUME NEW w \in PruneWorlds
  PROVE  LET after == Prune(w, Quiet, Unset) IN
         /\ after \in PruneWorlds
         /\ \A c \in Prunable :
              /\ after.turns[c] = IF c \in Plan(w) THEN Blacked(w.turns[c]) ELSE w.turns[c]
              /\ after.sessions[c] = IF c \in Plan(w) /\ w.sessions[c] = "live" THEN "redacted" ELSE w.sessions[c]
<1>1. \A v, when : Meanwhile(v, Quiet, when) = v BY DEF Meanwhile, Quiet, Records
<1>2. Prune(w, Quiet, Unset) = EraseSessions(EraseTurns(w, Plan(w)), Plan(w)) BY <1>1 DEF Prune
<1> DEFINE x == EraseTurns(w, Plan(w))
<1>3. /\ x \in PruneWorlds /\ x.sessions = w.sessions
      /\ \A c \in Prunable : x.turns[c] = IF c \in Plan(w) THEN Blacked(w.turns[c]) ELSE w.turns[c]
  BY ErasureIs
<1> HIDE DEF x
<1>4. /\ EraseSessions(x, Plan(w)) \in PruneWorlds /\ EraseSessions(x, Plan(w)).turns = x.turns
      /\ \A c \in Prunable : EraseSessions(x, Plan(w)).sessions[c] =
                               IF c \in Plan(w) /\ x.sessions[c] = "live" THEN "redacted" ELSE x.sessions[c]
  BY <1>3, ErasureIs
<1> QED BY <1>2, <1>3, <1>4 DEF x

LEMMA BlackedIs ==
  ASSUME NEW t \in Seq(TurnRecord)
  PROVE  /\ WhollyRedacted(Blacked(t)) /\ DOMAIN Blacked(t) = 1..Len(t) /\ Len(Blacked(t)) = Len(t)
         /\ \A i \in 1..Len(t) : Blacked(t)[i] = [at |-> t[i].at, redacted |-> TRUE]
         /\ ~Stale(Blacked(t)) /\ (Stale(t) => Blacked(t) # t)
<1>1. DOMAIN t = 1..Len(t) /\ Len(t) \in Nat OBVIOUS
<1>2. DOMAIN Blacked(t) = 1..Len(t) /\ \A i \in 1..Len(t) : Blacked(t)[i] = [at |-> t[i].at, redacted |-> TRUE]
  BY <1>1 DEF Blacked
<1>3. WhollyRedacted(Blacked(t)) BY <1>2 DEF WhollyRedacted
<1>4. Len(Blacked(t)) = Len(t) BY <1>1, <1>2, LenProperties DEF Blacked
<1> QED BY <1>2, <1>3, <1>4 DEF Stale

LEMMA PreviewHolds ==
  ASSUME NEW w \in PruneWorlds
  PROVE  LET after == Prune(w, Quiet, Unset) IN
         /\ \A c \in Prunable :
               IF c \in Plan(w) THEN after.sessions[c] # "live" /\ WhollyRedacted(after.turns[c])
               ELSE after.turns[c] = w.turns[c] /\ after.sessions[c] = w.sessions[c]
         /\ Plan(after) = {}
         /\ \A c \in Plan(w) : after.turns[c] # w.turns[c]
<1> DEFINE after == Prune(w, Quiet, Unset)
<1>1. /\ after \in PruneWorlds
      /\ \A c \in Prunable :
           /\ after.turns[c] = IF c \in Plan(w) THEN Blacked(w.turns[c]) ELSE w.turns[c]
           /\ after.sessions[c] = IF c \in Plan(w) /\ w.sessions[c] = "live" THEN "redacted" ELSE w.sessions[c]
  BY QuietPruneIs
<1> HIDE DEF after
<1>2. \A c \in Prunable : /\ c \in Plan(w) <=> Stale(w.turns[c])
                          /\ c \in Plan(after) <=> Stale(after.turns[c])
  BY DEF Plan
<1>3. \A c \in Prunable : /\ WhollyRedacted(Blacked(w.turns[c])) /\ ~Stale(Blacked(w.turns[c]))
                          /\ Stale(w.turns[c]) => Blacked(w.turns[c]) # w.turns[c]
  BY BlackedIs DEF PruneWorlds
<1>4. Plan(after) \subseteq Prunable /\ Plan(w) \subseteq Prunable BY DEF Plan
<1>5. Plan(after) = {} BY <1>1, <1>2, <1>3, <1>4
<1>6. \A c \in Prunable : IF c \in Plan(w) THEN after.sessions[c] # "live" /\ WhollyRedacted(after.turns[c])
                          ELSE after.turns[c] = w.turns[c] /\ after.sessions[c] = w.sessions[c]
  BY <1>1, <1>3
<1>7. \A c \in Plan(w) : after.turns[c] # w.turns[c] BY <1>1, <1>2, <1>3, <1>4
<1> QED BY <1>5, <1>6, <1>7 DEF after

\* What is lengthened begins as it was.
LEMMA LengthenedBegins ==
  ASSUME NEW z \in Seq(TurnRecord), NEW a, NEW change, Lengthened(z, a, change)
  PROVE  Len(z) <= Len(a) /\ \A i \in 1..Len(z) : a[i] = z[i]
<1>1. CASE a = z BY <1>1
<1>2. CASE \E at \in Int : a = Append(z, TurnAt(at))
  <2>1. PICK at \in Int : a = Append(z, TurnAt(at)) BY <1>2
  <2>2. TurnAt(at) \in TurnRecord BY DEF TurnAt, TurnRecord
  <2> HIDE DEF TurnRecord
  <2> QED BY <2>1, <2>2, AppendProperties
<1> QED BY <1>1, <1>2 DEF Lengthened

\* Wherever the prune dies and whatever is recorded meanwhile.
LEMMA OldErased ==
  ASSUME NEW w \in PruneWorlds, \A c \in Prunable : w.turns[c] \in TurnLog, NEW change \in Recordings, NEW dies,
         NEW c \in Prunable
  PROVE  LET before == w.turns[c]
             after == Prune(w, change, dies)
             erased == {i \in DOMAIN after.turns[c] :
                          after.turns[c][i].redacted /\ (i \in DOMAIN before => ~before[i].redacted)}
             again == Prune(after, Quiet, Unset) IN
         /\ erased # {} => before[Len(before)].at < Cutoff
         /\ \A i \in erased : after.turns[c][i].at >= Cutoff => i > Len(before)
         /\ c \in Plan(w) /\ change.what # "turn" => WhollyRedacted(again.turns[c])
<1> DEFINE b == w.turns[c]
           after == Prune(w, change, dies)
           a == after.turns[c]
           again == Prune(after, Quiet, Unset)
           mine == c \in Reached(w, dies)
<1>1. /\ after \in PruneWorlds
      /\ \E t \in Seq(TurnRecord) : /\ Lengthened(b, t, change)
                                    /\ Lengthened(IF mine THEN Blacked(t) ELSE t, a, change)
  BY PruneIs
<1>2. PICK t \in Seq(TurnRecord) : Lengthened(b, t, change) /\ Lengthened(IF mine THEN Blacked(t) ELSE t, a, change)
  BY <1>1
<1>3. /\ again \in PruneWorlds
      /\ again.turns[c] = IF c \in Plan(after) THEN Blacked(a) ELSE a
  BY <1>1, QuietPruneIs
<1>4. mine => c \in Plan(w) BY DEF Reached
<1>5. (c \in Plan(w) <=> Stale(b)) /\ (c \in Plan(after) <=> Stale(a)) BY DEF Plan
<1>6. b \in TurnLog /\ b \in Seq(TurnRecord) /\ a \in Seq(TurnRecord) BY <1>1 DEF PruneWorlds
<1> HIDE DEF b, a, after, again, mine
<1>7. /\ Len(b) \in Nat /\ DOMAIN b = 1..Len(b) /\ DOMAIN a = 1..Len(a) /\ Len(a) \in Nat
      /\ \A i \in 1..Len(b) : b[i] \in TurnRecord BY <1>6
<1>8. Len(b) <= Len(t) /\ \A i \in 1..Len(b) : t[i] = b[i]
  BY <1>2, <1>6 DEF Lengthened
<1>9. /\ WhollyRedacted(Blacked(t)) /\ Len(Blacked(t)) = Len(t)
      /\ \A i \in 1..Len(t) : Blacked(t)[i] = [at |-> t[i].at, redacted |-> TRUE]
      /\ ~Stale(Blacked(t)) /\ WhollyRedacted(Blacked(a))
  BY <1>2, <1>6, BlackedIs
<1>10. \A i \in 1..Len(b) : /\ i \in 1..Len(a) /\ a[i].at = b[i].at
                            /\ ~mine => a[i] = b[i]
  <2>1. Blacked(t) \in Seq(TurnRecord)
    <3>1. \A i \in 1..Len(t) : t[i] \in TurnRecord OBVIOUS
    <3>6. \A i \in 1..Len(t) : [at |-> t[i].at, redacted |-> TRUE] \in TurnRecord BY <3>1 DEF TurnRecord
    <3>2. \A i \in 1..Len(t) : Blacked(t)[i] \in TurnRecord BY <1>9, <3>6
    <3>3. DOMAIN Blacked(t) = 1..Len(t) /\ Len(t) \in Nat BY BlackedIs
    <3>4. Blacked(t) = [i \in 1..Len(t) |-> Blacked(t)[i]] BY <3>3 DEF Blacked
    <3>5. Blacked(t) \in [1..Len(t) -> TurnRecord] BY <3>2, <3>3, <3>4
    <3>7. Len(t) \in Nat BY <3>3
    <3> QED BY ONLY <3>5, <3>7, FunctionIsSeq
  <2>2. CASE mine
    <3>1. Lengthened(Blacked(t), a, change) BY <1>2, <2>2
    <3>2. Len(Blacked(t)) <= Len(a) /\ \A i \in 1..Len(t) : a[i] = Blacked(t)[i]
      BY <1>9, <2>1, <3>1, LengthenedBegins
    <3>3. \A i \in 1..Len(t) : Blacked(t)[i].at = t[i].at
      <4> TAKE i \in 1..Len(t)
      <4>1. Blacked(t)[i] = [at |-> t[i].at, redacted |-> TRUE] BY <1>9
      <4> QED BY <4>1
    <3>4. Len(t) \in Nat OBVIOUS
    <3>5. \A i \in 1..Len(b) : i \in 1..Len(t) /\ i \in 1..Len(a) BY <1>7, <1>8, <1>9, <3>2, <3>4
    <3> QED BY <1>8, <2>2, <3>2, <3>3, <3>5
  <2>3. CASE ~mine
    <3>1. Lengthened(t, a, change) BY <1>2, <2>3
    <3>2. Len(t) <= Len(a) /\ \A i \in 1..Len(t) : a[i] = t[i] BY <1>6, <3>1 DEF Lengthened
    <3> QED BY <1>7, <1>8, <3>2
  <2> QED BY <2>2, <2>3
<1>11. ASSUME ~mine, NEW i \in 1..Len(a), i \notin 1..Len(b) PROVE ~a[i].redacted
  <2>1. Lengthened(b, t, change) /\ Lengthened(t, a, change) BY <1>2, <1>11
  <2>2. ASSUME NEW s \in Seq(TurnRecord), NEW r \in Seq(TurnRecord), Lengthened(s, r, change),
               NEW n \in 1..Len(r), n \notin 1..Len(s)
        PROVE  ~r[n].redacted
    <3>1. PICK at \in Int : r = Append(s, TurnAt(at)) BY <2>2 DEF Lengthened
    <3>2. Len(s) \in Nat /\ Len(r) = Len(s) + 1 /\ r[Len(s) + 1] = TurnAt(at) BY <3>1
    <3>3. n = Len(s) + 1 BY <2>2, <3>2
    <3> QED BY <3>2, <3>3 DEF TurnAt
  <2>3. CASE i \in 1..Len(t)
    <3>1. ~t[i].redacted BY <1>6, <1>11, <2>1, <2>2, <2>3
    <3>2. a[i] = t[i] BY <1>6, <2>1, <2>3 DEF Lengthened
    <3> QED BY <3>1, <3>2
  <2>4. CASE i \notin 1..Len(t)
    <3> QED BY <1>6, <2>1, <2>2, <2>4
  <2> QED BY <2>3, <2>4
<1> DEFINE erased == {i \in 1..Len(a) : a[i].redacted /\ (i \in 1..Len(b) => ~b[i].redacted)}
<1>12. erased # {} => mine
  <2>1. ASSUME ~mine, NEW i \in erased PROVE FALSE
    <3>1. i \in 1..Len(b) => a[i] = b[i] BY <1>10, <2>1
    <3> QED BY <1>11, <2>1, <3>1
  <2> QED BY <2>1
<1>13. mine => b[Len(b)].at < Cutoff /\ \A i \in 1..Len(b) : b[i].at <= b[Len(b)].at
  <2> SUFFICES ASSUME mine PROVE b[Len(b)].at < Cutoff /\ \A i \in 1..Len(b) : b[i].at <= b[Len(b)].at OBVIOUS
  <2>1. b # <<>> /\ b[Len(b)].at < Cutoff BY <1>4, <1>5 DEF Stale
  <2>2. \A i \in 1..Len(b) : i <= Len(b) /\ Len(b) \in 1..Len(b) BY <1>7
  <2>3. \A i, j \in 1..Len(b) : i <= j => b[i].at <= b[j].at BY <1>6 DEF TurnLog
  <2> QED BY <2>1, <2>2, <2>3
<1>14. \A i \in erased : a[i].at >= Cutoff => i > Len(b)
  <2> SUFFICES ASSUME NEW i \in erased, a[i].at >= Cutoff, ~(i > Len(b)) PROVE FALSE OBVIOUS
  <2>1. i \in 1..Len(b) /\ mine BY <1>7, <1>12
  <2>2. Len(b) \in 1..Len(b) BY <1>7, <2>1
  <2>3. b[i].at \in Int /\ b[Len(b)].at \in Int BY <1>7, <2>1, <2>2 DEF TurnRecord
  <2> HIDE DEF erased
  <2> QED BY <1>10, <1>13, <2>1, <2>3, CutoffAssumption
<1>15. ASSUME c \in Plan(w), change.what # "turn" PROVE WhollyRedacted(again.turns[c])
  <2>1. t = b /\ a = IF mine THEN Blacked(t) ELSE t BY <1>2, <1>15 DEF Lengthened
  <2>2. CASE mine BY <1>3, <1>5, <1>9, <2>1, <2>2
  <2>3. CASE ~mine
    <3>1. Stale(a) BY <1>5, <1>15, <2>1, <2>3
    <3> QED BY <1>3, <1>5, <1>9, <3>1
  <2> QED BY <2>2, <2>3
<1> QED BY <1>7, <1>12, <1>13, <1>14, <1>15 DEF a, b, after, again

(***************************************************************************)
(* The ranges of audit.                                                    *)
(***************************************************************************)
Covered(ranges) == UNION {ranges[k][1]..ranges[k][2] : k \in DOMAIN ranges}
Ranges == {s \in Seq(Int \X Int) : \A k \in 1..Len(s) : s[k][1] <= s[k][2]}
LEMMA RangedCovers ==
  ASSUME NEW ranges \in Ranges, NEW turn \in Int
  PROVE  Ranged(ranges, turn) \in Ranges /\ Covered(Ranged(ranges, turn)) = Covered(ranges) \cup {turn}
<1> DEFINE N == Len(ranges)
           last == ranges[N]
           r == Ranged(ranges, turn)
<1>0. ranges \in Seq(Int \X Int) /\ \A k \in 1..Len(ranges) : ranges[k][1] <= ranges[k][2] BY DEF Ranges
<1>1. /\ ranges \in Seq(Int \X Int) /\ N \in Nat /\ DOMAIN ranges = 1..N
      /\ \A k \in 1..N : ranges[k] \in Int \X Int /\ ranges[k][1] <= ranges[k][2]
  BY <1>0
<1>2. CASE ranges # <<>> /\ Adjoins(last[2], turn)
  <2>1. r = [ranges EXCEPT ![N] = <<last[1], turn>>] BY <1>2 DEF Ranged
  <2>2. N \in 1..N BY <1>1, <1>2
  <2>3. last[1] \in Int /\ last[2] \in Int /\ last[1] <= last[2] /\ turn = last[2] + 1
    BY <1>1, <1>2, <2>2 DEF Adjoins
  <2>4. <<last[1], turn>> \in Int \X Int /\ last[1] <= turn /\ last[1]..turn = (last[1]..last[2]) \cup {turn}
    BY <2>3
  <2> HIDE DEF last, r
  <2>5. r \in Seq(Int \X Int) /\ Len(r) = N /\ DOMAIN r = 1..N BY <1>1, <2>1, <2>2, <2>4, ExceptSeq
  <2>6. \A k \in 1..N : r[k] = IF k = N THEN <<last[1], turn>> ELSE ranges[k] BY <1>1, <2>1
  <2>7. \A k \in 1..N : r[k][1] <= r[k][2]
    <3> TAKE k \in 1..N
    <3>1. k = N => r[k] = <<last[1], turn>> BY <2>6
    <3>2. k # N => r[k] = ranges[k] BY <2>6
    <3>3. CASE k = N
      <4>1. r[k][1] = last[1] /\ r[k][2] = turn BY <3>1, <3>3
      <4> QED BY <2>4, <4>1
    <3>4. CASE k # N BY <1>1, <3>2, <3>4
    <3> QED BY <3>3, <3>4
  <2>8. r \in Ranges BY <2>5, <2>7 DEF Ranges
  <2>9. \A k \in 1..N : r[k][1]..r[k][2] = IF k = N THEN (last[1]..last[2]) \cup {turn} ELSE ranges[k][1]..ranges[k][2]
    <3> TAKE k \in 1..N
    <3>1. k = N => r[k] = <<last[1], turn>> BY <2>6
    <3>2. k # N => r[k] = ranges[k] BY <2>6
    <3>3. CASE k = N
      <4>1. r[k][1] = last[1] /\ r[k][2] = turn BY <3>1, <3>3
      <4> QED BY <2>4, <3>3, <4>1
    <3>4. CASE k # N BY <3>2, <3>4
    <3> QED BY <3>3, <3>4
  <2>10. Covered(r) = Covered(ranges) \cup {turn}
    <3>1. \A x : x \in Covered(r) <=> \E k \in 1..N : x \in r[k][1]..r[k][2] BY <2>5 DEF Covered
    <3>2. \A x : x \in Covered(ranges) <=> \E k \in 1..N : x \in ranges[k][1]..ranges[k][2] BY <1>1 DEF Covered
    <3>3. ranges[N][1]..ranges[N][2] = last[1]..last[2] BY DEF last
    <3> QED BY <2>2, <2>9, <3>1, <3>2, <3>3
  <2> QED BY <2>8, <2>10 DEF r
<1>3. CASE ~(ranges # <<>> /\ Adjoins(last[2], turn))
  <2>1. r = Append(ranges, <<turn, turn>>) BY <1>3 DEF Ranged
  <2> HIDE DEF r
  <2>2. r \in Seq(Int \X Int) /\ Len(r) = N + 1 /\ DOMAIN r = 1..(N + 1) BY <1>1, <2>1
  <2>3. r[N + 1] = <<turn, turn>> /\ \A k \in 1..N : r[k] = ranges[k] BY <1>1, <2>1
  <2>4. \A k \in 1..(N + 1) : k = N + 1 \/ k \in 1..N BY <1>1
  <2>5. \A k \in 1..(N + 1) : r[k][1] <= r[k][2] BY <1>1, <2>3, <2>4
  <2>6. r \in Ranges BY <2>2, <2>5 DEF Ranges
  <2>7. r[N + 1][1]..r[N + 1][2] = {turn} BY <2>3
  <2>8. Covered(r) = Covered(ranges) \cup {turn}
    <3>1. \A x : x \in Covered(r) <=> \E k \in 1..(N + 1) : x \in r[k][1]..r[k][2] BY <2>2 DEF Covered
    <3>2. \A x : x \in Covered(ranges) <=> \E k \in 1..N : x \in ranges[k][1]..ranges[k][2] BY <1>1 DEF Covered
    <3>3. N + 1 \in 1..(N + 1) /\ \A k \in 1..N : k \in 1..(N + 1) BY <1>1
    <3> QED BY <2>3, <2>4, <2>7, <3>1, <3>2, <3>3
  <2> QED BY <2>6, <2>8 DEF r
<1> QED BY <1>2, <1>3

\* The ranges of the first n turns cover those.
LEMMA RangesCover ==
  ASSUME NEW turns \in Seq(Int)
  PROVE  Covered(TurnRanges(turns)) = {turns[k] : k \in 1..Len(turns)}
<1> DEFINE N == Len(turns)
           Upto(n) == {x \in Ranges : Covered(x) = {turns[k] : k \in 1..n}}
           U == Ranges
           step == [x \in U |-> [n \in 1..N |-> Ranged(x, turns[n])]]
           R == [n \in 0..N |-> Upto(n)]
           Runs(f) == f = [n \in 0..N |-> IF n = 0 THEN <<>> ELSE Ranged(f[n - 1], turns[n])]
<1>1. N \in Nat /\ \A n \in 1..N : turns[n] \in Int OBVIOUS
<1> HIDE DEF N
<1>2. \A x \in U, n \in 1..N : Ranged(x, turns[n]) \in U BY <1>1, RangedCovers
<1>3. \A n \in 1..N : \A x \in Upto(n - 1) : Ranged(x, turns[n]) \in Upto(n)
  <2> TAKE n \in 1..N
  <2> TAKE x \in Upto(n - 1)
  <2>1. Ranged(x, turns[n]) \in Ranges /\ Covered(Ranged(x, turns[n])) = Covered(x) \cup {turns[n]}
    BY <1>1, RangedCovers
  <2>2. {turns[k] : k \in 1..n} = {turns[k] : k \in 1..(n - 1)} \cup {turns[n]}
    <3>1. 1..n = (1..(n - 1)) \cup {n} BY <1>1
    <3> QED BY <3>1
  <2>3. Covered(x) = {turns[k] : k \in 1..(n - 1)} OBVIOUS
  <2> QED BY <2>1, <2>2, <2>3
<1>4. <<>> \in Upto(0)
  <2>1. <<>> \in Ranges BY DEF Ranges
  <2>2. Covered(<<>>) = {} BY DEF Covered
  <2> QED BY <2>1, <2>2
<1>5. \A n \in Nat : Upto(n) \subseteq U OBVIOUS
<1> HIDE DEF U, Upto
<1>6. step \in [U -> [1..N -> U]] /\ R \in [0..N -> SUBSET U] /\ <<>> \in R[0]
      /\ \A n \in 1..N : \A x \in R[n - 1] : step[x][n] \in R[n]
  <2>1. 0 \in 0..N /\ \A n \in 1..N : n \in 0..N /\ n - 1 \in 0..N BY <1>1
  <2>2. \A x \in U, n \in 1..N : step[x][n] = Ranged(x, turns[n]) OBVIOUS
  <2>3. step \in [U -> [1..N -> U]] BY <1>2
  <2>4. \A n \in 0..N : n \in Nat BY <1>1
  <2>5. R \in [0..N -> SUBSET U] BY <1>5, <2>4
  <2>6. \A n \in 0..N : R[n] = Upto(n) OBVIOUS
  <2>7. R[0] = Upto(0) /\ \A n \in 1..N : R[n - 1] = Upto(n - 1) /\ R[n] = Upto(n) BY <2>1, <2>6
  <2> HIDE DEF step, R
  <2>8. \A n \in 1..N : R[n - 1] \subseteq U BY <2>1, <2>5
  <2> QED BY <1>3, <1>4, <2>2, <2>3, <2>5, <2>7, <2>8
<1>7. \E f : Guided(f, N, <<>>, step) /\ \A n \in 0..N : f[n] \in R[n]
  <2> HIDE DEF R, step
  <2> QED BY <1>1, <1>6, GuideExists
<1>8. PICK f : Guided(f, N, <<>>, step) /\ \A n \in 0..N : f[n] \in R[n]
  <2> HIDE DEF R, step
  <2> QED BY <1>7
<1>9. \A n \in 1..N : step[f[n - 1]][n] = Ranged(f[n - 1], turns[n])
  <2> TAKE n \in 1..N
  <2>1. n - 1 \in 0..N BY <1>1
  <2>2. f[n - 1] \in U BY <1>6, <1>8, <2>1
  <2> QED BY <2>2
<1>10. Runs(f)
  <2>1. f = [n \in 0..N |-> IF n = 0 THEN <<>> ELSE step[f[n - 1]][n]] BY <1>8 DEF Guided
  <2>2. \A n \in 0..N : n # 0 => n \in 1..N BY <1>1
  <2> HIDE DEF step
  <2>3. [n \in 0..N |-> IF n = 0 THEN <<>> ELSE step[f[n - 1]][n]]
        = [n \in 0..N |-> IF n = 0 THEN <<>> ELSE Ranged(f[n - 1], turns[n])] BY <1>9, <2>2
  <2> QED BY <2>1, <2>3
<1> DEFINE ranges == CHOOSE g : Runs(g)
<1>11. Runs(ranges) BY <1>10
<1>12. TurnRanges(turns) = ranges[N] BY DEF TurnRanges, N
<1> HIDE DEF ranges
<1>13. ranges[0] = <<>> /\ \A n \in 1..N : ranges[n] = Ranged(ranges[n - 1], turns[n])
  <2>1. \A n \in 0..N : ranges[n] = IF n = 0 THEN <<>> ELSE Ranged(ranges[n - 1], turns[n]) BY <1>11
  <2>2. 0 \in 0..N /\ \A n \in 1..N : n \in 0..N /\ n # 0 BY <1>1
  <2> QED BY <2>1, <2>2
<1>14. \A n \in 0..N : R[n] = Upto(n) OBVIOUS
<1>15. \A n \in 1..N : n \in 0..N /\ n - 1 \in 0..N BY <1>1
<1>16. \A n \in 1..N : ranges[n - 1] \in R[n - 1] => ranges[n] \in R[n] BY <1>3, <1>13, <1>14, <1>15
<1>17. 0 \in 0..N /\ N \in 0..N BY <1>1
<1>18. ranges[0] \in R[0] BY <1>4, <1>13, <1>14, <1>17
<1>19. ranges[N] \in R[N]
  <2> HIDE DEF R
  <2>1. \A n \in 0..N : ranges[n] \in R[n] BY <1>1, <1>16, <1>18, Stays
  <2> QED BY <1>17, <2>1
<1>20. ranges[N] \in Upto(N) BY <1>14, <1>17, <1>19
<1> QED BY <1>12, <1>20 DEF Upto, N

(***************************************************************************)
(* Update.                                                                 *)
(***************************************************************************)
Versions == Nat \X Nat \X {0, 1} \X Nat
\* Of two versions one is no newer than the other.
LEMMA VersionsOrdered ==
  ASSUME NEW v \in Versions, NEW w \in Versions
  PROVE  AtMost(v, v) /\ (AtMost(v, w) \/ AtMost(w, v))
<1>1. /\ v[1] \in Nat /\ v[2] \in Nat /\ v[3] \in Nat /\ v[4] \in Nat
      /\ w[1] \in Nat /\ w[2] \in Nat /\ w[3] \in Nat /\ w[4] \in Nat
  BY DEF Versions
<1>2. (\A i \in 1..4 : v[i] = w[i]) => v = w BY DEF Versions
<1>3. ASSUME NEW i \in 1..4, v[i] # w[i], \A j \in 1..(i - 1) : v[j] = w[j]
      PROVE  AtMost(v, w) \/ AtMost(w, v)
  <2>1. v[i] < w[i] \/ w[i] < v[i] BY <1>1, <1>3
  <2> QED BY <1>3, <2>1 DEF AtMost
<1>4. AtMost(v, v) BY DEF AtMost
<1>5. CASE v[1] # w[1]
  <2>1. 1 \in 1..4 /\ \A j \in 1..(1 - 1) : v[j] = w[j] OBVIOUS
  <2> QED BY <1>3, <1>4, <1>5, <2>1
<1>6. CASE v[1] = w[1] /\ v[2] # w[2]
  <2>1. 2 \in 1..4 /\ \A j \in 1..(2 - 1) : v[j] = w[j]
    <3>1. \A j \in 1..(2 - 1) : j = 1 OBVIOUS
    <3> QED BY <1>6, <3>1
  <2> QED BY <1>3, <1>4, <1>6, <2>1
<1>7. CASE v[1] = w[1] /\ v[2] = w[2] /\ v[3] # w[3]
  <2>1. 3 \in 1..4 /\ \A j \in 1..(3 - 1) : v[j] = w[j]
    <3>1. \A j \in 1..(3 - 1) : j = 1 \/ j = 2 OBVIOUS
    <3> QED BY <1>7, <3>1
  <2> QED BY <1>3, <1>4, <1>7, <2>1
<1>8. CASE v[1] = w[1] /\ v[2] = w[2] /\ v[3] = w[3]
  <2>1. \A j \in 1..(4 - 1) : j = 1 \/ j = 2 \/ j = 3 OBVIOUS
  <2>2. 4 \in 1..4 /\ \A j \in 1..(4 - 1) : v[j] = w[j] BY <1>8, <2>1
  <2>3. CASE v[4] # w[4] BY <1>3, <1>4, <2>2, <2>3
  <2>4. CASE v[4] = w[4]
    <3>1. \A i \in 1..4 : i = 1 \/ i = 2 \/ i = 3 \/ i = 4 OBVIOUS
    <3>2. v = w BY <1>2, <1>8, <2>4, <3>1
    <3> QED BY <1>4, <3>2
  <2> QED BY <2>3, <2>4
<1> QED BY <1>4, <1>5, <1>6, <1>7, <1>8

Receipts == [version : Versions, here : BOOLEAN]
Installations ==
    [current : Versions \cup {Unset}, latest : Versions \cup {Unset}, cached : Versions \cup {Unset}, age : Int,
     mode : {"off", "notify", "auto"}, container : BOOLEAN, updater : BOOLEAN, exit : Int,
     reports : Versions \cup {Unset}, receipt : Receipts \cup {Unset}]
\* What a decision to install says of the release and of the installation.
Forward(r, latest) ==
    /\ r.current # Unset /\ AtMost(r.current, latest) /\ latest # r.current
    /\ latest[1] = r.current[1] /\ (latest[3] = 0 => r.current[3] = 0)
    /\ ~r.container /\ r.receipt.version = r.current /\ r.updater
LEMMA AppliesForward ==
  ASSUME NEW r \in Installations, NEW applying \in BOOLEAN, Decide(r, applying) = "apply"
  PROVE  Forward(r, r.latest) /\ applying
<1>1. /\ r.latest # Unset /\ ~(r.current # Unset /\ AtMost(r.latest, r.current)) /\ applying /\ ~MayNotApply(r)
  BY DEF Decide
<1>2. /\ r.current # Unset /\ r.current[1] = r.latest[1] /\ ~(r.latest[3] = 0 /\ r.current[3] = 1) /\ Owned(r)
  BY <1>1 DEF MayNotApply
<1>3. r.latest \in Versions /\ r.current \in Versions BY <1>1, <1>2 DEF Installations
<1>4. AtMost(r.current, r.latest) /\ r.latest # r.current BY <1>1, <1>2, <1>3, VersionsOrdered
<1>5. r.current[3] \in {0, 1} BY <1>3 DEF Versions
<1> QED BY <1>1, <1>2, <1>4, <1>5 DEF Forward, Owned
LEMMA UpdatesForward ==
  ASSUME NEW r \in Installations
  PROVE  /\ Decide(r, TRUE) = "apply" => Forward(r, r.latest) /\ (Install(r) = 0 => r.reports = r.latest)
         /\ HumanDoor(r) = "apply" => r.mode = "auto" /\ Forward(r, HumanLatest(r))
         /\ Decide(r, FALSE) \notin {"apply", "refuse"}
<1>1. Decide(r, TRUE) = "apply" => Forward(r, r.latest) BY AppliesForward
<1>2. Install(r) = 0 => r.reports = r.latest BY DEF Install
<1>3. ASSUME HumanDoor(r) = "apply" PROVE r.mode = "auto" /\ Forward(r, HumanLatest(r))
  <2> DEFINE h == [r EXCEPT !.latest = HumanLatest(r)]
  <2>1. Decide(h, r.mode = "auto") = "apply" BY <1>3 DEF HumanDoor
  <2>2. HumanLatest(r) \in Versions \cup {Unset} BY DEF HumanLatest, Cached, Installations
  <2>3. h \in Installations /\ h.latest = HumanLatest(r) BY <2>2 DEF Installations
  <2>4. /\ h.current = r.current /\ h.container = r.container /\ h.receipt = r.receipt /\ h.updater = r.updater
    BY DEF Installations
  <2>5. (r.mode = "auto") \in BOOLEAN OBVIOUS
  <2> HIDE DEF h
  <2>6. Forward(h, h.latest) /\ r.mode = "auto" BY <2>1, <2>3, <2>5, AppliesForward
  <2> QED BY <2>3, <2>4, <2>6 DEF Forward
<1>4. Decide(r, FALSE) \notin {"apply", "refuse"} BY DEF Decide
<1> QED BY <1>1, <1>2, <1>3, <1>4

(***************************************************************************)
(* Reads at their moments: of a sequence of events in the order of time, a *)
(* read has seen those up to its own moment.                               *)
(***************************************************************************)
TimedRun(f, last, U, start, next, at, k) ==
    /\ f \in [0..last -> U] /\ f[0] = start
    /\ \A n \in 1..last : f[n] = IF at[n] > k THEN f[n - 1] ELSE next[f[n - 1]][n]
LEMMA TimedRunExists ==
  ASSUME NEW last \in Nat, NEW U, NEW start \in U, NEW next \in [U -> [1..last -> U]],
         NEW at, NEW k
  PROVE  \E f : TimedRun(f, last, U, start, next, at, k)
<1> DEFINE step == [x \in U |-> [n \in 1..last |-> IF at[n] > k THEN x ELSE next[x][n]]]
<1>1. step \in [U -> [1..last -> U]] OBVIOUS
<1>2. \A x \in U, n \in 1..last : step[x][n] = IF at[n] > k THEN x ELSE next[x][n] OBVIOUS
<1> HIDE DEF step
<1>3. PICK f : RunOf(f, last, U, start, step) BY <1>1, RunExists
<1>4. f \in [0..last -> U] /\ f[0] = start /\ \A n \in 1..last : f[n] = step[f[n - 1]][n] BY <1>3 DEF RunOf
<1>5. \A n \in 1..last : f[n - 1] \in U BY <1>4
<1>6. \A n \in 1..last : f[n] = IF at[n] > k THEN f[n - 1] ELSE next[f[n - 1]][n] BY <1>2, <1>4, <1>5
<1> QED BY <1>4, <1>6 DEF TimedRun

\* What every event may add to what is read, the events between an earlier and a
\* later read add.
LEMMA LaterRead ==
  ASSUME NEW last \in Nat, NEW U, NEW start \in U, NEW next \in [U -> [1..last -> U]],
         NEW at \in [1..last -> Int], \A n \in 2..last : at[n - 1] <= at[n],
         NEW R, \A x \in U : <<x, x>> \in R,
         \A x, y \in U : \A n \in 1..last : <<x, y>> \in R => <<x, next[y][n]>> \in R,
         NEW j \in Int, NEW k \in Int, j <= k,
         NEW f, TimedRun(f, last, U, start, next, at, j),
         NEW g, TimedRun(g, last, U, start, next, at, k)
  PROVE  <<f[last], g[last]>> \in R
<1>1. /\ f \in [0..last -> U] /\ g \in [0..last -> U] /\ f[0] = start /\ g[0] = start
      /\ \A n \in 1..last : /\ f[n] = IF at[n] > j THEN f[n - 1] ELSE next[f[n - 1]][n]
                            /\ g[n] = IF at[n] > k THEN g[n - 1] ELSE next[g[n - 1]][n]
  BY DEF TimedRun
<1> DEFINE Good(n) == {x \in U \X U : x \in R /\ (n = 0 \/ at[n] <= j => x[1] = x[2])}
           P == [n \in 0..last |-> Good(n)]
           h == [n \in 0..last |-> <<f[n], g[n]>>]
<1>2. \A n \in 0..last : P[n] = Good(n) /\ h[n] = <<f[n], g[n]>> OBVIOUS
<1>3. \A n \in 0..last : f[n] \in U /\ g[n] \in U BY <1>1
<1>4. h[0] \in P[0]
  <2>1. 0 \in 0..last OBVIOUS
  <2>2. <<start, start>> \in Good(0) OBVIOUS
  <2> QED BY <1>1, <1>2, <2>1, <2>2
<1>5. \A n \in 1..last : h[n - 1] \in P[n - 1] => h[n] \in P[n]
  <2> SUFFICES ASSUME NEW n \in 1..last, h[n - 1] \in P[n - 1] PROVE h[n] \in P[n] OBVIOUS
  <2>1. n \in 0..last /\ n - 1 \in 0..last OBVIOUS
  <2>2. <<f[n - 1], g[n - 1]>> \in R /\ (n - 1 = 0 \/ at[n - 1] <= j => f[n - 1] = g[n - 1])
    <3>1. <<f[n - 1], g[n - 1]>> \in Good(n - 1) BY <1>2, <2>1
    <3> QED BY <3>1
  <2>3. f[n - 1] \in U /\ g[n - 1] \in U /\ f[n] \in U /\ g[n] \in U BY <1>3, <2>1
  <2> SUFFICES <<f[n], g[n]>> \in R /\ (at[n] <= j => f[n] = g[n])
    <3>1. <<f[n], g[n]>> \in Good(n)
      <4>1. n # 0 OBVIOUS
      <4> QED BY <2>3, <4>1
    <3> QED BY <1>2, <2>1, <3>1
  <2>4. at[n] \in Int OBVIOUS
  <2>5. CASE at[n] <= j
    <3>1. n - 1 = 0 \/ at[n - 1] <= j
      <4>1. CASE n = 1 BY <4>1
      <4>2. CASE n # 1
        <5>1. n \in 2..last /\ n - 1 \in 1..last BY <4>2
        <5>2. at[n - 1] <= at[n] /\ at[n - 1] \in Int BY <5>1
        <5> QED BY <2>4, <2>5, <5>2
      <4> QED BY <4>1, <4>2
    <3>2. f[n - 1] = g[n - 1] BY <2>2, <3>1
    <3>3. ~(at[n] > j) /\ ~(at[n] > k) BY <2>4, <2>5
    <3>4. f[n] = g[n] BY <1>1, <3>2, <3>3
    <3>5. <<f[n], f[n]>> \in R BY <2>3
    <3> QED BY <3>4, <3>5
  <2>6. CASE at[n] > j
    <3>1. f[n] = f[n - 1] BY <1>1, <2>6
    <3>2. g[n] = g[n - 1] \/ g[n] = next[g[n - 1]][n] BY <1>1
    <3>3. <<f[n - 1], next[g[n - 1]][n]>> \in R BY <2>2, <2>3
    <3>4. ~(at[n] <= j) BY <2>4, <2>6
    <3> QED BY <2>2, <3>1, <3>2, <3>3, <3>4
  <2> QED BY <2>4, <2>5, <2>6
<1> HIDE DEF P, h
<1>6. \A n \in 0..last : h[n] \in P[n] BY <1>4, <1>5, Stays
<1>7. last \in 0..last OBVIOUS
<1>8. <<f[last], g[last]>> \in Good(last) BY <1>2, <1>6, <1>7
<1> QED BY <1>8

(***************************************************************************)
(* The copy of a scope.                                                    *)
(***************************************************************************)
Words(T) == T \cup {Erased}
PathsNamed == ScopePaths \cup {Unset}
ScopeEvents(T) ==
    [at : Int, do : {"write"}, path : ScopePaths, text : T] \cup [at : Int, do : {"delete"}, path : ScopePaths]
    \cup [at : Int, do : {"rename"}, path : ScopePaths, to : ScopePaths]
    \cup [at : Int, do : {"redact"}, path : PathsNamed]
    \cup [at : Int, do : {"plant"}, path : ScopePaths, version : Nat, text : T]
RowsOf(T) == [version : Nat, text : Words(T), by : PathsNamed]
DocsOf(T) == [version : Nat, text : Words(T), by : PathsNamed, planted : BOOLEAN]
Journals(T) == [ScopePaths -> Seq(RowsOf(T))]
Acts == [path : PathsNamed, count : {Cardinality(S) : S \in SUBSET ScopePaths}]
DocsHeld(T) == [ScopePaths -> DocsOf(T) \cup {Unset}]
Holdings(T) == [docs : DocsHeld(T), rows : Journals(T), trail : Seq(Acts)]
\* A text that is erased has the act that erased it, a document the row that wrote it.
Accounted(trail, named) == \E j \in 1..Len(trail) : trail[j].path = named
Explained(held, trail) == held.text = Erased => Accounted(trail, held.by)
Journaled(doc, rows) ==
    ~doc.planted => \E n \in 1..Len(rows) : rows[n] = Row(doc.version, doc.text, doc.by)
PathHolds(doc, rows, trail) ==
    /\ doc # Unset => Explained(doc, trail) /\ Journaled(doc, rows)
    /\ \A n \in 1..Len(rows) : Explained(rows[n], trail)
ScopeStates(T) == {s \in Holdings(T) : \A p \in ScopePaths : PathHolds(s.docs[p], s.rows[p], s.trail)}
\* Rows are added and erased, acts are added.
RowStands(r, t) == t.version = r.version /\ (t.text = r.text \/ t.text = Erased)
JournalGrows(r, t) == Len(r) <= Len(t) /\ \A n \in 1..Len(r) : RowStands(r[n], t[n])
TrailGrows(r, t) == \A named \in PathsNamed : Accounted(r, named) => Accounted(t, named)
ScopeGrows(s, t) == /\ \A p \in ScopePaths : JournalGrows(s.rows[p], t.rows[p])
                    /\ TrailGrows(s.trail, t.trail)

LEMMA JournalGrowsThrough ==
  ASSUME NEW S, NEW a \in Seq(S), NEW b \in Seq(S), NEW c \in Seq(S)
  PROVE  JournalGrows(a, a) /\ (JournalGrows(a, b) /\ JournalGrows(b, c) => JournalGrows(a, c))
<1>1. JournalGrows(a, a) BY DEF JournalGrows, RowStands
<1>2. ASSUME JournalGrows(a, b), JournalGrows(b, c) PROVE JournalGrows(a, c)
  <2>1. Len(a) \in Nat /\ Len(b) \in Nat /\ Len(c) \in Nat OBVIOUS
  <2>2. Len(a) <= Len(b) /\ Len(a) <= Len(c) BY <1>2, <2>1 DEF JournalGrows
  <2>3. ASSUME NEW i \in 1..Len(a) PROVE RowStands(a[i], c[i])
    <3>1. i \in 1..Len(b) BY <2>1, <2>2
    <3>2. RowStands(a[i], b[i]) BY <1>2 DEF JournalGrows
    <3>3. RowStands(b[i], c[i]) BY <1>2, <3>1 DEF JournalGrows
    <3> QED BY <3>2, <3>3 DEF RowStands
  <2> QED BY <2>2, <2>3 DEF JournalGrows
<1> QED BY <1>1, <1>2

LEMMA ScopeGrowsThrough ==
  ASSUME NEW T, NEW x \in ScopeStates(T), NEW y \in ScopeStates(T), NEW z \in ScopeStates(T)
  PROVE  ScopeGrows(x, x) /\ (ScopeGrows(x, y) /\ ScopeGrows(y, z) => ScopeGrows(x, z))
<1>1. \A q \in ScopePaths : /\ x.rows[q] \in Seq(RowsOf(T)) /\ y.rows[q] \in Seq(RowsOf(T))
                            /\ z.rows[q] \in Seq(RowsOf(T))
  BY DEF ScopeStates, Holdings, Journals
<1>2. \A q \in ScopePaths : JournalGrows(x.rows[q], x.rows[q]) BY <1>1, JournalGrowsThrough
<1>3. TrailGrows(x.trail, x.trail) BY DEF TrailGrows
<1>4. ASSUME ScopeGrows(x, y), ScopeGrows(y, z), NEW q \in ScopePaths PROVE JournalGrows(x.rows[q], z.rows[q])
  <2>1. JournalGrows(x.rows[q], y.rows[q]) /\ JournalGrows(y.rows[q], z.rows[q]) BY <1>4 DEF ScopeGrows
  <2> QED BY <1>1, <2>1, JournalGrowsThrough
<1>5. ASSUME ScopeGrows(x, y), ScopeGrows(y, z) PROVE TrailGrows(x.trail, z.trail)
  BY <1>5 DEF ScopeGrows, TrailGrows
<1> QED BY <1>2, <1>3, <1>4, <1>5 DEF ScopeGrows

LEMMA NamedAfter ==
  ASSUME NEW trail \in Seq(Acts), NEW a \in Acts
  PROVE  /\ Append(trail, a) \in Seq(Acts) /\ TrailGrows(trail, Append(trail, a))
         /\ Accounted(Append(trail, a), a.path)
<1>1. /\ Len(trail) \in Nat /\ Len(Append(trail, a)) = Len(trail) + 1 /\ Append(trail, a)[Len(trail) + 1] = a
      /\ \A j \in 1..Len(trail) : Append(trail, a)[j] = trail[j] /\ j \in 1..(Len(trail) + 1)
      /\ Append(trail, a) \in Seq(Acts)
  OBVIOUS
<1>2. Len(trail) + 1 \in 1..(Len(trail) + 1) BY <1>1
<1> QED BY <1>1, <1>2 DEF Accounted, TrailGrows

\* What a mutation takes as its number is one.
LEMMA VersionsAreNumbers ==
  ASSUME NEW T, NEW rows \in Seq(RowsOf(T)), NEW doc \in DocsOf(T) \cup {Unset}
  PROVE  NextVersion(rows) \in Nat /\ VersionPast(rows, doc) \in Nat
<1>1. NextVersion(rows) \in Nat
  <2>1. CASE rows = <<>> BY <2>1 DEF NextVersion
  <2>2. CASE rows # <<>>
    <3>1. Len(rows) \in 1..Len(rows) BY <2>2
    <3>2. rows[Len(rows)] \in RowsOf(T) BY <3>1
    <3>3. rows[Len(rows)].version \in Nat BY <3>2 DEF RowsOf
    <3> QED BY <2>2, <3>3 DEF NextVersion
  <2> QED BY <2>1, <2>2
<1>2. doc # Unset => doc.version \in Nat BY DEF DocsOf
<1> QED BY <1>1, <1>2 DEF VersionPast

\* A path with one more row, and the document of that row or none.
LEMMA PathAppended ==
  ASSUME NEW T, NEW rows \in Seq(RowsOf(T)), NEW x \in RowsOf(T), NEW doc \in DocsOf(T) \cup {Unset}, NEW trail,
         Explained(x, trail), \A n \in 1..Len(rows) : Explained(rows[n], trail),
         doc # Unset => x = Row(doc.version, doc.text, doc.by)
  PROVE  /\ Append(rows, x) \in Seq(RowsOf(T)) /\ JournalGrows(rows, Append(rows, x))
         /\ PathHolds(doc, Append(rows, x), trail)
<1> DEFINE N == Len(rows)
           r == Append(rows, x)
<1>1. /\ N \in Nat /\ r \in Seq(RowsOf(T)) /\ Len(r) = N + 1 /\ r[N + 1] = x
      /\ \A n \in 1..N : r[n] = rows[n]
  OBVIOUS
<1> HIDE DEF r
<1>2. JournalGrows(rows, r) BY <1>1 DEF JournalGrows, RowStands
<1>3. \A n \in 1..Len(r) : n = N + 1 \/ n \in 1..N BY <1>1
<1>4. \A n \in 1..Len(r) : Explained(r[n], trail) BY <1>1, <1>3
<1>5. ASSUME doc # Unset PROVE Explained(doc, trail) /\ Journaled(doc, r)
  <2>1. x = Row(doc.version, doc.text, doc.by) BY <1>5
  <2>2. x.text = doc.text /\ x.by = doc.by BY <2>1 DEF Row
  <2>3. N + 1 \in 1..Len(r) BY <1>1
  <2> QED BY <1>1, <2>1, <2>2, <2>3 DEF Explained, Journaled
<1> QED BY <1>1, <1>2, <1>4, <1>5 DEF PathHolds, r

\* An erased path, when an act names it.
LEMMA PathBlanked ==
  ASSUME NEW T, NEW rows \in Seq(RowsOf(T)), NEW doc \in DocsOf(T) \cup {Unset}, NEW trail, NEW later,
         PathHolds(doc, rows, trail), NEW named \in PathsNamed, Accounted(later, named)
  PROVE  LET blank == IF doc = Unset THEN Unset ELSE WithoutText(doc, named) IN
         /\ Blanked(rows, named) \in Seq(RowsOf(T)) /\ blank \in DocsOf(T) \cup {Unset}
         /\ JournalGrows(rows, Blanked(rows, named))
         /\ PathHolds(blank, Blanked(rows, named), later)
<1> DEFINE N == Len(rows)
           r == Blanked(rows, named)
<1>0. Erased \in Words(T) BY DEF Words
<1>1. N \in Nat /\ DOMAIN rows = 1..N /\ \A n \in 1..N : rows[n] \in RowsOf(T) OBVIOUS
<1>2. ASSUME NEW n \in 1..N
      PROVE  /\ WithoutText(rows[n], named) \in RowsOf(T)
             /\ WithoutText(rows[n], named) = Row(rows[n].version, Erased, named)
  <2> DEFINE x == rows[n]
             b == WithoutText(x, named)
  <2>1. x \in RowsOf(T) BY <1>1
  <2> HIDE DEF x
  <2>2. b \in RowsOf(T) /\ b.version = x.version /\ b.text = Erased /\ b.by = named
    BY <1>0, <2>1 DEF WithoutText, RowsOf
  <2> HIDE DEF b
  <2>3. b = Row(x.version, Erased, named) BY <2>2 DEF RowsOf, Row
  <2> QED BY <2>2, <2>3 DEF b, x
<1>3. r = [n \in 1..N |-> WithoutText(rows[n], named)] BY <1>1 DEF Blanked
<1>4. r \in [1..N -> RowsOf(T)] /\ \A n \in 1..N : r[n] = Row(rows[n].version, Erased, named) BY <1>2, <1>3
<1> HIDE DEF r
<1>5. r \in Seq(RowsOf(T)) /\ Len(r) = N BY <1>1, <1>4, FunctionIsSeq
<1>6. \A n \in 1..N : r[n].version = rows[n].version /\ r[n].text = Erased /\ r[n].by = named BY <1>4 DEF Row
<1>7. JournalGrows(rows, r) BY <1>1, <1>5, <1>6 DEF JournalGrows, RowStands
<1>8. \A n \in 1..Len(r) : Explained(r[n], later) BY <1>5, <1>6 DEF Explained
<1>9. CASE doc = Unset BY <1>5, <1>7, <1>8, <1>9 DEF PathHolds, r
<1>10. CASE doc # Unset
  <2> DEFINE d == WithoutText(doc, named)
  <2>1. doc \in DocsOf(T) BY <1>10
  <2>2. /\ d \in DocsOf(T) /\ d.version = doc.version /\ d.text = Erased /\ d.by = named /\ d.planted = doc.planted
    BY <1>0, <2>1 DEF WithoutText, DocsOf
  <2> HIDE DEF d
  <2>3. Journaled(d, r)
    <3> SUFFICES ASSUME ~d.planted PROVE \E n \in 1..Len(r) : r[n] = Row(d.version, d.text, d.by)
      BY DEF Journaled
    <3>1. Journaled(doc, rows) BY <1>10 DEF PathHolds
    <3>2. PICK n \in 1..N : rows[n] = Row(doc.version, doc.text, doc.by) BY <2>2, <3>1 DEF Journaled
    <3>3. rows[n].version = doc.version BY <3>2 DEF Row
    <3>4. r[n] = Row(d.version, d.text, d.by) BY <1>4, <2>2, <3>3
    <3> QED BY <1>5, <3>4
  <2>4. Explained(d, later) BY <2>2 DEF Explained
  <2>5. PathHolds(d, r, later) BY <1>8, <2>3, <2>4 DEF PathHolds
  <2>6. (IF doc = Unset THEN Unset ELSE WithoutText(doc, named)) = d BY <1>10 DEF d
  <2> QED BY <1>5, <1>7, <2>2, <2>5, <2>6 DEF r
<1> QED BY <1>9, <1>10

\* A path that is left alone, while acts are added.
LEMMA PathKept ==
  ASSUME NEW T, NEW rows \in Seq(RowsOf(T)), NEW doc \in DocsOf(T) \cup {Unset}, NEW trail, NEW later,
         PathHolds(doc, rows, trail), TrailGrows(trail, later)
  PROVE  PathHolds(doc, rows, later)
<1>1. \A n \in 1..Len(rows) : rows[n].by \in PathsNamed
  <2>1. \A n \in 1..Len(rows) : rows[n] \in RowsOf(T) OBVIOUS
  <2> QED BY <2>1 DEF RowsOf
<1>2. doc # Unset => doc.by \in PathsNamed BY DEF DocsOf
<1> QED BY <1>1, <1>2 DEF PathHolds, Explained, TrailGrows

\* A scope each of whose paths holds.
LEMMA ScopeChanges ==
  ASSUME NEW T, NEW s \in ScopeStates(T), NEW docs \in DocsHeld(T), NEW rows \in Journals(T), NEW trail \in Seq(Acts),
         TrailGrows(s.trail, trail),
         \A q \in ScopePaths : PathHolds(docs[q], rows[q], trail) /\ JournalGrows(s.rows[q], rows[q])
  PROVE  LET t == [docs |-> docs, rows |-> rows, trail |-> trail] IN
         t \in ScopeStates(T) /\ ScopeGrows(s, t)
<1> DEFINE t == [docs |-> docs, rows |-> rows, trail |-> trail]
<1>1. t.docs = docs /\ t.rows = rows /\ t.trail = trail /\ t \in Holdings(T) BY DEF Holdings
<1> HIDE DEF t
<1>2. t \in ScopeStates(T) BY <1>1 DEF ScopeStates
<1>3. ScopeGrows(s, t) BY <1>1 DEF ScopeGrows
<1> QED BY <1>2, <1>3 DEF t

LEMMA StateHas ==
  ASSUME NEW T, NEW s \in ScopeStates(T)
  PROVE  /\ s.docs \in DocsHeld(T) /\ s.rows \in Journals(T) /\ s.trail \in Seq(Acts) /\ s \in Holdings(T)
         /\ \A q \in ScopePaths : /\ s.docs[q] \in DocsOf(T) \cup {Unset} /\ s.rows[q] \in Seq(RowsOf(T))
                                  /\ PathHolds(s.docs[q], s.rows[q], s.trail)
BY DEF ScopeStates, Holdings, DocsHeld, Journals

\* One path of a scope takes a row.
LEMMA ScopeAppended ==
  ASSUME NEW T, NEW s \in ScopeStates(T), NEW p \in ScopePaths, NEW x \in RowsOf(T),
         NEW doc \in DocsOf(T) \cup {Unset}, Explained(x, s.trail),
         doc # Unset => x = Row(doc.version, doc.text, doc.by)
  PROVE  LET t == [docs |-> [s.docs EXCEPT ![p] = doc], rows |-> [s.rows EXCEPT ![p] = Append(@, x)],
                   trail |-> s.trail] IN
         t \in ScopeStates(T) /\ ScopeGrows(s, t)
<1> DEFINE d == [s.docs EXCEPT ![p] = doc]
           r == [s.rows EXCEPT ![p] = Append(@, x)]
           longer == Append(s.rows[p], x)
<1>1. /\ s.docs \in DocsHeld(T) /\ s.rows \in Journals(T) /\ s.trail \in Seq(Acts)
      /\ \A q \in ScopePaths : /\ s.docs[q] \in DocsOf(T) \cup {Unset} /\ s.rows[q] \in Seq(RowsOf(T))
                               /\ PathHolds(s.docs[q], s.rows[q], s.trail)
  BY StateHas
<1>2. \A n \in 1..Len(s.rows[p]) : Explained(s.rows[p][n], s.trail) BY <1>1 DEF PathHolds
<1>3. /\ longer \in Seq(RowsOf(T)) /\ JournalGrows(s.rows[p], longer)
      /\ PathHolds(doc, longer, s.trail)
  BY <1>1, <1>2, PathAppended
<1> HIDE DEF longer
<1>4. r = [s.rows EXCEPT ![p] = longer] BY DEF longer
<1>5. /\ d \in DocsHeld(T) /\ r \in Journals(T)
      /\ \A q \in ScopePaths : /\ d[q] = IF q = p THEN doc ELSE s.docs[q]
                               /\ r[q] = IF q = p THEN longer ELSE s.rows[q]
  BY <1>1, <1>3, <1>4 DEF DocsHeld, Journals
<1> HIDE DEF d, r
<1>6. ASSUME NEW q \in ScopePaths PROVE PathHolds(d[q], r[q], s.trail) /\ JournalGrows(s.rows[q], r[q])
  <2>1. CASE q = p BY <1>3, <1>5, <2>1
  <2>2. CASE q # p
    <3>1. d[q] = s.docs[q] /\ r[q] = s.rows[q] BY <1>5, <2>2
    <3>2. JournalGrows(s.rows[q], s.rows[q]) BY <1>1, JournalGrowsThrough
    <3> QED BY <1>1, <3>1, <3>2
  <2> QED BY <2>1, <2>2
<1>7. TrailGrows(s.trail, s.trail) BY DEF TrailGrows
<1> QED BY <1>1, <1>5, <1>6, <1>7, ScopeChanges DEF d, r

LEMMA WriteHolds ==
  ASSUME NEW T, Erased \notin T, NEW s \in ScopeStates(T), NEW p \in ScopePaths, NEW text \in T
  PROVE  WriteScope(s, p, text) \in ScopeStates(T) /\ ScopeGrows(s, WriteScope(s, p, text))
<1> DEFINE version == VersionPast(s.rows[p], s.docs[p])
           doc == Document(version, text, Unset, FALSE)
           x == Row(version, text, Unset)
<1>1. version \in Nat BY StateHas, VersionsAreNumbers
<1>2. text \in Words(T) /\ text # Erased /\ Unset \in PathsNamed BY DEF Words, PathsNamed
<1>3. WriteScope(s, p, text) = [docs |-> [s.docs EXCEPT ![p] = doc], rows |-> [s.rows EXCEPT ![p] = Append(@, x)],
                                trail |-> s.trail]
  BY DEF WriteScope
<1> HIDE DEF version
<1>4. doc \in DocsOf(T) /\ x \in RowsOf(T) BY <1>1, <1>2 DEF DocsOf, RowsOf, Document, Row
<1>5. x = Row(doc.version, doc.text, doc.by) /\ x.text = text BY DEF Document, Row
<1>6. Explained(x, s.trail) BY <1>2, <1>5 DEF Explained
<1> HIDE DEF doc, x
<1> QED BY <1>3, <1>4, <1>5, <1>6, ScopeAppended

LEMMA RemovalHolds ==
  ASSUME NEW T, NEW s \in ScopeStates(T), NEW p \in ScopePaths, s.docs[p] # Unset
  PROVE  RemovedFrom(s, p) \in ScopeStates(T) /\ ScopeGrows(s, RemovedFrom(s, p))
<1> DEFINE doc == s.docs[p]
           x == Row(VersionPast(s.rows[p], doc), doc.text, doc.by)
<1>1. /\ doc \in DocsOf(T) /\ Explained(doc, s.trail) /\ s.rows[p] \in Seq(RowsOf(T)) /\ s.rows \in Journals(T)
  BY StateHas DEF PathHolds
<1>2. VersionPast(s.rows[p], doc) \in Nat BY <1>1, VersionsAreNumbers
<1>3. RemovedFrom(s, p) = [docs |-> [s.docs EXCEPT ![p] = Unset], rows |-> [s.rows EXCEPT ![p] = Append(@, x)],
                           trail |-> s.trail]
  BY <1>1 DEF RemovedFrom, Journals
<1> HIDE DEF doc
<1>4. x \in RowsOf(T) /\ x.text = doc.text /\ x.by = doc.by BY <1>1, <1>2 DEF DocsOf, RowsOf, Row
<1>5. Explained(x, s.trail) BY <1>1, <1>4 DEF Explained
<1> HIDE DEF x
<1> QED BY <1>3, <1>4, <1>5, ScopeAppended

LEMMA RenameHolds ==
  ASSUME NEW T, NEW s \in ScopeStates(T), NEW p \in ScopePaths, NEW to \in ScopePaths,
         s.docs[p] # Unset, s.docs[to] = Unset
  PROVE  RenameScope(s, p, to) \in ScopeStates(T) /\ ScopeGrows(s, RenameScope(s, p, to))
<1> DEFINE held == s.docs[p]
           gone == RemovedFrom(s, p)
           version == NextVersion(s.rows[to])
           doc == Document(version, held.text, held.by, FALSE)
           x == Row(version, held.text, held.by)
           t == RenameScope(s, p, to)
<1>1. held \in DocsOf(T) /\ Explained(held, s.trail) /\ s.docs[to] \in DocsOf(T) \cup {Unset}
      /\ s.rows[to] \in Seq(RowsOf(T))
  BY StateHas DEF PathHolds
<1>2. version \in Nat BY <1>1, VersionsAreNumbers
<1>3. gone \in ScopeStates(T) /\ ScopeGrows(s, gone) BY RemovalHolds
<1>4. gone.trail = s.trail BY DEF RemovedFrom
<1>5. t = [docs |-> [gone.docs EXCEPT ![to] = doc], rows |-> [gone.rows EXCEPT ![to] = Append(@, x)],
           trail |-> gone.trail]
  BY <1>4 DEF RenameScope
<1> HIDE DEF gone, version, held, t
<1>6. doc \in DocsOf(T) /\ x \in RowsOf(T) BY <1>1, <1>2 DEF DocsOf, RowsOf, Document, Row
<1>7. x = Row(doc.version, doc.text, doc.by) /\ x.text = held.text /\ x.by = held.by BY DEF Document, Row
<1>8. Explained(x, gone.trail) BY <1>1, <1>4, <1>7 DEF Explained
<1> HIDE DEF doc, x
<1>9. t \in ScopeStates(T) /\ ScopeGrows(gone, t) BY <1>3, <1>5, <1>6, <1>7, <1>8, ScopeAppended
<1> QED BY <1>3, <1>9, ScopeGrowsThrough DEF t

LEMMA RedactionHolds ==
  ASSUME NEW T, NEW s \in ScopeStates(T), NEW named \in PathsNamed
  PROVE  RedactScope(s, named) \in ScopeStates(T) /\ ScopeGrows(s, RedactScope(s, named))
<1> DEFINE targets == RedactTargets(s, named)
           a == [path |-> named, count |-> Cardinality(targets)]
           blank(p) == IF s.docs[p] = Unset THEN Unset ELSE WithoutText(s.docs[p], named)
           docs == [p \in ScopePaths |-> IF p \in targets /\ s.docs[p] # Unset THEN WithoutText(s.docs[p], named) ELSE s.docs[p]]
           rows == [p \in ScopePaths |-> IF p \in targets THEN Blanked(s.rows[p], named) ELSE s.rows[p]]
           trail == Append(s.trail, a)
<1>1. /\ s.docs \in DocsHeld(T) /\ s.rows \in Journals(T) /\ s.trail \in Seq(Acts)
      /\ \A q \in ScopePaths : /\ s.docs[q] \in DocsOf(T) \cup {Unset} /\ s.rows[q] \in Seq(RowsOf(T))
                               /\ PathHolds(s.docs[q], s.rows[q], s.trail)
  BY StateHas
<1>2. RedactScope(s, named) = [docs |-> docs, rows |-> rows, trail |-> trail] BY DEF RedactScope
<1>3. a \in Acts /\ a.path = named
  <2>1. targets \subseteq ScopePaths BY DEF RedactTargets, PathsNamed
  <2> HIDE DEF targets
  <2> QED BY <2>1 DEF Acts
<1> HIDE DEF a, targets
<1>4. trail \in Seq(Acts) /\ TrailGrows(s.trail, trail) /\ Accounted(trail, named) BY <1>1, <1>3, NamedAfter
<1> HIDE DEF trail
<1>5. ASSUME NEW q \in ScopePaths
      PROVE  /\ docs[q] \in DocsOf(T) \cup {Unset} /\ rows[q] \in Seq(RowsOf(T))
             /\ PathHolds(docs[q], rows[q], trail) /\ JournalGrows(s.rows[q], rows[q])
  <2>1. CASE q \in targets
    <3>1. docs[q] = blank(q) /\ rows[q] = Blanked(s.rows[q], named) BY <2>1
    <3> HIDE DEF docs, rows
    <3>2. /\ Blanked(s.rows[q], named) \in Seq(RowsOf(T)) /\ blank(q) \in DocsOf(T) \cup {Unset}
          /\ JournalGrows(s.rows[q], Blanked(s.rows[q], named))
          /\ PathHolds(blank(q), Blanked(s.rows[q], named), trail)
      BY <1>1, <1>4, PathBlanked
    <3> HIDE DEF blank
    <3> QED BY <3>1, <3>2
  <2>2. CASE q \notin targets
    <3>1. docs[q] = s.docs[q] /\ rows[q] = s.rows[q] BY <2>2
    <3> HIDE DEF docs, rows
    <3>2. PathHolds(s.docs[q], s.rows[q], trail) BY <1>1, <1>4, PathKept
    <3>3. JournalGrows(s.rows[q], s.rows[q]) BY <1>1, JournalGrowsThrough
    <3> QED BY <1>1, <3>1, <3>2, <3>3
  <2> QED BY <2>1, <2>2
<1>6. docs \in DocsHeld(T) /\ rows \in Journals(T)
  <2>1. docs = [p \in ScopePaths |-> docs[p]] /\ rows = [p \in ScopePaths |-> rows[p]] OBVIOUS
  <2> HIDE DEF docs, rows
  <2> QED BY <1>5, <2>1 DEF DocsHeld, Journals
<1> HIDE DEF docs, rows
<1>7. [docs |-> docs, rows |-> rows, trail |-> trail] \in ScopeStates(T)
      /\ ScopeGrows(s, [docs |-> docs, rows |-> rows, trail |-> trail])
  BY <1>4, <1>5, <1>6, ScopeChanges
<1> QED BY <1>2, <1>7

LEMMA PlantHolds ==
  ASSUME NEW T, Erased \notin T, NEW s \in ScopeStates(T), NEW p \in ScopePaths, NEW version \in Nat, NEW text \in T
  PROVE  PlantScope(s, p, version, text) \in ScopeStates(T) /\ ScopeGrows(s, PlantScope(s, p, version, text))
<1> DEFINE doc == Document(version, text, Unset, TRUE)
           docs == [s.docs EXCEPT ![p] = doc]
           t == PlantScope(s, p, version, text)
<1>1. /\ s.docs \in DocsHeld(T) /\ s.rows \in Journals(T) /\ s.trail \in Seq(Acts) /\ s \in Holdings(T)
      /\ \A q \in ScopePaths : /\ s.docs[q] \in DocsOf(T) \cup {Unset} /\ s.rows[q] \in Seq(RowsOf(T))
                               /\ PathHolds(s.docs[q], s.rows[q], s.trail)
  BY StateHas
<1>2. text \in Words(T) /\ text # Erased /\ Unset \in PathsNamed BY DEF Words, PathsNamed
<1>3. doc \in DocsOf(T) /\ doc.text = text /\ doc.planted = TRUE BY <1>2 DEF DocsOf, Document
<1>4. t = [s EXCEPT !.docs[p] = doc] BY DEF PlantScope
<1> HIDE DEF doc, t
<1>5. t = [docs |-> docs, rows |-> s.rows, trail |-> s.trail] BY <1>1, <1>4 DEF Holdings
<1>6. docs \in DocsHeld(T) /\ \A q \in ScopePaths : docs[q] = IF q = p THEN doc ELSE s.docs[q]
  BY <1>1, <1>3 DEF DocsHeld
<1> HIDE DEF docs
<1>7. ASSUME NEW q \in ScopePaths PROVE PathHolds(docs[q], s.rows[q], s.trail) /\ JournalGrows(s.rows[q], s.rows[q])
  <2>1. JournalGrows(s.rows[q], s.rows[q]) BY <1>1, JournalGrowsThrough
  <2>2. CASE q = p
    <3>1. docs[q] = doc BY <1>6, <2>2
    <3>2. Explained(doc, s.trail) /\ Journaled(doc, s.rows[q]) BY <1>2, <1>3 DEF Explained, Journaled
    <3>3. \A n \in 1..Len(s.rows[q]) : Explained(s.rows[q][n], s.trail) BY <1>1 DEF PathHolds
    <3> QED BY <2>1, <3>1, <3>2, <3>3 DEF PathHolds
  <2>3. CASE q # p
    <3>1. docs[q] = s.docs[q] BY <1>6, <2>3
    <3> QED BY <1>1, <2>1, <3>1
  <2> QED BY <2>2, <2>3
<1>8. TrailGrows(s.trail, s.trail) BY DEF TrailGrows
<1>9. [docs |-> docs, rows |-> s.rows, trail |-> s.trail] \in ScopeStates(T)
      /\ ScopeGrows(s, [docs |-> docs, rows |-> s.rows, trail |-> s.trail])
  BY <1>1, <1>6, <1>7, <1>8, ScopeChanges
<1> QED BY <1>5, <1>9 DEF t

LEMMA ScopeStepGrows ==
  ASSUME NEW T, Erased \notin T, NEW s \in ScopeStates(T), NEW e \in ScopeEvents(T)
  PROVE  ScopeEvent(s, e) \in ScopeStates(T) /\ ScopeGrows(s, ScopeEvent(s, e))
<1>1. CASE e.do = "write"
  <2>1. e.path \in ScopePaths /\ e.text \in T BY <1>1 DEF ScopeEvents
  <2>2. ScopeEvent(s, e) = WriteScope(s, e.path, e.text) BY <1>1 DEF ScopeEvent
  <2> QED BY <2>1, <2>2, WriteHolds
<1>2. CASE e.do = "delete" /\ s.docs[e.path] # Unset
  <2>1. e.path \in ScopePaths BY <1>2 DEF ScopeEvents
  <2>2. ScopeEvent(s, e) = RemovedFrom(s, e.path) BY <1>2 DEF ScopeEvent
  <2> QED BY <1>2, <2>1, <2>2, RemovalHolds
<1>3. CASE e.do = "rename" /\ s.docs[e.path] # Unset /\ s.docs[e.to] = Unset
  <2>1. e.path \in ScopePaths /\ e.to \in ScopePaths BY <1>3 DEF ScopeEvents
  <2>2. ScopeEvent(s, e) = RenameScope(s, e.path, e.to) BY <1>3 DEF ScopeEvent
  <2> QED BY <1>3, <2>1, <2>2, RenameHolds
<1>4. CASE e.do = "redact" /\ RedactTargets(s, e.path) # {}
  <2>1. e.path \in PathsNamed BY <1>4 DEF ScopeEvents
  <2>2. ScopeEvent(s, e) = RedactScope(s, e.path) BY <1>4 DEF ScopeEvent
  <2> QED BY <2>1, <2>2, RedactionHolds
<1>5. CASE e.do = "plant" /\ s.docs[e.path] = Unset
  <2>1. e.path \in ScopePaths /\ e.version \in Nat /\ e.text \in T BY <1>5 DEF ScopeEvents
  <2>2. ScopeEvent(s, e) = PlantScope(s, e.path, e.version, e.text)
    BY <1>5 DEF ScopeEvent
  <2> QED BY <2>1, <2>2, PlantHolds
<1>6. CASE /\ e.do # "write" /\ ~(e.do = "delete" /\ s.docs[e.path] # Unset)
           /\ ~(e.do = "rename" /\ s.docs[e.path] # Unset /\ s.docs[e.to] = Unset)
           /\ ~(e.do = "redact" /\ RedactTargets(s, e.path) # {})
           /\ ~(e.do = "plant" /\ s.docs[e.path] = Unset)
  <2>1. ScopeEvent(s, e) = s BY <1>6 DEF ScopeEvent
  <2> QED BY <2>1, ScopeGrowsThrough
<1> QED BY <1>1, <1>2, <1>3, <1>4, <1>5, <1>6

ScopeSteps(T, events) == [x \in ScopeStates(T) |-> [n \in 1..Len(events) |-> ScopeEvent(x, events[n])]]
EventTimes(events) == [n \in 1..Len(events) |-> events[n].at]
LEMMA ScopeStepsIs ==
  ASSUME NEW T, Erased \notin T, NEW events \in Seq(ScopeEvents(T))
  PROVE  /\ ScopeSteps(T, events) \in [ScopeStates(T) -> [1..Len(events) -> ScopeStates(T)]]
         /\ \A x \in ScopeStates(T), n \in 1..Len(events) :
              ScopeSteps(T, events)[x][n] = ScopeEvent(x, events[n])
         /\ EventTimes(events) \in [1..Len(events) -> Int]
         /\ \A n \in 1..Len(events) : EventTimes(events)[n] = events[n].at
<1>1. \A n \in 1..Len(events) : events[n] \in ScopeEvents(T) OBVIOUS
<1>2. \A e \in ScopeEvents(T) : e.at \in Int BY DEF ScopeEvents
<1>3. \A x \in ScopeStates(T), n \in 1..Len(events) : ScopeEvent(x, events[n]) \in ScopeStates(T)
  BY <1>1, ScopeStepGrows
<1>4. EventTimes(events) \in [1..Len(events) -> Int] /\ \A n \in 1..Len(events) : EventTimes(events)[n] = events[n].at
  BY <1>1, <1>2 DEF EventTimes
<1> QED BY <1>3, <1>4 DEF ScopeSteps

\* A read of the scope is the end of such a run.
LEMMA ScopeRead ==
  ASSUME NEW T, Erased \notin T, NEW s \in ScopeStates(T), NEW events \in Seq(ScopeEvents(T)), NEW k
  PROVE  \E f : /\ TimedRun(f, Len(events), ScopeStates(T), s, ScopeSteps(T, events), EventTimes(events), k)
                /\ ScopeAt(s, events, k) = f[Len(events)]
<1> DEFINE N == Len(events)
           U == ScopeStates(T)
           step == ScopeSteps(T, events)
           at == EventTimes(events)
           Runs(g) == g = [n \in 0..N |-> IF n = 0 THEN s
                                          ELSE IF events[n].at > k THEN g[n - 1] ELSE ScopeEvent(g[n - 1], events[n])]
<1>1. N \in Nat OBVIOUS
<1>2. /\ step \in [U -> [1..N -> U]] /\ at \in [1..N -> Int]
      /\ \A x \in U, n \in 1..N : step[x][n] = ScopeEvent(x, events[n])
      /\ \A n \in 1..N : at[n] = events[n].at
  BY ScopeStepsIs
<1> DEFINE after == CHOOSE g : Runs(g)
<1>3. ScopeAt(s, events, k) = after[N] BY DEF ScopeAt
<1> HIDE DEF N, U, step, at
<1>4. PICK f : TimedRun(f, N, U, s, step, at, k) BY <1>1, <1>2, TimedRunExists DEF U
<1>5. /\ f \in [0..N -> U] /\ f[0] = s
      /\ \A n \in 1..N : f[n] = IF at[n] > k THEN f[n - 1] ELSE step[f[n - 1]][n]
  BY <1>4 DEF TimedRun
<1>6. \A n \in 1..N : f[n] = IF events[n].at > k THEN f[n - 1] ELSE ScopeEvent(f[n - 1], events[n])
  <2> TAKE n \in 1..N
  <2>1. n - 1 \in 0..N BY <1>1
  <2>2. f[n - 1] \in U BY <1>5, <2>1
  <2> QED BY <1>2, <1>5, <2>2
<1>7. Runs(f)
  <2>1. \A n \in 0..N : n # 0 => n \in 1..N BY <1>1
  <2>2. f = [n \in 0..N |-> f[n]] BY <1>5
  <2>3. [n \in 0..N |-> f[n]] = [n \in 0..N |-> IF n = 0 THEN s
                                   ELSE IF events[n].at > k THEN f[n - 1] ELSE ScopeEvent(f[n - 1], events[n])]
    BY <1>5, <1>6, <2>1
  <2> QED BY <2>2, <2>3
<1>8. Runs(after) BY <1>7
<1> HIDE DEF after
<1>9. \A n \in 0..N : after[n] = IF n = 0 THEN s
                                 ELSE IF events[n].at > k THEN after[n - 1] ELSE ScopeEvent(after[n - 1], events[n])
  BY <1>8
<1> DEFINE R == [n \in 0..N |-> {f[n]}]
<1>10. \A n \in 0..N : R[n] = {f[n]} OBVIOUS
<1>11. \A n \in 1..N : n \in 0..N /\ n - 1 \in 0..N /\ n # 0 BY <1>1
<1> HIDE DEF R
<1>12. after[0] \in R[0]
  <2>1. 0 \in 0..N BY <1>1
  <2> QED BY <1>5, <1>9, <1>10, <2>1
<1>13. \A n \in 1..N : after[n - 1] \in R[n - 1] => after[n] \in R[n]
  <2> TAKE n \in 1..N
  <2>1. after[n - 1] \in R[n - 1] => after[n - 1] = f[n - 1] BY <1>10, <1>11
  <2> QED BY <1>6, <1>9, <1>10, <1>11, <2>1
<1>14. \A n \in 0..N : after[n] \in R[n] BY <1>1, <1>12, <1>13, Stays
<1>15. N \in 0..N BY <1>1
<1>16. after[N] = f[N] BY <1>10, <1>14, <1>15
<1> QED BY <1>3, <1>4, <1>16 DEF N, U, step, at

Rising(events) == \A n \in 2..Len(events) : events[n - 1].at <= events[n].at
\* A later read of the scope holds what an earlier one did, with more rows and acts.
LEMMA ScopeReadsGrow ==
  ASSUME NEW T, Erased \notin T, NEW s \in ScopeStates(T), NEW events \in Seq(ScopeEvents(T)), Rising(events),
         NEW j \in Int, NEW k \in Int, j <= k
  PROVE  /\ ScopeAt(s, events, j) \in ScopeStates(T) /\ ScopeAt(s, events, k) \in ScopeStates(T)
         /\ ScopeGrows(ScopeAt(s, events, j), ScopeAt(s, events, k))
<1> DEFINE N == Len(events)
           U == ScopeStates(T)
           step == ScopeSteps(T, events)
           at == EventTimes(events)
           R == {x \in U \X U : ScopeGrows(x[1], x[2])}
<1>1. N \in Nat OBVIOUS
<1>2. /\ step \in [U -> [1..N -> U]] /\ at \in [1..N -> Int]
      /\ \A x \in U, n \in 1..N : step[x][n] = ScopeEvent(x, events[n])
      /\ \A n \in 1..N : at[n] = events[n].at
  BY ScopeStepsIs
<1>3. \A n \in 1..N : events[n] \in ScopeEvents(T) OBVIOUS
<1>4. \A n \in 2..N : at[n - 1] <= at[n]
  <2>1. \A n \in 2..N : n \in 1..N /\ n - 1 \in 1..N BY <1>1
  <2> HIDE DEF at, step
  <2> QED BY <1>2, <2>1 DEF Rising
<1>5. PICK f : TimedRun(f, N, U, s, step, at, j) /\ ScopeAt(s, events, j) = f[N] BY ScopeRead
<1>6. PICK g : TimedRun(g, N, U, s, step, at, k) /\ ScopeAt(s, events, k) = g[N] BY ScopeRead
<1>7. N \in 0..N BY <1>1
<1>8. f[N] \in U /\ g[N] \in U BY <1>5, <1>6, <1>7 DEF TimedRun
<1>9. \A x \in U : <<x, x>> \in R
  <2> SUFFICES ASSUME NEW x \in U PROVE ScopeGrows(x, x) OBVIOUS
  <2> QED BY ScopeGrowsThrough
<1>10. \A x, y \in U : \A n \in 1..N : <<x, y>> \in R => <<x, step[y][n]>> \in R
  <2> SUFFICES ASSUME NEW x \in U, NEW y \in U, NEW n \in 1..N, <<x, y>> \in R PROVE <<x, step[y][n]>> \in R
    OBVIOUS
  <2> DEFINE z == ScopeEvent(y, events[n])
  <2>1. step[y][n] = z /\ ScopeGrows(x, y)
    <3> HIDE DEF U, step
    <3> QED BY <1>2 DEF R
  <2>2. z \in U /\ ScopeGrows(y, z) BY <1>3, ScopeStepGrows
  <2> HIDE DEF z
  <2>3. ScopeGrows(x, z) BY <2>1, <2>2, ScopeGrowsThrough
  <2> HIDE DEF U
  <2>4. <<x, z>> \in R BY <2>2, <2>3
  <2> HIDE DEF step, R
  <2> QED BY <2>1, <2>4
<1>11. s \in U OBVIOUS
<1> HIDE DEF U, R, step, at, N
<1>12. <<f[N], g[N]>> \in R BY <1>1, <1>2, <1>4, <1>5, <1>6, <1>9, <1>10, <1>11, LaterRead
<1> QED BY <1>5, <1>6, <1>8, <1>12 DEF R, U

\* Nothing happens in a quiet scope.
LEMMA QuietScope ==
  ASSUME NEW s, NEW k
  PROVE  ScopeAt(s, <<>>, k) = s
<1> DEFINE Runs(g) == g = [n \in 0..0 |-> IF n = 0 THEN s
                                          ELSE IF <<>>[n].at > k THEN g[n - 1] ELSE ScopeEvent(g[n - 1], <<>>[n])]
           f == [n \in 0..0 |-> s]
           after == CHOOSE g : Runs(g)
<1>1. \A n \in 0..0 : n = 0 OBVIOUS
<1>2. Runs(f)
  <2>1. [n \in 0..0 |-> s] = [n \in 0..0 |-> IF n = 0 THEN s
                                 ELSE IF <<>>[n].at > k THEN f[n - 1] ELSE ScopeEvent(f[n - 1], <<>>[n])]
    BY <1>1
  <2> QED BY <2>1
<1>3. Len(<<>>) = 0 OBVIOUS
<1>4. ScopeAt(s, <<>>, k) = after[0] BY <1>3 DEF ScopeAt
<1>5. Runs(after)
  <2> HIDE DEF f
  <2> QED BY <1>2
<1> HIDE DEF after
<1>6. after[0] = s BY <1>1, <1>5
<1> QED BY <1>4, <1>6

LEMMA EmptyScopeIs ==
  ASSUME NEW T
  PROVE  EmptyScope \in ScopeStates(T) /\ ~Occupied(EmptyScope)
<1>1. EmptyScope \in Holdings(T) BY DEF EmptyScope, Holdings, DocsHeld, Journals
<1>2. /\ EmptyScope.docs = [p \in ScopePaths |-> Unset] /\ EmptyScope.rows = [p \in ScopePaths |-> <<>>]
      /\ EmptyScope.trail = <<>>
  BY DEF EmptyScope
<1>3. \A p \in ScopePaths : EmptyScope.docs[p] = Unset /\ EmptyScope.rows[p] = <<>> BY <1>2
<1>4. \A p \in ScopePaths : PathHolds(EmptyScope.docs[p], EmptyScope.rows[p], EmptyScope.trail)
  BY <1>3 DEF PathHolds
<1> QED BY <1>1, <1>2, <1>3, <1>4 DEF ScopeStates, Occupied

LEMMA ReversedTwice ==
  ASSUME NEW S, NEW s \in Seq(S)
  PROVE  OldestFirst(NewestFirst(s)) = s
<1> DEFINE N == Len(s)
           r == [i \in 1..N |-> s[(N - i) + 1]]
<1>1. N \in Nat /\ DOMAIN s = 1..N /\ \A i \in 1..N : s[i] \in S OBVIOUS
<1>2. \A i \in 1..N : (N - i) + 1 \in 1..N /\ (N - ((N - i) + 1)) + 1 = i BY <1>1
<1>3. r \in [1..N -> S] BY <1>1, <1>2
<1>4. \A i \in 1..N : r[i] = s[(N - i) + 1] OBVIOUS
<1>5. NewestFirst(s) = r BY DEF NewestFirst, Reverse
<1> HIDE DEF r
<1>6. r \in Seq(S) /\ Len(r) = N BY <1>1, <1>3, FunctionIsSeq
<1>7. OldestFirst(r) = [i \in 1..N |-> r[(N - i) + 1]] BY <1>6 DEF OldestFirst, Reverse
<1>8. \A i \in 1..N : r[(N - i) + 1] = s[i]
  <2> TAKE i \in 1..N
  <2>1. r[(N - i) + 1] = s[(N - ((N - i) + 1)) + 1] BY <1>2, <1>4
  <2> QED BY <1>2, <2>1
<1>9. [i \in 1..N |-> r[(N - i) + 1]] = [i \in 1..N |-> s[i]] BY <1>8
<1>10. s = [i \in 1..N |-> s[i]] BY <1>1
<1> QED BY <1>5, <1>7, <1>9, <1>10

LEMMA ReadsInOrder ==
  /\ ScopeReads.list \in Int /\ ScopeReads.history \in Int /\ ScopeReads.trail \in Int
  /\ ScopeReads.history <= ScopeReads.trail
  /\ \A p \in ScopePaths : ScopeReads.document[p] \in Int /\ ScopeReads.document[p] <= ScopeReads.history
<1>1. Copied \in Seq(ScopePaths) /\ Len(Copied) \in Nat BY CopyAssumption
<1>2. \A p \in ScopePaths : Nth(p) \in 1..Len(Copied)
  <2> TAKE p \in ScopePaths
  <2>1. DOMAIN Copied = 1..Len(Copied) BY <1>1
  <2>2. \E k \in DOMAIN Copied : Copied[k] = p BY DEF ScopePaths, ToSet
  <2> QED BY <2>1, <2>2 DEF Nth
<1>3. /\ ScopeReads.list = 1 /\ ScopeReads.history = Len(Copied) + 2 /\ ScopeReads.trail = Len(Copied) + 3
      /\ ScopeReads.document = [p \in ScopePaths |-> 1 + Nth(p)]
  BY DEF ScopeReads
<1>4. \A p \in ScopePaths : ScopeReads.document[p] = 1 + Nth(p) BY <1>3
<1> HIDE DEF ScopeReads
<1> QED BY <1>1, <1>2, <1>3, <1>4

\* However the source changes meanwhile.
LEMMA CopyAccounts ==
  ASSUME NEW T, Erased \notin T, NEW s \in ScopeStates(T), NEW events \in Seq(ScopeEvents(T)), Rising(events),
         NEW p \in ScopePaths
  PROVE  LET c == CopyScope(s, events, EmptyScope) IN
         /\ c.docs[p] # Unset /\ ~c.docs[p].planted =>
              \E n \in DOMAIN c.rows[p] : /\ c.rows[p][n].version = c.docs[p].version
                                          /\ c.rows[p][n].text \in {c.docs[p].text, Erased}
         /\ \A n \in DOMAIN c.rows[p] :
              c.rows[p][n].text = Erased => \E j \in DOMAIN c.trail : c.trail[j].path = c.rows[p][n].by
<1> DEFINE at(k) == ScopeAt(s, events, k)
           listed == {q \in ScopePaths : at(ScopeReads.list).docs[q] # Unset}
           docs == [q \in ScopePaths |-> IF q \in listed THEN at(ScopeReads.document[q]).docs[q] ELSE Unset]
           h == at(ScopeReads.history)
           t == at(ScopeReads.trail)
           d == at(ScopeReads.document[p])
           c == CopyScope(s, events, EmptyScope)
<1>1. c = [docs |-> docs, rows |-> h.rows, trail |-> OldestFirst(NewestFirst(t.trail))]
  <2>1. ~Occupied(EmptyScope) BY EmptyScopeIs
  <2> QED BY <2>1 DEF CopyScope
<1>2. d \in ScopeStates(T) /\ h \in ScopeStates(T) /\ ScopeGrows(d, h) BY ReadsInOrder, ScopeReadsGrow
<1>3. t \in ScopeStates(T) /\ ScopeGrows(h, t) BY ReadsInOrder, ScopeReadsGrow
<1>4. docs[p] # Unset => docs[p] = d.docs[p] OBVIOUS
<1>5. c.docs = docs /\ c.rows = h.rows /\ c.trail = OldestFirst(NewestFirst(t.trail)) BY <1>1
<1> HIDE DEF d, h, t, docs, c
<1>6. /\ h.rows[p] \in Seq(RowsOf(T)) /\ d.rows[p] \in Seq(RowsOf(T)) /\ t.trail \in Seq(Acts)
      /\ PathHolds(d.docs[p], d.rows[p], d.trail) /\ PathHolds(h.docs[p], h.rows[p], h.trail)
  BY <1>2, <1>3, StateHas
<1>7. c.trail = t.trail BY <1>5, <1>6, ReversedTwice
<1>8. JournalGrows(d.rows[p], h.rows[p]) /\ TrailGrows(h.trail, t.trail) BY <1>2, <1>3 DEF ScopeGrows
<1>9. DOMAIN h.rows[p] = 1..Len(h.rows[p]) /\ DOMAIN t.trail = 1..Len(t.trail)
      /\ Len(h.rows[p]) \in Nat /\ Len(d.rows[p]) \in Nat BY <1>6
<1>10. ASSUME docs[p] # Unset, ~docs[p].planted
       PROVE  \E n \in DOMAIN h.rows[p] : /\ h.rows[p][n].version = docs[p].version
                                          /\ h.rows[p][n].text \in {docs[p].text, Erased}
  <2>1. d.docs[p] # Unset /\ docs[p] = d.docs[p] BY <1>4, <1>10
  <2>2. Journaled(docs[p], d.rows[p]) BY <1>6, <2>1 DEF PathHolds
  <2>3. PICK n \in 1..Len(d.rows[p]) : d.rows[p][n] = Row(docs[p].version, docs[p].text, docs[p].by)
    BY <1>10, <2>2 DEF Journaled
  <2>4. d.rows[p][n].version = docs[p].version /\ d.rows[p][n].text = docs[p].text BY <2>3 DEF Row
  <2>5. n \in 1..Len(h.rows[p]) /\ RowStands(d.rows[p][n], h.rows[p][n]) BY <1>8, <1>9 DEF JournalGrows
  <2> QED BY <1>9, <2>4, <2>5 DEF RowStands
<1>11. ASSUME NEW n \in 1..Len(h.rows[p]), h.rows[p][n].text = Erased
       PROVE  \E j \in 1..Len(t.trail) : t.trail[j].path = h.rows[p][n].by
  <2>1. Explained(h.rows[p][n], h.trail) BY <1>6 DEF PathHolds
  <2>2. h.rows[p][n].by \in PathsNamed
    <3>1. h.rows[p][n] \in RowsOf(T) BY <1>6
    <3> QED BY <3>1 DEF RowsOf
  <2> QED BY <1>8, <1>11, <2>1, <2>2 DEF Explained, TrailGrows, Accounted
<1> QED BY <1>5, <1>7, <1>9, <1>10, <1>11 DEF c

\* A quiet scope is copied as it is, into an empty target.
LEMMA QuietCopy ==
  ASSUME NEW T, NEW s \in ScopeStates(T)
  PROVE  CopyScope(s, <<>>, EmptyScope) = s
<1>1. s.docs \in DocsHeld(T) /\ s.trail \in Seq(Acts) /\ s \in Holdings(T) BY DEF ScopeStates, Holdings
<1>2. ~Occupied(EmptyScope) BY EmptyScopeIs
<1> DEFINE docs == [q \in ScopePaths |-> IF q \in {p \in ScopePaths : s.docs[p] # Unset} THEN s.docs[q] ELSE Unset]
<1>3. CopyScope(s, <<>>, EmptyScope) = [docs |-> docs, rows |-> s.rows, trail |-> OldestFirst(NewestFirst(s.trail))]
  BY <1>2, QuietScope DEF CopyScope
<1>4. docs = s.docs
  <2>1. \A q \in ScopePaths : docs[q] = s.docs[q] OBVIOUS
  <2>2. s.docs = [q \in ScopePaths |-> s.docs[q]] BY <1>1 DEF DocsHeld
  <2>3. docs = [q \in ScopePaths |-> docs[q]] OBVIOUS
  <2> HIDE DEF docs
  <2>4. [q \in ScopePaths |-> docs[q]] = [q \in ScopePaths |-> s.docs[q]] BY <2>1
  <2> QED BY <2>2, <2>3, <2>4
<1>5. OldestFirst(NewestFirst(s.trail)) = s.trail BY <1>1, ReversedTwice
<1>6. s = [docs |-> s.docs, rows |-> s.rows, trail |-> s.trail] BY <1>1 DEF Holdings
<1> HIDE DEF docs
<1> QED BY <1>3, <1>4, <1>5, <1>6

\* What is not the empty scope is occupied.
LEMMA OccupiedIs ==
  ASSUME NEW T, NEW s \in ScopeStates(T), ~Occupied(s)
  PROVE  s = EmptyScope
<1>1. s.docs \in DocsHeld(T) /\ s.rows \in Journals(T) /\ s \in Holdings(T) BY DEF ScopeStates, Holdings
<1>2. s.trail = <<>> /\ \A p \in ScopePaths : s.docs[p] = Unset /\ s.rows[p] = <<>> BY DEF Occupied
<1>3. s.docs = [p \in ScopePaths |-> Unset]
  <2>1. s.docs = [p \in ScopePaths |-> s.docs[p]] BY <1>1 DEF DocsHeld
  <2> QED BY <1>2, <2>1
<1>4. s.rows = [p \in ScopePaths |-> <<>>]
  <2>1. s.rows = [p \in ScopePaths |-> s.rows[p]] BY <1>1 DEF Journals
  <2> QED BY <1>2, <2>1
<1>5. s = [docs |-> s.docs, rows |-> s.rows, trail |-> s.trail] BY <1>1 DEF Holdings
<1> QED BY <1>2, <1>3, <1>4, <1>5 DEF EmptyScope

(***************************************************************************)
(* The copy of a conversation.                                             *)
(***************************************************************************)
ConversationEvents(T) ==
    [at : Int, do : {"append"}, text : T] \cup [at : Int, do : {"project"}] \cup [at : Int, do : {"redact"}, turn : Nat]
Projections(T) == [turn : Nat, text : Words(T)]
\* Turns are added and erased.
RowsGrow(r, t) == Len(r) <= Len(t) /\ \A n \in 1..Len(r) : t[n] = r[n] \/ t[n] = Erased
\* The turns an act names are there, and erased.
ActsHold(turns, trail) == \A k \in 1..Len(trail) : trail[k] \in 1..Len(turns) /\ turns[trail[k]] = Erased
ConversationStates(T) ==
    {s \in [turns : Seq(Words(T)), projections : Seq(Projections(T)), trail : Seq(Nat)] : ActsHold(s.turns, s.trail)}

LEMMA RowsGrowThrough ==
  ASSUME NEW S, NEW a \in Seq(S), NEW b \in Seq(S), NEW c \in Seq(S)
  PROVE  RowsGrow(a, a) /\ (RowsGrow(a, b) /\ RowsGrow(b, c) => RowsGrow(a, c))
<1>1. RowsGrow(a, a) BY DEF RowsGrow
<1>2. ASSUME RowsGrow(a, b), RowsGrow(b, c) PROVE RowsGrow(a, c)
  <2>1. Len(a) \in Nat /\ Len(b) \in Nat /\ Len(c) \in Nat OBVIOUS
  <2>2. Len(a) <= Len(b) /\ Len(a) <= Len(c) BY <1>2, <2>1 DEF RowsGrow
  <2>3. ASSUME NEW i \in 1..Len(a) PROVE c[i] = a[i] \/ c[i] = Erased
    <3>1. i \in 1..Len(b) BY <2>1, <2>2
    <3>2. b[i] = a[i] \/ b[i] = Erased BY <1>2 DEF RowsGrow
    <3>3. c[i] = b[i] \/ c[i] = Erased BY <1>2, <3>1 DEF RowsGrow
    <3> QED BY <3>2, <3>3
  <2> QED BY <2>2, <2>3 DEF RowsGrow
<1> QED BY <1>1, <1>2

LEMMA ConversationStepGrows ==
  ASSUME NEW T, NEW s \in ConversationStates(T), NEW e \in ConversationEvents(T)
  PROVE  ConversationEvent(s, e) \in ConversationStates(T) /\ RowsGrow(s.turns, ConversationEvent(s, e).turns)
<1> DEFINE t == ConversationEvent(s, e)
           N == Len(s.turns)
<1>1. /\ s.turns \in Seq(Words(T)) /\ s.projections \in Seq(Projections(T)) /\ s.trail \in Seq(Nat)
      /\ ActsHold(s.turns, s.trail) /\ N \in Nat /\ DOMAIN s.turns = 1..N
      /\ \A n \in 1..N : s.turns[n] \in Words(T)
  BY DEF ConversationStates
<1>2. e.do = "append" => e.text \in T BY DEF ConversationEvents
<1>3. ASSUME NEW turns \in Seq(Words(T)), NEW projections \in Seq(Projections(T)), NEW trail \in Seq(Nat),
             ActsHold(turns, trail), RowsGrow(s.turns, turns),
             t = [turns |-> turns, projections |-> projections, trail |-> trail]
      PROVE  t \in ConversationStates(T) /\ RowsGrow(s.turns, t.turns)
  <2> HIDE DEF t
  <2> QED BY <1>3 DEF ConversationStates
<1>4. RowsGrow(s.turns, s.turns) BY <1>1 DEF RowsGrow
<1>5. CASE e.do = "append"
  <2> DEFINE turns == Append(s.turns, e.text)
  <2>1. t = [turns |-> turns, projections |-> s.projections, trail |-> s.trail] BY <1>5 DEF ConversationEvent
  <2>2. /\ turns \in Seq(Words(T)) /\ Len(turns) = N + 1
        /\ \A n \in 1..N : turns[n] = s.turns[n] /\ n \in 1..(N + 1)
    BY <1>1, <1>2, <1>5 DEF Words
  <2> HIDE DEF turns
  <2>3. ActsHold(turns, s.trail)
    <3> SUFFICES ASSUME NEW k \in 1..Len(s.trail) PROVE s.trail[k] \in 1..Len(turns) /\ turns[s.trail[k]] = Erased
      BY DEF ActsHold
    <3>1. s.trail[k] \in 1..N /\ s.turns[s.trail[k]] = Erased BY <1>1 DEF ActsHold
    <3> QED BY <2>2, <3>1
  <2>4. RowsGrow(s.turns, turns)
    <3>1. Len(s.turns) <= Len(turns) BY <1>1, <2>2
    <3>2. \A n \in 1..Len(s.turns) : turns[n] = s.turns[n] BY <2>2
    <3> QED BY <3>1, <3>2 DEF RowsGrow
  <2> QED BY <1>1, <1>3, <2>1, <2>2, <2>3, <2>4
<1>6. CASE e.do = "project" /\ s.turns # <<>>
  <2> DEFINE x == [turn |-> N, text |-> s.turns[N]]
  <2>1. t.turns = s.turns /\ t.trail = s.trail /\ t.projections = Append(s.projections, x)
        /\ t = [turns |-> s.turns, trail |-> s.trail, projections |-> Append(s.projections, x)]
    BY <1>6 DEF ConversationEvent
  <2>2. N \in 1..N BY <1>1, <1>6
  <2>3. x \in Projections(T) BY <1>1, <2>2 DEF Projections
  <2> HIDE DEF x
  <2>4. Append(s.projections, x) \in Seq(Projections(T)) BY <1>1, <2>3
  <2> HIDE DEF t
  <2>5. t \in ConversationStates(T) /\ t.turns = s.turns BY <1>1, <2>1, <2>4 DEF ConversationStates
  <2> QED BY <1>4, <2>5 DEF t
<1>7. CASE e.do = "redact" /\ e.turn \in DOMAIN s.turns
  <2> DEFINE turns == [s.turns EXCEPT ![e.turn] = Erased]
             projections == [k \in DOMAIN s.projections |->
                               IF s.projections[k].turn = e.turn THEN [turn |-> e.turn, text |-> Erased]
                               ELSE s.projections[k]]
             trail == Append(s.trail, e.turn)
  <2>1. t = [turns |-> turns, projections |-> projections, trail |-> trail] BY <1>7 DEF ConversationEvent
  <2>2. e.turn \in 1..N /\ e.turn \in Nat BY <1>1, <1>7
  <2>3. Erased \in Words(T) BY DEF Words
  <2>4. /\ turns \in Seq(Words(T)) /\ Len(turns) = N
        /\ \A n \in 1..N : turns[n] = IF n = e.turn THEN Erased ELSE s.turns[n]
    BY <1>1, <2>2, <2>3, ExceptSeq
  <2>5. projections \in Seq(Projections(T))
    <3>1. DOMAIN s.projections = 1..Len(s.projections) /\ Len(s.projections) \in Nat
          /\ \A k \in 1..Len(s.projections) : s.projections[k] \in Projections(T)
      BY <1>1
    <3>2. [turn |-> e.turn, text |-> Erased] \in Projections(T) BY <2>2, <2>3 DEF Projections
    <3>3. projections \in [1..Len(s.projections) -> Projections(T)] BY <3>1, <3>2
    <3> QED BY <3>1, <3>3, FunctionIsSeq
  <2>6. /\ trail \in Seq(Nat) /\ Len(trail) = Len(s.trail) + 1 /\ trail[Len(s.trail) + 1] = e.turn
        /\ Len(s.trail) \in Nat
        /\ \A k \in 1..Len(s.trail) : trail[k] = s.trail[k]
    BY <1>1, <2>2
  <2> HIDE DEF turns, projections, trail
  <2>7. ActsHold(turns, trail)
    <3>1. \A k \in 1..Len(trail) : k = Len(s.trail) + 1 \/ k \in 1..Len(s.trail) BY <2>6
    <3> QED BY <1>1, <2>2, <2>4, <2>6, <3>1 DEF ActsHold
  <2>8. RowsGrow(s.turns, turns) BY <1>1, <2>4 DEF RowsGrow
  <2> QED BY <1>3, <2>1, <2>4, <2>5, <2>6, <2>7, <2>8
<1>8. CASE ~(e.do = "append") /\ ~(e.do = "project" /\ s.turns # <<>>) /\ ~(e.do = "redact" /\ e.turn \in DOMAIN s.turns)
  <2>1. t = s BY <1>8 DEF ConversationEvent
  <2> QED BY <1>4, <2>1
<1> QED BY <1>5, <1>6, <1>7, <1>8

ConversationSteps(T, events) == [x \in ConversationStates(T) |-> [n \in 1..Len(events) |-> ConversationEvent(x, events[n])]]
LEMMA ConversationStepsIs ==
  ASSUME NEW T, NEW events \in Seq(ConversationEvents(T))
  PROVE  /\ ConversationSteps(T, events) \in [ConversationStates(T) -> [1..Len(events) -> ConversationStates(T)]]
         /\ \A x \in ConversationStates(T), n \in 1..Len(events) :
              ConversationSteps(T, events)[x][n] = ConversationEvent(x, events[n])
         /\ EventTimes(events) \in [1..Len(events) -> Int]
         /\ \A n \in 1..Len(events) : EventTimes(events)[n] = events[n].at
<1>1. \A n \in 1..Len(events) : events[n] \in ConversationEvents(T) OBVIOUS
<1>2. \A e \in ConversationEvents(T) : e.at \in Int BY DEF ConversationEvents
<1>3. \A x \in ConversationStates(T), n \in 1..Len(events) : ConversationEvent(x, events[n]) \in ConversationStates(T)
  BY <1>1, ConversationStepGrows
<1>4. EventTimes(events) \in [1..Len(events) -> Int] /\ \A n \in 1..Len(events) : EventTimes(events)[n] = events[n].at
  BY <1>1, <1>2 DEF EventTimes
<1> QED BY <1>3, <1>4 DEF ConversationSteps

\* A read of the conversation is the end of such a run.
LEMMA ConversationRead ==
  ASSUME NEW T, NEW s \in ConversationStates(T), NEW events \in Seq(ConversationEvents(T)), NEW k
  PROVE  \E f : /\ TimedRun(f, Len(events), ConversationStates(T), s, ConversationSteps(T, events), EventTimes(events), k)
                /\ ConversationAt(s, events, k) = f[Len(events)]
<1>0. /\ ConversationSteps(T, events) \in [ConversationStates(T) -> [1..Len(events) -> ConversationStates(T)]]
      /\ EventTimes(events) \in [1..Len(events) -> Int]
      /\ \A x \in ConversationStates(T), n \in 1..Len(events) :
           ConversationSteps(T, events)[x][n] = ConversationEvent(x, events[n])
      /\ \A n \in 1..Len(events) : EventTimes(events)[n] = events[n].at
  BY ONLY ConversationStepsIs, events \in Seq(ConversationEvents(T))
<1> DEFINE N == Len(events)
           U == ConversationStates(T)
           step == ConversationSteps(T, events)
           at == EventTimes(events)
<1>1. N \in Nat OBVIOUS
<1>2. /\ step \in [U -> [1..N -> U]] /\ at \in [1..N -> Int]
      /\ \A x \in U, n \in 1..N : step[x][n] = ConversationEvent(x, events[n])
      /\ \A n \in 1..N : at[n] = events[n].at
  BY <1>0
<1> DEFINE Runs(g) == g = [n \in 0..N |-> IF n = 0 THEN s
                                          ELSE IF events[n].at > k THEN g[n - 1] ELSE ConversationEvent(g[n - 1], events[n])]
           after == CHOOSE g : Runs(g)
<1>3. ConversationAt(s, events, k) = after[N] BY DEF ConversationAt
<1> HIDE DEF N, U, step, at
<1>4. PICK f : TimedRun(f, N, U, s, step, at, k) BY <1>1, <1>2, TimedRunExists DEF U
<1>5. /\ f \in [0..N -> U] /\ f[0] = s
      /\ \A n \in 1..N : f[n] = IF at[n] > k THEN f[n - 1] ELSE step[f[n - 1]][n]
  BY <1>4 DEF TimedRun
<1>6. \A n \in 1..N : f[n] = IF events[n].at > k THEN f[n - 1] ELSE ConversationEvent(f[n - 1], events[n])
  <2> TAKE n \in 1..N
  <2>1. n - 1 \in 0..N BY <1>1
  <2>2. f[n - 1] \in U BY <1>5, <2>1
  <2> QED BY <1>2, <1>5, <2>2
<1>7. Runs(f)
  <2>1. \A n \in 0..N : n # 0 => n \in 1..N BY <1>1
  <2>2. f = [n \in 0..N |-> f[n]] BY <1>5
  <2>3. [n \in 0..N |-> f[n]] = [n \in 0..N |-> IF n = 0 THEN s
                                   ELSE IF events[n].at > k THEN f[n - 1] ELSE ConversationEvent(f[n - 1], events[n])]
    BY <1>5, <1>6, <2>1
  <2> QED BY <2>2, <2>3
<1>8. Runs(after) BY <1>7
<1> HIDE DEF after
<1>9. \A n \in 0..N : after[n] = IF n = 0 THEN s
                                 ELSE IF events[n].at > k THEN after[n - 1] ELSE ConversationEvent(after[n - 1], events[n])
  BY <1>8
<1> DEFINE R == [n \in 0..N |-> {f[n]}]
<1>10. \A n \in 0..N : R[n] = {f[n]} OBVIOUS
<1>11. \A n \in 1..N : n \in 0..N /\ n - 1 \in 0..N /\ n # 0 BY <1>1
<1> HIDE DEF R
<1>12. after[0] \in R[0]
  <2>1. 0 \in 0..N BY <1>1
  <2> QED BY <1>5, <1>9, <1>10, <2>1
<1>13. \A n \in 1..N : after[n - 1] \in R[n - 1] => after[n] \in R[n]
  <2> TAKE n \in 1..N
  <2>1. after[n - 1] \in R[n - 1] => after[n - 1] = f[n - 1] BY <1>10, <1>11
  <2> QED BY <1>6, <1>9, <1>10, <1>11, <2>1
<1>14. \A n \in 0..N : after[n] \in R[n] BY <1>1, <1>12, <1>13, Stays
<1>15. N \in 0..N BY <1>1
<1>16. after[N] = f[N] BY <1>10, <1>14, <1>15
<1> QED BY <1>3, <1>4, <1>16 DEF N, U, step, at

\* A later read of the conversation holds what an earlier one did, with more turns.
LEMMA ConversationReadsGrow ==
  ASSUME NEW T, NEW s \in ConversationStates(T), NEW events \in Seq(ConversationEvents(T)), Rising(events),
         NEW j \in Int, NEW k \in Int, j <= k
  PROVE  /\ ConversationAt(s, events, j) \in ConversationStates(T) /\ ConversationAt(s, events, k) \in ConversationStates(T)
         /\ RowsGrow(ConversationAt(s, events, j).turns, ConversationAt(s, events, k).turns)
<1> DEFINE N == Len(events)
           U == ConversationStates(T)
           step == ConversationSteps(T, events)
           at == EventTimes(events)
           R == {x \in U \X U : RowsGrow(x[1].turns, x[2].turns)}
<1>1. N \in Nat OBVIOUS
<1>2. /\ step \in [U -> [1..N -> U]] /\ at \in [1..N -> Int]
      /\ \A x \in U, n \in 1..N : step[x][n] = ConversationEvent(x, events[n])
      /\ \A n \in 1..N : at[n] = events[n].at
  BY ConversationStepsIs
<1>3. \A n \in 1..N : events[n] \in ConversationEvents(T) OBVIOUS
<1>4. \A n \in 2..N : at[n - 1] <= at[n]
  <2>1. \A n \in 2..N : n \in 1..N /\ n - 1 \in 1..N BY <1>1
  <2> HIDE DEF at, step
  <2> QED BY <1>2, <2>1 DEF Rising
<1>5. PICK f : TimedRun(f, N, U, s, step, at, j) /\ ConversationAt(s, events, j) = f[N] BY ConversationRead
<1>6. PICK g : TimedRun(g, N, U, s, step, at, k) /\ ConversationAt(s, events, k) = g[N] BY ConversationRead
<1>7. N \in 0..N BY <1>1
<1>8. f[N] \in U /\ g[N] \in U BY <1>5, <1>6, <1>7 DEF TimedRun
<1>9. \A x \in U : <<x, x>> \in R
  <2> SUFFICES ASSUME NEW x \in U PROVE RowsGrow(x.turns, x.turns) OBVIOUS
  <2>1. x.turns \in Seq(Words(T)) BY DEF ConversationStates
  <2> QED BY <2>1, RowsGrowThrough
<1>10. \A x, y \in U : \A n \in 1..N : <<x, y>> \in R => <<x, step[y][n]>> \in R
  <2> SUFFICES ASSUME NEW x \in U, NEW y \in U, NEW n \in 1..N, RowsGrow(x.turns, y.turns)
               PROVE  ConversationEvent(y, events[n]) \in U /\ RowsGrow(x.turns, ConversationEvent(y, events[n]).turns)
    BY <1>2
  <2> DEFINE z == ConversationEvent(y, events[n])
  <2>1. z \in U /\ RowsGrow(y.turns, z.turns) BY <1>3, ConversationStepGrows
  <2>2. x.turns \in Seq(Words(T)) /\ y.turns \in Seq(Words(T)) /\ z.turns \in Seq(Words(T))
    BY <2>1 DEF ConversationStates
  <2> HIDE DEF z
  <2>3. RowsGrow(x.turns, z.turns) BY <2>1, <2>2, RowsGrowThrough
  <2> QED BY <2>1, <2>3 DEF z
<1>11. s \in U OBVIOUS
<1> HIDE DEF U, R, step, at, N
<1>12. <<f[N], g[N]>> \in R BY <1>1, <1>2, <1>4, <1>5, <1>6, <1>9, <1>10, <1>11, LaterRead
<1> QED BY <1>5, <1>6, <1>8, <1>12 DEF R, U


\* What is carried of an erasure is carried with the erased turn.
LEMMA ErasuresCarried ==
  ASSUME NEW T, NEW s \in ConversationStates(T), NEW events \in Seq(ConversationEvents(T)), Rising(events)
  PROVE  LET c == RestoreConversation(NoTurns, ReadConversation(s, events), 3) IN
         \A k \in DOMAIN c.trail : c.trail[k] \in DOMAIN c.turns => c.turns[c.trail[k]] = Erased
<1> DEFINE a == ConversationAt(s, events, 1)
           b == ConversationAt(s, events, 2)
           r == ReadConversation(s, events)
           c == RestoreConversation(NoTurns, r, 3)
           first == IF Len(a.trail) > MaxActs THEN Len(a.trail) - MaxActs + 1 ELSE 1
           carried == SubSeq(a.trail, first, Len(a.trail))
<1>1. a \in ConversationStates(T) /\ b \in ConversationStates(T) /\ RowsGrow(a.turns, b.turns)
  BY ConversationReadsGrow
<1>2. r.turns = b.turns /\ r.trail = carried BY DEF ReadConversation, ConversationReads
<1>3. ~ConversationOccupied(NoTurns) /\ NoTurns.turns = <<>> /\ NoTurns.trail = <<>>
  BY DEF ConversationOccupied, NoTurns
<1> HIDE DEF r, a, b, carried
<1>4. c.turns = r.turns /\ c.trail = r.trail BY <1>3 DEF RestoreConversation
<1> HIDE DEF c
<1>5. /\ a.turns \in Seq(Words(T)) /\ b.turns \in Seq(Words(T)) /\ a.trail \in Seq(Nat) /\ Len(a.trail) \in Nat
      /\ ActsHold(a.turns, a.trail)
  BY <1>1 DEF ConversationStates
<1>6. first \in 1..(Len(a.trail) + 1) BY <1>5, CopyAssumption
<1>7. \A k \in DOMAIN carried : \E j \in 1..Len(a.trail) : carried[k] = a.trail[j]
  <2> HIDE DEF first
  <2>1. carried = [i \in 1..(Len(a.trail) - first + 1) |-> a.trail[i + first - 1]] BY <1>5, <1>6 DEF carried
  <2>2. ASSUME NEW k \in DOMAIN carried PROVE \E j \in 1..Len(a.trail) : carried[k] = a.trail[j]
    <3>1. k \in 1..(Len(a.trail) - first + 1) /\ carried[k] = a.trail[k + first - 1] BY <2>1
    <3>2. k + first - 1 \in 1..Len(a.trail) BY <1>5, <1>6, <3>1
    <3> QED BY <3>1, <3>2
  <2> QED BY <2>2
<1>8. ASSUME NEW k \in DOMAIN carried, carried[k] \in DOMAIN b.turns PROVE b.turns[carried[k]] = Erased
  <2>1. PICK j \in 1..Len(a.trail) : carried[k] = a.trail[j] BY <1>7
  <2>2. a.trail[j] \in 1..Len(a.turns) /\ a.turns[a.trail[j]] = Erased BY <1>5 DEF ActsHold
  <2>3. b.turns[a.trail[j]] = a.turns[a.trail[j]] \/ b.turns[a.trail[j]] = Erased BY <1>1, <2>2 DEF RowsGrow
  <2> QED BY <2>1, <2>2, <2>3
<1> QED BY <1>2, <1>4, <1>8 DEF c, r

LEMMA NoTurnsIs ==
  ASSUME NEW T
  PROVE  NoTurns \in ConversationStates(T)
BY DEF NoTurns, ConversationStates, ActsHold

(***************************************************************************)
(* An erasure of turns that is repeated.                                   *)
(***************************************************************************)
Summaries(T) == [turn : Int, span : Int, text : T]
Recorded(T) == [turns : Seq(T), projections : Seq(Summaries(T)), trail : Seq(SUBSET Int)]
\* t is what an erasure of asked that died after so many files made of c.
RedactedBy(t, T, c, asked, dies) ==
    /\ t \in Recorded(T) /\ DOMAIN t.turns = DOMAIN c.turns /\ DOMAIN t.projections = DOMAIN c.projections
    /\ \A n \in DOMAIN c.turns : t.turns[n] = IF n \in asked /\ dies >= 1 THEN Erased ELSE c.turns[n]
    /\ \A k \in DOMAIN c.projections :
         /\ t.projections[k].turn = c.projections[k].turn /\ t.projections[k].span = c.projections[k].span
         /\ t.projections[k].text = IF Covers(c.projections[k], asked) /\ dies >= 2 THEN NoWords ELSE c.projections[k].text
    /\ dies = 3 => t.trail = Append(c.trail, asked)
LEMMA RedactTurnsIs ==
  ASSUME NEW T, NEW c \in Recorded(T), Erased \in T, NoWords \in T, NEW turns, NEW dies \in 0..3,
         Matched(c, turns) # {}
  PROVE  RedactedBy(RedactTurns(c, turns, dies), T, c, Matched(c, turns), dies)
<1> DEFINE asked == Matched(c, turns)
           e == [n \in DOMAIN c.turns |-> IF n \in asked THEN Erased ELSE c.turns[n]]
           cut(k) == [turn |-> c.projections[k].turn, span |-> c.projections[k].span, text |-> NoWords]
           s == [k \in DOMAIN c.projections |-> IF Covers(c.projections[k], asked) THEN cut(k) ELSE c.projections[k]]
           ts == IF dies >= 1 THEN e ELSE c.turns
           ps == IF dies < 2 THEN c.projections ELSE s
           tr == IF dies >= 3 THEN Append(c.trail, asked) ELSE c.trail
           t == RedactTurns(c, turns, dies)
<1>1. t = [turns |-> ts, projections |-> ps, trail |-> tr] BY DEF RedactTurns
<1>2. /\ c.turns \in Seq(T) /\ Len(c.turns) \in Nat /\ DOMAIN c.turns = 1..Len(c.turns)
      /\ \A n \in 1..Len(c.turns) : c.turns[n] \in T
      /\ c.projections \in Seq(Summaries(T)) /\ Len(c.projections) \in Nat
      /\ DOMAIN c.projections = 1..Len(c.projections)
      /\ \A k \in 1..Len(c.projections) : c.projections[k] \in Summaries(T)
      /\ c.trail \in Seq(SUBSET Int)
  BY DEF Recorded
<1>3. asked \in SUBSET Int
  <2>1. \A n \in 1..Len(c.turns) : n \in Int BY <1>2
  <2> QED BY <1>2, <2>1 DEF Matched
<1>4. ts \in Seq(T) /\ DOMAIN ts = DOMAIN c.turns
      /\ \A n \in DOMAIN c.turns : ts[n] = IF n \in asked /\ dies >= 1 THEN Erased ELSE c.turns[n]
  <2> HIDE DEF asked
  <2>1. e \in [1..Len(c.turns) -> T] BY <1>2
  <2>2. e \in Seq(T) BY <1>2, <2>1, FunctionIsSeq
  <2>3. DOMAIN e = DOMAIN c.turns /\ \A n \in DOMAIN c.turns : e[n] = IF n \in asked THEN Erased ELSE c.turns[n]
    OBVIOUS
  <2> HIDE DEF e
  <2> QED BY <1>2, <2>2, <2>3
<1>5. /\ ps \in Seq(Summaries(T)) /\ DOMAIN ps = DOMAIN c.projections
      /\ \A k \in DOMAIN c.projections :
           ps[k] = IF Covers(c.projections[k], asked) /\ dies >= 2 THEN cut(k) ELSE c.projections[k]
  <2> HIDE DEF asked
  <2>1. \A k \in 1..Len(c.projections) : cut(k) \in Summaries(T) BY <1>2 DEF Summaries
  <2> HIDE DEF cut
  <2>2. s \in [1..Len(c.projections) -> Summaries(T)] BY <1>2, <2>1
  <2>3. s \in Seq(Summaries(T)) BY <1>2, <2>2, FunctionIsSeq
  <2>4. /\ DOMAIN s = DOMAIN c.projections
        /\ \A k \in DOMAIN c.projections : s[k] = IF Covers(c.projections[k], asked) THEN cut(k) ELSE c.projections[k]
    OBVIOUS
  <2>5. dies < 2 <=> ~(dies >= 2) OBVIOUS
  <2> HIDE DEF s
  <2> QED BY <1>2, <2>3, <2>4, <2>5
<1>6. \A k \in DOMAIN c.projections :
        /\ ps[k].turn = c.projections[k].turn /\ ps[k].span = c.projections[k].span
        /\ ps[k].text = IF Covers(c.projections[k], asked) /\ dies >= 2 THEN NoWords ELSE c.projections[k].text
  <2> TAKE k \in DOMAIN c.projections
  <2> HIDE DEF ps, asked
  <2>1. CASE Covers(c.projections[k], asked) /\ dies >= 2
    <3>1. ps[k] = cut(k) BY <1>5, <2>1
    <3> QED BY <2>1, <3>1
  <2>2. CASE ~(Covers(c.projections[k], asked) /\ dies >= 2)
    <3>1. ps[k] = c.projections[k] BY <1>5, <2>2
    <3> QED BY <2>2, <3>1
  <2> QED BY <2>1, <2>2
<1>7. tr \in Seq(SUBSET Int) /\ (dies = 3 => tr = Append(c.trail, asked)) BY <1>2, <1>3
<1> HIDE DEF ts, ps, tr, t
<1>8. t.turns = ts /\ t.projections = ps /\ t.trail = tr /\ t \in Recorded(T)
  BY <1>1, <1>4, <1>5, <1>7 DEF Recorded
<1> QED BY <1>4, <1>5, <1>6, <1>7, <1>8 DEF t, RedactedBy

\* What an erasure that died and is asked for again leaves.
CompletedBy(t, c, turns) ==
    LET asked == turns \cap DOMAIN c.turns IN
    /\ \A n \in DOMAIN c.turns : t.turns[n] = IF n \in asked THEN Erased ELSE c.turns[n]
    /\ \A k \in DOMAIN t.projections :
          t.projections[k].text = IF Covers(t.projections[k], asked) THEN NoWords ELSE c.projections[k].text
    /\ asked \subseteq UNION {t.trail[k] : k \in DOMAIN t.trail}
LEMMA RepeatCompletes ==
  ASSUME NEW T, NEW c \in Recorded(T), Erased \in T, NoWords \in T, NEW turns, NEW dies \in 0..3
  PROVE  CompletedBy(RedactTurns(RedactTurns(c, turns, dies), turns, 3), c, turns)
<1> DEFINE asked == turns \cap DOMAIN c.turns
           a == RedactTurns(c, turns, dies)
           t == RedactTurns(a, turns, 3)
<1>1. Matched(c, turns) = asked BY DEF Matched
<1>2. CASE asked = {}
  <2>1. a = c /\ t = c BY <1>1, <1>2 DEF RedactTurns
  <2>2. \A k \in DOMAIN c.projections : ~Covers(c.projections[k], asked) BY <1>2 DEF Covers
  <2> HIDE DEF t, a
  <2>3. CompletedBy(t, c, turns) BY <1>2, <2>1, <2>2 DEF CompletedBy
  <2> QED BY <2>3 DEF t, a
<1>3. CASE asked # {}
  <2>1. RedactedBy(a, T, c, asked, dies) BY <1>1, <1>3, RedactTurnsIs
  <2> HIDE DEF a
  <2>2. a \in Recorded(T) /\ Matched(a, turns) = asked BY <2>1 DEF Matched, RedactedBy
  <2>3. 3 \in 0..3 /\ 3 >= 1 /\ 3 >= 2 OBVIOUS
  <2>4. RedactedBy(t, T, a, asked, 3) BY <1>3, <2>2, <2>3, RedactTurnsIs
  <2> HIDE DEF t
  <2>5. \A n \in DOMAIN c.turns : t.turns[n] = IF n \in asked THEN Erased ELSE c.turns[n]
    BY <2>1, <2>3, <2>4 DEF RedactedBy
  <2>6. \A k \in DOMAIN c.projections : Covers(a.projections[k], asked) <=> Covers(c.projections[k], asked)
    BY <2>1 DEF Covers, RedactedBy
  <2>7. DOMAIN t.projections = DOMAIN c.projections BY <2>1, <2>4 DEF RedactedBy
  <2>8. \A k \in DOMAIN c.projections : Covers(t.projections[k], asked) <=> Covers(a.projections[k], asked)
    BY <2>1, <2>4 DEF Covers, RedactedBy
  <2>9. \A k \in DOMAIN t.projections :
          t.projections[k].text = IF Covers(t.projections[k], asked) THEN NoWords ELSE c.projections[k].text
    <3> SUFFICES ASSUME NEW k \in DOMAIN c.projections
                 PROVE  t.projections[k].text = IF Covers(t.projections[k], asked) THEN NoWords ELSE c.projections[k].text
      BY <2>7
    <3>1. t.projections[k].text = IF Covers(a.projections[k], asked) THEN NoWords ELSE a.projections[k].text
      BY <2>1, <2>3, <2>4 DEF RedactedBy
    <3>2. a.projections[k].text = c.projections[k].text \/ (Covers(c.projections[k], asked) /\ a.projections[k].text = NoWords)
      BY <2>1 DEF RedactedBy
    <3> QED BY <2>6, <2>8, <3>1, <3>2
  <2>10. asked \subseteq UNION {t.trail[k] : k \in DOMAIN t.trail}
    <3>1. a.trail \in Seq(SUBSET Int) /\ t.trail = Append(a.trail, asked) BY <2>2, <2>4 DEF Recorded, RedactedBy
    <3>2. Len(a.trail) + 1 \in DOMAIN Append(a.trail, asked) /\ Append(a.trail, asked)[Len(a.trail) + 1] = asked
      BY <3>1
    <3> QED BY <3>1, <3>2
  <2>11. CompletedBy(t, c, turns) BY <2>5, <2>9, <2>10 DEF CompletedBy
  <2> QED BY <2>11 DEF t, a
<1> QED BY <1>2, <1>3

(***************************************************************************)
(* The verbs of the operator, for every input.                             *)
(***************************************************************************)
ScopeHistories(T) == {es \in Seq(ScopeEvents(T)) : Rising(es)}
ConversationHistories(T) == {es \in Seq(ConversationEvents(T)) : Rising(es)}
AnyCopy(T) == Of("copy", [before : ScopeHistories(T), during : ScopeHistories(T)])
AnyConversationCopy(T) ==
    Of("conversation_copy", [before : ConversationHistories(T), dies : 0..3, during : ConversationHistories(T)])
AnyErasure(T) == Of("erase_turns", [c : Recorded(T \cup {Erased, NoWords}), turns : SUBSET Int, dies : 0..3])
OldWorlds == {w \in PruneWorlds : \A c \in Prunable : w.turns[c] \in TurnLog}
AnyPrune == Of("prune", [world : OldWorlds, change : Recordings, dies : Int \cup {Unset}])
AnyRanges == Of("ranges", [turns : Seq(Int)])
AnyUpdate == Of("update", Installations)
AnyVerbInput(T) == AnyCopy(T) \cup AnyConversationCopy(T) \cup AnyErasure(T) \cup AnyPrune \cup AnyRanges \cup AnyUpdate

LEMMA VerbInputByRule ==
  ASSUME NEW T, input \in AnyVerbInput(T)
  PROVE  LET r == input.in IN
         /\ input.rule = "copy" => r.before \in ScopeHistories(T) /\ r.during \in ScopeHistories(T)
         /\ input.rule = "conversation_copy" => r.before \in ConversationHistories(T) /\ r.during \in ConversationHistories(T)
         /\ input.rule = "erase_turns" => r.c \in Recorded(T \cup {Erased, NoWords}) /\ r.dies \in 0..3
         /\ input.rule = "prune" => r.world \in OldWorlds /\ r.change \in Recordings
         /\ input.rule = "ranges" => r.turns \in Seq(Int)
         /\ input.rule = "update" => r \in Installations
<1>1. input \in AnyCopy(T) => /\ input.rule = "copy"
                              /\ input.in.before \in ScopeHistories(T) /\ input.in.during \in ScopeHistories(T)
  BY DEF AnyCopy, Of
<1>2. input \in AnyConversationCopy(T) =>
        /\ input.rule = "conversation_copy"
        /\ input.in.before \in ConversationHistories(T) /\ input.in.during \in ConversationHistories(T)
  BY DEF AnyConversationCopy, Of
<1>3. input \in AnyErasure(T) => /\ input.rule = "erase_turns"
                                 /\ input.in.c \in Recorded(T \cup {Erased, NoWords}) /\ input.in.dies \in 0..3
  BY DEF AnyErasure, Of
<1>4. input \in AnyPrune => /\ input.rule = "prune" /\ input.in.world \in OldWorlds /\ input.in.change \in Recordings
  BY DEF AnyPrune, Of
<1>5. input \in AnyRanges => input.rule = "ranges" /\ input.in.turns \in Seq(Int) BY DEF AnyRanges, Of
<1>6. input \in AnyUpdate => input.rule = "update" /\ input.in \in Installations BY DEF AnyUpdate, Of
<1> QED BY <1>1, <1>2, <1>3, <1>4, <1>5, <1>6 DEF AnyVerbInput

\* Every state a history reaches is a state of a scope, and of a conversation.
LEMMA HistoryReaches ==
  ASSUME NEW T, Erased \notin T
  PROVE  /\ \A es \in ScopeHistories(T) : ScopeAt(EmptyScope, es, 0) \in ScopeStates(T)
         /\ \A es \in ConversationHistories(T) : ConversationAt(NoTurns, es, 0) \in ConversationStates(T)
<1>1. ASSUME NEW es \in ScopeHistories(T) PROVE ScopeAt(EmptyScope, es, 0) \in ScopeStates(T)
  <2>1. es \in Seq(ScopeEvents(T)) /\ Rising(es) BY DEF ScopeHistories
  <2>2. EmptyScope \in ScopeStates(T) BY EmptyScopeIs
  <2>3. 0 \in Int /\ 0 <= 0 OBVIOUS
  <2> QED BY <2>1, <2>2, <2>3, ScopeReadsGrow
<1>2. ASSUME NEW es \in ConversationHistories(T) PROVE ConversationAt(NoTurns, es, 0) \in ConversationStates(T)
  <2>1. es \in Seq(ConversationEvents(T)) /\ Rising(es) BY DEF ConversationHistories
  <2>2. NoTurns \in ConversationStates(T) BY NoTurnsIs
  <2>3. 0 \in Int /\ 0 <= 0 OBVIOUS
  <2> QED BY <2>1, <2>2, <2>3, ConversationReadsGrow
<1> QED BY <1>1, <1>2

LEMMA TransferHolds ==
  ASSUME NEW T, Erased \notin T, input \in AnyVerbInput(T)
  PROVE  TransferRules
<1> DEFINE r == input.in
<1>1. CopyAccountsForItself
  <2> DEFINE s == ScopeAt(EmptyScope, r.before, 0)
             c == CopyScope(s, r.during, EmptyScope)
  <2> SUFFICES ASSUME Is("copy"), NEW p \in ScopePaths
               PROVE  /\ c.docs[p] # Unset /\ ~c.docs[p].planted =>
                           \E n \in DOMAIN c.rows[p] : /\ c.rows[p][n].version = c.docs[p].version
                                                       /\ c.rows[p][n].text \in {c.docs[p].text, Erased}
                      /\ \A n \in DOMAIN c.rows[p] :
                           c.rows[p][n].text = Erased => \E j \in DOMAIN c.trail : c.trail[j].path = c.rows[p][n].by
    BY Zenon DEF CopyAccountsForItself
  <2>1. r.before \in ScopeHistories(T) /\ r.during \in ScopeHistories(T) BY VerbInputByRule DEF Is
  <2>2. s \in ScopeStates(T) BY <2>1, HistoryReaches
  <2>3. r.during \in Seq(ScopeEvents(T)) /\ Rising(r.during) BY <2>1 DEF ScopeHistories
  <2> HIDE DEF s, r
  <2> QED BY <2>2, <2>3, CopyAccounts
<1>2. QuietCopyIsVerbatim
  <2> DEFINE s == ScopeAt(EmptyScope, r.before, 0)
             archive == CopyScope(s, <<>>, EmptyScope)
             other == ScopeAt(EmptyScope, r.during, ScopeReads.trail)
  <2> SUFFICES ASSUME Is("copy")
               PROVE  /\ archive = s /\ CopyScope(archive, <<>>, EmptyScope) = s
                      /\ s # EmptyScope => CopyScope(other, <<>>, s) = s
    BY Zenon DEF QuietCopyIsVerbatim
  <2>1. r.before \in ScopeHistories(T) BY VerbInputByRule DEF Is
  <2>2. s \in ScopeStates(T) BY <2>1, HistoryReaches
  <2> HIDE DEF s, other
  <2>3. archive = s BY <2>2, QuietCopy
  <2> HIDE DEF archive
  <2>4. CopyScope(archive, <<>>, EmptyScope) = s BY <2>2, <2>3, QuietCopy
  <2>5. s # EmptyScope => Occupied(s) BY <2>2, OccupiedIs
  <2>6. s # EmptyScope => CopyScope(other, <<>>, s) = s BY <2>5 DEF CopyScope
  <2> QED BY <2>3, <2>4, <2>6
<1>3. CarriedErasuresHold
  <2> DEFINE s == ConversationAt(NoTurns, r.before, 0)
             c == RestoreConversation(NoTurns, ReadConversation(s, r.during), 3)
  <2> SUFFICES ASSUME Is("conversation_copy")
               PROVE  \A k \in DOMAIN c.trail : c.trail[k] \in DOMAIN c.turns => c.turns[c.trail[k]] = Erased
    BY Zenon DEF CarriedErasuresHold
  <2>1. r.before \in ConversationHistories(T) /\ r.during \in ConversationHistories(T) BY VerbInputByRule DEF Is
  <2>2. s \in ConversationStates(T) BY <2>1, HistoryReaches
  <2>3. r.during \in Seq(ConversationEvents(T)) /\ Rising(r.during) BY <2>1 DEF ConversationHistories
  <2> HIDE DEF s, r
  <2> QED BY <2>2, <2>3, ErasuresCarried
<1>4. RetryKeepsWhatIsThere
  <2> DEFINE c == ReadConversation(ConversationAt(NoTurns, r.before, 0), r.during)
             target == ConversationAt(RestoreConversation(NoTurns, c, r.dies), r.during, 1)
             again == RestoreConversation(target, c, 3)
  <2> SUFFICES ASSUME target.turns # <<>> \/ target.projections # <<>> PROVE again = target
    BY Zenon DEF RetryKeepsWhatIsThere
  <2> HIDE DEF target, c
  <2> QED BY DEF RestoreConversation, ConversationOccupied
<1>5. RepeatedErasureCompletes
  <2> DEFINE U == T \cup {Erased, NoWords}
  <2> SUFFICES ASSUME Is("erase_turns")
               PROVE  CompletedBy(RedactTurns(RedactTurns(r.c, r.turns, r.dies), r.turns, 3), r.c, r.turns)
    BY Zenon DEF RepeatedErasureCompletes, CompletedBy
  <2>1. r.c \in Recorded(U) /\ r.dies \in 0..3 BY VerbInputByRule DEF Is
  <2>2. Erased \in U /\ NoWords \in U OBVIOUS
  <2> HIDE DEF U, r
  <2> QED BY <2>1, <2>2, RepeatCompletes
<1> QED BY <1>1, <1>2, <1>3, <1>4, <1>5 DEF TransferRules

LEMMA OperatorHolds ==
  ASSUME NEW T, input \in AnyVerbInput(T)
  PROVE  OperatorRules
<1> DEFINE r == input.in
<1>1. PruneIsItsPreview
  <2> DEFINE w == r.world
             after == Prune(w, Quiet, Unset)
  <2> SUFFICES ASSUME Is("prune")
               PROVE  /\ \A c \in Prunable :
                            IF c \in Plan(w) THEN after.sessions[c] # "live" /\ WhollyRedacted(after.turns[c])
                            ELSE after.turns[c] = w.turns[c] /\ after.sessions[c] = w.sessions[c]
                      /\ Plan(after) = {}
                      /\ \A c \in Plan(w) : after.turns[c] # w.turns[c]
    BY Zenon DEF PruneIsItsPreview
  <2>1. w \in PruneWorlds
    <3>1. w \in OldWorlds BY VerbInputByRule DEF Is
    <3> QED BY <3>1 DEF OldWorlds
  <2> HIDE DEF r, w
  <2> QED BY <2>1, PreviewHolds
<1>2. PruneErasesTheOld
  <2> DEFINE w == r.world
             before(c) == w.turns[c]
             after == Prune(w, r.change, r.dies)
             erased(c) == {i \in DOMAIN after.turns[c] :
                             after.turns[c][i].redacted /\ (i \in DOMAIN before(c) => ~before(c)[i].redacted)}
             again == Prune(after, Quiet, Unset)
  <2> SUFFICES ASSUME Is("prune"), NEW c \in Prunable
               PROVE  /\ erased(c) # {} => before(c)[Len(before(c))].at < Cutoff
                      /\ \A i \in erased(c) : after.turns[c][i].at >= Cutoff => i > Len(before(c))
                      /\ c \in Plan(w) /\ r.change.what # "turn" => WhollyRedacted(again.turns[c])
    BY Zenon DEF PruneErasesTheOld
  <2>1. w \in PruneWorlds /\ (\A d \in Prunable : w.turns[d] \in TurnLog) /\ r.change \in Recordings
    <3>1. w \in OldWorlds /\ r.change \in Recordings BY VerbInputByRule DEF Is
    <3> QED BY <3>1 DEF OldWorlds
  <2> HIDE DEF r, w
  <2> QED BY <2>1, OldErased
<1>3. RangesAreTheTurns
  <2> SUFFICES ASSUME Is("ranges") PROVE Covered(TurnRanges(r.turns)) = ToSet(r.turns)
    BY Zenon DEF RangesAreTheTurns, Covered
  <2>1. r.turns \in Seq(Int) BY VerbInputByRule DEF Is
  <2> HIDE DEF r
  <2>2. DOMAIN r.turns = 1..Len(r.turns) BY <2>1
  <2> QED BY <2>1, <2>2, RangesCover DEF ToSet
<1>4. UpdateOnlyForward
  <2> SUFFICES ASSUME Is("update")
               PROVE  /\ Decide(r, TRUE) = "apply" => Forward(r, r.latest) /\ (Install(r) = 0 => r.reports = r.latest)
                      /\ HumanDoor(r) = "apply" => r.mode = "auto" /\ Forward(r, HumanLatest(r))
                      /\ Decide(r, FALSE) \notin {"apply", "refuse"}
    BY Zenon DEF UpdateOnlyForward, Forward
  <2>1. r \in Installations BY VerbInputByRule DEF Is
  <2> HIDE DEF r
  <2> QED BY <2>1, UpdatesForward
<1> QED BY <1>1, <1>2, <1>3, <1>4 DEF OperatorRules

\* What the operator copies, erases and installs is what the verb says: for scopes
\* of any history of writes, deletions, renames, erasures of a path or of the whole
\* scope and documents put there by hand, for conversations of any history, both
\* changing in these ways while they are copied, for a restore and an erasure that die after any file, for conversations of any
\* length in any number, whatever is recorded between the steps of a prune, for an
\* act of any turns and for releases and receipts of any version.  No text that is
\* written is the mark of an erasure.
THEOREM VerbRulesHold ==
  ASSUME NEW T, Erased \notin T, input \in AnyVerbInput(T)
  PROVE  VerbRules
BY TransferHolds, OperatorHolds DEF VerbRules

\* Two turns in the order of time are recorded in it, however many names stand for them.
LEMMA ShortLogs ==
  ASSUME NEW s, NEW n \in 0..2, s \in [1..n -> TurnRecord], \A i \in 2..Len(s) : s[i - 1].at <= s[i].at
  PROVE  s \in TurnLog
<1>1. s \in Seq(TurnRecord) /\ Len(s) = n
  <2>1. n \in Nat OBVIOUS
  <2> QED BY <2>1, FunctionIsSeq
<1>2. \A i \in 1..n : s[i].at \in Int BY DEF TurnRecord
<1>3. ASSUME NEW i \in 1..n, NEW j \in 1..n, i <= j PROVE s[i].at <= s[j].at
  <2>1. CASE i = j BY <1>2, <2>1
  <2>2. CASE i # j
    <3>1. i = j - 1 /\ j \in 2..Len(s) BY <1>1, <1>3, <2>2
    <3> QED BY <3>1
  <2> QED BY <2>1, <2>2
<1> QED BY <1>1, <1>3 DEF TurnLog

LEMMA OperatorInputsCovered == OperatorInputs \subseteq AnyPrune \cup AnyRanges \cup AnyUpdate
<1> DEFINE turns == {s \in UNION {[1..n -> [at : {Cutoff - 1, Cutoff}, redacted : BOOLEAN]] : n \in 0..2} :
                       \A i \in 2..Len(s) : s[i - 1].at <= s[i].at}
           versions == {VersionOf(1, 0, TRUE, 0), VersionOf(1, 1, FALSE, 1), VersionOf(1, 1, FALSE, 2), VersionOf(1, 1, TRUE, 0),
                        VersionOf(2, 0, TRUE, 0)}
           changes == {Quiet} \cup [what : {"turn"}, id : Prunable, at : {Cutoff + 1}, when : {"planned", "erased"}]
                      \cup [what : {"document"}, id : Prunable, when : {"planned", "erased"}]
           worlds == [turns : [Prunable -> turns], sessions : [Prunable -> {"none", "live"}]]
           prune == [world : worlds, change : changes, dies : {Unset, 0, 1}]
           ranges == [turns : {s \in UNION {[1..n -> 1..6] : n \in 0..5} : \A i \in 2..Len(s) : s[i - 1] < s[i]}]
           update == [current : versions \cup {Unset}, latest : versions \cup {Unset},
                      cached : {Unset, VersionOf(1, 1, TRUE, 0), VersionOf(2, 0, TRUE, 0)}, age : {-1, 1, 2}, mode : {"off", "notify", "auto"},
                      container : BOOLEAN, updater : BOOLEAN, exit : {0, 1}, reports : {VersionOf(1, 1, TRUE, 0)},
                      receipt : {Unset} \cup [version : {VersionOf(1, 0, TRUE, 0), VersionOf(1, 1, FALSE, 1)}, here : BOOLEAN]]
<1>1. turns \subseteq TurnLog
  <2> SUFFICES ASSUME NEW n \in 0..2, NEW s \in [1..n -> [at : {Cutoff - 1, Cutoff}, redacted : BOOLEAN]],
                      \A i \in 2..Len(s) : s[i - 1].at <= s[i].at
               PROVE  s \in TurnLog
    OBVIOUS
  <2>1. [at : {Cutoff - 1, Cutoff}, redacted : BOOLEAN] \subseteq TurnRecord BY CutoffAssumption DEF TurnRecord
  <2>2. s \in [1..n -> TurnRecord] BY <2>1
  <2> QED BY <2>2, ShortLogs
<1>2. worlds \subseteq OldWorlds
  <2> HIDE DEF turns
  <2>1. TurnLog \subseteq Seq(TurnRecord) BY DEF TurnLog
  <2> SUFFICES ASSUME NEW w \in worlds PROVE w \in OldWorlds OBVIOUS
  <2>2. w.turns \in [Prunable -> turns] /\ w.sessions \in [Prunable -> {"none", "live"}]
        /\ w = [turns |-> w.turns, sessions |-> w.sessions] OBVIOUS
  <2>3. \A c \in Prunable : w.turns[c] \in TurnLog BY <1>1, <2>2
  <2>4. w.turns \in [Prunable -> Seq(TurnRecord)] BY <2>1, <2>2, <2>3
  <2>5. w.sessions \in [Prunable -> Marks] BY <2>2 DEF Marks
  <2>6. w \in PruneWorlds BY <2>2, <2>4, <2>5 DEF PruneWorlds
  <2> QED BY <2>3, <2>6 DEF OldWorlds
<1>3. changes \subseteq Recordings
  <2>1. Cutoff + 1 \in Int BY CutoffAssumption
  <2> QED BY <2>1 DEF Recordings, Moments
<1>4. ranges \subseteq [turns : Seq(Int)]
  <2>1. ASSUME NEW n \in 0..5, NEW s \in [1..n -> 1..6] PROVE s \in Seq(Int)
    <3>1. s \in [1..n -> Int] /\ n \in Nat OBVIOUS
    <3> QED BY <3>1, FunctionIsSeq
  <2> QED BY <2>1
<1>5. update \subseteq Installations
  <2>1. versions \subseteq Versions BY DEF VersionOf, Versions
  <2>2. /\ VersionOf(1, 1, TRUE, 0) \in versions /\ VersionOf(2, 0, TRUE, 0) \in versions
        /\ VersionOf(1, 0, TRUE, 0) \in versions /\ VersionOf(1, 1, FALSE, 1) \in versions OBVIOUS
  <2> HIDE DEF versions
  <2>3. {Unset} \cup [version : {VersionOf(1, 0, TRUE, 0), VersionOf(1, 1, FALSE, 1)}, here : BOOLEAN] \subseteq Receipts \cup {Unset}
    BY <2>1, <2>2 DEF Receipts
  <2>4. versions \cup {Unset} \subseteq Versions \cup {Unset} BY <2>1
  <2>5. {Unset, VersionOf(1, 1, TRUE, 0), VersionOf(2, 0, TRUE, 0)} \subseteq Versions \cup {Unset} BY <2>1, <2>2
  <2>6. {VersionOf(1, 1, TRUE, 0)} \subseteq Versions \cup {Unset} BY <2>1, <2>2
  <2>7. {-1, 1, 2} \subseteq Int /\ {0, 1} \subseteq Int OBVIOUS
  <2> SUFFICES ASSUME NEW r \in update PROVE r \in Installations OBVIOUS
  <2>8. /\ r.current \in Versions \cup {Unset} /\ r.latest \in Versions \cup {Unset}
        /\ r.cached \in Versions \cup {Unset} /\ r.age \in Int /\ r.mode \in {"off", "notify", "auto"}
        /\ r.container \in BOOLEAN /\ r.updater \in BOOLEAN /\ r.exit \in Int
        /\ r.reports \in Versions \cup {Unset} /\ r.receipt \in Receipts \cup {Unset}
    BY <2>3, <2>4, <2>5, <2>6, <2>7
  <2>9. r = [current |-> r.current, latest |-> r.latest, cached |-> r.cached, age |-> r.age, mode |-> r.mode,
             container |-> r.container, updater |-> r.updater, exit |-> r.exit, reports |-> r.reports, receipt |-> r.receipt]
    OBVIOUS
  <2> QED BY <2>8, <2>9 DEF Installations
<1> HIDE DEF turns, versions, changes, worlds
<1>6. prune \subseteq [world : OldWorlds, change : Recordings, dies : Int \cup {Unset}] BY <1>2, <1>3
<1>7. OperatorInputs = Of("prune", prune) \cup Of("ranges", ranges) \cup Of("update", update)
  BY DEF OperatorInputs, turns, versions, changes, worlds
<1> HIDE DEF prune, ranges, update
<1>8. Of("prune", prune) \subseteq AnyPrune BY <1>6, WiderRule DEF AnyPrune
<1>9. Of("ranges", ranges) \subseteq AnyRanges BY <1>4, WiderRule DEF AnyRanges
<1>10. Of("update", update) \subseteq AnyUpdate BY <1>5, WiderRule DEF AnyUpdate
<1> QED BY <1>7, <1>8, <1>9, <1>10

LEMMA UpToIsSeq ==
  ASSUME NEW S, NEW n \in Nat
  PROVE  UNION {[1..m -> S] : m \in 1..n} \subseteq Seq(S)
<1>1. ASSUME NEW m \in 1..n, NEW f \in [1..m -> S] PROVE f \in Seq(S) BY FunctionIsSeq
<1> QED BY <1>1

\* The inputs of the run are among those.
LEMMA VerbInputsCovered == TransferInputs \cup OperatorInputs \subseteq AnyVerbInput({"one", "two", "three"})
<1> DEFINE T == {"one", "two", "three"}
           events(n, texts) == [at : n, do : {"write"}, path : ScopePaths, text : texts]
                               \cup [at : n, do : {"delete"}, path : ScopePaths]
                               \cup {e \in [at : n, do : {"rename"}, path : ScopePaths, to : ScopePaths] : e.path # e.to}
                               \cup [at : n, do : {"redact"}, path : ScopePaths \cup {Unset}]
           plants == [at : {0}, do : {"plant"}, path : ScopePaths, version : {2}, text : {"three"}]
           earlier == events({0}, {"two"}) \cup plants
           turns(n) == [at : n, do : {"append"}, text : {"one", "two"}] \cup [at : n, do : {"project"}]
                       \cup [at : n, do : {"redact"}, turn : {1, 2}]
           upTo(es, n) == UNION {[1..m -> es] : m \in 1..n}
           each == [k \in DOMAIN Copied |-> [at |-> 0, do |-> "write", path |-> Copied[k], text |-> "one"]]
           one == [k \in DOMAIN Copied \cap {1} |-> each[k]]
           rising(sq) == \A k \in 2..Len(sq) : sq[k - 1].at <= sq[k].at
           before == {<<>>, each} \cup {each \o es : es \in upTo(earlier, 1)} \cup {one \o es : es \in upTo(earlier, 2)}
           copy == [before : before, during : {sq \in upTo(events(2..5, {"two"}), 2) : rising(sq)}]
           conversation == [before : upTo(turns({0}), 3), dies : 0..3, during : {sq \in upTo(turns(1..3), 2) : rising(sq)}]
           some == {p \in [turn : 1..3, span : 1..3, text : {"one"}] : p.span <= p.turn}
           projections == {<<>>} \cup upTo(some, 2)
           erasure == [c : [turns : {<<"one", "two", "three">>}, trail : {<<>>}, projections : projections],
                       turns : SUBSET (1..4), dies : 0..3]
<1>1. \A E : /\ \A n \in Nat : \A es \in upTo(E, n) : es \in Seq(E)
             /\ <<>> \in Seq(E)
  BY UpToIsSeq
<1>2. 2 \in Nat /\ 3 \in Nat OBVIOUS
<1>3. Of("copy", copy) \subseteq AnyCopy(T)
  <2> DEFINE Old == {e \in ScopeEvents(T) : e.at = 0}
  <2>1. /\ earlier \subseteq Old /\ Old \subseteq ScopeEvents(T) /\ \A e \in Old : e.at = 0
        /\ \A p \in ScopePaths : [at |-> 0, do |-> "write", path |-> p, text |-> "one"] \in Old
    BY DEF ScopeEvents, PathsNamed
  <2>2. each \in Seq(Old) /\ one \in Seq(Old)
    <3>1. Len(Copied) \in Nat /\ DOMAIN Copied = 1..Len(Copied) BY CopyAssumption
    <3>2. \A k \in 1..Len(Copied) : Copied[k] \in ScopePaths BY CopyAssumption
    <3>3. \A k \in 1..Len(Copied) : [at |-> 0, do |-> "write", path |-> Copied[k], text |-> "one"] \in Old BY <2>1, <3>2
    <3> HIDE DEF Old
    <3>4. each \in [1..Len(Copied) -> Old] BY <3>1, <3>3
    <3>5. each \in Seq(Old)
      <4> HIDE DEF each
      <4> QED BY <3>1, <3>4, FunctionIsSeq
    <3>6. \A k \in 1..Len(Copied) : each[k] \in Old BY <3>4
    <3> HIDE DEF each
    <3>7. one \in Seq(Old)
      <4> DEFINE m == IF Len(Copied) = 0 THEN 0 ELSE 1
      <4>1. m \in Nat /\ DOMAIN Copied \cap {1} = 1..m BY <3>1
      <4>2. one \in [1..m -> Old] BY <3>1, <3>6, <4>1
      <4> HIDE DEF m, one
      <4> QED BY <4>1, <4>2, FunctionIsSeq
    <3> QED BY <3>5, <3>7
  <2>3. ASSUME NEW es \in Seq(Old) PROVE es \in ScopeHistories(T)
    <3> HIDE DEF T, Old
    <3>1. es \in Seq(ScopeEvents(T)) BY <2>1
    <3>2. \A n \in 1..Len(es) : es[n].at = 0 BY <2>1
    <3>3. Rising(es)
      <4>1. \A n \in 2..Len(es) : n \in 1..Len(es) /\ n - 1 \in 1..Len(es) OBVIOUS
      <4> QED BY <3>2, <4>1 DEF Rising
    <3> QED BY <3>1, <3>3 DEF ScopeHistories
  <2>4. \A es \in upTo(earlier, 1) \cup upTo(earlier, 2) : es \in Seq(Old)
    <3> HIDE DEF earlier, Old, upTo
    <3>1. 1 \in Nat OBVIOUS
    <3> QED BY <1>1, <1>2, <2>1, <3>1
  <2>5. before \subseteq ScopeHistories(T)
    <3> HIDE DEF earlier, Old, upTo, each, one, T
    <3>1. \A es \in Seq(Old) : each \o es \in Seq(Old) /\ one \o es \in Seq(Old) BY <2>2
    <3>2. <<>> \in Seq(Old) BY <1>1
    <3> QED BY <2>2, <2>3, <2>4, <3>1, <3>2
  <2>6. events(2..5, {"two"}) \subseteq ScopeEvents(T) BY DEF ScopeEvents, PathsNamed
  <2>7. {sq \in upTo(events(2..5, {"two"}), 2) : rising(sq)} \subseteq ScopeHistories(T)
    <3> HIDE DEF events, upTo, T
    <3>1. \A sq \in upTo(events(2..5, {"two"}), 2) : sq \in Seq(ScopeEvents(T)) BY <1>1, <1>2, <2>6
    <3> QED BY <3>1 DEF ScopeHistories, Rising
  <2> HIDE DEF before, events, upTo, rising, T
  <2>8. copy \subseteq [before : ScopeHistories(T), during : ScopeHistories(T)] BY <2>5, <2>7
  <2> HIDE DEF copy
  <2> QED BY <2>8, WiderRule DEF AnyCopy
<1>4. Of("conversation_copy", conversation) \subseteq AnyConversationCopy(T)
  <2>1. turns({0}) \subseteq ConversationEvents(T) /\ (\A e \in turns({0}) : e.at = 0) /\ turns(1..3) \subseteq ConversationEvents(T)
    BY DEF ConversationEvents
  <2>2. upTo(turns({0}), 3) \subseteq ConversationHistories(T)
    <3> HIDE DEF turns, T, upTo
    <3> SUFFICES ASSUME NEW es \in upTo(turns({0}), 3) PROVE es \in ConversationHistories(T) OBVIOUS
    <3>1. es \in Seq(turns({0})) BY <1>1, <1>2
    <3>2. es \in Seq(ConversationEvents(T)) BY <2>1, <3>1
    <3>3. \A n \in 1..Len(es) : es[n].at = 0 BY <2>1, <3>1
    <3>4. Rising(es)
      <4>1. \A n \in 2..Len(es) : n \in 1..Len(es) /\ n - 1 \in 1..Len(es) BY <3>1
      <4> QED BY <3>3, <4>1 DEF Rising
    <3> QED BY <3>2, <3>4 DEF ConversationHistories
  <2>3. {sq \in upTo(turns(1..3), 2) : rising(sq)} \subseteq ConversationHistories(T)
    <3> HIDE DEF turns, upTo, T
    <3>1. \A sq \in upTo(turns(1..3), 2) : sq \in Seq(ConversationEvents(T)) BY <1>1, <1>2, <2>1
    <3> QED BY <3>1 DEF ConversationHistories, Rising
  <2> HIDE DEF turns, upTo, rising, T
  <2>4. conversation \subseteq [before : ConversationHistories(T), dies : 0..3, during : ConversationHistories(T)]
    BY <2>2, <2>3
  <2> HIDE DEF conversation
  <2> QED BY <2>4, WiderRule DEF AnyConversationCopy
<1>5. Of("erase_turns", erasure) \subseteq AnyErasure(T)
  <2> DEFINE U == T \cup {Erased, NoWords}
  <2>1. some \subseteq Summaries(U) BY DEF Summaries
  <2>2. projections \subseteq Seq(Summaries(U))
    <3> HIDE DEF some, U
    <3>1. \A f \in upTo(some, 2) : f \in Seq(some) BY <1>1, <1>2
    <3>2. \A f \in Seq(some) : f \in Seq(Summaries(U)) BY <2>1
    <3>3. <<>> \in Seq(Summaries(U)) OBVIOUS
    <3> HIDE DEF upTo
    <3> QED BY <3>1, <3>2, <3>3
  <2>3. <<"one", "two", "three">> \in Seq(U) OBVIOUS
  <2> HIDE DEF projections, U
  <2>4. [turns : {<<"one", "two", "three">>}, trail : {<<>>}, projections : projections] \subseteq Recorded(U)
    <3>1. <<>> \in Seq(SUBSET Int) OBVIOUS
    <3>2. \A p \in projections : p \in Seq(Summaries(U)) BY <2>2
    <3> HIDE DEF Summaries
    <3> QED BY <2>3, <3>1, <3>2, Zenon DEF Recorded
  <2>5. erasure \subseteq [c : Recorded(U), turns : SUBSET Int, dies : 0..3] BY <2>4
  <2> HIDE DEF erasure, T
  <2> QED BY <2>5, WiderRule DEF AnyErasure, U
<1>6. TransferInputs \subseteq AnyVerbInput(T)
  <2>1. TransferInputs = Of("copy", copy) \cup Of("conversation_copy", conversation) \cup Of("erase_turns", erasure)
    BY DEF TransferInputs
  <2> HIDE DEF copy, conversation, erasure, T
  <2> QED BY <1>3, <1>4, <1>5, <2>1 DEF AnyVerbInput
<1> HIDE DEF T
<1>7. OperatorInputs \subseteq AnyVerbInput(T) BY OperatorInputsCovered DEF AnyVerbInput
<1> QED BY <1>6, <1>7 DEF T
=============================================================================
