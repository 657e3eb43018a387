------------------------------- MODULE Mailbox -------------------------------
(***************************************************************************)
(* One message of a mailbox (messaging/): sent once, then moved by the     *)
(* sessions that reach it: acknowledged, claimed, snoozed, completed, its  *)
(* wake reserved and reported.  A move views the document, decides on the  *)
(* copy it holds and writes it against the version it viewed; a conflict   *)
(* views again.  The document itself is the store's (FileStore), which     *)
(* never gives a version twice (VersionsOnce): the version a call viewed   *)
(* stands until another write lands.                                       *)
(*                                                                         *)
(* Tokens are UUIDs.  One is only compared beside the session it was given *)
(* to, so a new one differs from those its session or the document still   *)
(* holds; and a session forgets a token that lapsed, which any call would  *)
(* refuse.                                                                 *)
(* Instants are countdowns to the current one, 0 once they have passed:    *)
(* an instant only ever meets the clock.  All sessions read one clock.     *)
(* Bodies, outcomes, actors, annotations and mount policies are left out.  *)
(***************************************************************************)
EXTENDS Integers, FiniteSets

CONSTANTS
    Session,        \* conversations that may read the mailbox
    Nobody,         \* no session
    Token,          \* claim and wake tokens
    NoToken,        \* no token
    Letters,        \* what may be sent: to, from, delivery, actionable
    Lease,          \* CLAIM_SECONDS, in ticks
    Hold,           \* RESERVATION_SECONDS, in ticks
    Delays,         \* the due times senders and snoozes ask for, in ticks
    Successions,    \* the continuations sessions may declare
    Attempts,       \* 3 in the code: tries of one update
    MaxOccurrence,  \* bound: an item is snoozed up to this occurrence
    MaxOpen,        \* bound: calls between their view and their write
    Lossy           \* bound: the verbs whose reply may be lost

VARIABLES
    file,           \* the document: absent, live, redacted or deleted
    item,           \* its message
    links,          \* message-links/: <<session, parent>>
    attached,       \* the sessions whose client still runs
    call,           \* the update each session has under way
    claim,          \* what a session knows of its claim: token, time left
    wake,           \* what it knows of a wake it was handed, likewise
    handed,         \* history: who holds a wake not reported since a release
    taken           \* history: the wake was accepted since its last release

document == <<file, item>>
known    == <<claim, wake>>
history  == <<handed, taken>>
vars     == <<document, links, attached, call, known, history>>

Recipients == Session \cup {Nobody}
Tokens == Token \cup {NoToken}
Times == 0..Lease
Verbs == {"ack", "claim", "renew", "release", "complete", "snooze", "cancel",
          "reserve", "accepted", "retry"}

Items ==
    [to : Recipients, from : Recipients, delivery : {"next_activity", "wake"},
     actionable : BOOLEAN, status : {"open", "done", "cancelled"},
     occurrence : 1..MaxOccurrence, due : Nat, read : BOOLEAN,
     owner : Recipients, token : Tokens, lease : Times,
     waker : Recipients, wakeToken : Tokens, hold : 0..Hold,
     accepted : BOOLEAN]

Moves == [verb : Verbs, session : Session, occurrence : 1..MaxOccurrence,
          token : Tokens, due : Nat]

\* What a call decided, once another write landed: nothing it can write.
Overtaken == [status |-> "overtaken"]

Calls == [move : Moves, attempt : 1..Attempts, next : Items \cup {Overtaken}]
NoCall == [attempt |-> 0]


\* A token, and how long its session counts on it.
Grasps == [token : Tokens, left : Times]
Nothing == [token |-> NoToken, left |-> 0]
Grasp(token, left) == IF left = 0 THEN Nothing ELSE [token |-> token, left |-> left]
Gone(g) == [g EXCEPT !.left = 0]

ASSUME NamesAssumption == Nobody \notin Session /\ NoToken \notin Token
ASSUME TimesAssumption ==
    /\ Lease \in Nat \ {0} /\ Hold \in 1..Lease /\ Delays \subseteq Nat
    /\ Attempts \in Nat \ {0} /\ MaxOccurrence \in Nat \ {0}
    /\ MaxOpen \in Nat /\ Lossy \subseteq Verbs
    /\ Successions \subseteq Session \X Session
ASSUME LettersAssumption ==
    Letters \subseteq [to : Recipients, from : Recipients,
                       delivery : {"next_activity", "wake"}, actionable : BOOLEAN]
\* There is always a token that is neither of two others.
ASSUME TokensAssumption ==
    \A a, b \in Tokens : \E t \in Token : t # a /\ t # b

\* A token its session does not hold yet, in hand or in the document.
Fresh(s, verb) ==
    CHOOSE t \in Token :
        IF verb = "reserve"
        THEN t # wake[s].token /\ (item.waker = s => t # item.wakeToken)
        ELSE t # claim[s].token /\ (item.owner = s => t # item.token)

-----------------------------------------------------------------------------
(* What the message says now.                                              *)

Available(x) == x.status = "open" /\ x.due = 0
Claimed(x) == x.owner # Nobody /\ x.lease > 0

\* Never read, or read under a claim that lapsed.
Unread(x) ==
    Available(x) /\ (~x.read \/ (x.owner # Nobody /\ ~Claimed(x)))

\* The sessions s succeeds, itself included.
Lineage(s) ==
    {p \in Session :
        \A up \in SUBSET Session :
            (s \in up /\ \A l \in links : l[1] \in up => l[2] \in up) => p \in up}

\* An addressed message is its recipient's and the recipient's successors'.
Reaches(s, x) == x.to = Nobody \/ x.to \in Lineage(s)

-----------------------------------------------------------------------------
(* The lifecycle (transitions.rs): which moves are permitted, and the      *)
(* message after one.                                                      *)

\* Mutant: the occurrence is not compared.
CurrentOrNot(x, m) == m.occurrence <= x.occurrence

Current(x, m) == m.occurrence = x.occurrence

\* Mutant: an accepted wake may be reserved again.
WakePendingAgain(x) ==
    x.delivery = "wake" /\ Unread(x) /\ ~Claimed(x) /\ x.hold = 0

WakePending(x) ==
    /\ x.delivery = "wake" /\ Unread(x) /\ ~x.accepted /\ ~Claimed(x)
    /\ x.hold = 0

\* Repeating what settled the message changes nothing and is no error.
Settled(x, m) ==
    \/ /\ m.verb = "complete" /\ x.status = "done"
       /\ m.session = x.owner /\ m.token = x.token
    \/ m.verb = "cancel" /\ x.status = "cancelled"

\* Mutant: a reservation stands until it is reported.
PermitsWakeHeld(x, m) ==
    \/ m.verb = "reserve" /\ WakePending(x) /\ x.waker = Nobody
    \/ /\ m.verb \in {"accepted", "retry"}
       /\ x.waker = m.session /\ x.wakeToken = m.token /\ x.hold > 0

PermitsWake(x, m) ==
    \/ m.verb = "reserve" /\ WakePending(x)
    \/ /\ m.verb \in {"accepted", "retry"}
       /\ x.waker = m.session /\ x.wakeToken = m.token /\ x.hold > 0

\* Mutant: a claim is taken over while it runs.
PermitsWorkOver(x, m) ==
    /\ x.actionable
    /\ \/ m.verb = "claim"
       \/ /\ m.verb \in {"renew", "release", "complete", "snooze"}
          /\ Claimed(x) /\ x.owner = m.session /\ x.token = m.token
          /\ m.verb = "snooze" => m.due > 0

PermitsWork(x, m) ==
    /\ x.actionable
    /\ \/ m.verb = "claim" /\ (Claimed(x) => x.owner = m.session)
       \/ /\ m.verb \in {"renew", "release", "complete", "snooze"}
          /\ Claimed(x) /\ x.owner = m.session /\ x.token = m.token
          /\ m.verb = "snooze" => m.due > 0

Permits(x, m) ==
    /\ Current(x, m)
    /\ \/ Settled(x, m)
       \/ m.verb = "cancel" /\ x.status = "open"
       \/ /\ Available(x)
          /\ \/ m.verb = "ack" /\ (Claimed(x) => x.owner = m.session)
             \/ PermitsWake(x, m)
             \/ PermitsWork(x, m)

Disown(x) == [x EXCEPT !.owner = Nobody, !.token = NoToken, !.lease = 0]
Unwake(x) == [x EXCEPT !.waker = Nobody, !.wakeToken = NoToken, !.hold = 0]

\* Released work is unread and may wake a client again.
Reopened(x) == [Unwake(Disown(x)) EXCEPT !.read = FALSE, !.accepted = FALSE]

\* Mutant: a renewal adds to the lease it finds.
RenewedOnTop(x) == [x EXCEPT !.lease = @ + Lease]

Renewed(x) == [x EXCEPT !.lease = Lease]

Taken(x, s, t) ==
    [x EXCEPT !.owner = s, !.token = t, !.lease = Lease, !.read = TRUE]

\* The message after a permitted move; fresh is the token it may mint.
Moved(x, m, fresh) ==
    CASE m.verb = "cancel" -> [x EXCEPT !.status = "cancelled"]
      [] m.verb = "reserve" ->
            [x EXCEPT !.waker = m.session, !.wakeToken = fresh, !.hold = Hold]
      [] m.verb \in {"accepted", "retry"} ->
            [Unwake(x) EXCEPT !.accepted = (m.verb = "accepted")]
      [] m.verb = "ack" ->
            IF x.read /\ ~Unread(x) THEN x ELSE [Disown(x) EXCEPT !.read = TRUE]
      [] m.verb = "claim" ->
            IF Claimed(x) /\ x.owner = m.session THEN x ELSE Taken(x, m.session, fresh)
      [] m.verb = "renew" -> Renewed(x)
      [] m.verb = "complete" -> [x EXCEPT !.status = "done"]
      [] m.verb = "snooze" ->
            [Reopened(x) EXCEPT !.due = m.due, !.occurrence = x.occurrence + 1]
      [] m.verb = "release" -> Reopened(x)

-----------------------------------------------------------------------------
(* What a session knows.                                                   *)

\* A session is done with its work before it asks to give it up.
Ends(verb) == verb \in {"release", "complete", "snooze"}

Stops(s, verb) ==
    IF Ends(verb) THEN [claim EXCEPT ![s] = Gone(@)] ELSE claim

\* The reply to a move that left the message as x.
Learns(s, verb, x) ==
    /\ claim' = CASE verb \in {"claim", "renew"} ->
                        [claim EXCEPT ![s] = Grasp(x.token, x.lease)]
                  [] Ends(verb) -> [claim EXCEPT ![s] = Nothing]
                  [] OTHER -> claim
    /\ wake' = CASE verb = "reserve" ->
                       [wake EXCEPT ![s] = Grasp(x.wakeToken, x.hold)]
                 [] verb \in {"accepted", "retry"} -> [wake EXCEPT ![s] = Nothing]
                 [] OTHER -> wake

-----------------------------------------------------------------------------
(* The operations (writes.rs, record/mailbox.rs).                          *)

Blank ==
    [to |-> Nobody, from |-> Nobody, delivery |-> "next_activity",
     actionable |-> FALSE, status |-> "open", occurrence |-> 1, due |-> 0,
     read |-> FALSE, owner |-> Nobody, token |-> NoToken, lease |-> 0,
     waker |-> Nobody, wakeToken |-> NoToken, hold |-> 0, accepted |-> FALSE]

Init ==
    /\ file = "absent" /\ item = Blank
    /\ links = {} /\ attached = Session
    /\ call = [s \in Session |-> NoCall]
    /\ claim = [s \in Session |-> Nothing]
    /\ wake = [s \in Session |-> Nothing]
    /\ handed = {} /\ taken = FALSE

\* A delayed message is always actionable.
Send(letter, delay) ==
    /\ file = "absent"
    /\ file' = "live"
    /\ item' = [Blank EXCEPT !.to = letter.to, !.from = letter.from,
                             !.delivery = letter.delivery, !.due = delay,
                             !.actionable = letter.actionable \/ delay > 0]
    /\ UNCHANGED <<links, attached, call, known, history>>

\* A session declares that it continues parent.
NoteContinuation(s, parent) ==
    /\ s \in attached /\ <<s, parent>> \in Successions \ links
    /\ links' = links \cup {<<s, parent>>}
    /\ UNCHANGED <<document, attached, call, known, history>>

\* A sender that no longer reaches its message may still withdraw it.
MayMove(s, verb) ==
    Reaches(s, item) \/ (verb = "cancel" /\ item.from = s)

Possible(s, m) == file = "live" /\ MayMove(s, m.verb) /\ Permits(item, m)

\* What the history makes of a move that landed.
Remembers(s, verb, heard) ==
    CASE verb = "reserve" ->
            /\ handed' = IF heard THEN handed \cup {s} ELSE handed
            /\ UNCHANGED taken
      [] verb = "retry" ->
            handed' = handed \ {s} /\ UNCHANGED taken
      [] verb = "accepted" ->
            handed' = handed \ {s} /\ taken' = TRUE
      [] verb \in {"release", "snooze"} ->
            handed' = {} /\ taken' = FALSE
      [] OTHER -> UNCHANGED history

\* Mutant: the write carries no expected version, so nothing overtakes it.
OvertakeNever(c) == c

Overtake(c) == IF c = NoCall THEN NoCall ELSE [c EXCEPT !.next = Overtaken]

\* The write of a move gives the document its next version, which overtakes
\* every other open call; the reply may be lost.
Writes(s, verb, next, heard) ==
    /\ file' = "live" /\ item' = next
    /\ call' = [c \in Session |-> IF c = s THEN NoCall ELSE Overtake(call[c])]
    /\ \/ heard /\ Learns(s, verb, next)
       \/ ~heard /\ verb \in Lossy /\ claim' = Stops(s, verb) /\ UNCHANGED wake
    /\ Remembers(s, verb, heard)

Open == {s \in Session : call[s] # NoCall}

\* One view of the message.  The write follows at once or later; or there is
\* nothing to write; or the move is refused.
Views(s, m, attempt) ==
    LET next == Moved(item, m, Fresh(s, m.verb))
    IN  \/ /\ Possible(s, m) /\ next # item
           /\ \E heard \in BOOLEAN : Writes(s, m.verb, next, heard)
        \/ /\ Possible(s, m) /\ next # item
           /\ Cardinality(Open \ {s}) < MaxOpen
           /\ call' = [call EXCEPT ![s] =
                [move |-> m, attempt |-> attempt, next |-> next]]
           /\ claim' = Stops(s, m.verb)
           /\ UNCHANGED <<document, wake, history>>
        \/ /\ Possible(s, m) /\ next = item
           /\ call' = [call EXCEPT ![s] = NoCall]
           /\ Learns(s, m.verb, item)
           /\ UNCHANGED <<document, history>>
        \/ /\ ~Possible(s, m)
           /\ call' = [call EXCEPT ![s] = NoCall]
           /\ UNCHANGED <<document, known, history>>

\* update: a session moves an occurrence it has seen.  A wake is reported
\* with the token it was handed under, work with the claim's.
Update(s, verb, occurrence, due) ==
    LET m == [verb |-> verb, session |-> s, occurrence |-> occurrence, due |-> due,
              token |-> IF verb \in {"accepted", "retry"}
                        THEN wake[s].token ELSE claim[s].token]
    IN  /\ s \in attached /\ call[s] = NoCall /\ Possible(s, m)
        /\ verb = "snooze" => occurrence < MaxOccurrence
        /\ Views(s, m, 1)
        /\ UNCHANGED <<links, attached>>

\* poll: the receiver reserves a pending wake.
Poll(s) == Update(s, "reserve", item.occurrence, 0)

Act(s) ==
    \E verb \in Verbs \ {"reserve"}, o \in 1..item.occurrence, d \in Delays :
        /\ verb # "snooze" => d = 0
        /\ Update(s, verb, o, d)

\* The write's fence: the document is there and has the version viewed.  A
\* redaction keeps the version, so it does not stop the write.
Fenced(s) == file \in {"live", "redacted"} /\ call[s].next # Overtaken

\* An open call writes.
Land(s, heard) ==
    /\ s \in Open /\ Fenced(s)
    /\ Writes(s, call[s].move.verb, call[s].next, heard)
    /\ UNCHANGED <<links, attached>>

\* The store refuses the write: the call views again, or fails at last.
Conflict(s) ==
    /\ s \in Open /\ ~Fenced(s)
    /\ \/ /\ call[s].attempt < Attempts
          /\ Views(s, call[s].move, call[s].attempt + 1)
       \/ /\ call[s].attempt = Attempts
          /\ call' = [call EXCEPT ![s] = NoCall]
          /\ UNCHANGED <<document, known, history>>
    /\ UNCHANGED <<links, attached>>

\* The client ends, and with it its call and what it knew.
Stop(s) ==
    /\ s \in attached
    /\ attached' = attached \ {s}
    /\ call' = [call EXCEPT ![s] = NoCall]
    /\ claim' = [claim EXCEPT ![s] = Nothing]
    /\ wake' = [wake EXCEPT ![s] = Nothing]
    /\ UNCHANGED <<document, links, history>>

\* An operator redacts or deletes the document; the message in it is gone.
Erase ==
    /\ file = "live" /\ file' \in {"redacted", "deleted"}
    /\ item' = Blank
    /\ UNCHANGED <<links, attached, call, known, history>>

-----------------------------------------------------------------------------
(* Time.                                                                   *)

Less(n) == IF n = 0 THEN 0 ELSE n - 1

\* A session forgets what lapses.
Waning(g) == IF g.left = 1 THEN Nothing ELSE [g EXCEPT !.left = Less(@)]

Older(x) == [x EXCEPT !.due = Less(@), !.lease = Less(@), !.hold = Less(@)]

\* An update that reserves a wake takes less time than the reservation.
Prompt ==
    \A s \in Session :
        s \in Open /\ call[s].next # Overtaken /\ call[s].move.verb = "reserve" =>
            call[s].next.hold > 1

Tick ==
    /\ Prompt
    /\ item' = Older(item)
    /\ call' = [s \in Session |->
                  IF call[s] = NoCall THEN NoCall
                  ELSE [call[s] EXCEPT !.move.due = Less(@),
                            !.next = IF @ = Overtaken THEN @ ELSE Older(@)]]
    /\ claim' = [s \in Session |-> Waning(claim[s])]
    /\ wake' = [s \in Session |-> Waning(wake[s])]
    /\ handed' = {s \in handed : wake'[s] # Nothing}
    /\ UNCHANGED <<file, links, attached, taken>>

Next ==
    \/ \E letter \in Letters, d \in Delays : Send(letter, d)
    \/ \E s, parent \in Session : NoteContinuation(s, parent)
    \/ \E s \in Session : Poll(s) \/ Act(s) \/ Conflict(s) \/ Stop(s)
    \/ \E s \in Session, heard \in BOOLEAN : Land(s, heard)
    \/ Erase \/ Tick

Spec == Init /\ [][Next]_vars

\* Time passes, calls end, and an attached receiver keeps polling: other
\* calls of its session get in its way and cannot keep it from its turn.
Fairness ==
    /\ WF_vars(Tick)
    /\ \A s \in Session :
        /\ SF_vars(Poll(s))
        /\ WF_vars(Conflict(s) \/ \E heard \in BOOLEAN : Land(s, heard))

FairSpec == Spec /\ Fairness

-----------------------------------------------------------------------------
(* Properties.                                                             *)

\* The document, the calls and what sessions know keep their shape.
TypeOK ==
    /\ file \in {"absent", "live", "redacted", "deleted"}
    /\ item \in Items
    /\ links \subseteq Session \X Session /\ attached \subseteq Session
    /\ call \in [Session -> Calls \cup {NoCall}]
    /\ claim \in [Session -> Grasps] /\ wake \in [Session -> Grasps]
    /\ handed \subseteq Session /\ taken \in BOOLEAN

\* While a claim runs its session alone works on the message: no other
\* session is at work under a claim of its own, whatever was decided before
\* the claim and written after it, and whatever lapsed in between.
OneWorker ==
    \A s, c \in Session : claim[s].left > 0 /\ claim[c].left > 0 => s = c

\* Between two releases a wake is with one receiver at a time, and with none
\* once a receiver's acceptance is on file: a missing acknowledgement does
\* not start turn after turn.
WakeOnce ==
    /\ \A s, c \in handed : s = c
    /\ taken => /\ handed = {}
                /\ file = "live" => item.accepted

\* A cancelled or completed message stays as it was settled: a move decided
\* while it was open never lands after it.
SettledStays ==
    [][item.status # "open" /\ file' = file => item' \in {item, Older(item)}]_item

\* A move that lands was made for the occurrence on file, so an answer to an
\* earlier one does not mark the snoozed message read.
OccurrenceFenced ==
    [][\A s \in Session :
        call[s] # NoCall /\ call'[s] = NoCall /\ item' = call[s].next
            /\ item' # item /\ file = "live" =>
        call[s].move.occurrence = item.occurrence]_vars

\* A due wake nobody has read, taken or accepted is handed to some receiver
\* as long as one that reaches it polls, though every receiver before it
\* stopped with the wake in hand.
WakeIsHanded ==
    \A s \in Session :
        (file = "live" /\ WakePending(item) /\ s \in attached /\ Reaches(s, item))
        ~> \/ file # "live" \/ ~WakePending(item)
           \/ s \notin attached

\* A message has one worker, and a wake one receiver, at a time.
OneEach == TypeOK /\ OneWorker /\ WakeOnce

\* A move lands only on the state and the occurrence it was decided for.
MovesFenced == SettledStays /\ OccurrenceFenced
=============================================================================
