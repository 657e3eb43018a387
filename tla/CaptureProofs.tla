---------------------------- MODULE CaptureProofs ---------------------------
(***************************************************************************)
(* Proofs about Capture, for any sessions that send any events, any number *)
(* of events, calls and troubles; and, with names from any set, about the  *)
(* rules of Profiles and NativeMemory, which say what a capture may take   *)
(* and where it may go.                                                    *)
(*                                                                         *)
(* A landing holds the lock of its session, so the argument is about one   *)
(* session at a time: what its spool, its log, its document and the stage  *)
(* of its landing say of each other (Own).  What crosses sessions is the   *)
(* handoff note; a session that has read one knows the note of that        *)
(* version (Held).                                                         *)
(***************************************************************************)
EXTENDS Capture, Profiles, NativeMemory, SequenceTheorems, FiniteSetTheorems, WellFoundedInduction, TLAPS

Spool == [records : Seq(Record), torn : BOOLEAN]
Log == [rows : Seq(SUBSET Record), good : Nat, ended : BOOLEAN]
Document == [live : BOOLEAN, version : Nat, turns : Nat, continues : SUBSET Session]
Typed ==
    /\ fired \in [Session -> Nat]
    /\ owed \in [Session -> Owed \union {Idle}]
    /\ spool \in [Session -> Spool]
    /\ landing \in [Session -> Landing \union {Idle}]
    /\ log \in [Session -> Log]
    /\ docs \in [Session -> Document]
    /\ baton \in Note \union {Idle}
    /\ pickup \in [Session -> Pickup \union {Idle}]
    /\ eraser \subseteq Session /\ seq \in Nat
    /\ told \in [Session -> SUBSET Record]
    /\ erased \in [Session -> SUBSET Record]
    /\ halted \in [Session -> SUBSET Record]

\* The spool's records, and those of them that become messages.
Spooling(s) == Range(spool[s].records)
Saying(s) == {r \in Spooling(s) : Says(s, r)}
Stage(s) == IF Locked(s) THEN landing[s].stage ELSE "idle"

\* A number is given once.
OnRecord(s) ==
    /\ fired[s] <= MaxEvents[s]
    /\ \A r \in told[s] : r.number \in 1..fired[s] /\ (r.kind = "continue" => r.of \in Session)
    /\ Spooling(s) \union Rows(s) \union halted[s] \subseteq told[s]
    /\ owed[s] # Idle /\ owed[s].kind = "continue" => owed[s].of \in Session

\* Past the append of its turn a landing may clear the spool.
SpanKept(s) ==
    /\ \A r \in told[s] : Says(s, r) => r \in Spooling(s) \union Rows(s) \union erased[s]
    /\ Stage(s) # "idle" => Saying(s) # {}
    /\ Stage(s) \notin {"idle", "append"} => Saying(s) \subseteq Rows(s) \union erased[s]

\* Before it, what is both in the spool and in a turn was left by a landing.
Once(s) ==
    /\ Stage(s) \in {"idle", "append"} => Spooling(s) \intersect Rows(s) \subseteq halted[s]
    /\ \A i, j \in DOMAIN log[s].rows :
          i # j => log[s].rows[i] \intersect log[s].rows[j] \subseteq halted[s]
    /\ log[s].good <= Len(log[s].rows) /\ (~log[s].ended => log[s].rows # <<>>)

\* What the document says of the log, when it was last written and no landing
\* has been left half-way since.
Settled(s) ==
    \/ Stage(s) \in {"note", "link", "clear"}
    \/ Stage(s) \in {"idle", "append"} /\ Spooling(s) \intersect halted[s] = {}
Current(s) ==
    /\ Stage(s) \in {"list", "write"} =>
          landing[s].turn = Len(log[s].rows) /\ landing[s].said \subseteq told[s]
    /\ docs[s].live /\ Settled(s) => docs[s].turns = Len(log[s].rows)
    /\ Spooling(s) \intersect halted[s] # {} => Saying(s) # {}
    /\ docs[s].version <= seq
    /\ docs[s].live /\ Stage(s) = "write" => docs[s].continues \subseteq landing[s].lineage

Own(s) == OnRecord(s) /\ SpanKept(s) /\ Once(s) /\ Current(s)

\* A note that was read: the one on file, or overtaken by a newer version.
Held(n) ==
    /\ n.pending /\ n.version <= seq
    /\ baton # Idle /\ (baton.version = n.version => baton = n)
Notes ==
    /\ baton # Idle => baton.version \in 1..seq /\ baton.written <= seq
    /\ \A s \in Session : /\ Stage(s) = "link" => Held(landing[s].note)
                          /\ Carries(s) => Held(pickup[s].note)

CaptureInv == Typed /\ (\A s \in Session : Own(s)) /\ Notes
-----------------------------------------------------------------------------
(* Sequences and stages.                                                   *)

LEMMA RangeAppend ==
    ASSUME NEW S, NEW q \in Seq(S), NEW r \in S
    PROVE  /\ Append(q, r) \in Seq(S) /\ Range(Append(q, r)) = Range(q) \union {r}
           /\ Last(Append(q, r)) = r /\ Append(q, r) # <<>>
<1> DEFINE p == Append(q, r)
<1>1. /\ p \in Seq(S) /\ Len(p) = Len(q) + 1 /\ p[Len(q) + 1] = r /\ p # <<>>
      /\ \A i \in 1..Len(q) : p[i] = q[i]
      /\ DOMAIN p = 1..(Len(q) + 1) /\ DOMAIN q = 1..Len(q) /\ Len(q) \in Nat
  OBVIOUS
<1> HIDE DEF p
<1>2. Range(p) = Range(q) \union {r}
  <2>1. \A x \in Range(p) : x \in Range(q) \/ x = r
    BY <1>1 DEF Range
  <2>2. \A x \in Range(q) : x \in Range(p)
    BY <1>1 DEF Range
  <2>3. r \in Range(p)
    <3>1. Len(q) + 1 \in DOMAIN p
      BY <1>1
    <3> QED
      BY <1>1, <3>1 DEF Range
  <2> QED
    BY <2>1, <2>2, <2>3
<1>3. Last(p) = r
  BY <1>1 DEF Last
<1> QED
  BY <1>1, <1>2, <1>3 DEF p

LEMMA RangeTyped == ASSUME NEW S, NEW q \in Seq(S) PROVE Range(q) \subseteq S
BY DEF Range

LEMMA RangeEmpty == Range(<<>>) = {}
BY DEF Range

\* The stages of a landing and what it knows at each.
LEMMA Stages ==
    ASSUME Typed, NEW s \in Session
    PROVE  /\ Stage(s) \in {"idle", "append", "list", "write", "note", "link", "clear"}
           /\ \A p \in {"append", "list", "write", "note", "link", "clear"} :
                  At(s, p) <=> Stage(s) = p
           /\ Stage(s) = "idle" <=> ~Locked(s)
           /\ Stage(s) = "list" => landing[s].turn \in Nat /\ landing[s].said \in SUBSET Record
           /\ Stage(s) = "write" => /\ landing[s].turn \in Nat
                                    /\ landing[s].said \in SUBSET Record
                                    /\ landing[s].lineage \in SUBSET Session
           /\ Stage(s) = "link" => landing[s].note \in Note
<1>1. landing[s] \in Landing \union {Idle}
  BY DEF Typed
<1>2. CASE landing[s] = Idle
  BY <1>2 DEF Stage, Locked, At
<1>3. CASE landing[s] # Idle
  <2>1. landing[s] \in Landing
    BY <1>1, <1>3
  <2>2. /\ landing[s].stage \in {"append", "list", "write", "note", "link", "clear"}
        /\ landing[s].stage = "list" => landing[s].turn \in Nat /\ landing[s].said \in SUBSET Record
        /\ landing[s].stage = "write" => /\ landing[s].turn \in Nat
                                         /\ landing[s].said \in SUBSET Record
                                         /\ landing[s].lineage \in SUBSET Session
        /\ landing[s].stage = "link" => landing[s].note \in Note
    BY <2>1 DEF Landing
  <2> QED
    BY <1>3, <2>2 DEF Stage, Locked, At
<1> QED
  BY <1>2, <1>3

\* What a step makes of a landing.
LEMMA PlainStage ==
    ASSUME Typed, NEW s \in Session, NEW p \in {"append", "note", "clear"},
           landing' = [landing EXCEPT ![s] = [stage |-> p]]
    PROVE  /\ landing' \in [Session -> Landing \union {Idle}]
           /\ Stage(s)' = p /\ \A t \in Session \ {s} : landing'[t] = landing[t]
<1>1. [stage |-> p] \in Landing
  BY DEF Landing
<1>2. [stage |-> p] # Idle
  BY <1>1, IdleAssumption
<1>3. landing'[s] = [stage |-> p]
  BY DEF Typed
<1>4. Stage(s)' = p
  BY <1>2, <1>3 DEF Stage, Locked
<1> QED
  BY <1>1, <1>4 DEF Typed

LEMMA IdleStage ==
    ASSUME Typed, NEW s \in Session, landing' = [landing EXCEPT ![s] = Idle]
    PROVE  /\ landing' \in [Session -> Landing \union {Idle}]
           /\ Stage(s)' = "idle" /\ \A t \in Session \ {s} : landing'[t] = landing[t]
BY DEF Typed, Stage, Locked

LEMMA ListStage ==
    ASSUME Typed, NEW s \in Session, NEW n \in Nat, NEW said \in SUBSET Record,
           landing' = [landing EXCEPT ![s] = [stage |-> "list", turn |-> n, said |-> said]]
    PROVE  /\ landing' \in [Session -> Landing \union {Idle}]
           /\ Stage(s)' = "list" /\ landing'[s].turn = n /\ landing'[s].said = said
           /\ \A t \in Session \ {s} : landing'[t] = landing[t]
<1> DEFINE x == [stage |-> "list", turn |-> n, said |-> said]
<1>1. x \in Landing /\ x.stage = "list" /\ x.turn = n /\ x.said = said
  BY DEF Landing
<1> HIDE DEF x
<1>2. x # Idle
  BY <1>1, IdleAssumption
<1>3. landing'[s] = x /\ landing' = [landing EXCEPT ![s] = x]
  BY DEF Typed, x
<1> QED
  BY <1>1, <1>2, <1>3 DEF Typed, Stage, Locked

LEMMA WriteStage ==
    ASSUME Typed, NEW s \in Session, NEW n \in Nat, NEW said \in SUBSET Record,
           NEW lineage \in SUBSET Session,
           landing' = [landing EXCEPT ![s] =
               [stage |-> "write", turn |-> n, said |-> said, lineage |-> lineage]]
    PROVE  /\ landing' \in [Session -> Landing \union {Idle}]
           /\ Stage(s)' = "write" /\ landing'[s].turn = n /\ landing'[s].said = said
           /\ landing'[s].lineage = lineage
           /\ \A t \in Session \ {s} : landing'[t] = landing[t]
<1> DEFINE x == [stage |-> "write", turn |-> n, said |-> said, lineage |-> lineage]
<1>1. x \in Landing /\ x.stage = "write" /\ x.turn = n /\ x.said = said /\ x.lineage = lineage
  BY DEF Landing
<1> HIDE DEF x
<1>2. x # Idle
  BY <1>1, IdleAssumption
<1>3. landing'[s] = x /\ landing' = [landing EXCEPT ![s] = x]
  BY DEF Typed, x
<1> QED
  BY <1>1, <1>2, <1>3 DEF Typed, Stage, Locked

LEMMA LinkStage ==
    ASSUME Typed, NEW s \in Session, NEW note \in Note,
           landing' = [landing EXCEPT ![s] = [stage |-> "link", note |-> note]]
    PROVE  /\ landing' \in [Session -> Landing \union {Idle}]
           /\ Stage(s)' = "link" /\ landing'[s].note = note
           /\ \A t \in Session \ {s} : landing'[t] = landing[t]
<1> DEFINE x == [stage |-> "link", note |-> note]
<1>1. x \in Landing /\ x.stage = "link" /\ x.note = note
  BY DEF Landing
<1> HIDE DEF x
<1>2. x # Idle
  BY <1>1, IdleAssumption
<1>3. landing'[s] = x /\ landing' = [landing EXCEPT ![s] = x]
  BY DEF Typed, x
<1> QED
  BY <1>1, <1>2, <1>3 DEF Typed, Stage, Locked

\* What a step makes of a spool, a log and a document.
LEMMA SpoolMoves ==
    ASSUME Typed, NEW s \in Session, NEW q \in Seq(Record), NEW b \in BOOLEAN,
           \/ spool' = [spool EXCEPT ![s].records = q]
           \/ spool' = [spool EXCEPT ![s].torn = b] /\ q = spool[s].records
           \/ spool' = [spool EXCEPT ![s] = EmptySpool] /\ q = <<>>
    PROVE  /\ spool' \in [Session -> Spool]
           /\ spool'[s].records = q /\ Spooling(s)' = Range(q)
           /\ \A t \in Session \ {s} : spool'[t] = spool[t]
<1>1. spool[s] \in Spool /\ spool \in [Session -> Spool]
  BY DEF Typed
<1>2. CASE spool' = [spool EXCEPT ![s].records = q]
  <2>1. [spool[s] EXCEPT !.records = q] \in Spool
    BY <1>1 DEF Spool
  <2>2. spool'[s] = [spool[s] EXCEPT !.records = q]
    BY <1>1, <1>2
  <2>3. spool'[s].records = q
    BY <1>1, <2>2 DEF Spool
  <2> QED
    BY <1>1, <1>2, <2>1, <2>3 DEF Spooling
<1>3. CASE spool' = [spool EXCEPT ![s].torn = b] /\ q = spool[s].records
  <2>1. [spool[s] EXCEPT !.torn = b] \in Spool
    BY <1>1 DEF Spool
  <2>2. spool'[s] = [spool[s] EXCEPT !.torn = b]
    BY <1>1, <1>3
  <2>3. spool'[s].records = q
    BY <1>1, <1>3, <2>2 DEF Spool
  <2> QED
    BY <1>1, <1>3, <2>1, <2>3 DEF Spooling
<1>4. CASE spool' = [spool EXCEPT ![s] = EmptySpool] /\ q = <<>>
  <2>1. EmptySpool \in Spool /\ EmptySpool.records = <<>>
    BY DEF Spool, EmptySpool
  <2> QED
    BY <1>1, <1>4, <2>1 DEF Spooling
<1> QED
  BY <1>2, <1>3, <1>4

LEMMA SpoolTyped ==
    ASSUME Typed, NEW s \in Session
    PROVE  spool[s].records \in Seq(Record) /\ Spooling(s) \in SUBSET Record
BY RangeTyped DEF Typed, Spool, Spooling

LEMMA LogTyped ==
    ASSUME Typed, NEW s \in Session
    PROVE  /\ log[s] \in Log /\ log[s].rows \in Seq(SUBSET Record)
           /\ Len(log[s].rows) \in Nat /\ log[s].good \in Nat /\ log[s].ended \in BOOLEAN
           /\ DOMAIN log[s].rows = 1..Len(log[s].rows)
BY DEF Typed, Log

LEMMA DocumentTyped ==
    ASSUME Typed, NEW s \in Session
    PROVE  /\ docs[s].live \in BOOLEAN /\ docs[s].version \in Nat /\ docs[s].turns \in Nat
           /\ docs[s].continues \in SUBSET Session
BY DEF Typed, Document

LEMMA DocumentMoves ==
    ASSUME Typed, NEW s \in Session, NEW live \in BOOLEAN, NEW v \in Nat, NEW n \in Nat,
           NEW c \in SUBSET Session,
           docs' = [docs EXCEPT ![s] =
               [live |-> live, version |-> v, turns |-> n, continues |-> c]]
    PROVE  /\ docs' \in [Session -> Document]
           /\ docs'[s].live = live /\ docs'[s].version = v /\ docs'[s].turns = n
           /\ docs'[s].continues = c
           /\ \A t \in Session \ {s} : docs'[t] = docs[t]
BY DEF Typed, Document

\* The sessions a step does not concern.
OthersStay(s) ==
    \A t \in Session \ {s} :
        /\ fired'[t] = fired[t] /\ owed'[t] = owed[t] /\ spool'[t] = spool[t]
        /\ landing'[t] = landing[t] /\ log'[t] = log[t] /\ docs'[t] = docs[t]
        /\ pickup'[t] = pickup[t] /\ told'[t] = told[t] /\ erased'[t] = erased[t]
        /\ halted'[t] = halted[t]

LEMMA OthersKeep ==
    ASSUME CaptureInv, NEW s \in Session, OthersStay(s), seq' \in Nat, seq <= seq',
           NEW t \in Session \ {s}
    PROVE  Own(t)'
<1>1. /\ fired'[t] = fired[t] /\ owed'[t] = owed[t] /\ spool'[t] = spool[t]
      /\ landing'[t] = landing[t] /\ log'[t] = log[t] /\ docs'[t] = docs[t]
      /\ told'[t] = told[t] /\ erased'[t] = erased[t] /\ halted'[t] = halted[t]
  BY DEF OthersStay
<1>2. Own(t)
  BY DEF CaptureInv
<1>3. /\ Stage(t)' = Stage(t) /\ Spooling(t)' = Spooling(t) /\ Rows(t)' = Rows(t)
      /\ Saying(t)' = Saying(t)
  BY <1>1 DEF Stage, Locked, Spooling, Rows, Saying
<1>4. OnRecord(t)'
  BY <1>1, <1>2, <1>3 DEF Own, OnRecord
<1>5. SpanKept(t)'
  BY <1>1, <1>2, <1>3 DEF Own, SpanKept
<1>6. Once(t)'
  BY <1>1, <1>2, <1>3 DEF Own, Once
<1>7. Current(t)'
  <2>1. docs[t].version \in Nat /\ seq \in Nat
    BY DocumentTyped DEF CaptureInv, Typed
  <2>2. Settled(t)' <=> Settled(t)
    BY <1>1, <1>3 DEF Settled
  <2> QED
    BY <1>1, <1>2, <1>3, <2>1, <2>2 DEF Own, Current
<1> QED
  BY <1>4, <1>5, <1>6, <1>7 DEF Own

\* A note that was read stays known while the note on file stays or moves on.
BatonMoves ==
    \/ baton' = baton /\ seq' \in Nat /\ seq <= seq'
    \/ /\ seq' = seq + 1 /\ baton' \in Note
       /\ baton'.version = seq' /\ baton'.written <= seq'

LEMMA HeldStays ==
    ASSUME Typed, BatonMoves, NEW n \in Note, Held(n)
    PROVE  Held(n)'
<1>1. n.version \in Nat /\ seq \in Nat
  BY DEF Note, Typed
<1>2. baton' # Idle
  BY IdleAssumption DEF BatonMoves, Held
<1> QED
  BY <1>1, <1>2 DEF BatonMoves, Held

\* A step of one session keeps the invariant if it does for that session.
LEMMA SessionKeeps ==
    ASSUME CaptureInv, NEW s \in Session, Typed', OthersStay(s), Own(s)', BatonMoves,
           Stage(s)' = "link" => landing'[s].note \in Note /\ Held(landing[s].note)',
           Carries(s)' => pickup'[s].note \in Note /\ Held(pickup[s].note)'
    PROVE  CaptureInv'
<1>1. seq' \in Nat /\ seq <= seq' /\ seq \in Nat
  BY DEF BatonMoves, CaptureInv, Typed
<1>2. \A t \in Session : Own(t)'
  BY <1>1, OthersKeep
<1>3. baton' # Idle => baton'.version \in 1..seq' /\ baton'.written <= seq'
  <2>1. CASE baton' = baton /\ baton # Idle
    <3>1. baton.version \in 1..seq /\ baton.written <= seq /\ baton.written \in Nat
      BY <2>1 DEF CaptureInv, Notes, Typed, Note
    <3> QED
      BY <1>1, <2>1, <3>1
  <2>2. CASE seq' = seq + 1 /\ baton'.version = seq' /\ baton'.written <= seq'
    BY <1>1, <2>2
  <2> QED
    BY <2>1, <2>2 DEF BatonMoves
<1>4. ASSUME NEW t \in Session
      PROVE  /\ Stage(t)' = "link" => Held(landing[t].note)'
             /\ Carries(t)' => Held(pickup[t].note)'
  <2>1. CASE t = s
    BY <2>1
  <2>2. CASE t # s
    <3>1. landing'[t] = landing[t] /\ pickup'[t] = pickup[t]
      BY <2>2 DEF OthersStay
    <3>2. ASSUME Stage(t)' = "link" PROVE Held(landing[t].note)'
      <4>1. Stage(t) = "link"
        BY <3>1, <3>2 DEF Stage, Locked
      <4>2. PICK n \in Note : n = landing[t].note
        BY <4>1, Stages DEF CaptureInv
      <4>3. Held(n)
        BY <4>1, <4>2 DEF CaptureInv, Notes
      <4>4. Held(n)'
        BY <4>3, HeldStays DEF CaptureInv
      <4> QED
        BY <3>1, <4>2, <4>4 DEF Held
    <3>3. ASSUME Carries(t)' PROVE Held(pickup[t].note)'
      <4>1. Carries(t)
        BY <3>1, <3>3 DEF Carries, Calling
      <4>2. PICK n \in Note : n = pickup[t].note
        BY <4>1 DEF CaptureInv, Typed, Pickup, Carries, Calling
      <4>3. Held(n)
        BY <4>1, <4>2 DEF CaptureInv, Notes
      <4>4. Held(n)'
        BY <4>3, HeldStays DEF CaptureInv
      <4> QED
        BY <3>1, <4>2, <4>4 DEF Held
    <3> QED
      BY <3>2, <3>3
  <2> QED
    BY <2>1, <2>2
<1> QED
  BY <1>2, <1>3, <1>4 DEF CaptureInv, Notes

LEMMA SeqStays == ASSUME CaptureInv, UNCHANGED seq PROVE seq' \in Nat /\ seq <= seq'
BY DEF CaptureInv, Typed

\* The same for a step that reads no note and writes none.
LEMMA SessionQuiet ==
    ASSUME CaptureInv, NEW s \in Session, Typed', OthersStay(s), Own(s)',
           baton' = baton, pickup' = pickup, seq' \in Nat, seq <= seq',
           Stage(s)' = "link" => landing'[s] = landing[s]
    PROVE  CaptureInv'
<1>1. BatonMoves
  BY DEF BatonMoves
<1>2. ASSUME Stage(s)' = "link"
      PROVE  landing'[s].note \in Note /\ Held(landing[s].note)'
  <2>1. landing'[s] = landing[s] /\ Stage(s) = "link"
    BY <1>2 DEF Stage, Locked
  <2>2. PICK n \in Note : n = landing[s].note
    BY <2>1, Stages DEF CaptureInv
  <2>3. Held(n)'
    BY <1>1, <2>1, <2>2, HeldStays DEF CaptureInv, Notes
  <2> QED
    BY <2>1, <2>2, <2>3 DEF Held
<1>3. ASSUME Carries(s)'
      PROVE  pickup'[s].note \in Note /\ Held(pickup[s].note)'
  <2>1. Carries(s)
    BY <1>3 DEF Carries, Calling
  <2>2. PICK n \in Note : n = pickup[s].note
    BY <2>1 DEF CaptureInv, Typed, Pickup, Carries, Calling
  <2>3. Held(n)'
    BY <1>1, <2>1, <2>2, HeldStays DEF CaptureInv, Notes
  <2> QED
    BY <2>1, <2>2, <2>3 DEF Held
<1> QED
  BY <1>1, <1>2, <1>3, SessionKeeps

-----------------------------------------------------------------------------
(* Hooks.                                                                  *)

LEMMA DueTyped ==
    ASSUME CaptureInv, NEW s \in Session, NEW kind, NEW of,
           [kind |-> kind, of |-> of] \in Due(s)
    PROVE  /\ kind \in Kinds /\ of \in Session \union {NoSession}
           /\ kind = "continue" => of \in Session
<1> DEFINE x == [kind |-> kind, of |-> of]
<1>1. x.kind = kind /\ x.of = of
  OBVIOUS
<1>2. owed[s] \in Owed \union {Idle} /\ OnRecord(s)
  BY DEF CaptureInv, Typed, Own
<1> HIDE DEF x
<1>3. x \in Due(s)
  BY DEF x
<1>4. CASE owed[s] # Idle
  <2>1. x = owed[s] /\ owed[s] \in Owed
    BY <1>2, <1>3, <1>4 DEF Due
  <2> QED
    BY <1>1, <1>2, <1>4, <2>1 DEF Owed, Kinds, OnRecord
<1>5. CASE owed[s] = Idle
  <2>1. PICK k \in Sent(s) : x = [kind |-> k, of |-> NoSession]
    BY <1>3, <1>5 DEF Due
  <2>2. kind = k /\ of = NoSession
    BY <1>1, <2>1
  <2> QED
    BY <2>1, <2>2 DEF Sent, Kinds
<1> QED
  BY <1>4, <1>5

\* A hook's record is new.
FreshRecord(s, r) ==
    /\ r \in Record /\ r \notin told[s]
    /\ r.number = fired[s] + 1 /\ (r.kind = "continue" => r.of \in Session)

LEMMA RecordSent ==
    ASSUME CaptureInv, NEW s \in Session, NEW kind, NEW of, NextRecord(s, kind, of)
    PROVE  /\ fired' \in [Session -> Nat] /\ owed' \in [Session -> Owed \union {Idle}]
           /\ fired'[s] = fired[s] + 1 /\ fired'[s] <= MaxEvents[s] /\ owed'[s] = Idle
           /\ fired[s] \in Nat
           /\ \A t \in Session \ {s} : fired'[t] = fired[t] /\ owed'[t] = owed[t]
           /\ \E r \in Record :
                /\ FreshRecord(s, r)
                /\ Spooled(s, kind, of) = Append(spool[s].records, r)
<1> DEFINE r == [number |-> fired[s] + 1, kind |-> kind, of |-> of]
<1>1. fired \in [Session -> Nat] /\ owed \in [Session -> Owed \union {Idle}]
      /\ MaxEvents[s] \in Nat /\ fired[s] \in Nat
  BY CaptureAssumption DEF CaptureInv, Typed
<1>2. /\ fired' \in [Session -> Nat] /\ owed' \in [Session -> Owed \union {Idle}]
      /\ fired'[s] = fired[s] + 1 /\ fired'[s] <= MaxEvents[s] /\ owed'[s] = Idle
      /\ \A t \in Session \ {s} : fired'[t] = fired[t] /\ owed'[t] = owed[t]
  BY <1>1 DEF NextRecord
<1>3. r \in Record /\ r.number = fired[s] + 1 /\ r.kind = kind /\ r.of = of
  BY <1>1, DueTyped DEF NextRecord, Record
<1>4. Spooled(s, kind, of) = Append(spool[s].records, r)
  BY DEF Spooled
<1> HIDE DEF r
<1>5. \A x \in told[s] : x.number \in 1..fired[s]
  BY DEF CaptureInv, Own, OnRecord
<1>6. FreshRecord(s, r)
  BY <1>1, <1>3, <1>5, DueTyped DEF FreshRecord, NextRecord
<1> QED
  BY <1>1, <1>2, <1>3, <1>4, <1>6

LEMMA RecordTold ==
    ASSUME CaptureInv, NEW s \in Session, NEW kind, NEW of,
           NextRecord(s, kind, of), Acknowledged(s, kind, of)
    PROVE  \E r \in Record :
             /\ FreshRecord(s, r)
             /\ told' \in [Session -> SUBSET Record] /\ told'[s] = told[s] \union {r}
             /\ \A t \in Session \ {s} : told'[t] = told[t]
             /\ erased' = erased /\ halted' = halted
             /\ Spooled(s, kind, of) \in Seq(Record)
             /\ Range(Spooled(s, kind, of)) = Spooling(s) \union {r}
<1>1. spool[s].records \in Seq(Record)
  BY SpoolTyped DEF CaptureInv
<1>2. PICK r \in Record : FreshRecord(s, r) /\ Spooled(s, kind, of) = Append(spool[s].records, r)
  BY RecordSent
<1>3. /\ Last(Spooled(s, kind, of)) = r /\ Spooled(s, kind, of) \in Seq(Record)
      /\ Range(Spooled(s, kind, of)) = Spooling(s) \union {r}
  BY <1>1, <1>2, RangeAppend DEF Spooling
<1>4. told' = [told EXCEPT ![s] = @ \union {r}] /\ erased' = erased /\ halted' = halted
  BY <1>3 DEF Acknowledged
<1>5. told' \in [Session -> SUBSET Record] /\ told'[s] = told[s] \union {r}
      /\ \A t \in Session \ {s} : told'[t] = told[t]
  BY <1>4 DEF CaptureInv, Typed
<1> QED
  BY <1>2, <1>3, <1>4, <1>5

\* What is on record stays told, and its numbers stay below the next.
LEMMA OnRecordStays ==
    ASSUME CaptureInv, NEW s \in Session, NEW r, FreshRecord(s, r),
           fired[s] \in Nat, fired'[s] = fired[s] + 1, fired'[s] <= MaxEvents[s], owed'[s] = Idle,
           told'[s] = told[s] \union {r} \/ told'[s] = told[s],
           Spooling(s)' \subseteq told'[s], Rows(s)' \subseteq told'[s], halted' = halted
    PROVE  OnRecord(s)'
<1>1. OnRecord(s)
  BY DEF CaptureInv, Own
<1>2. \A x \in told'[s] : x.number \in 1..fired'[s] /\ (x.kind = "continue" => x.of \in Session)
  BY <1>1 DEF OnRecord, FreshRecord
<1> QED
  BY <1>1, <1>2 DEF OnRecord

LEMMA HookKeeps ==
    ASSUME CaptureInv, NEW s \in Session, NEW kind, NEW of, Hook(s, kind, of)
    PROVE  CaptureInv'
<1>1. /\ fired' \in [Session -> Nat] /\ owed' \in [Session -> Owed \union {Idle}]
      /\ fired'[s] = fired[s] + 1 /\ fired'[s] <= MaxEvents[s] /\ owed'[s] = Idle
      /\ fired[s] \in Nat
      /\ \A t \in Session \ {s} : fired'[t] = fired[t] /\ owed'[t] = owed[t]
  BY RecordSent DEF Hook
<1>2. NextRecord(s, kind, of) /\ Acknowledged(s, kind, of)
  BY DEF Hook
<1>3. PICK r \in Record :
        /\ FreshRecord(s, r)
        /\ told' \in [Session -> SUBSET Record] /\ told'[s] = told[s] \union {r}
        /\ \A t \in Session \ {s} : told'[t] = told[t]
        /\ erased' = erased /\ halted' = halted
        /\ Spooled(s, kind, of) \in Seq(Record)
        /\ Range(Spooled(s, kind, of)) = Spooling(s) \union {r}
  BY <1>2, RecordTold
<1>4. /\ ~Locked(s) /\ spool' = [spool EXCEPT ![s].records = Spooled(s, kind, of)]
      /\ UNCHANGED <<landing, log, docs, baton, seq, pickup, eraser>>
  BY DEF Hook, scope
<1>5. /\ spool' \in [Session -> Spool] /\ Spooling(s)' = Spooling(s) \union {r}
      /\ \A t \in Session \ {s} : spool'[t] = spool[t]
  BY <1>3, <1>4, SpoolMoves DEF CaptureInv
<1>6. Stage(s) = "idle" /\ Stage(s)' = "idle" /\ Rows(s)' = Rows(s)
  BY <1>4 DEF Stage, Locked, Rows
<1>7. Saying(s)' = Saying(s) \union {x \in {r} : Says(s, x)}
  BY <1>5 DEF Saying
<1>8. OnRecord(s) /\ SpanKept(s) /\ Once(s) /\ Current(s)
  BY DEF CaptureInv, Own
<1>9. OnRecord(s)'
  BY <1>1, <1>3, <1>5, <1>6, <1>8, OnRecordStays DEF OnRecord
<1>10. SpanKept(s)'
  BY <1>3, <1>5, <1>6, <1>8 DEF SpanKept
<1>11. Once(s)'
  BY <1>3, <1>4, <1>5, <1>6, <1>8 DEF Once, OnRecord, FreshRecord
<1>12. Current(s)'
  <2>1. r \notin halted[s]
    BY <1>3, <1>8 DEF OnRecord, FreshRecord
  <2> QED
    BY <1>3, <1>4, <1>5, <1>6, <1>7, <1>8, <2>1 DEF Current, Settled
<1>13. Typed'
  BY <1>1, <1>3, <1>4, <1>5 DEF CaptureInv, Typed
<1>14. OthersStay(s)
  BY <1>1, <1>3, <1>4, <1>5 DEF OthersStay
<1> QED
  BY <1>4, <1>6, <1>9, <1>10, <1>11, <1>12, <1>13, <1>14, SeqStays, SessionQuiet DEF Own

\* The end of a span: the lock is taken, or an empty span is cleared.
LEMMA BeginKeeps ==
    ASSUME CaptureInv, NEW s \in Session, NEW kind, NEW of, Begin(s, kind, of)
    PROVE  CaptureInv'
<1> DEFINE records == Spooled(s, kind, of)
<1>1. NextRecord(s, kind, of) /\ Acknowledged(s, kind, of)
  BY DEF Begin
<1>2. /\ fired' \in [Session -> Nat] /\ owed' \in [Session -> Owed \union {Idle}]
      /\ fired'[s] = fired[s] + 1 /\ fired'[s] <= MaxEvents[s] /\ owed'[s] = Idle
      /\ fired[s] \in Nat
      /\ \A t \in Session \ {s} : fired'[t] = fired[t] /\ owed'[t] = owed[t]
  BY <1>1, RecordSent
<1>3. PICK r \in Record :
        /\ FreshRecord(s, r)
        /\ told' \in [Session -> SUBSET Record] /\ told'[s] = told[s] \union {r}
        /\ \A t \in Session \ {s} : told'[t] = told[t]
        /\ erased' = erased /\ halted' = halted
        /\ records \in Seq(Record)
        /\ Range(records) = Spooling(s) \union {r}
  BY <1>1, RecordTold
<1>4. /\ ~Locked(s) /\ UNCHANGED <<log, docs, baton, seq, pickup, eraser>>
      /\ \/ /\ Said(s, records) = {}
            /\ spool' = [spool EXCEPT ![s] = EmptySpool] /\ landing' = landing
         \/ /\ Said(s, records) # {}
            /\ spool' = [spool EXCEPT ![s].records = records]
            /\ landing' = [landing EXCEPT ![s] = [stage |-> "append"]]
  BY DEF Begin, scope
<1> HIDE DEF records
<1>5. Said(s, records) = Saying(s) \union {x \in {r} : Says(s, x)}
  BY <1>3 DEF Said, Saying
<1>6. Stage(s) = "idle" /\ Rows(s)' = Rows(s)
  BY <1>4 DEF Stage, Rows
<1>7. OnRecord(s) /\ SpanKept(s) /\ Once(s) /\ Current(s)
  BY DEF CaptureInv, Own
<1>8. r \notin halted[s] /\ r \notin Rows(s)
  BY <1>3, <1>7 DEF OnRecord, FreshRecord
<1>9. Typed /\ seq' \in Nat /\ seq <= seq' /\ baton' = baton /\ pickup' = pickup
  BY <1>4, SeqStays DEF CaptureInv
<1>10. CASE Said(s, records) = {}
  <2>1. /\ spool' \in [Session -> Spool] /\ Spooling(s)' = {}
        /\ \A t \in Session \ {s} : spool'[t] = spool[t]
    <3>1. <<>> \in Seq(Record)
      OBVIOUS
    <3> QED
      BY <1>4, <1>9, <1>10, <3>1, SpoolMoves, RangeEmpty
  <2>2. landing' = landing /\ Stage(s)' = "idle" /\ Saying(s)' = {}
    BY <1>4, <1>10, <2>1 DEF Stage, Locked, Saying
  <2>3. OnRecord(s)'
    BY <1>2, <1>3, <1>6, <1>7, <2>1, OnRecordStays DEF OnRecord
  <2>4. SpanKept(s)'
    BY <1>3, <1>5, <1>6, <1>7, <1>10, <2>1, <2>2 DEF SpanKept, Saying
  <2>5. Once(s)'
    BY <1>3, <1>4, <1>6, <1>7, <2>1, <2>2 DEF Once
  <2>6. Current(s)'
    <3>1. Spooling(s) \intersect halted[s] = {}
      BY <1>5, <1>7, <1>10 DEF Current
    <3> QED
      BY <1>3, <1>4, <1>6, <1>7, <2>1, <2>2, <3>1 DEF Current, Settled
  <2>7. Typed' /\ OthersStay(s)
    BY <1>2, <1>3, <1>4, <1>9, <2>1, <2>2 DEF Typed, OthersStay
  <2> QED
    BY <1>9, <2>2, <2>3, <2>4, <2>5, <2>6, <2>7, SessionQuiet DEF Own
<1>11. CASE Said(s, records) # {}
  <2>1. /\ spool' \in [Session -> Spool] /\ Spooling(s)' = Spooling(s) \union {r}
        /\ \A t \in Session \ {s} : spool'[t] = spool[t]
    BY <1>3, <1>4, <1>9, <1>11, SpoolMoves
  <2>2. /\ landing' \in [Session -> Landing \union {Idle}]
        /\ Stage(s)' = "append" /\ \A t \in Session \ {s} : landing'[t] = landing[t]
    BY <1>4, <1>9, <1>11, PlainStage
  <2>3. Saying(s)' # {} /\ (Saying(s) \subseteq Saying(s)')
    BY <1>5, <1>11, <2>1 DEF Saying
  <2>4. OnRecord(s)'
    BY <1>2, <1>3, <1>6, <1>7, <2>1, OnRecordStays DEF OnRecord
  <2>5. SpanKept(s)'
    BY <1>3, <1>6, <1>7, <2>1, <2>2, <2>3 DEF SpanKept
  <2>6. Once(s)'
    BY <1>3, <1>4, <1>6, <1>7, <1>8, <2>1, <2>2 DEF Once
  <2>7. Current(s)'
    BY <1>3, <1>4, <1>6, <1>7, <1>8, <2>1, <2>2, <2>3 DEF Current, Settled
  <2>8. Typed' /\ OthersStay(s)
    BY <1>2, <1>3, <1>4, <1>9, <2>1, <2>2 DEF Typed, OthersStay
  <2> QED
    BY <1>9, <2>2, <2>4, <2>5, <2>6, <2>7, <2>8, SessionQuiet DEF Own
<1> QED
  BY <1>10, <1>11

\* A torn append leaves the records there were.
LEMMA TearSpoolKeeps ==
    ASSUME CaptureInv, NEW s \in Session, NEW kind, NEW of, TearSpool(s, kind, of)
    PROVE  CaptureInv'
<1>1. NextRecord(s, kind, of)
  BY DEF TearSpool
<1>2. /\ fired' \in [Session -> Nat] /\ owed' \in [Session -> Owed \union {Idle}]
      /\ fired'[s] = fired[s] + 1 /\ fired'[s] <= MaxEvents[s] /\ owed'[s] = Idle
      /\ fired[s] \in Nat
      /\ \A t \in Session \ {s} : fired'[t] = fired[t] /\ owed'[t] = owed[t]
  BY <1>1, RecordSent
<1>3. PICK r \in Record : FreshRecord(s, r)
  BY <1>1, RecordSent
<1>4. /\ spool' = [spool EXCEPT ![s].torn = TRUE]
      /\ UNCHANGED <<landing, log, docs, baton, seq, pickup, eraser, told, erased, halted>>
  BY DEF TearSpool, scope, history
<1>5. Typed /\ seq' \in Nat /\ seq <= seq' /\ baton' = baton /\ pickup' = pickup
  BY <1>4, SeqStays DEF CaptureInv
<1>6. /\ spool' \in [Session -> Spool] /\ Spooling(s)' = Spooling(s)
      /\ \A t \in Session \ {s} : spool'[t] = spool[t]
  BY <1>4, <1>5, SpoolMoves, SpoolTyped DEF Spooling
<1>7. Stage(s)' = Stage(s) /\ Rows(s)' = Rows(s) /\ Saying(s)' = Saying(s)
  BY <1>4, <1>6 DEF Stage, Locked, Rows, Saying
<1>8. OnRecord(s) /\ SpanKept(s) /\ Once(s) /\ Current(s)
  BY DEF CaptureInv, Own
<1>9. OnRecord(s)'
  BY <1>2, <1>3, <1>4, <1>6, <1>7, <1>8, OnRecordStays DEF OnRecord
<1>10. SpanKept(s)' /\ Once(s)' /\ Current(s)'
  BY <1>4, <1>6, <1>7, <1>8 DEF SpanKept, Once, Current, Settled
<1>11. Typed' /\ OthersStay(s)
  BY <1>2, <1>4, <1>5, <1>6 DEF Typed, OthersStay
<1> QED
  BY <1>4, <1>5, <1>9, <1>10, <1>11, SessionQuiet DEF Own

-----------------------------------------------------------------------------
(* Landings.                                                               *)

\* The log with one more row.
LEMMA RowWritten ==
    ASSUME Typed, NEW s \in Session, Once(s), Readable(s),
           NEW said \in SUBSET Record, NEW whole \in BOOLEAN, NEW ended \in BOOLEAN,
           log' = [log EXCEPT ![s] = WithRow(s, said, whole, ended)]
    PROVE  /\ log' \in [Session -> Log]
           /\ Len(log'[s].rows) = Len(log[s].rows) + 1 /\ Len(log[s].rows) \in Nat
           /\ DOMAIN log[s].rows = 1..Len(log[s].rows)
           /\ DOMAIN log'[s].rows = 1..(Len(log[s].rows) + 1)
           /\ log'[s].rows[Len(log[s].rows) + 1] = said
           /\ \A i \in 1..Len(log[s].rows) : log'[s].rows[i] = log[s].rows[i]
           /\ Rows(s)' = Rows(s) \union said
           /\ log'[s].good <= Len(log'[s].rows) /\ log'[s].rows # <<>>
           /\ \A t \in Session \ {s} : log'[t] = log[t]
<1> DEFINE rows == log[s].rows
           good == log[s].good
           x == WithRow(s, said, whole, ended)
<1>1. rows \in Seq(SUBSET Record) /\ good = Len(rows) /\ Len(rows) \in Nat
      /\ (~log[s].ended => rows # <<>>) /\ good \in Nat
  BY LogTyped DEF Readable, Once
<1>2. x.rows = Append(rows, said) /\ x.ended = ended
      /\ x.good = (IF ~log[s].ended THEN good - 1 ELSE IF whole THEN good + 1 ELSE good)
      /\ x = [rows |-> x.rows, good |-> x.good, ended |-> x.ended]
  BY DEF WithRow
<1> HIDE DEF x
<1>3. x.good \in Nat /\ x.good <= Len(rows) + 1
  <2>1. rows # <<>> => Len(rows) > 0
    BY <1>1
  <2> QED
    BY <1>1, <1>2, <2>1
<1>4. /\ x.rows \in Seq(SUBSET Record) /\ Range(x.rows) = Range(rows) \union {said}
      /\ x.rows # <<>>
  <2>1. PICK q \in Seq(SUBSET Record) : q = rows
    BY <1>1
  <2>2. /\ Append(q, said) \in Seq(SUBSET Record) /\ Append(q, said) # <<>>
        /\ Range(Append(q, said)) = Range(q) \union {said}
    BY RangeAppend
  <2> QED
    BY <1>2, <2>1, <2>2
<1>5. /\ Len(x.rows) = Len(rows) + 1 /\ x.rows[Len(rows) + 1] = said
      /\ DOMAIN rows = 1..Len(rows) /\ DOMAIN x.rows = 1..(Len(rows) + 1)
      /\ \A i \in 1..Len(rows) : x.rows[i] = rows[i]
  BY <1>1, <1>2
<1>6. x \in Log
  <2>1. x.rows \in Seq(SUBSET Record) /\ x.good \in Nat /\ x.ended \in BOOLEAN
    BY <1>2, <1>3, <1>4
  <2> QED
    BY <1>2, <2>1 DEF Log
<1>7. log' \in [Session -> Log] /\ log'[s] = x /\ \A t \in Session \ {s} : log'[t] = log[t]
  BY <1>6 DEF Typed, x
<1>8. Rows(s)' = Rows(s) \union said
  BY <1>4, <1>7 DEF Rows
<1> QED
  BY <1>1, <1>3, <1>4, <1>5, <1>7, <1>8

LEMMA AppendTurnKeeps ==
    ASSUME CaptureInv, NEW s \in Session, AppendTurn(s)
    PROVE  CaptureInv'
<1>1. Typed /\ OnRecord(s) /\ SpanKept(s) /\ Once(s) /\ Current(s)
  BY DEF CaptureInv, Own
<1>2. Stage(s) = "append"
  BY <1>1, Stages DEF AppendTurn
<1>3. Saying(s) \in SUBSET Record /\ Saying(s) \subseteq Spooling(s)
      /\ Said(s, spool[s].records) = Saying(s)
  BY <1>1, SpoolTyped DEF Saying, Said, Spooling
<1>4. /\ Readable(s) /\ log' = [log EXCEPT ![s] = WithRow(s, Saying(s), TRUE, TRUE)]
      /\ landing' = [landing EXCEPT ![s] =
             [stage |-> "list", turn |-> Len(log[s].rows) + 1, said |-> Saying(s)]]
      /\ UNCHANGED <<fired, owed, spool, docs, baton, seq, pickup, eraser, told, erased, halted>>
  BY <1>3 DEF AppendTurn, clients, scope, history
<1>5. /\ log' \in [Session -> Log]
      /\ Len(log'[s].rows) = Len(log[s].rows) + 1 /\ Len(log[s].rows) \in Nat
      /\ DOMAIN log[s].rows = 1..Len(log[s].rows)
      /\ DOMAIN log'[s].rows = 1..(Len(log[s].rows) + 1)
      /\ log'[s].rows[Len(log[s].rows) + 1] = Saying(s)
      /\ \A i \in 1..Len(log[s].rows) : log'[s].rows[i] = log[s].rows[i]
      /\ Rows(s)' = Rows(s) \union Saying(s)
      /\ log'[s].good <= Len(log'[s].rows) /\ log'[s].rows # <<>>
      /\ \A t \in Session \ {s} : log'[t] = log[t]
  BY <1>1, <1>3, <1>4, RowWritten
<1>6. /\ landing' \in [Session -> Landing \union {Idle}]
      /\ Stage(s)' = "list" /\ landing'[s].turn = Len(log[s].rows) + 1
      /\ landing'[s].said = Saying(s)
      /\ \A t \in Session \ {s} : landing'[t] = landing[t]
  <2>1. Len(log[s].rows) + 1 \in Nat
    BY <1>5
  <2> QED
    BY <1>1, <1>3, <1>4, <2>1, ListStage
<1>7. Spooling(s)' = Spooling(s) /\ Saying(s)' = Saying(s)
  BY <1>4 DEF Spooling, Saying
<1>8. OnRecord(s)'
  BY <1>1, <1>3, <1>4, <1>5, <1>7 DEF OnRecord
<1>9. SpanKept(s)'
  BY <1>1, <1>2, <1>4, <1>5, <1>6, <1>7 DEF SpanKept
<1>10. Once(s)'
  <2>1. \A i \in DOMAIN log[s].rows : log[s].rows[i] \subseteq Rows(s)
    BY DEF Rows, Range
  <2>2. \A i \in DOMAIN log[s].rows : log[s].rows[i] \intersect Saying(s) \subseteq halted[s]
    BY <1>1, <1>2, <1>3, <2>1 DEF Once
  <2>3. ASSUME NEW i \in DOMAIN log'[s].rows, NEW j \in DOMAIN log'[s].rows, i # j
        PROVE  log'[s].rows[i] \intersect log'[s].rows[j] \subseteq halted[s]
    <3>1. /\ i \in DOMAIN log[s].rows \/ i = Len(log[s].rows) + 1
          /\ j \in DOMAIN log[s].rows \/ j = Len(log[s].rows) + 1
      BY <1>5
    <3> QED
      BY <1>1, <1>5, <2>2, <2>3, <3>1 DEF Once
  <2> QED
    BY <1>4, <1>5, <1>6, <2>3 DEF Once
<1>11. Current(s)'
  <2>1. ~Settled(s)'
    BY <1>6 DEF Settled
  <2> QED
    BY <1>1, <1>3, <1>4, <1>5, <1>6, <1>7, <2>1 DEF Current, OnRecord
<1>12. Typed' /\ OthersStay(s)
  BY <1>1, <1>4, <1>5, <1>6 DEF Typed, OthersStay
<1> QED
  BY <1>4, <1>6, <1>8, <1>9, <1>10, <1>11, <1>12, SeqStays, SessionQuiet DEF Own

LEMMA ReadDocumentKeeps ==
    ASSUME CaptureInv, NEW s \in Session, ReadDocument(s)
    PROVE  CaptureInv'
<1>1. Typed /\ OnRecord(s) /\ SpanKept(s) /\ Once(s) /\ Current(s)
  BY DEF CaptureInv, Own
<1>2. Stage(s) = "list"
  BY <1>1, Stages DEF ReadDocument
<1>3. PICK n \in Nat, said \in SUBSET Record : landing[s].turn = n /\ landing[s].said = said
  BY <1>1, <1>2, Stages
<1>4. /\ landing' = [landing EXCEPT ![s] =
             [stage |-> "write", turn |-> n, said |-> said,
              lineage |-> docs[s].continues \union Continued(said)]]
      /\ UNCHANGED <<fired, owed, spool, log, docs, baton, seq, pickup, eraser,
                     told, erased, halted>>
  BY <1>3 DEF ReadDocument, clients, scope, history
<1>5. n = Len(log[s].rows) /\ said \subseteq told[s]
  BY <1>1, <1>2, <1>3 DEF Current
<1>6. docs[s].continues \union Continued(said) \in SUBSET Session
  BY <1>1, <1>5, DocumentTyped DEF Continued, OnRecord
<1>7. /\ landing' \in [Session -> Landing \union {Idle}]
      /\ Stage(s)' = "write" /\ landing'[s].turn = n /\ landing'[s].said = said
      /\ landing'[s].lineage = docs[s].continues \union Continued(said)
      /\ \A t \in Session \ {s} : landing'[t] = landing[t]
  BY <1>1, <1>4, <1>6, WriteStage
<1>8. Spooling(s)' = Spooling(s) /\ Saying(s)' = Saying(s) /\ Rows(s)' = Rows(s)
  BY <1>4 DEF Spooling, Saying, Rows
<1>9. OnRecord(s)' /\ SpanKept(s)' /\ Once(s)'
  BY <1>1, <1>2, <1>4, <1>7, <1>8 DEF OnRecord, SpanKept, Once
<1>10. Current(s)'
  BY <1>1, <1>4, <1>5, <1>7, <1>8 DEF Current, Settled
<1>11. Typed' /\ OthersStay(s)
  BY <1>1, <1>4, <1>7 DEF Typed, OthersStay
<1> QED
  BY <1>4, <1>7, <1>9, <1>10, <1>11, SeqStays, SessionQuiet DEF Own

LEMMA WriteDocumentKeeps ==
    ASSUME CaptureInv, NEW s \in Session, WriteDocument(s)
    PROVE  /\ CaptureInv'
           /\ docs[s].live => docs[s].continues \subseteq docs'[s].continues
           /\ \A t \in Session \ {s} : docs'[t] = docs[t]
           /\ baton' = baton
<1>1. Typed /\ OnRecord(s) /\ SpanKept(s) /\ Once(s) /\ Current(s) /\ seq \in Nat
  BY DEF CaptureInv, Own, Typed
<1>2. Stage(s) = "write"
  BY <1>1, Stages DEF WriteDocument
<1>3. PICK n \in Nat, lineage \in SUBSET Session :
         landing[s].turn = n /\ landing[s].lineage = lineage
  BY <1>1, <1>2, Stages
<1>4. PICK p \in {"note", "clear"} :
         /\ seq' = seq + 1
         /\ docs' = [docs EXCEPT ![s] =
                [live |-> TRUE, version |-> seq', turns |-> n, continues |-> lineage]]
         /\ landing' = [landing EXCEPT ![s] = [stage |-> p]]
         /\ UNCHANGED <<fired, owed, spool, log, baton, pickup, eraser, told, erased, halted>>
  <2>1. (IF Declares(landing[s].said) THEN "note" ELSE "clear") \in {"note", "clear"}
    OBVIOUS
  <2> QED
    BY <1>3, <2>1 DEF WriteDocument, clients, history
<1>5. n = Len(log[s].rows)
  BY <1>1, <1>2, <1>3 DEF Current
<1>6. /\ docs' \in [Session -> Document]
      /\ docs'[s].live = TRUE /\ docs'[s].version = seq' /\ docs'[s].turns = n
      /\ docs'[s].continues = lineage
      /\ \A t \in Session \ {s} : docs'[t] = docs[t]
  <2>1. seq' \in Nat /\ TRUE \in BOOLEAN
    BY <1>1, <1>4
  <2> QED
    BY <1>1, <1>4, <2>1, DocumentMoves
<1>7. /\ landing' \in [Session -> Landing \union {Idle}]
      /\ Stage(s)' = p /\ \A t \in Session \ {s} : landing'[t] = landing[t]
  <2>1. p \in {"append", "note", "clear"}
    OBVIOUS
  <2> QED
    BY <1>1, <1>4, <2>1, PlainStage
<1>8. Spooling(s)' = Spooling(s) /\ Saying(s)' = Saying(s) /\ Rows(s)' = Rows(s)
  BY <1>4 DEF Spooling, Saying, Rows
<1>9. OnRecord(s)' /\ SpanKept(s)' /\ Once(s)'
  BY <1>1, <1>2, <1>4, <1>7, <1>8 DEF OnRecord, SpanKept, Once
<1>10. Current(s)'
  BY <1>1, <1>4, <1>5, <1>6, <1>7, <1>8 DEF Current
<1>11. docs[s].live => docs[s].continues \subseteq lineage
  BY <1>1, <1>2, <1>3 DEF Current
<1>12. Typed' /\ OthersStay(s)
  BY <1>1, <1>4, <1>6, <1>7 DEF Typed, OthersStay
<1>13. seq' \in Nat /\ seq <= seq' /\ Stage(s)' # "link"
  BY <1>1, <1>4, <1>7
<1>14. CaptureInv'
  BY <1>4, <1>9, <1>10, <1>12, <1>13, SessionQuiet DEF Own
<1> QED
  BY <1>4, <1>6, <1>11, <1>14

LEMMA ReadNoteKeeps ==
    ASSUME CaptureInv, NEW s \in Session, ReadNote(s)
    PROVE  CaptureInv'
<1>1. Typed /\ OnRecord(s) /\ SpanKept(s) /\ Once(s) /\ Current(s) /\ seq \in Nat
  BY DEF CaptureInv, Own, Typed
<1>2. Stage(s) = "note"
  BY <1>1, Stages DEF ReadNote
<1>3. UNCHANGED <<fired, owed, spool, log, docs, baton, seq, pickup, eraser, told, erased, halted>>
  BY DEF ReadNote, clients, scope, history
<1>4. /\ landing' \in [Session -> Landing \union {Idle}]
      /\ Stage(s)' \in {"link", "clear"} /\ \A t \in Session \ {s} : landing'[t] = landing[t]
      /\ Stage(s)' = "link" => Pending /\ landing'[s].note = baton
  <2>1. CASE Pending /\ baton.link = NoSession
    <3>1. baton \in Note
      BY <1>1, <2>1 DEF Typed, Pending
    <3>2. landing' = [landing EXCEPT ![s] = [stage |-> "link", note |-> baton]]
      BY <2>1 DEF ReadNote
    <3> QED
      BY <1>1, <2>1, <3>1, <3>2, LinkStage
  <2>2. CASE ~(Pending /\ baton.link = NoSession)
    <3>1. landing' = [landing EXCEPT ![s] = [stage |-> "clear"]]
      BY <2>2 DEF ReadNote
    <3> QED
      BY <1>1, <3>1, PlainStage
  <2> QED
    BY <2>1, <2>2
<1>5. Spooling(s)' = Spooling(s) /\ Saying(s)' = Saying(s) /\ Rows(s)' = Rows(s)
  BY <1>3 DEF Spooling, Saying, Rows
<1>6. OnRecord(s)' /\ SpanKept(s)' /\ Once(s)'
  BY <1>1, <1>2, <1>3, <1>4, <1>5 DEF OnRecord, SpanKept, Once
<1>7. Current(s)'
  BY <1>1, <1>2, <1>3, <1>4, <1>5 DEF Current, Settled
<1>8. Typed' /\ OthersStay(s) /\ BatonMoves
  BY <1>1, <1>3, <1>4 DEF Typed, OthersStay, BatonMoves
<1>9. ASSUME Stage(s)' = "link"
      PROVE  landing'[s].note \in Note /\ Held(landing[s].note)'
  <2>1. Pending /\ landing'[s].note = baton
    BY <1>4, <1>9
  <2>2. baton \in Note /\ baton.pending /\ baton # Idle
    BY <1>1, <2>1 DEF Typed, Pending
  <2>3. baton.version <= seq
    BY <1>1, <2>2 DEF CaptureInv, Notes
  <2> QED
    BY <1>3, <2>1, <2>2, <2>3 DEF Held
<1>10. ASSUME Carries(s)' PROVE pickup'[s].note \in Note /\ Held(pickup[s].note)'
  <2>1. Carries(s)
    BY <1>3, <1>10 DEF Carries, Calling
  <2>2. PICK n \in Note : n = pickup[s].note
    BY <1>1, <2>1 DEF Typed, Pickup, Carries, Calling
  <2>3. Held(n)
    BY <2>1, <2>2 DEF CaptureInv, Notes
  <2>4. Held(n)'
    BY <1>1, <1>8, <2>3, HeldStays
  <2> QED
    BY <1>3, <2>2, <2>4 DEF Held
<1> QED
  BY <1>6, <1>7, <1>8, <1>9, <1>10, SessionKeeps DEF Own

\* A note that was read and is still the newest is the note on file.
LEMMA NewestHeld ==
    ASSUME NEW n \in Note, Held(n), Newest(n)
    PROVE  baton = n /\ baton # Idle /\ baton.pending
BY DEF Held, Newest

\* A session that carries a note keeps it through a step of its landing.
LEMMA CarriedStays ==
    ASSUME CaptureInv, NEW s \in Session, BatonMoves, pickup' = pickup, Carries(s)'
    PROVE  pickup'[s].note \in Note /\ Held(pickup[s].note)'
<1>1. Carries(s) /\ Typed
  BY DEF Carries, Calling, CaptureInv
<1>2. PICK n \in Note : n = pickup[s].note
  BY <1>1 DEF Typed, Pickup, Carries, Calling
<1>3. Held(n)
  BY <1>1, <1>2 DEF CaptureInv, Notes
<1>4. Held(n)'
  BY <1>1, <1>3, HeldStays
<1> QED
  BY <1>2, <1>4 DEF Held

\* What a note becomes when it is linked and when it is marked.
LEMMA NoteLinked ==
    ASSUME NEW n \in Note, NEW v \in Nat, NEW s \in Session
    PROVE  /\ [n EXCEPT !.version = v, !.link = s] \in Note
           /\ [n EXCEPT !.version = v, !.link = s].version = v
           /\ [n EXCEPT !.version = v, !.link = s].written = n.written
           /\ n.written \in Nat
BY DEF Note

LEMMA NoteMarked ==
    ASSUME NEW n \in Note, NEW v \in Nat, NEW s \in Session, NEW t \in Session
    PROVE  LET x == [n EXCEPT !.version = v, !.link = t, !.pending = FALSE, !.by = s]
           IN  x \in Note /\ x.version = v /\ x.written = n.written /\ n.written \in Nat
BY DEF Note

LEMMA LinkNoteKeeps ==
    ASSUME CaptureInv, NEW s \in Session, LinkNote(s)
    PROVE  /\ CaptureInv' /\ docs' = docs
           /\ baton' # baton => baton.pending
<1>1. Typed /\ OnRecord(s) /\ SpanKept(s) /\ Once(s) /\ Current(s) /\ seq \in Nat
  BY DEF CaptureInv, Own, Typed
<1>2. Stage(s) = "link"
  BY <1>1, Stages DEF LinkNote
<1>3. PICK n \in Note : n = landing[s].note
  BY <1>1, <1>2, Stages
<1>4. Held(n)
  BY <1>2, <1>3 DEF CaptureInv, Notes
<1>5. /\ UNCHANGED <<fired, owed, spool, log, docs, pickup, eraser, told, erased, halted>>
      /\ landing' = [landing EXCEPT ![s] = [stage |-> "clear"]]
      /\ \/ Newest(n) /\ seq' = seq + 1 /\ baton' = [n EXCEPT !.version = seq', !.link = s]
         \/ baton' = baton /\ seq' = seq
  BY <1>3 DEF LinkNote, clients, history
<1>6. /\ landing' \in [Session -> Landing \union {Idle}]
      /\ Stage(s)' = "clear" /\ \A t \in Session \ {s} : landing'[t] = landing[t]
  BY <1>1, <1>5, PlainStage
<1>7. BatonMoves /\ (baton' # baton => baton.pending) /\ baton' \in Note \union {Idle}
  <2>1. CASE Newest(n) /\ seq' = seq + 1 /\ baton' = [n EXCEPT !.version = seq', !.link = s]
    <3>1. baton = n /\ baton # Idle /\ baton.pending
      BY <1>4, <2>1, NewestHeld
    <3>2. /\ baton' \in Note /\ baton'.version = seq' /\ baton'.written = n.written
          /\ n.written \in Nat
      <4>1. PICK v \in Nat : v = seq'
        BY <1>1, <2>1
      <4>2. baton' = [n EXCEPT !.version = v, !.link = s]
        BY <2>1, <4>1
      <4>3. /\ [n EXCEPT !.version = v, !.link = s] \in Note
            /\ [n EXCEPT !.version = v, !.link = s].version = v
            /\ [n EXCEPT !.version = v, !.link = s].written = n.written
            /\ n.written \in Nat
        BY NoteLinked
      <4> QED
        BY <4>1, <4>2, <4>3, Zenon
    <3>3. n.written <= seq
      BY <3>1 DEF CaptureInv, Notes
    <3>4. baton'.written <= seq'
      BY <1>1, <2>1, <3>2, <3>3
    <3> QED
      BY <2>1, <3>1, <3>2, <3>4 DEF BatonMoves
  <2>2. CASE baton' = baton /\ seq' = seq
    BY <1>1, <2>2 DEF BatonMoves, Typed
  <2> QED
    BY <1>5, <2>1, <2>2
<1>8. Spooling(s)' = Spooling(s) /\ Saying(s)' = Saying(s) /\ Rows(s)' = Rows(s)
  BY <1>5 DEF Spooling, Saying, Rows
<1>9. OnRecord(s)' /\ SpanKept(s)' /\ Once(s)'
  BY <1>1, <1>2, <1>5, <1>6, <1>8 DEF OnRecord, SpanKept, Once
<1>10. seq' \in Nat /\ seq <= seq'
  BY <1>1, <1>7 DEF BatonMoves
<1>11. Current(s)'
  <2>1. docs[s].version \in Nat
    BY <1>1, DocumentTyped
  <2> QED
    BY <1>1, <1>2, <1>5, <1>6, <1>8, <1>10, <2>1 DEF Current, Settled
<1>12. Typed' /\ OthersStay(s)
  BY <1>1, <1>5, <1>6, <1>7, <1>10 DEF Typed, OthersStay
<1>13. Carries(s)' => pickup'[s].note \in Note /\ Held(pickup[s].note)'
  BY <1>5, <1>7, CarriedStays
<1>14. Own(s)'
  BY <1>9, <1>11 DEF Own
<1>15. Stage(s)' # "link"
  BY <1>6
<1>16. CaptureInv'
  BY <1>7, <1>12, <1>13, <1>14, <1>15, SessionKeeps
<1> QED
  BY <1>5, <1>7, <1>16

LEMMA ClearKeeps ==
    ASSUME CaptureInv, NEW s \in Session, Clear(s)
    PROVE  CaptureInv'
<1>1. Typed /\ OnRecord(s) /\ SpanKept(s) /\ Once(s) /\ Current(s)
  BY DEF CaptureInv, Own
<1>2. Stage(s) = "clear"
  BY <1>1, Stages DEF Clear
<1>3. /\ spool' = [spool EXCEPT ![s] = EmptySpool]
      /\ landing' = [landing EXCEPT ![s] = Idle]
      /\ UNCHANGED <<fired, owed, log, docs, baton, seq, pickup, eraser, told, erased, halted>>
  BY DEF Clear, clients, scope, history
<1>4. /\ landing' \in [Session -> Landing \union {Idle}]
      /\ Stage(s)' = "idle" /\ \A t \in Session \ {s} : landing'[t] = landing[t]
  BY <1>1, <1>3, IdleStage
<1>5. /\ spool' \in [Session -> Spool] /\ Spooling(s)' = {}
      /\ \A t \in Session \ {s} : spool'[t] = spool[t]
  <2>1. <<>> \in Seq(Record)
    OBVIOUS
  <2> QED
    BY <1>1, <1>3, <2>1, SpoolMoves, RangeEmpty
<1>6. Saying(s)' = {} /\ Rows(s)' = Rows(s)
  BY <1>3, <1>5 DEF Saying, Rows
<1>7. OnRecord(s)'
  BY <1>1, <1>3, <1>5, <1>6 DEF OnRecord
<1>8. SpanKept(s)'
  BY <1>1, <1>2, <1>3, <1>4, <1>5, <1>6 DEF SpanKept, Saying
<1>9. Once(s)'
  BY <1>1, <1>3, <1>4, <1>5, <1>6 DEF Once
<1>10. Current(s)'
  <2>1. Settled(s)
    BY <1>2 DEF Settled
  <2> QED
    BY <1>1, <1>3, <1>4, <1>5, <1>6, <2>1 DEF Current
<1>11. Typed' /\ OthersStay(s)
  BY <1>1, <1>3, <1>4, <1>5 DEF Typed, OthersStay
<1>12. Own(s)' /\ Stage(s)' # "link"
  BY <1>4, <1>7, <1>8, <1>9, <1>10 DEF Own
<1> QED
  BY <1>3, <1>11, <1>12, SeqStays, SessionQuiet

\* A landing that ends early: before its turn it leaves things as they were, past
\* it the spool's records are those of a landing left half-way.
LEMMA EndKeeps ==
    ASSUME CaptureInv, NEW s \in Session, Ends(s), Stage(s) # "idle", log' = log,
           (Stage(s) = "append" /\ halted' = halted) \/ LeavesTurn(s)
    PROVE  CaptureInv'
<1>1. Typed /\ OnRecord(s) /\ SpanKept(s) /\ Once(s) /\ Current(s)
  BY DEF CaptureInv, Own
<1>2. /\ landing' = [landing EXCEPT ![s] = Idle]
      /\ UNCHANGED <<fired, owed, spool, docs, baton, seq, pickup, eraser, told, erased>>
  BY DEF Ends, clients, scope
<1>3. /\ landing' \in [Session -> Landing \union {Idle}]
      /\ Stage(s)' = "idle" /\ \A t \in Session \ {s} : landing'[t] = landing[t]
  BY <1>1, <1>2, IdleStage
<1>4. Spooling(s)' = Spooling(s) /\ Saying(s)' = Saying(s) /\ Rows(s)' = Rows(s)
      /\ Spooling(s) \in SUBSET Record
  BY <1>1, <1>2, SpoolTyped DEF Spooling, Saying, Rows
<1>5. /\ halted' \in [Session -> SUBSET Record]
      /\ \A t \in Session \ {s} : halted'[t] = halted[t]
      /\ \/ halted'[s] = halted[s] /\ Stage(s) = "append"
         \/ halted'[s] = halted[s] \union Spooling(s)
  BY <1>1, <1>4 DEF LeavesTurn, Typed, Spooling
<1>6. OnRecord(s)'
  BY <1>1, <1>2, <1>4, <1>5 DEF OnRecord
<1>7. SpanKept(s)'
  BY <1>1, <1>2, <1>3, <1>4 DEF SpanKept
<1>8. Once(s)'
  BY <1>1, <1>2, <1>3, <1>4, <1>5 DEF Once
<1>9. Current(s)'
  <2>1. Saying(s) # {} /\ Saying(s) \subseteq Spooling(s)
    BY <1>1 DEF SpanKept, Saying
  <2>2. Settled(s)' => Stage(s) = "append" /\ Settled(s)
    BY <1>2, <1>3, <1>4, <1>5, <2>1 DEF Settled
  <2> QED
    BY <1>1, <1>2, <1>3, <1>4, <2>1, <2>2 DEF Current
<1>10. Typed' /\ OthersStay(s)
  BY <1>1, <1>2, <1>3, <1>5 DEF Typed, OthersStay
<1>11. Own(s)' /\ Stage(s)' # "link"
  BY <1>3, <1>6, <1>7, <1>8, <1>9 DEF Own
<1> QED
  BY <1>2, <1>10, <1>11, SeqStays, SessionQuiet

LEMMA RefuseKeeps ==
    ASSUME CaptureInv, NEW s \in Session, Refuse(s)
    PROVE  CaptureInv'
<1>1. (Stage(s) = "append" /\ halted' = halted) \/ (Stage(s) = "write" /\ LeavesTurn(s))
  <2>1. (At(s, "append") <=> Stage(s) = "append") /\ (At(s, "write") <=> Stage(s) = "write")
    BY Stages DEF CaptureInv
  <2> QED
    BY <2>1 DEF Refuse
<1>2. Ends(s) /\ log' = log
  BY DEF Refuse
<1> QED
  BY <1>1, <1>2, EndKeeps

LEMMA DieKeeps ==
    ASSUME CaptureInv, NEW s \in Session, Die(s)
    PROVE  CaptureInv'
<1>1. Stage(s) # "idle"
  BY Stages DEF Die, CaptureInv
<1>2. (Stage(s) = "append" /\ halted' = halted) \/ LeavesTurn(s)
  BY Stages DEF Die, CaptureInv
<1>3. Ends(s) /\ log' = log
  BY DEF Die
<1> QED
  BY <1>1, <1>2, <1>3, EndKeeps

LEMMA TearTurnKeeps ==
    ASSUME CaptureInv, NEW s \in Session, NEW whole \in BOOLEAN, TearTurn(s, whole)
    PROVE  CaptureInv'
<1>1. Typed /\ OnRecord(s) /\ SpanKept(s) /\ Once(s) /\ Current(s)
  BY DEF CaptureInv, Own
<1>2. Stage(s) = "append"
  BY <1>1, Stages DEF TearTurn
<1>3. Saying(s) \in SUBSET Record /\ Saying(s) \subseteq Spooling(s)
      /\ Said(s, spool[s].records) = Saying(s) /\ Spooling(s) \in SUBSET Record
  BY <1>1, SpoolTyped DEF Saying, Said, Spooling
<1>4. PICK said \in SUBSET Saying(s) :
         log' = [log EXCEPT ![s] = WithRow(s, said, whole, FALSE)]
  <2>1. (IF whole THEN Said(s, spool[s].records) ELSE {}) \in SUBSET Saying(s)
    BY <1>3
  <2> QED
    BY <2>1 DEF TearTurn
<1>5. /\ landing' = [landing EXCEPT ![s] = Idle] /\ Readable(s)
      /\ UNCHANGED <<fired, owed, spool, docs, baton, seq, pickup, eraser, told, erased>>
  BY DEF TearTurn, Ends, clients, scope
<1>6. /\ log' \in [Session -> Log]
      /\ Len(log'[s].rows) = Len(log[s].rows) + 1 /\ Len(log[s].rows) \in Nat
      /\ DOMAIN log[s].rows = 1..Len(log[s].rows)
      /\ DOMAIN log'[s].rows = 1..(Len(log[s].rows) + 1)
      /\ log'[s].rows[Len(log[s].rows) + 1] = said
      /\ \A i \in 1..Len(log[s].rows) : log'[s].rows[i] = log[s].rows[i]
      /\ Rows(s)' = Rows(s) \union said
      /\ log'[s].good <= Len(log'[s].rows) /\ log'[s].rows # <<>>
      /\ \A t \in Session \ {s} : log'[t] = log[t]
  <2>1. said \in SUBSET Record /\ FALSE \in BOOLEAN
    BY <1>3
  <2> QED
    BY <1>1, <1>4, <1>5, <2>1, RowWritten
<1>7. /\ landing' \in [Session -> Landing \union {Idle}]
      /\ Stage(s)' = "idle" /\ \A t \in Session \ {s} : landing'[t] = landing[t]
  BY <1>1, <1>5, IdleStage
<1>8. Spooling(s)' = Spooling(s) /\ Saying(s)' = Saying(s)
  BY <1>5 DEF Spooling, Saying
<1>9. /\ halted' \in [Session -> SUBSET Record] /\ halted'[s] = halted[s] \union Spooling(s)
      /\ \A t \in Session \ {s} : halted'[t] = halted[t]
  BY <1>1, <1>3 DEF TearTurn, LeavesTurn, Typed, Spooling
<1>10. OnRecord(s)'
  BY <1>1, <1>3, <1>5, <1>6, <1>8, <1>9 DEF OnRecord
<1>11. SpanKept(s)'
  BY <1>1, <1>5, <1>6, <1>7, <1>8 DEF SpanKept
<1>12. Once(s)'
  <2>1. ASSUME NEW i \in DOMAIN log'[s].rows, NEW j \in DOMAIN log'[s].rows, i # j
        PROVE  log'[s].rows[i] \intersect log'[s].rows[j] \subseteq halted'[s]
    <3>1. /\ i \in DOMAIN log[s].rows \/ i = Len(log[s].rows) + 1
          /\ j \in DOMAIN log[s].rows \/ j = Len(log[s].rows) + 1
      BY <1>6
    <3>2. said \subseteq halted'[s]
      BY <1>3, <1>9
    <3> QED
      BY <1>1, <1>6, <1>9, <2>1, <3>1, <3>2 DEF Once
  <2> QED
    BY <1>6, <1>7, <1>8, <1>9, <2>1 DEF Once
<1>13. Current(s)'
  <2>1. Saying(s) # {}
    BY <1>1, <1>2 DEF SpanKept
  <2>2. ~Settled(s)'
    BY <1>3, <1>7, <1>8, <1>9, <2>1 DEF Settled
  <2> QED
    BY <1>1, <1>5, <1>7, <1>8, <2>1, <2>2 DEF Current
<1>14. Typed' /\ OthersStay(s)
  BY <1>1, <1>5, <1>6, <1>7, <1>9 DEF Typed, OthersStay
<1>15. Own(s)' /\ Stage(s)' # "link"
  BY <1>7, <1>10, <1>11, <1>12, <1>13 DEF Own
<1> QED
  BY <1>5, <1>14, <1>15, SeqStays, SessionQuiet

-----------------------------------------------------------------------------
(* The eraser.                                                             *)

LEMMA LogBlanked ==
    ASSUME NEW old \in Log, NEW rows \in Seq(SUBSET Record)
    PROVE  LET x == [old EXCEPT !.rows = rows, !.ended = TRUE]
           IN  x \in Log /\ x.rows = rows /\ x.good = old.good /\ x.ended = TRUE
BY DEF Log

\* The log with its first turns blanked.
LEMMA RowsBlanked ==
    ASSUME Typed, NEW s \in Session, NEW through \in DOMAIN log[s].rows,
           log' = [log EXCEPT
               ![s].rows  = [i \in DOMAIN @ |-> IF i <= through THEN {} ELSE @[i]],
               ![s].ended = TRUE]
    PROVE  /\ log' \in [Session -> Log]
           /\ Len(log'[s].rows) = Len(log[s].rows) /\ Len(log[s].rows) \in Nat
           /\ DOMAIN log'[s].rows = DOMAIN log[s].rows
           /\ \A i \in DOMAIN log[s].rows :
                 log'[s].rows[i] = IF i <= through THEN {} ELSE log[s].rows[i]
           /\ log'[s].good = log[s].good /\ log'[s].ended = TRUE
           /\ \A t \in Session \ {s} : log'[t] = log[t]
<1> DEFINE old == log[s]
           rows == [i \in DOMAIN old.rows |-> IF i <= through THEN {} ELSE old.rows[i]]
<1>1. /\ log \in [Session -> Log] /\ old \in Log /\ old.rows \in Seq(SUBSET Record)
      /\ Len(old.rows) \in Nat /\ DOMAIN old.rows = 1..Len(old.rows) /\ old.good \in Nat
  BY DEF Typed, Log
<1>2. rows \in Seq(SUBSET Record) /\ Len(rows) = Len(old.rows) /\ DOMAIN rows = DOMAIN old.rows
      /\ \A i \in DOMAIN old.rows : rows[i] = IF i <= through THEN {} ELSE old.rows[i]
  <2>1. \A i \in 1..Len(old.rows) : rows[i] \in SUBSET Record
    BY <1>1
  <2> QED
    BY <1>1, <2>1
<1>3. log' = [log EXCEPT ![s] = [old EXCEPT !.rows = rows, !.ended = TRUE]]
  OBVIOUS
<1>4. PICK l \in Log : l = old
  BY <1>1
<1> HIDE DEF rows
<1>5. PICK q \in Seq(SUBSET Record) : q = rows
  BY <1>2
<1>6. PICK x \in Log : /\ x = [l EXCEPT !.rows = q, !.ended = TRUE]
                       /\ x.rows = q /\ x.good = l.good /\ x.ended = TRUE
  <2>1. LET x == [l EXCEPT !.rows = q, !.ended = TRUE]
        IN  x \in Log /\ x.rows = q /\ x.good = l.good /\ x.ended = TRUE
    BY LogBlanked
  <2> QED
    BY <2>1, Zenon
<1>7. log' = [log EXCEPT ![s] = x]
  BY <1>3, <1>4, <1>5, <1>6, Zenon
<1>8. log' \in [Session -> Log] /\ log'[s] = x /\ \A t \in Session \ {s} : log'[t] = log[t]
  BY <1>1, <1>7
<1> QED
  BY <1>1, <1>2, <1>4, <1>5, <1>6, <1>8

LEMMA RedactKeeps ==
    ASSUME CaptureInv, NEW s \in Session, NEW all \in BOOLEAN, NEW through,
           Redact(s, all, through)
    PROVE  CaptureInv'
<1>1. Typed /\ OnRecord(s) /\ SpanKept(s) /\ Once(s) /\ Current(s)
  BY DEF CaptureInv, Own
<1>2. /\ through \in DOMAIN log[s].rows
      /\ log' = [log EXCEPT
             ![s].rows  = [i \in DOMAIN @ |-> IF i <= through THEN {} ELSE @[i]],
             ![s].ended = TRUE]
      /\ erased' = [erased EXCEPT ![s] = @ \union UNION {log[s].rows[i] : i \in 1..through}]
      /\ UNCHANGED <<fired, owed, spool, landing, docs, baton, seq, pickup, told, halted>>
  BY DEF Redact, clients, scope
<1>3. eraser' \subseteq Session
  BY <1>1 DEF Redact, Typed
<1>4. /\ log' \in [Session -> Log]
      /\ Len(log'[s].rows) = Len(log[s].rows) /\ Len(log[s].rows) \in Nat
      /\ DOMAIN log'[s].rows = DOMAIN log[s].rows
      /\ \A i \in DOMAIN log[s].rows :
            log'[s].rows[i] = IF i <= through THEN {} ELSE log[s].rows[i]
      /\ log'[s].good = log[s].good /\ log'[s].ended = TRUE
      /\ \A t \in Session \ {s} : log'[t] = log[t]
  BY <1>1, <1>2, RowsBlanked
<1>5. /\ DOMAIN log[s].rows = 1..Len(log[s].rows)
      /\ \A i \in DOMAIN log[s].rows : log[s].rows[i] \in SUBSET Record
  BY <1>1, LogTyped
<1>6. PICK gone \in SUBSET Record :
         /\ gone = UNION {log[s].rows[i] : i \in 1..through}
         /\ erased' = [erased EXCEPT ![s] = @ \union gone]
  <2>1. UNION {log[s].rows[i] : i \in 1..through} \in SUBSET Record
    BY <1>2, <1>4, <1>5
  <2> QED
    BY <1>2, <2>1
<1>7. /\ erased' \in [Session -> SUBSET Record] /\ erased'[s] = erased[s] \union gone
      /\ \A t \in Session \ {s} : erased'[t] = erased[t]
  BY <1>1, <1>6 DEF Typed
<1>8. Rows(s)' \subseteq Rows(s) /\ Rows(s) \subseteq Rows(s)' \union gone
  <2>1. \A i \in DOMAIN log[s].rows : log[s].rows[i] \subseteq Rows(s)
    BY DEF Rows, Range
  <2>2. Rows(s)' \subseteq Rows(s)
    <3>1. ASSUME NEW x \in Rows(s)' PROVE x \in Rows(s)
      <4>1. PICK i \in DOMAIN log'[s].rows : x \in log'[s].rows[i]
        BY <3>1 DEF Rows, Range
      <4> QED
        BY <1>4, <2>1, <4>1
    <3> QED
      BY <3>1
  <2>3. ASSUME NEW x \in Rows(s) PROVE x \in Rows(s)' \union gone
    <3>1. PICK i \in DOMAIN log[s].rows : x \in log[s].rows[i]
      BY <2>3 DEF Rows, Range
    <3>2. CASE i <= through
      <4>1. i \in 1..through
        BY <1>2, <1>4, <1>5, <3>2
      <4> QED
        BY <1>6, <3>1, <4>1
    <3>3. CASE ~(i <= through)
      <4>1. i \in DOMAIN log'[s].rows /\ x \in log'[s].rows[i]
        BY <1>4, <3>1, <3>3
      <4> QED
        BY <4>1 DEF Rows, Range
    <3> QED
      BY <3>2, <3>3
  <2> QED
    BY <2>2, <2>3
<1>9. Stage(s)' = Stage(s) /\ Spooling(s)' = Spooling(s) /\ Saying(s)' = Saying(s)
      /\ landing'[s] = landing[s]
  BY <1>2 DEF Stage, Locked, Spooling, Saying
<1>10. OnRecord(s)'
  BY <1>1, <1>2, <1>8, <1>9 DEF OnRecord
<1>11. SpanKept(s)'
  BY <1>1, <1>2, <1>7, <1>8, <1>9 DEF SpanKept
<1>12. Once(s)'
  <2>1. \A i, j \in DOMAIN log'[s].rows :
           i # j => log'[s].rows[i] \intersect log'[s].rows[j] \subseteq halted[s]
    BY <1>1, <1>4 DEF Once
  <2> QED
    BY <1>1, <1>2, <1>4, <1>8, <1>9, <2>1 DEF Once
<1>13. Current(s)'
  BY <1>1, <1>2, <1>4, <1>9 DEF Current, Settled
<1>14. Typed' /\ OthersStay(s)
  BY <1>1, <1>2, <1>3, <1>4, <1>7 DEF Typed, OthersStay
<1>15. Own(s)'
  BY <1>10, <1>11, <1>12, <1>13 DEF Own
<1> QED
  BY <1>2, <1>9, <1>14, <1>15, SeqStays, SessionQuiet

LEMMA RedactDocumentKeeps ==
    ASSUME CaptureInv, NEW s \in Session, RedactDocument(s)
    PROVE  /\ CaptureInv' /\ docs'[s].live = FALSE
           /\ \A t \in Session \ {s} : docs'[t] = docs[t]
           /\ baton' = baton
<1>1. Typed /\ OnRecord(s) /\ SpanKept(s) /\ Once(s) /\ Current(s)
  BY DEF CaptureInv, Own
<1>2. PICK v \in Nat : v = docs[s].version
  BY <1>1, DocumentTyped
<1>3. PICK d \in Document :
         d = [NoDocument EXCEPT !.version = v] /\ d.live = FALSE /\ d.version = v
  <2>1. LET d == [NoDocument EXCEPT !.version = v]
        IN  d \in Document /\ d.live = FALSE /\ d.version = v
    BY DEF NoDocument, Document
  <2> QED
    BY <2>1, Zenon
<1>4. /\ docs' \in [Session -> Document]
      /\ docs'[s].live = FALSE /\ docs'[s].version = v
      /\ \A t \in Session \ {s} : docs'[t] = docs[t]
      /\ eraser' = eraser \ {s}
      /\ UNCHANGED <<fired, owed, spool, landing, log, baton, seq, pickup, told, erased, halted>>
  <2>1. docs' = [docs EXCEPT ![s] = d]
    BY <1>2, <1>3 DEF RedactDocument
  <2>2. docs \in [Session -> Document]
    BY <1>1 DEF Typed
  <2> QED
    BY <1>3, <2>1, <2>2 DEF RedactDocument, clients, history
<1>5. Stage(s)' = Stage(s) /\ Spooling(s)' = Spooling(s) /\ Saying(s)' = Saying(s)
      /\ Rows(s)' = Rows(s) /\ landing'[s] = landing[s]
  BY <1>4 DEF Stage, Locked, Spooling, Saying, Rows
<1>6. OnRecord(s)' /\ SpanKept(s)' /\ Once(s)'
  BY <1>1, <1>4, <1>5 DEF OnRecord, SpanKept, Once
<1>7. Current(s)'
  BY <1>1, <1>2, <1>4, <1>5 DEF Current
<1>8. Typed' /\ OthersStay(s)
  BY <1>1, <1>4 DEF Typed, OthersStay
<1>9. Own(s)'
  BY <1>6, <1>7 DEF Own
<1>10. CaptureInv'
  BY <1>4, <1>5, <1>8, <1>9, SeqStays, SessionQuiet
<1> QED
  BY <1>4, <1>10

-----------------------------------------------------------------------------
(* The tools.                                                              *)

\* A step that leaves a session's record, landing, log and document as they are
\* leaves what they say of each other, whatever the tool owes the client.
LEMMA OwnStays ==
    ASSUME CaptureInv, NEW s \in Session, seq' \in Nat, seq <= seq',
           UNCHANGED <<fired, spool, landing, log, docs, told, erased, halted>>,
           owed'[s] = owed[s] \/ owed'[s] = Idle \/ owed'[s].kind # "continue"
               \/ owed'[s].of \in Session
    PROVE  Own(s)'
<1>1. OnRecord(s) /\ SpanKept(s) /\ Once(s) /\ Current(s) /\ Typed
  BY DEF CaptureInv, Own
<1>2. Stage(s)' = Stage(s) /\ Spooling(s)' = Spooling(s) /\ Saying(s)' = Saying(s)
      /\ Rows(s)' = Rows(s) /\ landing'[s] = landing[s]
  BY DEF Stage, Locked, Spooling, Saying, Rows
<1>3. OnRecord(s)'
  BY <1>1, <1>2 DEF OnRecord
<1>4. SpanKept(s)' /\ Once(s)'
  BY <1>1, <1>2 DEF SpanKept, Once
<1>5. Current(s)'
  <2>1. docs[s].version \in Nat /\ seq \in Nat
    BY <1>1, DocumentTyped DEF Typed
  <2> QED
    BY <1>1, <1>2, <2>1 DEF Current, Settled
<1> QED
  BY <1>3, <1>4, <1>5 DEF Own

\* Nor does it change the note of a landing.
LEMMA LandingKeepsNote ==
    ASSUME CaptureInv, NEW s \in Session, BatonMoves, landing' = landing, Stage(s)' = "link"
    PROVE  landing'[s].note \in Note /\ Held(landing[s].note)'
<1>1. Stage(s) = "link" /\ Typed
  BY DEF Stage, Locked, CaptureInv
<1>2. PICK n \in Note : n = landing[s].note
  BY <1>1, Stages
<1>3. Held(n)
  BY <1>1, <1>2 DEF CaptureInv, Notes
<1>4. Held(n)'
  BY <1>1, <1>3, HeldStays
<1> QED
  BY <1>2, <1>4 DEF Held

LEMMA HandoffKeeps ==
    ASSUME CaptureInv, NEW s \in Session, Handoff(s)
    PROVE  /\ CaptureInv' /\ docs' = docs
           /\ baton'.written = seq + 1
<1>1. Typed /\ seq \in Nat
  BY DEF CaptureInv, Typed
<1>2. /\ seq' = seq + 1
      /\ baton' = [version |-> seq', written |-> seq', writer |-> s,
                   link |-> NoSession, pending |-> TRUE, by |-> NoSession]
      /\ owed' = [owed EXCEPT ![s] = [kind |-> "handoff", of |-> NoSession]]
      /\ UNCHANGED <<fired, spool, landing, log, docs, pickup, eraser, told, erased, halted>>
  BY DEF Handoff, history
<1>3. baton' \in Note /\ baton'.version = seq' /\ baton'.written = seq'
  BY <1>1, <1>2 DEF Note
<1>4. BatonMoves /\ seq' \in Nat /\ seq <= seq'
  BY <1>1, <1>2, <1>3 DEF BatonMoves
<1>5. /\ owed' \in [Session -> Owed \union {Idle}] /\ owed'[s].kind = "handoff"
      /\ \A t \in Session \ {s} : owed'[t] = owed[t]
  BY <1>1, <1>2 DEF Typed, Owed
<1>6. Own(s)'
  BY <1>2, <1>4, <1>5, OwnStays
<1>7. Typed' /\ OthersStay(s)
  BY <1>1, <1>2, <1>3, <1>4, <1>5 DEF Typed, OthersStay
<1>8. Carries(s)' => pickup'[s].note \in Note /\ Held(pickup[s].note)'
  BY <1>2, <1>4, CarriedStays
<1>9. Stage(s)' = "link" => landing'[s].note \in Note /\ Held(landing[s].note)'
  BY <1>2, <1>4, LandingKeepsNote
<1>10. CaptureInv'
  BY <1>4, <1>6, <1>7, <1>8, <1>9, SessionKeeps
<1> QED
  BY <1>2, <1>3, <1>10

\* A continue_session call that has read what it delivers.
LEMMA PickupMoves ==
    ASSUME Typed, NEW s \in Session, NEW target \in Session, NEW note \in Note \union {Idle},
           NEW retried \in BOOLEAN,
           pickup' = [pickup EXCEPT ![s] =
               [target |-> target, note |-> note, retried |-> retried]]
    PROVE  /\ pickup' \in [Session -> Pickup \union {Idle}]
           /\ pickup'[s] # Idle /\ pickup'[s].note = note
           /\ \A t \in Session \ {s} : pickup'[t] = pickup[t]
<1> DEFINE x == [target |-> target, note |-> note, retried |-> retried]
<1>1. x \in Pickup /\ x.note = note
  BY DEF Pickup
<1> HIDE DEF x
<1>2. x # Idle
  BY <1>1, IdleAssumption
<1>3. pickup'[s] = x /\ pickup' = [pickup EXCEPT ![s] = x]
  BY DEF Typed, x
<1> QED
  BY <1>1, <1>2, <1>3 DEF Typed

LEMMA TargetTyped == ASSUME CaptureInv PROVE DefaultTarget \subseteq Session
<1>1. baton \in Note \union {Idle}
  BY DEF CaptureInv, Typed
<1>2. CASE Pending /\ baton.link # NoSession
  BY <1>1, <1>2 DEF DefaultTarget, Pending, Note
<1>3. CASE ~(Pending /\ baton.link # NoSession)
  BY <1>3 DEF DefaultTarget, Listed
<1> QED
  BY <1>2, <1>3

\* The note on file, while it is pending, is a note that a session may hold.
LEMMA PendingHeld ==
    ASSUME CaptureInv, Pending, baton' = baton, seq' = seq
    PROVE  baton \in Note /\ Held(baton)'
<1>1. baton \in Note /\ baton # Idle /\ baton.pending
  BY DEF CaptureInv, Typed, Pending
<1>2. baton.version <= seq
  BY <1>1 DEF CaptureInv, Notes
<1> QED
  BY <1>1, <1>2 DEF Held

\* What a call does, when it leaves everything but its own pickup, the note and
\* what the tool owes.
LEMMA CallKeeps ==
    ASSUME CaptureInv, NEW s \in Session, BatonMoves, baton' \in Note \union {Idle},
           UNCHANGED <<fired, spool, landing, log, docs, eraser, told, erased, halted>>,
           owed' \in [Session -> Owed \union {Idle}],
           \A t \in Session \ {s} : owed'[t] = owed[t],
           owed'[s] = owed[s] \/ owed'[s].of \in Session,
           pickup' \in [Session -> Pickup \union {Idle}],
           \A t \in Session \ {s} : pickup'[t] = pickup[t],
           Carries(s)' => pickup'[s].note \in Note /\ Held(pickup[s].note)'
    PROVE  CaptureInv'
<1>1. seq' \in Nat /\ seq <= seq' /\ Typed
  BY DEF BatonMoves, CaptureInv, Typed
<1>2. Own(s)'
  BY <1>1, OwnStays
<1>3. Typed' /\ OthersStay(s)
  BY <1>1 DEF Typed, OthersStay
<1>4. Stage(s)' = "link" => landing'[s].note \in Note /\ Held(landing[s].note)'
  BY LandingKeepsNote
<1> QED
  BY <1>2, <1>3, <1>4, SessionKeeps

LEMMA ContinueKeeps ==
    ASSUME CaptureInv, NEW s \in Session, NEW named \in (Session \ {s}) \union {NoSession},
           ContinueFrom(s, named)
    PROVE  CaptureInv' /\ docs' = docs /\ baton' = baton
<1>1. Typed /\ seq \in Nat
  BY DEF CaptureInv, Typed
<1>2. UNCHANGED <<fired, owed, spool, landing, log, docs, baton, seq, eraser, told, erased, halted>>
  BY DEF ContinueFrom, clients, scope, history
<1>3. PICK target \in Session, note \in {baton, Idle} :
         /\ note = IF Pending /\ (baton.link = target
                                  \/ (baton.link = NoSession /\ named = NoSession))
                   THEN baton ELSE Idle
         /\ pickup' = [pickup EXCEPT ![s] =
                [target |-> target, note |-> note, retried |-> FALSE]]
  <2>1. (IF named = NoSession THEN DefaultTarget ELSE {named}) \subseteq Session
    BY TargetTyped
  <2> QED
    BY <2>1 DEF ContinueFrom
<1>4. note = Idle \/ (note = baton /\ Pending)
  BY <1>3
<1>5. note \in Note \union {Idle}
  BY <1>1, <1>4 DEF Typed
<1>6. /\ pickup' \in [Session -> Pickup \union {Idle}]
      /\ pickup'[s] # Idle /\ pickup'[s].note = note
      /\ \A t \in Session \ {s} : pickup'[t] = pickup[t]
  <2>1. FALSE \in BOOLEAN
    OBVIOUS
  <2> QED
    BY <1>1, <1>3, <1>5, <2>1, PickupMoves
<1>7. BatonMoves /\ baton' \in Note \union {Idle}
  BY <1>1, <1>2 DEF BatonMoves, Typed
<1>8. ASSUME Carries(s)' PROVE pickup'[s].note \in Note /\ Held(pickup[s].note)'
  <2>1. pickup'[s].note = baton /\ Pending
    BY <1>4, <1>6, <1>8 DEF Carries, Calling
  <2>2. baton \in Note /\ Held(baton)'
    BY <1>2, <2>1, PendingHeld
  <2> QED
    BY <1>2, <2>1, <2>2 DEF Held
<1>9. owed' \in [Session -> Owed \union {Idle}] /\ \A t \in Session \ {s} : owed'[t] = owed[t]
  BY <1>1, <1>2 DEF Typed
<1>10. CaptureInv'
  BY <1>2, <1>6, <1>7, <1>8, <1>9, CallKeeps
<1> QED
  BY <1>2, <1>10

\* The call answers: its record is owed and it is over.
LEMMA DeliveryMoves ==
    ASSUME CaptureInv, NEW s \in Session, Calling(s), Delivers(s)
    PROVE  /\ owed' \in [Session -> Owed \union {Idle}] /\ owed'[s].of \in Session
           /\ \A t \in Session \ {s} : owed'[t] = owed[t]
           /\ pickup' \in [Session -> Pickup \union {Idle}] /\ pickup'[s] = Idle
           /\ \A t \in Session \ {s} : pickup'[t] = pickup[t]
<1>1. /\ owed \in [Session -> Owed \union {Idle}] /\ pickup \in [Session -> Pickup \union {Idle}]
      /\ pickup[s] \in Pickup
  BY DEF CaptureInv, Typed, Calling
<1>2. PICK t \in Session : t = pickup[s].target
  BY <1>1 DEF Pickup
<1>3. PICK x \in Owed : x = [kind |-> "continue", of |-> t] /\ x.of = t
  <2>1. LET x == [kind |-> "continue", of |-> t] IN x \in Owed /\ x.of = t
    BY DEF Owed
  <2> QED
    BY <2>1, Zenon
<1>4. owed' = [owed EXCEPT ![s] = x] /\ pickup' = [pickup EXCEPT ![s] = Idle]
  BY <1>2, <1>3 DEF Delivers
<1> QED
  BY <1>1, <1>3, <1>4

LEMMA PickUpKeeps ==
    ASSUME CaptureInv, NEW s \in Session, PickUp(s)
    PROVE  /\ CaptureInv' /\ docs' = docs
           /\ baton' # baton => baton.pending
<1>1. Typed /\ seq \in Nat /\ pickup \in [Session -> Pickup \union {Idle}]
  BY DEF CaptureInv, Typed
<1>2. UNCHANGED <<fired, spool, landing, log, eraser, told, erased, halted>>
  BY DEF PickUp, history
<1>3. CASE Mark(s)
  <2>1. Calling(s) /\ Delivers(s) /\ docs' = docs
    BY <1>3 DEF Mark, Carries
  <2>2. PICK n \in Note, t \in Session : n = pickup[s].note /\ t = pickup[s].target
    BY <1>1, <1>3 DEF Mark, Carries, Calling, Pickup
  <2>3. Held(n)
    BY <1>3, <2>2 DEF CaptureInv, Notes, Mark
  <2>4. baton = n /\ baton # Idle /\ baton.pending
    BY <1>3, <2>2, <2>3, NewestHeld DEF Mark
  <2>5. PICK v \in Nat : v = seq + 1 /\ seq' = v
    BY <1>1, <1>3 DEF Mark
  <2>6. baton' = [n EXCEPT !.version = v, !.link = t, !.pending = FALSE, !.by = s]
    BY <1>3, <2>2, <2>5 DEF Mark
  <2>7. LET x == [n EXCEPT !.version = v, !.link = t, !.pending = FALSE, !.by = s]
        IN  x \in Note /\ x.version = v /\ x.written = n.written /\ n.written \in Nat
    BY NoteMarked
  <2>8. baton' \in Note /\ baton'.version = v /\ baton'.written = n.written /\ n.written \in Nat
    BY <2>6, <2>7, Zenon
  <2>9. n.written <= seq
    BY <2>4 DEF CaptureInv, Notes
  <2>10. BatonMoves /\ baton' \in Note \union {Idle}
    BY <1>1, <2>5, <2>8, <2>9 DEF BatonMoves
  <2>11. ~Carries(s)'
    BY <2>1, DeliveryMoves DEF Carries, Calling
  <2>12. CaptureInv'
    BY <1>2, <2>1, <2>10, <2>11, DeliveryMoves, CallKeeps
  <2> QED
    BY <2>1, <2>4, <2>12
<1>4. CASE Retry(s)
  <2>1. UNCHANGED <<owed, docs, baton, seq>> /\ Pending
    BY <1>4 DEF Retry, scope
  <2>2. PICK t \in Session, n \in Note \union {Idle}, x \in Pickup :
           x = pickup[s] /\ x.target = t
    BY <1>1, <1>4 DEF Retry, Carries, Calling, Pickup
  <2>3. baton \in Note /\ Held(baton)'
    BY <2>1, PendingHeld
  <2>4. PICK b \in Note : b = baton
    BY <2>3
  <2>5. LET y == [x EXCEPT !.note = b, !.retried = TRUE]
        IN  y \in Pickup /\ y.note = b
    BY DEF Pickup
  <2>6. pickup' = [pickup EXCEPT ![s] = [x EXCEPT !.note = b, !.retried = TRUE]]
    BY <1>4, <2>2, <2>4 DEF Retry
  <2>7. PICK y \in Pickup : y = [x EXCEPT !.note = b, !.retried = TRUE] /\ y.note = b
    BY <2>5, Zenon
  <2>8. pickup' = [pickup EXCEPT ![s] = y]
    BY <2>6, <2>7, Zenon
  <2>9. /\ pickup' \in [Session -> Pickup \union {Idle}] /\ pickup'[s].note = b
        /\ \A u \in Session \ {s} : pickup'[u] = pickup[u]
    BY <1>1, <2>7, <2>8
  <2>10. pickup'[s].note \in Note /\ Held(pickup[s].note)'
    BY <2>1, <2>3, <2>4, <2>9 DEF Held
  <2>11. BatonMoves /\ baton' \in Note \union {Idle}
    BY <1>1, <2>1 DEF BatonMoves, Typed
  <2>12. owed' \in [Session -> Owed \union {Idle}] /\ \A u \in Session \ {s} : owed'[u] = owed[u]
    BY <1>1, <2>1 DEF Typed
  <2>13. CaptureInv'
    BY <1>2, <2>1, <2>9, <2>10, <2>11, <2>12, CallKeeps
  <2> QED
    BY <2>1, <2>13
<1>5. CASE DeliverOnly(s)
  <2>1. Calling(s) /\ Delivers(s) /\ UNCHANGED <<docs, baton, seq>>
    BY <1>5 DEF DeliverOnly, scope
  <2>2. BatonMoves /\ baton' \in Note \union {Idle}
    BY <1>1, <2>1 DEF BatonMoves, Typed
  <2>3. ~Carries(s)'
    BY <2>1, DeliveryMoves DEF Carries, Calling
  <2>4. CaptureInv'
    BY <1>2, <2>1, <2>2, <2>3, DeliveryMoves, CallKeeps
  <2> QED
    BY <2>1, <2>4
<1>6. CASE GiveUp(s)
  <2>1. UNCHANGED <<owed, docs, baton, seq>> /\ pickup' = [pickup EXCEPT ![s] = Idle]
    BY <1>6 DEF GiveUp, scope
  <2>2. BatonMoves /\ baton' \in Note \union {Idle}
    BY <1>1, <2>1 DEF BatonMoves, Typed
  <2>3. /\ pickup' \in [Session -> Pickup \union {Idle}] /\ pickup'[s] = Idle
        /\ \A u \in Session \ {s} : pickup'[u] = pickup[u]
    BY <1>1, <2>1
  <2>4. ~Carries(s)'
    BY <2>3 DEF Carries, Calling
  <2>5. owed' \in [Session -> Owed \union {Idle}] /\ \A u \in Session \ {s} : owed'[u] = owed[u]
    BY <1>1, <2>1 DEF Typed
  <2>6. CaptureInv'
    BY <1>2, <2>1, <2>2, <2>3, <2>4, <2>5, CallKeeps
  <2> QED
    BY <2>1, <2>6
<1> QED
  BY <1>3, <1>4, <1>5, <1>6 DEF PickUp

-----------------------------------------------------------------------------
(* Every step.                                                             *)

LineageStep ==
    \A s \in Session : docs[s].live /\ docs'[s].live
        => docs[s].continues \subseteq docs'[s].continues
NoteStep ==
    baton # Idle /\ ~baton.pending /\ baton'.written = baton.written
        => ~baton'.pending /\ baton'.by = baton.by

LEMMA EventKeeps ==
    ASSUME CaptureInv, NEW s \in Session, Event(s)
    PROVE  CaptureInv' /\ LineageStep /\ NoteStep
<1>1. PICK r \in Due(s) :
         Hook(s, r.kind, r.of) \/ Begin(s, r.kind, r.of) \/ TearSpool(s, r.kind, r.of)
  BY DEF Event
<1>2. UNCHANGED <<docs, baton>>
  BY <1>1 DEF Hook, Begin, TearSpool, scope
<1>3. CaptureInv'
  BY <1>1, HookKeeps, BeginKeeps, TearSpoolKeeps
<1> QED
  BY <1>2, <1>3 DEF LineageStep, NoteStep

LEMMA LandKeeps ==
    ASSUME CaptureInv, NEW s \in Session, Land(s)
    PROVE  CaptureInv' /\ LineageStep /\ NoteStep
<1>1. CASE AppendTurn(s) \/ ReadDocument(s) \/ ReadNote(s) \/ Clear(s) \/ Refuse(s) \/ Die(s)
           \/ \E whole \in BOOLEAN : TearTurn(s, whole)
  <2>1. UNCHANGED <<docs, baton>>
    BY <1>1 DEF AppendTurn, ReadDocument, ReadNote, Clear, Refuse, Die, TearTurn, Ends, scope
  <2>2. CaptureInv'
    BY <1>1, AppendTurnKeeps, ReadDocumentKeeps, ReadNoteKeeps, ClearKeeps, RefuseKeeps,
       DieKeeps, TearTurnKeeps
  <2> QED
    BY <2>1, <2>2 DEF LineageStep, NoteStep
<1>2. CASE WriteDocument(s)
  BY <1>2, WriteDocumentKeeps DEF LineageStep, NoteStep
<1>3. CASE LinkNote(s)
  <2>1. CaptureInv' /\ docs' = docs /\ (baton' # baton => baton.pending)
    BY <1>3, LinkNoteKeeps
  <2> QED
    BY <2>1 DEF LineageStep, NoteStep
<1> QED
  BY <1>1, <1>2, <1>3 DEF Land

LEMMA EraseKeeps ==
    ASSUME CaptureInv, NEW s \in Session, Erase(s)
    PROVE  CaptureInv' /\ LineageStep /\ NoteStep
<1>1. CASE \E all \in BOOLEAN, through \in 1..MaxEvents[s] : Redact(s, all, through)
  <2>1. UNCHANGED <<docs, baton>>
    BY <1>1 DEF Redact, scope
  <2>2. CaptureInv'
    BY <1>1, RedactKeeps
  <2> QED
    BY <2>1, <2>2 DEF LineageStep, NoteStep
<1>2. CASE RedactDocument(s)
  <2>1. /\ CaptureInv' /\ docs'[s].live = FALSE /\ baton' = baton
        /\ \A t \in Session \ {s} : docs'[t] = docs[t]
    BY <1>2, RedactDocumentKeeps
  <2> QED
    BY <2>1 DEF LineageStep, NoteStep
<1> QED
  BY <1>1, <1>2 DEF Erase

LEMMA ToolKeeps ==
    ASSUME CaptureInv, NEW s \in Session, Tool(s)
    PROVE  CaptureInv' /\ LineageStep /\ NoteStep
<1>1. CASE Handoff(s)
  <2>1. CaptureInv' /\ docs' = docs /\ baton'.written = seq + 1
    BY <1>1, HandoffKeeps
  <2>2. baton # Idle => baton.written <= seq /\ baton.written \in Nat /\ seq \in Nat
    BY DEF CaptureInv, Notes, Typed, Note
  <2>3. baton # Idle => baton'.written # baton.written
    BY <2>1, <2>2
  <2> QED
    BY <2>1, <2>3 DEF LineageStep, NoteStep
<1>2. CASE \E named \in (Session \ {s}) \union {NoSession} : ContinueFrom(s, named)
  <2>1. CaptureInv' /\ docs' = docs /\ baton' = baton
    BY <1>2, ContinueKeeps
  <2> QED
    BY <2>1 DEF LineageStep, NoteStep
<1>3. CASE PickUp(s)
  <2>1. CaptureInv' /\ docs' = docs /\ (baton' # baton => baton.pending)
    BY <1>3, PickUpKeeps
  <2> QED
    BY <2>1 DEF LineageStep, NoteStep
<1> QED
  BY <1>1, <1>2, <1>3 DEF Tool

LEMMA InitHolds == Init => CaptureInv
<1> SUFFICES ASSUME Init PROVE CaptureInv
  OBVIOUS
<1>1. /\ EmptySpool \in Spool /\ EmptySpool.records = <<>>
      /\ EmptyLog \in Log /\ EmptyLog.rows = <<>> /\ EmptyLog.good = 0 /\ EmptyLog.ended = TRUE
      /\ NoDocument \in Document /\ NoDocument.live = FALSE /\ NoDocument.version = 0
  BY DEF EmptySpool, EmptyLog, NoDocument, Spool, Log, Document
<1>2. Typed
  BY <1>1 DEF Init, Typed
<1>3. ASSUME NEW s \in Session PROVE Own(s)
  <2>1. /\ fired[s] = 0 /\ owed[s] = Idle /\ spool[s] = EmptySpool /\ landing[s] = Idle
        /\ log[s] = EmptyLog /\ docs[s] = NoDocument /\ seq = 0
        /\ told[s] = {} /\ erased[s] = {} /\ halted[s] = {}
    BY DEF Init
  <2>2. Stage(s) = "idle" /\ Spooling(s) = {} /\ Saying(s) = {} /\ Rows(s) = {}
    BY <1>1, <2>1, RangeEmpty DEF Stage, Locked, Spooling, Saying, Rows
  <2>3. Len(log[s].rows) = 0 /\ DOMAIN log[s].rows = {} /\ MaxEvents[s] \in Nat
    BY <1>1, <2>1, CaptureAssumption
  <2>4. OnRecord(s)
    BY <2>1, <2>2, <2>3 DEF OnRecord
  <2>5. SpanKept(s)
    BY <2>1, <2>2 DEF SpanKept
  <2>6. Once(s)
    BY <1>1, <2>1, <2>2, <2>3 DEF Once
  <2>7. Current(s)
    BY <1>1, <2>1, <2>2 DEF Current, Settled
  <2> QED
    BY <2>4, <2>5, <2>6, <2>7 DEF Own
<1>4. Notes
  BY DEF Init, Notes, Stage, Locked, Carries, Calling
<1> QED
  BY <1>2, <1>3, <1>4 DEF CaptureInv

LEMMA StepKeeps ==
    ASSUME CaptureInv, [Next]_vars
    PROVE  CaptureInv' /\ (LineageStep \/ UNCHANGED vars) /\ (NoteStep \/ UNCHANGED vars)
<1>1. CASE Next
  <2>1. PICK s \in Session : Event(s) \/ Land(s) \/ Erase(s) \/ Tool(s)
    BY <1>1 DEF Next
  <2> QED
    BY <2>1, EventKeeps, LandKeeps, EraseKeeps, ToolKeeps
<1>2. CASE UNCHANGED vars
  <2>1. UNCHANGED <<fired, owed, spool, landing, log, docs, baton, pickup, eraser, seq,
                    told, erased, halted>>
    BY <1>2 DEF vars
  <2>2. Typed'
    BY <2>1 DEF CaptureInv, Typed
  <2>3. \A s \in Session : Own(s)'
    BY <2>1, SeqStays, OwnStays
  <2>4. Notes'
    BY <2>1 DEF CaptureInv, Notes, Held, Stage, Locked, Carries, Calling
  <2> QED
    BY <1>2, <2>2, <2>3, <2>4 DEF CaptureInv
<1> QED
  BY <1>1, <1>2

\* The strengthening that makes the properties inductive.
THEOREM Inductive == Spec => []CaptureInv
<1>1. Init => CaptureInv
  BY InitHolds
<1>2. CaptureInv /\ [Next]_vars => CaptureInv'
  BY StepKeeps
<1> QED
  BY <1>1, <1>2, PTL DEF Spec

LEMMA InvTyped == CaptureInv => TypeOK
<1> SUFFICES ASSUME CaptureInv PROVE TypeOK
  OBVIOUS
<1>1. DOMAIN fired = Session /\ eraser \subseteq Session
  BY DEF CaptureInv, Typed
<1>2. ASSUME NEW s \in Session
      PROVE  /\ fired[s] \in 0..MaxEvents[s]
             /\ owed[s] = Idle \/ owed[s].kind \in {"handoff", "continue"}
             /\ Range(spool[s].records) \union Rows(s) \subseteq told[s]
             /\ told[s] \subseteq Records(s)
             /\ log[s].good \in 0..Len(log[s].rows)
             /\ docs[s].version \in 0..seq /\ docs[s].continues \subseteq Session
             /\ Locked(s) =>
                    landing[s].stage \in {"append", "list", "write", "note", "link", "clear"}
  <2>1. Typed /\ OnRecord(s) /\ Once(s) /\ Current(s)
    BY DEF CaptureInv, Own
  <2>2. fired[s] \in 0..MaxEvents[s] /\ MaxEvents[s] \in Nat /\ fired[s] \in Nat
    BY <2>1, CaptureAssumption DEF OnRecord, Typed
  <2>3. owed[s] = Idle \/ owed[s].kind \in {"handoff", "continue"}
    BY <2>1 DEF Typed, Owed
  <2>4. Range(spool[s].records) \union Rows(s) \subseteq told[s]
    BY <2>1 DEF OnRecord, Spooling
  <2>5. ASSUME NEW r \in told[s] PROVE r \in Records(s)
    <3>1. r \in Record /\ r.number \in 1..fired[s]
      BY <2>1 DEF OnRecord, Typed
    <3>2. r.number \in 1..MaxEvents[s]
      BY <2>2, <3>1
    <3> QED
      BY <3>1, <3>2 DEF Record, Records
  <2>6. log[s].good \in 0..Len(log[s].rows)
    BY <2>1, LogTyped DEF Once
  <2>7. docs[s].version \in 0..seq /\ docs[s].continues \subseteq Session
    BY <2>1, DocumentTyped DEF Current, Typed
  <2>8. Locked(s) =>
            landing[s].stage \in {"append", "list", "write", "note", "link", "clear"}
    BY <2>1, Stages DEF Stage
  <2> QED
    BY <2>2, <2>3, <2>4, <2>5, <2>6, <2>7, <2>8
<1>3. Pending => baton.version \in 1..seq /\ baton.link \in Session \union {NoSession}
  BY DEF CaptureInv, Typed, Notes, Pending, Note
<1> QED
  BY <1>1, <1>2, <1>3 DEF TypeOK

LEMMA InvLands == CaptureInv => NothingLost /\ LandsOnce /\ DocumentCurrent
<1> SUFFICES ASSUME CaptureInv PROVE NothingLost /\ LandsOnce /\ DocumentCurrent
  OBVIOUS
<1>1. NothingLost
  BY DEF CaptureInv, Own, SpanKept, NothingLost, Spooling
<1>2. LandsOnce
  BY DEF CaptureInv, Own, Once, LandsOnce
<1>3. DocumentCurrent
  BY DEF CaptureInv, Own, Current, Settled, Stage, Spooling, DocumentCurrent
<1> QED
  BY <1>1, <1>2, <1>3

\* Whatever a hook has answered for is in the session's spool or in a turn until
\* the operator erases it, and in two turns only when a landing was left half-way:
\* however landings fail, die, tear their lines and interleave with the erasures
\* and with other sessions.
THEOREM CaptureSpansLand == Spec => []SpansLand
<1>1. CaptureInv => SpansLand
  BY InvTyped, InvLands DEF SpansLand
<1> QED
  BY <1>1, Inductive, PTL

\* The sessions document that a landing rewrites whole, against no version, is
\* never behind the log it describes once the landings of its session are over.
THEOREM CaptureDocumentCurrent == Spec => []DocumentCurrent
<1>1. CaptureInv => DocumentCurrent
  BY InvLands
<1> QED
  BY <1>1, Inductive, PTL

\* A rewritten document keeps its lineage, though the landing read it in an earlier
\* call; and a note that was picked up is not marked again or handed out by a
\* landing that links it late or by a second session.
THEOREM CaptureLinksKept == Spec => LinksKept
<1>1. CaptureInv /\ [Next]_vars =>
          [\A s \in Session : docs[s].live /\ docs'[s].live
              => docs[s].continues \subseteq docs'[s].continues]_vars
  BY StepKeeps DEF LineageStep
<1>2. CaptureInv /\ [Next]_vars =>
          [baton # Idle /\ ~baton.pending /\ baton'.written = baton.written
              => ~baton'.pending /\ baton'.by = baton.by]_vars
  BY StepKeeps DEF NoteStep
<1> QED
  BY <1>1, <1>2, Inductive, PTL DEF Spec, LinksKept, LineageKept, PickedOnce
\* What holds of zero and passes from each number to the next holds of all.
LEMMA Induction ==
  ASSUME NEW S, 0 \in S, \A n \in Nat : n \in S => n + 1 \in S
  PROVE  \A n \in Nat : n \in S
<1> DEFINE R == Nat \ S
<1>1. SUFFICES ASSUME R # {} PROVE FALSE OBVIOUS
<1>2. PICK m \in R : \A k \in R : ~(<<k, m>> \in OpToRel(<, Nat))
  BY <1>1, WFMin, NatLessThanWellFounded
<1>3. m \in Nat /\ m # 0 OBVIOUS
<1>4. m - 1 \in Nat /\ m - 1 < m BY <1>3
<1>5. m - 1 \notin R BY <1>2, <1>3, <1>4 DEF OpToRel
<1> QED BY <1>3, <1>4, <1>5

\* A function that starts at start and takes each value from the one before.
RunOf(f, last, T, start, step) ==
    f \in [0..last -> T] /\ f[0] = start /\ \A k \in 1..last : f[k] = step[f[k - 1]][k]
\* Such a function exists; its values are of the type the step keeps.
LEMMA RunExists ==
  ASSUME NEW last \in Nat, NEW T, NEW start \in T, NEW step \in [T -> [1..last -> T]]
  PROVE  \E f : RunOf(f, last, T, start, step)
<1> DEFINE Upto(n, f) == f = [k \in 0..n |-> IF k = 0 THEN start ELSE step[f[k - 1]][k]]
           S == {n \in Nat : n <= last => \E f \in [0..n -> T] : Upto(n, f)}
<1>1. 0 \in S
  <2>1. Upto(0, [k \in 0..0 |-> start]) /\ [k \in 0..0 |-> start] \in [0..0 -> T] OBVIOUS
  <2> QED BY <2>1
<1>2. ASSUME NEW n \in Nat, n \in S, n + 1 <= last PROVE \E g \in [0..(n + 1) -> T] : Upto(n + 1, g)
  <2>0. n <= last BY <1>2
  <2>1. PICK f \in [0..n -> T] : Upto(n, f)
    <3> HIDE DEF Upto
    <3> QED BY <1>2, <2>0
  <2> DEFINE g == [k \in 0..(n + 1) |-> IF k <= n THEN f[k] ELSE step[f[n]][n + 1]]
  <2>2. \A k \in 0..n : f[k] = IF k = 0 THEN start ELSE step[f[k - 1]][k] BY <2>1
  <2>3. f[n] \in T /\ n + 1 \in 1..last BY <1>2
  <2>4. step[f[n]][n + 1] \in T BY <2>3
  <2>5. g \in [0..(n + 1) -> T] BY <2>4
  <2>6. ASSUME NEW k \in 0..(n + 1) PROVE g[k] = IF k = 0 THEN start ELSE step[g[k - 1]][k]
    <3>1. CASE k = 0 BY <2>2, <3>1
    <3>2. CASE k \in 1..n
      <4>1. k - 1 \in 0..n /\ k - 1 \in 0..(n + 1) BY <3>2
      <4> QED BY <2>2, <3>2, <4>1
    <3>3. CASE k = n + 1
      <4>1. g[k] = step[f[n]][n + 1] /\ n \in 0..(n + 1) /\ k - 1 = n BY <3>3
      <4> QED BY <4>1, <3>3
    <3> QED BY <3>1, <3>2, <3>3
  <2>7. g = [k \in 0..(n + 1) |-> g[k]] OBVIOUS
  <2> HIDE DEF g
  <2> QED BY <2>5, <2>6, <2>7
<1>3. \A n \in Nat : n \in S => n + 1 \in S
  <2> SUFFICES ASSUME NEW n \in Nat, n \in S PROVE n + 1 \in S
    <3> HIDE DEF S
    <3> QED OBVIOUS
  <2>1. n + 1 <= last => \E g \in [0..(n + 1) -> T] : Upto(n + 1, g) BY <1>2
  <2> HIDE DEF Upto
  <2> QED BY <2>1
<1> HIDE DEF S
<1>4. last \in S BY <1>1, <1>3, Induction
<1>5. \E f \in [0..last -> T] : Upto(last, f)
  <2> HIDE DEF Upto
  <2> QED BY <1>4 DEF S
<1>6. PICK f \in [0..last -> T] : Upto(last, f) BY <1>5
<1>7. \A k \in 0..last : f[k] = IF k = 0 THEN start ELSE step[f[k - 1]][k] BY <1>6
<1>8. f[0] = start /\ \A k \in 1..last : f[k] = step[f[k - 1]][k]
  <2>1. f[0] = start BY <1>7
  <2>2. ASSUME NEW k \in 1..last PROVE f[k] = step[f[k - 1]][k]
    <3>1. k \in 0..last /\ k # 0 OBVIOUS
    <3> QED BY <1>7, <3>1
  <2> QED BY <2>1, <2>2
<1> QED BY <1>8 DEF RunOf

(***************************************************************************)
(* The context of a session start.                                         *)
(***************************************************************************)
Builder(limit) == {b \in [used : Nat, limit : {limit}, omitted : Nat] : b.used <= limit}
LEMMA PushKeeps ==
  ASSUME NEW limit \in Nat, NEW b \in Builder(limit), NEW size \in Nat
  PROVE  Push(b, size) \in Builder(limit)
BY DEF Push, Builder

LEMMA PushedKeeps ==
  ASSUME NEW limit \in Nat, NEW b \in Builder(limit), NEW sizes \in Seq(Nat)
  PROVE  Pushed(b, sizes) \in Builder(limit)
<1> DEFINE N == Len(sizes)
           T == Builder(limit)
           step == [x \in T |-> [k \in 1..N |-> Push(x, sizes[k])]]
           After(f) == f = [k \in 0..N |-> IF k = 0 THEN b ELSE Push(f[k - 1], sizes[k])]
<1>1. N \in Nat /\ b \in T /\ step \in [T -> [1..N -> T]] BY PushKeeps
<1>2. PICK f : RunOf(f, N, T, b, step)
  <2> HIDE DEF step, N, T
  <2> QED BY <1>1, RunExists
<1>3. \A k \in 0..N : f[k] = IF k = 0 THEN b ELSE Push(f[k - 1], sizes[k])
  <2> SUFFICES ASSUME NEW k \in 1..N PROVE f[k] = Push(f[k - 1], sizes[k])
    BY <1>2 DEF RunOf
  <2>1. f[k - 1] \in T BY <1>2 DEF RunOf
  <2> QED BY <1>2, <2>1 DEF RunOf
<1>4. After(f)
  <2>1. f = [k \in 0..N |-> f[k]] BY <1>2 DEF RunOf
  <2> QED BY <1>3, <2>1
<1>5. PICK g : After(g) /\ Pushed(b, sizes) = g[N] BY <1>4 DEF Pushed
<1>6. \A k \in 0..N : g[k] = IF k = 0 THEN b ELSE Push(g[k - 1], sizes[k]) BY <1>5
<1> DEFINE S == {k \in Nat : k <= N => g[k] \in T}
<1>7. 0 \in S BY <1>1, <1>6
<1>8. ASSUME NEW k \in Nat, k \in S PROVE k + 1 \in S
  <2>1. k + 1 <= N => g[k + 1] = Push(g[k], sizes[k + 1]) /\ sizes[k + 1] \in Nat BY <1>6
  <2> QED BY <1>8, <2>1, PushKeeps
<1>9. N \in S
  <2> HIDE DEF S
  <2> QED BY <1>1, <1>7, <1>8, Induction
<1> QED BY <1>1, <1>5, <1>9

\* Whatever the pieces are, a context that has room for its footer keeps its limit.
LEMMA ContextFits ==
  ASSUME NEW limit \in Nat, limit > Footer, NEW sizes \in Seq(Nat)
  PROVE  RenderContext(limit, sizes).size <= limit
<1> DEFINE b == [used |-> 0, limit |-> Budget(limit), omitted |-> 0]
           c == Pushed(b, sizes)
<1>1. Budget(limit) \in Nat /\ b \in Builder(Budget(limit)) BY DEF Budget, Footer, Builder
<1>2. c \in Builder(Budget(limit)) BY <1>1, PushedKeeps
<1>3. c.used \in Nat /\ c.omitted \in Nat /\ c.used <= Budget(limit) BY <1>2 DEF Builder
<1>4. RenderContext(limit, sizes).size = c.used + IF c.omitted > 0 THEN 1 + Footer ELSE 0
  BY DEF RenderContext
<1> HIDE DEF c
<1> QED BY <1>3, <1>4 DEF Budget, Footer

(***************************************************************************)
(* The spool and its guard.                                                *)
(***************************************************************************)
Alike(q) == \A i, j \in DOMAIN q : q[i] = q[j]
Spools(configs) ==
    {s \in [guard : configs \cup {Unset}, spool : Seq(configs), turns : SUBSET Seq(configs)] :
        /\ \A i \in DOMAIN s.spool : s.guard = s.spool[i]
        /\ \A t \in s.turns : Alike(t)}
Call(configs) ==
    [config : configs \cup {"off"}, event : {"prompt", "stop"},
     dies : {"no", "guarded", "spooled", "landed"}, fails : BOOLEAN]
LEMMA CaptureCallKeeps ==
  ASSUME NEW configs, Unset \notin configs, NEW s \in Spools(configs), NEW e \in Call(configs)
  PROVE  CaptureCall(s, e) \in Spools(configs)
<1>1. CASE e.config = "off" \/ s.guard \notin {Unset, e.config} BY <1>1 DEF CaptureCall
<1>2. CASE ~(e.config = "off" \/ s.guard \notin {Unset, e.config})
  <2>1. /\ s.guard \in configs \cup {Unset} /\ s.spool \in Seq(configs) /\ s.turns \subseteq Seq(configs)
        /\ s = [guard |-> s.guard, spool |-> s.spool, turns |-> s.turns]
        /\ \A i \in DOMAIN s.spool : s.guard = s.spool[i]
        /\ \A t \in s.turns : Alike(t)
    BY DEF Spools
  <2>2. e.config \in configs BY <1>2 DEF Call
  <2>3. \A i \in DOMAIN s.spool : s.spool[i] = e.config
    <3>1. \A i \in DOMAIN s.spool : s.spool[i] \in configs BY <2>1
    <3> QED BY <1>2, <2>1, <3>1
  <2> DEFINE q == Append(s.spool, e.config)
  <2>4. /\ q \in Seq(configs) /\ DOMAIN q = 1..(Len(s.spool) + 1)
        /\ \A i \in DOMAIN q : q[i] = e.config
    <3>1. q \in Seq(configs) /\ Len(q) = Len(s.spool) + 1 BY <2>1, <2>2
    <3>2. ASSUME NEW i \in DOMAIN q PROVE q[i] = e.config
      <4>1. CASE i \in 1..Len(s.spool) BY <4>1, <2>1, <2>3
      <4>2. CASE i = Len(s.spool) + 1 BY <4>2, <2>1
      <4> QED BY <3>1, <4>1, <4>2
    <3> QED BY <3>1, <3>2
  <2> HIDE DEF q
  <2>5. CaptureCall(s, e) \in {[guard |-> e.config, spool |-> s.spool, turns |-> s.turns],
                               [guard |-> e.config, spool |-> q, turns |-> s.turns],
                               [guard |-> e.config, spool |-> <<>>, turns |-> s.turns \cup {q}],
                               [guard |-> Unset, spool |-> <<>>, turns |-> s.turns \cup {q}]}
    BY <1>2 DEF CaptureCall, q
  <2>6. Alike(q) BY <2>4 DEF Alike
  <2>7. <<>> \in Seq(configs) /\ DOMAIN <<>> = {} OBVIOUS
  <2>8. [guard |-> e.config, spool |-> s.spool, turns |-> s.turns] \in Spools(configs)
    BY <2>1, <2>2, <2>3 DEF Spools
  <2>9. [guard |-> e.config, spool |-> q, turns |-> s.turns] \in Spools(configs)
    BY <2>1, <2>2, <2>4 DEF Spools
  <2>10. [guard |-> e.config, spool |-> <<>>, turns |-> s.turns \cup {q}] \in Spools(configs)
    BY <2>1, <2>2, <2>4, <2>6, <2>7 DEF Spools
  <2>11. [guard |-> Unset, spool |-> <<>>, turns |-> s.turns \cup {q}] \in Spools(configs)
    BY <2>1, <2>4, <2>6, <2>7 DEF Spools
  <2> QED BY <2>5, <2>8, <2>9, <2>10, <2>11
<1> QED BY <1>1, <1>2

LEMMA CaptureRunKeeps ==
  ASSUME NEW configs, Unset \notin configs, NEW s \in Spools(configs), NEW calls \in Seq(Call(configs))
  PROVE  CaptureRun(s, calls) \in Spools(configs)
<1> DEFINE N == Len(calls)
           T == Spools(configs)
           step == [x \in T |-> [k \in 1..N |-> CaptureCall(x, calls[k])]]
           After(f) == f = [k \in 0..N |-> IF k = 0 THEN s ELSE CaptureCall(f[k - 1], calls[k])]
<1>1. N \in Nat /\ s \in T /\ step \in [T -> [1..N -> T]] BY CaptureCallKeeps
<1>2. PICK f : RunOf(f, N, T, s, step)
  <2> HIDE DEF step, N, T
  <2> QED BY <1>1, RunExists
<1>3. \A k \in 0..N : f[k] = IF k = 0 THEN s ELSE CaptureCall(f[k - 1], calls[k])
  <2> SUFFICES ASSUME NEW k \in 1..N PROVE f[k] = CaptureCall(f[k - 1], calls[k])
    BY <1>2 DEF RunOf
  <2>1. f[k - 1] \in T BY <1>2 DEF RunOf
  <2> QED BY <1>2, <2>1 DEF RunOf
<1>4. After(f)
  <2>1. f = [k \in 0..N |-> f[k]] BY <1>2 DEF RunOf
  <2> QED BY <1>3, <2>1
<1>5. PICK g : After(g) /\ CaptureRun(s, calls) = g[N] BY <1>4 DEF CaptureRun
<1>6. \A k \in 0..N : g[k] = IF k = 0 THEN s ELSE CaptureCall(g[k - 1], calls[k]) BY <1>5
<1> DEFINE S == {k \in Nat : k <= N => g[k] \in T}
<1>7. 0 \in S BY <1>1, <1>6
<1>8. ASSUME NEW k \in Nat, k \in S PROVE k + 1 \in S
  <2>1. k + 1 <= N => g[k + 1] = CaptureCall(g[k], calls[k + 1]) /\ calls[k + 1] \in Call(configs) BY <1>6
  <2> QED BY <1>8, <2>1, CaptureCallKeeps
<1>9. N \in S
  <2> HIDE DEF S
  <2> QED BY <1>1, <1>7, <1>8, Induction
<1> QED BY <1>1, <1>5, <1>9

LEMMA AlikeIsOne ==
  ASSUME NEW configs, NEW t \in Seq(configs), Alike(t)
  PROVE  Cardinality({t[i] : i \in DOMAIN t}) <= 1
<1>1. CASE t = <<>>
  <2>1. {t[i] : i \in DOMAIN t} = {} BY <1>1
  <2> QED BY <2>1, FS_EmptySet
<1>2. CASE t # <<>>
  <2>1. 1 \in DOMAIN t BY <1>2
  <2> DEFINE V == {t[i] : i \in DOMAIN t}
  <2>2. V = {t[1]} BY <2>1 DEF Alike
  <2> HIDE DEF V
  <2>3. Cardinality(V) = 1 BY <2>2, FS_Singleton
  <2>4. Cardinality(V) <= 1 BY <2>3
  <2> QED BY <2>4 DEF V
<1> QED BY <1>1, <1>2

(***************************************************************************)
(* Routing.                                                                *)
(***************************************************************************)
Operations == Reading \cup Structural \cup Mounted \cup HistoryReads \cup HistoryWrites \cup Restores \cup {"write"}

\* A call that names a scope reaches its one mount, under that mount's access, or
\* the history where no mount has the scope.
LEMMA MemoryReaches ==
  ASSUME NEW p, Valid(p), NEW place, NEW write \in BOOLEAN, NEW structural \in BOOLEAN,
         Memory(p, place, write, structural) # "denied"
  PROVE  /\ \A m \in MountsOf(p, place) :
               /\ Memory(p, place, write, structural) = m.source
               /\ write => m.access # "ro"
               /\ structural => m.access # "eo"
         /\ IsHistory(p, place) => Memory(p, place, write, structural) = p.history.source
         /\ MountsOf(p, place) = {} =>
               IsHistory(p, place) /\ (write => p.mode # "off")
<1>1. ASSUME NEW m \in MountsOf(p, place)
      PROVE  /\ Memory(p, place, write, structural) = m.source
             /\ write => m.access # "ro"
             /\ structural => m.access # "eo"
             /\ IsHistory(p, place) => m.source = p.history.source
  <2>1. \A n \in MountsOf(p, place) : n = m BY <1>1 DEF MountsOf, Valid
  <2>2. (CHOOSE n \in MountsOf(p, place) : TRUE) = m BY <1>1, <2>1
  <2>3. MountsOf(p, place) # {} BY <1>1
  <2>4. IsHistory(p, place) => m.source = p.history.source BY <1>1 DEF IsHistory, MountsOf, Valid
  <2> QED BY <2>2, <2>3, <2>4 DEF Memory
<1>2. CASE MountsOf(p, place) = {} BY <1>2 DEF Memory
<1>3. CASE MountsOf(p, place) # {} BY <1>1, <1>3
<1> QED BY <1>2, <1>3

\* Local capture leaves no mount over the directory of its history.
LEMMA LocalHistoryApart ==
  ASSUME NEW p, NEW b, Valid(p), Bound(p, b), p.mode = "local", NEW place, IsHistory(p, place)
  PROVE  MountsOf(p, place) = {}
<1> SUFFICES ASSUME NEW m \in MountsOf(p, place) PROVE FALSE OBVIOUS
<1>1. m \in p.mounts /\ m.source = p.history.source BY DEF MountsOf, IsHistory, Valid
<1>2. /\ b[p.history.source].root # "server"
      /\ b[m.source].root # "server" => ~Overlap(b[m.source].root, b[p.history.source].root)
  BY <1>1 DEF Bound
<1> QED BY <1>1, <1>2 DEF Overlap

LEMMA RouteStaysWithin ==
  ASSUME NEW p, NEW c, NEW exists \in BOOLEAN, NEW b, c.op \in Operations,
         Valid(p), Bound(p, b), Route(p, c, exists) # "denied"
  PROVE  /\ \A m \in MountsOf(p, c.scope) : c.op \notin HistoryReads \cup HistoryWrites =>
              /\ Route(p, c, exists) = m.source
              /\ Changes(c.op) => m.access # "ro"
              /\ ~exists \/ c.op \in Structural => (Changes(c.op) => m.access # "eo")
              /\ p.mode = "local" /\ IsHistory(p, c.scope) => FALSE
         /\ IsHistory(p, c.scope) \/ c.op \in HistoryReads \cup HistoryWrites => Route(p, c, exists) = p.history.source
         /\ Changes(c.op) /\ p.mode = "off" =>
              \E m \in MountsOf(p, c.scope) : Route(p, c, exists) = m.source /\ m.access # "ro"
<1> DEFINE to == Route(p, c, exists)
           Goal == /\ \A m \in MountsOf(p, c.scope) : c.op \notin HistoryReads \cup HistoryWrites =>
                        /\ to = m.source
                        /\ Changes(c.op) => m.access # "ro"
                        /\ ~exists \/ c.op \in Structural => (Changes(c.op) => m.access # "eo")
                        /\ p.mode = "local" /\ IsHistory(p, c.scope) => FALSE
                   /\ IsHistory(p, c.scope) \/ c.op \in HistoryReads \cup HistoryWrites => to = p.history.source
                   /\ Changes(c.op) /\ p.mode = "off" =>
                        \E m \in MountsOf(p, c.scope) : to = m.source /\ m.access # "ro"
<1>a. \A m \in MountsOf(p, c.scope) : ~(p.mode = "local" /\ IsHistory(p, c.scope)) BY LocalHistoryApart
<1>1. CASE c.op \in Reading
  <2>1. to = Memory(p, c.scope, FALSE, FALSE) BY <1>1 DEF Route, Reading, Structural, Mounted, HistoryReads, HistoryWrites, Restores
  <2>2. ~Changes(c.op) /\ c.op \notin HistoryReads \cup HistoryWrites
    BY <1>1 DEF Changes, Reading, Structural, HistoryReads, HistoryWrites, Restores
  <2> QED BY <1>a, <2>1, <2>2, MemoryReaches
<1>2. CASE c.op \in Structural
  <2>1. to = Memory(p, c.scope, TRUE, TRUE) BY <1>2 DEF Route, Reading, Structural, Mounted, HistoryReads, HistoryWrites, Restores
  <2>2. c.op \notin HistoryReads \cup HistoryWrites BY <1>2 DEF Structural, HistoryReads, HistoryWrites
  <2>3. /\ \A m \in MountsOf(p, c.scope) : to = m.source /\ m.access # "ro" /\ m.access # "eo"
        /\ IsHistory(p, c.scope) => to = p.history.source
        /\ p.mode = "off" => MountsOf(p, c.scope) # {}
    <3>1. TRUE \in BOOLEAN /\ FALSE \in BOOLEAN OBVIOUS
    <3>2. Memory(p, c.scope, TRUE, TRUE) # "denied" BY <2>1
    <3>3. /\ \A m \in MountsOf(p, c.scope) :
               /\ Memory(p, c.scope, TRUE, TRUE) = m.source
               /\ TRUE => m.access # "ro"
               /\ TRUE => m.access # "eo"
          /\ IsHistory(p, c.scope) => Memory(p, c.scope, TRUE, TRUE) = p.history.source
          /\ MountsOf(p, c.scope) = {} => IsHistory(p, c.scope) /\ (TRUE => p.mode # "off")
      BY <3>1, <3>2, MemoryReaches, Zenon
    <3> QED BY <2>1, <3>3
  <2> QED BY <1>a, <2>2, <2>3
<1>3. CASE c.op = "write"
  <2>1. to = RouteWrite(p, c.scope, exists) BY <1>3 DEF Route, Reading, Structural, Mounted, HistoryReads, HistoryWrites, Restores
  <2>2. to = Memory(p, c.scope, TRUE, FALSE) /\ (~exists => \A m \in MountsOf(p, c.scope) : m.access # "eo")
    BY <2>1 DEF RouteWrite
  <2>3. c.op \notin HistoryReads \cup HistoryWrites /\ c.op \notin Structural
    BY <1>3 DEF Structural, HistoryReads, HistoryWrites
  <2>4. /\ \A m \in MountsOf(p, c.scope) : to = m.source /\ m.access # "ro"
        /\ IsHistory(p, c.scope) => to = p.history.source
        /\ p.mode = "off" => MountsOf(p, c.scope) # {}
    <3>1. TRUE \in BOOLEAN /\ FALSE \in BOOLEAN OBVIOUS
    <3>2. Memory(p, c.scope, TRUE, FALSE) # "denied" BY <2>2
    <3>3. /\ \A m \in MountsOf(p, c.scope) :
               /\ Memory(p, c.scope, TRUE, FALSE) = m.source
               /\ TRUE => m.access # "ro"
               /\ FALSE => m.access # "eo"
          /\ IsHistory(p, c.scope) => Memory(p, c.scope, TRUE, FALSE) = p.history.source
          /\ MountsOf(p, c.scope) = {} => IsHistory(p, c.scope) /\ (TRUE => p.mode # "off")
      BY <3>1, <3>2, MemoryReaches, Zenon
    <3> QED BY <2>2, <3>3
  <2> QED BY <1>a, <2>2, <2>3, <2>4
<1>4. CASE c.op \in Mounted
  <2> DEFINE prunes == c.op = "prune_changes"
  <2>1. MountsOf(p, c.scope) # {} /\ to = Memory(p, c.scope, prunes, prunes)
    BY <1>4 DEF Route, Reading, Structural, Mounted, HistoryReads, HistoryWrites, Restores
  <2>2. c.op \notin HistoryReads \cup HistoryWrites /\ c.op \notin Structural /\ (Changes(c.op) => prunes)
    BY <1>4 DEF Changes, Mounted, Structural, HistoryReads, HistoryWrites, Restores
  <2>3. prunes \in BOOLEAN OBVIOUS
  <2> HIDE DEF prunes
  <2> QED BY <1>a, <2>1, <2>2, <2>3, MemoryReaches
<1>5. CASE c.op \in HistoryReads
  <2>1. to = HistoryStore(p, c.id, FALSE) BY <1>5 DEF Route, Reading, Structural, Mounted, HistoryReads, HistoryWrites, Restores
  <2>2. ~Changes(c.op) BY <1>5 DEF Changes, Structural, HistoryReads, HistoryWrites, Restores
  <2> QED BY <1>5, <2>1, <2>2 DEF HistoryStore
<1>6. CASE c.op \in HistoryWrites
  <2>1. to = HistoryStore(p, c.id, TRUE) BY <1>6 DEF Route, Reading, Structural, Mounted, HistoryReads, HistoryWrites, Restores
  <2> QED BY <1>6, <2>1 DEF HistoryStore
<1>7. CASE c.op \in Restores
  <2>1. to = "denied" BY <1>7 DEF Route, Reading, Structural, Mounted, HistoryReads, HistoryWrites, Restores
  <2> QED BY <2>1
<1> QED BY <1>1, <1>2, <1>3, <1>4, <1>5, <1>6, <1>7 DEF Operations

(***************************************************************************)
(* What is kept of an event.                                               *)
(***************************************************************************)
LEMMA KeptToPolicy ==
  ASSUME NEW event \in Events, NEW texts, NEW policy, policy.excluded \in BOOLEAN
  PROVE  LET kept == Recorded(event, texts, policy) IN
         /\ kept # Unset => \A t \in kept : Means(event, t) \in policy.fields
         /\ \A t \in Reduced(event, texts) :
              Means(event, t) \in policy.fields /\ ~(event = "PostToolUse" /\ policy.excluded)
              => kept # Unset /\ t \in kept
<1> DEFINE kept == Recorded(event, texts, policy)
<1>0. \A T : T \subseteq Contents => T # Unset BY ContentsAssumption
<1>1. CASE event = "UserPromptSubmit"
  BY <1>0, <1>1 DEF Recorded, Reduced, Kept, Means, Ignored, Contents
<1>2. CASE event = "PostToolUse"
  BY <1>0, <1>2 DEF Recorded, Reduced, Kept, Means, Ignored, Contents
<1>3. CASE event = "Stop"
  BY <1>0, <1>3 DEF Recorded, Reduced, Kept, Means, Ignored, Contents
<1>4. CASE event = "AssistantResponse"
  BY <1>0, <1>4 DEF Recorded, Reduced, Kept, Means, Ignored, Contents
<1>5. CASE event = "MailboxReceived"
  BY <1>0, <1>5 DEF Recorded, Reduced, Kept, Means, Ignored, Contents
<1>6. CASE event = "SessionEnd"
  BY <1>6 DEF Recorded, Reduced, Ignored
<1> QED BY <1>1, <1>2, <1>3, <1>4, <1>5, <1>6 DEF Events

(***************************************************************************)
(* What is shown of the sessions.                                          *)
(***************************************************************************)
LEMMA ShownIsReadable ==
  ASSUME NEW p, p.history # Unset, p.history.source # "denied", NEW store, NEW names
  PROVE  /\ \A op \in {"read", "list_documents", "document_page"} : \A id \in store.sessions :
              id \in Shown(p, store, op) <=> HistoryStore(p, id, FALSE) # "denied"
         /\ \A id \in HistoryIds(p, store) : HistoryStore(p, id, FALSE) # "denied"
         /\ names # Unset /\ HandoffShown(p, names) => HistoryStore(p, names, FALSE) # "denied"
<1>1. \A id : HistoryStore(p, id, FALSE) # "denied" <=> id \in Visible(p) BY DEF HistoryStore
<1>2. HistoryIds(p, store) \subseteq Visible(p) BY DEF HistoryIds, Shown
<1> QED BY <1>1, <1>2 DEF Shown, HandoffShown

(***************************************************************************)
(* The store an installed command opens.                                   *)
(***************************************************************************)
Opt(Names) == Names \cup {Unset}
Flags(Names) == [root : Opt(Names), url : Opt(Names), schema : Opt(Names), profile : Opt(Names)]
Environment(Names) ==
    [dsn : Opt(Names), token : Opt(Names), profile : Opt(Names), project : Opt(Names), bindsDsn : BOOLEAN]
\* How many stores a command line and its environment name.
LEMMA NamedCounts ==
  ASSUME NEW Names, NEW flags \in Flags(Names), NEW env \in Environment(Names)
  PROVE  /\ (flags.root = Unset \/ (flags.url = Unset /\ env.dsn = Unset)) /\ (flags.url = Unset \/ env.dsn = Unset)
              => ~(Cardinality(Named(flags, env)) > 1)
         /\ (flags.root # Unset \/ flags.url # Unset) /\ env.dsn # Unset => Cardinality(Named(flags, env)) > 1
<1> DEFINE N == Named(flags, env)
<1>1. IsFiniteSet(N)
  <2>1. N \subseteq {"root", "url", "dsn"} BY DEF Named
  <2>2. IsFiniteSet({"root"} \cup {"url"} \cup {"dsn"}) BY FS_Singleton, FS_Union
  <2>3. {"root"} \cup {"url"} \cup {"dsn"} = {"root", "url", "dsn"} OBVIOUS
  <2> QED BY <2>1, <2>2, <2>3, FS_Subset
<1>2. ASSUME flags.root = Unset \/ (flags.url = Unset /\ env.dsn = Unset), flags.url = Unset \/ env.dsn = Unset
      PROVE  ~(Cardinality(N) > 1)
  <2>1. N = {} \/ N = {"root"} \/ N = {"url"} \/ N = {"dsn"}
    <3>1. "root" \in N <=> flags.root # Unset BY DEF Named
    <3>2. "url" \in N <=> flags.url # Unset BY DEF Named
    <3>3. "dsn" \in N <=> env.dsn # Unset BY DEF Named
    <3>4. N \subseteq {"root", "url", "dsn"} BY DEF Named
    <3> HIDE DEF N
    <3> QED BY <1>2, <3>1, <3>2, <3>3, <3>4
  <2> HIDE DEF N
  <2>2. Cardinality({}) = 0 BY FS_EmptySet
  <2>3. Cardinality({"root"}) = 1 /\ Cardinality({"url"}) = 1 /\ Cardinality({"dsn"}) = 1 BY FS_Singleton
  <2> QED BY <2>1, <2>2, <2>3
<1>3. ASSUME NEW f \in {"root", "url"}, flags[f] # Unset, env.dsn # Unset PROVE Cardinality(N) > 1
  <2>1. {f, "dsn"} \subseteq N BY <1>3 DEF Named
  <2>2. Cardinality({f, "dsn"}) = 2
    <3>1. IsFiniteSet({f}) /\ Cardinality({f}) = 1 BY FS_Singleton
    <3>2. "dsn" \notin {f} BY <1>3
    <3> DEFINE one == {f}
    <3> HIDE DEF one
    <3>5. Cardinality(one \cup {"dsn"}) = Cardinality(one) + 1 BY <3>1, <3>2, FS_AddElement DEF one
    <3>3. Cardinality({f} \cup {"dsn"}) = 2 BY <3>1, <3>5 DEF one
    <3>4. {f} \cup {"dsn"} = {f, "dsn"} OBVIOUS
    <3> QED BY <3>3, <3>4
  <2>3. Cardinality(N) \in Nat BY <1>1, FS_CardinalityType
  <2>4. Cardinality({f, "dsn"}) <= Cardinality(N)
    <3> HIDE DEF N
    <3> QED BY <1>1, <2>1, FS_Subset
  <2> HIDE DEF N
  <2> QED BY <2>2, <2>3, <2>4
<1> QED BY <1>2, <1>3

LEMMA OpensAsInstalled ==
  ASSUME NEW Names, Unset \notin Names, "home" \in Names,
         NEW flags \in Flags(Names), NEW env \in Environment(Names), NEW later \in Environment(Names),
         Installed(flags, env) # Unset, \A c \in Credentials(flags, env) : later[c] = env[c]
  PROVE  LET argv == Installed(flags, env) IN
         \/ Opens(argv, later) \in {<<"refused">>, Opens(flags, env)}
         \/ "dsn" \in Credentials(flags, env) /\ later.bindsDsn /\ Selected(argv, later) # Unset
<1> DEFINE argv == Installed(flags, env)
           none == [root |-> Unset, url |-> Unset, schema |-> Unset, profile |-> Unset]
           Goal == \/ Opens(argv, later) \in {<<"refused">>, Opens(flags, env)}
                   \/ "dsn" \in Credentials(flags, env) /\ later.bindsDsn /\ Selected(argv, later) # Unset
<1>0. Opens(flags, env) # <<"refused">> BY DEF Installed
<1>1. CASE Selected(flags, env) # Unset
  <2>1. argv = [root |-> Unset, url |-> Unset, schema |-> Unset, profile |-> Selected(flags, env)]
    BY <1>0, <1>1 DEF Installed
  <2>2. Selected(argv, later) = Selected(flags, env) BY <1>1, <2>1 DEF Selected
  <2>3. Opens(flags, env) = <<"profile", Selected(flags, env)>> BY <1>0, <1>1 DEF Opens
  <2>4. Opens(argv, later) \in {<<"refused">>, <<"profile", Selected(argv, later)>>} BY <1>1, <2>2 DEF Opens
  <2> QED BY <2>2, <2>3, <2>4
<1>2. CASE Selected(flags, env) = Unset /\ env.dsn # Unset
  <2>1. argv = [root |-> Unset, url |-> Unset, schema |-> flags.schema, profile |-> Unset]
    BY <1>0, <1>2 DEF Installed, Flags
  <2>2. Credentials(flags, env) = {"dsn"} /\ later.dsn = env.dsn BY <1>2 DEF Credentials
  <2>3. Opens(flags, env) = <<"dsn", env.dsn, flags.schema>> BY <1>0, <1>2 DEF Opens
  <2>4. CASE Selected(argv, later) # Unset
    BY <1>2, <2>2, <2>4 DEF Opens, Conflicts
  <2>5. CASE Selected(argv, later) = Unset
    <3>1. argv \in Flags(Names) BY <2>1 DEF Flags, Opt
    <3>2. ~(Cardinality(Named(argv, later)) > 1) BY <2>1, <3>1, NamedCounts
    <3> QED BY <1>2, <2>1, <2>2, <2>3, <2>5, <3>2 DEF Opens
  <2> QED BY <2>4, <2>5
<1>3. CASE Selected(flags, env) = Unset /\ env.dsn = Unset /\ flags.url # Unset
  <2>1. argv = [root |-> Unset, url |-> flags.url, schema |-> Unset, profile |-> Unset]
    BY <1>0, <1>3 DEF Installed
  <2>2. later.token = env.token /\ env.token # Unset BY <1>0, <1>3 DEF Credentials, Opens
  <2>3. Opens(flags, env) = <<"url", flags.url>> BY <1>0, <1>3 DEF Opens
  <2>4. argv \in Flags(Names) BY <2>1 DEF Flags, Opt
  <2>5. later.dsn # Unset => Cardinality(Named(argv, later)) > 1 BY <1>3, <2>1, <2>4, NamedCounts
  <2>6. CASE Selected(argv, later) # Unset BY <1>3, <2>1, <2>6 DEF Opens, Conflicts
  <2>7. CASE Selected(argv, later) = Unset BY <1>3, <2>1, <2>2, <2>3, <2>5, <2>7 DEF Opens
  <2> QED BY <2>6, <2>7
<1>4. CASE Selected(flags, env) = Unset /\ env.dsn = Unset /\ flags.url = Unset
  <2> DEFINE root == IF flags.root = Unset THEN "home" ELSE flags.root
  <2>1. argv = [root |-> root, url |-> Unset, schema |-> Unset, profile |-> Unset]
    BY <1>0, <1>4 DEF Installed
  <2>2. root \in Names /\ root # Unset BY DEF Flags, Opt
  <2>3. Opens(flags, env) = <<"root", root>> BY <1>0, <1>4 DEF Opens
  <2>4. argv \in Flags(Names) BY <2>1, <2>2 DEF Flags, Opt
  <2> HIDE DEF root
  <2>5. later.dsn # Unset => Cardinality(Named(argv, later)) > 1 BY <2>1, <2>2, <2>4, NamedCounts
  <2>6. CASE Selected(argv, later) # Unset BY <2>1, <2>2, <2>6 DEF Opens, Conflicts
  <2>7. CASE Selected(argv, later) = Unset BY <2>1, <2>2, <2>3, <2>5, <2>7 DEF Opens
  <2> QED BY <2>6, <2>7
<1> QED BY <1>1, <1>2, <1>3, <1>4

(***************************************************************************)
(* Bindings.                                                               *)
(***************************************************************************)
Registry(Names) == [sources : UNION {[S -> Opt(Names)] : S \in SUBSET Names},
                    projects : UNION {[S -> Opt(Names)] : S \in SUBSET Names}]
Binding(Names) == [source : Opt(Names), to : Names, project : Opt(Names), profile : Names, replace : BOOLEAN]
\* A bind keeps every name of the registry, and takes over only what it names,
\* and what stands only with --replace.
LEMMA BindTakesItsOwn ==
  ASSUME NEW Names, Unset \notin Names, NEW reg \in Registry(Names), NEW b \in Binding(Names)
  PROVE  /\ Bind(reg, b) \in Registry(Names)
         /\ DOMAIN Bind(reg, b).sources = DOMAIN reg.sources
         /\ DOMAIN Bind(reg, b).projects = DOMAIN reg.projects
         /\ \A s \in DOMAIN reg.sources :
              /\ b.source # s => Bind(reg, b).sources[s] = reg.sources[s]
              /\ ~b.replace /\ reg.sources[s] # Unset => Bind(reg, b).sources[s] = reg.sources[s]
         /\ \A q \in DOMAIN reg.projects :
              ~b.replace /\ reg.projects[q] # Unset => Bind(reg, b).projects[q] = reg.projects[q]
<1> DEFINE took == [sources |-> [s \in DOMAIN reg.sources |-> IF s = b.source THEN b.to ELSE reg.sources[s]],
                    projects |-> [q \in DOMAIN reg.projects |-> IF q = b.project THEN b.profile ELSE reg.projects[q]]]
<1>1. PICK S \in SUBSET Names, Q \in SUBSET Names : reg.sources \in [S -> Opt(Names)] /\ reg.projects \in [Q -> Opt(Names)]
  BY DEF Registry
<1>2. DOMAIN reg.sources = S /\ DOMAIN reg.projects = Q BY <1>1
<1>3. Unset \notin S /\ Unset \notin Q OBVIOUS
<1>4. b.to \in Opt(Names) /\ b.profile \in Opt(Names) BY DEF Binding, Opt
<1>5. took.sources \in [S -> Opt(Names)] /\ took.projects \in [Q -> Opt(Names)] BY <1>1, <1>2, <1>4
<1>6. took \in Registry(Names) BY <1>5 DEF Registry
<1>7. CASE Bind(reg, b) = reg BY <1>7
<1>8. CASE Bind(reg, b) # reg
  <2>1. /\ Bind(reg, b) = took
        /\ ~(b.source # Unset /\ reg.sources[b.source] \notin {Unset, b.to} /\ ~b.replace)
        /\ ~(b.project # Unset /\ reg.projects[b.project] \notin {Unset, b.profile} /\ ~b.replace)
    BY <1>8 DEF Bind
  <2>2. \A s \in S : took.sources[s] = IF s = b.source THEN b.to ELSE reg.sources[s] BY <1>2
  <2>3. \A q \in Q : took.projects[q] = IF q = b.project THEN b.profile ELSE reg.projects[q] BY <1>2
  <2>4. DOMAIN took.sources = S /\ DOMAIN took.projects = Q BY <1>2
  <2> HIDE DEF took
  <2>5. ASSUME NEW s \in S
        PROVE  /\ b.source # s => took.sources[s] = reg.sources[s]
               /\ ~b.replace /\ reg.sources[s] # Unset => took.sources[s] = reg.sources[s]
    BY <1>3, <2>1, <2>2
  <2>6. ASSUME NEW q \in Q, ~b.replace, reg.projects[q] # Unset PROVE took.projects[q] = reg.projects[q]
    BY <1>3, <2>1, <2>3, <2>6
  <2> QED BY <1>2, <1>6, <2>1, <2>4, <2>5, <2>6
<1> QED BY <1>7, <1>8

(***************************************************************************)
(* Every input of the algorithms, over any set of names.                   *)
(***************************************************************************)
Profile(Names) ==
    [mounts : SUBSET [source : Names, scope : Names, access : Accesses],
     history : [source : Names, scope : Names, ids : SUBSET Names, prefix : BOOLEAN] \cup {Unset},
     mode : {"off", "local", "shared"}]
Routed(Names) ==
    Of("route", [p : Profile(Names), call : [op : Operations, scope : Names, id : Names], exists : BOOLEAN,
                 b : UNION {[S -> [root : Names, capture : {"local", "shared"}]] : S \in SUBSET Names}])
Browsed(Names) ==
    Of("sessions", [p : Profile(Names), store : [sessions : SUBSET Names], names : Opt(Names)])
Filtered ==
    Of("filter", [event : Events, policy : [fields : SUBSET Fields, excluded : BOOLEAN], texts : SUBSET Contents])
Guarded(Names) == Of("guard", Seq(Call(Names \ {"off"})))
Registered(Names) ==
    Of("installed", [flags : Flags(Names), env : Environment(Names), later : Environment(Names)])
Rebound(Names) ==
    Of("bind", [reg : Registry(Names), first : Binding(Names), second : Binding(Names)])
Rendered == Of("budget", [limit : {n \in Nat : n > Footer}, sizes : Seq(Nat)])
AnyProfileInput(Names) ==
    UNION {Routed(Names), Browsed(Names), Filtered, Guarded(Names), Registered(Names), Rebound(Names), Rendered}

\* The rule an input is for tells its type.
LEMMA InputByRule ==
  ASSUME NEW Names, NEW i \in AnyProfileInput(Names)
  PROVE  /\ i.rule = "route" => i \in Routed(Names)
         /\ i.rule = "sessions" => i \in Browsed(Names)
         /\ i.rule = "filter" => i \in Filtered
         /\ i.rule = "guard" => i \in Guarded(Names)
         /\ i.rule = "installed" => i \in Registered(Names)
         /\ i.rule = "bind" => i \in Rebound(Names)
         /\ i.rule = "budget" => i \in Rendered
<1>1. /\ i \in Routed(Names) => i.rule = "route"
      /\ i \in Browsed(Names) => i.rule = "sessions"
      /\ i \in Filtered => i.rule = "filter"
      /\ i \in Guarded(Names) => i.rule = "guard"
      /\ i \in Registered(Names) => i.rule = "installed"
      /\ i \in Rebound(Names) => i.rule = "bind"
      /\ i \in Rendered => i.rule = "budget"
  <2>1. \A rule, inputs : i \in Of(rule, inputs) => i.rule = rule BY DEF Of
  <2> QED BY <2>1, Zenon DEF Routed, Browsed, Filtered, Guarded, Registered, Rebound, Rendered
<1>2. \/ i \in Routed(Names) \/ i \in Browsed(Names) \/ i \in Filtered \/ i \in Guarded(Names)
      \/ i \in Registered(Names) \/ i \in Rebound(Names) \/ i \in Rendered
  BY DEF AnyProfileInput
<1> QED BY <1>1, <1>2

\* A profile bounds what is read, written, captured and shown, and what a client
\* later runs, whatever it holds and however many names there are: routing keeps
\* to the mounts, a listing to the turns that may be read, a record to the
\* policy, a turn to one configuration, an installed command to its store, an
\* unforced bind to what stands, and a context to its limit.
THEOREM ProfileRulesHold ==
  ASSUME NEW Names, Unset \notin Names, "denied" \notin Names, "home" \in Names,
         input \in AnyProfileInput(Names)
  PROVE  ProfileRules
<1> DEFINE r == input.in
<1>1. RoutedWithinProfile
  <2> SUFFICES ASSUME Is("route"), Valid(r.p), Bound(r.p, r.b), Route(r.p, r.call, r.exists) # "denied"
               PROVE  LET p == r.p
                          to == Route(p, r.call, r.exists) IN
                      /\ \A m \in MountsOf(p, r.call.scope) : r.call.op \notin HistoryReads \cup HistoryWrites =>
                           /\ to = m.source
                           /\ Changes(r.call.op) => m.access # "ro"
                           /\ ~r.exists \/ r.call.op \in Structural => (Changes(r.call.op) => m.access # "eo")
                           /\ p.mode = "local" /\ IsHistory(p, r.call.scope) => FALSE
                      /\ IsHistory(p, r.call.scope) \/ r.call.op \in HistoryReads \cup HistoryWrites =>
                           to = p.history.source
                      /\ Changes(r.call.op) /\ p.mode = "off" =>
                           \E m \in MountsOf(p, r.call.scope) : to = m.source /\ m.access # "ro"
    BY Zenon DEF RoutedWithinProfile
  <2>1. input \in Routed(Names) BY InputByRule DEF Is
  <2>2. r.call.op \in Operations /\ r.exists \in BOOLEAN BY <2>1 DEF Routed, Of
  <2> HIDE DEF r
  <2> QED BY <2>2, RouteStaysWithin
<1>2. SessionsMatchTurns
  <2> SUFFICES ASSUME Is("sessions"), r.p.history # Unset
               PROVE  /\ \A op \in {"read", "list_documents", "document_page"} : \A id \in r.store.sessions :
                           id \in Shown(r.p, r.store, op) <=> HistoryStore(r.p, id, FALSE) # "denied"
                      /\ \A id \in HistoryIds(r.p, r.store) : HistoryStore(r.p, id, FALSE) # "denied"
                      /\ r.names # Unset /\ HandoffShown(r.p, r.names) => HistoryStore(r.p, r.names, FALSE) # "denied"
    BY DEF SessionsMatchTurns
  <2>1. input \in Browsed(Names) BY InputByRule DEF Is
  <2>2. r.p \in Profile(Names) BY <2>1 DEF Browsed, Of
  <2> HIDE DEF r
  <2>3. r.p.history.source \in Names BY <2>2 DEF Profile
  <2>4. r.p.history.source # "denied" BY <2>3
  <2> QED BY <2>4, ShownIsReadable
<1>3. FilterKeepsToPolicy
  <2> SUFFICES ASSUME Is("filter")
               PROVE  LET kept == Recorded(r.event, r.texts, r.policy) IN
                      /\ kept # Unset => \A t \in kept : Means(r.event, t) \in r.policy.fields
                      /\ \A t \in Reduced(r.event, r.texts) :
                           Means(r.event, t) \in r.policy.fields /\ ~(r.event = "PostToolUse" /\ r.policy.excluded)
                           => kept # Unset /\ t \in kept
    BY DEF FilterKeepsToPolicy
  <2>1. input \in Filtered BY InputByRule DEF Is
  <2>2. r.event \in Events /\ r.policy.excluded \in BOOLEAN BY <2>1 DEF Filtered, Of
  <2> HIDE DEF r
  <2> QED BY <2>2, KeptToPolicy
<1>4. OnePolicyATurn
  <2> DEFINE none == [guard |-> Unset, spool |-> <<>>, turns |-> {}]
             s == CaptureRun(none, r)
             configs == Names \ {"off"}
  <2> SUFFICES ASSUME Is("guard")
               PROVE  /\ \A t \in s.turns : Cardinality({t[i] : i \in DOMAIN t}) <= 1
                      /\ \A i \in DOMAIN s.spool : s.guard = s.spool[i]
    BY DEF OnePolicyATurn
  <2>1. input \in Guarded(Names) BY InputByRule DEF Is
  <2>2. r \in Seq(Call(configs)) BY <2>1 DEF Guarded, Of
  <2>3. none \in Spools(configs) BY DEF Spools
  <2>4. s \in Spools(configs)
    <3> HIDE DEF none, configs, r
    <3>1. Unset \notin configs BY DEF configs
    <3> QED BY <2>2, <2>3, <3>1, CaptureRunKeeps
  <2> HIDE DEF s, configs
  <2>5. /\ s.turns \subseteq Seq(configs)
        /\ \A t \in s.turns : Alike(t)
        /\ \A i \in DOMAIN s.spool : s.guard = s.spool[i]
    BY <2>4 DEF Spools
  <2>6. ASSUME NEW t \in s.turns PROVE Cardinality({t[i] : i \in DOMAIN t}) <= 1
    <3>1. t \in Seq(configs) /\ Alike(t) BY <2>5
    <3> QED BY <3>1, AlikeIsOne
  <2> QED BY <2>5, <2>6
<1>5. InstalledStoreOpens
  <2> DEFINE argv == Installed(r.flags, r.env)
  <2> SUFFICES ASSUME Is("installed"), argv # Unset, \A c \in Credentials(r.flags, r.env) : r.later[c] = r.env[c]
               PROVE  \/ Opens(argv, r.later) \in {<<"refused">>, Opens(r.flags, r.env)}
                      \/ "dsn" \in Credentials(r.flags, r.env) /\ r.later.bindsDsn /\ Selected(argv, r.later) # Unset
    BY DEF InstalledStoreOpens
  <2>1. input \in Registered(Names) BY InputByRule DEF Is
  <2>2. r.flags \in Flags(Names) /\ r.env \in Environment(Names) /\ r.later \in Environment(Names)
    BY <2>1 DEF Registered, Of
  <2> HIDE DEF r
  <2> QED BY <2>2, OpensAsInstalled
<1>6. BindingsKept
  <2> DEFINE one == Bind(r.reg, r.first)
             two == Bind(one, r.second)
  <2> SUFFICES ASSUME Is("bind")
               PROVE  /\ \A s \in DOMAIN r.reg.sources :
                           /\ r.reg.sources[s] # Unset /\ ~r.first.replace /\ ~r.second.replace =>
                                two.sources[s] = r.reg.sources[s]
                           /\ one.sources[s] # Unset /\ r.second.source # s => two.sources[s] = one.sources[s]
                      /\ \A q \in DOMAIN r.reg.projects :
                           r.reg.projects[q] # Unset /\ ~r.first.replace /\ ~r.second.replace =>
                             two.projects[q] = r.reg.projects[q]
    BY DEF BindingsKept
  <2>1. input \in Rebound(Names) BY InputByRule DEF Is
  <2>2. r.reg \in Registry(Names) /\ r.first \in Binding(Names) /\ r.second \in Binding(Names)
    BY <2>1 DEF Rebound, Of
  <2> HIDE DEF r
  <2>3. /\ one \in Registry(Names)
        /\ DOMAIN one.sources = DOMAIN r.reg.sources /\ DOMAIN one.projects = DOMAIN r.reg.projects
        /\ \A s \in DOMAIN r.reg.sources :
             ~r.first.replace /\ r.reg.sources[s] # Unset => one.sources[s] = r.reg.sources[s]
        /\ \A q \in DOMAIN r.reg.projects :
             ~r.first.replace /\ r.reg.projects[q] # Unset => one.projects[q] = r.reg.projects[q]
    BY <2>2, BindTakesItsOwn
  <2> HIDE DEF one
  <2>4. /\ \A s \in DOMAIN one.sources :
             /\ r.second.source # s => two.sources[s] = one.sources[s]
             /\ ~r.second.replace /\ one.sources[s] # Unset => two.sources[s] = one.sources[s]
        /\ \A q \in DOMAIN one.projects :
             ~r.second.replace /\ one.projects[q] # Unset => two.projects[q] = one.projects[q]
    BY <2>2, <2>3, BindTakesItsOwn
  <2> HIDE DEF two
  <2> QED BY <2>3, <2>4
<1>7. ContextWithinBudget
  <2> SUFFICES ASSUME Is("budget") PROVE RenderContext(r.limit, r.sizes).size <= r.limit
    BY DEF ContextWithinBudget
  <2>1. input \in Rendered BY InputByRule DEF Is
  <2>2. r.limit \in Nat /\ r.limit > Footer /\ r.sizes \in Seq(Nat) BY <2>1 DEF Rendered, Of
  <2> HIDE DEF r
  <2> QED BY <2>2, ContextFits
<1> QED BY <1>1, <1>2, <1>3, <1>4, <1>5, <1>6, <1>7 DEF ProfileRules

\* The run's inputs are among them, under the names they use.
RunNames == {"s1", "s2", "A", "B", "C", "own", "other", "none", "r1", "r1/in", "server", "d1", "t",
             "p1", "p2", "p3", "u1", "x", "e1", "e2", "q", "c1", "c2", "home"}
LEMMA OfWidens ==
  ASSUME NEW rule, NEW narrow, NEW wide, narrow \subseteq wide
  PROVE  Of(rule, narrow) \subseteq Of(rule, wide)
BY DEF Of

LEMMA ProfileInputsCovered == ProfileInputs \subseteq AnyProfileInput(RunNames)
<1> DEFINE N == RunNames
           mount == [source : {"s1", "s2"}, scope : {"A", "B"}, access : Accesses]
           past == {h \in [source : {"s1", "s2"}, scope : {"A", "C"}, ids : {{"own"}, {"other"}}, prefix : BOOLEAN] :
                         h.prefix <=> h.ids = {"own"}}
           profile == [mounts : {ms \in SUBSET mount : Cardinality(ms) \in 1..2
                                   /\ \A m, n \in ms : m.scope = n.scope => m = n},
                       history : past \cup {Unset}, mode : {"off", "local", "shared"}]
           calls == {[op |-> o, scope |-> s, id |-> "own"] :
                       o \in Reading \cup Structural \cup Mounted \cup Restores \cup {"write"}, s \in {"A", "C"}}
                    \cup {[op |-> o, scope |-> "none", id |-> k] : o \in HistoryReads \cup HistoryWrites, k \in Conversations}
           root == [root : {"r1", "server"}, capture : {"local", "shared"}]
           env == [dsn : {"d1", Unset}, token : {"t", Unset}, profile : {"p1", Unset},
                   project : {"p2", Unset}, bindsDsn : BOOLEAN]
           flags == [root : {"r1", Unset}, url : {"u1", Unset}, schema : {"x", Unset}, profile : {"p3", Unset}]
           bind == [source : {"s1", Unset}, to : {"e1", "e2"}, project : {"q", Unset},
                    profile : {"p1", "p2"}, replace : BOOLEAN]
           call == [config : {"c1", "c2"}, event : {"prompt", "stop"}, dies : {"no", "guarded", "spooled", "landed"},
                    fails : {FALSE}]
                   \cup [config : {"c1"}, event : {"stop"}, dies : {"no"}, fails : {TRUE}]
                   \cup [config : {"off"}, event : {"stop"}, dies : {"no"}, fails : {FALSE}]
           registry == [sources : [{"s1"} -> {"e1", Unset}], projects : [{"q"} -> {"p1", Unset}]]
           routed == [p : profile, call : calls, exists : BOOLEAN, b : [{"s1", "s2"} -> root]]
           listed == [p : profile, store : [sessions : SUBSET Conversations], names : Conversations \cup {Unset}]
           filtered == [event : Events, policy : [fields : SUBSET Fields, excluded : BOOLEAN], texts : SUBSET Contents]
           guarded == [1..3 -> call]
           registered == [flags : flags, env : env, later : env]
           rebound == [reg : registry, first : bind, second : bind]
           rendered == [limit : 4..14, sizes : UNION {[1..n -> 0..6] : n \in 1..3}]
<1>1. ProfileInputs \subseteq
        UNION {Of("route", routed), Of("sessions", listed), Of("filter", filtered), Of("guard", guarded),
               Of("installed", registered), Of("bind", rebound), Of("budget", rendered)}
  <2> DEFINE valid == {p \in profile : p.mode # "off" => p.history # Unset /\ p.history.ids = {"own"}}
             few == {c \in calls : c.op \in {"read", "write", "delete", "search_memory", "prune_changes",
                                             "read_turns", "append_turn", "restore_scope"}}
             shared == [p : {p \in valid : p.mode = "shared" /\ Cardinality(p.mounts) = 1}, call : calls,
                        exists : BOOLEAN, b : {[s \in {"s1", "s2"} |-> [root |-> "server", capture |-> "shared"]]}]
             mounted == [p : {p \in valid : p.mode # "shared" /\ \E m \in p.mounts : m.scope = "A"}, call : few,
                         exists : BOOLEAN, b : {[s \in {"s1", "s2"} |-> [root |-> "r1", capture |-> "local"]],
                          [s \in {"s1", "s2"} |-> [root |-> IF s = "s1" THEN "r1" ELSE "server", capture |-> "local"]]}]
             sessions == [p : valid, store : [sessions : SUBSET Conversations], names : Conversations \cup {Unset}]
             filter == [event : Events, policy : [fields : SUBSET Fields, excluded : BOOLEAN],
                        texts : {{"prompt", "last_assistant_message", "text", "tool_inputs", "tool_outputs"},
                                 {"prompt", "text"}, {"tool_outputs"}, {}}]
             installed == [flags : {f \in flags : Cardinality({k \in DOMAIN f : f[k] # Unset}) <= 2},
                           env : env, later : env]
  <2>1. ProfileInputs = Of("route", shared) \cup Of("route", mounted) \cup Of("sessions", sessions)
                        \cup Of("filter", filter) \cup Of("guard", guarded) \cup Of("installed", installed)
                        \cup Of("bind", rebound) \cup Of("budget", rendered)
    BY DEF ProfileInputs
  <2>2. shared \subseteq routed
    <3>1. {[s \in {"s1", "s2"} |-> [root |-> "server", capture |-> "shared"]]} \subseteq [{"s1", "s2"} -> root] OBVIOUS
    <3> HIDE DEF profile, calls, root
    <3> QED BY <3>1
  <2>3. mounted \subseteq routed
    <3>1. {[s \in {"s1", "s2"} |-> [root |-> "r1", capture |-> "local"]],
           [s \in {"s1", "s2"} |-> [root |-> IF s = "s1" THEN "r1" ELSE "server", capture |-> "local"]]}
          \subseteq [{"s1", "s2"} -> root] OBVIOUS
    <3> HIDE DEF profile, calls, root
    <3> QED BY <3>1
  <2>4. sessions \subseteq listed
    <3> HIDE DEF profile
    <3> QED OBVIOUS
  <2>5. filter \subseteq filtered
    <3>1. {{"prompt", "last_assistant_message", "text", "tool_inputs", "tool_outputs"},
           {"prompt", "text"}, {"tool_outputs"}, {}} \subseteq SUBSET Contents BY DEF Contents
    <3> QED BY <3>1
  <2>6. installed \subseteq registered
    <3> HIDE DEF flags, env
    <3> QED OBVIOUS
  <2> HIDE DEF shared, mounted, sessions, filter, installed, routed, listed, filtered, guarded, registered, rebound, rendered
  <2>7. Of("route", shared) \subseteq Of("route", routed) /\ Of("route", mounted) \subseteq Of("route", routed)
    BY <2>2, <2>3, OfWidens
  <2>8. Of("sessions", sessions) \subseteq Of("sessions", listed) BY <2>4, OfWidens
  <2>9. Of("filter", filter) \subseteq Of("filter", filtered) BY <2>5, OfWidens
  <2>10. Of("installed", installed) \subseteq Of("installed", registered) BY <2>6, OfWidens
  <2> QED BY <2>1, <2>7, <2>8, <2>9, <2>10
<1>2. profile \subseteq Profile(N)
  <2>1. mount \subseteq [source : N, scope : N, access : Accesses] BY DEF RunNames
  <2>2. past \subseteq [source : N, scope : N, ids : SUBSET N, prefix : BOOLEAN] BY DEF RunNames
  <2> HIDE DEF mount, past, N
  <2> QED BY <2>1, <2>2 DEF Profile
<1>3. calls \subseteq [op : Operations, scope : N, id : N] BY DEF Operations, RunNames, Conversations
<1>4. Of("route", routed) \subseteq Routed(N)
  <2>1. [{"s1", "s2"} -> root] \subseteq UNION {[S -> [root : N, capture : {"local", "shared"}]] : S \in SUBSET N}
    BY DEF RunNames
  <2> HIDE DEF profile, calls, root, N
  <2> QED BY <1>2, <1>3, <2>1 DEF Routed, Of
<1>5. Of("sessions", listed) \subseteq Browsed(N)
  <2>1. Conversations \subseteq N BY DEF Conversations, RunNames
  <2> HIDE DEF profile, N
  <2> QED BY <1>2, <2>1 DEF Browsed, Of, Opt
<1>6. Of("filter", filtered) \subseteq Filtered BY DEF Filtered, Of
<1>7. Of("guard", guarded) \subseteq Guarded(N)
  <2>1. call \subseteq Call(N \ {"off"}) BY DEF Call, RunNames
  <2> HIDE DEF call, N
  <2>2. ASSUME NEW f \in guarded PROVE f \in Seq(Call(N \ {"off"}))
    <3> DEFINE T == Call(N \ {"off"})
    <3>1. f \in [1..3 -> T] BY <2>1
    <3> HIDE DEF T
    <3>2. \A n \in Nat : [1..n -> T] \subseteq Seq(T) OBVIOUS
    <3>3. f \in Seq(T) BY <3>1, <3>2
    <3> QED BY <3>3 DEF T
  <2> QED BY <2>2 DEF Guarded, Of
<1>8. Of("installed", registered) \subseteq Registered(N)
  <2>1. flags \subseteq Flags(N) /\ env \subseteq Environment(N) BY DEF Flags, Environment, Opt, RunNames
  <2> HIDE DEF flags, env, N
  <2> QED BY <2>1 DEF Registered, Of
<1>9. Of("bind", rebound) \subseteq Rebound(N)
  <2>1. bind \subseteq Binding(N) BY DEF Binding, Opt, RunNames
  <2>2. [{"s1"} -> {"e1", Unset}] \subseteq UNION {[S -> Opt(N)] : S \in SUBSET N} BY DEF Opt, RunNames
  <2>3. [{"q"} -> {"p1", Unset}] \subseteq UNION {[S -> Opt(N)] : S \in SUBSET N} BY DEF Opt, RunNames
  <2>4. registry \subseteq Registry(N)
    <3> HIDE DEF N
    <3> QED BY <2>2, <2>3 DEF Registry
  <2> HIDE DEF bind, registry, N
  <2> QED BY <2>1, <2>4 DEF Rebound, Of
<1>10. Of("budget", rendered) \subseteq Rendered
  <2>1. \A n \in 1..3 : [1..n -> 0..6] \subseteq Seq(Nat) OBVIOUS
  <2> QED BY <2>1 DEF Rendered, Of, Footer
<1> HIDE DEF routed, listed, filtered, guarded, registered, rebound, rendered, N
<1>11. UNION {Of("route", routed), Of("sessions", listed), Of("filter", filtered), Of("guard", guarded),
               Of("installed", registered), Of("bind", rebound), Of("budget", rendered)} \subseteq AnyProfileInput(N)
  BY <1>4, <1>5, <1>6, <1>7, <1>8, <1>9, <1>10 DEF AnyProfileInput
<1> QED BY <1>1, <1>11 DEF N

(***************************************************************************)
(* Native memory.  A copy is whole when its document has the version of its *)
(* last row, no receipt is ahead of the rows, the receipt of its version is *)
(* of who wrote it, and a place where something was erased has rows.        *)
(***************************************************************************)
NativeSource(Names) ==
    [name : Names, agent : Names, source : Names, project : Names \cup {Unset}, store : Names, scope : Names]
PlacesOf(regs) == {Place(r) : r \in regs}
Versioned(Names) == [version : Nat, content : Names]
Copy(Names, regs) ==
    [doc : [version : Nat, content : Names, redacted : BOOLEAN] \cup {Unset}, rows : Nat,
     receipts : [regs -> Versioned(Names) \cup {Unset}], by : regs \cup {Unset}, gone : BOOLEAN, wrong : {{}}]
Whole(c) ==
    /\ c.doc # Unset => c.doc.version = c.rows /\ c.rows # 0
    /\ \A r \in DOMAIN c.receipts : c.receipts[r] # Unset =>
          /\ c.receipts[r].version <= c.rows
          /\ c.doc # Unset /\ c.receipts[r].version = c.doc.version => c.by = r
    /\ c.gone => c.rows # 0
WholeCopies(Names, regs) == {c \in Copy(Names, regs) : Whole(c)}
NativeStates(Names, regs) ==
    [registry : Seq(regs), files : [{r.source : r \in regs} -> [content : Names, steady : BOOLEAN]],
     copies : [PlacesOf(regs) -> WholeCopies(Names, regs)], bound : Names, collection : BOOLEAN]

LEMMA WrittenWhole ==
  ASSUME NEW Names, NEW regs, Unset \notin regs, NEW c \in WholeCopies(Names, regs), NEW content \in Names, NEW by \in regs \cup {Unset}
  PROVE  NativeWritten(c, content, by) \in WholeCopies(Names, regs)
<1> DEFINE version == c.rows + 1
           receipt == [version |-> version, content |-> content]
           receipts == IF by = Unset THEN c.receipts ELSE [c.receipts EXCEPT ![by] = receipt]
           doc == [version |-> version, content |-> content, redacted |-> FALSE]
           t == [doc |-> doc, rows |-> version, receipts |-> receipts, by |-> by, gone |-> c.gone, wrong |-> c.wrong]
<1>1. /\ c.rows \in Nat /\ c.receipts \in [regs -> Versioned(Names) \cup {Unset}] /\ c.gone \in BOOLEAN
      /\ c.wrong \in {{}} /\ Whole(c)
  BY DEF WholeCopies, Copy
<1>2. NextAfter(c.rows, c.doc) = version BY <1>1 DEF NextAfter, Whole
<1>3. t = NativeWritten(c, content, by) BY <1>2 DEF NativeWritten
<1>4. version \in Nat /\ version # 0 BY <1>1
<1>5. receipt \in Versioned(Names) BY <1>4 DEF Versioned
<1>6. receipts \in [regs -> Versioned(Names) \cup {Unset}]
  <2> HIDE DEF receipt
  <2> QED BY <1>1, <1>5
<1>7. \A r \in regs : receipts[r] = (IF by # Unset /\ r = by THEN receipt ELSE c.receipts[r])
  <2> HIDE DEF receipt
  <2> QED BY <1>1
<1>8. doc \in [version : Nat, content : Names, redacted : BOOLEAN] BY <1>4
<1>9. t \in Copy(Names, regs)
  <2> HIDE DEF doc, version, receipts
  <2> QED BY <1>1, <1>4, <1>6, <1>8 DEF Copy
<1>10. Whole(t)
  <2>1. ASSUME NEW r \in regs, receipts[r] # Unset
        PROVE  receipts[r].version <= version /\ (receipts[r].version = version => by = r)
    <3>1. CASE by # Unset /\ r = by BY <1>4, <1>7, <3>1
    <3>2. CASE ~(by # Unset /\ r = by)
      <4>1. receipts[r] = c.receipts[r] BY <1>7, <3>2
      <4>2. c.receipts[r] # Unset /\ c.receipts[r].version <= c.rows BY <1>1, <2>1, <4>1 DEF Whole
      <4>3. c.receipts[r] \in Versioned(Names) BY <1>1, <4>2
      <4>4. c.receipts[r].version \in Nat BY <4>3 DEF Versioned
      <4> HIDE DEF receipts
      <4> QED BY <1>1, <4>1, <4>2, <4>4
    <3> QED BY <3>1, <3>2
  <2>2. DOMAIN receipts = regs BY <1>6
  <2>3. c.gone => version # 0 BY <1>4
  <2> HIDE DEF receipts, version
  <2> QED BY <1>4, <2>1, <2>2, <2>3 DEF Whole
<1> HIDE DEF t
<1> QED BY <1>3, <1>9, <1>10 DEF WholeCopies

LEMMA CommandedWhole ==
  ASSUME NEW Names, NEW regs, Unset \notin regs, "erased" \in Names, NEW c \in WholeCopies(Names, regs),
         NEW e, e.do \in {"edit", "delete", "redact"}, e.do = "edit" => e.content \in Names
  PROVE  Commanded(c, e) \in WholeCopies(Names, regs)
<1>1. /\ c \in Copy(Names, regs) /\ Whole(c) BY DEF WholeCopies
<1>2. CASE e.do = "edit"
  <2>1. NativeWritten(c, e.content, Unset) \in WholeCopies(Names, regs) BY <1>2, WrittenWhole
  <2> QED BY <1>2, <2>1 DEF Commanded
<1>3. CASE e.do = "delete"
  <2>1. Deleted(c) \in Copy(Names, regs) BY <1>1 DEF Deleted, Copy
  <2>2. Whole(Deleted(c))
    <3>1. c.rows \in Nat /\ c.receipts \in [regs -> Versioned(Names) \cup {Unset}] BY <1>1 DEF Copy
    <3>2. \A r \in regs : c.receipts[r] # Unset => c.receipts[r].version <= c.rows + 1
      <4> SUFFICES ASSUME NEW r \in regs, c.receipts[r] # Unset PROVE c.receipts[r].version <= c.rows + 1 OBVIOUS
      <4>1. c.receipts[r].version \in Nat BY <3>1 DEF Versioned
      <4>2. c.receipts[r].version <= c.rows BY <1>1, <3>1 DEF Whole
      <4> QED BY <3>1, <4>1, <4>2
    <3> QED BY <3>1, <3>2 DEF Whole, Deleted
  <2> QED BY <1>3, <2>1, <2>2 DEF Commanded, WholeCopies
<1>4. CASE e.do = "redact"
  <2>1. c.doc # Unset => Redacted(c) \in Copy(Names, regs) BY <1>1 DEF Redacted, Copy
  <2>2. c.doc # Unset => Whole(Redacted(c)) BY <1>1 DEF Whole, Redacted
  <2> QED BY <1>4, <2>1, <2>2 DEF Commanded, WholeCopies
<1> QED BY <1>2, <1>3, <1>4

LEMMA CaptureKeepsWhole ==
  ASSUME NEW Names, NEW regs, Unset \notin regs, NEW s \in NativeStates(Names, regs), NEW reg \in regs,
         s.bound = reg.scope, NEW content \in Names, NEW write
  PROVE  Capture(s, reg, content, write) \in NativeStates(Names, regs)
<1> DEFINE key == Place(reg)
           c == s.copies[key]
           verdict == Verdict(s, key, reg, content)
           w == NativeWritten(c, content, reg)
           t == [w EXCEPT !.wrong = @ \cup Wrongs(s, c, reg, verdict)]
<1>1. key \in PlacesOf(regs) BY DEF PlacesOf
<1>2. c \in WholeCopies(Names, regs) BY <1>1 DEF NativeStates
<1>3. /\ c \in Copy(Names, regs) /\ Whole(c) BY <1>2 DEF WholeCopies
<1>4. w \in WholeCopies(Names, regs) BY <1>2, WrittenWhole
<1>5. reg \in DOMAIN c.receipts BY <1>3 DEF Copy
<1>6. Wrongs(s, c, reg, verdict) = {}
  <2>1. verdict = "replace" => c.by = reg BY <1>3, <1>5 DEF Verdict, Whole
  <2>2. verdict = "create" => ~c.gone BY <1>3 DEF Verdict, Whole
  <2> HIDE DEF verdict, c
  <2> QED BY <2>1, <2>2 DEF Wrongs
<1>7. t = w BY <1>4, <1>6 DEF WholeCopies, Copy
<1>8. Capture(s, reg, content, write) \in {s, [s EXCEPT !.copies = [s.copies EXCEPT ![key] = t]]} BY DEF Capture
<1> HIDE DEF t, w, c, key, verdict
<1>9. [s.copies EXCEPT ![key] = t] \in [PlacesOf(regs) -> WholeCopies(Names, regs)] BY <1>1, <1>4, <1>7 DEF NativeStates
<1> DEFINE cs == [s.copies EXCEPT ![key] = t]
<1> HIDE DEF cs
<1>10. [s EXCEPT !.copies = cs] \in NativeStates(Names, regs) BY <1>9 DEF NativeStates, cs
<1> QED BY <1>8, <1>10 DEF cs

LEMMA SyncKeepsWhole ==
  ASSUME NEW Names, NEW regs, Unset \notin regs, Unset \notin Names, regs \subseteq NativeSource(Names),
         NEW s \in NativeStates(Names, regs), NEW reg \in regs, NEW store, NEW write
  PROVE  Sync(s, reg, store, write) \in NativeStates(Names, regs)
<1>1. CASE ~Authority(s, reg, store) \/ Scan(s, reg) = Unset BY <1>1 DEF Sync
<1>2. CASE Authority(s, reg, store) /\ Scan(s, reg) # Unset
  <2>1. s.bound = reg.scope BY <1>2 DEF Authority
  <2>2. s.files[reg.source] \in [content : Names, steady : BOOLEAN] BY DEF NativeStates
  <2>3. Scan(s, reg) \in Names BY <1>2, <2>2 DEF Scan
  <2>4. Capture(s, reg, Scan(s, reg), write) \in NativeStates(Names, regs) BY <2>1, <2>3, CaptureKeepsWhole
  <2> QED BY <1>2, <2>4 DEF Sync
<1> QED BY <1>1, <1>2

LEMMA SyncAllKeepsWhole ==
  ASSUME NEW Names, NEW regs, Unset \notin regs, Unset \notin Names, regs \subseteq NativeSource(Names),
         NEW s \in NativeStates(Names, regs), NEW e
  PROVE  SyncAll(s, e) \in NativeStates(Names, regs)
<1> DEFINE q == s.registry
           N == Len(q)
           T == NativeStates(Names, regs)
           runs(reg) == Matches(reg, e.agent, e.project) /\ reg.store = "home"
           Next1(x, k) == IF runs(q[k]) THEN Sync(x, q[k], "home", TRUE) ELSE x
           step == [x \in T |-> [k \in 1..N |-> Next1(x, k)]]
           After(f) == f = [k \in 0..N |-> IF k = 0 THEN s ELSE Next1(f[k - 1], k)]
<1>0. q \in Seq(regs) /\ N \in Nat BY DEF NativeStates
<1>a. \A x \in T, k \in 1..N : Next1(x, k) \in T
  <2> TAKE x \in T, k \in 1..N
  <2>1. q[k] \in regs BY <1>0
  <2>2. Sync(x, q[k], "home", TRUE) \in T BY <2>1, SyncKeepsWhole
  <2> HIDE DEF T
  <2> QED BY <2>2
<1> HIDE DEF Next1
<1>1. s \in T /\ step \in [T -> [1..N -> T]]
  <2> HIDE DEF N
  <2>1. s \in T OBVIOUS
  <2> HIDE DEF T
  <2> QED BY <1>a, <2>1
<1>2. PICK f : RunOf(f, N, T, s, step)
  <2> HIDE DEF step, N, T
  <2> QED BY <1>0, <1>1, RunExists DEF N
<1> HIDE DEF T
<1>3. \A k \in 0..N : f[k] = IF k = 0 THEN s ELSE Next1(f[k - 1], k)
  <2> SUFFICES ASSUME NEW k \in 1..N PROVE f[k] = Next1(f[k - 1], k)
    BY <1>2 DEF RunOf
  <2>1. f[k - 1] \in T BY <1>0, <1>2 DEF RunOf
  <2> QED BY <1>2, <2>1 DEF RunOf
<1>4. After(f)
  <2>1. f = [k \in 0..N |-> f[k]] BY <1>2 DEF RunOf
  <2> QED BY <1>3, <2>1
<1>5. PICK g : After(g) /\ SyncAll(s, e) = g[N] BY <1>4, Zenon DEF SyncAll, Next1
<1>6. \A k \in 0..N : g[k] = IF k = 0 THEN s ELSE Next1(g[k - 1], k) BY <1>5
<1> DEFINE S == {k \in Nat : k <= N => g[k] \in T}
<1>7. 0 \in S BY <1>0, <1>1, <1>6
<1>8. ASSUME NEW k \in Nat, k \in S PROVE k + 1 \in S
  <2>1. k + 1 <= N => g[k + 1] = Next1(g[k], k + 1) BY <1>0, <1>6
  <2> QED BY <1>0, <1>a, <1>8, <2>1
<1>9. N \in S
  <2> HIDE DEF S
  <2> QED BY <1>0, <1>7, <1>8, Induction
<1>10. g[N] \in T BY <1>0, <1>9
<1> QED BY <1>5, <1>10 DEF T

\* What a client, a memory command or the operator may do.
NativeEvents(Names, regs) ==
    UNION {[do : {"hook"}, kind : Names, agent : Names, project : Names, subagent : BOOLEAN],
           [do : {"add"}, reg : regs],
           [do : {"remove"}, name : Names],
           [do : {"save"}, source : Names, content : Names, steady : BOOLEAN],
           [do : {"edit"}, key : PlacesOf(regs), content : Names],
           [do : {"delete", "redact"}, key : PlacesOf(regs)],
           [do : {"bind"}, scope : Names],
           [do : {"govern"}]}
LEMMA NativeEventKeepsWhole ==
  ASSUME NEW Names, NEW regs, Unset \notin regs, Unset \notin Names, "erased" \in Names, regs \subseteq NativeSource(Names),
         NEW s \in NativeStates(Names, regs), NEW e \in NativeEvents(Names, regs)
  PROVE  NativeEvent(s, e) \in NativeStates(Names, regs)
<1> DEFINE T == NativeStates(Names, regs)
<1>0. /\ s.registry \in Seq(regs) /\ s.files \in [{r.source : r \in regs} -> [content : Names, steady : BOOLEAN]]
      /\ s.copies \in [PlacesOf(regs) -> WholeCopies(Names, regs)]
  BY DEF NativeStates
<1>1. CASE e.do = "hook"
  <2>1. SyncAll(s, e) \in T BY SyncAllKeepsWhole
  <2> QED BY <1>1, <2>1 DEF NativeEvent, NativeHook
<1>2. CASE e.do = "add"
  <2>1. e.reg \in regs BY <1>2 DEF NativeEvents
  <2>2. Append(s.registry, e.reg) \in Seq(regs) BY <1>0, <2>1
  <2>3. [s EXCEPT !.registry = Append(@, e.reg)] \in T BY <2>2 DEF NativeStates
  <2> QED BY <1>2, <2>3 DEF NativeEvent, AddSource
<1>3. CASE e.do = "remove"
  <2>1. ASSUME NEW i \in DOMAIN s.registry
        PROVE  [s EXCEPT !.registry = SubSeq(@, 1, i - 1) \o SubSeq(@, i + 1, Len(@))] \in T
    <3>1. SubSeq(s.registry, 1, i - 1) \in Seq(regs) /\ SubSeq(s.registry, i + 1, Len(s.registry)) \in Seq(regs)
      BY <1>0
    <3>2. SubSeq(s.registry, 1, i - 1) \o SubSeq(s.registry, i + 1, Len(s.registry)) \in Seq(regs) BY <3>1
    <3> QED BY <3>2 DEF NativeStates
  <2>2. Registers(s, e.name) \subseteq DOMAIN s.registry BY DEF Registers
  <2> HIDE DEF T
  <2>3. RemoveSource(s, e.name) \in T BY <2>1, <2>2 DEF RemoveSource, T
  <2> QED BY <1>3, <2>3 DEF NativeEvent, T
<1>4. CASE e.do = "save"
  <2> DEFINE file == [content |-> e.content, steady |-> e.steady]
             files == [s.files EXCEPT ![e.source] = file]
  <2>1. file \in [content : Names, steady : BOOLEAN] BY <1>4 DEF NativeEvents
  <2>2. NativeEvent(s, e) = [s EXCEPT !.files = files] BY <1>4 DEF NativeEvent
  <2> HIDE DEF file
  <2>3. files \in [{r.source : r \in regs} -> [content : Names, steady : BOOLEAN]] BY <1>0, <2>1
  <2> HIDE DEF files
  <2> QED BY <2>2, <2>3 DEF NativeStates
<1>5. CASE e.do \in {"edit", "delete", "redact"}
  <2> DEFINE c == Commanded(s.copies[e.key], e)
             copies == [s.copies EXCEPT ![e.key] = c]
  <2>1. e.key \in PlacesOf(regs) /\ (e.do = "edit" => e.content \in Names) BY <1>5 DEF NativeEvents
  <2>2. s.copies[e.key] \in WholeCopies(Names, regs) BY <1>0, <2>1
  <2>3. c \in WholeCopies(Names, regs) BY <1>5, <2>1, <2>2, CommandedWhole
  <2>4. NativeEvent(s, e) = [s EXCEPT !.copies = copies] BY <1>5 DEF NativeEvent
  <2> HIDE DEF c
  <2>5. copies \in [PlacesOf(regs) -> WholeCopies(Names, regs)] BY <1>0, <2>3
  <2> HIDE DEF copies
  <2> QED BY <2>4, <2>5 DEF NativeStates
<1>6. CASE e.do = "bind"
  <2>1. e.scope \in Names BY <1>6 DEF NativeEvents
  <2>2. NativeEvent(s, e) = [s EXCEPT !.bound = e.scope] BY <1>6 DEF NativeEvent
  <2> QED BY <2>1, <2>2 DEF NativeStates
<1>7. CASE e.do = "govern"
  <2>1. NativeEvent(s, e) = [s EXCEPT !.collection = TRUE] BY <1>7 DEF NativeEvent
  <2> QED BY <2>1 DEF NativeStates
<1>8. e.do \in {"hook", "add", "remove", "save", "edit", "delete", "redact", "bind", "govern"} BY DEF NativeEvents
<1> QED BY <1>1, <1>2, <1>3, <1>4, <1>5, <1>6, <1>7, <1>8

LEMMA NativeLifeWhole ==
  ASSUME NEW Names, NEW regs, Unset \notin regs, Unset \notin Names, "erased" \in Names, regs \subseteq NativeSource(Names),
         NEW s \in NativeStates(Names, regs), NEW events \in Seq(NativeEvents(Names, regs))
  PROVE  NativeLife(s, events) \in NativeStates(Names, regs)
<1> DEFINE N == Len(events)
           T == NativeStates(Names, regs)
           step == [x \in T |-> [k \in 1..N |-> NativeEvent(x, events[k])]]
           After(f) == f = [k \in 0..N |-> IF k = 0 THEN s ELSE NativeEvent(f[k - 1], events[k])]
<1>0. N \in Nat OBVIOUS
<1>a. \A x \in T, k \in 1..N : NativeEvent(x, events[k]) \in T
  <2> TAKE x \in T, k \in 1..N
  <2>1. events[k] \in NativeEvents(Names, regs) OBVIOUS
  <2> QED BY <2>1, NativeEventKeepsWhole
<1>1. s \in T /\ step \in [T -> [1..N -> T]]
  <2> HIDE DEF N
  <2>1. s \in T OBVIOUS
  <2> HIDE DEF T
  <2> QED BY <1>a, <2>1
<1>2. PICK f : RunOf(f, N, T, s, step)
  <2> HIDE DEF step, N, T
  <2> QED BY <1>0, <1>1, RunExists
<1> HIDE DEF T
<1>3. \A k \in 0..N : f[k] = IF k = 0 THEN s ELSE NativeEvent(f[k - 1], events[k])
  <2> SUFFICES ASSUME NEW k \in 1..N PROVE f[k] = NativeEvent(f[k - 1], events[k])
    BY <1>2 DEF RunOf
  <2>1. f[k - 1] \in T BY <1>0, <1>2 DEF RunOf
  <2> QED BY <1>2, <2>1 DEF RunOf
<1>4. After(f)
  <2>1. f = [k \in 0..N |-> f[k]] BY <1>2 DEF RunOf
  <2> QED BY <1>3, <2>1
<1>5. PICK g : After(g) /\ NativeLife(s, events) = g[N] BY <1>4, Zenon DEF NativeLife
<1>6. \A k \in 0..N : g[k] = IF k = 0 THEN s ELSE NativeEvent(g[k - 1], events[k]) BY <1>5
<1> DEFINE S == {k \in Nat : k <= N => g[k] \in T}
<1>7. 0 \in S BY <1>0, <1>1, <1>6
<1>8. ASSUME NEW k \in Nat, k \in S PROVE k + 1 \in S
  <2>1. k + 1 <= N => g[k + 1] = NativeEvent(g[k], events[k + 1]) BY <1>0, <1>6
  <2> QED BY <1>0, <1>a, <1>8, <2>1
<1>9. N \in S
  <2> HIDE DEF S
  <2> QED BY <1>0, <1>7, <1>8, Induction
<1>10. g[N] \in T BY <1>0, <1>9
<1> QED BY <1>5, <1>10 DEF T

AnyNativeInput(Names) ==
    UNION {Of("native", [regs : {regs}, scope : Names, events : Seq(NativeEvents(Names, regs))]) :
             regs \in SUBSET NativeSource(Names)}

\* However many registrations somebody may make, of whatever names, projects and
\* scopes, and however long hooks, edits, erasures, new bindings and removals of
\* consent follow one another: a capture replaces only what its registration wrote
\* last, brings back nothing that was erased, and stays in the consented scope.
THEOREM NativeRulesHold ==
  ASSUME NEW Names, Unset \notin Names, "one" \in Names, "erased" \in Names,
         Unset \notin NativeSource(Names), input \in AnyNativeInput(Names)
  PROVE  NativeRules
<1> DEFINE regs == input.in.regs
           s == Fresh(regs, input.in.scope)
           t == NativeLife(s, input.in.events)
<1>1. /\ regs \in SUBSET NativeSource(Names) /\ input.in.scope \in Names
      /\ input.in.events \in Seq(NativeEvents(Names, regs))
  <2>1. PICK r \in SUBSET NativeSource(Names) :
          input \in Of("native", [regs : {r}, scope : Names, events : Seq(NativeEvents(Names, r))])
    BY DEF AnyNativeInput
  <2>2. input.in.regs = r /\ input.in.scope \in Names /\ input.in.events \in Seq(NativeEvents(Names, r))
    BY <2>1 DEF Of
  <2> QED BY <2>2
<1> DEFINE empty == [doc |-> Unset, rows |-> 0, receipts |-> [r \in regs |-> Unset], by |-> Unset,
                     gone |-> FALSE, wrong |-> {}]
<1> HIDE DEF regs
<1>2. empty \in WholeCopies(Names, regs)
  <2>1. empty \in Copy(Names, regs) BY DEF Copy
  <2>2. Whole(empty) BY DEF Whole
  <2> QED BY <2>1, <2>2 DEF WholeCopies
<1>3. s \in NativeStates(Names, regs)
  <2> DEFINE file == [content |-> "one", steady |-> TRUE]
             fs == [f \in {r.source : r \in regs} |-> file]
             cs == [k \in PlacesOf(regs) |-> empty]
  <2>1. s = [registry |-> <<>>, files |-> fs, copies |-> cs, bound |-> input.in.scope, collection |-> FALSE]
    BY DEF Fresh, PlacesOf
  <2>2. file \in [content : Names, steady : BOOLEAN] OBVIOUS
  <2> HIDE DEF empty, file
  <2>3. fs \in [{r.source : r \in regs} -> [content : Names, steady : BOOLEAN]] BY <2>2
  <2>4. cs \in [PlacesOf(regs) -> WholeCopies(Names, regs)] BY <1>2
  <2>5. <<>> \in Seq(regs) OBVIOUS
  <2> HIDE DEF fs, cs, s
  <2> QED BY <1>1, <2>1, <2>3, <2>4, <2>5 DEF NativeStates
<1> HIDE DEF s
<1>4. t \in NativeStates(Names, regs)
  <2>1. Unset \notin regs /\ regs \subseteq NativeSource(Names) BY <1>1
  <2> QED BY <1>1, <1>3, <2>1, NativeLifeWhole
<1>5. Wrong(input.in) = {}
  <2>1. Wrong(input.in) = UNION {t.copies[k].wrong : k \in DOMAIN t.copies} BY DEF Wrong, s, regs
  <2>2. t.copies \in [PlacesOf(regs) -> WholeCopies(Names, regs)] BY <1>4 DEF NativeStates
  <2>3. ASSUME NEW k \in DOMAIN t.copies PROVE t.copies[k].wrong = {}
    <3>1. t.copies[k] \in Copy(Names, regs) BY <2>2 DEF WholeCopies
    <3> QED BY <3>1 DEF Copy
  <2> HIDE DEF t
  <2> QED BY <2>1, <2>3
<1> QED BY <1>5 DEF NativeRules, CaptureReplacesItsOwn, ErasedCopiesStayGone, CaptureStaysInConsent

NativeNames == {"notes", "codex", "claude-code", "home", "f", "g", "x", "y", "s1", "s2", "one", "two", "erased", "Stop"}
LEMMA NativeInputsCovered == NativeInputs \subseteq AnyNativeInput(NativeNames)
<1> DEFINE N == NativeNames
           hook(agent, project, subagent) ==
             [do |-> "hook", kind |-> "Stop", agent |-> agent, project |-> project, subagent |-> subagent]
           first == [do |-> "add", reg |-> Registration("f", Unset, "s1")]
           last == hook("codex", "x", FALSE)
           others == {hook("codex", "x", FALSE), hook("codex", "y", FALSE)}
                     \cup [do : {"add"}, reg : Registrations] \cup [do : {"remove"}, name : {"notes"}]
                     \cup [do : {"save"}, source : {"f"}, content : {"one", "two"}, steady : BOOLEAN]
                     \cup [do : {"edit"}, key : {<<"s1", "notes">>}, content : {"one", "two"}]
                     \cup [do : {"delete", "redact"}, key : {<<"s1", "notes">>}]
                     \cup [do : {"bind"}, scope : {"s1", "s2"}] \cup [do : {"govern"}]
           strange == {hook("claude-code", "x", FALSE), hook("codex", "x", TRUE)}
           E == NativeEvents(N, Registrations)
<1>1. Registrations \subseteq NativeSource(N) /\ first.reg \in Registrations
  BY DEF Registrations, Registration, NativeSource, NativeNames
<1>2. <<"s1", "notes">> \in PlacesOf(Registrations)
  <2>1. Place(first.reg) = <<"s1", "notes">> BY DEF Place, Registration
  <2> QED BY <1>1, <2>1 DEF PlacesOf
<1>3. hook("codex", "x", FALSE) \in E /\ hook("codex", "y", FALSE) \in E /\ strange \subseteq E
  BY DEF NativeEvents, NativeNames
<1>4. others \subseteq E
  <2>1. [do : {"add"}, reg : Registrations] \subseteq E BY DEF NativeEvents
  <2>2. [do : {"remove"}, name : {"notes"}] \subseteq E BY DEF NativeEvents, NativeNames
  <2>3. [do : {"save"}, source : {"f"}, content : {"one", "two"}, steady : BOOLEAN] \subseteq E BY DEF NativeEvents, NativeNames
  <2>4. [do : {"edit"}, key : {<<"s1", "notes">>}, content : {"one", "two"}] \subseteq E BY <1>2 DEF NativeEvents, NativeNames
  <2>5. [do : {"delete", "redact"}, key : {<<"s1", "notes">>}] \subseteq E BY <1>2 DEF NativeEvents
  <2>6. [do : {"bind"}, scope : {"s1", "s2"}] \subseteq E BY DEF NativeEvents, NativeNames
  <2>7. [do : {"govern"}] \subseteq E BY DEF NativeEvents
  <2> HIDE DEF hook, E
  <2> QED BY <1>3, <2>1, <2>2, <2>3, <2>4, <2>5, <2>6, <2>7
<1>5. first \in E BY <1>1 DEF NativeEvents
<1>6. ASSUME NEW i \in NativeInputs
      PROVE  i.rule = "native" /\ i.in.regs = Registrations /\ i.in.scope = "s1"
             /\ i = [rule |-> i.rule, in |-> [regs |-> i.in.regs, scope |-> i.in.scope, events |-> i.in.events]]
             /\ \/ \E n \in 1..3 : \E es \in [1..n -> others] : i.in.events = <<first, last>> \o es \o <<last>>
                \/ i.in.events \in [1..3 -> others \cup strange]
  <2> DEFINE long == [regs : {Registrations}, scope : {"s1"},
                      events : {<<first, last>> \o es \o <<last>> : es \in [1..3 -> others] \cup [1..2 -> others]}]
             short == [regs : {Registrations}, scope : {"s1"}, events : [1..3 -> others \cup strange]]
  <2>1. i \in Of("native", long) \/ i \in Of("native", short) BY <1>6 DEF NativeInputs
  <2> HIDE DEF first, last, others, strange
  <2>2. CASE i \in Of("native", long)
    <3>1. i.in \in long /\ i.rule = "native" /\ i = [rule |-> i.rule, in |-> i.in] BY <2>2 DEF Of
    <3>2. PICK es \in [1..3 -> others] \cup [1..2 -> others] : i.in.events = <<first, last>> \o es \o <<last>>
      BY <3>1
    <3>3. \E n \in 1..3 : es \in [1..n -> others] BY <3>2
    <3> QED BY <3>1, <3>2, <3>3
  <2>3. CASE i \in Of("native", short) BY <2>3 DEF Of
  <2> QED BY <2>1, <2>2, <2>3
<1> HIDE DEF first, last, others, strange, E
<1> SUFFICES ASSUME NEW i \in NativeInputs PROVE i \in AnyNativeInput(N) BY DEF N
<1>7. i.in.events \in Seq(E)
  <2>1. \A n \in 1..3 : [1..n -> E] \subseteq Seq(E) OBVIOUS
  <2>2. CASE i.in.events \in [1..3 -> others \cup strange]
    <3>1. i.in.events \in [1..3 -> E] BY <1>3, <1>4, <2>2
    <3> QED BY <2>1, <3>1
  <2>3. ASSUME NEW n \in 1..3, NEW es \in [1..n -> others], i.in.events = <<first, last>> \o es \o <<last>>
        PROVE  i.in.events \in Seq(E)
    <3>1. es \in [1..n -> E] BY <1>4
    <3>2. es \in Seq(E) BY <2>1, <3>1
    <3>3. <<first, last>> \in Seq(E) /\ <<last>> \in Seq(E) BY <1>3, <1>5 DEF last
    <3>4. <<first, last>> \o es \in Seq(E) BY <3>2, <3>3
    <3> QED BY <2>3, <3>3, <3>4
  <2> QED BY <1>6, <2>2, <2>3
<1>8. "s1" \in N BY DEF NativeNames
<1> HIDE DEF N
<1> DEFINE life == [regs : {Registrations}, scope : N, events : Seq(E)]
<1>9. [regs |-> i.in.regs, scope |-> i.in.scope, events |-> i.in.events] \in life BY <1>6, <1>7, <1>8
<1>10. i \in Of("native", life)
  <2> HIDE DEF life
  <2> QED BY <1>6, <1>9 DEF Of
<1> QED BY <1>1, <1>10 DEF AnyNativeInput, E
=============================================================================
