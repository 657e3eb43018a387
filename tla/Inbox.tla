-------------------------------- MODULE Inbox --------------------------------
(***************************************************************************)
(* What a session sees of its mailbox (messaging/mailbox.rs, delivery.rs): *)
(* the sessions it succeeds, the messages a listing answers, the wakes it  *)
(* is told of, and the frame a hook delivers.  The writes are Mailbox's.   *)
(***************************************************************************)
EXTENDS RuleInput, Integers, Sequences, SequencesExt, FiniteSets, FiniteSetsExt

(***************************************************************************)
(* Lineage.  A session's document names the sessions it continues; a link  *)
(* declares one before the document is recorded.  Either may be redacted.  *)
(***************************************************************************)
Known == {"s", "t", "u", "v"}
Parents(world, x) ==
    {y \in Known : <<x, y>> \in world.documents /\ x \notin world.redacted} \cup {y \in Known : <<x, y>> \in world.links}
\* Mutant: only the session's own parents are looked at.
SucceededOnce(world, pending, found) == found \cup pending \cup UNION {Parents(world, x) : x \in pending}
RECURSIVE Succeeded(_, _, _)
Succeeded(world, pending, found) ==
    IF pending = {} THEN found
    ELSE LET x == CHOOSE x \in pending : TRUE IN
         IF x \in found THEN Succeeded(world, pending \ {x}, found)
         ELSE Succeeded(world, (pending \ {x}) \cup Parents(world, x), found \cup {x})
\* A session is addressed through itself and every session a chain of unredacted
\* notes and links leads to, whatever cycles they form, and through no other.
LineageIsTheChains ==
    Is("lineage") =>
      LET world == input.in
          reach == Succeeded(world, {"s"}, {})
          closed(set) == "s" \in set /\ \A x \in set : Parents(world, x) \subseteq set IN
      /\ closed(reach)
      /\ \A set \in SUBSET Known : closed(set) => reach \subseteq set

(***************************************************************************)
(* Listings, at the moment Now.                                            *)
(***************************************************************************)
Now == 1
DueItem(item) == item.status = "open" /\ item.due <= Now
ClaimedItem(item) == item.owner # Unset /\ item.claimUntil # Unset /\ item.claimUntil > Now
UnreadItem(item) == DueItem(item) /\ (item.readAt = Unset \/ (item.owner # Unset /\ ~ClaimedItem(item)))
\* Mutant: a wake somebody reserved is listed.
WakeListedReserved(item) ==
    item.delivery = "wake" /\ ~item.wakeAccepted /\ UnreadItem(item) /\ ~ClaimedItem(item)
WakeListed(item) ==
    /\ item.delivery = "wake" /\ ~item.wakeAccepted /\ UnreadItem(item) /\ ~ClaimedItem(item)
    /\ ~(item.wakeUntil # Unset /\ item.wakeUntil > Now)
ListedUnder(item, status) ==
    CASE status = "all" -> TRUE [] status = "unread" -> UnreadItem(item) [] status = "open" -> DueItem(item)
      [] status = "scheduled" -> item.status = "open" /\ item.due > Now [] status = "closed" -> item.status # "open"
\* Why a reservation is refused, in the order it is checked.
ReserveAnswer(item) ==
    CASE item.delivery # "wake" \/ ~UnreadItem(item) \/ item.wakeAccepted -> "none pending"
      [] item.delivery = "wake" /\ UnreadItem(item) /\ ~item.wakeAccepted /\ ClaimedItem(item) -> "claimed"
      [] item.delivery = "wake" /\ UnreadItem(item) /\ ~item.wakeAccepted /\ ~ClaimedItem(item)
           /\ item.wakeUntil # Unset /\ item.wakeUntil > Now -> "reserved"
      [] OTHER -> "reserves"
\* A watcher is told of exactly the wakes it could reserve at that moment, whether
\* a claim or an earlier reservation has lapsed or not; a message is in one of the
\* open, scheduled and closed listings, and an unread one is open.
WakesToldCanBeReserved ==
    Is("listing of messages") =>
      LET item == input.in IN
      /\ WakeListed(item) = (ReserveAnswer(item) = "reserves")
      /\ Cardinality({s \in {"open", "scheduled", "closed"} : ListedUnder(item, s)}) = 1
      /\ ListedUnder(item, "unread") => ListedUnder(item, "open")

(***************************************************************************)
(* The frame.  Summaries are their lengths.                                *)
(***************************************************************************)
ContextBudget == 12
Room(frame) == IF ContextBudget < frame THEN 0 ELSE ContextBudget - frame
\* Mutant: what joins two summaries is not counted.
UsedUnjoined(used, summary) == used + summary
UsedWith(used, summary) == used + summary + 1
CutRoom(room, used) == IF room - used - 1 < 0 THEN 0 ELSE room - used - 1
RECURSIVE Delivered(_, _, _)
Delivered(summaries, room, used) ==
    IF summaries = <<>> THEN <<>>
    ELSE IF used + Head(summaries) > room
    THEN (IF CutRoom(room, used) > 0 THEN <<CutRoom(room, used)>> ELSE <<>>)
    ELSE <<Head(summaries)>> \o Delivered(Tail(summaries), room, UsedWith(used, Head(summaries)))
JoinedLines(lines) == IF lines = <<>> THEN 0 ELSE FoldSeq(+, 0, lines) + Len(lines) - 1
\* The frame a hook delivers is never cut off at its end: the summaries it holds,
\* whole or the last one cut, and what joins them have room beside the frame, and
\* a summary is left out or cut only where the next would not fit whole.
InboxFits ==
    Is("frame") =>
      LET r == input.in
          lines == Delivered(r.summaries, Room(r.frame), 0)
          whole == {n \in 0..Len(r.summaries) : JoinedLines(SubSeq(r.summaries, 1, n)) <= Room(r.frame)} IN
      /\ r.frame <= ContextBudget => r.frame + JoinedLines(lines) <= ContextBudget
      /\ Len(lines) >= Max(whole) /\ SubSeq(lines, 1, Max(whole)) = SubSeq(r.summaries, 1, Max(whole))

InboxInputs ==
    LET pairs == {<<"s", "t">>, <<"t", "u">>, <<"u", "s">>, <<"u", "v">>, <<"v", "t">>}
        times == {Unset, 0, 1, 2} IN
    Of("lineage", [documents : SUBSET pairs, links : SUBSET pairs, redacted : SUBSET {"t", "u"}])
    \cup Of("listing of messages",
            [delivery : {"wake", "context"}, status : {"open", "done"}, due : 0..2, readAt : {Unset, 0},
             owner : {Unset, "s"}, claimUntil : times, wakeUntil : times, wakeAccepted : BOOLEAN])
    \cup Of("frame", [frame : 0..13, summaries : BoundedSeq({1, 2, 4, 7}, 4)])

\* What a session is told of its mailbox is what it could act on.
InboxRules ==
    /\ LineageIsTheChains
    /\ WakesToldCanBeReserved
    /\ InboxFits
=============================================================================
