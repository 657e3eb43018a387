------------------------------- MODULE Operator -------------------------------
(***************************************************************************)
(* The other verbs of the operator: prune (operator/erasure.rs), which plans over    *)
(* many reads, erases one conversation after the other and their sessions  *)
(* documents at the end, unjournalled; the turn ranges of audit            *)
(* (operator/audit.rs); and update (update), which installs a release.     *)
(***************************************************************************)
EXTENDS Transfer

(***************************************************************************)
(* Prune.  A conversation is its turns, oldest first, and its sessions     *)
(* document.                                                               *)
(***************************************************************************)
CONSTANTS PruneOrder,   \* the conversations, in the order of a listing
          Cutoff        \* the instant before which a turn is old
ASSUME CutoffAssumption == Cutoff \in Int
Prunable == ToSet(PruneOrder)
TurnAt(at) == [at |-> at, redacted |-> FALSE]
WhollyRedacted(turns) == \A i \in DOMAIN turns : turns[i].redacted
\* Mutant: a turn of exactly the cutoff is old.
StaleClosed(turns) == turns # <<>> /\ turns[Len(turns)].at <= Cutoff /\ ~WhollyRedacted(turns)
\* What is wholly redacted is not planned again.
Stale(turns) == turns # <<>> /\ turns[Len(turns)].at < Cutoff /\ ~WhollyRedacted(turns)
Plan(world) == {c \in Prunable : Stale(world.turns[c])}
Blacked(turns) == [i \in DOMAIN turns |-> [at |-> turns[i].at, redacted |-> TRUE]]
EraseTurns(world, ids) ==
    [turns |-> [c \in Prunable |-> IF c \in ids THEN Blacked(world.turns[c]) ELSE world.turns[c]],
     sessions |-> world.sessions]
SessionsErased(world, ids) ==
    [turns |-> world.turns,
     sessions |-> [c \in Prunable |-> IF c \in ids /\ world.sessions[c] = "live" THEN "redacted" ELSE world.sessions[c]]]
\* Mutant: every sessions document is erased.
EraseAllSessions(world, ids) == SessionsErased(world, Prunable)
EraseSessions(world, ids) == SessionsErased(world, ids)
\* A session that records meanwhile: a turn, then its document.
Records(world, change) ==
    CASE change.what = "turn" -> [turns |-> [world.turns EXCEPT ![change.id] = Append(@, TurnAt(change.at))],
                                    sessions |-> world.sessions]
      [] change.what = "document" -> [turns |-> world.turns, sessions |-> [world.sessions EXCEPT ![change.id] = "live"]]
      [] change.what = "nothing" -> world
Meanwhile(world, change, when) == IF change.when = when THEN Records(world, change) ELSE world
\* dies is after how many of the listing it stops; Unset, not at all.
Prune(world, change, dies) ==
    LET plan == Plan(world)
        erased == IF dies = Unset THEN plan ELSE {c \in plan : \E k \in DOMAIN PruneOrder : k <= dies /\ PruneOrder[k] = c}
        after == Meanwhile(EraseTurns(Meanwhile(world, change, "planned"), erased), change, "erased") IN
    IF dies = Unset THEN EraseSessions(after, plan) ELSE after
Quiet == [what |-> "nothing", when |-> "planned"]

\* What a prune previews is what it does when nobody else writes: exactly the
\* planned conversations lose their turns, all of them, with their sessions
\* documents, nothing else is touched, and a second prune has nothing to do.
PruneIsItsPreview ==
    Is("prune") =>
      LET world == input.in.world
          plan == Plan(world)
          after == Prune(world, Quiet, Unset) IN
      /\ \A c \in Prunable :
            IF c \in plan THEN after.sessions[c] # "live" /\ WhollyRedacted(after.turns[c])
            ELSE after.turns[c] = world.turns[c] /\ after.sessions[c] = world.sessions[c]
      /\ Plan(after) = {}
      /\ \A c \in plan : after.turns[c] # world.turns[c]

\* Whatever is recorded between the reads and the erasures, and wherever the prune
\* dies, only a conversation is erased that was old when it was planned, the
\* turns that are young among the erased were recorded since, and the next
\* prune erases what a dead one left of the old turns.
PruneErasesTheOld ==
    Is("prune") =>
      LET r == input.in
          before(c) == r.world.turns[c]
          after == Prune(r.world, r.change, r.dies)
          erased(c) == {i \in DOMAIN after.turns[c] :
                          after.turns[c][i].redacted /\ (i \in DOMAIN before(c) => ~before(c)[i].redacted)}
          again == Prune(after, Quiet, Unset) IN
      \A c \in Prunable :
         /\ erased(c) # {} => before(c)[Len(before(c))].at < Cutoff
         /\ \A i \in erased(c) : after.turns[c][i].at >= Cutoff => i > Len(before(c))
         /\ c \in Plan(r.world) /\ r.change.what # "turn" => WhollyRedacted(again.turns[c])

(***************************************************************************)
(* The turns an act erased, as ranges.                                     *)
(***************************************************************************)
\* Mutant: a gap of one turn is closed.
AdjoinsNear(last, next) == next <= last + 2
Adjoins(last, next) == next = last + 1
\* Each turn lengthens the last range or begins one.
Ranged(ranges, turn) ==
    LET last == ranges[Len(ranges)] IN
    IF ranges # <<>> /\ Adjoins(last[2], turn) THEN [ranges EXCEPT ![Len(ranges)] = <<last[1], turn>>]
    ELSE Append(ranges, <<turn, turn>>)
TurnRanges(turns) ==
    LET ranges[n \in 0..Len(turns)] == IF n = 0 THEN <<>> ELSE Ranged(ranges[n - 1], turns[n]) IN
    ranges[Len(turns)]
\* The audit names the turns an act erased, no more and no fewer.
RangesAreTheTurns ==
    Is("ranges") =>
      LET ranges == TurnRanges(input.in.turns) IN
      UNION {ranges[k][1]..ranges[k][2] : k \in DOMAIN ranges} = ToSet(input.in.turns)

(***************************************************************************)
(* Update.  A version is its numbers; a pre-release precedes its release.  *)
(***************************************************************************)
VersionOf(major, minor, final, rc) == <<major, minor, IF final THEN 1 ELSE 0, rc>>
AtMost(v, w) ==
    v = w \/ \E i \in 1..4 : v[i] < w[i] /\ \A j \in 1..(i - 1) : v[j] = w[j]
\* The receipt of the installer that describes this very executable.
Owned(r) == ~r.container /\ r.receipt # Unset /\ r.receipt.version = r.current /\ r.receipt.here /\ r.updater
\* Mutant: a new major is installed like any release.
MayNotApplyButMajor(r) == r.current = Unset \/ (r.latest[3] = 0 /\ r.current[3] = 1) \/ ~Owned(r)
MayNotApply(r) ==
    \/ r.current = Unset
    \/ r.current[1] # r.latest[1]
    \/ r.latest[3] = 0 /\ r.current[3] = 1
    \/ ~Owned(r)
Decide(r, applying) ==
    CASE r.latest = Unset -> "unreachable"
      [] r.latest # Unset /\ r.current # Unset /\ AtMost(r.latest, r.current) -> "current"
      [] r.latest # Unset /\ ~(r.current # Unset /\ AtMost(r.latest, r.current)) ->
           IF ~applying THEN "notify" ELSE IF MayNotApply(r) THEN "refuse" ELSE "apply"
\* The checked tag is asked for, and the executable is asked what it is then.
Install(r) == IF r.exit = 0 /\ r.reports = r.latest THEN 0 ELSE 1
DayTicks == 2    \* a day
\* An answer of the release check is used for a day, not before and not after.
Cached(r) == IF r.age >= 0 /\ r.age < DayTicks THEN r.cached ELSE Unset
HumanLatest(r) == IF Cached(r) # Unset THEN Cached(r) ELSE r.latest
\* At the human door: what the saved mode permits, and of what release.
HumanDoor(r) ==
    IF r.mode = "off" \/ HumanLatest(r) = Unset THEN "nothing"
    ELSE Decide([r EXCEPT !.latest = HumanLatest(r)], r.mode = "auto")
\* Neither the verb nor the human door ever installs an older release, another
\* major or a pre-release over a release, nor over an installation the receipt
\* does not describe; the door installs only where the mode says so, and an
\* update that reports success has left the release it checked.
UpdateOnlyForward ==
    Is("update") =>
      LET r == input.in
          forward(latest) == /\ r.current # Unset /\ AtMost(r.current, latest) /\ latest # r.current
                             /\ latest[1] = r.current[1] /\ (latest[3] = 0 => r.current[3] = 0)
                             /\ ~r.container /\ r.receipt.version = r.current /\ r.updater IN
      /\ Decide(r, TRUE) = "apply" => forward(r.latest) /\ (Install(r) = 0 => r.reports = r.latest)
      /\ HumanDoor(r) = "apply" => r.mode = "auto" /\ forward(HumanLatest(r))
      /\ Decide(r, FALSE) \notin {"apply", "refuse"}

OperatorInputs ==
    LET turns == {s \in UNION {[1..n -> [at : {Cutoff - 1, Cutoff}, redacted : BOOLEAN]] : n \in 0..2} :
                    \A i \in 2..Len(s) : s[i - 1].at <= s[i].at}
        versions == {VersionOf(1, 0, TRUE, 0), VersionOf(1, 1, FALSE, 1), VersionOf(1, 1, FALSE, 2), VersionOf(1, 1, TRUE, 0),
                     VersionOf(2, 0, TRUE, 0)} IN
    Of("prune", [world : [turns : [Prunable -> turns], sessions : [Prunable -> {"none", "live"}]],
                 change : {Quiet} \cup [what : {"turn"}, id : Prunable, at : {Cutoff + 1}, when : {"planned", "erased"}]
                          \cup [what : {"document"}, id : Prunable, when : {"planned", "erased"}],
                 dies : {Unset, 0, 1}])
    \cup Of("ranges", [turns : {s \in UNION {[1..n -> 1..6] : n \in 0..5} : \A i \in 2..Len(s) : s[i - 1] < s[i]}])
    \cup Of("update", [current : versions \cup {Unset}, latest : versions \cup {Unset},
                       cached : {Unset, VersionOf(1, 1, TRUE, 0), VersionOf(2, 0, TRUE, 0)}, age : {-1, 1, 2}, mode : {"off", "notify", "auto"},
                       container : BOOLEAN, updater : BOOLEAN, exit : {0, 1}, reports : {VersionOf(1, 1, TRUE, 0)},
                       receipt : {Unset} \cup [version : {VersionOf(1, 0, TRUE, 0), VersionOf(1, 1, FALSE, 1)}, here : BOOLEAN]])

\* The operator's verbs do what they say.
OperatorRules ==
    /\ PruneIsItsPreview
    /\ PruneErasesTheOld
    /\ RangesAreTheTurns
    /\ UpdateOnlyForward

\* What the operator's verbs copy, erase and install is what they say.
VerbRules ==
    /\ TransferRules
    /\ OperatorRules
=============================================================================
