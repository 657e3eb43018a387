------------------------------ MODULE Transfer ------------------------------
(***************************************************************************)
(* Transfer (operator/transfer.rs, store/restore.rs): a scope or a           *)
(* conversation is copied verbatim into an empty target, from one read after *)
(* another while the source may change, by one restore.                     *)
(***************************************************************************)
EXTENDS RuleInput, Integers, Sequences, FiniteSets, SequencesExt

(***************************************************************************)
(* A scope: docs maps a path to Unset or what is held there; rows is its     *)
(* journal; trail is the erasures, oldest first.  An erasure's path is Unset *)
(* when it was of the whole scope, its count is of the paths it reached.     *)
(* Two fields are not stored: by is the path that the erasure of a text      *)
(* named, and planted tells a document that was put there by hand.          *)
(***************************************************************************)
CONSTANTS Copied,    \* the paths, in the order of a listing
          MaxActs    \* 500 in the code
ScopePaths == ToSet(Copied)
ASSUME CopyAssumption == Copied \in Seq(ScopePaths) /\ MaxActs \in Nat \ {0}
Erased == "erased"
EmptyScope == [docs |-> [p \in ScopePaths |-> Unset], rows |-> [p \in ScopePaths |-> <<>>], trail |-> <<>>]
NextVersion(rows) == IF rows = <<>> THEN 1 ELSE rows[Len(rows)].version + 1
\* The number a mutation takes where doc is: past the journal, and past what the
\* document declares.
VersionPast(rows, doc) ==
    IF doc = Unset \/ doc.version < NextVersion(rows) THEN NextVersion(rows) ELSE doc.version + 1
Row(version, text, by) == [version |-> version, text |-> text, by |-> by]
Document(version, text, by, planted) == [version |-> version, text |-> text, by |-> by, planted |-> planted]
WithoutText(held, named) == [held EXCEPT !.text = Erased, !.by = named]
Blanked(rows, named) == [n \in DOMAIN rows |-> WithoutText(rows[n], named)]
WriteScope(s, p, text) ==
    LET version == VersionPast(s.rows[p], s.docs[p]) IN
    [docs |-> [s.docs EXCEPT ![p] = Document(version, text, Unset, FALSE)],
     rows |-> [s.rows EXCEPT ![p] = Append(@, Row(version, text, Unset))], trail |-> s.trail]
\* The row of a removal holds what was removed, and its mark.
RemovedFrom(s, p) ==
    LET doc == s.docs[p] IN
    [docs |-> [s.docs EXCEPT ![p] = Unset],
     rows |-> [s.rows EXCEPT ![p] = Append(@, Row(VersionPast(@, doc), doc.text, doc.by))], trail |-> s.trail]
RenameScope(s, p, to) ==
    LET doc == s.docs[p]
        gone == RemovedFrom(s, p)
        version == NextVersion(s.rows[to]) IN
    [docs |-> [gone.docs EXCEPT ![to] = Document(version, doc.text, doc.by, FALSE)],
     rows |-> [gone.rows EXCEPT ![to] = Append(@, Row(version, doc.text, doc.by))], trail |-> s.trail]
\* The paths an erasure reaches: the one named, or every one with history or a
\* document.
RedactTargets(s, named) ==
    {p \in IF named = Unset THEN ScopePaths ELSE {named} : s.docs[p] # Unset \/ s.rows[p] # <<>>}
RedactScope(s, named) ==
    LET targets == RedactTargets(s, named) IN
    [docs |-> [p \in ScopePaths |-> IF p \in targets /\ s.docs[p] # Unset THEN WithoutText(s.docs[p], named) ELSE s.docs[p]],
     rows |-> [p \in ScopePaths |-> IF p \in targets THEN Blanked(s.rows[p], named) ELSE s.rows[p]],
     trail |-> Append(s.trail, [path |-> named, count |-> Cardinality(targets)])]
\* A hand puts a document of any version where there is none.
PlantScope(s, p, version, text) == [s EXCEPT !.docs[p] = Document(version, text, Unset, TRUE)]
\* One mutation; what is refused changes nothing.
ScopeEvent(s, e) ==
    CASE e.do = "write" -> WriteScope(s, e.path, e.text)
      [] e.do = "delete" /\ s.docs[e.path] # Unset -> RemovedFrom(s, e.path)
      [] e.do = "rename" /\ s.docs[e.path] # Unset /\ s.docs[e.to] = Unset -> RenameScope(s, e.path, e.to)
      [] e.do = "redact" /\ RedactTargets(s, e.path) # {} -> RedactScope(s, e.path)
      [] e.do = "plant" /\ s.docs[e.path] = Unset -> PlantScope(s, e.path, e.version, e.text)
      [] OTHER -> s
\* What is read at the moment k, when the events up to it have happened.
ScopeAt(start, events, k) ==
    LET after[n \in 0..Len(events)] ==
          IF n = 0 THEN start
          ELSE IF events[n].at > k THEN after[n - 1] ELSE ScopeEvent(after[n - 1], events[n]) IN
    after[Len(events)]
\* Which read is which, in order: the listing, a document each, and the others.
Nth(p) == CHOOSE k \in DOMAIN Copied : Copied[k] = p
\* Mutant: the erasures are read before the history.
TrailFirst == [list |-> 1, document |-> [p \in ScopePaths |-> 1 + Nth(p)], history |-> Len(Copied) + 3, trail |-> Len(Copied) + 2]
ScopeReads == [list |-> 1, document |-> [p \in ScopePaths |-> 1 + Nth(p)], history |-> Len(Copied) + 2, trail |-> Len(Copied) + 3]
\* The newest come first out of a store, and the oldest go first into one.
NewestFirst(trail) == Reverse(trail)
\* Mutant: the erasures are restored as they were read.
AsRead(trail) == trail
OldestFirst(trail) == Reverse(trail)
Occupied(target) == \/ \E p \in ScopePaths : target.docs[p] # Unset \/ target.rows[p] # <<>>
                    \/ target.trail # <<>>
\* The scope as the target has it afterwards, its rows sorted by path and version;
\* an occupied one is left alone.
CopyScope(start, events, target) ==
    LET at(k) == ScopeAt(start, events, k)
        listed == {p \in ScopePaths : at(ScopeReads.list).docs[p] # Unset} IN
    IF Occupied(target) THEN target
    ELSE [docs |-> [p \in ScopePaths |-> IF p \in listed THEN at(ScopeReads.document[p]).docs[p] ELSE Unset],
          rows |-> at(ScopeReads.history).rows,
          trail |-> OldestFirst(NewestFirst(at(ScopeReads.trail).trail))]

\* However the source changed while it was copied, every document of the copy that
\* was written through the store has the row that wrote it, though its text may be
\* erased since; and every erased row has the act that erased its text, be it of
\* another path, from which the text was moved, or of the whole scope.
CopyAccountsForItself ==
    Is("copy") =>
      LET r == input.in
          c == CopyScope(ScopeAt(EmptyScope, r.before, 0), r.during, EmptyScope) IN
      \A p \in ScopePaths :
         /\ c.docs[p] # Unset /\ ~c.docs[p].planted =>
              \E n \in DOMAIN c.rows[p] : /\ c.rows[p][n].version = c.docs[p].version
                                          /\ c.rows[p][n].text \in {c.docs[p].text, Erased}
         /\ \A n \in DOMAIN c.rows[p] :
              c.rows[p][n].text = Erased => \E j \in DOMAIN c.trail : c.trail[j].path = c.rows[p][n].by
\* A copy of a quiet scope, and a copy of that copy, is the scope with its whole
\* history, its version numbers and its trail; a target that holds anything is left
\* as it was.
QuietCopyIsVerbatim ==
    Is("copy") =>
      LET r == input.in
          s == ScopeAt(EmptyScope, r.before, 0)
          archive == CopyScope(s, <<>>, EmptyScope)
          other == ScopeAt(EmptyScope, r.during, ScopeReads.trail) IN
      /\ archive = s
      /\ CopyScope(archive, <<>>, EmptyScope) = s
      /\ s # EmptyScope => CopyScope(other, <<>>, s) = s

(***************************************************************************)
(* A conversation: turns and projections are sequences of texts, a           *)
(* projection with the turn it ends at; the trail is a sequence of turns.   *)
(***************************************************************************)
NoTurns == [turns |-> <<>>, projections |-> <<>>, trail |-> <<>>]
ConversationEvent(s, e) ==
    CASE e.do = "append" -> [turns |-> Append(s.turns, e.text), projections |-> s.projections, trail |-> s.trail]
      [] e.do = "project" /\ s.turns # <<>> ->
           [turns |-> s.turns, trail |-> s.trail,
            projections |-> Append(s.projections, [turn |-> Len(s.turns), text |-> s.turns[Len(s.turns)]])]
      [] e.do = "redact" /\ e.turn \in DOMAIN s.turns ->
           [turns |-> [s.turns EXCEPT ![e.turn] = Erased],
            projections |-> [k \in DOMAIN s.projections |->
                               IF s.projections[k].turn = e.turn THEN [turn |-> e.turn, text |-> Erased] ELSE s.projections[k]],
            trail |-> Append(s.trail, e.turn)]
      [] OTHER -> s
ConversationAt(start, events, k) ==
    LET after[n \in 0..Len(events)] ==
          IF n = 0 THEN start
          ELSE IF events[n].at > k THEN after[n - 1] ELSE ConversationEvent(after[n - 1], events[n]) IN
    after[Len(events)]
\* Mutant: the acts are read after the turns they blanked.
ActsLast == [trail |-> 3, turns |-> 1, projections |-> 2]
ConversationReads == [trail |-> 1, turns |-> 2, projections |-> 3]
ReadConversation(start, events) ==
    LET at(k) == ConversationAt(start, events, k)
        trail == at(ConversationReads.trail).trail IN
    [turns |-> at(ConversationReads.turns).turns, projections |-> at(ConversationReads.projections).projections,
     trail |-> SubSeq(trail, IF Len(trail) > MaxActs THEN Len(trail) - MaxActs + 1 ELSE 1, Len(trail))]
\* Mutant: a conversation that has turns only is taken for an empty one.
TurnsOverlooked(target) == target.projections # <<>>
ConversationOccupied(target) == target.turns # <<>> \/ target.projections # <<>>
\* The three files one after another; dies is how many get written.
RestoreConversation(target, c, dies) ==
    IF ConversationOccupied(target) THEN target
    ELSE [turns |-> IF dies >= 1 THEN c.turns ELSE target.turns,
          projections |-> IF dies >= 2 /\ c.projections # <<>> THEN c.projections ELSE target.projections,
          trail |-> IF dies >= 3 /\ c.trail # <<>> THEN c.trail ELSE target.trail]
\* No copy carries the act of an erasure beside the words it erased, however the
\* conversation was written and erased while it was read.
CarriedErasuresHold ==
    Is("conversation_copy") =>
      LET r == input.in
          c == RestoreConversation(NoTurns, ReadConversation(ConversationAt(NoTurns, r.before, 0), r.during), 3) IN
      \A k \in DOMAIN c.trail : c.trail[k] \in DOMAIN c.turns => c.turns[c.trail[k]] = Erased
\* A restore that died and is repeated, after a session has gone on in the target,
\* loses nothing that is there: it fills an empty conversation or refuses.
RetryKeepsWhatIsThere ==
    Is("conversation_copy") =>
      LET r == input.in
          c == ReadConversation(ConversationAt(NoTurns, r.before, 0), r.during)
          target == ConversationAt(RestoreConversation(NoTurns, c, r.dies), r.during, 1)
          again == RestoreConversation(target, c, 3) IN
      target.turns # <<>> \/ target.projections # <<>> => again = target

(***************************************************************************)
(* Erasing turns rewrites the same three files one after another.  A         *)
(* projection [turn, span, text] covers the span turns that end at turn.    *)
(***************************************************************************)
\* What a summary that covers an erased turn becomes.
NoWords == ""
Covers(projection, turns) == \E n \in turns : n \in (projection.turn - projection.span + 1)..projection.turn
\* Mutant: a turn that is blank already is not matched again.
MatchedFresh(c, turns) == {n \in turns \cap DOMAIN c.turns : c.turns[n] # Erased}
Matched(c, turns) == turns \cap DOMAIN c.turns
\* dies is how many of the files are rewritten.
RedactTurns(c, turns, dies) ==
    LET matched == Matched(c, turns) IN
    IF matched = {} THEN c
    ELSE [turns |-> IF dies >= 1 THEN [n \in DOMAIN c.turns |-> IF n \in matched THEN Erased ELSE c.turns[n]] ELSE c.turns,
          projections |-> IF dies < 2 THEN c.projections
                          ELSE [k \in DOMAIN c.projections |->
                                  IF Covers(c.projections[k], matched) THEN [turn |-> c.projections[k].turn, span |-> c.projections[k].span, text |-> NoWords]
                                  ELSE c.projections[k]],
          trail |-> IF dies >= 3 THEN Append(c.trail, matched) ELSE c.trail]
\* An erasure that died anywhere is completed by asking again: no turn and no
\* summary that covers one holds its words, and the trail names every turn.
RepeatedErasureCompletes ==
    Is("erase_turns") =>
      LET r == input.in
          c == RedactTurns(RedactTurns(r.c, r.turns, r.dies), r.turns, 3)
          asked == r.turns \cap DOMAIN r.c.turns IN
      /\ \A n \in DOMAIN r.c.turns : c.turns[n] = IF n \in asked THEN Erased ELSE r.c.turns[n]
      /\ \A k \in DOMAIN c.projections :
            c.projections[k].text = IF Covers(c.projections[k], asked) THEN NoWords ELSE r.c.projections[k].text
      /\ asked \subseteq UNION {c.trail[k] : k \in DOMAIN c.trail}

TransferInputs ==
    LET events(n, texts) == [at : n, do : {"write"}, path : ScopePaths, text : texts]
                            \cup [at : n, do : {"delete"}, path : ScopePaths]
                            \cup {e \in [at : n, do : {"rename"}, path : ScopePaths, to : ScopePaths] : e.path # e.to}
                            \cup [at : n, do : {"redact"}, path : ScopePaths \cup {Unset}]
        plants == [at : {0}, do : {"plant"}, path : ScopePaths, version : {2}, text : {"three"}]
        earlier == events({0}, {"two"}) \cup plants
        turns(n) == [at : n, do : {"append"}, text : {"one", "two"}] \cup [at : n, do : {"project"}]
                    \cup [at : n, do : {"redact"}, turn : {1, 2}]
        upTo(es, n) == UNION {[1..m -> es] : m \in 1..n}
        each == [k \in DOMAIN Copied |-> [at |-> 0, do |-> "write", path |-> Copied[k], text |-> "one"]]
        one == [k \in DOMAIN Copied \cap {1} |-> each[k]]
        rising(sq) == \A k \in 2..Len(sq) : sq[k - 1].at <= sq[k].at IN
    Of("copy", [before : {<<>>, each} \cup {each \o es : es \in upTo(earlier, 1)} \cup {one \o es : es \in upTo(earlier, 2)},
                during : {sq \in upTo(events(2..5, {"two"}), 2) : rising(sq)}])
    \cup Of("conversation_copy",
            [before : upTo(turns({0}), 3), dies : 0..3, during : {sq \in upTo(turns(1..3), 2) : rising(sq)}])
    \cup Of("erase_turns",
            [c : [turns : {<<"one", "two", "three">>}, trail : {<<>>},
                  projections : {<<>>} \cup upTo({p \in [turn : 1..3, span : 1..3, text : {"one"}] : p.span <= p.turn}, 2)],
             turns : SUBSET (1..4), dies : 0..3])

\* A copy of a scope or a conversation keeps its text, its history and its
\* erasures, and repeating what died completes it.
TransferRules ==
    /\ CopyAccountsForItself
    /\ QuietCopyIsVerbatim
    /\ CarriedErasuresHold
    /\ RetryKeepsWhatIsThere
    /\ RepeatedErasureCompletes
=============================================================================
