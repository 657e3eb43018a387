------------------------------- MODULE Reading -------------------------------
(***************************************************************************)
(* What a session is shown of the memory and of earlier conversations, all *)
(* under budgets of characters: the memory index (memory/index.rs), a      *)
(* conversation as log lines (conversation/projection.rs, views.rs), the   *)
(* block a session starts with (record/context.rs), clips, snippets and    *)
(* link handles (conversation/links.rs, hits.rs, recall.rs) and the search *)
(* of the turn log (conversation/search.rs).                               *)
(*                                                                         *)
(* A text is its length and what it shows.                                 *)
(***************************************************************************)
EXTENDS RuleInput, Integers, Sequences, SequencesExt, FiniteSets, FiniteSetsExt

(***************************************************************************)
(* The memory index.  Documents are listed newest first; a document is its *)
(* mount, the directory it folds into ("" at the mount's root), the length *)
(* of its path and whether it was redacted.  Names of mounts and           *)
(* directories are one character.                                          *)
(***************************************************************************)
CountBase == 3    \* numbers below this have one digit; 10 in the code
Digits(n) == IF n < CountBase THEN 1 ELSE 2
HeaderChars == 5
DocChars(d) == 5 + d.len + (IF d.redacted THEN 11 ELSE 0)
CountChars(n) == Digits(n) + 9 + (IF n = 1 THEN 0 ELSE 1)
FoldChars(n) == 10 + CountChars(n)
LooseChars(n) == 13 + Digits(n)
TotalChars(n) == 19 + CountChars(n)
EmptyChars == 7
Directories == {"", "d", "e"}
FoldedChars(dir, n) == CASE n = 0 -> 0 [] n > 0 /\ dir = "" -> LooseChars(n) + 1 [] n > 0 /\ dir # "" -> FoldChars(n) + 1

In(docs, mount) == {i \in DOMAIN docs : docs[i].mount = mount}
Cold(docs, mount, dir, hot) == {i \in In(docs, mount) \ hot : docs[i].dir = dir}
\* The rendering in which the documents of hot have their own line.
BlockChars(docs, mount, hot) ==
    HeaderChars + (IF In(docs, mount) = {} THEN EmptyChars + 1 ELSE 0)
    + MapThenSumSet(LAMBDA i : DocChars(docs[i]) + 1, In(docs, mount) \cap hot)
    + MapThenSumSet(LAMBDA dir : FoldedChars(dir, Cardinality(Cold(docs, mount, dir, hot))), Directories)
BlocksChars(docs, mounts, hot) ==
    MapThenSumSet(LAMBDA m : BlockChars(docs, m, hot) + 2, mounts) - 2
FloorChars(docs, mounts) ==
    MapThenSumSet(LAMBDA m : 3 + HeaderChars + (IF In(docs, m) = {} THEN EmptyChars
                                                ELSE TotalChars(Cardinality(In(docs, m)))), mounts) - 2

\* What a promotion of the i-th document adds: its line, less what its fold loses.
\* Mutant: the fold is taken off with its first document.
PromotedDropsFold(docs, hot, i) ==
    LET left == Cardinality(Cold(docs, docs[i].mount, docs[i].dir, hot)) IN
    DocChars(docs[i]) + 1 - FoldedChars(docs[i].dir, left)
Promoted(docs, hot, i) ==
    LET left == Cardinality(Cold(docs, docs[i].mount, docs[i].dir, hot)) IN
    DocChars(docs[i]) + 1 - (FoldedChars(docs[i].dir, left) - FoldedChars(docs[i].dir, left - 1))
\* Newest first, until one neither fits nor shrinks the whole.
RECURSIVE Promote(_, _, _, _, _)
Promote(docs, budget, i, hot, length) ==
    IF i > Len(docs) \/ (length + Promoted(docs, hot, i) > budget /\ Promoted(docs, hot, i) >= 0)
    THEN [hot |-> hot, length |-> length]
    ELSE Promote(docs, budget, i + 1, hot \cup {i}, length + Promoted(docs, hot, i))
Index(docs, mounts, budget) ==
    LET warm == Promote(docs, budget, 1, {}, BlocksChars(docs, mounts, {})) IN
    CASE BlocksChars(docs, mounts, DOMAIN docs) <= budget -> [tier |-> "full", hot |-> DOMAIN docs]
      [] BlocksChars(docs, mounts, DOMAIN docs) > budget /\ warm.length <= budget -> [tier |-> "warm", hot |-> warm.hot]
      [] OTHER -> [tier |-> "floor", hot |-> {}]
IndexChars(docs, mounts, budget) ==
    LET index == Index(docs, mounts, budget) IN
    IF index.tier = "floor" THEN FloorChars(docs, mounts) ELSE BlocksChars(docs, mounts, index.hot)
\* The lines that count the messages of a mount stand under the index, out of its budget.
WithMail(docs, mounts, mail, budget) == IndexChars(docs, mounts, budget - mail) + mail

\* The length that is counted while documents are promoted is the length of what
\* is rendered, so an index that is no floor keeps its budget, the lines of the
\* mailboxes included; the documents it shows are the most recently updated
\* ones, and it is the floor only when the bare folds overrun.
IndexWithinBudget ==
    Is("index") =>
      LET r == input.in
          index == Index(r.docs, r.mounts, r.budget - r.mail) IN
      /\ index.tier # "floor" => WithMail(r.docs, r.mounts, r.mail, r.budget) <= r.budget
      /\ \E n \in 0..Len(r.docs) : index.hot = 1..n
      /\ index.tier = "floor" => BlocksChars(r.docs, r.mounts, {}) > r.budget - r.mail

(***************************************************************************)
(* A conversation as log lines.  A turn has a line of its own; an entry     *)
(* stands for the span of turns that ends at its turn.                     *)
(***************************************************************************)
FirstOf(e) == e.turn - e.span + 1
\* Mutant: the earliest entry wins, however narrow.
WinnerEarly(entries, t) ==
    LET covering == {i \in DOMAIN entries : FirstOf(entries[i]) <= t /\ t <= entries[i].turn} IN
    IF covering = {} THEN 0 ELSE Min(covering)
Winner(entries, t) ==
    LET covering == {i \in DOMAIN entries : FirstOf(entries[i]) <= t /\ t <= entries[i].turn}
        widest == {i \in covering : \A j \in covering : entries[j].span <= entries[i].span} IN
    IF covering = {} THEN 0 ELSE Max(widest)
\* An entry is a line where it wins first.
LogLines(turns, entries) ==
    LET shown(t) == \/ Winner(entries, t) = 0
                    \/ \A u \in 1..(t - 1) : Winner(entries, u) # Winner(entries, t)
        line(t) == LET w == Winner(entries, t) IN
                   IF w = 0 THEN [first |-> t, last |-> t, len |-> turns[t]]
                   ELSE [first |-> FirstOf(entries[w]), last |-> entries[w].turn, len |-> entries[w].len]
        named == SelectSeq([t \in DOMAIN turns |-> t], shown) IN
    [k \in DOMAIN named |-> line(named[k])]

FoldLine == 4    \* the length of the line that counts what is not shown
UsedBy(lines, kept) == MapThenSumSet(LAMBDA i : lines[i].len + 1, (Len(lines) - kept + 1)..Len(lines))
\* The newest lines the budget holds; then the fold line displaces the oldest of them.
\* Mutant: the fold line is not counted.
KeptUncounted(lines, budget) == Max({k \in 0..Len(lines) : UsedBy(lines, k) <= budget})
KeptLines(lines, budget) ==
    LET fitting == Max({k \in 0..Len(lines) : UsedBy(lines, k) <= budget}) IN
    IF fitting = Len(lines) THEN fitting
    ELSE Max({0} \cup {k \in 1..fitting : UsedBy(lines, k) + FoldLine < budget})
Projected(lines, budget) ==
    LET kept == KeptLines(lines, budget) IN
    [kept |-> SubSeq(lines, Len(lines) - kept + 1, Len(lines)),
     fold |-> IF kept = Len(lines) THEN Unset
              ELSE [first |-> lines[1].first, last |-> lines[Len(lines) - kept].last]]
\* Joined by line feeds.
ProjectedChars(p) ==
    MapThenSumSet(LAMBDA i : p.kept[i].len + 1, DOMAIN p.kept) + (IF p.fold = Unset THEN -1 ELSE FoldLine)

\* Whatever entries stand in the log and however they overlap, every turn is in a
\* line or in the range the fold line counts, in the order of the turns; the
\* whole keeps the budget as soon as it shows one line, and the newest turn is
\* hidden only when the newest line alone has no room.
EveryTurnAccounted ==
    Is("project") =>
      LET r == input.in
          lines == LogLines(r.turns, r.entries)
          p == Projected(lines, r.budget)
          ranges == ToSet(p.kept) \cup (IF p.fold = Unset THEN {} ELSE {p.fold}) IN
      /\ \A t \in DOMAIN r.turns : \E x \in ranges : x.first <= t /\ t <= x.last
      /\ \A i \in 2..Len(lines) : lines[i - 1].first < lines[i].first /\ lines[i - 1].last < lines[i].last
      /\ p.fold # Unset => p.fold.first = 1
      /\ p.kept # <<>> => ProjectedChars(p) < r.budget
      /\ p.kept = <<>> => \A i \in {Len(lines)} : lines[i].len + 1 + FoldLine >= r.budget

(***************************************************************************)
(* The block a session starts with: instructions and index under three     *)
(* eighths of what the tail leaves, the handoff note, then the recent      *)
(* sessions under an even share each, and the tail: the session's identity *)
(* and its inbox.  Sessions are their log lines and the length of the line *)
(* that heads them.                                                        *)
(***************************************************************************)
FrameChars == 2     \* the header and the footer of the recent sessions, each
TitleChars == 2     \* the line over the index
\* Mutant: what joins the blocks is not counted.
ShareJoined(sessions, budget) ==
    LET heads == MapThenSumSet(LAMBDA i : sessions[i].head, DOMAIN sessions)
        share == (budget - 2 * FrameChars - heads) \div Len(sessions) IN IF share < 1 THEN 1 ELSE share
Share(sessions, budget) ==
    LET heads == MapThenSumSet(LAMBDA i : sessions[i].head + 1, DOMAIN sessions)
        share == (budget - 2 * FrameChars - heads - 2) \div Len(sessions) IN IF share < 1 THEN 1 ELSE share
LeftOff(sessions, budget) ==
    [i \in DOMAIN sessions |-> Projected(sessions[i].lines, Share(sessions, budget))]
LeftOffChars(sessions, budget) ==
    2 * FrameChars + 2 + (Len(sessions) - 1)
    + MapThenSumSet(LAMBDA i : sessions[i].head + 1 + ProjectedChars(LeftOff(sessions, budget)[i]), DOMAIN sessions)
AtLeastOne(n) == IF n < 1 THEN 1 ELSE n
NoteRoom(note, budget) == IF note = Unset THEN budget ELSE budget - note - 2
NoteChars(note) == IF note = Unset THEN 0 ELSE note + 2
IndexRoom(tail, instructions, ceiling) == ((ceiling - tail - 2) * 3) \div 8 - instructions
HeadChars(r) == r.instructions + TitleChars + 1 + IndexChars(r.docs, {1}, IndexRoom(r.tail, r.instructions, r.ceiling))
SessionsRoom(r) == AtLeastOne(NoteRoom(r.note, AtLeastOne(r.ceiling - r.tail - 2 - HeadChars(r) - 2)))
StartChars(r) ==
    HeadChars(r) + 2 + NoteChars(r.note) + LeftOffChars(r.sessions, SessionsRoom(r)) + 2 + r.tail

\* A start block is within its client's ceiling, to the character, as long as each
\* session has room for one line of its log: the shares, the frames, the note and
\* what joins them add up whatever they are.
StartWithinCeiling ==
    Is("start") =>
      LET r == input.in IN
      (\A i \in DOMAIN r.sessions : LeftOff(r.sessions, SessionsRoom(r))[i].kept # <<>>)
        => StartChars(r) <= r.ceiling

(***************************************************************************)
(* Clips.  A text is its length and its atoms, the spans a clip never      *)
(* splits: addresses, paths, ids and link handles.                         *)
(***************************************************************************)
\* Mutant: a clip cuts where its limit falls.
BoundaryIgnored(atoms, at) == <<at, at>>
Boundary(atoms, at) ==
    LET around == {x \in atoms : x[1] < at /\ at < x[2]} IN
    IF around = {} THEN <<at, at>> ELSE CHOOSE x \in around : TRUE
SnippetChars == 8    \* 160 in the code; the lead a quarter of it, the longest atom half
LeadChars == SnippetChars \div 4
AtomMax == SnippetChars \div 2
SnippetOf(total, atoms, at) ==
    LET lead == IF at < LeadChars THEN 0 ELSE at - LeadChars
        start == IF lead < total - SnippetChars THEN lead ELSE total - SnippetChars
        first == Boundary(atoms, start)
        last == Boundary(atoms, start + SnippetChars) IN
    IF total <= SnippetChars THEN [lo |-> 0, hi |-> total]
    ELSE [lo |-> IF first[2] - first[1] <= AtomMax THEN first[1] ELSE first[2],
          hi |-> IF last[2] - last[1] <= AtomMax THEN last[2] ELSE last[1]]
\* Head and tail of a long result.
HeadTail(total, atoms, headChars, tailChars) ==
    IF total <= headChars + tailChars THEN [head |-> total, tail |-> total]
    ELSE [head |-> Boundary(atoms, headChars)[1], tail |-> Boundary(atoms, total - tailChars)[2]]
SplitAt(atoms, at) == \E x \in atoms : x[1] < at /\ at < x[2]

\* A snippet shows where the term was found, unless that is inside an atom too
\* long to keep, splits no atom and stays bounded; a result's head and tail
\* overlap nowhere and split no atom.
ClipsKeepAtoms ==
    Is("clip") =>
      LET r == input.in
          s == SnippetOf(r.total, r.atoms, r.at)
          h == HeadTail(r.total, r.atoms, 5, 3)
          buried == \E x \in r.atoms : x[1] <= r.at /\ r.at < x[2] /\ x[2] - x[1] > AtomMax IN
      /\ ~buried => s.lo <= r.at /\ r.at < s.hi
      /\ ~SplitAt(r.atoms, s.lo) /\ ~SplitAt(r.atoms, s.hi)
      /\ s.hi - s.lo <= SnippetChars + 2 * AtomMax
      /\ h.head <= h.tail /\ ~SplitAt(r.atoms, h.head) /\ ~SplitAt(r.atoms, h.tail)
      /\ h.head + (r.total - h.tail) <= 8

(***************************************************************************)
(* Link handles.  A history is the tokens of its turns in order.           *)
(***************************************************************************)
LongTokens == {"url", "path"}
LinksOf(tokens) == SelectSeq(tokens, LAMBDA t : t \in LongTokens)
\* Numbered by first appearance.
\* Mutant: a token that appears again takes the next number.
NumberOfLast(tokens, token) ==
    LET found == LinksOf(tokens) IN
    Cardinality({found[i] : i \in 1..Max({i \in DOMAIN found : found[i] = token})})
NumberOf(tokens, token) ==
    LET found == LinksOf(tokens) IN
    Cardinality({found[i] : i \in 1..Min({i \in DOMAIN found : found[i] = token})})
Handle(n) == <<"link", n>>
Contract(tokens, text) ==
    [i \in DOMAIN text |-> IF text[i] \in ToSet(LinksOf(tokens)) THEN Handle(NumberOf(tokens, text[i])) ELSE text[i]]
\* A handle that was printed names one token, and the same one for as long as the
\* history grows.
HandlesKeepTheirToken ==
    Is("links") =>
      LET before == input.in.before
          after == before \o input.in.added IN
      /\ \A t \in ToSet(LinksOf(before)) : NumberOf(after, t) = NumberOf(before, t)
      /\ \A t, u \in ToSet(LinksOf(after)) : NumberOf(after, t) = NumberOf(after, u) => t = u
      /\ \A i \in DOMAIN before : Contract(after, before)[i] = Contract(before, before)[i]

(***************************************************************************)
(* Recalling a turn: its calls, and its results as they came.              *)
(***************************************************************************)
ResultChars == 4    \* 4096 in the code
\* Mutant: a result without a call is paged too.
PagedAlways(result) == result.len > ResultChars
IsPaged(result) == result.len > ResultChars /\ result.call # Unset
\* The last result of a call, when the turn made it.
RenderCall(turn, call) ==
    LET answers == {i \in DOMAIN turn.results : turn.results[i].call = call} IN
    IF call \notin turn.calls THEN Unset
    ELSE IF answers = {} THEN [len |-> 1] ELSE [len |-> turn.results[Max(answers)].len]
\* What a rendering leaves out of a result, the call it names opens whole.
OmittedOpensWhole ==
    Is("recall") =>
      LET turn == input.in IN
      \A i \in DOMAIN turn.results : IsPaged(turn.results[i]) =>
         RenderCall(turn, turn.results[i].call) = [len |-> turn.results[i].len]

(***************************************************************************)
(* Searching the turn log.  A row is a JSON line in ASCII: a letter that   *)
(* is not ASCII, and a quote, are escaped in it.  Characters: "a" and its   *)
(* upper case "A"; "e" for a letter beyond ASCII and its upper case "E"; a *)
(* quote; "u", which escapes hold.                                         *)
(***************************************************************************)
LowerChar(c) == CASE c = "A" -> "a" [] c = "E" -> "e" [] OTHER -> c
Lowered(text) == [i \in DOMAIN text |-> LowerChar(text[i])]
EscapedChar(c) == CASE c \in {"e", "E"} -> <<"esc", "u", c>> [] c = "quote" -> <<"esc", "quote">> [] OTHER -> <<c>>
RawRow(text) == <<"key">> \o FlattenSeq([i \in DOMAIN text |-> EscapedChar(text[i])])
Occurs(text, term) == \E i \in 0..(Len(text) - Len(term)) : SubSeq(text, i + 1, i + Len(term)) = term
\* Mutant: a term with a quote is looked for in the row as it is.
PrefilterableQuoted(term) == "e" \notin ToSet(term)
Prefilterable(term) == {"e", "quote"} \cap ToSet(term) = {}
Candidate(text, terms) ==
    \A term \in {t \in terms : Prefilterable(t)} : Occurs(Lowered(RawRow(text)), term)
MatchTerms(text, terms) == \A term \in terms : Occurs(Lowered(text), term)
ScanFinds(text, terms) == Candidate(text, terms) /\ MatchTerms(text, terms)

\* A turn that matches is never passed over before it is decoded.  (Letters beyond
\* ASCII whose lower case is ASCII, the Kelvin sign for one, are left out.)
PrefilterPassesMatches ==
    Is("scan") =>
      LET r == input.in
          terms == {Lowered(t) : t \in r.query} IN
      ScanFinds(r.text, terms) = MatchTerms(r.text, terms)

ReadingInputs ==
    LET doc(mounts) == [mount : mounts, dir : Directories, len : {1, 9}, redacted : {FALSE}]
        marked == [mount : {1}, dir : {"", "d"}, len : {1, 5}, redacted : BOOLEAN]
        bulk == [mount : {1}, dir : {"d"}, len : {1, 5, 9}, redacted : {FALSE}]
        entry(turns) == {e \in [turn : 1..turns, span : 1..turns, len : {2, 5}] : e.span <= e.turn}
        spans == {<<lo, hi>> : lo \in 0..11, hi \in 1..12}
        session == [head : {3}, lines : UNION {[1..n -> {[first |-> 1, last |-> 1, len |-> l] : l \in {1, 4}}] : n \in 1..2}]
        chars == {"a", "A", "e", "E", "quote", "u"} IN
    Of("index", [docs : BoundedSeq(doc({1, 2}), 2) \cup BoundedSeq(marked, 3) \cup [1..4 -> bulk], mounts : {{1, 2}}, mail : {0, 12},
                 budget : {7 * n : n \in 2..17}])
    \cup Of("project", [turns : [1..3 -> {3}], entries : BoundedSeq(entry(3), 3), budget : 1..12])
    \cup Of("project", [turns : [1..4 -> {1, 6}], entries : BoundedSeq(entry(2), 1), budget : 1..24])
    \cup Of("start", [docs : {<<>>, <<[mount |-> 1, dir |-> "d", len |-> 3, redacted |-> FALSE]>>}, instructions : {0, 3},
                      note : {Unset, 4}, tail : {4, 9}, ceiling : 60..99,
                      sessions : UNION {[1..n -> session] : n \in 1..2}])
    \cup Of("clip", [total : {12}, at : 0..11,
                     atoms : {a \in {{x, y} : x, y \in {z \in spans : z[1] < z[2]}} :
                                \A x, y \in a : x = y \/ x[2] <= y[1] \/ y[2] <= x[1]}])
    \cup Of("links", [before : BoundedSeq({"url", "path", "word"}, 4), added : BoundedSeq({"url", "path", "word"}, 2)])
    \cup Of("recall", [calls : {{"c", "d"}},
                       results : {s \in BoundedSeq([call : {"c", "d", Unset}, len : {2, 4, 5, 7}], 3) :
                                    \A i, j \in DOMAIN s : i # j /\ s[i].call = s[j].call => s[i].call = Unset}])
    \cup Of("scan", [text : BoundedSeq(chars, 3), query : {{t} : t \in UNION {[1..n -> chars] : n \in 1..2}}])

\* What is shown under a budget keeps it and says what it leaves out.
ReadingRules ==
    /\ IndexWithinBudget
    /\ EveryTurnAccounted
    /\ StartWithinCeiling
    /\ ClipsKeepAtoms
    /\ HandlesKeepTheirToken
    /\ OmittedOpensWhole
    /\ PrefilterPassesMatches
=============================================================================
