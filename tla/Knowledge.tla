------------------------------ MODULE Knowledge ------------------------------
(***************************************************************************)
(* Structured knowledge (knowledge/): the review state of a document, the   *)
(* rules of a collection and the import that keeps them, bundles, and what  *)
(* a reference shows.                                                      *)
(***************************************************************************)
EXTENDS RuleInput, Integers, Sequences, FiniteSets

(***************************************************************************)
(* Review.  A governed document is [state, body, path, from, to, review];   *)
(* review is Unset or the instant and the fingerprint of what was seen.     *)
(***************************************************************************)
\* Mutant: the place is no part of what was reviewed.
FingerprintText(d) == <<d.state, d.body, d.from, d.to>>
Fingerprint(d) == <<d.state, d.body, d.from, d.to, d.path>>
\* A record is well formed: only approved knowledge has a review, and it expires
\* after it takes effect.
WellFormed(d) ==
    /\ (d.review # Unset) <=> (d.state = "approved")
    /\ d.from # Unset /\ d.to # Unset => d.from < d.to
Status(d, now) ==
    CASE d.state = "unmanaged" -> "unmanaged"
      [] ~WellFormed(d) -> "invalid"
      [] d.state \in {"draft", "superseded"} -> d.state
      [] d.review.seen # Fingerprint(d) -> "stale"
      [] d.review.at > now -> "scheduled"
      [] d.to # Unset /\ d.to <= now -> "expired"
      [] d.from # Unset /\ d.from > now -> "scheduled"
      [] OTHER -> "approved"
Accepts(policy, status) ==
    policy = "all" \/ status = "approved" \/ (policy = "effective" /\ status = "unmanaged")
Strictness == [all |-> 0, effective |-> 1, approved |-> 2]
\* The stricter of what was asked and what the profile's mount says.
SelectedPolicy(asked, mount) == IF Strictness[asked] >= Strictness[mount] THEN asked ELSE mount
\* What the governance command writes: an approval is of this content, now.
Govern(d, change, now) ==
    LET with(review) == [state |-> change.state, body |-> d.body, path |-> d.path,
                         from |-> change.from, to |-> change.to, review |-> review] IN
    IF change.state # "approved" THEN with(Unset)
    ELSE with([at |-> now, seen |-> Fingerprint(with(Unset))])

\* One event in a document's life; an edit, a new date or a move is made by any
\* memory command and leaves the review in the text.
Lived(s, e) ==
    CASE e.do = "govern" /\ WellFormed(Govern(s.d, e, s.now)) ->
           [d |-> Govern(s.d, e, s.now), now |-> s.now,
            approved |-> IF e.state = "approved" THEN s.approved \cup {<<e.from, e.to, s.d.body, s.d.path>>}
                         ELSE s.approved]
      [] e.do = "body" -> [s EXCEPT !.d.body = e.to]
      [] e.do = "redate" -> [s EXCEPT !.d.to = e.to]
      [] e.do = "move" -> [s EXCEPT !.d.path = e.to]
      [] e.do = "tick" -> [s EXCEPT !.now = @ + 1]
      [] OTHER -> s
Life(s, events) ==
    LET after[n \in 0..Len(events)] == IF n = 0 THEN s ELSE Lived(after[n - 1], events[n]) IN
    after[Len(events)]

\* A document counts as approved only while it is what was approved, at the place
\* it was approved for, between its dates; and no request sees more than the
\* profile's mount allows.
ApprovedIsReviewed ==
    Is("review") =>
      LET r == input.in
          first == [state |-> "unmanaged", body |-> 1, path |-> "p", from |-> Unset, to |-> Unset, review |-> Unset]
          s == Life([d |-> first, now |-> 1, approved |-> {}], r.events)
          status == Status(s.d, s.now) IN
      /\ status = "approved" =>
           /\ <<s.d.from, s.d.to, s.d.body, s.d.path>> \in s.approved
           /\ s.d.from # Unset => s.d.from <= s.now
           /\ s.d.to # Unset => s.now < s.d.to
      /\ Accepts(SelectedPolicy(r.asked, r.mount), status) => Accepts(r.mount, status) /\ Accepts(r.asked, status)

(***************************************************************************)
(* Collections.  docs maps the paths below a prefix to Unset or a version    *)
(* and content; the content of the definition is the rules, the content of   *)
(* a document its attributes and body.                                     *)
(***************************************************************************)
CONSTANTS Order,    \* the paths as an import takes them: the definition, then documents
          FoldOf    \* the spelling of each with its case folded
Definition == Order[1]
Paths == {Order[k] : k \in DOMAIN Order}
ASSUME OrderAssumption ==
    /\ Order \in Seq(Paths) /\ Order # <<>>
    /\ \A j, k \in DOMAIN Order : Order[j] = Order[k] => j = k
    /\ \A k \in DOMAIN Order : FoldOf[Order[k]] = FoldOf[Order[1]] => k = 1   \* an ordinary path
Documents == Paths \ {Definition}
\* Two spellings of one name.
SameName(p, q) == p # q /\ FoldOf[p] = FoldOf[q]
Content == [attr : {"ok", "bad"}, body : {1, 2}]
Satisfies(content, rules) == rules = "strict" => content.attr = "ok"
RulesOf(docs) == IF docs[Definition] = Unset THEN Unset ELSE docs[Definition].content
CollectionValid(docs) ==
    \A p \in Documents : docs[p] # Unset /\ RulesOf(docs) # Unset => Satisfies(docs[p].content, RulesOf(docs))
Filed(found, content) ==
    [content |-> content, version |-> IF found = Unset THEN 1 ELSE found.version + 1]
Put(docs, p, content) == [docs EXCEPT ![p] = Filed(@, content)]

\* Mutant: what is already there is a conflict.
AnswerAgain(found, content, conflict) ==
    CASE content = Unset -> "none"
      [] content # Unset /\ found = Unset -> "create"
      [] OTHER -> IF conflict = "fail" THEN "conflict" ELSE conflict
\* What an import does at a path it brings something for.
Answer(found, content, conflict) ==
    CASE content = Unset -> "none"
      [] content # Unset /\ found = Unset -> "create"
      [] content # Unset /\ found # Unset /\ found.content = content -> "duplicate"
      [] OTHER -> IF conflict = "fail" THEN "conflict" ELSE conflict
\* Absent with history left behind, or redacted: refused wherever it is read.
Refusing(w, p) == p \in w.refusing
Change(w, p, content, conflict) ==
    [path |-> p, content |-> content, before |-> w.docs[p], action |-> Answer(w.docs[p], content, conflict)]
\* An import brings rules or none, and an item or none for each document.
Brings(i, p) == IF p = Definition THEN i.rules ELSE i.items[p]
\* The changes of an import: the definition first, then its items in order.
Planned(w, i) == [k \in DOMAIN Order |-> Change(w, Order[k], Brings(i, Order[k]), i.conflict)]
\* The rules a document of the import must meet.
Effective(w, i) ==
    IF i.rules # Unset /\ (RulesOf(w.docs) \in {Unset, i.rules} \/ i.conflict # "skip") THEN i.rules
    ELSE RulesOf(w.docs)
Due(c) == c.action \in {"create", "replace"}
\* Mutant: a new definition is not tried on the documents that stay.
IssuesOfItems(w, i, changes) ==
    \E k \in DOMAIN changes :
       /\ changes[k].path # Definition /\ changes[k].action \notin {"none", "skip"}
       /\ Effective(w, i) # Unset /\ ~Satisfies(changes[k].content, Effective(w, i))
Issues(w, i, changes) ==
    \/ IssuesOfItems(w, i, changes)
    \/ /\ \E k \in DOMAIN changes : Due(changes[k]) /\ changes[k].path = Definition
       /\ \E k \in DOMAIN changes :
            /\ changes[k].path # Definition /\ w.docs[changes[k].path] # Unset /\ ~Due(changes[k])
            /\ ~Satisfies(w.docs[changes[k].path].content, Effective(w, i))
\* Two spellings of one name, among the changes or beside what is there.
CaseCollides(w, changes) ==
    \E j, k \in DOMAIN changes :
       /\ changes[j].action # "none" /\ SameName(changes[j].path, changes[k].path)
       /\ (changes[k].action # "none" \/ w.docs[changes[k].path] # Unset)
ImportRefused(w, i) ==
    LET changes == Planned(w, i) IN
    \/ \E k \in DOMAIN changes :
         \/ changes[k].action # "none" /\ Refusing(w, changes[k].path)
         \/ changes[k].action = "conflict"
         \/ i.editOnly /\ changes[k].action = "create"
    \/ CaseCollides(w, changes) \/ Issues(w, i, changes)

\* Mutant: what is there is not compared with what was planned.
CheckedLoose(s, c) == [s EXCEPT !.read = s.docs[c.path]]
Checked(s, c) ==
    IF s.docs[c.path] # c.before THEN [s EXCEPT !.stopped = TRUE] ELSE [s EXCEPT !.read = s.docs[c.path]]
\* A write is fenced on the version read by the check before it, a creation is not.
Wrote(s, c) ==
    IF s.read # Unset /\ (s.docs[c.path] = Unset \/ s.docs[c.path].version # s.read.version)
    THEN [s EXCEPT !.stopped = TRUE]
    ELSE [s EXCEPT !.docs = Put(@, c.path, c.content), !.wrote = @ \cup {c.path}]
Step(s, do, c) ==
    CASE s.stopped \/ ~Due(c) -> s
      [] ~s.stopped /\ Due(c) /\ do = "check" -> Checked(s, c)
      [] OTHER -> Wrote(s, c)
\* All are checked first; then each is checked again and written.  A change that
\* is not due has its steps too, which do nothing.
Steps == 3 * Len(Order)
Which(n) == IF n <= Len(Order) THEN n ELSE (n - Len(Order) + 1) \div 2
Does(n) == IF n <= Len(Order) \/ (n - Len(Order)) % 2 = 1 THEN "check" ELSE "write"
\* rival is another process that writes one path before the step rival.at, or at 0
\* none.
Rivalled(s, rival, n) ==
    IF rival.at = n THEN [s EXCEPT !.docs = Put(@, rival.path, rival.content)] ELSE s
ImportRun(s, changes, rival, last) ==
    LET at[n \in 0..last] ==
          IF n = 0 THEN s ELSE Step(Rivalled(at[n - 1], rival, n), Does(n), changes[Which(n)]) IN
    at[last]
\* An import that dies after so many of its steps.
Import(w, i, rival, dies) ==
    LET start == [docs |-> w.docs, read |-> Unset, stopped |-> FALSE, wrote |-> {}] IN
    IF ImportRefused(w, i) THEN [start EXCEPT !.stopped = TRUE]
    ELSE ImportRun(start, Planned(w, i), rival, dies)
NoRival == [at |-> 0, path |-> Definition, content |-> Unset]

\* An import leaves the collection under its rules, names that differ by more
\* than case, and every document it did not name; a refused one writes nothing.
ImportKeepsRules ==
    Is("import") =>
      LET r == input.in
          s == Import(r.w, r.i, NoRival, Steps) IN
      CollectionValid(r.w.docs) =>
        /\ ~s.stopped => CollectionValid(s.docs)
        /\ ~s.stopped => \A p \in s.wrote, q \in Paths : SameName(p, q) => s.docs[q] = Unset
        /\ \A p \in Paths : (p \notin s.wrote \/ s.stopped) => s.docs[p] = r.w.docs[p]

\* An import that died between any two steps is completed by the same import: the
\* collection ends as if it had never died.
ImportCompletes ==
    Is("import") =>
      LET r == input.in
          whole == Import(r.w, r.i, NoRival, Steps)
          part == Import(r.w, r.i, NoRival, r.dies)
          again == Import([r.w EXCEPT !.docs = part.docs], r.i, NoRival, Steps) IN
      CollectionValid(r.w.docs) /\ ~whole.stopped => ~again.stopped /\ again.docs = whole.docs

\* What another process wrote to a document that was there is never replaced by
\* content planned before it: the import stops there.  (A document the import
\* creates carries no version to compare.)
ImportKeepsRivals ==
    Is("rival") =>
      LET r == input.in
          s == Import(r.w, r.i, r.rival, Steps) IN
      ~ImportRefused(r.w, r.i) /\ r.w.docs[r.rival.path] # Unset
      => s.docs[r.rival.path].content = r.rival.content


(***************************************************************************)
(* Bundles: a manifest of names, files and digests beside the files.        *)
(***************************************************************************)
Export(docs) ==
    LET named == {p \in Documents : docs[p] # Unset} IN
    [records |-> [p \in named |-> [file |-> p, digest |-> docs[p].content]],
     files |-> [p \in named |-> docs[p].content], rules |-> RulesOf(docs)]
\* Mutant: files are taken as they are.
LoadTrusting(b) == [p \in DOMAIN b.records |-> b.files[b.records[p].file]]
\* Unset when a file is missing, is a link or outside, or is not what was listed.
Load(b) ==
    IF \E p \in DOMAIN b.records : b.records[p].file \notin DOMAIN b.files
       \/ b.files[b.records[p].file] # b.records[p].digest
       \/ \E q \in DOMAIN b.records : SameName(p, q)
    THEN Unset
    ELSE [p \in DOMAIN b.records |-> b.files[b.records[p].file]]
\* What happens to the files of a bundle: some are lost, and one may hold what
\* another held.
Damaged(b, lost, swap) ==
    [b EXCEPT !.files = [f \in DOMAIN @ \ lost |-> IF f = swap[1] /\ swap[2] \in DOMAIN @ THEN @[swap[2]] ELSE @[f]]]
\* What loads is what was exported, whatever happened to the files in between;
\* and it imports into an empty collection as the collection it came from.
BundleIsItsCollection ==
    Is("bundle") =>
      LET r == input.in
          b == Export(r.docs)
          items == Load(Damaged(b, r.lost, r.swap))
          empty == [docs |-> [p \in Paths |-> Unset], refusing |-> {}]
          brought == [rules |-> b.rules, conflict |-> "fail", editOnly |-> FALSE,
                      items |-> [p \in Documents |-> IF p \in DOMAIN items THEN items[p] ELSE Unset]] IN
      items # Unset =>
        /\ items = [p \in DOMAIN b.records |-> r.docs[p].content]
        /\ CollectionValid(r.docs) =>
             LET s == Import(empty, brought, NoRival, Steps) IN
             ~s.stopped /\ \A p \in Paths : r.docs[p] # Unset <=> s.docs[p] # Unset

KnowledgeInputs ==
    LET doc == [content : Content, version : {1}]
        apart(f) == \A p, q \in Documents : SameName(p, q) => f[p] = Unset \/ f[q] = Unset
        docs == {[p \in Paths |-> IF p = Definition THEN IF d = Unset THEN Unset ELSE [content |-> d, version |-> 1]
                                  ELSE f[p]] :
                   d \in {"strict", "loose", Unset}, f \in {g \in [Documents -> doc \cup {Unset}] : apart(g)}}
        imports == [rules : {"strict", Unset}, conflict : {"fail", "skip", "replace"}, editOnly : BOOLEAN,
                    items : {f \in [Documents -> {[attr |-> "ok", body |-> 1], [attr |-> "bad", body |-> 2], Unset}] : apart(f)}]
        events == [do : {"govern"}, state : {"draft", "approved", "superseded"}, from : {Unset, 2}, to : {Unset, 3}]
                  \cup [do : {"body"}, to : {1, 2}] \cup [do : {"redate"}, to : {Unset, 4}]
                  \cup [do : {"move"}, to : {"p", "q"}] \cup [do : {"tick"}, to : {1}]
        policies == {"all", "effective", "approved"} IN
    Of("review", [events : [1..3 -> events], asked : policies, mount : {"effective"}])
    \cup Of("review", [events : [1..2 -> events], asked : policies, mount : policies])
    \cup Of("import", [w : [docs : {d \in docs : \E p \in Documents : d[p] = Unset}, refusing : {{}, {Order[Len(Order)]}}],
                       i : {i \in imports : i.editOnly => i.conflict = "replace"}, dies : {6, 8, 10}])
    \cup Of("rival", [w : [docs : {d \in docs : d[Order[2]] = Unset /\ d[Definition] = Unset /\ d[Order[3]] # Unset}, refusing : {{}}],
                      i : {i \in imports : i.items[Order[2]] = Unset /\ i.conflict = "replace" /\ ~i.editOnly},
                      rival : [at : 1..Steps, path : {Order[3], Order[4]}, content : {[attr |-> "ok", body |-> 2]}]])
    \cup Of("bundle", [docs : docs, lost : {{}, {Order[3]}},
                       swap : {<<Order[3], Order[4]>>, <<Order[4], Order[2]>>, <<Unset, Unset>>}])

\* A collection keeps its rules and its approvals, whatever is edited and wherever
\* an import dies.
KnowledgeRules ==
    /\ ApprovedIsReviewed
    /\ ImportKeepsRules
    /\ ImportCompletes
    /\ ImportKeepsRivals
    /\ BundleIsItsCollection
=============================================================================
