------------------------------- MODULE Search -------------------------------
(***************************************************************************)
(* Searching current memory (memory/search): a search of several mounts is *)
(* answered in pages; each page is put together from one call a mount to   *)
(* the store, which answers a page of its own, and between two calls the   *)
(* documents change.  A cursor belongs to the query it was given for.      *)
(*                                                                         *)
(* A document is the place its path has in the order of paths, and what a  *)
(* query sees in it.                                                       *)
(***************************************************************************)
EXTENDS RuleInput, Integers, Sequences, SequencesExt, FiniteSets, FiniteSetsExt

(***************************************************************************)
(* One scope.                                                              *)
(***************************************************************************)
SearchPaths == <<"a/x", "ab", "sessions/s">>
Under(prefix) == CASE prefix = "" -> {1, 2, 3} [] prefix = "a" -> {1, 2} [] prefix = "a/" -> {1}
\* The program's own documents are no results.
Searchable(k) == SearchPaths[k] # "sessions/s"
\* A draft is a result under the policy "all" alone; a redacted document never.
Seen(kind, policy) == kind = "match" \/ (kind = "draft" /\ policy = "all")

PathPageSize == 2    \* the paths a listing of the directory holds, 256 in the code
PathPage(docs, prefix, after) ==
    LET names == SetToSortSeq({k \in Under(prefix) : docs[k] # "none" /\ k > after}, <) IN
    SubSeq(names, 1, IF Len(names) < PathPageSize THEN Len(names) ELSE PathPageSize)
DirectoryRows(docs, prefix, after) ==
    LET rows[from \in 0..3] ==
            LET page == PathPage(docs, prefix, from) IN
            IF Len(page) < PathPageSize THEN page ELSE page \o rows[Last(page)] IN
    rows[after]

\* One hit past the limit proves that there is more; the cursor is the last hit given.
\* Mutant: the cursor is the hit that proved it.
ScanPast(docs, q) ==
    LET found == SelectSeq(DirectoryRows(docs, q.prefix, q.after),
                           LAMBDA k : Searchable(k) /\ Seen(docs[k], q.policy)) IN
    IF Len(found) <= q.limit THEN [hits |-> found, next |-> 0]
    ELSE [hits |-> SubSeq(found, 1, q.limit), next |-> found[q.limit + 1]]
ScanScope(docs, q) ==
    LET found == SelectSeq(DirectoryRows(docs, q.prefix, q.after),
                           LAMBDA k : Searchable(k) /\ Seen(docs[k], q.policy)) IN
    IF Len(found) <= q.limit THEN [hits |-> found, next |-> 0]
    ELSE [hits |-> SubSeq(found, 1, q.limit), next |-> found[q.limit]]
\* What a caller accepts of a page it was answered.
PageAccepted(q, page) ==
    /\ Len(page.hits) <= q.limit
    /\ \A i \in DOMAIN page.hits : page.hits[i] \in Under(q.prefix) /\ Searchable(page.hits[i])
    /\ \A i \in 2..Len(page.hits) : page.hits[i - 1] < page.hits[i]
    /\ page.next # 0 => Len(page.hits) = q.limit /\ page.next # q.after

(***************************************************************************)
(* Several mounts.                                                         *)
(***************************************************************************)
MountNames == <<"kb", "user">>
\* The mounts a search path selects, by name, and the prefix within each.
Searched(path) ==
    CASE path = "/" -> <<[mount |-> 1, prefix |-> ""], [mount |-> 2, prefix |-> ""]>>
      [] path \in {"/kb", "/kb/"} -> <<[mount |-> 1, prefix |-> ""]>>
      [] path = "/kb/a" -> <<[mount |-> 1, prefix |-> "a"]>>
      [] path = "/kb/a/" -> <<[mount |-> 1, prefix |-> "a/"]>>
      [] path = "/user/" -> <<[mount |-> 2, prefix |-> ""]>>
\* The stricter of the caller's policy and the mount's.
PolicyOn(policy, mountPolicy) == IF policy = "all" THEN mountPolicy ELSE policy
\* A limit is no part of what a cursor belongs to.
\* Mutant: a cursor forgets the policies of the mounts.
SearchKeyOfQuery(r) == [path |-> r.path, query |-> r.query, policy |-> r.policy]
SearchKey(r) ==
    LET mounts == Searched(r.path) IN
    [path |-> r.path, query |-> r.query, policy |-> r.policy,
     policies |-> [i \in DOMAIN mounts |-> PolicyOn(r.policy, r.mountPolicies[mounts[i].mount])]]

LaterWorlds(worlds) == IF Len(worlds) = 1 THEN worlds ELSE Tail(worlds)
LimitLeft(limit, hits) == IF limit - Len(hits) < 1 THEN 1 ELSE limit - Len(hits)
\* A full page still asks the next mount whether it holds anything.
MountQuery(r, at, hits) ==
    [prefix |-> at.prefix, policy |-> PolicyOn(r.policy, r.mountPolicies[at.mount]),
     limit |-> LimitLeft(r.limit, hits), after |-> IF at.mount = r.start THEN r.after ELSE 0]
CursorFrom(r, at, next) == [key |-> SearchKey(r), start |-> at.mount, after |-> next]
\* One mount's answer joins the page: its cursor when the page ends here.
Joined(r, at, found, page, query) ==
    LET full == Len(found.hits) = r.limit
        taken == [found EXCEPT !.worlds = LaterWorlds(@),
                     !.hits = IF full THEN @ ELSE @ \o [i \in DOMAIN page.hits |-> <<at.mount, page.hits[i]>>]] IN
    CASE ~PageAccepted(query, page) -> [taken EXCEPT !.hits = <<"malformed">>, !.ended = TRUE]
      [] PageAccepted(query, page) /\ full /\ page.hits # <<>> ->
            [taken EXCEPT !.next = CursorFrom(r, at, 0), !.ended = TRUE]
      [] PageAccepted(query, page) /\ ~full /\ page.next # 0 ->
            [taken EXCEPT !.next = CursorFrom(r, at, page.next), !.ended = TRUE]
      [] OTHER -> taken
SearchMounts(r, mounts, worlds) ==
    FoldLeft(LAMBDA found, at :
                IF found.ended THEN found
                ELSE LET query == MountQuery(r, at, found.hits) IN
                     Joined(r, at, found, ScanScope(Head(found.worlds)[at.mount], query), query),
             [hits |-> <<>>, next |-> Unset, worlds |-> worlds, ended |-> FALSE], mounts)
SearchMemory(r, cursor, worlds) ==
    LET start == IF cursor = Unset THEN 0 ELSE cursor.start
        request == [path |-> r.path, query |-> r.query, policy |-> r.policy, limit |-> r.limit,
                    mountPolicies |-> r.mountPolicies, start |-> start,
                    after |-> IF cursor = Unset THEN 0 ELSE cursor.after] IN
    IF cursor # Unset /\ cursor.key # SearchKey(r) THEN [hits |-> <<"refused">>, next |-> Unset, worlds |-> worlds]
    ELSE SearchMounts(request, SelectSeq(Searched(r.path), LAMBDA at : at.mount >= start), worlds)

\* A caller that asks for page after page, under any limit each time.
RECURSIVE SearchPages(_, _, _, _)
PagesFrom(r, limits, page) ==
    IF page.next = Unset THEN <<page.hits>>
    ELSE <<page.hits>> \o SearchPages(r, Tail(limits) \o <<Head(limits)>>, page.next, page.worlds)
SearchPages(r, limits, cursor, worlds) ==
    PagesFrom(r, limits, SearchMemory([r EXCEPT !.limit = Head(limits)], cursor, worlds))

Results(r, world) ==
    {<<at.mount, k>> : at \in ToSet(Searched(r.path)), k \in 1..3} \cap
    {x \in {1, 2} \X {1, 2, 3} :
        /\ \E at \in ToSet(Searched(r.path)) : at.mount = x[1] /\ x[2] \in Under(at.prefix)
        /\ Searchable(x[2]) /\ Seen(world[x[1]][x[2]], PolicyOn(r.policy, r.mountPolicies[x[1]]))}
SearchWorlds == {[m \in {1, 2} |-> Append(w[m], "match")] : w \in [{1, 2} -> [1..2 -> {"none", "match", "draft"}]]}
Before(x, y) == x[1] < y[1] \/ (x[1] = y[1] /\ x[2] < y[2])

\* However the documents change between two calls and whatever limit each page
\* is asked with, the pages of a mounted search name what they find in one
\* order and once, never what did not match, and every document that matched
\* throughout; no page is longer than its limit and none that is followed by a
\* cursor is shorter, and no answer of a store is refused as malformed.
SearchSteady ==
    Is("search") =>
      LET r == input.in
          c == r.change
          worlds == [n \in 1..(r.calls + 1) |->
                        IF n <= r.calls THEN r.before ELSE [r.before EXCEPT ![c.mount][c.at] = c.kind]]
          pages == SearchPages(r.request, r.limits, Unset, worlds)
          hits == FlattenSeq(pages) IN
      /\ \A i \in 2..Len(hits) : Before(hits[i - 1], hits[i])
      /\ ToSet(hits) \subseteq UNION {Results(r.request, w) : w \in ToSet(worlds)}
      /\ {x \in Results(r.request, Head(worlds)) : \A w \in ToSet(worlds) : x \in Results(r.request, w)}
            \subseteq ToSet(hits)
      /\ \A i \in DOMAIN pages : LET limit == r.limits[((i - 1) % Len(r.limits)) + 1] IN
            /\ Len(pages[i]) <= limit
            /\ i < Len(pages) => Len(pages[i]) = limit

\* A cursor that is shown with another path, query or policy, or after a
\* mount's own policy changed, is refused unless the two searches select the
\* same documents of every mount; so no page skips what only the later
\* selection holds, and nothing is answered that the new policy hides.
CursorKeepsItsSearch ==
    Is("resume") =>
      LET r == input.in
          first == SearchMemory(r.first, Unset, <<r.world>>)
          then == SearchMemory(r.then, first.next, <<r.world>>) IN
      first.next # Unset /\ then.hits # <<"refused">> =>
        /\ r.then.query = r.first.query
        /\ \A world \in SearchWorlds : Results(r.then, world) = Results(r.first, world)
        /\ ToSet(then.hits) \subseteq Results(r.then, r.world) \ ToSet(first.hits)

(***************************************************************************)
(* What matches.  A text is the set of the terms it holds; the words of a  *)
(* query may stand in different fields.                                    *)
(***************************************************************************)
\* What is looked into, in the order an excerpt is taken from.
LookedInto(doc, q) ==
    (IF "content" \in q.fields THEN <<[field |-> "content", key |-> Unset, terms |-> doc.content]>> ELSE <<>>)
    \o [i \in DOMAIN q.keys |-> [field |-> "metadata", key |-> q.keys[i], terms |-> doc.metadata[q.keys[i]]]]
    \o (IF "path" \in q.fields THEN <<[field |-> "path", key |-> Unset, terms |-> doc.path]>> ELSE <<>>)
\* Mutant: one place that holds a word is enough.
FindAny(doc, q) ==
    LET hit == SelectSeq(LookedInto(doc, q), LAMBDA p : p.terms \cap q.terms # {}) IN
    IF hit = <<>> THEN Unset
    ELSE [excerpt |-> Head(hit), fields |-> {p.field : p \in ToSet(hit)}]
Find(doc, q) ==
    LET hit == SelectSeq(LookedInto(doc, q), LAMBDA p : p.terms \cap q.terms # {}) IN
    IF ~(q.terms \subseteq UNION {p.terms : p \in ToSet(hit)}) THEN Unset
    ELSE [excerpt |-> Head(hit), fields |-> {p.field : p \in ToSet(hit)}]
HitAccepted(q, found) ==
    /\ found.fields # {} /\ found.fields \subseteq q.fields
    /\ found.excerpt.field \in found.fields
    /\ IF found.excerpt.key = Unset THEN found.excerpt.field # "metadata"
       ELSE found.excerpt.field = "metadata" /\ found.excerpt.key \in ToSet(q.keys)

\* The excerpt is cut out of the text around the byte at which a term was found
\* in the text's lower case, whose characters may be longer or several.
ContextChars == 1    \* 40 and 240 in the code
ExcerptChars == 3
Bytes(widths, n) == MapThenSumSet(LAMBDA i : widths[i], 1..n)
\* Mutant: the byte is taken for a character.
PositionOfByte(widths, at) == at
Position(widths, at) ==
    LET past == {i \in DOMAIN widths : Bytes(widths, i) > at} IN IF past = {} THEN 0 ELSE Min(past) - 1
ExcerptFrom(widths, at) ==
    LET position == Position(widths, at) IN
    IF position < ContextChars THEN 0 ELSE position - ContextChars
Excerpted(widths, at) ==
    LET offset == ExcerptFrom(widths, at) IN {i \in DOMAIN widths : offset < i /\ i <= offset + ExcerptChars}

\* A document is found when the words of the query stand in the selected fields
\* together, whichever word stands where; its hit names the fields that hold
\* one, and the caller's check of the page lets it pass.
WordsFoundTogether ==
    Is("find") =>
      LET doc == input.in.doc  q == input.in.query
          held == UNION ({doc.content : f \in q.fields \cap {"content"}} \cup {doc.path : f \in q.fields \cap {"path"}}
                         \cup {doc.metadata[k] : k \in ToSet(q.keys)})
          found == Find(doc, q) IN
      /\ (found # Unset) = (q.terms \subseteq held)
      /\ found # Unset => HitAccepted(q, found) /\ found.excerpt.terms \cap q.terms # {}

\* The excerpt of a hit shows the character at which the term begins, after as
\* much of the text before it as there is room for, however wide the characters
\* before it are in lower case.
ExcerptShowsTerm ==
    Is("excerpt") =>
      LET w == input.in.widths
          at == input.in.at % Bytes(w, Len(w))
          start == CHOOSE i \in DOMAIN w : Bytes(w, i - 1) <= at /\ at < Bytes(w, i)
          shown == Excerpted(w, at) IN
      /\ start \in shown /\ Cardinality(shown) <= ExcerptChars
      /\ \A i \in DOMAIN w : start - ContextChars <= i /\ i <= start => i \in shown

SearchInputs ==
    LET request(path, query, policy, policies) ==
            [path |-> path, query |-> query, policy |-> policy, limit |-> 1, mountPolicies |-> policies]
        policies == {<<"all", "all">>, <<"all", "approved">>}
        requests == {request(path, query, policy, p) : path \in {"/", "/kb", "/kb/a", "/kb/a/"},
                     query \in {"t", "u"}, policy \in {"all", "approved"}, p \in policies}
        terms == SUBSET {"t", "u"} IN
    Of("search", [request : {request("/", "t", "all", p) : p \in policies}, limits : [1..2 -> 1..3],
                  before : SearchWorlds, calls : 1..3,
                  change : [mount : {1, 2}, at : 1..2, kind : {"none", "match", "draft", "redacted"}]])
    \cup Of("resume", [first : requests, then : requests, world : {[m \in {1, 2} |-> <<"match", "draft", "match">>],
                                                                    [m \in {1, 2} |-> <<"match", "match", "match">>]}])
    \cup Of("find", [doc : [content : terms, path : terms, metadata : [{"k", "l"} -> terms]],
                     query : {q \in [fields : (SUBSET {"content", "path", "metadata"}) \ {{}},
                                     keys : {<<>>, <<"k">>, <<"k", "l">>, <<"l", "k">>},
                                     terms : terms \ {{}}] : ("metadata" \in q.fields) = (q.keys # <<>>)}])
    \cup Of("excerpt", [widths : [1..6 -> 1..2], at : 0..11])

\* A search through pages finds each document that matches, once, and shows where.
SearchRules ==
    /\ SearchSteady
    /\ CursorKeepsItsSearch
    /\ WordsFoundTogether
    /\ ExcerptShowsTerm
=============================================================================
