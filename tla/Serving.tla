------------------------------- MODULE Serving -------------------------------
(***************************************************************************)
(* What the HTTP server lets a client reach (serve/auth.rs, grants.rs,     *)
(* routes.rs), how a long read is cut into pages and put together again    *)
(* (serve/paging.rs, store/pages.rs, remote/mod.rs), and how an error      *)
(* crosses the wire (serve/envelope.rs, remote/errors.rs).                 *)
(*                                                                         *)
(* A prefix is the set of names that start with it.                        *)
(***************************************************************************)
EXTENDS RuleInput, Integers, Sequences, SequencesExt, FiniteSets

CONSTANTS
    Name,    \* scopes and conversation ids
    Junk,    \* a JSON value of another type
    Page     \* PAGE, 500 in the code
ASSUME PageAssumption == Page \in Nat \ {0} /\ Unset \notin Int
ASSUME ValuesAssumption == Unset # Junk /\ {Unset, Junk} \cap Name = {}

(***************************************************************************)
(* Clients and tokens.                                                     *)
(***************************************************************************)
\* Mutant: only a repeated actor is refused.
RepeatsActor(entries, i) == \E j \in 1..(i - 1) : entries[j].actor = entries[i].actor
Repeats(entries, i) ==
    \E j \in 1..(i - 1) : entries[j].token = entries[i].token \/ entries[j].actor = entries[i].actor
ParseClients(entries) ==
    IF \E i \in DOMAIN entries : entries[i].token = Unset \/ entries[i].actor = Junk \/ Repeats(entries, i)
    THEN Unset ELSE entries
\* Every entry is compared, and the last that matches counts.
Bearer(clients, token) ==
    LET S == {i \in DOMAIN clients : clients[i].token = token} IN
    IF S = {} THEN Unset ELSE clients[Max(S)].actor

\* A token that was configured names one client, its own, whatever other
\* entries stand in the list, and no other token names anybody.
TokensNameOne ==
    Is("tokens") =>
      LET clients == ParseClients(input.in) IN
      clients # Unset =>
        /\ \A i \in DOMAIN clients : Bearer(clients, clients[i].token) = clients[i].actor
        /\ Bearer(clients, Junk) = Unset

(***************************************************************************)
(* What a request may reach.                                               *)
(***************************************************************************)
MemoryReads == {"memory/read", "memory/list_documents", "memory/versions", "memory/history",
                "memory/redactions", "memory/search", "memory/changes"}
MemoryWrites == {"memory/write", "memory/delete", "memory/rename"}
MemoryErases == {"memory/redact", "memory/prune_changes"}
TurnReads == {"conversation/read_turns", "conversation/last_turn_number",
              "conversation/read_projections"}
TurnAppends == {"conversation/append_turn", "conversation/append_projections"}
TurnErases == {"conversation/redact_turns"}
ListRoutes == {"conversation/search_turns", "conversation/turn_redactions"}
StoreRoutes == {"store/scopes", "store/conversations", "store/restore_scope",
                "store/restore_conversation"}
MemoryRoutes == MemoryReads \cup MemoryWrites \cup MemoryErases
Routes == MemoryRoutes \cup TurnReads \cup TurnAppends \cup TurnErases \cup ListRoutes \cup StoreRoutes

IsList(l) == l \notin {Unset, Junk}
Listed(l) == {l[i] : i \in DOMAIN l}

Constrained(c) == c.scopes # Unset \/ c.conversations # Unset
MayScope(c, s) == c.scopes # Unset => s \in c.scopes
MayConversation(c, id) ==
    Constrained(c) => /\ c.conversations # Unset
                      /\ id \in c.conversations

\* Mutant: a search without a list of conversations is let through.
ClientAllowsUnlisted(c, route, p) ==
    Constrained(c) =>
      /\ route \notin StoreRoutes
      /\ p.scope \in Name => MayScope(c, p.scope)
      /\ p.conversation_id \in Name => MayConversation(c, p.conversation_id)
      /\ IsList(p.conversations) =>
           \A id \in Listed(p.conversations) \cap Name : MayConversation(c, id)
      /\ p.scope \in Name \/ p.conversation_id \in Name \/ IsList(p.conversations)
ClientAllows(c, route, p) ==
    Constrained(c) =>
      /\ route \notin StoreRoutes
      /\ route \in ListRoutes => IsList(p.conversations)
      /\ p.scope \in Name => MayScope(c, p.scope)
      /\ p.conversation_id \in Name => MayConversation(c, p.conversation_id)
      /\ IsList(p.conversations) =>
           \A id \in Listed(p.conversations) \cap Name : MayConversation(c, id)
      /\ p.scope \in Name \/ p.conversation_id \in Name \/ IsList(p.conversations)

Erases(route) == route \in MemoryErases \cup TurnErases
GrantsAllow(g, route, p) ==
    LET scoped(write) == \E s \in g.scopes : s.scope = p.scope /\ IF write THEN s.write ELSE s.read
        named(id) == \E s \in g.conversations :
                        id \in s.ids /\ IF route \in TurnAppends \cup TurnErases THEN s.append ELSE s.read IN
    /\ route \in StoreRoutes \/ Erases(route) => g.operator
    /\ route \in MemoryRoutes => p.scope \in Name /\ scoped(route \in MemoryWrites \cup MemoryErases)
    /\ route \in ListRoutes => /\ IsList(p.conversations)
                               /\ \A id \in Listed(p.conversations) : id \in Name /\ named(id)
    /\ route \in TurnReads \cup TurnAppends \cup TurnErases =>
         p.conversation_id \in Name /\ named(p.conversation_id)

Answers(c, g, route, p) == ClientAllows(c, route, p) /\ (g # Unset => GrantsAllow(g, route, p))

\* What the handler of a route reads or changes, when it does not refuse its
\* parameters: a list that is left out means every conversation.
Effect(route) ==
    CASE Erases(route) -> "erase" [] route \in MemoryWrites \cup TurnAppends -> "write"
      [] OTHER -> "read"
Reach(route, p) ==
    LET on(kind, names) == {[kind |-> kind, name |-> n, effect |-> Effect(route)] : n \in names} IN
    CASE route \in MemoryRoutes -> on("scope", {p.scope} \cap Name)
      [] route \in StoreRoutes -> on("scope", Name) \cup on("conversation", Name)
      [] route \in ListRoutes ->
            on("conversation", IF p.conversations = Unset THEN Name
                               ELSE IF IsList(p.conversations) /\ Listed(p.conversations) \subseteq Name
                               THEN Listed(p.conversations) ELSE {})
      [] OTHER -> on("conversation", {p.conversation_id} \cap Name)

Within(c, g, route, t) ==
    /\ t.kind = "scope" => MayScope(c, t.name)
    /\ t.kind = "conversation" => MayConversation(c, t.name)
    /\ g # Unset /\ (t.effect = "erase" \/ route \in StoreRoutes) => g.operator
    /\ g # Unset /\ route \notin StoreRoutes =>
         IF t.kind = "scope"
         THEN \E s \in g.scopes : s.scope = t.name /\ (IF t.effect = "read" THEN s.read ELSE s.write)
         ELSE \E s \in g.conversations : t.name \in s.ids /\ (IF t.effect = "read" THEN s.read ELSE s.append)

Payloads == [scope : Name \cup {Unset, Junk}, conversation_id : Name \cup {Unset, Junk},
             conversations : {Unset, Junk, <<Junk>>} \cup BoundedSeq(Name, 2)]

\* Whatever a request carries, in fields its handler uses or not, what the
\* handler then reads or changes lies within the client's prefixes and its
\* grants: nothing is reached by leaving a name out, or by naming another.
NothingBeyondReach ==
    Is("access") =>
      LET r == input.in IN
      \A p \in Payloads : Answers(r.client, r.grants, r.route, p) =>
         \A t \in Reach(r.route, p) : Within(r.client, r.grants, r.route, t)

(***************************************************************************)
(* Pages.  The rows of a conversation stand in the order of their turns; a *)
(* turn has several projections.                                           *)
(***************************************************************************)
Least(a, b) == IF a < b THEN a ELSE b
Cut(rows, limit) == IF limit = Unset THEN rows ELSE SubSeq(rows, 1, Least(limit, Len(rows)))
\* How many of the rows, which stand in order, belong to turns up to this one.
Upto(rows, turn) == CHOOSE n \in 0..Len(rows) : \A i \in DOMAIN rows : rows[i] <= turn <=> i <= n
\* The store's own read: the rows after a turn, at most limit of them.
ReadRows(rows, after, limit) == Cut(SubSeq(rows, Upto(rows, after) + 1, Len(rows)), limit)
Size(limit) == IF limit = Unset THEN Page ELSE Least(limit, Page)
Answered(items, next) == [items |-> items, next |-> next]

TurnsPage(rows, after, limit) ==
    LET got == ReadRows(rows, after, Size(limit)) IN
    IF Len(got) < Size(limit) \/ Size(limit) = limit
    THEN Answered(got, Unset) ELSE Answered(got, Last(got))

\* Mutant: the boundary turn's entries are kept, and skipped by the next page.
PartedTurns(rows, after, limit) ==
    LET got == ReadRows(rows, after, Size(limit)) IN
    IF Len(got) < Size(limit) \/ Size(limit) = limit
    THEN Answered(got, Unset) ELSE Answered(got, Last(got))
\* A page never parts the entries of one turn: it ends before the last turn it
\* met, and is read again at twice the size while that is the only one.
Complete(got) == Upto(got, Last(got) - 1)
Enough(got, size, limit) == Len(got) < size \/ size = limit \/ Complete(got) # 0
Wider(size, limit) == IF limit = Unset THEN size * 2 ELSE Least(size * 2, limit)
\* The size after as many reads; it stays once it is enough.
Widened(rows, after, limit) ==
    LET size[n \in 0..Len(rows)] ==
          IF n = 0 THEN Size(limit)
          ELSE IF Enough(ReadRows(rows, after, size[n - 1]), size[n - 1], limit) THEN size[n - 1]
          ELSE Wider(size[n - 1], limit) IN
    size[Len(rows)]
ProjectionsPage(rows, after, limit) ==
    LET size == Widened(rows, after, limit)
        got == ReadRows(rows, after, size) IN
    IF Len(got) < size \/ size = limit THEN Answered(got, Unset)
    ELSE Answered(SubSeq(got, 1, Complete(got)), Last(got) - 1)

\* The client asks for what remains until the server says there is no more,
\* nothing comes, or it has what it asked for.
Begun(after, limit) == [items |-> <<>>, after |-> after, left |-> limit, more |-> TRUE]
Gathered(s, page) ==
    LET left == IF s.left = Unset THEN Unset ELSE s.left - Len(page.items) IN
    IF ~s.more THEN s
    ELSE [items |-> s.items \o page.items, after |-> page.next, left |-> left,
          more |-> page.next # Unset /\ page.items # <<>> /\ (left # Unset => left > 0)]
\* A page that is not the last brings a row, so there are no more calls than rows.
Follow(entries, rows, limit) ==
    LET page(s) == IF entries = "turns" THEN TurnsPage(rows, s.after, s.left)
                                        ELSE ProjectionsPage(rows, s.after, s.left)
        run[n \in 0..(Len(rows) + 1)] ==
          IF n = 0 THEN Begun(0, limit) ELSE Gathered(run[n - 1], page(run[n - 1])) IN
    run[Len(rows) + 1].items

\* Reading through pages is reading at once, whatever the limit, the page size
\* and the number of entries a turn has (turns are rows with one entry each).
PagesAreWhole ==
    Is("pages") =>
      LET r == input.in IN
      /\ Follow("projections", r.rows, r.limit) = ReadRows(r.rows, 0, r.limit)
      /\ (\A i, j \in DOMAIN r.rows : i < j => r.rows[i] < r.rows[j])
           => Follow("turns", r.rows, r.limit) = ReadRows(r.rows, 0, r.limit)

(***************************************************************************)
(* Listings.  The documents change between the pages of one listing.      *)
(***************************************************************************)
\* Mutant: the cursor is the extra row, which no page then holds.
PagedPast(keys, limit) ==
    IF Len(keys) <= limit THEN Answered(keys, Unset)
    ELSE Answered(SubSeq(keys, 1, limit), keys[limit + 1])
Paged(keys, limit) ==
    IF Len(keys) <= limit THEN Answered(keys, Unset)
    ELSE Answered(SubSeq(keys, 1, limit), keys[limit])
InOrder(keys) == [i \in 1..Cardinality(keys) |-> CHOOSE k \in keys : Cardinality({x \in keys : x < k}) = i - 1]
ListPage(keys, after, limit) == Paged(InOrder({k \in keys : k > after}), limit)
\* memory_page: no limit asks for the page size, and zero for nothing.
MemoryPage(keys, after, limit) ==
    IF limit = 0 THEN Answered(<<>>, Unset) ELSE ListPage(keys, after, Size(limit))

\* Version rows, history and the trail are read from the newest back.
Newest(head) == [i \in 1..head |-> head + 1 - i]
\* Mutant: the cursor's own row is read again.
OlderPageFrom(head, before, limit) ==
    Paged(Newest(IF before = Unset THEN head ELSE Least(head, before)), Size(limit))
OlderPage(head, before, limit) ==
    Paged(Newest(IF before = Unset THEN head ELSE Least(head, before - 1)), Size(limit))

\* What the store is at the n-th call: the states in order, then the last.
During(states, n) == states[Least(n, Len(states))]
History(heads, limit) ==
    LET run[n \in 0..(heads[1] + 1)] ==
          IF n = 0 THEN Begun(Unset, limit)
          ELSE Gathered(run[n - 1], OlderPage(During(heads, n), run[n - 1].after, run[n - 1].left)) IN
    run[heads[1] + 1].items

\* However many rows are appended while it is read, a history read through
\* pages is the history at its first page: newest first, each row once.
HistoryIsOneMoment ==
    Is("history") =>
      LET r == input.in IN
      History(r.heads, r.limit) = Cut(Newest(r.heads[1]), r.limit)

Listing(worlds, limit) ==
    LET calls == Cardinality(UNION ToSet(worlds)) + 1
        run[n \in 0..calls] ==
          IF n = 0 THEN Begun(0, limit)
          ELSE Gathered(run[n - 1], MemoryPage(During(worlds, n), run[n - 1].after, run[n - 1].left)) IN
    run[calls].items

\* state/scan.rs refuses a page that goes back and a cursor it has seen.
Scannable(listed) == \A i \in 2..Len(listed) : listed[i - 1] < listed[i]

\* However documents come and go between the pages, a listing names each once
\* and in order, names none that never was, and without a limit names every
\* one that was there throughout.
ListingSteady ==
    Is("listing") =>
      LET r == input.in
          listed == Listing(r.worlds, r.limit) IN
      /\ Scannable(listed)
      /\ ToSet(listed) \subseteq UNION ToSet(r.worlds)
      /\ LET throughout == {k \in UNION ToSet(r.worlds) : \A i \in DOMAIN r.worlds : k \in r.worlds[i]} IN
         IF r.limit = Unset THEN throughout \subseteq ToSet(listed)
         ELSE /\ Len(listed) <= r.limit
              /\ Len(listed) < r.limit => throughout \subseteq ToSet(listed)

(***************************************************************************)
(* Errors on the wire.                                                     *)
(***************************************************************************)
Acted == {"memory_document_not_found", "memory_scope_invalid", "memory_path_invalid",
          "memory_format_unsupported", "memory_conflict", "agent_conversation_id_invalid",
          "agent_conversation_format_unsupported", "agent_conversation_conflict"}
Codes == Acted \cup {"value_error", "agent_configuration_error", "forbidden", "neosian_error"}
\* A failure the store answers, as the response the server gives.
Fail(error) ==
    IF error.kind = "io" THEN [status |-> 500, code |-> Unset, details |-> Unset]
    ELSE IF error.kind = "value" THEN [status |-> 400, code |-> "value_error", details |-> Unset]
    ELSE [status |-> IF error.code = "forbidden" THEN 403 ELSE 400,
          code |-> error.code, details |-> error.details]

Typed(code, details) == code \in Acted /\ details # Junk
\* Mutant: an answer that is not understood counts as a refusal.
DecodeAsRefusal(response) == [refused |-> TRUE, code |-> response.code, details |-> response.details]
Decode(response) ==
    IF response.code = Unset THEN [refused |-> FALSE, code |-> Unset, details |-> Unset]
    ELSE IF response.code \in {"value_error", "agent_configuration_error"} \/ Typed(response.code, response.details)
    THEN [refused |-> TRUE, code |-> response.code, details |-> response.details]
    ELSE [refused |-> TRUE, code |-> "neosian_error", details |-> response.details]

\* A caller learns that its call was refused exactly when the store refused
\* it, and a conflict or a missing document arrives as itself, with the
\* versions a retry compares; a failure of the server stays an unknown outcome.
ErrorsKeepTheirMeaning ==
    Is("errors") =>
      LET e == input.in
          d == Decode(Fail(e)) IN
      /\ d.refused = (e.kind # "io")
      /\ e.kind = "memory" /\ e.code \in Acted /\ e.details # Junk
           => d.code = e.code /\ d.details = e.details
      /\ d.code \in Acted => e.kind = "memory" /\ e.code = d.code

ServingInputs ==
    LET prefixes == {Unset} \cup SUBSET Name
        n == CHOOSE x \in Name : TRUE IN
    Of("tokens", BoundedSeq([actor : Name \cup {Junk}, token : Name \cup {Unset}], 3))
    \cup Of("access",
        [client : [scopes : prefixes, conversations : prefixes],
         route : Routes,
         grants : {Unset} \cup
            [scopes : {{}} \cup {{s} : s \in [scope : {n}, read : BOOLEAN, write : BOOLEAN]},
             conversations : {{}} \cup {{c} : c \in [ids : {{n}}, read : BOOLEAN, append : BOOLEAN]},
             operator : BOOLEAN]])
    \cup Of("pages", [rows : {s \in BoundedSeq(1..3, 6) : \A i \in 2..Len(s) : s[i - 1] <= s[i]},
                      limit : 0..7 \cup {Unset}])
    \cup Of("listing", [worlds : [1..3 -> SUBSET (1..4)], limit : 0..3 \cup {Unset}])
    \cup Of("history", [heads : {h \in [1..3 -> 0..6] : h[1] <= h[2] /\ h[2] <= h[3]},
                        limit : 1..6 \cup {Unset}])
    \cup Of("errors", [kind : {"memory", "value", "io"}, code : Codes, details : Name \cup {Junk}])

\* A caller of the server reaches what it was granted and nothing else, reads
\* through pages what stands in the store, and hears of a refusal what it was.
ServingRules ==
    /\ TokensNameOne
    /\ NothingBeyondReach
    /\ PagesAreWhole
    /\ ListingSteady
    /\ HistoryIsOneMoment
    /\ ErrorsKeepTheirMeaning
=============================================================================
