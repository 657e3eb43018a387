------------------------------ MODULE Profiles ------------------------------
(***************************************************************************)
(* Profiles (profile/, record/profile.rs, remote/selection.rs): which store *)
(* a call of a profile reaches, what is captured under its policy, which    *)
(* store a written-down command line opens, and how bindings are edited.    *)
(*                                                                         *)
(* A profile has mounts (source, scope, access), a history (source, scope,  *)
(* the conversations it names, or Unset) and a capture mode.  "own" is a     *)
(* conversation with the workspace's prefix, "other" one without.           *)
(***************************************************************************)
EXTENDS RuleInput, Integers, Sequences, FiniteSets

Conversations == {"own", "other"}
Accesses == {"rw", "ro", "eo"}
Visible(p) == IF p.history = Unset THEN {} ELSE p.history.ids
MountsOf(p, scope) == {m \in p.mounts : m.scope = scope}
IsHistory(p, scope) == p.history # Unset /\ p.history.scope = scope

\* Mutant: the source of a mounted history is not compared.
ValidApart(p) ==
    /\ p.mounts # {}
    /\ \A m, n \in p.mounts : m.scope = n.scope => m = n
    /\ p.mode # "off" => /\ p.history # Unset /\ p.history.ids = {"own"}
                         /\ \A m \in MountsOf(p, p.history.scope) : m.access = "rw"
\* A profile that parses: one mount a scope, one source a scope, and capture
\* only into the workspace's own conversations.
Valid(p) ==
    /\ p.mounts # {}
    /\ \A m, n \in p.mounts : m.scope = n.scope => m = n
    /\ p.history # Unset => /\ p.history.ids # {}
                            /\ \A m \in MountsOf(p, p.history.scope) : m.source = p.history.source
    /\ p.mode # "off" => /\ p.history # Unset /\ p.history.ids = {"own"}
                         /\ \A m \in MountsOf(p, p.history.scope) : m.access = "rw"

\* Bindings give each source a file root or a server; "r1/in" lies inside "r1".
Overlap(a, b) == a = b \/ {a, b} = {"r1", "r1/in"}
Bound(p, b) ==
    p.mode # "off" =>
      /\ b[p.history.source].capture = p.mode
      /\ p.mode = "local" =>
           /\ b[p.history.source].root # "server"
           /\ \A m \in p.mounts : b[m.source].root # "server" =>
                 ~Overlap(b[m.source].root, b[p.history.source].root)

(***************************************************************************)
(* Routing.  A call names a scope and maybe a path, or a conversation.      *)
(***************************************************************************)
Reading == {"read", "list_documents", "document_page", "versions", "history", "redactions"}
Structural == {"delete", "rename", "redact"}
Mounted == {"read_changes", "search_memory", "prune_changes"}
HistoryReads == {"read_turns", "read_projections", "search_turns", "last_turn_number", "turn_redactions"}
HistoryWrites == {"append_turn", "redact_turns"}
Restores == {"restore_scope", "restore_conversation"}
Memory(p, scope, write, structural) ==
    IF MountsOf(p, scope) # {}
    THEN LET m == CHOOSE m \in MountsOf(p, scope) : TRUE IN
         IF (write /\ m.access = "ro") \/ (structural /\ m.access = "eo") THEN "denied" ELSE m.source
    ELSE IF IsHistory(p, scope) /\ (write => p.mode # "off") THEN p.history.source
    ELSE "denied"
HistoryStore(p, id, write) ==
    IF id \in Visible(p) /\ (write => p.mode # "off") THEN p.history.source ELSE "denied"

\* Mutant: an edit-only mount takes a new document.
RouteNew(p, scope, exists) == Memory(p, scope, TRUE, FALSE)
\* A write; exists says whether its path is there.
RouteWrite(p, scope, exists) ==
    IF ~exists /\ \E m \in MountsOf(p, scope) : m.access = "eo" THEN "denied"
    ELSE Memory(p, scope, TRUE, FALSE)
\* Where a call goes.
Route(p, c, exists) ==
    CASE c.op \in Reading -> Memory(p, c.scope, FALSE, FALSE)
      [] c.op \in Structural -> Memory(p, c.scope, TRUE, TRUE)
      [] c.op = "write" -> RouteWrite(p, c.scope, exists)
      [] c.op \in Mounted ->
           IF MountsOf(p, c.scope) = {} THEN "denied"
           ELSE Memory(p, c.scope, c.op = "prune_changes", c.op = "prune_changes")
      [] c.op \in HistoryReads -> HistoryStore(p, c.id, FALSE)
      [] c.op \in HistoryWrites -> HistoryStore(p, c.id, TRUE)
      [] c.op \in Restores -> "denied"

Changes(op) == op \in Structural \cup HistoryWrites \cup Restores \cup {"write", "prune_changes"}

\* A call that is let through stays in the profile: the scope is one of its own
\* and always the same store, a session and its turns lie in one store, nothing
\* read-only changes, nothing edit-only appears or goes, nothing is captured
\* while capture is off, and a local capture's directory is out of reach of the
\* mounts.
RoutedWithinProfile ==
    Is("route") =>
      LET r == input.in
          p == r.p
          to == Route(p, r.call, r.exists) IN
      Valid(p) /\ Bound(p, r.b) /\ to # "denied" =>
        /\ \A m \in MountsOf(p, r.call.scope) : r.call.op \notin HistoryReads \cup HistoryWrites =>
             /\ to = m.source
             /\ Changes(r.call.op) => m.access # "ro"
             /\ ~r.exists \/ r.call.op \in Structural => (Changes(r.call.op) => m.access # "eo")
             /\ p.mode = "local" /\ IsHistory(p, r.call.scope) => FALSE
        /\ IsHistory(p, r.call.scope) \/ r.call.op \in HistoryReads \cup HistoryWrites => to = p.history.source
        /\ Changes(r.call.op) /\ p.mode = "off" =>
             \E m \in MountsOf(p, r.call.scope) : to = m.source /\ m.access # "ro"

\* Mutant: a page of the history is handed on as it came.
ShownWhole(p, store, op) == IF op = "document_page" THEN store.sessions ELSE store.sessions \cap Visible(p)
\* The sessions a listing or a read of the history's scope shows.
Shown(p, store, op) == store.sessions \cap Visible(p)
\* The handoff document names a conversation, or none.
HandoffShown(p, names) == IF names = Unset THEN p.mode # "off" ELSE HistoryStore(p, names, FALSE) # "denied"
\* search_turns and turn_redactions without ids: the visible sessions, or the
\* conversations the profile lists.
HistoryIds(p, store) == IF p.history.prefix THEN Shown(p, store, "list_documents") ELSE Visible(p)

\* A session document is shown, by every way of listing it, exactly when its
\* turns may be read; and what a search covers may be read one by one.
SessionsMatchTurns ==
    Is("sessions") =>
      LET r == input.in IN
      Valid(r.p) /\ r.p.history # Unset =>
        /\ \A op \in {"read", "list_documents", "document_page"} : \A id \in r.store.sessions :
             id \in Shown(r.p, r.store, op) <=> HistoryStore(r.p, id, FALSE) # "denied"
        /\ \A id \in HistoryIds(r.p, r.store) : HistoryStore(r.p, id, FALSE) # "denied"
        /\ r.names # Unset /\ HandoffShown(r.p, r.names) => HistoryStore(r.p, r.names, FALSE) # "denied"

(***************************************************************************)
(* What is captured.  A payload carries texts; the policy names the fields  *)
(* that may be kept and the tools that may not.                            *)
(***************************************************************************)
Contents == {"prompt", "last_assistant_message", "text", "tool_inputs", "tool_outputs"}
ASSUME ContentsAssumption == \A texts \in SUBSET Contents : texts # Unset   \* an empty record is one
Fields == {"prompt", "assistant", "tool_inputs", "tool_outputs", "received_context"}
Events == {"UserPromptSubmit", "PostToolUse", "Stop", "AssistantResponse", "MailboxReceived", "SessionEnd"}
\* The contents a reduced record is made of, by event.
Reduced(event, texts) ==
    CASE event = "UserPromptSubmit" -> texts \cap {"prompt"}
      [] event = "PostToolUse" -> texts \cap {"tool_inputs", "tool_outputs"}
      [] event = "Stop" -> texts \cap {"last_assistant_message"}
      [] event \in {"AssistantResponse", "MailboxReceived"} -> texts \cap {"text"}
      [] OTHER -> {}
Ignored(event) == event = "SessionEnd"
\* Mutant: only the last message is cleared of what the assistant said.
KeptLast(event, texts, policy) ==
    texts \ ((IF "assistant" \in policy.fields THEN {} ELSE {"last_assistant_message"})
             \cup (IF "tool_inputs" \in policy.fields THEN {} ELSE {"tool_inputs"})
             \cup (IF "tool_outputs" \in policy.fields THEN {} ELSE {"tool_outputs"}))
Kept(event, texts, policy) ==
    texts \ ((IF "assistant" \in policy.fields THEN {}
              ELSE {"last_assistant_message"} \cup IF event = "AssistantResponse" THEN {"text"} ELSE {})
             \cup (IF "tool_inputs" \in policy.fields THEN {} ELSE {"tool_inputs"})
             \cup (IF "tool_outputs" \in policy.fields THEN {} ELSE {"tool_outputs"}))
Recorded(event, texts, policy) ==
    IF \/ event = "UserPromptSubmit" /\ "prompt" \notin policy.fields
       \/ event = "MailboxReceived" /\ "received_context" \notin policy.fields
       \/ event = "PostToolUse" /\ (policy.excluded \/ policy.fields \cap {"tool_inputs", "tool_outputs"} = {})
       \/ Ignored(event)
    THEN Unset
    ELSE Reduced(event, Kept(event, texts, policy))
\* What a content is, in the policy's terms.
Means(event, text) ==
    CASE text = "prompt" -> "prompt"
      [] text = "last_assistant_message" -> "assistant"
      [] text = "text" -> IF event = "MailboxReceived" THEN "received_context" ELSE "assistant"
      [] OTHER -> text
\* No event carries a content past the policy, and what the policy names and the
\* event has is kept.
FilterKeepsToPolicy ==
    Is("filter") =>
      LET r == input.in
          kept == Recorded(r.event, r.texts, r.policy) IN
      /\ kept # Unset => \A t \in kept : Means(r.event, t) \in r.policy.fields
      /\ \A t \in Reduced(r.event, r.texts) :
           Means(r.event, t) \in r.policy.fields /\ ~(r.event = "PostToolUse" /\ r.policy.excluded)
           => kept # Unset /\ t \in kept

(***************************************************************************)
(* The guard beside the spool: the configuration its records were made      *)
(* under.  A configuration is a model of its fingerprint; "off" captures    *)
(* nothing.  A call may die after it wrote the guard, after it spooled,     *)
(* after it landed; landing may fail and leave the span.                   *)
(***************************************************************************)
\* Mutant: the guard goes with every answer.
CaptureLoose(s, e) ==
    IF e.config = "off" \/ s.guard \notin {Unset, e.config} THEN s
    ELSE LET spooled == Append(s.spool, e.config)
             lands == e.event = "stop" /\ ~e.fails
             left == IF lands THEN <<>> ELSE spooled IN
         CASE e.dies = "guarded" -> [s EXCEPT !.guard = e.config]
           [] e.dies = "spooled" -> [s EXCEPT !.guard = e.config, !.spool = spooled]
           [] OTHER -> [guard |-> Unset, spool |-> left,
                        turns |-> IF lands THEN s.turns \cup {spooled} ELSE s.turns]
CaptureCall(s, e) ==
    LET span == Append(s.spool, e.config)
        now(guard, spool, turns) == [guard |-> guard, spool |-> spool, turns |-> turns] IN
    IF e.config = "off" \/ s.guard \notin {Unset, e.config} THEN s
    ELSE IF e.dies = "guarded" THEN now(e.config, s.spool, s.turns)
    ELSE IF e.dies = "spooled" \/ e.event # "stop" \/ e.fails THEN now(e.config, span, s.turns)
    ELSE now(IF e.dies = "landed" THEN e.config ELSE Unset, <<>>, s.turns \cup {span})
CaptureRun(s, calls) ==
    LET after[n \in 0..Len(calls)] == IF n = 0 THEN s ELSE CaptureCall(after[n - 1], calls[n]) IN
    after[Len(calls)]
\* A turn is made under one configuration, whatever changed while its span was
\* pending and wherever calls died; and a pending span knows its configuration.
OnePolicyATurn ==
    Is("guard") =>
      LET s == CaptureRun([guard |-> Unset, spool |-> <<>>, turns |-> {}], input.in) IN
      /\ \A t \in s.turns : Cardinality({t[i] : i \in DOMAIN t}) <= 1
      /\ \A i \in DOMAIN s.spool : s.guard = s.spool[i]

(***************************************************************************)
(* Which store a command opens.  flags are --root, --url, --schema and      *)
(* --profile; env the DSN, the client's token, NEOSIAN_PROFILE and the       *)
(* profile the project is bound to.                                        *)
(***************************************************************************)
Selected(flags, env) ==
    IF flags.profile # Unset THEN flags.profile ELSE IF env.profile # Unset THEN env.profile ELSE env.project
\* An ambient DSN is refused, unless a binding of the profile names it.
Conflicts(flags, env) ==
    flags.root # Unset \/ flags.url # Unset \/ flags.schema # Unset \/ (env.dsn # Unset /\ ~env.bindsDsn)
\* Mutant: the DSN of the environment is not counted.
NamedFlags(flags, env) == {f \in {"root", "url"} : flags[f] # Unset}
Named(flags, env) == {f \in {"root", "url"} : flags[f] # Unset} \cup IF env.dsn # Unset THEN {"dsn"} ELSE {}
Opens(flags, env) ==
    IF Selected(flags, env) # Unset THEN
        IF Conflicts(flags, env) THEN <<"refused">> ELSE <<"profile", Selected(flags, env)>>
    ELSE IF Cardinality(Named(flags, env)) > 1 \/ (flags.schema # Unset /\ env.dsn = Unset) THEN <<"refused">>
    ELSE IF env.dsn # Unset THEN <<"dsn", env.dsn, flags.schema>>
    ELSE IF flags.url # Unset THEN IF env.token = Unset THEN <<"refused">> ELSE <<"url", flags.url>>
    ELSE <<"root", IF flags.root = Unset THEN "home" ELSE flags.root>>

\* What an installation writes down: the flags of the registered command.
Installed(flags, env) ==
    LET none == [root |-> Unset, url |-> Unset, schema |-> Unset, profile |-> Unset] IN
    IF Opens(flags, env) = <<"refused">> THEN Unset
    ELSE IF Selected(flags, env) # Unset THEN [none EXCEPT !.profile = Selected(flags, env)]
    ELSE IF env.dsn # Unset THEN [none EXCEPT !.schema = flags.schema]
    ELSE IF flags.url # Unset THEN [none EXCEPT !.url = flags.url]
    ELSE [none EXCEPT !.root = IF flags.root = Unset THEN "home" ELSE flags.root]
Credentials(flags, env) ==
    IF Selected(flags, env) # Unset THEN {} ELSE IF env.dsn # Unset THEN {"dsn"}
    ELSE IF flags.url # Unset THEN {"token"} ELSE {}

\* The registered command opens the store it was installed for, or refuses, in
\* whatever environment and project the client later runs it; provided the
\* credentials it was installed with are still set as they were.  (One for
\* Postgres carries no flag: a profile bound to the same DSN takes it over.)
InstalledStoreOpens ==
    Is("installed") =>
      LET r == input.in
          argv == Installed(r.flags, r.env) IN
      argv # Unset /\ (\A c \in Credentials(r.flags, r.env) : r.later[c] = r.env[c]) =>
         \/ Opens(argv, r.later) \in {<<"refused">>, Opens(r.flags, r.env)}
         \/ "dsn" \in Credentials(r.flags, r.env) /\ r.later.bindsDsn /\ Selected(argv, r.later) # Unset

(***************************************************************************)
(* Bindings: a registry of sources and projects, edited under one lock.     *)
(***************************************************************************)
\* Mutant: another profile's project is taken over without --replace.
BindTakes(reg, b) ==
    IF b.source # Unset /\ reg.sources[b.source] \notin {Unset, b.to} /\ ~b.replace THEN reg
    ELSE [sources |-> [s \in DOMAIN reg.sources |-> IF s = b.source THEN b.to ELSE reg.sources[s]],
          projects |-> [q \in DOMAIN reg.projects |-> IF q = b.project THEN b.profile ELSE reg.projects[q]]]
Bind(reg, b) ==
    IF \/ b.source # Unset /\ reg.sources[b.source] \notin {Unset, b.to} /\ ~b.replace
       \/ b.project # Unset /\ reg.projects[b.project] \notin {Unset, b.profile} /\ ~b.replace
    THEN reg
    ELSE [sources |-> [s \in DOMAIN reg.sources |-> IF s = b.source THEN b.to ELSE reg.sources[s]],
          projects |-> [q \in DOMAIN reg.projects |-> IF q = b.project THEN b.profile ELSE reg.projects[q]]]

\* Two binds, the second of another process that read the profile before the
\* first wrote: nothing bound is changed without --replace, nothing is lost.
BindingsKept ==
    Is("bind") =>
      LET r == input.in
          one == Bind(r.reg, r.first)
          two == Bind(one, r.second) IN
      /\ \A s \in DOMAIN r.reg.sources :
           /\ r.reg.sources[s] # Unset /\ ~r.first.replace /\ ~r.second.replace => two.sources[s] = r.reg.sources[s]
           /\ one.sources[s] # Unset /\ r.second.source # s => two.sources[s] = one.sources[s]
      /\ \A q \in DOMAIN r.reg.projects :
           r.reg.projects[q] # Unset /\ ~r.first.replace /\ ~r.second.replace => two.projects[q] = r.reg.projects[q]

(***************************************************************************)
(* The context of a session start: pieces that fit a budget of characters.  *)
(***************************************************************************)
Footer == 3    \* the footer with its count; the code keeps 32 characters more
Budget(limit) == IF limit > Footer + 1 THEN limit - Footer - 1 ELSE 0
\* Mutant: the separator is not counted.
PushTight(b, size) ==
    IF b.used + size <= b.limit THEN [b EXCEPT !.used = @ + size + IF @ = 0 THEN 0 ELSE 1]
    ELSE [b EXCEPT !.omitted = @ + 1]
Push(b, size) ==
    IF b.used + size + 2 <= b.limit THEN [b EXCEPT !.used = @ + size + IF @ = 0 THEN 0 ELSE 1]
    ELSE [b EXCEPT !.omitted = @ + 1]
Pushed(b, sizes) ==
    LET after[n \in 0..Len(sizes)] == IF n = 0 THEN b ELSE Push(after[n - 1], sizes[n]) IN
    after[Len(sizes)]
RenderContext(limit, sizes) ==
    LET b == Pushed([used |-> 0, limit |-> Budget(limit), omitted |-> 0], sizes) IN
    [size |-> b.used + IF b.omitted > 0 THEN 1 + Footer ELSE 0, omitted |-> b.omitted]
\* The context never exceeds its limit, the note of what was left out included.
ContextWithinBudget ==
    Is("budget") =>
      LET c == RenderContext(input.in.limit, input.in.sizes) IN c.size <= input.in.limit

ProfileInputs ==
    LET mount == [source : {"s1", "s2"}, scope : {"A", "B"}, access : Accesses]
        history == {h \in [source : {"s1", "s2"}, scope : {"A", "C"}, ids : {{"own"}, {"other"}}, prefix : BOOLEAN] :
                      h.prefix <=> h.ids = {"own"}}
        profile == [mounts : {ms \in SUBSET mount : Cardinality(ms) \in 1..2
                                /\ \A m, n \in ms : m.scope = n.scope => m = n},
                    history : history \cup {Unset}, mode : {"off", "local", "shared"}]
        valid == {p \in profile : p.mode # "off" => p.history # Unset /\ p.history.ids = {"own"}}
        bound == {b \in [{"s1", "s2"} -> [root : {"r1", "r1/in", "server"}, capture : {"local", "shared"}]] :
                    b["s1"].capture = b["s2"].capture}
        calls == {[op |-> o, scope |-> s, id |-> "own"] :
                    o \in Reading \cup Structural \cup Mounted \cup Restores \cup {"write"}, s \in {"A", "C"}}
                 \cup {[op |-> o, scope |-> "none", id |-> i] : o \in HistoryReads \cup HistoryWrites, i \in Conversations}
        few == {c \in calls : c.op \in {"read", "write", "delete", "search_memory", "prune_changes",
                                        "read_turns", "append_turn", "restore_scope"}}
        env == [dsn : {"d1", Unset}, token : {"t", Unset}, profile : {"p1", Unset},
                project : {"p2", Unset}, bindsDsn : BOOLEAN]
        flags == [root : {"r1", Unset}, url : {"u1", Unset}, schema : {"x", Unset}, profile : {"p3", Unset}]
        none == [root |-> Unset, url |-> Unset, schema |-> Unset, profile |-> Unset]
        bind == [source : {"s1", Unset}, to : {"e1", "e2"}, project : {"q", Unset},
                 profile : {"p1", "p2"}, replace : BOOLEAN]
        call == [config : {"c1", "c2"}, event : {"prompt", "stop"}, dies : {"no", "guarded", "spooled", "landed"},
                 fails : {FALSE}]
                \cup [config : {"c1"}, event : {"stop"}, dies : {"no"}, fails : {TRUE}]
                \cup [config : {"off"}, event : {"stop"}, dies : {"no"}, fails : {FALSE}] IN
    Of("route", [p : {p \in valid : p.mode = "shared" /\ Cardinality(p.mounts) = 1}, call : calls, exists : BOOLEAN,
                 b : {[s \in {"s1", "s2"} |-> [root |-> "server", capture |-> "shared"]]}])
    \cup Of("route", [p : {p \in valid : p.mode # "shared" /\ \E m \in p.mounts : m.scope = "A"}, call : few,
                      exists : BOOLEAN, b : {[s \in {"s1", "s2"} |-> [root |-> "r1", capture |-> "local"]],
                       [s \in {"s1", "s2"} |-> [root |-> IF s = "s1" THEN "r1" ELSE "server", capture |-> "local"]]}])
    \cup Of("sessions", [p : valid, store : [sessions : SUBSET Conversations], names : Conversations \cup {Unset}])
    \cup Of("filter", [event : Events, policy : [fields : SUBSET Fields, excluded : BOOLEAN],
                       texts : {{"prompt", "last_assistant_message", "text", "tool_inputs", "tool_outputs"},
                                {"prompt", "text"}, {"tool_outputs"}, {}}])
    \cup Of("guard", [1..3 -> call])
    \cup Of("installed", [flags : {f \in flags : Cardinality({k \in DOMAIN f : f[k] # Unset}) <= 2},
                          env : env, later : env])
    \cup Of("bind", [reg : [sources : [{"s1"} -> {"e1", Unset}], projects : [{"q"} -> {"p1", Unset}]],
                     first : bind, second : bind])
    \cup Of("budget", [limit : 4..14, sizes : UNION {[1..n -> 0..6] : n \in 1..3}])

\* A profile bounds what is read, written, captured and shown, in whatever
\* environment a client later runs.
ProfileRules ==
    /\ RoutedWithinProfile
    /\ SessionsMatchTurns
    /\ FilterKeepsToPolicy
    /\ OnePolicyATurn
    /\ InstalledStoreOpens
    /\ BindingsKept
    /\ ContextWithinBudget
=============================================================================
