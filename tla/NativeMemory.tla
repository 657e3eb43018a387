---------------------------- MODULE NativeMemory ----------------------------
(***************************************************************************)
(* Native memory (native_memory/, store/native_memory.rs): a client's own    *)
(* memory files are copied into documents under native-memory/<name>/ by its *)
(* hooks, for the sources somebody registered.  One file of one source is    *)
(* followed.  The document, its journal row and the receipt are one plan of  *)
(* the redo log (RedoLog), so a death leaves all of them or none.           *)
(***************************************************************************)
EXTENDS RuleInput, Integers, Sequences, FiniteSets

\* A registration is [name, agent, source, project, store, scope]; project is Unset
\* for all projects.  Its identity is all of it.
Matches(reg, agent, project) == reg.agent = agent /\ reg.project \in {Unset, project}
\* The mount must also be writable, which is left out.
\* Mutant: what the mount is bound to is not compared with what was consented.
AuthorityOfStore(s, reg, store) == reg.store = store
Authority(s, reg, store) == reg.store = store /\ s.bound = reg.scope
\* The file as a stable read gives it, or Unset: links, another kind of file, an
\* oversized one, or one that changed while it was read refuse the whole scan.
Scan(s, reg) == IF s.files[reg.source].steady THEN s.files[reg.source].content ELSE Unset
\* A place holds a document (or Unset), as many journal rows, the receipts of the
\* registrations, and as history who wrote the content (by: a registration, or Unset
\* for a memory command), whether something was deleted or erased here, and what a
\* capture did wrong.
NextAfter(rows, doc) == IF doc # Unset /\ doc.version >= rows + 1 THEN doc.version + 1 ELSE rows + 1
\* Mutant: a document found without a receipt is taken over.
VerdictAdopting(s, key, reg, content) ==
    LET doc == s.copies[key].doc
        receipt == s.copies[key].receipts[reg] IN
    CASE s.collection \/ (doc # Unset /\ doc.redacted) -> "refused"
      [] doc = Unset -> IF receipt # Unset \/ s.copies[key].rows # 0 THEN "refused" ELSE "create"
      [] OTHER -> IF doc.content = content THEN "unchanged" ELSE "replace"
\* Mutant: history left at the place is not asked about.
VerdictForgetful(s, key, reg, content) ==
    LET doc == s.copies[key].doc
        receipt == s.copies[key].receipts[reg] IN
    CASE s.collection \/ (doc # Unset /\ doc.redacted) -> "refused"
      [] doc = Unset -> IF receipt # Unset THEN "refused" ELSE "create"
      [] receipt = Unset \/ receipt.version # doc.version \/ receipt.content # doc.content -> "refused"
      [] OTHER -> IF doc.content = content THEN "unchanged" ELSE "replace"
\* A copy is replaced only while it is what the receipt of this very registration
\* says was written; what was deleted, erased or put there by others is refused.
Verdict(s, key, reg, content) ==
    LET doc == s.copies[key].doc
        receipt == s.copies[key].receipts[reg] IN
    CASE s.collection \/ (doc # Unset /\ doc.redacted) -> "refused"
      [] doc = Unset -> IF receipt # Unset \/ s.copies[key].rows # 0 THEN "refused" ELSE "create"
      [] receipt = Unset \/ receipt.version # doc.version \/ receipt.content # doc.content -> "refused"
      [] OTHER -> IF doc.content = content THEN "unchanged" ELSE "replace"
Place(reg) == <<reg.scope, reg.name>>
NativeWritten(c, content, by) ==
    LET version == NextAfter(c.rows, c.doc) IN
    [doc |-> [version |-> version, content |-> content, redacted |-> FALSE], rows |-> c.rows + 1,
     receipts |-> IF by = Unset THEN c.receipts
                  ELSE [c.receipts EXCEPT ![by] = [version |-> version, content |-> content]],
     by |-> by, gone |-> c.gone, wrong |-> c.wrong]
Deleted(c) == [doc |-> Unset, rows |-> c.rows + 1, receipts |-> c.receipts, by |-> c.by, gone |-> TRUE, wrong |-> c.wrong]
Redacted(c) ==
    [doc |-> [version |-> c.doc.version, content |-> "erased", redacted |-> TRUE], rows |-> c.rows,
     receipts |-> c.receipts, by |-> c.by, gone |-> TRUE, wrong |-> c.wrong]
\* What is wrong with a capture: it takes over what others wrote, brings back what
\* was erased, or leaves the scope it was consented to.
Wrongs(s, c, reg, verdict) ==
    (IF verdict = "replace" /\ c.by # reg THEN {"taken"} ELSE {})
    \cup (IF verdict = "create" /\ c.gone THEN {"revived"} ELSE {})
    \cup (IF s.bound # reg.scope THEN {"outside"} ELSE {})
Capture(s, reg, content, write) ==
    LET verdict == Verdict(s, Place(reg), reg, content)
        c == s.copies[Place(reg)] IN
    IF verdict \notin {"create", "replace"} \/ ~write THEN s
    ELSE [s EXCEPT !.copies[Place(reg)] = [NativeWritten(c, content, reg) EXCEPT !.wrong = @ \cup Wrongs(s, c, reg, verdict)]]
Sync(s, reg, store, write) ==
    IF ~Authority(s, reg, store) \/ Scan(s, reg) = Unset THEN s ELSE Capture(s, reg, Scan(s, reg), write)
\* The registrations a hook of this agent and project runs, in the order they
\* were made.
SyncAll(s, e) ==
    LET runs(reg) == Matches(reg, e.agent, e.project) /\ reg.store = "home"
        after[n \in 0..Len(s.registry)] ==
          IF n = 0 THEN s
          ELSE IF runs(s.registry[n]) THEN Sync(after[n - 1], s.registry[n], "home", TRUE) ELSE after[n - 1] IN
    after[Len(s.registry)]
NativeHook(s, e) ==
    IF e.subagent \/ e.kind \notin {"SessionStart", "UserPromptSubmit", "PostToolUse", "Stop"} THEN s ELSE SyncAll(s, e)
Registers(s, name) == {i \in DOMAIN s.registry : s.registry[i].name = name}
\* Registering needs a free name; consent is changed by removing it first.
AddSource(s, reg) ==
    IF Registers(s, reg.name) # {} \/ s.bound # reg.scope \/ Scan(s, reg) = Unset THEN s
    ELSE [s EXCEPT !.registry = Append(@, reg)]
RemoveSource(s, name) ==
    IF Registers(s, name) = {} THEN s
    ELSE LET i == CHOOSE i \in Registers(s, name) : TRUE IN
         [s EXCEPT !.registry = SubSeq(@, 1, i - 1) \o SubSeq(@, i + 1, Len(@))]
\* A memory command on a copy: create writes over anything, even what was cleared.
Commanded(c, e) ==
    CASE e.do = "edit" -> NativeWritten(c, e.content, Unset)
      [] e.do = "delete" -> IF c.doc = Unset THEN c ELSE Deleted(c)
      [] e.do = "redact" -> IF c.doc = Unset THEN c ELSE Redacted(c)
NativeEvent(s, e) ==
    CASE e.do = "hook" -> NativeHook(s, e)
      [] e.do = "add" -> AddSource(s, e.reg)
      [] e.do = "remove" -> RemoveSource(s, e.name)
      [] e.do = "save" -> [s EXCEPT !.files[e.source] = [content |-> e.content, steady |-> e.steady]]
      [] e.do \in {"edit", "delete", "redact"} -> [s EXCEPT !.copies[e.key] = Commanded(@, e)]
      [] e.do = "bind" -> [s EXCEPT !.bound = e.scope]
      [] e.do = "govern" -> [s EXCEPT !.collection = TRUE]
NativeLife(s, events) ==
    LET after[n \in 0..Len(events)] == IF n = 0 THEN s ELSE NativeEvent(after[n - 1], events[n]) IN
    after[Len(events)]

\* Nothing is captured yet; regs are the registrations somebody may make.
Fresh(regs, scope) ==
    [registry |-> <<>>, files |-> [f \in {r.source : r \in regs} |-> [content |-> "one", steady |-> TRUE]],
     copies |-> [k \in {Place(r) : r \in regs} |->
                   [doc |-> Unset, rows |-> 0, receipts |-> [r \in regs |-> Unset], by |-> Unset,
                    gone |-> FALSE, wrong |-> {}]],
     bound |-> scope, collection |-> FALSE]
Wrong(life) ==
    LET s == NativeLife(Fresh(life.regs, life.scope), life.events) IN
    UNION {s.copies[k].wrong : k \in DOMAIN s.copies}
\* A capture replaces only what the same registration wrote there last: never an
\* edit, never the copy of another source that had the name before.
CaptureReplacesItsOwn ==
    Is("native") => "taken" \notin Wrong(input.in)
\* What was deleted or erased is not brought back at its place by later captures,
\* though the client still keeps the file, and whatever is registered again.
ErasedCopiesStayGone ==
    Is("native") => "revived" \notin Wrong(input.in)
\* Nothing is captured into a scope the mount was bound to after the consent.
CaptureStaysInConsent ==
    Is("native") => "outside" \notin Wrong(input.in)

Registration(source, project, scope) ==
    [name |-> "notes", agent |-> "codex", source |-> source, project |-> project, store |-> "home", scope |-> scope]
Registrations == {Registration(f, p, "s1") : f \in {"f", "g"}, p \in {Unset, "x"}}

NativeInputs ==
    LET hook(agent, project, subagent) == [do |-> "hook", kind |-> "Stop", agent |-> agent, project |-> project, subagent |-> subagent]
        begin == <<[do |-> "add", reg |-> Registration("f", Unset, "s1")], hook("codex", "x", FALSE)>>
        others == {hook("codex", "x", FALSE), hook("codex", "y", FALSE)}
                  \cup [do : {"add"}, reg : Registrations] \cup [do : {"remove"}, name : {"notes"}]
                  \cup [do : {"save"}, source : {"f"}, content : {"one", "two"}, steady : BOOLEAN]
                  \cup [do : {"edit"}, key : {<<"s1", "notes">>}, content : {"one", "two"}]
                  \cup [do : {"delete", "redact"}, key : {<<"s1", "notes">>}]
                  \cup [do : {"bind"}, scope : {"s1", "s2"}] \cup [do : {"govern"}] IN
    Of("native", [regs : {Registrations}, scope : {"s1"},
                  events : {begin \o es \o <<hook("codex", "x", FALSE)>> : es \in [1..3 -> others] \cup [1..2 -> others]}])
    \cup Of("native", [regs : {Registrations}, scope : {"s1"},
                       events : [1..3 -> others \cup {hook("claude-code", "x", FALSE), hook("codex", "x", TRUE)}]])

\* What is captured from a client's memory files replaces only what was captured
\* from them, leaves what was erased alone, and stays where it was consented to.
NativeRules ==
    /\ CaptureReplacesItsOwn
    /\ ErasedCopiesStayGone
    /\ CaptureStaysInConsent
=============================================================================
