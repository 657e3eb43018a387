---------------------------- MODULE MemoryCommands ----------------------------
(***************************************************************************)
(* The memory commands of several agents on one scope (memory/commands.rs, *)
(* memory/operate.rs).  A command is several store calls with the root     *)
(* lock released in between: create and edit read, then write; revert      *)
(* reads the journal, then writes as create does, or deletes.  Delete,     *)
(* rename and redact are one store call each.                              *)
(*                                                                         *)
(* Mounts and heat are left out: the paths are the documents of all mounts, *)
(* of which only the feeds differ.  The edits str_replace and insert differ *)
(* in the text they make, which is any text.                               *)
(***************************************************************************)
EXTENDS FileStore

CONSTANT Agent

VARIABLE call   \* what each agent's command has read, and what it does next

commandVars == <<vars, call>>

\* undoes is the version a revert was asked to undo.
Idle == [step |-> "idle", path |-> NoPath, text |-> Cleared,
         was |-> 0, held |-> Cleared, undoes |-> 0, to |-> NoPath]

Writing == {"create", "edit", "restore"}

CommandInit == Init /\ call = [a \in Agent |-> Idle]

\* store.read: the version and content of the live document, 0 for none.
Seen(p) == IF Live(p) THEN [was |-> docs[p].version, held |-> docs[p].content]
                      ELSE [was |-> 0, held |-> Cleared]

Begins(a, step, p, text, seen) ==
    /\ call[a] = Idle
    /\ call' = [call EXCEPT ![a] =
                    [Idle EXCEPT !.step = step, !.path = p, !.text = text,
                                 !.was = seen.was, !.held = seen.held]]
    /\ UNCHANGED vars

CreateReads(a, p, text) == Begins(a, "create", p, text, Seen(p))

\* str_replace and insert: a missing or a redacted document refuses.
EditReads(a, p, text) ==
    /\ Live(p) /\ docs[p].mark = "plain"
    /\ Begins(a, "edit", p, text, Seen(p))

\* Mutant: the write does not carry the version that was read.
WritesUnfenced(a) ==
    /\ call[a].step \in Writing
    /\ Write(call[a].path, call[a].text, 0)
    /\ call' = [call EXCEPT ![a] = Idle]

\* The write, with the version that was read; a conflict ends the command.
Writes(a) ==
    LET c == call[a]
    IN  /\ c.step \in Writing
        /\ IF Accepts(c.path, c.was) THEN Write(c.path, c.text, c.was)
                                     ELSE UNCHANGED vars
        /\ call' = [call EXCEPT ![a] = Idle]

\* undo: the two newest rows; the prior one comes back unless there is none.
RevertReads(a, p) ==
    LET rows  == journal[p]
        n     == Len(rows)
        prior == n > 1 /\ rows[n - 1].action # "deleted"
    IN  /\ call[a] = Idle
        /\ n > 0 /\ rows[n].mark = "plain"
        /\ prior => rows[n - 1].mark = "plain"
        /\ call' = [call EXCEPT ![a] =
              [Idle EXCEPT !.step = IF prior THEN "rewind" ELSE "remove",
                           !.path = p, !.undoes = rows[n].version,
                           !.text = IF prior THEN rows[n - 1].content ELSE Cleared]]
        /\ UNCHANGED vars

\* The inverse runs as create, which reads the document as it is now.
RevertRereads(a) ==
    LET seen == Seen(call[a].path)
    IN  /\ call[a].step = "rewind"
        /\ call' = [call EXCEPT ![a].step = "restore",
                                ![a].was = seen.was, ![a].held = seen.held]
        /\ UNCHANGED vars

\* Or it runs as delete; with nothing to remove the command fails.
RevertRemoves(a) ==
    /\ call[a].step = "remove"
    /\ IF Live(call[a].path) THEN Delete(call[a].path) ELSE UNCHANGED vars
    /\ call' = [call EXCEPT ![a] = Idle]

\* rename between two mounts: the source is read, the target looked for and
\* written without a version, the source deleted as it is by then.
MoveReads(a, src, dst) ==
    /\ Live(src) /\ src # dst /\ call[a] = Idle
    /\ call' = [call EXCEPT ![a] =
                    [Idle EXCEPT !.step = "move", !.path = src, !.to = dst,
                                 !.was = docs[src].version, !.held = docs[src].content]]
    /\ UNCHANGED vars

MoveLooks(a) ==
    /\ call[a].step = "move"
    /\ call' = [call EXCEPT ![a] = IF Live(@.to) THEN Idle
                                   ELSE [@ EXCEPT !.step = "copy"]]
    /\ UNCHANGED vars

MoveCopies(a) ==
    /\ call[a].step = "copy"
    /\ Write(call[a].to, call[a].held, 0)
    /\ call' = [call EXCEPT ![a].step = "drop"]

MoveDrops(a) ==
    /\ call[a].step = "drop"
    /\ IF Live(call[a].path) THEN Delete(call[a].path) ELSE UNCHANGED vars
    /\ call' = [call EXCEPT ![a] = Idle]

AtOnce ==
    /\ \/ \E p \in Path : Delete(p)
       \/ \E src, dst \in Path : Rename(src, dst)
       \/ \E named \in Path \cup {NoPath} : Redact(named)
    /\ UNCHANGED call

CommandNext ==
    \/ AtOnce
    \/ \E a \in Agent :
        \/ \E p \in Path, text \in Text : CreateReads(a, p, text) \/ EditReads(a, p, text)
        \/ \E p \in Path : RevertReads(a, p)
        \/ Writes(a) \/ RevertRereads(a) \/ RevertRemoves(a)
        \/ \E src, dst \in Path : MoveReads(a, src, dst)
        \/ MoveLooks(a) \/ MoveCopies(a) \/ MoveDrops(a)

CommandSpec == CommandInit /\ [][CommandNext]_commandVars

-----------------------------------------------------------------------------
(* Properties.                                                             *)

\* A version number names one content for ever: whatever an agent read at a
\* version is what the journal and the live document hold at that version,
\* unless it was erased since.  The fence of a write rests on this.
ReadsName ==
    \A a \in Agent :
        LET c == call[a]
            Same(x) == x.version = c.was => x.content \in {c.held, Cleared}
        IN  c.was # 0 =>
                /\ \A i \in DOMAIN journal[c.path] : Same(journal[c.path][i])
                /\ Live(c.path) => Same(docs[c.path])

\* What a command's write replaces.
Replaces(a, p) ==
    /\ call[a].step \in Writing /\ call'[a] = Idle /\ call[a].path = p
    /\ Live(p) /\ docs' # docs

\* An edit never silently undoes the work of another: what it replaces is what
\* it read, or was erased since, even when the path was deleted, renamed over
\* and recreated in between (commands.rs:202-206).
EditsKeepOthersWork ==
    [][\A a \in Agent, p \in Path :
        Replaces(a, p) /\ call[a].step = "edit" =>
            docs[p].content \in {call[a].held, Cleared}]_commandVars

\* Every command that overwrites fails on a document that moved underneath
\* (commands.rs:128-130: "a document that moved underneath fails correctively
\* instead of being silently replaced").
OverwritesFenced ==
    [][\A a \in Agent, p \in Path :
        Replaces(a, p) => docs[p].version = call[a].was]_commandVars

\* A revert undoes the newest row or nothing (memory.md:28: "A stale revert is
\* refused").
RevertsNewest ==
    [][\A a \in Agent :
        LET c == call[a]
        IN  c.step \in {"restore", "remove"} /\ docs' # docs /\ call'[a] = Idle =>
                journal[c.path][Len(journal[c.path])].version = c.undoes]_commandVars
===============================================================================
