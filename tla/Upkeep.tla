-------------------------------- MODULE Upkeep --------------------------------
(***************************************************************************)
(* Upkeep of one scope (upkeep/): a proposal of several changes is prepared *)
(* from what was read, approved by its digest, and applied one document at *)
(* a time, with everything observed read again before each write, while    *)
(* others go on writing.  Every read is a store call of its own; a process *)
(* may die, or fail, between two calls and the proposal be applied again.  *)
(*                                                                         *)
(* The collection's rules are one more observed document; provenance,      *)
(* sizes and mounts are left out.  Bound: no week passes, so a document    *)
(* written meanwhile is never old enough to delete.                        *)
(***************************************************************************)
EXTENDS MemoryCommands, SequencesExt

CONSTANTS
    Hollow,      \* the texts that are blank
    MaxChanges,  \* 32 in the code: changes of a proposal
    MaxApplies,  \* bound: times the proposal is applied
    MaxOthers    \* bound: mutations by somebody else

ASSUME UpkeepAssumption ==
    /\ Hollow \subseteq Text /\ MaxChanges \in Nat
    /\ MaxApplies \in Nat /\ MaxOthers \in Nat

VARIABLES
    fresh,    \* documents updated within the last seven days
    plan,     \* the proposal
    work,     \* prepare or apply under way
    landed,   \* history: the changes applied, with the version each produced
    alone     \* history: nobody else has written since the proposal was applied

upkeep     == <<fresh, plan, work, landed, alone>>
upkeepVars == <<commandVars, upkeep>>

NoPlan   == [proposed |-> FALSE]
NoUpkeep == [upkeep |-> FALSE]

\* guards is what was read, in apply what is expected; todo what recheck has
\* left to read; tries how often the proposal has been applied; doc the target
\* as it was last read.
NoWork == [phase |-> "idle", changes |-> <<>>, guards |-> <<>>, at |-> 1,
           todo |-> {}, tries |-> 0, doc |-> NoDoc]

\* observe: the guard of a document, which digests all there is to it.
Observe(p) == docs[p]

\* Mutant of Same: the version is not compared.
SameContent(a, b) ==
    IF NoDoc \in {a, b} THEN a = b ELSE a.content = b.content /\ a.mark = b.mark

Same(a, b) == a = b
Current(p) == Live(p) /\ docs[p].mark = "plain"

-----------------------------------------------------------------------------
(* scan and prepare.                                                       *)

\* scan: blank documents and exact duplicates of another, the keeper.
Finding(p, keeper) ==
    /\ Current(p) /\ p \notin fresh
    /\ IF docs[p].content \in Hollow THEN keeper = NoPath
       ELSE /\ keeper \in Path \ {p} /\ Current(keeper)
            /\ docs[keeper].content = docs[p].content

EditOf(p, op, text, version, other) ==
    [path |-> p, op |-> op, text |-> text, version |-> version, other |-> other]

\* A replacement, a restoration and a deletion; other is a source, or the keeper.
Edits(p) ==
    {EditOf(p, "replace", text, 0, other) : text \in Text, other \in (Path \ {p}) \cup {NoPath}}
    \cup {EditOf(p, "restore", Cleared, journal[p][i].version, NoPath) : i \in DOMAIN journal[p]}
    \cup {EditOf(p, "delete", Cleared, 0, k) : k \in {k \in Path \cup {NoPath} : Finding(p, k)}}

\* Mutant of Valid: a keeper may be changed by the same proposal.
ValidTargets(changes) ==
    \A i, j \in DOMAIN changes : i # j => changes[i].path # changes[j].path

\* Request.validate, Proposal.validate: distinct targets, and no keeper is one.
Valid(changes) ==
    /\ \A i, j \in DOMAIN changes : i # j => changes[i].path # changes[j].path
    /\ \A i, j \in DOMAIN changes :
          changes[i].op = "delete" => changes[i].other # changes[j].path

Requests ==
    UNION {[1..n -> UNION {Edits(p) : p \in Path}] : n \in 1..MaxChanges}

Begin ==
    /\ work = NoWork /\ plan = NoPlan
    /\ \E r \in Requests : work' = [NoWork EXCEPT !.phase = "target", !.changes = r]
    /\ UNCHANGED <<commandVars, fresh, plan, landed, alone>>

\* record: a document read twice must not have changed in between.
Unmoved(p) == p \in DOMAIN work.guards => Same(work.guards[p], Observe(p))
Noted(p) ==
    [q \in DOMAIN work.guards \cup {p} |-> IF q = p THEN Observe(p) ELSE work.guards[q]]

\* prepare reads the target of each edit, then its source or its keeper.
ReadTarget ==
    /\ work.phase = "target" /\ work.at <= Len(work.changes)
    /\ LET c == work.changes[work.at]
       IN  work' = IF ~(Current(c.path) /\ Unmoved(c.path)) THEN NoWork
                   ELSE IF c.other = NoPath
                   THEN [work EXCEPT !.guards = Noted(c.path), !.at = work.at + 1]
                   ELSE [work EXCEPT !.guards = Noted(c.path), !.phase = "source"]
    /\ UNCHANGED <<commandVars, fresh, plan, landed, alone>>

ReadSource ==
    /\ work.phase = "source"
    /\ LET p == work.changes[work.at].other
       IN  work' = IF Current(p) /\ Unmoved(p)
                   THEN [work EXCEPT !.guards = Noted(p), !.at = work.at + 1,
                                     !.phase = "target"]
                   ELSE NoWork
    /\ UNCHANGED <<commandVars, fresh, plan, landed, alone>>

\* deletion: old enough, and blank or what its keeper holds now.
Deletable(change, doc) ==
    /\ change.path \notin fresh
    /\ IF change.other = NoPath THEN doc.content \in Hollow
       ELSE /\ doc.content \notin Hollow
            /\ Current(change.other) /\ docs[change.other].content = doc.content

\* historical: the rows a restoration may take its content from.
Historical(change) ==
    {row \in Range(journal[change.path]) : row.version = change.version
                                           /\ row.mark = "plain" /\ row.action # "deleted"}

\* The content a change leaves, Cleared for a deletion.
Content(change) ==
    IF change.op = "restore" THEN (CHOOSE row \in Historical(change) : TRUE).content
                             ELSE change.text

Possible(change, doc) ==
    CASE change.op = "delete"  -> Deletable(change, doc)
      [] change.op = "restore" -> Historical(change) # {}
      [] OTHER -> TRUE

Propose ==
    /\ work.phase = "target" /\ work.at > Len(work.changes)
    /\ LET possible == /\ Valid(work.changes)
                       /\ \A i \in DOMAIN work.changes :
                            Possible(work.changes[i], work.guards[work.changes[i].path])
       IN  plan' = IF possible
                   THEN [guards |-> work.guards,
                         changes |-> [i \in DOMAIN work.changes |->
                            [work.changes[i] EXCEPT !.text = Content(work.changes[i])]]]
                   ELSE plan
    /\ work' = NoWork
    /\ UNCHANGED <<commandVars, fresh, landed, alone>>

-----------------------------------------------------------------------------
(* apply.  A check that fails ends it with the receipts it has.            *)

Going(phase, expected, at, tries) ==
    [NoWork EXCEPT !.phase = phase, !.guards = expected, !.todo = DOMAIN expected,
                   !.at = at, !.tries = tries]

\* With the approval; the mark is of how often it was applied before.
Apply(tries) ==
    /\ work = NoWork /\ plan # NoPlan /\ tries <= MaxApplies
    /\ \A i \in DOMAIN landed : landed[i].tries < tries
    /\ work' = Going("preflight", plan.guards, 1, tries)
    /\ alone' = TRUE
    /\ UNCHANGED <<commandVars, fresh, plan, landed>>

\* recheck: every observation is read again, in some order, and must be as
\* expected.
Recheck ==
    /\ work.phase \in {"preflight", "recheck"}
    /\ \E p \in work.todo :
        work' = IF Same(work.guards[p], Observe(p))
                THEN [work EXCEPT !.todo = work.todo \ {p}] ELSE NoWork
    /\ UNCHANGED <<commandVars, fresh, plan, landed, alone>>

Changing(w) == plan.changes[w.at]

\* preflight: and every change must still be possible.
Preflight ==
    /\ work.phase = "preflight" /\ work.todo = {}
    /\ work' = IF \A i \in DOMAIN plan.changes :
                    LET c == plan.changes[i]
                    IN  Current(c.path) /\ Possible(c, docs[c.path])
               THEN Going("recheck", work.guards, 1, work.tries) ELSE NoWork
    /\ UNCHANGED <<commandVars, fresh, plan, landed, alone>>

\* The target once more, immediately before it is written.
Look ==
    /\ work.phase = "recheck" /\ work.todo = {}
    /\ LET c == Changing(work)
       IN  work' = IF Same(work.guards[c.path], Observe(c.path)) /\ Current(c.path)
                   THEN [work EXCEPT !.phase = IF c.op = "delete" THEN "keeper" ELSE "write",
                                     !.doc = docs[c.path]]
                   ELSE NoWork
    /\ UNCHANGED <<commandVars, fresh, plan, landed, alone>>

LookAtKeeper ==
    /\ work.phase = "keeper"
    /\ LET c == Changing(work)
       IN  work' = IF Deletable(c, work.doc)
                   THEN [work EXCEPT !.phase = "write"] ELSE NoWork
    /\ UNCHANGED <<commandVars, fresh, plan, landed, alone>>

Lands(version) ==
    /\ landed' = Append(landed, [at |-> work.at, version |-> version, tries |-> work.tries])
    /\ work' = [work EXCEPT !.phase = "verify"]
    /\ fresh' = fresh \cup {Changing(work).path}

\* Mutant of WriteOne: the replacement does not carry the version.
WriteOneUnfenced ==
    /\ work.phase = "write"
    /\ LET c == Changing(work)
       IN  IF c.op # "delete" THEN Write(c.path, c.text, 0) /\ Lands(docs'[c.path].version)
           ELSE IF Live(c.path)
                THEN Delete(c.path) /\ Lands(Last(journal'[c.path]).version)
                ELSE work' = NoWork /\ UNCHANGED <<vars, fresh, landed>>
    /\ UNCHANGED <<call, plan, alone>>

\* write_one: a replacement carries the version it was checked at, a deletion
\* none.
WriteOne ==
    /\ work.phase = "write"
    /\ LET c == Changing(work)
           was == work.doc.version
       IN  IF c.op # "delete" /\ Accepts(c.path, was)
           THEN Write(c.path, c.text, was) /\ Lands(docs'[c.path].version)
           ELSE IF c.op = "delete" /\ Live(c.path)
           THEN Delete(c.path) /\ Lands(Last(journal'[c.path]).version)
           ELSE work' = NoWork /\ UNCHANGED <<vars, fresh, landed>>
    /\ UNCHANGED <<call, plan, alone>>

\* The receipt is compared with the document; the next change starts over.
Verify ==
    /\ work.phase = "verify"
    /\ LET c == Changing(work)
           doc == docs[c.path]
           agrees == IF c.op = "delete" THEN doc = NoDoc
                     ELSE doc = DocOf(Last(landed).version, c.text, "plain")
       IN  work' = IF agrees /\ work.at < Len(plan.changes)
                   THEN Going("recheck", [work.guards EXCEPT ![c.path] = doc],
                              work.at + 1, work.tries)
                   ELSE NoWork
    /\ UNCHANGED <<commandVars, fresh, plan, landed, alone>>

\* The process dies or a call fails.
Abandon ==
    /\ work.phase \notin {"idle", "target", "source"}
    /\ work' = NoWork
    /\ UNCHANGED <<commandVars, fresh, plan, landed, alone>>

\* Somebody else, from the first request on: every document touched is fresh.
Others ==
    /\ work # NoWork \/ plan # NoPlan
    /\ head.sequence <= Len(landed) + MaxOthers
    /\ \/ \E p \in Path, text \in Text : Write(p, text, 0)
       \/ \E p \in Path : Delete(p)
       \/ \E src, dst \in Path : Rename(src, dst)
       \/ \E p \in Path : Redact(p)
    /\ fresh' = fresh \cup {p \in Path : docs'[p] # docs[p]}
    /\ alone' = FALSE
    /\ UNCHANGED <<call, plan, work, landed>>

\* A behaviour is of the commands of agents, in an empty scope, where NoUpkeep
\* in place of a proposal keeps upkeep away, or of upkeep, in one that is not.
UpkeepInit ==
    /\ CommandInit
    /\ fresh = {} /\ work = NoWork
    /\ plan = IF journal = Blank.journal THEN NoUpkeep ELSE NoPlan
    /\ landed = <<>> /\ alone = FALSE

UpkeepNext ==
    \/ plan = NoUpkeep /\ CommandNext /\ UNCHANGED upkeep
    \/ /\ plan # NoUpkeep
       /\ \/ Begin \/ ReadTarget \/ ReadSource \/ Propose
          \/ \E tries \in 1..MaxApplies : Apply(tries)
          \/ Recheck \/ Preflight \/ Look \/ LookAtKeeper \/ WriteOne \/ Verify
          \/ Abandon \/ Others

UpkeepSpec == UpkeepInit /\ [][UpkeepNext]_upkeepVars

-----------------------------------------------------------------------------
(* Properties.                                                             *)

\* A change of a proposal lands at most once, however often the proposal is
\* applied after a part of it landed, the process died or a document came back
\* to the content that was observed (apply.rs:232).
AppliesOnce ==
    \A i, j \in DOMAIN landed : i # j => landed[i].at # landed[j].at

\* A replacement only ever replaces what its proposal observed, or what was
\* erased of it since: work that somebody did in between is kept
\* (apply.rs:178).
ReplacesObserved ==
    [][landed' # landed =>
        LET c == plan.changes[Last(landed').at]
            seen == plan.guards[c.path]
        IN  c.op # "delete" =>
                /\ Live(c.path) /\ docs[c.path].version = seen.version
                /\ docs[c.path].content \in {seen.content, Cleared}]_upkeepVars

\* As long as nobody else writes, a proposal deletes no text for good: each
\* duplicate it removed is still held by its keeper (model.rs:217).
DuplicatesKept ==
    alone =>
        \A i \in DOMAIN landed :
            LET c == plan.changes[landed[i].at]
            IN  c.op = "delete" /\ c.other # NoPath /\ work.tries = landed[i].tries =>
                    docs[c.other] = plan.guards[c.other]

\* An approved proposal does what was approved, once, and to nothing else.
UpkeepSafe == [](AppliesOnce /\ DuplicatesKept) /\ ReplacesObserved
===============================================================================
