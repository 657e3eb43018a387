------------------------------- MODULE RedoLog -------------------------------
(***************************************************************************)
(* The redo plan of the file store (store/transaction.rs, transaction/     *)
(* stream.rs) under the root lock (store/lock.rs): every public call waits *)
(* for the lock, recovers a plan it finds pending, and then reads, or      *)
(* drafts a plan, publishes it as pending.json and applies it write by     *)
(* write.  `files` is what processes see, `disk` what a power loss leaves. *)
(*                                                                         *)
(* A file is the sequence of texts written to it, so an offset is a length *)
(* and a prefix hash is the prefix itself; a missing file is the empty     *)
(* sequence.  Exchange stages and path validation are left out.            *)
(***************************************************************************)
EXTENDS StoreData

CONSTANTS
    Proc,        \* processes sharing one store root
    Torn,        \* what an interrupted append leaves after the prefix
    NoProc,      \* nobody holds the lock
    FileLimit,   \* NEOSIAN_MAX_FILE_BYTES, in texts
    Faults,      \* which of "kill", "io" and "power" may happen
    MaxFaults    \* and how many of them (bound of the model)

ASSUME ValuesAssumption == Torn \notin Row /\ NoProc \notin Proc
ASSUME BoundsAssumption ==
    /\ FileLimit \in Nat /\ MaxFaults \in Nat
    /\ Faults \subseteq {"kill", "io", "power"}

VARIABLES
    files,       \* visible content of every file
    disk,        \* content that survives a power loss
    pending,     \* visible .transactions/pending.json; empty when absent
    diskPending, \* and what survives of it
    draft,       \* a .neosian-tmp- plan in .transactions, left over or in use
    temps,       \* files beside which a .neosian-tmp- copy lies
    lock,        \* the holder of .store.lock
    pc,          \* where each call is
    at, phase,   \* the write the holder is applying, and how far
    ask, seen, answer,
    before,      \* history: the files when the last plan was published
    faults       \* faults so far

plan  == <<pending, diskPending, draft>>
data  == <<files, disk, temps>>
place == <<lock, pc, at, phase>>
call  == <<ask, seen, answer>>
vars  == <<data, plan, place, call, before, faults>>

\* Where the plan of the call itself is published, and where an earlier one is.
Mutating == {"persist", "apply", "clearSync"}
Replaying == {"replay", "replaySync"}
Holding == {"recover", "sweep", "ready", "publish"} \cup Mutating \cup Replaying
Places == {"idle", "waiting"} \cup Holding

-----------------------------------------------------------------------------
(* A planned write carries the prefix its append was measured against.     *)

Write(q, content) ==
    [path |-> q.path, op |-> q.op, text |-> q.text,
     prefix |-> IF q.op = "append" THEN content ELSE Missing]

PlanFor(r, fs) == [i \in DOMAIN r |-> Write(r[i], fs[r[i].path])]

Keep(content, n) == SubSeq(content, 1, n)

\* validate_write: the prefix an append was measured on is still there.
PrefixIntact(w, content) ==
    w.op = "append" =>
        /\ Len(content) >= Len(w.prefix)
        /\ Keep(content, Len(w.prefix)) = w.prefix

Valid(pl, fs) ==
    /\ Distinct(pl)
    /\ \A i \in DOMAIN pl : PrefixIntact(pl[i], fs[pl[i].path])

WithinLimit(w) == w.op = "append" => Len(w.prefix) + 1 <= FileLimit

Result(w) == Written(w, w.prefix)

\* The files as they will be once a plan has been replayed.
Overlay(pl, fs) ==
    [f \in File |->
        IF f \in Paths(pl) THEN Result(WriteTo(pl, f)) ELSE fs[f]]

Logical == Overlay(pending, files)

-----------------------------------------------------------------------------
Init ==
    /\ files = Blank /\ disk = files /\ temps = {}
    /\ pending = <<>> /\ diskPending = <<>> /\ draft = <<>>
    /\ lock = NoProc /\ pc = [p \in Proc |-> "idle"]
    /\ at = 1 /\ phase = "start"
    /\ ask = [p \in Proc |-> Read]
    /\ seen = [p \in Proc |-> Blank]
    /\ answer = [p \in Proc |-> "none"]
    /\ before = files /\ faults = 0

Go(p, from, to) == pc[p] = from /\ pc' = [pc EXCEPT ![p] = to]

\* The call returns: the lock file closes.
Answer(p, how) ==
    /\ pc' = [pc EXCEPT ![p] = "idle"]
    /\ lock' = IF lock = p THEN NoProc ELSE lock
    /\ answer' = [answer EXCEPT ![p] = how]
    /\ UNCHANGED ask

Begin(p) ==
    /\ Go(p, "idle", "waiting")
    /\ \E r \in Requests \cup {Read} : ask' = [ask EXCEPT ![p] = r]
    /\ seen' = [seen EXCEPT ![p] = Blank]
    /\ answer' = [answer EXCEPT ![p] = "none"]
    /\ UNCHANGED <<data, plan, lock, at, phase, before, faults>>

\* One successful try_lock of the 10 ms polling loop.
Acquire(p) ==
    /\ lock = NoProc
    /\ Go(p, "waiting", "recover")
    /\ lock' = p
    /\ UNCHANGED <<data, plan, at, phase, call, before, faults>>

\* Mutants of Recover: the pending plan is thrown away; it is never replayed.
RecoverDiscards(p) ==
    /\ Go(p, "recover", "sweep")
    /\ pending' = <<>>
    /\ UNCHANGED <<data, diskPending, draft, lock, at, phase, call, before, faults>>

RecoverRefuses(p) ==
    /\ pc[p] = "recover"
    /\ IF pending = <<>>
       THEN pc' = [pc EXCEPT ![p] = "sweep"] /\ UNCHANGED <<lock, call>>
       ELSE Answer(p, "err") /\ UNCHANGED seen
    /\ UNCHANGED <<data, plan, at, phase, before, faults>>

\* recover: replay a pending plan that validates whole, refuse another.
Recover(p) ==
    /\ pc[p] = "recover"
    /\ IF Valid(pending, files)
       THEN /\ pc' = [pc EXCEPT ![p] = IF pending = <<>> THEN "sweep" ELSE "replay"]
            /\ at' = 1 /\ phase' = "start"
            /\ UNCHANGED <<lock, call>>
       ELSE Answer(p, "err") /\ UNCHANGED <<at, phase, seen>>
    /\ UNCHANGED <<data, plan, before, faults>>

Applying(p) == pc[p] \in {"replay", "apply"} /\ at <= Len(pending)

SetFile(f, content) == files' = [files EXCEPT ![f] = content]

\* The next write.  A removal that finds nothing returns before any sync.
NextWrite == at' = at + 1 /\ phase' = "start"

\* Mutant: an append opens its file truncated instead of cut to the offset.
ApplyStartTruncates(p) ==
    /\ Applying(p) /\ phase = "start"
    /\ LET f == pending[at].path
       IN \/ /\ pending[at].op = "put"
             /\ temps' = temps \cup {f} /\ phase' = "temp"
             /\ UNCHANGED <<files, at>>
          \/ /\ pending[at].op # "put"
             /\ SetFile(f, Missing) /\ temps' = temps \ {f}
             /\ IF pending[at].op = "append" THEN phase' = "write" /\ UNCHANGED at
                ELSE IF files[f] = Missing THEN NextWrite
                ELSE phase' = "sync" /\ UNCHANGED at
    /\ UNCHANGED <<disk, plan, lock, pc, call, before, faults>>

\* apply, first half: clean the directory, then touch the target.
ApplyStart(p) ==
    /\ Applying(p) /\ phase = "start"
    /\ LET w == pending[at]
           f == w.path
       IN \/ /\ w.op = "put"
             /\ temps' = temps \cup {f} /\ phase' = "temp"
             /\ UNCHANGED <<files, at>>
          \/ /\ w.op = "append"
             /\ \E tail \in {<<>>, <<Torn>>} :
                    SetFile(f, Keep(files[f], Len(w.prefix)) \o tail)
             /\ temps' = temps \ {f} /\ phase' = "write"
             /\ UNCHANGED at
          \/ /\ w.op = "remove"
             /\ SetFile(f, Missing)
             /\ temps' = temps \ {f}
             /\ IF files[f] = Missing THEN NextWrite
                ELSE phase' = "sync" /\ UNCHANGED at
    /\ UNCHANGED <<disk, plan, lock, pc, call, before, faults>>

\* Mutant: the text goes to the end of the file, not to the offset.
ApplyWriteAtEnd(p) ==
    /\ Applying(p) /\ phase \in {"temp", "write"}
    /\ LET w == pending[at]
       IN /\ SetFile(w.path, IF phase = "temp" THEN <<w.text>>
                             ELSE Append(files[w.path], w.text))
          /\ temps' = temps \ {w.path}
    /\ phase' = "sync"
    /\ UNCHANGED <<disk, plan, lock, pc, at, call, before, faults>>

\* apply, second half: the rename of a put, the whole text of an append.
ApplyWrite(p) ==
    /\ Applying(p) /\ phase \in {"temp", "write"}
    /\ LET w == pending[at]
           f == w.path
       IN /\ SetFile(f, IF phase = "temp" THEN <<w.text>>
                        ELSE Append(Keep(files[f], Len(w.prefix)), w.text))
          /\ temps' = temps \ {f}
    /\ phase' = "sync"
    /\ UNCHANGED <<disk, plan, lock, pc, at, call, before, faults>>

\* Mutant: atomic_write without its sync.
ApplySyncNot(p) ==
    /\ Applying(p) /\ phase = "sync"
    /\ NextWrite
    /\ UNCHANGED <<data, plan, lock, pc, call, before, faults>>

\* sync_all and sync_parents: the write is on disk.
ApplySync(p) ==
    /\ Applying(p) /\ phase = "sync"
    /\ disk' = [disk EXCEPT ![pending[at].path] = files[pending[at].path]]
    /\ NextWrite
    /\ UNCHANGED <<files, temps, plan, lock, pc, call, before, faults>>

\* Mutant: pending.json goes before the last write was applied.
UnlinkEarly(p) ==
    /\ pc[p] \in {"replay", "apply"} /\ at >= Len(pending)
    /\ pc' = [pc EXCEPT ![p] = IF pc[p] = "replay" THEN "replaySync" ELSE "clearSync"]
    /\ pending' = <<>>
    /\ UNCHANGED <<data, diskPending, draft, lock, at, phase, call, before, faults>>

\* Every write applied: pending.json goes, then its directory is synced.
Unlink(p) ==
    /\ pc[p] \in {"replay", "apply"} /\ at > Len(pending)
    /\ pc' = [pc EXCEPT ![p] = IF pc[p] = "replay" THEN "replaySync" ELSE "clearSync"]
    /\ pending' = <<>>
    /\ UNCHANGED <<data, diskPending, draft, lock, at, phase, call, before, faults>>

SyncUnlink(p) ==
    /\ \/ Go(p, "replaySync", "sweep") /\ UNCHANGED <<lock, ask, answer>>
       \/ pc[p] = "clearSync" /\ Answer(p, "ok")
    /\ diskPending' = pending
    /\ UNCHANGED <<data, pending, draft, at, phase, seen, before, faults>>

\* Mutant: temporary plans are not cleaned.
SweepNothing(p) ==
    /\ Go(p, "sweep", "ready")
    /\ UNCHANGED <<data, plan, lock, at, phase, call, before, faults>>

\* The end of recover: temporary plans of killed writers go.
Sweep(p) ==
    /\ Go(p, "sweep", "ready")
    /\ draft' = <<>>
    /\ UNCHANGED <<data, pending, diskPending, lock, at, phase, call, before, faults>>

Observe(p) ==
    /\ pc[p] = "ready" /\ ask[p] = Read
    /\ seen' = [seen EXCEPT ![p] = files]
    /\ Answer(p, "ok")
    /\ UNCHANGED <<data, plan, at, phase, before, faults>>

\* commit up to the rename: the plan is validated as it is drafted, and a
\* refusal drops the draft.
Draft(p) ==
    /\ pc[p] = "ready" /\ ask[p] # Read
    /\ LET pl == PlanFor(ask[p], files)
       IN IF /\ pending = <<>>
             /\ Valid(pl, files)
             /\ \A i \in DOMAIN pl : WithinLimit(pl[i])
          THEN /\ draft' = pl
               /\ pc' = [pc EXCEPT ![p] = "publish"]
               /\ UNCHANGED <<lock, ask, answer>>
          ELSE Answer(p, "err") /\ UNCHANGED draft
    /\ UNCHANGED <<data, pending, diskPending, at, phase, seen, before, faults>>

\* The synced draft becomes pending.json; its directory is synced next.
Publish(p) ==
    /\ Go(p, "publish", "persist")
    /\ pending' = draft /\ draft' = <<>>
    /\ before' = files
    /\ UNCHANGED <<data, diskPending, lock, at, phase, call, faults>>

\* Mutant: commit without sync_parents after the rename.
PersistNot(p) ==
    /\ Go(p, "persist", "apply")
    /\ at' = 1 /\ phase' = "start"
    /\ UNCHANGED <<data, plan, lock, call, before, faults>>


Persist(p) ==
    /\ Go(p, "persist", "apply")
    /\ diskPending' = pending
    /\ at' = 1 /\ phase' = "start"
    /\ UNCHANGED <<data, pending, draft, lock, call, before, faults>>

-----------------------------------------------------------------------------
Fault(kind) ==
    kind \in Faults /\ faults < MaxFaults /\ faults' = faults + 1

\* A file operation fails: the call answers an error where it stands.  A
\* draft is dropped; a failed put removes its temporary file.
Fail(p) ==
    /\ Fault("io")
    /\ pc[p] # "idle"
    /\ Answer(p, "err")
    /\ draft' = IF pc[p] = "publish" THEN <<>> ELSE draft
    /\ temps' = IF Applying(p) /\ phase = "temp" THEN temps \ {pending[at].path} ELSE temps
    /\ UNCHANGED <<files, disk, pending, diskPending, at, phase, seen, before>>

\* The process dies; the operating system ends its lock.
Kill(p) ==
    /\ Fault("kill")
    /\ pc[p] # "idle"
    /\ Answer(p, "none")
    /\ UNCHANGED <<data, plan, at, phase, seen, before>>

\* Power loss: what was never synced may or may not be there afterwards.
Survivors(f) ==
    {disk[f], files[f]} \cup
        {Append(pending[i].prefix, Torn) : i \in
            {j \in DOMAIN pending : /\ pending[j].path = f
                                   /\ pending[j].op = "append"
                                   /\ disk[f] # files[f]}}

PowerLoss ==
    /\ Fault("power")
    /\ files' \in {fs \in [File -> UNION {Survivors(f) : f \in File}] :
                     \A f \in File : fs[f] \in Survivors(f)}
    /\ disk' = files'
    /\ pending' \in {pending, diskPending} /\ diskPending' = pending'
    /\ draft' \in {draft, <<>>}
    /\ temps' \in SUBSET temps
    /\ lock' = NoProc /\ pc' = [p \in Proc |-> "idle"]
    /\ answer' = [p \in Proc |-> IF pc[p] = "idle" THEN answer[p] ELSE "none"]
    /\ UNCHANGED <<at, phase, ask, seen, before>>

-----------------------------------------------------------------------------
Step(p) ==
    \/ Acquire(p) \/ Recover(p)
    \/ ApplyStart(p) \/ ApplyWrite(p) \/ ApplySync(p)
    \/ Unlink(p) \/ SyncUnlink(p) \/ Sweep(p)
    \/ Observe(p) \/ Draft(p) \/ Publish(p) \/ Persist(p)

Next ==
    \/ \E p \in Proc : Begin(p) \/ Step(p) \/ Fail(p) \/ Kill(p)
    \/ PowerLoss

Spec == Init /\ [][Next]_vars

\* Some call in progress keeps running; no particular one wins the lock.
FairSpec == Spec /\ WF_vars(\E p \in Proc : Step(p))

-----------------------------------------------------------------------------
Texts == Row \cup {Torn}
Writes == [path : File, op : {"put", "append", "remove"}, text : Row, prefix : Seq(Row)]

TypeOK ==
    /\ files \in [File -> Seq(Texts)] /\ disk \in [File -> Seq(Texts)]
    /\ before \in [File -> Seq(Texts)]
    /\ pending \in Seq(Writes) /\ diskPending \in Seq(Writes) /\ draft \in Seq(Writes)
    /\ temps \subseteq File
    /\ lock \in Proc \cup {NoProc} /\ pc \in [Proc -> Places]
    /\ at \in Nat \ {0} /\ phase \in {"start", "temp", "write", "sync"}
    /\ ask \in [Proc -> Requests \cup {Read}]
    /\ seen \in [Proc -> [File -> Seq(Texts)]]
    /\ answer \in [Proc -> {"none", "ok", "err"}]
    /\ faults \in 0..MaxFaults

\* Recovery never meets a pending plan it has to refuse, however often
\* replays were interrupted: what a torn append leaves still carries the
\* prefix the plan was measured against (recover, validate_file).
NeverRefused == Valid(pending, files)

\* Every call takes effect at the instant its plan is renamed to
\* pending.json, whole or not at all; reads return whole plans; "ok" means
\* the plan has landed (FileStore::lock, commit, recover).
CallState ==
    [p \in Proc |-> IF pc[p] = "idle" THEN "idle"
                    ELSE IF pc[p] \in Mutating THEN "landed" ELSE "busy"]
Abs == INSTANCE AtomicStore WITH store <- Logical, state <- CallState
RefinesAtomicStore == Abs!Spec

\* Once a call has recovered, no temporary copy of a body or of a plan is
\* left by an earlier call that died or failed (clean_temps).
NoLeftoverCopies ==
    \A p \in Proc : pc[p] = "ready" => temps = {} /\ draft = <<>>

\* While some call keeps running a published plan gets applied, whoever
\* published it (recover in every later call).
PlanLands ==
    (pending # <<>> /\ \E p \in Proc : pc[p] # "idle")
        ~> (pending = <<>> \/ \A p \in Proc : pc[p] = "idle")

\* Every step keeps the files whole: it publishes a plan, or leaves what
\* the files will be as it was, or (a power loss before the plan was
\* synced) takes the unanswered plan back entirely.
WholePlans ==
    [][\/ Logical' = Logical
       \/ pending = <<>> /\ pending' # <<>> /\ before' = Logical
       \/ pending # <<>> /\ pending' = <<>> /\ Logical' = before]_vars

\* A call answered "ok" leaves nothing unsynced behind it
\* (assets/docs/changes.md: "Successful calls sync their state, events and
\* journal removal").
SyncedAnswer ==
    [][\A p \in Proc : answer[p] # "ok" /\ answer'[p] = "ok"
            => disk' = files' /\ diskPending' = pending']_vars

\* The same of the files alone, where the plan's own removal may be unsynced.
SyncedState ==
    [][\A p \in Proc : answer[p] # "ok" /\ answer'[p] = "ok" => disk' = files']_vars

\* No file changes before the plan that changes it is on disk
\* (assets/docs/changes.md: a mutation "persists one private redo plan at
\* .transactions/pending.json under the root lock before changing" files).
PersistedBeforeChange == [][files' # files => diskPending # <<>>]_vars

\* When power is lost between any two steps of a call or of a recovery, the
\* plan on disk can be replayed, and every step keeps the files whole.
PlansSurvive == []NeverRefused /\ WholePlans

\* What is answered, and what is begun, is on disk first.
Synced == SyncedAnswer /\ PersistedBeforeChange
-----------------------------------------------------------------------------
(* Why recovery works, when no power is lost: the lock makes the holder    *)
(* the only one to touch a plan, a plan stays replayable while it is       *)
(* applied, and what lies outside it is never torn.                        *)

OneHolder == \A p \in Proc : pc[p] \in Holding => lock = p

NothingPending ==
    \A p \in Proc :
        pc[p] \in {"sweep", "ready", "publish", "replaySync", "clearSync"} => pending = <<>>

DraftMeasured ==
    \A p \in Proc : pc[p] = "publish" =>
        /\ ask[p] # Read
        /\ draft = PlanFor(ask[p], files)
        /\ Valid(draft, files)

OutsideWhole == \A f \in File : f \notin Paths(pending) => files[f] \in Seq(Row)

Progress ==
    \A p \in Proc : pc[p] \in {"replay", "apply"} =>
        /\ at <= Len(pending) + 1
        /\ \A i \in DOMAIN pending : i < at => files[pending[i].path] = Result(pending[i])
        /\ phase # "start" => at <= Len(pending)
        /\ phase = "temp" => pending[at].op = "put"
        /\ phase = "write" => pending[at].op = "append"
        /\ phase = "sync" => files[pending[at].path] = Result(pending[at])

\* Between two steps of any interrupted or uninterrupted commit, the part of
\* the plan already applied stands, the rest can still be applied, and no
\* file outside the plan is touched.
RecoveryInv ==
    /\ OneHolder /\ NothingPending /\ DraftMeasured /\ NeverRefused
    /\ OutsideWhole /\ Progress
=============================================================================
