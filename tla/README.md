# A TLA+ verification of neosian

neosian keeps memory documents, their version history, a change feed,
recorded conversations, handoff notes and mailboxes for coding agents. Several
processes of one machine — hooks, MCP servers, command lines — share a
directory of plain files; a Postgres database and an HTTP server are two other
ways to the same operations. There is no resident process that owns the state:
every call takes a file lock, repairs what a dead call left, does its work and
exits. What is hard about the program follows from that: any process may be
killed between any two steps, and most commands are several store calls with
the lock released in between.

Paths below are relative to `crates/neosian/src` unless they start with
`assets`. Documentation is in `assets/docs`, the texts agents read in
`assets/prompts`.

## 1. The system

| Part | State | Operations | Talks to |
|---|---|---|---|
| Root lock (`store/lock.rs`) | `.store.lock` | acquire, wait, release | taken by every store call |
| Redo log (`store/transaction.rs`, `store/transaction/stream.rs`) | `.transactions/pending.json`, drafts, temporary copies | recover, stage, commit, apply, clear | document store, exchange, native memory |
| Document store (`store/write.rs`, `journal.rs`, `restore.rs`) | `documents/`, `versions/`, `redactions.jsonl` | write, delete, rename, redact, restore | redo log below; every command above |
| Change feed (`store/changes.rs`, `changes/`) | `.changes/head.json`, `.changes/events/` | append, read a page, gap, prune | written by every mutation; read by hosts and exchange |
| Memory commands (`memory/commands.rs`, `memory/operate.rs`) | nothing between calls | view, create, str_replace, insert, delete, rename, redact, revert | document store, several calls a command |
| Exchange (`exchange/`, `store/exchange.rs`) | receipts, staged bundles | export, compare, apply | feed, redo log |
| Upkeep (`upkeep/`) | proposals, receipts | observe, propose, apply | document store |
| Mailbox (`messaging/`, `record/mailbox.rs`) | one document a message, `message-links/` | send, inbox, acknowledge, claim, renew, release, complete, snooze, cancel, wake reservation | document store; hooks poll it |
| Recording (`record/`) | the session's spool, its lock, the profile guard | hook events, landing | conversations, sessions documents, handoff |
| Conversations (`store/turns.rs`, `conversation/`) | `turns.jsonl`, projections, the erasure trail | append, read, search, redact turns, restore | recording, operator |
| Handoff (`conversation/handoff.rs`, `sessions.rs`) | the `handoff` document | write, link, pick up, continue_session | recording, document store |
| Operator (`operator/`) | nothing of its own | redact, prune, transfer, audit | conversations and document store |
| Postgres (`postgres/`) | tables with the same content | the store operations, as transactions | alternative to the file store |
| HTTP server, remote store (`serve/`, `remote/`, `wire/`) | the session table | routes to the store operations, the MCP surface | any store |
| Native memory (`native_memory/`) | digests of a client's memory files | scan, capture | redo log |
| Skills, knowledge (`skill/`, `knowledge/`) | front matter of documents, packages and bundles on disk | import, edit, pin, export, load, approve | document store |
| Profiles (`profile/`) | a configuration file | resolve, route, guard, bind | every call of a client under a profile |
| Client installation (`clients/`) | other programs' settings | setup, enable, disable, status | files of the clients |
| Search, index, heat (`memory/search`, `memory/index.rs`, `memory/heat`) | the heat log | search, render, compact | reads the document store |
| Update (`update/`) | a stamp of the last check | check, decide, install | the release page, the installer |

What is hard in each part, and what makes it correct:

* **Redo log.** Death at any step, an I/O error half-way, power loss with
  writes in any order. A call must be atomic, a published plan must always be
  replayable, an answered call durable.
* **Document store.** A path may be written, deleted, renamed over, recreated,
  erased and restored in any order, from files an older binary or a person
  left. A version number must name one content for ever, because a number is
  the only fence a writer has; history and erasure records must outlive
  everything but an erasure.
* **Change feed and exchange.** A follower polls at any time, dies, and finds
  its checkpoint pruned or from another root; an exporter collects a bundle
  from many reads of a scope that changes under it; a replica is handed bundles
  twice, in another order, or after somebody edited it. Nobody may believe they
  are up to date when they are not, and no local edit may be overwritten.
* **Memory commands and upkeep.** Another agent moves between a command's read
  and its write, and between the approval of a proposal and each of its changes.
  Nothing that was not read may be replaced silently, no change may land twice.
* **Mailbox.** Sessions race for one item, leases lapse, replies are lost,
  receivers die with a wake in hand. One session works on an item at a time, a
  wake goes to one receiver, nobody's acknowledgement is lost or applied to
  another occurrence, and a pending wake reaches somebody.
* **Recording.** Hooks of one session run in separate processes, a landing is
  six store calls and may die after any of them, appends to the turn log are
  not synced. What was put on record must be in the spool or in a turn.
* **Handoff.** Written by one session, linked by whichever lands next, picked
  up by one.
* **Postgres.** Statements act on the snapshot they started with, commits are
  lost with their answers, statements are repeated, and a few connections serve
  every caller. The rows must keep what the files keep.
* **Session table.** Requests arrive, wait for one server, are left by their
  clients and outlive their session; a sweep, a DELETE and the shutdown take
  sessions away. No session in use may go, none may stay for ever, no call may
  run under another session's name.
* **What is read.** Pages, searches, budgets and excerpts must neither lose,
  repeat nor invent what stands in the store, while it changes.
* **What is installed, pinned, imported and copied.** Several files are written
  apart, in other programs' directories, by commands that may die and be
  repeated; the user edits them in between.

`PROJECT.json` lists the hazards with their lines, those of one place told
together. Met while reading and not covered by a property: the last sequence
number `i64::MAX` (`changes/model.rs:64`), two machines' clocks on one shared
server (`messaging/mailbox.rs:151`), the pickup retry that marks whatever note
is pending by then (`conversation/handoff.rs:242`), the profile guard removed
after the spool (`record/profile.rs:232`), and the unlocked compaction of the
heat log (`memory/heat/mod.rs:172`).

## 2. The modules

```
StoreData ── AtomicStore              what a store call promises
    └─────── RedoLog ── RedoLogProofs       the lock and the plan: implements it

FileStore ──┬─ VersionClock           what version numbers promise (a refinement)
            ├─ FileStoreProofs
            ├─ ChangeFeed ── Exchange ── FeedReaders     a host, an exporter, a replica
            │                                └── FeedReadersProofs
            └─ MemoryCommands ── Upkeep                  agents with several-step commands
                                   └── MemoryCommandsProofs
Postgres ──┬─ VersionClock            the other implementation of the clock
           └─ PostgresProofs

Mailbox ───── MailboxProofs           one message and its sessions; also Knowledge and Operator
Capture ───── CaptureProofs           spools, landings, turn logs, notes, erasure
Sessions ──── SessionsProofs          the session table of the HTTP server

RuleInput ──┬─ Serving, ClientFiles, Profiles, Knowledge ── Skills, Heat,
            └─ NativeMemory, Search, Reading, Inbox, Operator (Transfer)
```

Each component that runs has a state machine; `MC` modules give the constants
their values for TLC. The last group are algorithms: a module defines them as
operators over records, with the steps of a command as a sequence a death cuts
short or a rival falls into, and states what they are for; the one variable is
the input. Where a theorem speaks of an algorithm, what it does to one state
after another is a recursive function of the number of steps (`f[n]`), never a
recursive operator.

Two results carry the layering. `RedoLog` implements `AtomicStore`: a mutation
takes effect at one instant, the rename of its plan, whatever dies afterwards.
That is why a call is one step in `FileStore` and everything above it. And
`FileStore` never gives a version twice: that is why a version comparison is a
sound fence in `MemoryCommands` and why `Mailbox` may keep one document without
its history. Postgres keeps the same clock, so what rests on it holds there.

### RedoLog (lock, transaction, stream)

Variables: `files` is what processes see and `disk` what a power loss leaves;
`pending`, `diskPending` and `draft` are the plan's file, its durable copy and
its temporary name; `temps` the temporary copies beside bodies; `lock`, `pc`,
`at`, `phase` place the calls; `answer` is what the last call returned. A file
is the sequence of texts written to it, so an offset is a length and the hash
of a prefix is the prefix. Actions follow the code call by call: `Acquire`
(`lock.rs`), `Recover`, `ApplyStart`, `ApplyWrite`, `ApplySync`, `Unlink`,
`SyncUnlink`, `Sweep`, `Draft`, `Publish`, `Persist`; and what may happen to
them: `Fail` (an I/O error answered to the caller), `Kill`, `PowerLoss` (each
file takes its old or its new content, or a torn append). Left out: the
validation of paths and links in a plan and the stage directories of exchange.

### FileStore (write, journal, changes, restore)

Variables: `docs` (envelope version, body, mark), `journal` (rows per path),
`trail` (acts of erasure), `head` and `events`. `Write`, `Delete`, `Rename`,
`Redact`, `Restore` and `Prune` each stand for the whole call with its journal
rows, trail acts and events, in one step; a refused call is a stuttering step.
`Homes` are the states a scope may start in: blank, written by a binary that
kept no feed, planted by hand. Left out: timestamps, actors, envelope metadata,
case folds, malformed files.

`VersionClock` is its promise: a clock per path, ticked once by every mutation
of a document (deletions included), never by erasure or pruning, shown by the
live document, never turned back; restoring loads clocks into a blank scope.

### ChangeFeed, Exchange, FeedReaders

`Page`, `Gap`, `Ahead` and `Position` translate `read_changes` and the cursor.
The host is not in the repository: it is the one `assets/docs/changes.md`
describes, which applies a page and saves the checkpoint, lists the documents
after a gap or a reset event, and may die between the two.

`Exchange` adds the exporter, whose `Begin`, `NextPage`, `ListPaths`,
`ReadPath`, `ReadRow` and `Finish` are the reads of `exchange/export.rs` one by
one, and the replica with its receipt: `Apply` translates
`store/exchange.rs` with everything that makes it refuse, `Edit` is somebody at
the replica. A digest is what it digests. The source may be any home, as in
`FileStore`, but for documents planted ahead of their journal
(`JournalledAssumption`): once such a document is replaced there is no row of
it that a bundle could tell of. `FeedReaders` puts both readers beside the same
writers; a behaviour has one of them.

### MemoryCommands, Upkeep

Each agent has one command under way; `call` holds what it read. `CreateReads`
and `EditReads` read, `Writes` writes with the version read; `RevertReads`,
`RevertRereads` and `RevertRemoves` are the three steps of a revert;
`MoveReads`, `MoveLooks`, `MoveCopies` and `MoveDrops` a rename between two
mounts, whose target is a path of the same `docs`; delete, rename within a mount
and redact are single store calls (`AtOnce`).

`Upkeep` adds one proposal: observed (`Begin`, `ReadTarget`, `ReadSource`), prepared
(`Propose`), and applied, possibly several times and by a process that dies
(`Apply`, `Recheck`, `Preflight`, `Look`, `LookAtKeeper`, `WriteOne`, `Verify`,
`Abandon`), while `Others` write. No week passes, so what is written meanwhile
is never old enough to delete.

### Mailbox (messaging, record/mailbox)

One message (`file`, `item`), the continuation notes (`links`), and per session
the update under way (`call`) and what it believes of its claim and its wake.
`Send`, `NoteContinuation`, `Poll` (the receiver reserves or reports a wake),
`Act` (a lifecycle command views and decides), `Land` (it writes, and its reply
is heard or lost), `Conflict` (it views again, up to `Attempts`), `Stop`,
`Erase`, `Tick`. Instants are countdowns, so one clock serves every session.

### Capture (record, conversation, store/turns, store/erasure, operator/erasure)

Per session: its client's events (`fired`, `owed`), the `spool`, the `landing`
that holds the session's lock, and the conversation's `log`; per scope: the
sessions documents `docs`, the note `baton`, a `pickup` under way, the `eraser`
and the version sequence `seq`, whose order is the order of times. `Hook`
appends a record; `Begin` appends the one that ends a span and starts the
landing, whose steps are `AppendTurn`, `ReadDocument`, `WriteDocument`,
`ReadNote`, `LinkNote`, `Clear`. `Refuse`, `Die`, `TearSpool` and `TearTurn` end
one early; a torn append to a log may leave a malformed line or a whole line
without its newline, which the next append runs into. `Redact` and
`RedactDocument` are the operator's erasure. `Handoff`, `ContinueFrom` and
`PickUp` (`Mark`, `Retry`, `DeliverOnly`, `GiveUp`) are the tools. `told`,
`erased` and `halted` are history: records answered for, records of erased
turns, records whose landing ended half-way. Left out: the reads inside one
`continue_session` call happen in one step; the mailbox part of a hook.

### Postgres (postgres, assets/sql/store)

Per caller: its request, the connection slot it queues for, the snapshot it
reads, its attempt and its answer (`call`); the tables `memories`,
`memory_versions`, `turns` and `changes`, the pool (`next`, `slot`) and the
advisory `lock`. `Ask`, `Checkout`, `Expire`, `Lock`, `Start` (the snapshot),
`Retry` (a primary key refuses), `Commit` (its answer heard or lost),
`Disconnect`, `Prune`. `tracked` says whether the change-feed extension is
installed; `erased` and `landed` are history variables.

### Sessions (serve/sessions, serve/mcp, serve/streamable)

The table `sessions`, the ids `minted`, each request with its place, its id and
its status, the server's one `reader`, the clock and the closing signal. `Open`,
`Hold`, `Refuse`, `Admit` (it got the server's mutex), `Handle`, `Finish`,
`OpenStream`, `EndStream`, `Delete`, `Vanish` (the client goes away, at any
await), `Tick`, `Close`.

### The algorithms

| Module | Models | Left out |
|---|---|---|
| `Serving` | tokens, prefixes and grants of the server and what every route reaches; pages of turns, projections, history and listings and the client that follows them, a bounded run of calls with changes between them; errors over the wire | the JSON of a value |
| `ClientFiles` | hooks at two levels, as entries of a shared file or as a plugin written and removed whole, a client's own MCP registration, the Codex skill with its receipt, the wrapped status line: every write of an installation a step it may die after | the cache protocol, reports |
| `Profiles` | validity, the routing of every call, what is shown, what is captured, the guard of a pending span, which store a command line opens, bindings, the budget of the context | TOML, UUIDs, wording |
| `Knowledge` | review states, collection rules, imports with a rival and deaths between steps, bundles; a collection is the constant `Order`, the definition and any number of documents, and an import has three steps for each name in it (checked, checked again, written) | headers, size limits |
| `Skills` | portable file names, the check of a skill's graph, import, edit, revert, pins, packages, listing and loading | front matter, diffs, size limits |
| `Heat` | reads, the counts of a week, a month and altogether, compaction, renames, forgetting | concurrent compaction |
| `NativeMemory` | consent, authority, the registrations a hook runs in the order they were made, the verdict over a receipt, a copy for each place, hooks, edits, erasure of a copy | previews, the limits of a scan |
| `Transfer` | a scope (written, deleted, renamed, erased by path or whole, planted by hand: `store/write.rs`) and a conversation copied from interleaved reads, their restore with deaths and retries, an erasure of turns in its three writes | the report, a document file changed by hand in place |
| `Search` | a search over mounts in pages with changing documents, its cursors, matching, excerpts | Unicode case |
| `Reading` | the memory index, log lines, the start block, clips, snippets, link handles, recalled calls, the search of the turn log | wording, the scanner of atoms |
| `Inbox` | lineage, listings, wakes that can be reserved, the frame of a hook | the order of a listing |
| `Operator` | prune among other writers and deaths, the ranges of audit, the decision and installation of an update | the release page |

## 3. The runs

| Run | Bounds | Checks |
|---|---|---|
| `redo_kill` | 2 processes, 2 files, 3 plans (write, delete, one refused), 2 kills or I/O errors | `TypeOK`, `RecoveryInv`, `NoLeftoverCopies`, `RefinesAtomicStore`, `PlanLands` |
| `redo_power` | the same, 2 power losses | `PlansSurvive`, `Synced` |
| `file_store` | 2 paths, 2 texts, 3 homes, 5 events, prunes of 2 | `TypeOK`, `VersionsOnce`, `FeedIsHistory`, `ErasureWhole`, `RecordsKept`, `KeepsClock` |
| `feed_readers` | 2 paths, 1 text, 4 events, pages of 1, prunes of 2, 2 bundles, 1 edit at the replica | `MirrorAtHead`, `ReplicaFollows`, `CatchesUp` |
| `command_fences` | 2 agents, 2 paths, 2 texts of which one is blank, 5 events; 2 applies of a proposal of at most 2 changes, 2 writes of others | `UpkeepSafe`, `ReadsName`, `EditsKeepOthersWork` |
| `mailbox_fences` | 2 sessions, lease 2, hold 1, 2 occurrences, 2 attempts, 1 update open, replies of complete and reserve lost | `OneEach`, `MovesFenced` |
| `mailbox_wakes` | lease 1, hold 1, 1 occurrence, 1 attempt | `WakeIsHanded` |
| `landing` | a Claude Code session of 3 events and a Cursor session of 2, 3 tool calls, 1 trouble | `SpansLand`, `DocumentCurrent`, `LinksKept` |
| `postgres` | every pair of calls, and three for one version, on 2 connections with 2 attempts, 2 paths | `CallsLand`, `FeedTells`, `KeepsClock`, `Answered` |
| `sessions` | 3 requests, 2 places in the table, idle time 1, 1 tick | `TableHolds`, `InUseStays`, `StreamsEnd` |
| `late_stream` | the same | `EveryStreamEnds`, refuted |
| `rules` | one step an input, about 894 000 | `ServingRules`, `ClientRules`, `ProfileRules`, `KnowledgeRules`, `SkillRules`, `ShownRules`, `NativeRules`, `VerbRules` |

A run checks few names; several are conjunctions, and their parts carry the
statements and the comments:

| Property | Its parts |
|---|---|
| `RecoveryInv` | `NeverRefused` among its conjuncts |
| `PlansSurvive` | `NeverRefused`, `WholePlans` |
| `Synced` | `SyncedAnswer`, `PersistedBeforeChange` |
| `FeedIsHistory` | `FeedWhole`, `EventsAreRows` |
| `ErasureWhole` | with `SkeletonsMarked` |
| `ReplicaFollows` | `BundleIsOneMoment`, `ReplicaIsSource`, `ErasureTravels`, `DeltaApplies`, `LocalWorkStands` |
| `UpkeepSafe` | `AppliesOnce`, `DuplicatesKept`, `ReplacesObserved` |
| `OneEach` | `TypeOK`, `OneWorker`, `WakeOnce` |
| `MovesFenced` | `SettledStays`, `OccurrenceFenced` |
| `SpansLand` | `TypeOK`, `NothingLost`, `LandsOnce` |
| `LinksKept` | `LineageKept`, `PickedOnce` |
| `CallsLand` | `TypeOK`, `VersionsNameRows`, `FenceHolds`, `LandsOnce` |
| `FeedTells` | `EventsTell`, `ErasedStaysErased` |
| `TableHolds` | `TypeOK`, `CountsHolds`, `TableBounded`, `ReaderIsCaller`, `HandshakeFirst` |
| `ServingRules` | `TokensNameOne`, `NothingBeyondReach`, `PagesAreWhole`, `ListingSteady`, `HistoryIsOneMoment`, `ErrorsKeepTheirMeaning` |
| `ClientRules` | `HooksNotLost`, `HooksNotDoubled`, `HandlersKept`, `InstallSettles`, `CommandDisplacesLast`, `SetupTellsTheTruth`, `SkillResumes`, `StatuslineRestored` |
| `ProfileRules` | `RoutedWithinProfile`, `SessionsMatchTurns`, `FilterKeepsToPolicy`, `OnePolicyATurn`, `InstalledStoreOpens`, `BindingsKept`, `ContextWithinBudget` |
| `KnowledgeRules` | `ApprovedIsReviewed`, `ImportKeepsRules`, `ImportCompletes`, `ImportKeepsRivals`, `BundleIsItsCollection` |
| `SkillRules` | `FilesArePortable`, `PinHoldsTheWhole`, `LoadsOneSkill`, `PackageIsTheSkill`, `ListedIsLoaded` |
| `NativeRules` | `CaptureReplacesItsOwn`, `ErasedCopiesStayGone`, `CaptureStaysInConsent` |
| `ShownRules` | `HeatIsTheReads`, `SearchSteady`, `CursorKeepsItsSearch`, `WordsFoundTogether`, `ExcerptShowsTerm`, `IndexWithinBudget`, `EveryTurnAccounted`, `StartWithinCeiling`, `ClipsKeepAtoms`, `HandlesKeepTheirToken`, `OmittedOpensWhole`, `PrefilterPassesMatches`, `LineageIsTheChains`, `WakesToldCanBeReserved`, `InboxFits` |
| `VerbRules` | `PruneIsItsPreview`, `PruneErasesTheOld`, `RangesAreTheTurns`, `UpdateOnlyForward`, `CopyAccountsForItself`, `QuietCopyIsVerbatim`, `CarriedErasuresHold`, `RetryKeepsWhatIsThere`, `RepeatedErasureCompletes` |

What they show:

* **A store call is atomic under kills and I/O errors.** `RefinesAtomicStore`
  maps the overlay of the pending plan on the files to the abstract store; a
  call that died takes effect whole or not at all, and readers see only whole
  states. `PlanLands` adds that a published plan is applied while some process
  keeps calling.
* **Power loss keeps mutations whole** because the plan is synced before the
  first write (`PersistedBeforeChange`) and the writes before the answer
  (`SyncedAnswer`). These hold when power is the only fault: recovery applies a
  plan it sees without first syncing `.transactions` (`transaction.rs:262`), so
  after a kill between the rename and its sync a power loss may drop a plan
  that is half applied.
* **Version numbers are a sound fence** (`VersionsOnce`, `KeepsClock`,
  `ReadsName`), so an edit never undoes work it did not read
  (`EditsKeepOthersWork`), even across delete, rename, recreate and move.
* **The feed is the history.** No hole between floor and head, the events of a
  path are its rows since tracking started (`FeedIsHistory`); a host that stands
  at the head knows the live versions, and gets there when mutation stops
  (`MirrorAtHead`, `CatchesUp`).
* **A bundle is one moment** of a source that changes while it is read: the
  exporter compares the cursor before and after; a replica is the source at the
  checkpoint of the last bundle it took, or keeps what was edited there and
  refuses (`ReplicaFollows`).
* **Erasure is complete and leaves its record** (`ErasureWhole`, `RecordsKept`),
  travels with a bundle and with a copy (`ErasureTravels`,
  `CarriedErasuresHold`), and is completed when it is repeated
  (`RepeatedErasureCompletes`).
* **An approved proposal lands once** and replaces only what it observed, but
  for the deletion named below (`UpkeepSafe`).
* **One worker, one receiver.** Decisions made on an old view never land; a
  wake survives its receiver (`WakeIsHanded`).
* **Nothing that was answered for is lost by a landing**, and a record stands
  in two turns only when a landing died between its append and its clear
  (`SpansLand`).
* **Postgres keeps the clock of the files** though its statements read
  snapshots, are repeated and lose their answers; every caller is answered
  although there are fewer connections than callers (`Answered`).
* **A session in use stays** and an idle one goes; no call runs as another's
  session (`TableHolds`, `InUseStays`).
* **The algorithms** do what they are for over all their bounded inputs; the
  comment above each part says what that is.

### Bounds, and why they are enough

Faults: a second fault reaches recovery itself (a kill while a killed call's
plan is replayed), which is the deepest case the code treats differently; a
third only repeats it. Two files suffice for a plan with an append and a
replacement, or an append and a removal, the two shapes the document store
writes; the third request is the malformed one. `FileStore`: five events
delete, recreate, rename and erase a path with its successor, and cross the
prune floor twice with a `PruneLimit` of two. `FeedReaders`: two bundles are a
base and a delta, in either order, twice, or on another base; pages of one event
put a write between any two pages. `MemoryCommands`: two agents are enough since
a fence is between one reader and whatever happened since; symmetry is over
agents, paths and texts, and no property or home tells them apart. The second
apply of a proposal is the repetition after a death. `Mailbox`: a second claimant
and a second occurrence are the cases behind the code's checks; `MaxOpen = 1`
keeps one update between view and write while the other session's commands run
whole, which is every interleaving of one stale decision with fresh ones.
`Capture`: three events give a span, a second span of the same session, and a
handoff; one trouble at every step. `Postgres`: a pair of calls is every race of
two statements; three callers on two connections make one wait. `Sessions`:
three requests are one that holds, one that takes and one that asks, two places
make the third one wait for the sweep.

In `rules` the code's limits are scaled so that a few entries cross them:
`Page` 2 for the page sizes, `PathPageSize` 2 for 256, `MaxDepth` 3 for 8,
`MaxActs` 2 for 500, `WeekDays` 1 and `MonthDays` 2 for 7 and 30, `CountBase` 3
for 10, `SnippetChars` 8 for 160, `ExcerptChars` 3 for 240, `ContextChars` 1 for
40, `ResultChars` 4 for 4096, `ContextBudget` 12, `DayTicks` 2. Each algorithm
looks at a limit only by comparing with it, and every input set has entries
below, at and above. A collection is the definition and three documents, two of
which fold alike: an import has 12 steps, dies after 6, 8 or 10 of them (half-way
through its writes), and meets its rival before each of the 12. A copied scope has
two paths (`Copied`), and a prune two conversations (`PruneOrder`) with turns on
either side of `Cutoff` 2.

Every other bound is a constant of its module (`MaxFaults`, `MaxSequence`,
`PruneLimit`, `MaxBundles`, `MaxEdits`, `MaxApplies`, `MaxOthers`,
`MaxOccurrence`, `MaxOpen`, `Attempts`, `Lossy`, `MaxEvents`, `MaxTools`,
`MaxTroubles`, `Connections`, `MaxSessions`, `MaxTime`). Deadlock checking is
off where the system may come to rest because its bound is used up; it is on in
the redo log and Postgres runs. In `rules` an input, once taken, has no successor.

### Fairness

* `RedoLog`: weak fairness of a step of some process. A call that started
  continues unless it is killed; nothing is assumed of which process runs, since
  the lock is a plain advisory lock with no queue.
* `ChangeFeed`: weak fairness of each of the host's steps with its checkpoint
  saved. A host polls in a loop; writers and the pruner are under no fairness,
  and stop because `MaxSequence` is reached or because they may.
* `Mailbox`: weak fairness of the clock and of an update's end, strong fairness
  of each attached receiver's poll: "Wake receivers poll every five seconds while
  attached" (`assets/docs/messaging.md:30`), and other calls of that session come
  between but do not exclude it for ever. A session that stops is under no
  fairness.
* `Postgres`: weak fairness of each caller's next move. The pool hands its
  connections out in order and the database ends every statement, if only with
  an error; a caller whose wait for a connection runs out is answered that.
* `Sessions`: weak fairness of the server's serving and of the end of a stream
  that was told to end. Nothing is assumed of clients.
* Safety runs state none.

### What the code does not keep

`late_stream` is a finding: `EveryStreamEnds` (`serve/mcp.rs:249`) says what the
comments at `serve/mcp.rs:41` and `serve/cli.rs:162` say, that closing ends every
standing stream. A request accepted before the signal whose handler subscribes
after it never hears it, and the graceful shutdown waits for its client.

Four more statements of documents and comments are refuted. Their configurations
are kept beside the others, to be run by hand:

1. `SyncedState` (`MCRedoLog_kill.cfg` with that one property and no invariant,
   `store/transaction.rs:225`).
   `assets/docs/changes.md:137`: "Successful calls sync their state, events and
   journal removal." Recovery that finds a removal already done returns before
   `sync_parents`; it then drops the plan and answers ok with the removal
   unsynced.
2. `OverwritesFenced` (`MCMemoryCommands_refuted.cfg`,
   `memory/commands.rs:142`). The comment at lines 128-130 says an overwrite
   carries the version it read. A create that found nothing carries none, and
   the store takes that for no condition: of two agents that create one path,
   the second replaces the first.
3. `RevertsNewest` (the same configuration without the one above,
   `memory/operate.rs:175`).
   `assets/docs/memory.md:28`: "A stale revert is refused." The check is made
   before the inverse reads the document again, or deletes it unfenced.
4. `NoteWithItsConversation` (`MCCapture_astray.cfg`,
   `conversation/sessions.rs:245`, `conversation/handoff.rs:277`).
   `assets/prompts/context.yaml:132` tells the writer of a note that
   `continue_session()` delivers "this conversation"; a note is linked to, and
   delivered with, whichever session stops next.

Met while modelling. The properties leave these cases out, and say so, because
the code promises nothing about them:

* *Store.* A move of a redacted document between two mounts leaves an empty
  document without its mark (`memory/commands.rs:275`). An approved deletion
  carries no version, so an edit between its check and its call goes with it
  (`upkeep/apply.rs:189`). An import's creation is unfenced. Heat counts one
  reader twice who was folded and reads again, though `memory/heat/mod.rs:41-42`
  speaks of distinct readers.
* *Conversations.* A prune that dies between turns and sessions documents
  leaves the documents for good (`operator/erasure.rs:160-196`); a turn recorded
  between its plan and its erasure goes with the old ones (`erasure.rs:186`).
  `redact --all` lists only live sessions documents. The prefilter of the history
  search (`conversation/search.rs:71-77`) misses turns where a non-ASCII letter
  folds to ASCII (the Kelvin sign, the dotted capital I), though its comment says
  the file holds the term verbatim. A term inside an atom of more than 80
  characters is not shown by its snippet; the range a fold line tells may count
  a turn that a kept overlapping entry also shows.
* *What is shown.* The index stops promoting at the first document that does
  not fit, though a later one might. The start block passes its ceiling when a
  session has no room for one line, when the index is at its floor, or when the
  note is long.
* *Copies.* A scope's copy may carry plain text beside the act that erased it
  between two reads; a conversation's carries the newest 500 acts. An erased row
  need not have an act of its own path: a rename carries the mark to a path no
  act names (`store/write.rs:214-218`), and the erasure of a scope is one act
  without a path (`store/write.rs:303-309`). What `CopyAccountsForItself` asks
  for is the act that erased the text, wherever it stood then. A document put
  there by hand has no row until it is next written, so none is asked for. A restore
  that died leaves a part that the retry refuses ("target_occupied"). Every
  round trip of an export adds one source, of at most 128.
* *Skills.* An upgrade from v1 to v2 that was interrupted and is followed by v3
  is refused as local edits (`clients/codex_skills.rs:137`). An export checks at
  `skill/package.rs:236` and reads again at 247; a package directory without a
  receipt adopts the files in it.
* *Clients.* The plugin of OpenCode and Pi is a file of neosian's own: it is
  written whole over whatever stands there (`clients/hooks.rs:272-273`) and
  removed at the other level (`clients/hooks.rs:294-296`), so what a user put into
  it is lost; `HandlersKept` claims no more of it than that a file at the other
  level that is not our plugin is left alone. Json hooks displace the other level before they read their target,
  so a malformed target loses them (`clients/hooks.rs` 250 and 277). Muse with
  credentials strips the project before its settings name the managed file
  (`clients/muse.rs:137-166`). A status line whose binary moved, with a death
  between two writes, loses the original.
* *Profiles.* A Postgres registration carries no flag: with the DSN unset it
  falls to the local store, and a profile bound to the same DSN takes it over.
  Routing filters sessions in read, list and page only.
* *Native memory.* Erased text is captured again under another registered name.

## 4. The proofs

Every proof is checked to its leaves; nothing is assumed but the named
assumptions on constants.

**`RedoLogProofs`** — for any processes, files, texts, requests, file limit and
number of faults, in two parts: under `"power" \notin Faults`, where processes
are killed and operations fail, and under `Faults \subseteq {"power"}`, where
power is lost and nothing else goes wrong. (With both, a recovery may apply a
plan that was never synced; `SyncedState` below is about that.)

* The inductive invariant is `TypeOK /\ RecoveryInv`. `NeverRefused`, that the
  pending plan can always be replayed, is not inductive alone: it needs to know
  that only the holder of the lock touches the plan (`OneHolder`), that a call
  past recovery has none pending (`NothingPending`), that the draft was measured
  against the files as they are (`DraftMeasured`), and how far the holder is and
  that what it has written stands (`Progress`). `OutsideWhole` says files not in
  the plan are never torn.
* The lemmas `IntactPrefix`, `IntactResult` and `ValidAfterWrite` are the
  argument why an append can be cut back to its prefix and repeated.
* `TypeCorrect`, `Recoverable` (`RecoveryInv`, with `NeverRefused` in it) and
  `Implements`: `Spec => RefinesAtomicStore`. Every step keeps the overlay of
  the plan on the files but `Publish`, which is the abstract mutation.
* `CopiesSwept` (`NoLeftoverCopies`). A temporary copy lies only beside the body
  of a pending write that is not over (`CopiesPlanned`), so when a recovery is
  over none is left.
* Power loss needs a second invariant, `DiskInv`: what is on disk differs from
  what processes see in the one write the holder has not synced, which carries
  its prefix in both, and in the plan's own file between its rename or removal
  and the sync of the directory. `SurvivorKinds` says what a loss may then leave
  of a file and `PowerStep` that this can be replayed; hence `PlansSurvivePower`
  (`PlansSurvive`) and `AnswersSynced` (`Synced`), and `RecoveryInv` again
  (`PowerInductive`).

**`FileStoreProofs`** — under `NamesAssumption`, `PathAssumption` (the paths
are finite), `BoundsAssumption` and `HomesAssumption` (a home is any state with
increasing journals, true marks and no row past a live document).

* The inductive invariant joins, for each path, that its rows increase, that a
  live document is not behind its journal, that a row with the document's number
  is the document's own, and that marks are true, to the shape of the feed.
* `Stacked` is the lemma on appending a row with the next number, `Put`,
  `Removed` and `Erased` what one call does to one path, and there is one
  `...Keeps` lemma per action.
* `TypeCorrect`, `NumbersOnce` (`VersionsOnce`), `MarksTrue`
  (`SkeletonsMarked`), `FeedHasNoHole` (`FeedWhole`), and `ImplementsClock`:
  `Spec => KeepsClock`, the refinement of `VersionClock`.

* Two action properties rest on that invariant: `RecordStands` (`RecordsKept`)
  and `ErasureIsWhole` (`ErasureWhole`), one lemma an action.
* `EventsTellHistory` is `FeedIsHistory`. The strengthening `FeedInv` adds that a
  row's place in the journal is fixed by the order of its events, so that
  appending a row and its event keeps the equation of rows and events of the path
  and of every other one.

**`FeedReadersProofs`** — on the invariants of `FileStoreProofs`, under
`FeedAssumption` (a page holds at least one event), `ExchangeAssumption` and
`JournalledAssumption`, for any paths, homes, pages, prunes, bundles and edits.

* `HostKnowsScope` (`MirrorAtHead`). The host's invariant `HostInv` says that
  its mirror is right for every path that no event since its checkpoint names,
  unless one of these makes it list (`MirrorKnows`); the feed's, `TellInv`, that
  the newest event of a path gives its version (`EventsTellVersions`) and that a
  feed nobody pruned begins with a reset (`BeginsMarked`). `Moves` is all a host
  sees of a step of the store. A page replays to the newest event of each path:
  the largest number of a finite set is taken by well-foundedness.
* `ReplicaFollowsSource` (`ReplicaFollows`). `HistoryInv` keeps the source's
  moments: from one to a later one a path keeps its rows, at most cleared
  (`Later`), and the events between the two tell whether a row was added,
  something erased, or nothing (`EventsTellMoments`). `ExportInv` says of an
  export what it is made of (`Shape`), that it left out nothing between its base
  and the page it stands at (`Spans`, with `Gathered`), and what it knows while
  the head has not moved (`Fresh`); the head is asked for again at the end, so a
  bundle is one moment (`BundleOK`). `ReplicaInv` says that the files under a
  receipt mirror their moment (`Mirrors`: the newest row of every path, and no
  text the source did not have), and that once a person has edited them they
  differ from the fingerprint for good (`Changed`: a journal that grew, or a row
  or document that was cleared and can only be cleared again).
* `SourceGoes`, `ExportKeeps`, `ApplyKeeps` and `EditKeeps` are the four kinds of
  step; `PathAgrees` is why a delta of the state the replica stands at never
  disagrees with it.

**`MemoryCommandsProofs`** — for any number of agents, under the further
assumption `IsHome` (the homes are those `FileStoreProofs` admits).
`VersionsNameContent` (`ReadsName`) and `EditsAreFenced`
(`EditsKeepOthersWork`). The invariant `CommandInv` says of every agent that
what it read at a version is a row or the document of that version (`Known`),
on top of the numbering of the paths (`Numbered`). Of the invariant of
`FileStoreProofs` only the numbering is kept here: the move of a redacted
document leaves an empty document without its mark, so `SkeletonsMarked` is not
an invariant of several mounts. `Moves` is what any store call may do to a path,
and `MovesKeeps` why what is known of a version stays known.

* `UpkeepIsSafe` (`UpkeepSafe`), under `UpkeepAssumption`, for proposals of any
  length applied any number of times. The inductive invariant `UpkeepInv` says of
  a proposal that each guard is a version that is known (`Observed`), and of a
  change that landed that its path went past the guard (`Outran`). Numbers do not
  come back, so a preflight reads a difference at every such path (`Outrun`) and
  passes only where nothing has landed: that is why a change lands once although
  no record of it is kept. `Application` says what an application under way still
  expects as it was observed, and, while nobody else writes, that what it has
  read again is still so; no target is a keeper, so the keepers stand.
* A replacement carries the version of its guard, and what is known of that
  version is the text observed or none (`WriteOneReplaces`).
* `EditsAreFencedInUpkeep` states the two properties of the commands for the
  specification that the run checks.

**`CaptureProofs`** — under `CaptureAssumption` and `IdleAssumption`, for any
sessions and clients, any number of events, of calls and of troubles (a
landing that stops half-way, an erasure, a note replaced under a reader).

* A landing holds the lock of its session, so the inductive invariant
  `CaptureInv` speaks of one session at a time (`Own`). `OnRecord` says that a
  number is given once. `Kept`, that what a client said is in the spool, in a
  turn or erased, is not inductive without the stage of the landing: the spool
  may only be cleared after the append. `Once` says what the spool and a turn
  may share before the append, namely what a landing that stopped half-way
  left. `Current` says when the document speaks for the log (`Settled`).
* What crosses sessions is the handoff note (`Notes`): who has read one either
  holds the note on file, or a version that was overtaken (`Held`).
* `SessionKeeps` and `SessionQuiet` say which sessions a step leaves alone, and
  there is one `...Keeps` lemma per action.
* `CaptureSpansLand` (`SpansLand`), `CaptureDocumentCurrent`
  (`DocumentCurrent`) and `CaptureLinksKept` (`LinksKept`: a lineage is kept and
  a note is picked up once).
* The same module holds what governs a recording. `ProfileRulesHold`
  (`ProfileRules`) is for any names of stores, keys, mounts, clients and paths,
  under the assumptions that tell those names from the absent one;
  `ProfileInputsCovered` shows that the inputs of the run are among those it
  speaks of. There is one lemma a rule: where a call may go under a valid
  profile, which records pass the filter of a policy, that a guarded span keeps
  the policy it started under, which store an installed command line opens.
* `NativeRulesHold` (`NativeRules`), for any registrations in any order, any
  number of hooks, edits and erasures, in any sequence; `NativeInputsCovered` as
  above. Its inductive invariant `WholeCopies` says of every place that no receipt
  names a version past its rows, that a document at the version a receipt names
  was written by that registration, and that where something is gone there are
  rows. That is why a capture replaces only its own copy and an erased one stays
  gone however often the hook fires.

**`MailboxProofs`** — under `NamesAssumption`, `TimesAssumption`,
`LettersAssumption` and `TokensAssumption`, for any sessions, tokens, lease,
hold, delays, occurrences and attempts.

* The inductive invariant is `MailInv`. `OneWorker` and `WakeOnce` are not
  inductive alone, because an update may have decided before another one
  landed. `OnFile`, `Mine` and `Landing` therefore relate three copies of a
  claim: what a session believes it holds, what the message on file says, and
  what each open update would write. An update that was overtaken can write
  nothing.
* `Decides` says what a permitted move makes of a message, `LandsKeeps` is the
  landing of an open update, and there is one `...Keeps` lemma per action.
* `OneAtATime` (`OneEach`) and `MovesAreFenced` (`MovesFenced`).
* The same module holds `KnowledgeRulesHold` (`KnowledgeRules`), under
  `OrderAssumption`: the names of a collection are distinct, and no document's name
  folds to the definition's (`knowledge/model.rs:39` refuses one). It is for any
  number of documents, any contents (`Absent` tells them from the absent value), any
  rules and conflict policy, a death after any step, a rival before any step and any
  damage to a bundle's files; `KnowledgeInputsCovered` shows the run's inputs among
  them, for four names or more.
  * `ReviewedStates` is kept by every event in a document's life: the review it
    carries is of something that was approved. A status of approved compares that
    review with what is there now.
  * `Undisturbed` is kept by every step of an import alone in its collection: the
    changes that are over and were due are on file as planned, the rest is as it was,
    and the version read for the pending write is the one found at the start. So an
    import ends with its plan carried out, under `Effective` rules (`RulesAfter`).
  * After an import that died, the same import plans `duplicate` for what landed
    and the old action for the rest (`PlannedAgain`); it is not refused
    (`AgainFits`) and ends where the first would have (`ImportAgain`).
  * `Stands`, from the step before which a rival wrote: its document is there, and
    it is not what was planned for, unless its turn is over. A check stops at the
    difference; a write whose check came before the rival is fenced by the version.
* And `VerbRulesHold` (`VerbRules`), under `CopyAssumption` (a listing names the
  paths) and `CutoffAssumption`: for a scope of any history of writes, deletions,
  renames, erasures of a path or of the scope and plantings, and conversations of
  any history of turns, projections and erasures, any limit on acts, any death of a restore or an erasure, any number of conversations,
  whatever is recorded between the steps of a prune, any turns of an act, any
  releases and receipts. No text that is written is the mark of an erasure. Another
  session's history is in the order of time; `VerbInputsCovered` shows the run's
  inputs among them.
  * A copy is several reads of a source that goes on changing. `LaterRead` says
    once what two such reads have in common: whatever relation every event keeps
    between an earlier state and the present one holds between them. `ScopeGrows`
    is that relation for a scope (rows and acts are only added, a row keeps its
    number, and its text until it is erased), `RowsGrow` for the
    turns of a conversation. The invariant
    `ScopeStates`, that a document written through the store has the row that
    wrote it and an erased row the act that erased its text, is then carried
    across: a rename takes text, mark and act along (`RenameHolds`), an erasure
    names itself in all it reaches (`RedactionHolds`), the history is read after
    the documents and the acts after the history (`ReadsInOrder`), so every
    document finds its row and every erased row its act (`CopyAccounts`). A conversation reads its acts first,
    and `ActsHold` with `RowsGrow` says that what they erased stays so
    (`ErasuresCarried`).
  * `RepeatCompletes`: the turns matched are those asked for, erased already or
    not, so the same erasure after a death anywhere ends where a whole one does.
  * `PruneIs` says what a prune leaves of a conversation: its turns with one added
    before and one after the erasure, at most. A log of turns is in the order of
    time (`TurnLog`), so all that was there when it was planned is old (`OldErased`).
  * `RangesCover`: the ranges of the first turns cover those turns, and the next turn
    adds itself (`RangedCovers`). `AppliesForward`: of two versions one is no newer
    than the other (`VersionsOrdered`), so a release that is not at most the current
    one is after it.
  * What loads from a bundle is what its digests name, no two names of it fold
    alike, and an empty place refuses nothing of a valid collection
    (`BringingFits`).

**`SessionsProofs`** — under `RequestsAssumption` (finitely many requests, each
of any method), `IdsAssumption` and `LimitsAssumption`, for any ids, ceiling,
idle time and length of time.

* The inductive invariant `TableInv` says of every request what its place tells
  (`Placed`: whether its id was given, whether its call was started), and of
  every session that its counts are the numbers of `Holders` and `Streamers`.
  An id is given once, so a session that left never comes back under a request
  that still names it.
* A step moves one request and changes, in the session it names, the count that
  this request stands for (`TableStep`); `CountsKept` turns that into the
  equation of counts and cardinalities, and there is one `...Keeps` lemma per
  action.
* `TableIsRequests` (`TableHolds`) and `UsedSessionsStay` (`InUseStays`): what is
  swept has no count, hence nobody who uses it.
* `ServingRulesHold` (`ServingRules`), under `PageAssumption`, `ValuesAssumption`
  and that no error code is the absent value: for any lists of clients, any
  requests, page size, rows and limits, and any change of the rows between the
  calls of a reader, so long as its kind allows it (rows are appended, history
  grows at its head, keys come and go). The reader of turns and projections keeps
  `HasRead`: what it has gathered is the first rows, up to where the last page
  said it ends; the reader of history keeps `ReadsBack`, that of a listing
  `ReadsList` (in order, nothing twice, every key below the mark that was there
  all the time). Each page keeps the invariant and brings a row or the end, so
  the bound on calls is enough. `WidenedIsEnough` is why a page of projections,
  which must end with a turn, grows until it holds a whole one and stops.
  `ServingInputsCovered` shows that the run's inputs are among them.
* `ClientRulesHold` (`ClientRules`), for any files that stand at the levels of a
  client (`T`, of which `Marks` asks only for a value for a file without entries of
  the user's), any status lines but the wrapper's own (`OwnLines`) and any
  shipped versions of a skill (`ShippedAs`). A `...HooksAre` lemma for each client
  says what every write of an installation leaves at both levels and whether it
  is cut short, and the four rules of hooks follow from these (`HooksStand`,
  `HooksSingle`, `HooksResume`). Of a plugin the lemma keeps what stands in the
  other places (`OthersKept`), of the shared files the user's entries and the
  files that cannot be read (`EntriesKept`, `UnreadKept`). A status line is followed through any sequence of
  commands by `LineStates`: a wrapped level has what it wraps on file, and what
  would be restored is what the user chose. The skill is followed through
  `SkillStates` over any installations of two versions, one after the other,
  each dying anywhere; a third version after an interrupted upgrade is refused as
  local edits (section 3), so nothing more is claimed. `ClientInputsCovered` shows
  the assumptions satisfied by the run's values and its inputs covered.

**`PostgresProofs`** — under `NamesAssumption`, `PoolAssumption` (at least one
connection) and `PlansAssumption` (each caller brings one request of any kind),
for any callers, paths, connections and attempts, with the extension or without.

* A statement lands on rows its snapshot may not show. The inductive invariant
  `StoreInv` says that the numbers of a path have no hole (`Dense`) and that
  every statement under way (`Deciding`) brings, for each path it changes, a
  number at most one past the last: if that number is still free, nothing
  happened to the path since the snapshot (`Fits`); if it is taken, the primary
  key refuses it (`FreeIsNext`).
* `...Decides` says what each statement wants, `MarksAfter`, `DocsAfter` and
  `TurnsAfter` what a commit makes of the tables, `OthersFit` that every other
  statement under way still fits.
* `CallsLandOnce` (`CallsLand`) and `ImplementsClock` (`KeepsClock`), the
  refinement of `VersionClock` that the file store has too.
* With the extension a mutation holds the lock of the scope before its snapshot
  is taken, and the second invariant `FeedInv` says what follows: only the
  holder is past the lock with a mutation (`Locking`), so a statement under way
  was decided on the rows it lands on (`Fresh`, with `Snapped` for what each
  kind of statement brings and tells); a journal that tells of a document has
  rows (`Rowed`), which is why an archive restored into an untouched scope may
  start the feed with a reset; and a caller's text is nowhere before its call
  is over (`Known`), so what was erased is not the text that lands. A text of a
  caller is its own: `NamesAssumption` tells it from the text written before the
  run and from the blank one.
* `EventSays` tells what a commit's event says of each path, `EventsAfter` and
  `TextsKept` what a commit leaves of the two halves of the property, and
  `FeedTellsAll` (`FeedTells`) follows.

**Only model-checked.** Liveness (`PlanLands`, `CatchesUp`, `WakeIsHanded`,
`Answered`, `StreamsEnd`) and anything about `ENABLED` is out of the prover's
reach, as is induction over data (what a recursive definition computes for every
input), of which the remaining algorithms are made: `SkillRules` and `ShownRules`
compare what a recursion over a text, a listing, a graph of files or a log of
reads gives with what it is for.

## 5. Not modelled

* The MCP server's framing (`mcp/`): JSON-RPC, tool schemas, and a dispatch whose
  targets are modelled operations; the framing of the HTTP endpoint is in
  `Sessions`.
* The command line, assets and shared text: parsing, formatting, process set-up.
* Texts and their formats everywhere: JSON, TOML, front matter, headers, UUIDs,
  Unicode case, digests (a digest is what it digests), sizes of files.
* The report of related documents, `memory/maintain.rs`, the listings of
  `operator/audit.rs` and the previews of native memory: they only read.
* The cache of a client's programs (`clients/cache_*.rs`): read-only copies.
* The request to the release page and the search for an installer's receipt.
* The composition of `Mailbox` and `Capture`: a hook reads the mailbox and
  changes it by the operations of `Mailbox`; the two share no state but the
  store.

## 6. Plan

1. A heat log whose compaction and readers are processes, and an index that is
   rendered while documents change.
2. The dispatch of the MCP server, once it keeps state of its own.
3. Runs are kept few, one a question: a later component takes over the run of a
   question it subsumes before it gets one of its own.
