--------------------------- MODULE MemoryCommandsProofs ---------------------------
(***************************************************************************)
(* A command that writes with the version it read is safe, however many    *)
(* agents there are and whatever they do in between, and so is a proposal  *)
(* that is applied while others write: proofs of ReadsName,                *)
(* EditsKeepOthersWork and UpkeepSafe.  A move between mounts may leave an *)
(* empty document without its mark, so only the numbering of               *)
(* FileStoreProofs is kept here, not its marks.                            *)
(***************************************************************************)
EXTENDS Upkeep, FileStoreProofs

-----------------------------------------------------------------------------
(* One path, as its mutations move it.                                     *)

Numbered(doc, rows) ==
    /\ doc \in Documents \cup {NoDoc}
    /\ rows \in Seq(Rows)
    /\ Increasing(rows)
    /\ doc # NoDoc => Agree(doc, rows)

\* The number is past everything there is on the path.
Fresh(v, doc, rows) ==
    /\ v \in Versions
    /\ \A i \in DOMAIN rows : rows[i].version < v
    /\ doc # NoDoc => doc.version < v

Puts(doc, rows, doc2, rows2) ==
    \E v \in Versions, action \in {"created", "modified"}, content \in Contents, mark \in Marks :
        /\ Fresh(v, doc, rows)
        /\ doc2 = DocOf(v, content, mark)
        /\ rows2 = Append(rows, RowOf(v, action, content, mark))

Takes(doc, rows, doc2, rows2) ==
    \E v \in Versions, content \in Contents, mark \in Marks :
        /\ Fresh(v, doc, rows)
        /\ doc2 = NoDoc
        /\ rows2 = Append(rows, RowOf(v, "deleted", content, mark))

Clears(doc, rows, doc2, rows2) ==
    /\ rows2 = [i \in DOMAIN rows |-> Clear(rows[i])]
    /\ doc2 = IF doc # NoDoc THEN Clear(doc) ELSE doc

Moves(doc, rows, doc2, rows2) ==
    \/ doc2 = doc /\ rows2 = rows
    \/ Puts(doc, rows, doc2, rows2)
    \/ Takes(doc, rows, doc2, rows2)
    \/ Clears(doc, rows, doc2, rows2)

\* What was read at a version is what the path holds at it, and no later
\* mutation gets that number.
Known(was, held, doc, rows) ==
    /\ \A i \in DOMAIN rows : rows[i].version = was => rows[i].content \in {held, Cleared}
    /\ doc # NoDoc /\ doc.version = was => doc.content \in {held, Cleared}
    /\ \/ doc # NoDoc /\ was <= doc.version
       \/ \E i \in DOMAIN rows : was <= rows[i].version

LEMMA PutsKeeps ==
    ASSUME NEW doc, NEW rows, NEW doc2, NEW rows2, Numbered(doc, rows),
           Puts(doc, rows, doc2, rows2)
    PROVE  /\ Numbered(doc2, rows2)
           /\ \A was \in Nat : \A held : Known(was, held, doc, rows) => Known(was, held, doc2, rows2)
<1>1. PICK v \in Versions, action \in {"created", "modified"}, content \in Contents, mark \in Marks :
        /\ Fresh(v, doc, rows)
        /\ doc2 = DocOf(v, content, mark)
        /\ rows2 = Append(rows, RowOf(v, action, content, mark))
  BY DEF Puts
<1> DEFINE r == RowOf(v, action, content, mark)
<1>2. /\ r \in Rows /\ r.version = v /\ r.action = action
      /\ r.content = content /\ r.mark = mark
      /\ doc2 \in Documents /\ doc2.version = v /\ doc2.content = content /\ doc2.mark = mark
      /\ doc2 # NoDoc
  BY <1>1, MadeParts DEF RowActions
<1>3. rows \in Seq(Rows) /\ v \in Nat /\ \A i \in DOMAIN rows : rows[i].version \in Nat
  BY <1>1, RowsParts DEF Numbered, Versions
<1>4. rows2 = Append(rows, r)
  BY <1>1
<1> HIDE DEF r
<1>5. /\ rows2 \in Seq(Rows) /\ Increasing(rows2)
      /\ \A i \in DOMAIN rows2 : rows2[i].version >= v => i = Len(rows2) /\ rows2[i] = r
  BY <1>1, <1>2, <1>4, Stacked DEF Numbered, Fresh
<1>6. Numbered(doc2, rows2)
  BY <1>2, <1>5 DEF Numbered, Agree
<1>7. /\ DOMAIN rows2 = 1..(Len(rows) + 1) /\ DOMAIN rows = 1..Len(rows) /\ Len(rows) \in Nat
      /\ rows2[Len(rows) + 1] = r
      /\ \A i \in 1..Len(rows) : rows2[i] = rows[i]
  BY <1>2, <1>3, <1>4
<1>8. ASSUME NEW was \in Nat, NEW held, Known(was, held, doc, rows)
      PROVE  Known(was, held, doc2, rows2)
  <2>1. was < v
    BY <1>1, <1>3, <1>8 DEF Known, Fresh, Numbered, Documents, Versions
  <2>2. \A i \in DOMAIN rows2 : rows2[i].version = was => rows2[i].content \in {held, Cleared}
    BY <1>2, <1>3, <1>7, <1>8, <2>1 DEF Known
  <2> QED
    BY <1>2, <1>3, <2>1, <2>2 DEF Known
<1> QED
  BY <1>6, <1>8

LEMMA TakesKeeps ==
    ASSUME NEW doc, NEW rows, NEW doc2, NEW rows2, Numbered(doc, rows),
           Takes(doc, rows, doc2, rows2)
    PROVE  /\ Numbered(doc2, rows2)
           /\ \A was \in Nat : \A held : Known(was, held, doc, rows) => Known(was, held, doc2, rows2)
<1>1. PICK v \in Versions, content \in Contents, mark \in Marks :
        /\ Fresh(v, doc, rows)
        /\ doc2 = NoDoc
        /\ rows2 = Append(rows, RowOf(v, "deleted", content, mark))
  BY DEF Takes
<1> DEFINE r == RowOf(v, "deleted", content, mark)
<1>2. r \in Rows /\ r.version = v
  BY <1>1, MadeParts DEF RowActions
<1>3. rows \in Seq(Rows) /\ v \in Nat /\ \A i \in DOMAIN rows : rows[i].version \in Nat
  BY <1>1, RowsParts DEF Numbered, Versions
<1>4. rows2 = Append(rows, r)
  BY <1>1
<1> HIDE DEF r
<1>5. rows2 \in Seq(Rows) /\ Increasing(rows2)
  BY <1>1, <1>2, <1>4, Stacked DEF Numbered, Fresh
<1>6. Numbered(doc2, rows2)
  BY <1>1, <1>5 DEF Numbered
<1>7. /\ DOMAIN rows2 = 1..(Len(rows) + 1) /\ DOMAIN rows = 1..Len(rows) /\ Len(rows) \in Nat
      /\ rows2[Len(rows) + 1] = r
      /\ \A i \in 1..Len(rows) : rows2[i] = rows[i]
  BY <1>2, <1>3, <1>4
<1>8. ASSUME NEW was \in Nat, NEW held, Known(was, held, doc, rows)
      PROVE  Known(was, held, doc2, rows2)
  <2>1. was < v
    BY <1>1, <1>3, <1>8 DEF Known, Fresh, Numbered, Documents, Versions
  <2>2. \A i \in DOMAIN rows2 : rows2[i].version = was => rows2[i].content \in {held, Cleared}
    BY <1>2, <1>3, <1>7, <1>8, <2>1 DEF Known
  <2>3. Len(rows) + 1 \in DOMAIN rows2 /\ was <= rows2[Len(rows) + 1].version
    BY <1>2, <1>3, <1>7, <2>1
  <2> QED
    BY <1>1, <2>2, <2>3 DEF Known
<1> QED
  BY <1>6, <1>8

LEMMA ClearsKeeps ==
    ASSUME NEW doc, NEW rows, NEW doc2, NEW rows2, Numbered(doc, rows),
           Clears(doc, rows, doc2, rows2)
    PROVE  /\ Numbered(doc2, rows2)
           /\ \A was \in Nat : \A held : Known(was, held, doc, rows) => Known(was, held, doc2, rows2)
<1>1. \A i \in DOMAIN rows : rows[i] \in Rows
  BY RowsParts DEF Numbered
<1>2. /\ rows2 \in Seq(Rows) /\ Len(rows2) = Len(rows) /\ DOMAIN rows2 = DOMAIN rows
      /\ \A i \in DOMAIN rows : /\ rows2[i].version = rows[i].version
                                /\ rows2[i].action = rows[i].action
                                /\ rows2[i].content = Cleared /\ rows2[i].mark = "redacted"
  BY <1>1, ClearParts DEF Numbered, Clears
<1>3. doc # NoDoc =>
        /\ doc2 \in Documents /\ doc2 # NoDoc /\ doc2.version = doc.version
        /\ doc2.content = Cleared /\ doc2.mark = "redacted"
  BY ClearParts, NamesAssumption DEF Numbered, Clears
<1>4. doc = NoDoc => doc2 = NoDoc
  BY DEF Clears
<1>5. Increasing(rows2)
  BY <1>2 DEF Numbered, Increasing
<1>6. doc2 # NoDoc => Agree(doc2, rows2)
  BY <1>2, <1>3, <1>4 DEF Numbered, Agree
<1>7. Numbered(doc2, rows2)
  BY <1>2, <1>3, <1>4, <1>5, <1>6 DEF Numbered
<1>8. ASSUME NEW was \in Nat, NEW held, Known(was, held, doc, rows)
      PROVE  Known(was, held, doc2, rows2)
  BY <1>2, <1>3, <1>4, <1>8 DEF Known
<1> QED
  BY <1>7, <1>8

LEMMA MovesKeeps ==
    ASSUME NEW doc, NEW rows, NEW doc2, NEW rows2, Numbered(doc, rows),
           Moves(doc, rows, doc2, rows2)
    PROVE  /\ Numbered(doc2, rows2)
           /\ \A was \in Nat : \A held : Known(was, held, doc, rows) => Known(was, held, doc2, rows2)
BY PutsKeeps, TakesKeeps, ClearsKeeps DEF Moves

-----------------------------------------------------------------------------
(* The store calls that commands make.                                     *)

StoreInv ==
    /\ docs \in [Path -> Documents \cup {NoDoc}]
    /\ journal \in [Path -> Seq(Rows)]
    /\ \A p \in Path : Numbered(docs[p], journal[p])

StoreMoves ==
    /\ DOMAIN docs' = Path /\ DOMAIN journal' = Path
    /\ docs' = [p \in Path |-> docs'[p]] /\ journal' = [p \in Path |-> journal'[p]]
    /\ \A p \in Path : Moves(docs[p], journal[p], docs'[p], journal'[p])

\* The next number of a path, live or not, is past all there is on it.
LEMMA NextIsFresh ==
    ASSUME NEW doc, NEW rows, Numbered(doc, rows)
    PROVE  /\ doc # NoDoc => Fresh(After(rows, doc), doc, rows)
           /\ doc = NoDoc => Fresh(NextVersion(rows), doc, rows)
<1>1. doc # NoDoc => Fresh(After(rows, doc), doc, rows)
  BY AfterIsPast DEF Numbered, Fresh
<1>2. doc = NoDoc => Fresh(NextVersion(rows), doc, rows)
  BY NextIsPast DEF Numbered, Fresh
<1> QED
  BY <1>1, <1>2

\* A live document's parts.
LEMMA ThereParts ==
    ASSUME NEW doc, NEW rows, Numbered(doc, rows), doc # NoDoc
    PROVE  /\ doc \in Documents /\ doc.version \in Nat /\ doc.version > 0
           /\ doc.content \in Contents /\ doc.mark \in Marks
BY DEF Numbered, Documents, Versions

\* One path moves, all others stay.
OnlyMoves(p) ==
    /\ \A q \in Path \ {p} : docs'[q] = docs[q] /\ journal'[q] = journal[q]
    /\ DOMAIN docs' = Path /\ DOMAIN journal' = Path
    /\ docs' = [q \in Path |-> docs'[q]] /\ journal' = [q \in Path |-> journal'[q]]

LEMMA WritePuts ==
    ASSUME StoreInv, NEW p \in Path, NEW text \in Contents, NEW expected,
           Write(p, text, expected)
    PROVE  OnlyMoves(p) /\ Puts(docs[p], journal[p], docs'[p], journal'[p])
<1> DEFINE action  == IF Live(p) THEN "modified" ELSE "created"
           version == IF Live(p) THEN After(journal[p], docs[p]) ELSE NextVersion(journal[p])
<1>1. Numbered(docs[p], journal[p])
  BY DEF StoreInv
<1>2. Fresh(version, docs[p], journal[p]) /\ version \in Versions
  BY <1>1, NextIsFresh DEF Live, Fresh
<1>3. action \in {"created", "modified"} /\ "plain" \in Marks
  BY DEF Marks
<1>4. /\ docs' = [docs EXCEPT ![p] = DocOf(version, text, "plain")]
      /\ journal' = [journal EXCEPT
                        ![p] = Append(@, RowOf(version, action, text, "plain"))]
  BY DEF Write
<1> HIDE DEF action, version
<1>5. /\ docs'[p] = DocOf(version, text, "plain")
      /\ journal'[p] = Append(journal[p], RowOf(version, action, text, "plain"))
      /\ \A q \in Path \ {p} : docs'[q] = docs[q] /\ journal'[q] = journal[q]
      /\ DOMAIN docs' = Path /\ DOMAIN journal' = Path
      /\ docs' = [q \in Path |-> docs'[q]] /\ journal' = [q \in Path |-> journal'[q]]
  BY <1>4 DEF StoreInv
<1>6. Puts(docs[p], journal[p], docs'[p], journal'[p])
  BY <1>2, <1>3, <1>5 DEF Puts
<1> QED
  BY <1>5, <1>6 DEF OnlyMoves

LEMMA WriteMoves ==
    ASSUME StoreInv, NEW p \in Path, NEW text \in Contents, NEW expected,
           Write(p, text, expected)
    PROVE  StoreMoves
BY WritePuts DEF StoreMoves, Moves, OnlyMoves

LEMMA DeleteTakes ==
    ASSUME StoreInv, NEW p \in Path, Delete(p)
    PROVE  OnlyMoves(p) /\ Takes(docs[p], journal[p], docs'[p], journal'[p])
<1> DEFINE version == After(journal[p], docs[p])
           gone == RowOf(version, "deleted", docs[p].content, docs[p].mark)
<1>1. Numbered(docs[p], journal[p]) /\ docs[p] # NoDoc
  BY DEF StoreInv, Delete, Live
<1>2. /\ Fresh(version, docs[p], journal[p]) /\ version \in Versions
      /\ docs[p].content \in Contents /\ docs[p].mark \in Marks
  BY <1>1, NextIsFresh, ThereParts DEF Fresh
<1>3. /\ docs' = [docs EXCEPT ![p] = NoDoc]
      /\ journal' = [journal EXCEPT ![p] = Append(@, gone)]
  BY DEF Delete
<1> HIDE DEF version
<1>4. /\ docs'[p] = NoDoc /\ journal'[p] = Append(journal[p], gone)
      /\ \A q \in Path \ {p} : docs'[q] = docs[q] /\ journal'[q] = journal[q]
      /\ DOMAIN docs' = Path /\ DOMAIN journal' = Path
      /\ docs' = [q \in Path |-> docs'[q]] /\ journal' = [q \in Path |-> journal'[q]]
  BY <1>3 DEF StoreInv
<1>5. Takes(docs[p], journal[p], docs'[p], journal'[p])
  BY <1>2, <1>4 DEF Takes
<1> QED
  BY <1>4, <1>5 DEF OnlyMoves

LEMMA DeleteMoves ==
    ASSUME StoreInv, NEW p \in Path, Delete(p)
    PROVE  StoreMoves
BY DeleteTakes DEF StoreMoves, Moves, OnlyMoves

LEMMA RenameMoves ==
    ASSUME StoreInv, NEW src \in Path, NEW dst \in Path, Rename(src, dst)
    PROVE  StoreMoves
<1> DEFINE doc == docs[src]
           was == After(journal[src], doc)
           version == NextVersion(journal[dst])
           gone == RowOf(was, "deleted", doc.content, doc.mark)
           come == RowOf(version, "created", doc.content, doc.mark)
           new == DocOf(version, doc.content, doc.mark)
<1>1. /\ Numbered(doc, journal[src]) /\ doc # NoDoc /\ src # dst
      /\ Numbered(docs[dst], journal[dst]) /\ docs[dst] = NoDoc
  BY DEF StoreInv, Rename, Live
<1>2. /\ Fresh(was, doc, journal[src]) /\ was \in Versions
      /\ doc.content \in Contents /\ doc.mark \in Marks
  BY <1>1, NextIsFresh, ThereParts DEF Fresh
<1>3. Fresh(version, docs[dst], journal[dst]) /\ version \in Versions
  BY <1>1, NextIsFresh DEF Fresh
<1>4. /\ docs' = [docs EXCEPT ![src] = NoDoc, ![dst] = new]
      /\ journal' = [journal EXCEPT ![src] = Append(@, gone), ![dst] = Append(@, come)]
  BY DEF Rename
<1> HIDE DEF was, version
<1>5. /\ docs'[src] = NoDoc /\ journal'[src] = Append(journal[src], gone)
      /\ docs'[dst] = new /\ journal'[dst] = Append(journal[dst], come)
      /\ \A q \in Path \ {src, dst} : docs'[q] = docs[q] /\ journal'[q] = journal[q]
      /\ DOMAIN docs' = Path /\ DOMAIN journal' = Path
      /\ docs' = [q \in Path |-> docs'[q]] /\ journal' = [q \in Path |-> journal'[q]]
  BY <1>1, <1>4 DEF StoreInv
<1>6. Takes(docs[src], journal[src], docs'[src], journal'[src])
  BY <1>2, <1>5 DEF Takes
<1>7. Puts(docs[dst], journal[dst], docs'[dst], journal'[dst])
  BY <1>2, <1>3, <1>5 DEF Puts
<1> QED
  BY <1>5, <1>6, <1>7 DEF StoreMoves, Moves

LEMMA RedactMoves ==
    ASSUME StoreInv, NEW named \in Path \cup {NoPath}, Redact(named)
    PROVE  StoreMoves
<1> DEFINE targets == Targets(IF named = NoPath THEN Path ELSE {named})
<1>1. /\ journal' = [p \in Path |->
                        IF p \in targets
                        THEN [i \in DOMAIN journal[p] |-> Clear(journal[p][i])]
                        ELSE journal[p]]
      /\ docs' = [p \in Path |->
                        IF p \in targets /\ Live(p) THEN Clear(docs[p]) ELSE docs[p]]
  BY DEF Redact
<1> HIDE DEF targets
<1>2. ASSUME NEW p \in Path PROVE Moves(docs[p], journal[p], docs'[p], journal'[p])
  <2>1. CASE p \in targets
    BY <1>1, <2>1 DEF Moves, Clears, Live
  <2>2. CASE p \notin targets
    BY <1>1, <2>2 DEF Moves
  <2> QED
    BY <2>1, <2>2
<1>3. /\ DOMAIN docs' = Path /\ DOMAIN journal' = Path
      /\ docs' = [q \in Path |-> docs'[q]] /\ journal' = [q \in Path |-> journal'[q]]
  BY <1>1
<1> QED
  BY <1>2, <1>3 DEF StoreMoves

LEMMA NothingMoves ==
    ASSUME StoreInv, UNCHANGED vars
    PROVE  StoreMoves
BY DEF StoreInv, StoreMoves, Moves, vars, store

LEMMA StoreKeeps ==
    ASSUME StoreInv, StoreMoves
    PROVE  StoreInv'
<1>1. ASSUME NEW p \in Path PROVE Numbered(docs'[p], journal'[p])
  BY MovesKeeps DEF StoreInv, StoreMoves
<1>2. \A p \in Path : docs'[p] \in Documents \cup {NoDoc} /\ journal'[p] \in Seq(Rows)
  BY <1>1 DEF Numbered
<1>3. docs' \in [Path -> Documents \cup {NoDoc}] /\ journal' \in [Path -> Seq(Rows)]
  BY <1>2 DEF StoreMoves
<1> QED
  BY <1>1, <1>3 DEF StoreInv

-----------------------------------------------------------------------------
(* The commands under way.                                                 *)

Steps0 == {"idle", "create", "edit", "restore", "rewind", "remove", "move", "copy", "drop"}

Calls == [step : Steps0, path : Path \cup {NoPath}, text : Contents, was : Nat,
          held : Contents, undoes : Nat, to : Path \cup {NoPath}]

\* A command holds what its path had at the version it read.
Holds(c) ==
    /\ c.step # "idle" => c.path \in Path
    /\ c.step \in {"move", "copy", "drop"} => c.to \in Path
    /\ c.step = "edit" => c.was # 0
    /\ c.was # 0 => c.step # "idle" /\ Known(c.was, c.held, docs[c.path], journal[c.path])

CommandInv ==
    /\ StoreInv
    /\ call \in [Agent -> Calls]
    /\ \A a \in Agent : Holds(call[a])

\* A store call leaves what commands hold true.
LEMMA StillHolds ==
    ASSUME StoreInv, StoreMoves, NEW c \in Calls, Holds(c)
    PROVE  /\ c.step # "idle" => c.path \in Path
           /\ c.step \in {"move", "copy", "drop"} => c.to \in Path
           /\ c.step = "edit" => c.was # 0
           /\ c.was # 0 => c.step # "idle" /\ Known(c.was, c.held, docs'[c.path], journal'[c.path])
<1>1. ASSUME c.was # 0
      PROVE  c.step # "idle" /\ Known(c.was, c.held, docs'[c.path], journal'[c.path])
  <2>1. c.step # "idle" /\ c.path \in Path /\ Known(c.was, c.held, docs[c.path], journal[c.path])
    BY <1>1 DEF Holds
  <2>2. c.was \in Nat
    BY DEF Calls
  <2>3. /\ Numbered(docs[c.path], journal[c.path])
        /\ Moves(docs[c.path], journal[c.path], docs'[c.path], journal'[c.path])
    BY <2>1 DEF StoreInv, StoreMoves
  <2> QED
    BY <2>1, <2>2, <2>3, MovesKeeps
<1> QED
  BY <1>1 DEF Holds

\* The commands other than a's go on as they were; a's does something else.
LEMMA OneCommand ==
    ASSUME CommandInv, StoreMoves, NEW a \in Agent, NEW c \in Calls,
           call' = [call EXCEPT ![a] = c],
           /\ c.step # "idle" => c.path \in Path
           /\ c.step \in {"move", "copy", "drop"} => c.to \in Path
           /\ c.step = "edit" => c.was # 0
           /\ c.was # 0 => c.step # "idle" /\ Known(c.was, c.held, docs'[c.path], journal'[c.path])
    PROVE  CommandInv'
<1>1. StoreInv'
  BY StoreKeeps DEF CommandInv
<1>2. call' \in [Agent -> Calls] /\ call'[a] = c /\ \A b \in Agent \ {a} : call'[b] = call[b]
  BY DEF CommandInv
<1>3. ASSUME NEW b \in Agent PROVE Holds(call[b])'
  <2>1. CASE b = a
    BY <1>2, <2>1 DEF Holds
  <2>2. CASE b # a
    <3>1. call'[b] = call[b] /\ call[b] \in Calls /\ Holds(call[b]) /\ StoreInv
      BY <1>2, <2>2 DEF CommandInv
    <3> QED
      BY <3>1, StillHolds DEF Holds
  <2> QED
    BY <2>1, <2>2
<1> QED
  BY <1>1, <1>2, <1>3 DEF CommandInv

LEMMA IdleParts ==
    Idle \in Calls /\ Idle.step = "idle" /\ Idle.was = 0
BY DEF Idle, Calls, Steps0, Contents

\* A command that ends.
LEMMA Ends ==
    ASSUME CommandInv, StoreMoves, NEW a \in Agent, call' = [call EXCEPT ![a] = Idle]
    PROVE  CommandInv'
BY OneCommand, IdleParts

\* What is seen is there.
LEMMA SeenParts ==
    ASSUME StoreInv, NEW p \in Path
    PROVE  /\ Seen(p).was \in Nat /\ Seen(p).held \in Contents
           /\ Seen(p).was # 0 => Known(Seen(p).was, Seen(p).held, docs[p], journal[p])
           /\ Live(p) => Seen(p).was = docs[p].version /\ Seen(p).was # 0
<1>1. Numbered(docs[p], journal[p])
  BY DEF StoreInv
<1>2. CASE Live(p)
  <2>1. /\ Seen(p).was = docs[p].version /\ Seen(p).held = docs[p].content
        /\ docs[p] # NoDoc /\ Agree(docs[p], journal[p])
        /\ docs[p].version \in Nat /\ docs[p].version > 0 /\ docs[p].content \in Contents
    BY <1>1, <1>2, ThereParts DEF Seen, Live, Numbered
  <2>2. Known(docs[p].version, docs[p].content, docs[p], journal[p])
    BY <2>1 DEF Known, Agree
  <2> QED
    BY <2>1, <2>2
<1>3. CASE ~Live(p)
  BY <1>3 DEF Seen, Contents
<1> QED
  BY <1>2, <1>3

LEMMA BeginsKeeps ==
    ASSUME CommandInv, NEW a \in Agent, NEW step \in {"create", "edit"}, NEW p \in Path,
           NEW text \in Text, Begins(a, step, p, text, Seen(p)), step = "edit" => Live(p)
    PROVE  CommandInv'
<1> DEFINE c == [Idle EXCEPT !.step = step, !.path = p, !.text = text,
                             !.was = Seen(p).was, !.held = Seen(p).held]
<1>1. call' = [call EXCEPT ![a] = c] /\ UNCHANGED vars
  BY DEF Begins
<1>2. StoreInv /\ StoreMoves /\ docs' = docs /\ journal' = journal
  BY <1>1, NothingMoves DEF CommandInv, vars, store
<1>3. /\ c \in Calls /\ c.step = step /\ c.path = p
      /\ c.was = Seen(p).was /\ c.held = Seen(p).held
  BY <1>2, SeenParts DEF Idle, Calls, Steps0, Contents
<1>4. step = "edit" => Seen(p).was # 0
  BY <1>2, SeenParts
<1> HIDE DEF c
<1> QED
  BY <1>1, <1>2, <1>3, <1>4, SeenParts, OneCommand

LEMMA WritesKeeps ==
    ASSUME CommandInv, NEW a \in Agent, Writes(a)
    PROVE  CommandInv'
<1>1. /\ call[a].step \in Writing
      /\ \/ Write(call[a].path, call[a].text, call[a].was)
         \/ UNCHANGED vars
      /\ call' = [call EXCEPT ![a] = Idle]
  BY DEF Writes
<1>2. call[a].path \in Path /\ call[a].text \in Contents /\ StoreInv
  BY <1>1 DEF CommandInv, Holds, Calls, Writing
<1>3. StoreMoves
  BY <1>1, <1>2, WriteMoves, NothingMoves
<1> QED
  BY <1>1, <1>3, Ends

LEMMA RevertReadsKeeps ==
    ASSUME CommandInv, NEW a \in Agent, NEW p \in Path, RevertReads(a, p)
    PROVE  CommandInv'
<1> DEFINE rows == journal[p]
           n == Len(rows)
           prior == n > 1 /\ rows[n - 1].action # "deleted"
           c == [Idle EXCEPT !.step = IF prior THEN "rewind" ELSE "remove",
                             !.path = p, !.undoes = rows[n].version,
                             !.text = IF prior THEN rows[n - 1].content ELSE Cleared]
<1>1. n > 0 /\ call' = [call EXCEPT ![a] = c] /\ UNCHANGED vars
  BY DEF RevertReads
<1>2. StoreInv /\ StoreMoves
  BY <1>1, NothingMoves DEF CommandInv
<1>3. rows \in Seq(Rows) /\ n \in Nat /\ DOMAIN rows = 1..n
  BY <1>2 DEF StoreInv
<1>4. rows[n].version \in Nat
  BY <1>1, <1>3, RowsParts
<1>5. prior => rows[n - 1].content \in Contents
  <2>1. prior => n - 1 \in DOMAIN rows
    BY <1>3
  <2> QED
    BY <1>3, <2>1, RowsParts, RowParts
<1> HIDE DEF prior, rows, n
<1>6. c \in Calls /\ c.step \in {"rewind", "remove"} /\ c.path = p /\ c.was = 0
  BY <1>4, <1>5 DEF Idle, Calls, Steps0, Contents
<1> HIDE DEF c
<1> QED
  BY <1>1, <1>2, <1>6, OneCommand

LEMMA RevertRereadsKeeps ==
    ASSUME CommandInv, NEW a \in Agent, RevertRereads(a)
    PROVE  CommandInv'
<1> DEFINE p == call[a].path
           c == [call[a] EXCEPT !.step = "restore", !.was = Seen(p).was, !.held = Seen(p).held]
<1>1. call[a].step = "rewind" /\ UNCHANGED vars
  BY DEF RevertRereads
<1>2. /\ StoreInv /\ StoreMoves /\ docs' = docs /\ journal' = journal
      /\ call \in [Agent -> Calls] /\ call[a] \in Calls /\ p \in Path
  BY <1>1, NothingMoves DEF CommandInv, vars, store, Holds
<1>3. call' = [call EXCEPT ![a] = c]
  BY <1>2 DEF RevertRereads
<1>4. Seen(p).was \in Nat /\ Seen(p).held \in Contents
  BY <1>2, SeenParts
<1>5. /\ c \in Calls /\ c.step = "restore" /\ c.path = p
      /\ c.was = Seen(p).was /\ c.held = Seen(p).held
  BY <1>2, <1>4 DEF Calls, Steps0
<1> HIDE DEF c
<1> QED
  BY <1>2, <1>3, <1>5, SeenParts, OneCommand

LEMMA RemovesKeeps ==
    ASSUME CommandInv, NEW a \in Agent, RevertRemoves(a) \/ MoveDrops(a)
    PROVE  CommandInv'
<1>1. /\ call[a].step \in {"remove", "drop"}
      /\ Delete(call[a].path) \/ UNCHANGED vars
      /\ call' = [call EXCEPT ![a] = Idle]
  BY DEF RevertRemoves, MoveDrops
<1>2. call[a].path \in Path /\ StoreInv
  BY <1>1 DEF CommandInv, Holds
<1>3. StoreMoves
  BY <1>1, <1>2, DeleteMoves, NothingMoves
<1> QED
  BY <1>1, <1>3, Ends

LEMMA MoveReadsKeeps ==
    ASSUME CommandInv, NEW a \in Agent, NEW src \in Path, NEW dst \in Path,
           MoveReads(a, src, dst)
    PROVE  CommandInv'
<1> DEFINE c == [Idle EXCEPT !.step = "move", !.path = src, !.to = dst,
                             !.was = docs[src].version, !.held = docs[src].content]
<1>1. Live(src) /\ call' = [call EXCEPT ![a] = c] /\ UNCHANGED vars
  BY DEF MoveReads
<1>2. StoreInv /\ StoreMoves /\ docs' = docs /\ journal' = journal
  BY <1>1, NothingMoves DEF CommandInv, vars, store
<1>3. /\ Seen(src).was = docs[src].version /\ Seen(src).held = docs[src].content
      /\ docs[src].version \in Nat /\ docs[src].content \in Contents
      /\ Known(docs[src].version, docs[src].content, docs[src], journal[src])
  BY <1>1, <1>2, SeenParts DEF Seen
<1>4. /\ c \in Calls /\ c.step = "move" /\ c.path = src /\ c.to = dst
      /\ c.was = docs[src].version /\ c.held = docs[src].content
  BY <1>3 DEF Idle, Calls, Steps0, Contents
<1> HIDE DEF c
<1> QED
  BY <1>1, <1>2, <1>3, <1>4, OneCommand

LEMMA MoveLooksKeeps ==
    ASSUME CommandInv, NEW a \in Agent, MoveLooks(a)
    PROVE  CommandInv'
<1> DEFINE c == [call[a] EXCEPT !.step = "copy"]
<1>1. call[a].step = "move" /\ UNCHANGED vars
  BY DEF MoveLooks
<1>2. /\ StoreInv /\ StoreMoves /\ docs' = docs /\ journal' = journal
      /\ call \in [Agent -> Calls] /\ call[a] \in Calls /\ Holds(call[a])
  BY <1>1, NothingMoves DEF CommandInv, vars, store
<1>3. CASE call' = [call EXCEPT ![a] = Idle]
  BY <1>2, <1>3, Ends
<1>4. CASE call' = [call EXCEPT ![a] = c]
  <2>1. /\ c \in Calls /\ c.step = "copy" /\ c.path = call[a].path /\ c.to = call[a].to
        /\ c.was = call[a].was /\ c.held = call[a].held
    BY <1>2 DEF Calls, Steps0
  <2> HIDE DEF c
  <2> QED
    BY <1>1, <1>2, <1>4, <2>1, OneCommand DEF Holds
<1>5. call' = [call EXCEPT ![a] = Idle] \/ call' = [call EXCEPT ![a] = c]
  BY <1>2 DEF MoveLooks
<1> QED
  BY <1>3, <1>4, <1>5

LEMMA MoveCopiesKeeps ==
    ASSUME CommandInv, NEW a \in Agent, MoveCopies(a)
    PROVE  CommandInv'
<1> DEFINE c == [call[a] EXCEPT !.step = "drop"]
<1>1. call[a].step = "copy" /\ Write(call[a].to, call[a].held, 0)
  BY DEF MoveCopies
<1>2. /\ StoreInv /\ call \in [Agent -> Calls] /\ call[a] \in Calls /\ Holds(call[a])
      /\ call[a].to \in Path /\ call[a].held \in Contents
  BY <1>1 DEF CommandInv, Holds, Calls
<1>3. StoreMoves
  BY <1>1, <1>2, WriteMoves
<1>4. call' = [call EXCEPT ![a] = c]
  BY <1>2 DEF MoveCopies
<1>5. /\ c \in Calls /\ c.step = "drop" /\ c.path = call[a].path /\ c.to = call[a].to
      /\ c.was = call[a].was /\ c.held = call[a].held
  BY <1>2 DEF Calls, Steps0
<1>6. /\ call[a].path \in Path
      /\ c.was # 0 => Known(c.was, c.held, docs'[c.path], journal'[c.path])
  BY <1>1, <1>2, <1>3, <1>5, StillHolds
<1> HIDE DEF c
<1> QED
  BY <1>2, <1>3, <1>4, <1>5, <1>6, OneCommand

LEMMA AtOnceKeeps ==
    ASSUME CommandInv, AtOnce
    PROVE  CommandInv'
<1>1. StoreInv /\ call' = call
  BY DEF CommandInv, AtOnce
<1>2. StoreMoves
  BY <1>1, DeleteMoves, RenameMoves, RedactMoves DEF AtOnce
<1>3. ASSUME NEW a \in Agent PROVE Holds(call[a])'
  <2>1. call'[a] = call[a] /\ call[a] \in Calls /\ Holds(call[a])
    BY <1>1 DEF CommandInv
  <2> QED
    BY <1>1, <1>2, <2>1, StillHolds DEF Holds
<1> QED
  BY <1>1, <1>2, <1>3, StoreKeeps DEF CommandInv

-----------------------------------------------------------------------------
(* The theorems.                                                           *)

LEMMA CommandsStart == CommandInit => CommandInv
<1> SUFFICES ASSUME CommandInit PROVE CommandInv
  OBVIOUS
<1>1. StoreInv
  BY Starts DEF CommandInit, IInv, PathInv, StoreInv, Numbered
<1>2. call \in [Agent -> Calls] /\ \A a \in Agent : call[a] = Idle
  BY IdleParts DEF CommandInit
<1> QED
  BY <1>1, <1>2, IdleParts DEF CommandInv, Holds

\* Whatever a command does, it moves paths as the store's calls do.
LEMMA CommandsMove ==
    ASSUME CommandInv, CommandNext
    PROVE  StoreMoves
<1>1. StoreInv
  BY DEF CommandInv
<1>2. CASE AtOnce
  BY <1>1, <1>2, DeleteMoves, RenameMoves, RedactMoves DEF AtOnce
<1>3. CASE UNCHANGED vars
  BY <1>1, <1>3, NothingMoves
<1>4. ASSUME NEW a \in Agent, Writes(a) PROVE StoreMoves
  <2>1. /\ call[a].step \in Writing
        /\ \/ Write(call[a].path, call[a].text, call[a].was)
           \/ UNCHANGED vars
    BY <1>4 DEF Writes
  <2>2. call[a].path \in Path /\ call[a].text \in Contents
    BY <2>1 DEF CommandInv, Holds, Calls, Writing
  <2> QED
    BY <1>1, <2>1, <2>2, WriteMoves, NothingMoves
<1>5. ASSUME NEW a \in Agent, RevertRemoves(a) \/ MoveDrops(a) PROVE StoreMoves
  <2>1. /\ call[a].step \in {"remove", "drop"}
        /\ Delete(call[a].path) \/ UNCHANGED vars
    BY <1>5 DEF RevertRemoves, MoveDrops
  <2>2. call[a].path \in Path
    BY <2>1 DEF CommandInv, Holds
  <2> QED
    BY <1>1, <2>1, <2>2, DeleteMoves, NothingMoves
<1>6. ASSUME NEW a \in Agent, MoveCopies(a) PROVE StoreMoves
  <2>1. call[a].step = "copy" /\ Write(call[a].to, call[a].held, 0)
    BY <1>6 DEF MoveCopies
  <2>2. call[a].to \in Path /\ call[a].held \in Contents
    BY <2>1 DEF CommandInv, Holds, Calls
  <2> QED
    BY <1>1, <2>1, <2>2, WriteMoves
<1>7. ASSUME NEW a \in Agent, NEW p \in Path, NEW text \in Text,
             CreateReads(a, p, text) \/ EditReads(a, p, text)
      PROVE  UNCHANGED vars
  BY <1>7 DEF CreateReads, EditReads, Begins
<1>8. ASSUME NEW a \in Agent, NEW src \in Path, NEW dst \in Path, MoveReads(a, src, dst)
      PROVE  UNCHANGED vars
  BY <1>8 DEF MoveReads
<1>9. ASSUME NEW a \in Agent, RevertRereads(a) \/ MoveLooks(a) PROVE UNCHANGED vars
  BY <1>9 DEF RevertRereads, MoveLooks
<1>10. ASSUME NEW a \in Agent, NEW p \in Path, RevertReads(a, p) PROVE UNCHANGED vars
  BY <1>10 DEF RevertReads
<1> QED
  BY <1>2, <1>3, <1>4, <1>5, <1>6, <1>7, <1>8, <1>9, <1>10 DEF CommandNext

LEMMA CommandSteps == CommandInv /\ [CommandNext]_commandVars => CommandInv'
<1> SUFFICES ASSUME CommandInv, [CommandNext]_commandVars PROVE CommandInv'
  OBVIOUS
<1>1. CASE AtOnce
  BY <1>1, AtOnceKeeps
<1>2. ASSUME NEW a \in Agent, NEW p \in Path, NEW text \in Text,
             CreateReads(a, p, text) \/ EditReads(a, p, text)
      PROVE  CommandInv'
  BY <1>2, BeginsKeeps DEF CreateReads, EditReads
<1>3. ASSUME NEW a \in Agent, NEW p \in Path, RevertReads(a, p) PROVE CommandInv'
  BY <1>3, RevertReadsKeeps
<1>4. ASSUME NEW a \in Agent, Writes(a) PROVE CommandInv'
  BY <1>4, WritesKeeps
<1>5. ASSUME NEW a \in Agent, RevertRereads(a) PROVE CommandInv'
  BY <1>5, RevertRereadsKeeps
<1>6. ASSUME NEW a \in Agent, RevertRemoves(a) \/ MoveDrops(a) PROVE CommandInv'
  BY <1>6, RemovesKeeps
<1>7. ASSUME NEW a \in Agent, NEW src \in Path, NEW dst \in Path, MoveReads(a, src, dst)
      PROVE  CommandInv'
  BY <1>7, MoveReadsKeeps
<1>8. ASSUME NEW a \in Agent, MoveLooks(a) PROVE CommandInv'
  BY <1>8, MoveLooksKeeps
<1>9. ASSUME NEW a \in Agent, MoveCopies(a) PROVE CommandInv'
  BY <1>9, MoveCopiesKeeps
<1>10. CASE UNCHANGED commandVars
  BY <1>10 DEF commandVars, vars, store, CommandInv, StoreInv, Holds
<1> QED
  BY <1>1, <1>2, <1>3, <1>4, <1>5, <1>6, <1>7, <1>8, <1>9, <1>10 DEF CommandNext

LEMMA CommandsInductive == CommandSpec => []CommandInv
BY CommandsStart, CommandSteps, PTL DEF CommandSpec

\* What the invariant says of each agent's reads.
LEMMA CommandsKnow == CommandInv => ReadsName
BY DEF CommandInv, Holds, Known, ReadsName, Live

\* What an edit replaces is what it read, or was erased.
LEMMA EditReplaces ==
    ASSUME CommandInv, CommandNext, NEW a \in Agent, NEW p \in Path,
           Replaces(a, p), call[a].step = "edit"
    PROVE  docs[p].content \in {call[a].held, Cleared}
<1>1. /\ call'[a] = Idle /\ call[a].path = p /\ docs[p] # NoDoc /\ docs' # docs
      /\ call[a] # call'[a]
  BY IdleParts DEF Replaces, Live
<1>2. call \in [Agent -> Calls]
  BY DEF CommandInv
<1>3. Writes(a)
  <2>1. ~AtOnce
    BY <1>1 DEF AtOnce
  <2>2. ASSUME NEW b \in Agent, b # a, call'[b] # call[b] PROVE call'[a] = call[a]
    BY <1>2, <2>2, <2>1 DEF CommandNext, CreateReads, EditReads, Begins, RevertReads, Writes,
       RevertRereads, RevertRemoves, MoveReads, MoveLooks, MoveCopies, MoveDrops
  <2> QED
    BY <1>1, <1>2, <2>1, IdleParts DEF CommandNext, CreateReads, EditReads, Begins, RevertReads,
       Writes, RevertRereads, RevertRemoves, MoveReads, MoveLooks, MoveCopies, MoveDrops
<1>4. Accepts(p, call[a].was)
  BY <1>1, <1>3 DEF Writes, vars, store
<1>5. call[a].was # 0 /\ Known(call[a].was, call[a].held, docs[p], journal[p])
  BY <1>1 DEF CommandInv, Holds
<1> QED
  BY <1>1, <1>4, <1>5 DEF Accepts, Known

\* A version names one content for ever: whatever an agent read at a version,
\* the path holds at it still, or it was erased (write.rs:3).
THEOREM VersionsNameContent == CommandSpec => []ReadsName
BY CommandsKnow, CommandsInductive, PTL

\* An edit replaces what it read, or what was erased of it since, and nothing
\* that another agent wrote in between (commands.rs:202-206).
THEOREM EditsAreFenced == CommandSpec => EditsKeepOthersWork
<1> DEFINE Safe == \A a \in Agent, p \in Path :
                       Replaces(a, p) /\ call[a].step = "edit" =>
                           docs[p].content \in {call[a].held, Cleared}
<1>1. CommandInv /\ [CommandNext]_commandVars => [Safe]_commandVars
  BY EditReplaces
<1> QED
  BY <1>1, CommandsInductive, PTL DEF CommandSpec, EditsKeepOthersWork

-----------------------------------------------------------------------------
(* A proposal and its applications.                                        *)

Preparing == {"target", "source"}
Checked   == {"recheck", "keeper", "write", "verify"}
Applying  == {"preflight"} \cup Checked

Changes  == [path : Path, op : {"replace", "restore", "delete"}, text : Contents,
             version : Nat, other : Path \cup {NoPath}]
Guards   == UNION {[paths -> Documents \cup {NoDoc}] : paths \in SUBSET Path}
Landings == [at : Nat, version : Nat, tries : Nat]
Works    == [phase : {"idle"} \cup Preparing \cup Applying, changes : Seq(Changes),
             guards : Guards, at : Nat, todo : SUBSET Path, tries : Nat,
             doc : Documents \cup {NoDoc}]

\* What was observed of a path is what it had at that version.
Observed(guards, d, j) ==
    /\ guards \in Guards
    /\ \A p \in DOMAIN guards :
        /\ guards[p] \in Documents
        /\ Known(guards[p].version, guards[p].content, d[p], j[p])

\* What a change reads is guarded.
Guarded(change, guards) ==
    /\ change.path \in DOMAIN guards
    /\ change.other # NoPath => change.other \in DOMAIN guards

Proposal ==
    /\ Observed(plan.guards, docs, journal)
    /\ plan.changes \in Seq(Changes) /\ plan.changes # <<>> /\ Valid(plan.changes)
    /\ \A i \in DOMAIN plan.changes : Guarded(plan.changes[i], plan.guards)

Target(i) == plan.changes[i].path

\* A landed change took its path past what was observed of it, for good.
Outran(landing, d, j) ==
    LET p == Target(landing.at)
    IN  /\ landing.at \in DOMAIN plan.changes /\ landing.tries > 0
        /\ landing.version > plan.guards[p].version
        /\ \E held \in Contents : Known(landing.version, held, d[p], j[p])

Settled ==
    /\ CommandInv
    /\ landed \in Seq(Landings) /\ AppliesOnce
    /\ plan \in {NoPlan, NoUpkeep} => landed = <<>>
    /\ plan \notin {NoPlan, NoUpkeep} =>
        /\ Proposal
        /\ \A i \in DOMAIN landed : Outran(landed[i], docs, journal)

Preparation ==
    /\ Observed(work.guards, docs, journal)
    /\ work.changes # <<>> /\ work.at \in 1..Len(work.changes) + 1
    /\ \A i \in DOMAIN work.changes : i < work.at => Guarded(work.changes[i], work.guards)
    /\ work.phase = "source" =>
        /\ work.at \in DOMAIN work.changes
        /\ work.changes[work.at].other # NoPath
        /\ work.changes[work.at].path \in DOMAIN work.guards

\* What this application has not changed it expects as it was observed.
Application ==
    /\ DOMAIN work.guards = DOMAIN plan.guards /\ work.todo \subseteq DOMAIN plan.guards
    /\ work.at \in DOMAIN plan.changes /\ work.tries > 0
    /\ \A q \in DOMAIN plan.guards :
        (\A i \in DOMAIN plan.changes : Target(i) = q => i >= work.at) =>
            work.guards[q] = plan.guards[q]
    /\ work.phase = "preflight" =>
        /\ work.at = 1
        /\ \A j \in DOMAIN landed : /\ landed[j].tries < work.tries
                                    /\ Target(landed[j].at) \in work.todo
    /\ work.phase \in Checked =>
        \A j \in DOMAIN landed : /\ landed[j].at <= work.at
                                 /\ work.phase # "verify" => landed[j].at < work.at
    /\ work.phase \in {"keeper", "write"} =>
        work.todo = {} /\ work.doc = plan.guards[Target(work.at)]
    /\ alone /\ work.phase \in {"recheck", "keeper", "write"} =>
        \A q \in DOMAIN plan.guards \ work.todo : docs[q] = work.guards[q]

AtWork ==
    /\ work \in Works
    /\ work.phase \in Preparing => plan \in {NoPlan, NoUpkeep} /\ Preparation
    /\ work.phase \in Applying => plan \notin {NoPlan, NoUpkeep} /\ Application
    /\ DuplicatesKept

UpkeepInv == Settled /\ AtWork

LEMMA NoWorkParts ==
    /\ NoWork \in Works
    /\ NoWork.phase = "idle" /\ NoWork.tries = 0 /\ NoWork.at = 1
    /\ NoWork.guards = <<>> /\ NoWork.todo = {} /\ NoWork.changes = <<>>
<1>1. <<>> \in [{} -> Documents \cup {NoDoc}] /\ {} \in SUBSET Path
  OBVIOUS
<1>2. <<>> \in Guards
  BY <1>1 DEF Guards
<1> QED
  BY <1>2 DEF NoWork, Works, Preparing, Applying, Checked

LEMMA WorkParts ==
    ASSUME NEW w \in Works
    PROVE  /\ w.phase \in {"idle"} \cup Preparing \cup Applying /\ w.changes \in Seq(Changes)
           /\ w.guards \in Guards /\ w.at \in Nat /\ w.todo \subseteq Path
           /\ w.tries \in Nat /\ w.doc \in Documents \cup {NoDoc}
BY DEF Works

\* A store call leaves what is known of a path true.
LEMMA KnownStays ==
    ASSUME StoreInv, StoreMoves, NEW p \in Path, NEW was \in Nat, NEW held,
           Known(was, held, docs[p], journal[p])
    PROVE  Known(was, held, docs'[p], journal'[p])
<1>1. /\ Numbered(docs[p], journal[p])
      /\ Moves(docs[p], journal[p], docs'[p], journal'[p])
  BY DEF StoreInv, StoreMoves
<1> QED
  BY <1>1, MovesKeeps

LEMMA GuardsParts ==
    ASSUME NEW guards \in Guards
    PROVE  /\ DOMAIN guards \subseteq Path
           /\ \A p \in DOMAIN guards : guards[p] \in Documents \cup {NoDoc}
           /\ guards = [p \in DOMAIN guards |-> guards[p]]
BY DEF Guards

LEMMA ObservedStays ==
    ASSUME StoreInv, StoreMoves, NEW guards, Observed(guards, docs, journal)
    PROVE  Observed(guards, docs', journal')
<1>1. ASSUME NEW p \in DOMAIN guards
      PROVE  /\ guards[p] \in Documents
             /\ Known(guards[p].version, guards[p].content, docs'[p], journal'[p])
  <2>1. /\ p \in Path /\ guards[p] \in Documents
        /\ Known(guards[p].version, guards[p].content, docs[p], journal[p])
    BY GuardsParts DEF Observed
  <2>2. guards[p].version \in Nat
    BY <2>1 DEF Documents, Versions
  <2> QED
    BY <2>1, <2>2, KnownStays
<1> QED
  BY <1>1 DEF Observed

\* What is current may be guarded.
LEMMA CurrentParts ==
    ASSUME StoreInv, NEW p \in Path, Current(p)
    PROVE  /\ docs[p] \in Documents
           /\ Known(docs[p].version, docs[p].content, docs[p], journal[p])
<1>1. Numbered(docs[p], journal[p]) /\ docs[p] # NoDoc
  BY DEF StoreInv, Current, Live
<1>2. docs[p] \in Documents /\ docs[p].version \in Nat /\ Agree(docs[p], journal[p])
  BY <1>1, ThereParts DEF Numbered
<1> QED
  BY <1>2, <1>1 DEF Known, Agree

\* Commands under way hold on through a store call that is not theirs.
LEMMA CallsStay ==
    ASSUME CommandInv, StoreMoves, call' = call
    PROVE  CommandInv'
<1>1. ASSUME NEW a \in Agent PROVE Holds(call[a])'
  <2>1. call'[a] = call[a] /\ call[a] \in Calls /\ Holds(call[a]) /\ StoreInv
    BY DEF CommandInv
  <2> QED
    BY <2>1, StillHolds DEF Holds
<1> QED
  BY <1>1, StoreKeeps DEF CommandInv

\* What has landed of a proposal stays landed.
LEMMA OutranStays ==
    ASSUME StoreInv, StoreMoves, plan.changes \in Seq(Changes),
           NEW l \in Landings, Outran(l, docs, journal)
    PROVE  Outran(l, docs', journal')
<1> DEFINE p == Target(l.at)
<1>1. /\ l.at \in DOMAIN plan.changes /\ l.tries > 0 /\ l.version > plan.guards[p].version
      /\ \E held \in Contents : Known(l.version, held, docs[p], journal[p])
  BY DEF Outran
<1>2. l.version \in Nat
  BY DEF Landings
<1>3. p \in Path
  <2>1. plan.changes[l.at] \in Changes
    BY <1>1
  <2> QED
    BY <2>1 DEF Target, Changes
<1>4. PICK held \in Contents : Known(l.version, held, docs[p], journal[p])
  BY <1>1
<1>5. Known(l.version, held, docs'[p], journal'[p])
  BY <1>2, <1>3, <1>4, KnownStays
<1> QED
  BY <1>1, <1>5 DEF Outran

\* So does what it observed.
LEMMA SettledStays ==
    ASSUME Settled, CommandInv', StoreMoves, plan' = plan, landed' = landed
    PROVE  Settled'
<1>1. StoreInv
  BY DEF Settled, CommandInv
<1>2. landed' \in Seq(Landings) /\ AppliesOnce' /\ (plan' \in {NoPlan, NoUpkeep} => landed' = <<>>)
  BY DEF Settled, AppliesOnce
<1>3. ASSUME plan \notin {NoPlan, NoUpkeep}
      PROVE  Proposal' /\ \A i \in DOMAIN landed : Outran(landed[i], docs, journal)'
  <2>1. Proposal'
    <3>1. Observed(plan.guards, docs', journal')
      BY <1>1, <1>3, ObservedStays DEF Settled, Proposal
    <3> QED
      BY <1>3, <3>1 DEF Settled, Proposal
  <2>2. ASSUME NEW i \in DOMAIN landed PROVE Outran(landed[i], docs, journal)'
    <3>1. landed \in Seq(Landings) /\ plan.changes \in Seq(Changes)
      BY <1>3 DEF Settled, Proposal
    <3>2. landed[i] \in Landings /\ Outran(landed[i], docs, journal)
      BY <1>3, <2>2, <3>1 DEF Settled
    <3>3. Outran(landed[i], docs', journal')
      BY <1>1, <3>1, <3>2, OutranStays
    <3> QED
      BY <3>3 DEF Outran, Target
  <2> QED
    BY <2>1, <2>2
<1> QED
  BY <1>2, <1>3 DEF Settled

LEMMA SettledRests ==
    ASSUME Settled, UNCHANGED commandVars, plan' = plan, landed' = landed
    PROVE  Settled'
<1>1. StoreInv /\ CommandInv /\ StoreMoves
  BY NothingMoves DEF Settled, CommandInv, commandVars
<1>2. CommandInv'
  BY <1>1, CallsStay DEF commandVars
<1> QED
  BY <1>1, <1>2, SettledStays

\* Whoever gives up leaves nothing behind.
LEMMA Rests ==
    ASSUME Settled', work' = NoWork
    PROVE  UpkeepInv'
<1>1. work' \in Works /\ work'.phase = "idle" /\ work'.tries = 0
  BY NoWorkParts
<1>2. DuplicatesKept'
  <2> SUFFICES ASSUME NEW i \in DOMAIN landed' PROVE work'.tries # landed'[i].tries
    BY DEF DuplicatesKept
  <2>1. CASE plan' \in {NoPlan, NoUpkeep}
    BY <2>1 DEF Settled
  <2>2. CASE plan' \notin {NoPlan, NoUpkeep}
    <3>1. Outran(landed[i], docs, journal)'
      BY <2>2 DEF Settled
    <3>2. landed'[i].tries > 0
      BY <3>1 DEF Outran
    <3> QED
      BY <1>1, <3>2
  <2> QED
    BY <2>1, <2>2
<1> QED
  BY <1>1, <1>2 DEF UpkeepInv, AtWork, Preparing, Applying, Checked

\* Somebody else's step.
LEMMA OthersKeep ==
    ASSUME UpkeepInv, Settled', StoreMoves, plan' = plan, landed' = landed, work' = work,
           alone' = FALSE
    PROVE  UpkeepInv'
<1>1. StoreInv
  BY DEF UpkeepInv, Settled, CommandInv
<1>2. DuplicatesKept'
  BY DEF DuplicatesKept
<1>3. ASSUME work.phase \in Preparing PROVE Preparation'
  <2>1. Preparation
    BY <1>3 DEF UpkeepInv, AtWork
  <2>2. Observed(work.guards, docs', journal')
    BY <1>1, <2>1, ObservedStays DEF Preparation
  <2> QED
    BY <2>1, <2>2 DEF Preparation
<1>4. ASSUME work.phase \in Applying PROVE Application'
  <2>1. Application
    BY <1>4 DEF UpkeepInv, AtWork
  <2> QED
    BY <2>1 DEF Application, Target
<1> QED
  BY <1>2, <1>3, <1>4 DEF UpkeepInv, AtWork

\* A step of the commands, where nobody does upkeep.
LEMMA CommandsKeepUpkeep ==
    ASSUME UpkeepInv, Settled', StoreMoves, UNCHANGED upkeep, plan \in {NoPlan, NoUpkeep}
    PROVE  UpkeepInv'
<1>1. StoreInv /\ work' = work /\ plan' = plan /\ landed' = landed /\ alone' = alone
  BY DEF UpkeepInv, Settled, CommandInv, upkeep
<1>2. landed = <<>>
  BY DEF UpkeepInv, Settled
<1>3. DuplicatesKept'
  BY <1>1, <1>2 DEF DuplicatesKept
<1>4. ASSUME work.phase \in Preparing PROVE Preparation'
  <2>1. Preparation
    BY <1>4 DEF UpkeepInv, AtWork
  <2>2. Observed(work.guards, docs', journal')
    BY <1>1, <2>1, ObservedStays DEF Preparation
  <2> QED
    BY <1>1, <2>1, <2>2 DEF Preparation
<1> QED
  BY <1>1, <1>3, <1>4 DEF UpkeepInv, AtWork

-----------------------------------------------------------------------------
(* prepare.                                                                *)

LEMMA EditsParts ==
    ASSUME StoreInv, NEW p \in Path
    PROVE  Edits(p) \subseteq Changes
<1> SUFFICES ASSUME NEW e \in Edits(p) PROVE e \in Changes
  OBVIOUS
<1>1. Cleared \in Contents /\ Text \subseteq Contents /\ 0 \in Nat
  BY DEF Contents
<1>2. \A i \in DOMAIN journal[p] : journal[p][i].version \in Nat
  BY RowsParts DEF StoreInv
<1>3. ASSUME NEW op \in {"replace", "restore", "delete"}, NEW text \in Contents,
             NEW version \in Nat, NEW other \in Path \cup {NoPath}
      PROVE  EditOf(p, op, text, version, other) \in Changes
  BY DEF EditOf, Changes
<1>4. \/ \E text \in Text, other \in (Path \ {p}) \cup {NoPath} :
            e = EditOf(p, "replace", text, 0, other)
      \/ \E i \in DOMAIN journal[p] :
            e = EditOf(p, "restore", Cleared, journal[p][i].version, NoPath)
      \/ \E k \in Path \cup {NoPath} : e = EditOf(p, "delete", Cleared, 0, k)
  BY DEF Edits
<1>5. CASE \E text \in Text, other \in (Path \ {p}) \cup {NoPath} :
            e = EditOf(p, "replace", text, 0, other)
  BY <1>1, <1>3, <1>5
<1>6. CASE \E i \in DOMAIN journal[p] :
            e = EditOf(p, "restore", Cleared, journal[p][i].version, NoPath)
  BY <1>1, <1>2, <1>3, <1>6
<1>7. CASE \E k \in Path \cup {NoPath} : e = EditOf(p, "delete", Cleared, 0, k)
  BY <1>1, <1>3, <1>7
<1> QED
  BY <1>4, <1>5, <1>6, <1>7

LEMMA BeginKeeps ==
    ASSUME UpkeepInv, Begin
    PROVE  UpkeepInv'
<1>1. PICK r \in Requests : work' = [NoWork EXCEPT !.phase = "target", !.changes = r]
  BY DEF Begin
<1>2. Settled' /\ plan' = plan /\ plan = NoPlan /\ landed' = landed /\ landed = <<>>
  BY SettledRests DEF UpkeepInv, Begin, Settled
<1>3. r \in Seq(Changes) /\ r # <<>>
  <2>1. PICK n \in 1..MaxChanges : r \in [1..n -> UNION {Edits(p) : p \in Path}]
    BY DEF Requests
  <2>2. UNION {Edits(p) : p \in Path} \subseteq Changes
    BY EditsParts DEF UpkeepInv, Settled, CommandInv
  <2>3. n \in Nat /\ n >= 1
    BY UpkeepAssumption
  <2>4. r \in [1..n -> Changes]
    BY <2>1, <2>2
  <2> QED
    BY <2>3, <2>4
<1>4. /\ work' \in Works /\ work'.phase = "target" /\ work'.changes = r
      /\ work'.guards = <<>> /\ work'.at = 1
  BY <1>1, <1>3, NoWorkParts DEF Works, Preparing
<1>5. DuplicatesKept'
  BY <1>2 DEF DuplicatesKept
<1>6. Preparation'
  <2>1. Observed(<<>>, docs', journal')
    BY <1>4 DEF Observed, Works
  <2>2. Len(r) \in Nat /\ 1 \in 1..Len(r) + 1 /\ \A i \in DOMAIN r : ~(i < 1)
    BY <1>3
  <2> QED
    BY <1>3, <1>4, <2>1, <2>2 DEF Preparation
<1> QED
  BY <1>2, <1>4, <1>5, <1>6 DEF UpkeepInv, AtWork, Preparing, Applying, Checked

\* What is noted beside earlier observations.
LEMMA NotedParts ==
    ASSUME StoreInv, NEW guards, Observed(guards, docs, journal), NEW p \in Path, Current(p),
           NEW more, more = [q \in DOMAIN guards \cup {p} |-> IF q = p THEN docs[p] ELSE guards[q]]
    PROVE  /\ more \in Guards /\ Observed(more, docs, journal)
           /\ DOMAIN more = DOMAIN guards \cup {p}
<1>1. /\ docs[p] \in Documents
      /\ Known(docs[p].version, docs[p].content, docs[p], journal[p])
  BY CurrentParts
<1>2. DOMAIN more = DOMAIN guards \cup {p} /\ DOMAIN more \in SUBSET Path
  BY GuardsParts DEF Observed
<1>3. \A q \in DOMAIN more : more[q] = IF q = p THEN docs[p] ELSE guards[q]
  OBVIOUS
<1>4. more \in [DOMAIN more -> Documents \cup {NoDoc}]
  BY <1>1, <1>2, <1>3 DEF Observed
<1>5. more \in Guards
  BY <1>2, <1>4 DEF Guards
<1>6. Observed(more, docs, journal)
  BY <1>1, <1>2, <1>3, <1>5 DEF Observed
<1> QED
  BY <1>2, <1>5, <1>6

LEMMA ChangeParts ==
    ASSUME NEW c \in Changes
    PROVE  /\ c.path \in Path /\ c.op \in {"replace", "restore", "delete"}
           /\ c.text \in Contents /\ c.version \in Nat /\ c.other \in Path \cup {NoPath}
BY DEF Changes

\* What prepare makes of its work after a read.
LEMMA NotingWork ==
    ASSUME work \in Works, NEW guards \in Guards, NEW at \in Nat, NEW phase \in Preparing,
           work' = [work EXCEPT !.guards = guards, !.at = at, !.phase = phase]
    PROVE  /\ work' \in Works /\ work'.phase = phase /\ work'.changes = work.changes
           /\ work'.guards = guards /\ work'.at = at
BY DEF Works, Preparing

LEMMA PreparedGuards ==
    ASSUME NEW guards, NEW more, NEW p, DOMAIN more = DOMAIN guards \cup {p}, NEW change,
           Guarded(change, guards)
    PROVE  Guarded(change, more)
BY DEF Guarded

LEMMA ReadTargetKeeps ==
    ASSUME UpkeepInv, ReadTarget
    PROVE  UpkeepInv'
<1> DEFINE c == work.changes[work.at]
           more == Noted(c.path)
<1>1. /\ Settled' /\ plan' = plan /\ landed' = landed /\ alone' = alone
      /\ docs' = docs /\ journal' = journal /\ StoreInv
  BY SettledRests DEF UpkeepInv, ReadTarget, Settled, CommandInv, commandVars, vars, store
<1>2. /\ work \in Works /\ work.phase = "target" /\ Preparation /\ work.at <= Len(work.changes)
      /\ plan \in {NoPlan, NoUpkeep} /\ landed = <<>>
  BY DEF UpkeepInv, AtWork, Settled, ReadTarget, Preparing
<1>3. /\ work.changes \in Seq(Changes) /\ work.at \in DOMAIN work.changes
      /\ DOMAIN work.changes = 1..Len(work.changes) /\ Len(work.changes) \in Nat
      /\ work.at \in Nat
  BY <1>2, WorkParts DEF Preparation
<1>4. /\ c \in Changes /\ c.path \in Path /\ c.other \in Path \cup {NoPath}
      /\ Observed(work.guards, docs, journal)
  <2>1. c \in Changes
    BY <1>3
  <2> QED
    BY <1>2, <2>1, ChangeParts DEF Preparation
<1>5. CASE work' = NoWork
  BY <1>1, <1>5, Rests
<1>6. CASE work' # NoWork
  <2>1. Current(c.path)
    BY <1>6 DEF ReadTarget
  <2>2. more = [q \in DOMAIN work.guards \cup {c.path} |->
                    IF q = c.path THEN docs[c.path] ELSE work.guards[q]]
    BY DEF Noted, Observe
  <2> HIDE DEF more
  <2>3. /\ more \in Guards /\ Observed(more, docs, journal)
        /\ DOMAIN more = DOMAIN work.guards \cup {c.path}
    BY <1>1, <1>4, <2>1, <2>2, NotedParts
  <2>4. DuplicatesKept'
    BY <1>1, <1>2 DEF DuplicatesKept
  <2>5. \A i \in DOMAIN work.changes : i < work.at => Guarded(work.changes[i], more)
    BY <1>2, <2>3, PreparedGuards DEF Preparation
  <2>6. CASE c.other = NoPath
    <3>1. work' = [work EXCEPT !.guards = more, !.at = work.at + 1]
      BY <1>6, <2>6 DEF ReadTarget, more
    <3>2. /\ work' \in Works /\ work'.phase = "target" /\ work'.changes = work.changes
          /\ work'.guards = more /\ work'.at = work.at + 1
      <4>1. work.at + 1 \in Nat /\ "target" \in Preparing
        BY <1>3 DEF Preparing
      <4>2. work' = [work EXCEPT !.guards = more, !.at = work.at + 1, !.phase = "target"]
        BY <1>2, <3>1 DEF Works
      <4> QED
        BY <1>2, <2>3, <4>1, <4>2, NotingWork
    <3>3. Guarded(c, more)
      BY <2>3, <2>6 DEF Guarded
    <3>4. \A i \in DOMAIN work.changes : i < work.at + 1 => i < work.at \/ i = work.at
      BY <1>3
    <3>5. work.at + 1 \in 1..Len(work.changes) + 1
      BY <1>2, <1>3
    <3>6. Preparation'
      BY <1>1, <1>2, <2>3, <2>5, <3>2, <3>3, <3>4, <3>5 DEF Preparation
    <3> QED
      BY <1>1, <1>2, <2>4, <3>2, <3>6 DEF UpkeepInv, AtWork, Preparing, Applying, Checked
  <2>7. CASE c.other # NoPath
    <3>1. work' = [work EXCEPT !.guards = more, !.phase = "source"]
      BY <1>6, <2>7 DEF ReadTarget, more
    <3>2. /\ work' \in Works /\ work'.phase = "source" /\ work'.changes = work.changes
          /\ work'.guards = more /\ work'.at = work.at
      <4>1. "source" \in Preparing
        BY DEF Preparing
      <4>2. work' = [work EXCEPT !.guards = more, !.at = work.at, !.phase = "source"]
        BY <1>2, <3>1 DEF Works
      <4> QED
        BY <1>2, <1>3, <2>3, <4>1, <4>2, NotingWork
    <3>3. c.path \in DOMAIN more
      BY <2>3
    <3>4. Preparation'
      BY <1>1, <1>2, <1>3, <2>3, <2>5, <2>7, <3>2, <3>3 DEF Preparation
    <3> QED
      BY <1>1, <1>2, <2>4, <3>2, <3>4 DEF UpkeepInv, AtWork, Preparing, Applying, Checked
  <2> QED
    BY <2>6, <2>7
<1> QED
  BY <1>5, <1>6

LEMMA ReadSourceKeeps ==
    ASSUME UpkeepInv, ReadSource
    PROVE  UpkeepInv'
<1> DEFINE c == work.changes[work.at]
           more == Noted(c.other)
<1>1. /\ Settled' /\ plan' = plan /\ landed' = landed /\ alone' = alone
      /\ docs' = docs /\ journal' = journal /\ StoreInv
  BY SettledRests DEF UpkeepInv, ReadSource, Settled, CommandInv, commandVars, vars, store
<1>2. /\ work \in Works /\ work.phase = "source" /\ Preparation
      /\ plan \in {NoPlan, NoUpkeep} /\ landed = <<>>
  BY DEF UpkeepInv, AtWork, Settled, ReadSource, Preparing
<1>3. /\ work.changes \in Seq(Changes) /\ work.at \in DOMAIN work.changes
      /\ DOMAIN work.changes = 1..Len(work.changes) /\ Len(work.changes) \in Nat
      /\ work.at \in Nat
  BY <1>2, WorkParts DEF Preparation
<1>4. /\ c \in Changes /\ c.other \in Path /\ c.path \in DOMAIN work.guards /\ c.other # NoPath
      /\ Observed(work.guards, docs, journal)
  <2>1. c \in Changes
    BY <1>3
  <2> QED
    BY <1>2, <2>1, ChangeParts DEF Preparation
<1>5. CASE work' = NoWork
  BY <1>1, <1>5, Rests
<1>6. CASE work' # NoWork
  <2>1. Current(c.other) /\ work' = [work EXCEPT !.guards = more, !.at = work.at + 1,
                                                 !.phase = "target"]
    BY <1>6 DEF ReadSource
  <2>2. more = [q \in DOMAIN work.guards \cup {c.other} |->
                    IF q = c.other THEN docs[c.other] ELSE work.guards[q]]
    BY DEF Noted, Observe
  <2> HIDE DEF more
  <2>3. /\ more \in Guards /\ Observed(more, docs, journal)
        /\ DOMAIN more = DOMAIN work.guards \cup {c.other}
    BY <1>1, <1>4, <2>1, <2>2, NotedParts
  <2>4. DuplicatesKept'
    BY <1>1, <1>2 DEF DuplicatesKept
  <2>5. \A i \in DOMAIN work.changes : i < work.at => Guarded(work.changes[i], more)
    BY <1>2, <2>3, PreparedGuards DEF Preparation
  <2>6. /\ work' \in Works /\ work'.phase = "target" /\ work'.changes = work.changes
        /\ work'.guards = more /\ work'.at = work.at + 1
    <3>1. work.at + 1 \in Nat /\ "target" \in Preparing
      BY <1>3 DEF Preparing
    <3> QED
      BY <1>2, <2>1, <2>3, <3>1, NotingWork
  <2>7. Guarded(c, more)
    BY <1>4, <2>3 DEF Guarded
  <2>8. \A i \in DOMAIN work.changes : i < work.at + 1 => i < work.at \/ i = work.at
    BY <1>3
  <2>9. work.at + 1 \in 1..Len(work.changes) + 1
    BY <1>3
  <2>10. Preparation'
    BY <1>1, <1>2, <2>3, <2>5, <2>6, <2>7, <2>8, <2>9 DEF Preparation
  <2> QED
    BY <1>1, <1>2, <2>4, <2>6, <2>10 DEF UpkeepInv, AtWork, Preparing, Applying, Checked
<1> QED
  BY <1>5, <1>6

\* The content a possible change leaves is a content.
LEMMA ContentParts ==
    ASSUME StoreInv, NEW c \in Changes, NEW doc, Possible(c, doc)
    PROVE  Content(c) \in Contents
<1>1. CASE c.op = "restore"
  <2>1. Historical(c) # {}
    BY <1>1 DEF Possible
  <2>2. (CHOOSE row \in Historical(c) : TRUE) \in Historical(c)
    BY <2>1
  <2>3. Historical(c) \subseteq Rows
    <3>1. journal[c.path] \in Seq(Rows)
      BY DEF Changes, StoreInv
    <3>2. Range(journal[c.path]) \subseteq Rows
      BY <3>1, RowsParts DEF Range
    <3> QED
      BY <3>2 DEF Historical
  <2> QED
    BY <1>1, <2>2, <2>3, RowParts DEF Content
<1>2. CASE c.op # "restore"
  BY <1>2 DEF Content, Changes
<1> QED
  BY <1>1, <1>2

LEMMA ProposeKeeps ==
    ASSUME UpkeepInv, Propose
    PROVE  UpkeepInv'
<1> DEFINE made == [i \in DOMAIN work.changes |->
                        [work.changes[i] EXCEPT !.text = Content(work.changes[i])]]
<1>1. /\ work' = NoWork /\ landed' = landed /\ UNCHANGED commandVars
      /\ docs' = docs /\ journal' = journal /\ StoreInv
  BY DEF UpkeepInv, Propose, Settled, CommandInv, commandVars, vars, store
<1>2. /\ work \in Works /\ Preparation /\ work.at > Len(work.changes)
      /\ plan \in {NoPlan, NoUpkeep} /\ landed = <<>> /\ landed \in Seq(Landings)
  BY DEF UpkeepInv, AtWork, Settled, Propose, Preparing
<1>3. CASE plan' = plan
  BY <1>1, <1>3, SettledRests, Rests DEF UpkeepInv
<1>4. CASE plan' # plan
  <2>1. /\ plan' = [guards |-> work.guards, changes |-> made]
        /\ Valid(work.changes)
        /\ \A i \in DOMAIN work.changes :
              Possible(work.changes[i], work.guards[work.changes[i].path])
    BY <1>4 DEF Propose
  <2>2. /\ work.changes \in Seq(Changes) /\ work.changes # <<>>
        /\ DOMAIN work.changes = 1..Len(work.changes) /\ Len(work.changes) \in Nat
        /\ \A i \in DOMAIN work.changes : work.changes[i] \in Changes
    BY <1>2, WorkParts DEF Preparation
  <2>3. ASSUME NEW i \in DOMAIN work.changes
        PROVE  /\ made[i] \in Changes /\ made[i].path = work.changes[i].path
               /\ made[i].op = work.changes[i].op /\ made[i].other = work.changes[i].other
    <3> DEFINE e == work.changes[i]
               text == Content(e)
    <3>1. e \in Changes /\ text \in Contents
      BY <1>1, <2>1, <2>2, ContentParts
    <3>2. made[i] = [e EXCEPT !.text = text]
      OBVIOUS
    <3> HIDE DEF made, text, e
    <3>3. made[i] \in Changes /\ made[i].path = e.path /\ made[i].op = e.op /\ made[i].other = e.other
      BY <3>1, <3>2 DEF Changes
    <3> QED
      BY <3>3 DEF e
  <2>4. DOMAIN made = DOMAIN work.changes
    OBVIOUS
  <2>5. made = [i \in 1..Len(work.changes) |-> made[i]]
    BY <2>2
  <2> HIDE DEF made
  <2>6. made \in Seq(Changes) /\ Len(made) = Len(work.changes) /\ made # <<>>
    <3>1. made \in [1..Len(work.changes) -> Changes]
      BY <2>2, <2>3, <2>5
    <3>2. made \in Seq(Changes) /\ Len(made) = Len(work.changes)
      BY <2>2, <3>1
    <3> QED
      BY <2>2, <3>2
  <2>7. Valid(made)
    BY <2>1, <2>3, <2>4 DEF Valid
  <2>8. \A i \in DOMAIN made : Guarded(made[i], work.guards)
    <3>1. \A i \in DOMAIN work.changes : i < work.at
      BY <1>2, <2>2, WorkParts
    <3>2. \A i \in DOMAIN work.changes : Guarded(work.changes[i], work.guards)
      BY <1>2, <3>1 DEF Preparation
    <3> QED
      BY <2>3, <2>4, <3>2 DEF Guarded
  <2>9. plan'.guards = work.guards /\ plan'.changes = made
    BY <2>1
  <2>10. Proposal'
    BY <1>1, <1>2, <2>6, <2>7, <2>8, <2>9 DEF Proposal, Preparation
  <2>11. CommandInv'
    BY <1>1, NothingMoves, CallsStay DEF UpkeepInv, Settled, commandVars
  <2>12. Settled'
    BY <1>1, <1>2, <2>10, <2>11 DEF Settled, AppliesOnce
  <2> QED
    BY <1>1, <2>12, Rests
<1> QED
  BY <1>3, <1>4

-----------------------------------------------------------------------------
(* apply, up to the write.                                                 *)

LEMMA GoingParts ==
    ASSUME NEW phase \in Applying, NEW expected \in Guards, NEW at \in Nat, NEW tries \in Nat,
           work' = Going(phase, expected, at, tries)
    PROVE  /\ work' \in Works /\ work'.phase = phase /\ work'.guards = expected
           /\ work'.todo = DOMAIN expected /\ work'.at = at /\ work'.tries = tries
<1>1. DOMAIN expected \subseteq Path
  BY GuardsParts
<1> QED
  BY <1>1, NoWorkParts DEF Going, NoWork, Works

\* What an approved proposal has.
LEMMA ProposalParts ==
    ASSUME Settled, plan \notin {NoPlan, NoUpkeep}
    PROVE  /\ StoreInv /\ plan.guards \in Guards /\ DOMAIN plan.guards \subseteq Path
           /\ plan.changes \in Seq(Changes) /\ 1 \in DOMAIN plan.changes
           /\ DOMAIN plan.changes = 1..Len(plan.changes) /\ Len(plan.changes) \in Nat
           /\ \A i \in DOMAIN plan.changes :
                /\ plan.changes[i] \in Changes /\ Target(i) \in Path
                /\ Target(i) \in DOMAIN plan.guards
           /\ \A q \in DOMAIN plan.guards :
                /\ plan.guards[q] \in Documents /\ plan.guards[q].version \in Nat
                /\ plan.guards[q].version > 0
                /\ Known(plan.guards[q].version, plan.guards[q].content, docs[q], journal[q])
           /\ \A i, j \in DOMAIN plan.changes : Target(i) = Target(j) => i = j
<1>1. /\ StoreInv /\ Observed(plan.guards, docs, journal)
      /\ plan.changes \in Seq(Changes) /\ plan.changes # <<>> /\ Valid(plan.changes)
      /\ \A i \in DOMAIN plan.changes : Guarded(plan.changes[i], plan.guards)
  BY DEF Settled, Proposal, CommandInv
<1>2. /\ 1 \in DOMAIN plan.changes /\ DOMAIN plan.changes = 1..Len(plan.changes)
      /\ Len(plan.changes) \in Nat
      /\ \A i \in DOMAIN plan.changes : plan.changes[i] \in Changes
  BY <1>1
<1>3. \A i \in DOMAIN plan.changes : Target(i) \in Path /\ Target(i) \in DOMAIN plan.guards
  BY <1>1, <1>2, ChangeParts DEF Target, Guarded
<1>4. /\ plan.guards \in Guards /\ DOMAIN plan.guards \subseteq Path
      /\ \A q \in DOMAIN plan.guards :
            /\ plan.guards[q] \in Documents
            /\ Known(plan.guards[q].version, plan.guards[q].content, docs[q], journal[q])
  BY <1>1, GuardsParts DEF Observed
<1>5. \A q \in DOMAIN plan.guards : plan.guards[q].version \in Nat /\ plan.guards[q].version > 0
  BY <1>4 DEF Documents, Versions
<1>6. \A i, j \in DOMAIN plan.changes : Target(i) = Target(j) => i = j
  BY <1>1 DEF Valid, Target
<1> QED
  BY <1>1, <1>2, <1>3, <1>4, <1>5, <1>6

LEMMA LandedParts ==
    ASSUME Settled, plan \notin {NoPlan, NoUpkeep}, NEW j \in DOMAIN landed
    PROVE  /\ landed[j] \in Landings /\ landed[j].at \in DOMAIN plan.changes
           /\ landed[j].at \in Nat /\ landed[j].version \in Nat /\ landed[j].tries \in Nat
           /\ landed[j].tries > 0 /\ Outran(landed[j], docs, journal)
<1>1. landed \in Seq(Landings) /\ Outran(landed[j], docs, journal)
  BY DEF Settled
<1>2. landed[j] \in Landings
  BY <1>1
<1> QED
  BY <1>1, <1>2 DEF Landings, Outran

LEMMA ApplyKeeps ==
    ASSUME UpkeepInv, plan # NoUpkeep, NEW tries \in 1..MaxApplies, Apply(tries)
    PROVE  UpkeepInv'
<1>1. /\ Settled' /\ Settled /\ plan' = plan /\ landed' = landed /\ plan \notin {NoPlan, NoUpkeep}
      /\ work' = Going("preflight", plan.guards, 1, tries)
      /\ \A i \in DOMAIN landed : landed[i].tries < tries
  BY SettledRests DEF UpkeepInv, Apply
<1>2. tries \in Nat /\ tries > 0
  BY UpkeepAssumption
<1>3. /\ work' \in Works /\ work'.phase = "preflight" /\ work'.guards = plan.guards
      /\ work'.todo = DOMAIN plan.guards /\ work'.at = 1 /\ work'.tries = tries
  BY <1>1, <1>2, GoingParts, ProposalParts DEF Applying
<1>4. DuplicatesKept'
  <2>1. \A i \in DOMAIN landed : landed[i].tries # tries
    BY <1>1, <1>2, LandedParts
  <2> QED
    BY <1>1, <1>3, <2>1 DEF DuplicatesKept
<1>5. Application'
  <2>1. \A j \in DOMAIN landed : Target(landed[j].at) \in DOMAIN plan.guards
    BY <1>1, LandedParts, ProposalParts
  <2>2. 1 \in DOMAIN plan.changes
    BY <1>1, ProposalParts
  <2> QED
    BY <1>1, <1>2, <1>3, <2>1, <2>2 DEF Application, Target, Checked
<1> QED
  BY <1>1, <1>3, <1>4, <1>5 DEF UpkeepInv, AtWork, Preparing

\* A path that a landed change moved is not as it was observed.
LEMMA Outrun ==
    ASSUME Settled, plan \notin {NoPlan, NoUpkeep}, NEW j \in DOMAIN landed
    PROVE  docs[Target(landed[j].at)] # plan.guards[Target(landed[j].at)]
<1> DEFINE l == landed[j]
           p == Target(l.at)
<1>1. l.at \in DOMAIN plan.changes /\ l.version \in Nat /\ Outran(l, docs, journal)
  BY LandedParts
<1>2. /\ p \in Path /\ StoreInv /\ plan.guards[p] \in Documents
      /\ plan.guards[p].version \in Nat
  BY <1>1, ProposalParts
<1>3. /\ l.version > plan.guards[p].version
      /\ \E held \in Contents : Known(l.version, held, docs[p], journal[p])
  BY <1>1 DEF Outran
<1> HIDE DEF l, p
<1> SUFFICES ASSUME docs[p] = plan.guards[p] PROVE FALSE
  BY DEF l, p
<1>4. /\ docs[p] # NoDoc /\ docs[p].version \in Nat /\ l.version > docs[p].version
      /\ Agree(docs[p], journal[p]) /\ journal[p] \in Seq(Rows)
  BY <1>2, <1>3, NamesAssumption DEF StoreInv, Numbered
<1>5. \A i \in DOMAIN journal[p] : journal[p][i].version \in Nat
  BY <1>4, RowsParts
<1> QED
  BY <1>1, <1>3, <1>4, <1>5 DEF Known, Agree

\* In an application everything that the store holds stands still but the work.
LEMMA ApplicationParts ==
    ASSUME UpkeepInv, work.phase \in Applying
    PROVE  /\ Settled /\ plan \notin {NoPlan, NoUpkeep} /\ Application /\ work \in Works
           /\ DuplicatesKept /\ work.at \in Nat /\ work.tries \in Nat /\ work.guards \in Guards
           /\ work.at \in DOMAIN plan.changes /\ Target(work.at) \in DOMAIN plan.guards
           /\ DOMAIN work.guards = DOMAIN plan.guards
           /\ work.guards[Target(work.at)] = plan.guards[Target(work.at)]
<1>1. /\ Settled /\ plan \notin {NoPlan, NoUpkeep} /\ Application /\ work \in Works
      /\ DuplicatesKept
  BY DEF UpkeepInv, AtWork
<1>2. work.at \in Nat /\ work.tries \in Nat /\ work.guards \in Guards
  BY <1>1, WorkParts
<1>3. /\ work.at \in DOMAIN plan.changes /\ Target(work.at) \in DOMAIN plan.guards
      /\ DOMAIN work.guards = DOMAIN plan.guards
  BY <1>1, ProposalParts DEF Application
<1>4. \A i \in DOMAIN plan.changes : Target(i) = Target(work.at) => i >= work.at
  BY <1>1, <1>2, <1>3, ProposalParts
<1> QED
  BY <1>1, <1>2, <1>3, <1>4 DEF Application

LEMMA RecheckKeeps ==
    ASSUME UpkeepInv, Recheck
    PROVE  UpkeepInv'
<1>1. /\ Settled' /\ plan' = plan /\ landed' = landed /\ alone' = alone
      /\ docs' = docs /\ journal' = journal
  BY SettledRests DEF UpkeepInv, Recheck, commandVars, vars, store
<1>2. /\ Settled /\ plan \notin {NoPlan, NoUpkeep} /\ Application /\ work \in Works
      /\ work.phase \in {"preflight", "recheck"} /\ DuplicatesKept
  BY ApplicationParts DEF Recheck, Applying, Checked
<1>3. PICK p \in work.todo : work' = IF Same(work.guards[p], Observe(p))
                                     THEN [work EXCEPT !.todo = work.todo \ {p}] ELSE NoWork
  BY DEF Recheck
<1>4. CASE work' = NoWork
  BY <1>1, <1>4, Rests
<1>5. CASE work' # NoWork
  <2>1. work.guards[p] = docs[p] /\ work' = [work EXCEPT !.todo = work.todo \ {p}]
    BY <1>3, <1>5 DEF Same, Observe
  <2>2. /\ work' \in Works /\ work'.phase = work.phase /\ work'.guards = work.guards
        /\ work'.todo = work.todo \ {p} /\ work'.at = work.at /\ work'.tries = work.tries
    BY <1>2, <2>1 DEF Works
  <2>3. DuplicatesKept'
    BY <1>1, <1>2, <2>2 DEF DuplicatesKept
  <2>4. ASSUME work.phase = "preflight", NEW j \in DOMAIN landed
        PROVE  Target(landed[j].at) # p
    <3>1. p \in DOMAIN plan.guards /\ \A i \in DOMAIN plan.changes : i >= 1
      BY <1>2, ProposalParts DEF Application
    <3>2. work.guards[p] = plan.guards[p]
      BY <1>2, <2>4, <3>1 DEF Application
    <3> QED
      BY <1>2, <2>1, <3>2, Outrun
  <2>5. Application'
    BY <1>1, <1>2, <2>1, <2>2, <2>4 DEF Application, Target, Checked
  <2> QED
    BY <1>1, <1>2, <2>2, <2>3, <2>5 DEF UpkeepInv, AtWork, Preparing
<1> QED
  BY <1>4, <1>5

LEMMA PreflightKeeps ==
    ASSUME UpkeepInv, Preflight
    PROVE  UpkeepInv'
<1>1. /\ Settled' /\ plan' = plan /\ landed' = landed /\ alone' = alone
      /\ docs' = docs /\ journal' = journal
  BY SettledRests DEF UpkeepInv, Preflight, commandVars, vars, store
<1>2. /\ Settled /\ plan \notin {NoPlan, NoUpkeep} /\ Application /\ work \in Works
      /\ work.phase = "preflight" /\ work.todo = {} /\ DuplicatesKept
      /\ work.tries \in Nat /\ work.guards \in Guards
  BY ApplicationParts DEF Preflight, Applying
<1>3. CASE work' = NoWork
  BY <1>1, <1>3, Rests
<1>4. CASE work' # NoWork
  <2>1. work' = Going("recheck", work.guards, 1, work.tries)
    BY <1>4 DEF Preflight
  <2>2. /\ work' \in Works /\ work'.phase = "recheck" /\ work'.guards = work.guards
        /\ work'.todo = DOMAIN work.guards /\ work'.at = 1 /\ work'.tries = work.tries
    BY <1>2, <2>1, GoingParts DEF Applying, Checked
  <2>3. DuplicatesKept'
    BY <1>1, <1>2, <2>2 DEF DuplicatesKept
  <2>4. \A j \in DOMAIN landed : FALSE
    BY <1>2 DEF Application
  <2>5. Application'
    BY <1>1, <1>2, <2>2, <2>4 DEF Application, Target, Checked
  <2> QED
    BY <1>1, <1>2, <2>2, <2>3, <2>5 DEF UpkeepInv, AtWork, Preparing
<1> QED
  BY <1>3, <1>4

LEMMA LooksKeep ==
    ASSUME UpkeepInv, Look \/ LookAtKeeper
    PROVE  UpkeepInv'
<1>1. /\ Settled' /\ plan' = plan /\ landed' = landed /\ alone' = alone
      /\ docs' = docs /\ journal' = journal
  BY SettledRests DEF UpkeepInv, Look, LookAtKeeper, commandVars, vars, store
<1>2. /\ Settled /\ plan \notin {NoPlan, NoUpkeep} /\ Application /\ work \in Works
      /\ work.phase \in {"recheck", "keeper"} /\ work.todo = {} /\ DuplicatesKept
      /\ work.guards[Target(work.at)] = plan.guards[Target(work.at)]
  <2>1. work.phase \in {"recheck", "keeper"} /\ work.phase \in Applying
    BY DEF Look, LookAtKeeper, Applying, Checked
  <2> QED
    BY <2>1, ApplicationParts DEF Look, LookAtKeeper, Application
<1>3. CASE work' = NoWork
  BY <1>1, <1>3, Rests
<1>4. CASE work' # NoWork
  <2>1. /\ work' \in Works /\ work'.phase \in {"keeper", "write"} /\ work'.guards = work.guards
        /\ work'.todo = {} /\ work'.at = work.at /\ work'.tries = work.tries
        /\ work'.doc = plan.guards[Target(work.at)]
    <3>1. CASE Look
      <4>1. PICK phase \in {"keeper", "write"} :
                work' = [work EXCEPT !.phase = phase, !.doc = docs[Target(work.at)]]
        BY <1>4, <3>1 DEF Look, Changing, Target
      <4>2. docs[Target(work.at)] = work.guards[Target(work.at)]
        BY <1>4, <3>1 DEF Look, Changing, Target, Same, Observe
      <4>3. docs[Target(work.at)] \in Documents \cup {NoDoc}
        BY <1>2, <4>2, ProposalParts DEF Application
      <4> QED
        BY <1>2, <4>1, <4>2, <4>3 DEF Works, Applying, Checked
    <3>2. CASE LookAtKeeper
      <4>1. work' = [work EXCEPT !.phase = "write"] /\ work.phase = "keeper"
        BY <1>4, <3>2 DEF LookAtKeeper
      <4> QED
        BY <1>2, <4>1 DEF Works, Applying, Checked, Application
    <3> QED
      BY <3>1, <3>2
  <2>2. DuplicatesKept'
    BY <1>1, <1>2, <2>1 DEF DuplicatesKept
  <2>3. Application'
    BY <1>1, <1>2, <2>1 DEF Application, Target, Checked
  <2> QED
    BY <1>1, <1>2, <2>1, <2>2, <2>3 DEF UpkeepInv, AtWork, Preparing
<1> QED
  BY <1>3, <1>4

LEMMA VerifyKeeps ==
    ASSUME UpkeepInv, Verify
    PROVE  UpkeepInv'
<1> DEFINE p == Target(work.at)
           next == [work.guards EXCEPT ![p] = docs[p]]
<1>1. /\ Settled' /\ plan' = plan /\ landed' = landed /\ alone' = alone
      /\ docs' = docs /\ journal' = journal
  BY SettledRests DEF UpkeepInv, Verify, commandVars, vars, store
<1>2. /\ Settled /\ plan \notin {NoPlan, NoUpkeep} /\ Application /\ work \in Works
      /\ work.phase = "verify" /\ DuplicatesKept /\ work.at \in Nat /\ work.tries \in Nat
      /\ work.guards \in Guards /\ p \in DOMAIN plan.guards
      /\ DOMAIN work.guards = DOMAIN plan.guards
  BY ApplicationParts DEF Verify, Applying, Checked
<1>3. CASE work' = NoWork
  BY <1>1, <1>3, Rests
<1>4. CASE work' # NoWork
  <2>1. work' = Going("recheck", next, work.at + 1, work.tries) /\ work.at < Len(plan.changes)
    BY <1>4 DEF Verify, Changing, Target
  <2>2. /\ next \in Guards /\ DOMAIN next = DOMAIN plan.guards
        /\ \A q \in DOMAIN plan.guards : q # p => next[q] = work.guards[q]
    <3>1. docs[p] \in Documents \cup {NoDoc}
      BY <1>2, ProposalParts DEF StoreInv
    <3>2. /\ DOMAIN work.guards \in SUBSET Path
          /\ work.guards \in [DOMAIN work.guards -> Documents \cup {NoDoc}]
      BY <1>2, GuardsParts
    <3>3. next \in [DOMAIN work.guards -> Documents \cup {NoDoc}]
      BY <3>1, <3>2
    <3> QED
      BY <1>2, <3>2, <3>3 DEF Guards
  <2> HIDE DEF next
  <2>3. /\ work' \in Works /\ work'.phase = "recheck" /\ work'.guards = next
        /\ work'.todo = DOMAIN next /\ work'.at = work.at + 1 /\ work'.tries = work.tries
    BY <1>2, <2>1, <2>2, GoingParts DEF Applying, Checked
  <2>4. DuplicatesKept'
    BY <1>1, <1>2, <2>3 DEF DuplicatesKept
  <2>5. /\ work.at + 1 \in DOMAIN plan.changes /\ work.at \in DOMAIN plan.changes
        /\ \A i \in DOMAIN plan.changes : i \in Nat
    BY <1>2, <2>1, ProposalParts DEF Application
  <2>6. ASSUME NEW q \in DOMAIN plan.guards,
               \A i \in DOMAIN plan.changes : Target(i) = q => i >= work.at + 1
        PROVE  next[q] = plan.guards[q]
    <3>1. q # p
      BY <1>2, <2>5, <2>6
    <3>2. \A i \in DOMAIN plan.changes : Target(i) = q => i >= work.at
      BY <1>2, <2>5, <2>6
    <3> QED
      BY <1>2, <2>2, <3>1, <3>2 DEF Application
  <2>7. \A j \in DOMAIN landed : landed[j].at <= work.at + 1 /\ landed[j].at < work.at + 1
    <3>1. \A j \in DOMAIN landed : landed[j].at <= work.at
      BY <1>2 DEF Application, Checked
    <3> QED
      BY <1>2, <3>1, LandedParts
  <2>8. Application'
    BY <1>1, <1>2, <2>2, <2>3, <2>5, <2>6, <2>7 DEF Application, Target
  <2> QED
    BY <1>1, <1>2, <2>3, <2>4, <2>8 DEF UpkeepInv, AtWork, Preparing
<1> QED
  BY <1>3, <1>4

-----------------------------------------------------------------------------
(* The write.                                                              *)

\* A new version is past whatever was known, and names what it holds.
LEMMA PutsPast ==
    ASSUME NEW doc, NEW rows, NEW doc2, NEW rows2, Numbered(doc, rows),
           Puts(doc, rows, doc2, rows2)
    PROVE  /\ doc2.version \in Nat
           /\ \E held \in Contents : Known(doc2.version, held, doc2, rows2)
           /\ \A was \in Nat : \A held : Known(was, held, doc, rows) => doc2.version > was
<1>1. PICK v \in Versions, action \in {"created", "modified"}, content \in Contents, mark \in Marks :
        /\ Fresh(v, doc, rows)
        /\ doc2 = DocOf(v, content, mark)
        /\ rows2 = Append(rows, RowOf(v, action, content, mark))
  BY DEF Puts
<1>2. /\ doc2 \in Documents /\ doc2.version = v /\ doc2.content = content /\ doc2 # NoDoc
      /\ v \in Nat
  BY <1>1, MadeParts DEF RowActions, Versions
<1>3. Agree(doc2, rows2) /\ rows2 \in Seq(Rows)
  BY <1>2, PutsKeeps DEF Numbered
<1>4. Known(doc2.version, content, doc2, rows2)
  BY <1>2, <1>3 DEF Known, Agree
<1>5. ASSUME NEW was \in Nat, NEW held, Known(was, held, doc, rows) PROVE v > was
  <2>1. rows \in Seq(Rows) /\ \A i \in DOMAIN rows : rows[i].version \in Nat
    BY RowsParts DEF Numbered
  <2>2. doc # NoDoc => doc.version \in Nat
    BY ThereParts
  <2> QED
    BY <1>1, <1>2, <1>5, <2>1, <2>2 DEF Known, Fresh
<1> QED
  BY <1>2, <1>4, <1>5

LEMMA TakesPast ==
    ASSUME NEW doc, NEW rows, NEW doc2, NEW rows2, Numbered(doc, rows),
           Takes(doc, rows, doc2, rows2)
    PROVE  /\ Last(rows2).version \in Nat
           /\ \E held \in Contents : Known(Last(rows2).version, held, doc2, rows2)
           /\ \A was \in Nat : \A held : Known(was, held, doc, rows) => Last(rows2).version > was
<1>1. PICK v \in Versions, content \in Contents, mark \in Marks :
        /\ Fresh(v, doc, rows)
        /\ doc2 = NoDoc
        /\ rows2 = Append(rows, RowOf(v, "deleted", content, mark))
  BY DEF Takes
<1> DEFINE r == RowOf(v, "deleted", content, mark)
<1>2. r \in Rows /\ r.version = v /\ r.content = content /\ v \in Nat
  BY <1>1, MadeParts DEF RowActions, Versions
<1>3. rows \in Seq(Rows) /\ \A i \in DOMAIN rows : rows[i].version \in Nat
  BY RowsParts DEF Numbered
<1>4. rows2 = Append(rows, r)
  BY <1>1
<1> HIDE DEF r
<1>5. /\ DOMAIN rows2 = 1..(Len(rows) + 1) /\ Len(rows) \in Nat /\ Len(rows2) = Len(rows) + 1
      /\ rows2[Len(rows) + 1] = r
      /\ \A i \in 1..Len(rows) : rows2[i] = rows[i] /\ i \in DOMAIN rows
  BY <1>2, <1>3, <1>4
<1>6. Last(rows2) = r
  BY <1>5 DEF Last
<1>7. Known(v, content, doc2, rows2)
  <2>1. \A i \in DOMAIN rows2 : rows2[i].version = v => rows2[i].content = content
    <3> SUFFICES ASSUME NEW i \in DOMAIN rows2, rows2[i].version = v
                 PROVE  rows2[i].content = content
      OBVIOUS
    <3>1. CASE i = Len(rows) + 1
      BY <1>2, <1>5, <3>1
    <3>2. CASE i \in 1..Len(rows)
      BY <1>1, <1>2, <1>3, <1>5, <3>2 DEF Fresh
    <3> QED
      BY <1>5, <3>1, <3>2
  <2>2. Len(rows) + 1 \in DOMAIN rows2 /\ v <= rows2[Len(rows) + 1].version
    BY <1>2, <1>5
  <2> QED
    BY <1>1, <2>1, <2>2 DEF Known
<1>8. ASSUME NEW was \in Nat, NEW held, Known(was, held, doc, rows) PROVE v > was
  <2>1. doc # NoDoc => doc.version \in Nat
    BY ThereParts
  <2> QED
    BY <1>1, <1>2, <1>3, <1>8, <2>1 DEF Known, Fresh
<1> QED
  BY <1>2, <1>6, <1>7, <1>8

\* A change lands where nothing of the proposal landed before, past what was
\* observed of its target, and away from every keeper.
LEMMA LandsKeeps ==
    ASSUME UpkeepInv, work.phase = "write", OnlyMoves(Target(work.at)), StoreMoves,
           call' = call, plan' = plan, alone' = alone,
           NEW v \in Nat, Lands(v), v > plan.guards[Target(work.at)].version,
           \E held \in Contents :
              Known(v, held, docs'[Target(work.at)], journal'[Target(work.at)])
    PROVE  UpkeepInv'
<1> DEFINE p == Target(work.at)
           l == [at |-> work.at, version |-> v, tries |-> work.tries]
           n == Len(landed)
<1>1. /\ Settled /\ plan \notin {NoPlan, NoUpkeep} /\ Application /\ work \in Works
      /\ DuplicatesKept /\ work.at \in Nat /\ work.tries \in Nat
      /\ work.at \in DOMAIN plan.changes
  BY ApplicationParts DEF Applying, Checked
<1>2. /\ StoreInv /\ plan.changes \in Seq(Changes) /\ p \in Path
      /\ landed \in Seq(Landings) /\ CommandInv
  BY <1>1, ProposalParts DEF Settled
<1>3. l \in Landings /\ l.at = work.at /\ l.version = v /\ l.tries = work.tries /\ l.tries > 0
  BY <1>1 DEF Landings, Application
<1>4. landed' = Append(landed, l) /\ work' = [work EXCEPT !.phase = "verify"]
  BY DEF Lands
<1> HIDE DEF l
<1>5. /\ landed' \in Seq(Landings) /\ n \in Nat /\ DOMAIN landed = 1..n
      /\ DOMAIN landed' = 1..(n + 1) /\ landed'[n + 1] = l
      /\ \A i \in 1..n : landed'[i] = landed[i]
  BY <1>2, <1>3, <1>4
<1>6. \A i \in 1..n : landed[i].at \in Nat /\ landed[i].at < work.at
  BY <1>1, <1>5, LandedParts DEF Application, Checked
<1>7. AppliesOnce'
  <2> SUFFICES ASSUME NEW i \in 1..(n + 1), NEW j \in 1..(n + 1), i < j
               PROVE  landed'[i].at # landed'[j].at
    BY <1>5 DEF AppliesOnce
  <2>1. i \in 1..n /\ (j \in 1..n \/ j = n + 1)
    BY <1>5
  <2>2. CASE j \in 1..n
    BY <1>1, <1>5, <2>1, <2>2 DEF Settled, AppliesOnce
  <2>3. CASE j = n + 1
    BY <1>1, <1>3, <1>5, <1>6, <2>1, <2>3
  <2> QED
    BY <2>1, <2>2, <2>3
<1>8. CommandInv'
  BY <1>2, CallsStay
<1>9. Proposal'
  <2>1. Proposal
    BY <1>1 DEF Settled
  <2>2. Observed(plan.guards, docs', journal')
    BY <1>2, <2>1, ObservedStays DEF Proposal
  <2> QED
    BY <2>1, <2>2 DEF Proposal
<1>10. ASSUME NEW i \in DOMAIN landed' PROVE Outran(landed[i], docs, journal)'
  <2>1. CASE i \in 1..n
    <3>1. landed[i] \in Landings /\ Outran(landed[i], docs, journal)
      BY <1>1, <1>5, <2>1, LandedParts
    <3>2. Outran(landed[i], docs', journal')
      BY <1>2, <3>1, OutranStays
    <3>3. landed'[i] = landed[i]
      BY <1>5, <2>1
    <3> QED
      BY <3>2, <3>3 DEF Outran, Target
  <2>2. CASE i = n + 1
    BY <1>1, <1>3, <1>5, <2>2 DEF Outran, Target
  <2> QED
    BY <1>5, <1>10, <2>1, <2>2
<1>11. Settled'
  BY <1>1, <1>5, <1>7, <1>8, <1>9, <1>10 DEF Settled
<1>12. /\ work' \in Works /\ work'.phase = "verify" /\ work'.guards = work.guards
       /\ work'.todo = work.todo /\ work'.at = work.at /\ work'.tries = work.tries
  BY <1>1, <1>4 DEF Works, Applying, Checked
<1>13. Application'
  <2>1. \A i \in DOMAIN landed' : landed'[i].at <= work.at
    <3> SUFFICES ASSUME NEW i \in 1..(n + 1) PROVE landed'[i].at <= work.at
      BY <1>5
    <3>1. CASE i \in 1..n
      BY <1>1, <1>5, <1>6, <3>1
    <3>2. CASE i = n + 1
      BY <1>1, <1>3, <1>5, <3>2
    <3> QED
      BY <1>5, <3>1, <3>2
  <2> QED
    BY <1>1, <1>12, <2>1 DEF Application, Target
<1>14. DuplicatesKept'
  <2> SUFFICES ASSUME alone, NEW i \in 1..(n + 1), NEW c, c = plan.changes[landed'[i].at],
                      c.op = "delete", c.other # NoPath, work.tries = landed'[i].tries
               PROVE  docs'[c.other] = plan.guards[c.other]
    BY <1>5, <1>12 DEF DuplicatesKept
  <2>1. landed'[i].at \in DOMAIN plan.changes
    <3>1. CASE i \in 1..n
      BY <1>1, <1>5, <3>1, LandedParts
    <3>2. CASE i = n + 1
      BY <1>1, <1>3, <1>5, <3>2
    <3> QED
      BY <1>5, <3>1, <3>2
  <2>2. Valid(plan.changes) /\ Guarded(c, plan.guards)
    BY <1>1, <2>1 DEF Settled, Proposal
  <2>3. /\ c.other \in DOMAIN plan.guards /\ c.other \in Path
        /\ \A j \in DOMAIN plan.changes : Target(j) # c.other
    BY <1>1, <2>1, <2>2, ProposalParts DEF Guarded, Valid, Target
  <2>4. docs'[c.other] = docs[c.other]
    BY <1>1, <2>3 DEF OnlyMoves
  <2>5. CASE i \in 1..n
    <3>1. landed[i] = landed'[i] /\ i \in DOMAIN landed
      BY <1>5, <2>5
    <3>2. docs[c.other] = plan.guards[c.other]
      BY <1>1, <3>1 DEF DuplicatesKept
    <3> QED
      BY <2>4, <3>2
  <2>6. CASE i = n + 1
    <3>1. work.todo = {} /\ work.guards[c.other] = plan.guards[c.other]
      BY <1>1, <2>3 DEF Application
    <3>2. docs[c.other] = work.guards[c.other]
      BY <1>1, <2>3, <3>1 DEF Application
    <3> QED
      BY <2>4, <3>1, <3>2
  <2> QED
    BY <1>5, <2>5, <2>6
<1> QED
  BY <1>1, <1>11, <1>12, <1>13, <1>14 DEF UpkeepInv, AtWork, Preparing

LEMMA WriteOneKeeps ==
    ASSUME UpkeepInv, WriteOne
    PROVE  UpkeepInv'
<1> DEFINE c == plan.changes[work.at]
           p == Target(work.at)
<1>1. work.phase = "write" /\ call' = call /\ plan' = plan /\ alone' = alone
  BY DEF WriteOne
<1>2. /\ Settled /\ plan \notin {NoPlan, NoUpkeep} /\ Application
      /\ work.at \in DOMAIN plan.changes /\ p \in DOMAIN plan.guards
  BY <1>1, ApplicationParts DEF Applying, Checked
<1>3. /\ StoreInv /\ CommandInv /\ p \in Path /\ c.path = p /\ c.text \in Contents
      /\ plan.guards[p].version \in Nat
      /\ Known(plan.guards[p].version, plan.guards[p].content, docs[p], journal[p])
      /\ Numbered(docs[p], journal[p])
  <2>1. plan.changes[work.at] \in Changes /\ p \in Path
    BY <1>2, ProposalParts
  <2>2. StoreInv /\ Numbered(docs[p], journal[p])
    BY <1>2, <2>1, ProposalParts DEF StoreInv
  <2> QED
    BY <1>2, <2>1, <2>2, ProposalParts, ChangeParts DEF Target, Settled
<1>4. CASE Write(p, c.text, work.doc.version) /\ Lands(docs'[p].version)
  <2>1. OnlyMoves(p) /\ Puts(docs[p], journal[p], docs'[p], journal'[p]) /\ StoreMoves
    BY <1>3, <1>4, WritePuts, WriteMoves
  <2>2. PICK v : v = docs'[p].version
    OBVIOUS
  <2>3. /\ v \in Nat /\ v > plan.guards[p].version
        /\ \E held \in Contents : Known(v, held, docs'[p], journal'[p])
    BY <1>3, <2>1, <2>2, PutsPast
  <2> QED
    BY <1>1, <1>4, <2>1, <2>2, <2>3, LandsKeeps
<1>5. CASE Delete(p) /\ Lands(Last(journal'[p]).version)
  <2>1. OnlyMoves(p) /\ Takes(docs[p], journal[p], docs'[p], journal'[p]) /\ StoreMoves
    BY <1>3, <1>5, DeleteTakes, DeleteMoves
  <2>2. PICK v : v = Last(journal'[p]).version
    OBVIOUS
  <2>3. /\ v \in Nat /\ v > plan.guards[p].version
        /\ \E held \in Contents : Known(v, held, docs'[p], journal'[p])
    BY <1>3, <2>1, <2>2, TakesPast
  <2> QED
    BY <1>1, <1>5, <2>1, <2>2, <2>3, LandsKeeps
<1>6. CASE work' = NoWork /\ UNCHANGED <<vars, fresh, landed>>
  <2>1. UNCHANGED commandVars
    BY <1>1, <1>6 DEF commandVars
  <2> QED
    BY <1>1, <1>2, <1>6, <2>1, SettledRests, Rests
<1> QED
  BY <1>3, <1>4, <1>5, <1>6 DEF WriteOne, Changing

-----------------------------------------------------------------------------
(* Upkeep as a whole.                                                      *)

LEMMA UpkeepStarts == UpkeepInit => UpkeepInv
<1> SUFFICES ASSUME UpkeepInit PROVE UpkeepInv
  OBVIOUS
<1>1. /\ work = NoWork /\ plan \in {NoPlan, NoUpkeep} /\ landed = <<>> /\ CommandInv
  BY CommandsStart DEF UpkeepInit
<1>2. Settled /\ DuplicatesKept
  BY <1>1 DEF Settled, AppliesOnce, DuplicatesKept
<1> QED
  BY <1>1, <1>2, NoWorkParts DEF UpkeepInv, AtWork, Preparing, Applying, Checked

LEMMA OthersStep ==
    ASSUME UpkeepInv, Others
    PROVE  UpkeepInv'
<1>1. /\ StoreInv /\ Settled /\ CommandInv /\ call' = call /\ plan' = plan
      /\ work' = work /\ landed' = landed /\ alone' = FALSE
  BY DEF UpkeepInv, Settled, CommandInv, Others
<1>2. StoreMoves
  <2>1. CASE \E p \in Path, text \in Text : Write(p, text, 0)
    BY <1>1, <2>1, WriteMoves DEF Contents
  <2>2. CASE \E p \in Path : Delete(p)
    BY <1>1, <2>2, DeleteMoves
  <2>3. CASE \E src, dst \in Path : Rename(src, dst)
    BY <1>1, <2>3, RenameMoves
  <2>4. CASE \E p \in Path : Redact(p)
    BY <1>1, <2>4, RedactMoves
  <2> QED
    BY <2>1, <2>2, <2>3, <2>4 DEF Others
<1> QED
  BY <1>1, <1>2, CallsStay, SettledStays, OthersKeep

LEMMA UpkeepSteps == UpkeepInv /\ [UpkeepNext]_upkeepVars => UpkeepInv'
<1> SUFFICES ASSUME UpkeepInv, [UpkeepNext]_upkeepVars PROVE UpkeepInv'
  OBVIOUS
<1>1. CASE plan = NoUpkeep /\ CommandNext /\ UNCHANGED upkeep
  <2>1. /\ Settled /\ CommandInv /\ CommandInv' /\ plan' = plan /\ landed' = landed
    BY <1>1, CommandSteps DEF UpkeepInv, Settled, upkeep
  <2>2. StoreMoves
    BY <1>1, <2>1, CommandsMove
  <2> QED
    BY <1>1, <2>1, <2>2, SettledStays, CommandsKeepUpkeep
<1>2. CASE Begin
  BY <1>2, BeginKeeps
<1>3. CASE ReadTarget
  BY <1>3, ReadTargetKeeps
<1>4. CASE ReadSource
  BY <1>4, ReadSourceKeeps
<1>5. CASE Propose
  BY <1>5, ProposeKeeps
<1>6. ASSUME plan # NoUpkeep, NEW tries \in 1..MaxApplies, Apply(tries) PROVE UpkeepInv'
  BY <1>6, ApplyKeeps
<1>7. CASE Recheck
  BY <1>7, RecheckKeeps
<1>8. CASE Preflight
  BY <1>8, PreflightKeeps
<1>9. CASE Look \/ LookAtKeeper
  BY <1>9, LooksKeep
<1>10. CASE WriteOne
  BY <1>10, WriteOneKeeps
<1>11. CASE Verify
  BY <1>11, VerifyKeeps
<1>12. CASE Abandon
  BY <1>12, SettledRests, Rests DEF UpkeepInv, Abandon
<1>13. CASE Others
  BY <1>13, OthersStep
<1>14. CASE UNCHANGED upkeepVars
  <2>1. UNCHANGED commandVars /\ UNCHANGED upkeep
    BY <1>14 DEF upkeepVars
  <2> QED
    BY <2>1 DEF commandVars, vars, store, upkeep, UpkeepInv, Settled, AtWork, CommandInv, StoreInv,
       Holds, AppliesOnce, DuplicatesKept, Proposal, Outran, Target, Preparation, Application
<1> QED
  BY <1>1, <1>2, <1>3, <1>4, <1>5, <1>6, <1>7, <1>8, <1>9, <1>10, <1>11, <1>12, <1>13, <1>14
     DEF UpkeepNext

LEMMA UpkeepInductive == UpkeepSpec => []UpkeepInv
BY UpkeepStarts, UpkeepSteps, PTL DEF UpkeepSpec

\* A replacement lands on what was observed, or on what was erased of it.
LEMMA WriteOneReplaces ==
    ASSUME UpkeepInv, WriteOne, landed' # landed, NEW c, c = plan.changes[Last(landed').at],
           c.op # "delete"
    PROVE  /\ Live(c.path) /\ docs[c.path].version = plan.guards[c.path].version
           /\ docs[c.path].content \in {plan.guards[c.path].content, Cleared}
<1> DEFINE w == plan.changes[work.at]
           p == Target(work.at)
<1>1. work.phase = "write"
  BY DEF WriteOne
<1>2. /\ Settled /\ plan \notin {NoPlan, NoUpkeep} /\ Application
      /\ work.at \in DOMAIN plan.changes /\ p \in DOMAIN plan.guards
  BY <1>1, ApplicationParts DEF Applying, Checked
<1>3. work.doc = plan.guards[p] /\ w.path = p
  BY <1>1, <1>2 DEF Application, Target
<1>4. \E version : landed' = Append(landed, [at |-> work.at, version |-> version,
                                             tries |-> work.tries])
  BY DEF WriteOne, Lands
<1>5. Last(landed').at = work.at
  <2>1. PICK version : landed' = Append(landed, [at |-> work.at, version |-> version,
                                                 tries |-> work.tries])
    BY <1>4
  <2>2. PICK l : l = [at |-> work.at, version |-> version, tries |-> work.tries]
    OBVIOUS
  <2>3. landed' = Append(landed, l) /\ l.at = work.at
    BY <2>1, <2>2
  <2>4. landed \in Seq(Landings)
    BY <1>2 DEF Settled
  <2>5. landed \in Seq(Landings \cup {l}) /\ l \in Landings \cup {l}
    BY <2>4
  <2>6. Len(landed') = Len(landed) + 1 /\ landed'[Len(landed) + 1] = l
    BY <2>3, <2>5
  <2> QED
    BY <2>3, <2>6 DEF Last
<1>6. c = w
  BY <1>5
<1>7. Accepts(p, work.doc.version)
  BY <1>3, <1>6 DEF WriteOne, Changing
<1>8. /\ plan.guards[p].version > 0 /\ plan.guards[p].version \in Nat
      /\ Known(plan.guards[p].version, plan.guards[p].content, docs[p], journal[p])
  BY <1>2, ProposalParts
<1> QED
  BY <1>3, <1>6, <1>7, <1>8 DEF Accepts, Known, Live

\* An approved proposal does what was approved, once, and to nothing else,
\* whoever else writes and however often it is applied (apply.rs:178).
THEOREM UpkeepIsSafe == UpkeepSpec => UpkeepSafe
<1> DEFINE Replaced ==
        landed' # landed =>
            LET c == plan.changes[Last(landed').at]
                seen == plan.guards[c.path]
            IN  c.op # "delete" =>
                    /\ Live(c.path) /\ docs[c.path].version = seen.version
                    /\ docs[c.path].content \in {seen.content, Cleared}
<1>1. UpkeepInv => AppliesOnce /\ DuplicatesKept
  BY DEF UpkeepInv, Settled, AtWork
<1>2. UpkeepInv /\ [UpkeepNext]_upkeepVars => [Replaced]_upkeepVars
  <2> SUFFICES ASSUME UpkeepInv, UpkeepNext, landed' # landed PROVE Replaced
    OBVIOUS
  <2>1. WriteOne
    BY DEF UpkeepNext, upkeep, Begin, ReadTarget, ReadSource, Propose, Apply, Recheck, Preflight,
       Look, LookAtKeeper, Verify, Abandon, Others
  <2> QED
    BY <2>1, WriteOneReplaces
<1> QED
  BY <1>1, <1>2, UpkeepInductive, PTL DEF UpkeepSpec, UpkeepSafe, ReplacesObserved

\* What agents read and edit stays fenced beside upkeep as well.
THEOREM EditsAreFencedInUpkeep == UpkeepSpec => []ReadsName /\ EditsKeepOthersWork
<1> DEFINE Safe == \A a \in Agent, p \in Path :
                       Replaces(a, p) /\ call[a].step = "edit" =>
                           docs[p].content \in {call[a].held, Cleared}
<1>1. UpkeepInv => CommandInv /\ ReadsName
  BY CommandsKnow DEF UpkeepInv, Settled
<1>2. UpkeepInv /\ [UpkeepNext]_upkeepVars => [Safe]_commandVars
  <2> SUFFICES ASSUME UpkeepInv, [UpkeepNext]_upkeepVars, NEW a \in Agent, NEW p \in Path,
                      Replaces(a, p), call[a].step = "edit"
               PROVE  docs[p].content \in {call[a].held, Cleared}
    OBVIOUS
  <2>1. call' # call
    BY IdleParts DEF Replaces, Writing
  <2>2. CommandNext
    BY <2>1 DEF UpkeepNext, upkeepVars, commandVars, Begin, ReadTarget, ReadSource, Propose, Apply,
       Recheck, Preflight, Look, LookAtKeeper, WriteOne, Verify, Abandon, Others
  <2> QED
    BY <1>1, <2>2, EditReplaces
<1> QED
  BY <1>1, <1>2, UpkeepInductive, PTL DEF UpkeepSpec, EditsKeepOthersWork
=============================================================================
