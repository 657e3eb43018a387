---------------------------- MODULE RedoLogProofs ----------------------------
(***************************************************************************)
(* Proofs about RedoLog for every set of processes, files, texts and       *)
(* mutations.  For any number of killed processes and failed operations:   *)
(* the types, the recovery invariant, what is swept, and that the redo log *)
(* implements AtomicStore.  For any number of power losses and nothing     *)
(* else: plans survive and answers are synced.                             *)
(***************************************************************************)
EXTENDS RedoLog, SequenceTheorems, TLAPS

\* The first n texts of a sequence, one by one.
LEMMA KeepPart ==
    ASSUME NEW S, NEW s \in Seq(S), NEW n \in 0..Len(s)
    PROVE  /\ Keep(s, n) \in Seq(S)
           /\ Len(Keep(s, n)) = n
           /\ \A i \in 1..n : Keep(s, n)[i] = s[i]
BY DEF Keep

\* A prefix followed by anything still starts with the prefix.
LEMMA KeepAppended ==
    ASSUME NEW S, NEW s \in Seq(S), NEW t \in Seq(S)
    PROVE  /\ s \o t \in Seq(S)
           /\ Len(s \o t) >= Len(s)
           /\ Keep(s \o t, Len(s)) = s
<1>1. /\ s \o t \in Seq(S)
      /\ Len(s \o t) = Len(s) + Len(t)
      /\ \A i \in 1..Len(s) : (s \o t)[i] = s[i]
  OBVIOUS
<1>2. Len(s) \in 0..Len(s \o t)
  BY <1>1
<1>3. /\ Keep(s \o t, Len(s)) \in Seq(S)
      /\ Len(Keep(s \o t, Len(s))) = Len(s)
      /\ \A i \in 1..Len(s) : Keep(s \o t, Len(s))[i] = s[i]
  BY <1>1, <1>2, KeepPart
<1>4. Keep(s \o t, Len(s)) = s
  BY <1>3, SeqEqual
<1> QED
  BY <1>1, <1>4
-----------------------------------------------------------------------------
(* Planned writes.                                                         *)

LEMMA ResultTyped ==
    ASSUME NEW w \in Writes
    PROVE  Result(w) \in Seq(Row)
BY DEF Writes, Result, Written, Missing

\* An append's prefix survives whatever is written after it.
LEMMA IntactPrefix ==
    ASSUME NEW w \in Writes, NEW t \in Seq(Texts)
    PROVE  /\ w.prefix \o t \in Seq(Texts)
           /\ PrefixIntact(w, w.prefix \o t)
<1>1. w.prefix \in Seq(Texts)
  BY SeqMonotonic, Row \subseteq Texts DEF Writes, Texts
<1> QED
  BY <1>1, KeepAppended DEF PrefixIntact

LEMMA IntactResult ==
    ASSUME NEW w \in Writes
    PROVE  PrefixIntact(w, Result(w))
<1> SUFFICES ASSUME w.op = "append"
             PROVE  PrefixIntact(w, Result(w))
  BY DEF PrefixIntact
<1>1. w.prefix \in Seq(Row) /\ <<w.text>> \in Seq(Row)
  BY DEF Writes
<1>2. Result(w) = w.prefix \o <<w.text>>
  BY <1>1, AppendProperties DEF Result, Written
<1> DEFINE whole == w.prefix \o <<w.text>>
<1>3. Len(whole) >= Len(w.prefix) /\ Keep(whole, Len(w.prefix)) = w.prefix
  <2> DEFINE t == <<w.text>>
  <2>1. t \in Seq(Row)
    BY <1>1
  <2> HIDE DEF t
  <2>2. Len(w.prefix \o t) >= Len(w.prefix) /\ Keep(w.prefix \o t, Len(w.prefix)) = w.prefix
    BY <1>1, <2>1, KeepAppended
  <2> QED
    BY <2>2 DEF t
<1> QED
  BY <1>2, <1>3 DEF PrefixIntact

\* Writing one file of a plan keeps the plan replayable, as long as that
\* file keeps its prefix.
LEMMA ValidAfterWrite ==
    ASSUME NEW pl \in Seq(Writes), NEW fs \in [File -> Seq(Texts)],
           NEW i \in DOMAIN pl, NEW c,
           Valid(pl, fs), PrefixIntact(pl[i], c)
    PROVE  Valid(pl, [fs EXCEPT ![pl[i].path] = c])
<1>1. ASSUME NEW j \in DOMAIN pl
      PROVE  pl[j].path \in File
  <2>1. pl[j] \in Writes
    BY LenProperties
  <2> QED
    BY <2>1 DEF Writes
<1>2. \A j \in DOMAIN pl :
        [fs EXCEPT ![pl[i].path] = c][pl[j].path] = IF j = i THEN c ELSE fs[pl[j].path]
  BY <1>1 DEF Valid, Distinct
<1> QED
  BY <1>2 DEF Valid

LEMMA PlanTyped ==
    ASSUME NEW r \in Requests \cup {Read}, NEW fs \in [File -> Seq(Texts)],
           \A f \in File : fs[f] \in Seq(Row)
    PROVE  /\ PlanFor(r, fs) \in Seq(Writes)
           /\ DOMAIN PlanFor(r, fs) = DOMAIN r
           /\ \A i \in DOMAIN r : PlanFor(r, fs)[i] = Write(r[i], fs[r[i].path])
<1> DEFINE Asked == [path : File, op : {"put", "append", "remove"}, text : Row]
<1>1. r \in Seq(Asked)
  <2>1. CASE r \in Requests
    BY <2>1, RequestsAssumption DEF IsRequest
  <2>2. CASE r = Read
    <3>1. <<>> \in Seq(Asked)
      BY EmptySeq
    <3> QED
      BY <2>2, <3>1 DEF Read
  <2> QED
    BY <2>1, <2>2
<1>2. ASSUME NEW i \in DOMAIN r
      PROVE  Write(r[i], fs[r[i].path]) \in Writes
  <2>1. r[i] \in Asked
    <3> HIDE DEF Asked
    <3> QED
      BY <1>1, LenProperties
  <2>2. fs[r[i].path] \in Seq(Row)
    BY <2>1
  <2>3. Missing \in Seq(Row)
    BY EmptySeq DEF Missing
  <2> QED
    BY <2>1, <2>2, <2>3 DEF Write, Writes
<1> HIDE DEF Asked
<1>3. DOMAIN r = 1..Len(r) /\ Len(r) \in Nat
  BY <1>1
<1> QED
  BY <1>2, <1>3 DEF PlanFor
-----------------------------------------------------------------------------
(* The inductive invariant: the types and RecoveryInv.                     *)

IInv == TypeOK /\ RecoveryInv

LEMMA InitIInv == Init => IInv
<1> SUFFICES ASSUME Init PROVE IInv
  OBVIOUS
<1>1. Blank \in [File -> Seq(Row)] /\ Blank \in [File -> Seq(Texts)]
  BY EmptySeq DEF Blank, Missing
<1>2. <<>> \in Seq(Writes) /\ DOMAIN <<>> = {}
  BY EmptySeq
<1>3. TypeOK
  BY <1>1, <1>2, BoundsAssumption DEF Init, TypeOK, Places, Read
<1>4. RecoveryInv
  BY <1>1, <1>2 DEF Init, RecoveryInv, OneHolder, NothingPending, DraftMeasured,
     NeverRefused, Valid, Distinct, OutsideWhole, Progress, Holding, Mutating, Replaying
<1> QED
  BY <1>3, <1>4 DEF IInv

\* The write being applied is one of the plan's, on a file that still has
\* the prefix it was measured on.
LEMMA CurrentWrite ==
    ASSUME TypeOK, NeverRefused, NEW p \in Proc, Applying(p)
    PROVE  /\ at \in DOMAIN pending
           /\ pending[at] \in Writes
           /\ pending[at].path \in File
           /\ pending[at].op \in {"put", "append", "remove"}
           /\ pending[at].text \in Row
           /\ pending[at].prefix \in Seq(Row)
           /\ PrefixIntact(pending[at], files[pending[at].path])
<1>1. pending \in Seq(Writes) /\ at \in Nat \ {0} /\ at <= Len(pending)
  BY DEF TypeOK, Applying
<1>2. at \in DOMAIN pending /\ pending[at] \in Writes
  BY <1>1, LenProperties
<1>3. PrefixIntact(pending[at], files[pending[at].path])
  BY <1>2 DEF NeverRefused, Valid
<1> QED
  BY <1>2, <1>3 DEF Writes

\* What each half of apply leaves in the file it works on.
LEMMA ApplyStartEffect ==
    ASSUME TypeOK, NeverRefused, NEW p \in Proc, ApplyStart(p)
    PROVE  \E c \in Seq(Texts) :
               /\ PrefixIntact(pending[at], c)
               /\ files' = [files EXCEPT ![pending[at].path] = c]
               /\ \/ at' = at /\ phase' = "temp" /\ pending[at].op = "put"
                  \/ at' = at /\ phase' = "write" /\ pending[at].op = "append"
                  \/ at' = at /\ phase' = "sync" /\ c = Result(pending[at])
                  \/ at' = at + 1 /\ phase' = "start" /\ c = Result(pending[at])
<1> DEFINE w == pending[at]
           f == w.path
<1>1. /\ w \in Writes /\ f \in File /\ PrefixIntact(w, files[f])
      /\ w.op \in {"put", "append", "remove"} /\ w.prefix \in Seq(Row)
  BY CurrentWrite DEF ApplyStart
<1>2. files[f] \in Seq(Texts) /\ files \in [File -> Seq(Texts)]
  BY <1>1 DEF TypeOK
<1>3. CASE w.op = "put"
  <2>1. files' = [files EXCEPT ![f] = files[f]] /\ at' = at /\ phase' = "temp"
    BY <1>2, <1>3 DEF ApplyStart
  <2> QED
    BY <1>1, <1>2, <1>3, <2>1
<1>4. CASE w.op = "append"
  <2>1. PICK tail \in {<<>>, <<Torn>>} :
            /\ files' = [files EXCEPT ![f] = Keep(files[f], Len(w.prefix)) \o tail]
            /\ at' = at /\ phase' = "write"
    BY <1>4 DEF ApplyStart, SetFile
  <2>2. tail \in Seq(Texts)
    <3>1. Torn \in Texts
      BY DEF Texts
    <3>2. <<>> \in Seq(Texts) /\ <<Torn>> \in Seq(Texts)
      BY <3>1, EmptySeq
    <3> QED
      BY <3>2
  <2>3. Keep(files[f], Len(w.prefix)) = w.prefix
    BY <1>1, <1>4 DEF PrefixIntact
  <2>4. w.prefix \o tail \in Seq(Texts) /\ PrefixIntact(w, w.prefix \o tail)
    BY <1>1, <2>2, IntactPrefix
  <2> QED
    BY <1>4, <2>1, <2>3, <2>4
<1>5. CASE w.op = "remove"
  <2>1. /\ files' = [files EXCEPT ![f] = Missing]
        /\ \/ at' = at /\ phase' = "sync"
           \/ at' = at + 1 /\ phase' = "start"
    BY <1>5 DEF ApplyStart, SetFile, NextWrite
  <2>2. Missing = Result(w) /\ PrefixIntact(w, Missing)
    BY <1>5 DEF Result, Written, PrefixIntact
  <2>3. Missing \in Seq(Texts)
    BY EmptySeq DEF Missing
  <2> QED
    BY <2>1, <2>2, <2>3
<1> QED
  BY <1>1, <1>3, <1>4, <1>5

LEMMA ApplyWriteEffect ==
    ASSUME TypeOK, NeverRefused, Progress, NEW p \in Proc, ApplyWrite(p)
    PROVE  /\ Result(pending[at]) \in Seq(Texts)
           /\ PrefixIntact(pending[at], Result(pending[at]))
           /\ files' = [files EXCEPT ![pending[at].path] = Result(pending[at])]
<1> DEFINE w == pending[at]
           f == w.path
<1>1. /\ w \in Writes /\ f \in File /\ PrefixIntact(w, files[f])
      /\ w.op \in {"put", "append", "remove"} /\ w.prefix \in Seq(Row) /\ w.text \in Row
  BY CurrentWrite DEF ApplyWrite
<1>2. (phase = "temp" => w.op = "put") /\ (phase = "write" => w.op = "append")
  BY DEF Progress, ApplyWrite, Applying
<1>3. Result(w) \in Seq(Texts)
  BY <1>1, ResultTyped, SeqMonotonic, Row \subseteq Texts DEF Texts
<1>4. PrefixIntact(w, Result(w))
  BY <1>1, IntactResult
<1>5. files' = [files EXCEPT ![f] = Result(w)]
  <2>1. CASE phase = "temp"
    BY <1>2, <2>1 DEF ApplyWrite, SetFile, Result, Written
  <2>2. CASE phase = "write"
    <3>1. Keep(files[f], Len(w.prefix)) = w.prefix
      BY <1>1, <1>2, <2>2 DEF PrefixIntact
    <3> QED
      BY <1>2, <2>2, <3>1 DEF ApplyWrite, SetFile, Result, Written
  <2> QED
    BY <2>1, <2>2 DEF ApplyWrite
<1> QED
  BY <1>3, <1>4, <1>5

LEMMA NoPower == ASSUME "power" \notin Faults PROVE ~PowerLoss
BY DEF PowerLoss, Fault

LEMMA TypeStep ==
    ASSUME TypeOK, RecoveryInv, [Next]_vars, ~PowerLoss
    PROVE  TypeOK'
<1> USE DEF TypeOK, Places, Holding, Mutating, Replaying, data, plan, place, call,
            Go, Answer
<1>1. ASSUME NEW p \in Proc, Begin(p) PROVE TypeOK'
  <2>1. Blank \in [File -> Seq(Texts)]
    BY EmptySeq DEF Blank, Missing
  <2> QED
    BY <1>1, <2>1 DEF Begin
<1>2. ASSUME NEW p \in Proc, Acquire(p) PROVE TypeOK'
  BY <1>2 DEF Acquire
<1>3. ASSUME NEW p \in Proc, Recover(p) PROVE TypeOK'
  <2>1. /\ pc' \in [Proc -> Places] /\ lock' \in Proc \cup {NoProc}
        /\ answer' \in [Proc -> {"none", "ok", "err"}]
        /\ UNCHANGED <<data, plan, before, faults, ask, seen>>
    BY <1>3 DEF Recover
  <2>2. at' \in Nat \ {0} /\ phase' \in {"start", "temp", "write", "sync"}
    BY <1>3 DEF Recover
  <2> QED
    BY <2>1, <2>2
<1>4. ASSUME NEW p \in Proc, ApplyStart(p) PROVE TypeOK'
  <2>1. PICK c \in Seq(Texts) : files' = [files EXCEPT ![pending[at].path] = c]
    BY <1>4, ApplyStartEffect DEF RecoveryInv
  <2>2. files' \in [File -> Seq(Texts)]
    BY <2>1
  <2>3. temps' \subseteq File
    BY <1>4, CurrentWrite DEF ApplyStart, RecoveryInv
  <2>4. at' \in Nat \ {0} /\ phase' \in {"start", "temp", "write", "sync"}
    BY <1>4, ApplyStartEffect DEF RecoveryInv
  <2> QED
    BY <1>4, <2>2, <2>3, <2>4 DEF ApplyStart, Applying
<1>5. ASSUME NEW p \in Proc, ApplyWrite(p) PROVE TypeOK'
  <2>1. files' \in [File -> Seq(Texts)]
    BY <1>5, ApplyWriteEffect DEF RecoveryInv
  <2> QED
    BY <1>5, <2>1 DEF ApplyWrite
<1>6. ASSUME NEW p \in Proc, ApplySync(p) PROVE TypeOK'
  <2>1. pending[at].path \in File
    BY <1>6, CurrentWrite DEF ApplySync, RecoveryInv
  <2>2. disk' \in [File -> Seq(Texts)]
    BY <1>6, <2>1 DEF ApplySync
  <2> QED
    BY <1>6, <2>2 DEF ApplySync, NextWrite
<1>7. ASSUME NEW p \in Proc, Unlink(p) PROVE TypeOK'
  BY <1>7, EmptySeq DEF Unlink
<1>8. ASSUME NEW p \in Proc, SyncUnlink(p) PROVE TypeOK'
  BY <1>8 DEF SyncUnlink
<1>9. ASSUME NEW p \in Proc, Sweep(p) PROVE TypeOK'
  BY <1>9, EmptySeq DEF Sweep
<1>10. ASSUME NEW p \in Proc, Observe(p) PROVE TypeOK'
  BY <1>10 DEF Observe
<1>11. ASSUME NEW p \in Proc, Draft(p) PROVE TypeOK'
  <2>1. \A f \in File : files[f] \in Seq(Row)
    <3>1. pending = <<>>
      BY <1>11 DEF Draft, RecoveryInv, NothingPending
    <3> QED
      BY <3>1 DEF RecoveryInv, OutsideWhole, Paths
  <2>2. PlanFor(ask[p], files) \in Seq(Writes)
    BY <2>1, PlanTyped
  <2>3. draft' \in Seq(Writes)
    BY <1>11, <2>2 DEF Draft
  <2> QED
    BY <1>11, <2>3 DEF Draft
<1>12. ASSUME NEW p \in Proc, Publish(p) PROVE TypeOK'
  BY <1>12, EmptySeq DEF Publish
<1>13. ASSUME NEW p \in Proc, Persist(p) PROVE TypeOK'
  BY <1>13 DEF Persist
<1>14. ASSUME NEW p \in Proc, Fail(p) PROVE TypeOK'
  <2>1. draft' \in Seq(Writes)
    BY <1>14, EmptySeq DEF Fail
  <2>2. temps' \subseteq File
    BY <1>14 DEF Fail
  <2>3. faults' \in 0..MaxFaults
    BY <1>14, BoundsAssumption DEF Fail, Fault
  <2> QED
    BY <1>14, <2>1, <2>2, <2>3 DEF Fail
<1>15. ASSUME NEW p \in Proc, Kill(p) PROVE TypeOK'
  BY <1>15, BoundsAssumption DEF Kill, Fault
<1>16. CASE UNCHANGED vars
  BY <1>16 DEF vars
<1> QED
  BY <1>1, <1>2, <1>3, <1>4, <1>5, <1>6, <1>7, <1>8, <1>9, <1>10, <1>11, <1>12,
     <1>13, <1>14, <1>15, <1>16 DEF Next, Step

\* The steps that leave the files and the pending plan alone keep what
\* concerns them.
LEMMA StandingPlan ==
    ASSUME TypeOK, RecoveryInv, files' = files, pending' = pending
    PROVE  NeverRefused' /\ OutsideWhole'
BY DEF RecoveryInv, NeverRefused, OutsideWhole

\* A step that writes the file of the current write keeps the plan
\* replayable, the files outside it whole, and what was applied in place.
LEMMA WrittenPlan ==
    ASSUME TypeOK, RecoveryInv, NEW p \in Proc, Applying(p), pending' = pending,
           NEW c \in Seq(Texts), PrefixIntact(pending[at], c),
           files' = [files EXCEPT ![pending[at].path] = c]
    PROVE  /\ NeverRefused' /\ OutsideWhole'
           /\ files'[pending[at].path] = c
           /\ \A i \in DOMAIN pending : i < at => files'[pending[i].path] = Result(pending[i])
<1>1. /\ at \in DOMAIN pending /\ pending[at].path \in File
      /\ pending \in Seq(Writes) /\ files \in [File -> Seq(Texts)]
      /\ Valid(pending, files)
  BY CurrentWrite DEF RecoveryInv, NeverRefused, TypeOK
<1>2. NeverRefused'
  BY <1>1, ValidAfterWrite DEF NeverRefused
<1>3. OutsideWhole'
  BY <1>1 DEF RecoveryInv, OutsideWhole, Paths
<1>4. files'[pending[at].path] = c
  BY <1>1
<1>5. ASSUME NEW i \in DOMAIN pending, i < at
      PROVE  files'[pending[i].path] = Result(pending[i])
  <2>1. i # at
    BY <1>5 DEF TypeOK
  <2>2. pending[i].path # pending[at].path
    BY <1>1, <2>1 DEF Valid, Distinct
  <2>3. files'[pending[i].path] = files[pending[i].path]
    BY <2>2
  <2> QED
    BY <1>5, <2>3 DEF RecoveryInv, Progress, Applying
<1> QED
  BY <1>2, <1>3, <1>4, <1>5

LEMMA RecoveryStep ==
    ASSUME TypeOK, RecoveryInv, [Next]_vars, ~PowerLoss
    PROVE  RecoveryInv'
<1> USE DEF Places, Holding, Mutating, Replaying, data, plan, place, call, Go, Answer
<1> DEFINE Rest == OneHolder /\ NothingPending /\ DraftMeasured /\ Progress
<1> USE DEF OneHolder, NothingPending, DraftMeasured, Progress
<1>1. ASSUME NEW p \in Proc, Begin(p) PROVE RecoveryInv'
  <2>1. Rest'
    BY <1>1 DEF Begin, TypeOK, RecoveryInv
  <2> QED
    BY <1>1, <2>1, StandingPlan DEF Begin, RecoveryInv
<1>2. ASSUME NEW p \in Proc, Acquire(p) PROVE RecoveryInv'
  <2>1. Rest'
    BY <1>2, ValuesAssumption DEF Acquire, TypeOK, RecoveryInv
  <2> QED
    BY <1>2, <2>1, StandingPlan DEF Acquire, RecoveryInv
<1>3. ASSUME NEW p \in Proc, Recover(p) PROVE RecoveryInv'
  <2>1. Rest'
    BY <1>3 DEF Recover, TypeOK, RecoveryInv
  <2> QED
    BY <1>3, <2>1, StandingPlan DEF Recover, RecoveryInv
<1>4. ASSUME NEW p \in Proc, ApplyStart(p) PROVE RecoveryInv'
  <2>1. PICK c \in Seq(Texts) :
            /\ PrefixIntact(pending[at], c)
            /\ files' = [files EXCEPT ![pending[at].path] = c]
            /\ \/ at' = at /\ phase' = "temp" /\ pending[at].op = "put"
               \/ at' = at /\ phase' = "write" /\ pending[at].op = "append"
               \/ at' = at /\ phase' = "sync" /\ c = Result(pending[at])
               \/ at' = at + 1 /\ phase' = "start" /\ c = Result(pending[at])
    BY <1>4, ApplyStartEffect DEF RecoveryInv
  <2>2. Applying(p) /\ UNCHANGED <<plan, lock, pc, call>>
    BY <1>4 DEF ApplyStart
  <2>3. /\ NeverRefused' /\ OutsideWhole'
        /\ files'[pending[at].path] = c
        /\ \A i \in DOMAIN pending : i < at => files'[pending[i].path] = Result(pending[i])
    BY <2>1, <2>2, WrittenPlan
  <2>4. at \in DOMAIN pending /\ at \in Nat /\ DOMAIN pending \subseteq Nat
    BY <2>2, CurrentWrite DEF RecoveryInv, TypeOK
  <2>5. Progress'
    BY <2>1, <2>2, <2>3, <2>4 DEF Applying
  <2>6. OneHolder' /\ NothingPending' /\ DraftMeasured'
    BY <2>2 DEF RecoveryInv, TypeOK, Applying
  <2> QED
    BY <2>3, <2>5, <2>6 DEF RecoveryInv
<1>5. ASSUME NEW p \in Proc, ApplyWrite(p) PROVE RecoveryInv'
  <2>1. Applying(p) /\ at' = at /\ phase' = "sync" /\ UNCHANGED <<plan, lock, pc, call>>
    BY <1>5 DEF ApplyWrite
  <2>2. /\ NeverRefused' /\ OutsideWhole'
        /\ files'[pending[at].path] = Result(pending[at])
        /\ \A i \in DOMAIN pending : i < at => files'[pending[i].path] = Result(pending[i])
    BY <1>5, <2>1, ApplyWriteEffect, WrittenPlan DEF RecoveryInv
  <2>3. at \in Nat /\ Len(pending) \in Nat /\ DOMAIN pending \subseteq Nat
    BY LenProperties DEF TypeOK
  <2>4. Progress'
    BY <2>1, <2>2, <2>3 DEF Applying
  <2>5. OneHolder' /\ NothingPending' /\ DraftMeasured'
    BY <2>1 DEF RecoveryInv, TypeOK, Applying
  <2> QED
    BY <2>2, <2>4, <2>5 DEF RecoveryInv
<1>6. ASSUME NEW p \in Proc, ApplySync(p) PROVE RecoveryInv'
  <2>1. at \in DOMAIN pending /\ at \in Nat /\ DOMAIN pending \subseteq Nat
    BY <1>6, CurrentWrite DEF RecoveryInv, TypeOK, ApplySync
  <2>2. Rest'
    BY <1>6, <2>1 DEF ApplySync, NextWrite, Applying, TypeOK, RecoveryInv
  <2> QED
    BY <1>6, <2>2, StandingPlan DEF ApplySync, RecoveryInv
<1>7. ASSUME NEW p \in Proc, Unlink(p) PROVE RecoveryInv'
  <2>1. pending' = <<>> /\ files' = files /\ Paths(pending') = {}
    BY <1>7 DEF Unlink, Paths
  <2>2. \A f \in File : files[f] \in Seq(Row)
    <3> SUFFICES ASSUME NEW f \in File, f \in Paths(pending)
                 PROVE  files[f] \in Seq(Row)
      BY DEF RecoveryInv, OutsideWhole
    <3>1. PICK i \in DOMAIN pending : pending[i].path = f
      BY DEF Paths
    <3>2. pending[i] \in Writes /\ i <= Len(pending) /\ i \in Nat
      BY LenProperties DEF TypeOK
    <3>3. i < at
      BY <1>7, <3>2 DEF Unlink, TypeOK
    <3>4. files[f] = Result(pending[i])
      BY <1>7, <3>1, <3>3 DEF Unlink, RecoveryInv
    <3> QED
      BY <3>2, <3>4, ResultTyped
  <2>3. NeverRefused' /\ OutsideWhole'
    BY <2>1, <2>2 DEF NeverRefused, Valid, Distinct, OutsideWhole
  <2>4. Rest'
    BY <1>7 DEF Unlink, TypeOK, RecoveryInv
  <2> QED
    BY <2>3, <2>4 DEF RecoveryInv
<1>8. ASSUME NEW p \in Proc, SyncUnlink(p) PROVE RecoveryInv'
  <2>1. Rest'
    BY <1>8 DEF SyncUnlink, TypeOK, RecoveryInv
  <2> QED
    BY <1>8, <2>1, StandingPlan DEF SyncUnlink, RecoveryInv
<1>9. ASSUME NEW p \in Proc, Sweep(p) PROVE RecoveryInv'
  <2>1. Rest'
    BY <1>9 DEF Sweep, TypeOK, RecoveryInv
  <2> QED
    BY <1>9, <2>1, StandingPlan DEF Sweep, RecoveryInv
<1>10. ASSUME NEW p \in Proc, Observe(p) PROVE RecoveryInv'
  <2>1. Rest'
    BY <1>10 DEF Observe, TypeOK, RecoveryInv
  <2> QED
    BY <1>10, <2>1, StandingPlan DEF Observe, RecoveryInv
<1>11. ASSUME NEW p \in Proc, Draft(p) PROVE RecoveryInv'
  <2>1. lock = p /\ pending = <<>> /\ pc \in [Proc -> Places]
    BY <1>11 DEF Draft, TypeOK, RecoveryInv
  <2>2. /\ UNCHANGED <<files, pending, at, phase, ask>>
        /\ \A q \in Proc : q # p => pc'[q] = pc[q] /\ pc[q] \notin Holding
        /\ pc'[p] \in {"idle", "publish"}
        /\ pc'[p] = "publish" => lock' = lock
    BY <1>11, <2>1 DEF Draft, RecoveryInv
  <2>3. OneHolder' /\ NothingPending' /\ Progress'
    BY <2>1, <2>2
  <2>4. DraftMeasured'
    <3> SUFFICES ASSUME pc'[p] = "publish"
                 PROVE  /\ ask[p] # Read
                        /\ draft' = PlanFor(ask[p], files)
                        /\ Valid(draft', files)
      BY <2>2
    <3> QED
      BY <1>11, <2>1 DEF Draft
  <2> QED
    BY <2>2, <2>3, <2>4, StandingPlan DEF RecoveryInv
<1>12. ASSUME NEW p \in Proc, Publish(p) PROVE RecoveryInv'
  <2>1. /\ pending' = draft /\ files' = files /\ pending = <<>> /\ Valid(draft, files)
    BY <1>12 DEF Publish, RecoveryInv
  <2>2. \A f \in File : files[f] \in Seq(Row)
    BY <2>1 DEF RecoveryInv, OutsideWhole, Paths
  <2>3. NeverRefused' /\ OutsideWhole'
    BY <2>1, <2>2 DEF NeverRefused, OutsideWhole
  <2>4. Rest'
    BY <1>12 DEF Publish, TypeOK, RecoveryInv
  <2> QED
    BY <2>3, <2>4 DEF RecoveryInv
<1>13. ASSUME NEW p \in Proc, Persist(p) PROVE RecoveryInv'
  <2>1. Rest'
    BY <1>13 DEF Persist, TypeOK, RecoveryInv
  <2> QED
    BY <1>13, <2>1, StandingPlan DEF Persist, RecoveryInv
<1>14. ASSUME NEW p \in Proc, Fail(p) PROVE RecoveryInv'
  <2>1. Rest'
    BY <1>14 DEF Fail, TypeOK, RecoveryInv
  <2> QED
    BY <1>14, <2>1, StandingPlan DEF Fail, RecoveryInv
<1>15. ASSUME NEW p \in Proc, Kill(p) PROVE RecoveryInv'
  <2>1. Rest'
    BY <1>15 DEF Kill, TypeOK, RecoveryInv
  <2> QED
    BY <1>15, <2>1, StandingPlan DEF Kill, RecoveryInv
<1>16. CASE UNCHANGED vars
  <2>1. Rest'
    BY <1>16 DEF vars, RecoveryInv
  <2> QED
    BY <1>16, <2>1, StandingPlan DEF vars, RecoveryInv
<1> QED
  BY <1>1, <1>2, <1>3, <1>4, <1>5, <1>6, <1>7, <1>8, <1>9, <1>10, <1>11, <1>12,
     <1>13, <1>14, <1>15, <1>16 DEF Next, Step

\* Type correctness of the redo log, whatever dies or fails.
THEOREM TypeCorrect ==
    ASSUME "power" \notin Faults
    PROVE  Spec => []TypeOK
<1>1. Init => IInv
  BY InitIInv
<1>2. IInv /\ [Next]_vars => IInv'
  BY NoPower, TypeStep, RecoveryStep DEF IInv
<1>3. IInv => TypeOK
  BY DEF IInv
<1> QED
  BY <1>1, <1>2, <1>3, PTL DEF Spec

\* Interrupted commits are always recoverable: RecoveryInv always holds.
THEOREM Recoverable ==
    ASSUME "power" \notin Faults
    PROVE  Spec => []RecoveryInv
<1>1. Init => IInv
  BY InitIInv
<1>2. IInv /\ [Next]_vars => IInv'
  BY NoPower, TypeStep, RecoveryStep DEF IInv
<1>3. IInv => RecoveryInv
  BY DEF IInv
<1> QED
  BY <1>1, <1>2, <1>3, PTL DEF Spec

-----------------------------------------------------------------------------
(* The redo log implements AtomicStore: the rename that publishes a plan   *)
(* is its commit point, and every other step of a commit, a recovery, a    *)
(* failure or a death leaves the mapped store as it was.                   *)

\* Writing only files of the pending plan does not change what the files
\* will be.
LEMMA LogicalStands ==
    ASSUME pending' = pending,
           \A f \in File : f \notin Paths(pending) => files'[f] = files[f]
    PROVE  Logical' = Logical
BY DEF Logical, Overlay

LEMMA LogicalOfNone ==
    ASSUME TypeOK, pending = <<>>
    PROVE  Logical = files
BY DEF Logical, Overlay, Paths, TypeOK

\* The applied plan, once every write of it stands, can go.
LEMMA LogicalUnlinked ==
    ASSUME TypeOK, RecoveryInv, NEW p \in Proc, Unlink(p)
    PROVE  Logical' = Logical
<1>1. pending' = <<>> /\ files' = files /\ at > Len(pending)
  BY DEF Unlink, data
<1>2. ASSUME NEW f \in File, f \in Paths(pending)
      PROVE  files[f] = Result(WriteTo(pending, f))
  <2> DEFINE i == CHOOSE j \in DOMAIN pending : pending[j].path = f
  <2>1. i \in DOMAIN pending /\ pending[i].path = f
    BY <1>2 DEF Paths
  <2>2. i \in Nat /\ i <= Len(pending)
    BY <2>1, LenProperties DEF TypeOK
  <2>3. i < at
    BY <1>1, <2>2, LenProperties DEF TypeOK
  <2>4. files[pending[i].path] = Result(pending[i])
    BY <2>1, <2>3 DEF Unlink, RecoveryInv, Progress
  <2> QED
    BY <2>1, <2>4 DEF WriteTo
<1>3. Logical = files
  BY <1>2 DEF Logical, Overlay, TypeOK
<1>4. Logical' = files'
  BY <1>1 DEF Logical, Overlay, Paths, TypeOK
<1> QED
  BY <1>1, <1>3, <1>4

\* Overlaying the plan drafted for a mutation is the mutation's effect.
LEMMA OverlayIsEffect ==
    ASSUME NEW r \in Requests, NEW fs \in [File -> Seq(Texts)],
           \A f \in File : fs[f] \in Seq(Row), Distinct(PlanFor(r, fs))
    PROVE  Overlay(PlanFor(r, fs), fs) = Effect(r, fs)
<1> DEFINE pl == PlanFor(r, fs)
<1>1. /\ DOMAIN pl = DOMAIN r
      /\ \A i \in DOMAIN r : pl[i] = Write(r[i], fs[r[i].path])
  BY PlanTyped
<1> HIDE DEF pl
<1>2. \A i \in DOMAIN r : pl[i].path = r[i].path
  BY <1>1 DEF Write
<1>3. Paths(pl) = Paths(r)
  BY <1>1, <1>2 DEF Paths
<1>4. Distinct(pl)
  BY DEF pl
<1>5. ASSUME NEW f \in File, f \in Paths(r)
      PROVE  Result(WriteTo(pl, f)) = Written(WriteTo(r, f), fs[f])
  <2> DEFINE i == CHOOSE j \in DOMAIN r : r[j].path = f
             k == CHOOSE j \in DOMAIN pl : pl[j].path = f
  <2>1. i \in DOMAIN r /\ r[i].path = f
    BY <1>5 DEF Paths
  <2>2. k \in DOMAIN pl /\ pl[k].path = f
    BY <1>3, <1>5 DEF Paths
  <2>3. k = i
    BY <1>1, <1>2, <1>4, <2>1, <2>2 DEF Distinct
  <2>4. WriteTo(r, f) = r[i] /\ WriteTo(pl, f) = Write(r[i], fs[f])
    BY <1>1, <2>1, <2>3 DEF WriteTo
  <2> HIDE DEF i, k
  <2>5. r[i].op \in {"put", "append", "remove"}
    <3> DEFINE Asked == [path : File, op : {"put", "append", "remove"}, text : Row]
    <3>1. r \in Seq(Asked)
      BY RequestsAssumption DEF IsRequest
    <3> HIDE DEF Asked
    <3>2. r[i] \in Asked
      BY <2>1, <3>1, LenProperties
    <3> QED
      BY <3>2 DEF Asked
  <2>6. Result(Write(r[i], fs[f])) = Written(r[i], fs[f])
    BY <2>5 DEF Result, Write, Written
  <2> QED
    BY <2>4, <2>6
<1> QED
  BY <1>3, <1>5 DEF Overlay, Effect, pl

\* A step inside a call: nothing AtomicStore shows moves.
LEMMA MappedStutter ==
    ASSUME NEW p \in Proc, NEW from, NEW to, pc \in [Proc -> Places],
           pc[p] = from, pc' = [pc EXCEPT ![p] = to],
           from # "idle", to # "idle", from \in Mutating <=> to \in Mutating,
           Logical' = Logical, UNCHANGED call
    PROVE  UNCHANGED Abs!vars
<1>1. CallState' = CallState
  BY DEF CallState
<1> QED
  BY <1>1 DEF Abs!vars, call

\* A call that returns or dies: AtomicStore's Ends.
LEMMA MappedEnd ==
    ASSUME NEW p \in Proc, NEW how, TypeOK, pc[p] # "idle", Answer(p, how),
           Logical' = Logical
    PROVE  Abs!Ends(p, how)
<1>1. CallState' = [CallState EXCEPT ![p] = "idle"] /\ CallState[p] # "idle"
  BY DEF Answer, TypeOK, CallState
<1> QED
  BY <1>1 DEF Abs!Ends, Answer

\* The instance's data definitions are the ones used here.
LEMMA SameData ==
    /\ Abs!Read = Read /\ Abs!Blank = Blank
    /\ \A r : Abs!Distinct(r) <=> Distinct(r)
    /\ \A r, fs : Abs!Effect(r, fs) = Effect(r, fs)
BY DEF Abs!Read, Read, Abs!Blank, Blank, Abs!Missing, Missing, Abs!Distinct, Distinct,
       Abs!Effect, Effect, Abs!Paths, Paths, Abs!WriteTo, WriteTo, Abs!Written, Written

LEMMA InitMaps == Init => Abs!Init
<1> SUFFICES ASSUME Init PROVE Abs!Init
  OBVIOUS
<1>1. Logical = Blank
  BY DEF Init, Logical, Overlay, Paths, Blank
<1>2. CallState = [p \in Proc |-> "idle"]
  BY DEF Init, CallState
<1> QED
  BY <1>1, <1>2, SameData DEF Init, Abs!Init

LEMMA StepMaps ==
    ASSUME TypeOK, RecoveryInv, [Next]_vars, "power" \notin Faults
    PROVE  [Abs!Next]_(Abs!vars)
<1> USE DEF data, plan, place, call, Go
<1>0. pc \in [Proc -> Places]
  BY DEF TypeOK
<1>1. ASSUME NEW p \in Proc, Begin(p) PROVE Abs!Next
  <2>1. PICK r \in Requests \cup {Read} : ask' = [ask EXCEPT ![p] = r]
    BY <1>1 DEF Begin
  <2>2. Logical' = Logical
    BY <1>1, LogicalStands DEF Begin
  <2>3. CallState' = [CallState EXCEPT ![p] = "busy"] /\ CallState[p] = "idle"
    BY <1>0, <1>1 DEF Begin, CallState, Mutating
  <2>4. Abs!Call(p, r)
    BY <1>1, <2>1, <2>2, <2>3, SameData DEF Begin, Abs!Call
  <2> QED
    BY <2>1, <2>4, SameData DEF Abs!Next
<1>2. ASSUME NEW p \in Proc, Acquire(p) PROVE UNCHANGED Abs!vars
  BY <1>0, <1>2, LogicalStands, MappedStutter DEF Acquire, Mutating
<1>3. ASSUME NEW p \in Proc, Recover(p) PROVE UNCHANGED Abs!vars
  BY <1>0, <1>3, LogicalStands, MappedStutter DEF Recover, Mutating, RecoveryInv, NeverRefused
<1>4. ASSUME NEW p \in Proc, ApplyStart(p) PROVE UNCHANGED Abs!vars
  <2>1. Logical' = Logical
    <3>1. PICK c \in Seq(Texts) : files' = [files EXCEPT ![pending[at].path] = c]
      BY <1>4, ApplyStartEffect DEF RecoveryInv
    <3>2. pending[at].path \in Paths(pending) /\ files \in [File -> Seq(Texts)]
      BY <1>4, CurrentWrite DEF ApplyStart, RecoveryInv, Paths, TypeOK
    <3> QED
      BY <1>4, <3>1, <3>2, LogicalStands DEF ApplyStart
  <2> QED
    BY <1>4, <2>1 DEF ApplyStart, Abs!vars, CallState
<1>5. ASSUME NEW p \in Proc, ApplyWrite(p) PROVE UNCHANGED Abs!vars
  <2>1. Logical' = Logical
    <3>1. files' = [files EXCEPT ![pending[at].path] = Result(pending[at])]
      BY <1>5, ApplyWriteEffect DEF RecoveryInv
    <3>2. pending[at].path \in Paths(pending) /\ files \in [File -> Seq(Texts)]
      BY <1>5, CurrentWrite DEF ApplyWrite, RecoveryInv, Paths, TypeOK
    <3> QED
      BY <1>5, <3>1, <3>2, LogicalStands DEF ApplyWrite
  <2> QED
    BY <1>5, <2>1 DEF ApplyWrite, Abs!vars, CallState
<1>6. ASSUME NEW p \in Proc, ApplySync(p) PROVE UNCHANGED Abs!vars
  BY <1>6, LogicalStands DEF ApplySync, Abs!vars, CallState
<1>7. ASSUME NEW p \in Proc, Unlink(p) PROVE UNCHANGED Abs!vars
  BY <1>0, <1>7, LogicalUnlinked, MappedStutter DEF Unlink, Mutating
<1>8. ASSUME NEW p \in Proc, SyncUnlink(p) PROVE [Abs!Next]_(Abs!vars)
  <2>1. Logical' = Logical
    BY <1>8, LogicalStands DEF SyncUnlink
  <2>2. CASE Go(p, "replaySync", "sweep") /\ UNCHANGED <<lock, ask, answer>>
    BY <1>0, <1>8, <2>1, <2>2, MappedStutter DEF SyncUnlink, Mutating
  <2>3. CASE pc[p] = "clearSync" /\ Answer(p, "ok")
    <3>1. Abs!Ends(p, "ok") /\ CallState[p] = "landed"
      BY <1>0, <2>1, <2>3, MappedEnd DEF CallState, Mutating
    <3>2. Abs!Confirm(p)
      BY <1>8, <3>1 DEF SyncUnlink, Abs!Confirm
    <3> QED
      BY <3>2 DEF Abs!Next
  <2> QED
    BY <1>8, <2>2, <2>3 DEF SyncUnlink
<1>9. ASSUME NEW p \in Proc, Sweep(p) PROVE UNCHANGED Abs!vars
  BY <1>0, <1>9, LogicalStands, MappedStutter DEF Sweep, Mutating
<1>10. ASSUME NEW p \in Proc, Observe(p) PROVE Abs!Next
  <2>1. Logical' = Logical /\ Logical = files
    BY <1>10, LogicalStands, LogicalOfNone DEF Observe, RecoveryInv, NothingPending
  <2>2. Abs!Ends(p, "ok")
    BY <1>10, <2>1, MappedEnd DEF Observe
  <2>3. Abs!Observe(p)
    BY <1>10, <2>1, <2>2, SameData DEF Observe, Abs!Observe
  <2> QED
    BY <2>3 DEF Abs!Next
<1>11. ASSUME NEW p \in Proc, Draft(p) PROVE [Abs!Next]_(Abs!vars)
  <2>1. Logical' = Logical
    BY <1>11, LogicalStands DEF Draft
  <2>2. CASE pc' = [pc EXCEPT ![p] = "publish"] /\ UNCHANGED <<lock, ask, answer>>
    BY <1>0, <1>11, <2>1, <2>2, MappedStutter DEF Draft, Mutating
  <2>3. CASE Answer(p, "err")
    <3>1. Abs!Abort(p)
      BY <1>11, <2>1, <2>3, MappedEnd DEF Draft, Abs!Abort
    <3> QED
      BY <3>1 DEF Abs!Next
  <2> QED
    BY <1>11, <2>2, <2>3 DEF Draft
<1>12. ASSUME NEW p \in Proc, Publish(p) PROVE Abs!Next
  <2>1. /\ pending = <<>> /\ draft = PlanFor(ask[p], files) /\ Distinct(draft)
        /\ ask[p] # Read /\ pending' = draft /\ files' = files
    BY <1>12 DEF Publish, RecoveryInv, NothingPending, DraftMeasured, Valid
  <2>2. ask[p] \in Requests /\ \A f \in File : files[f] \in Seq(Row)
    BY <2>1 DEF RecoveryInv, OutsideWhole, Paths, TypeOK
  <2>3. Logical = files /\ files \in [File -> Seq(Texts)]
    BY <2>1, LogicalOfNone DEF TypeOK
  <2>4. Logical' = Effect(ask[p], Logical)
    BY <2>1, <2>2, <2>3, OverlayIsEffect DEF Logical
  <2>5. Distinct(ask[p])
    <3> DEFINE r == ask[p]
    <3>1. /\ DOMAIN draft = DOMAIN r
          /\ \A i \in DOMAIN r : draft[i] = Write(r[i], files[r[i].path])
      BY <2>1, <2>2, <2>3, PlanTyped
    <3> HIDE DEF r
    <3>2. \A i \in DOMAIN r : draft[i].path = r[i].path
      BY <3>1 DEF Write
    <3> QED
      BY <2>1, <3>1, <3>2 DEF Distinct, r
  <2>6. CallState' = [CallState EXCEPT ![p] = "landed"] /\ CallState[p] = "busy"
    BY <1>0, <1>12 DEF Publish, CallState, Mutating
  <2>7. Abs!Land(p)
    BY <1>12, <2>1, <2>4, <2>5, <2>6, SameData DEF Publish, Abs!Land
  <2> QED
    BY <2>7 DEF Abs!Next
<1>13. ASSUME NEW p \in Proc, Persist(p) PROVE UNCHANGED Abs!vars
  BY <1>0, <1>13, LogicalStands, MappedStutter DEF Persist, Mutating
<1>14. ASSUME NEW p \in Proc, Fail(p) PROVE Abs!Next
  <2>1. Logical' = Logical
    BY <1>14, LogicalStands DEF Fail
  <2>2. Abs!Abort(p)
    BY <1>14, <2>1, MappedEnd DEF Fail, Abs!Abort
  <2> QED
    BY <2>2 DEF Abs!Next
<1>15. ASSUME NEW p \in Proc, Kill(p) PROVE Abs!Next
  <2>1. Logical' = Logical
    BY <1>15, LogicalStands DEF Kill
  <2>2. Abs!Die(p)
    BY <1>15, <2>1, MappedEnd DEF Kill, Abs!Die
  <2> QED
    BY <2>2 DEF Abs!Next
<1>16. CASE UNCHANGED vars
  BY <1>16 DEF vars, Abs!vars, Logical, CallState
<1> QED
  BY <1>1, <1>2, <1>3, <1>4, <1>5, <1>6, <1>7, <1>8, <1>9, <1>10, <1>11, <1>12,
     <1>13, <1>14, <1>15, <1>16 DEF Next, Step, PowerLoss, Fault

\* Every behaviour of the redo log is one of AtomicStore: calls take effect
\* at one instant or not at all, and reads return whole plans.
THEOREM Implements ==
    ASSUME "power" \notin Faults
    PROVE  Spec => RefinesAtomicStore
<1>1. Init => IInv /\ Abs!Init
  BY InitIInv, InitMaps
<1>2. IInv /\ [Next]_vars => IInv'
  BY NoPower, TypeStep, RecoveryStep DEF IInv
<1>3. IInv /\ [Next]_vars => [Abs!Next]_(Abs!vars)
  BY StepMaps DEF IInv
<1> QED
  BY <1>1, <1>2, <1>3, PTL DEF Spec, RefinesAtomicStore, Abs!Spec

-----------------------------------------------------------------------------
(* Temporary copies.                                                       *)

\* A copy lies beside the body of a pending write that is not over, and a call
\* past the sweep finds no draft.
CopiesPlanned ==
    /\ temps \subseteq Paths(pending)
    /\ \A p \in Proc : pc[p] \in {"replay", "apply"} =>
          \A i \in DOMAIN pending : pending[i].path \in temps =>
              i > at \/ (i = at /\ phase \in {"start", "temp"})
    /\ \A p \in Proc : pc[p] = "ready" => draft = <<>>

LEMMA CopiesStep ==
    ASSUME TypeOK, RecoveryInv, CopiesPlanned, [Next]_vars, ~PowerLoss
    PROVE  CopiesPlanned'
<1> USE DEF Places, Holding, Mutating, Replaying, data, plan, place, call, Go, Answer, CopiesPlanned
<1>1. pc \in [Proc -> Places] /\ at \in Nat \ {0} /\ pending \in Seq(Writes)
  BY DEF TypeOK
<1>2. \A p, q \in Proc : pc[p] \in Holding /\ pc[q] \in Holding => p = q
  BY DEF RecoveryInv, OneHolder
<1>3. DOMAIN pending = 1..Len(pending) /\ Len(pending) \in Nat
  BY <1>1
<1>4. \A i, j \in DOMAIN pending : pending[i].path = pending[j].path => i = j
  BY DEF RecoveryInv, NeverRefused, Valid, Distinct
<1>5. Paths(<<>>) = {}
  BY DEF Paths
<1>6. ASSUME NEW p \in Proc, Applying(p)
      PROVE  /\ at \in DOMAIN pending /\ pending[at].path \in Paths(pending)
             /\ \A i \in DOMAIN pending : i # at => pending[i].path # pending[at].path
             /\ \A i \in DOMAIN pending : pending[i].path \in temps => i >= at
  BY <1>1, <1>3, <1>4, <1>6 DEF Applying, Paths
<1>7. ASSUME NEW p \in Proc,
             Begin(p) \/ Acquire(p) \/ Recover(p) \/ Sweep(p) \/ Observe(p) \/ Persist(p)
      PROVE  CopiesPlanned'
  <2>1. pending' = pending /\ temps' = temps
    BY <1>7 DEF Begin, Acquire, Recover, Sweep, Observe, Persist
  <2>2. ASSUME NEW q \in Proc, pc'[q] \in {"replay", "apply"}
        PROVE  \A i \in DOMAIN pending : pending[i].path \in temps =>
                  i > at' \/ (i = at' /\ phase' \in {"start", "temp"})
    <3>1. CASE at' = 1 /\ phase' = "start"
      BY <1>3, <3>1
    <3>2. CASE at' = at /\ phase' = phase /\ pc[q] = pc'[q]
      BY <2>2, <3>2
    <3> QED
      BY <1>1, <1>7, <2>2, <3>1, <3>2 DEF Begin, Acquire, Recover, Sweep, Observe, Persist
  <2>3. ASSUME NEW q \in Proc, pc'[q] = "ready" PROVE draft' = <<>>
    BY <1>1, <1>7, <2>3 DEF Begin, Acquire, Recover, Sweep, Observe, Persist
  <2> QED
    BY <2>1, <2>2, <2>3
<1>8. ASSUME NEW p \in Proc, ApplyStart(p) PROVE CopiesPlanned'
  <2>1. Applying(p) /\ UNCHANGED <<pending, draft, pc>>
    BY <1>8 DEF ApplyStart
  <2>2. \/ temps' = temps \cup {pending[at].path} /\ phase' = "temp" /\ at' = at
        \/ temps' = temps \ {pending[at].path} /\ at' = at
        \/ temps' = temps \ {pending[at].path} /\ at' = at + 1 /\ phase' = "start"
    BY <1>8 DEF ApplyStart, NextWrite
  <2>3. \A i \in DOMAIN pending : pending[i].path \in temps' =>
            i > at' \/ (i = at' /\ phase' \in {"start", "temp"})
    <3>1. CASE temps' = temps \cup {pending[at].path} /\ phase' = "temp" /\ at' = at
      BY <1>1, <1>3, <1>6, <2>1, <3>1
    <3>2. CASE temps' = temps \ {pending[at].path} /\ at' = at
      BY <1>1, <1>3, <1>6, <2>1, <3>2
    <3>3. CASE temps' = temps \ {pending[at].path} /\ at' = at + 1 /\ phase' = "start"
      <4>1. \A i \in DOMAIN pending : pending[i].path \in temps' => i >= at /\ i # at
        BY <1>6, <2>1, <3>3
      <4> QED
        BY <1>1, <1>3, <3>3, <4>1
    <3> QED
      BY <2>2, <3>1, <3>2, <3>3
  <2> QED
    BY <1>6, <2>1, <2>2, <2>3
<1>9. ASSUME NEW p \in Proc, ApplyWrite(p) PROVE CopiesPlanned'
  <2>1. /\ Applying(p) /\ UNCHANGED <<pending, draft, pc, at>>
        /\ temps' = temps \ {pending[at].path}
    BY <1>9 DEF ApplyWrite
  <2>2. \A i \in DOMAIN pending : pending[i].path \in temps' => i > at'
    BY <1>1, <1>3, <1>6, <2>1
  <2> QED
    BY <2>1, <2>2
<1>10. ASSUME NEW p \in Proc, ApplySync(p) PROVE CopiesPlanned'
  <2>1. /\ Applying(p) /\ phase = "sync" /\ UNCHANGED <<pending, draft, pc, temps>> /\ at' = at + 1
        /\ phase' = "start"
    BY <1>10 DEF ApplySync, NextWrite
  <2>2. \A i \in DOMAIN pending : pending[i].path \in temps => i > at
    BY <2>1 DEF Applying
  <2>3. \A i \in DOMAIN pending : pending[i].path \in temps => i > at' \/ i = at'
    BY <1>1, <1>3, <2>1, <2>2
  <2> QED
    BY <2>1, <2>3
<1>11. ASSUME NEW p \in Proc, Unlink(p) PROVE CopiesPlanned'
  <2>1. \A i \in DOMAIN pending : pending[i].path \notin temps
    BY <1>1, <1>3, <1>11 DEF Unlink
  <2>2. temps = {}
    BY <2>1 DEF Paths
  <2>3. pending' = <<>> /\ temps' = {} /\ draft' = draft
        /\ \A q \in Proc : pc'[q] = "ready" => pc[q] = "ready"
    BY <1>1, <1>11, <2>2 DEF Unlink
  <2> QED
    BY <2>3
<1>12. ASSUME NEW p \in Proc, SyncUnlink(p) PROVE CopiesPlanned'
  <2>1. UNCHANGED <<pending, draft, temps, at, phase>>
        /\ \A q \in Proc : pc'[q] \in {"ready", "replay", "apply"} => pc[q] = pc'[q]
    BY <1>1, <1>12 DEF SyncUnlink
  <2> QED
    BY <2>1
<1>13. ASSUME NEW p \in Proc, Draft(p) PROVE CopiesPlanned'
  <2>1. /\ UNCHANGED <<pending, temps, at, phase>> /\ pc[p] = "ready"
        /\ \A q \in Proc : pc'[q] = pc[q] \/ (q = p /\ pc'[q] \in {"idle", "publish"})
        /\ pc'[p] # "ready"
    BY <1>1, <1>13 DEF Draft
  <2>2. \A q \in Proc : pc'[q] # "ready"
    BY <1>2, <2>1
  <2> QED
    BY <2>1, <2>2
<1>14. ASSUME NEW p \in Proc, Publish(p) PROVE CopiesPlanned'
  <2>1. /\ pending = <<>> /\ pc[p] = "publish" /\ draft' = <<>> /\ temps' = temps
        /\ \A q \in Proc : pc'[q] = pc[q] \/ pc'[q] = "persist"
    BY <1>1, <1>14 DEF Publish, RecoveryInv, NothingPending
  <2>2. temps' = {}
    BY <1>5, <2>1
  <2>3. \A q \in Proc : pc'[q] \notin {"replay", "apply"}
    BY <1>2, <2>1
  <2> QED
    BY <2>1, <2>2, <2>3
<1>15. ASSUME NEW p \in Proc, Fail(p) \/ Kill(p) PROVE CopiesPlanned'
  <2>1. /\ UNCHANGED <<pending, at, phase>> /\ temps' \subseteq temps
        /\ draft' \in {draft, <<>>}
        /\ \A q \in Proc : pc'[q] = pc[q] \/ pc'[q] = "idle"
    BY <1>1, <1>15 DEF Fail, Kill
  <2> QED
    BY <2>1
<1>16. CASE UNCHANGED vars
  BY <1>16 DEF vars
<1> QED
  BY <1>7, <1>8, <1>9, <1>10, <1>11, <1>12, <1>13, <1>14, <1>15, <1>16
     DEF Next, Step

\* A call that has recovered meets no copy of a body or of a plan that an earlier
\* call left when it died or failed: copies lie only beside pending writes that
\* are not over, and recovery is over when every one of them is (clean_temps).
THEOREM CopiesSwept ==
    ASSUME "power" \notin Faults
    PROVE  Spec => []NoLeftoverCopies
<1>1. Init => IInv /\ CopiesPlanned
  <2>1. Init => CopiesPlanned
    BY DEF Init, CopiesPlanned, Paths
  <2> QED
    BY <2>1, InitIInv
<1>2. IInv /\ CopiesPlanned /\ [Next]_vars => IInv' /\ CopiesPlanned'
  BY NoPower, TypeStep, RecoveryStep, CopiesStep DEF IInv
<1>3. IInv /\ CopiesPlanned => NoLeftoverCopies
  <2> SUFFICES ASSUME IInv, CopiesPlanned, NEW p \in Proc, pc[p] = "ready"
               PROVE  temps = {} /\ draft = <<>>
    BY DEF NoLeftoverCopies
  <2>1. pending = <<>>
    BY DEF IInv, RecoveryInv, NothingPending
  <2> QED
    BY <2>1 DEF CopiesPlanned, Paths
<1> QED
  BY <1>1, <1>2, <1>3, PTL DEF Spec

-----------------------------------------------------------------------------
(* Power loss, when nothing else interrupts a call.                        *)

Unsynced == {"persist", "replaySync", "clearSync"}

\* What is on disk differs from what processes see in the write that the holder
\* has not synced yet, and in the plan's file until its directory is synced.
DiskInv ==
    /\ \A f \in File : disk[f] # files[f] =>
          \E p \in Proc : Applying(p) /\ phase \in {"write", "sync"} /\ f = pending[at].path
    /\ Valid(pending, disk)
    /\ (\A p \in Proc : pc[p] \notin Unsynced) => diskPending = pending
    /\ \A p \in Proc : pc[p] = "persist" =>
          diskPending = <<>> /\ before = files /\ \A f \in File : files[f] \in Seq(Row)
    /\ \A p \in Proc : pc[p] \in {"replaySync", "clearSync"} =>
          /\ Distinct(diskPending)
          /\ \A i \in DOMAIN diskPending : files[diskPending[i].path] = Result(diskPending[i])

\* The steps that leave files and plans alone, and move no call to or from a
\* place where something is unsynced.
LEMMA DiskStands ==
    ASSUME TypeOK, RecoveryInv, DiskInv, NEW p \in Proc,
           UNCHANGED <<files, disk, pending, diskPending, before>>,
           \A q \in Proc : q # p => pc'[q] = pc[q],
           pc'[p] \in Unsynced <=> pc[p] \in Unsynced,
           pc'[p] \in Unsynced => pc'[p] = pc[p],
           ~Applying(p), pc[p] \in Holding \/ (at' = at /\ phase' = phase)
    PROVE  DiskInv'
<1>1. ASSUME NEW f \in File, disk'[f] # files'[f]
      PROVE  \E q \in Proc : Applying(q)' /\ phase' \in {"write", "sync"} /\ f = pending'[at'].path
  <2>1. PICK q \in Proc : Applying(q) /\ phase \in {"write", "sync"} /\ f = pending[at].path
    BY <1>1 DEF DiskInv
  <2>2. q # p /\ pc'[q] = pc[q] /\ lock = q
    BY <2>1 DEF RecoveryInv, OneHolder, Applying, Holding, Replaying, Mutating
  <2>3. at' = at /\ phase' = phase
    BY <2>2 DEF RecoveryInv, OneHolder
  <2> QED
    BY <2>1, <2>2, <2>3 DEF Applying
<1>2. \A q \in Proc : pc'[q] \in Unsynced \/ pc[q] \in Unsynced => pc'[q] = pc[q]
  OBVIOUS
<1> QED
  BY <1>1, <1>2 DEF DiskInv, Unsynced

LEMMA DiskStep ==
    ASSUME TypeOK, RecoveryInv, DiskInv, [Next]_vars, ~PowerLoss, Faults \subseteq {"power"}
    PROVE  DiskInv'
<1> USE DEF data, plan, place, call, Go, Answer
<1>1. pc \in [Proc -> Places] /\ files \in [File -> Seq(Texts)] /\ disk \in [File -> Seq(Texts)]
  BY DEF TypeOK
<1>2. \A p, q \in Proc : pc[p] \in Holding /\ pc[q] \in Holding => p = q
  BY DEF RecoveryInv, OneHolder
<1>3. Holding = {"recover", "sweep", "ready", "publish", "persist", "apply", "clearSync",
                 "replay", "replaySync"}
  BY DEF Holding, Mutating, Replaying
<1>4. ASSUME NEW p \in Proc,
             Begin(p) \/ Acquire(p) \/ Recover(p) \/ Sweep(p) \/ Observe(p) \/ Draft(p)
      PROVE  DiskInv'
  <2>1. UNCHANGED <<files, disk, pending, diskPending, before>>
    BY <1>4 DEF Begin, Acquire, Recover, Sweep, Observe, Draft
  <2>2. /\ \A q \in Proc : q # p => pc'[q] = pc[q]
        /\ pc[p] \in {"idle", "waiting", "recover", "sweep", "ready"}
        /\ pc'[p] \in {"idle", "waiting", "recover", "replay", "sweep", "ready", "publish"}
    BY <1>1, <1>4 DEF Begin, Acquire, Recover, Sweep, Observe, Draft
  <2>3. pc[p] \in Holding \/ (at' = at /\ phase' = phase)
    BY <1>3, <1>4 DEF Begin, Acquire, Recover, Sweep, Observe, Draft
  <2> QED
    BY <2>1, <2>2, <2>3, DiskStands DEF Unsynced, Applying
<1>5. ASSUME NEW p \in Proc, pc[p] \in Holding
      PROVE  /\ pc[p] \notin Unsynced => diskPending = pending
             /\ ~(Applying(p) /\ phase \in {"write", "sync"}) => disk = files
  <2>1. \A q \in Proc : pc[q] \in Unsynced \/ Applying(q) => q = p
    BY <1>2, <1>3, <1>5 DEF Unsynced, Applying
  <2>2. pc[p] \notin Unsynced => diskPending = pending
    BY <2>1 DEF DiskInv
  <2>3. ~(Applying(p) /\ phase \in {"write", "sync"}) => \A f \in File : disk[f] = files[f]
    BY <2>1 DEF DiskInv
  <2> QED
    BY <1>1, <2>2, <2>3
<1>6. ASSUME NEW p \in Proc, ApplyStart(p) \/ ApplyWrite(p) \/ ApplySync(p) PROVE DiskInv'
  <2>1. /\ Applying(p) /\ UNCHANGED <<plan, lock, pc, before>>
        /\ pc[p] \in Holding /\ pc[p] \notin Unsynced
    BY <1>3, <1>6 DEF ApplyStart, ApplyWrite, ApplySync, Applying, Unsynced
  <2>2. /\ at \in DOMAIN pending /\ pending[at].path \in File
        /\ PrefixIntact(pending[at], files[pending[at].path])
        /\ pending \in Seq(Writes)
    BY <2>1, CurrentWrite DEF RecoveryInv, TypeOK
  <2>3. \A q \in Proc : pc[q] \notin Unsynced
    BY <1>2, <1>3, <2>1 DEF Unsynced
  <2>4. \A f \in File : f # pending[at].path => disk[f] = files[f]
    BY <1>5, <2>1, <1>2, <1>3 DEF DiskInv, Applying
  <2>5. CASE ApplyStart(p)
    <3>1. PICK c \in Seq(Texts) : files' = [files EXCEPT ![pending[at].path] = c]
      BY <2>5, ApplyStartEffect DEF RecoveryInv
    <3>2. disk = files /\ disk' = disk
      BY <1>5, <2>1, <2>5 DEF ApplyStart
    <3>3. \/ at' = at /\ phase' \in {"write", "sync"}
          \/ files' = files
      BY <1>1, <2>2, <2>5 DEF ApplyStart, SetFile, NextWrite
    <3>4. ASSUME NEW f \in File, disk'[f] # files'[f]
          PROVE  at' = at /\ phase' \in {"write", "sync"} /\ f = pending[at].path
      BY <1>1, <2>2, <3>1, <3>2, <3>3, <3>4
    <3> QED
      BY <2>1, <2>3, <3>2, <3>4 DEF DiskInv, Applying, Unsynced
  <2>6. CASE ApplyWrite(p)
    <3>1. files' = [files EXCEPT ![pending[at].path] = Result(pending[at])]
      BY <2>6, ApplyWriteEffect DEF RecoveryInv
    <3>2. disk' = disk /\ at' = at /\ phase' = "sync"
      BY <2>6 DEF ApplyWrite
    <3>3. ASSUME NEW f \in File, disk'[f] # files'[f] PROVE f = pending[at].path
      BY <1>1, <2>4, <3>1, <3>2, <3>3
    <3> QED
      BY <2>1, <2>3, <3>2, <3>3 DEF DiskInv, Applying, Unsynced
  <2>7. CASE ApplySync(p)
    <3>1. files' = files /\ disk' = [disk EXCEPT ![pending[at].path] = files[pending[at].path]]
      BY <2>7 DEF ApplySync
    <3>2. disk' = files'
      BY <1>1, <2>2, <2>4, <3>1
    <3>3. Valid(pending, files)
      BY DEF RecoveryInv, NeverRefused
    <3> QED
      BY <2>1, <2>3, <3>1, <3>2, <3>3 DEF DiskInv, Unsynced
  <2> QED
    BY <1>6, <2>5, <2>6, <2>7
<1>7. ASSUME NEW p \in Proc, Unlink(p) PROVE DiskInv'
  <2>1. /\ pc[p] \in {"replay", "apply"} /\ at > Len(pending) /\ pending' = <<>>
        /\ UNCHANGED <<files, disk, diskPending, before>>
        /\ \A q \in Proc : q # p => pc'[q] = pc[q]
        /\ pc'[p] \in {"replaySync", "clearSync"}
    BY <1>1, <1>7 DEF Unlink
  <2>2. at \in Nat /\ pending \in Seq(Writes)
    BY DEF TypeOK
  <2>3. disk = files /\ diskPending = pending
    BY <1>3, <1>5, <2>1, <2>2 DEF Applying, Unsynced
  <2>4. \A i \in DOMAIN pending : i < at
    BY <2>1, <2>2
  <2>5. Distinct(pending) /\ \A i \in DOMAIN pending : files[pending[i].path] = Result(pending[i])
    BY <2>1, <2>4 DEF RecoveryInv, NeverRefused, Valid, Progress
  <2>6. \A q \in Proc : pc'[q] # "persist"
    BY <1>2, <1>3, <2>1
  <2>7. Valid(<<>>, disk)
    BY DEF Valid, Distinct
  <2> QED
    BY <2>1, <2>3, <2>5, <2>6, <2>7 DEF DiskInv, Unsynced
<1>8. ASSUME NEW p \in Proc, SyncUnlink(p) PROVE DiskInv'
  <2>1. /\ pc[p] \in {"replaySync", "clearSync"} /\ diskPending' = pending
        /\ UNCHANGED <<files, disk, pending, before>>
        /\ \A q \in Proc : q # p => pc'[q] = pc[q]
        /\ pc'[p] \in {"sweep", "idle"}
    BY <1>1, <1>8 DEF SyncUnlink
  <2>2. disk = files
    BY <1>3, <1>5, <2>1 DEF Applying
  <2>3. \A q \in Proc : pc'[q] \notin Unsynced
    BY <1>2, <1>3, <2>1 DEF Unsynced
  <2> QED
    BY <2>1, <2>2, <2>3 DEF DiskInv, Unsynced
<1>9. ASSUME NEW p \in Proc, Publish(p) PROVE DiskInv'
  <2>1. /\ pc[p] = "publish" /\ pending' = draft /\ before' = files
        /\ UNCHANGED <<files, disk, diskPending>>
        /\ \A q \in Proc : q # p => pc'[q] = pc[q]
        /\ pc'[p] = "persist"
    BY <1>1, <1>9 DEF Publish
  <2>2. pending = <<>> /\ Valid(draft, files)
    BY <2>1 DEF RecoveryInv, NothingPending, DraftMeasured
  <2>3. disk = files /\ diskPending = <<>>
    BY <1>3, <1>5, <2>1, <2>2 DEF Applying, Unsynced
  <2>4. \A f \in File : files[f] \in Seq(Row)
    BY <2>2 DEF RecoveryInv, OutsideWhole, Paths
  <2>5. \A q \in Proc : pc'[q] \in Unsynced => q = p
    BY <1>2, <1>3, <2>1 DEF Unsynced
  <2> QED
    BY <2>1, <2>2, <2>3, <2>4, <2>5 DEF DiskInv, Unsynced
<1>10. ASSUME NEW p \in Proc, Persist(p) PROVE DiskInv'
  <2>1. /\ pc[p] = "persist" /\ diskPending' = pending
        /\ UNCHANGED <<files, disk, pending, before>>
        /\ \A q \in Proc : q # p => pc'[q] = pc[q]
        /\ pc'[p] = "apply"
    BY <1>1, <1>10 DEF Persist
  <2>2. disk = files
    BY <1>3, <1>5, <2>1 DEF Applying
  <2>3. \A q \in Proc : pc'[q] \notin Unsynced
    BY <1>2, <1>3, <2>1 DEF Unsynced
  <2> QED
    BY <2>1, <2>2, <2>3 DEF DiskInv, Unsynced
<1>11. ASSUME NEW p \in Proc, Fail(p) \/ Kill(p) PROVE FALSE
  BY <1>11 DEF Fail, Kill, Fault
<1>12. CASE UNCHANGED vars
  BY <1>12 DEF vars, DiskInv, Applying
<1> QED
  BY <1>4, <1>6, <1>7, <1>8, <1>9, <1>10, <1>11, <1>12 DEF Next, Step

\* What a power loss may leave of a file: what it was, or what the append that was
\* being written to it can still be cut back from.
LEMMA SurvivorKinds ==
    ASSUME TypeOK, RecoveryInv, DiskInv, NEW f \in File, NEW s \in Survivors(f)
    PROVE  \/ disk[f] = files[f] /\ s = files[f]
           \/ /\ at \in DOMAIN pending /\ f = pending[at].path
              /\ s \in Seq(Texts) /\ PrefixIntact(pending[at], s)
<1>1. CASE disk[f] = files[f]
  BY <1>1 DEF Survivors
<1>2. CASE disk[f] # files[f]
  <2>1. PICK p \in Proc : Applying(p) /\ f = pending[at].path
    BY <1>2 DEF DiskInv
  <2>2. at \in DOMAIN pending /\ pending[at] \in Writes /\ PrefixIntact(pending[at], files[f])
    BY <2>1, CurrentWrite DEF RecoveryInv
  <2>3. PrefixIntact(pending[at], disk[f])
    BY <2>1, <2>2 DEF DiskInv, Valid
  <2>4. CASE s \in {disk[f], files[f]}
    BY <2>1, <2>2, <2>3, <2>4 DEF TypeOK
  <2>5. CASE s \notin {disk[f], files[f]}
    <3>1. PICK j \in DOMAIN pending : pending[j].path = f /\ s = Append(pending[j].prefix, Torn)
      BY <2>5 DEF Survivors
    <3>2. j = at
      BY <2>1, <2>2, <3>1 DEF RecoveryInv, NeverRefused, Valid, Distinct
    <3>3. pending[at].prefix \in Seq(Texts) /\ <<Torn>> \in Seq(Texts)
      BY <2>2, SeqMonotonic, Row \subseteq Texts DEF Writes, Texts
    <3>4. s = pending[at].prefix \o <<Torn>>
      BY <3>1, <3>2, <3>3, AppendProperties
    <3> QED
      BY <2>1, <2>2, <3>3, <3>4, IntactPrefix
  <2> QED
    BY <2>4, <2>5
<1> QED
  BY <1>1, <1>2

\* After a power loss no call is in progress and what is seen is what is on disk.
LEMMA PowerFiles ==
    ASSUME TypeOK, RecoveryInv, DiskInv, PowerLoss
    PROVE  /\ files' \in [File -> Seq(Texts)] /\ disk' = files'
           /\ \A f \in File : files'[f] \in Survivors(f)
           /\ \A p \in Proc : pc'[p] = "idle"
<1>1. /\ files' \in [File -> UNION {Survivors(f) : f \in File}]
      /\ \A f \in File : files'[f] \in Survivors(f)
      /\ disk' = files' /\ pc' = [p \in Proc |-> "idle"]
  BY DEF PowerLoss
<1>2. \A f \in File : files'[f] \in Seq(Texts)
  BY <1>1, SurvivorKinds DEF TypeOK
<1> QED
  BY <1>1, <1>2

\* A power loss leaves a plan that can be replayed on files it has not lost, and
\* takes back at most the plan that was not yet on disk.
LEMMA PowerStep ==
    ASSUME TypeOK, RecoveryInv, DiskInv, PowerLoss
    PROVE  /\ Valid(pending', files') /\ OutsideWhole'
           /\ \/ Logical' = Logical
              \/ pending # <<>> /\ pending' = <<>> /\ Logical' = before
           /\ files' # files => diskPending # <<>>
<1>1. /\ files' \in [File -> Seq(Texts)]
      /\ \A f \in File : files'[f] \in Survivors(f)
      /\ pending' \in {pending, diskPending}
  BY PowerFiles DEF PowerLoss
<1>2. /\ files \in [File -> Seq(Texts)] /\ disk \in [File -> Seq(Texts)]
      /\ pending \in Seq(Writes) /\ diskPending \in Seq(Writes)
  BY DEF TypeOK
<1>3. \A f \in File : f \notin Paths(pending) => files'[f] = files[f]
  BY <1>1, SurvivorKinds DEF Paths
<1>4. Valid(pending, files')
  <2>1. /\ Distinct(pending)
        /\ \A i \in DOMAIN pending : /\ pending[i].path \in File
                                     /\ PrefixIntact(pending[i], files[pending[i].path])
    <3>1. \A i \in DOMAIN pending : pending[i] \in Writes
      BY <1>2, LenProperties
    <3> QED
      BY <3>1 DEF RecoveryInv, NeverRefused, Valid, Writes
  <2> SUFFICES ASSUME NEW i \in DOMAIN pending
               PROVE  PrefixIntact(pending[i], files'[pending[i].path])
    BY <2>1 DEF Valid
  <2>2. \/ files'[pending[i].path] = files[pending[i].path]
        \/ /\ at \in DOMAIN pending /\ pending[i].path = pending[at].path
           /\ PrefixIntact(pending[at], files'[pending[i].path])
    BY <1>1, <2>1, SurvivorKinds
  <2> QED
    BY <2>1, <2>2 DEF Distinct
<1>5. ASSUME pending' = pending
      PROVE  Valid(pending', files') /\ OutsideWhole' /\ Logical' = Logical
  BY <1>3, <1>4, <1>5, LogicalStands DEF OutsideWhole, RecoveryInv
<1>6. ASSUME NEW p \in Proc, pc[p] \in Unsynced PROVE files' = files
  <2>1. \A q \in Proc : ~Applying(q)
    BY <1>6 DEF RecoveryInv, OneHolder, Unsynced, Applying, Holding, Mutating, Replaying
  <2>2. \A f \in File : disk[f] = files[f]
    BY <2>1 DEF DiskInv
  <2>3. \A f \in File : files'[f] = files[f]
    BY <1>1, <2>2 DEF Survivors
  <2> QED
    BY <1>1, <1>2, <2>3
<1>7. CASE pending' = pending
  <2>1. files' # files => diskPending # <<>>
    <3> SUFFICES ASSUME files' # files PROVE diskPending # <<>>
      OBVIOUS
    <3>1. diskPending = pending
      BY <1>6 DEF DiskInv
    <3>2. PICK f \in File : files'[f] # files[f]
      BY <1>1, <1>2
    <3>3. pending # <<>>
      BY <1>3, <3>2 DEF Paths
    <3> QED
      BY <3>1, <3>3
  <2> QED
    BY <1>5, <1>7, <2>1
<1>8. CASE pending' # pending
  <2>1. PICK p \in Proc : pc[p] \in Unsynced
    BY <1>1, <1>8 DEF DiskInv
  <2>2. files' = files /\ pending' = diskPending
    BY <1>1, <1>6, <1>8, <2>1
  <2>3. CASE pc[p] = "persist"
    <3>1. pending' = <<>> /\ before = files /\ \A f \in File : files[f] \in Seq(Row)
      BY <2>2, <2>3 DEF DiskInv
    <3>2. Valid(<<>>, files') /\ Logical' = files'
      BY <1>1, <3>1 DEF Valid, Distinct, Logical, Overlay, Paths
    <3> QED
      BY <1>8, <2>2, <3>1, <3>2 DEF OutsideWhole
  <2>4. CASE pc[p] \in {"replaySync", "clearSync"}
    <3>1. pending = <<>>
      BY <2>4 DEF RecoveryInv, NothingPending
    <3>2. /\ Distinct(diskPending)
          /\ \A i \in DOMAIN diskPending : files[diskPending[i].path] = Result(diskPending[i])
      BY <2>4 DEF DiskInv
    <3>3. \A i \in DOMAIN diskPending : PrefixIntact(diskPending[i], Result(diskPending[i]))
      BY <1>2, LenProperties, IntactResult
    <3>4. Valid(pending', files')
      BY <2>2, <3>2, <3>3 DEF Valid
    <3>5. \A f \in File : files[f] \in Seq(Row)
      <4>1. Paths(pending) = {}
        BY <3>1 DEF Paths
      <4> QED
        BY <4>1 DEF RecoveryInv, OutsideWhole
    <3>6. ASSUME NEW f \in File, f \in Paths(diskPending)
          PROVE  Result(WriteTo(diskPending, f)) = files[f]
      <4> DEFINE i == CHOOSE j \in DOMAIN diskPending : diskPending[j].path = f
      <4>1. i \in DOMAIN diskPending /\ diskPending[i].path = f
        BY <3>6 DEF Paths
      <4> QED
        BY <3>2, <4>1 DEF WriteTo
    <3>7. Logical' = files
      BY <1>2, <2>2, <3>6 DEF Logical, Overlay
    <3>8. Logical = files
      BY <3>1, LogicalOfNone
    <3> QED
      BY <2>2, <3>4, <3>5, <3>7, <3>8 DEF OutsideWhole
  <2> QED
    BY <2>1, <2>3, <2>4 DEF Unsynced
<1> QED
  BY <1>7, <1>8

LEMMA PowerKeeps ==
    ASSUME TypeOK, RecoveryInv, DiskInv, PowerLoss
    PROVE  TypeOK' /\ RecoveryInv' /\ DiskInv'
<1>1. /\ files' \in [File -> Seq(Texts)] /\ disk' = files'
      /\ \A p \in Proc : pc'[p] = "idle"
  BY PowerFiles
<1>2. Valid(pending', files') /\ OutsideWhole'
  BY PowerStep
<1>3. TypeOK'
  <2>1. pending' \in Seq(Writes) /\ diskPending' \in Seq(Writes) /\ draft' \in Seq(Writes)
    BY EmptySeq DEF PowerLoss, TypeOK
  <2>2. temps' \subseteq File /\ lock' \in Proc \cup {NoProc} /\ pc' \in [Proc -> Places]
    BY DEF PowerLoss, TypeOK, Places
  <2>3. faults' \in 0..MaxFaults
    BY BoundsAssumption DEF PowerLoss, Fault, TypeOK
  <2>4. answer' \in [Proc -> {"none", "ok", "err"}]
    BY DEF PowerLoss, TypeOK
  <2> QED
    BY <1>1, <2>1, <2>2, <2>3, <2>4 DEF PowerLoss, TypeOK
<1>4. RecoveryInv'
  BY <1>1, <1>2 DEF RecoveryInv, OneHolder, NothingPending, DraftMeasured, NeverRefused, Progress,
     Holding, Mutating, Replaying
<1>5. DiskInv'
  BY <1>1, <1>2 DEF DiskInv, Unsynced, PowerLoss
<1> QED
  BY <1>3, <1>4, <1>5

\* What a step makes of the files as they will be.
LEMMA WholeStep ==
    ASSUME TypeOK, RecoveryInv, DiskInv, [Next]_vars
    PROVE  \/ Logical' = Logical
           \/ pending = <<>> /\ pending' # <<>> /\ before' = Logical
           \/ pending # <<>> /\ pending' = <<>> /\ Logical' = before
<1> USE DEF data, plan, place, call
<1>1. ASSUME NEW p \in Proc,
             \/ Begin(p) \/ Acquire(p) \/ Recover(p) \/ ApplySync(p) \/ SyncUnlink(p)
             \/ Sweep(p) \/ Observe(p) \/ Draft(p) \/ Persist(p) \/ Fail(p) \/ Kill(p)
      PROVE  Logical' = Logical
  <2>1. files' = files /\ pending' = pending
    BY <1>1 DEF Begin, Acquire, Recover, ApplySync, SyncUnlink, Sweep, Observe, Draft, Persist,
       Fail, Kill
  <2> QED
    BY <2>1, LogicalStands
<1>2. ASSUME NEW p \in Proc, ApplyStart(p) \/ ApplyWrite(p) PROVE Logical' = Logical
  <2>1. \E c : files' = [files EXCEPT ![pending[at].path] = c]
    BY <1>2, ApplyStartEffect, ApplyWriteEffect DEF RecoveryInv
  <2>2. pending[at].path \in Paths(pending) /\ files \in [File -> Seq(Texts)]
    BY <1>2, CurrentWrite DEF ApplyStart, ApplyWrite, RecoveryInv, Paths, TypeOK
  <2> QED
    BY <1>2, <2>1, <2>2, LogicalStands DEF ApplyStart, ApplyWrite
<1>3. ASSUME NEW p \in Proc, Unlink(p) PROVE Logical' = Logical
  BY <1>3, LogicalUnlinked
<1>4. ASSUME NEW p \in Proc, Publish(p)
      PROVE  \/ Logical' = Logical
             \/ pending = <<>> /\ pending' # <<>> /\ before' = Logical
  <2>1. pending = <<>> /\ files' = files /\ before' = files
    BY <1>4 DEF Publish, Go, RecoveryInv, NothingPending
  <2>2. Logical = files
    BY <2>1, LogicalOfNone
  <2>3. pending' = pending => Logical' = Logical
    BY <2>1, LogicalStands
  <2> QED
    BY <2>1, <2>2, <2>3
<1>5. CASE PowerLoss
  BY <1>5, PowerStep
<1>6. CASE UNCHANGED vars
  BY <1>6, LogicalStands DEF vars
<1> QED
  BY <1>1, <1>2, <1>3, <1>4, <1>5, <1>6 DEF Next, Step

\* What a step needs on disk: an "ok" has nothing left to sync, and no file
\* changes before its plan is synced.
LEMMA SyncedStep ==
    ASSUME TypeOK, RecoveryInv, DiskInv, [Next]_vars, Faults \subseteq {"power"}
    PROVE  /\ \A p \in Proc : answer[p] # "ok" /\ answer'[p] = "ok"
                 => disk' = files' /\ diskPending' = pending'
           /\ files' # files => diskPending # <<>>
<1> USE DEF data, plan, place, call
<1>1. /\ files \in [File -> Seq(Texts)] /\ disk \in [File -> Seq(Texts)]
      /\ answer \in [Proc -> {"none", "ok", "err"}] /\ pending \in Seq(Writes)
  BY DEF TypeOK
<1>2. ASSUME NEW p \in Proc,
             \/ Begin(p) \/ Acquire(p) \/ Recover(p) \/ Unlink(p) \/ Sweep(p) \/ Draft(p)
             \/ Publish(p) \/ Persist(p) \/ ApplySync(p)
      PROVE  files' = files /\ \A q \in Proc : answer[q] # "ok" => answer'[q] # "ok"
  BY <1>1, <1>2 DEF Begin, Acquire, Recover, Unlink, Sweep, Draft, Publish, Persist, ApplySync,
     Answer
<1>3. ASSUME NEW p \in Proc, SyncUnlink(p) \/ Observe(p)
      PROVE  files' = files /\ disk' = files' /\ diskPending' = pending'
  <2>1. /\ pc[p] \in {"ready", "replaySync", "clearSync"}
        /\ UNCHANGED <<files, disk, pending>>
        /\ diskPending' = pending \/ (pc[p] = "ready" /\ diskPending' = diskPending)
    BY <1>3 DEF SyncUnlink, Observe, Go
  <2>2. \A q \in Proc : ~Applying(q) /\ (pc[p] = "ready" => pc[q] \notin Unsynced)
    BY <2>1 DEF RecoveryInv, OneHolder, Holding, Mutating, Replaying, Applying, Unsynced
  <2>3. \A f \in File : disk[f] = files[f]
    BY <2>2 DEF DiskInv
  <2>4. disk = files
    BY <1>1, <2>3
  <2>5. pc[p] = "ready" => diskPending = pending
    BY <2>2 DEF DiskInv
  <2> QED
    BY <2>1, <2>4, <2>5
<1>4. ASSUME NEW p \in Proc, ApplyStart(p) \/ ApplyWrite(p)
      PROVE  diskPending # <<>> /\ answer' = answer
  <2>1. Applying(p) /\ answer' = answer
    BY <1>4 DEF ApplyStart, ApplyWrite
  <2>2. \A q \in Proc : pc[q] \notin Unsynced
    BY <2>1 DEF RecoveryInv, OneHolder, Holding, Mutating, Replaying, Applying, Unsynced
  <2>3. diskPending = pending /\ at \in DOMAIN pending
    BY <2>1, <2>2, CurrentWrite DEF DiskInv, RecoveryInv
  <2> QED
    BY <2>1, <2>3
<1>5. ASSUME NEW p \in Proc, Fail(p) \/ Kill(p) PROVE FALSE
  BY <1>5 DEF Fail, Kill, Fault
<1>6. CASE PowerLoss
  <2>1. \A q \in Proc : answer[q] # "ok" => answer'[q] # "ok"
    BY <1>1, <1>6 DEF PowerLoss
  <2> QED
    BY <1>6, <2>1, PowerStep
<1>7. CASE UNCHANGED vars
  BY <1>7 DEF vars
<1> QED
  BY <1>2, <1>3, <1>4, <1>5, <1>6, <1>7 DEF Next, Step

LEMMA PowerInductive ==
    ASSUME Faults \subseteq {"power"}
    PROVE  Spec => [](IInv /\ DiskInv)
<1>1. Init => IInv /\ DiskInv
  <2>1. Init => DiskInv
    <3> SUFFICES ASSUME Init PROVE DiskInv
      OBVIOUS
    <3>1. Valid(<<>>, disk)
      BY DEF Valid, Distinct
    <3> QED
      BY <3>1 DEF Init, DiskInv
  <2> QED
    BY <2>1, InitIInv
<1>2. IInv /\ DiskInv /\ [Next]_vars => IInv' /\ DiskInv'
  <2>1. IInv /\ DiskInv /\ [Next]_vars /\ ~PowerLoss => IInv' /\ DiskInv'
    BY TypeStep, RecoveryStep, DiskStep DEF IInv
  <2>2. IInv /\ DiskInv /\ PowerLoss => IInv' /\ DiskInv'
    BY PowerKeeps DEF IInv
  <2> QED
    BY <2>1, <2>2
<1> QED
  BY <1>1, <1>2, PTL DEF Spec

\* When power is lost between any two steps of a call or of a recovery, the plan on
\* disk can be replayed, and every step keeps the files whole: it publishes a plan,
\* changes nothing that was promised, or takes an unanswered plan back entirely
\* (store/transaction.rs: commit, recover).
THEOREM PlansSurvivePower ==
    ASSUME Faults \subseteq {"power"}
    PROVE  Spec => PlansSurvive
<1>1. IInv => NeverRefused
  BY DEF IInv, RecoveryInv
<1>2. IInv /\ DiskInv /\ [Next]_vars =>
        [\/ Logical' = Logical
         \/ pending = <<>> /\ pending' # <<>> /\ before' = Logical
         \/ pending # <<>> /\ pending' = <<>> /\ Logical' = before]_vars
  BY WholeStep DEF IInv
<1> QED
  BY <1>1, <1>2, PowerInductive, PTL DEF Spec, PlansSurvive, WholePlans

\* What is answered is on disk, and no file changes before its plan is there
\* (store/transaction.rs: commit; atomic.rs: sync_parents).
THEOREM AnswersSynced ==
    ASSUME Faults \subseteq {"power"}
    PROVE  Spec => Synced
<1>1. IInv /\ DiskInv /\ [Next]_vars =>
        [\A p \in Proc : answer[p] # "ok" /\ answer'[p] = "ok"
            => disk' = files' /\ diskPending' = pending']_vars
  BY SyncedStep DEF IInv
<1>2. IInv /\ DiskInv /\ [Next]_vars => [files' # files => diskPending # <<>>]_vars
  BY SyncedStep DEF IInv
<1> QED
  BY <1>1, <1>2, PowerInductive, PTL DEF Spec, Synced, SyncedAnswer, PersistedBeforeChange
=============================================================================
