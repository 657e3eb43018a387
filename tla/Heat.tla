-------------------------------- MODULE Heat --------------------------------
(***************************************************************************)
(* Read heat (memory/heat): a log beside the store of which reader read      *)
(* which document.  A row is a read, or the fold of the reads of a path that *)
(* are older than a month.  Writing is best effort and rows are lost when a  *)
(* process dies or another one rewrites the log; here one process at a time  *)
(* writes.  A path stands for a scope and the document in it.               *)
(***************************************************************************)
EXTENDS RuleInput, Integers, Sequences, FiniteSets, FiniteSetsExt

WeekDays == 1     \* 7 and 30 in the code
MonthDays == 2
ReadRow(at, reader, path) == [fold |-> FALSE, at |-> at, reader |-> reader, path |-> path]
FoldRow(path, readers, last) == [fold |-> TRUE, readers |-> readers, at |-> last, path |-> path]
RowsOn(log, path) == {k \in DOMAIN log : log[k].path = path}
ReadersOf(log, ks) == {log[k].reader : k \in {k \in ks : ~log[k].fold}}
LatestOf(log, ks) == Max({log[k].at : k \in ks})
FoldedReaders(log, ks) == MapThenSumSet(LAMBDA k : log[k].readers, {k \in ks : log[k].fold})
\* Distinct readers by their last read; folds count in the total alone.
CountsOf(log, path, now) ==
    LET rows == RowsOn(log, path)
        since(days) == Cardinality({r \in ReadersOf(log, rows) :
            LatestOf(log, {k \in rows : ~log[k].fold /\ log[k].reader = r}) >= now - days}) IN
    [week |-> since(WeekDays), month |-> since(MonthDays),
     total |-> Cardinality(ReadersOf(log, rows)) + FoldedReaders(log, rows),
     last |-> IF rows = {} THEN Unset ELSE LatestOf(log, rows)]
Path == {"p", "q"}
PathOrder == <<"p", "q">>
Reader == {"r", "s"}
\* Mutant: a row of exactly a month is folded too.
OldInclusive(row, now) == ~row.fold /\ row.at <= now - MonthDays
Old(row, now) == ~row.fold /\ row.at < now - MonthDays
\* Rows older than the month become one fold a path, with the folds before them.
Compacted(log, now) ==
    LET due(path) == {k \in RowsOn(log, path) : log[k].fold \/ Old(log[k], now)}
        fold(path) == FoldRow(path, Cardinality(ReadersOf(log, due(path))) + FoldedReaders(log, due(path)),
                              LatestOf(log, due(path)))
        named == SelectSeq(PathOrder, LAMBDA p : due(p) # {}) IN
    [k \in DOMAIN named |-> fold(named[k])] \o SelectSeq(log, LAMBDA row : ~row.fold /\ ~Old(row, now))
\* Mutant: only the reads of a path are forgotten.
ForgottenReads(log, path) == SelectSeq(log, LAMBDA row : row.fold \/ row.path # path)
Forgotten(log, path) == SelectSeq(log, LAMBDA row : row.path # path)
Renamed(log, old, new) ==
    LET moved == SelectSeq(log, LAMBDA row : row.path = old) IN
    Forgotten(log, old) \o [k \in DOMAIN moved |-> [moved[k] EXCEPT !.path = new]]

\* reads are the reads that were logged, under the name their document has now;
\* seen is what the server will not log again.
HeatEvent(s, e) ==
    CASE e.do = "read" ->
           IF <<e.reader, e.path>> \in s.seen THEN s
           ELSE [s EXCEPT !.log = Append(@, ReadRow(s.now, e.reader, e.path)), !.seen = @ \cup {<<e.reader, e.path>>},
                          !.reads = @ \cup {<<e.reader, e.path, s.now>>}]
      [] e.do = "compact" -> [s EXCEPT !.log = Compacted(@, s.now)]
      [] e.do = "forget" -> [s EXCEPT !.log = Forgotten(@, e.path), !.reads = {x \in @ : x[2] # e.path}]
      [] e.do = "rename" -> [s EXCEPT !.log = Renamed(@, e.path, IF e.path = "p" THEN "q" ELSE "p"),
                                      !.reads = {<<x[1], IF x[2] = e.path THEN (IF e.path = "p" THEN "q" ELSE "p") ELSE x[2], x[3]>> : x \in @}]
      [] e.do = "restart" -> [s EXCEPT !.seen = {}]
      [] e.do = "tick" -> [s EXCEPT !.now = @ + e.days]
RECURSIVE HeatLife(_, _)
HeatLife(s, events) == IF events = <<>> THEN s ELSE HeatLife(HeatEvent(s, Head(events)), Tail(events))
\* However often the log was compacted, restarted, renamed or forgotten in, a
\* document's week, month and last read are those of the reads logged for it, its
\* total misses no reader, and a document that was forgotten has left no row.
HeatIsTheReads ==
    Is("heat") =>
      LET s == HeatLife([log |-> <<>>, now |-> 0, seen |-> {}, reads |-> {}], input.in.events) IN
      \A p \in Path :
         LET reads == {x \in s.reads : x[2] = p}
             since(days) == {x[1] : x \in {x \in reads : x[3] >= s.now - days}}
             counts == CountsOf(s.log, p, s.now) IN
         /\ counts.week = Cardinality(since(WeekDays)) /\ counts.month = Cardinality(since(MonthDays))
         /\ counts.total >= Cardinality({x[1] : x \in reads})
         /\ counts.last = IF reads = {} THEN Unset ELSE Max({x[3] : x \in reads})
         /\ reads = {} => RowsOn(s.log, p) = {}

HeatInputs ==
    LET others == [do : {"compact", "restart"}] \cup [do : {"forget", "rename"}, path : Path]
                  \cup [do : {"tick"}, days : {1, 2}] \cup [do : {"read"}, reader : Reader, path : Path]
        read == [do |-> "read", reader |-> "r", path |-> "p"] IN
    Of("heat", [events : {<<read>> \o es : es \in [1..4 -> others]}])
    \cup Of("heat", [events : {<<read, [do |-> "tick", days |-> 2]>> \o es : es \in [1..3 -> others]}])
    \cup Of("heat", [events : {<<read, [do |-> "tick", days |-> 3], [do |-> "compact"]>> \o es : es \in [1..4 -> others]}])
=============================================================================
