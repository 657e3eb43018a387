------------------------------ MODULE MCRedoLog ------------------------------
(* Two processes, a document and its journal, a write, a deletion and a    *)
(* plan that names one file twice.                                         *)
EXTENDS RedoLog

CONSTANTS doc, log, a, b

MCFile == {doc, log}
MCRow == {a, b}

Ask(op, path, text) == [path |-> path, op |-> op, text |-> text]

WriteDocument == <<Ask("append", log, a), Ask("put", doc, b)>>
DeleteDocument == <<Ask("append", log, b), Ask("remove", doc, b)>>
TwiceNamed == <<Ask("append", log, a), Ask("append", log, b)>>

MCRequests == {WriteDocument, DeleteDocument, TwiceNamed}
=============================================================================
