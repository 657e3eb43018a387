------------------------------ MODULE StoreData ------------------------------
(***************************************************************************)
(* The data of the file store: files as sequences of texts, and mutations  *)
(* as sequences of requests to put, append to or remove a file.            *)
(***************************************************************************)
EXTENDS Naturals, Sequences

CONSTANTS
    File,      \* the paths a redo plan may name
    Row,       \* a written text: one row of a journal, one body of a document
    Requests   \* the mutations that callers ask for

\* A file is the sequence of texts it holds; a missing file holds none.
Missing == <<>>

\* The call that only reads.
Read == <<>>

IsRequest(r) ==
    r \in Seq([path : File, op : {"put", "append", "remove"}, text : Row])

ASSUME RequestsAssumption == \A r \in Requests : IsRequest(r) /\ r # Read

Paths(r) == {r[i].path : i \in DOMAIN r}

\* No two writes of one mutation name the same file.
Distinct(r) ==
    \A i, j \in DOMAIN r : r[i].path = r[j].path => i = j

\* What one request makes of the content it finds.
Written(q, content) ==
    CASE q.op = "put"    -> <<q.text>>
      [] q.op = "append" -> Append(content, q.text)
      [] q.op = "remove" -> Missing

\* The write of r that names f.
WriteTo(r, f) == r[CHOOSE i \in DOMAIN r : r[i].path = f]

Effect(r, files) ==
    [f \in File |->
        IF f \in Paths(r) THEN Written(WriteTo(r, f), files[f]) ELSE files[f]]

Blank == [f \in File |-> Missing]
=============================================================================
