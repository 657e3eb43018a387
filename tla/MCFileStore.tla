----------------------------- MODULE MCFileStore -----------------------------
EXTENDS FileStore, TLC

CONSTANTS p1, p2, t1, t2

\* A scope an earlier binary wrote: one document, one deleted.
Older ==
    [docs    |-> (p1 :> DocOf(2, t2, "plain") @@ p2 :> NoDoc),
     journal |-> (p1 :> <<RowOf(1, "created", t1, "plain"),
                          RowOf(2, "modified", t2, "plain")>>
               @@ p2 :> <<RowOf(1, "created", t1, "plain"),
                          RowOf(2, "deleted", t1, "plain")>>),
     trail   |-> <<>>]

\* A document planted by hand without a journal, beside an erased one.
Planted ==
    [docs    |-> (p1 :> DocOf(3, t1, "plain") @@ p2 :> DocOf(1, Cleared, "redacted")),
     journal |-> (p1 :> <<>> @@ p2 :> <<RowOf(1, "created", Cleared, "redacted")>>),
     trail   |-> <<[path |-> p2, count |-> 1]>>]

MCHomes == {Blank, Older, Planted}
==============================================================================
