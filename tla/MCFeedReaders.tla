----------------------------- MODULE MCFeedReaders ----------------------------
EXTENDS FeedReaders, TLC

CONSTANTS p1, p2, t1

\* One document an earlier binary wrote, before anything was tracked.
Older ==
    [docs    |-> (p1 :> DocOf(1, t1, "plain") @@ p2 :> NoDoc),
     journal |-> (p1 :> <<RowOf(1, "created", t1, "plain")>> @@ p2 :> <<>>),
     trail   |-> <<>>]

MCHomes == {Blank, Older}
===============================================================================
