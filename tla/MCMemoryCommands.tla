--------------------------- MODULE MCMemoryCommands ---------------------------
EXTENDS Upkeep, TLC

CONSTANTS a1, a2, p1, p2, t1, t2

Symmetric == Permutations({a1, a2}) \cup Permutations({p1, p2})

\* A scope with two documents of the same text, and a journal each.
Twins ==
    [docs    |-> [p \in Path |-> DocOf(1, t1, "plain")],
     journal |-> [p \in Path |-> <<RowOf(1, "created", t1, "plain")>>],
     trail   |-> <<>>]

MCHomes == {Blank, Twins}
===============================================================================
