------------------------------ MODULE MCMailbox ------------------------------
EXTENDS Mailbox, TLC

CONSTANTS s1, s2, t1, t2, t3

\* Work for s1 that s2 asks for, may withdraw and may inherit.
MCLetters ==
    {[to |-> s1, from |-> s2, delivery |-> "wake", actionable |-> TRUE]}
MCSuccessions == {<<s2, s1>>}
==============================================================================
