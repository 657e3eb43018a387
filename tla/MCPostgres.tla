----------------------------- MODULE MCPostgres -----------------------------
EXTENDS Postgres
CONSTANTS ann, ben, cal, P1, P2
MCPath == {P1, P2}
Q(kind, p, to, fence) == [kind |-> kind, path |-> p, to |-> to, fence |-> fence]
Write(p, fence) == Q("write", p, p, fence)
On(kind, p) == Q(kind, p, p, NoFence)
Move(p, q) == Q("rename", p, q, NoFence)
Some == {Write(P1, NoFence), Write(P1, 1), On("delete", P1), Move(P1, P2),
         On("redact", P1), On("turn", P1)}
Others == Some \cup {On("restore", P2), Move(P2, P1), Write(P2, NoFence), On("prune", P1)}
\* Every pair of calls, and three that race for one version.
MCPlans == {[c \in {ann, ben} |-> IF c = ann THEN a ELSE b] : a \in Some, b \in Others}
    \cup {[c \in {ann, ben, cal} |-> IF c = ann THEN a ELSE IF c = ben THEN b ELSE Write(P1, 1)] :
              a \in {Write(P1, 1)}, b \in {On("redact", P1), Move(P1, P2)}}
=============================================================================
