----------------------------- MODULE AtomicStore -----------------------------
(***************************************************************************)
(* What the file store promises its callers: every call takes effect at    *)
(* one instant or not at all.  A mutation is a sequence of requests, one   *)
(* per file; a call that is answered "ok" has landed whole, a call that is *)
(* answered "err" or whose process dies may or may not have landed, and a  *)
(* read returns the state some whole number of mutations left.             *)
(***************************************************************************)
EXTENDS StoreData

CONSTANT Proc   \* the processes that call the store

-----------------------------------------------------------------------------
VARIABLES
    store,    \* the content of every file
    state,    \* each caller is "idle", "busy", or its mutation has "landed"
    ask,      \* what each caller asked for last
    seen,     \* what each caller's last read returned
    answer    \* how each caller was answered

vars == <<store, state, ask, seen, answer>>

Init ==
    /\ store = Blank
    /\ state = [p \in Proc |-> "idle"]
    /\ ask = [p \in Proc |-> Read]
    /\ seen = [p \in Proc |-> Blank]
    /\ answer = [p \in Proc |-> "none"]

Call(p, r) ==
    /\ state[p] = "idle"
    /\ state' = [state EXCEPT ![p] = "busy"]
    /\ ask' = [ask EXCEPT ![p] = r]
    /\ seen' = [seen EXCEPT ![p] = Blank]
    /\ answer' = [answer EXCEPT ![p] = "none"]
    /\ UNCHANGED store

\* The one instant at which a mutation takes effect.
Land(p) ==
    /\ state[p] = "busy"
    /\ ask[p] # Read
    /\ Distinct(ask[p])
    /\ store' = Effect(ask[p], store)
    /\ state' = [state EXCEPT ![p] = "landed"]
    /\ UNCHANGED <<ask, seen, answer>>

Ends(p, how) ==
    /\ state[p] # "idle"
    /\ state' = [state EXCEPT ![p] = "idle"]
    /\ answer' = [answer EXCEPT ![p] = how]
    /\ UNCHANGED <<store, ask>>

Observe(p) ==
    /\ ask[p] = Read
    /\ seen' = [seen EXCEPT ![p] = store]
    /\ Ends(p, "ok")

Confirm(p) ==
    /\ state[p] = "landed"
    /\ Ends(p, "ok")
    /\ UNCHANGED seen

\* An error answer, and a process's death, say nothing of the mutation.
Abort(p) == Ends(p, "err") /\ UNCHANGED seen
Die(p)   == Ends(p, "none") /\ UNCHANGED seen

Next ==
    \E p \in Proc :
        \/ \E r \in Requests \cup {Read} : Call(p, r)
        \/ Land(p)
        \/ Observe(p)
        \/ Confirm(p)
        \/ Abort(p)
        \/ Die(p)

Spec == Init /\ [][Next]_vars
=============================================================================
