----------------------------- MODULE VersionClock -----------------------------
(***************************************************************************)
(* What the memory store promises about version numbers: each path has a   *)
(* clock, a live document shows the clock of its path, and a mutation of a *)
(* document ticks it once.  A clock never goes back.                       *)
(***************************************************************************)
EXTENDS Naturals

CONSTANT Path

VARIABLES
    mark,   \* the last number given on each path, 0 when none was
    shown   \* the version of the live document, 0 when there is none

Init ==
    /\ mark \in [Path -> Nat]
    /\ shown \in [Path -> Nat]
    /\ \A p \in Path : shown[p] \in {0, mark[p]}

Tick(p) == mark' = [mark EXCEPT ![p] = @ + 1]

\* Create or overwrite.
Put(p) == Tick(p) /\ shown' = [shown EXCEPT ![p] = mark'[p]]

Remove(p) ==
    /\ shown[p] # 0
    /\ Tick(p)
    /\ shown' = [shown EXCEPT ![p] = 0]

Move(p, q) ==
    /\ shown[p] # 0 /\ shown[q] = 0
    /\ mark' = [mark EXCEPT ![p] = @ + 1, ![q] = @ + 1]
    /\ shown' = [shown EXCEPT ![p] = 0, ![q] = mark'[q]]

\* Clocks start where a restored archive left them.
Load ==
    /\ \A p \in Path : mark[p] = 0
    /\ mark' \in [Path -> Nat] /\ shown' \in [Path -> Nat]
    /\ \A p \in Path : shown'[p] \in {0, mark'[p]}

Next == \/ \E p \in Path : Put(p) \/ Remove(p)
        \/ \E p, q \in Path : Move(p, q)
        \/ Load

Spec == Init /\ [][Next]_<<mark, shown>>
===============================================================================
