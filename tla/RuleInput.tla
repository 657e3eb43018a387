------------------------------ MODULE RuleInput ------------------------------
(***************************************************************************)
(* The pure algorithms of neosian are operators; the modules that hold them *)
(* check them over bounded inputs.  The one variable is the input: a record *)
(* whose field rule names the algorithm it is for.                         *)
(***************************************************************************)
VARIABLE input

CONSTANT Unset   \* a field that is absent or null

Of(rule, inputs) == [rule : {rule}, in : inputs]
Is(rule) == input.rule = rule
=============================================================================
