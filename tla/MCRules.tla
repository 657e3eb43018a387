------------------------------ MODULE MCRules ------------------------------
(***************************************************************************)
(* Every algorithm over its bounded inputs: one step an input.             *)
(***************************************************************************)
EXTENDS Serving, ClientFiles, Profiles, Skills, Heat, NativeMemory,
        Search, Reading, Inbox, Operator

CONSTANTS na, nb

\* The paths of a collection; "A" differs from "a" by case only.
CollectionOrder == <<".collection", "A", "a", "b">>
CollectionFolds == [p \in {".collection", "A", "a", "b"} |-> IF p = "A" THEN "a" ELSE p]

\* Two documents and two conversations.
CopiedPaths == <<"p", "q">>
ListedConversations == <<"c", "d">>

Families == {"native", "client", "profile", "inbox", "operator", "heat", "skill",
             "knowledge", "transfer", "reading", "search", "serving"}
Init == input \in Of("none", Families)

\* The first step takes the input.
Takes(family, inputs) == Is("none") /\ input.in = family /\ input' \in inputs
Next ==
    \/ Takes("native", NativeInputs)
    \/ Takes("client", ClientInputs)
    \/ Takes("profile", ProfileInputs)
    \/ Takes("inbox", InboxInputs)
    \/ Takes("operator", OperatorInputs)
    \/ Takes("heat", HeatInputs)
    \/ Takes("skill", SkillInputs)
    \/ Takes("knowledge", KnowledgeInputs)
    \/ Takes("transfer", TransferInputs)
    \/ Takes("reading", ReadingInputs)
    \/ Takes("search", SearchInputs)
    \/ Takes("serving", ServingInputs)
Spec == Init /\ [][Next]_input

\* What a session is shown of documents, turns and messages is what stands in
\* the store, once and within its budget.
ShownRules ==
    /\ HeatIsTheReads
    /\ SearchRules
    /\ ReadingRules
    /\ InboxRules
=============================================================================
