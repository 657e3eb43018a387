----------------------------- MODULE FeedReaders -----------------------------
(***************************************************************************)
(* The two readers the change feed has, each against the same writers: a   *)
(* host that follows it, or an exporter whose bundles a replica applies.   *)
(* A behaviour has one of them, chosen at the start.                       *)
(***************************************************************************)
EXTENDS Exchange

NoExchange ==
    /\ export = NotExporting /\ bundles = {}
    /\ replica = NoFiles /\ receipt = NoReceipt /\ edits = <<>> /\ was = <<>>

ReadersInit == (FeedInit /\ NoExchange) \/ ExchangeInit

Following == host # "away"

ReadersNext ==
    \/ Following /\ FeedNext /\ UNCHANGED <<exchange, was>>
    \/ ~Following /\ ExchangeNext

ReadersSpec ==
    /\ ReadersInit /\ [][ReadersNext]_exchangeVars
    /\ WF_exchangeVars(Following /\ Follow(TRUE) /\ UNCHANGED <<exchange, was>>)
    /\ WF_exchangeVars(MeetGap /\ UNCHANGED <<exchange, was>>)
    /\ WF_exchangeVars(List /\ UNCHANGED <<exchange, was>>)
===============================================================================
