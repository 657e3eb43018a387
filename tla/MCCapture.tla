----------------------------- MODULE MCCapture -----------------------------
(* Sessions of one scope: a Claude Code one that hands off and a Cursor    *)
(* one; both continue.  For the note that goes astray: one that hands off, *)
(* one that only stops, one that continues.                                *)
EXTENDS Capture, TLC
CONSTANTS s1, s2, s3
MCFires == s1 :> {"stop", "handoff", "continue"}
        @@ s2 :> {"assistant", "stop", "halt", "continue"}
MCEvents == s1 :> 3 @@ s2 :> 2
MCAstrayFires == s1 :> {"stop", "handoff"} @@ s2 :> {"stop"} @@ s3 :> {"stop", "continue"}
MCAstrayEvents == s1 :> 2 @@ s2 :> 1 @@ s3 :> 2
=============================================================================
