----------------------------- MODULE MCWsFrame -----------------------------
(* Frames for TLC: an empty and a short one, one with an extended length,    *)
(* whose value is larger when it is misread, and a close.                    *)
EXTENDS WsFrame

AllFrames ==
    [kind : {"short"}, len : {0, 2}] \cup {[kind |-> "long", len |-> 2]}
      \cup {[kind |-> "close", len |-> 0]}

Doubled == [n \in {0, 2} |-> 2 * n + 1]
=============================================================================
