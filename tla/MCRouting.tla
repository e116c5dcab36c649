----------------------------- MODULE MCRouting -----------------------------
(* A request is routed, or the loop of pattern_match runs by itself on short *)
(* strings, with fewer parameters and shorter values than the code has, so   *)
(* that both limits are reached.                                             *)
EXTENDS MCRoute, PatternMatch

VARIABLE which      \* "request" or "loop"

NoRequest ==
    /\ hdlr_hd = {} /\ method = "GET" /\ document_uri = <<>>
    /\ resource = "nothing" /\ plain = FALSE /\ has_default = FALSE
    /\ at = "done" /\ line = <<>> /\ todo = {} /\ best = {}
    /\ served = NoOne /\ asked = <<>>

NoLoop ==
    /\ pattern = <<>> /\ document = <<>> /\ pat = 1 /\ path = 1
    /\ m = <<>> /\ result = -1

MCInit ==
    \/ which = "request" /\ Init /\ NoLoop
    \/ which = "loop" /\ LoopInit /\ NoRequest

MCNext ==
    \/ which = "request" /\ Next /\ UNCHANGED <<which, loop>>
    \/ which = "loop" /\ LoopNext /\ UNCHANGED <<which, vars>>

MCSpec ==
    /\ MCInit /\ [][MCNext]_<<which, vars, loop>>
    /\ WF_<<which, loop>>(which = "loop" /\ LoopNext /\ UNCHANGED <<which, vars>>)

(* The loop ends: every turn moves on in both strings or returns.            *)
LoopReturns == which = "loop" => Returned
=============================================================================
