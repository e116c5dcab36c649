------------------------------- MODULE MCExec -------------------------------
(* Commands for TLC to run, and two worlds to run them in: one where nothing *)
(* goes wrong but the client, and one where everything does.                 *)
EXTENDS Exec

UpTo3 == UNION {[1 .. n -> {"out", "err"}] : n \in 0 .. 3}

TameAndWild == {[nonblocking |-> w, forkFails |-> w, stalls |-> TRUE] : w \in BOOLEAN}
=============================================================================
