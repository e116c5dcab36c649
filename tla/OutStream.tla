----------------------------- MODULE OutStream -----------------------------
(***************************************************************************)
(* What a libaxil descriptor promises to whoever writes to it: a FIFO byte *)
(* stream.  Byte k handed to axil_write on a connection is the number k;   *)
(* the stream keeps what the kernel has not taken yet, hands it over in    *)
(* order, and a descriptor marked to be closed is closed only when nothing *)
(* is left to hand over, unless the peer is gone.  OutBuf, which models    *)
(* the buffer of libaxil.c, implements this module.                        *)
(***************************************************************************)
EXTENDS Naturals, Sequences

VARIABLES
    phase,      \* "open", "closing" (marked) or "closed"
    written,    \* number of bytes accepted from the writer
    queue,      \* bytes accepted and not yet taken by the kernel
    sent,       \* bytes the kernel took, in order
    broken      \* the peer has gone away

vars == <<phase, written, queue, sent, broken>>

Fresh ==
    /\ phase' = "open"
    /\ written' = 0
    /\ queue' = <<>>
    /\ sent' = <<>>
    /\ broken' = FALSE

Init ==
    /\ phase = "open"
    /\ written = 0
    /\ queue = <<>>
    /\ sent = <<>>
    /\ broken = FALSE

(* The writer adds bytes at the tail; the kernel may take a prefix of what is *)
(* queued in the same call, unless the peer is gone.                          *)
Write ==
    /\ phase # "closed"
    /\ written' \in Nat
    /\ written' >= written
    /\ LET added == [i \in 1 .. written' - written |-> written + i]
           all   == queue \o added
       IN \E k \in 0 .. (IF broken THEN 0 ELSE Len(all)) :
            /\ sent' = sent \o SubSeq(all, 1, k)
            /\ queue' = SubSeq(all, k + 1, Len(all))
    /\ UNCHANGED <<phase, broken>>

(* The kernel takes k bytes off the head; a stream being closed is closed by *)
(* the delivery that empties it.                                             *)
Deliver ==
    /\ ~broken
    /\ \E k \in 1 .. Len(queue) :
         /\ sent' = sent \o SubSeq(queue, 1, k)
         /\ queue' = SubSeq(queue, k + 1, Len(queue))
         /\ phase' = IF phase = "closing" /\ k = Len(queue)
                     THEN "closed" ELSE phase
    /\ UNCHANGED <<written, broken>>

MarkClosing ==
    /\ phase = "open"
    /\ phase' = "closing"
    /\ UNCHANGED <<written, queue, sent, broken>>

CloseEmpty ==
    /\ phase # "closed"
    /\ queue = <<>>
    /\ phase' = "closed"
    /\ UNCHANGED <<written, queue, sent, broken>>

PeerGone ==
    /\ broken' = TRUE
    /\ UNCHANGED <<phase, written, queue, sent>>

(* Only a peer that is gone excuses dropping queued bytes. *)
Break ==
    /\ broken
    /\ phase # "closed"
    /\ phase' = "closed"
    /\ queue' = <<>>
    /\ UNCHANGED <<written, sent, broken>>

Accept ==
    /\ phase = "closed"
    /\ Fresh

Next == Write \/ Deliver \/ MarkClosing \/ CloseEmpty \/ PeerGone \/ Break \/ Accept

Spec == Init /\ [][Next]_vars
=============================================================================
