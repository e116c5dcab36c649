---------------------------- MODULE MCOutBufAll ----------------------------
(* A connection in one of two kinds of program, chosen at the start: one     *)
(* whose handlers write their response in one call, whose responses arrive   *)
(* whole, and one with every kind of handler, for what holds of them all.    *)
EXTENDS MCOutBuf

VARIABLE kinds

(* Bounds: three requests on a connection with the first kind, two with the  *)
(* other.                                                                    *)
Kinds == [one |-> [handlers |-> OneWrite, requests |-> 3],
          all |-> [handlers |-> AllHandlers, requests |-> 2]]

Allowed ==
    pc = "loop" /\ pc' = "handler" =>
      /\ requests < Kinds[kinds].requests
      /\ \E h \in Kinds[kinds].handlers : calls' = h.calls /\ (h.http => to_close')

MCInit == Init /\ kinds \in DOMAIN Kinds
MCNext == Next /\ UNCHANGED kinds /\ Allowed
MCSpec ==
    /\ MCInit /\ [][MCNext]_<<vars, kinds>>
    /\ WF_vars(Thread) /\ WF_vars(TakesSome) /\ WF_vars(ReadEof)

(* Responses of one write reach a peer that stays, whole: the server does    *)
(* not close first.  (DF_TO_CLOSE, set by request_handle before the handler  *)
(* writes, and acted on by every axil_write_remaining.)                      *)
OneWriteComplete == kinds = "one" => ResponseComplete

(* With responses of one write, a marked connection is closed in the end.    *)
(* (Nothing but a flush of bytes that are left ever closes it.)              *)
OneWriteCloses == kinds = "one" => ClosesInTheEnd

(* With responses of one write, axil_write returns: the growth loop of       *)
(* axil_rem_may_inc ends.                                                    *)
OneWriteReturns == kinds = "one" => WriteReturns
=============================================================================
