------------------------------- MODULE MCWs -------------------------------
(* The two directions of a websocket, which share nothing but the            *)
(* descriptor: frames that come in, or frames that go out.                   *)
EXTENDS MCWsFrame

CONSTANTS
    Lengths,            \* of the messages that are sent
    Small, Medium,      \* 126 and 1 << 16, or less
    Misplaced(_),       \* a length of 1 << 16 or more, as it comes out
    MaxWrites           \* bound: messages

ASSUME OutAssumption ==
    /\ Lengths \subseteq Nat /\ \A n \in Lengths : Misplaced(n) \in Nat
    /\ Small \in Nat /\ Medium \in Nat /\ MaxWrites \in Nat

VARIABLES
    way,            \* "in" or "out"
    ws_flags, remaining, to_close, writable, wire, written, whole

out == <<ws_flags, remaining, to_close, writable, wire, written, whole>>

Out == INSTANCE WsWrite WITH Swapped <- Misplaced, open <- writable

(* For TLC: lengths on both sides of both limits. *)
AroundLimits == {0, 1, 2, 3, 4}
TimesFour(n) == 4 * n

Nothing ==
    /\ nonblocking = FALSE /\ frames = <<>> /\ stream = <<>> /\ ends = <<>>
    /\ sent = 0 /\ taken = 0 /\ gone = TRUE
    /\ open = FALSE /\ head = NoHead /\ frame_pl = 0 /\ pl = 0 /\ pc = "loop"
    /\ errno = "EAGAIN" /\ delivered = <<>> /\ clean = TRUE

NoWrites ==
    /\ ws_flags = {} /\ remaining = <<>> /\ to_close = FALSE /\ writable = FALSE
    /\ wire = <<>> /\ written = <<>> /\ whole = TRUE

MCInit ==
    \/ way = "in" /\ Init /\ NoWrites
    \/ way = "out" /\ Out!Init /\ Nothing

MCNext ==
    \/ way = "in" /\ Next /\ UNCHANGED <<way, out>>
    \/ way = "out" /\ Out!Next /\ UNCHANGED <<way, vars>>

(* The thread runs, as in WsFrame. *)
MCSpec ==
    /\ MCInit /\ [][MCNext]_<<way, out, vars>>
    /\ WF_<<way, vars>>(way = "in" /\ Thread /\ UNCHANGED <<way, out>>)

(* What a client reads is what was written, frame by frame. *)
ClientReads == way = "out" => Out!ClientReads
=============================================================================
