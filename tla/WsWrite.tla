------------------------------ MODULE WsWrite ------------------------------
(***************************************************************************)
(* What a websocket sends: the answer of ws_init, the frames of ws_write   *)
(* and ws_dprintf and the end of ws_close, on a descriptor that may have   *)
(* bytes of an earlier response kept in d->remaining.  All of them call    *)
(* lower_write themselves: nothing is kept of what the kernel leaves.      *)
(*                                                                         *)
(* A cell is a part of a frame, or a byte of its data; a length field is   *)
(* one cell, which holds the number the client reads there.                *)
(***************************************************************************)
EXTENDS Integers, Sequences

CONSTANTS
    Lengths,            \* of messages, a set of numbers
    Small, Medium,      \* 126 and 1 << 16, the smaller one first
    Swapped(_),         \* a length put in 64 bits by htonl, as a client reads it
    MaxWrites           \* bound: messages

VARIABLES
    ws_flags,       \* of the descriptor: what goes into the first byte
    remaining,      \* cells kept in d->remaining
    to_close,       \* DF_TO_CLOSE
    open,
    wire,           \* all that has left
    written,        \* history: the messages of the calls that returned 0
    whole           \* history: 101 went out whole, behind everything kept, every
                    \* call since has returned 0, and so did the head of a close

vars == <<ws_flags, remaining, to_close, open, wire, written, whole>>

Cell(kind, value) == [kind |-> kind, value |-> value]
Data(i, n) == [j \in 1 .. n |-> Cell("data", i)]
Old == Cell("old", 0)

Upgraded == ws_flags # {"none"}

(* A request on a connection whose peer may be slow. *)
Init ==
    /\ ws_flags = {"none"}
    /\ remaining \in {<<>>, <<Old, Old>>}
    /\ to_close \in BOOLEAN
    /\ open = TRUE
    /\ wire = <<>>
    /\ written = <<>>
    /\ whole = TRUE

(* lower_write: the kernel takes any number of cells, or none (-1).          *)
Takes(cells, n) == n \in 0 .. Len(cells) /\ wire' = wire \o SubSeq(cells, 1, n)

(* ws_init.  What lower_write returns is not looked at.                      *)
WsInit ==
    /\ open /\ ~Upgraded
    /\ \E n \in 0 .. 2 :
         /\ Takes(<<Cell("101", 0), Cell("101", 0)>>, n)
         /\ whole' = (n = 2 /\ remaining = <<>>)
    /\ ws_flags' = {"BINARY", "FIN"}
    /\ UNCHANGED <<remaining, to_close, open, written>>

(* The head of a frame. *)
Head7(n, flags) == Cell("head", [flags |-> flags, len |-> n])

(* Mutant: an off-by-one where the short form ends.                          *)
SmallestInclusive(n) == n <= Small

Smallest(n) == n < Small

(* Mutant: a frame that is cut is reported as one that was sent. *)
ReturnsCut(n, len) == n = 0

(* What ws_write returns: whether it sent less than it had to.               *)
Returns(n, len) == n < len

Frame(n, i) ==
    (CASE Smallest(n) -> <<Head7(n, ws_flags')>>
       [] ~Smallest(n) /\ n < Medium -> <<Head7(Small, ws_flags'), Cell("length", n)>>
       [] OTHER -> <<Head7(Small + 1, ws_flags'), Cell("length", Swapped(n))>>)
    \o Data(i, n)

WriteFrame(n) ==
    LET frame == Frame(n, Len(written) + 1)
    IN \E k \in 0 .. Len(frame) :
         /\ Takes(frame, k)
         /\ whole' = (whole /\ ~Returns(k, Len(frame)))
         /\ written' = Append(written, n)

WsWrite(n) ==
    /\ open /\ Upgraded /\ Len(written) < MaxWrites
    /\ ws_flags' = ws_flags
    /\ WriteFrame(n)
    /\ UNCHANGED <<remaining, to_close, open>>

(* ws_dprintf: BINARY & FIN is no flag at all, and nothing sets them again.  *)
WsPrintf(n) ==
    /\ open /\ Upgraded /\ Len(written) < MaxWrites
    /\ ws_flags' = {"BINARY"} \cap {"FIN"}
    /\ WriteFrame(n)
    /\ UNCHANGED <<remaining, to_close, open>>

(* ws_close, two writes: the head says two bytes, the code is an unsigned in *)
(* the order of the host.  axil_close goes on to close the descriptor.       *)
Close(rest) ==
    LET head == <<Cell("head", [flags |-> {"CLOSE", "FIN"}, len |-> 2])>>
    IN /\ \E n \in 0 .. 1, k \in 0 .. 4 :
            /\ wire' = wire \o rest \o SubSeq(head, 1, n) \o SubSeq(Data(0, 4), 1, k)
            /\ whole' = (whole /\ n = 1)
       /\ open' = FALSE
       /\ remaining' = <<>>

AxilClose ==
    /\ open /\ Upgraded
    /\ Close(<<>>)
    /\ UNCHANGED <<ws_flags, to_close, written>>

(* axil_write_remaining, from axil_main: what was kept goes out, and the     *)
(* mark that request_handle set before the upgrade is acted on.              *)
Flush ==
    /\ open /\ remaining # <<>>
    /\ \E n \in 1 .. Len(remaining) :
         IF n = Len(remaining) /\ to_close
         THEN IF Upgraded THEN Close(remaining)
              ELSE /\ wire' = wire \o remaining
                   /\ open' = FALSE /\ remaining' = <<>> /\ UNCHANGED whole
         ELSE /\ wire' = wire \o SubSeq(remaining, 1, n)
              /\ remaining' = SubSeq(remaining, n + 1, Len(remaining))
              /\ UNCHANGED <<open, whole>>
    /\ UNCHANGED <<ws_flags, to_close, written>>

Next == WsInit \/ AxilClose \/ Flush \/ \E n \in Lengths : WsWrite(n) \/ WsPrintf(n)

Spec == Init /\ [][Next]_vars
-----------------------------------------------------------------------------
Garbage == <<[flags |-> {}, data |-> <<Cell("garbage", 0)>>]>>

(* What a client that knows the protocol makes of the cell at p: an end, a   *)
(* frame that has not come to its own, or garbage, which is neither a head   *)
(* nor the length that a head announces.  What is behind the length is data. *)
Extended(p) == wire[p].value.len >= Small

Ends(p) ==
    \/ p > Len(wire)
    \/ wire[p].kind = "head" /\ "CLOSE" \in wire[p].value.flags
    \/ wire[p].kind = "head" /\ Extended(p) /\ p = Len(wire)

Garbled(p) == wire[p].kind # "head" \/ (Extended(p) /\ wire[p + 1].kind # "length")

DataAt(p) == IF Extended(p) THEN p + 2 ELSE p + 1
Behind(p) == DataAt(p) + (IF Extended(p) THEN wire[p + 1].value ELSE wire[p].value.len)

Answer == CHOOSE p \in DOMAIN wire :
            wire[p].kind = "101" /\ \A q \in 1 .. p - 1 : wire[q].kind # "101"

(* It reads from the answer on.                                              *)
Client ==
    LET read[p \in 1 .. Len(wire) + 1] ==
          IF Ends(p) THEN <<>>
          ELSE IF Garbled(p) THEN Garbage
          ELSE IF Behind(p) > Len(wire) + 1 THEN <<>>
          ELSE <<[flags |-> wire[p].value.flags,
                  data |-> SubSeq(wire, DataAt(p), Behind(p) - 1)]>>
               \o read[Behind(p)]
    IN read[Answer + 2]

(* As long as every call says that it has sent its frame, and no message is  *)
(* as long as 1 << 16, a client reads the messages that were written, one by *)
(* one and in order, whatever the kernel does; and each is a whole message   *)
(* as long as ws_printf has not been used.  (The three forms of a length,    *)
(* lower_write past d->remaining, and the result of ws_write.)               *)
ClientReads ==
    whole /\ Upgraded /\ (\A i \in 1 .. Len(written) : written[i] < Medium) =>
      /\ [i \in 1 .. Len(Client) |-> Client[i].data]
            = [i \in 1 .. Len(written) |-> Data(i, written[i])]
      /\ ws_flags # {} => \A i \in 1 .. Len(Client) : Client[i].flags = {"BINARY", "FIN"}
=============================================================================
