------------------------------- MODULE OutBuf -------------------------------
(***************************************************************************)
(* The output path of one client descriptor of libaxil.c: axil_write and   *)
(* axil_low_write, the growable buffer d->remaining kept by                *)
(* axil_rem_may_inc, axil_write_remaining (called by a write, by the       *)
(* epilogue of a response, and by every turn of axil_main), the epilogues  *)
(* of axil_respond, static_write and their callers, and axil_close.        *)
(*                                                                         *)
(* libaxil is one thread: a handler runs to its end before axil_main looks *)
(* at any descriptor again.  What interleaves with it is the kernel, which *)
(* takes any part of a write or none (EAGAIN), and the peer, which may be  *)
(* gone at any point.  A handler is the list of calls it makes, and each   *)
(* call is taken in the steps the C code takes between two looks at the    *)
(* kernel.  The bytes of a connection are numbered in the order they are   *)
(* handed to axil_write; `remaining' is the memory block itself, so moving *)
(* or overrunning bytes shows.  The allocator is assumed to succeed.       *)
(***************************************************************************)
EXTENDS Integers, Sequences

CONSTANTS
    InitSize,       \* bytes malloc'ed for a new descriptor (BUFSIZ * 1024)
    Handlers,       \* the handlers requests may reach, see HandlerType
    MaxRequests     \* bound: requests served on one connection

(* A handler: whether request_handle marked the descriptor before calling it *)
(* (http), and the calls it makes.  "write" is axil_write of n bytes,        *)
(* "respond" the epilogue of axil_respond and axil_sendfile, "headers" the   *)
(* same epilogue reached by axil_respond(fd, code, NULL), "static" the one   *)
(* of static_write, static_not_modified and request_handle_autoindex.        *)
Call == [op : {"write", "respond", "headers", "static"}, n : Nat]
HandlerType == [http : BOOLEAN, calls : Seq(Call)]

ASSUME OutBufAssumption ==
    /\ InitSize \in Nat \ {0}
    /\ Handlers \subseteq HandlerType
    /\ MaxRequests \in Nat

VARIABLES
    open,            \* the descriptor is open (d->fd = fd)
    to_close,        \* DF_TO_CLOSE
    remaining,       \* the block: a function on 0 .. remaining_size - 1
    remaining_size,
    remaining_off,
    remaining_len,
    pending,         \* bytes of the current axil_write still to be memcpy'd
    pc,              \* where the thread is, see TypeOK
    calls,           \* calls the running handler has not made yet
    requests,        \* requests served on this connection
    peer,            \* "up", or "gone": reset or closed its end
    wire,            \* bytes the kernel has taken, in order
    written,         \* bytes axil_write took charge of
    cut              \* a byte handed to axil_write was dropped

buffer == <<remaining, remaining_size, remaining_off, remaining_len, pending>>
vars == <<open, to_close, buffer, pc, calls, requests, peer, wire, written, cut>>

NoByte == 0          \* content of memory no byte was copied to
EAGAIN == 0          \* a lower_write that takes nothing
FATAL  == -1         \* a lower_write that fails with any other errno

TypeOK ==
    /\ open \in BOOLEAN
    /\ to_close \in BOOLEAN
    /\ remaining_size \in Nat
    /\ remaining_off \in Nat
    /\ remaining_len \in Nat
    /\ pending \in Nat
    /\ remaining \in [0 .. remaining_size - 1 -> Nat]
    /\ pc \in {"loop", "handler", "grow", "store", "flush"}
    /\ calls \in Seq(Call)
    /\ requests \in Nat
    /\ peer \in {"up", "gone"}
    /\ wire \in Seq(Nat)
    /\ written \in Nat
    /\ cut \in BOOLEAN
-----------------------------------------------------------------------------
(* descr_new: a fresh descriptor owns an empty block. *)
Init ==
    /\ open = TRUE
    /\ to_close = FALSE
    /\ remaining_size = InitSize
    /\ remaining = [i \in 0 .. InitSize - 1 |-> NoByte]
    /\ remaining_off = 0
    /\ remaining_len = 0
    /\ pending = 0
    /\ pc = "loop"
    /\ calls = <<>>
    /\ requests = 0
    /\ peer = "up"
    /\ wire = <<>>
    /\ written = 0
    /\ cut = FALSE

(* What lower_write (send, SSL_write) of n bytes returns. *)
LowerWrite(n) == IF open /\ peer = "up" THEN 0 .. n ELSE {FATAL}

Bytes(first, n) == [i \in 1 .. n |-> first + i]

(* axil_close, seen from the output path: the block is freed, with the bytes *)
(* it still holds.  A handler that is running goes on running.               *)
Close(dropped) ==
    /\ open' = FALSE
    /\ to_close' = FALSE
    /\ remaining_size' = 0
    /\ remaining' = [i \in 0 .. -1 |-> NoByte]
    /\ remaining_off' = 0
    /\ remaining_len' = 0
    /\ pending' = 0
    /\ cut' = (cut \/ dropped > 0)

KeepOpen == UNCHANGED <<open, remaining, remaining_size, pending, cut>>
-----------------------------------------------------------------------------
(* descr_new on a number that was closed: the structure is cleared. *)
Accept ==
    /\ pc = "loop"
    /\ ~open
    /\ open' = TRUE
    /\ to_close' = FALSE
    /\ remaining_size' = InitSize
    /\ remaining' = [i \in 0 .. InitSize - 1 |-> NoByte]
    /\ remaining_off' = 0
    /\ remaining_len' = 0
    /\ pending' = 0
    /\ requests' = 0
    /\ peer' = "up"
    /\ wire' = <<>>
    /\ written' = 0
    /\ cut' = FALSE
    /\ UNCHANGED <<pc, calls>>

(* descr_proc_reads hands a request to a handler.  Nothing checks that the   *)
(* previous response is out, or that the descriptor is not to be closed.     *)
Request ==
    /\ pc = "loop"
    /\ open
    /\ peer = "up"
    /\ requests < MaxRequests
    /\ \E h \in Handlers :
         /\ calls' = h.calls
         /\ to_close' = (to_close \/ h.http)
    /\ requests' = requests + 1
    /\ pc' = "handler"
    /\ UNCHANGED <<open, buffer, peer, wire, written, cut>>

Return ==
    /\ pc = "handler"
    /\ calls = <<>>
    /\ pc' = "loop"
    /\ UNCHANGED <<open, to_close, buffer, calls, requests, peer, wire, written, cut>>

(* The peer resets the connection or shuts its end down. *)
PeerGone ==
    /\ open
    /\ peer = "up"
    /\ peer' = "gone"
    /\ UNCHANGED <<open, to_close, buffer, pc, calls, requests, wire, written, cut>>

(* descr_read finds the peer gone: axil_close. *)
ReadEof ==
    /\ pc = "loop"
    /\ open
    /\ peer = "gone"
    /\ Close(remaining_len)
    /\ UNCHANGED <<pc, calls, requests, peer, wire, written>>
-----------------------------------------------------------------------------
Calling(op) == pc = "handler" /\ calls # <<>> /\ Head(calls).op = op

(* axil_low_write with nothing buffered: straight to the kernel.  What it    *)
(* does not take is kept; on any other error the bytes are dropped and the   *)
(* descriptor stays open.                                                    *)
WriteDirect ==
    /\ Calling("write")
    /\ remaining_len = 0
    /\ LET n == Head(calls).n IN
       \E ret \in LowerWrite(n) :
         IF ret = FATAL
         THEN /\ cut' = (cut \/ n > 0)
              /\ pc' = "handler"
              /\ UNCHANGED <<pending, wire, written>>
         ELSE /\ wire' = wire \o Bytes(written, ret)
              /\ written' = written + n
              /\ pending' = n - ret
              /\ pc' = IF ret = n THEN "handler"
                       ELSE IF remaining_size - remaining_off >= n - ret THEN "store"
                       ELSE "grow"
              /\ UNCHANGED cut
    /\ calls' = Tail(calls)
    /\ UNCHANGED <<open, to_close, remaining, remaining_size, remaining_off,
                   remaining_len, requests, peer>>

(* axil_low_write behind buffered bytes, first half: axil_rem_may_inc makes  *)
(* room at the tail, by moving the bytes to the front of the block or, when  *)
(* that is not enough, by growing it.                                        *)
FitsIgnoringOffset(n) == remaining_size - remaining_len >= n
FitsTail(n) == remaining_size - (remaining_off + remaining_len) >= n

CompactedNot == remaining
Compacted ==
    [i \in 0 .. remaining_size - 1 |->
        IF i < remaining_len THEN remaining[remaining_off + i] ELSE remaining[i]]

WriteBehind ==
    /\ Calling("write")
    /\ remaining_len > 0
    /\ LET n == Head(calls).n
       IN /\ pending' = n
          /\ written' = written + n
          /\ IF FitsTail(n)
             THEN UNCHANGED <<remaining, remaining_off>> /\ pc' = "store"
             ELSE /\ remaining' = Compacted
                  /\ remaining_off' = 0
                  /\ pc' = IF remaining_off > 0 /\ remaining_size - remaining_len >= n
                           THEN "store" ELSE "grow"
    /\ calls' = Tail(calls)
    /\ UNCHANGED <<open, to_close, remaining_size, remaining_len, requests,
                   peer, wire, cut>>

(* The growth loop of axil_rem_may_inc.  Need counts the bytes to be held; *)
(* the inner loop doubles until they fit, the outer one asks for more than   *)
(* that, and goes round for ever when doubling lands on it exactly.          *)
Need == remaining_off + remaining_len + pending

GrowTo(size) ==
    /\ pc = "grow"
    /\ Need > remaining_size
    /\ remaining_size' = size
    /\ remaining' = [i \in 0 .. size - 1 |->
                        IF i < remaining_size THEN remaining[i] ELSE NoByte]
    /\ UNCHANGED <<open, to_close, remaining_off, remaining_len, pending, pc,
                   calls, requests, peer, wire, written, cut>>

GrowExactly == GrowTo(Need)
Double == GrowTo(2 * remaining_size)

Grown ==
    /\ pc = "grow"
    /\ Need < remaining_size
    /\ pc' = "store"
    /\ UNCHANGED <<open, to_close, buffer, calls, requests, peer, wire, written, cut>>

Spinning == pc = "grow" /\ Need = remaining_size

(* realloc to the same size, and the test of the outer loop again. *)
Spin ==
    /\ Spinning
    /\ UNCHANGED vars

(* The memcpy that ends axil_low_write's bookkeeping.  Behind buffered bytes *)
(* axil_write_remaining follows at once.                                     *)
Store ==
    /\ pc = "store"
    /\ LET at == IF remaining_len = 0 THEN 0 ELSE remaining_off + remaining_len
       IN remaining' = [i \in 0 .. remaining_size - 1 |->
                           IF at <= i /\ i < at + pending
                           THEN written - pending + (i - at) + 1
                           ELSE remaining[i]]
    /\ remaining_off' = IF remaining_len = 0 THEN 0 ELSE remaining_off
    /\ remaining_len' = remaining_len + pending
    /\ pending' = 0
    /\ pc' = IF remaining_len = 0 THEN "handler" ELSE "flush"
    /\ UNCHANGED <<open, to_close, remaining_size, calls, requests, peer, wire,
                   written, cut>>

(* A marked descriptor is closed by the write that empties its block.        *)
DrainNeverCloses(taken) == FALSE
DrainClosesEarly(taken) == to_close /\ taken > 0
DrainCloses(taken) == to_close /\ taken = remaining_len

(* axil_write_remaining, from the end of a buffered write or of a response   *)
(* ("flush") and from the top of axil_main's loop ("loop").                  *)
WriteRemaining ==
    /\ pc \in {"flush", "loop"}
    /\ remaining_len > 0
    /\ \E ret \in LowerWrite(remaining_len) :
         LET taken == IF ret = FATAL THEN 0 ELSE ret
         IN /\ wire' = wire \o [i \in 1 .. taken |-> remaining[remaining_off + i - 1]]
            /\ IF ret = FATAL \/ DrainCloses(taken)
               THEN Close(remaining_len - taken)
               ELSE /\ remaining_len' = remaining_len - taken
                    /\ remaining_off' = IF taken = remaining_len THEN 0
                                        ELSE remaining_off + taken
                    /\ KeepOpen
                    /\ UNCHANGED to_close
    /\ pc' = IF pc = "flush" THEN "handler" ELSE "loop"
    /\ UNCHANGED <<calls, requests, peer, written>>
-----------------------------------------------------------------------------
(* The end of axil_respond, with a body or without: mark, then close if      *)
(* nothing is left, or try once more to write what is.                       *)
Respond ==
    /\ Calling("respond") \/ Calling("headers")
    /\ calls' = Tail(calls)
    /\ IF remaining_len = 0
       THEN Close(0) /\ pc' = "handler"
       ELSE /\ to_close' = TRUE
            /\ pc' = "flush"
            /\ KeepOpen
            /\ UNCHANGED <<remaining_off, remaining_len>>
    /\ UNCHANGED <<requests, peer, wire, written>>

(* The end of static_write and of its like: close if marked and nothing left. *)
StaticEndHasty ==
    /\ Calling("static")
    /\ calls' = Tail(calls)
    /\ pc' = "handler"
    /\ IF to_close
       THEN Close(remaining_len)
       ELSE KeepOpen /\ UNCHANGED <<to_close, remaining_off, remaining_len>>
    /\ UNCHANGED <<requests, peer, wire, written>>

StaticEnd ==
    /\ Calling("static")
    /\ calls' = Tail(calls)
    /\ pc' = "handler"
    /\ IF to_close /\ remaining_len = 0
       THEN Close(0)
       ELSE KeepOpen /\ UNCHANGED <<to_close, remaining_off, remaining_len>>
    /\ UNCHANGED <<requests, peer, wire, written>>
-----------------------------------------------------------------------------
Next ==
    \/ Accept \/ Request \/ Return \/ PeerGone \/ ReadEof
    \/ WriteDirect \/ WriteBehind \/ Double \/ Grown \/ Spin \/ Store
    \/ WriteRemaining \/ Respond \/ StaticEnd

Spec == Init /\ [][Next]_vars

(* The thread goes on; axil_main comes round every SELECT_TIMEOUT and tries  *)
(* every descriptor with bytes left; a peer that is up goes on reading, so   *)
(* that the kernel takes something again and again.  Nobody has to send a    *)
(* request, go away or connect.                                              *)
TakesSome == WriteRemaining /\ (Len(wire') > Len(wire) \/ ~open')
Thread ==
    \/ Return \/ WriteDirect \/ WriteBehind \/ Double \/ Grown \/ Store
    \/ (pc = "flush" /\ WriteRemaining) \/ Respond \/ StaticEnd

FairSpec == Spec /\ WF_vars(Thread) /\ WF_vars(TakesSome) /\ WF_vars(ReadEof)
-----------------------------------------------------------------------------
(* The bytes a descriptor still owes its peer, in order: those in the block, *)
(* then those of the write in progress.                                      *)
Owed == [i \in 1 .. remaining_len + pending |->
            IF i <= remaining_len THEN remaining[remaining_off + i - 1]
            ELSE written - pending + (i - remaining_len)]

(* The block is never overrun, by the bytes it holds or by the memcpy about  *)
(* to be made; an empty block starts at its beginning, which the direct path *)
(* of axil_low_write relies on; a closed descriptor owns no block.           *)
(* (axil_rem_may_inc against its callers, and axil_close.)                   *)
InBounds ==
    /\ remaining_off + remaining_len <= remaining_size
    /\ remaining_len = 0 => remaining_off = 0
    /\ pc = "store" => Need <= remaining_size
    /\ ~open => remaining_size = 0

(* No byte is lost, repeated or moved while the connection lives: what the   *)
(* kernel has taken, then what is owed, is exactly what axil_write took      *)
(* charge of, from the first byte on; after the close the wire still holds a *)
(* prefix.  (Partial sends, compaction and growth of d->remaining.)          *)
StreamOrder ==
    /\ \A i \in 1 .. Len(wire) : wire[i] = i
    /\ \A i \in 0 .. remaining_len - 1 :
          remaining[remaining_off + i] = Len(wire) + i + 1
    /\ open => written = Len(wire) + remaining_len + pending

(* What a handler wrote reaches a peer that stays: the server does not close *)
(* its descriptor first.  (DF_TO_CLOSE, set by request_handle before the     *)
(* handler writes, and acted on by every axil_write_remaining.)              *)
ResponseComplete == peer = "up" => ~cut

(* axil_respond(fd, code, NULL) leaves the connection open for the writes    *)
(* that stream the body (axil.h, CHANGELOG.md).                              *)
HeadersKeepOpen ==
    [][Calling("headers") /\ open /\ peer = "up" /\ Respond => open']_vars

(* The growth loop of axil_rem_may_inc is never where it cannot leave from.  *)
NeverSpins == ~Spinning

(* axil_write returns: the growth loop of axil_rem_may_inc ends.             *)
WriteReturns == [](pc = "grow" => <>(pc # "grow"))

(* A connection marked to be closed is closed in the end.                    *)
ClosesInTheEnd == [](open /\ to_close => <>~open)

(* The buffer implements the FIFO stream of OutStream.                       *)
Stream == INSTANCE OutStream WITH
    phase   <- IF ~open THEN "closed" ELSE IF to_close THEN "closing" ELSE "open",
    queue   <- Owed,
    sent    <- wire,
    broken  <- peer = "gone"
StreamSpec == Stream!Spec
=============================================================================
