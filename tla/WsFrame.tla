------------------------------- MODULE WsFrame -------------------------------
(***************************************************************************)
(* How frames of a websocket client reach the program: ws_read (ws.c), as  *)
(* axil_read and descr_read call it once axil_ws_upgrade has made it the   *)
(* read function of a descriptor.  A frame is read in up to three reads,   *)
(* its head, an extended length, and the mask with the payload, and        *)
(* frame_map[fd] keeps what is known of it when a read fails.              *)
(*                                                                         *)
(* TCP cuts the frames up as it likes.  A byte of the stream is a cell     *)
(* that knows its frame and its part of it; a mask is Mask cells and not   *)
(* four, and what unmasking does to the payload is left out.  The stream   *)
(* is read by position: `taken' cells of it are gone.                      *)
(***************************************************************************)
EXTENDS Integers, Sequences

CONSTANTS
    MaxFrames,      \* bound: frames a client sends
    Frames,         \* the frames it chooses from, see FrameType
    Mask,           \* cells of a mask
    Swapped         \* the value of a long length whose bytes are not swapped

FrameType == [kind : {"short", "long", "close"}, len : Nat]

ASSUME WsFrameAssumption ==
    /\ MaxFrames \in Nat
    /\ Frames \subseteq FrameType
    /\ Mask \in Nat \ {0}
    /\ Swapped \in [{f.len : f \in Frames} -> Nat \ {0}]

VARIABLES
    nonblocking,        \* accepted sockets inherit O_NONBLOCK (BSD, macOS, Windows)
    frames,             \* what the client sends
    stream, ends,       \* the same as cells, and the position each frame ends at
    sent, taken,        \* cells on the way, and read
    gone,               \* the client has shut down its end
    open,               \* the descriptor is open
    head, frame_pl,     \* frame_map[fd]: NoHead or the head, and its field pl
    pl,                 \* the local variable of ws_read
    pc,                 \* the read ws_read is at; "loop": it is not called
    errno,
    delivered,          \* the messages handed on, each a sequence of cells
    clean               \* history: every segment has ended with a frame

client == <<frames, stream, ends, sent, gone, clean>>
vars == <<nonblocking, client, taken, open, head, frame_pl, pl, pc, errno, delivered>>

HEAD == 2       \* sizeof(frame->head)
EXT == 2        \* sizeof(rpl)
NoHead == [kind |-> "none", len |-> 0]

Cells(i, part, n) == [k \in 1 .. n |-> [frame |-> i, part |-> part, at |-> k]]

(* The cells of f, the i-th frame. *)
Wire(i, f) ==
    Cells(i, "head", HEAD)
      \o Cells(i, "ext", IF f.kind = "long" THEN EXT ELSE 0)
      \o Cells(i, "mask", Mask)
      \o Cells(i, "data", f.len)

Avail == sent - taken

(* ws_init has cleared frame_map[fd]. *)
Init ==
    /\ nonblocking \in BOOLEAN
    /\ frames = <<>> /\ stream = <<>> /\ ends = <<>>
    /\ sent = 0 /\ taken = 0
    /\ gone = FALSE
    /\ open = TRUE
    /\ head = NoHead /\ frame_pl = 0
    /\ pl = 0
    /\ pc = "loop"
    /\ errno = "other"
    /\ delivered = <<>>
    /\ clean = TRUE
-----------------------------------------------------------------------------
(* The client. *)
Compose ==
    /\ open /\ ~gone
    /\ Len(frames) < MaxFrames
    /\ \E f \in Frames :
         /\ frames' = Append(frames, f)
         /\ stream' = stream \o Wire(Len(frames) + 1, f)
         /\ ends' = Append(ends, Len(stream'))
    /\ UNCHANGED <<nonblocking, sent, gone, clean, taken, open, head, frame_pl, pl,
                   pc, errno, delivered>>

Send ==
    /\ open /\ ~gone
    /\ \E n \in sent + 1 .. Len(stream) :
         /\ sent' = n
         /\ clean' = (clean /\ \E k \in DOMAIN ends : n = ends[k])
    /\ UNCHANGED <<nonblocking, frames, stream, ends, gone, taken, open, head, frame_pl, pl,
                   pc, errno, delivered>>

HangUp ==
    /\ open /\ ~gone
    /\ gone' = TRUE
    /\ UNCHANGED <<nonblocking, frames, stream, ends, sent, clean, taken, open, head, frame_pl, pl,
                   pc, errno, delivered>>
-----------------------------------------------------------------------------
(* What lower_read of `size' cells returns.  A socket that blocks waits.     *)
LowerRead(size) ==
    IF Avail > 0 THEN {IF Avail < size THEN Avail ELSE size}
    ELSE IF gone THEN {0}
    ELSE IF nonblocking THEN {-1}
    ELSE {}

TakesUp(n) == taken' = IF n > 0 THEN taken + n ELSE taken

Returns == pc' = "loop" /\ pl' = 0 /\ errno' = "other"

(* 0, or -1 and not EAGAIN: descr_read has the descriptor closed.  Its entry *)
(* of frame_map is cleared here, and in the code by the next ws_init.        *)
Closes ==
    /\ open' = FALSE
    /\ head' = NoHead /\ frame_pl' = 0
    /\ Returns
    /\ UNCHANGED delivered

(* Mutant: whatever went wrong, the call is made again. *)
FailsNever(n) == Returns /\ UNCHANGED <<open, head, frame_pl, delivered>>

(* The label "error".  A read that came short leaves errno as it was.        *)
Fails(n) ==
    IF n = -1 \/ errno = "EAGAIN"
    THEN Returns /\ UNCHANGED <<open, head, frame_pl, delivered>>
    ELSE Closes

(* The label "pl", for a head that is there.  (A head is taken to be there   *)
(* when neither byte of it is zero, as in every masked frame that is not the *)
(* continuation of a message; continuations are left out.)                   *)
Length(h) ==
    /\ head' = h
    /\ IF h.kind = "long"
       THEN pc' = "ext" /\ pl' = 0 /\ UNCHANGED frame_pl
       ELSE pc' = "rest" /\ pl' = h.len /\ frame_pl' = h.len

(* Mutant: the length is taken from the frame again, whatever has been read. *)
ResumesWithLength == pc' = "rest" /\ pl' = frame_pl /\ UNCHANGED <<head, frame_pl>>

(* The label "mk", with the local pl still 0. *)
Resumes == pc' = "rest" /\ pl' = 0 /\ UNCHANGED <<head, frame_pl>>

(* select finds the descriptor readable; errno is what the last call that    *)
(* failed left, except where ws_read clears it.                              *)
Start ==
    /\ pc = "loop"
    /\ open
    /\ Avail > 0 \/ gone
    /\ IF frame_pl > 0
       THEN Resumes /\ errno' \in {"EAGAIN", "other"}
       ELSE IF head # NoHead
       THEN Length(head) /\ errno' \in {"EAGAIN", "other"}
       ELSE pc' = "head" /\ errno' = "other" /\ UNCHANGED <<head, frame_pl, pl>>
    /\ UNCHANGED <<nonblocking, client, taken, open, delivered>>

(* What two cells of the stream say as a head: that of a frame, when they    *)
(* are one; anything, when ws_read has lost its place.                       *)
HeadAt(k) ==
    IF stream[k].part = "head" /\ stream[k].at = 1
    THEN {frames[stream[k].frame]} ELSE Frames

ReadHead ==
    /\ pc = "head"
    /\ \E n \in LowerRead(HEAD) :
         /\ TakesUp(n)
         /\ IF n # HEAD
            THEN IF n = 0 THEN Closes ELSE Fails(n)
            ELSE \E h \in HeadAt(taken + 1) :
                   IF h.kind = "close"
                   THEN Closes
                   ELSE Length(h) /\ UNCHANGED <<open, errno, delivered>>
    /\ UNCHANGED <<nonblocking, client>>

(* The extended length, its bytes in the order of the network. *)
LengthAt(k) ==
    IF stream[k].part = "ext" /\ stream[k].at = 1
    THEN {Swapped[frames[stream[k].frame].len]}
    ELSE {Swapped[f.len] : f \in Frames}

ReadExt ==
    /\ pc = "ext"
    /\ \E n \in LowerRead(EXT) :
         /\ TakesUp(n)
         /\ IF n # EXT
            THEN Fails(n)
            ELSE /\ pl' \in LengthAt(taken + 1)
                 /\ frame_pl' = pl'
                 /\ pc' = "rest"
                 /\ UNCHANGED <<open, head, errno, delivered>>
    /\ UNCHANGED <<nonblocking, client>>

(* Mutants: the memset at the end forgets the head, or the length. *)
ClearedNot == frame_pl' = 0 /\ UNCHANGED head
ClearedHead == head' = NoHead /\ UNCHANGED frame_pl

Cleared == head' = NoHead /\ frame_pl' = 0

(* The mask and the payload in one read.  A message of no bytes is returned  *)
(* as 0, which is how the end of a connection is.                            *)
ReadRest ==
    /\ pc = "rest"
    /\ \E n \in LowerRead(Mask + pl) :
         /\ TakesUp(n)
         /\ IF n # Mask + pl
            THEN Fails(n)
            ELSE IF pl = 0
            THEN Closes
            ELSE /\ delivered' = Append(delivered, SubSeq(stream, taken + Mask + 1, taken + n))
                 /\ Cleared
                 /\ Returns
                 /\ UNCHANGED open
    /\ UNCHANGED <<nonblocking, client>>
-----------------------------------------------------------------------------
Thread == Start \/ ReadHead \/ ReadExt \/ ReadRest

Next == Compose \/ Send \/ HangUp \/ Thread

Spec == Init /\ [][Next]_vars

(* The thread runs.  Nobody has to send anything. *)
FairSpec == Spec /\ WF_vars(Thread)
-----------------------------------------------------------------------------
Short(k) == \A i \in 1 .. k : frames[i].kind = "short"

(* However the stream is cut up, what is handed on is the payloads of the    *)
(* first frames, in order, each whole: ws_read does not lose its place       *)
(* without the connection being closed.  (frame_map and the labels pl, mk.)  *)
MessagesIntact ==
    Short(Len(frames)) =>
      \A i \in 1 .. Len(delivered) : delivered[i] = Cells(i, "data", frames[i].len)

(* A client is cut off for a reason: it has gone, or a segment has cut a     *)
(* frame, or it sent a close, an empty or a long frame.  (The three ways out *)
(* of ws_read, as descr_read takes them.)                                    *)
CutOff ==
    ~open =>
      \/ gone \/ ~clean
      \/ \E i \in 1 .. Len(frames) : frames[i].kind # "short" \/ frames[i].len = 0

(* A frame that is all there is handed on, or the connection closed: the     *)
(* thread neither waits for more of it nor forgets about it.  It may where a *)
(* read can fail in the middle of a frame: errno, which nobody clears before *)
(* a read is taken up again, may say EAGAIN for ever.                        *)
MayStall == nonblocking /\ ~clean

Answered ==
    \A k \in 1 .. MaxFrames :
      (k <= Len(frames) /\ Short(k) /\ sent >= ends[k])
        ~> (Len(delivered) >= k \/ ~open \/ MayStall)
=============================================================================
