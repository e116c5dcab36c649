-------------------------------- MODULE Input --------------------------------
(***************************************************************************)
(* How a request gets from a socket into the one input buffer that all     *)
(* connections of libaxil.c share, and from there to a handler: axil_read  *)
(* collects what the kernel has, cmd_new, cmd_proc and headers_get take    *)
(* the request apart where it lies, buffer_post_body reads the rest of a   *)
(* body behind it, and the handler is given a pointer into the buffer.     *)
(*                                                                         *)
(* TCP keeps order but not boundaries: a client's request comes in pieces  *)
(* of any size, and every connection before has left its bytes behind.     *)
(* The buffer is reallocated on the way, and may move.  A request is a     *)
(* row of cells: its first line, one header (Content-Length, when there is *)
(* a body), the CR and the LF of the blank line, and the body.  The NULs   *)
(* that cmd_new and headers_get put into a head are left out: nothing      *)
(* reads it again.  Finding the handler is Route's, the response OutBuf's: *)
(* a request that has been handled or refused is a connection closed.      *)
(***************************************************************************)
EXTENDS Integers, Sequences, FiniteSets

CONSTANTS
    NumConns,           \* connections, one request each
    Lengths,            \* what Content-Length may be; 0 stands for a GET
    MaxBody,            \* axil_config.max_body_size
    BufSize,            \* BUFSIZ
    FirstInputSize,     \* FIRST_INPUT_SIZE
    MaxRounds           \* reads of axil_read that fill its buffer, at most

ASSUME InputAssumption ==
    /\ NumConns \in Nat
    /\ Lengths \subseteq Nat
    /\ MaxBody \in Nat
    /\ BufSize \in Nat \ {0}
    /\ FirstInputSize \in Nat \ {0}
    /\ MaxRounds \in Nat

Conns == 1 .. NumConns
None == 0

VARIABLES
    nonblocking,        \* accepted sockets inherit O_NONBLOCK (BSD, macOS, Windows)
    wanted,             \* the length of each connection's body
    sent, taken,        \* cells its client has sent, and the server has read
    gone,               \* clients that have hung up
    open,               \* connections the server has not closed
    input,              \* the buffer: a function on 0 .. input_size - 1
    input_size, input_len,
    pc, cur,            \* what the thread does, and for which connection
    rounds,
    argv,               \* the parsed request: where in the buffer the body is,
                        \* and how much the buffer must hold
    whole               \* history: the clients whose head came in one piece

net == <<wanted, sent, taken, gone>>
memory == <<input, input_size>>
vars == <<nonblocking, net, open, memory, input_len, pc, cur, rounds, argv, whole>>

LINE == 1
HEADER == 2
CR == 3
LF == 4

Cell == [conn : Conns, at : Nat \ {0}]
NUL == [conn |-> 0, at |-> 0]
Junk == [conn |-> 0, at |-> 1]      \* what malloc and realloc leave
NoRequest == [body |-> 0, needed |-> 0]

Total(c) == LF + wanted[c]
Avail(c) == sent[c] - taken[c]

TypeOK ==
    /\ nonblocking \in BOOLEAN
    /\ wanted \in [Conns -> Lengths]
    /\ sent \in [Conns -> Nat] /\ taken \in [Conns -> Nat]
    /\ \A c \in Conns : taken[c] <= sent[c] /\ sent[c] <= Total(c)
    /\ gone \subseteq Conns /\ open \subseteq Conns
    /\ input_size \in Nat \ {0}
    /\ input \in [0 .. input_size - 1 -> Cell \cup {NUL, Junk}]
    /\ input_len \in Nat
    /\ pc \in {"loop", "read", "parse", "body", "handle"}
    /\ cur \in Conns \cup {None}
    /\ pc # "loop" => cur \in Conns
    /\ rounds \in 0 .. MaxRounds
    /\ argv \in [body : Nat, needed : Nat]
    /\ whole \subseteq Conns

Init ==
    /\ nonblocking \in BOOLEAN
    /\ wanted \in [Conns -> Lengths]
    /\ sent = [c \in Conns |-> 0]
    /\ taken = [c \in Conns |-> 0]
    /\ gone = {}
    /\ open = Conns
    /\ input_size = FirstInputSize
    /\ input = [i \in 0 .. FirstInputSize - 1 |-> Junk]
    /\ input_len = 0
    /\ pc = "loop"
    /\ cur = None
    /\ rounds = 0
    /\ argv = NoRequest
    /\ whole = {}
-----------------------------------------------------------------------------
(* The clients. *)
Send(c) ==
    /\ c \in open \ gone
    /\ \E n \in sent[c] + 1 .. Total(c) :
         /\ sent' = [sent EXCEPT ![c] = n]
         /\ whole' = IF sent[c] = 0 /\ n >= LF THEN whole \cup {c} ELSE whole
    /\ UNCHANGED <<nonblocking, wanted, taken, gone, open, memory, input_len,
                   pc, cur, rounds, argv>>

HangUp(c) ==
    /\ c \in open \ gone
    /\ gone' = gone \cup {c}
    /\ UNCHANGED <<nonblocking, wanted, sent, taken, open, memory, input_len,
                   pc, cur, rounds, argv, whole>>
-----------------------------------------------------------------------------
(* realloc: the bytes that fit keep their place. *)
Resized(size) == [i \in 0 .. size - 1 |-> IF i < input_size THEN input[i] ELSE Junk]

(* n cells of cur's behind what the buffer holds, of a size that has changed *)
(* first.                                                                    *)
Copied(size, n) ==
    [i \in 0 .. size - 1 |->
        IF input_len <= i /\ i < input_len + n
        THEN [conn |-> cur, at |-> taken[cur] + (i - input_len) + 1]
        ELSE Resized(size)[i]]

(* One read takes what there is, up to the size of the caller's array. *)
ReadSize == IF Avail(cur) < BufSize THEN Avail(cur) ELSE BufSize

Receive(size, cells) ==
    /\ input_len' = input_len + ReadSize
    /\ taken' = [taken EXCEPT ![cur] = @ + ReadSize]
    /\ input_size' = size
    /\ input' = cells

(* Back to the loop.  What is left in input_len, rounds and argv is not used *)
(* again, and forgotten here.                                                *)
Leave ==
    /\ pc' = "loop"
    /\ cur' = None
    /\ input_len' = 0
    /\ rounds' = 0
    /\ argv' = NoRequest

(* axil_close of the connection served: it ends by shrinking the buffer. *)
Close ==
    /\ open' = open \ {cur}
    /\ Leave
    /\ IF input_size > 4 * FirstInputSize
       THEN input_size' = FirstInputSize /\ input' = Resized(FirstInputSize)
       ELSE UNCHANGED memory
-----------------------------------------------------------------------------
(* descr_proc_reads comes to a connection that select found ready. *)
StartRead(c) ==
    /\ pc = "loop"
    /\ c \in open
    /\ Avail(c) > 0 \/ c \in gone
    /\ pc' = "read"
    /\ cur' = c
    /\ UNCHANGED <<nonblocking, net, open, memory, input_len, rounds, argv, whole>>

(* Mutant: the size is compared without room for the terminator. *)
RoomToReadExactly(n) ==
    IF input_len + n > input_size THEN 2 * input_size + n ELSE input_size

(* The size axil_read reads n cells into: there is room for a terminator. *)
RoomToRead(n) ==
    IF input_len + n >= input_size THEN 2 * input_size + n ELSE input_size

LastRound == rounds = MaxRounds

(* A read that fills the array is followed by another one; otherwise the     *)
(* terminator goes behind what has been read (cmd_new).                      *)
AxilRead ==
    /\ pc = "read"
    /\ Avail(cur) > 0
    /\ LET size == RoomToRead(ReadSize)
       IN IF ReadSize = BufSize /\ ~LastRound
          THEN /\ Receive(size, Copied(size, ReadSize))
               /\ rounds' = rounds + 1
               /\ UNCHANGED pc
          ELSE /\ Receive(size, [Copied(size, ReadSize) EXCEPT ![input_len'] = NUL])
               /\ pc' = "parse"
               /\ UNCHANGED rounds
    /\ UNCHANGED <<nonblocking, wanted, sent, gone, open, cur, argv, whole>>

(* There is no more.  The end of the connection closes it, whatever has been *)
(* read; EAGAIN drops what has been read, and a socket that blocks, blocks.  *)
ReadEnds ==
    /\ pc = "read"
    /\ Avail(cur) = 0
    /\ \/ cur \in gone /\ Close
       \/ cur \notin gone /\ nonblocking /\ Leave /\ UNCHANGED <<open, memory>>
    /\ UNCHANGED <<nonblocking, net, whole>>

(* cmd_proc knows the methods; any other first word is passed over. *)
IsRequest == input[0].at = LINE

(* What headers_get stops at: the blank line's CR, of which it clears the    *)
(* next byte, or the terminator.                                             *)
BlankLine == {i \in 1 .. input_len - 1 : input[i].at = CR}

(* Mutant: the blank line is counted once too often. *)
BodyBehind ==
    IF BlankLine = {} THEN input_len + 1 ELSE (CHOOSE i \in BlankLine : TRUE) + 3

BodyAt ==
    IF BlankLine = {} THEN input_len + 1 ELSE (CHOOSE i \in BlankLine : TRUE) + 2

HasLength == wanted[cur] > 0 /\ \E i \in 1 .. input_len - 1 : input[i].at = HEADER

(* Mutant: the blank line's last byte is forgotten. *)
NeededShort == BodyAt + wanted[cur] - 1

Needed == BodyAt + wanted[cur]

(* A request with a body that is not all there yet has more read; one that   *)
(* is too long is refused.                                                   *)
Passed ==
    /\ ~IsRequest
    /\ Leave
    /\ UNCHANGED <<open, memory>>

Refused ==
    /\ IsRequest /\ HasLength /\ wanted[cur] > MaxBody
    /\ Close

Taken ==
    /\ IsRequest
    /\ HasLength => wanted[cur] <= MaxBody
    /\ argv' = [body |-> BodyAt, needed |-> IF HasLength THEN Needed ELSE 0]
    /\ pc' = IF input_len < argv'.needed THEN "body" ELSE "handle"
    /\ UNCHANGED <<open, memory, input_len, cur, rounds>>

Parse ==
    /\ pc = "parse"
    /\ Passed \/ Refused \/ Taken
    /\ UNCHANGED <<nonblocking, net, whole>>

(* The size buffer_post_body reads n cells into. *)
RoomForBody(n) ==
    IF input_len + n > input_size THEN 2 * (input_len + n) ELSE input_size

(* argv[] is moved along with a buffer that realloc moves: an offset here.   *)
BufferPostBody ==
    /\ pc = "body"
    /\ Avail(cur) > 0
    /\ LET size == RoomForBody(ReadSize) IN Receive(size, Copied(size, ReadSize))
    /\ pc' = IF input_len' < argv.needed THEN "body" ELSE "handle"
    /\ UNCHANGED <<nonblocking, wanted, sent, gone, open, cur, rounds, argv, whole>>

(* No more body: the client is gone or, on a socket that does not block,     *)
(* only slower than the server.                                              *)
BodyFails ==
    /\ pc = "body"
    /\ Avail(cur) = 0
    /\ nonblocking \/ cur \in gone
    /\ Close
    /\ UNCHANGED <<nonblocking, net, whole>>

(* The string at an offset of the buffer. *)
StringAt(k) ==
    LET inside == {i \in k .. input_size - 1 : \A j \in k .. i : input[j] # NUL}
    IN [i \in 1 .. Cardinality(inside) |-> input[k + i - 1]]

(* The handler runs; Body is the string it is given. *)
Body == StringAt(argv.body)

Handle ==
    /\ pc = "handle"
    /\ Close
    /\ UNCHANGED <<nonblocking, net, whole>>
-----------------------------------------------------------------------------
Thread == AxilRead \/ ReadEnds \/ Parse \/ BufferPostBody \/ BodyFails \/ Handle

Next ==
    \/ \E c \in Conns : Send(c) \/ HangUp(c) \/ StartRead(c)
    \/ Thread

Spec == Init /\ [][Next]_vars

(* The thread runs, and a client sends the rest of what it has begun.  It    *)
(* need not hang up: while the thread waits in a read that blocks, nothing   *)
(* else happens.                                                             *)
FairSpec == Spec /\ WF_vars(Thread) /\ \A c \in Conns : WF_vars(Send(c))
-----------------------------------------------------------------------------
(* No read runs over the end of the buffer, and what axil_read has collected *)
(* leaves room for the terminator cmd_new writes behind it.  (Two growth     *)
(* rules, axil_read's and buffer_post_body's, and the shrinking in           *)
(* axil_close.)                                                              *)
InBounds ==
    /\ pc \in {"read", "parse"} => input_len < input_size
    /\ pc \in {"body", "handle"} => input_len <= input_size

(* A handler has the whole body of its own request, from its first byte on   *)
(* and in order, in however many pieces it came, if only the head came in    *)
(* one.  ("Ensures the full POST body is present in the global `input`       *)
(* buffer", buffer_post_body.)                                               *)
BodyComplete ==
    pc = "handle" /\ cur \in whole =>
      /\ Len(Body) >= wanted[cur]
      /\ \A i \in 1 .. wanted[cur] : Body[i] = [conn |-> cur, at |-> LF + i]

(* The thread does not wait for more of a body than the client has to send.  *)
(* (The offsets headers_get and buffer_post_body count from.)                *)
BodyArrives == pc = "body" ~> pc # "body"
=============================================================================
