---------------------------- MODULE InputProofs ----------------------------
(***************************************************************************)
(* Proofs about Input, for any number of connections, any sizes and any    *)
(* way the requests are cut up: types, no overrun, and that a handler has  *)
(* the whole body of its own request.                                      *)
(***************************************************************************)
EXTENDS Input, FiniteSetTheorems, TLAPS

USE InputAssumption

(* What TypeOK says, without the contents of the buffer. *)
Scalars ==
    /\ nonblocking \in BOOLEAN
    /\ wanted \in [Conns -> Lengths]
    /\ sent \in [Conns -> Nat] /\ taken \in [Conns -> Nat]
    /\ \A c \in Conns : taken[c] <= sent[c] /\ sent[c] <= Total(c)
    /\ input_size \in Nat \ {0}
    /\ input_len \in Nat
    /\ pc \in {"loop", "read", "parse", "body", "handle"}
    /\ pc # "loop" => cur \in Conns
    /\ rounds \in 0 .. MaxRounds

LEMMA TypeScalars == TypeOK => Scalars
  BY DEF TypeOK, Scalars

LEMMA ReadSizeType ==
    ASSUME Scalars, pc # "loop"
    PROVE  /\ Avail(cur) \in Nat
           /\ ReadSize \in Nat /\ ReadSize <= Avail(cur) /\ ReadSize <= BufSize
           /\ Avail(cur) > 0 => ReadSize > 0
  BY DEF Scalars, Avail, ReadSize

LEMMA RoomType ==
    ASSUME Scalars, NEW n \in Nat
    PROVE  /\ RoomToRead(n) \in Nat \ {0} /\ RoomForBody(n) \in Nat \ {0}
           /\ RoomToRead(n) >= input_size /\ RoomForBody(n) >= input_size
           /\ input_len < input_size => input_len + n < RoomToRead(n)
           /\ input_len + n <= RoomForBody(n)
  BY DEF Scalars, RoomToRead, RoomForBody

LEMMA ResizedType ==
    ASSUME TypeOK, NEW size \in Nat \ {0}
    PROVE  Resized(size) \in [0 .. size - 1 -> Cell \cup {NUL, Junk}]
<1> SUFFICES ASSUME NEW i \in 0 .. size - 1
             PROVE  (IF i < input_size THEN input[i] ELSE Junk) \in Cell \cup {NUL, Junk}
  BY DEF Resized
<1>1. i < input_size => i \in 0 .. input_size - 1
  BY DEF TypeOK
<1>2. QED
  BY <1>1 DEF TypeOK

LEMMA CopiedType ==
    ASSUME TypeOK, pc # "loop", NEW size \in Nat \ {0}, NEW n \in Nat
    PROVE  Copied(size, n) \in [0 .. size - 1 -> Cell \cup {NUL, Junk}]
<1> SUFFICES ASSUME NEW i \in 0 .. size - 1
             PROVE  Copied(size, n)[i] \in Cell \cup {NUL, Junk}
  BY DEF Copied
<1>1. cur \in Conns /\ taken[cur] \in Nat /\ input_len \in Nat
  BY DEF TypeOK
<1>2. CASE input_len <= i /\ i < input_len + n
  <2>1. Copied(size, n)[i] = [conn |-> cur, at |-> taken[cur] + (i - input_len) + 1]
    BY <1>2 DEF Copied
  <2>2. taken[cur] + (i - input_len) + 1 \in Nat \ {0}
    BY <1>1, <1>2
  <2>3. QED
    BY <1>1, <2>1, <2>2 DEF Cell
<1>3. CASE ~(input_len <= i /\ i < input_len + n)
  BY <1>3, ResizedType DEF Copied
<1>4. QED
  BY <1>2, <1>3
-----------------------------------------------------------------------------
LEMMA LeaveType == Leave => /\ input_len' \in Nat /\ pc' = "loop" /\ cur' = None
                            /\ rounds' \in 0 .. MaxRounds
                            /\ argv' \in [body : Nat, needed : Nat]
  BY DEF Leave, NoRequest

LEMMA CloseType ==
    ASSUME TypeOK, Close
    PROVE  /\ open' \subseteq Conns
           /\ input_size' \in Nat \ {0}
           /\ input' \in [0 .. input_size' - 1 -> Cell \cup {NUL, Junk}]
<1>1. open' \subseteq Conns
  BY DEF Close, TypeOK
<1>2. CASE input_size > 4 * FirstInputSize
  <2>1. input_size' = FirstInputSize /\ input' = Resized(FirstInputSize)
    BY <1>2 DEF Close
  <2>2. QED
    BY <1>1, <2>1, ResizedType
<1>3. CASE ~(input_size > 4 * FirstInputSize)
  BY <1>1, <1>3 DEF Close, TypeOK, memory
<1>4. QED
  BY <1>2, <1>3

(* The network after a read. *)
LEMMA ReceiveType ==
    ASSUME TypeOK, pc # "loop", NEW size, NEW cells, Receive(size, cells), UNCHANGED <<wanted, sent>>
    PROVE  /\ taken' \in [Conns -> Nat]
           /\ \A c \in Conns : taken'[c] <= sent'[c] /\ sent'[c] <= Total(c)'
           /\ input_len' \in Nat
           /\ input_len' = input_len + ReadSize
           /\ taken'[cur] = taken[cur] + ReadSize
<1>1. ReadSize \in Nat /\ ReadSize <= Avail(cur)
  BY TypeScalars, ReadSizeType
<1>2. taken' = [taken EXCEPT ![cur] = @ + ReadSize] /\ input_len' = input_len + ReadSize
  BY DEF Receive
<1>3. cur \in Conns /\ taken \in [Conns -> Nat] /\ input_len \in Nat
  BY DEF TypeOK
<1>4. taken' \in [Conns -> Nat] /\ taken'[cur] = taken[cur] + ReadSize
  BY <1>1, <1>2, <1>3
<1>5. ASSUME NEW c \in Conns
      PROVE  taken'[c] <= sent'[c] /\ sent'[c] <= Total(c)'
  <2>1. sent[c] \in Nat /\ taken[c] \in Nat /\ taken[c] <= sent[c] /\ sent[c] <= Total(c)
    BY DEF TypeOK
  <2>2. sent'[c] = sent[c] /\ Total(c)' = Total(c)
    BY DEF Total
  <2>3. CASE c = cur
    BY <1>1, <1>3, <1>4, <2>1, <2>2, <2>3 DEF Avail
  <2>4. CASE c # cur
    BY <1>2, <1>3, <2>1, <2>2, <2>4
  <2>5. QED
    BY <2>3, <2>4
<1>6. QED
  BY <1>1, <1>2, <1>3, <1>4, <1>5

LEMMA TypeInit == Init => TypeOK
<1> SUFFICES ASSUME Init PROVE TypeOK
  OBVIOUS
<1>1. ASSUME NEW c \in Conns PROVE Total(c) \in Nat
  <2>1. wanted[c] \in Nat
    BY DEF Init
  <2>2. QED
    BY <2>1 DEF Total, LF
<1>2. QED
  BY <1>1 DEF Init, TypeOK, None, NoRequest, Junk, LF, Total

LEMMA BodyAtType ==
    ASSUME TypeOK
    PROVE  BodyAt \in Nat /\ (pc # "loop" => Needed \in Nat)
<1>1. BodyAt \in Nat
  <2>1. CASE BlankLine = {}
    BY <2>1 DEF BodyAt, TypeOK
  <2>2. CASE BlankLine # {}
    <3> DEFINE k == CHOOSE i \in BlankLine : TRUE
    <3>1. k \in BlankLine
      BY <2>2
    <3>2. BodyAt = k + 2
      BY <2>2 DEF BodyAt
    <3>3. k \in Nat
      BY <3>1 DEF BlankLine, TypeOK
    <3> HIDE DEF k
    <3>4. QED
      BY <3>2, <3>3
  <2>3. QED
    BY <2>1, <2>2
<1>2. pc # "loop" => wanted[cur] \in Nat
  BY DEF TypeOK
<1>3. QED
  BY <1>1, <1>2 DEF Needed
-----------------------------------------------------------------------------
(* What a read or a close has to establish for TypeOK. *)
LEMMA TypeReceive ==
    ASSUME TypeOK, pc # "loop", NEW size \in Nat \ {0}, NEW cells,
           Receive(size, cells), cells \in [0 .. size - 1 -> Cell \cup {NUL, Junk}],
           pc' \in {"read", "parse", "body", "handle"}, rounds' \in 0 .. MaxRounds,
           UNCHANGED <<nonblocking, wanted, sent, gone, open, cur, argv, whole>>
    PROVE  TypeOK'
<1>1. input_size' = size /\ input' = cells
  BY DEF Receive
<1>2. /\ taken' \in [Conns -> Nat]
      /\ \A c \in Conns : taken'[c] <= sent'[c] /\ sent'[c] <= Total(c)'
      /\ input_len' \in Nat
  BY ReceiveType
<1>3. /\ nonblocking' \in BOOLEAN /\ wanted' \in [Conns -> Lengths] /\ sent' \in [Conns -> Nat]
      /\ gone' \subseteq Conns /\ open' \subseteq Conns /\ cur' \in Conns
      /\ argv' \in [body : Nat, needed : Nat] /\ whole' \subseteq Conns
  BY DEF TypeOK
<1>4. QED
  BY <1>1, <1>2, <1>3 DEF TypeOK

LEMMA TypeClose ==
    ASSUME TypeOK, Close, UNCHANGED <<nonblocking, net, whole>>
    PROVE  TypeOK'
<1>1. /\ open' \subseteq Conns /\ input_size' \in Nat \ {0}
      /\ input' \in [0 .. input_size' - 1 -> Cell \cup {NUL, Junk}]
  BY CloseType
<1>2. /\ input_len' \in Nat /\ pc' = "loop" /\ cur' = None
      /\ rounds' \in 0 .. MaxRounds /\ argv' \in [body : Nat, needed : Nat]
  BY LeaveType DEF Close
<1>3. /\ nonblocking' \in BOOLEAN /\ wanted' \in [Conns -> Lengths] /\ sent' \in [Conns -> Nat]
      /\ taken' \in [Conns -> Nat] /\ gone' \subseteq Conns /\ whole' \subseteq Conns
      /\ \A c \in Conns : taken'[c] <= sent'[c] /\ sent'[c] <= Total(c)'
  BY DEF TypeOK, net, Total
<1>4. QED
  BY <1>1, <1>2, <1>3 DEF TypeOK

LEMMA TypeLeave ==
    ASSUME TypeOK, Leave, UNCHANGED <<nonblocking, net, open, memory, whole>>
    PROVE  TypeOK'
<1>1. /\ input_len' \in Nat /\ pc' = "loop" /\ cur' = None
      /\ rounds' \in 0 .. MaxRounds /\ argv' \in [body : Nat, needed : Nat]
  BY LeaveType
<1>2. QED
  BY <1>1 DEF TypeOK, net, memory, Total

LEMMA TypeSend == ASSUME TypeOK, NEW c \in Conns, Send(c) PROVE TypeOK'
<1>1. PICK n \in sent[c] + 1 .. Total(c) : sent' = [sent EXCEPT ![c] = n]
  BY DEF Send
<1>2. sent[c] \in Nat /\ taken[c] \in Nat /\ taken[c] <= sent[c] /\ Total(c) \in Nat
  <2>1. wanted[c] \in Nat
    BY DEF TypeOK
  <2>2. QED
    BY <2>1 DEF TypeOK, Total, LF
<1>3. sent' \in [Conns -> Nat]
  BY <1>1, <1>2 DEF TypeOK
<1>4. \A k \in Conns : taken'[k] <= sent'[k] /\ sent'[k] <= Total(k)'
  BY <1>1, <1>2 DEF TypeOK, Total, Send
<1>5. whole' \subseteq Conns
  BY DEF TypeOK, Send
<1>6. QED
  BY <1>3, <1>4, <1>5 DEF TypeOK, Send, memory

LEMMA TypeRead == ASSUME TypeOK, AxilRead PROVE TypeOK'
<1> DEFINE size == RoomToRead(ReadSize)
           copied == Copied(size, ReadSize)
<1>1. pc = "read" /\ ReadSize \in Nat
  BY TypeScalars, ReadSizeType DEF AxilRead
<1>2. size \in Nat \ {0}
  BY <1>1, TypeScalars, RoomType
<1>3. copied \in [0 .. size - 1 -> Cell \cup {NUL, Junk}]
  BY <1>1, <1>2, CopiedType
<1>4. [copied EXCEPT ![input_len'] = NUL] \in [0 .. size - 1 -> Cell \cup {NUL, Junk}]
  BY <1>3
<1>5. UNCHANGED <<nonblocking, wanted, sent, gone, open, cur, argv, whole>>
  BY DEF AxilRead
<1>6. rounds \in 0 .. MaxRounds
  BY DEF TypeOK
<1>7. CASE ReadSize = BufSize /\ ~LastRound
  <2>1. Receive(size, copied) /\ rounds' = rounds + 1 /\ pc' = "read"
    BY <1>1, <1>7 DEF AxilRead
  <2>2. rounds' \in 0 .. MaxRounds
    BY <1>6, <1>7, <2>1 DEF LastRound
  <2> HIDE DEF size, copied
  <2>3. QED
    BY <1>1, <1>2, <1>3, <1>5, <2>1, <2>2, TypeReceive
<1>8. CASE ~(ReadSize = BufSize /\ ~LastRound)
  <2>1. Receive(size, [copied EXCEPT ![input_len'] = NUL]) /\ rounds' = rounds /\ pc' = "parse"
    BY <1>8 DEF AxilRead
  <2> HIDE DEF size, copied
  <2>2. QED
    BY <1>1, <1>2, <1>4, <1>5, <1>6, <2>1, TypeReceive
<1>9. QED
  BY <1>7, <1>8

LEMMA TypeBody == ASSUME TypeOK, BufferPostBody PROVE TypeOK'
<1> DEFINE size == RoomForBody(ReadSize)
           copied == Copied(size, ReadSize)
<1>1. pc = "body" /\ ReadSize \in Nat
  BY TypeScalars, ReadSizeType DEF BufferPostBody
<1>2. size \in Nat \ {0}
  BY <1>1, TypeScalars, RoomType
<1>3. copied \in [0 .. size - 1 -> Cell \cup {NUL, Junk}]
  BY <1>1, <1>2, CopiedType
<1>4. /\ Receive(size, copied) /\ pc' \in {"body", "handle"} /\ rounds' = rounds
      /\ UNCHANGED <<nonblocking, wanted, sent, gone, open, cur, argv, whole>>
  BY DEF BufferPostBody
<1>5. rounds' \in 0 .. MaxRounds
  BY <1>4 DEF TypeOK
<1> HIDE DEF size, copied
<1>6. QED
  BY <1>1, <1>2, <1>3, <1>4, <1>5, TypeReceive

LEMMA TypeParse == ASSUME TypeOK, Parse PROVE TypeOK'
<1>1. UNCHANGED <<nonblocking, net, whole>> /\ pc = "parse"
  BY DEF Parse
<1>2. CASE Passed
  BY <1>1, <1>2, TypeLeave DEF Passed
<1>3. CASE Refused
  BY <1>1, <1>3, TypeClose DEF Refused
<1>4. CASE Taken
  <2>1. argv' \in [body : Nat, needed : Nat]
    BY <1>1, <1>4, BodyAtType DEF Taken
  <2>2. pc' \in {"body", "handle"} /\ cur \in Conns
    BY <1>1, <1>4 DEF Taken, TypeOK
  <2>3. QED
    BY <1>1, <1>4, <2>1, <2>2 DEF Taken, TypeOK, net, memory, Total
<1>5. QED
  BY <1>2, <1>3, <1>4 DEF Parse

LEMMA TypeNext == TypeOK /\ [Next]_vars => TypeOK'
<1> SUFFICES ASSUME TypeOK, [Next]_vars PROVE TypeOK'
  OBVIOUS
<1>1. ASSUME NEW c \in Conns, Send(c) PROVE TypeOK'
  BY <1>1, TypeSend
<1>2. ASSUME NEW c \in Conns, HangUp(c) PROVE TypeOK'
  BY <1>2 DEF HangUp, TypeOK, memory, Total
<1>3. ASSUME NEW c \in Conns, StartRead(c) PROVE TypeOK'
  BY <1>3 DEF StartRead, TypeOK, net, memory, Total
<1>4. CASE AxilRead
  BY <1>4, TypeRead
<1>5. CASE ReadEnds
  BY <1>5, TypeLeave, TypeClose DEF ReadEnds
<1>6. CASE Parse
  BY <1>6, TypeParse
<1>7. CASE BufferPostBody
  BY <1>7, TypeBody
<1>8. CASE BodyFails
  BY <1>8, TypeClose DEF BodyFails
<1>9. CASE Handle
  BY <1>9, TypeClose DEF Handle
<1>10. CASE UNCHANGED vars
  BY <1>10 DEF vars, TypeOK, net, memory, Total
<1>11. QED
  BY <1>1, <1>2, <1>3, <1>4, <1>5, <1>6, <1>7, <1>8, <1>9, <1>10 DEF Next, Thread

(* Every variable keeps its type: the buffer is a table of input_size cells, *)
(* nobody reads what was not sent, and no more than the rounds of axil_read  *)
(* are gone through.                                                         *)
THEOREM TypeCorrect == Spec => []TypeOK
  BY TypeInit, TypeNext, PTL DEF Spec
-----------------------------------------------------------------------------
(* InBounds is not inductive as it stands: a read starts with nothing held. *)
Empty == pc = "loop" => input_len = 0

Roomy == InBounds /\ Empty

LEMMA RoomyNext ==
    ASSUME TypeOK, Roomy, [Next]_vars
    PROVE  Roomy'
<1> USE DEF Roomy, InBounds, Empty
<1>1. ASSUME NEW c \in Conns, Send(c) \/ HangUp(c) PROVE Roomy'
  BY <1>1 DEF Send, HangUp, memory
<1>2. ASSUME NEW c \in Conns, StartRead(c) PROVE Roomy'
  BY <1>2 DEF StartRead, memory, TypeOK
<1>3. CASE AxilRead
  <2>1. ReadSize \in Nat /\ input_len < input_size
    BY <1>3, TypeScalars, ReadSizeType DEF AxilRead
  <2>2. input_len + ReadSize < RoomToRead(ReadSize)
    BY <2>1, TypeScalars, RoomType
  <2>3. input_len' = input_len + ReadSize /\ input_size' = RoomToRead(ReadSize)
    BY <1>3 DEF AxilRead, Receive
  <2>4. pc' \in {"read", "parse"}
    BY <1>3 DEF AxilRead
  <2>5. QED
    BY <2>2, <2>3, <2>4
<1>4. CASE BufferPostBody
  <2>1. ReadSize \in Nat
    BY <1>4, TypeScalars, ReadSizeType DEF BufferPostBody
  <2>2. input_len + ReadSize <= RoomForBody(ReadSize)
    BY <2>1, TypeScalars, RoomType
  <2>3. input_len' = input_len + ReadSize /\ input_size' = RoomForBody(ReadSize)
    BY <1>4 DEF BufferPostBody, Receive
  <2>4. pc' \in {"body", "handle"}
    BY <1>4 DEF BufferPostBody
  <2>5. QED
    BY <2>2, <2>3, <2>4
<1>5. CASE ReadEnds \/ BodyFails \/ Handle
  BY <1>5 DEF ReadEnds, BodyFails, Handle, Close, Leave
<1>6. CASE Parse
  <2>1. CASE Passed \/ Refused
    BY <2>1 DEF Passed, Refused, Close, Leave
  <2>2. CASE Taken
    <3>1. /\ input_len' = input_len /\ input_size' = input_size
          /\ pc' \in {"body", "handle"} /\ input_len < input_size
      BY <1>6, <2>2 DEF Taken, Parse, memory
    <3>2. QED
      BY <3>1 DEF TypeOK
  <2>3. QED
    BY <1>6, <2>1, <2>2 DEF Parse
<1>7. CASE UNCHANGED vars
  BY <1>7 DEF vars, memory
<1>8. QED
  BY <1>1, <1>2, <1>3, <1>4, <1>5, <1>6, <1>7 DEF Next, Thread

(* No read overruns the input buffer, whatever the sizes and the rounds. *)
THEOREM NeverOverrun == Spec => []InBounds
<1>1. Init => Roomy
  BY DEF Init, Roomy, InBounds, Empty
<1>2. TypeOK /\ Roomy /\ [Next]_vars => Roomy'
  BY RoomyNext
<1>3. QED
  BY <1>1, <1>2, TypeCorrect, PTL DEF Spec, Roomy
-----------------------------------------------------------------------------
(* What the buffer holds is the latest stretch of what the server has read   *)
(* of the connection it serves, in order.                                    *)
Held ==
    pc # "loop" =>
      /\ input_len <= taken[cur]
      /\ \A i \in 0 .. input_len - 1 :
           input[i] = [conn |-> cur, at |-> taken[cur] - input_len + i + 1]

(* Every round but the last has filled the array, and something was read.    *)
Rounds ==
    /\ pc = "loop" => rounds = 0
    /\ pc = "read" => input_len = rounds * BufSize
    /\ pc \in {"parse", "body", "handle"} => input_len > 0

(* A head that came in one piece is all there when it is parsed, unless its  *)
(* beginning has been dropped, and its body is taken to be where it is.      *)
HeadThere ==
    /\ \A c \in whole : sent[c] >= LF
    /\ pc = "parse" /\ cur \in whole /\ taken[cur] = input_len => input_len >= LF
    /\ pc \in {"body", "handle"} /\ cur \in whole =>
         /\ taken[cur] = input_len /\ input_len >= LF
         /\ argv.body = LF
         /\ wanted[cur] > 0 => argv.needed = LF + wanted[cur]
         /\ pc = "handle" => input_len >= argv.needed

Whole == TypeOK /\ Roomy /\ Held /\ Rounds /\ HeadThere

(* What axil_read collects before it gives up holds a whole head.            *)
HeadsFit == LF <= (MaxRounds + 1) * BufSize

LEMMA WholeInit == Init => Whole
  BY TypeInit DEF Init, Whole, Roomy, InBounds, Empty, Held, Rounds, HeadThere

(* Back in the loop, nothing is claimed of the buffer. *)
LEMMA WholeLeave ==
    ASSUME Whole, TypeOK', Roomy', Leave, UNCHANGED <<net, whole>>
    PROVE  Whole'
  BY DEF Whole, Leave, net, Held, Rounds, HeadThere

(* A read puts the next cells behind the others. *)
LEMMA HeldRead ==
    ASSUME TypeOK, Held, pc # "loop", NEW size \in Nat \ {0}, NEW cells,
           Receive(size, cells), UNCHANGED <<wanted, sent, cur>>,
           input_len <= input_size, input_size <= size, input_len + ReadSize <= size,
           \A i \in 0 .. input_len + ReadSize - 1 : cells[i] = Copied(size, ReadSize)[i]
    PROVE  Held'
<1>1. /\ ReadSize \in Nat /\ input_len \in Nat /\ input_size \in Nat
      /\ taken[cur] \in Nat /\ input_len <= taken[cur]
  BY TypeScalars, ReadSizeType DEF TypeOK, Held
<1>2. /\ input_len' = input_len + ReadSize /\ taken'[cur] = taken[cur] + ReadSize
      /\ input' = cells
  BY ReceiveType DEF Receive
<1>3. ASSUME NEW i \in 0 .. input_len' - 1
      PROVE  input'[i] = [conn |-> cur, at |-> taken'[cur] - input_len' + i + 1]
  <2>1. i \in 0 .. size - 1 /\ i \in 0 .. input_len + ReadSize - 1
    BY <1>1, <1>2
  <2>2. taken'[cur] - input_len' + i + 1 = taken[cur] - input_len + i + 1
    BY <1>1, <1>2
  <2>3. CASE i < input_len
    <3>1. i \in 0 .. input_len - 1 /\ i < input_size
      BY <1>1, <2>1, <2>3
    <3>2. Copied(size, ReadSize)[i] = Resized(size)[i]
      BY <1>1, <2>1, <2>3 DEF Copied
    <3>3. Resized(size)[i] = input[i]
      BY <2>1, <3>1 DEF Resized
    <3>4. input[i] = [conn |-> cur, at |-> taken[cur] - input_len + i + 1]
      BY <3>1 DEF Held
    <3>5. QED
      BY <1>2, <2>1, <2>2, <3>2, <3>3, <3>4
  <2>4. CASE ~(i < input_len)
    <3>1. input_len <= i /\ i < input_len + ReadSize
      BY <1>1, <2>1, <2>4
    <3>2. Copied(size, ReadSize)[i] = [conn |-> cur, at |-> taken[cur] + (i - input_len) + 1]
      BY <2>1, <3>1 DEF Copied
    <3>3. taken[cur] + (i - input_len) + 1 = taken[cur] - input_len + i + 1
      BY <1>1, <2>1
    <3>4. QED
      BY <1>2, <2>1, <2>2, <3>2, <3>3
  <2>5. QED
    BY <2>3, <2>4
<1>4. input_len' <= taken'[cur] /\ cur' = cur
  BY <1>1, <1>2
<1>5. QED
  BY <1>3, <1>4 DEF Held

LEMMA WholeSend ==
    ASSUME Whole, TypeOK', Roomy', NEW c \in Conns, Send(c)
    PROVE  Whole'
<1> USE DEF Whole
<1>1. PICK n \in sent[c] + 1 .. Total(c) :
        /\ sent' = [sent EXCEPT ![c] = n]
        /\ whole' = IF sent[c] = 0 /\ n >= LF THEN whole \cup {c} ELSE whole
  BY DEF Send
<1>2. UNCHANGED <<wanted, taken, input, input_size, input_len, pc, cur, rounds, argv>>
  BY DEF Send, memory
<1>3. sent[c] \in Nat /\ taken[c] \in Nat /\ taken[c] <= sent[c] /\ n \in Int /\ n > sent[c]
  <2>1. wanted[c] \in Nat
    BY DEF TypeOK
  <2>2. Total(c) \in Nat
    BY <2>1 DEF Total, LF
  <2>3. sent[c] \in Nat /\ taken[c] \in Nat /\ taken[c] <= sent[c]
    BY DEF TypeOK
  <2>4. QED
    BY <2>2, <2>3
<1>4. Held' /\ Rounds'
  BY <1>2 DEF Held, Rounds
<1>5. pc \in {"parse", "body", "handle"} => cur \in Conns /\ taken[cur] > 0
  <2>1. pc # "loop" => cur \in Conns /\ input_len \in Nat /\ taken[cur] \in Nat
    BY DEF TypeOK
  <2>2. pc # "loop" => input_len <= taken[cur]
    BY DEF Held
  <2>3. pc \in {"parse", "body", "handle"} => input_len > 0
    BY DEF Rounds
  <2>4. QED
    BY <2>1, <2>2, <2>3
<1>6. pc \in {"parse", "body", "handle"} /\ cur \in whole' => cur \in whole
  BY <1>1, <1>3, <1>5
<1>7. \A k \in whole' : sent'[k] >= LF
  <2> SUFFICES ASSUME NEW k \in whole' PROVE sent'[k] >= LF
    OBVIOUS
  <2>1. CASE k = c
    BY <1>1, <1>3, <2>1 DEF HeadThere, TypeOK, LF
  <2>2. CASE k # c
    BY <1>1, <2>2 DEF HeadThere, TypeOK
  <2>3. QED
    BY <2>1, <2>2
<1>8. HeadThere'
  BY <1>2, <1>6, <1>7 DEF HeadThere
<1>9. QED
  BY <1>4, <1>8

LEMMA WholeRead ==
    ASSUME HeadsFit, Whole, TypeOK', Roomy', AxilRead
    PROVE  Whole'
<1> USE DEF Whole
<1> DEFINE size == RoomToRead(ReadSize)
           copied == Copied(size, ReadSize)
<1>1. /\ pc = "read" /\ cur \in Conns /\ Avail(cur) > 0
      /\ UNCHANGED <<wanted, sent, cur, argv, whole>>
  BY DEF AxilRead, TypeOK
<1>2. /\ Avail(cur) \in Nat /\ ReadSize \in Nat /\ ReadSize <= Avail(cur)
      /\ ReadSize <= BufSize /\ ReadSize > 0
  BY <1>1, TypeScalars, ReadSizeType
<1>3. /\ input_len \in Nat /\ input_size \in Nat /\ taken[cur] \in Nat /\ sent[cur] \in Nat
      /\ input_len < input_size /\ rounds \in 0 .. MaxRounds
  BY <1>1 DEF TypeOK, Roomy, InBounds
<1>4. /\ size \in Nat \ {0} /\ size >= input_size /\ input_len + ReadSize < size
  BY <1>2, <1>3, TypeScalars, RoomType
<1>5. PICK cells : /\ Receive(size, cells)
                   /\ \A i \in 0 .. input_len + ReadSize - 1 : cells[i] = copied[i]
  <2>1. CASE ReadSize = BufSize /\ ~LastRound
    BY <2>1 DEF AxilRead
  <2>2. CASE ~(ReadSize = BufSize /\ ~LastRound)
    <3> DEFINE ended == [copied EXCEPT ![input_len'] = NUL]
    <3>1. Receive(size, ended)
      BY <2>2 DEF AxilRead
    <3>2. input_len' = input_len + ReadSize
      BY <3>1 DEF Receive
    <3>3. \A i \in 0 .. input_len + ReadSize - 1 : ended[i] = copied[i]
      BY <1>2, <1>3, <1>4, <3>2 DEF Copied
    <3>4. QED
      BY <3>1, <3>3
  <2>3. QED
    BY <2>1, <2>2
<1>6. input_len' = input_len + ReadSize /\ taken'[cur] = taken[cur] + ReadSize
  BY <1>1, <1>5, ReceiveType
<1>7. Held'
  <2> HIDE DEF size
  <2>1. QED
    BY <1>1, <1>2, <1>3, <1>4, <1>5, HeldRead
<1>8. input_len = rounds * BufSize
  BY <1>1 DEF Rounds
<1>9. CASE ReadSize = BufSize /\ ~LastRound
  <2>1. pc' = "read" /\ rounds' = rounds + 1
    BY <1>1, <1>9 DEF AxilRead
  <2>2. (rounds + 1) * BufSize = rounds * BufSize + BufSize
    BY <1>3
  <2>3. QED
    BY <1>1, <1>6, <1>7, <1>8, <1>9, <2>1, <2>2 DEF Rounds, HeadThere
<1>10. CASE ~(ReadSize = BufSize /\ ~LastRound)
  <2>1. pc' = "parse"
    BY <1>1, <1>10 DEF AxilRead
  <2>2. Rounds'
    BY <1>2, <1>3, <1>6, <2>1 DEF Rounds
  <2>3. ASSUME cur \in whole, taken'[cur] = input_len' PROVE input_len' >= LF
    <3>1. sent[cur] >= LF
      BY <2>3 DEF HeadThere
    <3>2. CASE ReadSize < BufSize
      <4>1. ReadSize = Avail(cur)
        BY <1>2, <3>2 DEF ReadSize
      <4>2. taken'[cur] = sent[cur]
        BY <1>3, <1>6, <4>1 DEF Avail
      <4>3. QED
        BY <2>3, <3>1, <4>2
    <3>3. CASE ReadSize = BufSize
      <4>1. rounds = MaxRounds
        BY <1>10, <3>3 DEF LastRound
      <4>2. (MaxRounds + 1) * BufSize = MaxRounds * BufSize + BufSize
        OBVIOUS
      <4>3. input_len' = (MaxRounds + 1) * BufSize
        BY <1>6, <1>8, <3>3, <4>1, <4>2
      <4>4. QED
        BY <4>3 DEF HeadsFit
    <3>4. QED
      BY <1>2, <3>2, <3>3
  <2>4. QED
    BY <1>1, <1>7, <2>1, <2>2, <2>3 DEF HeadThere
<1>11. QED
  BY <1>9, <1>10

LEMMA WholeBody ==
    ASSUME Whole, TypeOK', Roomy', BufferPostBody
    PROVE  Whole'
<1> USE DEF Whole
<1> DEFINE size == RoomForBody(ReadSize)
           copied == Copied(size, ReadSize)
<1>1. /\ pc = "body" /\ cur \in Conns /\ Avail(cur) > 0
      /\ pc' = IF input_len' < argv.needed THEN "body" ELSE "handle"
      /\ Receive(size, copied)
      /\ UNCHANGED <<wanted, sent, cur, rounds, argv, whole>>
  BY DEF BufferPostBody, TypeOK
<1>2. ReadSize \in Nat /\ ReadSize > 0
  BY <1>1, TypeScalars, ReadSizeType
<1>3. input_len \in Nat /\ input_size \in Nat /\ taken[cur] \in Nat /\ input_len <= input_size
  BY <1>1 DEF TypeOK, Roomy, InBounds
<1>4. size \in Nat \ {0} /\ size >= input_size /\ input_len + ReadSize <= size
  BY <1>2, <1>3, TypeScalars, RoomType
<1>5. input_len' = input_len + ReadSize /\ taken'[cur] = taken[cur] + ReadSize
  BY <1>1, ReceiveType
<1>6. Held'
  <2> HIDE DEF size
  <2>1. \A i \in 0 .. input_len + ReadSize - 1 : copied[i] = Copied(size, ReadSize)[i]
    OBVIOUS
  <2> HIDE DEF copied
  <2>2. QED
    BY <1>1, <1>2, <1>3, <1>4, <2>1, HeldRead
<1>7. Rounds'
  BY <1>1, <1>2, <1>3, <1>5 DEF Rounds
<1>8. argv.needed \in Nat
  BY DEF TypeOK
<1>9. HeadThere'
  <2> HIDE DEF size, copied
  <2>1. \A c \in whole' : sent'[c] >= LF
    BY <1>1 DEF HeadThere
  <2>2. ASSUME cur \in whole
        PROVE  /\ taken'[cur] = input_len' /\ input_len' >= LF
               /\ argv'.body = LF
               /\ wanted'[cur] > 0 => argv'.needed = LF + wanted'[cur]
               /\ pc' = "handle" => input_len' >= argv'.needed
    <3>1. /\ taken[cur] = input_len /\ input_len >= LF /\ argv.body = LF
          /\ wanted[cur] > 0 => argv.needed = LF + wanted[cur]
      BY <1>1, <2>2 DEF HeadThere
    <3>2. pc' = "handle" => input_len' >= argv.needed
      BY <1>1, <1>2, <1>3, <1>5, <1>8
    <3>3. QED
      BY <1>1, <1>2, <1>3, <1>5, <3>1, <3>2 DEF LF
  <2>3. QED
    BY <1>1, <2>1, <2>2 DEF HeadThere
<1>10. QED
  BY <1>6, <1>7, <1>9

(* Where the body of a whole head is found. *)
LEMMA BodyFound ==
    ASSUME TypeOK, Held, pc = "parse", input_len >= LF, taken[cur] = input_len
    PROVE  /\ BodyAt = LF
           /\ HasLength <=> wanted[cur] > 0
<1>1. input_len \in Nat
  BY DEF TypeOK
<1>2. ASSUME NEW i \in 0 .. input_len - 1 PROVE input[i].at = i + 1
  <2>1. input[i] = [conn |-> cur, at |-> taken[cur] - input_len + i + 1]
    BY DEF Held
  <2>2. taken[cur] - input_len + i + 1 = i + 1
    BY <1>1
  <2>3. QED
    BY <2>1, <2>2
<1>3. BlankLine = {CR - 1}
  BY <1>1, <1>2 DEF BlankLine, CR, LF
<1>4. BodyAt = LF
  <2>1. (CHOOSE i \in {CR - 1} : TRUE) = CR - 1
    OBVIOUS
  <2>2. BodyAt = (CHOOSE i \in {CR - 1} : TRUE) + 2
    BY <1>3 DEF BodyAt
  <2>3. QED
    BY <2>1, <2>2 DEF CR, LF
<1>5. HEADER - 1 \in 1 .. input_len - 1 /\ input[HEADER - 1].at = HEADER
  BY <1>1, <1>2 DEF HEADER, LF
<1>6. QED
  BY <1>4, <1>5 DEF HasLength

LEMMA WholeParse ==
    ASSUME Whole, TypeOK', Roomy', Parse
    PROVE  Whole'
<1> USE DEF Whole
<1>1. pc = "parse" /\ cur \in Conns /\ UNCHANGED <<nonblocking, net, whole>>
  BY DEF Parse, TypeOK
<1>2. CASE Passed \/ Refused
  BY <1>1, <1>2, WholeLeave DEF Passed, Refused, Close
<1>3. CASE Taken
  <2>1. /\ argv' = [body |-> BodyAt, needed |-> IF HasLength THEN Needed ELSE 0]
        /\ pc' = IF input_len < argv'.needed THEN "body" ELSE "handle"
        /\ UNCHANGED <<wanted, sent, taken, input, input_len, cur, rounds, whole>>
        /\ IsRequest
    BY <1>1, <1>3 DEF Taken, memory, net
  <2>2. /\ input_len \in Nat /\ input_len > 0 /\ taken[cur] \in Nat
        /\ wanted[cur] \in Nat
    BY <1>1 DEF Rounds, TypeOK
  <2>3. argv'.needed \in Nat /\ pc' \in {"body", "handle"}
    BY <2>1 DEF TypeOK
  <2>4. Held'
    BY <1>1, <2>1, <2>3 DEF Held
  <2>5. Rounds'
    BY <1>1, <2>1, <2>2, <2>3 DEF Rounds
  <2>6. taken[cur] = input_len
    <3>1. input[0] = [conn |-> cur, at |-> taken[cur] - input_len + 0 + 1]
      BY <1>1, <2>2 DEF Held
    <3>2. QED
      BY <2>1, <2>2, <3>1 DEF IsRequest, LINE
  <2>7. ASSUME cur \in whole
        PROVE  /\ input_len >= LF
               /\ argv'.body = LF
               /\ wanted[cur] > 0 => argv'.needed = LF + wanted[cur]
    <3>1. input_len >= LF
      BY <1>1, <2>6, <2>7 DEF HeadThere
    <3>2. BodyAt = LF /\ (HasLength <=> wanted[cur] > 0)
      BY <1>1, <2>6, <3>1, BodyFound
    <3>3. QED
      BY <2>1, <3>1, <3>2 DEF Needed
  <2>8. pc' = "handle" => input_len >= argv'.needed
    BY <2>1, <2>2, <2>3
  <2>9. HeadThere'
    BY <2>1, <2>3, <2>6, <2>7, <2>8 DEF HeadThere
  <2>10. QED
    BY <2>4, <2>5, <2>9
<1>4. QED
  BY <1>2, <1>3 DEF Parse

LEMMA WholeNext ==
    ASSUME HeadsFit, Whole, [Next]_vars
    PROVE  Whole'
<1>1. TypeOK' /\ Roomy'
  BY TypeNext, RoomyNext DEF Whole
<1>2. ASSUME NEW c \in Conns, Send(c) PROVE Whole'
  BY <1>1, <1>2, WholeSend
<1>3. ASSUME NEW c \in Conns, HangUp(c) PROVE Whole'
  BY <1>1, <1>3 DEF HangUp, memory, Whole, Held, Rounds, HeadThere
<1>4. ASSUME NEW c \in Conns, StartRead(c) PROVE Whole'
  <2>1. /\ pc = "loop" /\ pc' = "read" /\ cur' = c
        /\ UNCHANGED <<wanted, sent, taken, input, input_len, rounds, whole>>
    BY <1>4 DEF StartRead, net, memory
  <2>2. input_len = 0 /\ taken[c] \in Nat /\ rounds = 0
    BY <2>1 DEF Whole, Roomy, Empty, TypeOK, Rounds
  <2>3. Held'
    BY <2>1, <2>2 DEF Held
  <2>4. HeadThere'
    BY <2>1 DEF Whole, HeadThere
  <2>5. QED
    BY <1>1, <2>1, <2>2, <2>3, <2>4 DEF Whole, Rounds
<1>5. CASE AxilRead
  BY <1>1, <1>5, WholeRead
<1>6. CASE ReadEnds \/ BodyFails \/ Handle
  BY <1>1, <1>6, WholeLeave DEF ReadEnds, BodyFails, Handle, Close
<1>7. CASE Parse
  BY <1>1, <1>7, WholeParse
<1>8. CASE BufferPostBody
  BY <1>1, <1>8, WholeBody
<1>9. CASE UNCHANGED vars
  BY <1>1, <1>9 DEF vars, net, memory, Whole, Held, Rounds, HeadThere
<1>10. QED
  BY <1>2, <1>3, <1>4, <1>5, <1>6, <1>7, <1>8, <1>9 DEF Next, Thread

(* A handler's string starts with the body's bytes. *)
LEMMA BodyRead ==
    ASSUME Whole, pc = "handle", cur \in whole
    PROVE  /\ Len(Body) >= wanted[cur]
           /\ \A i \in 1 .. wanted[cur] : Body[i] = [conn |-> cur, at |-> LF + i]
<1> DEFINE inside == {i \in LF .. input_size - 1 : \A j \in LF .. i : input[j] # NUL}
<1>1. /\ cur \in Conns /\ wanted[cur] \in Nat /\ input_len \in Nat /\ input_size \in Nat
      /\ input_len <= input_size /\ taken[cur] = input_len /\ input_len >= LF
      /\ argv.body = LF
  BY DEF Whole, TypeOK, HeadThere, Roomy, InBounds
<1>2. wanted[cur] > 0 => input_len >= LF + wanted[cur]
  BY DEF Whole, HeadThere
<1>3. ASSUME NEW i \in 0 .. input_len - 1 PROVE input[i] = [conn |-> cur, at |-> i + 1]
  <2>1. input[i] = [conn |-> cur, at |-> taken[cur] - input_len + i + 1]
    BY DEF Whole, Held
  <2>2. taken[cur] - input_len + i + 1 = i + 1
    BY <1>1
  <2>3. QED
    BY <2>1, <2>2
<1>4. LF .. LF + wanted[cur] - 1 \subseteq inside
  <2> SUFFICES ASSUME NEW i \in LF .. LF + wanted[cur] - 1 PROVE i \in inside
    OBVIOUS
  <2>1. i \in LF .. input_size - 1 /\ i < input_len
    BY <1>1, <1>2 DEF LF
  <2>2. ASSUME NEW j \in LF .. i PROVE input[j] # NUL
    <3>1. j \in 0 .. input_len - 1
      BY <1>1, <2>1 DEF LF
    <3>2. input[j].conn = cur
      <4>1. input[j] = [conn |-> cur, at |-> j + 1]
        BY <1>3, <3>1
      <4>2. QED
        BY <4>1
    <3>3. NUL.conn = 0
      BY DEF NUL
    <3>4. cur # 0
      BY <1>1 DEF Conns
    <3>5. QED
      BY <3>2, <3>3, <3>4
  <2>3. QED
    BY <2>1, <2>2
<1>5. IsFiniteSet(inside)
  <2>1. LF \in Int /\ input_size - 1 \in Int
    BY <1>1 DEF LF
  <2>2. IsFiniteSet(LF .. input_size - 1)
    BY <2>1, FS_Interval
  <2>3. QED
    BY <2>2, FS_Subset
<1>6. Cardinality(inside) \in Nat /\ Cardinality(inside) >= wanted[cur]
  <2>1. Cardinality(LF .. LF + wanted[cur] - 1) = wanted[cur]
    <3>1. ASSUME NEW a \in Int, NEW n \in Nat
          PROVE  Cardinality(a .. a + n - 1) = n
      <4>1. a + n - 1 \in Int
        OBVIOUS
      <4>2. Cardinality(a .. a + n - 1) = IF a > a + n - 1 THEN 0 ELSE a + n - 1 - a + 1
        BY <4>1, FS_Interval
      <4>3. QED
        BY <4>2
    <3>2. LF \in Int
      BY DEF LF
    <3>3. QED
      BY <1>1, <3>1, <3>2
  <2> HIDE DEF inside
  <2>2. Cardinality(LF .. LF + wanted[cur] - 1) <= Cardinality(inside)
    BY <1>4, <1>5, FS_Subset
  <2>3. Cardinality(inside) \in Nat
    BY <1>5, FS_CardinalityType
  <2>4. QED
    BY <1>1, <2>1, <2>2, <2>3
<1>7. Body = [i \in 1 .. Cardinality(inside) |-> input[LF + i - 1]]
  BY <1>1 DEF Body, StringAt
<1> HIDE DEF inside
<1>8. Len(Body) = Cardinality(inside)
  BY <1>6, <1>7
<1>9. ASSUME NEW i \in 1 .. wanted[cur] PROVE Body[i] = [conn |-> cur, at |-> LF + i]
  <2>1. Body[i] = input[LF + i - 1]
    BY <1>1, <1>6, <1>7
  <2>2. LF + i - 1 \in 0 .. input_len - 1 /\ (LF + i - 1) + 1 = LF + i
    BY <1>1, <1>2 DEF LF
  <2>3. QED
    BY <1>3, <2>1, <2>2
<1>10. QED
  BY <1>1, <1>6, <1>8, <1>9

(* A handler has the whole body of its own request, from its first byte on   *)
(* and in order, if the head came in one piece and fits what axil_read       *)
(* collects.                                                                 *)
THEOREM WholeBodyHandled == HeadsFit => (Spec => []BodyComplete)
<1> SUFFICES ASSUME HeadsFit PROVE Spec => []BodyComplete
  OBVIOUS
<1>1. Init => Whole
  BY WholeInit
<1>2. Whole /\ [Next]_vars => Whole'
  BY WholeNext
<1>3. Whole => BodyComplete
  BY BodyRead DEF BodyComplete
<1>4. QED
  BY <1>1, <1>2, <1>3, PTL DEF Spec
=============================================================================
