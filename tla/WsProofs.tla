------------------------------ MODULE WsProofs ------------------------------
(***************************************************************************)
(* Proofs about WsFrame, for frames of any lengths, as many of them as a   *)
(* client likes, cut up in any way.  ws_read keeps its place by counting:  *)
(* while it has one, what it has taken of the stream ends where a frame    *)
(* starts, or behind the head of a frame whose length it knows (Placed).   *)
(* Once it has lost it, it takes the next message for the end of the       *)
(* connection, since its length is 0 (Lost).                               *)
(*                                                                         *)
(* And about WsWrite, in the second half, for messages of any lengths and  *)
(* any number: the frames that were sent lie on the wire one behind the    *)
(* other (SentFrames), and a reader that goes from frame to frame, which   *)
(* exists because it never turns back, reads them from the first to the    *)
(* last.                                                                   *)
(***************************************************************************)
EXTENDS MCWs, SequenceTheorems, FiniteSetTheorems, WellFoundedInduction, TLAPS

Parts == {"head", "ext", "mask", "data"}
Cell == [frame : Nat, part : Parts, at : Nat]

ExtOf(f) == IF f.kind = "long" THEN EXT ELSE 0
Size(f) == HEAD + ExtOf(f) + Mask + f.len

(* What precedes the i-th frame of the stream. *)
Begin == [i \in 1 .. Len(ends) + 1 |-> IF i = 1 THEN 0 ELSE ends[i - 1]]

Typed ==
    /\ nonblocking \in BOOLEAN /\ gone \in BOOLEAN /\ open \in BOOLEAN /\ clean \in BOOLEAN
    /\ frames \in Seq(Frames) /\ stream \in Seq(Cell) /\ ends \in Seq(Nat)
    /\ sent \in 0 .. Len(stream) /\ taken \in 0 .. sent
    /\ head \in Frames \cup {NoHead}
    /\ frame_pl \in Nat /\ pl \in Nat
    /\ pc \in {"loop", "head", "ext", "rest"}
    /\ errno \in {"EAGAIN", "other"}
    /\ delivered \in Seq(Seq(Cell))

(* The frames lie in the stream one after another. *)
Laid ==
    /\ Len(ends) = Len(frames)
    /\ Len(stream) = Begin[Len(frames) + 1]
    /\ \A k \in 1 .. Len(stream) : stream[k].frame \in 1 .. Len(frames)
    /\ \A i \in 1 .. Len(frames) :
         /\ ends[i] = Begin[i] + Size(frames[i])
         /\ \A k \in 1 .. HEAD :
              stream[Begin[i] + k] = [frame |-> i, part |-> "head", at |-> k]
         /\ \A k \in 1 .. frames[i].len :
              stream[Begin[i] + Size(frames[i]) - frames[i].len + k]
                = [frame |-> i, part |-> "data", at |-> k]
    /\ \A i, j \in 1 .. Len(frames) + 1 : i <= j => Begin[i] <= Begin[j]

Current == Len(delivered) + 1

(* Where ws_read may be: in front of a frame; behind its head, with its      *)
(* length; or anywhere, with no length.                                      *)
AtStart ==
    /\ taken = Begin[Current]
    /\ head = NoHead /\ frame_pl = 0
    /\ pc \in {"loop", "head"}
    /\ pc = "head" => errno = "other"

Inside ==
    /\ Current <= Len(frames)
    /\ taken = Begin[Current] + HEAD
    /\ head = frames[Current] /\ pl = frames[Current].len /\ pl > 0 /\ frame_pl = pl
    /\ pc = "rest"

Lost ==
    /\ pc \in {"loop", "rest"}
    /\ pl = 0
    /\ head \in Frames /\ head.kind = "short"
    /\ frame_pl = 0 => head.len = 0

AllShort == Short(Len(frames))

Placed ==
    AllShort =>
      /\ Current <= Len(frames) + 1
      /\ \A i \in 1 .. Len(delivered) : delivered[i] = Cells(i, "data", frames[i].len)
      /\ IF open THEN AtStart \/ Inside \/ Lost ELSE pc = "loop"

(* No reason to cut the client off. *)
Calm ==
    /\ AllShort /\ ~gone /\ clean
    /\ \A i \in 1 .. Len(frames) : frames[i].len # 0

NotCut ==
    Calm =>
      /\ open /\ (AtStart \/ Inside)
      /\ \E k \in 1 .. Len(frames) + 1 : sent = Begin[k]

WsInv == Typed /\ Laid /\ Placed /\ NotCut
-----------------------------------------------------------------------------
CellOf(i) == [frame : {i}, part : Parts, at : Nat]

LEMMA Joined ==
    ASSUME NEW S, NEW s \in Seq(S), NEW t \in Seq(S)
    PROVE  /\ s \o t \in Seq(S) /\ Len(s \o t) = Len(s) + Len(t)
           /\ \A k \in 1 .. Len(s) : (s \o t)[k] = s[k]
           /\ \A k \in 1 .. Len(t) : (s \o t)[Len(s) + k] = t[k]
  BY ConcatProperties, LenProperties

LEMMA CellsAre ==
    ASSUME NEW i \in Nat, NEW part \in Parts, NEW n \in Nat
    PROVE  /\ Cells(i, part, n) \in Seq(CellOf(i)) /\ Len(Cells(i, part, n)) = n
           /\ \A k \in 1 .. n : Cells(i, part, n)[k] = [frame |-> i, part |-> part, at |-> k]
  BY DEF Cells, CellOf

(* The cells of a frame: how many they are, and which are its head and data. *)
LEMMA WireIs ==
    ASSUME NEW i \in Nat, NEW f \in Frames
    PROVE  /\ Wire(i, f) \in Seq(CellOf(i)) /\ Len(Wire(i, f)) = Size(f)
           /\ Size(f) \in Nat /\ f.len \in Nat /\ Size(f) >= HEAD + f.len
           /\ \A k \in 1 .. HEAD : Wire(i, f)[k] = [frame |-> i, part |-> "head", at |-> k]
           /\ \A k \in 1 .. f.len :
                Wire(i, f)[Size(f) - f.len + k] = [frame |-> i, part |-> "data", at |-> k]
<1> DEFINE e == ExtOf(f)
           a == Cells(i, "head", HEAD)
           b == Cells(i, "ext", e)
           c == Cells(i, "mask", Mask)
           d == Cells(i, "data", f.len)
           ab == a \o b
           abc == ab \o c
<1>1. f.len \in Nat /\ Mask \in Nat /\ e \in Nat /\ HEAD \in Nat
  BY WsFrameAssumption DEF WsFrameAssumption, FrameType, ExtOf, EXT, HEAD
<1>2. Size(f) = HEAD + e + Mask + f.len
  BY DEF Size
<1>3. Wire(i, f) = abc \o d
  BY DEF Wire, ExtOf
<1> HIDE DEF e
<1>4. /\ a \in Seq(CellOf(i)) /\ Len(a) = HEAD
      /\ \A k \in 1 .. HEAD : a[k] = [frame |-> i, part |-> "head", at |-> k]
  BY <1>1, CellsAre DEF Parts
<1>5. /\ b \in Seq(CellOf(i)) /\ Len(b) = e
      /\ c \in Seq(CellOf(i)) /\ Len(c) = Mask
  BY <1>1, CellsAre DEF Parts
<1>6. /\ d \in Seq(CellOf(i)) /\ Len(d) = f.len
      /\ \A k \in 1 .. f.len : d[k] = [frame |-> i, part |-> "data", at |-> k]
  BY <1>1, CellsAre DEF Parts
<1> HIDE DEF a, b, c, d
<1>7. /\ ab \in Seq(CellOf(i)) /\ Len(ab) = HEAD + e
      /\ \A k \in 1 .. HEAD : ab[k] = a[k]
  <2>1. a \in Seq(CellOf(i)) /\ b \in Seq(CellOf(i))
    BY <1>4, <1>5
  <2>2. /\ ab \in Seq(CellOf(i)) /\ Len(ab) = Len(a) + Len(b)
        /\ \A k \in 1 .. Len(a) : ab[k] = a[k]
    BY ONLY <2>1, Joined
  <2> QED
    BY <1>4, <1>5, <2>2
<1> HIDE DEF ab
<1>8. /\ abc \in Seq(CellOf(i)) /\ Len(abc) = HEAD + e + Mask
      /\ \A k \in 1 .. Len(ab) : abc[k] = ab[k]
  <2>1. ab \in Seq(CellOf(i)) /\ c \in Seq(CellOf(i))
    BY <1>5, <1>7
  <2>2. /\ abc \in Seq(CellOf(i)) /\ Len(abc) = Len(ab) + Len(c)
        /\ \A k \in 1 .. Len(ab) : abc[k] = ab[k]
    BY ONLY <2>1, Joined
  <2> QED
    BY <1>5, <1>7, <2>2
<1> HIDE DEF abc
<1>9. /\ abc \o d \in Seq(CellOf(i)) /\ Len(abc \o d) = Len(abc) + Len(d)
      /\ \A k \in 1 .. Len(abc) : (abc \o d)[k] = abc[k]
      /\ \A k \in 1 .. Len(d) : (abc \o d)[Len(abc) + k] = d[k]
  <2>1. abc \in Seq(CellOf(i)) /\ d \in Seq(CellOf(i))
    BY <1>6, <1>8
  <2> QED
    BY ONLY <2>1, Joined
<1>10. Len(Wire(i, f)) = Size(f) /\ Len(abc) = Size(f) - f.len
       /\ Size(f) \in Nat /\ Size(f) >= HEAD + f.len
  BY <1>1, <1>2, <1>3, <1>6, <1>8, <1>9
<1>11. \A k \in 1 .. HEAD : Wire(i, f)[k] = a[k]
  <2> SUFFICES ASSUME NEW k \in 1 .. HEAD PROVE Wire(i, f)[k] = a[k]
    OBVIOUS
  <2>1. k \in 1 .. Len(ab) /\ k \in 1 .. Len(abc)
    BY <1>1, <1>7, <1>8
  <2> QED
    BY <1>3, <1>7, <1>8, <1>9, <2>1
<1> QED
  BY <1>1, <1>3, <1>4, <1>6, <1>9, <1>10, <1>11
-----------------------------------------------------------------------------
LEMMA FramesAre ==
    ASSUME Typed, Laid, NEW i \in 1 .. Len(frames)
    PROVE  /\ frames[i] \in Frames /\ frames[i].len \in Nat
           /\ Begin[i] \in Nat /\ Begin[i + 1] \in Nat /\ Begin[i + 1] <= Len(stream)
           /\ Begin[i + 1] = Begin[i] + Size(frames[i])
           /\ Mask \in Nat /\ Mask > 0 /\ HEAD \in Nat /\ HEAD > 0
           /\ frames[i].kind = "short" =>
                Begin[i + 1] = Begin[i] + HEAD + Mask + frames[i].len
<1>1. frames[i] \in Frames
  BY DEF Typed
<1>2. Mask \in Nat /\ Mask > 0 /\ HEAD \in Nat /\ HEAD > 0 /\ EXT \in Nat
  BY WsFrameAssumption DEF WsFrameAssumption, HEAD, EXT
<1>3. frames[i].len \in Nat
  BY <1>1, WsFrameAssumption DEF WsFrameAssumption, FrameType
<1>4. i \in Nat /\ Len(frames) \in Nat /\ i >= 1 /\ i <= Len(frames) /\ Len(ends) = Len(frames)
  BY DEF Typed, Laid
<1>5. Begin[i + 1] = ends[i]
  BY <1>4 DEF Begin
<1>6. \A j \in 1 .. Len(ends) : ends[j] \in Nat
  BY DEF Typed
<1>7. Begin[i] \in Nat /\ Begin[i + 1] \in Nat
  <2>1. CASE i = 1
    BY <1>4, <1>5, <1>6, <2>1 DEF Begin
  <2>2. CASE i # 1
    <3>1. i - 1 \in 1 .. Len(ends) /\ i \in 1 .. Len(ends)
      BY <1>4, <2>2
    <3> QED
      BY <1>5, <1>6, <2>2, <3>1 DEF Begin
  <2> QED
    BY <2>1, <2>2
<1>8. Begin[i + 1] <= Len(stream)
  <2>1. i + 1 \in 1 .. Len(frames) + 1 /\ Len(frames) + 1 \in 1 .. Len(frames) + 1
        /\ i + 1 <= Len(frames) + 1
    BY <1>4
  <2>2. Begin[i + 1] <= Begin[Len(frames) + 1]
    BY <2>1 DEF Laid
  <2> QED
    BY <2>2 DEF Laid
<1>9. Begin[i + 1] = Begin[i] + Size(frames[i])
  BY <1>5 DEF Laid
<1>10. frames[i].kind = "short" => Size(frames[i]) = HEAD + Mask + frames[i].len
  BY <1>2, <1>3 DEF Size, ExtOf
<1> QED
  BY <1>1, <1>2, <1>3, <1>7, <1>8, <1>9, <1>10

LEMMA WithinFrame ==
    ASSUME NEW b \in Nat, NEW size \in Nat, NEW len \in Nat, NEW h \in Nat, NEW l \in Nat,
           size >= h + len, b + size <= l
    PROVE  /\ \A k \in 1 .. h : b + k \in 1 .. l
           /\ \A k \in 1 .. len : b + size - len + k \in 1 .. l
  OBVIOUS

(* A frame more joins the stream, behind the others. *)
LEMMA ComposeLays ==
    ASSUME Typed, Laid, Compose
    PROVE  /\ Typed' /\ Laid'
           /\ Len(frames)' = Len(frames) + 1
           /\ \A i \in 1 .. Len(frames) : frames'[i] = frames[i]
           /\ \A i \in 1 .. Len(frames) + 1 : Begin'[i] = Begin[i]
<1>1. PICK f \in Frames : /\ frames' = Append(frames, f)
                          /\ stream' = stream \o Wire(Len(frames) + 1, f)
                          /\ ends' = Append(ends, Len(stream'))
  BY DEF Compose
<1> DEFINE N == Len(frames)
           L == Len(stream)
           w == Wire(N + 1, f)
<1>2. /\ N \in Nat /\ L \in Nat /\ Len(ends) = N /\ HEAD \in Nat
      /\ frames \in Seq(Frames) /\ stream \in Seq(Cell) /\ ends \in Seq(Nat)
  BY DEF Typed, Laid, HEAD
<1>3. UNCHANGED <<nonblocking, sent, gone, clean, taken, open, head, frame_pl, pl,
                  pc, errno, delivered>>
  BY DEF Compose
<1>4. /\ w \in Seq(CellOf(N + 1)) /\ Len(w) = Size(f)
      /\ Size(f) \in Nat /\ f.len \in Nat /\ Size(f) >= HEAD + f.len
  BY <1>2, WireIs
<1>5. /\ \A k \in 1 .. HEAD : w[k] = [frame |-> N + 1, part |-> "head", at |-> k]
      /\ \A k \in 1 .. f.len :
           w[Size(f) - f.len + k] = [frame |-> N + 1, part |-> "data", at |-> k]
  BY <1>2, WireIs
<1> HIDE DEF w
<1>6. w \in Seq(Cell) /\ \A k \in 1 .. Len(w) : w[k].frame = N + 1
  <2>1. \A k \in 1 .. Len(w) : w[k] \in CellOf(N + 1)
    BY <1>4, ElementOfSeq
  <2>2. CellOf(N + 1) \subseteq Cell
    BY <1>2 DEF CellOf, Cell
  <2>3. \A k \in 1 .. Len(w) : w[k] \in Cell
    BY <2>1, <2>2
  <2>4. w \in Seq(Cell)
    BY <1>4, <2>2
  <2> QED
    BY <2>1, <2>4 DEF CellOf
<1>7. /\ stream' \in Seq(Cell) /\ Len(stream') = L + Size(f)
      /\ \A k \in 1 .. L : stream'[k] = stream[k]
      /\ \A k \in 1 .. Size(f) : stream'[L + k] = w[k]
  <2>1. stream' = stream \o w
    BY <1>1 DEF w
  <2>2. /\ stream \o w \in Seq(Cell) /\ Len(stream \o w) = Len(stream) + Len(w)
        /\ \A k \in 1 .. Len(stream) : (stream \o w)[k] = stream[k]
        /\ \A k \in 1 .. Len(w) : (stream \o w)[Len(stream) + k] = w[k]
    BY ONLY <1>2, <1>6, Joined
  <2> QED
    BY <1>4, <2>1, <2>2
<1>8. /\ frames' \in Seq(Frames) /\ Len(frames') = N + 1 /\ frames'[N + 1] = f
      /\ \A i \in 1 .. N : frames'[i] = frames[i]
  BY <1>1, <1>2
<1>9. L + Size(f) \in Nat
  BY <1>2, <1>4
<1>10. /\ ends' \in Seq(Nat) /\ Len(ends') = N + 1 /\ ends'[N + 1] = L + Size(f)
       /\ \A i \in 1 .. N : ends'[i] = ends[i]
  BY <1>1, <1>2, <1>7, <1>9
<1>11. \A i \in 1 .. N + 1 : Begin'[i] = Begin[i]
  <2> SUFFICES ASSUME NEW i \in 1 .. N + 1 PROVE Begin'[i] = Begin[i]
    OBVIOUS
  <2>1. i # 1 => i - 1 \in 1 .. N
    BY <1>2
  <2>2. i \in 1 .. Len(ends) + 1 /\ i \in 1 .. Len(ends') + 1
    BY <1>2, <1>10
  <2> QED
    BY <1>10, <2>1, <2>2 DEF Begin
<1>12. Begin[N + 1] = L /\ Begin'[N + 2] = L + Size(f)
  <2>1. N + 2 # 1 /\ (N + 2) - 1 = N + 1
    BY <1>2
  <2> QED
    BY <1>10, <2>1 DEF Laid, Begin
<1>13. Typed'
  <2>1. sent \in 0 .. L /\ L + Size(f) >= L
    BY <1>2, <1>4 DEF Typed
  <2>2. sent' \in 0 .. Len(stream')
    BY <1>2, <1>3, <1>4, <1>7, <2>1
  <2> QED
    BY <1>3, <1>7, <1>8, <1>10, <2>2 DEF Typed
<1>14. \A k \in 1 .. Len(stream') : stream'[k].frame \in 1 .. N + 1
  <2> SUFFICES ASSUME NEW k \in 1 .. Len(stream') PROVE stream'[k].frame \in 1 .. N + 1
    OBVIOUS
  <2>1. CASE k \in 1 .. L
    <3>1. stream[k].frame \in 1 .. N
      BY <2>1 DEF Laid
    <3> QED
      BY <1>2, <1>7, <2>1, <3>1
  <2>2. CASE k \notin 1 .. L
    <3>1. k - L \in 1 .. Size(f) /\ L + (k - L) = k
      BY <1>2, <1>4, <1>7, <2>2
    <3>2. stream'[k] = w[k - L] /\ w[k - L].frame = N + 1
      BY <1>4, <1>6, <1>7, <3>1
    <3> QED
      BY <1>2, <3>2
  <2> QED
    BY <2>1, <2>2
<1>15. ASSUME NEW i \in 1 .. N + 1
       PROVE  /\ ends'[i] = Begin'[i] + Size(frames'[i])
              /\ \A k \in 1 .. HEAD :
                   stream'[Begin'[i] + k] = [frame |-> i, part |-> "head", at |-> k]
              /\ \A k \in 1 .. frames'[i].len :
                   stream'[Begin'[i] + Size(frames'[i]) - frames'[i].len + k]
                     = [frame |-> i, part |-> "data", at |-> k]
  <2>1. CASE i \in 1 .. N
    <3>1. /\ Begin[i] \in Nat /\ Begin[i + 1] \in Nat /\ Begin[i + 1] <= L
          /\ Begin[i + 1] = Begin[i] + Size(frames[i]) /\ frames[i].len \in Nat
          /\ Size(frames[i]) \in Nat /\ Size(frames[i]) >= HEAD + frames[i].len
      BY <1>2, <2>1, FramesAre, WireIs
    <3>2. frames'[i] = frames[i] /\ Begin'[i] = Begin[i] /\ ends'[i] = ends[i]
      BY <1>8, <1>10, <1>11, <2>1
    <3>3. /\ \A k \in 1 .. HEAD : Begin[i] + k \in 1 .. L
          /\ \A k \in 1 .. frames[i].len :
               Begin[i] + Size(frames[i]) - frames[i].len + k \in 1 .. L
      <4>1. Begin[i] + Size(frames[i]) <= L
        BY <3>1
      <4> QED
        BY ONLY <1>2, <3>1, <4>1, WithinFrame
    <3>4. ASSUME NEW k \in 1 .. HEAD
          PROVE  stream'[Begin[i] + k] = [frame |-> i, part |-> "head", at |-> k]
      <4>1. Begin[i] + k \in 1 .. L
        BY <3>3
      <4>2. stream[Begin[i] + k] = [frame |-> i, part |-> "head", at |-> k]
        BY <2>1 DEF Laid
      <4> QED
        BY <1>7, <4>1, <4>2
    <3>5. ASSUME NEW k \in 1 .. frames[i].len
          PROVE  stream'[Begin[i] + Size(frames[i]) - frames[i].len + k]
                   = [frame |-> i, part |-> "data", at |-> k]
      <4>1. Begin[i] + Size(frames[i]) - frames[i].len + k \in 1 .. L
        BY <3>3
      <4>2. stream[Begin[i] + Size(frames[i]) - frames[i].len + k]
              = [frame |-> i, part |-> "data", at |-> k]
        BY <2>1 DEF Laid
      <4> QED
        BY <1>7, <4>1, <4>2
    <3>6. ends[i] = Begin[i] + Size(frames[i])
      BY <2>1 DEF Laid
    <3> QED
      BY <3>2, <3>4, <3>5, <3>6
  <2>2. CASE i = N + 1
    <3>1. frames'[i] = f /\ Begin'[i] = L /\ ends'[i] = L + Size(f)
      BY <1>2, <1>8, <1>10, <1>11, <1>12, <2>2
    <3>2. ASSUME NEW k \in 1 .. HEAD
          PROVE  stream'[L + k] = [frame |-> i, part |-> "head", at |-> k]
      <4>1. k \in 1 .. Size(f)
        BY <1>2, <1>4
      <4> QED
        BY <1>5, <1>7, <2>2, <4>1
    <3>3. ASSUME NEW k \in 1 .. f.len
          PROVE  stream'[L + Size(f) - f.len + k] = [frame |-> i, part |-> "data", at |-> k]
      <4>1. /\ Size(f) - f.len + k \in 1 .. Size(f)
            /\ L + Size(f) - f.len + k = L + (Size(f) - f.len + k)
        BY <1>2, <1>4
      <4> QED
        BY <1>5, <1>7, <2>2, <4>1
    <3> QED
      BY <3>1, <3>2, <3>3
  <2> QED
    BY <1>2, <2>1, <2>2
<1>16. ASSUME NEW i \in 1 .. N + 2, NEW j \in 1 .. N + 2, i <= j
       PROVE  Begin'[i] <= Begin'[j]
  <2>1. ASSUME NEW l \in 1 .. N + 1 PROVE Begin[l] \in Nat /\ Begin[l] <= L
    <3>1. Begin[l] <= Begin[N + 1]
      BY <1>2 DEF Laid
    <3>2. Begin[l] \in Nat
      <4>1. l # 1 => l - 1 \in 1 .. N
        BY <1>2
      <4> QED
        BY <1>2, <4>1 DEF Begin
    <3> QED
      BY <1>12, <3>1, <3>2
  <2>2. CASE j \in 1 .. N + 1
    <3>1. i \in 1 .. N + 1
      BY <1>2, <1>16, <2>2
    <3>2. Begin[i] <= Begin[j]
      BY <1>16, <2>2, <3>1 DEF Laid
    <3> QED
      BY <1>11, <2>2, <3>1, <3>2
  <2>3. CASE j = N + 2
    <3>1. CASE i = N + 2
      <4> QED
        BY <1>9, <1>12, <2>3, <3>1
    <3>2. CASE i \in 1 .. N + 1
      <4>1. Begin[i] \in Nat /\ Begin[i] <= L
        BY <2>1, <3>2
      <4> QED
        BY <1>2, <1>4, <1>11, <1>12, <2>3, <3>2, <4>1
    <3> QED
      BY <1>2, <3>1, <3>2
  <2> QED
    BY <1>2, <2>2, <2>3
<1>17. Laid'
  <2>1. (N + 1) + 1 = N + 2
    BY <1>2
  <2>2. Len(stream') = Begin'[Len(frames') + 1]
    BY <1>7, <1>8, <1>12, <2>1
  <2> QED
    BY <1>8, <1>10, <1>14, <1>15, <1>16, <2>1, <2>2 DEF Laid
<1> QED
  BY <1>8, <1>11, <1>13, <1>17
-----------------------------------------------------------------------------
(* While nothing but the thread moves.                                       *)
Still == UNCHANGED <<nonblocking, client>>

LEMMA LowerReads ==
    ASSUME Typed, NEW size \in Nat, size > 0, NEW n \in LowerRead(size), TakesUp(n), Still
    PROVE  /\ n \in Int /\ taken' \in 0 .. sent'
           /\ n > 0 => n <= size /\ taken' = taken + n /\ taken + n <= sent /\ taken < sent
           /\ n <= 0 => taken' = taken /\ taken = sent
           /\ sent >= taken + size => n = size
           /\ n = -1 \/ n = 0 \/ n > 0
           /\ n = 0 => gone
<1>1. sent \in Nat /\ taken \in Nat /\ taken <= sent /\ sent' = sent
  BY DEF Typed, Still, client
<1>2. CASE Avail > 0
  <2>1. n = IF Avail < size THEN Avail ELSE size
    BY <1>2 DEF LowerRead
  <2> QED
    BY <1>1, <1>2, <2>1 DEF Avail, TakesUp
<1>3. CASE ~(Avail > 0)
  <2>1. n = -1 \/ (n = 0 /\ gone)
    BY <1>3 DEF LowerRead
  <2> QED
    BY <1>1, <1>3, <2>1 DEF Avail, TakesUp
<1> QED
  BY <1>2, <1>3

LEMMA StillLaid ==
    ASSUME Laid, UNCHANGED <<frames, stream, ends>> PROVE Laid' /\ Begin' = Begin
<1>1. Begin' = Begin
  BY DEF Begin
<1>2. Laid'
  BY <1>1 DEF Laid
<1> QED
  BY <1>1, <1>2

(* What lies where ws_read is. *)
LEMMA FrameAhead ==
    ASSUME Typed, Laid, AtStart, taken < sent, Current <= Len(frames) + 1
    PROVE  Current \in 1 .. Len(frames) /\ HeadAt(taken + 1) = {frames[Current]}
<1>1. /\ Len(delivered) \in Nat /\ Len(frames) \in Nat /\ Len(stream) \in Nat
      /\ sent \in Nat /\ sent <= Len(stream) /\ taken \in Nat
  BY DEF Typed
<1>2. Current # Len(frames) + 1
  BY <1>1 DEF AtStart, Laid
<1>3. Current \in 1 .. Len(frames)
  BY <1>1, <1>2 DEF Current
<1>4. 1 \in 1 .. HEAD
  BY DEF HEAD
<1>5. stream[taken + 1] = [frame |-> Current, part |-> "head", at |-> 1]
  BY <1>3, <1>4 DEF AtStart, Laid
<1> QED
  BY <1>3, <1>5 DEF HeadAt

LEMMA ComposeKeeps == ASSUME WsInv, Compose PROVE WsInv'
<1> DEFINE N == Len(frames)
<1>1. /\ Typed' /\ Laid' /\ Len(frames)' = N + 1
      /\ \A i \in 1 .. N : frames'[i] = frames[i]
      /\ \A i \in 1 .. N + 1 : Begin'[i] = Begin[i]
  BY ComposeLays DEF WsInv
<1>2. UNCHANGED <<nonblocking, sent, gone, clean, taken, open, head, frame_pl, pl,
                  pc, errno, delivered>>
  BY DEF Compose
<1>3. N \in Nat /\ Len(delivered) \in Nat /\ Current' = Current
  BY <1>2 DEF WsInv, Typed, Current
<1>4. AllShort' => AllShort
  <2> SUFFICES ASSUME AllShort', NEW i \in 1 .. N PROVE frames[i].kind = "short"
    BY DEF AllShort, Short
  <2>1. i \in 1 .. N + 1
    BY <1>3
  <2> QED
    BY <1>1, <2>1 DEF AllShort, Short
<1>5. ASSUME AllShort, Current <= N + 1 PROVE AtStart => AtStart'
  <2>1. Current \in 1 .. N + 1
    BY <1>3, <1>5 DEF Current
  <2> QED
    BY <1>1, <1>2, <1>3, <2>1 DEF AtStart
<1>6. Inside => Inside'
  <2> SUFFICES ASSUME Inside PROVE Inside'
    OBVIOUS
  <2>1. Current \in 1 .. N + 1 /\ Current \in 1 .. N /\ Current <= N + 1
    BY <1>3 DEF Current, Inside
  <2> QED
    BY <1>1, <1>2, <1>3, <2>1 DEF Inside
<1>7. Lost => Lost'
  BY <1>2 DEF Lost
<1>8. Placed'
  <2> SUFFICES ASSUME AllShort' PROVE Placed'
    BY DEF Placed
  <2>1. /\ Current <= N + 1
        /\ \A i \in 1 .. Len(delivered) : delivered[i] = Cells(i, "data", frames[i].len)
        /\ IF open THEN AtStart \/ Inside \/ Lost ELSE pc = "loop"
    BY <1>4 DEF WsInv, Placed
  <2>2. Current' <= Len(frames') + 1
    BY <1>1, <1>3, <2>1 DEF Current
  <2>3. \A i \in 1 .. Len(delivered) : i \in 1 .. N
    BY <1>3, <2>1 DEF Current
  <2>4. \A i \in 1 .. Len(delivered') : delivered'[i] = Cells(i, "data", frames'[i].len)
    BY <1>1, <1>2, <2>1, <2>3
  <2>5. IF open' THEN AtStart' \/ Inside' \/ Lost' ELSE pc' = "loop"
    BY <1>2, <1>4, <1>5, <1>6, <1>7, <2>1
  <2> QED
    BY <2>2, <2>4, <2>5 DEF Placed
<1>9. NotCut'
  <2> SUFFICES ASSUME Calm' PROVE NotCut'
    BY DEF NotCut
  <2>1. AllShort
    BY <1>4 DEF Calm
  <2>2. Calm
    <3>1. \A i \in 1 .. N : i \in 1 .. N + 1
      BY <1>3
    <3> QED
      BY <1>1, <1>2, <2>1, <3>1 DEF Calm
  <2>3. open /\ (AtStart \/ Inside) /\ Current <= N + 1
    BY <2>1, <2>2 DEF WsInv, NotCut, Placed
  <2>4. PICK k \in 1 .. N + 1 : sent = Begin[k]
    BY <2>2 DEF WsInv, NotCut
  <2>5. k \in 1 .. Len(frames') + 1 /\ sent' = Begin'[k]
    BY <1>1, <1>2, <1>3, <2>4
  <2> QED
    BY <1>2, <1>5, <1>6, <2>1, <2>3, <2>5 DEF NotCut
<1> QED
  BY <1>1, <1>8, <1>9 DEF WsInv

LEMMA SendKeeps == ASSUME WsInv, Send PROVE WsInv'
<1>1. PICK n \in sent + 1 .. Len(stream) :
        sent' = n /\ clean' = (clean /\ \E k \in DOMAIN ends : n = ends[k])
  BY DEF Send
<1>2. UNCHANGED <<nonblocking, frames, stream, ends, gone, taken, open, head, frame_pl, pl,
                  pc, errno, delivered>>
  BY DEF Send
<1>3. Typed'
  <2>1. sent \in Nat /\ taken \in Nat /\ taken <= sent /\ Len(stream) \in Nat
    BY DEF WsInv, Typed
  <2>2. sent' \in 0 .. Len(stream') /\ taken' \in 0 .. sent'
    BY <1>1, <1>2, <2>1
  <2>3. clean' \in BOOLEAN
    BY <1>1
  <2> QED
    BY <1>2, <2>2, <2>3 DEF WsInv, Typed
<1>4. Laid' /\ Begin' = Begin
  BY <1>2, StillLaid DEF WsInv
<1>5. /\ AtStart' = AtStart /\ Inside' = Inside /\ Lost' = Lost /\ AllShort' = AllShort
  BY <1>2, <1>4 DEF AtStart, Inside, Lost, AllShort, Short, Current
<1>6. Placed'
  BY <1>2, <1>5 DEF WsInv, Placed, Current
<1>7. NotCut'
  <2> SUFFICES ASSUME Calm' PROVE NotCut'
    BY DEF NotCut
  <2>1. Calm
    BY <1>1, <1>2, <1>5 DEF Calm
  <2>2. PICK k \in DOMAIN ends : sent' = ends[k]
    BY <1>1 DEF Calm
  <2>3. k \in Nat /\ k >= 1 /\ k <= Len(frames) /\ Len(ends) = Len(frames) /\ Len(frames) \in Nat
    BY DEF WsInv, Typed, Laid
  <2>4. k + 1 \in 1 .. Len(frames) + 1 /\ k + 1 # 1 /\ (k + 1) - 1 = k
    BY <2>3
  <2>5. Begin[k + 1] = ends[k]
    BY <2>3, <2>4 DEF Begin
  <2> QED
    BY <1>2, <1>4, <1>5, <2>1, <2>2, <2>4, <2>5 DEF WsInv, NotCut
<1> QED
  BY <1>3, <1>4, <1>6, <1>7 DEF WsInv

LEMMA HangUpKeeps == ASSUME WsInv, HangUp PROVE WsInv'
<1>1. gone' = TRUE
      /\ UNCHANGED <<nonblocking, frames, stream, ends, sent, clean, taken, open, head,
                     frame_pl, pl, pc, errno, delivered>>
  BY DEF HangUp
<1>2. Typed'
  BY <1>1 DEF WsInv, Typed
<1>3. Laid' /\ Begin' = Begin
  BY <1>1, StillLaid DEF WsInv
<1>4. Placed'
  BY <1>1, <1>3 DEF WsInv, Placed, AtStart, Inside, Lost, AllShort, Short, Current
<1> QED
  BY <1>1, <1>2, <1>3, <1>4 DEF WsInv, NotCut, Calm
-----------------------------------------------------------------------------
LEMMA NoHeadIs == \A h \in Frames : h # NoHead /\ h.len \in Nat
  BY WsFrameAssumption DEF WsFrameAssumption, FrameType, NoHead

(* What the label "pl" makes of a head. *)
LEMMA LengthKeeps ==
    ASSUME NEW h \in Frames, Length(h)
    PROVE  /\ head' \in Frames /\ pl' \in Nat /\ (frame_pl \in Nat => frame_pl' \in Nat)
           /\ pc' \in {"ext", "rest"}
           /\ h.kind = "short" =>
                pc' = "rest" /\ head' = h /\ pl' = h.len /\ frame_pl' = h.len
  BY NoHeadIs DEF Length

LEMMA FailsKeeps ==
    ASSUME Typed, NEW n \in Int, Fails(n) \/ Closes
    PROVE  /\ pc' = "loop" /\ pl' = 0 /\ errno' = "other" /\ delivered' = delivered
           /\ open' \in BOOLEAN /\ head' \in Frames \cup {NoHead} /\ frame_pl' \in Nat
           /\ open' => UNCHANGED <<open, head, frame_pl>>
           /\ n = -1 /\ Fails(n) => UNCHANGED <<open, head, frame_pl>>
           /\ Fails(n) /\ errno = "other" /\ n # -1 => ~open'
<1>1. CASE Closes
  <2>1. pc' = "loop" /\ pl' = 0 /\ errno' = "other" /\ delivered' = delivered
        /\ open' = FALSE /\ head' = NoHead /\ frame_pl' = 0
    BY <1>1 DEF Closes, Returns
  <2>2. n = -1 /\ Fails(n) => UNCHANGED <<open, head, frame_pl>>
    BY DEF Fails
  <2> QED
    BY <2>1, <2>2
<1>2. CASE Fails(n) /\ ~Closes
  <2>1. Returns /\ UNCHANGED <<open, head, frame_pl, delivered>>
        /\ (n = -1 \/ errno = "EAGAIN")
    BY <1>2 DEF Fails
  <2> QED
    BY <2>1 DEF Returns, Typed
<1> QED
  BY <1>1, <1>2

LEMMA StartKeeps == ASSUME WsInv, Start PROVE WsInv'
<1>1. pc = "loop" /\ open /\ UNCHANGED <<nonblocking, client, taken, open, delivered>>
  BY DEF Start
<1>2. Laid' /\ Begin' = Begin /\ AllShort' = AllShort /\ Current' = Current /\ Calm' = Calm
  <2>1. UNCHANGED <<frames, stream, ends>>
    BY <1>1 DEF client
  <2>2. Laid' /\ Begin' = Begin
    BY <2>1, StillLaid DEF WsInv
  <2>3. AllShort' = AllShort /\ Current' = Current
    BY <1>1, <2>1 DEF AllShort, Short, Current
  <2> QED
    BY <1>1, <2>2, <2>3 DEF client, Calm
<1>3. CASE frame_pl > 0
  <2>1. Resumes /\ errno' \in {"EAGAIN", "other"}
    BY <1>3 DEF Start
  <2>2. Typed'
    BY <1>1, <2>1 DEF WsInv, Typed, Resumes, client
  <2>3. Lost => Lost'
    BY <2>1 DEF Lost, Resumes
  <2>4. ~AtStart /\ ~Inside
    BY <1>1, <1>3 DEF AtStart, Inside
  <2>5. Placed'
    BY <1>1, <1>2, <2>3, <2>4 DEF WsInv, Placed, client
  <2>6. NotCut'
    BY <1>2, <2>4 DEF WsInv, NotCut
  <2> QED
    BY <1>2, <2>2, <2>5, <2>6 DEF WsInv
<1>4. CASE ~(frame_pl > 0) /\ head # NoHead
  <2>1. Length(head) /\ errno' \in {"EAGAIN", "other"} /\ head \in Frames
    BY <1>4 DEF Start, WsInv, Typed
  <2>2. Typed'
    <3>1. /\ head' \in Frames /\ pl' \in Nat /\ frame_pl' \in Nat /\ pc' \in {"ext", "rest"}
      BY <2>1, LengthKeeps DEF WsInv, Typed
    <3> QED
      BY <1>1, <2>1, <3>1 DEF WsInv, Typed, client
  <2>3. Lost => Lost'
    <3> SUFFICES ASSUME Lost PROVE Lost'
      OBVIOUS
    <3>1. frame_pl = 0
      BY <1>4 DEF WsInv, Typed
    <3>2. pc' = "rest" /\ head' = head /\ pl' = 0 /\ frame_pl' = 0
      BY <2>1, <3>1, LengthKeeps DEF Lost
    <3> QED
      BY <3>1, <3>2 DEF Lost
  <2>4. ~AtStart /\ ~Inside
    BY <1>1, <1>4 DEF AtStart, Inside
  <2>5. Placed'
    BY <1>1, <1>2, <2>3, <2>4 DEF WsInv, Placed, client
  <2>6. NotCut'
    BY <1>2, <2>4 DEF WsInv, NotCut
  <2> QED
    BY <1>2, <2>2, <2>5, <2>6 DEF WsInv
<1>5. CASE ~(frame_pl > 0) /\ head = NoHead
  <2>1. pc' = "head" /\ errno' = "other" /\ UNCHANGED <<head, frame_pl, pl>>
    BY <1>5 DEF Start
  <2>2. Typed'
    BY <1>1, <2>1 DEF WsInv, Typed, client
  <2>3. AtStart => AtStart'
    BY <1>1, <1>2, <2>1 DEF AtStart
  <2>4. ~Inside /\ ~Lost
    BY <1>1, <1>5, NoHeadIs DEF Inside, Lost
  <2>5. Placed'
    BY <1>1, <1>2, <2>3, <2>4 DEF WsInv, Placed, client
  <2>6. NotCut'
    BY <1>1, <1>2, <2>3, <2>4 DEF WsInv, NotCut, client
  <2> QED
    BY <1>2, <2>2, <2>5, <2>6 DEF WsInv
<1> QED
  BY <1>3, <1>4, <1>5

(* Whatever else the thread does leaves the frames where they are. *)
LEMMA StillFrames ==
    ASSUME WsInv, Still
    PROVE  /\ Laid' /\ Begin' = Begin /\ AllShort' = AllShort /\ Calm' = Calm
           /\ UNCHANGED <<nonblocking, frames, stream, ends, sent, gone, clean>>
<1>1. UNCHANGED <<nonblocking, frames, stream, ends, sent, gone, clean>>
  BY DEF Still, client
<1>2. Laid' /\ Begin' = Begin
  BY <1>1, StillLaid DEF WsInv
<1> QED
  BY <1>1, <1>2 DEF AllShort, Short, Calm

(* In front of a frame that has begun to arrive, all of it has, when clients *)
(* cut nothing.                                                              *)
LEMMA WholeFrame ==
    ASSUME WsInv, Calm, NEW i \in 1 .. Len(frames), Begin[i] < sent
    PROVE  Begin[i + 1] <= sent
<1>1. PICK k \in 1 .. Len(frames) + 1 : sent = Begin[k]
  BY DEF WsInv, NotCut
<1>2. i \in Nat /\ k \in Nat /\ Len(frames) \in Nat /\ i <= Len(frames) /\ k <= Len(frames) + 1
  BY DEF WsInv, Typed
<1>3. Begin[i] \in Nat /\ Begin[i + 1] \in Nat /\ sent \in Nat
  <2>1. Typed /\ Laid
    BY DEF WsInv
  <2>2. Begin[i] \in Nat /\ Begin[i + 1] \in Nat
    BY <2>1, FramesAre
  <2> QED
    BY <2>1, <2>2 DEF Typed
<1>4. i < k
  <2> SUFFICES ASSUME k <= i PROVE FALSE
    BY <1>2
  <2>1. i \in 1 .. Len(frames) + 1
    BY <1>2
  <2>2. Begin[k] <= Begin[i]
    BY <2>1 DEF WsInv, Laid
  <2> QED
    BY <1>1, <1>3, <2>2
<1>5. i + 1 \in 1 .. Len(frames) + 1 /\ i + 1 <= k
  BY <1>2, <1>4
<1> QED
  BY <1>1, <1>5 DEF WsInv, Laid

LEMMA ReadHeadKeeps == ASSUME WsInv, ReadHead PROVE WsInv'
<1>1. PICK n \in LowerRead(HEAD) :
        /\ TakesUp(n)
        /\ IF n # HEAD
           THEN IF n = 0 THEN Closes ELSE Fails(n)
           ELSE \E h \in HeadAt(taken + 1) :
                  IF h.kind = "close"
                  THEN Closes
                  ELSE Length(h) /\ UNCHANGED <<open, errno, delivered>>
  BY DEF ReadHead
<1>2. pc = "head" /\ Still
  BY DEF ReadHead, Still
<1>3. HEAD \in Nat /\ HEAD > 0 /\ HEAD = 2
  BY DEF HEAD
<1>4. /\ n \in Int /\ taken' \in 0 .. sent'
      /\ n > 0 => n <= HEAD /\ taken' = taken + n /\ taken + n <= sent /\ taken < sent
      /\ n <= 0 => taken' = taken /\ taken = sent
      /\ sent >= taken + HEAD => n = HEAD
      /\ n = -1 \/ n = 0 \/ n > 0
      /\ n = 0 => gone
  BY <1>1, <1>2, <1>3, LowerReads DEF WsInv
<1>5. /\ Laid' /\ Begin' = Begin /\ AllShort' = AllShort /\ Calm' = Calm
      /\ UNCHANGED <<nonblocking, frames, stream, ends, sent, gone, clean>>
  BY <1>2, StillFrames
<1>6. ~Inside /\ ~Lost
  BY <1>2 DEF Inside, Lost
<1>7. AllShort => AtStart /\ open /\ Current <= Len(frames) + 1 /\ errno = "other"
  BY <1>2, <1>6 DEF WsInv, Placed, AtStart
<1>8. CASE Fails(n) \/ Closes
  <2>1. /\ pc' = "loop" /\ pl' = 0 /\ errno' = "other" /\ delivered' = delivered
        /\ open' \in BOOLEAN /\ head' \in Frames \cup {NoHead} /\ frame_pl' \in Nat
        /\ open' => UNCHANGED <<open, head, frame_pl>>
        /\ n = -1 /\ Fails(n) => UNCHANGED <<open, head, frame_pl>>
        /\ Fails(n) /\ errno = "other" /\ n # -1 => ~open'
    BY <1>4, <1>8, FailsKeeps DEF WsInv
  <2>2. Typed'
    BY <1>4, <1>5, <2>1 DEF WsInv, Typed
  <2>3. Current' = Current
    BY <2>1 DEF Current
  <2>4. AllShort /\ open' => AtStart'
    <3> SUFFICES ASSUME AllShort, open' PROVE AtStart'
      OBVIOUS
    <3>1. n = -1
      BY <1>7, <1>8, <2>1 DEF Closes
    <3>2. taken' = taken
      BY <1>4, <3>1
    <3> QED
      BY <1>5, <1>7, <2>1, <2>3, <3>2 DEF AtStart
  <2>5. Placed'
    BY <1>5, <2>1, <2>3, <2>4 DEF WsInv, Placed
  <2>6. NotCut'
    <3> SUFFICES ASSUME Calm' PROVE NotCut'
      BY DEF NotCut
    <3>1. Calm /\ AllShort /\ ~gone
      BY <1>5 DEF Calm
    <3>2. n # HEAD => n = -1
      <4> SUFFICES ASSUME n # HEAD, n # -1 PROVE FALSE
        OBVIOUS
      <4>1. taken < sent
        BY <1>4, <3>1
      <4>2. Current \in 1 .. Len(frames) /\ Begin[Current] = taken
        BY <1>7, <3>1, <4>1, FrameAhead DEF WsInv, AtStart
      <4>3. Begin[Current + 1] <= sent
        BY <3>1, <4>1, <4>2, WholeFrame
      <4>4. /\ Begin[Current + 1] = Begin[Current] + HEAD + Mask + frames[Current].len
            /\ frames[Current].len \in Nat /\ Mask \in Nat
        BY <3>1, <4>2, FramesAre DEF WsInv, AllShort, Short
      <4>5. sent >= taken + HEAD
        BY <1>3, <4>2, <4>3, <4>4 DEF WsInv, Typed
      <4> QED
        BY <1>4, <4>5
    <3>3. n # HEAD
      <4> SUFFICES ASSUME n = HEAD PROVE FALSE
        OBVIOUS
      <4>1. taken < sent
        BY <1>3, <1>4
      <4>2. Current \in 1 .. Len(frames) /\ HeadAt(taken + 1) = {frames[Current]}
        BY <1>7, <3>1, <4>1, FrameAhead DEF WsInv
      <4>3. frames[Current].kind = "short"
        BY <3>1, <4>2 DEF AllShort, Short
      <4>4. UNCHANGED open /\ pc' = "rest"
        BY <1>1, <4>2, <4>3 DEF Length
      <4> QED
        BY <2>1, <4>4
    <3>4. n = -1 /\ Fails(n)
      BY <1>1, <3>2, <3>3
    <3>5. open'
      BY <1>7, <2>1, <3>1, <3>4
    <3>6. \E k \in 1 .. Len(frames) + 1 : sent = Begin[k]
      BY <3>1 DEF WsInv, NotCut
    <3> QED
      BY <1>5, <2>4, <3>1, <3>5, <3>6 DEF NotCut
  <2> QED
    BY <1>5, <2>2, <2>5, <2>6 DEF WsInv
<1>9. CASE ~Fails(n) /\ ~Closes
  <2>1. PICK h \in HeadAt(taken + 1) : Length(h) /\ UNCHANGED <<open, errno, delivered>>
    BY <1>1, <1>9
  <2>2. n = HEAD /\ taken' = taken + HEAD /\ taken < sent
    BY <1>1, <1>3, <1>4, <1>9
  <2>3. h \in Frames
    <3>1. taken + 1 \in 1 .. Len(stream)
      BY <2>2 DEF WsInv, Typed
    <3>2. stream[taken + 1].frame \in 1 .. Len(frames)
      BY <3>1 DEF WsInv, Laid
    <3>3. frames[stream[taken + 1].frame] \in Frames
      BY <3>2 DEF WsInv, Typed
    <3> QED
      BY <3>3 DEF HeadAt
  <2>4. /\ head' \in Frames /\ pl' \in Nat /\ frame_pl' \in Nat
        /\ pc' \in {"ext", "rest"}
        /\ h.kind = "short" =>
             pc' = "rest" /\ head' = h /\ pl' = h.len /\ frame_pl' = h.len
    BY <2>1, <2>3, LengthKeeps DEF WsInv, Typed
  <2>5. Typed'
    BY <1>4, <1>5, <2>1, <2>4 DEF WsInv, Typed
  <2>6. Current' = Current
    BY <2>1 DEF Current
  <2>7. ASSUME AllShort
        PROVE  /\ frames[Current].len # 0 => Inside'
               /\ frames[Current].len = 0 => Lost'
               /\ Current \in 1 .. Len(frames)
    <3>1. Current \in 1 .. Len(frames) /\ h = frames[Current]
      BY <1>7, <2>1, <2>2, <2>7, FrameAhead DEF WsInv
    <3>2. h.kind = "short" /\ h.len \in Nat
      BY <2>3, <2>7, <3>1, NoHeadIs DEF AllShort, Short
    <3>3. taken' = Begin'[Current'] + HEAD
      BY <1>5, <1>7, <2>2, <2>6, <2>7 DEF AtStart
    <3>4. h.len # 0 => h.len > 0
      BY <3>2
    <3>5. h.len # 0 => Inside'
      BY <1>5, <2>4, <2>6, <3>1, <3>2, <3>3, <3>4 DEF Inside
    <3>6. h.len = 0 => Lost'
      BY <2>3, <2>4, <3>2 DEF Lost
    <3> QED
      BY <3>1, <3>5, <3>6
  <2>8. Placed'
    <3> SUFFICES ASSUME AllShort PROVE Placed'
      BY <1>5 DEF Placed
    <3>1. open' /\ (Inside' \/ Lost')
      BY <1>7, <2>1, <2>7
    <3> QED
      BY <1>5, <2>1, <2>6, <3>1 DEF WsInv, Placed
  <2>9. NotCut'
    <3> SUFFICES ASSUME Calm PROVE NotCut'
      BY <1>5 DEF NotCut
    <3>1. open' /\ Inside'
      BY <1>7, <2>1, <2>7 DEF Calm
    <3> QED
      BY <1>5, <3>1 DEF WsInv, NotCut
  <2> QED
    BY <1>5, <2>5, <2>8, <2>9 DEF WsInv
<1> QED
  BY <1>8, <1>9

LEMMA ReadExtKeeps == ASSUME WsInv, ReadExt PROVE WsInv'
<1>1. PICK n \in LowerRead(EXT) :
        /\ TakesUp(n)
        /\ IF n # EXT
           THEN Fails(n)
           ELSE /\ pl' \in LengthAt(taken + 1)
                /\ frame_pl' = pl'
                /\ pc' = "rest"
                /\ UNCHANGED <<open, head, errno, delivered>>
  BY DEF ReadExt
<1>2. pc = "ext" /\ Still
  BY DEF ReadExt, Still
<1>3. EXT \in Nat /\ EXT > 0
  BY DEF EXT
<1>4. /\ n \in Int /\ taken' \in 0 .. sent'
      /\ n > 0 => taken < sent
  BY <1>1, <1>2, <1>3, LowerReads DEF WsInv
<1>5. /\ Laid' /\ AllShort' = AllShort /\ Calm' = Calm
      /\ UNCHANGED <<nonblocking, frames, stream, ends, sent, gone, clean>>
  BY <1>2, StillFrames
<1>6. ~AllShort /\ ~Calm
  BY <1>2 DEF WsInv, Placed, AtStart, Inside, Lost, Calm
<1>7. Typed'
  <2>1. CASE n # EXT
    <3>1. Fails(n)
      BY <1>1, <2>1
    <3>2. /\ pc' = "loop" /\ pl' = 0 /\ errno' = "other" /\ delivered' = delivered
          /\ open' \in BOOLEAN /\ head' \in Frames \cup {NoHead} /\ frame_pl' \in Nat
      BY <1>4, <3>1, FailsKeeps DEF WsInv
    <3> QED
      BY <1>4, <1>5, <3>2 DEF WsInv, Typed
  <2>2. CASE n = EXT
    <3>1. /\ pl' \in LengthAt(taken + 1) /\ frame_pl' = pl' /\ pc' = "rest"
          /\ UNCHANGED <<open, head, errno, delivered>>
      BY <1>1, <2>2
    <3>2. taken + 1 \in 1 .. Len(stream)
      BY <1>3, <1>4, <2>2 DEF WsInv, Typed
    <3>3. stream[taken + 1].frame \in 1 .. Len(frames)
      BY <3>2 DEF WsInv, Laid
    <3>4. frames[stream[taken + 1].frame] \in Frames
      BY <3>3 DEF WsInv, Typed
    <3>5. \A f \in Frames : Swapped[f.len] \in Nat
      BY WsFrameAssumption DEF WsFrameAssumption
    <3>6. pl' \in Nat
      BY <3>1, <3>4, <3>5 DEF LengthAt
    <3> QED
      BY <1>4, <1>5, <3>1, <3>6 DEF WsInv, Typed
  <2> QED
    BY <2>1, <2>2
<1> QED
  BY <1>5, <1>6, <1>7 DEF WsInv, Placed, NotCut

(* The payload that is read is that of the frame ws_read is in. *)
LEMMA PayloadRead ==
    ASSUME Typed, Laid, AllShort, Inside, sent >= taken + Mask + pl
    PROVE  /\ SubSeq(stream, taken + Mask + 1, taken + (Mask + pl))
                = Cells(Current, "data", frames[Current].len)
           /\ taken + (Mask + pl) = Begin[Current + 1]
<1> DEFINE i == Current
           len == frames[i].len
           t == taken + Mask
<1>1. i \in Nat /\ i \in 1 .. Len(frames) /\ frames[i].kind = "short"
  BY DEF Inside, Typed, AllShort, Short, Current
<1>2. /\ frames[i] \in Frames /\ len \in Nat /\ Begin[i] \in Nat
      /\ Begin[i + 1] = Begin[i] + Size(frames[i])
      /\ Mask \in Nat /\ Mask > 0 /\ HEAD \in Nat
      /\ Begin[i + 1] = Begin[i] + HEAD + Mask + len
  BY <1>1, FramesAre
<1>3. taken = Begin[i] + HEAD /\ pl = len
  BY DEF Inside
<1>4. Size(frames[i]) \in Nat
  BY <1>1, <1>2, WireIs
<1>5. Size(frames[i]) = HEAD + Mask + len
  BY <1>2, <1>4
<1>6. \A k \in 1 .. len :
        stream[Begin[i] + Size(frames[i]) - len + k] = [frame |-> i, part |-> "data", at |-> k]
  BY <1>1 DEF Laid
<1>7. t \in Nat /\ Begin[i] + Size(frames[i]) - len = t /\ taken + (Mask + pl) = t + len
      /\ taken \in Nat
  BY <1>2, <1>3, <1>5
<1>8. sent \in Nat /\ sent <= Len(stream) /\ sent >= t + len
  BY <1>2, <1>3, <1>7 DEF Typed
<1> HIDE DEF i, len, t
<1>9. \A k \in 1 .. len : stream[t + k] = [frame |-> i, part |-> "data", at |-> k]
  BY <1>6, <1>7
<1>10. SubSeq(stream, t + 1, t + len) = Cells(i, "data", len)
  <2>1. t + 1 >= 1 /\ t + 1 \in Int /\ t + len \in Int /\ t + len <= Len(stream)
        /\ len \in Nat /\ (t + len) - (t + 1) + 1 = len /\ Len(stream) \in Nat
    <3>1. len \in Nat /\ Len(stream) \in Nat
      BY <1>2 DEF Typed
    <3>2. t + len <= Len(stream)
      BY <1>7, <1>8, <3>1
    <3> QED
      BY <1>7, <3>1, <3>2
  <2>2. SubSeq(stream, t + 1, t + len) = [k \in 1 .. len |-> stream[(t + 1) + k - 1]]
    <3>1. stream \in Seq(Cell)
      BY DEF Typed
    <3> QED
      BY ONLY <2>1, <3>1
  <2>3. \A k \in 1 .. len : (t + 1) + k - 1 = t + k
    BY <1>7
  <2> QED
    BY <1>9, <2>2, <2>3 DEF Cells
<1> QED
  BY <1>2, <1>3, <1>7, <1>10 DEF i, len, t

LEMMA ReadRestKeeps == ASSUME WsInv, ReadRest PROVE WsInv'
<1>1. PICK n \in LowerRead(Mask + pl) :
        /\ TakesUp(n)
        /\ IF n # Mask + pl
           THEN Fails(n)
           ELSE IF pl = 0
           THEN Closes
           ELSE /\ delivered' = Append(delivered, SubSeq(stream, taken + Mask + 1, taken + n))
                /\ Cleared
                /\ Returns
                /\ UNCHANGED open
  BY DEF ReadRest
<1>2. pc = "rest" /\ Still
  BY DEF ReadRest, Still
<1>3. Mask \in Nat /\ Mask > 0 /\ pl \in Nat /\ Mask + pl \in Nat /\ Mask + pl > 0
  BY WsFrameAssumption DEF WsFrameAssumption, WsInv, Typed
<1>4. /\ n \in Int /\ taken' \in 0 .. sent'
      /\ n > 0 => n <= Mask + pl /\ taken' = taken + n /\ taken + n <= sent /\ taken < sent
      /\ n <= 0 => taken' = taken
      /\ sent >= taken + (Mask + pl) => n = Mask + pl
  BY <1>1, <1>2, <1>3, LowerReads DEF WsInv
<1>5. /\ Laid' /\ Begin' = Begin /\ AllShort' = AllShort /\ Calm' = Calm
      /\ UNCHANGED <<nonblocking, frames, stream, ends, sent, gone, clean>>
  BY <1>2, StillFrames
<1>6. AllShort => open /\ (Inside \/ Lost) /\ Current <= Len(frames) + 1
  BY <1>2 DEF WsInv, Placed, AtStart
<1>7. ASSUME Calm PROVE Inside /\ n = Mask + pl /\ pl # 0
  <2>1. Inside
    BY <1>2, <1>7 DEF WsInv, NotCut, AtStart
  <2>2. Current \in 1 .. Len(frames) /\ taken = Begin[Current] + HEAD /\ pl = frames[Current].len
    BY <2>1 DEF Inside, WsInv, Typed, Current
  <2>3. /\ Begin[Current] \in Nat /\ HEAD \in Nat /\ HEAD > 0
        /\ Begin[Current + 1] = Begin[Current] + HEAD + Mask + pl
    BY <1>7, <2>2, FramesAre DEF WsInv, Calm, AllShort, Short
  <2>4. Begin[Current] < sent
    BY <2>2, <2>3 DEF WsInv, Typed
  <2>5. Begin[Current + 1] <= sent
    BY <1>7, <2>2, <2>4, WholeFrame
  <2>6. sent >= taken + (Mask + pl)
    <3>1. sent \in Nat
      BY DEF WsInv, Typed
    <3> QED
      BY <1>3, <2>2, <2>3, <2>5, <3>1
  <2> QED
    BY <1>4, <2>1, <2>6 DEF Inside
<1>8. CASE Fails(n) \/ Closes
  <2>1. /\ pc' = "loop" /\ pl' = 0 /\ errno' = "other" /\ delivered' = delivered
        /\ open' \in BOOLEAN /\ head' \in Frames \cup {NoHead} /\ frame_pl' \in Nat
        /\ open' => UNCHANGED <<open, head, frame_pl>>
    BY <1>4, <1>8, FailsKeeps DEF WsInv
  <2>2. Typed'
    BY <1>4, <1>5, <2>1 DEF WsInv, Typed
  <2>3. AllShort /\ open' => Lost'
    <3> SUFFICES ASSUME AllShort, open' PROVE Lost'
      OBVIOUS
    <3>1. CASE Lost
      BY <2>1, <3>1 DEF Lost
    <3>2. CASE Inside
      <4>1. frames[Current].kind = "short" /\ frames[Current] \in Frames
        BY <3>2 DEF WsInv, Typed, Inside, AllShort, Short, Current
      <4> QED
        BY <2>1, <3>2, <4>1 DEF Inside, Lost
    <3> QED
      BY <1>6, <3>1, <3>2
  <2>4. Placed'
    BY <1>5, <2>1, <2>3 DEF WsInv, Placed, Current
  <2>5. ~Calm
    BY <1>1, <1>7, <1>8, <2>1 DEF Closes, Fails
  <2> QED
    BY <1>5, <2>2, <2>4, <2>5 DEF WsInv, NotCut
<1>9. CASE ~Fails(n) /\ ~Closes
  <2>1. /\ n = Mask + pl /\ pl # 0
        /\ delivered' = Append(delivered, SubSeq(stream, taken + Mask + 1, taken + n))
        /\ head' = NoHead /\ frame_pl' = 0
        /\ pc' = "loop" /\ pl' = 0 /\ errno' = "other" /\ open' = open
    BY <1>1, <1>9 DEF Cleared, Returns
  <2>2. taken' = taken + (Mask + pl) /\ taken + (Mask + pl) <= sent
    BY <1>3, <1>4, <2>1
  <2> DEFINE payload == SubSeq(stream, taken + Mask + 1, taken + n)
  <2>3. payload \in Seq(Cell)
    <3>1. /\ stream \in Seq(Cell) /\ taken + Mask + 1 \in Nat /\ taken + Mask + 1 >= 1
          /\ taken + n \in Nat /\ taken + n <= Len(stream)
      BY <1>3, <2>1, <2>2 DEF WsInv, Typed
    <3> HIDE DEF WsInv
    <3> QED
      BY <3>1
  <2>4. /\ delivered' \in Seq(Seq(Cell)) /\ Len(delivered') = Len(delivered) + 1
        /\ delivered'[Len(delivered) + 1] = payload
        /\ \A i \in 1 .. Len(delivered) : delivered'[i] = delivered[i]
        /\ Len(delivered) \in Nat
    <3>1. delivered \in Seq(Seq(Cell)) /\ payload \in Seq(Cell)
          /\ delivered' = Append(delivered, payload)
      BY <2>1, <2>3 DEF WsInv, Typed
    <3> HIDE DEF payload, WsInv
    <3> QED
      BY ONLY <3>1, AppendProperties, LenProperties
  <2>5. Typed'
    BY <1>4, <1>5, <2>1, <2>4 DEF WsInv, Typed
  <2>6. Current' = Current + 1 /\ Current = Len(delivered) + 1
    BY <2>4 DEF Current
  <2>7. ASSUME AllShort
        PROVE  /\ payload = Cells(Current, "data", frames[Current].len)
               /\ AtStart' /\ Current <= Len(frames)
    <3>1. Inside
      BY <1>6, <2>1, <2>7 DEF Lost
    <3>2. sent >= taken + Mask + pl
      BY <1>3, <2>2 DEF WsInv, Typed
    <3>3. /\ SubSeq(stream, taken + Mask + 1, taken + (Mask + pl))
                = Cells(Current, "data", frames[Current].len)
          /\ taken + (Mask + pl) = Begin[Current + 1]
      BY <2>7, <3>1, <3>2, PayloadRead DEF WsInv
    <3>4. AtStart'
      BY <1>5, <2>1, <2>2, <2>6, <3>3 DEF AtStart
    <3> QED
      BY <2>1, <3>1, <3>3, <3>4 DEF Inside
  <2>8. Placed'
    <3> SUFFICES ASSUME AllShort PROVE Placed'
      BY <1>5 DEF Placed
    <3>1. ASSUME NEW i \in 1 .. Len(delivered')
          PROVE  delivered'[i] = Cells(i, "data", frames[i].len)
      <4>1. CASE i \in 1 .. Len(delivered)
        BY <2>4, <4>1 DEF WsInv, Placed
      <4>2. CASE i = Len(delivered) + 1
        BY <2>4, <2>6, <2>7, <4>2
      <4> QED
        BY <2>4, <4>1, <4>2
    <3>2. Current' <= Len(frames') + 1
      BY <1>5, <2>4, <2>6, <2>7 DEF WsInv, Typed
    <3>3. open' /\ AtStart'
      BY <1>6, <2>1, <2>7
    <3> QED
      BY <1>5, <3>1, <3>2, <3>3 DEF Placed
  <2>9. NotCut'
    <3> SUFFICES ASSUME Calm PROVE NotCut'
      BY <1>5 DEF NotCut
    <3>1. open' /\ AtStart'
      BY <1>6, <2>1, <2>7 DEF Calm
    <3> QED
      BY <1>5, <3>1 DEF WsInv, NotCut
  <2> QED
    BY <1>5, <2>5, <2>8, <2>9 DEF WsInv
<1> QED
  BY <1>8, <1>9

LEMMA InitIs == Init => WsInv
<1> SUFFICES ASSUME Init PROVE WsInv
  OBVIOUS
<1>1. /\ frames = <<>> /\ stream = <<>> /\ ends = <<>> /\ delivered = <<>>
      /\ Len(frames) = 0 /\ Len(stream) = 0 /\ Len(ends) = 0 /\ Len(delivered) = 0
  BY DEF Init
<1>2. Typed
  <2>1. /\ <<>> \in Seq(Frames) /\ <<>> \in Seq(Cell) /\ <<>> \in Seq(Nat)
        /\ <<>> \in Seq(Seq(Cell))
    OBVIOUS
  <2>2. sent \in 0 .. Len(stream) /\ taken \in 0 .. sent
    BY <1>1 DEF Init
  <2> QED
    BY <1>1, <2>1, <2>2 DEF Init, Typed
<1>3. Begin[1] = 0 /\ Current = 1
  BY <1>1 DEF Begin, Current
<1>4. Laid
  <2>1. \A i \in 1 .. 0 + 1 : i = 1
    OBVIOUS
  <2> QED
    BY <1>1, <1>3, <2>1 DEF Laid
<1>5. AtStart /\ open
  BY <1>3 DEF Init, AtStart
<1>6. Placed
  BY <1>1, <1>3, <1>5 DEF Placed
<1>7. NotCut
  BY <1>1, <1>3, <1>5 DEF Init, NotCut
<1> QED
  BY <1>2, <1>4, <1>6, <1>7 DEF WsInv

LEMMA StepKeeps == WsInv /\ [Next]_vars => WsInv'
<1> SUFFICES ASSUME WsInv, [Next]_vars PROVE WsInv'
  OBVIOUS
<1>1. CASE UNCHANGED vars
  <2>1. UNCHANGED <<nonblocking, frames, stream, ends, sent, gone, clean, taken, open, head,
                    frame_pl, pl, pc, errno, delivered>>
    BY <1>1 DEF vars, client
  <2>2. Typed'
    BY <2>1 DEF WsInv, Typed
  <2>3. Laid' /\ Begin' = Begin
    BY <2>1, StillLaid DEF WsInv
  <2>4. /\ AtStart' = AtStart /\ Inside' = Inside /\ Lost' = Lost /\ AllShort' = AllShort
        /\ Current' = Current
    BY <2>1, <2>3 DEF AtStart, Inside, Lost, AllShort, Short, Current
  <2>5. Placed' /\ NotCut'
    BY <2>1, <2>3, <2>4 DEF WsInv, Placed, NotCut, Calm
  <2> QED
    BY <2>2, <2>3, <2>5 DEF WsInv
<1> QED
  BY <1>1, ComposeKeeps, SendKeeps, HangUpKeeps, StartKeeps, ReadHeadKeeps, ReadExtKeeps,
     ReadRestKeeps DEF Next, Thread

(* Every variable of ws_read and of its client keeps its type: nothing is    *)
(* read that was not sent.                                                   *)
THEOREM TypeCorrect == Spec => []Typed
<1>1. WsInv => Typed
  BY DEF WsInv
<1> QED
  BY InitIs, StepKeeps, <1>1, PTL DEF Spec

(* What ws_read hands on is the payloads of the first frames, in order, each *)
(* whole, for frames of any lengths, any number of them, and however the     *)
(* stream is cut up: where a read that came short makes it lose its place,   *)
(* it delivers nothing more.                                                 *)
THEOREM MessagesWhole == Spec => []MessagesIntact
<1>1. WsInv => MessagesIntact
  BY DEF WsInv, Placed, AllShort, MessagesIntact
<1> QED
  BY InitIs, StepKeeps, <1>1, PTL DEF Spec

(* ws_read makes descr_read close a connection only for a reason, for frames *)
(* of any lengths and any number of them.                                    *)
THEOREM CutForReason == Spec => []CutOff
<1>1. WsInv => CutOff
  BY DEF WsInv, NotCut, Calm, AllShort, Short, CutOff
<1> QED
  BY InitIs, StepKeeps, <1>1, PTL DEF Spec
-----------------------------------------------------------------------------
(* A set of numbers that is not empty has a smallest one. *)
LEMMA Smallest ==
    ASSUME NEW T, T \subseteq Nat, T # {}
    PROVE  \E n \in T : \A m \in T : n <= m
<1> DEFINE less == {ss \in Nat \X Nat : ss[1] < ss[2]}
<1>1. OpToRel(<, Nat) = less
  BY DEF OpToRel
<1>2. IsWellFoundedOn(less, Nat)
  BY <1>1, NatLessThanWellFounded
<1> HIDE DEF less
<1>3. PICK x \in T : \A y \in T : ~(<<y, x>> \in less)
  BY <1>2, WFMin
<1>4. ASSUME NEW y \in T PROVE x <= y
  <2>1. <<y, x>> \notin less
    BY <1>3
  <2>2. y \in Nat /\ x \in Nat
    OBVIOUS
  <2>3. ~(y < x)
    BY <2>1, <2>2 DEF less
  <2> QED
    BY <2>2, <2>3
<1> QED
  BY <1>4

(* Induction over the numbers, for a set: the theorem of the library takes  *)
(* an operator.                                                             *)
LEMMA Induction ==
    ASSUME NEW S, 0 \in S, \A n \in Nat : n \in S => n + 1 \in S
    PROVE  Nat \subseteq S
<1> SUFFICES ASSUME Nat \ S # {} PROVE FALSE
  OBVIOUS
<1>1. PICK n \in Nat \ S : \A m \in Nat \ S : n <= m
  BY Smallest
<1>2. n - 1 \in Nat
  OBVIOUS
<1>3. n - 1 \in S
  BY <1>1, <1>2
<1> QED
  BY <1>1, <1>2, <1>3

-----------------------------------------------------------------------------
(* A reader that goes on until it stops. *)
Body(f, p, stop, base, put, next) == IF p \in stop THEN base[p] ELSE put[p] \o f[next[p]]

Forward(n, stop, next) == \A p \in 1 .. n + 1 : p \notin stop => next[p] \in p + 1 .. n + 1

IsReader(f, n, stop, base, put, next) ==
    /\ f = [p \in 1 .. n + 1 |-> f[p]]
    /\ \A p \in 1 .. n + 1 : f[p] = Body(f, p, stop, base, put, next)

(* A reader that never turns back exists, whatever it makes of the cells. *)
LEMMA ReaderExists ==
    ASSUME NEW n \in Nat, NEW stop, NEW base, NEW put, NEW next, Forward(n, stop, next)
    PROVE  \E f : IsReader(f, n, stop, base, put, next)
<1> USE DEF Forward
<1> DEFINE P == 1 .. n + 1
           is(f, p) == f[p] = Body(f, p, stop, base, put, next)
           up(m) == \E f : f = [p \in P |-> f[p]] /\ \A p \in P : p + m > n + 1 => is(f, p)
           U == {m \in Nat : up(m)}
<1>1. 0 \in U
  <2> DEFINE f == [p \in P |-> <<>>]
  <2>1. f = [p \in P |-> f[p]]
    OBVIOUS
  <2>2. \A p \in P : ~(p + 0 > n + 1)
    OBVIOUS
  <2> HIDE DEF f, P, is
  <2> QED
    BY <2>1, <2>2
<1>2. ASSUME NEW m \in Nat, m \in U PROVE m + 1 \in U
  <2>1. PICK f : f = [p \in P |-> f[p]] /\ \A p \in P : p + m > n + 1 => is(f, p)
    BY <1>2
  <2> DEFINE g == [p \in P |-> IF p = n + 1 - m THEN Body(f, p, stop, base, put, next) ELSE f[p]]
  <2>2. g = [p \in P |-> g[p]]
    OBVIOUS
  <2>3. ASSUME NEW p \in P, p + (m + 1) > n + 1 PROVE is(g, p)
    <3>1. p \notin stop => next[p] \in P /\ next[p] > p
      OBVIOUS
    <3>2. p \notin stop => g[next[p]] = f[next[p]]
      <4> SUFFICES ASSUME p \notin stop PROVE g[next[p]] = f[next[p]]
        OBVIOUS
      <4> DEFINE q == next[p]
      <4>1. q \in P /\ q # n + 1 - m
        <5>1. q \in P /\ q > p
          BY <3>1
        <5> HIDE DEF q
        <5> QED
          BY <2>3, <5>1
      <4> HIDE DEF q, P
      <4>2. g[q] = f[q]
        BY <4>1
      <4> QED
        BY <4>2 DEF q
    <3>3. g[p] = Body(f, p, stop, base, put, next)
      <4>1. CASE p = n + 1 - m
        <5> HIDE DEF P
        <5> QED
          BY <4>1
      <4>2. CASE p # n + 1 - m
        <5>1. p + m > n + 1
          BY <2>3, <4>2
        <5>2. is(f, p)
          BY <2>1, <5>1
        <5>3. g[p] = f[p]
          <6> HIDE DEF P
          <6> QED
            BY <4>2
        <5> QED
          BY <5>2, <5>3
      <4> QED
        BY <4>1, <4>2
    <3> HIDE DEF g
    <3>4. Body(g, p, stop, base, put, next) = Body(f, p, stop, base, put, next)
      BY <3>2 DEF Body
    <3> QED
      BY <3>3, <3>4
  <2> HIDE DEF g, is, P
  <2> QED
    BY <2>2, <2>3
<1> HIDE DEF U
<1>3. Nat \subseteq U
  BY <1>1, <1>2, Induction
<1>4. n + 1 \in U
  BY <1>3
<1>5. PICK f : f = [p \in P |-> f[p]] /\ \A p \in P : p + (n + 1) > n + 1 => is(f, p)
  BY <1>4 DEF U
<1>6. \A p \in P : p + (n + 1) > n + 1
  OBVIOUS
<1> QED
  BY <1>5, <1>6 DEF IsReader

-----------------------------------------------------------------------------
CellType ==
    [kind : {"head"}, value : [flags : SUBSET {"BINARY", "FIN", "CLOSE"}, len : Nat]]
      \cup [kind : {"length", "data", "old", "101"}, value : Nat]

(* What is on the wire, and the flags of a descriptor: none, those of       *)
(* ws_init, or what ws_dprintf leaves.                                      *)
OutTyped ==
    /\ wire \in Seq(CellType) /\ written \in Seq(Nat) /\ remaining \in Seq({Out!Old})
    /\ writable \in BOOLEAN /\ to_close \in BOOLEAN /\ whole \in BOOLEAN
    /\ ws_flags \in {{"none"}, {"BINARY", "FIN"}, {}}

(* What the number fields of the cells of a wire hold. *)
LEMMA CellIs ==
    ASSUME NEW c \in CellType
    PROVE  /\ c.kind = "head" => c.value.len \in Nat
           /\ c.kind = "length" => c.value \in Nat
  BY DEF CellType

(* What the client reads from p on. *)
Reads(F, p) ==
    F[p] = IF Out!Ends(p) THEN <<>>
           ELSE IF Out!Garbled(p) THEN Out!Garbage
           ELSE IF Out!Behind(p) > Len(wire) + 1 THEN <<>>
           ELSE <<[flags |-> wire[p].value.flags,
                   data |-> SubSeq(wire, Out!DataAt(p), Out!Behind(p) - 1)]>>
                \o F[Out!Behind(p)]

(* The client of WsWrite goes on behind where it is. *)
LEMMA BehindIs ==
    ASSUME wire \in Seq(CellType), NEW p \in 1 .. Len(wire) + 1,
           ~Out!Ends(p), ~Out!Garbled(p)
    PROVE  Out!Behind(p) \in Nat /\ Out!Behind(p) > p
<1>1. Len(wire) \in Nat /\ p \in 1 .. Len(wire) /\ wire[p] \in CellType /\ wire[p].kind = "head"
  BY ElementOfSeq, LenProperties DEF Out!Ends, Out!Garbled
<1>2. wire[p].value.len \in Nat
  BY <1>1, CellIs
<1>3. CASE Out!Extended(p)
  <2>1. p + 1 \in 1 .. Len(wire) /\ wire[p + 1].kind = "length"
    BY <1>1, <1>3 DEF Out!Ends, Out!Garbled
  <2>2. wire[p + 1].value \in Nat
    BY <2>1, ElementOfSeq, CellIs
  <2>3. Out!Behind(p) = p + 2 + wire[p + 1].value
    BY <1>3 DEF Out!Behind, Out!DataAt
  <2> QED
    BY <1>1, <2>2, <2>3
<1>4. CASE ~Out!Extended(p)
  <2>1. Out!Behind(p) = p + 1 + wire[p].value.len
    BY <1>4 DEF Out!Behind, Out!DataAt
  <2> QED
    BY <1>1, <1>2, <2>1
<1> QED
  BY <1>3, <1>4

(* So it exists, and what it reads from a cell is what Reads says: the      *)
(* CHOOSE in the function that defines Client has a value.                  *)
LEMMA ClientIs ==
    ASSUME wire \in Seq(CellType)
    PROVE  \E F : Out!Client = F[Out!Answer + 2] /\ \A p \in 1 .. Len(wire) + 1 : Reads(F, p)
<1> DEFINE n == Len(wire)
           P == 1 .. n + 1
           stop == {p \in P : Out!Ends(p) \/ Out!Garbled(p) \/ Out!Behind(p) > n + 1}
           base == [p \in P |-> IF Out!Ends(p) THEN <<>>
                                ELSE IF Out!Garbled(p) THEN Out!Garbage ELSE <<>>]
           put == [p \in P |-> <<[flags |-> wire[p].value.flags,
                                  data |-> SubSeq(wire, Out!DataAt(p), Out!Behind(p) - 1)]>>]
           next == [p \in P |-> Out!Behind(p)]
           rule(h) == [p \in P |->
              IF Out!Ends(p) THEN <<>>
              ELSE IF Out!Garbled(p) THEN Out!Garbage
              ELSE IF Out!Behind(p) > n + 1 THEN <<>>
              ELSE <<[flags |-> wire[p].value.flags,
                      data |-> SubSeq(wire, Out!DataAt(p), Out!Behind(p) - 1)]>>
                   \o h[Out!Behind(p)]]
           F == CHOOSE h : h = rule(h)
<1>n. n \in Nat
  BY LenProperties
<1>1. ASSUME NEW p \in P, p \notin stop PROVE next[p] \in p + 1 .. n + 1
  <2>1. Out!Behind(p) \in Nat /\ Out!Behind(p) > p /\ Out!Behind(p) <= n + 1
    <3>1. ~Out!Ends(p) /\ ~Out!Garbled(p) /\ ~(Out!Behind(p) > n + 1)
      BY <1>1
    <3>2. Out!Behind(p) \in Nat /\ Out!Behind(p) > p
      BY <3>1, BehindIs
    <3> HIDE DEF n
    <3> QED
      BY <1>n, <3>1, <3>2
  <2>2. next[p] = Out!Behind(p)
    OBVIOUS
  <2> HIDE DEF next
  <2> QED
    BY <1>n, <2>1, <2>2
<1>2. \E f : IsReader(f, n, stop, base, put, next)
  <2>1. Forward(n, stop, next)
    <3> HIDE DEF stop, next, n
    <3> QED
      BY <1>1 DEF Forward
  <2> HIDE DEF stop, base, put, next, n, P
  <2> QED
    BY <1>n, <2>1, ReaderExists
<1>3. PICK f : f = [p \in P |-> f[p]] /\ \A p \in P : f[p] = Body(f, p, stop, base, put, next)
  <2> HIDE DEF stop, base, put, next, n
  <2> QED
    BY <1>2 DEF IsReader
<1>4. f = rule(f)
  <2>1. ASSUME NEW p \in P PROVE f[p] = rule(f)[p]
    <3> DEFINE last == Out!Behind(p) > n + 1
               more == <<[flags |-> wire[p].value.flags,
                          data |-> SubSeq(wire, Out!DataAt(p), Out!Behind(p) - 1)]>>
    <3>1. f[p] = Body(f, p, stop, base, put, next)
      BY <1>3
    <3>2. p \in stop <=> Out!Ends(p) \/ Out!Garbled(p) \/ last
      OBVIOUS
    <3>3. base[p] = IF Out!Ends(p) THEN <<>> ELSE IF Out!Garbled(p) THEN Out!Garbage ELSE <<>>
      OBVIOUS
    <3>4. put[p] = more /\ next[p] = Out!Behind(p)
      OBVIOUS
    <3>5. rule(f)[p] = IF Out!Ends(p) THEN <<>> ELSE IF Out!Garbled(p) THEN Out!Garbage
                       ELSE IF last THEN <<>> ELSE more \o f[Out!Behind(p)]
      OBVIOUS
    <3> HIDE DEF stop, base, put, next, rule, last, more
    <3> QED
      BY <3>1, <3>2, <3>3, <3>4, <3>5 DEF Body
  <2>2. rule(f) = [p \in P |-> rule(f)[p]]
    OBVIOUS
  <2> HIDE DEF rule
  <2> QED
    BY <1>3, <2>1, <2>2
<1>5. F = rule(F)
  <2> HIDE DEF rule
  <2> QED
    BY <1>4
<1>6. Out!Client = F[Out!Answer + 2]
  BY DEF Out!Client
<1> HIDE DEF F
<1>7. \A p \in P : Reads(F, p)
  BY <1>5 DEF Reads
<1> QED
  BY <1>6, <1>7

-----------------------------------------------------------------------------
(* A frame from p to before q, the i-th, of n bytes, as a client takes it. *)
FrameAt(w, p, q, i, n) ==
    /\ p \in 1 .. Len(w) /\ q \in 1 .. Len(w) + 1 /\ n \in Nat
    /\ w[p].kind = "head" /\ "CLOSE" \notin w[p].value.flags /\ w[p].value.len \in Nat
    /\ \/ w[p].value.len < Small /\ w[p].value.len = n /\ q = p + 1 + n
       \/ w[p].value.len >= Small /\ q = p + 2 + n /\ w[p + 1] = Out!Cell("length", n)
    /\ \A j \in q - n .. q - 1 : w[j] = Out!Cell("data", i)

(* The head of the frame of ws_close. *)
ClosedAt(p) ==
    p \in 1 .. Len(wire) /\ wire[p].kind = "head" /\ "CLOSE" \in wire[p].value.flags

(* The first cell of the 101. *)
AnsweredAt(p) ==
    p \in 1 .. Len(wire) /\ wire[p].kind = "101" /\ \A q \in 1 .. p - 1 : wire[q].kind # "101"

(* The frames of the messages lie one after another behind the answer, b[i] *)
(* being where the i-th begins and where the last one ends.                 *)
SentFrames(b) ==
    /\ b \in [1 .. Len(written) + 1 -> Nat]
    /\ AnsweredAt(b[1] - 2)
    /\ \A i \in 1 .. Len(written) : FrameAt(wire, b[i], b[i + 1], i, written[i])
    /\ ws_flags # {} =>
         \A i \in 1 .. Len(written) : wire[b[i]].value.flags = {"BINARY", "FIN"}
    /\ IF writable THEN b[Len(written) + 1] = Len(wire) + 1 ELSE ClosedAt(b[Len(written) + 1])

ShortOnes == \A i \in 1 .. Len(written) : written[i] < Medium

(* After an answer that went out whole nothing is kept any more; before an  *)
(* answer nothing is on the wire that a client takes for one.               *)
OutInv ==
    /\ OutTyped
    /\ ~Out!Upgraded => written = <<>> /\ \A q \in 1 .. Len(wire) : wire[q].kind # "101"
    /\ whole /\ Out!Upgraded => remaining = <<>>
    /\ whole /\ Out!Upgraded /\ ShortOnes => \E b : SentFrames(b)

-----------------------------------------------------------------------------
(* The client starts at the first 101. *)
LEMMA AnswerIs ==
    ASSUME NEW p, AnsweredAt(p), wire \in Seq(CellType)
    PROVE  Out!Answer = p
<1>1. p \in DOMAIN wire /\ DOMAIN wire = 1 .. Len(wire) /\ Len(wire) \in Nat
  BY LenProperties DEF AnsweredAt
<1>2. ASSUME NEW q \in DOMAIN wire, wire[q].kind = "101", \A r \in 1 .. q - 1 : wire[r].kind # "101"
      PROVE  q = p
  <2>1. ~(q < p)
    BY <1>1, <1>2 DEF AnsweredAt
  <2>2. ~(p < q)
    BY <1>1, <1>2 DEF AnsweredAt
  <2> QED
    BY <1>1, <1>2, <2>1, <2>2
<1> QED
  BY <1>1, <1>2 DEF Out!Answer, AnsweredAt

(* In front of a whole frame it reads its message, then what is behind it. *)
LEMMA OneFrameRead ==
    ASSUME wire \in Seq(CellType), Small \in Nat, NEW p, NEW q, NEW i, NEW n,
           FrameAt(wire, p, q, i, n), NEW F, Reads(F, p)
    PROVE  F[p] = <<[flags |-> wire[p].value.flags, data |-> Out!Data(i, n)]>> \o F[q]
<1>1. p \in 1 .. Len(wire) /\ q \in 1 .. Len(wire) + 1 /\ n \in Nat /\ Len(wire) \in Nat
  BY LenProperties DEF FrameAt
<1>2. wire[p].kind = "head" /\ "CLOSE" \notin wire[p].value.flags /\ wire[p].value.len \in Nat
  BY DEF FrameAt
<1>3. /\ ~Out!Ends(p) /\ ~Out!Garbled(p)
      /\ Out!DataAt(p) = q - n /\ Out!Behind(p) = q
  <2>1. CASE wire[p].value.len < Small /\ wire[p].value.len = n /\ q = p + 1 + n
    <3>1. ~Out!Extended(p)
      BY <1>2, <2>1 DEF Out!Extended
    <3>2. ~Out!Ends(p) /\ ~Out!Garbled(p)
      BY <1>1, <1>2, <3>1 DEF Out!Ends, Out!Garbled
    <3>3. Out!DataAt(p) = p + 1 /\ Out!Behind(p) = p + 1 + wire[p].value.len
      BY <3>1 DEF Out!Behind, Out!DataAt
    <3> QED
      BY <1>1, <2>1, <3>2, <3>3
  <2>2. CASE wire[p].value.len >= Small /\ q = p + 2 + n /\ wire[p + 1] = Out!Cell("length", n)
    <3>1. Out!Extended(p) /\ wire[p + 1].kind = "length" /\ wire[p + 1].value = n
      BY <2>2 DEF Out!Extended, Out!Cell
    <3>2. ~Out!Ends(p) /\ ~Out!Garbled(p)
      BY <1>1, <1>2, <2>2, <3>1 DEF Out!Ends, Out!Garbled
    <3>3. Out!DataAt(p) = p + 2 /\ Out!Behind(p) = p + 2 + n
      BY <3>1 DEF Out!Behind, Out!DataAt
    <3> QED
      BY <1>1, <2>2, <3>2, <3>3
  <2> QED
    BY <2>1, <2>2 DEF FrameAt
<1>4. SubSeq(wire, q - n, q - 1) = Out!Data(i, n)
  <2>1. SubSeq(wire, q - n, q - 1) = [j \in 1 .. n |-> wire[q - n + j - 1]]
    <3>1. q - 1 - (q - n) + 1 = n
      BY <1>1
    <3> QED
      BY <1>1, <3>1
  <2>2. \A j \in 1 .. n : wire[q - n + j - 1] = Out!Cell("data", i)
    BY <1>1 DEF FrameAt
  <2> QED
    BY <2>1, <2>2 DEF Out!Data
<1>5. ~(q > Len(wire) + 1)
  BY <1>1
<1> QED
  BY <1>3, <1>4, <1>5 DEF Reads

(* Where the frames that were written lie on the wire one after another, it *)
(* reads them all: from the last to the first.                              *)
LEMMA ReadsAll ==
    ASSUME OutTyped, Small \in Nat, NEW b, SentFrames(b)
    PROVE  Out!Client = [i \in 1 .. Len(written) |->
             [flags |-> wire[b[i]].value.flags, data |-> Out!Data(i, written[i])]]
<1> DEFINE m == Len(written)
           one(i) == [flags |-> wire[b[i]].value.flags, data |-> Out!Data(i, written[i])]
           from(k) == [i \in 1 .. m + 1 - k |-> one(k + i - 1)]
<1>1. m \in Nat /\ wire \in Seq(CellType) /\ Len(wire) \in Nat
  BY LenProperties DEF OutTyped
<1>2. PICK F : Out!Client = F[Out!Answer + 2] /\ \A p \in 1 .. Len(wire) + 1 : Reads(F, p)
  BY <1>1, ClientIs
<1>3. F[b[m + 1]] = <<>>
  <2>1. b[m + 1] \in 1 .. Len(wire) + 1 /\ Out!Ends(b[m + 1])
    <3>1. CASE writable
      BY <1>1, <3>1 DEF SentFrames, Out!Ends
    <3>2. CASE ~writable
      BY <1>1, <3>2 DEF SentFrames, ClosedAt, Out!Ends
    <3> QED
      BY <3>1, <3>2
  <2> QED
    BY <1>2, <2>1 DEF Reads
<1>4. ASSUME NEW k \in 1 .. m, F[b[k + 1]] = from(k + 1) PROVE F[b[k]] = from(k)
  <2>1. FrameAt(wire, b[k], b[k + 1], k, written[k]) /\ b[k] \in 1 .. Len(wire) + 1
    BY <1>1 DEF SentFrames, FrameAt
  <2>2. F[b[k]] = <<one(k)>> \o F[b[k + 1]]
    <3>1. Reads(F, b[k])
      BY <1>2, <2>1
    <3> DEFINE p == b[k]
               q == b[k + 1]
               n == written[k]
    <3>2. FrameAt(wire, p, q, k, n) /\ Reads(F, p)
      BY <2>1, <3>1
    <3> HIDE DEF p, q, n
    <3>3. F[p] = <<[flags |-> wire[p].value.flags, data |-> Out!Data(k, n)]>> \o F[q]
      BY <1>1, <3>2, OneFrameRead
    <3> QED
      BY <3>3 DEF p, q, n
  <2>3. <<one(k)>> \o from(k + 1) = from(k)
    <3> HIDE DEF one, m
    <3>1. /\ Len(<<one(k)>>) = 1 /\ Len(from(k + 1)) = m - k
          /\ from(k + 1) \in Seq({one(j) : j \in Nat})
      BY <1>1
    <3>2. <<one(k)>> \o from(k + 1) =
            [i \in 1 .. 1 + (m - k) |-> IF i <= 1 THEN <<one(k)>>[i] ELSE from(k + 1)[i - 1]]
      BY <1>1, <3>1
    <3>3. \A i \in 1 .. 1 + (m - k) :
            (IF i <= 1 THEN <<one(k)>>[i] ELSE from(k + 1)[i - 1]) = one(k + i - 1)
      <4> TAKE i \in 1 .. 1 + (m - k)
      <4>1. CASE i <= 1
        <5>1. i = 1 /\ k + i - 1 = k
          BY <1>1, <4>1
        <5> QED
          BY <5>1
      <4>2. CASE ~(i <= 1)
        <5>1. i - 1 \in 1 .. m + 1 - (k + 1) /\ k + 1 + (i - 1) - 1 = k + i - 1
          BY <1>1, <4>2
        <5>2. from(k + 1)[i - 1] = one(k + 1 + (i - 1) - 1)
          BY <5>1
        <5> QED
          BY <4>2, <5>1, <5>2
      <4> QED
        BY <4>1, <4>2
    <3> QED
      BY <1>1, <3>2, <3>3
  <2> QED
    BY <1>4, <2>2, <2>3
<1> DEFINE S == {j \in Nat : j <= m => F[b[m + 1 - j]] = from(m + 1 - j)}
<1>5. Nat \subseteq S
  <2>1. 0 \in S
    <3>1. from(m + 1) = <<>> /\ m + 1 - 0 = m + 1
      BY <1>1
    <3> QED
      BY <1>3, <3>1
  <2>2. ASSUME NEW j \in Nat, j \in S PROVE j + 1 \in S
    <3> SUFFICES ASSUME j + 1 <= m PROVE F[b[m + 1 - (j + 1)]] = from(m + 1 - (j + 1))
      <4> HIDE DEF from, m
      <4> QED
        OBVIOUS
    <3> DEFINE k == m + 1 - (j + 1)
    <3>1. k \in 1 .. m /\ k + 1 = m + 1 - j /\ j <= m
      BY <1>1
    <3>2. F[b[k + 1]] = from(k + 1)
      BY <2>2, <3>1
    <3> HIDE DEF k, from
    <3>3. F[b[k]] = from(k)
      BY <1>4, <3>1, <3>2
    <3> QED
      BY <3>3 DEF k
  <2> HIDE DEF S
  <2> QED
    BY <2>1, <2>2, Induction
<1>6. F[b[1]] = from(1)
  <2> HIDE DEF from
  <2>1. m \in Nat /\ m \in S /\ m <= m /\ m + 1 - m = 1
    BY <1>1, <1>5
  <2> HIDE DEF m
  <2>2. F[b[m + 1 - m]] = from(m + 1 - m)
    BY <2>1
  <2> QED
    BY <2>1, <2>2
<1>7. from(1) = [i \in 1 .. m |-> one(i)]
  <2>1. m + 1 - 1 = m /\ \A i \in 1 .. m : 1 + i - 1 = i
    BY <1>1
  <2> HIDE DEF one
  <2> QED
    BY <2>1
<1>8. Out!Answer + 2 = b[1]
  <2>1. AnsweredAt(b[1] - 2) /\ b[1] \in Nat
    BY <1>1 DEF SentFrames
  <2>2. Out!Answer = b[1] - 2
    BY <1>1, <2>1, AnswerIs
  <2> QED
    BY <2>1, <2>2
<1> QED
  BY <1>2, <1>6, <1>7, <1>8

(* The invariant says what ClientReads says. *)
LEMMA SentFramesAreRead ==
    ASSUME OutInv, Small \in Nat
    PROVE  Out!ClientReads
<1> SUFFICES ASSUME whole, Out!Upgraded, ShortOnes
             PROVE  /\ [i \in 1 .. Len(Out!Client) |-> Out!Client[i].data]
                         = [i \in 1 .. Len(written) |-> Out!Data(i, written[i])]
                    /\ ws_flags # {} =>
                         \A i \in 1 .. Len(Out!Client) : Out!Client[i].flags = {"BINARY", "FIN"}
  BY DEF Out!ClientReads, ShortOnes
<1>1. PICK b : SentFrames(b)
  BY DEF OutInv
<1> DEFINE m == Len(written)
           s == [i \in 1 .. m |->
                  [flags |-> wire[b[i]].value.flags, data |-> Out!Data(i, written[i])]]
<1>2. Out!Client = s
  BY <1>1, ReadsAll DEF OutInv
<1>3. Len(s) = m
  <2>1. m \in Nat
    BY LenProperties DEF OutInv, OutTyped
  <2> HIDE DEF m
  <2> QED
    BY <2>1
<1>4. ws_flags # {} => \A i \in 1 .. m : s[i].flags = {"BINARY", "FIN"}
  BY <1>1 DEF SentFrames
<1> QED
  BY <1>2, <1>3, <1>4

-----------------------------------------------------------------------------
(* Cells that leave do not move those that have left. *)
LEMMA Appended ==
    ASSUME NEW w \in Seq(CellType), NEW x \in Seq(CellType)
    PROVE  /\ w \o x \in Seq(CellType) /\ Len(w \o x) = Len(w) + Len(x)
           /\ Len(w) \in Nat /\ Len(x) \in Nat
           /\ \A i \in 1 .. Len(w) : (w \o x)[i] = w[i]
           /\ \A i \in 1 .. Len(x) : (w \o x)[Len(w) + i] = x[i]
  BY Joined, LenProperties

(* Nor do they move a frame. *)
LEMMA FrameStays ==
    ASSUME wire \in Seq(CellType), NEW x \in Seq(CellType), Small \in Nat,
           NEW p, NEW q, NEW i, NEW n, FrameAt(wire, p, q, i, n)
    PROVE  FrameAt(wire \o x, p, q, i, n) /\ (wire \o x)[p] = wire[p]
<1> DEFINE w == wire \o x
<1>1. /\ Len(w) = Len(wire) + Len(x) /\ Len(wire) \in Nat /\ Len(x) \in Nat
      /\ \A k \in 1 .. Len(wire) : w[k] = wire[k]
  BY Appended
<1>2. p \in 1 .. Len(wire) /\ q \in 1 .. Len(wire) + 1 /\ n \in Nat /\ p + 1 <= q - n
  BY <1>1 DEF FrameAt
<1> HIDE DEF w
<1>3. p \in 1 .. Len(w) /\ q \in 1 .. Len(w) + 1 /\ w[p] = wire[p]
  BY <1>1, <1>2
<1>4. ASSUME NEW k \in q - n .. q - 1 PROVE w[k] = Out!Cell("data", i)
  BY <1>1, <1>2 DEF FrameAt
<1>5. q = p + 2 + n => w[p + 1] = wire[p + 1]
  BY <1>1, <1>2
<1>6. FrameAt(w, p, q, i, n)
  BY <1>2, <1>3, <1>4, <1>5 DEF FrameAt
<1> QED
  BY <1>3, <1>6 DEF w

(* What frame_head composes is a frame to the client, where the message is  *)
(* shorter than 1 << 16: each form of a length.                             *)
LEMMA FrameIs ==
    ASSUME OutAssumption, NEW n \in Lengths, NEW i \in Nat,
           ws_flags' \in {{"BINARY", "FIN"}, {}}
    PROVE  /\ Out!Frame(n, i) \in Seq(CellType)
           /\ n < Medium => /\ FrameAt(Out!Frame(n, i), 1, Len(Out!Frame(n, i)) + 1, i, n)
                            /\ Out!Frame(n, i)[1].value.flags = ws_flags'
<1> DEFINE d == Out!Data(i, n)
           top(l) == Out!Cell("head", [flags |-> ws_flags', len |-> l])
           long(m) == Out!Cell("length", m)
<1>1. n \in Nat /\ Small \in Nat /\ Medium \in Nat /\ Misplaced(n) \in Nat
  BY DEF OutAssumption
<1>2. d \in Seq(CellType) /\ Len(d) = n /\ \A k \in 1 .. n : d[k] = Out!Cell("data", i)
  <2>1. Out!Cell("data", i) \in CellType
    BY DEF Out!Cell, CellType
  <2> QED
    BY <1>1, <2>1 DEF Out!Data
<1>3. ASSUME NEW l \in Nat
      PROVE  /\ top(l) \in CellType /\ top(l).kind = "head" /\ top(l).value.len = l
             /\ top(l).value.flags = ws_flags' /\ "CLOSE" \notin ws_flags'
  BY DEF Out!Cell, CellType
<1>4. ASSUME NEW m \in Nat PROVE long(m) \in CellType
  BY DEF Out!Cell, CellType
<1>5. CASE n < Small
  <2>1. Out!Frame(n, i) = <<top(n)>> \o d
    BY <1>5 DEF Out!Frame, Out!Smallest, Out!Head7
  <2>2. <<top(n)>> \in Seq(CellType) /\ Len(<<top(n)>>) = 1 /\ <<top(n)>>[1] = top(n)
    BY <1>1, <1>3
  <2> DEFINE h == <<top(n)>>
             w == h \o d
  <2>3. /\ w \in Seq(CellType) /\ Len(w) = 1 + n
        /\ w[1] = top(n) /\ \A k \in 1 .. n : w[1 + k] = d[k]
    <3> HIDE DEF top, d
    <3>1. h \in Seq(CellType) /\ Len(h) = 1 /\ h[1] = top(n)
      BY <2>2
    <3> HIDE DEF h
    <3>2. /\ h \o d \in Seq(CellType) /\ Len(h \o d) = Len(h) + Len(d)
          /\ \A k \in 1 .. Len(h) : (h \o d)[k] = h[k]
          /\ \A k \in 1 .. Len(d) : (h \o d)[Len(h) + k] = d[k]
      BY <1>2, <3>1, Appended
    <3> QED
      BY <1>2, <3>1, <3>2
  <2> HIDE DEF top, d, w
  <2>4. \A k \in (1 + n + 1) - n .. (1 + n + 1) - 1 : w[k] = Out!Cell("data", i)
    <3> TAKE k \in (1 + n + 1) - n .. (1 + n + 1) - 1
    <3>1. k - 1 \in 1 .. n /\ 1 + (k - 1) = k
      BY <1>1
    <3> QED
      BY <1>2, <2>3, <3>1
  <2>5. FrameAt(w, 1, Len(w) + 1, i, n) /\ w[1].value.flags = ws_flags'
    BY <1>1, <1>3, <1>5, <2>3, <2>4 DEF FrameAt
  <2> QED
    BY <2>1, <2>3, <2>5 DEF w
<1>6. ASSUME NEW l \in Nat, NEW m \in Nat, l >= Small
      PROVE  /\ <<top(l), long(m)>> \o d \in Seq(CellType)
             /\ m = n => LET w == <<top(l), long(m)>> \o d
                        IN FrameAt(w, 1, Len(w) + 1, i, n) /\ w[1].value.flags = ws_flags'
  <2> DEFINE h == <<top(l), long(m)>>
             w == h \o d
  <2>1. top(l) \in CellType /\ long(m) \in CellType
    BY <1>3, <1>4
  <2>3. /\ w \in Seq(CellType) /\ Len(w) = 2 + n
        /\ w[1] = top(l) /\ w[2] = long(m) /\ \A k \in 1 .. n : w[2 + k] = d[k]
    <3> HIDE DEF top, long, d
    <3>1. h \in Seq(CellType) /\ Len(h) = 2 /\ h[1] = top(l) /\ h[2] = long(m)
      BY <2>1
    <3> HIDE DEF h
    <3>2. /\ h \o d \in Seq(CellType) /\ Len(h \o d) = Len(h) + Len(d)
          /\ \A k \in 1 .. Len(h) : (h \o d)[k] = h[k]
          /\ \A k \in 1 .. Len(d) : (h \o d)[Len(h) + k] = d[k]
      BY <1>2, <3>1, Appended
    <3> QED
      BY <1>2, <3>1, <3>2
  <2>6. long(n) = Out!Cell("length", n)
    OBVIOUS
  <2> HIDE DEF top, d, w, long
  <2>4. \A k \in (2 + n + 1) - n .. (2 + n + 1) - 1 : w[k] = Out!Cell("data", i)
    <3> TAKE k \in (2 + n + 1) - n .. (2 + n + 1) - 1
    <3>1. k - 2 \in 1 .. n /\ 2 + (k - 2) = k
      BY <1>1
    <3> QED
      BY <1>2, <2>3, <3>1
  <2>5. m = n => FrameAt(w, 1, Len(w) + 1, i, n) /\ w[1].value.flags = ws_flags'
    BY <1>1, <1>3, <1>6, <2>3, <2>4, <2>6 DEF FrameAt
  <2> QED
    BY <2>3, <2>5 DEF w
<1>7. CASE n >= Small /\ n < Medium
  <2>1. Out!Frame(n, i) = <<top(Small), long(n)>> \o d
    BY <1>1, <1>7 DEF Out!Frame, Out!Smallest, Out!Head7
  <2> HIDE DEF top, long, d
  <2> QED
    BY <1>1, <1>6, <2>1
<1>8. CASE n >= Small /\ n >= Medium
  <2>1. Out!Frame(n, i) = <<top(Small + 1), long(Misplaced(n))>> \o d
    BY <1>1, <1>8 DEF Out!Frame, Out!Smallest, Out!Head7
  <2> HIDE DEF top, long, d
  <2> QED
    BY <1>1, <1>6, <1>8, <2>1
<1> QED
  BY <1>1, <1>5, <1>7, <1>8

(* What the kernel takes of something, and all of it. *)
LEMMA CutTyped ==
    ASSUME NEW S, NEW x \in Seq(S), NEW n \in 0 .. Len(x)
    PROVE  SubSeq(x, 1, n) \in Seq(S) /\ (n = Len(x) => SubSeq(x, 1, n) = x)
<1>1. Len(x) \in Nat /\ \A i \in 1 .. n : x[i] \in S
  BY LenProperties, ElementOfSeq
<1>2. SubSeq(x, 1, n) \in Seq(S)
  BY <1>1, SubSeqProperties
<1> QED
  BY <1>2

(* ws_write and ws_dprintf keep the invariant: a call that returns 0 puts   *)
(* one frame behind those before.                                           *)
LEMMA WrittenKept ==
    ASSUME OutInv, OutAssumption, Out!Upgraded, writable, NEW n \in Lengths,
           ws_flags' \in {ws_flags, {}}, Out!WriteFrame(n),
           UNCHANGED <<remaining, to_close, writable>>
    PROVE  OutInv'
<1> DEFINE m == Len(written)
           frame == Out!Frame(n, m + 1)
<1>1. /\ wire \in Seq(CellType) /\ written \in Seq(Nat) /\ m \in Nat /\ Len(wire) \in Nat
      /\ whole \in BOOLEAN /\ ws_flags \in {{"BINARY", "FIN"}, {}} /\ n \in Nat /\ Small \in Nat
  BY LenProperties DEF OutInv, OutTyped, Out!Upgraded, OutAssumption
<1>2. ws_flags' \in {{"BINARY", "FIN"}, {}} /\ (ws_flags' # {} => ws_flags' = ws_flags)
  BY <1>1
<1>3. Out!Upgraded'
  BY <1>2 DEF Out!Upgraded
<1>4. PICK k \in 0 .. Len(frame) :
        /\ wire' = wire \o SubSeq(frame, 1, k)
        /\ whole' = (whole /\ ~(k < Len(frame)))
        /\ written' = Append(written, n)
  BY DEF Out!WriteFrame, Out!Takes, Out!Returns
<1>5. /\ frame \in Seq(CellType) /\ Len(frame) \in Nat
      /\ n < Medium => FrameAt(frame, 1, Len(frame) + 1, m + 1, n) /\ frame[1].value.flags = ws_flags'
  <2>1. m + 1 \in Nat
    BY <1>1
  <2> HIDE DEF m
  <2>2. /\ Out!Frame(n, m + 1) \in Seq(CellType)
        /\ n < Medium => /\ FrameAt(Out!Frame(n, m + 1), 1, Len(Out!Frame(n, m + 1)) + 1, m + 1, n)
                         /\ Out!Frame(n, m + 1)[1].value.flags = ws_flags'
    BY <1>2, <2>1, FrameIs
  <2>3. Len(Out!Frame(n, m + 1)) \in Nat
    BY <2>2, LenProperties
  <2> QED
    BY <2>2, <2>3
<1> HIDE DEF frame
<1>6. SubSeq(frame, 1, k) \in Seq(CellType) /\ (k = Len(frame) => SubSeq(frame, 1, k) = frame)
  BY <1>5, CutTyped
<1>7. /\ written' \in Seq(Nat) /\ Len(written') = m + 1 /\ written'[m + 1] = n
      /\ \A i \in 1 .. m : written'[i] = written[i]
  BY <1>1, <1>4, AppendProperties
<1>8. OutTyped'
  <2>1. wire' \in Seq(CellType) /\ whole' \in BOOLEAN
    BY <1>1, <1>4, <1>6, Appended
  <2> QED
    BY <1>2, <1>7, <2>1 DEF OutInv, OutTyped, Out!Old, Out!Cell
<1>9. whole' => remaining' = <<>>
  BY <1>4 DEF OutInv
<1>10. ASSUME whole', ShortOnes' PROVE \E b : SentFrames(b)'
  <2>1. k = Len(frame) /\ whole /\ wire' = wire \o frame
    <3>1. whole /\ ~(k < Len(frame))
      BY <1>4, <1>10
    <3>2. k = Len(frame)
      BY <1>5, <3>1
    <3> QED
      BY <1>4, <1>6, <3>1, <3>2
  <2>2. n < Medium /\ ShortOnes
    <3>1. \A i \in 1 .. m + 1 : written'[i] < Medium
      BY <1>7, <1>10 DEF ShortOnes
    <3>2. m + 1 \in 1 .. m + 1 /\ \A i \in 1 .. m : i \in 1 .. m + 1
      BY <1>1
    <3> QED
      BY <1>7, <3>1, <3>2 DEF ShortOnes
  <2>3. PICK b : SentFrames(b)
    BY <2>1, <2>2 DEF OutInv
  <2>c. PICK c : c = [i \in 1 .. m + 2 |-> IF i = m + 2 THEN Len(wire') + 1 ELSE b[i]]
    OBVIOUS
  <2>4. /\ wire' \in Seq(CellType) /\ Len(wire') = Len(wire) + Len(frame)
        /\ \A i \in 1 .. Len(wire) : wire'[i] = wire[i]
        /\ \A i \in 1 .. Len(frame) : wire'[Len(wire) + i] = frame[i]
    BY <1>1, <1>5, <2>1, Appended
  <2>5. \A i \in 1 .. m + 1 : b[i] \in Nat
    BY <1>1, <2>3 DEF SentFrames
  <2>6. c \in [1 .. m + 2 -> Nat] /\ c[m + 2] = Len(wire') + 1 /\ \A i \in 1 .. m + 1 : c[i] = b[i]
    BY <1>1, <1>5, <2>4, <2>5, <2>c
  <2>7. AnsweredAt(c[1] - 2)'
    <3>1. PICK p : p = b[1] - 2
      OBVIOUS
    <3>2. AnsweredAt(p) /\ p = c[1] - 2
      BY <1>1, <2>3, <2>6, <3>1 DEF SentFrames
    <3>3. p \in 1 .. Len(wire) /\ p \in 1 .. Len(wire') /\ \A q \in 1 .. p : q \in 1 .. Len(wire)
      BY <1>1, <1>5, <2>4, <3>2 DEF AnsweredAt
    <3>4. \A q \in 1 .. p : wire'[q] = wire[q]
      BY <2>4, <3>3
    <3>5. wire'[p].kind = "101" /\ \A q \in 1 .. p - 1 : wire'[q].kind # "101"
      <4>1. p \in 1 .. p /\ \A q \in 1 .. p - 1 : q \in 1 .. p
        BY <1>1, <3>3
      <4>2. wire[p].kind = "101" /\ \A q \in 1 .. p - 1 : wire[q].kind # "101"
        BY <3>2 DEF AnsweredAt
      <4> QED
        BY <3>4, <4>1, <4>2
    <3>6. AnsweredAt(p)'
      BY <3>3, <3>5 DEF AnsweredAt
    <3> QED
      BY <3>2, <3>6
  <2>8. b[m + 1] = Len(wire) + 1
    BY <2>3 DEF SentFrames
  <2>9. ASSUME NEW i \in 1 .. m
        PROVE  FrameAt(wire', c[i], c[i + 1], i, written'[i]) /\ wire'[c[i]] = wire[b[i]]
    <3>1. c[i] = b[i] /\ c[i + 1] = b[i + 1] /\ written'[i] = written[i]
      <4>1. i \in 1 .. m + 1 /\ i + 1 \in 1 .. m + 1
        BY <1>1
      <4> QED
        BY <1>7, <2>6, <4>1
    <3>2. FrameAt(wire, b[i], b[i + 1], i, written[i])
      BY <2>3 DEF SentFrames
    <3> DEFINE p == b[i]
               q == b[i + 1]
               l == written[i]
    <3> HIDE DEF p, q, l
    <3>3. FrameAt(wire, p, q, i, l)
      BY <3>2 DEF p, q, l
    <3>4. FrameAt(wire', p, q, i, l) /\ wire'[p] = wire[p]
      BY <1>1, <1>5, <2>1, <3>3, FrameStays
    <3> QED
      BY <3>1, <3>4 DEF p, q, l
  <2>10. /\ FrameAt(wire', c[m + 1], c[m + 2], m + 1, n)
         /\ wire'[c[m + 1]].value.flags = ws_flags'
    <3> DEFINE p == Len(wire) + 1
               q == Len(wire') + 1
    <3>1. c[m + 1] = p /\ c[m + 2] = q
      <4>1. m + 1 \in 1 .. m + 1
        BY <1>1
      <4> QED
        BY <2>6, <2>8, <4>1
    <3>2. FrameAt(frame, 1, Len(frame) + 1, m + 1, n) /\ frame[1].value.flags = ws_flags'
      BY <1>5, <2>2
    <3>3. Len(frame) \in Nat /\ Len(frame) >= 1 /\ Len(frame) >= n + 1
      BY <1>5, <3>2 DEF FrameAt
    <3>4. wire'[p] = frame[1]
      BY <2>4, <3>3
    <3>5. ASSUME NEW j \in q - n .. q - 1 PROVE wire'[j] = Out!Cell("data", m + 1)
      <4> DEFINE r == j - Len(wire)
      <4>1. r \in Len(frame) + 1 - n .. Len(frame) + 1 - 1 /\ r \in 1 .. Len(frame) /\ Len(wire) + r = j
        BY <1>1, <2>4, <3>3
      <4> HIDE DEF r
      <4>2. wire'[j] = frame[r]
        BY <2>4, <4>1
      <4>3. frame[r] = Out!Cell("data", m + 1)
        BY <3>2, <4>1 DEF FrameAt
      <4> QED
        BY <4>2, <4>3
    <3>6. Len(frame) + 1 = 1 + 2 + n => wire'[p + 1] = frame[1 + 1]
      BY <1>1, <1>5, <2>4
    <3>7. p \in 1 .. Len(wire') /\ q \in 1 .. Len(wire') + 1 /\ q - p = Len(frame)
      BY <1>1, <2>4, <3>3
    <3>8. p \in Nat /\ q \in Nat
      BY <1>1, <1>5, <2>4
    <3> HIDE DEF p, q
    <3>9. FrameAt(wire', p, q, m + 1, n)
      <4>1. CASE n = frame[1].value.len /\ frame[1].value.len < Small /\ Len(frame) + 1 = 1 + 1 + n
        <5>1. q = p + 1 + n
          <6>1. Len(frame) + 1 = 1 + 1 + n
            BY <4>1
          <6>2. Len(frame) \in Nat /\ n \in Nat /\ p \in Nat /\ q \in Nat /\ q - p = Len(frame)
            BY <1>1, <1>5, <3>7, <3>8
          <6> QED
            BY <6>1, <6>2
        <5> QED
          BY <3>2, <3>4, <3>5, <3>7, <4>1, <5>1 DEF FrameAt
      <4>2. CASE /\ frame[1].value.len >= Small /\ Len(frame) + 1 = 1 + 2 + n
                 /\ frame[1 + 1] = Out!Cell("length", n)
        <5>1. q = p + 2 + n
          <6>1. Len(frame) + 1 = 1 + 2 + n
            BY <4>2
          <6>2. Len(frame) \in Nat /\ n \in Nat /\ p \in Nat /\ q \in Nat /\ q - p = Len(frame)
            BY <1>1, <1>5, <3>7, <3>8
          <6> QED
            BY <6>1, <6>2
        <5> QED
          BY <3>2, <3>4, <3>5, <3>6, <3>7, <4>2, <5>1 DEF FrameAt
      <4> QED
        BY <3>2, <4>1, <4>2 DEF FrameAt
    <3> QED
      BY <3>1, <3>2, <3>4, <3>9
  <2>11. ASSUME NEW i \in 1 .. m + 1
         PROVE  /\ FrameAt(wire', c[i], c[i + 1], i, written'[i])
                /\ ws_flags' # {} => wire'[c[i]].value.flags = {"BINARY", "FIN"}
    <3>1. CASE i = m + 1
      <4>1. m + 1 + 1 = m + 2
        BY <1>1
      <4> QED
        BY <1>2, <1>7, <2>10, <3>1, <4>1
    <3>2. CASE i \in 1 .. m
      <4>1. ws_flags' # {} => wire[b[i]].value.flags = {"BINARY", "FIN"}
        BY <1>2, <2>3, <3>2 DEF SentFrames
      <4> QED
        BY <2>9, <3>2, <4>1
    <3> QED
      BY <1>1, <3>1, <3>2
  <2>12. m + 1 + 1 = m + 2
    BY <1>1
  <2>13. SentFrames(c)'
    BY <1>7, <2>6, <2>7, <2>11, <2>12 DEF SentFrames
  <2> QED
    BY <2>13
<1> QED
  BY <1>3, <1>8, <1>9, <1>10 DEF OutInv

(* So does ws_init: the frames will begin behind the answer. *)
LEMMA AnsweredKept ==
    ASSUME OutInv, Out!WsInit
    PROVE  OutInv'
<1> DEFINE c == Out!Cell("101", 0)
           a == <<c, c>>
<1>1. /\ wire \in Seq(CellType) /\ Len(wire) \in Nat /\ writable /\ ~Out!Upgraded /\ written = <<>>
      /\ \A q \in 1 .. Len(wire) : wire[q].kind # "101"
  BY LenProperties DEF OutInv, OutTyped, Out!WsInit
<1>2. PICK n \in 0 .. 2 : wire' = wire \o SubSeq(a, 1, n) /\ whole' = (n = 2 /\ remaining = <<>>)
  BY DEF Out!WsInit, Out!Takes
<1>3. ws_flags' = {"BINARY", "FIN"} /\ UNCHANGED <<remaining, to_close, writable, written>>
  BY DEF Out!WsInit
<1>4. a \in Seq(CellType) /\ Len(a) = 2 /\ a[1].kind = "101" /\ a[2].kind = "101"
  BY DEF Out!Cell, CellType
<1> HIDE DEF a
<1>5. SubSeq(a, 1, n) \in Seq(CellType) /\ (n = 2 => SubSeq(a, 1, n) = a)
  BY <1>4, CutTyped
<1>6. OutTyped'
  <2>1. wire' \in Seq(CellType) /\ whole' \in BOOLEAN
    BY <1>1, <1>2, <1>5, Appended
  <2> QED
    BY <1>3, <2>1 DEF OutInv, OutTyped, Out!Old, Out!Cell
<1>7. Out!Upgraded'
  BY <1>3 DEF Out!Upgraded
<1>8. ASSUME whole' PROVE remaining' = <<>> /\ \E b : SentFrames(b)'
  <2>1. n = 2 /\ remaining = <<>> /\ wire' = wire \o a
    BY <1>2, <1>5, <1>8
  <2>2. /\ wire' \in Seq(CellType) /\ Len(wire') = Len(wire) + 2
        /\ \A i \in 1 .. Len(wire) : wire'[i] = wire[i]
        /\ wire'[Len(wire) + 1] = a[1]
    <3>1. /\ wire \o a \in Seq(CellType) /\ Len(wire \o a) = Len(wire) + Len(a)
          /\ \A i \in 1 .. Len(wire) : (wire \o a)[i] = wire[i]
          /\ \A i \in 1 .. Len(a) : (wire \o a)[Len(wire) + i] = a[i]
      BY <1>1, <1>4, Appended
    <3> QED
      BY <1>4, <2>1, <3>1
  <2>3. PICK p : p = Len(wire) + 1
    OBVIOUS
  <2>4. AnsweredAt(p)'
    <3>1. p \in 1 .. Len(wire') /\ \A q \in 1 .. p - 1 : q \in 1 .. Len(wire)
      BY <1>1, <2>2, <2>3
    <3>2. wire'[p].kind = "101"
      BY <1>4, <2>2, <2>3
    <3>3. \A q \in 1 .. p - 1 : wire'[q].kind # "101"
      BY <1>1, <2>2, <3>1
    <3> QED
      BY <3>1, <3>2, <3>3 DEF AnsweredAt
  <2>5. PICK b : b = [i \in 1 .. 1 |-> p + 2]
    OBVIOUS
  <2>6. p \in Nat /\ b \in [1 .. 1 -> Nat] /\ b[1] = p + 2 /\ b[1] - 2 = p
    BY <1>1, <2>3, <2>5
  <2>7. Len(written') = 0 /\ Len(written') + 1 = 1
    BY <1>1, <1>3
  <2>8. b[1] = Len(wire') + 1
    BY <1>1, <2>2, <2>3, <2>6
  <2>9. SentFrames(b)'
    BY <1>1, <1>3, <2>4, <2>6, <2>7, <2>8 DEF SentFrames
  <2> QED
    BY <1>3, <2>1, <2>9
<1> QED
  BY <1>6, <1>7, <1>8 DEF OutInv

(* So does a close: the head of its frame is the end to a client. *)
LEMMA ClosedKept ==
    ASSUME OutInv, writable, Out!Upgraded, NEW rest \in Seq({Out!Old}), whole => rest = <<>>,
           Out!Close(rest), UNCHANGED <<ws_flags, to_close, written>>
    PROVE  OutInv'
<1> DEFINE h == Out!Cell("head", [flags |-> {"CLOSE", "FIN"}, len |-> 2])
           head1 == <<h>>
           code == Out!Data(0, 4)
<1>1. /\ wire \in Seq(CellType) /\ Len(wire) \in Nat /\ written \in Seq(Nat) /\ Len(written) \in Nat
      /\ whole \in BOOLEAN
  BY LenProperties DEF OutInv, OutTyped
<1>2. PICK n \in 0 .. 1, k \in 0 .. 4 :
        /\ wire' = wire \o rest \o SubSeq(head1, 1, n) \o SubSeq(code, 1, k)
        /\ whole' = (whole /\ n = 1)
  BY DEF Out!Close
<1>3. writable' = FALSE /\ remaining' = <<>> /\ UNCHANGED <<ws_flags, to_close, written>>
  BY DEF Out!Close
<1>4. /\ head1 \in Seq(CellType) /\ Len(head1) = 1 /\ head1[1].kind = "head"
      /\ "CLOSE" \in head1[1].value.flags
  BY DEF Out!Cell, CellType
<1>5. code \in Seq(CellType) /\ Len(code) = 4
  BY DEF Out!Data, Out!Cell, CellType
<1>6. rest \in Seq(CellType)
  BY DEF Out!Old, Out!Cell, CellType
<1> HIDE DEF head1, code
<1>7. /\ SubSeq(head1, 1, n) \in Seq(CellType) /\ SubSeq(code, 1, k) \in Seq(CellType)
      /\ n = 1 => SubSeq(head1, 1, n) = head1
  BY <1>4, <1>5, CutTyped
<1>8. OutTyped'
  <2>1. wire' \in Seq(CellType)
    BY <1>1, <1>2, <1>6, <1>7, Appended
  <2>2. whole' \in BOOLEAN
    BY <1>2
  <2> QED
    BY <1>3, <2>1, <2>2, EmptySeq DEF OutInv, OutTyped, Out!Old, Out!Cell
<1>9. Out!Upgraded'
  BY <1>3 DEF Out!Upgraded
<1>10. ASSUME whole', ShortOnes' PROVE \E b : SentFrames(b)'
  <2>1. whole /\ n = 1 /\ rest = <<>> /\ ShortOnes
    BY <1>2, <1>3, <1>10 DEF ShortOnes
  <2>2. PICK b : SentFrames(b)
    BY <2>1 DEF OutInv
  <2>3. PICK x \in Seq(CellType) : wire' = wire \o x /\ Len(x) >= 1 /\ x[1] = head1[1]
    <3>1. PICK t \in Seq(CellType) : t = SubSeq(code, 1, k)
      BY <1>7
    <3>2. /\ head1 \o t \in Seq(CellType) /\ Len(head1 \o t) = Len(head1) + Len(t)
          /\ Len(t) \in Nat
          /\ \A i \in 1 .. Len(head1) : (head1 \o t)[i] = head1[i]
      BY <1>4, Appended
    <3>3. wire \o rest = wire
      BY <1>1, <2>1, ConcatEmptySeq
    <3>4. (wire \o head1) \o t = wire \o (head1 \o t)
      <4>1. wire \in Seq(CellType) /\ head1 \in Seq(CellType)
        BY <1>1, <1>4
      <4> QED
        BY <4>1, ConcatAssociative
    <3>5. wire' = wire \o (head1 \o t)
      BY <1>2, <1>7, <2>1, <3>1, <3>3, <3>4
    <3>6. Len(head1 \o t) >= 1 /\ (head1 \o t)[1] = head1[1]
      BY <1>4, <3>2
    <3> QED
      BY <3>2, <3>5, <3>6
  <2>4. /\ Len(wire') = Len(wire) + Len(x) /\ Len(x) \in Nat
        /\ \A i \in 1 .. Len(wire) : wire'[i] = wire[i]
        /\ \A i \in 1 .. Len(x) : wire'[Len(wire) + i] = x[i]
    BY <1>1, <2>3, Appended
  <2>5. b[Len(written) + 1] = Len(wire) + 1
    BY <2>2 DEF SentFrames
  <2>6. ClosedAt(b[Len(written) + 1])'
    <3>1. PICK p : p = Len(wire) + 1
      OBVIOUS
    <3>2. p \in 1 .. Len(wire') /\ wire'[p] = x[1]
      BY <1>1, <2>3, <2>4, <3>1
    <3>3. ClosedAt(p)'
      BY <1>4, <2>3, <3>2 DEF ClosedAt
    <3> QED
      BY <1>3, <2>5, <3>1, <3>3
  <2>7. AnsweredAt(b[1] - 2)'
    <3>1. PICK p : p = b[1] - 2
      OBVIOUS
    <3>2. AnsweredAt(p)
      BY <2>2, <3>1 DEF SentFrames
    <3>3. p \in 1 .. Len(wire) /\ p \in 1 .. Len(wire')
      BY <1>1, <2>4, <3>2 DEF AnsweredAt
    <3>4. \A q \in 1 .. p : wire'[q] = wire[q]
      BY <1>1, <2>4, <3>3
    <3>5. p \in 1 .. p /\ \A q \in 1 .. p - 1 : q \in 1 .. p
      BY <1>1, <3>3
    <3>6. wire'[p].kind = "101" /\ \A q \in 1 .. p - 1 : wire'[q].kind # "101"
      BY <3>2, <3>4, <3>5 DEF AnsweredAt
    <3>7. AnsweredAt(p)'
      BY <3>3, <3>6 DEF AnsweredAt
    <3> QED
      BY <3>1, <3>7
  <2>8. ASSUME NEW i \in 1 .. Len(written)
        PROVE  FrameAt(wire', b[i], b[i + 1], i, written[i]) /\ wire'[b[i]] = wire[b[i]]
    <3>1. FrameAt(wire, b[i], b[i + 1], i, written[i])
      BY <2>2 DEF SentFrames
    <3>2. PICK p, q, l : p = b[i] /\ q = b[i + 1] /\ l = written[i]
      OBVIOUS
    <3>3. FrameAt(wire, p, q, i, l)
      BY <3>1, <3>2
    <3>4. FrameAt(wire', p, q, i, l) /\ wire'[p] = wire[p]
      <4>1. Small \in Nat
        BY OutAssumption DEF OutAssumption
      <4>2. FrameAt(wire \o x, p, q, i, l) /\ (wire \o x)[p] = wire[p]
        BY <1>1, <3>3, <4>1, FrameStays
      <4> QED
        BY <2>3, <4>2
    <3> QED
      BY <3>2, <3>4
  <2>9. SentFrames(b)'
    BY <1>3, <2>2, <2>6, <2>7, <2>8 DEF SentFrames
  <2> QED
    BY <2>9
<1> QED
  BY <1>3, <1>8, <1>9, <1>10 DEF OutInv

(* So does a flush, which finds nothing kept after an answer that went out  *)
(* whole.                                                                   *)
LEMMA FlushedKept ==
    ASSUME OutInv, Out!Flush
    PROVE  OutInv'
<1>1. /\ wire \in Seq(CellType) /\ Len(wire) \in Nat /\ remaining \in Seq({Out!Old})
      /\ remaining # <<>> /\ writable /\ UNCHANGED <<ws_flags, to_close, written>>
  BY LenProperties DEF OutInv, OutTyped, Out!Flush
<1>2. whole => ~Out!Upgraded
  BY <1>1 DEF OutInv
<1>3. remaining \in Seq(CellType) /\ \A i \in 1 .. Len(remaining) : remaining[i] = Out!Old
  <2>1. \A i \in 1 .. Len(remaining) : remaining[i] \in {Out!Old}
    BY <1>1, ElementOfSeq
  <2> QED
    BY <1>1, <2>1 DEF Out!Old, Out!Cell, CellType
<1>4. CASE Out!Upgraded /\ Out!Close(remaining)
  BY <1>1, <1>2, <1>4, ClosedKept
<1>5. ASSUME NEW n \in 1 .. Len(remaining),
             wire' = wire \o SubSeq(remaining, 1, n),
             remaining' \in Seq({Out!Old}), writable' \in BOOLEAN, whole' = whole
      PROVE  OutInv'
  <2> DEFINE x == SubSeq(remaining, 1, n)
  <2>1. Len(remaining) \in Nat
    BY <1>1, LenProperties
  <2>2. x \in Seq(CellType) /\ x \in Seq({Out!Old})
    BY <1>1, <1>3, <2>1, CutTyped
  <2>3. \A i \in 1 .. Len(x) : x[i] = Out!Old
    <3>1. \A i \in 1 .. Len(x) : x[i] \in {Out!Old}
      BY <2>2, ElementOfSeq
    <3> QED
      BY <3>1
  <2> HIDE DEF x
  <2>4. /\ wire' \in Seq(CellType) /\ Len(wire') = Len(wire) + Len(x) /\ Len(x) \in Nat
        /\ \A i \in 1 .. Len(wire) : wire'[i] = wire[i]
        /\ \A i \in 1 .. Len(x) : wire'[Len(wire) + i] = x[i]
    BY <1>1, <1>5, <2>2, Appended DEF x
  <2>5. OutTyped'
    BY <1>1, <1>5, <2>4 DEF OutInv, OutTyped, Out!Old, Out!Cell
  <2>6. ASSUME ~Out!Upgraded'
        PROVE  written' = <<>> /\ \A q \in 1 .. Len(wire') : wire'[q].kind # "101"
    <3>1. written = <<>> /\ \A q \in 1 .. Len(wire) : wire[q].kind # "101"
      BY <1>1, <2>6 DEF OutInv, Out!Upgraded
    <3>2. ASSUME NEW q \in 1 .. Len(wire'), q > Len(wire) PROVE wire'[q].kind # "101"
      <4>1. q - Len(wire) \in 1 .. Len(x) /\ Len(wire) + (q - Len(wire)) = q
        BY <1>1, <2>4, <3>2
      <4>2. wire'[q] = Out!Old
        BY <2>3, <2>4, <4>1
      <4> QED
        BY <4>2 DEF Out!Old, Out!Cell
    <3>3. ASSUME NEW q \in 1 .. Len(wire'), ~(q > Len(wire)) PROVE wire'[q].kind # "101"
      <4>1. q \in 1 .. Len(wire)
        BY <1>1, <3>3
      <4> QED
        BY <2>4, <3>1, <4>1
    <3> QED
      BY <1>1, <3>1, <3>2, <3>3
  <2>7. ~(whole' /\ Out!Upgraded')
    BY <1>1, <1>2, <1>5 DEF Out!Upgraded
  <2> QED
    BY <2>5, <2>6, <2>7 DEF OutInv
<1>6. PICK n \in 1 .. Len(remaining) :
        IF n = Len(remaining) /\ to_close
        THEN IF Out!Upgraded THEN Out!Close(remaining)
             ELSE /\ wire' = wire \o remaining
                  /\ writable' = FALSE /\ remaining' = <<>> /\ UNCHANGED whole
        ELSE /\ wire' = wire \o SubSeq(remaining, 1, n)
             /\ remaining' = SubSeq(remaining, n + 1, Len(remaining))
             /\ UNCHANGED <<writable, whole>>
  BY DEF Out!Flush
<1>7. CASE n = Len(remaining) /\ to_close /\ ~Out!Upgraded
  <2>1. SubSeq(remaining, 1, n) = remaining
    BY <1>1, <1>7, LenProperties, CutTyped
  <2> QED
    BY <1>5, <1>6, <1>7, <2>1, EmptySeq
<1>8. CASE ~(n = Len(remaining) /\ to_close)
  <2>1. remaining' \in Seq({Out!Old})
    <3>1. Len(remaining) \in Nat /\ \A i \in n + 1 .. Len(remaining) : remaining[i] \in {Out!Old}
      BY <1>1, <1>3, LenProperties
    <3>2. remaining' = SubSeq(remaining, n + 1, Len(remaining))
      BY <1>6, <1>8
    <3>3. n + 1 \in Int /\ Len(remaining) \in Int
      BY <3>1
    <3>4. SubSeq(remaining, n + 1, Len(remaining)) \in Seq({Out!Old})
      BY <3>1, <3>3, SubSeqProperties
    <3> QED
      BY <3>2, <3>4
  <2> QED
    BY <1>1, <1>5, <1>6, <1>8, <2>1
<1> QED
  BY <1>4, <1>6, <1>7, <1>8

-----------------------------------------------------------------------------
OutStays == way = "out" => OutInv

(* As long as every call says that it has sent its frame, and no message is *)
(* as long as 1 << 16, a client reads the messages that ws_write and        *)
(* ws_printf were given, one by one and in order, for messages of any       *)
(* lengths, any number of them, and whatever the kernel takes of each; and  *)
(* each is a whole message as long as ws_printf has not been used.          *)
THEOREM ClientReadsAll == MCSpec => []ClientReads
<1>1. MCInit => OutStays
  <2> SUFFICES ASSUME Out!Init PROVE OutInv
    BY DEF MCInit, OutStays
  <2>1. /\ ws_flags = {"none"} /\ remaining \in {<<>>, <<Out!Old, Out!Old>>}
        /\ to_close \in BOOLEAN /\ writable = TRUE /\ wire = <<>> /\ written = <<>> /\ whole = TRUE
    BY DEF Out!Init
  <2>2. remaining \in Seq({Out!Old})
    <3>1. <<>> \in Seq({Out!Old}) /\ <<Out!Old, Out!Old>> \in Seq({Out!Old})
      OBVIOUS
    <3> QED
      BY <2>1, <3>1
  <2>3. wire \in Seq(CellType) /\ written \in Seq(Nat) /\ Len(wire) = 0
    BY <2>1, EmptySeq
  <2> QED
    BY <2>1, <2>2, <2>3 DEF OutInv, OutTyped, Out!Upgraded
<1>2. OutStays /\ [MCNext]_<<way, out, vars>> => OutStays'
  <2> SUFFICES ASSUME way = "out", OutInv, [MCNext]_<<way, out, vars>>, way' = "out" PROVE OutInv'
    BY DEF OutStays, MCNext, vars
  <2>1. CASE UNCHANGED out
    BY <2>1 DEF out, OutInv, OutTyped, Out!Upgraded, ShortOnes, SentFrames, AnsweredAt, ClosedAt
  <2>2. CASE Out!WsInit
    BY <2>2, AnsweredKept
  <2>3. CASE Out!AxilClose
    BY <2>3, ClosedKept, EmptySeq DEF Out!AxilClose
  <2>4. CASE Out!Flush
    BY <2>4, FlushedKept
  <2>5. ASSUME NEW n \in Lengths, Out!WsWrite(n) PROVE OutInv'
    BY <2>5, OutAssumption, WrittenKept DEF Out!WsWrite
  <2>6. ASSUME NEW n \in Lengths, Out!WsPrintf(n) PROVE OutInv'
    <3>1. ws_flags' = {}
      BY <2>6 DEF Out!WsPrintf
    <3> QED
      BY <2>6, <3>1, OutAssumption, WrittenKept DEF Out!WsPrintf
  <2> QED
    BY <2>1, <2>2, <2>3, <2>4, <2>5, <2>6 DEF MCNext, Out!Next, out
<1>3. OutStays => ClientReads
  BY OutAssumption, SentFramesAreRead DEF OutStays, ClientReads, OutAssumption
<1> QED
  BY <1>1, <1>2, <1>3, PTL DEF MCSpec
=============================================================================
