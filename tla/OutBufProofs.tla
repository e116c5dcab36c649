---------------------------- MODULE OutBufProofs ----------------------------
(***************************************************************************)
(* Theorems about OutBuf, for every block size, every set of handlers and  *)
(* every bound on requests.  IndInv is the inductive invariant: the type   *)
(* invariant, the bounds of the block and the order of the stream, and     *)
(* what each program point may rely on (ControlOK).  One lemma per action  *)
(* shows that it is preserved.                                             *)
(***************************************************************************)
EXTENDS MCOutBufAll, TLAPS, SequenceTheorems

ControlOK ==
    /\ pc \notin {"grow", "store"} => pending = 0
    /\ pc \in {"grow", "store", "flush"} => open
    /\ pc = "flush" => remaining_len > 0
    /\ pc = "grow" => remaining_off = 0
    /\ open => remaining_size >= InitSize

IndInv == TypeOK /\ InBounds /\ StreamOrder /\ ControlOK
-----------------------------------------------------------------------------
(* Appending a table of n numbers to a sequence of numbers. *)
LEMMA AppendTable ==
    ASSUME NEW s \in Seq(Nat), NEW n \in Nat, NEW f \in [1 .. n -> Nat]
    PROVE  /\ s \o f \in Seq(Nat)
           /\ Len(s \o f) = Len(s) + n
           /\ \A i \in 1 .. Len(s) : (s \o f)[i] = s[i]
           /\ \A i \in Len(s) + 1 .. Len(s) + n : (s \o f)[i] = f[i - Len(s)]
<1>1. f \in Seq(Nat) /\ Len(f) = n
  OBVIOUS
<1>2. QED
  BY <1>1, ConcatProperties

(* A sequence that counts 1, 2, 3, ... goes on counting when the table that  *)
(* is appended does.                                                         *)
LEMMA CountsOn ==
    ASSUME NEW s \in Seq(Nat), NEW n \in Nat, NEW f \in [1 .. n -> Nat],
           \A i \in 1 .. Len(s) : s[i] = i,
           \A i \in 1 .. n : f[i] = Len(s) + i
    PROVE  /\ s \o f \in Seq(Nat)
           /\ Len(s \o f) = Len(s) + n
           /\ \A i \in 1 .. Len(s \o f) : (s \o f)[i] = i
<1>1. /\ s \o f \in Seq(Nat)
      /\ Len(s \o f) = Len(s) + n
      /\ Len(s) \in Nat
  BY AppendTable, LenProperties
<1>2. ASSUME NEW i \in 1 .. Len(s \o f) PROVE (s \o f)[i] = i
  <2>1. CASE i <= Len(s)
    BY <1>1, <2>1, AppendTable
  <2>2. CASE i > Len(s)
    <3>1. i \in Len(s) + 1 .. Len(s) + n /\ i - Len(s) \in 1 .. n
      BY <1>1, <2>2
    <3>2. (s \o f)[i] = f[i - Len(s)]
      BY <3>1, AppendTable
    <3>3. QED
      BY <1>1, <3>1, <3>2
  <2>3. QED
    BY <1>1, <2>1, <2>2
<1>3. QED
  BY <1>1, <1>2

(* The call a handler is about to make, and those it makes afterwards. *)
LEMMA CurrentCall ==
    ASSUME TypeOK, NEW op, Calling(op)
    PROVE  /\ Head(calls) \in Call
           /\ Head(calls).n \in Nat
           /\ Tail(calls) \in Seq(Call)
<1>1. Head(calls) \in Call /\ Tail(calls) \in Seq(Call)
  BY DEF Calling, TypeOK
<1>2. QED
  BY <1>1 DEF Call
-----------------------------------------------------------------------------
LEMMA InitInd == Init => IndInv
BY OutBufAssumption DEF Init, IndInv, TypeOK, InBounds, StreamOrder, ControlOK, NoByte

(* axil_close, from wherever it is called, in a step that leaves the wire    *)
(* counting.                                                                 *)
LEMMA CloseInd ==
    ASSUME IndInv, NEW dropped \in Nat, Close(dropped), pc' \in {"loop", "handler"},
           calls' \in Seq(Call), requests' \in Nat, UNCHANGED <<peer, written>>,
           wire' \in Seq(Nat), \A i \in 1 .. Len(wire') : wire'[i] = i
    PROVE  IndInv'
<1>1. TypeOK'
  <2>1. open' \in BOOLEAN /\ to_close' \in BOOLEAN
    BY DEF Close
  <2>2. cut' \in BOOLEAN
    BY DEF Close
  <2>3. remaining' \in [0 .. remaining_size' - 1 -> Nat]
    BY DEF Close, NoByte
  <2>4. QED
    BY <2>1, <2>2, <2>3 DEF Close, IndInv, TypeOK
<1>2. InBounds' /\ StreamOrder' /\ ControlOK'
  BY DEF Close, InBounds, StreamOrder, ControlOK
<1>3. QED
  BY <1>1, <1>2 DEF IndInv

LEMMA AcceptInd == IndInv /\ Accept => IndInv'
<1> SUFFICES ASSUME IndInv, Accept PROVE IndInv'
  OBVIOUS
<1>1. TypeOK'
  <2>1. open' \in BOOLEAN /\ to_close' \in BOOLEAN /\ cut' \in BOOLEAN
    BY DEF Accept
  <2>2. remaining' \in [0 .. remaining_size' - 1 -> Nat]
    BY OutBufAssumption DEF Accept, NoByte
  <2>3. QED
    BY <2>1, <2>2, OutBufAssumption DEF Accept, IndInv, TypeOK
<1>2. InBounds' /\ StreamOrder' /\ ControlOK'
  BY OutBufAssumption DEF Accept, InBounds, StreamOrder, ControlOK
<1>3. QED
  BY <1>1, <1>2 DEF IndInv

LEMMA RequestInd == IndInv /\ Request => IndInv'
BY OutBufAssumption DEF Request, HandlerType, buffer, IndInv, TypeOK, InBounds,
   StreamOrder, ControlOK

LEMMA ReadEofInd == IndInv /\ ReadEof => IndInv'
<1> SUFFICES ASSUME IndInv, ReadEof PROVE IndInv'
  OBVIOUS
<1>1. /\ remaining_len \in Nat
      /\ pc' \in {"loop", "handler"} /\ calls' \in Seq(Call) /\ requests' \in Nat
      /\ wire' \in Seq(Nat)
      /\ \A i \in 1 .. Len(wire') : wire'[i] = i
      /\ UNCHANGED <<peer, written>>
  BY DEF ReadEof, IndInv, TypeOK, StreamOrder
<1>2. QED
  BY <1>1, CloseInd DEF ReadEof

LEMMA WriteDirectInd == IndInv /\ WriteDirect => IndInv'
<1> SUFFICES ASSUME IndInv, WriteDirect PROVE IndInv'
  OBVIOUS
<1> DEFINE n == Head(calls).n
<1>0. TypeOK /\ InBounds /\ StreamOrder /\ ControlOK
  BY DEF IndInv
<1>1. n \in Nat /\ Tail(calls) \in Seq(Call) /\ remaining_len = 0 /\ pending = 0
  BY <1>0, CurrentCall DEF WriteDirect, Calling, ControlOK
<1>2. PICK ret \in LowerWrite(n) :
        IF ret = FATAL
        THEN /\ cut' = (cut \/ n > 0)
             /\ pc' = "handler"
             /\ UNCHANGED <<pending, wire, written>>
        ELSE /\ wire' = wire \o Bytes(written, ret)
             /\ written' = written + n
             /\ pending' = n - ret
             /\ pc' = IF ret = n THEN "handler"
                      ELSE IF remaining_size - remaining_off >= n - ret THEN "store"
                      ELSE "grow"
             /\ UNCHANGED cut
  BY DEF WriteDirect
<1>3. /\ calls' = Tail(calls)
      /\ UNCHANGED <<open, to_close, remaining, remaining_size, remaining_off,
                     remaining_len, requests, peer>>
  BY DEF WriteDirect
<1>4. CASE ret = FATAL
  <2>1. cut' \in BOOLEAN
    BY <1>0, <1>2, <1>4 DEF TypeOK
  <2>2. TypeOK'
    BY <1>0, <1>1, <1>2, <1>3, <1>4, <2>1 DEF TypeOK
  <2>3. InBounds' /\ StreamOrder' /\ ControlOK'
    BY <1>0, <1>1, <1>2, <1>3, <1>4 DEF InBounds, StreamOrder, ControlOK
  <2>4. QED
    BY <2>2, <2>3 DEF IndInv
<1>5. CASE ret # FATAL
  <2>1. open /\ ret \in 0 .. n
    BY <1>2, <1>5 DEF LowerWrite
  <2>2. /\ wire' = wire \o Bytes(written, ret)
        /\ written' = written + n
        /\ pending' = n - ret
        /\ pc' = IF ret = n THEN "handler"
                 ELSE IF remaining_size - remaining_off >= n - ret THEN "store"
                 ELSE "grow"
        /\ UNCHANGED cut
    BY <1>2, <1>5
  <2>3. written = Len(wire) /\ Len(wire) \in Nat /\ remaining_off = 0
    BY <1>0, <1>1, <2>1 DEF TypeOK, InBounds, StreamOrder
  <2>4. /\ Bytes(written, ret) \in [1 .. ret -> Nat]
        /\ \A i \in 1 .. ret : Bytes(written, ret)[i] = Len(wire) + i
    BY <2>1, <2>3 DEF Bytes
  <2>5. /\ wire' \in Seq(Nat)
        /\ Len(wire') = Len(wire) + ret
        /\ \A i \in 1 .. Len(wire') : wire'[i] = i
    <3>1. /\ wire \in Seq(Nat) /\ ret \in Nat
          /\ \A i \in 1 .. Len(wire) : wire[i] = i
      BY <1>0, <2>1 DEF TypeOK, StreamOrder
    <3>2. QED
      BY <2>2, <2>4, <3>1, CountsOn
  <2>a. /\ pending' \in Nat /\ written' \in Nat
        /\ pc' \in {"handler", "store", "grow"}
        /\ pc' = "handler" => pending' = 0
        /\ pc' = "store" => remaining_size - remaining_off >= pending'
    BY <1>0, <1>1, <2>1, <2>2, <2>3 DEF TypeOK
  <2>6. TypeOK'
    BY <1>0, <1>1, <1>3, <2>2, <2>5, <2>a DEF TypeOK
  <2>7. InBounds'
    BY <1>0, <1>1, <1>3, <2>1, <2>2, <2>3 DEF TypeOK, InBounds, Need
  <2>b. written' = Len(wire') + pending' /\ remaining_len' = 0
    <3>1. written' = written + n /\ pending' = n - ret /\ remaining_len' = 0
      BY <1>1, <1>3, <2>2
    <3>2. n \in Nat /\ ret \in 0 .. n
      BY <1>1, <2>1
    <3>3. Len(wire') = Len(wire) + ret
      BY <2>5
    <3>4. QED
      BY <2>3, <3>1, <3>2, <3>3
  <2>8. StreamOrder'
    BY <2>5, <2>6, <2>b DEF TypeOK, StreamOrder
  <2>9. ControlOK'
    BY <1>0, <1>1, <1>3, <2>1, <2>3, <2>a DEF ControlOK
  <2>10. QED
    BY <2>6, <2>7, <2>8, <2>9 DEF IndInv
<1>6. QED
  BY <1>4, <1>5

LEMMA WriteBehindInd == IndInv /\ WriteBehind => IndInv'
<1> SUFFICES ASSUME IndInv, WriteBehind PROVE IndInv'
  OBVIOUS
<1> DEFINE n == Head(calls).n
<1>0. TypeOK /\ InBounds /\ StreamOrder /\ ControlOK
  BY DEF IndInv
<1>1. n \in Nat /\ Tail(calls) \in Seq(Call) /\ remaining_len > 0 /\ pending = 0 /\ open
  BY <1>0, CurrentCall DEF WriteBehind, Calling, ControlOK, InBounds, TypeOK
<1>2. /\ pending' = n /\ written' = written + n /\ calls' = Tail(calls)
      /\ UNCHANGED <<open, to_close, remaining_size, remaining_len, requests,
                     peer, wire, cut>>
  BY DEF WriteBehind
<1>3. CASE FitsTail(n)
  <2>1. UNCHANGED <<remaining, remaining_off>> /\ pc' = "store"
    BY <1>3 DEF WriteBehind
  <2>2. TypeOK'
    BY <1>0, <1>1, <1>2, <2>1 DEF TypeOK
  <2>3. InBounds'
    BY <1>0, <1>1, <1>2, <1>3, <2>1 DEF TypeOK, InBounds, FitsTail, Need
  <2>4. StreamOrder'
    BY <1>0, <1>1, <1>2, <2>1 DEF TypeOK, StreamOrder
  <2>5. ControlOK'
    BY <1>0, <1>1, <1>2, <2>1 DEF ControlOK
  <2>6. QED
    BY <2>2, <2>3, <2>4, <2>5 DEF IndInv
<1>4. CASE ~FitsTail(n)
  <2>1. /\ remaining' = Compacted
        /\ remaining_off' = 0
        /\ pc' = IF remaining_off > 0 /\ remaining_size - remaining_len >= n
                 THEN "store" ELSE "grow"
    BY <1>4 DEF WriteBehind
  <2>2. /\ Compacted \in [0 .. remaining_size - 1 -> Nat]
        /\ \A i \in 0 .. remaining_len - 1 : Compacted[i] = remaining[remaining_off + i]
    BY <1>0 DEF Compacted, TypeOK, InBounds
  <2>3. TypeOK'
    BY <1>0, <1>1, <1>2, <2>1, <2>2 DEF TypeOK
  <2>4. InBounds'
    BY <1>0, <1>1, <1>2, <2>1 DEF TypeOK, InBounds, Need
  <2>5. StreamOrder'
    <3>1. written' = Len(wire') + remaining_len' + pending'
      BY <1>0, <1>1, <1>2 DEF TypeOK, StreamOrder
    <3>2. \A i \in 0 .. remaining_len' - 1 :
            remaining'[remaining_off' + i] = Len(wire') + i + 1
      <4>1. remaining_len' = remaining_len /\ Len(wire') = Len(wire)
        BY <1>2
      <4>2. \A i \in 0 .. remaining_len - 1 : Compacted[i] = Len(wire) + i + 1
        BY <1>0, <2>2 DEF StreamOrder
      <4>3. QED
        BY <1>0, <2>1, <4>1, <4>2 DEF TypeOK
    <3>3. QED
      BY <1>0, <1>2, <3>1, <3>2 DEF StreamOrder
  <2>6. ControlOK'
    BY <1>0, <1>1, <1>2, <2>1 DEF ControlOK
  <2>7. QED
    BY <2>3, <2>4, <2>5, <2>6 DEF IndInv
<1>5. QED
  BY <1>3, <1>4

LEMMA DoubleInd == IndInv /\ Double => IndInv'
BY OutBufAssumption DEF Double, GrowTo, Need, NoByte, IndInv, TypeOK, InBounds, StreamOrder, ControlOK

LEMMA StoreInd == IndInv /\ Store => IndInv'
<1> SUFFICES ASSUME IndInv, Store PROVE IndInv'
  OBVIOUS
<1> DEFINE at == IF remaining_len = 0 THEN 0 ELSE remaining_off + remaining_len
<1>0. TypeOK /\ InBounds /\ StreamOrder /\ ControlOK
  BY DEF IndInv
<1>1. /\ at = remaining_off + remaining_len /\ at \in Nat
      /\ at + pending <= remaining_size
      /\ open
      /\ written = Len(wire) + remaining_len + pending
      /\ Len(wire) \in Nat
  BY <1>0 DEF Store, TypeOK, InBounds, StreamOrder, ControlOK, Need
<1>2. /\ remaining' = [i \in 0 .. remaining_size - 1 |->
                          IF at <= i /\ i < at + pending
                          THEN written - pending + (i - at) + 1
                          ELSE remaining[i]]
      /\ remaining_off' = remaining_off
      /\ remaining_len' = remaining_len + pending
      /\ pending' = 0
      /\ pc' = IF remaining_len = 0 THEN "handler" ELSE "flush"
      /\ UNCHANGED <<open, to_close, remaining_size, calls, requests, peer, wire,
                     written, cut>>
  BY <1>0 DEF Store, InBounds
<1> HIDE DEF at
<1>3. remaining' \in [0 .. remaining_size' - 1 -> Nat]
  BY <1>0, <1>1, <1>2 DEF TypeOK
<1>4. TypeOK'
  BY <1>0, <1>2, <1>3 DEF TypeOK
<1>5. InBounds'
  BY <1>0, <1>1, <1>2 DEF TypeOK, InBounds
<1>6. StreamOrder'
  <2>1. ASSUME NEW i \in 0 .. remaining_len + pending - 1
        PROVE  remaining'[remaining_off + i] = Len(wire) + i + 1
    <3>1. /\ remaining_off + i \in 0 .. remaining_size - 1
          /\ remaining_off \in Nat /\ remaining_len \in Nat /\ pending \in Nat
          /\ i \in Int
      BY <1>0, <1>1 DEF TypeOK
    <3>2. CASE i < remaining_len
      <4>1. i \in 0 .. remaining_len - 1 /\ ~(at <= remaining_off + i)
        BY <1>1, <3>1, <3>2
      <4>2. remaining'[remaining_off + i] = remaining[remaining_off + i]
        BY <1>2, <3>1, <4>1
      <4>3. QED
        BY <1>0, <4>1, <4>2 DEF StreamOrder
    <3>3. CASE i >= remaining_len
      <4>1. at <= remaining_off + i /\ remaining_off + i < at + pending
        BY <1>1, <3>1, <3>3
      <4>2. remaining'[remaining_off + i] = written - pending + ((remaining_off + i) - at) + 1
        BY <1>2, <3>1, <4>1
      <4>3. QED
        BY <1>1, <3>1, <4>2
    <3>4. QED
      BY <3>1, <3>2, <3>3
  <2>2. written' = Len(wire') + remaining_len' + pending'
    BY <1>0, <1>1, <1>2 DEF TypeOK
  <2>3. \A i \in 0 .. remaining_len' - 1 :
          remaining'[remaining_off' + i] = Len(wire') + i + 1
    <3>1. /\ remaining_len' = remaining_len + pending
          /\ remaining_off' = remaining_off
          /\ Len(wire') = Len(wire)
      BY <1>2
    <3>2. ASSUME NEW i \in 0 .. remaining_len' - 1
          PROVE  remaining'[remaining_off' + i] = Len(wire') + i + 1
      <4>1. i \in 0 .. remaining_len + pending - 1
        BY <1>0, <3>1 DEF TypeOK
      <4>2. remaining'[remaining_off + i] = Len(wire) + i + 1
        BY <2>1, <4>1
      <4>3. QED
        BY <3>1, <4>2
    <3>3. QED
      BY <3>2
  <2>4. QED
    BY <1>0, <1>2, <2>2, <2>3 DEF StreamOrder
<1>7. ControlOK'
  BY <1>0, <1>1, <1>2 DEF TypeOK, ControlOK, Store
<1>8. QED
  BY <1>4, <1>5, <1>6, <1>7 DEF IndInv

LEMMA WriteRemainingInd == IndInv /\ WriteRemaining => IndInv'
<1> SUFFICES ASSUME IndInv, WriteRemaining PROVE IndInv'
  OBVIOUS
<1>0. TypeOK /\ InBounds /\ StreamOrder /\ ControlOK
  BY DEF IndInv
<1> DEFINE taken(ret) == IF ret = FATAL THEN 0 ELSE ret
           chunk(ret) == [i \in 1 .. taken(ret) |-> remaining[remaining_off + i - 1]]
<1>1. PICK ret \in LowerWrite(remaining_len) :
        /\ wire' = wire \o chunk(ret)
        /\ IF ret = FATAL \/ DrainCloses(taken(ret))
           THEN Close(remaining_len - taken(ret))
           ELSE /\ remaining_len' = remaining_len - taken(ret)
                /\ remaining_off' = IF taken(ret) = remaining_len THEN 0
                                    ELSE remaining_off + taken(ret)
                /\ KeepOpen
                /\ UNCHANGED to_close
  BY DEF WriteRemaining
<1>2. /\ pc' \in {"loop", "handler"}
      /\ UNCHANGED <<calls, requests, peer, written>>
      /\ remaining_len > 0 /\ pending = 0 /\ open
  BY <1>0 DEF WriteRemaining, ControlOK, InBounds, TypeOK
<1> DEFINE k == taken(ret)
<1>3. k \in 0 .. remaining_len /\ Len(wire) \in Nat
  BY <1>0, <1>1 DEF LowerWrite, FATAL, TypeOK
<1>4. /\ chunk(ret) \in [1 .. k -> Nat]
      /\ \A i \in 1 .. k : chunk(ret)[i] = Len(wire) + i
  <2>1. ASSUME NEW i \in 1 .. k
        PROVE  remaining[remaining_off + i - 1] = Len(wire) + i
    <3>1. i - 1 \in 0 .. remaining_len - 1 /\ remaining_off + i - 1 = remaining_off + (i - 1)
      BY <1>0, <1>3 DEF TypeOK
    <3>2. QED
      BY <1>0, <1>3, <3>1 DEF StreamOrder
  <2>2. QED
    BY <1>3, <2>1
<1> HIDE DEF k, chunk
<1>5. /\ wire' \in Seq(Nat)
      /\ Len(wire') = Len(wire) + k
      /\ \A i \in 1 .. Len(wire') : wire'[i] = i
  <2>1. /\ wire \in Seq(Nat) /\ k \in Nat
        /\ \A i \in 1 .. Len(wire) : wire[i] = i
    BY <1>0, <1>3 DEF TypeOK, StreamOrder
  <2>2. QED
    BY <1>1, <1>4, <2>1, CountsOn
<1>6. CASE ret = FATAL \/ DrainCloses(k)
  <2>1. Close(remaining_len - k) /\ remaining_len - k \in Nat
    BY <1>0, <1>1, <1>3, <1>6 DEF k, TypeOK
  <2>2. calls' \in Seq(Call) /\ requests' \in Nat
    BY <1>0, <1>2 DEF TypeOK
  <2>3. QED
    BY <1>2, <1>5, <2>1, <2>2, CloseInd
<1>7. CASE ~(ret = FATAL \/ DrainCloses(k))
  <2>1. /\ remaining_len' = remaining_len - k
        /\ remaining_off' = IF k = remaining_len THEN 0 ELSE remaining_off + k
        /\ UNCHANGED <<open, to_close, remaining, remaining_size, pending, cut>>
    BY <1>1, <1>7 DEF k, KeepOpen
  <2>2. TypeOK'
    BY <1>0, <1>2, <1>3, <1>5, <2>1 DEF TypeOK
  <2>3. InBounds'
    BY <1>0, <1>2, <1>3, <2>1 DEF TypeOK, InBounds
  <2>4. StreamOrder'
    <3>1. ASSUME NEW i \in 0 .. remaining_len' - 1
          PROVE  remaining'[remaining_off' + i] = Len(wire') + i + 1
      <4>1. /\ k + i \in 0 .. remaining_len - 1
            /\ remaining_off' + i = remaining_off + (k + i)
        BY <1>0, <1>3, <2>1 DEF TypeOK
      <4>2. QED
        BY <1>0, <1>3, <1>5, <2>1, <4>1 DEF StreamOrder
    <3>2. QED
      BY <1>0, <1>2, <1>3, <1>5, <2>1, <3>1 DEF TypeOK, StreamOrder
  <2>5. ControlOK'
    BY <1>0, <1>2, <2>1 DEF ControlOK
  <2>6. QED
    BY <2>2, <2>3, <2>4, <2>5 DEF IndInv
<1>8. QED
  BY <1>6, <1>7

LEMMA RespondInd == IndInv /\ Respond => IndInv'
<1> SUFFICES ASSUME IndInv, Respond PROVE IndInv'
  OBVIOUS
<1>0. TypeOK /\ InBounds /\ StreamOrder /\ ControlOK
  BY DEF IndInv
<1>1. /\ calls' \in Seq(Call) /\ requests' \in Nat /\ wire' \in Seq(Nat)
      /\ \A i \in 1 .. Len(wire') : wire'[i] = i
      /\ UNCHANGED <<requests, peer, wire, written>>
  BY <1>0, CurrentCall DEF Respond, TypeOK, StreamOrder
<1>2. CASE remaining_len = 0
  BY <1>1, <1>2, CloseInd DEF Respond
<1>3. CASE remaining_len # 0
  <2>1. /\ to_close' = TRUE /\ pc' = "flush"
        /\ UNCHANGED <<open, remaining, remaining_size, remaining_off, remaining_len,
                       pending, cut>>
        /\ pending = 0 /\ remaining_len > 0 /\ open
    BY <1>0, <1>3 DEF Respond, KeepOpen, Calling, ControlOK, InBounds, TypeOK
  <2>2. TypeOK'
    BY <1>0, <1>1, <2>1 DEF TypeOK
  <2>3. InBounds' /\ StreamOrder' /\ ControlOK'
    BY <1>0, <1>1, <2>1 DEF InBounds, StreamOrder, ControlOK
  <2>4. QED
    BY <2>2, <2>3 DEF IndInv
<1>4. QED
  BY <1>2, <1>3

LEMMA StaticEndInd == IndInv /\ StaticEnd => IndInv'
<1> SUFFICES ASSUME IndInv, StaticEnd PROVE IndInv'
  OBVIOUS
<1>0. TypeOK /\ InBounds /\ StreamOrder /\ ControlOK
  BY DEF IndInv
<1>1. /\ calls' \in Seq(Call) /\ requests' \in Nat /\ wire' \in Seq(Nat)
      /\ \A i \in 1 .. Len(wire') : wire'[i] = i
      /\ UNCHANGED <<requests, peer, wire, written>>
      /\ pc' = "handler"
  BY <1>0, CurrentCall DEF StaticEnd, TypeOK, StreamOrder
<1>2. CASE to_close /\ remaining_len = 0
  BY <1>1, <1>2, CloseInd DEF StaticEnd
<1>3. CASE ~(to_close /\ remaining_len = 0)
  <2>1. /\ UNCHANGED <<open, to_close, remaining, remaining_size, remaining_off,
                       remaining_len, pending, cut>>
        /\ pending = 0
    BY <1>0, <1>3 DEF StaticEnd, KeepOpen, Calling, ControlOK
  <2>2. TypeOK'
    BY <1>0, <1>1, <2>1 DEF TypeOK
  <2>3. InBounds' /\ StreamOrder' /\ ControlOK'
    BY <1>0, <1>1, <2>1 DEF InBounds, StreamOrder, ControlOK
  <2>4. QED
    BY <2>2, <2>3 DEF IndInv
<1>4. QED
  BY <1>2, <1>3

(* The steps that touch neither the block nor the wire. *)
LEMMA QuietInd == IndInv /\ (Return \/ PeerGone \/ Grown \/ Spin \/ UNCHANGED vars) => IndInv'
<1> SUFFICES ASSUME IndInv, Return \/ PeerGone \/ Grown \/ Spin \/ UNCHANGED vars
             PROVE  IndInv'
  OBVIOUS
<1>0. TypeOK /\ InBounds /\ StreamOrder /\ ControlOK
  BY DEF IndInv
<1>1. CASE Return
  BY <1>0, <1>1 DEF Return, buffer, IndInv, TypeOK, InBounds, StreamOrder, ControlOK
<1>2. CASE PeerGone
  BY <1>0, <1>2 DEF PeerGone, buffer, Need, IndInv, TypeOK, InBounds, StreamOrder, ControlOK
<1>3. CASE Grown
  BY <1>0, <1>3 DEF Grown, buffer, Need, IndInv, TypeOK, InBounds, StreamOrder, ControlOK
<1>4. CASE Spin \/ UNCHANGED vars
  <2>1. UNCHANGED <<open, to_close, remaining, remaining_size, remaining_off,
                    remaining_len, pending, pc, calls, requests, peer, wire,
                    written, cut>>
    BY <1>4 DEF Spin, vars, buffer
  <2>2. TypeOK'
    BY <1>0, <2>1 DEF TypeOK
  <2>3. InBounds' /\ StreamOrder' /\ ControlOK'
    BY <1>0, <2>1 DEF InBounds, StreamOrder, ControlOK, Need
  <2>4. QED
    BY <2>2, <2>3 DEF IndInv
<1>5. QED
  BY <1>1, <1>2, <1>3, <1>4

LEMMA NextInd == IndInv /\ [Next]_vars => IndInv'
BY AcceptInd, RequestInd, ReadEofInd, WriteDirectInd, WriteBehindInd, DoubleInd,
   StoreInd, WriteRemainingInd, RespondInd, StaticEndInd, QuietInd DEF Next

(* The inductive invariant of the output path holds throughout: what the      *)
(* theorems below take their invariants from.                                *)
THEOREM Invariance == Spec => []IndInv
BY InitInd, NextInd, PTL DEF Spec
-----------------------------------------------------------------------------
(* The variables keep their types: in particular the block is a table of     *)
(* remaining_size cells, whatever moved, grew or freed it.                   *)
THEOREM TypeCorrect == Spec => []TypeOK
BY Invariance, PTL DEF IndInv

(* The block of axil_low_write is never overrun, for every block size and    *)
(* every sequence of writes.                                                 *)
THEOREM BlockInBounds == Spec => []InBounds
BY Invariance, PTL DEF IndInv

(* axil_write keeps the order of the stream and loses nothing while the      *)
(* descriptor is open, whatever the kernel takes of each write.              *)
THEOREM StreamInOrder == Spec => []StreamOrder
BY Invariance, PTL DEF IndInv
-----------------------------------------------------------------------------
(* No handler makes a write as long as the block a descriptor starts with. *)
WritesAreShort ==
    \A h \in Handlers : \A i \in 1 .. Len(h.calls) : h.calls[i].n < InitSize

ShortCalls == \A i \in 1 .. Len(calls) : calls[i].n < InitSize

(* One doubling is then enough, and leaves room to spare. *)
GrowEnds ==
    /\ ShortCalls
    /\ pc = "grow" => Need # remaining_size /\ Need < 2 * remaining_size

LEMMA GrowEndsInd ==
    ASSUME WritesAreShort, IndInv, GrowEnds, [Next]_vars PROVE GrowEnds'
<1>0. TypeOK /\ InBounds /\ ControlOK /\ StreamOrder
  BY DEF IndInv
<1>1. ShortCalls'
  <2>1. CASE UNCHANGED calls
    BY <2>1 DEF GrowEnds, ShortCalls
  <2>2. CASE calls # <<>> /\ calls' = Tail(calls)
    BY <1>0, <2>2 DEF GrowEnds, ShortCalls, TypeOK
  <2>3. CASE Request
    BY <2>3 DEF Request, WritesAreShort, ShortCalls
  <2>4. QED
    BY <2>1, <2>2, <2>3 DEF Next, vars, Accept, Return, PeerGone, ReadEof,
       WriteDirect, WriteBehind, Double, GrowTo, Grown, Spin, Store,
       WriteRemaining, Respond, StaticEnd, Calling
<1>a. ASSUME NEW op, Calling(op) PROVE Head(calls).n \in Nat /\ Head(calls).n < InitSize
  <2>1. calls # <<>> /\ Head(calls) = calls[1] /\ 1 \in 1 .. Len(calls)
    BY <1>0, <1>a DEF Calling, TypeOK
  <2>2. QED
    BY <1>0, <1>a, <2>1, CurrentCall DEF GrowEnds, ShortCalls
<1>2. ASSUME pc' = "grow" PROVE (Need # remaining_size /\ Need < 2 * remaining_size)'
  <2>1. CASE WriteDirect
    <3> DEFINE n == Head(calls).n
    <3>1. n \in Nat /\ n < InitSize /\ remaining_len = 0 /\ remaining_off = 0
      BY <1>0, <1>a, <2>1 DEF WriteDirect, InBounds
    <3>2. PICK ret \in LowerWrite(n) :
            /\ ret # FATAL
            /\ remaining_size - remaining_off < n - ret
      <4>1. PICK ret \in LowerWrite(n) :
              IF ret = FATAL
              THEN pc' = "handler"
              ELSE pc' = IF ret = n THEN "handler"
                         ELSE IF remaining_size - remaining_off >= n - ret THEN "store"
                         ELSE "grow"
        BY <2>1 DEF WriteDirect
      <4>2. ret # FATAL /\ ~(remaining_size - remaining_off >= n - ret)
        BY <1>2, <4>1
      <4>3. open /\ ret \in 0 .. n
        BY <4>1, <4>2 DEF LowerWrite
      <4>4. QED
        BY <1>0, <3>1, <4>2, <4>3 DEF TypeOK
    <3>3. open /\ ret \in 0 .. n
      BY <3>2 DEF LowerWrite
    <3>4. FALSE
      BY <1>0, <3>1, <3>2, <3>3, OutBufAssumption DEF TypeOK, ControlOK
    <3>5. QED
      BY <3>4
  <2>2. CASE WriteBehind
    <3> DEFINE n == Head(calls).n
    <3>1. n \in Nat /\ n < InitSize /\ open
      BY <1>0, <1>a, <2>2 DEF WriteBehind, InBounds, TypeOK
    <3>2. /\ ~FitsTail(n)
          /\ ~(remaining_off > 0 /\ remaining_size - remaining_len >= n)
          /\ remaining_off' = 0 /\ pending' = n
          /\ UNCHANGED <<remaining_size, remaining_len>>
      BY <1>2, <2>2 DEF WriteBehind
    <3>3. remaining_size - remaining_len < n
      BY <1>0, <3>1, <3>2 DEF FitsTail, TypeOK, InBounds
    <3>4. QED
      BY <1>0, <3>1, <3>2, <3>3, OutBufAssumption DEF Need, TypeOK, InBounds, ControlOK
  <2>3. CASE Double
    BY <1>0, <2>3 DEF Double, GrowTo, GrowEnds, Need, TypeOK
  <2>4. CASE Spin \/ UNCHANGED vars
    BY <1>2, <2>4 DEF Spin, GrowEnds, Need, vars, buffer
  <2>5. CASE PeerGone
    BY <1>2, <2>5 DEF PeerGone, GrowEnds, Need, buffer
  <2>6. QED
    BY <1>2, <2>1, <2>2, <2>3, <2>4, <2>5 DEF Next, Accept, Request, Return, ReadEof,
       Grown, Store, WriteRemaining, Respond, StaticEnd
<1>3. QED
  BY <1>1, <1>2 DEF GrowEnds

(* The growth loop of axil_rem_may_inc ends as long as no single write is as *)
(* long as the block a descriptor starts with.  The condition is needed: a   *)
(* write of 7 bytes behind 1 byte that was kept, in a block of 4, doubles to  *)
(* the 8 bytes needed, and goes round for ever.                              *)
THEOREM ShortWritesReturn == ASSUME WritesAreShort PROVE Spec => []NeverSpins
<1>1. Init => GrowEnds
  BY DEF Init, GrowEnds, ShortCalls
<1>2. IndInv /\ GrowEnds /\ [Next]_vars => GrowEnds'
  BY GrowEndsInd
<1>3. GrowEnds => NeverSpins
  BY DEF GrowEnds, NeverSpins, Spinning
<1>4. QED
  BY <1>1, <1>2, <1>3, Invariance, PTL DEF Spec
-----------------------------------------------------------------------------
(* Runs of consecutive bytes, and what a FIFO does to them. *)
LEMMA BytesSeq ==
    ASSUME NEW a \in Nat, NEW n \in Nat
    PROVE  /\ Bytes(a, n) \in Seq(Nat)
           /\ Len(Bytes(a, n)) = n
           /\ \A i \in 1 .. n : Bytes(a, n)[i] = a + i
BY DEF Bytes

LEMMA BytesConcat ==
    ASSUME NEW a \in Nat, NEW n \in Nat, NEW m \in Nat
    PROVE  Bytes(a, n) \o Bytes(a + n, m) = Bytes(a, n + m)
<1>0. a + n \in Nat /\ n + m \in Nat
  OBVIOUS
<1>1. /\ Bytes(a, n) \in Seq(Nat) /\ Len(Bytes(a, n)) = n
      /\ Bytes(a + n, m) \in Seq(Nat) /\ Len(Bytes(a + n, m)) = m
      /\ Bytes(a, n + m) \in Seq(Nat) /\ Len(Bytes(a, n + m)) = n + m
  <2>1. Bytes(a, n) \in Seq(Nat) /\ Len(Bytes(a, n)) = n
    BY BytesSeq
  <2>2. Bytes(a + n, m) \in Seq(Nat) /\ Len(Bytes(a + n, m)) = m
    BY <1>0, BytesSeq
  <2>3. Bytes(a, n + m) \in Seq(Nat) /\ Len(Bytes(a, n + m)) = n + m
    BY <1>0, BytesSeq
  <2>4. QED
    BY <2>1, <2>2, <2>3
<1> DEFINE s == Bytes(a, n) \o Bytes(a + n, m)
<1>2. /\ s \in Seq(Nat)
      /\ Len(s) = n + m
      /\ \A i \in 1 .. n : s[i] = Bytes(a, n)[i]
      /\ \A i \in n + 1 .. n + m : s[i] = Bytes(a + n, m)[i - n]
  <2> DEFINE f == Bytes(a + n, m)
             g == Bytes(a, n)
  <2>1. f \in [1 .. m -> Nat] /\ g \in Seq(Nat) /\ Len(g) = n
    BY <1>0, <1>1 DEF Bytes
  <2> HIDE DEF f, g
  <2>2. /\ g \o f \in Seq(Nat)
        /\ Len(g \o f) = Len(g) + m
        /\ \A i \in 1 .. Len(g) : (g \o f)[i] = g[i]
        /\ \A i \in Len(g) + 1 .. Len(g) + m : (g \o f)[i] = f[i - Len(g)]
    BY <2>1, AppendTable
  <2>3. s = g \o f
    BY DEF f, g
  <2>4. QED
    BY <2>1, <2>2, <2>3 DEF f, g
<1> HIDE DEF s
<1>3. ASSUME NEW i \in 1 .. n + m PROVE s[i] = Bytes(a, n + m)[i]
  <2>0. i \in Int /\ Bytes(a, n + m)[i] = a + i
    BY <1>0 DEF Bytes
  <2>1. CASE i <= n
    <3>1. i \in 1 .. n
      BY <2>0, <2>1
    <3>2. QED
      BY <1>2, <2>0, <3>1 DEF Bytes
  <2>2. CASE i > n
    <3>1. i \in n + 1 .. n + m /\ i - n \in 1 .. m
      BY <2>0, <2>2
    <3>2. s[i] = (a + n) + (i - n)
      BY <1>2, <3>1 DEF Bytes
    <3>3. QED
      BY <2>0, <3>2
  <2>3. QED
    BY <2>0, <2>1, <2>2
<1>4. s = Bytes(a, n + m)
  BY <1>1, <1>2, <1>3, SeqEqual
<1>5. QED
  BY <1>4 DEF s

LEMMA BytesSub ==
    ASSUME NEW a \in Nat, NEW n \in Nat, NEW k \in 0 .. n
    PROVE  /\ SubSeq(Bytes(a, n), 1, k) = Bytes(a, k)
           /\ SubSeq(Bytes(a, n), k + 1, n) = Bytes(a + k, n - k)
<1>1. Bytes(a, n) \in Seq(Nat) /\ Len(Bytes(a, n)) = n
  BY BytesSeq
<1>2. SubSeq(Bytes(a, n), 1, k) = [i \in 1 .. k |-> Bytes(a, n)[i]]
  BY <1>1
<1>3. SubSeq(Bytes(a, n), k + 1, n) = [i \in 1 .. n - k |-> Bytes(a, n)[k + i]]
  BY <1>1
<1>4. QED
  BY <1>2, <1>3 DEF Bytes

(* On the states of IndInv both sequences of OutStream are such runs. *)
Runs ==
    /\ wire = Bytes(0, Len(wire))
    /\ Owed = Bytes(Len(wire), remaining_len + pending)
    /\ Len(wire) \in Nat
    /\ remaining_len + pending \in Nat

LEMMA Mapped == IndInv => Runs
<1> SUFFICES ASSUME IndInv PROVE Runs
  OBVIOUS
<1>0. TypeOK /\ InBounds /\ StreamOrder /\ ControlOK
  BY DEF IndInv
<1>1. Len(wire) \in Nat /\ remaining_len \in Nat /\ pending \in Nat /\ wire \in Seq(Nat)
  BY <1>0 DEF TypeOK
<1>2. wire = Bytes(0, Len(wire))
  <2>1. \A i \in 1 .. Len(wire) : wire[i] = Bytes(0, Len(wire))[i]
    BY <1>0, <1>1 DEF StreamOrder, Bytes
  <2>2. Bytes(0, Len(wire)) \in Seq(Nat) /\ Len(Bytes(0, Len(wire))) = Len(wire)
    BY <1>1, BytesSeq
  <2>3. QED
    BY <1>1, <2>1, <2>2, SeqEqual
<1>3. Owed = Bytes(Len(wire), remaining_len + pending)
  <2>1. ASSUME NEW i \in 1 .. remaining_len + pending
        PROVE  (IF i <= remaining_len THEN remaining[remaining_off + i - 1]
                ELSE written - pending + (i - remaining_len)) = Len(wire) + i
    <3>1. CASE i <= remaining_len
      <4>1. i - 1 \in 0 .. remaining_len - 1 /\ remaining_off + i - 1 = remaining_off + (i - 1)
        BY <1>0, <1>1, <3>1 DEF TypeOK
      <4>2. QED
        BY <1>0, <1>1, <3>1, <4>1 DEF StreamOrder
    <3>2. CASE i > remaining_len
      <4>1. pending > 0
        BY <1>1, <3>2
      <4>2. written = Len(wire) + remaining_len + pending
        BY <1>0, <4>1 DEF ControlOK, StreamOrder
      <4>3. QED
        BY <1>1, <3>2, <4>2
    <3>3. QED
      BY <1>1, <3>1, <3>2
  <2>2. QED
    BY <2>1 DEF Owed, Bytes
<1>4. QED
  BY <1>1, <1>2, <1>3 DEF Runs

LEMMA MappedNext == IndInv' => Runs'
BY Mapped, PTL
-----------------------------------------------------------------------------
(* Taking k bytes off a run, and putting n more behind it first. *)
LEMMA Take ==
    ASSUME NEW w \in Nat, NEW m \in Nat, NEW k \in 0 .. m
    PROVE  /\ Len(Bytes(w, m)) = m
           /\ Bytes(0, w) \o SubSeq(Bytes(w, m), 1, k) = Bytes(0, w + k)
           /\ SubSeq(Bytes(w, m), k + 1, Len(Bytes(w, m))) = Bytes(w + k, m - k)
<1>1. Len(Bytes(w, m)) = m
  BY BytesSeq
<1>2. /\ SubSeq(Bytes(w, m), 1, k) = Bytes(w, k)
      /\ SubSeq(Bytes(w, m), k + 1, m) = Bytes(w + k, m - k)
  BY BytesSub
<1>3. Bytes(0, w) \o Bytes(0 + w, k) = Bytes(0, w + k)
  <2>1. k \in Nat /\ 0 \in Nat
    OBVIOUS
  <2>2. QED
    BY <2>1, BytesConcat
<1>4. 0 + w = w
  OBVIOUS
<1>5. QED
  BY <1>1, <1>2, <1>3, <1>4

(* A step that moves no byte leaves the queue of the stream alone. *)
LEMMA QuietMaps ==
    ASSUME IndInv, IndInv', UNCHANGED wire,
           remaining_len' + pending' = remaining_len + pending
    PROVE  UNCHANGED Owed
BY Mapped, MappedNext DEF Runs

(* A step that adds n bytes, of which the kernel takes k. *)
LEMMA WriteMaps ==
    ASSUME IndInv, IndInv', open, open', UNCHANGED <<to_close, peer>>,
           NEW n \in Nat, NEW k \in 0 .. n, peer = "gone" => k = 0,
           written' = written + n, Len(wire') = Len(wire) + k,
           remaining_len' + pending' = (remaining_len + pending + n) - k
    PROVE  Stream!Write
<1>1. PICK w \in Nat, l \in Nat :
        /\ w = Len(wire) /\ l = remaining_len + pending
        /\ wire = Bytes(0, w) /\ Owed = Bytes(w, l)
  BY Mapped DEF Runs
<1>2. wire' = Bytes(0, w + k) /\ Owed' = Bytes(w + k, (l + n) - k)
  <2>1. wire' = Bytes(0, Len(wire')) /\ Owed' = Bytes(Len(wire'), remaining_len' + pending')
    BY MappedNext DEF Runs
  <2>2. Len(wire') = w + k /\ remaining_len' + pending' = (l + n) - k
    BY <1>1
  <2>3. QED
    BY <2>1, <2>2
<1>3. /\ written = w + l /\ written' \in Nat /\ written' >= written
      /\ written' - written = n
  BY <1>1 DEF IndInv, StreamOrder, TypeOK
<1> DEFINE added == [i \in 1 .. written' - written |-> written + i]
           all   == Owed \o added
<1>4. all = Bytes(w, l + n)
  <2>1. added = Bytes(w + l, n)
    BY <1>3 DEF Bytes
  <2> HIDE DEF added
  <2>2. Bytes(w, l) \o Bytes(w + l, n) = Bytes(w, l + n)
    BY BytesConcat
  <2>3. QED
    BY <1>1, <2>1, <2>2
<1> HIDE DEF all
<1>5. /\ Len(all) = l + n
      /\ wire \o SubSeq(all, 1, k) = Bytes(0, w + k)
      /\ SubSeq(all, k + 1, Len(all)) = Bytes(w + k, (l + n) - k)
  <2>1. l + n \in Nat /\ k \in 0 .. l + n
    OBVIOUS
  <2>2. /\ Len(Bytes(w, l + n)) = l + n
        /\ Bytes(0, w) \o SubSeq(Bytes(w, l + n), 1, k) = Bytes(0, w + k)
        /\ SubSeq(Bytes(w, l + n), k + 1, Len(Bytes(w, l + n))) = Bytes(w + k, (l + n) - k)
    BY <2>1, Take
  <2>3. QED
    BY <1>1, <1>4, <2>2
<1>6. k \in 0 .. (IF peer = "gone" THEN 0 ELSE Len(all))
  BY <1>5
<1>7. wire' = wire \o SubSeq(all, 1, k) /\ Owed' = SubSeq(all, k + 1, Len(all))
  BY <1>2, <1>5
<1>8. QED
  BY <1>3, <1>6, <1>7 DEF Stream!Write, all

(* A step in which the kernel takes k of the bytes owed. *)
LEMMA DeliverMaps ==
    ASSUME IndInv, IndInv', open, peer = "up", UNCHANGED <<peer, written>>,
           NEW k \in 1 .. remaining_len + pending,
           Len(wire') = Len(wire) + k,
           remaining_len' + pending' = (remaining_len + pending) - k,
           open' <=> ~(to_close /\ k = remaining_len + pending),
           open' => to_close' = to_close
    PROVE  Stream!Deliver
<1>1. PICK w \in Nat, l \in Nat :
        /\ w = Len(wire) /\ l = remaining_len + pending
        /\ wire = Bytes(0, w) /\ Owed = Bytes(w, l)
  BY Mapped DEF Runs
<1>2. wire' = Bytes(0, w + k) /\ Owed' = Bytes(w + k, l - k)
  <2>1. wire' = Bytes(0, Len(wire')) /\ Owed' = Bytes(Len(wire'), remaining_len' + pending')
    BY MappedNext DEF Runs
  <2>2. Len(wire') = w + k
    BY <1>1
  <2>3. remaining_len' + pending' = l - k
    BY <1>1
  <2>4. QED
    BY <2>1, <2>2, <2>3
<1>3. k \in 0 .. l /\ k \in 1 .. l
  BY <1>1
<1>4. /\ Len(Owed) = l
      /\ wire' = wire \o SubSeq(Owed, 1, k)
      /\ Owed' = SubSeq(Owed, k + 1, Len(Owed))
  <2>1. /\ Len(Bytes(w, l)) = l
        /\ Bytes(0, w) \o SubSeq(Bytes(w, l), 1, k) = Bytes(0, w + k)
        /\ SubSeq(Bytes(w, l), k + 1, Len(Bytes(w, l))) = Bytes(w + k, l - k)
    BY <1>3, Take
  <2>2. QED
    BY <1>1, <1>2, <2>1
<1>5. (IF ~open' THEN "closed" ELSE IF to_close' THEN "closing" ELSE "open")
        = IF (IF ~open THEN "closed" ELSE IF to_close THEN "closing" ELSE "open") = "closing"
             /\ k = Len(Owed)
          THEN "closed"
          ELSE IF ~open THEN "closed" ELSE IF to_close THEN "closing" ELSE "open"
  BY <1>1, <1>4
<1>6. QED
  BY <1>3, <1>4, <1>5 DEF Stream!Deliver
-----------------------------------------------------------------------------
LEMMA EmptyRun == ASSUME NEW w \in Nat PROVE Bytes(w, 0) = <<>>
<1>1. Bytes(w, 0) \in Seq(Nat) /\ Len(Bytes(w, 0)) = 0
  BY BytesSeq
<1>2. QED
  BY <1>1, EmptySeq

LEMMA EmptyOwed == IndInv /\ remaining_len + pending = 0 => Owed = <<>>
BY Mapped, EmptyRun DEF Runs

LEMMA EmptyOwedNext == IndInv' /\ remaining_len' + pending' = 0 => Owed' = <<>>
BY MappedNext, EmptyRun DEF Runs

(* axil_close maps to the close of an empty stream, to the break of one      *)
(* whose peer is gone, or to nothing when the descriptor was closed already. *)
LEMMA CloseMaps ==
    ASSUME IndInv, IndInv', NEW dropped, Close(dropped), UNCHANGED <<wire, peer, written>>,
           remaining_len + pending = 0 \/ peer = "gone"
    PROVE  [Stream!Next]_(Stream!vars)
<1>1. Owed' = <<>> /\ ~open' /\ ~to_close'
  BY EmptyOwedNext DEF Close
<1>2. CASE ~open
  <2>1. remaining_len + pending = 0
    BY <1>2 DEF IndInv, TypeOK, InBounds, ControlOK
  <2>2. Owed = <<>>
    BY <2>1, EmptyOwed
  <2>3. QED
    BY <1>1, <1>2, <2>2 DEF Stream!vars
<1>3. CASE open /\ remaining_len + pending = 0
  <2>1. Owed = <<>>
    BY <1>3, EmptyOwed
  <2>2. Stream!CloseEmpty
    BY <1>1, <1>3, <2>1 DEF Stream!CloseEmpty
  <2>3. QED
    BY <2>2 DEF Stream!Next
<1>4. CASE open /\ peer = "gone"
  <2>1. Stream!Break
    BY <1>1, <1>4 DEF Stream!Break
  <2>2. QED
    BY <2>1 DEF Stream!Next
<1>5. QED
  BY <1>2, <1>3, <1>4

LEMMA StreamInit == Init => Stream!Init
<1> SUFFICES ASSUME Init PROVE Stream!Init
  OBVIOUS
<1>1. IndInv /\ remaining_len + pending = 0
  BY InitInd DEF Init
<1>2. Owed = <<>>
  BY <1>1, EmptyOwed
<1>3. QED
  BY <1>2 DEF Init, Stream!Init

LEMMA StreamStep ==
    ASSUME IndInv, IndInv', [Next]_vars PROVE [Stream!Next]_(Stream!vars)
<1>0. TypeOK /\ InBounds /\ StreamOrder /\ ControlOK
  BY DEF IndInv
<1>1. CASE Accept
  <2>1. Owed' = <<>>
    BY <1>1, EmptyOwedNext DEF Accept
  <2>2. Stream!Accept
    BY <1>1, <2>1 DEF Accept, Stream!Accept, Stream!Fresh
  <2>3. QED
    BY <2>2 DEF Stream!Next
<1>2. CASE Request
  <2>1. /\ UNCHANGED <<open, wire, written, peer>> /\ open
        /\ to_close' = to_close \/ (~to_close /\ to_close')
        /\ remaining_len' + pending' = remaining_len + pending
    BY <1>0, <1>2 DEF Request, buffer, TypeOK
  <2>2. UNCHANGED Owed
    BY <2>1, QuietMaps
  <2>3. CASE to_close' = to_close
    BY <2>1, <2>2, <2>3 DEF Stream!vars
  <2>4. CASE ~to_close /\ to_close'
    <3>1. Stream!MarkClosing
      BY <2>1, <2>2, <2>4 DEF Stream!MarkClosing
    <3>2. QED
      BY <3>1 DEF Stream!Next
  <2>5. QED
    BY <2>1, <2>3, <2>4
<1>3. CASE PeerGone
  <2>1. UNCHANGED Owed
    BY <1>3, QuietMaps DEF PeerGone, buffer
  <2>2. Stream!PeerGone
    BY <1>3, <2>1 DEF PeerGone, Stream!PeerGone
  <2>3. QED
    BY <2>2 DEF Stream!Next
<1>4. CASE ReadEof
  BY <1>4, CloseMaps DEF ReadEof
<1>5. CASE Return \/ Grown \/ Spin \/ UNCHANGED vars
  <2>1. /\ UNCHANGED <<open, to_close, wire, written, peer>>
        /\ remaining_len' + pending' = remaining_len + pending
    BY <1>5 DEF Return, Grown, Spin, vars, buffer
  <2>2. UNCHANGED Owed
    BY <2>1, QuietMaps
  <2>3. QED
    BY <2>1, <2>2 DEF Stream!vars
<1>6. CASE Double \/ Store
  <2>1. /\ UNCHANGED <<open, to_close, wire, written, peer>>
        /\ remaining_len' + pending' = remaining_len + pending
    BY <1>0, <1>6 DEF Double, GrowTo, Store, TypeOK
  <2>2. UNCHANGED Owed
    BY <2>1, QuietMaps
  <2>3. QED
    BY <2>1, <2>2 DEF Stream!vars
<1>7. CASE WriteBehind
  <2> DEFINE n == Head(calls).n
  <2>1. n \in Nat /\ pending = 0 /\ open /\ remaining_len \in Nat
    BY <1>0, <1>7, CurrentCall DEF WriteBehind, Calling, ControlOK, InBounds, TypeOK
  <2>2. /\ UNCHANGED <<open, to_close, peer, remaining_len, wire>>
        /\ written' = written + n /\ pending' = n
    BY <1>7 DEF WriteBehind
  <2>3. Len(wire) \in Nat
    BY <1>0 DEF TypeOK
  <2> HIDE DEF n
  <2>4. /\ 0 \in 0 .. n /\ open' /\ Len(wire') = Len(wire) + 0
        /\ remaining_len' + pending' = (remaining_len + pending + n) - 0
    BY <2>1, <2>2, <2>3
  <2>5. Stream!Write
    BY <2>1, <2>2, <2>4, WriteMaps
  <2>6. QED
    BY <2>5 DEF Stream!Next
<1>8. CASE WriteDirect
  <2> DEFINE n == Head(calls).n
  <2>1. n \in Nat /\ pending = 0 /\ remaining_len = 0 /\ Len(wire) \in Nat
    BY <1>0, <1>8, CurrentCall DEF WriteDirect, Calling, ControlOK, TypeOK
  <2>2. UNCHANGED <<open, to_close, remaining_len, peer>>
    BY <1>8 DEF WriteDirect
  <2>3. PICK ret \in LowerWrite(n) :
          IF ret = FATAL
          THEN UNCHANGED <<pending, wire, written>>
          ELSE /\ wire' = wire \o Bytes(written, ret)
               /\ written' = written + n
               /\ pending' = n - ret
    BY <1>8 DEF WriteDirect
  <2>4. CASE ret = FATAL
    <3>1. UNCHANGED Owed
      BY <2>2, <2>3, <2>4, QuietMaps
    <3>2. QED
      BY <2>2, <2>3, <2>4, <3>1 DEF Stream!vars
  <2>5. CASE ret # FATAL
    <3>1. open /\ peer = "up" /\ ret \in 0 .. n
      BY <2>3, <2>5 DEF LowerWrite
    <3>2. wire \in Seq(Nat) /\ written \in Nat
      BY <1>0 DEF TypeOK
    <3> HIDE DEF n
    <3>3. Len(wire') = Len(wire) + ret
      <4>1. Bytes(written, ret) \in [1 .. ret -> Nat] /\ ret \in Nat
        BY <2>1, <3>1, <3>2 DEF Bytes
      <4>2. QED
        BY <2>3, <2>5, <3>2, <4>1, AppendTable
    <3>4. /\ open' /\ written' = written + n
          /\ remaining_len' + pending' = (remaining_len + pending + n) - ret
      BY <2>1, <2>2, <2>3, <2>5, <3>1
    <3>5. Stream!Write
      BY <2>1, <2>2, <3>1, <3>3, <3>4, WriteMaps
    <3>6. QED
      BY <3>5 DEF Stream!Next
  <2>6. QED
    BY <2>4, <2>5
<1>9. CASE WriteRemaining
  <2>1. /\ remaining_len \in Nat /\ remaining_len > 0 /\ pending = 0 /\ open
        /\ wire \in Seq(Nat) /\ UNCHANGED <<peer, written>>
    BY <1>0, <1>9 DEF WriteRemaining, TypeOK, ControlOK, InBounds
  <2> DEFINE taken(ret) == IF ret = FATAL THEN 0 ELSE ret
             chunk(ret) == [i \in 1 .. taken(ret) |-> remaining[remaining_off + i - 1]]
  <2>2. PICK ret \in LowerWrite(remaining_len) :
          /\ wire' = wire \o chunk(ret)
          /\ IF ret = FATAL \/ DrainCloses(taken(ret))
             THEN Close(remaining_len - taken(ret))
             ELSE /\ remaining_len' = remaining_len - taken(ret)
                  /\ KeepOpen
                  /\ UNCHANGED to_close
    BY <1>9 DEF WriteRemaining
  <2> DEFINE k == taken(ret)
  <2>3. k \in 0 .. remaining_len /\ Len(wire) \in Nat
    BY <2>1, <2>2 DEF LowerWrite, FATAL
  <2>4. Len(wire') = Len(wire) + k
    <3>1. chunk(ret) \in [1 .. k -> Nat]
      <4>1. ASSUME NEW i \in 1 .. k PROVE remaining[remaining_off + i - 1] \in Nat
        <5>1. remaining_off + i - 1 \in 0 .. remaining_size - 1
          BY <1>0, <2>3 DEF TypeOK, InBounds
        <5>2. QED
          BY <1>0, <5>1 DEF TypeOK
      <4>2. QED
        BY <4>1
    <3> HIDE DEF chunk, k
    <3>2. k \in Nat
      BY <2>3
    <3>3. QED
      BY <2>1, <2>2, <3>1, <3>2, AppendTable
  <2>c. IF ret = FATAL \/ DrainCloses(k)
        THEN Close(remaining_len - k)
        ELSE /\ remaining_len' = remaining_len - k
             /\ UNCHANGED <<open, pending, to_close>>
    BY <2>2 DEF KeepOpen
  <2>d. k = 0 => wire' = wire
    <3>1. k = 0 => chunk(ret) = <<>>
      OBVIOUS
    <3>2. wire' = wire \o chunk(ret)
      BY <2>2
    <3> HIDE DEF k, chunk
    <3>3. QED
      BY <2>1, <3>1, <3>2, ConcatEmptySeq
  <2>e. ret = FATAL => k = 0
    OBVIOUS
  <2> HIDE DEF k, taken, chunk
  <2>5. CASE ret = FATAL
    <3>1. wire' = wire /\ Close(remaining_len - k)
      BY <2>5, <2>c, <2>d, <2>e
    <3>2. peer = "gone"
      BY <1>0, <2>1, <2>2, <2>5 DEF LowerWrite, FATAL, TypeOK
    <3>3. QED
      BY <2>1, <3>1, <3>2, CloseMaps
  <2>6. CASE ret # FATAL /\ k = 0
    <3>1. /\ remaining_len' = remaining_len /\ UNCHANGED <<open, to_close, pending>>
      <4>1. ~DrainCloses(k)
        BY <2>1, <2>6 DEF DrainCloses
      <4>2. remaining_len' = remaining_len - k /\ UNCHANGED <<open, to_close, pending>>
        BY <2>6, <2>c, <4>1
      <4>3. remaining_len - k = remaining_len
        BY <2>1, <2>6
      <4>4. QED
        BY <4>2, <4>3
    <3>2. wire' = wire
      BY <2>6, <2>d
    <3>3. UNCHANGED Owed
      BY <3>1, <3>2, QuietMaps
    <3>4. QED
      BY <2>1, <3>1, <3>2, <3>3 DEF Stream!vars
  <2>7. CASE ret # FATAL /\ k # 0
    <3>1. peer = "up"
      BY <2>2, <2>7 DEF LowerWrite
    <3>2. k \in 1 .. remaining_len + pending
      BY <2>1, <2>3, <2>7
    <3>3. /\ remaining_len' + pending' = (remaining_len + pending) - k
          /\ open' <=> ~(to_close /\ k = remaining_len + pending)
          /\ open' => to_close' = to_close
      <4>1. CASE DrainCloses(k)
        <5>1. ~open' /\ remaining_len' = 0 /\ pending' = 0 /\ k = remaining_len /\ to_close
          BY <2>c, <4>1 DEF DrainCloses, Close
        <5>2. remaining_len' + pending' = (remaining_len + pending) - k
          BY <2>1, <5>1
        <5>3. k = remaining_len + pending
          BY <2>1, <5>1
        <5>4. QED
          BY <5>1, <5>2, <5>3
      <4>2. CASE ~DrainCloses(k)
        <5>1. /\ remaining_len' = remaining_len - k
              /\ UNCHANGED <<open, pending, to_close>>
              /\ ~(to_close /\ k = remaining_len)
          BY <2>7, <2>c, <4>2 DEF DrainCloses
        <5>2. QED
          BY <2>1, <2>3, <5>1
      <4>3. QED
        BY <4>1, <4>2
    <3>4. Stream!Deliver
      BY <2>1, <2>4, <3>1, <3>2, <3>3, DeliverMaps
    <3>5. QED
      BY <3>4 DEF Stream!Next
  <2>8. QED
    BY <2>5, <2>6, <2>7
<1>10. CASE Respond
  <2>1. pending = 0 /\ UNCHANGED <<wire, peer, written>> /\ remaining_len \in Nat
    BY <1>0, <1>10 DEF Respond, Calling, ControlOK, TypeOK
  <2>2. CASE remaining_len = 0
    BY <1>10, <2>1, <2>2, CloseMaps DEF Respond
  <2>3. CASE remaining_len # 0
    <3>1. /\ to_close' = TRUE /\ open
          /\ UNCHANGED <<open, remaining_len, pending>>
      BY <1>0, <1>10, <2>1, <2>3 DEF Respond, KeepOpen, InBounds, TypeOK
    <3>2. UNCHANGED Owed
      BY <2>1, <3>1, QuietMaps
    <3>3. CASE to_close
      BY <2>1, <3>1, <3>2, <3>3 DEF Stream!vars
    <3>4. CASE ~to_close
      <4>1. Stream!MarkClosing
        BY <2>1, <3>1, <3>2, <3>4 DEF Stream!MarkClosing
      <4>2. QED
        BY <4>1 DEF Stream!Next
    <3>5. QED
      BY <3>3, <3>4
  <2>4. QED
    BY <2>2, <2>3
<1>11. CASE StaticEnd
  <2>1. pending = 0 /\ UNCHANGED <<wire, peer, written>> /\ remaining_len \in Nat
    BY <1>0, <1>11 DEF StaticEnd, Calling, ControlOK, TypeOK
  <2>2. CASE to_close /\ remaining_len = 0
    BY <1>11, <2>1, <2>2, CloseMaps DEF StaticEnd
  <2>3. CASE ~(to_close /\ remaining_len = 0)
    <3>1. UNCHANGED <<open, to_close, remaining_len, pending>>
      BY <1>11, <2>3 DEF StaticEnd, KeepOpen
    <3>2. UNCHANGED Owed
      BY <2>1, <3>1, QuietMaps
    <3>3. QED
      BY <2>1, <3>1, <3>2 DEF Stream!vars
  <2>4. QED
    BY <2>2, <2>3
<1>12. QED
  BY <1>1, <1>2, <1>3, <1>4, <1>5, <1>6, <1>7, <1>8, <1>9, <1>10, <1>11 DEF Next

(* The buffer of a descriptor implements the FIFO byte stream of OutStream:  *)
(* nothing is lost, repeated or reordered on the way to a peer that stays,   *)
(* and a descriptor marked to be closed is closed with nothing left to send, *)
(* for every block size, every handler and everything the kernel may answer. *)
THEOREM ImplementsStream == Spec => StreamSpec
<1>1. IndInv /\ IndInv' /\ [Next]_vars => [Stream!Next]_(Stream!vars)
  BY StreamStep
<1>2. QED
  BY <1>1, StreamInit, Invariance, PTL DEF Spec, StreamSpec, Stream!Spec
-----------------------------------------------------------------------------
(* A response made by one write and one of the epilogues. *)
OneWriteCalls(c) ==
    \E n \in Nat, op \in {"respond", "static"} : c = <<W(n), E(op)>>

AnEnd(c) == \E op \in {"respond", "static"} : c = <<E(op)>>

(* The write finds its descriptor open, because nothing before it could have *)
(* closed it; from then on every close comes from a block that is empty.     *)
OneWriteInv ==
    /\ ResponseComplete
    /\ \/ calls = <<>>
       \/ AnEnd(calls)
       \/ OneWriteCalls(calls) /\ pc = "handler" /\ open

LEMMA CallsGoOn ==
    ASSUME NEW c, OneWriteCalls(c) \/ AnEnd(c)
    PROVE  /\ OneWriteCalls(c) <=> Head(c).op = "write"
           /\ OneWriteCalls(c) => AnEnd(Tail(c))
           /\ AnEnd(c) => Tail(c) = <<>> /\ Head(c).op \in {"respond", "static"}
<1>1. CASE OneWriteCalls(c)
  <2>1. PICK n \in Nat, op \in {"respond", "static"} : c = <<W(n), E(op)>>
    BY <1>1 DEF OneWriteCalls
  <2>2. Head(c) = W(n) /\ Tail(c) = <<E(op)>> /\ Len(c) = 2
    BY <2>1
  <2>3. ~AnEnd(c)
    BY <2>1 DEF AnEnd
  <2>4. W(n).op = "write"
    BY DEF W
  <2>5. AnEnd(Tail(c))
    BY <2>2 DEF AnEnd
  <2> QED
    BY <1>1, <2>2, <2>3, <2>4, <2>5
<1>2. CASE AnEnd(c)
  <2>1. PICK op \in {"respond", "static"} : c = <<E(op)>>
    BY <1>2 DEF AnEnd
  <2>2. Head(c) = E(op) /\ Tail(c) = <<>> /\ Len(c) = 1
    BY <2>1
  <2>3. ~OneWriteCalls(c)
    BY <2>1 DEF OneWriteCalls
  <2> QED
    BY <1>2, <2>2, <2>3 DEF E
<1> QED
  BY <1>1, <1>2

LEMMA OneWriteNext ==
    ASSUME IndInv, OneWriteInv, [Next]_vars, Request => OneWriteCalls(calls')
    PROVE  OneWriteInv'
<1>0. TypeOK /\ InBounds /\ ControlOK
  BY DEF IndInv
<1>h. remaining_len > 0 => open
  BY <1>0 DEF InBounds, TypeOK
<1>1. CASE Accept
  BY <1>1 DEF Accept, OneWriteInv, ResponseComplete
<1>2. CASE Request
  BY <1>2 DEF Request, OneWriteInv, ResponseComplete
<1>3. CASE PeerGone
  BY <1>3 DEF PeerGone, OneWriteInv, ResponseComplete
<1>4. CASE ReadEof
  BY <1>4 DEF ReadEof, OneWriteInv, ResponseComplete
<1>5. CASE WriteDirect
  <2>1. OneWriteCalls(calls) /\ open
    BY <1>5, CallsGoOn DEF WriteDirect, Calling, OneWriteInv
  <2>2. AnEnd(calls')
    BY <1>5, <2>1, CallsGoOn DEF WriteDirect
  <2>3. UNCHANGED peer /\ (peer = "up" => cut' = cut)
    <3> DEFINE n == Head(calls).n
    <3>1. n \in Nat
      BY <1>0, <1>5, CurrentCall DEF WriteDirect
    <3>2. peer = "up" => FATAL \notin LowerWrite(n)
      BY <2>1, <3>1 DEF LowerWrite, FATAL
    <3> QED
      BY <1>5, <3>2 DEF WriteDirect
  <2> QED
    BY <2>2, <2>3 DEF OneWriteInv, ResponseComplete
<1>6. CASE WriteBehind
  <2>1. AnEnd(calls')
    BY <1>6, CallsGoOn DEF WriteBehind, Calling, OneWriteInv
  <2> QED
    BY <1>6, <2>1 DEF WriteBehind, OneWriteInv, ResponseComplete
<1>7. CASE Return \/ Double \/ Grown \/ Spin \/ Store \/ UNCHANGED vars
  BY <1>7 DEF Return, Double, GrowTo, Grown, Spin, Store, vars, buffer, OneWriteInv,
              ResponseComplete
<1>8. CASE WriteRemaining
  <2>1. PICK ret \in LowerWrite(remaining_len) :
          LET taken == IF ret = FATAL THEN 0 ELSE ret
          IN IF ret = FATAL \/ DrainCloses(taken)
             THEN Close(remaining_len - taken)
             ELSE KeepOpen
    BY <1>8 DEF WriteRemaining
  <2>2. open
    BY <1>h, <1>8 DEF WriteRemaining
  <2>3. peer = "up" => cut' = cut
    <3> SUFFICES ASSUME peer = "up" PROVE cut' = cut
      OBVIOUS
    <3>1. ret # FATAL /\ ret \in Nat
      BY <1>0, <2>2 DEF LowerWrite, FATAL, TypeOK
    <3>2. CASE DrainCloses(ret)
      BY <1>0, <2>1, <3>1, <3>2 DEF DrainCloses, Close, TypeOK
    <3>3. CASE ~DrainCloses(ret)
      BY <2>1, <3>1, <3>3 DEF KeepOpen
    <3> QED
      BY <3>2, <3>3
  <2> QED
    BY <1>8, <2>3 DEF WriteRemaining, OneWriteInv, ResponseComplete
<1>9. CASE Respond \/ StaticEnd
  <2>1. calls' = <<>>
    BY <1>9, CallsGoOn DEF Respond, StaticEnd, Calling, OneWriteInv
  <2>2. cut' = cut /\ peer' = peer
    BY <1>0, <1>9 DEF Respond, StaticEnd, Close, KeepOpen, TypeOK
  <2> QED
    BY <2>1, <2>2 DEF OneWriteInv, ResponseComplete
<1> QED
  BY <1>1, <1>2, <1>3, <1>4, <1>5, <1>6, <1>7, <1>8, <1>9 DEF Next

(* A response that a handler makes in one write reaches a peer that stays,   *)
(* whole, for every block size and length, however many requests a client    *)
(* pipelines and whatever the kernel takes of each write: DF_TO_CLOSE, which *)
(* request_handle sets before the handler writes, is acted on too early only *)
(* when there are more writes to come.                                       *)
THEOREM OneWriteArrives ==
    ASSUME \A h \in Handlers : OneWriteCalls(h.calls)
    PROVE  Spec => []ResponseComplete
<1>1. Init => OneWriteInv
  BY DEF Init, OneWriteInv, ResponseComplete
<1>2. IndInv /\ OneWriteInv /\ [Next]_vars => OneWriteInv'
  BY OneWriteNext DEF Request
<1>3. OneWriteInv => ResponseComplete
  BY DEF OneWriteInv
<1> QED
  BY <1>1, <1>2, <1>3, Invariance, PTL DEF Spec

(* The same of the connections that are checked with each other: those of    *)
(* the one kind, whatever the handlers of the other kind do.                 *)
THEOREM OneWriteCompletes == MCSpec => []OneWriteComplete
<1> DEFINE Inv == IndInv /\ (kinds = "one" => OneWriteInv)
<1>1. MCInit => Inv
  BY InitInd DEF MCInit, Init, OneWriteInv, ResponseComplete
<1>2. Inv /\ [MCNext]_<<vars, kinds>> => Inv'
  <2> SUFFICES ASSUME Inv, [MCNext]_<<vars, kinds>> PROVE Inv'
    OBVIOUS
  <2>1. [Next]_vars /\ kinds' = kinds
    BY DEF MCNext
  <2>2. IndInv'
    BY <2>1, NextInd
  <2>3. kinds = "one" => (Request => OneWriteCalls(calls'))
    <3> SUFFICES ASSUME kinds = "one", Request PROVE OneWriteCalls(calls')
      OBVIOUS
    <3>1. PICK h \in OneWrite : calls' = h.calls
      <4>1. Allowed
        BY DEF MCNext, Request, vars
      <4> QED
        BY <4>1 DEF Allowed, Request, Kinds
    <3> QED
      BY <3>1 DEF OneWrite, Http, OneWriteCalls
  <2> QED
    BY <2>1, <2>2, <2>3, OneWriteNext
<1>3. Inv => OneWriteComplete
  BY DEF OneWriteInv, OneWriteComplete
<1> QED
  BY <1>1, <1>2, <1>3, PTL DEF MCSpec
=============================================================================
