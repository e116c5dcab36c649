---------------------------- MODULE TunnelProofs ----------------------------
(***************************************************************************)
(* Proofs about Tunnel.  Two facts hold whatever the clients do: the types *)
(* and the freshness of fds_read.  The rest needs clients that do not      *)
(* pipeline (see the run tunnel_stale), and is inductive only together     *)
(* with what a pair is: two live descriptors, one opened for the other, in *)
(* matching modes, and no bytes held back for a client whose answer has    *)
(* not come, so that the write of the answer cannot close the pair.        *)
(***************************************************************************)
EXTENDS Tunnel, TLAPS

USE TunnelAssumption

(* Every variable keeps its type. *)
LEMMA TypeInit == Init => TypeOK
  BY DEF Init, TypeOK, Nothing, Fds, Flags

LEMMA ResetTypes ==
    ASSUME TypeOK, NEW S, NEW served, Reset(S, served), todo' = todo \/ todo' = Nothing
    PROVE  TypeOK'
  BY DEF TypeOK, Reset, Nothing

LEMMA LowWriteTypes ==
    ASSUME TypeOK, NEW fd \in Fds, NEW served, LowWrite(fd, served),
           todo' \in {Nothing} \cup [do : {"tunnel", "close"}, fd : Fds, peer : Fds]
    PROVE  TypeOK'
<1>1. CASE Reset(AxilClose(fd), served)
  BY <1>1 DEF TypeOK, Reset
<1>2. CASE Served(served) /\ remaining' \subseteq Fds
           /\ UNCHANGED <<live, flags, tunnel_pair, fds_active, opener>>
  BY <1>2 DEF TypeOK, Served
<1> QED
  BY <1>1, <1>2 DEF LowWrite, TypeOK

LEMMA TypeNext == TypeOK /\ [Next]_vars => TypeOK'
<1> SUFFICES ASSUME TypeOK, [Next]_vars PROVE TypeOK'
  OBVIOUS
<1>1. CASE Flush
  <2> PICK fd \in remaining :
        \/ /\ remaining' = remaining \ {fd}
           /\ UNCHANGED <<live, flags, tunnel_pair, fds_active, fds_read, opener>>
        \/ Reset(AxilClose(fd), {})
    BY <1>1 DEF Flush
  <2> todo' = todo
    BY <1>1 DEF Flush
  <2>1. CASE Reset(AxilClose(fd), {})
    BY <2>1, ResetTypes
  <2>2. CASE /\ remaining' = remaining \ {fd}
             /\ UNCHANGED <<live, flags, tunnel_pair, fds_active, fds_read, opener>>
    BY <2>2 DEF TypeOK
  <2> QED
    BY <2>1, <2>2
<1>2. CASE Select \/ SelectFails
  BY <1>2 DEF Select, SelectFails, TypeOK, vars
<1>3. CASE Accept
  BY <1>3 DEF Accept, Served, TypeOK
<1>4. CASE Ignored
  BY <1>4 DEF Ignored, Served, TypeOK
<1>5. CASE ClientEof
  BY <1>5, ResetTypes DEF ClientEof
<1>6. CASE HttpRequest
  <2> PICK fd \in Fds :
        \/ Reset(AxilClose(fd), {fd})
        \/ /\ remaining' = remaining \cup {fd}
           /\ flags' = [flags EXCEPT ![fd] = @ \cup {"TO_CLOSE"}]
           /\ Served({fd})
           /\ UNCHANGED <<live, tunnel_pair, fds_active, opener>>
    BY <1>6 DEF HttpRequest
  <2> todo' = todo
    BY <1>6 DEF HttpRequest
  <2>1. CASE Reset(AxilClose(fd), {fd})
    BY <2>1, ResetTypes
  <2>2. CASE /\ remaining' = remaining \cup {fd}
             /\ flags' = [flags EXCEPT ![fd] = @ \cup {"TO_CLOSE"}]
             /\ Served({fd})
             /\ UNCHANGED <<live, tunnel_pair, fds_active, opener>>
    BY <2>2 DEF TypeOK, Served, Flags
  <2> QED
    BY <2>1, <2>2
<1>7. CASE WsRequest
  BY <1>7 DEF WsRequest, Served, TypeOK, Flags, PairFlags
<1>8. CASE WsRequestFails \/ PairEof
  BY <1>8, ResetTypes DEF WsRequestFails, PairEof
<1>9. CASE Answer
  <2> PICK fd \in Fds :
        IF PeerWaits(fd)
        THEN /\ LowWrite(tunnel_pair[fd], {fd})
             /\ \E what \in {"tunnel", "close"} :
                  todo' = [do |-> what, fd |-> fd, peer |-> tunnel_pair[fd]]
        ELSE /\ Reset(TunnelCloseRaw(fd), {fd})
             /\ UNCHANGED todo
    BY <1>9 DEF Answer
  <2>1. CASE PeerWaits(fd)
    <3>1. tunnel_pair[fd] \in Fds
      BY <2>1 DEF PeerWaits, TypeOK
    <3> QED
      BY <2>1, <3>1, LowWriteTypes
  <2>2. CASE ~PeerWaits(fd)
    BY <2>2, ResetTypes
  <2> QED
    BY <2>1, <2>2
<1>10. CASE AxilWsTunnel
  <2>1. todo.peer \in Fds /\ todo.fd \in Fds
    BY <1>10 DEF AxilWsTunnel, TypeOK, Nothing
  <2> QED
    BY <1>10, <2>1 DEF AxilWsTunnel, TypeOK, Flags, PairFlags
<1>11. CASE AnswerClose
  BY <1>11, ResetTypes DEF AnswerClose
<1>12. CASE Forward
  <2> PICK fd \in Fds :
        IF tunnel_pair[fd] \in live \ {fd}
        THEN LowWrite(tunnel_pair[fd], {fd})
        ELSE Reset(TunnelCloseRaw(fd), {fd})
    BY <1>12 DEF Forward
  <2>1. todo' = todo
    BY <1>12 DEF Forward
  <2>2. CASE tunnel_pair[fd] \in live \ {fd}
    BY <2>1, <2>2, LowWriteTypes DEF TypeOK
  <2>3. CASE tunnel_pair[fd] \notin live \ {fd}
    BY <2>1, <2>3, ResetTypes
  <2> QED
    BY <2>2, <2>3
<1>13. CASE UNCHANGED vars
  BY <1>13 DEF vars, TypeOK
<1> QED
  BY <1>1, <1>2, <1>3, <1>4, <1>5, <1>6, <1>7, <1>8, <1>9, <1>10, <1>11, <1>12, <1>13
     DEF Next

(* Every variable of the proxy keeps its type, whatever the clients do: an    *)
(* entry of tunnel_pair[] is always a descriptor number or INVALID_SOCKET.    *)
THEOREM TypeCorrect == Spec => []TypeOK
  BY TypeInit, TypeNext, PTL DEF Spec
-----------------------------------------------------------------------------
(* The snapshot only ever names open descriptors. *)
SnapshotOpen == fds_read \subseteq live \cup {SRV}

LEMMA SnapshotInit == Init => SnapshotOpen
  BY DEF Init, SnapshotOpen

LEMMA ResetSnapshot ==
    ASSUME SnapshotOpen, NEW S, NEW served, Reset(S, served)
    PROVE  SnapshotOpen' /\ live' \subseteq live
  BY DEF SnapshotOpen, Reset

LEMMA LowWriteSnapshot ==
    ASSUME SnapshotOpen, NEW fd, NEW served, LowWrite(fd, served)
    PROVE  SnapshotOpen' /\ live' \subseteq live
  BY ResetSnapshot DEF LowWrite, SnapshotOpen, Served

(* A step keeps the snapshot to the open descriptors, and the numbers it     *)
(* hands out are not in it.                                                  *)
LEMMA SnapshotNext ==
    TypeOK /\ SnapshotOpen /\ [Next]_vars
      => SnapshotOpen' /\ \A fd \in live' \ live : fd \notin fds_read'
<1> SUFFICES ASSUME TypeOK, SnapshotOpen, [Next]_vars
             PROVE  SnapshotOpen' /\ \A fd \in live' \ live : fd \notin fds_read'
  OBVIOUS
<1> 0 \notin Fds
  BY DEF Fds
<1>1. CASE Flush
  BY <1>1, ResetSnapshot DEF Flush, SnapshotOpen
<1>2. CASE Select \/ SelectFails \/ Ignored \/ AxilWsTunnel \/ UNCHANGED vars
  BY <1>2 DEF Select, SelectFails, Ignored, AxilWsTunnel, SnapshotOpen, Served, vars
<1>3. CASE Accept
  BY <1>3 DEF Accept, Served, SnapshotOpen, SRV
<1>4. CASE ClientEof \/ WsRequestFails \/ PairEof \/ AnswerClose
  BY <1>4, ResetSnapshot DEF ClientEof, WsRequestFails, PairEof, AnswerClose
<1>5. CASE HttpRequest
  BY <1>5, ResetSnapshot DEF HttpRequest, Served, SnapshotOpen
<1>6. CASE WsRequest
  BY <1>6 DEF WsRequest, Served, SnapshotOpen, SRV
<1>7. CASE Answer
  BY <1>7, ResetSnapshot, LowWriteSnapshot DEF Answer
<1>8. CASE Forward
  BY <1>8, ResetSnapshot, LowWriteSnapshot DEF Forward
<1> QED
  BY <1>1, <1>2, <1>3, <1>4, <1>5, <1>6, <1>7, <1>8 DEF Next

(* No new connection is served for the readiness of an older one, however    *)
(* many descriptors there are and whatever the clients do.                   *)
THEOREM Freshness == Spec => ReadinessIsFresh
<1>1. Spec => [](TypeOK /\ SnapshotOpen)
  BY TypeInit, TypeNext, SnapshotInit, SnapshotNext, PTL DEF Spec
<1>2. TypeOK /\ SnapshotOpen /\ [Next]_vars
        => [\A fd \in live' \ live : fd \notin fds_read']_vars
  BY SnapshotNext
<1> QED
  BY <1>1, <1>2, PTL DEF Spec, ReadinessIsFresh
-----------------------------------------------------------------------------
(* The inductive invariant of the pairs. *)
Mode(fd) == flags[fd] \cap PairFlags

(* A descriptor that is not open has left nothing behind. *)
ClosedClean ==
    \A fd \in Fds \ live :
      /\ Mode(fd) = {}
      /\ tunnel_pair[fd] = INVALID
      /\ opener[fd] = INVALID
      /\ \A g \in Fds : tunnel_pair[g] # fd /\ opener[g] # fd

PairsMutual ==
    \A fd \in Fds : tunnel_pair[fd] # INVALID =>
      /\ tunnel_pair[fd] # fd
      /\ tunnel_pair[tunnel_pair[fd]] = fd
      /\ Mates(fd, tunnel_pair[fd])

MatesPaired ==
    \A fd \in Fds : opener[fd] # INVALID =>
      /\ tunnel_pair[fd] = opener[fd]
      /\ tunnel_pair[opener[fd]] = fd

Modes ==
    \A fd \in Fds :
      IF tunnel_pair[fd] = INVALID
      THEN Mode(fd) = {}
      ELSE \/ Mode(fd) = {"TUNNEL"} /\ Mode(tunnel_pair[fd]) = {"TUNNEL"}
           \/ /\ Mode(fd) = {"WS_PROXY_PENDING"}
              /\ Mode(tunnel_pair[fd]) = {"WS_WAITING", "WS_PROXY_PENDING"}
           \/ /\ Mode(fd) = {"WS_WAITING", "WS_PROXY_PENDING"}
              /\ Mode(tunnel_pair[fd]) = {"WS_PROXY_PENDING"}

(* No bytes are held back for a pending client, except those of the answer   *)
(* being forwarded: the write of the answer does not meet a flush.           *)
PendingDry ==
    \A fd \in Fds :
      "WS_PROXY_PENDING" \in flags[fd] /\ fd # todo.peer => fd \notin remaining

(* What the thread means to do still names a pair that waits. *)
TodoPair ==
    todo # Nothing =>
      /\ tunnel_pair[todo.fd] = todo.peer
      /\ "WS_WAITING" \in flags[todo.fd]

PairInv ==
    /\ ClosedClean
    /\ PairsMutual
    /\ MatesPaired
    /\ Modes
    /\ PendingDry
    /\ TodoPair
    /\ Watched

LEMMA PairInit == Init => PairInv
  BY DEF Init, PairInv, ClosedClean, PairsMutual, MatesPaired, Modes, Mode, PendingDry,
         TodoPair, Watched, Nothing, INVALID, Fds

(* A set of descriptors that holds the other end of each of its members. *)
WholePairs(S) ==
    /\ S \subseteq Fds
    /\ \A fd \in S : tunnel_pair[fd] # INVALID => tunnel_pair[fd] \in S

LEMMA RawClosesPair ==
    ASSUME TypeOK, PairInv, NEW fd \in Fds
    PROVE  /\ WholePairs(TunnelCloseRaw(fd))
           /\ \A f, g \in TunnelCloseRaw(fd) : f # g => Mates(f, g)
  BY DEF TypeOK, PairInv, PairsMutual, WholePairs, TunnelCloseRaw, Mates

LEMMA ClosesPair ==
    ASSUME TypeOK, PairInv, NEW fd \in Fds
    PROVE  /\ WholePairs(AxilClose(fd))
           /\ \A f, g \in AxilClose(fd) : f # g => Mates(f, g)
<1>1. CASE flags[fd] \cap PairFlags # {}
  BY <1>1, RawClosesPair DEF AxilClose
<1>2. CASE flags[fd] \cap PairFlags = {}
  <2>1. tunnel_pair[fd] = INVALID
    BY <1>2 DEF PairInv, Modes, Mode
  <2> QED
    BY <1>2, <2>1 DEF AxilClose, WholePairs
<1> QED
  BY <1>1, <1>2

(* What a step may do to the pairs, as the two action properties have it. *)
ResetsWholePairs ==
    /\ \A f, g \in live \ live' : f # g => Mates(f, g)
    /\ \A f \in live \ live', g \in live : Mates(f, g) => g \notin live'

(* A reset of whole pairs keeps the invariant. *)
LEMMA ResetPairs ==
    ASSUME TypeOK, PairInv, NEW S, NEW served, WholePairs(S),
           \A f, g \in S : f # g => Mates(f, g),
           Reset(S, served),
           todo = Nothing \/ todo.peer \in S,
           todo' = Nothing
    PROVE  PairInv' /\ ResetsWholePairs
<1>1. \A fd \in Fds : IF fd \in S
        THEN flags'[fd] = {} /\ tunnel_pair'[fd] = INVALID /\ opener'[fd] = INVALID
        ELSE /\ flags'[fd] = flags[fd]
             /\ tunnel_pair'[fd] = tunnel_pair[fd]
             /\ tunnel_pair[fd] \notin S
             /\ opener'[fd] = opener[fd]
             /\ opener[fd] \notin S
  <2>1. \A fd \in Fds \ S : tunnel_pair[fd] \notin S
    BY DEF TypeOK, PairInv, PairsMutual, WholePairs, INVALID, Fds
  <2>2. \A fd \in Fds \ S : opener[fd] \notin S
    BY <2>1 DEF TypeOK, PairInv, MatesPaired, WholePairs, INVALID, Fds
  <2> QED
    BY <2>1, <2>2 DEF Reset
<1>2. live' = live \ S /\ remaining' = remaining \ S /\ fds_active' = fds_active \ S
  BY DEF Reset
<1>3. S \subseteq Fds
  BY DEF WholePairs
<1>4. INVALID \notin Fds
  BY DEF INVALID, Fds
<1>5. ClosedClean'
  BY <1>1, <1>2, <1>3, <1>4 DEF TypeOK, PairInv, ClosedClean, Mode
<1>6. PairsMutual' /\ MatesPaired'
  BY <1>1, <1>3, <1>4 DEF TypeOK, PairInv, PairsMutual, MatesPaired, Mates
<1>7. Modes'
  BY <1>1, <1>3, <1>4 DEF TypeOK, PairInv, PairsMutual, Modes, Mode
<1>8. PendingDry'
  BY <1>1, <1>2, <1>4 DEF TypeOK, PairInv, PendingDry, Nothing
<1>9. TodoPair' /\ Watched'
  BY <1>2 DEF PairInv, TodoPair, Watched
<1>10. ResetsWholePairs
  BY <1>2, <1>3, <1>4 DEF ResetsWholePairs, Mates, PairInv, MatesPaired, WholePairs, TypeOK
<1> QED
  BY <1>5, <1>6, <1>7, <1>8, <1>9, <1>10 DEF PairInv

(* A step that changes only bytes held back and the snapshot. *)
LEMMA BytesPairs ==
    ASSUME TypeOK, PairInv, NEW fd \in Fds,
           "WS_PROXY_PENDING" \notin flags[fd] \/ fd = todo'.peer,
           remaining' \subseteq remaining \cup {fd},
           todo' = todo \/ (todo = Nothing /\ TodoPair'),
           UNCHANGED <<live, flags, tunnel_pair, fds_active, opener>>
    PROVE  PairInv' /\ ResetsWholePairs
<1>1. ResetsWholePairs
  BY DEF ResetsWholePairs
<1>2. ClosedClean' /\ PairsMutual' /\ MatesPaired' /\ Modes' /\ Watched'
  BY DEF PairInv, ClosedClean, PairsMutual, MatesPaired, Modes, Watched, Mode, Mates
<1>3. TodoPair'
  BY DEF PairInv, TodoPair
<1>4. PendingDry'
  BY DEF PairInv, PendingDry, Nothing, INVALID, Fds
<1> QED
  BY <1>1, <1>2, <1>3, <1>4 DEF PairInv

LEMMA LowWritePairs ==
    ASSUME TypeOK, PairInv, NEW fd \in Fds, NEW served, LowWrite(fd, served),
           todo = Nothing,
           \/ "WS_PROXY_PENDING" \notin flags[fd] /\ todo' = todo
           \/ fd \notin remaining /\ fd = todo'.peer,
           UNCHANGED <<flags, tunnel_pair>> => TodoPair'
    PROVE  PairInv' /\ ResetsWholePairs
<1>1. CASE fd \in remaining /\ Reset(AxilClose(fd), served)
  <2>1. todo' = Nothing
    BY <1>1
  <2> QED
    BY <1>1, <2>1, ClosesPair, ResetPairs
<1>2. CASE /\ remaining' \subseteq remaining \cup {fd}
           /\ UNCHANGED <<live, flags, tunnel_pair, fds_active, opener>>
  BY <1>2, BytesPairs
<1> QED
  BY <1>1, <1>2 DEF LowWrite

LEMMA PairNext ==
    ASSUME ~Pipelines, TypeOK, PairInv, [Next]_vars
    PROVE  PairInv' /\ (ResetsWholePairs \/ UNCHANGED vars)
<1> INVALID \notin Fds /\ SRV \notin Fds
  BY DEF INVALID, SRV, Fds
<1>1. CASE Flush
  <2> PICK fd \in remaining :
        \/ /\ remaining' = remaining \ {fd}
           /\ UNCHANGED <<live, flags, tunnel_pair, fds_active, fds_read, opener>>
        \/ Reset(AxilClose(fd), {})
    BY <1>1 DEF Flush
  <2>1. fd \in Fds /\ todo = Nothing /\ todo' = Nothing
    BY <1>1 DEF TypeOK, Flush, AtTop
  <2>2. "WS_PROXY_PENDING" \notin flags[fd]
    BY <2>1 DEF PairInv, PendingDry, Nothing
  <2>3. CASE Reset(AxilClose(fd), {})
    BY <2>1, <2>3, ClosesPair, ResetPairs
  <2>4. CASE /\ remaining' = remaining \ {fd}
             /\ UNCHANGED <<live, flags, tunnel_pair, fds_active, fds_read, opener>>
    BY <2>1, <2>2, <2>4, BytesPairs
  <2> QED
    BY <2>3, <2>4
<1>2. CASE Select \/ SelectFails \/ Ignored \/ UNCHANGED vars
  <2>1. UNCHANGED <<live, flags, tunnel_pair, fds_active, remaining, opener, todo>>
    BY <1>2 DEF Select, SelectFails, Ignored, vars
  <2>2. ResetsWholePairs
    BY <2>1 DEF ResetsWholePairs
  <2> QED
    BY <2>1, <2>2 DEF PairInv, ClosedClean, PairsMutual, MatesPaired, Modes, Watched, Mode,
       Mates, TodoPair, PendingDry
<1>3. CASE Accept
  <2>1. ResetsWholePairs
    BY <1>3 DEF Accept, ResetsWholePairs
  <2>2. UNCHANGED <<tunnel_pair, todo>> /\ todo = Nothing
    BY <1>3 DEF Accept, Looking
  <2>3. CASE UNCHANGED <<live, flags, fds_active, remaining, opener>>
    BY <2>1, <2>2, <2>3 DEF PairInv, ClosedClean, PairsMutual, MatesPaired, Modes, Watched,
       Mode, Mates, TodoPair, PendingDry
  <2>4. ASSUME NEW fd \in Fds \ live,
               live' = live \cup {fd},
               flags' = [flags EXCEPT ![fd] = {}],
               fds_active' = fds_active \cup {fd},
               remaining' = remaining \ {fd},
               opener' = [opener EXCEPT ![fd] = INVALID]
        PROVE  PairInv'
    <3>1. /\ Mode(fd) = {}
          /\ tunnel_pair[fd] = INVALID
          /\ opener[fd] = INVALID
      BY DEF PairInv, ClosedClean
    <3>2. opener' = opener
      BY <2>4, <3>1 DEF TypeOK
    <3>3. \A g \in Fds : Mode(g)' = Mode(g)
      BY <2>4, <3>1 DEF TypeOK, Mode
    <3>4. ClosedClean'
      BY <2>2, <2>4, <3>2, <3>3 DEF PairInv, ClosedClean
    <3>5. PairsMutual' /\ MatesPaired'
      BY <2>2, <3>2 DEF PairInv, PairsMutual, MatesPaired, Mates
    <3>6. Modes'
      BY <2>2, <3>3 DEF TypeOK, PairInv, Modes
    <3>7. PendingDry' /\ TodoPair' /\ Watched'
      BY <2>2, <2>4 DEF TypeOK, PairInv, PendingDry, TodoPair, Watched
    <3> QED
      BY <3>4, <3>5, <3>6, <3>7 DEF PairInv
  <2> QED
    BY <1>3, <2>1, <2>3, <2>4 DEF Accept
<1>4. CASE ClientEof
  <2> PICK fd \in Fds : Serving(fd) /\ Reset(AxilClose(fd), {fd})
    BY <1>4 DEF ClientEof
  <2>1. todo = Nothing /\ todo' = Nothing
    BY <1>4 DEF ClientEof, Serving, Looking
  <2> QED
    BY <2>1, ClosesPair, ResetPairs
<1>5. CASE HttpRequest
  <2> PICK fd \in Fds :
        /\ Serving(fd) /\ IsClient(fd) /\ MaySend(fd)
        /\ \/ Reset(AxilClose(fd), {fd})
           \/ /\ remaining' = remaining \cup {fd}
              /\ flags' = [flags EXCEPT ![fd] = @ \cup {"TO_CLOSE"}]
              /\ UNCHANGED <<live, tunnel_pair, fds_active, opener>>
    BY <1>5 DEF HttpRequest
  <2>1. todo = Nothing /\ todo' = Nothing
    BY <1>5 DEF HttpRequest, Serving, Looking
  <2>2. CASE Reset(AxilClose(fd), {fd})
    BY <2>1, <2>2, ClosesPair, ResetPairs
  <2>3. CASE /\ remaining' = remaining \cup {fd}
             /\ flags' = [flags EXCEPT ![fd] = @ \cup {"TO_CLOSE"}]
             /\ UNCHANGED <<live, tunnel_pair, fds_active, opener>>
    <3>1. "WS_PROXY_PENDING" \notin flags[fd]
      BY DEF MaySend
    <3>2. \A g \in Fds : flags'[g] \ {"TO_CLOSE"} = flags[g] \ {"TO_CLOSE"}
      BY <2>3 DEF TypeOK
    <3>3. \A g \in Fds : Mode(g)' = Mode(g)
      BY <3>2 DEF Mode, PairFlags
    <3>4. ClosedClean' /\ Modes'
      BY <2>3, <3>3 DEF TypeOK, PairInv, ClosedClean, Modes
    <3>5. PairsMutual' /\ MatesPaired' /\ TodoPair' /\ Watched'
      BY <2>1, <2>3 DEF PairInv, PairsMutual, MatesPaired, Mates, TodoPair, Watched
    <3>6. PendingDry'
      BY <2>1, <2>3, <3>1, <3>2 DEF PairInv, PendingDry
    <3>7. ResetsWholePairs
      BY <2>3 DEF ResetsWholePairs
    <3> QED
      BY <3>4, <3>5, <3>6, <3>7 DEF PairInv
  <2> QED
    BY <2>2, <2>3
<1>6. CASE WsRequest
  <2> PICK fd \in Fds, up \in Fds \ live :
        /\ Serving(fd) /\ IsClient(fd) /\ MaySend(fd)
        /\ live' = live \cup {up}
        /\ tunnel_pair' = [tunnel_pair EXCEPT ![fd] = up, ![up] = fd]
        /\ flags' = [flags EXCEPT ![fd] = @ \cup {"WS_PROXY_PENDING"},
                                  ![up] = {"WS_WAITING", "WS_PROXY_PENDING"}]
        /\ fds_active' = fds_active \cup {up}
        /\ remaining' = remaining \ {up}
        /\ opener' = [opener EXCEPT ![up] = fd]
    BY <1>6 DEF WsRequest
  <2>1. todo = Nothing /\ todo' = Nothing
    BY <1>6 DEF WsRequest, Serving, Looking
  <2>2. fd \in live /\ fd \notin remaining /\ Mode(fd) = {}
    BY DEF Serving, MaySend, IsClient, Mode, PairFlags
  <2>3. tunnel_pair[fd] = INVALID
    BY <2>2 DEF PairInv, Modes
  <2>4. opener[fd] = INVALID /\ \A g \in Fds : opener[g] # fd /\ tunnel_pair[g] # fd
    BY <2>3 DEF TypeOK, PairInv, MatesPaired, PairsMutual
  <2>5. /\ Mode(up) = {}
        /\ tunnel_pair[up] = INVALID
        /\ opener[up] = INVALID
        /\ \A g \in Fds : tunnel_pair[g] # up /\ opener[g] # up
    BY DEF PairInv, ClosedClean
  <2>6. \A g \in Fds : Mode(g)' = IF g = fd THEN {"WS_PROXY_PENDING"}
                                 ELSE IF g = up THEN {"WS_WAITING", "WS_PROXY_PENDING"}
                                 ELSE Mode(g)
    BY <2>2 DEF TypeOK, Mode, PairFlags
  <2>7. \A g \in Fds : tunnel_pair'[g] = IF g = fd THEN up ELSE IF g = up THEN fd
                                        ELSE tunnel_pair[g]
    BY <2>2 DEF TypeOK
  <2>8. \A g \in Fds : opener'[g] = IF g = up THEN fd ELSE opener[g]
    BY DEF TypeOK
  <2>9. ClosedClean'
    BY <2>2, <2>6, <2>7, <2>8 DEF TypeOK, PairInv, ClosedClean
  <2>10. PairsMutual'
    BY <2>2, <2>4, <2>5, <2>7, <2>8 DEF TypeOK, PairInv, PairsMutual, Mates
  <2>11. MatesPaired'
    BY <2>2, <2>4, <2>5, <2>7, <2>8 DEF TypeOK, PairInv, MatesPaired
  <2>12. Modes'
    BY <2>2, <2>3, <2>4, <2>5, <2>6, <2>7 DEF TypeOK, PairInv, Modes
  <2>13. PendingDry'
    BY <2>1, <2>2 DEF TypeOK, PairInv, PendingDry
  <2>14. TodoPair' /\ Watched' /\ ResetsWholePairs
    BY <2>1 DEF PairInv, TodoPair, Watched, ResetsWholePairs
  <2> QED
    BY <2>9, <2>10, <2>11, <2>12, <2>13, <2>14 DEF PairInv
<1>7. CASE WsRequestFails
  <2> PICK fd \in Fds :
        Serving(fd) /\ IsClient(fd) /\ MaySend(fd) /\ Reset({fd}, {fd})
    BY <1>7 DEF WsRequestFails
  <2>1. todo = Nothing /\ todo' = Nothing
    BY <1>7 DEF WsRequestFails, Serving, Looking
  <2>2. Mode(fd) = {}
    BY DEF MaySend, IsClient, Mode, PairFlags
  <2>3. WholePairs({fd})
    BY <2>2 DEF PairInv, Modes, WholePairs
  <2> QED
    BY <2>1, <2>3, ResetPairs
<1>8. CASE PairEof
  <2> PICK fd \in Fds : Serving(fd) /\ Reset(TunnelCloseRaw(fd), {fd})
    BY <1>8 DEF PairEof
  <2>1. todo = Nothing /\ todo' = Nothing
    BY <1>8 DEF PairEof, Serving, Looking
  <2> QED
    BY <2>1, RawClosesPair, ResetPairs
<1>9. CASE Answer
  <2> PICK fd \in Fds :
        /\ Serving(fd)
        /\ "WS_WAITING" \in flags[fd]
        /\ IF PeerWaits(fd)
           THEN /\ LowWrite(tunnel_pair[fd], {fd})
                /\ \E what \in {"tunnel", "close"} :
                     todo' = [do |-> what, fd |-> fd, peer |-> tunnel_pair[fd]]
           ELSE /\ Reset(TunnelCloseRaw(fd), {fd})
                /\ UNCHANGED todo
    BY <1>9 DEF Answer
  <2>1. todo = Nothing
    BY DEF Serving, Looking
  <2>2. CASE PeerWaits(fd)
    <3> DEFINE peer == tunnel_pair[fd]
    <3>1. peer \in Fds /\ "WS_PROXY_PENDING" \in flags[peer]
      BY <2>2 DEF PeerWaits, TypeOK
    <3>2. peer \notin remaining
      BY <2>1, <3>1 DEF PairInv, PendingDry, Nothing
    <3>3. todo'.peer = peer /\ todo'.fd = fd
      BY <2>2
    <3>4. UNCHANGED <<flags, tunnel_pair>> => TodoPair'
      BY <3>3 DEF TodoPair
    <3> QED
      BY <2>1, <2>2, <3>1, <3>2, <3>3, <3>4, LowWritePairs
  <2>3. CASE ~PeerWaits(fd)
    BY <2>1, <2>3, RawClosesPair, ResetPairs
  <2> QED
    BY <2>2, <2>3
<1>10. CASE AxilWsTunnel
  <2> DEFINE a == todo.peer
             b == todo.fd
  <2>1. a \in Fds /\ b \in Fds /\ todo # Nothing
    BY <1>10 DEF AxilWsTunnel, TypeOK, Nothing
  <2>2. tunnel_pair[b] = a /\ "WS_WAITING" \in flags[b]
    BY <2>1 DEF PairInv, TodoPair
  <2>3. a # b /\ tunnel_pair[a] = b
    BY <2>1, <2>2 DEF PairInv, PairsMutual
  <2>4. a \in live /\ b \in live
    BY <2>1, <2>2, <2>3 DEF PairInv, ClosedClean
  <2>5. /\ fds_active' = fds_active \cup {a, b}
        /\ flags' = [fd \in Fds |->
               IF fd \in {a, b}
               THEN (flags[fd] \ {"WS_WAITING", "WS_PROXY_PENDING"}) \cup {"TUNNEL"}
               ELSE flags[fd]]
        /\ tunnel_pair' = [tunnel_pair EXCEPT ![a] = b, ![b] = a]
        /\ todo' = Nothing
        /\ UNCHANGED <<live, remaining, opener>>
    BY <1>10 DEF AxilWsTunnel
  <2>6. tunnel_pair' = tunnel_pair
    BY <2>1, <2>2, <2>3, <2>5 DEF TypeOK
  <2>7. \A g \in Fds : Mode(g)' = IF g \in {a, b} THEN {"TUNNEL"} ELSE Mode(g)
    BY <2>5 DEF TypeOK, Mode, PairFlags
  <2>8. ClosedClean'
    BY <2>4, <2>5, <2>6, <2>7 DEF PairInv, ClosedClean
  <2>9. PairsMutual' /\ MatesPaired'
    BY <2>5, <2>6 DEF PairInv, PairsMutual, MatesPaired, Mates
  <2>10. Modes'
    <3>1. \A g \in Fds \ {a, b} : tunnel_pair[g] \notin {a, b}
      BY <2>1, <2>2, <2>3 DEF TypeOK, PairInv, PairsMutual
    <3> QED
      BY <2>1, <2>2, <2>3, <2>6, <2>7, <3>1 DEF TypeOK, PairInv, Modes
  <2>11. PendingDry'
    BY <2>1, <2>5 DEF PairInv, PendingDry
  <2>12. TodoPair' /\ Watched' /\ ResetsWholePairs
    BY <2>4, <2>5 DEF PairInv, TodoPair, Watched, ResetsWholePairs
  <2> QED
    BY <2>8, <2>9, <2>10, <2>11, <2>12 DEF PairInv
<1>11. CASE AnswerClose
  <2>1. todo # Nothing /\ todo.fd \in Fds /\ todo.peer \in Fds
    BY <1>11 DEF AnswerClose, TypeOK, Nothing
  <2>2. todo.peer \in TunnelCloseRaw(todo.fd)
    BY <2>1 DEF PairInv, TodoPair, TunnelCloseRaw
  <2> QED
    BY <1>11, <2>1, <2>2, RawClosesPair, ResetPairs DEF AnswerClose
<1>12. CASE Forward
  <2> PICK fd \in Fds :
        /\ Serving(fd)
        /\ "TUNNEL" \in flags[fd]
        /\ "WS_WAITING" \notin flags[fd]
        /\ IF tunnel_pair[fd] \in live \ {fd}
           THEN LowWrite(tunnel_pair[fd], {fd})
           ELSE Reset(TunnelCloseRaw(fd), {fd})
    BY <1>12 DEF Forward
  <2>1. todo = Nothing /\ todo' = Nothing
    BY <1>12 DEF Forward, Serving, Looking
  <2>2. CASE tunnel_pair[fd] \in live \ {fd}
    <3> DEFINE peer == tunnel_pair[fd]
    <3>1. peer \in Fds
      BY <2>2 DEF TypeOK
    <3>2. "TUNNEL" \in Mode(fd)
      BY DEF Mode, PairFlags
    <3>3. Mode(peer) = {"TUNNEL"}
      BY <3>1, <3>2 DEF PairInv, Modes
    <3>4. "WS_PROXY_PENDING" \notin flags[peer]
      BY <3>3 DEF Mode, PairFlags
    <3>5. TodoPair'
      BY <2>1 DEF TodoPair
    <3> QED
      BY <2>1, <2>2, <3>1, <3>4, <3>5, LowWritePairs
  <2>3. CASE tunnel_pair[fd] \notin live \ {fd}
    BY <2>1, <2>3, RawClosesPair, ResetPairs
  <2> QED
    BY <2>2, <2>3
<1> QED
  BY <1>1, <1>2, <1>3, <1>4, <1>5, <1>6, <1>7, <1>8, <1>9, <1>10, <1>11, <1>12 DEF Next

LEMMA PairsInvariant == ASSUME ~Pipelines PROVE Spec => [](TypeOK /\ PairInv)
<1>1. TypeOK /\ PairInv /\ [Next]_vars => (TypeOK /\ PairInv)'
  BY TypeNext, PairNext
<1> QED
  BY TypeInit, PairInit, <1>1, PTL DEF Spec

(* With clients that wait for their answers, both ends of a pair are open,   *)
(* name each other and were opened one for the other, whatever the kernel    *)
(* and the other end do: the claim of the comment in axil_close.             *)
THEOREM PairsHold == ASSUME ~Pipelines PROVE Spec => []PairsAgree
<1>1. TypeOK /\ PairInv => PairsAgree
  BY DEF TypeOK, PairInv, PairsMutual, ClosedClean, PairsAgree, Mates
<1> QED
  BY <1>1, PairsInvariant, PTL

(* Under the same assumption the modes of the two ends match, and no flag of *)
(* a pair is left on a descriptor without one.                               *)
THEOREM ModesHold == ASSUME ~Pipelines PROVE Spec => []ModesAgree
<1>1. TypeOK /\ PairInv => ModesAgree
  BY DEF TypeOK, PairInv, Modes, Mode, ModesAgree, PairFlags
<1> QED
  BY <1>1, PairsInvariant, PTL

(* And select never watches a closed descriptor nor misses an open one.      *)
THEOREM WatchedHolds == ASSUME ~Pipelines PROVE Spec => []Watched
<1>1. PairInv => Watched
  BY DEF PairInv
<1> QED
  BY <1>1, PairsInvariant, PTL

(* A reset takes down whole pairs and nobody else.                           *)
THEOREM PairsResetTogether ==
    ASSUME ~Pipelines PROVE Spec => OnlyMatesReset /\ MatesResetTogether
<1>1. TypeOK /\ PairInv /\ [Next]_vars
        => /\ [\A f, g \in live \ live' : f # g => Mates(f, g)]_vars
           /\ [\A f \in live \ live', g \in live : Mates(f, g) => g \notin live']_vars
  BY PairNext DEF ResetsWholePairs
<1> QED
  BY <1>1, PairsInvariant, PTL DEF Spec, OnlyMatesReset, MatesResetTogether

(* And no half of a pair is left. *)
THEOREM NoHalfSurvives == ASSUME ~Pipelines PROVE Spec => MatesResetTogether
  BY PairsResetTogether
=============================================================================
