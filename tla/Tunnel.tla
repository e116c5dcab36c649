------------------------------- MODULE Tunnel -------------------------------
(***************************************************************************)
(* The WebSocket proxy of libaxil.c: a client asks for an upgrade, the     *)
(* server opens an upstream socket and pairs both descriptors in           *)
(* tunnel_pair[]; when the upstream answers 101 the pair becomes a raw     *)
(* tunnel, and whatever ends one side tears the pair down.  Descriptors    *)
(* are numbers that the kernel hands out again as soon as they are closed, *)
(* and axil_main works through a snapshot of the ready ones (fds_read), so *)
(* an entry of tunnel_pair[] or a bit of fds_read that outlives its        *)
(* connection points at somebody else's.                                   *)
(*                                                                         *)
(* The thread's steps are those between two looks at the kernel: what a    *)
(* read returns, what a write takes, which number a new descriptor gets    *)
(* (any free one: modules open and close descriptors of their own).  TLS,  *)
(* commands run with axil_exec and externally watched descriptors are      *)
(* left out.                                                               *)
(***************************************************************************)
EXTENDS Integers

CONSTANTS
    NumFds,         \* descriptors below FD_SETSIZE, numbered from 1
    Pipelines,      \* a client may send before its last request is answered
    InheritsNonBlock \* accepted sockets inherit O_NONBLOCK (BSD, macOS, Windows)

ASSUME TunnelAssumption ==
    /\ NumFds \in Nat \ {0}
    /\ Pipelines \in BOOLEAN
    /\ InheritsNonBlock \in BOOLEAN

Fds == 1 .. NumFds
SRV == 0                 \* srv_fd, opened at startup: below every other number
INVALID == -1            \* INVALID_SOCKET

VARIABLES
    live,           \* open descriptors: descr_map[fd].fd = fd
    flags,          \* the DF_ flags that matter here, by descriptor
    tunnel_pair,
    fds_active,
    fds_read,       \* the bits of the snapshot not looked at yet
    remaining,      \* descriptors with bytes left in d->remaining
    opener,         \* history: the live client an upstream was opened for
    todo            \* what the thread does after the write it is in

vars == <<live, flags, tunnel_pair, fds_active, fds_read, remaining, opener, todo>>

PairFlags == {"TUNNEL", "WS_WAITING", "WS_PROXY_PENDING"}
Flags == PairFlags \cup {"TO_CLOSE"}
Nothing == [do |-> "nothing", fd |-> INVALID, peer |-> INVALID]

TypeOK ==
    /\ live \subseteq Fds
    /\ flags \in [Fds -> SUBSET Flags]
    /\ tunnel_pair \in [Fds -> Fds \cup {INVALID}]
    /\ fds_active \subseteq Fds
    /\ fds_read \subseteq Fds \cup {SRV}
    /\ remaining \subseteq Fds
    /\ opener \in [Fds -> Fds \cup {INVALID}]
    /\ todo \in {Nothing} \cup [do : {"tunnel", "close"}, fd : Fds, peer : Fds]

Init ==
    /\ live = {}
    /\ flags = [fd \in Fds |-> {}]
    /\ tunnel_pair = [fd \in Fds |-> INVALID]
    /\ fds_active = {}
    /\ fds_read = {}
    /\ remaining = {}
    /\ opener = [fd \in Fds |-> INVALID]
    /\ todo = Nothing
-----------------------------------------------------------------------------
NonBlocking(fd) == InheritsNonBlock \/ flags[fd] \cap {"TUNNEL", "WS_WAITING"} # {}

(* Mutants: one end reset without the other; a close that does not look at   *)
(* the flags of a pair.                                                      *)
TunnelCloseOne(fd) == {fd}
AxilCloseAlone(fd) == {fd}

(* What axil_tunnel_close_raw resets: the descriptor and its tunnel_pair[]   *)
(* entry, whoever that entry names by now.                                   *)
TunnelCloseRaw(fd) == {fd} \cup ({tunnel_pair[fd]} \ {INVALID})

(* What axil_close resets: the pair when a flag says there is one. *)
AxilClose(fd) == IF flags[fd] \cap PairFlags # {} THEN TunnelCloseRaw(fd) ELSE {fd}

(* Mutants: a reset that leaves the descriptor watched, or its bit in the    *)
(* snapshot.                                                                 *)
ResetStillWatched(S, served) ==
    /\ live' = live \ S
    /\ flags' = [fd \in Fds |-> IF fd \in S THEN {} ELSE flags[fd]]
    /\ tunnel_pair' = [fd \in Fds |-> IF fd \in S THEN INVALID ELSE tunnel_pair[fd]]
    /\ fds_read' = (fds_read \ served) \ S
    /\ remaining' = remaining \ S
    /\ opener' = [fd \in Fds |-> IF fd \in S \/ opener[fd] \in S THEN INVALID
                                 ELSE opener[fd]]
    /\ UNCHANGED fds_active

ResetStillReady(S, served) ==
    /\ live' = live \ S
    /\ flags' = [fd \in Fds |-> IF fd \in S THEN {} ELSE flags[fd]]
    /\ tunnel_pair' = [fd \in Fds |-> IF fd \in S THEN INVALID ELSE tunnel_pair[fd]]
    /\ fds_active' = fds_active \ S
    /\ fds_read' = fds_read \ served
    /\ remaining' = remaining \ S
    /\ opener' = [fd \in Fds |-> IF fd \in S \/ opener[fd] \in S THEN INVALID
                                 ELSE opener[fd]]

(* axil_raw_descr_reset (and the end of axil_close) of the descriptors in S, *)
(* in a step that has dealt with the bits of fds_read in served.             *)
Reset(S, served) ==
    /\ live' = live \ S
    /\ flags' = [fd \in Fds |-> IF fd \in S THEN {} ELSE flags[fd]]
    /\ tunnel_pair' = [fd \in Fds |-> IF fd \in S THEN INVALID ELSE tunnel_pair[fd]]
    /\ fds_active' = fds_active \ S
    /\ fds_read' = (fds_read \ served) \ S
    /\ remaining' = remaining \ S
    /\ opener' = [fd \in Fds |-> IF fd \in S \/ opener[fd] \in S THEN INVALID
                                 ELSE opener[fd]]

Served(served) == fds_read' = fds_read \ served

(* axil_low_write on a descriptor: everything is taken, or something is      *)
(* kept, or the flush of what was kept closes the descriptor, because it is  *)
(* marked or because the peer is gone.  A direct write that fails is lost    *)
(* and changes nothing.                                                      *)
LowWrite(fd, served) ==
    \/ /\ remaining' = remaining \ {fd}
       /\ ~(fd \in remaining /\ "TO_CLOSE" \in flags[fd])
       /\ Served(served)
       /\ UNCHANGED <<live, flags, tunnel_pair, fds_active, opener>>
    \/ /\ fd \in remaining \/ NonBlocking(fd)
       /\ remaining' = remaining \cup {fd}
       /\ Served(served)
       /\ UNCHANGED <<live, flags, tunnel_pair, fds_active, opener>>
    \/ /\ fd \in remaining
       /\ Reset(AxilClose(fd), served)
-----------------------------------------------------------------------------
(* The top of axil_main's loop. *)
AtTop == fds_read = {} /\ todo = Nothing

(* The flush of a descriptor with bytes left.  One that the kernel takes     *)
(* nothing of changes nothing, so that the order of the descriptors and the  *)
(* number of turns do not show.                                              *)
Flush ==
    /\ AtTop
    /\ \E fd \in remaining :
         \/ /\ "TO_CLOSE" \notin flags[fd]
            /\ remaining' = remaining \ {fd}
            /\ UNCHANGED <<live, flags, tunnel_pair, fds_active, fds_read, opener>>
         \/ Reset(AxilClose(fd), {})
    /\ UNCHANGED todo

Select ==
    /\ AtTop
    /\ fds_active \subseteq live
    /\ fds_read' \in SUBSET (fds_active \cup {SRV})
    /\ fds_read' # {}
    /\ UNCHANGED <<live, flags, tunnel_pair, fds_active, remaining, opener, todo>>

(* A timeout, EINTR, or EBADF when a closed descriptor is watched: the loop *)
(* goes round.                                                              *)
SelectFails ==
    /\ AtTop
    /\ UNCHANGED vars
-----------------------------------------------------------------------------
(* descr_proc_reads looks at the ready descriptors by number.  That the one  *)
(* looked at still is an open one (d->fd = i) is part of Serving.            *)
Looking(fd) == todo = Nothing /\ fd \in fds_read /\ \A g \in fds_read : fd <= g
Serving(fd) == Looking(fd) /\ fd \in live
IsClient(fd) == flags[fd] \cap {"TUNNEL", "WS_WAITING"} = {}

(* A client that waits for an answer sends nothing, unless it pipelines. *)
MaySend(fd) == Pipelines \/ (fd \notin remaining /\ "WS_PROXY_PENDING" \notin flags[fd])

(* descr_new.  tunnel_pair[] is not cleared.  With every number in use the   *)
(* new socket is closed at once.                                             *)
Accept ==
    /\ Looking(SRV)
    /\ \/ \E fd \in Fds \ live :
            /\ live' = live \cup {fd}
            /\ flags' = [flags EXCEPT ![fd] = {}]
            /\ fds_active' = fds_active \cup {fd}
            /\ remaining' = remaining \ {fd}
            /\ opener' = [opener EXCEPT ![fd] = INVALID]
       \/ live = Fds /\ UNCHANGED <<live, flags, fds_active, remaining, opener>>
    /\ Served({SRV})
    /\ UNCHANGED <<tunnel_pair, todo>>

(* A descriptor reset earlier in the pass; or bytes that make no request, or *)
(* an upgrade that names no upstream or no key, and leaves things as they    *)
(* are.                                                                      *)
Ignored ==
    /\ \E fd \in Fds :
         /\ Looking(fd)
         /\ fd \notin live \/ (IsClient(fd) /\ MaySend(fd))
         /\ Served({fd})
    /\ UNCHANGED <<live, flags, tunnel_pair, fds_active, remaining, opener, todo>>

ClientEof ==
    /\ \E fd \in Fds : Serving(fd) /\ IsClient(fd) /\ Reset(AxilClose(fd), {fd})
    /\ UNCHANGED todo

(* A plain request: the response is out and the descriptor closed, or it is  *)
(* marked and keeps the bytes the kernel did not take.                       *)
HttpRequest ==
    /\ \E fd \in Fds :
         /\ Serving(fd) /\ IsClient(fd) /\ MaySend(fd)
         /\ \/ Reset(AxilClose(fd), {fd})
            \/ /\ fd \in remaining \/ NonBlocking(fd)
               /\ remaining' = remaining \cup {fd}
               /\ flags' = [flags EXCEPT ![fd] = @ \cup {"TO_CLOSE"}]
               /\ Served({fd})
               /\ UNCHANGED <<live, tunnel_pair, fds_active, opener>>
    /\ UNCHANGED todo

(* request_handle with a websocket handler for the path: the upstream socket *)
(* is set up, paired and sent the request.                                   *)
WsRequest ==
    /\ \E fd \in Fds, up \in Fds \ live :
         /\ Serving(fd) /\ IsClient(fd) /\ MaySend(fd)
         /\ live' = live \cup {up}
         /\ tunnel_pair' = [tunnel_pair EXCEPT ![fd] = up, ![up] = fd]
         /\ flags' = [flags EXCEPT ![fd] = @ \cup {"WS_PROXY_PENDING"},
                                   ![up] = {"WS_WAITING", "WS_PROXY_PENDING"}]
         /\ fds_active' = fds_active \cup {up}
         /\ remaining' = remaining \ {up}
         /\ opener' = [opener EXCEPT ![up] = fd]
         /\ Served({fd})
    /\ UNCHANGED todo

(* The send to the upstream fails: axil_tunnel_close_raw of both, of which   *)
(* only the client was there before.                                         *)
WsRequestFails ==
    /\ Fds \ live # {}
    /\ \E fd \in Fds :
         /\ Serving(fd) /\ IsClient(fd) /\ MaySend(fd)
         /\ Reset({fd}, {fd})
    /\ UNCHANGED todo
-----------------------------------------------------------------------------
(* The upstream end closes, or fails, before it has answered or afterwards;  *)
(* or a client in tunnel mode does.                                          *)
PairEof ==
    /\ \E fd \in Fds : Serving(fd) /\ ~IsClient(fd) /\ Reset(TunnelCloseRaw(fd), {fd})
    /\ UNCHANGED todo

(* The peer that an upstream's answer is for is still there and waits for it. *)
PeerWaits(fd) ==
    LET peer == tunnel_pair[fd]
    IN /\ peer # INVALID
       /\ peer # fd
       /\ peer \in live
       /\ tunnel_pair[peer] = fd
       /\ "WS_PROXY_PENDING" \in flags[peer]

(* The answer of the upstream is forwarded, whatever it is; then the pair    *)
(* becomes a tunnel (101) or is torn down.                                   *)
Answer ==
    \E fd \in Fds :
      /\ Serving(fd)
      /\ "WS_WAITING" \in flags[fd]
      /\ IF PeerWaits(fd)
         THEN /\ LowWrite(tunnel_pair[fd], {fd})
              /\ \E what \in {"tunnel", "close"} :
                   todo' = [do |-> what, fd |-> fd, peer |-> tunnel_pair[fd]]
         ELSE /\ Reset(TunnelCloseRaw(fd), {fd})
              /\ UNCHANGED todo

(* Mutant: the client still counts as pending. *)
AxilWsTunnelPending ==
    /\ todo.do = "tunnel"
    /\ LET a == todo.peer
           b == todo.fd
       IN /\ fds_active' = fds_active \cup {a, b}
          /\ flags' = [flags EXCEPT ![a] = @ \cup {"TUNNEL"},
                                    ![b] = (@ \ {"WS_WAITING"}) \cup {"TUNNEL"}]
          /\ tunnel_pair' = [tunnel_pair EXCEPT ![a] = b, ![b] = a]
    /\ todo' = Nothing
    /\ UNCHANGED <<live, fds_read, remaining, opener>>

(* axil_ws_tunnel(peer, fd), with the two numbers read before the write. *)
AxilWsTunnel ==
    /\ todo.do = "tunnel"
    /\ LET a == todo.peer
           b == todo.fd
       IN /\ fds_active' = fds_active \cup {a, b}
          /\ flags' = [fd \in Fds |->
                 IF fd \in {a, b}
                 THEN (flags[fd] \ {"WS_WAITING", "WS_PROXY_PENDING"}) \cup {"TUNNEL"}
                 ELSE flags[fd]]
          /\ tunnel_pair' = [tunnel_pair EXCEPT ![a] = b, ![b] = a]
    /\ todo' = Nothing
    /\ UNCHANGED <<live, fds_read, remaining, opener>>

(* axil_tunnel_close_raw(fd) after an answer other than 101. *)
AnswerClose ==
    /\ todo.do = "close"
    /\ Reset(TunnelCloseRaw(todo.fd), {})
    /\ todo' = Nothing

(* Bytes read from one end of a tunnel are written to the other. *)
Forward ==
    /\ \E fd \in Fds :
         /\ Serving(fd)
         /\ "TUNNEL" \in flags[fd]
         /\ "WS_WAITING" \notin flags[fd]
         /\ IF tunnel_pair[fd] \in live \ {fd}
            THEN LowWrite(tunnel_pair[fd], {fd})
            ELSE Reset(TunnelCloseRaw(fd), {fd})
    /\ UNCHANGED todo
-----------------------------------------------------------------------------
Next ==
    \/ Flush \/ Select \/ SelectFails \/ Accept \/ Ignored \/ ClientEof
    \/ HttpRequest \/ WsRequest \/ WsRequestFails \/ PairEof \/ Answer
    \/ AxilWsTunnel \/ AnswerClose \/ Forward

Spec == Init /\ [][Next]_vars
-----------------------------------------------------------------------------
(* Both ends of a pair are open, name each other, and belong together: one   *)
(* was opened for the other.  (The comment in axil_close: no side survives   *)
(* with a stale tunnel_pair[] entry.)                                        *)
Mates(f, g) == opener[f] = g \/ opener[g] = f

PairsAgree ==
    todo = Nothing =>
      \A fd \in Fds : tunnel_pair[fd] # INVALID =>
        /\ fd \in live
        /\ tunnel_pair[fd] \in live
        /\ tunnel_pair[tunnel_pair[fd]] = fd
        /\ Mates(fd, tunnel_pair[fd])

(* The two ends are in the same mode: a waiting upstream has a client that   *)
(* is pending and not yet in a tunnel, a tunnel is one from both sides, and  *)
(* a flag of a pair is never left on a descriptor that has none.             *)
ModesAgree ==
    todo = Nothing =>
      \A fd \in Fds :
        LET peer == tunnel_pair[fd]
        IN flags[fd] \cap PairFlags # {} =>
             /\ peer # INVALID
             /\ "TUNNEL" \in flags[fd] <=> flags[peer] \cap PairFlags = {"TUNNEL"}
             /\ "WS_WAITING" \in flags[fd] => flags[peer] \cap PairFlags = {"WS_PROXY_PENDING"}

(* select watches the open descriptors, all of them and no others: a closed  *)
(* one would make every select fail with EBADF, an unwatched one would never *)
(* be read again.  (fds_active in descr_new, request_handle, axil_ws_tunnel  *)
(* and the two reset paths.)                                                 *)
Watched == fds_active = live

(* A descriptor that a step resets takes down the other end of its own pair  *)
(* and nobody else.  (axil_tunnel_close_raw, which trusts tunnel_pair[].)    *)
OnlyMatesReset ==
    [][\A f, g \in live \ live' : f # g => Mates(f, g)]_vars

(* And it does take it down: no half of a pair survives. *)
MatesResetTogether ==
    [][\A f \in live \ live', g \in live : Mates(f, g) => g \notin live']_vars

(* A number handed out again is not served for the readiness of the          *)
(* connection that had it before.  (FD_CLR of fds_read on every reset.)      *)
ReadinessIsFresh == [][\A fd \in live' \ live : fd \notin fds_read']_vars
=============================================================================
