----------------------------- MODULE ExecProofs -----------------------------
(***************************************************************************)
(* Proofs about Exec.  In a tame world, where sockets block and fork does  *)
(* not fail, the descriptor outlives the command it runs: nothing is ever  *)
(* held back, so no flush can close it under axil_exec_loop.  Hence the    *)
(* pid that is killed at the end is that of a command, and no command is   *)
(* left running; and a 500 is only sent for a command that said nothing.   *)
(* Both conditions are needed: TLC breaks the first two properties without *)
(* either.                                                                 *)
(*                                                                         *)
(* In every world, what a command has written is passed on while the       *)
(* descriptor names it (PipesInv): a descriptor that is closed under the   *)
(* loop names nobody any more, and its command is not let go of but lost.  *)
(***************************************************************************)
EXTENDS Exec, SequenceTheorems, TLAPS

USE ExecAssumption

(* Nothing is held back, and an open descriptor runs the last command.       *)
Steady ==
    /\ ~d.remaining
    /\ d.epid \in {0} \cup Commands
    /\ d.pipes = d.epid
    /\ d.open => d.epid = count
    /\ ~d.open => d = Closed

Descr ==
    [open : BOOLEAN, to_close : BOOLEAN, remaining : BOOLEAN, epid : Pids,
     pipes : {0} \cup Commands, total : BOOLEAN, wactive : BOOLEAN]

DType == d \in Descr

(* No command has a number that is still to come. *)
Future == \A c \in Commands : c > count => child[c] = "none"

ExecInv ==
    /\ DType
    /\ count \in 0 .. MaxCommands
    /\ child \in [Commands -> {"none", "running", "exited", "reaped"}]
    /\ Steady
    /\ Future
    /\ ChildOwned
    /\ KillsOwnCommand

LEMMA ExecInit == Init => ExecInv
  BY DEF Init, ExecInv, DType, Descr, Closed, Pids, Commands, Steady, Future, ChildOwned,
         KillsOwnCommand

LEMMA WritesNothingBack ==
    ASSUME Tame, NEW c, ~c.remaining
    PROVE  Writes(c) = {c}
  BY DEF Writes, Tame

(* The end of axil_exec_loop, with the descriptor still there. *)
LEMMA FinishSafe ==
    ASSUME Tame, ExecInv, InLoop, NEW written, Finish(Unmarked, written)
    PROVE  ExecInv'
<1> DEFINE u == Unmarked
<1>1. /\ u.open /\ ~u.remaining /\ u.epid = d.epid
      /\ d.epid = count /\ d.epid \in Commands
  BY DEF InLoop, Unmarked, ExecInv, DType, Descr, Steady
<1>2. Writes(u) = {u}
  BY <1>1, WritesNothingBack
<1>3. /\ killed' = killed \cup {Target(u.epid)}
      /\ child' = Reaped(u.epid)
      /\ d' = LetGo(u)
      /\ count' = count
  BY <1>2 DEF Finish
<1>4. d' = Closed
  BY <1>1, <1>3 DEF LetGo
<1>5. killed' = killed \cup {"command"}
  BY <1>1, <1>3 DEF Target, Commands
<1>6. \A p \in Commands : child'[p] = IF p = count THEN "reaped" ELSE child[p]
  BY <1>1, <1>3 DEF Reaped, Commands
<1>7. child' \in [Commands -> {"none", "running", "exited", "reaped"}]
  BY <1>3 DEF Reaped, ExecInv
<1>8. \A p \in Commands : child'[p] # "running"
  BY <1>1, <1>6 DEF ExecInv, ChildOwned
<1>9. DType'
  BY <1>4 DEF DType, Descr, Closed, Pids
<1>10. Steady'
  BY <1>4 DEF Steady, Closed
<1>11. Future'
  BY <1>3, <1>6 DEF ExecInv, Future, Commands
<1>12. ChildOwned' /\ KillsOwnCommand'
  BY <1>5, <1>8 DEF ExecInv, ChildOwned, KillsOwnCommand
<1> QED
  BY <1>3, <1>7, <1>9, <1>10, <1>11, <1>12 DEF ExecInv

LEMMA ExecNext ==
    ASSUME world \in Worlds, Tame, ExecInv, [Next]_vars
    PROVE  ExecInv'
<1>1. CASE AxilExec
  <2>1. count' \in Commands /\ count' = count + 1 /\ ~d.open
    BY <1>1 DEF AxilExec, ExecInv, Commands
  <2>2. /\ d' = [Closed EXCEPT !.open = TRUE, !.to_close = TRUE, !.remaining = FALSE,
                               !.epid = count', !.pipes = count', !.wactive = TRUE]
        /\ child' = [child EXCEPT ![count'] = "running"]
        /\ killed' = killed
    <3>1. PICK remaining \in {FALSE, world.nonblocking},
              fails \in {FALSE, world.forkFails}, s \in Scripts :
            /\ d' = [Closed EXCEPT !.open = TRUE,
                                   !.to_close = TRUE,
                                   !.remaining = remaining,
                                   !.epid = IF fails THEN -1 ELSE count',
                                   !.pipes = IF fails THEN 0 ELSE count',
                                   !.wactive = TRUE]
            /\ child' = [child EXCEPT ![count'] = IF fails THEN "none" ELSE "running"]
      BY <1>1 DEF AxilExec
    <3>2. world.nonblocking = FALSE /\ world.forkFails = FALSE
      BY DEF ExecAssumption, World, Tame
    <3>3. remaining = FALSE /\ fails = FALSE
      BY <3>2
    <3>4. killed' = killed
      BY <1>1 DEF AxilExec
    <3> QED
      BY <3>1, <3>3, <3>4
  <2>3. \A p \in Commands : child[p] # "running"
    BY <2>1 DEF ExecInv, ChildOwned, Steady, Closed, Commands
  <2>4. DType'
    BY <2>1, <2>2 DEF DType, Descr, Closed, Pids
  <2>5. Steady'
    BY <2>1, <2>2 DEF Steady, Closed
  <2>6. \A p \in Commands : child'[p] = IF p = count' THEN "running" ELSE child[p]
    BY <2>1, <2>2 DEF ExecInv
  <2>7. ChildOwned'
    BY <2>2, <2>3, <2>6 DEF ChildOwned, Closed
  <2>8. Future'
    BY <2>1, <2>6 DEF ExecInv, Future, Commands
  <2> QED
    BY <2>1, <2>2, <2>4, <2>5, <2>7, <2>8 DEF ExecInv, KillsOwnCommand, Commands
<1>2. CASE Flush
  BY <1>2 DEF Flush, ExecInv, Steady
<1>3. CASE ExecTimesOut
  <2>1. ~Unmarked.remaining
    BY DEF Unmarked, ExecInv, DType, Descr, Steady
  <2>2. Writes(Unmarked) = {Unmarked}
    BY <2>1, WritesNothingBack
  <2> QED
    BY <1>3, <2>2, FinishSafe DEF ExecTimesOut
<1>4. CASE ExecWaits
  <2>1. d' = [d EXCEPT !.to_close = FALSE] /\ d.open /\ UNCHANGED <<count, child, killed>>
    BY <1>4 DEF ExecWaits, InLoop, Unmarked
  <2> QED
    BY <2>1 DEF ExecInv, DType, Descr, Steady, Future, ChildOwned, KillsOwnCommand
<1>5. CASE ExecReads
  <2>1. ~Unmarked.remaining /\ Unmarked.open
    BY <1>5 DEF Unmarked, ExecInv, DType, Descr, Steady, ExecReads, InLoop
  <2>2. Writes(Unmarked) = {Unmarked}
    BY <2>1, WritesNothingBack
  <2>3. /\ d' = [Unmarked EXCEPT !.total = TRUE]
        /\ UNCHANGED <<count, child, killed>>
    BY <1>5, <2>1, <2>2 DEF ExecReads
  <2>4. d.open
    BY <1>5 DEF ExecReads, InLoop
  <2> QED
    BY <2>3, <2>4 DEF ExecInv, DType, Descr, Steady, Future, ChildOwned, KillsOwnCommand, Unmarked
<1>6. CASE ExecEnds \/ ExecSelectFails
  BY <1>6, FinishSafe DEF ExecEnds, ExecSelectFails
<1>7. CASE \E c \in Commands : ChildRuns(c)
  BY <1>7 DEF ChildRuns, ExecInv, DType, Descr, Steady, Future, ChildOwned, KillsOwnCommand
<1>8. CASE \E c \in Commands : ChildExits(c)
  <2> PICK c \in Commands : ChildExits(c)
    BY <1>8
  <2>1. /\ child[c] = "running"
        /\ child' = [child EXCEPT ![c] = "exited"]
        /\ UNCHANGED <<d, count, killed>>
    BY DEF ChildExits
  <2>2. Future' /\ ChildOwned'
    BY <2>1 DEF ExecInv, Future, ChildOwned
  <2> QED
    BY <2>1, <2>2 DEF ExecInv, DType, Descr, Steady, KillsOwnCommand
<1>9. CASE TimePasses \/ PeerGone \/ PeerStalls \/ UNCHANGED vars
  BY <1>9 DEF TimePasses, PeerGone, PeerStalls, vars, ExecInv, DType, Descr, Steady, Future,
     ChildOwned, KillsOwnCommand
<1> QED
  BY <1>1, <1>2, <1>3, <1>4, <1>5, <1>6, <1>7, <1>8, <1>9 DEF Next, ExecLoop

(* A world stays as it is. *)
LEMMA WorldStays == [Next]_vars => UNCHANGED world
  BY DEF Next, vars, AxilExec, Flush, ExecLoop, ExecTimesOut, ExecWaits, ExecReads,
         ExecEnds, ExecSelectFails, Finish, ChildRuns, ChildExits, TimePasses,
         PeerGone, PeerStalls

TameInv == world \in Worlds /\ (Tame => ExecInv)

LEMMA ExecInvariance == Spec => []TameInv
<1>1. Init => TameInv
  BY ExecInit DEF Init, TameInv
<1>2. TameInv /\ [Next]_vars => TameInv'
  BY ExecNext, WorldStays DEF TameInv, Tame
<1> QED
  BY <1>1, <1>2, PTL DEF Spec

(* No command is left running when its descriptor is reset, for every number *)
(* of commands and whatever they do, when sockets block and fork succeeds.   *)
THEOREM NoneLeftBehind == Spec => []ChildOwned
<1>1. TameInv => ChildOwned
  BY DEF TameInv, ExecInv, ChildOwned
<1> QED
  BY <1>1, ExecInvariance, PTL

(* And the process group killed is always that of a command. *)
THEOREM NobodyElseKilled == Spec => []KillsOwnCommand
<1>1. TameInv => KillsOwnCommand
  BY DEF TameInv, ExecInv, KillsOwnCommand
<1> QED
  BY <1>1, ExecInvariance, PTL
-----------------------------------------------------------------------------
(* What has been sent for a command: nothing while d->total is not set, and  *)
(* then its output, until axil_exec_loop is done with it.                    *)
Chunks == Nat \ {0}

Sending ==
    /\ done \in [Commands -> Nat]
    /\ out \in [Commands -> Seq(Chunks)]
    /\ response \in [Commands -> Seq(Int)]
    /\ \A c \in Commands : c > count => response[c] = <<>>
    /\ d.open /\ ~d.total => response[count] = <<>>
    /\ d.open => InternalError \notin ToSet(response[count])

SendInv == Sending /\ ErrorAlone

LEMMA SetOfJoined ==
    ASSUME NEW s \in Seq(Int), NEW t \in Seq(Int)
    PROVE  s \o t \in Seq(Int) /\ ToSet(s \o t) = ToSet(s) \cup ToSet(t)
<1>1. ToSet(s \o t) \subseteq ToSet(s) \cup ToSet(t)
  BY DEF ToSet
<1>2. \A i \in DOMAIN s : (s \o t)[i] = s[i] /\ i \in DOMAIN (s \o t)
  OBVIOUS
<1>3. \A i \in DOMAIN t : (s \o t)[Len(s) + i] = t[i] /\ Len(s) + i \in DOMAIN (s \o t)
  OBVIOUS
<1>4. ToSet(s) \subseteq ToSet(s \o t)
  BY <1>2 DEF ToSet
<1>5. ToSet(t) \subseteq ToSet(s \o t)
  BY <1>3 DEF ToSet
<1>6. s \o t \in Seq(Int)
  OBVIOUS
<1> QED
  BY <1>1, <1>4, <1>5, <1>6

LEMMA SendInit == Init => SendInv
<1> SUFFICES ASSUME Init PROVE SendInv
  OBVIOUS
<1>1. \A c \in Commands : response[c] = <<>> /\ ToSet(response[c]) = {}
  BY DEF Init, ToSet
<1> QED
  BY <1>1 DEF Init, SendInv, Sending, ErrorAlone, Closed, Chunks

(* A 500 is sent for a command that has said nothing, behind a 504 at most.  *)
LEMMA FinishSends ==
    ASSUME Tame, Tame', ExecInv, SendInv, InLoop,
           NEW written \in {<<>>, <<GatewayTimeout>>}, Finish(Unmarked, written)
    PROVE  SendInv'
<1> DEFINE u == Unmarked
           n == d.pipes
           last == IF ~u.total THEN <<InternalError>>
                   ELSE IF u.pipes # 0 /\ err[u.pipes] > 0 THEN <<StdErr>> ELSE <<>>
<1>1. /\ u.open /\ ~u.remaining /\ u.total = d.total
      /\ d.open /\ n = count /\ n \in Commands
  BY DEF InLoop, Unmarked, ExecInv, DType, Descr, Steady
<1>2. Writes(u) = {u}
  BY <1>1, WritesNothingBack
<1>3. n # 0
  BY <1>1 DEF Commands
<1>4. /\ d' = LetGo(u)
      /\ response' = [response EXCEPT ![n] = @ \o written \o last]
      /\ out' = [out EXCEPT ![n] = <<>>]
      /\ UNCHANGED <<count, done>>
  BY <1>2, <1>3 DEF Finish
<1>5. d' = Closed
  BY <1>1, <1>4 DEF LetGo
<1>6. written \in Seq(Int) /\ last \in Seq(Int) /\ response[n] \in Seq(Int)
  <2>1. written \in Seq(Int)
    <3>1. GatewayTimeout \in Int
      BY DEF GatewayTimeout
    <3>2. <<>> \in Seq(Int) /\ <<GatewayTimeout>> \in Seq(Int)
      BY <3>1
    <3> QED
      BY <3>2
  <2>2. last \in Seq(Int)
    BY DEF InternalError, StdErr
  <2>3. response[n] \in Seq(Int)
    BY <1>1 DEF SendInv, Sending
  <2> QED
    BY <2>1, <2>2, <2>3
<1>7. /\ response'[n] = response[n] \o written \o last
      /\ \A c \in Commands \ {n} : response'[c] = response[c]
  BY <1>1, <1>4 DEF SendInv, Sending
<1> HIDE DEF n, last
<1>8. /\ response'[n] \in Seq(Int)
      /\ ToSet(response'[n]) = ToSet(response[n]) \cup ToSet(written) \cup ToSet(last)
  <2> DEFINE s == response[n] \o written
  <2>1. s \in Seq(Int) /\ ToSet(s) = ToSet(response[n]) \cup ToSet(written)
    BY <1>6, SetOfJoined
  <2> HIDE DEF s
  <2>2. s \o last \in Seq(Int) /\ ToSet(s \o last) = ToSet(s) \cup ToSet(last)
    BY <1>6, <2>1, SetOfJoined
  <2>3. response'[n] = s \o last
    BY <1>7 DEF s
  <2> QED
    BY <2>1, <2>2, <2>3
<1> USE DEF n, last
<1>9. ToSet(written) \subseteq {GatewayTimeout} /\ InternalError \notin ToSet(written)
  BY DEF ToSet, GatewayTimeout, InternalError
<1>10. InternalError \in ToSet(response'[n]) => ToSet(response'[n]) \subseteq Statuses
  <2>1. CASE ~d.total
    <3>1. ToSet(response[n]) = {}
      BY <1>1, <2>1 DEF SendInv, Sending, ToSet
    <3>2. ToSet(last) = {InternalError}
      BY <1>1, <2>1 DEF ToSet
    <3> QED
      BY <1>8, <1>9, <3>1, <3>2 DEF Statuses
  <2>2. CASE d.total
    <3>1. InternalError \notin ToSet(last)
      BY <1>1, <2>2 DEF ToSet, InternalError, StdErr
    <3>2. InternalError \notin ToSet(response[n])
      BY <1>1 DEF SendInv, Sending
    <3> QED
      BY <1>8, <1>9, <3>1, <3>2
  <2> QED
    BY <1>1, <2>1, <2>2 DEF ExecInv, DType, Descr
<1>11. ErrorAlone'
  BY <1>7, <1>10 DEF SendInv, ErrorAlone
<1>12. Sending'
  <2>1. response' \in [Commands -> Seq(Int)]
    BY <1>1, <1>4, <1>7, <1>8 DEF SendInv, Sending
  <2>2. out' \in [Commands -> Seq(Chunks)]
    BY <1>1, <1>4 DEF SendInv, Sending
  <2>3. \A c \in Commands : c > count => c # n /\ response[c] = <<>>
    BY <1>1 DEF SendInv, Sending, Commands
  <2> QED
    BY <1>4, <1>5, <1>7, <2>1, <2>2, <2>3 DEF SendInv, Sending, Closed
<1> QED
  BY <1>11, <1>12 DEF SendInv

LEMMA SendNext ==
    ASSUME world \in Worlds, Tame, Tame', ExecInv, SendInv, [Next]_vars
    PROVE  SendInv'
<1> USE DEF SendInv
<1>1. CASE AxilExec
  <2>1. /\ count' = count + 1 /\ count' \in Commands
        /\ UNCHANGED <<done, out, response>>
        /\ response[count'] = <<>>
    BY <1>1 DEF AxilExec, ExecInv, Commands, Sending
  <2>2. ToSet(response[count']) = {}
    BY <2>1 DEF ToSet
  <2>3. \A c \in Commands : c > count' => c > count
    BY <2>1 DEF ExecInv, Commands
  <2> QED
    BY <2>1, <2>2, <2>3 DEF Sending, ErrorAlone
<1>2. CASE Flush
  BY <1>2 DEF Flush, ExecInv, Steady
<1>3. CASE ExecTimesOut
  <2>1. ~Unmarked.remaining
    BY DEF Unmarked, ExecInv, DType, Descr, Steady
  <2>2. Writes(Unmarked) = {Unmarked}
    BY <2>1, WritesNothingBack
  <2> QED
    BY <1>3, <2>2, FinishSends DEF ExecTimesOut
<1>4. CASE ExecWaits
  <2>1. /\ d' = [d EXCEPT !.to_close = FALSE] /\ d.open
        /\ UNCHANGED <<count, done, out, response>>
    BY <1>4 DEF ExecWaits, InLoop, Unmarked
  <2>2. d'.open = d.open /\ d'.total = d.total
    BY <2>1 DEF ExecInv, DType, Descr
  <2> QED
    BY <2>1, <2>2 DEF Sending, ErrorAlone
<1>5. CASE ExecReads
  <2>1. /\ ~Unmarked.remaining /\ Unmarked.open /\ d.open
        /\ d.pipes = count /\ count \in Commands
    BY <1>5 DEF Unmarked, ExecInv, DType, Descr, Steady, ExecReads, InLoop
  <2>2. Writes(Unmarked) = {Unmarked}
    BY <2>1, WritesNothingBack
  <2>3. /\ d' = [Unmarked EXCEPT !.total = TRUE]
        /\ response' = [response EXCEPT ![count] = @ \o out[count]]
        /\ out' = [out EXCEPT ![count] = <<>>]
        /\ UNCHANGED <<count, done>>
    BY <1>5, <2>1, <2>2 DEF ExecReads
  <2>4. d'.open /\ d'.total
    BY <2>3, <2>1 DEF Unmarked, ExecInv, DType, Descr
  <2>5. out[count] \in Seq(Int) /\ response[count] \in Seq(Int)
        /\ InternalError \notin ToSet(out[count])
    BY <2>1 DEF Sending, Chunks, ToSet, InternalError
  <2>6. /\ response'[count] = response[count] \o out[count]
        /\ \A c \in Commands \ {count} : response'[c] = response[c]
    BY <2>1, <2>3 DEF Sending
  <2>7. /\ response'[count] \in Seq(Int)
        /\ InternalError \notin ToSet(response'[count])
    BY <2>1, <2>5, <2>6, SetOfJoined DEF Sending
  <2>8. response' \in [Commands -> Seq(Int)] /\ out' \in [Commands -> Seq(Chunks)]
    BY <2>1, <2>3, <2>6, <2>7 DEF Sending
  <2>9. \A c \in Commands : c > count => c # count
    BY <2>1 DEF Commands
  <2> QED
    BY <2>3, <2>4, <2>6, <2>7, <2>8, <2>9 DEF Sending, ErrorAlone
<1>6. CASE ExecEnds \/ ExecSelectFails
  BY <1>6, FinishSends DEF ExecEnds, ExecSelectFails
<1>7. CASE \E c \in Commands : ChildRuns(c)
  <2>1. PICK c \in Commands : ChildRuns(c)
    BY <1>7
  <2>2. UNCHANGED <<d, count, response>>
    BY <2>1 DEF ChildRuns
  <2>3. done' \in [Commands -> Nat] /\ done'[c] \in Chunks
    BY <2>1 DEF ChildRuns, Sending, Chunks
  <2>4. out' = out \/ out' = [out EXCEPT ![c] = Append(@, done'[c])]
    BY <2>1 DEF ChildRuns
  <2>5. out' \in [Commands -> Seq(Chunks)]
    <3>1. out[c] \in Seq(Chunks)
      BY DEF Sending
    <3>2. Append(out[c], done'[c]) \in Seq(Chunks)
      BY <2>3, <3>1
    <3> QED
      BY <2>4, <3>2 DEF Sending
  <2> QED
    BY <2>2, <2>3, <2>5 DEF Sending, ErrorAlone
<1>8. CASE \E c \in Commands : ChildExits(c)
  BY <1>8 DEF ChildExits, Sending, ErrorAlone
<1>9. CASE TimePasses \/ PeerGone \/ PeerStalls \/ UNCHANGED vars
  BY <1>9 DEF TimePasses, PeerGone, PeerStalls, vars, Sending, ErrorAlone
<1> QED
  BY <1>1, <1>2, <1>3, <1>4, <1>5, <1>6, <1>7, <1>8, <1>9 DEF Next, ExecLoop

(* The 500 of axil_exec_loop never follows output of the command, for every  *)
(* command and every time it takes.                                          *)
THEOREM ErrorsAlone == Spec => []ErrorAlone
<1> DEFINE J == Tame => SendInv
<1>1. Init => J
  BY SendInit
<1>2. TameInv /\ J /\ [Next]_vars => J'
  BY SendNext, WorldStays DEF TameInv, Tame
<1>3. J => ErrorAlone
  BY DEF SendInv, ErrorAlone
<1> QED
  BY <1>1, <1>2, <1>3, ExecInvariance, PTL DEF Spec
-----------------------------------------------------------------------------
(* In every world: what has been passed on of the command that the           *)
(* descriptor names, with what is in its pipe, is what it has put there.     *)
Put(c) == {i \in 1 .. done[c] : script[c][i] = "out"}

Kept(c) ==
    /\ child[c] \in {"running", "exited"}
    /\ done[c] <= Len(script[c])
    /\ child[c] = "exited" => done[c] = Len(script[c])
    /\ Passed(response[c] \o out[c]) = Put(c)
    /\ InOrder(response[c] \o out[c])

(* A command that is still to come has done nothing. *)
Fresh ==
    \A c \in Commands : c > count =>
      child[c] = "none" /\ done[c] = 0 /\ out[c] = <<>> /\ response[c] = <<>>

(* Which command a descriptor names: the last one, none, or none there is.   *)
Named ==
    /\ DType
    /\ d.epid \in {-1, 0, count}
    /\ d.pipes = IF d.epid = -1 THEN 0 ELSE d.epid
    /\ ~d.open => d.epid = 0

PipesType ==
    /\ count \in 0 .. MaxCommands
    /\ child \in [Commands -> {"none", "running", "exited", "reaped"}]
    /\ script \in [Commands -> Seq({"out", "err"})]
    /\ done \in [Commands -> Nat]
    /\ out \in [Commands -> Seq(Int)]
    /\ response \in [Commands -> Seq(Int)]

PipesInv == PipesType /\ Named /\ Fresh /\ \A c \in Commands : d.epid = c => Kept(c)

(* What a write, or a flush, may do to the names: nothing, or end them.      *)
Kin(e, c) == e = Closed \/ (e.epid = c.epid /\ e.pipes = c.pipes /\ e.open = c.open)

(* A write or a flush leaves a descriptor, of the same names or of none. *)
LEMMA KinWrites ==
    ASSUME NEW c \in Descr
    PROVE  /\ Closed \in Descr
           /\ \A e \in Flushes(c) : e \in Descr /\ Kin(e, c)
           /\ \A e \in Writes(c) : e \in Descr /\ Kin(e, c)
<1>1. Closed \in Descr
  BY DEF Closed, Descr, Pids
<1>2. ASSUME NEW e \in Flushes(c) PROVE e \in Descr /\ Kin(e, c)
  <2>1. e = Closed \/ e = c \/ e = [c EXCEPT !.remaining = FALSE]
    BY DEF Flushes
  <2> QED
    BY <1>1, <2>1 DEF Descr, Kin
<1>3. ASSUME NEW e \in Descr, NEW g, g = e \/ g = [e EXCEPT !.remaining = TRUE]
      PROVE  g \in Descr /\ g.epid = e.epid /\ g.pipes = e.pipes /\ g.open = e.open
  BY <1>3 DEF Descr
<1>4. ASSUME NEW g \in Writes(c) PROVE g \in Descr /\ Kin(g, c)
  <2>1. CASE ~c.open \/ ~c.remaining
    <3>1. g = c \/ g = [c EXCEPT !.remaining = TRUE]
      BY <2>1 DEF Writes
    <3> QED
      BY <1>3, <3>1 DEF Kin
  <2>2. CASE c.open /\ c.remaining
    <3>1. PICK e \in Flushes(c) :
            g = e \/ (e.open /\ g = [e EXCEPT !.remaining = TRUE])
      BY <2>2 DEF Writes
    <3>2. e \in Descr /\ Kin(e, c)
      BY <1>2
    <3>3. CASE g = e
      BY <3>2, <3>3
    <3>4. CASE e.open /\ g = [e EXCEPT !.remaining = TRUE]
      <4>1. e # Closed
        BY <3>4 DEF Closed
      <4> QED
        BY <1>3, <3>2, <3>4, <4>1 DEF Kin
    <3> QED
      BY <3>1, <3>3, <3>4
  <2> QED
    BY <2>1, <2>2
<1> QED
  BY <1>1, <1>2, <1>4

(* The chunks among what is sent, when something is sent behind it. *)
LEMMA PassedJoined ==
    ASSUME NEW s \in Seq(Int), NEW t \in Seq(Int)
    PROVE  Passed(s \o t) = Passed(s) \cup Passed(t)
  BY SetOfJoined DEF Passed

(* What is not a chunk changes nothing of that. *)
LEMMA StatusBehind ==
    ASSUME NEW s \in Seq(Int), NEW t \in Seq(Int), \A i \in DOMAIN t : t[i] <= 0, InOrder(s)
    PROVE  Passed(s \o t) = Passed(s) /\ InOrder(s \o t)
<1>1. Passed(t) = {}
  BY DEF Passed, ToSet
<1>2. InOrder(s \o t)
  <2> SUFFICES ASSUME NEW i \in DOMAIN (s \o t), NEW j \in DOMAIN (s \o t), i < j,
                      (s \o t)[i] > 0, (s \o t)[j] > 0
               PROVE  (s \o t)[i] < (s \o t)[j]
    BY DEF InOrder
  <2>1. i \in 1 .. Len(s) + Len(t) /\ j \in 1 .. Len(s) + Len(t)
    OBVIOUS
  <2>2. j <= Len(s)
    <3> SUFFICES ASSUME j > Len(s) PROVE FALSE
      BY <2>1
    <3>1. (s \o t)[j] = t[j - Len(s)] /\ j - Len(s) \in DOMAIN t
      BY <2>1
    <3> QED
      BY <3>1
  <2>3. i \in DOMAIN s /\ j \in DOMAIN s /\ (s \o t)[i] = s[i] /\ (s \o t)[j] = s[j]
    BY <2>1, <2>2
  <2> QED
    BY <2>3 DEF InOrder
<1>3. Passed(s \o t) = Passed(s) \cup Passed(t)
  BY PassedJoined
<1> QED
  BY <1>1, <1>2, <1>3

(* A chunk that comes later goes behind those before. *)
LEMMA ChunkBehind ==
    ASSUME NEW s \in Seq(Int), NEW n \in Int, n > 0, \A t \in Passed(s) : t < n, InOrder(s)
    PROVE  Passed(Append(s, n)) = Passed(s) \cup {n} /\ InOrder(Append(s, n))
<1>1. Append(s, n) = s \o <<n>> /\ <<n>> \in Seq(Int)
  OBVIOUS
<1>2. Passed(<<n>>) = {n}
  BY DEF Passed, ToSet
<1>3. InOrder(Append(s, n))
  <2> SUFFICES ASSUME NEW i \in DOMAIN Append(s, n), NEW j \in DOMAIN Append(s, n), i < j,
                      Append(s, n)[i] > 0, Append(s, n)[j] > 0
               PROVE  Append(s, n)[i] < Append(s, n)[j]
    BY DEF InOrder
  <2>1. i \in 1 .. Len(s) /\ j \in 1 .. Len(s) + 1
    OBVIOUS
  <2>2. Append(s, n)[i] = s[i] /\ s[i] \in Passed(s)
    BY <2>1 DEF Passed, ToSet
  <2>3. CASE j = Len(s) + 1
    BY <2>2, <2>3
  <2>4. CASE j \in 1 .. Len(s)
    <3>1. Append(s, n)[j] = s[j]
      BY <2>4
    <3> QED
      BY <2>1, <2>2, <2>4, <3>1 DEF InOrder
  <2> QED
    BY <2>1, <2>3, <2>4
<1> QED
  BY <1>1, <1>2, <1>3, PassedJoined

(* In the pipe it is behind what has been passed on, too. *)
LEMMA AppendBehind ==
    ASSUME NEW r \in Seq(Int), NEW o \in Seq(Int), NEW n \in Nat
    PROVE  r \o Append(o, n) = Append(r \o o, n)
<1>1. Append(o, n) = o \o <<n>>
  OBVIOUS
<1>2. r \o o \in Seq(Int) /\ <<n>> \in Seq(Int)
  OBVIOUS
<1>3. Append(r \o o, n) = (r \o o) \o <<n>>
  BY <1>2, AppendIsConcat
<1>4. (r \o o) \o <<n>> = r \o (o \o <<n>>)
  BY <1>2, ConcatAssociative
<1> QED
  BY <1>1, <1>3, <1>4

(* The end of axil_exec_loop takes the name away. *)
LEMMA FinishNames ==
    ASSUME PipesInv, NEW c \in Descr, Kin(c, d),
           NEW written \in {<<>>, <<GatewayTimeout>>}, Finish(c, written)
    PROVE  /\ PipesInv'
           /\ \A p \in Commands :
                d.epid = p /\ child'[p] = "reaped" =>
                  \E last \in Seq(Int) :
                    /\ \A i \in DOMAIN last : last[i] <= 0
                    /\ response'[p] = response[p] \o written \o last
<1> DEFINE n == d.pipes
           last == IF ~c.total THEN <<InternalError>>
                   ELSE IF c.pipes # 0 /\ err[c.pipes] > 0 THEN <<StdErr>> ELSE <<>>
<1>1. /\ PipesType /\ Named /\ Fresh /\ d \in Descr
  BY DEF PipesInv, Named, DType
<1>2. PICK e \in (IF last = <<>> THEN {c} ELSE Writes(c)) :
        /\ killed' = killed \cup {Target(e.epid)}
        /\ child' = Reaped(e.epid)
        /\ d' = LetGo(e)
        /\ IF n = 0
           THEN UNCHANGED <<out, err, response>>
           ELSE /\ response' = [response EXCEPT ![n] = @ \o written \o last]
                /\ err' = [err EXCEPT ![n] = 0]
                /\ out' = [out EXCEPT ![n] = <<>>]
        /\ UNCHANGED <<world, count, script, done, late, peer>>
  BY DEF Finish
<1>3. e \in Descr /\ e.epid \in {0, d.epid}
  BY <1>2, KinWrites DEF Kin, Closed
<1>4. last \in Seq(Int) /\ \A i \in DOMAIN last : last[i] <= 0
  BY DEF InternalError, StdErr
<1>5. written \in Seq(Int)
  <2>1. GatewayTimeout \in Int
    BY DEF GatewayTimeout
  <2>2. <<>> \in Seq(Int) /\ <<GatewayTimeout>> \in Seq(Int)
    BY <2>1
  <2> QED
    BY <2>2
<1>6. n \in {0, count} /\ n \in {0} \cup Commands
  BY <1>1 DEF Named, Descr, Commands
<1> HIDE DEF last, n
<1>7. Named'
  <2>1. d' \in Descr /\ d'.epid = 0 /\ d'.pipes = 0
    <3>1. Closed \in Descr /\ Closed.epid = 0 /\ Closed.pipes = 0
      BY KinWrites DEF Closed
    <3> QED
      BY <1>2, <1>3, <3>1 DEF LetGo, Descr, Pids
  <2> QED
    BY <2>1 DEF Named, DType
<1>8. /\ child' \in [Commands -> {"none", "running", "exited", "reaped"}]
      /\ \A p \in Commands : p > count => child'[p] = "none"
  <2>1. child' = [p \in Commands |->
          IF p = e.epid \/ (e.epid = -1 /\ child[p] = "exited") THEN "reaped" ELSE child[p]]
    BY <1>2 DEF Reaped
  <2>2. child \in [Commands -> {"none", "running", "exited", "reaped"}]
    BY <1>1 DEF PipesType
  <2>3. ASSUME NEW p \in Commands, p > count PROVE child'[p] = "none"
    <3>1. child[p] = "none" /\ p # e.epid
      <4>1. child[p] = "none"
        BY <1>1, <2>3 DEF Fresh
      <4>2. e.epid \in {0, -1, count}
        BY <1>1, <1>3 DEF Named
      <4>3. p \in Nat \ {0} /\ p # count
        BY <2>3 DEF Commands
      <4> QED
        BY <4>1, <4>2, <4>3
    <3> QED
      BY <2>1, <3>1
  <2> QED
    BY <2>1, <2>2, <2>3
<1>9. response' \in [Commands -> Seq(Int)] /\ out' \in [Commands -> Seq(Int)]
  <2>1. CASE n = 0
    BY <1>1, <1>2, <2>1 DEF PipesType
  <2>2. CASE n # 0
    <3>1. n \in Commands
      BY <1>6, <2>2
    <3>2. response[n] \in Seq(Int)
      BY <1>1, <3>1 DEF PipesType
    <3>3. response[n] \o written \in Seq(Int)
      BY <1>5, <3>2, SetOfJoined
    <3>4. response[n] \o written \o last \in Seq(Int)
      BY <1>4, <3>3, SetOfJoined
    <3>5. <<>> \in Seq(Int)
      OBVIOUS
    <3> QED
      BY <1>1, <1>2, <2>2, <3>1, <3>4, <3>5 DEF PipesType
  <2> QED
    BY <2>1, <2>2
<1>10. \A p \in Commands : p # n => response'[p] = response[p] /\ out'[p] = out[p]
  BY <1>1, <1>2 DEF PipesType
<1>11. PipesType' /\ Fresh'
  <2>1. PipesType'
    BY <1>1, <1>2, <1>8, <1>9 DEF PipesType
  <2>2. ASSUME NEW p \in Commands, p > count
        PROVE  child'[p] = "none" /\ done'[p] = 0 /\ out'[p] = <<>> /\ response'[p] = <<>>
    <3>1. p # n
      BY <1>1, <1>6, <2>2 DEF PipesType, Commands
    <3> QED
      BY <1>1, <1>2, <1>8, <1>10, <2>2, <3>1 DEF Fresh
  <2> QED
    BY <1>2, <2>1, <2>2 DEF Fresh
<1>12. PipesInv'
  <2>1. d'.epid \notin Commands
    BY <1>2 DEF LetGo, Closed, Commands
  <2> QED
    BY <1>7, <1>11, <2>1 DEF PipesInv
<1>13. ASSUME NEW p \in Commands, d.epid = p
       PROVE  response'[p] = response[p] \o written \o last
  <2>1. n = p /\ p # 0
    BY <1>1, <1>13 DEF Named, Commands, n
  <2> QED
    BY <1>1, <1>2, <2>1 DEF PipesType
<1> QED
  BY <1>4, <1>12, <1>13

(* Before the first command. *)
LEMMA PipesInit == Init => PipesInv
<1> SUFFICES ASSUME Init PROVE PipesInv
  OBVIOUS
<1>1. /\ d = Closed /\ count = 0 /\ child = [c \in Commands |-> "none"]
      /\ script = [c \in Commands |-> <<>>] /\ done = [c \in Commands |-> 0]
      /\ out = [c \in Commands |-> <<>>] /\ response = [c \in Commands |-> <<>>]
  BY DEF Init
<1>2. PipesType
  BY <1>1 DEF PipesType
<1>3. Named
  <2>1. Closed \in Descr
    BY DEF Closed, Descr, Pids
  <2>2. Closed.epid = 0 /\ Closed.pipes = 0
    BY DEF Closed
  <2> QED
    BY <1>1, <2>1, <2>2 DEF Named, DType
<1>4. Fresh /\ d.epid \notin Commands
  BY <1>1 DEF Fresh, Closed, Commands
<1> QED
  BY <1>2, <1>3, <1>4 DEF PipesInv

(* A step that leaves the pipes alone, and the name or takes it away. *)
LEMMA NamesKept ==
    ASSUME PipesInv, d' \in Descr, Kin(d', d),
           UNCHANGED <<count, child, script, done, out, response>>
    PROVE  PipesInv'
<1>1. Named'
  BY DEF PipesInv, Named, DType, Kin, Closed
<1>2. d'.epid \in {0, d.epid}
  BY DEF Kin, Closed
<1>3. ASSUME NEW c \in Commands, d'.epid = c PROVE Kept(c)'
  <2>1. Kept(c)
    BY <1>2, <1>3 DEF PipesInv, Commands
  <2> QED
    BY <2>1 DEF Kept, Put
<1> QED
  BY <1>1, <1>3 DEF PipesInv, PipesType, Fresh

(* So do the top of axil_exec_loop and the write of its callback. *)
LEMMA UnmarkedIs ==
    ASSUME PipesInv
    PROVE  /\ d \in Descr /\ Unmarked \in Descr /\ Kin(Unmarked, d)
           /\ \A e \in Writes(Unmarked) : e \in Descr /\ Kin(e, d)
<1>1. d \in Descr
  BY DEF PipesInv, Named, DType
<1>2. /\ Unmarked \in Descr /\ Unmarked.epid = d.epid
      /\ Unmarked.pipes = d.pipes /\ Unmarked.open = d.open
  BY <1>1 DEF Unmarked, Descr
<1> QED
  BY <1>1, <1>2, KinWrites DEF Kin

(* Every step keeps what is said of the pipes. *)
LEMMA PipesNext ==
    ASSUME world \in Worlds, PipesInv, [Next]_vars
    PROVE  PipesInv'
<1>t. PipesType /\ Named /\ Fresh /\ d \in Descr
  BY DEF PipesInv, Named, DType
<1>1. CASE AxilExec
  <2>1. /\ count' = count + 1 /\ count' \in Commands /\ UNCHANGED <<done, out, response>>
    BY <1>1, <1>t DEF AxilExec, Commands, PipesType
  <2>2. PICK remaining \in {FALSE, world.nonblocking},
             fails \in {FALSE, world.forkFails}, s \in Scripts :
           /\ d' = [Closed EXCEPT !.open = TRUE,
                                  !.to_close = TRUE,
                                  !.remaining = remaining,
                                  !.epid = IF fails THEN -1 ELSE count',
                                  !.pipes = IF fails THEN 0 ELSE count',
                                  !.wactive = TRUE]
           /\ child' = [child EXCEPT ![count'] = IF fails THEN "none" ELSE "running"]
           /\ script' = [script EXCEPT ![count'] = s]
    BY <1>1 DEF AxilExec
  <2>3. remaining \in BOOLEAN /\ fails \in BOOLEAN /\ s \in Seq({"out", "err"})
    BY DEF ExecAssumption, World
  <2>4. d' \in Descr /\ d'.open /\ d'.epid = (IF fails THEN -1 ELSE count')
        /\ d'.pipes = (IF fails THEN 0 ELSE count')
    BY <2>1, <2>2, <2>3 DEF Closed, Descr, Pids
  <2>5. Named'
    BY <2>1, <2>4 DEF Named, DType, Commands
  <2>6. PipesType'
    BY <1>t, <2>1, <2>2, <2>3 DEF PipesType, Commands
  <2>7. Fresh'
    <3> SUFFICES ASSUME NEW c \in Commands, c > count'
                 PROVE  child'[c] = "none" /\ done'[c] = 0 /\ out'[c] = <<>> /\ response'[c] = <<>>
      BY DEF Fresh
    <3>1. c > count /\ c # count'
      BY <2>1, <1>t DEF Commands, PipesType
    <3> QED
      BY <1>t, <2>1, <2>2, <3>1 DEF Fresh, PipesType
  <2>8. ASSUME NEW c \in Commands, d'.epid = c PROVE Kept(c)'
    <3>1. c = count' /\ ~fails /\ c > count
      <4>1. c # -1 /\ count \in Nat
        BY <1>t DEF Commands, PipesType
      <4>2. ~fails /\ c = count'
        BY <2>3, <2>4, <2>8, <4>1
      <4> QED
        BY <2>1, <4>1, <4>2
    <3>2. child'[c] = "running" /\ done'[c] = 0 /\ out'[c] = <<>> /\ response'[c] = <<>>
      BY <1>t, <2>1, <2>2, <3>1 DEF Fresh, PipesType
    <3>3. script'[c] \in Seq({"out", "err"})
      BY <2>6 DEF PipesType
    <3>4. <<>> \o <<>> = <<>> /\ Passed(<<>>) = {} /\ InOrder(<<>>)
      BY DEF Passed, InOrder, ToSet
    <3>5. Put(c)' = {}
      BY <3>2 DEF Put
    <3> QED
      BY <3>2, <3>3, <3>4, <3>5, LenProperties DEF Kept
  <2> QED
    BY <2>5, <2>6, <2>7, <2>8 DEF PipesInv
<1>2. CASE Flush
  <2>1. d' \in Descr /\ Kin(d', d)
    BY <1>2, <1>t, KinWrites DEF Flush
  <2> QED
    BY <1>2, <2>1, NamesKept DEF Flush
<1>3. CASE ExecTimesOut
  <2>1. PICK c \in Writes(Unmarked) : Finish(c, <<GatewayTimeout>>)
    BY <1>3 DEF ExecTimesOut
  <2> QED
    BY <2>1, UnmarkedIs, FinishNames
<1>4. CASE ExecWaits
  BY <1>4, UnmarkedIs, NamesKept DEF ExecWaits
<1>5. CASE ExecReads
  <2> DEFINE n == d.pipes
  <2>1. n \in Commands /\ n = d.epid /\ n = count
    BY <1>5, <1>t DEF ExecReads, Named, Descr
  <2>2. PICK e \in Writes(Unmarked) : d' = IF e.open THEN [e EXCEPT !.total = TRUE] ELSE e
    BY <1>5 DEF ExecReads
  <2>3. d' \in Descr /\ Kin(d', d)
    <3>1. e \in Descr /\ Kin(e, d)
      BY UnmarkedIs
    <3>2. CASE e.open
      <4>1. e.epid = d.epid /\ e.pipes = d.pipes /\ e.open = d.open
        <5>1. e # Closed
          BY <3>2 DEF Closed
        <5> QED
          BY <3>1, <5>1 DEF Kin
      <4>2. d' \in Descr /\ d'.epid = e.epid /\ d'.pipes = e.pipes /\ d'.open = e.open
        BY <2>2, <3>1, <3>2 DEF Descr
      <4> QED
        BY <4>1, <4>2 DEF Kin
    <3>3. CASE ~e.open
      BY <2>2, <3>1, <3>3
    <3> QED
      BY <3>2, <3>3
  <2>4. /\ response' = [response EXCEPT ![n] = @ \o out[n]]
        /\ out' = [out EXCEPT ![n] = <<>>]
        /\ UNCHANGED <<count, child, script, done>>
    BY <1>5 DEF ExecReads
  <2>5. Kept(n)
    BY <2>1 DEF PipesInv
  <2> HIDE DEF n
  <2>6. response[n] \in Seq(Int) /\ out[n] \in Seq(Int)
    BY <1>t, <2>1 DEF PipesType
  <2>7. /\ response[n] \o out[n] \in Seq(Int)
        /\ (response[n] \o out[n]) \o <<>> = response[n] \o out[n]
    BY <2>6, SetOfJoined, ConcatEmptySeq
  <2>8. response'[n] = response[n] \o out[n] /\ out'[n] = <<>>
    BY <1>t, <2>1, <2>4 DEF PipesType
  <2>9. PipesType'
    BY <1>t, <2>1, <2>4, <2>7, EmptySeq DEF PipesType
  <2>10. Fresh'
    <3>1. \A c \in Commands : c > count => c # n
      BY <1>t, <2>1 DEF Commands, PipesType
    <3> QED
      BY <1>t, <2>4, <3>1 DEF Fresh, PipesType
  <2>11. Named'
    BY <1>t, <2>3, <2>4 DEF Named, DType, Kin, Closed
  <2>12. ASSUME NEW p \in Commands, d'.epid = p PROVE Kept(p)'
    <3>1. p = n
      BY <2>1, <2>3, <2>12 DEF Kin, Closed, Commands
    <3>2. response'[p] \o out'[p] = response[p] \o out[p]
      BY <2>7, <2>8, <3>1
    <3>3. Put(p)' = Put(p)
      BY <2>4 DEF Put
    <3> QED
      BY <2>4, <2>5, <3>1, <3>2, <3>3 DEF Kept
  <2> QED
    BY <2>9, <2>10, <2>11, <2>12 DEF PipesInv
<1>6. CASE ExecEnds \/ ExecSelectFails
  <2>1. Finish(Unmarked, <<>>)
    BY <1>6 DEF ExecEnds, ExecSelectFails
  <2> QED
    BY <2>1, UnmarkedIs, FinishNames
<1>7. ASSUME NEW c \in Commands, ChildRuns(c) PROVE PipesInv'
  <2> DEFINE m == done[c] + 1
  <2>1. /\ child[c] = "running" /\ done[c] < Len(script[c])
        /\ UNCHANGED <<world, d, count, child, script, response, late, peer, killed>>
    BY <1>7 DEF ChildRuns
  <2>2. /\ done[c] \in Nat /\ m \in Nat
        /\ Len(script[c]) \in Nat /\ script[c] \in Seq({"out", "err"})
        /\ out[c] \in Seq(Int) /\ response[c] \in Seq(Int)
    BY <1>t, LenProperties DEF PipesType
  <2>3. done' \in [Commands -> Nat] /\ done' = [done EXCEPT ![c] = m] /\ done'[c] = m
    BY <1>t, <1>7, <2>2 DEF ChildRuns, PipesType
  <2>4. IF script[c][m] = "out" THEN out' = [out EXCEPT ![c] = Append(@, m)] ELSE out' = out
    BY <1>7, <2>3 DEF ChildRuns
  <2> HIDE DEF m
  <2>5. Append(out[c], m) \in Seq(Int)
    BY <2>2
  <2>6. PipesType'
    BY <1>t, <2>1, <2>3, <2>4, <2>5 DEF PipesType
  <2>7. ~(c > count)
    BY <1>t, <2>1 DEF Fresh
  <2>8. Fresh'
    BY <1>t, <2>1, <2>3, <2>4, <2>7 DEF Fresh, PipesType
  <2>9. Named'
    BY <1>t, <2>1 DEF Named, DType
  <2>10. ASSUME NEW p \in Commands, d'.epid = p PROVE Kept(p)'
    <3>1. Kept(p)
      BY <2>1, <2>10 DEF PipesInv
    <3>2. CASE p # c
      <4>1. done'[p] = done[p] /\ out'[p] = out[p]
        BY <1>t, <2>3, <2>4, <3>2 DEF PipesType
      <4>2. Put(p)' = Put(p)
        BY <2>1, <4>1 DEF Put
      <4> QED
        BY <2>1, <3>1, <4>1, <4>2 DEF Kept
    <3>3. CASE p = c
      <4> DEFINE s == response[c] \o out[c]
      <4>1. s \in Seq(Int) /\ Passed(s) = Put(c) /\ InOrder(s)
        BY <2>2, <3>1, <3>3, SetOfJoined DEF Kept
      <4>2. m <= Len(script[c]) /\ m > 0 /\ m = done[c] + 1
        BY <2>1, <2>2 DEF m
      <4>3. Put(c)' = Put(c) \cup (IF script[c][m] = "out" THEN {m} ELSE {})
        <5>1. 1 .. m = (1 .. done[c]) \cup {m} /\ m \notin 1 .. done[c]
          BY <2>2, <4>2
        <5> QED
          BY <2>1, <2>3, <5>1 DEF Put
      <4>4. \A t \in Passed(s) : t < m
        BY <2>2, <4>1, <4>2 DEF Put
      <4>5. Passed(response'[c] \o out'[c]) = Put(c)' /\ InOrder(response'[c] \o out'[c])
        <5>1. CASE script[c][m] = "out"
          <6>1. response'[c] = response[c] /\ out'[c] = Append(out[c], m)
            BY <1>t, <2>1, <2>4, <5>1 DEF PipesType
          <6>2. response[c] \o Append(out[c], m) = Append(s, m)
            BY <2>2, AppendBehind
          <6> HIDE DEF s
          <6>3. Passed(Append(s, m)) = Passed(s) \cup {m} /\ InOrder(Append(s, m))
            BY <2>2, <4>1, <4>2, <4>4, ChunkBehind
          <6> QED
            BY <4>1, <4>3, <5>1, <6>1, <6>2, <6>3
        <5>2. CASE script[c][m] # "out"
          BY <2>1, <2>4, <4>1, <4>3, <5>2
        <5> QED
          BY <5>1, <5>2
      <4>6. child'[c] = "running" /\ done'[c] <= Len(script'[c])
        BY <2>1, <2>3, <4>2
      <4> QED
        BY <3>3, <4>5, <4>6 DEF Kept
    <3> QED
      BY <3>2, <3>3
  <2> QED
    BY <2>6, <2>8, <2>9, <2>10 DEF PipesInv
<1>8. ASSUME NEW c \in Commands, ChildExits(c) PROVE PipesInv'
  <2>1. /\ child[c] = "running" /\ done[c] = Len(script[c])
        /\ child' = [child EXCEPT ![c] = "exited"]
        /\ UNCHANGED <<world, d, count, script, done, out, err, response, late, peer, killed>>
    BY <1>8 DEF ChildExits
  <2>2. PipesType' /\ Named'
    BY <1>t, <2>1 DEF PipesType, Named, DType
  <2>3. ~(c > count)
    BY <1>t, <2>1 DEF Fresh
  <2>4. Fresh'
    BY <1>t, <2>1, <2>3 DEF Fresh, PipesType
  <2>5. ASSUME NEW p \in Commands, d'.epid = p PROVE Kept(p)'
    <3>1. Kept(p)
      BY <2>1, <2>5 DEF PipesInv
    <3>2. child'[p] = (IF p = c THEN "exited" ELSE child[p])
      BY <1>t, <2>1 DEF PipesType
    <3>3. Put(p)' = Put(p)
      BY <2>1 DEF Put
    <3> QED
      BY <2>1, <3>1, <3>2, <3>3 DEF Kept
  <2> QED
    BY <2>2, <2>4, <2>5 DEF PipesInv
<1>9. CASE TimePasses \/ PeerGone \/ PeerStalls \/ UNCHANGED vars
  <2>1. UNCHANGED <<d, count, child, script, done, out, response>>
    BY <1>9 DEF TimePasses, PeerGone, PeerStalls, vars
  <2>2. Kin(d', d)
    BY <2>1 DEF Kin
  <2> QED
    BY <1>t, <2>1, <2>2, NamesKept
<1> QED
  BY <1>1, <1>2, <1>3, <1>4, <1>5, <1>6, <1>7, <1>8, <1>9 DEF Next, ExecLoop

(* The only step that lets go of a command in time finds its pipe empty and *)
(* the command at its end.                                                   *)
LEMMA CompleteNext ==
    ASSUME PipesInv, Next, NEW c \in Commands, d.epid = c, child'[c] = "reaped", ~late
    PROVE  Passed(response'[c]) = OutputOf(c) /\ InOrder(response'[c])
<1>1. /\ PipesType /\ Named /\ Kept(c) /\ d.pipes = c /\ c # 0 /\ d.open
  BY DEF PipesInv, Named, Commands
<1>2. child[c] # "reaped"
  BY <1>1 DEF Kept
<1>3. CASE ExecEnds
  <2>1. child[c] = "exited" /\ out[c] = <<>> /\ Finish(Unmarked, <<>>)
    BY <1>1, <1>3 DEF ExecEnds, Kept
  <2>2. PICK last \in Seq(Int) :
          /\ \A i \in DOMAIN last : last[i] <= 0
          /\ response'[c] = response[c] \o <<>> \o last
    BY <2>1, UnmarkedIs, FinishNames
  <2>3. response[c] \in Seq(Int) /\ response[c] \o <<>> = response[c]
    BY <1>1, ConcatEmptySeq DEF PipesType
  <2>4. Passed(response[c]) = Put(c) /\ InOrder(response[c])
    BY <1>1, <2>1, <2>3 DEF Kept
  <2>5. Passed(response'[c]) = Passed(response[c]) /\ InOrder(response'[c])
    BY <2>2, <2>3, <2>4, StatusBehind
  <2>6. Put(c) = OutputOf(c)
    <3>1. done[c] = Len(script[c]) /\ DOMAIN script[c] = 1 .. Len(script[c])
      BY <1>1, <2>1, LenProperties DEF Kept, PipesType
    <3> QED
      BY <3>1 DEF Put, OutputOf
  <2> QED
    BY <2>4, <2>5, <2>6
<1>4. CASE ExecTimesOut \/ ExecSelectFails
  BY <1>1, <1>4 DEF ExecTimesOut, ExecSelectFails
<1>5. CASE AxilExec
  BY <1>1, <1>5 DEF AxilExec
<1>6. CASE \E p \in Commands : ChildExits(p)
  BY <1>1, <1>2, <1>6 DEF ChildExits, PipesType
<1>7. CASE Flush \/ ExecWaits \/ ExecReads \/ \E p \in Commands : ChildRuns(p)
  BY <1>2, <1>7 DEF Flush, ExecWaits, ExecReads, ChildRuns
<1>8. CASE TimePasses \/ PeerGone \/ PeerStalls
  BY <1>2, <1>8 DEF TimePasses, PeerGone, PeerStalls
<1> QED
  BY <1>3, <1>4, <1>5, <1>6, <1>7, <1>8 DEF Next, ExecLoop

(* A command that ends by itself and in time has its whole output passed on, *)
(* each chunk once and in order, before axil_exec_loop lets go of it: for    *)
(* every command, every size of a pipe, and in every world.                  *)
THEOREM OutputPassedOn == Spec => OutputComplete
<1> DEFINE J == world \in Worlds /\ PipesInv
<1>1. Init => J
  BY PipesInit DEF Init
<1>2. J /\ [Next]_vars => J'
  BY PipesNext, WorldStays
<1>3. J /\ [Next]_vars =>
        [\A c \in Commands :
           d.epid = c /\ child'[c] = "reaped" /\ ~late =>
             Passed(response'[c]) = OutputOf(c) /\ InOrder(response'[c])]_vars
  BY CompleteNext
<1> HIDE DEF J
<1> QED
  BY <1>1, <1>2, <1>3, PTL DEF Spec, OutputComplete
=============================================================================
