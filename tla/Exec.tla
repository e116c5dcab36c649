-------------------------------- MODULE Exec --------------------------------
(***************************************************************************)
(* A command run for a connection: axil_exec starts it (popen2), and       *)
(* descr_proc_writes calls axil_exec_loop on every turn of axil_main while *)
(* d->epid is set, until the command's standard output ends or forty       *)
(* seconds have gone.  The loop then kills the command's process group,    *)
(* waits for it and closes the connection.                                 *)
(*                                                                         *)
(* The hazard is the descriptor going away under the loop: d is memset by  *)
(* axil_close, and a pid of 0 or -1 means something else to kill.  The     *)
(* output path itself is OutBuf's; here it is reduced to whether bytes are *)
(* held back.                                                              *)
(*                                                                         *)
(* axil_exec_loop selects up to pipes[1] only, so it never sees pipes[2]   *)
(* ready: bit 2 of pipes_mask is never cleared, and bit 1 only right       *)
(* before the loop is left.  pipes_mask decides nothing and is left out.   *)
(***************************************************************************)
EXTENDS Integers, Sequences, SequencesExt

CONSTANTS
    MaxCommands,    \* commands started, one connection after the other
    Scripts,        \* what commands do: sequences of "out" and "err" chunks
    PipeSize,       \* chunks a pipe holds
    Worlds          \* where the server may run, see World

(* Accepted sockets inherit O_NONBLOCK or not; pipe or fork may fail; a      *)
(* client may stop reading.                                                  *)
World == [nonblocking : BOOLEAN, forkFails : BOOLEAN, stalls : BOOLEAN]

ASSUME ExecAssumption ==
    /\ MaxCommands \in Nat \ {0}
    /\ Scripts \subseteq Seq({"out", "err"})
    /\ PipeSize \in Nat \ {0}
    /\ Worlds \subseteq World

Commands == 1 .. MaxCommands     \* a command's number is its pid

VARIABLES
    world,          \* where this server runs
    d,              \* the struct descr
    count,          \* commands started so far
    child,          \* what became of each command
    script,         \* what each does
    done,           \* how much of it it has done
    out, err,       \* its two pipes: positions in the script, and a count
    response,       \* history: what was written to the client for it
    late,           \* total_timeout has passed since d->sor
    peer,           \* the client
    killed          \* the targets of kill(-d->epid, SIGKILL)

vars == <<world, d, count, child, script, done, out, err, response, late, peer,
          killed>>

Pids == {-1, 0} \cup Commands

(* What the client is sent: the positions of standard output chunks, and     *)
StdErr == 0
InternalError == -500
GatewayTimeout == -504
Statuses == {InternalError, GatewayTimeout}

(* A descriptor after the memset of axil_close. *)
Closed == [open |-> FALSE, to_close |-> FALSE, remaining |-> FALSE, epid |-> 0,
           pipes |-> 0, total |-> FALSE, wactive |-> FALSE]

Init ==
    /\ world \in Worlds
    /\ d = Closed
    /\ count = 0
    /\ child = [c \in Commands |-> "none"]
    /\ script = [c \in Commands |-> <<>>]
    /\ done = [c \in Commands |-> 0]
    /\ out = [c \in Commands |-> <<>>]
    /\ err = [c \in Commands |-> 0]
    /\ response = [c \in Commands |-> <<>>]
    /\ late = FALSE
    /\ peer = "reads"
    /\ killed = {}

(* kill(0, SIGKILL) reaches the server itself. *)
Alive == "server" \notin killed
-----------------------------------------------------------------------------
(* The flush of the bytes held back: all of them, with the close that a      *)
(* marked descriptor is waiting for, or none, or an error that closes it.    *)
Flushes(c) ==
    (IF peer = "reads"
     THEN {IF c.to_close THEN Closed ELSE [c EXCEPT !.remaining = FALSE]} ELSE {})
    \cup (IF peer # "gone" THEN {c} ELSE {Closed})

(* axil_write: what the descriptor may be afterwards.  Bytes held back are   *)
(* flushed first.  A direct write that fails leaves the descriptor alone.    *)
Writes(c) ==
    LET direct(e) == {e} \cup (IF world.nonblocking /\ peer # "gone"
                               THEN {[e EXCEPT !.remaining = TRUE]} ELSE {})
    IN IF ~c.open THEN {c}
       ELSE IF ~c.remaining THEN direct(c)
       ELSE UNION {IF e.open /\ ~e.remaining THEN direct(e) ELSE {e} : e \in Flushes(c)}

(* Mutant: the pid is reset before the kill. *)
TargetAfterReset(pid) == "server"

Target(pid) == CASE pid = 0 -> "server" [] pid = -1 -> "init" [] OTHER -> "command"

(* Mutant: nobody is killed or waited for. *)
NotReaped(pid) == child

(* The kill and waitpid of pid; -1 stands for any child that has ended. *)
Reaped(pid) ==
    [p \in Commands |-> IF p = pid \/ (pid = -1 /\ child[p] = "exited")
                        THEN "reaped" ELSE child[p]]

(* What axil_exec_loop leaves of the descriptor. *)
LetGo(c) ==
    IF c.remaining
    THEN [c EXCEPT !.epid = 0, !.pipes = 0, !.wactive = FALSE, !.to_close = TRUE]
    ELSE Closed
-----------------------------------------------------------------------------
(* A client connects and its request starts a command: request_handle marks  *)
(* the descriptor, the handler calls axil_exec.  On a descriptor that        *)
(* pipelines, bytes of an earlier response may be held back.  When pipe or   *)
(* fork fails d->epid is -1 and d->pipes stays zero.                         *)
AxilExec ==
    /\ Alive
    /\ ~d.open
    /\ count < MaxCommands
    /\ count' = count + 1
    /\ \E remaining \in {FALSE, world.nonblocking},
          fails \in {FALSE, world.forkFails}, s \in Scripts :
         /\ d' = [Closed EXCEPT !.open = TRUE,
                                !.to_close = TRUE,
                                !.remaining = remaining,
                                !.epid = IF fails THEN -1 ELSE count',
                                !.pipes = IF fails THEN 0 ELSE count',
                                !.wactive = TRUE]
         /\ child' = [child EXCEPT ![count'] = IF fails THEN "none" ELSE "running"]
         /\ script' = [script EXCEPT ![count'] = s]
    /\ late' = FALSE
    /\ peer' = "reads"
    /\ UNCHANGED <<world, done, out, err, response, killed>>

(* axil_write_remaining, from the top of axil_main's loop or from            *)
(* descr_proc_writes.                                                        *)
Flush ==
    /\ Alive
    /\ d.open /\ d.remaining
    /\ d' \in Flushes(d) \ {d}
    /\ UNCHANGED <<world, count, child, script, done, out, err, response, late, peer,
                   killed>>
-----------------------------------------------------------------------------
(* descr_proc_writes: the socket is writable and a command is running.       *)
InLoop == Alive /\ d.open /\ d.wactive /\ d.epid # 0 /\ peer # "stalls"

(* d->flags &= ~DF_TO_CLOSE at the top of axil_exec_loop. *)
Unmarked == [d EXCEPT !.to_close = FALSE]

(* The end of axil_exec_loop.  c is what the descriptor is by then and       *)
(* written what the client was sent in this call: a command that has said    *)
(* nothing gets a 500 with its standard error, the others what is on it.     *)
(* The pid, the pipes and the mark are those of the descriptor after these   *)
(* writes, which may have closed it.  waitpid(-1) waits for any child there  *)
(* is: one that was left behind.                                             *)
Finish(c, written) ==
    LET n == d.pipes
        last == IF ~c.total THEN <<InternalError>>
                ELSE IF c.pipes # 0 /\ err[c.pipes] > 0 THEN <<StdErr>> ELSE <<>>
    IN \E e \in (IF last = <<>> THEN {c} ELSE Writes(c)) :
         /\ e.epid = -1 => \A p \in Commands : child[p] # "running"
         /\ killed' = killed \cup {Target(e.epid)}
         /\ child' = Reaped(e.epid)
         /\ d' = LetGo(e)
         /\ IF n = 0
            THEN UNCHANGED <<out, err, response>>
            ELSE /\ response' = [response EXCEPT ![n] = @ \o written \o last]
                 /\ err' = [err EXCEPT ![n] = 0]
                 /\ out' = [out EXCEPT ![n] = <<>>]
         /\ UNCHANGED <<world, count, script, done, late, peer>>

(* Mutant: the clock is looked at only when there is nothing left to read. *)
ExecTimesOutAfterwards ==
    /\ InLoop /\ late
    /\ d.pipes # 0 => child[d.pipes] # "running"
    /\ \E c \in Writes(Unmarked) : Finish(c, <<GatewayTimeout>>)

(* The timeout comes before the pipes are looked at. *)
ExecTimesOut ==
    /\ InLoop /\ late
    /\ \E c \in Writes(Unmarked) : Finish(c, <<GatewayTimeout>>)

(* Nothing to read yet. *)
ExecWaits ==
    /\ InLoop /\ ~late
    /\ d.pipes # 0
    /\ child[d.pipes] = "running" /\ out[d.pipes] = <<>>
    /\ d' = Unmarked
    /\ UNCHANGED <<world, count, child, script, done, out, err, response, late, peer,
                   killed>>

(* Mutant: d->total is not counted. *)
ExecReadsUncounted ==
    /\ InLoop /\ ~late
    /\ d.pipes # 0
    /\ out[d.pipes] # <<>>
    /\ \E c \in Writes(Unmarked) : d' = c
    /\ response' = [response EXCEPT ![d.pipes] = @ \o out[d.pipes]]
    /\ out' = [out EXCEPT ![d.pipes] = <<>>]
    /\ UNCHANGED <<world, count, child, script, done, err, late, peer, killed>>

(* One read takes what a pipe can hold, and the callback writes it. *)
ExecReads ==
    /\ InLoop /\ ~late
    /\ d.pipes # 0
    /\ out[d.pipes] # <<>>
    /\ \E c \in Writes(Unmarked) : d' = IF c.open THEN [c EXCEPT !.total = TRUE] ELSE c
    /\ response' = [response EXCEPT ![d.pipes] = @ \o out[d.pipes]]
    /\ out' = [out EXCEPT ![d.pipes] = <<>>]
    /\ UNCHANGED <<world, count, child, script, done, err, late, peer, killed>>

(* Mutant: the exit of the command ends the loop, not the end of its output. *)
ExecEndsOnExit ==
    /\ InLoop /\ ~late
    /\ d.pipes # 0
    /\ child[d.pipes] # "running"
    /\ Finish(Unmarked, <<>>)

(* The command has closed its standard output. *)
ExecEnds ==
    /\ InLoop /\ ~late
    /\ d.pipes # 0
    /\ child[d.pipes] # "running" /\ out[d.pipes] = <<>>
    /\ Finish(Unmarked, <<>>)

(* There are no pipes: pipes[1] is 0, which axil_exec has just closed, and   *)
(* select fails.                                                             *)
ExecSelectFails ==
    /\ InLoop /\ ~late
    /\ d.pipes = 0
    /\ Finish(Unmarked, <<>>)
-----------------------------------------------------------------------------
(* The commands, the clock and the client. *)
ChildRuns(c) ==
    /\ child[c] = "running"
    /\ done[c] < Len(script[c])
    /\ done' = [done EXCEPT ![c] = @ + 1]
    /\ IF script[c][done'[c]] = "out"
       THEN /\ Len(out[c]) < PipeSize
            /\ out' = [out EXCEPT ![c] = Append(@, done'[c])]
            /\ UNCHANGED err
       ELSE /\ err[c] < PipeSize
            /\ err' = [err EXCEPT ![c] = @ + 1]
            /\ UNCHANGED out
    /\ UNCHANGED <<world, d, count, child, script, response, late, peer, killed>>

ChildExits(c) ==
    /\ child[c] = "running"
    /\ done[c] = Len(script[c])
    /\ child' = [child EXCEPT ![c] = "exited"]
    /\ UNCHANGED <<world, d, count, script, done, out, err, response, late, peer, killed>>

TimePasses ==
    /\ ~late /\ d.epid # 0
    /\ late' = TRUE
    /\ UNCHANGED <<world, d, count, child, script, done, out, err, response, peer, killed>>

PeerGone ==
    /\ d.open /\ peer # "gone"
    /\ peer' = "gone"
    /\ UNCHANGED <<world, d, count, child, script, done, out, err, response, late, killed>>

PeerStalls ==
    /\ world.stalls /\ d.open /\ peer = "reads"
    /\ peer' = "stalls"
    /\ UNCHANGED <<world, d, count, child, script, done, out, err, response, late, killed>>
-----------------------------------------------------------------------------
ExecLoop == ExecTimesOut \/ ExecWaits \/ ExecReads \/ ExecEnds \/ ExecSelectFails

Next ==
    \/ AxilExec \/ Flush \/ ExecLoop
    \/ \E c \in Commands : ChildRuns(c) \/ ChildExits(c)
    \/ TimePasses \/ PeerGone \/ PeerStalls

Spec == Init /\ [][Next]_vars

(* axil_main polls: every turn flushes what is held back and, while the      *)
(* socket takes bytes, calls axil_exec_loop.  A command runs and time goes   *)
(* by.  Nothing makes a client that has stopped reading read again.          *)
FairSpec ==
    /\ Spec
    /\ WF_vars(Flush)
    /\ WF_vars(ExecLoop)
    /\ WF_vars(TimePasses)
    /\ \A c \in Commands : WF_vars(ChildRuns(c)) /\ WF_vars(ChildExits(c))
-----------------------------------------------------------------------------
(* Sockets block and fork succeeds.  TLC breaks the next two properties      *)
(* without either.                                                           *)
Tame == ~world.nonblocking /\ ~world.forkFails

(* In a tame world a running command is the one the descriptor names: none   *)
(* is left running, with its pipes open, when the descriptor is reset.       *)
(* (d->epid is the only place the pid is kept.)                              *)
ChildOwned == Tame => \A c \in Commands : child[c] = "running" => d.epid = c

(* In a tame world kill(-d->epid, SIGKILL) only ever reaches a command that  *)
(* was started: never the server's own group, nor pid 1.                     *)
KillsOwnCommand == Tame => killed \subseteq {"command"}

(* In a tame world a 500 is the whole response, but for the 504 of a command *)
(* that was out of time before it said anything: it never follows output of  *)
(* the command.  (d->total, kept over the calls of axil_exec_loop.)          *)
ErrorAlone ==
    Tame => \A c \in Commands :
      InternalError \in ToSet(response[c]) => ToSet(response[c]) \subseteq Statuses

Passed(s) == {t \in ToSet(s) : t > 0}

InOrder(s) == \A i, j \in DOMAIN s : i < j /\ s[i] > 0 /\ s[j] > 0 => s[i] < s[j]

OutputOf(c) == {i \in DOMAIN script[c] : script[c][i] = "out"}

(* A command that ends by itself and in time has its whole output passed to  *)
(* the callback, each chunk once and in order, before axil_exec_loop lets go *)
(* of it, whether or not the client is still there.                          *)
OutputComplete ==
    [][\A c \in Commands :
         d.epid = c /\ child'[c] = "reaped" /\ ~late =>
           Passed(response'[c]) = OutputOf(c) /\ InOrder(response'[c])]_vars

(* In a tame world every command's connection is closed in the end, whatever *)
(* the command does (it ends, or total_timeout ends it), unless the client   *)
(* has stopped reading: the clock is only looked at when it can be written   *)
(* to.                                                                       *)
Ends == (d.epid # 0 /\ Tame) ~> (~d.open \/ peer = "stalls")
=============================================================================
