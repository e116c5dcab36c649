# Verification of libaxil

libaxil is a small network and HTTP server library in C: one process, one
thread, one `select` loop over at most `FD_SETSIZE` descriptors. This directory
holds TLA+ models of its core logic, TLC configurations that check them on small
instances, and theorems about them that TLAPS has checked. The code is
`src/src/libaxil.c` unless a file is named; line numbers are in
`PROJECT.json`, under `map`.

    tlc -config OutBuf.cfg MCOutBufAll      check a run (see "Runs")
    tlapm OutBufProofs.tla                  check the proofs of a module

## 1. The system

### Components

| Component | State it keeps | Operations | What makes it correct |
|---|---|---|---|
| Output path | per descriptor: the block `d->remaining` with size, offset and length; `DF_TO_CLOSE` | `axil_write`, `axil_low_write`, `axil_rem_may_inc`, `axil_write_remaining`, ends of `axil_respond` and `static_write`, `axil_close` | bytes leave in order, none lost before the close; the block is not overrun; a marked descriptor is closed, and not too soon; a write returns |
| Request input | one global buffer `input`, `input_size`, `input_len` for all connections | `axil_read`, `cmd_new`, `cmd_proc`, `headers_get`, `buffer_post_body`, the shrinking in `axil_close` | no overrun; a handler has the whole body of its own request |
| Routing | `hdlr_hd` (registered keys), default and fallback handlers, `serve.allow`, `autoindex.allow` | stages of `request_handle`, `axil_match_pattern`, `pattern_match`, `pattern_better_match` | the most specific match serves, in whatever order the map is iterated; the method is right; HEAD is like GET |
| WebSocket proxy | `tunnel_pair[]`, `DF_WS_WAITING`, `DF_WS_PROXY_PENDING`, `DF_TUNNEL`, `fds_active`, `fds_read` | upgrade in `request_handle`, `axil_ws_tunnel`, `axil_tunnel_close_raw`, `axil_raw_descr_reset`, the pass of `descr_proc_reads` | pairs are set up and torn down whole; no entry or ready bit outlives its connection |
| Command execution (`axil-posix.c`) | `d->epid`, `d->pipes`, `d->total`, `d->sor`, `fds_wactive` | `axil_exec`, `popen2`, `axil_exec_loop`, `cb_proc` | the command's output is complete; no command is left behind; nobody else is killed; the connection ends |
| WebSocket framing (`ws.c`) | `frame_map[fd]` | `ws_read`, `ws_write`, `ws_close`, the handshake | messages arrive whole and in order, however TCP cuts them |
| Event loop, descriptors | `descr_map`, `io`, the `fd_set`s, `srv_fd`, `DF_CONNECTED` | `axil_main`, `descr_new`, `axil_close`, timers, signals, `axil_fd_watch`, `axil_connect`/`axil_disconnect` hooks | every descriptor is served; numbers are reused safely; hooks come in pairs |
| TLS | `d->cSSL`, `DF_ACCEPTED` | `ssl_accept`, `axil_ssl_*` | a handshake is taken up again until it is over |
| Environment, headers | a qmap for each descriptor | `headers_get`, `axil_header_get`, `axil_env_put`, `_env_prep` | a request sees its own values, of one user |
| Accounts (`axil-posix.c`) | `d->username`, `d->pw`, `DF_AUTHENTICATED` | `auth_try`, `axil_auth`, `env_prep`, `drop_priviledges` | a descriptor has the user named on its own connection, and that user's ids |
| Text commands | `cmds_hd` | `cmd_proc` | without a user only commands that are `CF_NOAUTH` run |
| Static files | the tree, `cache.allow` | `request_handle_static`, ETags, `If-None-Match`, HTTP dates, `static_write` | a 304 is only for a copy that is current |
| Path checks, decoding | none | `request_path_is_safe`, `axil_url_decode`, `query_parse` | what was checked is what is used |
| Encoding (`axil-encode.c`) | none | `axil_url_encode`, `axil_json_escape` | what is escaped comes back; the buffer is kept |
| Windows port, the `axil` command, samples | see `PROJECT.json` | | |

qmap and qsys are external libraries.

### How they interact

`axil_main` goes round: flush every descriptor that holds bytes back, `select`,
serve the snapshot of readable descriptors by number (`descr_proc_reads`), serve
the writable ones (`descr_proc_writes`). A readable descriptor is a listening
socket (`descr_new`), one end of a proxy pair, a descriptor watched by a module,
or a client: `axil_read` collects its bytes into the *one* input buffer,
`cmd_parse` takes them apart where they lie, `request_handle` finds a handler,
and the handler calls `axil_write` or `axil_exec`, to which the descriptor's
output path and the write half of the loop belong.

Everything runs in one thread, so there are no data races; what interleaves is
the kernel (how much a read or write takes, which number a new descriptor gets),
the peers, and the commands. The thread's atomic steps are those between two
looks at any of them, and that is the grain of all the modules.

### What is hard in this code

* *Any part of the state may go away in a call.* A write may flush, a flush may
  close, a close may close the other end, and the caller goes on with its `d`.
* *Numbers are names.* Descriptor numbers and pids are kept in tables and flags
  and are handed out again at once.
* *State outlives what it was about.* Flags, the user, the password entry and the
  environment of a descriptor are set by one request and read by the next.
* *A file is looked at before it is opened*, and may be another one by then.
* *TCP has no boundaries.* Heads, bodies and frames come in pieces, on sockets
  that block (Linux) or do not (accepted sockets inherit `O_NONBLOCK` elsewhere).
* *One buffer for everybody*, reallocated under pointers into it.
* *Nobody waits, and everybody may have to:* a spin, a blocking read or a silent
  upstream holds up the only thread, or holds a descriptor for ever.

`PROJECT.json` lists each hazard at its line with the properties that cover it,
or why none does.

## 2. The modules

    OutStream <--implements-- OutBuf <- MCOutBuf <- MCOutBufAll   OutBufProofs
    Tunnel                                                        TunnelProofs
    Exec <- MCExec                                                ExecProofs
    Paths <- PatternMatch --.
          <- Route <- MCRoute <- MCRouting                        RouteProofs
    Input                                                         InputProofs
    WsFrame <- MCWsFrame <- MCWs -- WsWrite                       WsProofs
    Session <- MCSession                                          SessionProofs
    Cache <- MCStatic -- HttpDate, Url                            StaticProofs

`<-` is EXTENDS and `--` INSTANCE; a module of proofs extends what is beside it:
`OutBufProofs` goes up to `MCOutBufAll`, `RouteProofs` is about `Paths`,
`PatternMatch` and `Route`, `WsProofs` about `WsFrame` and `WsWrite` by way of
`MCWs`, and `StaticProofs` about all four modules of its row, by way of
`MCStatic`, where the calendar is.

The components are modelled one by one. Where one needs another it takes the
other's outcome as a choice: in `Tunnel`, `Exec` and `Session` a write keeps
bytes, keeps none or closes the descriptor, as `OutBuf` shows a write can; in
`Input` a handler is a step that ends with the close. `MCOutBufAll`, `MCRouting`,
`MCWs` and `MCStatic` put modules that share no state side by side for one run: a
variable, chosen in `MCInit`, says which of them the run is about.

### OutStream and OutBuf

`OutStream` is the promise: a FIFO byte stream, which a marked stream leaves only
with an empty queue, unless its peer has gone. `OutBuf` is the code. `remaining`
is the memory block itself (a function on `0 .. remaining_size - 1`), so that a
wrong offset shows as a byte in the wrong place; bytes are numbered in the order
they are written. A handler is the list of the calls it makes, with or without
the mark `request_handle` sets first. `axil_low_write` is split where the code
looks at the kernel: `WriteDirect`, or `WriteBehind` / `Double` / `Grown` (the
two nested loops of `axil_rem_may_inc`) / `Store` (the `memcpy`) /
`WriteRemaining`. `Spin` is the growth loop going round without growing.
`Respond` and `StaticEnd` are the two ways a response ends. The kernel takes any
part of a write or fails; the peer may go at any point. `MCOutBufAll` chooses
between a program whose handlers write once, of which more is true, and one with
every kind of handler.

### Tunnel

Descriptors are the numbers below `FD_SETSIZE`; a new one gets *any* free
number. `fds_read` is the snapshot, with the bits not looked at yet, and the
actions from `Accept` to `Forward` are what `descr_proc_reads` does with the
lowest. A write to a peer is `LowWrite`; where the code goes on after a write
with numbers it read before it (`axil_ws_tunnel` after the 101), `todo` keeps
those numbers and the rest is a second step. `Reset` is `axil_raw_descr_reset`
of a set, `TunnelCloseRaw` and `AxilClose` say which set. `opener` is history:
which live client an upstream was opened for.

### Exec

A connection, its command and the two pipes between them. `AxilExec` starts a
command; `ExecTimesOut`, `ExecWaits`, `ExecReads`, `ExecEnds` and
`ExecSelectFails` are the ways through one call of `axil_exec_loop`; `Finish` is
its end (the 500, standard error, kill, `waitpid`, close), reached with whatever
the writes before it have made of the descriptor. `Target` says what
`kill(-d->epid)` reaches. `ChildRuns` and `ChildExits` are the command. `world`
is where the server runs; a *tame* world is one where sockets block and `fork`
succeeds, and three of the properties are about it.

### Paths, PatternMatch, Route

`Paths` says what a route pattern *means*: a definition over words of the two
strings, `Matches`, and the three counts, `Score`. `PatternMatch` is the loop of
`pattern_match`, one turn a step, and is checked against it. `Route` is
`request_handle` from the trailing-slash redirect to the 404, one action per
stage; the iteration over the registered keys takes them in any order (`Visit`).
What the files have for the path is one of five cases. `IsPath` is what
`request_path_is_safe` leaves of a path: it begins with a slash or, if the slash
was escaped twice in the target, with its escape.

### Input

A request is a row of cells (first line, one header, CR, LF, body). Clients send
in pieces of any size and may hang up. `AxilRead` / `ReadEnds` are the read loop,
`Parse` is `cmd_new`, `cmd_proc` and `headers_get`, `BufferPostBody` /
`BodyFails` the loop for the rest of a body, `Handle` the handler and the close,
which shrinks the buffer. `input` is the memory with what earlier requests left
in it. `whole` is history: the clients whose head came in one segment.

### WsFrame and WsWrite

`WsFrame` is `ws_read` below `axil_read` and `descr_read`: three reads, the
fields of `frame_map[fd]`, the local length `pl`, which is 0 when a read is taken
up again, and `errno`, which nobody clears. Sockets that block wait in a read. A
byte is a cell that says which frame it is of and which part; what the client has
composed is `stream`, read by position (`taken`), and `ends` says where in it each
frame ends.

`WsWrite` is the other direction: `ws_init`, `ws_write`, `ws_dprintf` and
`ws_close` call `lower_write` past `d->remaining`, where bytes of an earlier
response may be kept and `Flush` sends them behind. The kernel takes any part of
a call. `Client` is a reader of the protocol, to which the wire is given: it goes
from the head of a frame to what is behind it. The limits of a head, 126 and
`1 << 16`, and what `htonl` makes of a longer length are constants.

### Session

One descriptor number through the connections that have it one after the other:
`struct descr` with its flags, user, password entry and environment, each header
with the number of the request that put it there. `DescrNew`, `Handshake` (which
`descr_proc_writes` takes up on every pass) and `HangUp` are the connection;
`RequestHandle` is `request_handle` from `DF_HEAD` to the handler with the
refusal of a long body, `AuthTry`, `EnvPrep` and what the handler does; `Command`
is `cmd_proc` with a command of the program; `Flush` is `axil_main`'s. `named`,
`seen` and `linked` are history.

### Cache, HttpDate, Url

`Cache` is a file, whoever changes it, `request_handle_static` and a client with
a cache. The request is split where the code looks at the file: the `stat`
(`ServeTags`, `ServeDate`), the `open` (`Open`), each block (`Read`), and what
the client makes of it (`Sent`). Between any two the file may be changed in place
or by another one that takes its name. A content is a number, and a copy is made
of the blocks that were read, so that half of one file and half of another is no
content. `HttpDate` is the arithmetic of `tm_to_time_t_utc`; `MCStatic` goes
through the calendar beside it. `Url` has the three decoders and two encoders of
the code as functions of strings (sequences of character codes). Each decoder is
a loop that puts one character and goes on by one or more (`Walk`).

## 3. Runs

All the numbers are distinct states. Every property of a passing run is paired
with a mutant of a definition of the code (`PROJECT.json`, `mutants`) that breaks
it under the same configuration.

| Run | States | What it shows | Bounds, and why they are enough |
|---|---|---|---|
| `out` | 38 195 | All handlers, pipelined: `InBounds`, `StreamOrder` and `StreamSpec`, the refinement of `OutStream`. Handlers of one write: `OneWriteComplete`, `OneWriteCloses`, `OneWriteReturns` | A block of 4 and writes up to 7: full, compacted, doubled once, twice and exactly (the spin). Three requests of one write: the second finds bytes held back, the third a block that is compacted or too small; two of the other kinds |
| `out_truncates` | | *Violated:* `ResponseComplete` for a file of three blocks | see Findings |
| `out_headers` | | *Violated:* `HeadersKeepOpen` | see Findings |
| `tunnel_waits` | 25 890 | `PairsAgree`, `ModesAgree`, `Watched`, `OnlyMatesReset`, `MatesResetTogether`, `ReadinessIsFresh` | Four numbers: two pairs at once, or a pair, a stranger and a free number; sockets that do not block |
| `tunnel_stale` | | *Violated:* `OnlyMatesReset` with a client that pipelines | see Findings |
| `exec` | 898 733 | Commands that take too long or block, in a tame world and in one where sockets do not block and `fork` fails: `ChildOwned`, `KillsOwnCommand`, `ErrorAlone`, `OutputComplete`, `Ends` | Two commands in turn, scripts of up to three chunks, pipes of two: either pipe fills, a command ends with or without output, clients stall and go |
| `routing` | 578 434 | `BestKept`, `HeadLikeGet`, `RightMethod`, `LinksResolve`, `SecureHandlers`; and the loop by itself: `FindsMatches`, `LoopReturns` | Any three of eleven keys, chosen so that two of any kind tie or beat each other, three methods, a few paths, one of which begins with an escape. Every pattern and path of up to four characters: a parameter and a literal, a catch-all behind a slash, repeated slashes, a query; one parameter and values of two characters reach both limits |
| `input` | 993 282 | `InBounds`, `BodyComplete`, `BodyArrives` | Two clients (one leaves bytes for the other), reads of two cells, bodies of none, two and too many, two full rounds: both growth rules and the shrinking happen |
| `ws` | 1 262 414 | Frames that come in: `MessagesIntact`, `CutOff`, `Answered`. Frames that go out: `ClientReads` | Three frames, cut anywhere, empty, short, long, close, on both kinds of socket. Two messages of every length around both limits of a head (2 and 4 instead of 126 and `1 << 16`), any part of each taken |
| `session` | 63 459 | `UserSupplied`, `PwIsUsers`, `HooksPaired`, `EnvAgrees`, `HandshakeEnds` | Two connections with one number, three requests or commands on each: set, changed, read. Three users, one of whom `getpwnam` does not know; handshakes of up to two messages |
| `session_stale` | | *Violated:* `HeadersOfRequest` | see Findings |
| `static` | 907 154 | `NotModifiedIsTrue`; `DaysCounted`, `StaysInside`, `ComesBack` | Two changes, two inodes, two sizes, dates that differ by a fraction or a second, copies of two versions, files of two blocks: a change before the open, between the blocks and after. Days to 2105 (2000 and 2100 are the two kinds of century). Targets of up to five of ten parts, among them what decodes to a `%` and the rest of an escape behind it, against a `BUFSIZ` of 12, which the longest exceed; texts of up to four of ten characters in buffers of every length |

The type invariants of `OutBuf`, `Tunnel`, `Input`, `Session` and `WsFrame` are
proved (`TypeCorrect`) and checked by no run; `Exec` and `Cache` have theirs inside the
invariants of their proofs.

Deadlock is checked in `out*` and `tunnel_*`, where the server can always go on.
It is off where the model really stops: all commands have been run, all requests
served, the string matched, the client gone, the last day counted.

### Fairness

* `OutBuf`: weak fairness of the thread, of a write that takes something
  (`axil_main` tries every descriptor with bytes left on every turn, and a peer
  that is up goes on reading), and of noticing that the peer has gone. Nobody has
  to connect, send, or go away.
* `Exec`: weak fairness of the flush and of `axil_exec_loop` (both are called on
  every turn), of the clock, and of the command's own steps. A client that has
  stopped reading need not read again, so `Ends` excepts it.
* `Input`: weak fairness of the thread and of a client that has begun to send.
  Hanging up is never forced.
* `WsFrame`, `PatternMatch`: weak fairness of the thread alone.
* `Session`: weak fairness of a handshake that is all there, which
  `descr_proc_writes` looks at on every pass, and of a client that has started
  one. No client has to send a request.
* `Tunnel`, `Route`, `WsWrite`, `Cache`: only safety is claimed.

## 4. Findings

1. **A response of three or more writes is cut** (`out_truncates`).
   `request_handle` marks a descriptor before the handler writes; the flush that
   follows a buffered write closes a marked descriptor that it empties
   (`axil_write_remaining`, line 519); the writes after it go nowhere. A static
   file of three blocks, with a kernel that takes the first in part, is enough.
   `axil.h:46` says the flag means "Marked to close after remaining output."
2. **`axil_respond` with a NULL body closes the connection** (`out_headers`),
   which `axil.h:328` says it leaves open for streaming.
3. **A second upgrade while the first is pending leaves a stale entry**
   (`tunnel_stale`): `tunnel_pair[fd]` is overwritten, the first upstream keeps
   its own entry and, when it ends, takes down whoever has the number by then.
   This is what the comment at line 311 says the teardown prevents.
4. **Headers outlive their request** (`session_stale`). `headers_get` (line 1377)
   puts a request's headers over those in the environment of the connection,
   which only `axil_close` clears, so `axil_header_get` finds headers of an
   earlier request. `axil.h:324` says it returns -1 "if the header was not
   present in the request."

Met on the way, and kept out of the passing runs by a named assumption or inside
them as a behaviour no property forbids:

* `axil_rem_may_inc` spins for ever when doubling lands exactly on the bytes
  needed (`Spin`, reached in `out`). It takes a single write as long as a new
  block, 8 MB with glibc's `BUFSIZ`: `ShortWritesReturn` is the theorem.
* With clients that pipeline, `Watched` fails as well: the write of a 101 may
  close the pair that `axil_ws_tunnel` then puts back into `fds_active`.
* On sockets that do not block, or when `fork` fails, `KillsOwnCommand` is false:
  the pid read at the end of `axil_exec_loop` is 0 or -1.
* A request whose head comes in two segments is handled as it is
  (`BodyComplete` is about the others), and a body has no terminator, so the
  string a handler is given may run on into older bytes.
* A frame of 126 bytes or more that comes in uses its length in network order; an
  empty message closes the connection; a read that is taken up again at the mask
  has a length of 0; and a client that has gone in the middle of a frame may, on
  a socket that does not block, be taken for EAGAIN for ever. `MessagesIntact`,
  `CutOff` and `Answered` say where each stops being a promise.
* A frame of 65536 bytes or more that goes out has its length in the wrong half of
  the field; `ws_printf` leaves every later frame without opcode and FIN
  (`BINARY & FIN` is 0); bytes kept at the upgrade come out between frames, and a
  101 that the kernel takes in part is never finished. `ClientReads` excepts each.
* `axil_auth` of a user that `getpwnam` does not know keeps the password entry of
  the user before (`PwIsUsers` is about known users), and the refusal of a long
  body stores over all the flags, `DF_CONNECTED` among them, so that no
  disconnect hook is called (`HooksPaired` and `EnvAgrees` hold until then).
* A date says nothing of two changes within a second: `NotModifiedIsTrue` asks of
  those who change a file that changes are seconds apart and dated in order,
  where the client validates by date. An entity tag needs nothing of the kind,
  as long as no two versions look the same to `stat`, fraction and inode
  included. When `open` fails after `stat`, the 200 and the length have been
  sent; a file is taken to be longer than the line that follows.
* The check of a target looks past an escaped `?`, and `request_handle` cuts the
  path there: `StaysInside` leaves it out.
* The check takes a target apart until nothing is left to decode, and asks for the
  slash only then; `request_handle` decodes once. So `%252f..` is accepted with a
  `document_uri` that begins with `%2f` and not with a slash. It holds no `..`,
  decoded once or twice (`StaysInside`), so it still names something under the
  root. The proof of `StaysInside` is what showed this: an earlier form of it, and
  `RouteAssumption`, had the slash.
* A key `GET:/a` counts as a pattern, because of its colon, and so serves `/a/`.
* The default handler's return value is not looked at, against `axil.h:149`.

## 5. Theorems

Each holds for every value of the constants that the `ASSUME` of its module
allows, and further assumptions are in the statement.

| Module | Theorem | Assumes |
|---|---|---|
| `OutBufProofs` | `TypeCorrect`, `BlockInBounds`, `StreamInOrder` | nothing |
| | `ImplementsStream`: the buffer implements `OutStream` | nothing |
| | `ShortWritesReturn`: the growth loop does not spin | every write is shorter than a new block |
| | `OneWriteCompletes`: a response of one write arrives whole; `OneWriteArrives` for any set of such handlers | in the first, nothing; in the second, that handlers write once |
| `TunnelProofs` | `TypeCorrect`, `Freshness` | nothing: clients may pipeline |
| | `PairsHold`, `ModesHold`, `WatchedHolds`, `PairsResetTogether`, `NoHalfSurvives` | clients wait for their answers (`~Pipelines`) |
| `ExecProofs` | `NoneLeftBehind`, `NobodyElseKilled`, `ErrorsAlone` | a tame world, which is part of the properties |
| | `OutputPassedOn` (`OutputComplete`, an action property) | nothing: in every world |
| `RouteProofs` | `BestPatternServes`, `BetterIsStrictOrder`, `ListsResolve`, `HandlersSecure`, `HeadFinds`, `MethodServes` | paths are what `request_path_is_safe` leaves (`IsPath`); the keys of methods do not begin alike |
| | `LoopFindsMatches`: `pattern_match` decides what a pattern means | nothing: patterns and paths of any length, any limits |
| `InputProofs` | `TypeCorrect`, `NeverOverrun` | nothing |
| | `WholeBodyHandled` | a head fits what `axil_read` collects (`HeadsFit`) |
| `SessionProofs` | `TypeCorrect`, `UsersSupplied`, `PwHolds`, `HooksHold`, `EnvHolds` | nothing |
| `WsProofs` | `TypeCorrect`, `MessagesWhole`, `CutForReason` | nothing beyond what the properties ask of the client |
| | `ClientReadsAll` | nothing beyond what the property asks of the calls (`OutAssumption`: lengths are numbers) |
| `StaticProofs` | `NotModifiedHolds` | nothing (dates: in the property) |
| | `DatesCounted`: every year from 1970 on | nothing |
| | `TargetsStayInside`, from `AnyTargetStaysInside` for any target | `BufSize` is a number |
| | `TextsComeBack`, from `AnyTextComesBack` for any text of bytes and any buffer | `MaxChars` is a number |

How they go:

* **OutBuf.** `IndInv` is `TypeOK`, `InBounds` and `StreamOrder` with
  `ControlOK`, which says what each program point relies on: a write in progress
  belongs to an open descriptor, the growth loop starts at offset 0, the block
  never shrinks below its first size. The three are not inductive without it. The
  refinement maps the wire and the bytes owed to the two
  sequences of `OutStream`; `Mapped` shows that both are runs of consecutive
  numbers, and each action is then a `Write`, a `Deliver`, a close or a stutter.
  `OneWriteInv` goes over the calls that a handler has left: its one write finds
  the descriptor open, because nothing before it can have closed it, and from then
  on every close comes from a block that is empty.
* **Tunnel.** `Freshness` needs only that the snapshot names open descriptors.
  The rest is inductive as `PairInv`: a closed number is clean, entries are
  mutual and belong together, the modes of a pair are one of three combinations,
  what `todo` names still waits, and no bytes are held back for a pending client
  (`PendingDry`), so that the write of the answer cannot close the pair. That
  last part is where a pipelined request breaks it.
* **Exec.** `Steady`: nothing is ever held back, so no flush closes the
  descriptor under `axil_exec_loop`, and `d->epid` is the last command while the
  descriptor is open. `Sending` adds what was sent: nothing while `d->total` is
  not set, and no 500 before the end. `PipesInv`, in every world, goes over the
  command that the descriptor names: what has been passed on, with what is in its
  pipe, is what it has put there, in order; and a descriptor that a write closes
  names nobody.
* **Route.** The best key kept is a candidate that no visited candidate beats;
  preserved because `Better` is a strict weak order, which is proved from its
  definition. From that, `HeadInv`: when the second go of a HEAD request ends
  without a candidate, GET has none either. `TreeInv` says where a directory may
  be under a path without its slash. `MethodInv` adds to `RightMethod` which line
  patterns are tried with; what it needs of the strings is that a key which begins
  with the word of one method matches no line of another.
* **PatternMatch.** `Matches` is about words, the loop about positions. `Walked`
  ties them: as many words begin before the one position as before the other, and
  the words behind fit one by one; `Recorded` says that the literals and captured
  segments are those of the words behind. One lemma for each turn of the loop
  (slashes, a parameter, a catch-all, a character, a mismatch) keeps both, and at
  the end they are `FindsMatches`.
* **WsFrame.** `Laid` says how the frames lie in the stream, `Placed` where
  `ws_read` is in it: at the start of a frame, inside one with the fields of
  `frame_map` to match, or lost in one for good, after a read that was taken up
  with a length of 0. `NotCut` adds that without a reason it is never lost.
* **WsWrite.** `SentFrames`: behind a 101 that went out whole the frames lie on
  the wire one after another, of either form that is right, up to its end or to
  the head of a close. It is inductive with what `OutInv` says of the time before
  the answer (nothing on the wire is a 101) and after it (nothing is kept any more,
  so no flush can come between two frames). The reader is recursive: it exists
  because it never turns back (`ReaderExists`), reads one message where a frame
  begins (`OneFrameRead`), and so, from the last frame to the first, all of them
  (`ReadsAll`).
* **Input.** `Roomy` adds to `InBounds` that a read starts with nothing held;
  `Held` says that the buffer is the latest stretch of what was read of the
  connection served; `Rounds` that all rounds but the last filled the array;
  `HeadThere` where the head and the body are.
* **Session.** An open descriptor is sound with respect to the names given: its
  user, the cookie in its environment, and the password entry and `REMOTE_USER`
  that go with them. Everything a request does to a descriptor is one of a few
  operators (`Writes`, `Responds`, `AxilAuth`, `HeadersGet`, ...), and there is
  one lemma for each.
* **Cache.** No version of the file looks like another one (`Unique`), so a file
  that looks as it did when the request began has not been touched since: then
  what is open is that file, and so is every block read of it (`Steady`), and the
  copy made of it (`Sound`).
* **HttpDate.** Within a year of the function, which begins in March, the next
  day is addition. From February to March `YearLength` compares two neighbouring
  years, in one era or at the end of one.
* **Url: the check.** A decoder is a walk (`IsWalk`), and what holds of a walk is
  proved from the end of the string back. A pass that finds no fault has no `%`
  that begins no escape, so a pass that decodes is two characters shorter
  (`SafePass`) and the path has enough passes. `request_handle` decodes like the
  first pass but for plus signs (`DecodedAlike`), which no test looks at; decoding
  again is like the second, which is there unless the path is one character long.
  What is in front is a slash from the first pass on, or an escape.
* **Url: escapes.** What a loop that escapes leaves in the buffer is blocks, one
  for each of the first `K` characters (`MadeOf`, `Written`). A decoder that reads
  a block to its character and goes on at the next (`UrlBlock`, `JsonBlock`) reads
  the first `K` characters (`BlockWalk`), and `K` is all of them where the buffer
  is long enough (`AllWritten`).

Induction goes over sets: the library's induction theorems take an operator, which
the provers cannot instantiate, but the smallest element of a set of numbers is a
theorem about a set (`WFMin`). From that come `Smallest`, `Induction` (a set with 0
and with `n + 1` for each of its `n` is all of `Nat`) and `Backwards`, which carry
the proofs about recursive functions and about positions of a string.

### Only model-checked

Every invariant and every action property of a passing run is stated by a theorem
above. What is left:

* Liveness: `OneWriteCloses`, `OneWriteReturns`, `Ends`, `LoopReturns`,
  `BodyArrives`, `Answered`, `HandshakeEnds`. Proofs of leads-to under fairness
  need `ENABLED`, which the prover does not handle.

## 6. What is not modelled, and why

* `malloc` and `realloc` succeed: the code that goes on after a failure (line 551)
  writes past a block, which is undefined and has no next state to model.
* OpenSSL: certificates, SNI, its own buffers. `Session` has what libaxil keeps.
* Timers (`axil_update`), signals and `axil_fd_watch`: the loop calls them and
  keeps no state for them that the models read.
* A read that blocks because what came is an exact multiple of `BUFSIZ` (line
  708), a silent upstream that holds its client for ever (line 989): nothing in
  the code ends either, so there is no property to state. The pointers a handler
  keeps into the input buffer over an `axil_close` of its own (line 361), and
  what a module writes to other descriptors by `axil_wall` (line 755), depend on
  the module.
* `query_parse` beyond its value decoder, and `axil_slugify`, which goes through
  `iconv`; base64, SHA-1 and the masks of websockets, which are fixed functions
  with test vectors; `cache.allow` and types of files, which only choose the text
  of a header.
* The change of ids in a child and the rest of `drop_priviledges`: system calls.
* qmap and qsys, which are external libraries.
* The Windows port is the same platform table over Winsock. Its sockets do not
  block, which every module has as a case.
* The `axil` command and the sample modules: options and examples.

## 7. Plan

1. *Extend.* Timers and `axil_fd_watch` in a model of one turn of `axil_main`,
   composed with the close paths of `Tunnel`; heads that end inside a line, in
   `Input`; a response that is streamed while its connection is a websocket.
2. *Prove.* What these models add; and of the liveness properties the part that is
   safety: what each fair step makes smaller, as action properties.
