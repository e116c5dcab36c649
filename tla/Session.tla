------------------------------ MODULE Session ------------------------------
(***************************************************************************)
(* One descriptor number over the connections that have it one after the   *)
(* other and the requests of each: what struct descr keeps between them    *)
(* (flags, user, password entry, environment), the TLS handshake that      *)
(* descr_proc_writes takes up again, and the hooks of the program.         *)
(*                                                                         *)
(* A handler may leave its connection open (it writes and returns, as the  *)
(* one of test-auth.c does), upgrade it to a websocket, whose messages are *)
(* requests and commands like any other, or end it by axil_respond.        *)
(* Bytes are OutBuf's: here some are kept or none.  Bodies are Input's.    *)
(***************************************************************************)
EXTENDS Naturals, FiniteSets

CONSTANTS
    Users, Known,       \* names, and those getpwnam knows
    NoUser,
    Requests,           \* what clients send, see RequestType
    MaxConns,           \* bound: connections with this number
    MaxRequests         \* bound: requests and commands on one of them

Headers == {"Cookie", "Content-Type", "Content-Length", "Sec-WebSocket-Key"}

(* A cookie is the name of the user of its session; a long Content-Length is *)
(* one over axil_config.max_body_size.                                       *)
Value == [Headers -> Users \cup {"none", "form", "short", "long", "key"}]

(* A request: the handler that it reaches may call axil_auth, then writes,   *)
(* responds or upgrades.                                                     *)
RequestType ==
    [method : {"GET", "HEAD", "POST"}, safe : BOOLEAN, headers : Value,
     login : Users \cup {NoUser}, does : {"writes", "responds", "upgrades"}]

ASSUME SessionAssumption ==
    /\ Known \subseteq Users
    /\ NoUser \notin Users
    /\ "none" \notin Users
    /\ Requests \subseteq RequestType
    /\ MaxConns \in Nat /\ MaxRequests \in Nat

VARIABLES
    d,              \* the struct descr
    flights,        \* handshake messages the client still has to send
    conns,          \* connections so far
    requests,       \* of the present one
    named,          \* history: users named on this connection
    refused,        \* history: a long body was refused on it
    seen            \* history: request and descriptor of the last handler

vars == <<d, flights, conns, requests, named, refused, seen>>

DF == {"CONNECTED", "WEBSOCKET", "TO_CLOSE", "ACCEPTED", "AUTHENTICATED", "HEAD"}

(* The request that put an entry, 0 if there is none, and its value.         *)
Entry == [req : 0 .. MaxRequests,
          value : Users \cup {"none", "form", "short", "long", "key"}]
NoEntry == [req |-> 0, value |-> "none"]

(* linked is a history: axil_connect has accepted the connection and         *)
(* axil_disconnect has not been called for it.                               *)
Descr == [open : BOOLEAN, flags : SUBSET DF, ssl : {"plain", "pending", "done"},
          user : Users \cup {NoUser}, pw : Users \cup {NoUser}, kept : BOOLEAN,
          env : [Headers -> Entry], remote_user : Users \cup {NoUser},
          home : Users \cup {NoUser}, linked : BOOLEAN]

TypeOK ==
    /\ d \in Descr
    /\ flights \in 0 .. 2
    /\ conns \in 0 .. MaxConns
    /\ requests \in 0 .. MaxRequests
    /\ named \subseteq Users
    /\ refused \in BOOLEAN
    /\ seen.req \in 0 .. MaxRequests /\ seen.d \in Descr

(* Mutant: the map of a closed descriptor is used again as it is. *)
ClearedEnv(c) == c.env

NewEnv(c) == [h \in Headers |-> NoEntry]

(* The memset of axil_close and of descr_new. *)
Blank(env, linked) ==
    [open |-> FALSE, flags |-> {}, ssl |-> "plain", user |-> NoUser, pw |-> NoUser,
     kept |-> FALSE, env |-> env, remote_user |-> NoUser, home |-> NoUser,
     linked |-> linked]

(* Mutant: axil_disconnect is for those that have authenticated. *)
CloseKnown(c) == Blank(NewEnv(c), c.linked /\ "AUTHENTICATED" \notin c.flags)

(* axil_close; axil_disconnect is called for a connection that is CONNECTED. *)
AxilClose(c) == Blank(NewEnv(c), c.linked /\ "CONNECTED" \notin c.flags)

Empty == Blank([h \in Headers |-> NoEntry], FALSE)

Init ==
    /\ d = Empty
    /\ flights = 0
    /\ conns = 0
    /\ requests = 0
    /\ named = {}
    /\ refused = FALSE
    /\ seen = [req |-> 0, d |-> Empty]
-----------------------------------------------------------------------------
(* ssl_accept: done when the client has sent all it has to, waiting (EAGAIN  *)
(* with WANT_READ), or any error, which closes.                              *)
SslAccept(c, missing) ==
    {IF missing = 0
     THEN [c EXCEPT !.flags = @ \cup {"ACCEPTED"}, !.ssl = "done"]
     ELSE [c EXCEPT !.flags = @ \ {"ACCEPTED"}],
     AxilClose(c)}

(* descr_new: a plain connection is accepted, one over TLS starts its        *)
(* handshake.                                                                *)
DescrNew ==
    /\ ~d.open
    /\ conns < MaxConns
    /\ conns' = conns + 1
    /\ flights' \in 0 .. 2
    /\ LET c == [Blank(NewEnv(d), FALSE) EXCEPT !.open = TRUE]
       IN d' \in {[c EXCEPT !.flags = {"ACCEPTED"}]}
                   \cup SslAccept([c EXCEPT !.ssl = "pending"], flights')
    /\ requests' = 0
    /\ named' = {}
    /\ refused' = FALSE
    /\ seen' = [req |-> 0, d |-> Empty]

(* Mutant: the handshake is behind the test of fds_write, which is about     *)
(* bytes that are kept.                                                      *)
HandshakeWhenWritable ==
    /\ d.open /\ d.ssl # "plain" /\ d.kept
    /\ "ACCEPTED" \notin d.flags
    /\ d' \in SslAccept(d, flights)
    /\ UNCHANGED <<flights, conns, requests, named, refused, seen>>

(* descr_proc_writes takes a handshake up again on every pass. *)
Handshake ==
    /\ d.open /\ d.ssl # "plain"
    /\ "ACCEPTED" \notin d.flags
    /\ d' \in SslAccept(d, flights)
    /\ UNCHANGED <<flights, conns, requests, named, refused, seen>>

ClientFlight ==
    /\ d.open /\ flights > 0
    /\ flights' = flights - 1
    /\ UNCHANGED <<d, conns, requests, named, refused, seen>>

(* The client goes: descr_read makes axil_main close. *)
HangUp ==
    /\ d.open /\ "ACCEPTED" \in d.flags
    /\ d' = AxilClose(d)
    /\ UNCHANGED <<flights, conns, requests, named, refused, seen>>
-----------------------------------------------------------------------------
(* axil_write_remaining when all goes out. *)
Drained(c) == IF "TO_CLOSE" \in c.flags THEN AxilClose(c) ELSE [c EXCEPT !.kept = FALSE]

(* axil_low_write: the kernel takes all or leaves some; what was kept goes   *)
(* first.  A websocket writes past what is kept.                             *)
Writes(c) ==
    IF ~c.open \/ "WEBSOCKET" \in c.flags THEN {c}
    ELSE IF c.kept THEN {c, Drained(c), AxilClose(c)}
    ELSE {c, [c EXCEPT !.kept = TRUE]}

(* axil_respond. *)
Responds(c) ==
    LET end(e) == IF e.kept THEN {[e EXCEPT !.flags = @ \cup {"TO_CLOSE"}], AxilClose(e)}
                  ELSE {AxilClose(e)}
    IN UNION {end(e) : e \in Writes(c)}

(* Mutant: an authenticated descriptor keeps its password entry. *)
AxilAuthOnce(c, u) ==
    [c EXCEPT !.flags = @ \cup {"AUTHENTICATED"}, !.user = u, !.remote_user = u,
              !.pw = IF u \in Known /\ "AUTHENTICATED" \notin c.flags THEN u ELSE @]

(* axil_auth.  A user getpwnam does not know has the flag all the same, and  *)
(* the password entry of the one before.                                     *)
AxilAuth(c, u) ==
    [c EXCEPT !.flags = @ \cup {"AUTHENTICATED"}, !.user = u, !.remote_user = u,
              !.pw = IF u \in Known THEN u ELSE @]

MayAuth(c, u) == IF u = NoUser THEN c ELSE AxilAuth(c, u)

(* headers_get: entries that are not replaced stay. *)
HeadersGet(c, r, n) ==
    [c EXCEPT !.env = [h \in Headers |-> IF r.headers[h] = "none" THEN @[h]
                                         ELSE [req |-> n, value |-> r.headers[h]]]]

(* auth_try, with the axil_auth_check of axil.c. *)
AuthTry(c) ==
    LET u == c.env["Cookie"].value IN IF u \in Users THEN AxilAuth(c, u) ELSE c

(* Mutant: the home directory is that of the first user. *)
EnvPrepOnce(c) == [c EXCEPT !.home = IF c.home = NoUser THEN c.pw ELSE @]

(* env_prep: HOME is put only if there is a password entry. *)
EnvPrep(c) == [c EXCEPT !.home = IF c.pw = NoUser THEN @ ELSE c.pw]

Marked(c) == IF "WEBSOCKET" \in c.flags THEN c
             ELSE [c EXCEPT !.flags = @ \cup {"TO_CLOSE"}]

(* axil_ws_upgrade.  axil_connect may accept the connection. *)
AxilWsUpgrade(c) ==
    IF "WEBSOCKET" \in c.flags \/ c.env["Sec-WebSocket-Key"].req = 0 THEN {c}
    ELSE {[c EXCEPT !.flags = @ \cup {"WEBSOCKET"} \cup connected,
                    !.linked = connected # {}] : connected \in {{}, {"CONNECTED"}}}

Does(c, what) ==
    CASE what = "writes" -> Writes(c)
      [] what = "responds" -> Responds(c)
      [] what = "upgrades" -> AxilWsUpgrade(c)

(* buffer_post_body sends a request with a long body away, by a store over   *)
(* all the flags.                                                            *)
TooLong(c, r) == r.method = "POST" /\ c.env["Content-Length"].value = "long"

Refuses(c) == Responds([c EXCEPT !.flags = {"TO_CLOSE"}])

(* The descriptor as the handler of request number n finds it. *)
Prepared(c, r, n) == Marked(EnvPrep(AuthTry(HeadersGet(c, r, n))))

Ready == d.open /\ "ACCEPTED" \in d.flags /\ requests < MaxRequests

(* request_handle. *)
RequestHandle(r) ==
    /\ Ready
    /\ requests' = requests + 1
    /\ LET c == IF r.method = "HEAD" THEN [d EXCEPT !.flags = @ \cup {"HEAD"}] ELSE d
           got == HeadersGet(c, r, requests')
           ready == Prepared(c, r, requests')
       IN \/ /\ ~r.safe
             /\ d' = AxilClose(c)
             /\ UNCHANGED <<named, refused, seen>>
          \/ /\ r.safe /\ TooLong(got, r)
             /\ d' \in Refuses(got)
             /\ refused' = TRUE
             /\ named' = named \cup ({r.headers["Cookie"]} \cap Users)
             /\ UNCHANGED seen
          \/ /\ r.safe /\ ~TooLong(got, r)
             /\ seen' = [req |-> requests', d |-> ready]
             /\ d' \in Does(MayAuth(ready, r.login), r.does)
             /\ named' = named \cup ({r.headers["Cookie"], r.login} \cap Users)
             /\ UNCHANGED refused
    /\ UNCHANGED <<flights, conns>>

(* cmd_proc with a command of the program: without a user only those that    *)
(* are CF_NOAUTH run, a login among them.                                    *)
Command ==
    /\ Ready
    /\ requests' = requests + 1
    /\ \E noauth \in BOOLEAN, login \in Users \cup {NoUser} :
         /\ noauth \/ "AUTHENTICATED" \in d.flags
         /\ d' \in Writes(MayAuth(d, login))
         /\ named' = named \cup ({login} \cap Users)
    /\ UNCHANGED <<flights, conns, refused, seen>>

(* The preface of HTTP/2. *)
Preface ==
    /\ Ready
    /\ d' = AxilClose(d)
    /\ UNCHANGED <<flights, conns, requests, named, refused, seen>>

(* axil_main flushes. *)
Flush ==
    /\ d.open /\ d.kept
    /\ d' \in {Drained(d), AxilClose(d)}
    /\ UNCHANGED <<flights, conns, requests, named, refused, seen>>

Next ==
    \/ DescrNew \/ Handshake \/ ClientFlight \/ HangUp
    \/ \E r \in Requests : RequestHandle(r)
    \/ Command \/ Preface \/ Flush

Spec == Init /\ [][Next]_vars

(* axil_main comes round; a client goes on with the handshake it started.    *)
FairSpec == Spec /\ WF_vars(flights = 0 /\ Handshake) /\ WF_vars(ClientFlight)
-----------------------------------------------------------------------------
(* An authenticated descriptor is so by a name given on the connection it    *)
(* has now, never on an earlier one with the same number.  (axil_close, and  *)
(* the cookie kept in the environment.)                                      *)
UserSupplied == "AUTHENTICATED" \in d.flags => d.user \in named

(* The password entry, which drop_priviledges takes the ids from, is that of *)
(* the authenticated user, if there is such a user, however often the user   *)
(* has changed.                                                              *)
PwIsUsers == "AUTHENTICATED" \in d.flags /\ d.user \in Known => d.pw = d.user

(* Every axil_connect that accepted is followed by one axil_disconnect when  *)
(* the connection ends, however it ends, and nobody else is disconnected; as *)
(* long as no body was refused, which clears CONNECTED.                      *)
HooksPaired == ~refused => (d.linked <=> "CONNECTED" \in d.flags)

(* What a command of the handler would find in its environment agrees with   *)
(* the descriptor: REMOTE_USER is set if there is a user, and is the user,   *)
(* and HOME is the home of that user if there is one.                        *)
EnvAgrees ==
    ~refused =>
      LET c == seen.d
      IN /\ "AUTHENTICATED" \in c.flags <=> c.remote_user # NoUser
         /\ c.remote_user = c.user
         /\ c.user \in Known => c.home = c.user

(* A handshake that was started ends: it is done or the connection is        *)
(* closed.                                                                   *)
HandshakeEnds == (d.open /\ d.ssl = "pending") ~> (~d.open \/ d.ssl = "done")

(* axil_header_get in a handler: "Returns 0 on success, -1 if the header was *)
(* not present in the request" (axil.h).                                     *)
HeadersOfRequest == \A h \in Headers : seen.d.env[h].req \in {0, seen.req}
=============================================================================
