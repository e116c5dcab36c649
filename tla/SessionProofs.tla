--------------------------- MODULE SessionProofs ---------------------------
(***************************************************************************)
(* Proofs about Session, for any users, requests and numbers of them.  What *)
(* holds of a descriptor is said of a record, so that each operation of    *)
(* request_handle can be shown to keep it, one after the other.            *)
(***************************************************************************)
EXTENDS Session, TLAPS

USE SessionAssumption

(* What is kept whatever happens; N are the users named so far.              *)
Sound(c, N) ==
    /\ c \in Descr
    /\ "AUTHENTICATED" \in c.flags => c.user \in N
    /\ c.env["Cookie"].value \in Users => c.env["Cookie"].value \in N
    /\ "AUTHENTICATED" \in c.flags /\ c.user \in Known => c.pw = c.user
    /\ c.remote_user = c.user

(* What is kept until a body is refused. *)
Tied(c) ==
    /\ "AUTHENTICATED" \in c.flags <=> c.user # NoUser
    /\ c.linked <=> "CONNECTED" \in c.flags
    /\ "CONNECTED" \in c.flags => "WEBSOCKET" \in c.flags

Keeps(c, N, e) == Sound(e, N) /\ (Tied(c) => Tied(e))

LEMMA SoundMore ==
    ASSUME NEW c, NEW N, NEW M, N \subseteq M, Sound(c, N)
    PROVE  Sound(c, M)
  BY DEF Sound

LEMMA BlankSound ==
    ASSUME NEW env \in [Headers -> Entry], env["Cookie"].value = "none", NEW N,
           NEW l \in BOOLEAN
    PROVE  Sound(Blank(env, l), N)
  BY DEF Blank, Sound, Descr, Headers

LEMMA NewEnvEmpty ==
    ASSUME NEW c
    PROVE  NewEnv(c) \in [Headers -> Entry] /\ NewEnv(c)["Cookie"].value = "none"
  BY DEF NewEnv, NoEntry, Entry, Headers

LEMMA CloseKeeps ==
    ASSUME NEW c, NEW N, Sound(c, N)
    PROVE  Keeps(c, N, AxilClose(c)) /\ ~AxilClose(c).open
<1>1. c.linked \in BOOLEAN
  BY DEF Sound, Descr
<1>2. Sound(AxilClose(c), N)
  BY BlankSound, NewEnvEmpty DEF AxilClose
<1>3. Tied(c) => Tied(AxilClose(c))
  BY <1>1 DEF AxilClose, Blank, Tied
<1> QED
  BY <1>2, <1>3 DEF Keeps, AxilClose, Blank

(* Flags that say nothing of users or hooks may come and go. *)
LEMMA FlagsKeep ==
    ASSUME NEW c, NEW N, Sound(c, N), NEW F \in SUBSET DF,
           "AUTHENTICATED" \in F <=> "AUTHENTICATED" \in c.flags,
           "CONNECTED" \in F <=> "CONNECTED" \in c.flags,
           "WEBSOCKET" \in F <=> "WEBSOCKET" \in c.flags
    PROVE  Keeps(c, N, [c EXCEPT !.flags = F])
  BY DEF Keeps, Sound, Tied, Descr

LEMMA AddFlag ==
    ASSUME NEW c, NEW N, Sound(c, N), NEW f \in {"TO_CLOSE", "ACCEPTED", "HEAD"}
    PROVE  Keeps(c, N, [c EXCEPT !.flags = @ \cup {f}])
<1>1. c.flags \cup {f} \in SUBSET DF
  BY DEF Sound, Descr, DF
<1>2. [c EXCEPT !.flags = @ \cup {f}] = [c EXCEPT !.flags = c.flags \cup {f}]
  OBVIOUS
<1> QED
  BY <1>1, FlagsKeep

LEMMA SslKeeps ==
    ASSUME NEW c, NEW N, Sound(c, N), NEW missing, NEW e \in SslAccept(c, missing)
    PROVE  Keeps(c, N, e)
<1>1. CASE e = [c EXCEPT !.flags = @ \cup {"ACCEPTED"}, !.ssl = "done"]
  BY <1>1 DEF Keeps, Sound, Tied, Descr, DF
<1>2. CASE e = [c EXCEPT !.flags = @ \ {"ACCEPTED"}]
  BY <1>2 DEF Keeps, Sound, Tied, Descr, DF
<1>3. CASE e = AxilClose(c)
  BY <1>3, CloseKeeps
<1> QED
  BY <1>1, <1>2, <1>3 DEF SslAccept

LEMMA DrainedKeeps ==
    ASSUME NEW c, NEW N, Sound(c, N)
    PROVE  Keeps(c, N, Drained(c))
<1>1. Keeps(c, N, [c EXCEPT !.kept = FALSE])
  BY DEF Keeps, Sound, Tied, Descr
<1> QED
  BY <1>1, CloseKeeps DEF Drained

LEMMA WritesKeep ==
    ASSUME NEW c, NEW N, Sound(c, N), NEW e \in Writes(c)
    PROVE  Keeps(c, N, e)
<1>1. Keeps(c, N, c)
  BY DEF Keeps
<1>2. Keeps(c, N, [c EXCEPT !.kept = TRUE])
  BY DEF Keeps, Sound, Tied, Descr
<1> QED
  BY <1>1, <1>2, DrainedKeeps, CloseKeeps DEF Writes

LEMMA RespondsKeep ==
    ASSUME NEW c, NEW N, Sound(c, N), NEW e \in Responds(c)
    PROVE  Keeps(c, N, e)
<1>1. PICK w \in Writes(c) :
        e \in IF w.kept THEN {[w EXCEPT !.flags = @ \cup {"TO_CLOSE"}], AxilClose(w)}
              ELSE {AxilClose(w)}
  BY DEF Responds
<1>2. Keeps(c, N, w)
  BY WritesKeep
<1>3. Sound(w, N)
  BY <1>2 DEF Keeps
<1>4. Keeps(w, N, [w EXCEPT !.flags = @ \cup {"TO_CLOSE"}])
  BY <1>3, AddFlag
<1>5. Keeps(w, N, AxilClose(w))
  BY <1>3, CloseKeeps
<1> QED
  BY <1>1, <1>2, <1>4, <1>5 DEF Keeps

LEMMA AuthKeeps ==
    ASSUME NEW c, NEW N, Sound(c, N), NEW u \in Users, u \in N
    PROVE  Keeps(c, N, AxilAuth(c, u))
  BY DEF AxilAuth, Keeps, Sound, Tied, Descr, DF

LEMMA HeadersKeep ==
    ASSUME NEW c, NEW N, Sound(c, N), NEW r \in RequestType, NEW n \in 0 .. MaxRequests
    PROVE  Keeps(c, N \cup ({r.headers["Cookie"]} \cap Users), HeadersGet(c, r, n))
<1> DEFINE e == HeadersGet(c, r, n)
           env == [h \in Headers |-> IF r.headers[h] = "none" THEN c.env[h]
                                     ELSE [req |-> n, value |-> r.headers[h]]]
<1>1. e = [c EXCEPT !.env = env]
  BY DEF HeadersGet
<1>2. env \in [Headers -> Entry]
  BY DEF Sound, Descr, Entry, RequestType, Value
<1>3. e \in Descr
  BY <1>1, <1>2 DEF Sound, Descr
<1>4. "Cookie" \in Headers
  BY DEF Headers
<1>5. c \in Descr
  BY DEF Sound
<1>6. /\ e.env = env /\ e.flags = c.flags /\ e.user = c.user /\ e.pw = c.pw
      /\ e.remote_user = c.remote_user /\ e.linked = c.linked
  BY <1>1, <1>5 DEF Descr
<1>7. env["Cookie"].value \in Users =>
        env["Cookie"].value \in N \cup ({r.headers["Cookie"]} \cap Users)
  BY <1>4 DEF Sound
<1> HIDE DEF e, env
<1> QED
  BY <1>3, <1>6, <1>7 DEF Keeps, Sound, Tied, e

LEMMA AuthTryKeeps ==
    ASSUME NEW c, NEW N, Sound(c, N)
    PROVE  Keeps(c, N, AuthTry(c))
<1>1. Keeps(c, N, c)
  BY DEF Keeps
<1>2. ASSUME c.env["Cookie"].value \in Users
      PROVE  Keeps(c, N, AxilAuth(c, c.env["Cookie"].value))
  BY <1>2, AuthKeeps DEF Sound
<1> QED
  BY <1>1, <1>2 DEF AuthTry

(* What EnvAgrees asks of the descriptor a handler is given. *)
Agrees(c) ==
    /\ "AUTHENTICATED" \in c.flags <=> c.remote_user # NoUser
    /\ c.remote_user = c.user
    /\ c.user \in Known => c.home = c.user

LEMMA EnvPrepKeeps ==
    ASSUME NEW c, NEW N, Sound(c, N)
    PROVE  Keeps(c, N, EnvPrep(c)) /\ (Tied(c) => Agrees(EnvPrep(c)))
  BY DEF EnvPrep, Keeps, Sound, Tied, Descr, Agrees

LEMMA MarkedKeeps ==
    ASSUME NEW c, NEW N, Sound(c, N)
    PROVE  Keeps(c, N, Marked(c)) /\ (Agrees(c) => Agrees(Marked(c)))
<1>1. Keeps(c, N, c)
  BY DEF Keeps
<1>2. Keeps(c, N, [c EXCEPT !.flags = @ \cup {"TO_CLOSE"}])
  BY AddFlag
<1>3. Agrees(c) => Agrees([c EXCEPT !.flags = @ \cup {"TO_CLOSE"}])
  BY DEF Sound, Descr, Agrees
<1> QED
  BY <1>1, <1>2, <1>3 DEF Marked

LEMMA PreparedKeeps ==
    ASSUME NEW c, NEW N, Sound(c, N), NEW r \in RequestType, NEW n \in 0 .. MaxRequests
    PROVE  /\ Keeps(c, N \cup ({r.headers["Cookie"]} \cap Users), Prepared(c, r, n))
           /\ Tied(c) => Agrees(Prepared(c, r, n))
<1> DEFINE M == N \cup ({r.headers["Cookie"]} \cap Users)
           a == HeadersGet(c, r, n)
           b == AuthTry(a)
           e == EnvPrep(b)
<1>1. Keeps(c, M, a)
  BY HeadersKeep
<1>2. Keeps(a, M, b)
  BY <1>1, AuthTryKeeps DEF Keeps
<1>3. Keeps(b, M, e) /\ (Tied(b) => Agrees(e))
  BY <1>2, EnvPrepKeeps DEF Keeps
<1>4. Keeps(e, M, Marked(e)) /\ (Agrees(e) => Agrees(Marked(e)))
  BY <1>3, MarkedKeeps DEF Keeps
<1>5. Prepared(c, r, n) = Marked(e)
  BY DEF Prepared
<1> HIDE DEF a, b, e, M
<1>6. Keeps(c, M, Marked(e)) /\ (Tied(c) => Agrees(Marked(e)))
  BY <1>1, <1>2, <1>3, <1>4 DEF Keeps
<1> QED
  BY <1>5, <1>6 DEF M

LEMMA UpgradeKeeps ==
    ASSUME NEW c, NEW N, Sound(c, N), NEW e \in AxilWsUpgrade(c)
    PROVE  Keeps(c, N, e)
<1>1. CASE e = c
  BY <1>1 DEF Keeps
<1>2. ASSUME NEW connected \in {{}, {"CONNECTED"}},
             "WEBSOCKET" \notin c.flags,
             e = [c EXCEPT !.flags = @ \cup {"WEBSOCKET"} \cup connected,
                           !.linked = connected # {}]
      PROVE  Keeps(c, N, e)
  <2>1. c.flags \cup {"WEBSOCKET"} \cup connected \in SUBSET DF
    BY DEF Sound, Descr, DF
  <2>2. Sound(e, N)
    BY <1>2, <2>1 DEF Sound, Descr
  <2> QED
    BY <1>2, <2>2 DEF Keeps, Tied, Sound, Descr
<1> QED
  BY <1>1, <1>2 DEF AxilWsUpgrade

LEMMA DoesKeeps ==
    ASSUME NEW c, NEW N, Sound(c, N), NEW r \in RequestType, NEW e \in Does(c, r.does)
    PROVE  Keeps(c, N, e)
<1>1. r.does \in {"writes", "responds", "upgrades"}
  BY DEF RequestType
<1> QED
  BY <1>1, WritesKeep, RespondsKeep, UpgradeKeeps DEF Does

LEMMA MayAuthKeeps ==
    ASSUME NEW c, NEW N, Sound(c, N), NEW u \in Users \cup {NoUser}, {u} \cap Users \subseteq N
    PROVE  Keeps(c, N, MayAuth(c, u))
<1>1. Keeps(c, N, c)
  BY DEF Keeps
<1> QED
  BY <1>1, AuthKeeps DEF MayAuth

LEMMA RefusesSound ==
    ASSUME NEW c, NEW N, Sound(c, N), NEW e \in Refuses(c)
    PROVE  Sound(e, N)
<1>1. Sound([c EXCEPT !.flags = {"TO_CLOSE"}], N)
  BY DEF Sound, Descr, DF
<1> QED
  BY <1>1, RespondsKeep DEF Refuses, Keeps
-----------------------------------------------------------------------------
SessionInv ==
    /\ flights \in 0 .. 2 /\ conns \in 0 .. MaxConns /\ requests \in 0 .. MaxRequests
    /\ named \subseteq Users
    /\ refused \in BOOLEAN
    /\ seen.req \in 0 .. MaxRequests /\ seen.d \in Descr
    /\ Sound(d, named)
    /\ ~refused => Tied(d) /\ Agrees(seen.d)

LEMMA EmptySound == Sound(Empty, {}) /\ Tied(Empty) /\ Agrees(Empty)
<1>1. LET env == [h \in Headers |-> NoEntry]
      IN env \in [Headers -> Entry] /\ env["Cookie"].value = "none"
  BY DEF NoEntry, Entry, Headers
<1>2. Sound(Empty, {})
  BY <1>1, BlankSound DEF Empty
<1> QED
  BY <1>2 DEF Empty, Blank, Tied, Agrees

LEMMA SessionInit == Init => SessionInv
<1> SUFFICES ASSUME Init PROVE SessionInv
  OBVIOUS
<1>1. d = Empty /\ named = {}
  BY DEF Init
<1>2. seen.req = 0 /\ seen.d = Empty
  BY DEF Init
<1>3. Sound(d, named) /\ Tied(d) /\ seen.d \in Descr /\ Agrees(seen.d)
  BY <1>1, <1>2, EmptySound DEF Sound
<1>4. flights = 0 /\ conns = 0 /\ requests = 0 /\ refused = FALSE
  BY DEF Init
<1>5. /\ flights \in 0 .. 2 /\ conns \in 0 .. MaxConns /\ requests \in 0 .. MaxRequests
      /\ named \subseteq Users /\ refused \in BOOLEAN /\ seen.req \in 0 .. MaxRequests
  <2>1. 0 \in 0 .. 2 /\ 0 \in 0 .. MaxConns /\ 0 \in 0 .. MaxRequests
    BY DEF SessionAssumption
  <2>2. named \subseteq Users
    BY <1>1
  <2>3. flights \in 0 .. 2 /\ conns \in 0 .. MaxConns /\ requests \in 0 .. MaxRequests
    BY <1>4, <2>1
  <2>4. refused \in BOOLEAN /\ seen.req \in 0 .. MaxRequests
    BY <1>2, <1>4, <2>1
  <2> QED
    BY <2>2, <2>3, <2>4
<1>6. seen.d \in Descr
  BY <1>3
<1>7. Sound(d, named) /\ Tied(d) /\ Agrees(seen.d)
  BY <1>3
<1> QED
  BY <1>5, <1>6, <1>7 DEF SessionInv

(* A step that leaves the histories alone and keeps the descriptor sound. *)
LEMMA StepKeeps ==
    ASSUME SessionInv, Keeps(d, named, d'), flights' \in 0 .. 2,
           requests' \in 0 .. MaxRequests,
           UNCHANGED <<conns, named, refused, seen>>
    PROVE  SessionInv'
  BY DEF SessionInv, Keeps, Sound, Tied, Agrees

LEMMA NewKeeps == ASSUME SessionInv, DescrNew PROVE SessionInv'
<1> DEFINE b == Blank(NewEnv(d), FALSE)
           c == [b EXCEPT !.open = TRUE]
<1>1. PICK f \in 0 .. 2 : flights' = f
  BY DEF DescrNew
<1>2. d' \in {[c EXCEPT !.flags = {"ACCEPTED"}]}
              \cup SslAccept([c EXCEPT !.ssl = "pending"], flights')
  BY DEF DescrNew
<1>3. Sound(b, {})
  BY BlankSound, NewEnvEmpty
<1>4. b.flags = {} /\ b.user = NoUser /\ b.linked = FALSE
  BY DEF Blank
<1> HIDE DEF b
<1>5. LET e == [c EXCEPT !.flags = {"ACCEPTED"}] IN Sound(e, {}) /\ Tied(e)
  BY <1>3, <1>4 DEF Sound, Tied, Descr, DF
<1>6. LET e == [c EXCEPT !.ssl = "pending"] IN Sound(e, {}) /\ Tied(e)
  BY <1>3, <1>4 DEF Sound, Tied, Descr, DF
<1> HIDE DEF c
<1>7. Sound(d', {}) /\ Tied(d')
  BY <1>2, <1>5, <1>6, SslKeeps DEF Keeps
<1>8. conns' \in 0 .. MaxConns /\ requests' = 0 /\ named' = {} /\ refused' = FALSE
  BY DEF DescrNew, SessionInv
<1>9. seen'.req = 0 /\ seen'.d = Empty
  BY DEF DescrNew
<1>10. seen'.d \in Descr /\ Agrees(seen'.d)
  BY <1>9, EmptySound DEF Sound
<1>11. Sound(d', named') /\ named' \subseteq Users /\ refused' \in BOOLEAN
  BY <1>7, <1>8
<1>12. /\ flights' \in 0 .. 2 /\ requests' \in 0 .. MaxRequests
       /\ seen'.req \in 0 .. MaxRequests
  BY <1>1, <1>8, <1>9 DEF SessionAssumption
<1> QED
  BY <1>7, <1>8, <1>10, <1>11, <1>12 DEF SessionInv

LEMMA RequestKeeps ==
    ASSUME SessionInv, NEW r \in Requests, RequestHandle(r)
    PROVE  SessionInv'
<1> DEFINE c == IF r.method = "HEAD" THEN [d EXCEPT !.flags = @ \cup {"HEAD"}] ELSE d
           n == requests + 1
           got == HeadersGet(c, r, n)
           ready == Prepared(c, r, n)
           cookie == {r.headers["Cookie"]} \cap Users
<1>1. r \in RequestType /\ n \in 0 .. MaxRequests /\ requests' = n
  BY DEF RequestHandle, Ready, SessionInv
<1>2. UNCHANGED <<flights, conns>>
  BY DEF RequestHandle
<1>3. Keeps(d, named, c)
  BY AddFlag DEF SessionInv, Keeps
<1>4. Sound(c, named) /\ (~refused => Tied(c))
  BY <1>3 DEF Keeps, SessionInv
<1>5. CASE d' = AxilClose(c) /\ UNCHANGED <<named, refused, seen>>
  <2>1. Keeps(d, named, d')
    BY <1>3, <1>4, <1>5, CloseKeeps DEF Keeps
  <2> QED
    BY <1>1, <1>2, <1>5, <2>1, StepKeeps DEF SessionInv
<1>6. CASE d' \in Refuses(got) /\ refused' = TRUE /\ named' = named \cup cookie /\ UNCHANGED seen
  <2>1. Sound(got, named')
    BY <1>1, <1>4, <1>6, HeadersKeep DEF Keeps
  <2>2. Sound(d', named')
    BY <1>6, <2>1, RefusesSound
  <2> HIDE DEF got, cookie
  <2>3. named' \subseteq Users
    BY <1>6 DEF SessionInv, cookie
  <2> QED
    BY <1>1, <1>2, <1>6, <2>2, <2>3 DEF SessionInv
<1>7. CASE /\ seen' = [req |-> n, d |-> ready]
           /\ d' \in Does(MayAuth(ready, r.login), r.does)
           /\ named' = named \cup ({r.headers["Cookie"], r.login} \cap Users)
           /\ UNCHANGED refused
  <2> DEFINE m == MayAuth(ready, r.login)
  <2>1. named \cup cookie \subseteq named' /\ r.login \in Users \cup {NoUser}
    BY <1>1, <1>7 DEF RequestType
  <2>2. Sound(ready, named \cup cookie) /\ (Tied(c) => Tied(ready) /\ Agrees(ready))
    BY <1>1, <1>4, PreparedKeeps DEF Keeps
  <2>3. Sound(ready, named')
    BY <2>1, <2>2, SoundMore
  <2>4. Keeps(ready, named', m)
    BY <1>7, <2>1, <2>3, MayAuthKeeps
  <2>5. Keeps(m, named', d')
    BY <1>1, <1>7, <2>4, DoesKeeps DEF Keeps
  <2> HIDE DEF ready, m, c, cookie
  <2>6. Sound(d', named') /\ (~refused' => Tied(d') /\ Agrees(ready))
    BY <1>4, <1>7, <2>2, <2>4, <2>5 DEF Keeps
  <2>7. ready \in Descr
    BY <2>2 DEF Sound
  <2>8. seen'.req = n /\ seen'.d = ready
    BY <1>7
  <2> QED
    BY <1>1, <1>2, <1>7, <2>6, <2>7, <2>8 DEF SessionInv
<1> QED
  BY <1>1, <1>5, <1>6, <1>7 DEF RequestHandle

LEMMA SessionNext == SessionInv /\ [Next]_vars => SessionInv'
<1> SUFFICES ASSUME SessionInv, [Next]_vars PROVE SessionInv'
  OBVIOUS
<1>1. Sound(d, named) /\ flights \in 0 .. 2 /\ requests \in 0 .. MaxRequests
  BY DEF SessionInv
<1>2. CASE Handshake
  <2>1. Keeps(d, named, d')
    BY <1>1, <1>2, SslKeeps DEF Handshake
  <2> QED
    BY <1>1, <1>2, <2>1, StepKeeps DEF Handshake
<1>3. CASE ClientFlight
  <2>1. Keeps(d, named, d') /\ flights' \in 0 .. 2
    BY <1>1, <1>3 DEF ClientFlight, Keeps
  <2> QED
    BY <1>1, <1>3, <2>1, StepKeeps DEF ClientFlight
<1>4. CASE HangUp \/ Preface
  <2>1. Keeps(d, named, d')
    BY <1>1, <1>4, CloseKeeps DEF HangUp, Preface
  <2> QED
    BY <1>1, <1>4, <2>1, StepKeeps DEF HangUp, Preface
<1>5. CASE Flush
  <2>1. Keeps(d, named, d')
    BY <1>1, <1>5, CloseKeeps, DrainedKeeps DEF Flush
  <2> QED
    BY <1>1, <1>5, <2>1, StepKeeps DEF Flush
<1>6. CASE Command
  <2>1. PICK login \in Users \cup {NoUser} :
          /\ d' \in Writes(MayAuth(d, login))
          /\ named' = named \cup ({login} \cap Users)
    BY <1>6 DEF Command
  <2>2. Sound(d, named')
    BY <1>1, <2>1, SoundMore
  <2>3. Keeps(d, named', MayAuth(d, login))
    BY <2>1, <2>2, MayAuthKeeps
  <2>4. Keeps(MayAuth(d, login), named', d')
    BY <2>1, <2>3, WritesKeep DEF Keeps
  <2>5. Sound(d', named') /\ (Tied(d) => Tied(d'))
    BY <2>3, <2>4 DEF Keeps
  <2>6. /\ requests' \in 0 .. MaxRequests /\ named' \subseteq Users
        /\ UNCHANGED <<flights, conns, refused, seen>>
    BY <1>6, <2>1 DEF Command, Ready, SessionInv
  <2> QED
    BY <2>5, <2>6 DEF SessionInv
<1>7. CASE UNCHANGED vars
  BY <1>7 DEF vars, SessionInv, Sound, Tied, Agrees
<1> QED
  BY <1>2, <1>3, <1>4, <1>5, <1>6, <1>7, NewKeeps, RequestKeeps DEF Next

LEMMA Invariance == Spec => []SessionInv
<1> QED
  BY SessionInit, SessionNext, PTL DEF Spec

(* Every variable keeps its type. *)
THEOREM TypeCorrect == Spec => []TypeOK
<1>1. SessionInv => TypeOK
  BY DEF SessionInv, Sound, TypeOK
<1> QED
  BY <1>1, Invariance, PTL

(* Whoever a descriptor is authenticated for was named on the connection it  *)
(* has now.                                                                  *)
THEOREM UsersSupplied == Spec => []UserSupplied
<1>1. SessionInv => UserSupplied
  BY DEF SessionInv, Sound, UserSupplied
<1> QED
  BY <1>1, Invariance, PTL

(* The password entry is that of the authenticated user. *)
THEOREM PwHolds == Spec => []PwIsUsers
<1>1. SessionInv => PwIsUsers
  BY DEF SessionInv, Sound, PwIsUsers
<1> QED
  BY <1>1, Invariance, PTL

(* axil_connect and axil_disconnect come in pairs until a body is refused.   *)
THEOREM HooksHold == Spec => []HooksPaired
<1>1. SessionInv => HooksPaired
  BY DEF SessionInv, Tied, HooksPaired
<1> QED
  BY <1>1, Invariance, PTL

(* The environment a handler is given is that of the user of its descriptor, *)
(* until a body is refused.                                                  *)
THEOREM EnvHolds == Spec => []EnvAgrees
<1>1. SessionInv => EnvAgrees
  BY DEF SessionInv, Agrees, EnvAgrees
<1> QED
  BY <1>1, Invariance, PTL
=============================================================================
