----------------------------- MODULE MCSession -----------------------------
(* Requests for TLC: each of those below has one or two things of its own.   *)
EXTENDS Session

Plain == [h \in Headers |-> "none"]

Get == [method |-> "GET", safe |-> TRUE, headers |-> Plain, login |-> NoUser,
        does |-> "writes"]

(* Two users with a session, of whom one is not in the password database; a  *)
(* handler that logs in; an upgrade; refusals.                               *)
Several ==
    {Get}
    \cup {[Get EXCEPT !.headers["Cookie"] = u, !.does = w] :
            u \in Users, w \in {"writes", "responds"}}
    \cup {[Get EXCEPT !.login = u] : u \in Users}
    \cup {[Get EXCEPT !.headers["Sec-WebSocket-Key"] = "key", !.does = "upgrades"],
          [Get EXCEPT !.does = "upgrades"],
          [Get EXCEPT !.method = "HEAD", !.does = "responds"],
          [Get EXCEPT !.safe = FALSE]}
    \cup {[Get EXCEPT !.method = "POST", !.headers["Content-Length"] = l,
                      !.headers["Content-Type"] = t] :
            l \in {"none", "short", "long"}, t \in {"none", "form"}}
=============================================================================
