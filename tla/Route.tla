-------------------------------- MODULE Route --------------------------------
(***************************************************************************)
(* How request_handle (libaxil.c) finds who answers a request that no      *)
(* websocket handler is registered for: the tree of files, a redirect to   *)
(* https, the handler registered for exactly the path, the most specific   *)
(* pattern that matches (axil_match_pattern, over the keys of hdlr_hd in   *)
(* whatever order qmap gives them), the default handler, the fallback      *)
(* handlers, 404.  What a pattern matches is Paths'; a request line is     *)
(* written "METHOD:path", as path_with_method is.                          *)
(***************************************************************************)
EXTENDS Paths

CONSTANTS
    MaxParams,      \* entries of axil_pattern_match_t.params
    ValueSize,      \* bytes of a parameter's value, with its terminator
    Registries,     \* sets of keys that axil_register_handler may have been given
    Methods,
    Uris,           \* what request_path_is_safe lets through
    Prefix,         \* the characters of "METHOD:", by method
    NumFallbacks

(* A method is a word of letters. *)
IsPrefixOfMethod(p) ==
    /\ p \in Seq(STRING) /\ Len(p) > 1
    /\ \A i \in 1 .. Len(p) : p[i] \notin {"", "/", "?", "*", "%"} /\ (p[i] = ":" <=> i = Len(p))

(* An accepted path begins with a slash, or with the escape of one, if that  *)
(* was itself escaped in the target (see Url).                               *)
IsPath(uri) == uri[1] = "/" \/ (uri[1] = "%" /\ Len(uri) > 1)

ASSUME RouteAssumption ==
    /\ MaxParams \in Nat /\ ValueSize \in Nat
    /\ "GET" \in Methods
    /\ Prefix \in [Methods -> Seq(STRING)]
    /\ \A mth \in Methods : IsPrefixOfMethod(Prefix[mth])
    /\ \A a, b \in Methods : Prefix[a] = Prefix[b] => a = b
    /\ \A keys \in Registries : \A key \in keys : key \in Seq(STRING)
    /\ \A uri \in Uris : uri \in Seq(STRING) /\ uri # <<>> /\ IsPath(uri)
    /\ NumFallbacks \in Nat

VARIABLES
    hdlr_hd,        \* the registered keys
    method, document_uri,
    resource,       \* what the files have for document_uri, see Resources
    plain,          \* the request came without TLS, under AXIL_SSL_ONLY
    at,             \* how far request_handle is
    line,           \* the request line the patterns are tried with
    todo,           \* keys the iteration has not come to
    best,           \* a set: the key of best_match, if there is one
    has_default,    \* axil_config.default_handler is set
    served,         \* who answered
    asked           \* history: what the default and fallback handlers returned

request == <<hdlr_hd, method, document_uri, resource, plain, has_default>>
vars == <<request, at, line, todo, best, served, asked>>

NoOne == [by |-> "nobody", key |-> <<>>]

(* What serve.allow, autoindex.allow and the tree make of document_uri, with *)
(* or without its last slash: a file, a directory, one with an index.html,   *)
(* one that may be listed.                                                   *)
Resources == {"nothing", "file", "directory", "index", "listing"}
Directories == {"directory", "index", "listing"}

EndsInSlash == document_uri # <<>> /\ Last(document_uri) = "/"

Init ==
    /\ hdlr_hd \in Registries
    /\ method \in Methods
    /\ document_uri \in Uris
    /\ resource \in Resources
    /\ plain \in BOOLEAN
    /\ at = "slash"
    /\ line = <<>>
    /\ todo = {}
    /\ best = {}
    /\ has_default \in BOOLEAN
    /\ served = NoOne
    /\ asked = <<>>
-----------------------------------------------------------------------------
Line(mth) == Prefix[mth] \o document_uri

Serve(who) ==
    /\ at' = "done"
    /\ served' = who
    /\ UNCHANGED <<line, todo, best, asked>>

(* One stage of request_handle: who answers if the condition holds, and the  *)
(* stage that is next if it does not.                                        *)
Stage(now, condition, who, next) ==
    /\ at = now
    /\ IF condition
       THEN Serve([by |-> who, key |-> <<>>])
       ELSE at' = next /\ UNCHANGED <<line, todo, best, served, asked>>
    /\ UNCHANGED request

(* Mutant: the redirect is left to the listing. *)
TrailingSlashNot == Stage("slash", FALSE, "slash", "static")

(* request_handle_trailing_slash: a directory is redirected to its slash.    *)
TrailingSlash ==
    Stage("slash",
          Len(document_uri) > 1 /\ ~EndsInSlash /\ resource \in Directories,
          "slash", "static")

(* request_handle_static: a regular file, index.html for a path that ends in *)
(* a slash.  The method is not looked at.                                    *)
Static ==
    Stage("static", resource = IF EndsInSlash THEN "index" ELSE "file", "file", "autoindex")

(* A directory that autoindex.allow names is listed, with its slash or not.  *)
Autoindex == Stage("autoindex", resource = "listing", "listing", "redirect")

(* Mutant: the redirect comes when nobody has answered. *)
RedirectLast == Stage("redirect", FALSE, "https", "exact")

(* request_handle_redirect: what comes in the clear goes to https. *)
Redirect == Stage("redirect", plain, "https", "exact")

(* Mutant: any method falls back on GET. *)
ExactKeysOfGet == <<Line(method), Line("GET"), document_uri>>

(* The keys looked up as they are, in this order; HEAD falls back on GET. *)
ExactKeys ==
    IF method = "HEAD"
    THEN <<Line(method), Line("GET"), document_uri>>
    ELSE <<Line(method), document_uri>>

StartPatterns(l) ==
    /\ at' = "patterns"
    /\ line' = l
    /\ todo' = hdlr_hd
    /\ best' = {}
    /\ UNCHANGED <<served, asked>>

Exact ==
    /\ at = "exact"
    /\ LET Found(i) == ExactKeys[i] \in hdlr_hd
       IN \/ \E i \in DOMAIN ExactKeys :
               /\ Found(i) /\ \A j \in 1 .. i - 1 : ~Found(j)
               /\ Serve([by |-> "handler", key |-> ExactKeys[i]])
          \/ /\ \A i \in DOMAIN ExactKeys : ~Found(i)
             /\ StartPatterns(Line(method))
    /\ UNCHANGED request
-----------------------------------------------------------------------------
(* "Skip non-patterns", which is to say keys without ':' and '*': the colon  *)
(* behind the method counts.                                                 *)
IsPattern(key) == ToSet(key) \cap {":", "*"} # {}

Fits(key, path) == Matches(key, path, MaxParams, ValueSize)
Candidate(key) == IsPattern(key) /\ (Fits(key, line) \/ Fits(key, document_uri))

(* pattern_better_match. *)
Better(c, b) ==
    \/ c.wildcard_count < b.wildcard_count
    \/ /\ c.wildcard_count = b.wildcard_count
       /\ \/ c.literal_chars > b.literal_chars
          \/ /\ c.literal_chars = b.literal_chars
             /\ c.param_count < b.param_count

BetterKey(k, l) == Better(Score(k), Score(l))

(* Mutant: the last match is kept. *)
VisitKeepsLast ==
    /\ at = "patterns"
    /\ \E key \in todo :
         /\ todo' = todo \ {key}
         /\ best' = IF Candidate(key) THEN {key} ELSE best
    /\ UNCHANGED <<request, at, line, served, asked>>

(* One turn of the iteration.  A tie goes to the key met first. *)
Visit ==
    /\ at = "patterns"
    /\ \E key \in todo :
         /\ todo' = todo \ {key}
         /\ best' = IF Candidate(key) /\ \A b \in best : BetterKey(key, b)
                    THEN {key} ELSE best
    /\ UNCHANGED <<request, at, line, served, asked>>

(* Mutant: no second go for HEAD. *)
PatternsDoneAtOnce ==
    /\ at = "patterns"
    /\ todo = {}
    /\ IF best # {}
       THEN \E b \in best : Serve([by |-> "handler", key |-> b])
       ELSE at' = "default" /\ UNCHANGED <<line, todo, best, served, asked>>
    /\ UNCHANGED request

(* The end of the iteration: the best is served; a HEAD request has a second *)
(* go with the request line of a GET.                                        *)
PatternsDone ==
    /\ at = "patterns"
    /\ todo = {}
    /\ IF best # {}
       THEN \E b \in best : Serve([by |-> "handler", key |-> b])
       ELSE IF method = "HEAD" /\ line # Line("GET")
       THEN StartPatterns(Line("GET"))
       ELSE at' = "default" /\ UNCHANGED <<line, todo, best, served, asked>>
    /\ UNCHANGED request

(* What the default handler returns is not looked at. *)
Default ==
    /\ at = "default"
    /\ IF has_default
       THEN /\ at' = "done"
            /\ served' = [by |-> "default", key |-> <<>>]
            /\ \E returns \in {"accepts", "declines"} : asked' = Append(asked, returns)
       ELSE at' = "fallback" /\ UNCHANGED <<served, asked>>
    /\ UNCHANGED <<request, line, todo, best>>

(* The fallback handlers in the order they were registered, until one        *)
(* returns non-zero; and the 404.                                            *)
Fallback ==
    /\ at = "fallback"
    /\ IF Len(asked) = NumFallbacks
       THEN at' = "done" /\ served' = [by |-> "404", key |-> <<>>] /\ UNCHANGED asked
       ELSE \/ /\ asked' = Append(asked, "accepts")
               /\ at' = "done" /\ served' = [by |-> "fallback", key |-> <<>>]
            \/ /\ asked' = Append(asked, "declines")
               /\ UNCHANGED <<at, served>>
    /\ UNCHANGED <<request, line, todo, best>>

Files == TrailingSlash \/ Static \/ Autoindex \/ Redirect

Next == Files \/ Exact \/ Visit \/ PatternsDone \/ Default \/ Fallback

Spec == Init /\ [][Next]_vars
-----------------------------------------------------------------------------
(* In whatever order the keys come, the best kept is one that no key visited *)
(* beats; none is kept only if none visited matches.                         *)
Visited == hdlr_hd \ todo

BestKept ==
    at = "patterns" =>
      /\ \A b \in best : Candidate(b)
      /\ \A key \in Visited : Candidate(key) => \E b \in best : ~BetterKey(key, b)

OfTheTree == {"slash", "file", "listing", "https"}

(* A HEAD request finds a handler whenever a GET for the same path does. *)
GetFinds ==
    \/ {Line("GET"), document_uri} \cap hdlr_hd # {}
    \/ \E key \in hdlr_hd :
         IsPattern(key) /\ (Fits(key, Line("GET")) \/ Fits(key, document_uri))

HeadLikeGet ==
    at = "done" /\ served.by \notin OfTheTree /\ method = "HEAD" /\ GetFinds =>
      served.by = "handler"

(* No request is answered by the handler of another method: a handler        *)
(* registered for "METHOD:path" serves that method, and that of GET HEAD.    *)
RightMethod ==
    served.by = "handler" =>
      \A mth \in Methods :
        IsPrefix(Prefix[mth], served.key) => mth = method \/ (method = "HEAD" /\ mth = "GET")

(* A directory is only listed under a path that ends in a slash, so that the *)
(* relative links of the list lead into it.  (request_handle_trailing_slash  *)
(* against request_handle_autoindex, which does not look at the path.)       *)
LinksResolve == served.by = "listing" => EndsInSlash

(* What the program registered is never reached in the clear when            *)
(* AXIL_SSL_ONLY asks for https.  (The stage of request_handle_redirect:     *)
(* the files, asked before it, are.)                                         *)
SecureHandlers == plain => served.by \notin {"handler", "default", "fallback", "404"}
=============================================================================
