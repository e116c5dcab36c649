-------------------------------- MODULE Url --------------------------------
(***************************************************************************)
(* Escapes: request_path_is_safe, which takes a target apart until nothing *)
(* is left to decode; axil_url_decode, which decodes once and by rules of  *)
(* its own; query_parse, by a third set of rules; and what is escaped by   *)
(* axil_url_encode and axil_json_escape for others to decode.  A string is *)
(* a sequence of character codes without its terminator.                   *)
(***************************************************************************)
EXTENDS Integers, SequencesExt

CONSTANT BufSize        \* BUFSIZ

SPACE == 32  QUOTE == 34  PERCENT == 37  PLUS == 43  DASH == 45  DOT == 46  SLASH == 47
QUERY == 63  BACKSLASH == 92  UNDERSCORE == 95  DELETE == 127

Digits == 48 .. 57
Uppers == 65 .. 90
Lowers == 97 .. 122

(* hex_digit_value. *)
Hex(c) == CASE c \in Digits -> c - 48
            [] c \in 65 .. 70 -> c - 55
            [] c \in 97 .. 102 -> c - 87
            [] OTHER -> -1

IsEscape(s, i) ==
    i + 2 <= Len(s) /\ s[i] = PERCENT /\ Hex(s[i + 1]) >= 0 /\ Hex(s[i + 2]) >= 0

Unescape(s, i) == 16 * Hex(s[i + 1]) + Hex(s[i + 2])

(* What a loop puts together that walks a string of n characters, puts       *)
(* put[i] for what it finds at i and goes on at next[i].                     *)
Walk(n, put, next) ==
    LET from[i \in Nat \ {0}] == IF i > n THEN <<>> ELSE <<put[i]>> \o from[next[i]]
    IN from

(* s with its escapes taken out; what a plus sign turns into, and a % without *)
(* two digits behind it, differs.                                            *)
Decoded(s, plus, percent) ==
    Walk(Len(s),
         [i \in DOMAIN s |-> CASE IsEscape(s, i) -> Unescape(s, i)
                              [] s[i] = PLUS -> plus
                              [] s[i] = PERCENT /\ ~IsEscape(s, i) -> percent
                              [] OTHER -> s[i]],
         [i \in DOMAIN s |-> IF IsEscape(s, i) THEN i + 3 ELSE i + 1])[1]

(* axil_url_decode. *)
UrlDecode(s, out_len) ==
    LET all == Decoded(s, SPACE, PERCENT)
    IN SubSeq(all, 1, IF Len(all) < out_len THEN Len(all) ELSE out_len - 1)

(* The value of a pair in query_parse: two characters behind a % go with it, *)
(* whatever they are.  sscanf finds a number of two digits or of one, or     *)
(* leaves an int that was never set; a blank or a sign it skips is not here. *)
Unset == -1
Scanned(a, b) == CASE Hex(a) < 0 -> Unset
                   [] Hex(a) >= 0 /\ Hex(b) < 0 -> Hex(a)
                   [] OTHER -> 16 * Hex(a) + Hex(b)

QueryValue(s) ==
    LET taken == {i \in DOMAIN s : s[i] = PERCENT /\ i + 2 <= Len(s)}
    IN Walk(Len(s),
            [i \in DOMAIN s |-> CASE i \in taken -> Scanned(s[i + 1], s[i + 2])
                                 [] s[i] = PLUS -> SPACE
                                 [] OTHER -> s[i]],
            [i \in DOMAIN s |-> IF i \in taken THEN i + 3 ELSE i + 1])[1]

First(S) == CHOOSE k \in S : \A l \in S : k <= l

(* strcspn and strchr: what comes before the first '?'. *)
Cut(s) ==
    SubSeq(s, 1, First({i \in 1 .. Len(s) + 1 : i \in DOMAIN s => s[i] = QUERY}) - 1)

HasDotDot(s) ==
    \E i \in 1 .. Len(s) - 1 :
      /\ s[i] = DOT /\ s[i + 1] = DOT
      /\ i = 1 \/ s[i - 1] = SLASH
      /\ i + 1 = Len(s) \/ s[i + 2] = SLASH

(* Of a pass over the path: a bad escape is -1. *)
Pass(s) == Decoded(s, PLUS, -1)
Allowed(c) == c >= 32 /\ c \notin {BACKSLASH, DELETE}

(* Mutant: decoded once, as axil_url_decode does. *)
PassesOnce(path) == {Pass(path)}

(* The loop ends when there was nothing to decode; each pass but the last is *)
(* shorter than the one before.                                              *)
Passes(path) ==
    LET pass[k \in 0 .. Len(path)] == IF k = 0 THEN path ELSE Pass(pass[k - 1])
    IN {pass[k] : k \in 1 .. Len(path)}

(* request_path_is_safe. *)
PathIsSafe(target) ==
    LET path == Cut(target)
    IN /\ path # <<>> /\ Len(path) < BufSize
       /\ \A s \in Passes(path) :
            /\ \A i \in 1 .. Len(s) : Allowed(s[i])
            /\ ~HasDotDot(s)
            /\ PERCENT \notin ToSet(s) => s[1] = SLASH

(* request_handle up to document_uri; the target may be refused. *)
Accepted(target) ==
    /\ PathIsSafe(target)
    /\ Len(target) < BufSize
    /\ 0 \notin ToSet(UrlDecode(target, BufSize))
DocumentUri(target) == Cut(UrlDecode(target, BufSize))
-----------------------------------------------------------------------------
(* The loop of both that escape: the k-th escape is put as long as there is  *)
(* place for room[k] more behind what is there.                              *)
Escaped(escapes, room, outlen) ==
    LET out[k \in 0 .. Len(escapes)] ==
          IF k = 0 THEN <<>> ELSE out[k - 1] \o escapes[k]
        fits(k) == \A i \in 1 .. k : Len(out[i - 1]) + room[i] < outlen
    IN out[CHOOSE k \in 0 .. Len(escapes) : fits(k) /\ (k = Len(escapes) \/ ~fits(k + 1))]

UpperHex(n) == IF n < 10 THEN 48 + n ELSE 55 + n
LowerHex(n) == IF n < 10 THEN 48 + n ELSE 87 + n

(* Mutant: a plus sign stays. *)
UnreservedPlus(c) == c \in Digits \cup Uppers \cup Lowers \cup {DASH, UNDERSCORE, DOT, 126, PLUS}

Unreserved(c) == c \in Digits \cup Uppers \cup Lowers \cup {DASH, UNDERSCORE, DOT, 126}

(* axil_url_encode. *)
UrlEscape(c) ==
    IF Unreserved(c) THEN <<c>> ELSE <<PERCENT, UpperHex(c \div 16), UpperHex(c % 16)>>

UrlEncode(s, outlen) ==
    Escaped([i \in DOMAIN s |-> UrlEscape(s[i])], [i \in DOMAIN s |-> 4], outlen)

(* The letters of \n, \r and \t. *)
Named == [c \in {10, 13, 9} |-> CASE c = 10 -> 110 [] c = 13 -> 114 [] c = 9 -> 116]
IsControl(c) == c < 32 /\ c \notin DOMAIN Named

(* axil_json_escape. *)
JsonEscapeOf(c) ==
    CASE c \in {QUOTE, BACKSLASH} -> <<BACKSLASH, c>>
      [] c \in DOMAIN Named -> <<BACKSLASH, Named[c]>>
      [] IsControl(c) ->
           <<BACKSLASH, 117, 48, 48, LowerHex(c \div 16), LowerHex(c % 16)>>
      [] OTHER -> <<c>>

JsonEscape(s, outlen) ==
    Escaped([i \in DOMAIN s |-> JsonEscapeOf(s[i])],
            [i \in DOMAIN s |-> IF IsControl(s[i]) THEN 6 ELSE 2], outlen)
-----------------------------------------------------------------------------
(* A JSON reader's way with a string. *)
JsonRead(s) ==
    LET escapes == {i \in DOMAIN s : i < Len(s) /\ s[i] = BACKSLASH}
        codes == {i \in escapes : s[i + 1] = 117 /\ i + 5 <= Len(s)}
        names == {i \in escapes : \E c \in DOMAIN Named : Named[c] = s[i + 1]}
    IN Walk(Len(s),
            [i \in DOMAIN s |->
               CASE i \in codes -> 16 * Hex(s[i + 4]) + Hex(s[i + 5])
                 [] i \in names -> CHOOSE c \in DOMAIN Named : Named[c] = s[i + 1]
                 [] i \in escapes /\ i \notin codes \cup names -> s[i + 1]
                 [] OTHER -> s[i]],
            [i \in DOMAIN s |->
               CASE i \in codes -> i + 6 [] i \in escapes \ codes -> i + 2 [] OTHER -> i + 1])[1]

(* A target that is accepted names something under the root, for whoever     *)
(* decodes it: once, as request_handle does, or once more.  It begins with a *)
(* slash, or with the escape of one, which was itself escaped in the target: *)
(* the check decodes until nothing is left, request_handle once.  An escaped *)
(* '?' is left out: the check looks past it, request_handle cuts the path    *)
(* there.                                                                    *)
StaysInside(target) ==
    Accepted(target) /\ QUERY \notin ToSet(UrlDecode(Cut(target), BufSize)) =>
      LET uri == DocumentUri(target)
      IN /\ uri # <<>> /\ (uri[1] = SLASH \/ IsEscape(uri, 1))
         /\ ~HasDotDot(uri) /\ ~HasDotDot(UrlDecode(uri, BufSize))

(* What was escaped comes back, by both decoders of URLs and by a reader of  *)
(* JSON: all of it if the buffer is large enough, and otherwise a beginning  *)
(* of it, in which no character is half there.  The buffer is never overrun. *)
ComesBack(s, outlen) ==
    LET url == UrlEncode(s, outlen)
        json == JsonEscape(s, outlen)
    IN /\ Len(url) < outlen /\ Len(json) < outlen
       /\ IsPrefix(UrlDecode(url, outlen), s) /\ IsPrefix(QueryValue(url), s)
       /\ IsPrefix(JsonRead(json), s)
       /\ outlen >= 3 * Len(s) + 2 => UrlDecode(url, outlen) = s
       /\ outlen >= 6 * Len(s) + 2 => JsonRead(json) = s
=============================================================================
