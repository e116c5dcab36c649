-------------------------------- MODULE Paths --------------------------------
(***************************************************************************)
(* What a route pattern means: the reference definition that PatternMatch  *)
(* (the loop of pattern_match in libaxil.c) is checked against and that    *)
(* Route builds on.  axil.h: ":param" takes one segment, a "*" at the end  *)
(* takes the rest, slashes that repeat or end the path do not count.       *)
(*                                                                         *)
(* Strings are sequences of one-character strings.                         *)
(***************************************************************************)
EXTENDS Integers, Sequences, FiniteSets, SequencesExt

(* Characters beyond the end read as the terminator. *)
At(s, k) == IF k \in DOMAIN s THEN s[k] ELSE ""
IsEnd(c) == c \in {"", "?"}

First(S) == CHOOSE k \in S : \A l \in S : k <= l

(* The string up to its query. *)
Cut(s) == SubSeq(s, 1, First({k \in 1 .. Len(s) + 1 : IsEnd(At(s, k))}) - 1)

(* A path is words: segments, and slashes that something follows.  A word is *)
(* named by the position it starts at, and has the number of those before.   *)
StartsWord(s, k) ==
    IF s[k] = "/" THEN At(s, k + 1) \notin {"/", ""} ELSE k = 1 \/ s[k - 1] = "/"

Words(s) == {k \in DOMAIN s : StartsWord(s, k)}
NumWords(s) == Cardinality(Words(s))
Number(s, k) == Cardinality({l \in Words(s) : l < k})

WordEnd(s, k) == First({l \in k .. Len(s) + 1 : At(s, l) \in {"/", ""}})
Word(s, k) == IF s[k] = "/" THEN <<"/">> ELSE SubSeq(s, k, WordEnd(s, k) - 1)

(* A parameter takes any segment whose value has room. *)
WordFits(word, given, value_size) ==
    IF word[1] = ":" THEN given # <<"/">> /\ Len(given) < value_size ELSE word = given

(* The position of a "*" that is the last segment, with one slash after it   *)
(* at most; 0 when there is none.                                            *)
CatchAll(pat) ==
    LET n == Len(pat)
    IN CASE n > 0 /\ At(pat, n) = "*" /\ (n = 1 \/ pat[n - 1] = "/") -> n
         [] n > 1 /\ At(pat, n) = "/" /\ pat[n - 1] = "*" /\ (n = 2 \/ pat[n - 2] = "/") -> n - 1
         [] OTHER -> 0

Params(pat) == {k \in Words(pat) : pat[k] = ":"}

(* The characters of the segments that must be there as they are. *)
Literals(pat) ==
    {l \in DOMAIN pat :
       \E k \in Words(pat) : /\ k <= l /\ \A i \in k .. l : pat[i] # "/"
                             /\ pat[k] # ":" /\ k # CatchAll(pat)}

(* Word by word; max_params and value_size are the limits of                 *)
(* axil_pattern_match_t.                                                     *)
Matches(pattern, path, max_params, value_size) ==
    LET pat == Cut(pattern)
        given == Cut(path)
        all == CatchAll(pat)
    IN /\ IF all = 0 THEN NumWords(given) = NumWords(pat)
                     ELSE NumWords(given) >= NumWords(pat)
       /\ \A k \in Words(pat) \ {all}, l \in Words(given) :
            Number(pat, k) = Number(given, l) =>
              WordFits(Word(pat, k), Word(given, l), value_size)
       /\ Cardinality(Params(pat)) <= max_params

(* How specific a pattern is. *)
Score(pattern) ==
    LET pat == Cut(pattern)
    IN [literal_chars |-> Cardinality(Literals(pat)),
        param_count |-> Cardinality(Params(pat)),
        wildcard_count |-> IF CatchAll(pat) = 0 THEN 0 ELSE 1]
=============================================================================
