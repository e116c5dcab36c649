---------------------------- MODULE PatternMatch ----------------------------
(***************************************************************************)
(* The loop of pattern_match (libaxil.c), which walks pattern and path     *)
(* side by side, one turn per step, checked against the meaning Paths      *)
(* gives a pattern.                                                        *)
(***************************************************************************)
EXTENDS Paths

CONSTANTS
    MaxEntries,                     \* of m->params
    EntrySize,                      \* bytes of a value, with its terminator
    PatternChars, PathChars,        \* alphabets, without the terminator
    MaxPattern, MaxPath             \* bounds: lengths

ASSUME PatternMatchAssumption ==
    /\ MaxEntries \in Nat /\ EntrySize \in Nat
    /\ PatternChars \subseteq STRING /\ PathChars \subseteq STRING
    /\ MaxPattern \in Nat /\ MaxPath \in Nat

VARIABLES
    pattern, document,  \* the two strings
    pat, path,          \* how far each has been walked
    m,                  \* axil_pattern_match_t; params as what each captured
    result              \* of pattern_match: 0, 1, or -1 while it runs

loop == <<pattern, document, pat, path, m, result>>

LoopInit ==
    /\ pattern \in BoundedSeq(PatternChars, MaxPattern)
    /\ document \in BoundedSeq(PathChars, MaxPath)
    /\ pat = 1
    /\ path = 1
    /\ m = [literal_chars |-> 0, param_count |-> 0, wildcard_count |-> 0, params |-> <<>>]
    /\ result = -1
-----------------------------------------------------------------------------
(* The slashes in front of another slash or of the end are skipped. *)
SkipTo(s, k) ==
    First({l \in k .. Len(s) + 1 :
             ~(At(s, l) = "/" /\ (At(s, l + 1) = "/" \/ IsEnd(At(s, l + 1))))})

SegmentEnd(s, k) == First({l \in k .. Len(s) + 1 : At(s, l) = "/" \/ IsEnd(At(s, l))})

P == SkipTo(pattern, pat)
U == SkipTo(document, path)
PatChar == At(pattern, P)
PathChar == At(document, U)

BothEnd == IsEnd(PatChar) /\ IsEnd(PathChar)
OneEnds == ~BothEnd /\ (IsEnd(PatChar) \/ IsEnd(PathChar))
(* Mutant: a star anywhere takes the rest. *)
IsWildcardAnywhere == PatChar = "*"

IsWildcard ==
    /\ PatChar = "*"
    /\ \/ IsEnd(At(pattern, P + 1))
       \/ At(pattern, P + 1) = "/" /\ IsEnd(At(pattern, P + 2))
GoesOn == result = -1 /\ ~BothEnd /\ ~OneEnds /\ ~IsWildcard
AtSegments == GoesOn /\ PatChar # "/" /\ PathChar # "/"

Returns(r) == result' = r /\ UNCHANGED <<pattern, document, pat, path>>
Walks(p, u) == pat' = p /\ path' = u /\ UNCHANGED <<pattern, document, result>>

End ==
    /\ result = -1
    /\ BothEnd \/ OneEnds
    /\ Returns(IF BothEnd THEN 1 ELSE 0)
    /\ UNCHANGED m

Wildcard ==
    /\ result = -1 /\ ~BothEnd /\ ~OneEnds
    /\ IsWildcard
    /\ Returns(1)
    /\ m' = [m EXCEPT !.wildcard_count = @ + 1]

(* Mutant: equal slashes are not stepped over. *)
SlashStays ==
    /\ GoesOn
    /\ PatChar = "/" \/ PathChar = "/"
    /\ IF PatChar = PathChar THEN Walks(P, U) ELSE Returns(0)
    /\ UNCHANGED m

Slash ==
    /\ GoesOn
    /\ PatChar = "/" \/ PathChar = "/"
    /\ IF PatChar = PathChar THEN Walks(P + 1, U + 1) ELSE Returns(0)
    /\ UNCHANGED m

(* Room in m->params. *)
Room == Len(m.params) < MaxEntries

(* A parameter needs a free entry and a value that fits.  The entry is       *)
(* taken before the value is measured.                                       *)
Param ==
    /\ AtSegments
    /\ PatChar = ":"
    /\ LET value == SubSeq(document, U, SegmentEnd(document, U) - 1)
           taken == [m EXCEPT !.params = Append(@, value)]
       IN IF ~Room
          THEN Returns(0) /\ UNCHANGED m
          ELSE IF Len(value) >= EntrySize
               THEN Returns(0) /\ m' = taken
               ELSE /\ Walks(SegmentEnd(pattern, P), SegmentEnd(document, U))
                    /\ m' = [taken EXCEPT !.param_count = @ + 1]

Literal ==
    /\ AtSegments
    /\ PatChar # ":"
    /\ LET segment == SubSeq(pattern, P, SegmentEnd(pattern, P) - 1)
       IN IF segment = SubSeq(document, U, SegmentEnd(document, U) - 1)
          THEN /\ Walks(SegmentEnd(pattern, P), SegmentEnd(document, U))
               /\ m' = [m EXCEPT !.literal_chars = @ + Len(segment)]
          ELSE Returns(0) /\ UNCHANGED m

LoopNext == End \/ Wildcard \/ Slash \/ Param \/ Literal

LoopSpec == LoopInit /\ [][LoopNext]_loop /\ WF_loop(LoopNext)
-----------------------------------------------------------------------------
(* What the parameters of a pattern capture, the i-th of them the word of    *)
(* the path that has its number.                                             *)
Captures(params) ==
    LET p == Cut(pattern)
        d == Cut(document)
    IN /\ Len(params) = Cardinality(Params(p))
       /\ \A k \in Params(p), l \in Words(d) :
            Number(p, k) = Number(d, l) =>
              params[Cardinality({j \in Params(p) : j <= k})] = Word(d, l)

(* The loop of pattern_match finds what the pattern means: it matches when   *)
(* Paths says so, and then it has counted what Paths counts and captured the *)
(* right segments, in order.                                                 *)
FindsMatches ==
    result # -1 =>
      /\ result = 1 <=> Matches(pattern, document, MaxEntries, EntrySize)
      /\ result = 1 =>
           /\ [f \in {"literal_chars", "param_count", "wildcard_count"} |-> m[f]]
                = Score(pattern)
           /\ Captures(m.params)

(* The loop ends: every turn moves on in both strings or returns.            *)
Returned == <>(result # -1)
=============================================================================
