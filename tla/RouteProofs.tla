---------------------------- MODULE RouteProofs ----------------------------
(***************************************************************************)
(* Proofs about Route and PatternMatch.  What a pattern means is proved    *)
(* about first: strings are cut into words, and words are counted.  From   *)
(* that, the loop of pattern_match finds what a pattern means, for every   *)
(* pattern and every path; and a pattern of one method never matches a     *)
(* request of another.  pattern_better_match is a strict order, so the     *)
(* iteration of axil_match_pattern ends with a pattern that nothing        *)
(* registered beats, in whatever order qmap hands out the keys; the files  *)
(* are asked before the handlers, and a HEAD request finds what a GET does.*)
(***************************************************************************)
EXTENDS Route, PatternMatch, FiniteSetTheorems, SequenceTheorems,
        WellFoundedInduction, TLAPS

(* Natural numbers are well-founded. *)
LEMMA Smallest ==
    ASSUME NEW T, T \subseteq Nat, T # {}
    PROVE  \E n \in T : \A l \in T : n <= l
<1> DEFINE less == {ss \in Nat \X Nat : ss[1] < ss[2]}
<1>1. OpToRel(<, Nat) = less
  BY DEF OpToRel
<1>2. IsWellFoundedOn(less, Nat)
  BY <1>1, NatLessThanWellFounded
<1> HIDE DEF less
<1>3. PICK n \in T : \A l \in T : ~(<<l, n>> \in less)
  BY <1>2, WFMin
<1>4. ASSUME NEW l \in T PROVE n <= l
  <2>1. <<l, n>> \notin less
    BY <1>3
  <2>2. l \in Nat /\ n \in Nat
    OBVIOUS
  <2>3. ~(l < n)
    BY <2>1, <2>2 DEF less
  <2> QED
    BY <2>2, <2>3
<1> QED
  BY <1>4

LEMMA FirstIs ==
    ASSUME NEW S, S \subseteq Nat, NEW k \in S
    PROVE  First(S) \in S /\ First(S) <= k /\ \A l \in S : First(S) <= l
<1>1. \E n \in S : \A l \in S : n <= l
  BY Smallest
<1> QED
  BY <1>1 DEF First

LEMMA FirstIsThe ==
    ASSUME NEW S, S \subseteq Nat, NEW k \in S, \A l \in S : k <= l
    PROVE  First(S) = k
<1>1. First(S) \in S /\ First(S) <= k
  BY FirstIs
<1>2. First(S) \in Nat /\ k \in Nat /\ k <= First(S)
  BY <1>1
<1> QED
  BY <1>1, <1>2
-----------------------------------------------------------------------------
(* Positions below a given one in a set of positions, which are counted.     *)
Below(S, k) == {l \in S : l < k}

LEMMA PositionsFinite ==
    ASSUME NEW n \in Nat, NEW S, S \subseteq 1 .. n
    PROVE  IsFiniteSet(S) /\ Cardinality(S) \in Nat
<1>1. IsFiniteSet(1 .. n)
  BY FS_Interval
<1> QED
  BY <1>1, FS_Subset, FS_CardinalityType

LEMMA BelowNothing ==
    ASSUME NEW n \in Nat, NEW S, S \subseteq 1 .. n, NEW k \in Nat, NEW l \in Nat,
           k <= l, \A i \in k .. l - 1 : i \notin S
    PROVE  Below(S, l) = Below(S, k)
<1>1. \A i \in S : i \in Nat
  OBVIOUS
<1>2. ASSUME NEW i \in S PROVE i < l <=> i < k
  BY <1>1
<1> QED
  BY <1>2 DEF Below

LEMMA BelowNext ==
    ASSUME NEW n \in Nat, NEW S, S \subseteq 1 .. n, NEW k \in S, NEW l \in Nat,
           k < l, \A i \in k + 1 .. l - 1 : i \notin S
    PROVE  /\ Below(S, l) = Below(S, k) \cup {k}
           /\ Cardinality(Below(S, l)) = Cardinality(Below(S, k)) + 1
<1>1. \A i \in S : i \in Nat
  OBVIOUS
<1>2. ASSUME NEW i \in S PROVE i < l <=> i < k \/ i = k
  BY <1>1
<1>3. Below(S, l) = Below(S, k) \cup {k}
  BY <1>2 DEF Below
<1>4. IsFiniteSet(Below(S, k)) /\ k \notin Below(S, k)
  <2>1. Below(S, k) \subseteq 1 .. n
    BY DEF Below
  <2> QED
    BY <2>1, PositionsFinite DEF Below
<1> QED
  BY <1>3, <1>4, FS_AddElement

(* Of two positions the later has more before it. *)
LEMMA BelowGrows ==
    ASSUME NEW n \in Nat, NEW S, S \subseteq 1 .. n, NEW k \in S, NEW l \in Nat, k < l
    PROVE  /\ Cardinality(Below(S, k)) < Cardinality(Below(S, l))
           /\ Cardinality(Below(S, k)) < Cardinality(S)
<1> DEFINE more == Below(S, k) \cup {k}
<1>1. Below(S, k) \subseteq 1 .. n /\ Below(S, l) \subseteq 1 .. n
  BY DEF Below
<1>2. IsFiniteSet(Below(S, k)) /\ k \notin Below(S, k)
  BY <1>1, PositionsFinite DEF Below
<1>3. Cardinality(more) = Cardinality(Below(S, k)) + 1
  BY <1>2, FS_AddElement
<1>4. more \subseteq Below(S, l) /\ more \subseteq S
  <2>1. k \in Nat /\ \A i \in S : i \in Nat
    OBVIOUS
  <2>2. \A i \in S : i < k => i < l
    BY <2>1
  <2> QED
    BY <2>2 DEF Below
<1>5. Cardinality(more) <= Cardinality(Below(S, l)) /\ Cardinality(more) <= Cardinality(S)
  BY <1>1, <1>4, PositionsFinite, FS_Subset
<1>6. /\ Cardinality(Below(S, k)) \in Nat /\ Cardinality(Below(S, l)) \in Nat
      /\ Cardinality(S) \in Nat
  BY <1>1, PositionsFinite
<1> QED
  BY <1>3, <1>5, <1>6

LEMMA BelowTells ==
    ASSUME NEW n \in Nat, NEW S, S \subseteq 1 .. n, NEW k \in S, NEW l \in Nat
    PROVE  /\ Cardinality(Below(S, k)) < Cardinality(Below(S, l)) => k < l
           /\ l \in S /\ Cardinality(Below(S, k)) = Cardinality(Below(S, l)) => k = l
<1>1. k \in Nat
  OBVIOUS
<1>2. Below(S, k) \subseteq 1 .. n /\ Below(S, l) \subseteq 1 .. n
  BY DEF Below
<1>3. Cardinality(Below(S, k)) \in Nat /\ Cardinality(Below(S, l)) \in Nat
  BY <1>2, PositionsFinite
<1>4. ASSUME l <= k PROVE Cardinality(Below(S, l)) <= Cardinality(Below(S, k))
  <2>1. Below(S, l) \subseteq Below(S, k)
    <3>1. \A i \in S : i \in Nat
      OBVIOUS
    <3>2. \A i \in S : i < l => i < k
      BY <1>1, <1>4, <3>1
    <3> QED
      BY <3>2 DEF Below
  <2> QED
    BY <1>2, <2>1, PositionsFinite, FS_Subset
<1>5. Cardinality(Below(S, k)) < Cardinality(Below(S, l)) => k < l
  BY <1>1, <1>3, <1>4
<1>6. ASSUME l \in S, Cardinality(Below(S, k)) = Cardinality(Below(S, l)) PROVE k = l
  <2>1. ~(k < l)
    <3>1. k < l => Cardinality(Below(S, k)) < Cardinality(Below(S, l))
      BY BelowGrows
    <3> QED
      BY <1>3, <1>6, <3>1
  <2>2. ~(l < k)
    <3>1. l < k => Cardinality(Below(S, l)) < Cardinality(Below(S, k))
      BY <1>1, <1>6, BelowGrows
    <3> QED
      BY <1>3, <1>6, <3>1
  <2> QED
    BY <1>1, <2>1, <2>2
<1> QED
  BY <1>5, <1>6
-----------------------------------------------------------------------------
(* What Cut leaves. *)
LEMMA CutIs ==
    ASSUME NEW s \in Seq(STRING)
    PROVE  /\ Cut(s) \in Seq(STRING)
           /\ Len(Cut(s)) \in Nat /\ Len(Cut(s)) <= Len(s)
           /\ DOMAIN Cut(s) = 1 .. Len(Cut(s))
           /\ \A k \in 1 .. Len(Cut(s)) : Cut(s)[k] = s[k] /\ At(s, k) = s[k] /\ ~IsEnd(s[k])
           /\ IsEnd(At(s, Len(Cut(s)) + 1))
<1> DEFINE ends == {k \in 1 .. Len(s) + 1 : IsEnd(At(s, k))}
           n == First(ends)
<1>1. Len(s) \in Nat /\ DOMAIN s = 1 .. Len(s)
  OBVIOUS
<1>2. Len(s) + 1 \in ends
  <2>1. Len(s) + 1 \notin DOMAIN s /\ Len(s) + 1 \in 1 .. Len(s) + 1
    BY <1>1
  <2> QED
    BY <2>1 DEF At, IsEnd
<1>3. n \in ends /\ \A l \in ends : n <= l
  BY <1>1, <1>2, FirstIs
<1> HIDE DEF n
<1>4. n \in 1 .. Len(s) + 1 /\ IsEnd(At(s, n))
  BY <1>3
<1>5. ASSUME NEW k \in 1 .. n - 1
      PROVE  k \in 1 .. Len(s) /\ At(s, k) = s[k] /\ ~IsEnd(s[k])
  <2>1. k \in 1 .. Len(s) /\ k \in 1 .. Len(s) + 1 /\ ~(n <= k)
    BY <1>1, <1>4
  <2>2. At(s, k) = s[k]
    BY <1>1, <2>1 DEF At
  <2> QED
    BY <1>3, <2>1, <2>2
<1>6. Cut(s) = SubSeq(s, 1, n - 1)
  BY DEF Cut, n
<1>7. /\ Cut(s) \in Seq(STRING) /\ Len(Cut(s)) = n - 1
      /\ DOMAIN Cut(s) = 1 .. n - 1
      /\ \A k \in 1 .. n - 1 : Cut(s)[k] = s[k]
  BY <1>1, <1>4, <1>6
<1> QED
  BY <1>1, <1>4, <1>5, <1>7

LEMMA CutIsSeq == ASSUME NEW s \in Seq(STRING) PROVE Cut(s) \in Seq(STRING)
  BY CutIs

(* A character of what is left, and what pattern_match sees in its place.    *)
LEMMA AtCut ==
    ASSUME NEW s \in Seq(STRING), NEW k \in 1 .. Len(Cut(s)) + 1
    PROVE  /\ k <= Len(Cut(s)) => At(Cut(s), k) = s[k] /\ At(s, k) = s[k] /\ ~IsEnd(At(s, k))
           /\ k > Len(Cut(s)) => At(Cut(s), k) = "" /\ IsEnd(At(s, k))
           /\ (At(s, k) = "/" \/ IsEnd(At(s, k))) <=> At(Cut(s), k) \in {"/", ""}
<1>1. Len(Cut(s)) \in Nat /\ DOMAIN Cut(s) = 1 .. Len(Cut(s))
  BY CutIs
<1>2. CASE k <= Len(Cut(s))
  <2>1. k \in 1 .. Len(Cut(s)) /\ ~(k > Len(Cut(s)))
    BY <1>1, <1>2
  <2>2. Cut(s)[k] = s[k] /\ At(s, k) = s[k] /\ ~IsEnd(s[k])
    BY <2>1, CutIs
  <2>3. At(Cut(s), k) = s[k]
    BY <1>1, <2>1, <2>2 DEF At
  <2>4. ~IsEnd(At(s, k)) /\ At(Cut(s), k) # ""
    BY <2>2, <2>3 DEF IsEnd
  <2> QED
    BY <2>1, <2>2, <2>3, <2>4
<1>3. CASE k > Len(Cut(s))
  <2>1. k = Len(Cut(s)) + 1 /\ k \notin 1 .. Len(Cut(s)) /\ ~(k <= Len(Cut(s)))
    BY <1>1, <1>3
  <2>2. At(Cut(s), k) = ""
    BY <1>1, <2>1 DEF At
  <2>3. IsEnd(At(s, k))
    BY <2>1, CutIs
  <2> QED
    BY <2>1, <2>2, <2>3
<1>4. k <= Len(Cut(s)) \/ k > Len(Cut(s))
  BY <1>1
<1> QED
  BY <1>2, <1>3, <1>4

LEMMA WordsArePositions ==
    ASSUME NEW s \in Seq(STRING)
    PROVE  /\ Len(s) \in Nat /\ Words(s) \subseteq 1 .. Len(s)
           /\ Params(s) \subseteq 1 .. Len(s) /\ Literals(s) \subseteq 1 .. Len(s)
           /\ NumWords(s) \in Nat
           /\ \A k : Number(s, k) = Cardinality(Below(Words(s), k)) /\ Number(s, k) \in Nat
<1>1. /\ Len(s) \in Nat /\ Words(s) \subseteq 1 .. Len(s)
      /\ Params(s) \subseteq 1 .. Len(s) /\ Literals(s) \subseteq 1 .. Len(s)
  BY DEF Words, Params, Literals
<1>2. \A k : Number(s, k) = Cardinality(Below(Words(s), k))
  BY DEF Number, Below
<1>3. \A k : Below(Words(s), k) \subseteq 1 .. Len(s)
  BY <1>1 DEF Below
<1>4. \A k : Number(s, k) \in Nat
  BY <1>1, <1>2, <1>3, PositionsFinite
<1>5. NumWords(s) \in Nat
  BY <1>1, PositionsFinite DEF NumWords
<1> QED
  BY <1>1, <1>2, <1>4, <1>5

-----------------------------------------------------------------------------
(* A string without a terminator inside. *)
Clean(c) == \A k \in 1 .. Len(c) : c[k] # ""

LEMMA CutIsClean == ASSUME NEW s \in Seq(STRING) PROVE Cut(s) \in Seq(STRING) /\ Clean(Cut(s))
  BY CutIs DEF Clean, IsEnd

LEMMA CharAt ==
    ASSUME NEW c \in Seq(STRING), Clean(c)
    PROVE  /\ Len(c) \in Nat /\ DOMAIN c = 1 .. Len(c)
           /\ \A k \in 1 .. Len(c) : At(c, k) = c[k] /\ At(c, k) # "" /\ c[k] \in STRING
           /\ At(c, Len(c) + 1) = ""
<1>1. Len(c) \in Nat /\ DOMAIN c = 1 .. Len(c) /\ \A k \in 1 .. Len(c) : c[k] \in STRING
  OBVIOUS
<1>2. ASSUME NEW k \in 1 .. Len(c)
      PROVE  At(c, k) = c[k] /\ At(c, k) # "" /\ c[k] \in STRING
  BY <1>1 DEF At, Clean
<1>3. At(c, Len(c) + 1) = ""
  <2>1. Len(c) + 1 \notin DOMAIN c
    BY <1>1
  <2> QED
    BY <2>1 DEF At
<1> QED
  BY <1>1, <1>2, <1>3

(* Between words: where one starts, or nothing but slashes is left. *)
Boundary(c, k) == k = 1 \/ k = Len(c) + 1 \/ c[k] = "/" \/ c[k - 1] = "/"

(* SkipTo passes no word, and stops at one or at the end. *)
LEMMA Skips ==
    ASSUME NEW s \in Seq(STRING), NEW k \in 1 .. Len(Cut(s)) + 1, Boundary(Cut(s), k)
    PROVE  /\ SkipTo(s, k) \in k .. Len(Cut(s)) + 1
           /\ \A i \in k .. SkipTo(s, k) - 1 : Cut(s)[i] = "/" /\ i \notin Words(Cut(s))
           /\ SkipTo(s, k) <= Len(Cut(s)) => SkipTo(s, k) \in Words(Cut(s))
<1> DEFINE c == Cut(s)
           ends == {l \in k .. Len(s) + 1 :
                     ~(At(s, l) = "/" /\ (At(s, l + 1) = "/" \/ IsEnd(At(s, l + 1))))}
           q == First(ends)
<1>1. c \in Seq(STRING) /\ Clean(c) /\ Len(c) \in Nat /\ Len(c) <= Len(s) /\ Len(s) \in Nat
  BY CutIsClean, CutIs
<1>2. SkipTo(s, k) = q
  BY DEF SkipTo
<1>3. Len(c) + 1 \in ends
  <2>1. Len(c) + 1 \in k .. Len(s) + 1 /\ Len(c) + 1 \in 1 .. Len(c) + 1
    BY <1>1
  <2>2. IsEnd(At(s, Len(c) + 1))
    BY CutIs
  <2>3. At(s, Len(c) + 1) # "/"
    BY <2>2 DEF IsEnd
  <2> QED
    BY <2>1, <2>3
<1>4. q \in ends /\ q <= Len(c) + 1 /\ \A l \in ends : q <= l
  <2>1. ends \subseteq Nat
    BY <1>1
  <2> HIDE DEF ends
  <2> QED
    BY <2>1, <1>3, FirstIs
<1> HIDE DEF q
<1>5. q \in k .. Len(c) + 1
  BY <1>1, <1>4
(* What the loop sees of a position is what a word is made of. *)
<1>6. ASSUME NEW l \in 1 .. Len(c)
      PROVE  l \in ends /\ k <= l <=> k <= l /\ (c[l] # "/" \/ At(c, l + 1) \notin {"/", ""})
  <2>1. l \in 1 .. Len(c) + 1 /\ l + 1 \in 1 .. Len(c) + 1 /\ l <= Len(c)
        /\ (k <= l => l \in k .. Len(s) + 1)
    BY <1>1
  <2>2. At(s, l) = c[l]
    BY CutIs
  <2>3. (At(s, l + 1) = "/" \/ IsEnd(At(s, l + 1))) <=> At(c, l + 1) \in {"/", ""}
    BY <2>1, AtCut
  <2> QED
    BY <2>1, <2>2, <2>3
<1>7. ASSUME NEW i \in k .. q - 1 PROVE c[i] = "/" /\ i \notin Words(c)
  <2>1. i \in 1 .. Len(c) /\ k <= i /\ ~(q <= i)
    BY <1>1, <1>5
  <2>2. i \notin ends
    BY <1>4, <2>1
  <2>3. c[i] = "/" /\ At(c, i + 1) \in {"/", ""}
    BY <1>6, <2>1, <2>2
  <2> QED
    BY <2>3 DEF Words, StartsWord
<1>8. ASSUME q <= Len(c) PROVE q \in Words(c)
  <2>1. q \in 1 .. Len(c) /\ k <= q /\ DOMAIN c = 1 .. Len(c)
    <3>1. DOMAIN c = 1 .. Len(c)
      BY CutIs
    <3> QED
      BY <1>1, <1>5, <1>8, <3>1
  <2>2. c[q] # "/" \/ At(c, q + 1) \notin {"/", ""}
    BY <1>4, <1>6, <2>1
  <2>3. CASE c[q] = "/"
    BY <2>1, <2>2, <2>3 DEF Words, StartsWord
  <2>4. CASE c[q] # "/"
    <3>1. q = 1 \/ c[q - 1] = "/"
      <4>1. CASE q = k
        BY <1>1, <1>8, <2>4, <4>1 DEF Boundary
      <4>2. CASE q # k
        <5>1. q - 1 \in k .. q - 1
          BY <1>5, <4>2
        <5> QED
          BY <1>7, <5>1
      <4> QED
        BY <4>1, <4>2
    <3> QED
      BY <2>1, <2>4, <3>1 DEF Words, StartsWord
  <2> QED
    BY <2>3, <2>4
<1> QED
  BY <1>2, <1>5, <1>7, <1>8

(* A segment runs up to the next slash.                                      *)
LEMMA WordEnds ==
    ASSUME NEW c \in Seq(STRING), Clean(c), NEW q \in 1 .. Len(c), c[q] # "/"
    PROVE  /\ WordEnd(c, q) \in q + 1 .. Len(c) + 1
           /\ \A i \in q .. WordEnd(c, q) - 1 : i \in 1 .. Len(c) /\ c[i] # "/"
           /\ WordEnd(c, q) <= Len(c) => c[WordEnd(c, q)] = "/"
<1> DEFINE ends == {l \in q .. Len(c) + 1 : At(c, l) \in {"/", ""}}
           e == First(ends)
<1>1. /\ Len(c) \in Nat
      /\ \A k \in 1 .. Len(c) : At(c, k) = c[k] /\ At(c, k) # ""
      /\ At(c, Len(c) + 1) = ""
  BY CharAt
<1>2. Len(c) + 1 \in ends /\ ends \subseteq Nat
  <2>1. Len(c) + 1 \in q .. Len(c) + 1 /\ q .. Len(c) + 1 \subseteq Nat
    OBVIOUS
  <2> QED
    BY <1>1, <2>1
<1>3. e \in ends /\ \A l \in ends : e <= l
  BY <1>2, FirstIs
<1>4. WordEnd(c, q) = e
  BY DEF WordEnd
<1> HIDE DEF e
<1>5. e \in q .. Len(c) + 1 /\ At(c, e) \in {"/", ""}
  BY <1>3
<1>6. Len(c) \in Nat /\ q \in Nat /\ 1 <= q /\ q <= e /\ e \in Nat /\ e <= Len(c) + 1
  <2>1. e \in q .. Len(c) + 1
    BY <1>5
  <2> QED
    BY <2>1
<1>7. e # q
  <2>1. q \notin ends
    BY <1>1
  <2> QED
    BY <1>3, <2>1
<1>8. ASSUME NEW i \in q .. e - 1 PROVE i \in 1 .. Len(c) /\ c[i] # "/"
  <2>1. i \in q .. Len(c) + 1 /\ i \in 1 .. Len(c) /\ ~(e <= i)
    BY <1>6
  <2>2. At(c, i) # "/"
    BY <1>3, <2>1
  <2> QED
    BY <1>1, <2>1, <2>2
<1>9. ASSUME e <= Len(c) PROVE c[e] = "/"
  <2>1. e \in 1 .. Len(c)
    BY <1>9, <1>6
  <2> QED
    BY <1>1, <1>5, <2>1
<1>10. e \in q + 1 .. Len(c) + 1
  BY <1>7, <1>6
<1> QED
  BY <1>4, <1>8, <1>9, <1>10

(* The word itself. *)
LEMMA WordIs ==
    ASSUME NEW c \in Seq(STRING), Clean(c), NEW q \in 1 .. Len(c)
    PROVE  /\ c[q] = "/" => Word(c, q) = <<"/">>
           /\ c[q] # "/" => /\ Word(c, q) = SubSeq(c, q, WordEnd(c, q) - 1)
                            /\ Len(Word(c, q)) = WordEnd(c, q) - q
                            /\ Word(c, q) # <<"/">>
           /\ Word(c, q) \in Seq(STRING) /\ Word(c, q)[1] = c[q]
<1>1. CASE c[q] = "/"
  BY <1>1 DEF Word
<1>2. CASE c[q] # "/"
  <2> DEFINE e == WordEnd(c, q)
  <2>1. Word(c, q) = SubSeq(c, q, e - 1)
    BY <1>2 DEF Word
  <2>2. e \in q + 1 .. Len(c) + 1
    BY <1>2, WordEnds
  <2> HIDE DEF e
  <2>3. q \in Nat /\ e \in Nat /\ e - 1 \in Nat /\ q <= e - 1 /\ e - 1 <= Len(c) /\ 1 <= q
    BY <2>2
  <2>4. /\ SubSeq(c, q, e - 1) \in Seq(STRING)
        /\ Len(SubSeq(c, q, e - 1)) = (e - 1) - q + 1
        /\ SubSeq(c, q, e - 1)[1] = c[q + 1 - 1]
    BY <2>3
  <2>5. (e - 1) - q + 1 = e - q /\ q + 1 - 1 = q
    BY <2>3
  <2>6. Word(c, q)[1] = c[q] /\ Len(Word(c, q)) = e - q /\ Word(c, q) \in Seq(STRING)
    BY <2>1, <2>4, <2>5
  <2>7. Word(c, q) # <<"/">>
    BY <1>2, <2>6
  <2> QED
    BY <1>2, <2>1, <2>6, <2>7 DEF e
<1> QED
  BY <1>1, <1>2

(* SegmentEnd finds that end in the whole string. *)
LEMMA SegmentEnds ==
    ASSUME NEW s \in Seq(STRING), NEW q \in 1 .. Len(Cut(s)), Cut(s)[q] # "/"
    PROVE  /\ SegmentEnd(s, q) = WordEnd(Cut(s), q)
           /\ SubSeq(s, q, SegmentEnd(s, q) - 1) = Word(Cut(s), q)
<1> DEFINE c == Cut(s)
           e == WordEnd(c, q)
           ends == {l \in q .. Len(s) + 1 : At(s, l) = "/" \/ IsEnd(At(s, l))}
<1>1. c \in Seq(STRING) /\ Clean(c) /\ Len(c) \in Nat /\ Len(c) <= Len(s) /\ Len(s) \in Nat
  BY CutIsClean, CutIs
<1>2. /\ e \in q + 1 .. Len(c) + 1
      /\ \A i \in q .. e - 1 : i \in 1 .. Len(c) /\ c[i] # "/"
      /\ e <= Len(c) => c[e] = "/"
  BY <1>1, WordEnds
<1>3. Word(c, q) = SubSeq(c, q, e - 1)
  BY <1>1, WordIs
<1> HIDE DEF e
<1>4. e \in ends
  <2>1. e \in q .. Len(s) + 1
    BY <1>1, <1>2
  <2>2. CASE e <= Len(c)
    <3>1. e \in 1 .. Len(c)
      BY <1>1, <1>2, <2>2
    <3>2. At(s, e) = "/"
      BY <1>2, <2>2, <3>1, CutIs
    <3> QED
      BY <2>1, <3>2
  <2>3. CASE e = Len(c) + 1
    BY <2>1, <2>3, CutIs
  <2> QED
    BY <1>1, <1>2, <2>2, <2>3
<1>5. ASSUME NEW l \in ends PROVE e <= l
  <2>1. SUFFICES ASSUME l < e PROVE FALSE
    BY <1>1, <1>2
  <2>2. l \in q .. e - 1
    BY <1>1, <1>2, <2>1
  <2>3. l \in 1 .. Len(c) /\ c[l] # "/"
    BY <1>2, <2>2
  <2>4. At(s, l) = c[l] /\ ~IsEnd(At(s, l))
    BY <2>3, CutIs
  <2> QED
    BY <2>3, <2>4
<1>6. SegmentEnd(s, q) = e
  <2>1. ends \subseteq Nat
    BY <1>1
  <2> HIDE DEF ends
  <2>2. First(ends) = e
    BY <1>4, <1>5, <2>1, FirstIsThe
  <2> QED
    BY <2>2 DEF SegmentEnd, ends
<1>7. SubSeq(s, q, e - 1) = SubSeq(c, q, e - 1)
  <2>1. /\ q \in Nat /\ e - 1 \in Nat /\ 1 <= q /\ q <= e - 1 /\ e - 1 <= Len(c)
        /\ e - 1 <= Len(s)
    BY <1>1, <1>2
  <2>2. /\ SubSeq(c, q, e - 1) \in Seq(STRING) /\ SubSeq(s, q, e - 1) \in Seq(STRING)
        /\ Len(SubSeq(c, q, e - 1)) = (e - 1) - q + 1
        /\ Len(SubSeq(s, q, e - 1)) = (e - 1) - q + 1
    BY <1>1, <2>1
  <2>3. ASSUME NEW i \in 1 .. (e - 1) - q + 1
        PROVE  SubSeq(s, q, e - 1)[i] = SubSeq(c, q, e - 1)[i]
    <3>1. SubSeq(s, q, e - 1)[i] = s[q + i - 1] /\ SubSeq(c, q, e - 1)[i] = c[q + i - 1]
      BY <1>1, <2>1
    <3>2. q + i - 1 \in 1 .. Len(c)
      BY <2>1
    <3> QED
      BY <3>1, <3>2, CutIs
  <2> QED
    BY <2>2, <2>3, SeqEqual
<1> QED
  BY <1>3, <1>6, <1>7 DEF e

(* Where the text of a word ends. *)
After(c, q) == IF c[q] = "/" THEN q + 1 ELSE WordEnd(c, q)

LEMMA Afters ==
    ASSUME NEW c \in Seq(STRING), Clean(c), NEW q \in Words(c)
    PROVE  /\ After(c, q) \in q + 1 .. Len(c) + 1
           /\ Boundary(c, After(c, q))
           /\ \A i \in q + 1 .. After(c, q) - 1 : i \notin Words(c)
           /\ Number(c, After(c, q)) = Number(c, q) + 1
<1> DEFINE a == After(c, q)
<1>1. q \in 1 .. Len(c) /\ Len(c) \in Nat /\ Words(c) \subseteq 1 .. Len(c)
  BY WordsArePositions
<1>2. /\ a \in q + 1 .. Len(c) + 1
      /\ Boundary(c, a)
      /\ \A i \in q + 1 .. a - 1 : i \notin Words(c)
  <2>1. CASE c[q] = "/"
    <3>1. a = q + 1 /\ c[a - 1] = "/"
      BY <1>1, <2>1 DEF After
    <3>2. ~ \E i : i \in q + 1 .. a - 1
      BY <1>1, <3>1
    <3> QED
      BY <1>1, <3>1, <3>2 DEF Boundary
  <2>2. CASE c[q] # "/"
    <3>1. a = WordEnd(c, q)
      BY <2>2 DEF After
    <3>2. /\ a \in q + 1 .. Len(c) + 1
          /\ \A i \in q .. a - 1 : i \in 1 .. Len(c) /\ c[i] # "/"
          /\ a <= Len(c) => c[a] = "/"
      BY <1>1, <2>2, <3>1, WordEnds
    <3> HIDE DEF a
    <3>3. ASSUME NEW i \in q + 1 .. a - 1 PROVE i \notin Words(c)
      <4>1. i \in q .. a - 1 /\ i - 1 \in q .. a - 1 /\ i # 1
        BY <1>1, <3>2
      <4>2. c[i] # "/" /\ c[i - 1] # "/"
        BY <3>2, <4>1
      <4> QED
        BY <4>1, <4>2 DEF Words, StartsWord
    <3>4. a = Len(c) + 1 \/ c[a] = "/"
      BY <1>1, <3>2
    <3> QED
      BY <3>2, <3>3, <3>4 DEF Boundary
  <2> QED
    BY <2>1, <2>2
<1> HIDE DEF a
<1>3. Number(c, a) = Number(c, q) + 1
  <2>1. a \in Nat /\ q < a
    BY <1>1, <1>2
  <2>2. Cardinality(Below(Words(c), a)) = Cardinality(Below(Words(c), q)) + 1
    BY <1>1, <1>2, <2>1, BelowNext
  <2> QED
    BY <2>2, WordsArePositions
<1> QED
  BY <1>2, <1>3 DEF a

LEMMA AllBelow ==
    ASSUME NEW n \in Nat, NEW S, S \subseteq 1 .. n
    PROVE  Below(S, n + 1) = S
<1>1. \A i \in S : i < n + 1
  OBVIOUS
<1> QED
  BY <1>1 DEF Below

(* Numbers at the end, and of two words. *)
LEMMA Numbers ==
    ASSUME NEW c \in Seq(STRING)
    PROVE  /\ Number(c, Len(c) + 1) = NumWords(c)
           /\ \A i \in Words(c) : Number(c, i) < NumWords(c)
           /\ \A i \in Words(c), j \in Nat : Number(c, i) < Number(c, j) => i < j
           /\ \A i, j \in Words(c) : Number(c, i) = Number(c, j) => i = j
<1>1. Len(c) \in Nat /\ Words(c) \subseteq 1 .. Len(c)
  BY WordsArePositions
<1>2. \A k : Number(c, k) = Cardinality(Below(Words(c), k))
  BY WordsArePositions
<1>3. Number(c, Len(c) + 1) = NumWords(c)
  BY <1>1, <1>2, AllBelow DEF NumWords
<1>4. ASSUME NEW i \in Words(c) PROVE Number(c, i) < NumWords(c)
  <2>1. Len(c) + 1 \in Nat /\ i < Len(c) + 1
    BY <1>1
  <2>2. Cardinality(Below(Words(c), i)) < Cardinality(Words(c))
    BY <1>1, <2>1, BelowGrows
  <2> QED
    BY <1>2, <2>2 DEF NumWords
<1>5. ASSUME NEW i \in Words(c), NEW j \in Nat, Number(c, i) < Number(c, j) PROVE i < j
  BY <1>1, <1>2, <1>5, BelowTells
<1>6. ASSUME NEW i \in Words(c), NEW j \in Words(c), Number(c, i) = Number(c, j) PROVE i = j
  <2>1. j \in Nat
    BY <1>1
  <2> QED
    BY <1>1, <1>2, <1>6, <2>1, BelowTells
<1> QED
  BY <1>3, <1>4, <1>5, <1>6

(* A "*" that takes the rest is the last word. *)
LEMMA CatchAllIs ==
    ASSUME NEW c \in Seq(STRING), Clean(c), CatchAll(c) # 0
    PROVE  /\ CatchAll(c) \in Words(c) /\ c[CatchAll(c)] = "*"
           /\ \A i \in CatchAll(c) + 1 .. Len(c) : i \notin Words(c)
           /\ NumWords(c) = Number(c, CatchAll(c)) + 1
<1> DEFINE n == Len(c)
           a == CatchAll(c)
<1>1. n \in Nat
  OBVIOUS
<1>2. /\ DOMAIN c = 1 .. n /\ At(c, n + 1) = ""
      /\ \A k \in 1 .. n : At(c, k) = c[k] /\ At(c, k) # ""
  BY CharAt
<1>3. CatchAll(c) = CASE n > 0 /\ At(c, n) = "*" /\ (n = 1 \/ c[n - 1] = "/") -> n
                      [] n > 1 /\ At(c, n) = "/" /\ c[n - 1] = "*" /\ (n = 2 \/ c[n - 2] = "/")
                         -> n - 1
                      [] OTHER -> 0
  BY DEF CatchAll
<1>4. Words(c) \subseteq 1 .. n
  BY WordsArePositions
<1> HIDE DEF n
<1>5. /\ a \in 1 .. n /\ c[a] = "*" /\ (a = 1 \/ c[a - 1] = "/")
      /\ a = n \/ (a = n - 1 /\ c[n] = "/")
  <2>1. CASE n > 0 /\ At(c, n) = "*" /\ (n = 1 \/ c[n - 1] = "/")
    <3>1. a = n
      BY <1>3, <2>1
    <3>2. n \in 1 .. n
      BY <1>1, <2>1
    <3> QED
      BY <1>2, <2>1, <3>1, <3>2
  <2>2. CASE n > 1 /\ At(c, n) = "/" /\ c[n - 1] = "*" /\ (n = 2 \/ c[n - 2] = "/")
    <3>1. At(c, n) # "*"
      BY <2>2
    <3>2. a = n - 1
      BY <1>3, <2>2, <3>1
    <3>3. n \in 1 .. n /\ n - 1 \in 1 .. n /\ (n - 1) - 1 = n - 2 /\ (n = 2 => n - 1 = 1)
      BY <1>1, <2>2
    <3> QED
      BY <1>2, <2>2, <3>2, <3>3
  <2>3. CASE /\ ~(n > 0 /\ At(c, n) = "*" /\ (n = 1 \/ c[n - 1] = "/"))
             /\ ~(n > 1 /\ At(c, n) = "/" /\ c[n - 1] = "*" /\ (n = 2 \/ c[n - 2] = "/"))
    BY <1>3, <2>3
  <2> QED
    BY <2>1, <2>2, <2>3
<1> HIDE DEF a
<1>6. a \in Words(c)
  BY <1>2, <1>5 DEF Words, StartsWord
<1>7. a \in Nat /\ 1 <= a /\ a <= n
  BY <1>1, <1>5
<1>8. ASSUME NEW i \in a + 1 .. n PROVE i \notin Words(c)
  <2>1. i = n /\ n \in 1 .. n /\ a # n
    <3>1. a # n /\ n \in Nat /\ a \in Nat
      BY <1>1, <1>7
    <3> QED
      BY <1>1, <1>5, <1>7, <3>1
  <2>2. c[n] = "/"
    BY <1>5, <2>1
  <2> QED
    BY <1>2, <2>1, <2>2 DEF Words, StartsWord
<1>9. NumWords(c) = Number(c, a) + 1
  <2>1. Words(c) \subseteq 1 .. n /\ n + 1 \in Nat /\ a < n + 1
        /\ \A i \in a + 1 .. (n + 1) - 1 : i \notin Words(c)
    <3>1. (n + 1) - 1 = n /\ a < n + 1 /\ n + 1 \in Nat
      BY <1>1, <1>7
    <3> QED
      BY <1>8, <1>4, <3>1
  <2>2. Cardinality(Below(Words(c), n + 1)) = Cardinality(Below(Words(c), a)) + 1
    BY <1>1, <1>6, <2>1, BelowNext
  <2> QED
    BY <2>2, Numbers, WordsArePositions DEF n
<1> QED
  BY <1>5, <1>6, <1>8, <1>9 DEF a, n

(* The test the loop makes for it. *)
LEMMA WildcardIs ==
    ASSUME NEW s \in Seq(STRING), NEW q \in Words(Cut(s))
    PROVE  CatchAll(Cut(s)) = q <=>
             /\ At(s, q) = "*"
             /\ \/ IsEnd(At(s, q + 1))
                \/ At(s, q + 1) = "/" /\ IsEnd(At(s, q + 2))
<1> DEFINE c == Cut(s)
           n == Len(c)
<1>1. c \in Seq(STRING) /\ Clean(c)
  BY CutIsClean
<1>2. /\ At(c, n + 1) = ""
      /\ \A k \in 1 .. n : At(c, k) = c[k] /\ At(c, k) # ""
  BY <1>1, CharAt
<1>3. n \in Nat /\ q \in 1 .. n
  BY <1>1, WordsArePositions
<1>4. \A k \in 1 .. n : At(s, k) = c[k] /\ ~IsEnd(At(s, k))
  BY CutIs
<1>5. IsEnd(At(s, n + 1)) /\ At(s, n + 1) # "/"
  BY CutIs DEF IsEnd
<1>6. CatchAll(c) = CASE n > 0 /\ At(c, n) = "*" /\ (n = 1 \/ c[n - 1] = "/") -> n
                      [] n > 1 /\ At(c, n) = "/" /\ c[n - 1] = "*" /\ (n = 2 \/ c[n - 2] = "/")
                         -> n - 1
                      [] OTHER -> 0
  BY DEF CatchAll
<1>7. q \in Words(c)
  OBVIOUS
<1>8. CatchAll(c) = q => c[q] = "*"
  <2>1. CatchAll(c) = q => CatchAll(c) # 0
    BY <1>3
  <2> QED
    BY <1>1, <2>1, CatchAllIs
<1> HIDE DEF c, n
<1>9. q \in Nat /\ 1 <= q /\ q <= n
  BY <1>3
<1>10. ASSUME CatchAll(c) = q
      PROVE  /\ At(s, q) = "*"
             /\ IsEnd(At(s, q + 1)) \/ (At(s, q + 1) = "/" /\ IsEnd(At(s, q + 2)))
  <2>1. At(s, q) = "*"
    BY <1>4, <1>10, <1>3, <1>8
  <2>2. CASE q = n
    BY <1>5, <2>1, <2>2
  <2>3. CASE q # n
    <3>1. CatchAll(c) # n /\ CatchAll(c) # 0
      BY <1>10, <1>9, <2>3
    <3>2. n > 1 /\ At(c, n) = "/" /\ CatchAll(c) = n - 1
      <4>1. CASE n > 1 /\ At(c, n) = "/" /\ c[n - 1] = "*" /\ (n = 2 \/ c[n - 2] = "/")
        <5>1. At(c, n) # "*"
          BY <4>1
        <5> QED
          BY <1>6, <4>1, <5>1
      <4>2. CASE ~(n > 1 /\ At(c, n) = "/" /\ c[n - 1] = "*" /\ (n = 2 \/ c[n - 2] = "/"))
        BY <1>6, <3>1, <4>2
      <4> QED
        BY <4>1, <4>2
    <3>3. q + 1 = n /\ q + 2 = n + 1 /\ n \in 1 .. n
      BY <1>10, <1>3, <1>9, <3>2
    <3>4. At(s, n) = "/"
      BY <1>2, <1>4, <3>2, <3>3
    <3> QED
      BY <1>5, <2>1, <3>3, <3>4
  <2> QED
    BY <2>2, <2>3
<1>11. ASSUME At(s, q) = "*",
             IsEnd(At(s, q + 1)) \/ (At(s, q + 1) = "/" /\ IsEnd(At(s, q + 2)))
      PROVE  CatchAll(c) = q
  <2>1. c[q] = "*" /\ (q = 1 \/ c[q - 1] = "/")
    <3>1. c[q] = "*"
      BY <1>4, <1>11, <1>3
    <3> QED
      BY <1>7, <3>1 DEF Words, StartsWord
  <2>2. CASE q = n
    <3>1. n > 0 /\ At(c, n) = "*" /\ (n = 1 \/ c[n - 1] = "/")
      <4>1. n > 0
        BY <1>9, <2>2
      <4> QED
        BY <1>2, <1>3, <2>1, <2>2, <4>1
    <3> QED
      BY <1>6, <2>2, <3>1
  <2>3. CASE q # n
    <3>1. q + 1 \in 1 .. n
      BY <1>3, <1>9, <2>3
    <3>2. c[q + 1] = "/" /\ IsEnd(At(s, q + 2))
      BY <1>4, <1>11, <3>1
    <3>3. ~(q + 2 \in 1 .. n)
      BY <1>4, <3>2
    <3>4. q = n - 1 /\ n > 1 /\ n \in 1 .. n /\ q + 1 = n /\ q - 1 = n - 2 /\ (q = 1 => n = 2)
      BY <1>3, <1>9, <3>1, <3>3
    <3>5. n > 1 /\ At(c, n) = "/" /\ c[n - 1] = "*" /\ (n = 2 \/ c[n - 2] = "/")
      BY <1>2, <2>1, <3>2, <3>4
    <3>6. At(c, n) # "*"
      BY <3>5
    <3> QED
      BY <1>6, <3>4, <3>5, <3>6
  <2> QED
    BY <2>2, <2>3
<1> QED
  BY <1>10, <1>11 DEF c

-----------------------------------------------------------------------------
(* How far the loop is when it has come to a in the pattern p and to b in    *)
(* the path d: as many words behind it in the one as in the other, and those *)
(* of the pattern fit, word by word.                                         *)
Walked(p, d, a, b) ==
    /\ a \in 1 .. Len(p) + 1 /\ b \in 1 .. Len(d) + 1
    /\ Boundary(p, a) /\ Boundary(d, b)
    /\ Number(p, a) = Number(d, b)
    /\ \A i \in Words(p) : i < a => i # CatchAll(p)
    /\ \A i \in Words(p), j \in Words(d) :
         i < a /\ Number(p, i) = Number(d, j) => WordFits(Word(p, i), Word(d, j), EntrySize)

LEMMA WalksOn ==
    ASSUME NEW p \in Seq(STRING), Clean(p), NEW d \in Seq(STRING), Clean(d),
           NEW a \in Words(p), NEW b \in Words(d), Walked(p, d, a, b),
           a # CatchAll(p), WordFits(Word(p, a), Word(d, b), EntrySize)
    PROVE  Walked(p, d, After(p, a), After(d, b))
<1>1. /\ After(p, a) \in a + 1 .. Len(p) + 1 /\ Boundary(p, After(p, a))
      /\ \A i \in a + 1 .. After(p, a) - 1 : i \notin Words(p)
      /\ Number(p, After(p, a)) = Number(p, a) + 1
  BY Afters
<1>2. /\ After(d, b) \in b + 1 .. Len(d) + 1 /\ Boundary(d, After(d, b))
      /\ Number(d, After(d, b)) = Number(d, b) + 1
  BY Afters
<1>3. /\ Len(p) \in Nat /\ Words(p) \subseteq 1 .. Len(p)
      /\ Len(d) \in Nat /\ Words(d) \subseteq 1 .. Len(d)
  BY WordsArePositions
<1>4. Number(p, a) = Number(d, b)
  BY DEF Walked
<1>5. ASSUME NEW i \in Words(p), i < After(p, a) PROVE i < a \/ i = a
  <2>1. i \in Nat /\ a \in Nat /\ After(p, a) \in Nat
    BY <1>1, <1>3
  <2>2. ~(i \in a + 1 .. After(p, a) - 1)
    BY <1>1
  <2> QED
    BY <1>5, <2>1, <2>2
<1>6. ASSUME NEW i \in Words(p), i < After(p, a) PROVE i # CatchAll(p)
  <2>1. i < a => i # CatchAll(p)
    BY DEF Walked
  <2> QED
    BY <1>5, <1>6, <2>1
<1>7. ASSUME NEW i \in Words(p), NEW j \in Words(d), i < After(p, a),
             Number(p, i) = Number(d, j)
      PROVE  WordFits(Word(p, i), Word(d, j), EntrySize)
  <2>1. CASE i < a
    BY <1>7, <2>1 DEF Walked
  <2>2. CASE i = a
    <3>1. j = b
      BY <1>4, <1>7, <2>2, Numbers
    <3> QED
      BY <2>2, <3>1
  <2> QED
    BY <1>5, <1>7, <2>1, <2>2
<1>8. After(p, a) \in 1 .. Len(p) + 1 /\ After(d, b) \in 1 .. Len(d) + 1
  BY <1>1, <1>2, <1>3
<1> QED
  BY <1>1, <1>2, <1>4, <1>6, <1>7, <1>8 DEF Walked

LEMMA WordsAreBoundaries ==
    ASSUME NEW c \in Seq(STRING), NEW q \in Words(c)
    PROVE  Boundary(c, q)
  BY DEF Words, StartsWord, Boundary

LEMMA NumberSkips ==
    ASSUME NEW s \in Seq(STRING), NEW k \in 1 .. Len(Cut(s)) + 1, Boundary(Cut(s), k)
    PROVE  /\ Number(Cut(s), SkipTo(s, k)) = Number(Cut(s), k)
           /\ SkipTo(s, k) \in 1 .. Len(Cut(s)) + 1 /\ Boundary(Cut(s), SkipTo(s, k))
           /\ \A i \in Words(Cut(s)) : i < SkipTo(s, k) => i < k
<1> DEFINE c == Cut(s)
           q == SkipTo(s, k)
<1>1. c \in Seq(STRING)
  BY CutIsClean
<1>2. Len(c) \in Nat /\ Words(c) \subseteq 1 .. Len(c)
  BY <1>1, WordsArePositions
<1>3. /\ q \in k .. Len(c) + 1 /\ \A i \in k .. q - 1 : i \notin Words(c)
      /\ q <= Len(c) => q \in Words(c)
  BY Skips
<1> HIDE DEF q
<1>4. k \in Nat /\ q \in Nat /\ k <= q /\ 1 <= k /\ q <= Len(c) + 1
  BY <1>2, <1>3
<1>5. Below(Words(c), q) = Below(Words(c), k)
  BY <1>2, <1>3, <1>4, BelowNothing
<1>6. Number(c, q) = Number(c, k)
  BY <1>1, <1>5, WordsArePositions
<1>7. Boundary(c, q)
  <2>1. q <= Len(c) \/ q = Len(c) + 1
    BY <1>2, <1>4
  <2> QED
    BY <1>1, <1>3, <2>1, WordsAreBoundaries DEF Boundary
<1>8. ASSUME NEW i \in Words(c), i < q PROVE i < k
  <2>1. i \in Nat /\ ~(i \in k .. q - 1)
    BY <1>2, <1>3
  <2> QED
    BY <1>4, <1>8, <2>1
<1>9. q \in 1 .. Len(c) + 1
  BY <1>2, <1>4
<1> QED
  BY <1>6, <1>7, <1>8, <1>9 DEF q

LEMMA WalkedSkips ==
    ASSUME NEW s \in Seq(STRING), NEW t \in Seq(STRING), NEW a, NEW b,
           Walked(Cut(s), Cut(t), a, b)
    PROVE  Walked(Cut(s), Cut(t), SkipTo(s, a), SkipTo(t, b))
<1>1. /\ a \in 1 .. Len(Cut(s)) + 1 /\ b \in 1 .. Len(Cut(t)) + 1
      /\ Boundary(Cut(s), a) /\ Boundary(Cut(t), b)
      /\ Number(Cut(s), a) = Number(Cut(t), b)
  BY DEF Walked
<1>2. /\ Number(Cut(s), SkipTo(s, a)) = Number(Cut(s), a)
      /\ SkipTo(s, a) \in 1 .. Len(Cut(s)) + 1 /\ Boundary(Cut(s), SkipTo(s, a))
      /\ \A i \in Words(Cut(s)) : i < SkipTo(s, a) => i < a
  BY <1>1, NumberSkips
<1>3. /\ Number(Cut(t), SkipTo(t, b)) = Number(Cut(t), b)
      /\ SkipTo(t, b) \in 1 .. Len(Cut(t)) + 1 /\ Boundary(Cut(t), SkipTo(t, b))
  BY <1>1, NumberSkips
<1> QED
  BY <1>1, <1>2, <1>3 DEF Walked
-----------------------------------------------------------------------------
(* The characters of a segment count if it is neither a parameter nor the    *)
(* "*"; slashes never do.                                                    *)
LEMMA NoLiteralSlash ==
    ASSUME NEW c \in Seq(STRING), NEW l \in Literals(c)
    PROVE  c[l] # "/"
<1>1. PICK k \in Words(c) : k <= l /\ \A i \in k .. l : c[i] # "/"
  BY DEF Literals
<1>2. l \in 1 .. Len(c) /\ k \in 1 .. Len(c) /\ Len(c) \in Nat
  BY WordsArePositions
<1>3. l \in k .. l
  BY <1>1, <1>2
<1> QED
  BY <1>1, <1>3

LEMMA LiteralIs ==
    ASSUME NEW c \in Seq(STRING), Clean(c), NEW q \in Words(c), c[q] # "/",
           NEW l \in q .. WordEnd(c, q) - 1
    PROVE  l \in Literals(c) <=> c[q] # ":" /\ q # CatchAll(c)
<1>1. q \in 1 .. Len(c) /\ Len(c) \in Nat /\ Words(c) \subseteq 1 .. Len(c)
  BY WordsArePositions
<1>2. /\ WordEnd(c, q) \in q + 1 .. Len(c) + 1
      /\ \A i \in q .. WordEnd(c, q) - 1 : i \in 1 .. Len(c) /\ c[i] # "/"
  BY <1>1, WordEnds
<1>3. /\ q \in Nat /\ WordEnd(c, q) \in Nat /\ l \in Nat /\ q <= l /\ l < WordEnd(c, q)
      /\ l \in DOMAIN c
  <2>1. l \in 1 .. Len(c)
    BY <1>2
  <2> QED
    BY <1>1, <1>2, <2>1
<1> DEFINE e == WordEnd(c, q)
<1>4. q \in Nat /\ 1 <= q /\ e \in Nat /\ l \in Nat /\ q <= l /\ l < e
  BY <1>1, <1>3
<1>5. ASSUME c[q] # ":", q # CatchAll(c) PROVE l \in Literals(c)
  <2>1. \A i \in q .. l : i \in q .. WordEnd(c, q) - 1
    BY <1>3
  <2>2. q <= l /\ \A i \in q .. l : c[i] # "/"
    BY <1>2, <1>3, <2>1
  <2> QED
    BY <1>3, <1>5, <2>2 DEF Literals
<1>6. ASSUME l \in Literals(c) PROVE c[q] # ":" /\ q # CatchAll(c)
  <2>1. PICK k \in Words(c) : /\ k <= l /\ \A i \in k .. l : c[i] # "/"
                              /\ c[k] # ":" /\ k # CatchAll(c)
    BY <1>6 DEF Literals
  <2>2. k \in Nat /\ 1 <= k
    BY <1>1
  <2>3. ~(k < q)
    <3>1. SUFFICES ASSUME k < q PROVE FALSE
      OBVIOUS
    <3>2. q # 1 /\ q - 1 \in k .. l
      BY <1>3, <2>2, <3>1
    <3>3. c[q - 1] # "/"
      BY <2>1, <3>2
    <3> QED
      BY <3>2, <3>3 DEF Words, StartsWord
  <2>4. ~(q < k)
    <3>1. SUFFICES ASSUME q < k PROVE FALSE
      OBVIOUS
    <3>4. k <= l
      BY <2>1
    <3> HIDE DEF e
    <3>5. k # 1 /\ k - 1 \in q .. e - 1 /\ k \in q .. e - 1
      BY <1>4, <2>2, <3>1, <3>4
    <3>2. k # 1 /\ k - 1 \in q .. WordEnd(c, q) - 1 /\ k \in q .. WordEnd(c, q) - 1
      BY <3>5 DEF e
    <3>3. c[k - 1] # "/" /\ c[k] # "/"
      BY <1>2, <3>2
    <3> QED
      BY <3>2, <3>3 DEF Words, StartsWord
  <2>5. k = q
    BY <1>3, <2>2, <2>3, <2>4
  <2> QED
    BY <2>1, <2>5
<1> QED
  BY <1>5, <1>6

-----------------------------------------------------------------------------
(* What the loop has recorded by the time it is at a: the characters of the  *)
(* literal segments behind it, and the values of the parameters behind it.   *)
Counted(p, d, a, chars, params) ==
    /\ chars = Cardinality(Below(Literals(p), a))
    /\ params \in Seq(Seq(STRING)) /\ Len(params) = Cardinality(Below(Params(p), a))
    /\ \A i \in Params(p), j \in Words(d) :
         i < a /\ Number(p, i) = Number(d, j) =>
           params[Cardinality({x \in Params(p) : x <= i})] = Word(d, j)

LEMMA EntryOf ==
    ASSUME NEW p \in Seq(STRING), NEW i \in Params(p)
    PROVE  /\ Cardinality({x \in Params(p) : x <= i}) = Cardinality(Below(Params(p), i)) + 1
           /\ Cardinality(Below(Params(p), i)) \in Nat
           /\ \A a \in Nat : i < a => Cardinality({x \in Params(p) : x <= i})
                                        <= Cardinality(Below(Params(p), a))
<1> DEFINE S == Params(p)
<1>1. S \subseteq 1 .. Len(p) /\ Len(p) \in Nat
  BY WordsArePositions
<1> HIDE DEF S
<1>2. i \in S /\ i \in Nat
  BY <1>1 DEF S
<1>3. {x \in S : x <= i} = Below(S, i + 1)
  <2>1. \A x \in S : x <= i <=> x < i + 1
    BY <1>1, <1>2
  <2> QED
    BY <2>1 DEF Below
<1>4. Cardinality(Below(S, i + 1)) = Cardinality(Below(S, i)) + 1
  <2>1. i + 1 \in Nat /\ i < i + 1 /\ ~ \E x : x \in i + 1 .. (i + 1) - 1
    BY <1>2
  <2> QED
    BY <1>1, <1>2, <2>1, BelowNext
<1>5. ASSUME NEW a \in Nat, i < a
      PROVE  Cardinality(Below(S, i + 1)) <= Cardinality(Below(S, a))
  <2>1. \A x \in S : x < i + 1 => x < a
    BY <1>1, <1>2, <1>5
  <2>2. Below(S, i + 1) \subseteq Below(S, a) /\ Below(S, a) \subseteq 1 .. Len(p)
    BY <1>1, <2>1 DEF Below
  <2> QED
    BY <1>1, <2>2, PositionsFinite, FS_Subset
<1>6. Cardinality(Below(S, i)) \in Nat
  <2>1. Below(S, i) \subseteq 1 .. Len(p)
    BY <1>1 DEF Below
  <2> QED
    BY <1>1, <2>1, PositionsFinite
<1> QED
  BY <1>3, <1>4, <1>5, <1>6 DEF S

LEMMA CountedSkips ==
    ASSUME NEW s \in Seq(STRING), NEW t, NEW a \in 1 .. Len(Cut(s)) + 1, Boundary(Cut(s), a),
           NEW chars, NEW params, Counted(Cut(s), t, a, chars, params)
    PROVE  Counted(Cut(s), t, SkipTo(s, a), chars, params)
<1> DEFINE c == Cut(s)
           q == SkipTo(s, a)
<1>1. /\ c \in Seq(STRING)
      /\ q \in a .. Len(c) + 1 /\ \A i \in a .. q - 1 : c[i] = "/" /\ i \notin Words(c)
  BY CutIsClean, Skips
<1>2. /\ Len(c) \in Nat /\ Params(c) \subseteq 1 .. Len(c) /\ Literals(c) \subseteq 1 .. Len(c)
      /\ Params(c) \subseteq Words(c)
  BY <1>1, WordsArePositions DEF Params
<1> HIDE DEF c, q
<1>3. a \in Nat /\ q \in Nat /\ a <= q
  BY <1>1, <1>2 DEF c
<1>4. Below(Params(c), q) = Below(Params(c), a)
  BY <1>1, <1>2, <1>3, BelowNothing
<1>5. Below(Literals(c), q) = Below(Literals(c), a)
  <2>1. \A i \in a .. q - 1 : i \notin Literals(c)
    BY <1>1, NoLiteralSlash
  <2> QED
    BY <1>2, <1>3, <2>1, BelowNothing
<1>6. ASSUME NEW i \in Params(c), i < q PROVE i < a
  <2>1. i \in Nat /\ i \notin a .. q - 1
    BY <1>1, <1>2
  <2> QED
    BY <1>3, <1>6, <2>1
<1>7. Counted(c, t, a, chars, params)
  BY DEF c
<1>8. Counted(c, t, q, chars, params)
  BY <1>4, <1>5, <1>6, <1>7 DEF Counted
<1> QED
  BY <1>8 DEF c, q

(* A slash changes nothing; neither does a parameter for the literals.       *)
LEMMA SameBehind ==
    ASSUME NEW p \in Seq(STRING), Clean(p), NEW a \in Words(p)
    PROVE  /\ a \notin Params(p) =>
                /\ Below(Params(p), After(p, a)) = Below(Params(p), a)
                /\ \A i \in Params(p) : i < After(p, a) => i < a
           /\ p[a] = "/" \/ p[a] = ":" =>
                Below(Literals(p), After(p, a)) = Below(Literals(p), a)
<1> DEFINE e == After(p, a)
<1>1. e \in a + 1 .. Len(p) + 1 /\ \A i \in a + 1 .. e - 1 : i \notin Words(p)
  BY Afters
<1>2. /\ Len(p) \in Nat /\ Params(p) \subseteq 1 .. Len(p) /\ Literals(p) \subseteq 1 .. Len(p)
      /\ Params(p) \subseteq Words(p) /\ a \in 1 .. Len(p)
  BY WordsArePositions DEF Params
<1>3. p[a] = "/" => e = a + 1
  BY DEF After
<1>4. p[a] # "/" => e = WordEnd(p, a)
  BY DEF After
<1> HIDE DEF e
<1>5. a \in Nat /\ e \in Nat /\ a <= e
  BY <1>1, <1>2
<1>6. ASSUME a \notin Params(p)
      PROVE  /\ Below(Params(p), e) = Below(Params(p), a)
             /\ \A i \in Params(p) : i < e => i < a
  <2>1. ASSUME NEW i \in a .. e - 1 PROVE i \notin Params(p)
    <3>1. i = a \/ i \in a + 1 .. e - 1
      BY <1>5
    <3> QED
      BY <1>1, <1>2, <1>6, <3>1
  <2>2. ASSUME NEW i \in Params(p), i < e PROVE i < a
    <3>1. i \in Nat /\ i \notin a .. e - 1
      BY <1>2, <2>1
    <3> QED
      BY <1>5, <2>2, <3>1
  <2>3. Below(Params(p), e) = Below(Params(p), a)
    BY <1>2, <1>5, <2>1, BelowNothing
  <2> QED
    BY <2>2, <2>3
<1>7. ASSUME p[a] = "/" \/ p[a] = ":"
      PROVE  Below(Literals(p), e) = Below(Literals(p), a)
  <2>1. ASSUME NEW i \in a .. e - 1 PROVE i \notin Literals(p)
    <3>1. CASE p[a] = "/"
      <4>1. i = a
        BY <1>3, <1>5, <3>1
      <4> QED
        BY <3>1, <4>1, NoLiteralSlash
    <3>2. CASE p[a] = ":"
      <4>1. i \in a .. WordEnd(p, a) - 1 /\ p[a] # "/"
        BY <1>4, <3>2
      <4> QED
        BY <3>2, <4>1, LiteralIs
    <3> QED
      BY <1>7, <3>1, <3>2
  <2> QED
    BY <1>2, <1>5, <2>1, BelowNothing
<1> QED
  BY <1>6, <1>7 DEF e

LEMMA CountsSlash ==
    ASSUME NEW p \in Seq(STRING), Clean(p), NEW a \in Words(p), p[a] = "/",
           NEW d, NEW chars, NEW params, Counted(p, d, a, chars, params)
    PROVE  Counted(p, d, After(p, a), chars, params)
<1>1. a \notin Params(p)
  BY DEF Params
<1> QED
  BY <1>1, SameBehind DEF Counted

LEMMA CountsLiteral ==
    ASSUME NEW p \in Seq(STRING), Clean(p), NEW a \in Words(p), p[a] \notin {"/", ":"},
           a # CatchAll(p),
           NEW d, NEW chars, NEW params, Counted(p, d, a, chars, params)
    PROVE  Counted(p, d, After(p, a), chars + Len(Word(p, a)), params)
<1> DEFINE e == WordEnd(p, a)
           S == Literals(p)
<1>1. a \notin Params(p) /\ After(p, a) = e
  BY DEF Params, After
<1>2. a \in 1 .. Len(p) /\ S \subseteq 1 .. Len(p)
  BY WordsArePositions
<1>3. e \in a + 1 .. Len(p) + 1 /\ Len(Word(p, a)) = e - a
  BY <1>2, WordEnds, WordIs
<1>4. \A l \in a .. e - 1 : l \in S
  BY LiteralIs
<1> HIDE DEF e, S
<1>5. a \in Nat /\ e \in Nat /\ a < e
  BY <1>2, <1>3
<1>6. Below(S, e) = Below(S, a) \cup (a .. e - 1)
  <2>1. \A l \in S : l \in Nat
    BY <1>2
  <2>2. \A l \in S : l < e <=> l < a \/ l \in a .. e - 1
    BY <1>5, <2>1
  <2>3. \A l \in a .. e - 1 : l \in S /\ l < e
    BY <1>4, <1>5
  <2> QED
    BY <2>2, <2>3 DEF Below
<1>7. Cardinality(Below(S, e)) = Cardinality(Below(S, a)) + (e - a)
  <2>1. IsFiniteSet(a .. e - 1) /\ Cardinality(a .. e - 1) = e - a
    <3>1. IsFiniteSet(a .. e - 1)
          /\ Cardinality(a .. e - 1) = IF a > e - 1 THEN 0 ELSE (e - 1) - a + 1
      <4>1. a \in Int /\ e - 1 \in Int
        BY <1>5
      <4> QED
        BY <4>1, FS_Interval
    <3>2. ~(a > e - 1) /\ (e - 1) - a + 1 = e - a
      BY <1>5
    <3> QED
      BY <3>1, <3>2
  <2>2. Below(S, a) \subseteq 1 .. Len(p)
    BY <1>2 DEF Below
  <2>3. IsFiniteSet(Below(S, a)) /\ Cardinality(Below(S, a)) \in Nat
    BY <2>2, PositionsFinite
  <2>4. Below(S, a) \cap (a .. e - 1) = {}
    <3>1. \A l \in Below(S, a) : l \in Nat /\ l < a
      BY <1>2 DEF Below
    <3> QED
      BY <1>5, <3>1
  <2>5. Cardinality(Below(S, a) \cup (a .. e - 1))
          = Cardinality(Below(S, a)) + Cardinality(a .. e - 1)
              - Cardinality(Below(S, a) \cap (a .. e - 1))
    BY <2>1, <2>3, FS_Union
  <2>6. Cardinality({}) = 0
    BY FS_EmptySet
  <2>7. Cardinality(Below(S, e)) = Cardinality(Below(S, a)) + (e - a) - 0
    BY <1>6, <2>1, <2>4, <2>5, <2>6
  <2>8. e - a \in Int /\ Cardinality(Below(S, a)) \in Int
    BY <1>5, <2>3
  <2> QED
    BY <2>7, <2>8
<1> QED
  BY <1>1, <1>3, <1>7, SameBehind DEF Counted, S

LEMMA CountsParam ==
    ASSUME NEW p \in Seq(STRING), Clean(p), NEW a \in Words(p), p[a] = ":",
           NEW d \in Seq(STRING), Clean(d), NEW b \in Words(d), Number(p, a) = Number(d, b),
           NEW chars, NEW params, Counted(p, d, a, chars, params)
    PROVE  Counted(p, d, After(p, a), chars, Append(params, Word(d, b)))
<1> DEFINE e == After(p, a)
           S == Params(p)
           new == Append(params, Word(d, b))
<1>1. /\ Len(p) \in Nat /\ S \subseteq 1 .. Len(p) /\ S \subseteq Words(p)
      /\ a \in S /\ b \in 1 .. Len(d)
  BY WordsArePositions DEF Params
<1>2. e \in a + 1 .. Len(p) + 1 /\ \A i \in a + 1 .. e - 1 : i \notin Words(p)
  BY Afters
<1>3. /\ params \in Seq(Seq(STRING)) /\ Len(params) = Cardinality(Below(S, a))
      /\ chars = Cardinality(Below(Literals(p), a))
  BY DEF Counted
<1>4. chars = Cardinality(Below(Literals(p), e))
  BY <1>3, SameBehind
<1>5. Word(d, b) \in Seq(STRING)
  BY <1>1, WordIs
<1>6. ASSUME NEW i \in S
      PROVE  /\ Cardinality({x \in S : x <= i}) = Cardinality(Below(S, i)) + 1
             /\ Cardinality(Below(S, i)) \in Nat
             /\ \A k \in Nat : i < k => Cardinality({x \in S : x <= i})
                                          <= Cardinality(Below(S, k))
  BY EntryOf
<1>7. ASSUME NEW i \in S, NEW j \in Words(d), i < a, Number(p, i) = Number(d, j)
      PROVE  params[Cardinality({x \in S : x <= i})] = Word(d, j)
  BY <1>7 DEF Counted
<1> HIDE DEF e, S
<1>8. a \in Nat /\ e \in Nat /\ a < e
  BY <1>1, <1>2
<1>9. Cardinality(Below(S, e)) = Cardinality(Below(S, a)) + 1
  BY <1>1, <1>2, <1>8, BelowNext
<1>10. /\ new \in Seq(Seq(STRING)) /\ Len(new) = Len(params) + 1
       /\ new[Len(params) + 1] = Word(d, b)
       /\ \A i \in 1 .. Len(params) : new[i] = params[i]
  BY <1>3, <1>5, AppendProperties
<1>11. ASSUME NEW i \in S, NEW j \in Words(d), i < e, Number(p, i) = Number(d, j)
       PROVE  new[Cardinality({x \in S : x <= i})] = Word(d, j)
  <2>1. i = a \/ i < a
    <3>1. i \in Nat /\ i \notin a + 1 .. e - 1
      BY <1>1, <1>2
    <3> QED
      BY <1>8, <1>11, <3>1
  <2>2. CASE i = a
    <3>1. j = b
      BY <1>11, <2>2, Numbers
    <3>2. Cardinality({x \in S : x <= i}) = Len(params) + 1
      BY <1>3, <1>6, <2>2
    <3> QED
      BY <1>10, <3>1, <3>2
  <2>3. CASE i < a
    <3>1. Cardinality({x \in S : x <= i}) \in 1 .. Len(params)
      <4>1. /\ Cardinality({x \in S : x <= i}) = Cardinality(Below(S, i)) + 1
            /\ Cardinality(Below(S, i)) \in Nat
            /\ Cardinality({x \in S : x <= i}) <= Len(params)
        BY <1>3, <1>6, <1>8, <2>3
      <4>2. Len(params) \in Nat
        BY <1>3
      <4> QED
        BY <4>1, <4>2
    <3> QED
      BY <1>7, <1>10, <1>11, <2>3, <3>1
  <2> QED
    BY <2>1, <2>2, <2>3
<1> QED
  BY <1>3, <1>4, <1>9, <1>10, <1>11 DEF Counted, e, S

-----------------------------------------------------------------------------
(* The inductive invariant of the loop of pattern_match: while it runs, the  *)
(* two strings have been walked word by word and everything behind is        *)
(* recorded.                                                                 *)
Recorded(a) ==
    /\ m.wildcard_count = 0
    /\ m.param_count = Len(m.params) /\ Len(m.params) <= MaxEntries
    /\ Counted(Cut(pattern), Cut(document), a, m.literal_chars, m.params)

LoopInv ==
    /\ pattern \in Seq(STRING) /\ document \in Seq(STRING)
    /\ m \in [literal_chars : Nat, param_count : Nat, wildcard_count : Nat,
              params : Seq(Seq(STRING))]
    /\ result = -1 => Walked(Cut(pattern), Cut(document), pat, path) /\ Recorded(pat)
    /\ FindsMatches

LEMMA LoopStarts == LoopInit => LoopInv
<1> SUFFICES ASSUME LoopInit PROVE LoopInv
  OBVIOUS
<1> DEFINE p == Cut(pattern)
           d == Cut(document)
<1>1. pattern \in Seq(STRING) /\ document \in Seq(STRING)
  <2>1. ASSUME NEW S, S \subseteq STRING, NEW n \in Nat, NEW s \in BoundedSeq(S, n)
        PROVE  s \in Seq(STRING)
    <3>1. PICK k \in 0 .. n : s \in [1 .. k -> S]
      BY DEF BoundedSeq, SeqOf
    <3>2. k \in Nat
      OBVIOUS
    <3>3. s \in Seq(S)
      BY <3>1, <3>2, SeqDef
    <3> QED
      BY <2>1, <3>3, SeqMonotonic
  <2> QED
    BY <2>1, PatternMatchAssumption DEF LoopInit
<1>2. p \in Seq(STRING) /\ d \in Seq(STRING)
  BY <1>1, CutIsClean
<1>3. /\ Len(p) \in Nat /\ Words(p) \subseteq 1 .. Len(p)
      /\ Params(p) \subseteq 1 .. Len(p) /\ Literals(p) \subseteq 1 .. Len(p)
      /\ Len(d) \in Nat /\ Words(d) \subseteq 1 .. Len(d)
      /\ Number(p, 1) = Cardinality(Below(Words(p), 1))
      /\ Number(d, 1) = Cardinality(Below(Words(d), 1))
  BY <1>2, WordsArePositions
<1>4. ASSUME NEW S, NEW n \in Nat, S \subseteq 1 .. n
      PROVE  /\ Below(S, 1) = {} /\ Cardinality(Below(S, 1)) = 0
             /\ \A i \in S : ~(i < 1)
  <2>1. \A i \in S : ~(i < 1)
    BY <1>4
  <2>2. Below(S, 1) = {}
    BY <2>1 DEF Below
  <2> QED
    BY <2>1, <2>2, FS_EmptySet
<1>5. Walked(p, d, 1, 1)
  <2>1. 1 \in 1 .. Len(p) + 1 /\ 1 \in 1 .. Len(d) + 1
    BY <1>3
  <2>2. Number(p, 1) = Number(d, 1)
    BY <1>3, <1>4
  <2>3. \A i \in Words(p) : ~(i < 1)
    BY <1>3, <1>4
  <2> QED
    BY <2>1, <2>2, <2>3 DEF Walked, Boundary
<1>6. Counted(p, d, 1, 0, <<>>)
  <2>1. Cardinality(Below(Literals(p), 1)) = 0 /\ Cardinality(Below(Params(p), 1)) = 0
    BY <1>3, <1>4
  <2>2. \A i \in Params(p) : ~(i < 1)
    BY <1>3, <1>4
  <2>3. <<>> \in Seq(Seq(STRING)) /\ Len(<<>>) = 0
    OBVIOUS
  <2> QED
    BY <2>1, <2>2, <2>3 DEF Counted
<1>7. /\ m = [literal_chars |-> 0, param_count |-> 0, wildcard_count |-> 0, params |-> <<>>]
      /\ pat = 1 /\ path = 1 /\ result = -1
  BY DEF LoopInit
<1>8. /\ m.literal_chars = 0 /\ m.param_count = 0 /\ m.wildcard_count = 0
      /\ m.params = <<>> /\ Len(<<>>) = 0
      /\ m \in [literal_chars : Nat, param_count : Nat, wildcard_count : Nat,
                params : Seq(Seq(STRING))]
  BY <1>7
<1>9. 0 <= MaxEntries
  BY PatternMatchAssumption
<1> QED
  BY <1>1, <1>5, <1>6, <1>7, <1>8, <1>9 DEF LoopInv, Recorded, FindsMatches

(* Behind the slashes that are skipped the loop is at a word or at the end.  *)
LEMMA AtWords ==
    ASSUME LoopInv, result = -1
    PROVE  /\ Walked(Cut(pattern), Cut(document), P, U) /\ Recorded(P)
           /\ IsEnd(PatChar) => P = Len(Cut(pattern)) + 1
           /\ ~IsEnd(PatChar) => /\ P \in Words(Cut(pattern)) /\ PatChar = Cut(pattern)[P]
                                 /\ IsWildcard <=> CatchAll(Cut(pattern)) = P
           /\ IsEnd(PathChar) => U = Len(Cut(document)) + 1
           /\ ~IsEnd(PathChar) => U \in Words(Cut(document)) /\ PathChar = Cut(document)[U]
<1> DEFINE p == Cut(pattern)
           d == Cut(document)
<1>1. /\ pattern \in Seq(STRING) /\ document \in Seq(STRING)
      /\ Walked(p, d, pat, path) /\ Recorded(pat)
  BY DEF LoopInv
<1>2. /\ pat \in 1 .. Len(p) + 1 /\ Boundary(p, pat)
      /\ path \in 1 .. Len(d) + 1 /\ Boundary(d, path)
  BY <1>1 DEF Walked
<1>3. Walked(p, d, P, U)
  BY <1>1, WalkedSkips DEF P, U
<1>4. Recorded(P)
  BY <1>1, <1>2, CountedSkips DEF Recorded, P
<1>5. ASSUME NEW s \in Seq(STRING), NEW k \in 1 .. Len(Cut(s)) + 1, Boundary(Cut(s), k)
      PROVE  LET q == SkipTo(s, k)
             IN /\ IsEnd(At(s, q)) => q = Len(Cut(s)) + 1
                /\ ~IsEnd(At(s, q)) => q \in Words(Cut(s)) /\ At(s, q) = Cut(s)[q]
  <2> DEFINE q == SkipTo(s, k)
             n == Len(Cut(s))
  <2>1. q \in k .. n + 1 /\ (q <= n => q \in Words(Cut(s)))
    BY <1>5, Skips
  <2>2. n \in Nat /\ Cut(s) \in Seq(STRING)
    BY CutIs
  <2>3. \A i \in 1 .. n : Cut(s)[i] = s[i] /\ At(s, i) = s[i] /\ ~IsEnd(s[i])
    BY CutIs
  <2>4. IsEnd(At(s, n + 1))
    BY CutIs
  <2> HIDE DEF q, n
  <2>5. q = n + 1 \/ (q \in 1 .. n /\ q <= n)
    BY <1>5, <2>1, <2>2 DEF n
  <2> QED
    BY <2>1, <2>3, <2>4, <2>5 DEF q, n
<1>6. /\ IsEnd(PatChar) => P = Len(p) + 1
      /\ ~IsEnd(PatChar) => P \in Words(p) /\ PatChar = p[P]
  BY <1>1, <1>2, <1>5 DEF PatChar, P
<1>7. /\ IsEnd(PathChar) => U = Len(d) + 1
      /\ ~IsEnd(PathChar) => U \in Words(d) /\ PathChar = d[U]
  BY <1>1, <1>2, <1>5 DEF PathChar, U
<1>8. P \in Words(p) => (IsWildcard <=> CatchAll(p) = P)
  BY <1>1, WildcardIs DEF IsWildcard, PatChar
<1> QED
  BY <1>3, <1>4, <1>6, <1>7, <1>8

Recording == [literal_chars : Nat, param_count : Nat, wildcard_count : Nat,
              params : Seq(Seq(STRING))]

LEMMA Fails ==
    ASSUME LoopInv, ~Matches(pattern, document, MaxEntries, EntrySize),
           result' = 0, UNCHANGED <<pattern, document>>, m' \in Recording
    PROVE  LoopInv'
<1>1. pattern' = pattern /\ document' = document /\ result' = 0
  OBVIOUS
<1>2. FindsMatches'
  BY <1>1 DEF FindsMatches
<1> QED
  BY <1>1, <1>2 DEF LoopInv, Recording

(* Everything is recorded when nothing that counts is ahead. *)
LEMMA Succeeds ==
    ASSUME LoopInv, Matches(pattern, document, MaxEntries, EntrySize),
           result' = 1, UNCHANGED <<pattern, document>>, m' \in Recording,
           NEW a \in Nat, Recorded(a),
           \A i \in Params(Cut(pattern)) \cup Literals(Cut(pattern)) : i < a,
           m'.literal_chars = m.literal_chars, m'.param_count = m.param_count,
           m'.params = m.params,
           m'.wildcard_count = IF CatchAll(Cut(pattern)) = 0 THEN 0 ELSE 1
    PROVE  LoopInv'
<1> DEFINE p == Cut(pattern)
           d == Cut(document)
<1>1. pattern' = pattern /\ document' = document /\ result' = 1
  OBVIOUS
<1>2. Counted(p, d, a, m.literal_chars, m.params) /\ m.param_count = Len(m.params)
  BY DEF Recorded
<1>3. Below(Params(p), a) = Params(p) /\ Below(Literals(p), a) = Literals(p)
  BY DEF Below
<1>4. Score(pattern)
        = [literal_chars |-> m'.literal_chars, param_count |-> m'.param_count,
           wildcard_count |-> m'.wildcard_count]
  BY <1>2, <1>3 DEF Score, Counted
<1>5. [f \in {"literal_chars", "param_count", "wildcard_count"} |-> m'[f]] = Score(pattern)
  BY <1>4
<1>6. Captures(m'.params)
  BY <1>2, <1>3 DEF Captures, Counted
<1>7. FindsMatches'
  BY <1>1, <1>5, <1>6 DEF FindsMatches, Captures
<1> QED
  BY <1>1, <1>7 DEF LoopInv, Recording

LEMMA EndFinds == LoopInv /\ End => LoopInv'
<1> SUFFICES ASSUME LoopInv, End PROVE LoopInv'
  OBVIOUS
<1> DEFINE p == Cut(pattern)
           d == Cut(document)
<1>1. /\ result = -1
      /\ BothEnd \/ OneEnds
      /\ result' = (IF BothEnd THEN 1 ELSE 0) /\ UNCHANGED <<pattern, document, m>>
  BY DEF End, Returns
<1>2. /\ Walked(p, d, P, U) /\ Recorded(P)
      /\ IsEnd(PatChar) => P = Len(p) + 1
      /\ ~IsEnd(PatChar) => P \in Words(p)
      /\ IsEnd(PathChar) => U = Len(d) + 1
      /\ ~IsEnd(PathChar) => U \in Words(d)
  BY <1>1, AtWords
<1>3. pattern \in Seq(STRING) /\ document \in Seq(STRING) /\ m \in Recording
  BY DEF LoopInv, Recording
<1>4. p \in Seq(STRING) /\ Clean(p) /\ d \in Seq(STRING) /\ Clean(d)
  BY <1>3, CutIsClean
<1>5. /\ Len(p) \in Nat /\ Words(p) \subseteq 1 .. Len(p)
      /\ Params(p) \subseteq 1 .. Len(p) /\ Literals(p) \subseteq 1 .. Len(p)
      /\ NumWords(p) \in Nat /\ NumWords(d) \in Nat
  BY <1>4, WordsArePositions
<1>6. Number(p, P) = Number(d, U)
  BY <1>2 DEF Walked
<1>7. ASSUME IsEnd(PatChar)
      PROVE  CatchAll(p) = 0 /\ Number(p, P) = NumWords(p) /\ \A i \in 1 .. Len(p) : i < P
  <2>1. P = Len(p) + 1
    BY <1>2, <1>7
  <2>2. \A i \in 1 .. Len(p) : i < P
    BY <1>5, <2>1
  <2>3. \A i \in Words(p) : i # CatchAll(p)
    BY <1>2, <1>5, <2>2 DEF Walked
  <2>4. CatchAll(p) = 0
    BY <1>4, <2>3, CatchAllIs
  <2> QED
    BY <1>4, <2>1, <2>2, <2>4, Numbers
<1>8. IsEnd(PathChar) => Number(d, U) = NumWords(d)
  BY <1>2, <1>4, Numbers
<1>9. CASE BothEnd
  <2>1. /\ CatchAll(p) = 0 /\ \A i \in 1 .. Len(p) : i < P
        /\ NumWords(p) = NumWords(d)
    BY <1>6, <1>7, <1>8, <1>9 DEF BothEnd
  <2>2. \A i \in Words(p), j \in Words(d) :
          Number(p, i) = Number(d, j) => WordFits(Word(p, i), Word(d, j), EntrySize)
    BY <1>2, <1>5, <2>1 DEF Walked
  <2>3. Below(Params(p), P) = Params(p)
    BY <1>5, <2>1 DEF Below
  <2>4. Cardinality(Params(p)) <= MaxEntries
    BY <1>2, <2>3 DEF Recorded, Counted
  <2>5. Matches(pattern, document, MaxEntries, EntrySize)
    BY <2>1, <2>2, <2>4 DEF Matches
  <2>6. P \in Nat
    BY <1>2, <1>5 DEF Walked
  <2>7. \A i \in Params(p) \cup Literals(p) : i < P
    BY <1>5, <2>1
  <2>8. m.wildcard_count = IF CatchAll(p) = 0 THEN 0 ELSE 1
    BY <1>2, <2>1 DEF Recorded
  <2>9. result' = 1 /\ m' = m
    BY <1>1, <1>9
  <2> QED
    BY <1>1, <1>2, <1>3, <2>5, <2>6, <2>7, <2>8, <2>9, Succeeds
<1>10. CASE OneEnds
  <2>1. CASE IsEnd(PatChar)
    <3>1. U \in Words(d)
      BY <1>2, <1>10, <2>1 DEF OneEnds, BothEnd
    <3>2. NumWords(p) < NumWords(d)
      BY <1>4, <1>6, <1>7, <2>1, <3>1, Numbers
    <3>3. ~(NumWords(d) = NumWords(p))
      BY <1>5, <3>2
    <3>4. ~Matches(pattern, document, MaxEntries, EntrySize)
      BY <1>7, <2>1, <3>3 DEF Matches
    <3>5. result' = 0
      BY <1>1, <1>10 DEF OneEnds
    <3> QED
      BY <1>1, <1>3, <3>4, <3>5, Fails
  <2>2. CASE ~IsEnd(PatChar)
    <3>1. P \in Words(p) /\ IsEnd(PathChar)
      BY <1>2, <1>10, <2>2 DEF OneEnds, BothEnd
    <3>2. NumWords(d) < NumWords(p)
      BY <1>4, <1>6, <1>8, <3>1, Numbers
    <3>3. ~(NumWords(d) = NumWords(p)) /\ ~(NumWords(d) >= NumWords(p))
      BY <1>5, <3>2
    <3>4. ~Matches(pattern, document, MaxEntries, EntrySize)
      BY <3>3 DEF Matches
    <3>5. result' = 0
      BY <1>1, <1>10 DEF OneEnds
    <3> QED
      BY <1>1, <1>3, <3>4, <3>5, Fails
  <2> QED
    BY <2>1, <2>2
<1> QED
  BY <1>1, <1>9, <1>10

LEMMA WildcardFinds == LoopInv /\ Wildcard => LoopInv'
<1> SUFFICES ASSUME LoopInv, Wildcard PROVE LoopInv'
  OBVIOUS
<1> DEFINE p == Cut(pattern)
           d == Cut(document)
<1>1. /\ result = -1 /\ ~IsEnd(PatChar) /\ ~IsEnd(PathChar) /\ IsWildcard
      /\ result' = 1 /\ UNCHANGED <<pattern, document>>
      /\ m' = [m EXCEPT !.wildcard_count = @ + 1]
  BY DEF Wildcard, Returns, BothEnd, OneEnds
<1>2. /\ Walked(p, d, P, U) /\ Recorded(P)
      /\ P \in Words(p) /\ CatchAll(p) = P /\ U \in Words(d)
  BY <1>1, AtWords
<1>3. pattern \in Seq(STRING) /\ document \in Seq(STRING) /\ m \in Recording
  BY DEF LoopInv, Recording
<1>4. p \in Seq(STRING) /\ Clean(p) /\ d \in Seq(STRING) /\ Clean(d)
  BY <1>3, CutIsClean
<1>5. /\ Len(p) \in Nat /\ Words(p) \subseteq 1 .. Len(p)
      /\ Params(p) \subseteq 1 .. Len(p) /\ Literals(p) \subseteq 1 .. Len(p)
      /\ NumWords(p) \in Nat /\ NumWords(d) \in Nat
      /\ Number(p, P) \in Nat
  BY <1>4, WordsArePositions
<1>6. P \in 1 .. Len(p) /\ P # 0
  BY <1>2, <1>5
<1>7. /\ p[P] = "*" /\ \A i \in P + 1 .. Len(p) : i \notin Words(p)
      /\ NumWords(p) = Number(p, P) + 1
  BY <1>2, <1>4, <1>6, CatchAllIs
<1>8. NumWords(d) >= NumWords(p)
  <2>1. Number(p, P) < NumWords(d)
    BY <1>2, <1>4, Numbers DEF Walked
  <2> QED
    BY <1>5, <1>7, <2>1
<1>9. ASSUME NEW i \in Words(p), i # P PROVE i < P
  <2>1. i \in 1 .. Len(p) /\ i \notin P + 1 .. Len(p)
    BY <1>5, <1>7
  <2> QED
    BY <1>5, <1>6, <1>9, <2>1
<1>10. ASSUME NEW i \in Params(p) PROVE i < P
  <2>1. i \in Words(p) /\ p[i] = ":"
    BY DEF Params
  <2> QED
    BY <1>7, <1>9, <2>1
<1>11. ASSUME NEW i \in Literals(p) PROVE i < P
  <2>1. PICK k \in Words(p) : k <= i /\ (\A l \in k .. i : p[l] # "/") /\ k # P
    BY <1>2 DEF Literals
  <2>2. k < P
    BY <1>9, <2>1
  <2>3. P = 1 \/ p[P - 1] = "/"
    BY <1>2, <1>7 DEF Words, StartsWord
  <2>4. k \in Nat /\ 1 <= k /\ i \in Nat /\ P \in Nat
    BY <1>5, <1>6
  <2>5. SUFFICES ASSUME ~(i < P) PROVE FALSE
    OBVIOUS
  <2>6. P # 1 /\ P - 1 \in k .. i
    BY <2>2, <2>4, <2>5
  <2> QED
    BY <2>1, <2>3, <2>6
<1>12. Cardinality(Params(p)) <= MaxEntries
  <2>1. Below(Params(p), P) = Params(p)
    BY <1>10 DEF Below
  <2> QED
    BY <1>2, <2>1 DEF Recorded, Counted
<1>13. Matches(pattern, document, MaxEntries, EntrySize)
  <2>1. \A i \in Words(p) \ {P}, j \in Words(d) :
          Number(p, i) = Number(d, j) => WordFits(Word(p, i), Word(d, j), EntrySize)
    BY <1>2, <1>9 DEF Walked
  <2> QED
    BY <1>2, <1>6, <1>8, <1>12, <2>1 DEF Matches
<1>14. /\ m' \in Recording
       /\ m'.literal_chars = m.literal_chars /\ m'.param_count = m.param_count
       /\ m'.params = m.params /\ m'.wildcard_count = 1
  BY <1>1, <1>2, <1>3 DEF Recorded, Recording
<1>15. m'.wildcard_count = IF CatchAll(p) = 0 THEN 0 ELSE 1
  BY <1>2, <1>6, <1>14
<1>16. P \in Nat /\ \A i \in Params(p) \cup Literals(p) : i < P
  BY <1>6, <1>10, <1>11
<1> QED
  BY <1>1, <1>2, <1>13, <1>14, <1>15, <1>16, Succeeds

(* A word of the pattern that does not fit is the end of it. *)
LEMMA Mismatches ==
    ASSUME NEW s, NEW t, NEW a \in Words(Cut(s)), NEW b \in Words(Cut(t)),
           Number(Cut(s), a) = Number(Cut(t), b), a # CatchAll(Cut(s)),
           ~WordFits(Word(Cut(s), a), Word(Cut(t), b), EntrySize)
    PROVE  ~Matches(s, t, MaxEntries, EntrySize)
  BY DEF Matches

(* What the loop goes on from: a word in each, of the same number.           *)
LEMMA GoingOn ==
    ASSUME LoopInv, GoesOn
    PROVE  LET p == Cut(pattern)
               d == Cut(document)
           IN /\ p \in Seq(STRING) /\ Clean(p) /\ d \in Seq(STRING) /\ Clean(d)
              /\ P \in Words(p) /\ U \in Words(d) /\ P # CatchAll(p)
              /\ P \in 1 .. Len(p) /\ U \in 1 .. Len(d)
              /\ PatChar = p[P] /\ PathChar = d[U]
              /\ Walked(p, d, P, U) /\ Recorded(P)
              /\ Number(p, P) = Number(d, U)
              /\ pattern \in Seq(STRING) /\ document \in Seq(STRING) /\ m \in Recording
<1> DEFINE p == Cut(pattern)
           d == Cut(document)
<1>1. result = -1 /\ ~IsEnd(PatChar) /\ ~IsEnd(PathChar) /\ ~IsWildcard
  BY DEF GoesOn, BothEnd, OneEnds
<1>2. /\ Walked(p, d, P, U) /\ Recorded(P)
      /\ P \in Words(p) /\ PatChar = p[P] /\ P # CatchAll(p)
      /\ U \in Words(d) /\ PathChar = d[U]
  BY <1>1, AtWords
<1>3. pattern \in Seq(STRING) /\ document \in Seq(STRING) /\ m \in Recording
  BY DEF LoopInv, Recording
<1>4. p \in Seq(STRING) /\ Clean(p) /\ d \in Seq(STRING) /\ Clean(d)
  BY <1>3, CutIsClean
<1>5. P \in 1 .. Len(p) /\ U \in 1 .. Len(d)
  BY <1>2, <1>4, WordsArePositions
<1> QED
  BY <1>2, <1>3, <1>4, <1>5 DEF Walked

(* A step over a word in each. *)
LEMMA StepsOn ==
    ASSUME LoopInv, GoesOn,
           WordFits(Word(Cut(pattern), P), Word(Cut(document), U), EntrySize),
           Walks(After(Cut(pattern), P), After(Cut(document), U)), m' \in Recording,
           m'.wildcard_count = 0, m'.param_count = Len(m'.params),
           Len(m'.params) <= MaxEntries,
           Counted(Cut(pattern), Cut(document), After(Cut(pattern), P),
                   m'.literal_chars, m'.params)
    PROVE  LoopInv'
<1> DEFINE p == Cut(pattern)
           d == Cut(document)
<1>1. Walked(p, d, After(p, P), After(d, U))
  BY GoingOn, WalksOn
<1>2. /\ pattern' = pattern /\ document' = document /\ result' = result /\ result = -1
      /\ pat' = After(p, P) /\ path' = After(d, U)
  BY DEF Walks, GoesOn
<1>3. Walked(p, d, pat, path)' /\ Recorded(pat)'
  BY <1>1, <1>2 DEF Walked, Recorded
<1>4. FindsMatches'
  BY <1>2 DEF FindsMatches
<1> QED
  BY <1>2, <1>3, <1>4 DEF LoopInv, Recording

LEMMA SlashGoes == LoopInv /\ Slash => LoopInv'
<1> SUFFICES ASSUME LoopInv, Slash PROVE LoopInv'
  OBVIOUS
<1> DEFINE p == Cut(pattern)
           d == Cut(document)
<1>1. /\ GoesOn /\ m' = m
      /\ PatChar = "/" \/ PathChar = "/"
      /\ IF PatChar = PathChar THEN Walks(P + 1, U + 1) ELSE Returns(0)
  BY DEF Slash
<1>2. /\ p \in Seq(STRING) /\ Clean(p) /\ d \in Seq(STRING) /\ Clean(d)
      /\ P \in Words(p) /\ U \in Words(d) /\ P # CatchAll(p)
      /\ P \in 1 .. Len(p) /\ U \in 1 .. Len(d)
      /\ PatChar = p[P] /\ PathChar = d[U]
      /\ Walked(p, d, P, U) /\ Recorded(P)
      /\ Number(p, P) = Number(d, U) /\ m \in Recording
  BY <1>1, GoingOn
<1>3. CASE PatChar = PathChar
  <2>1. p[P] = "/" /\ d[U] = "/"
    BY <1>1, <1>2, <1>3
  <2>2. Word(p, P) = <<"/">> /\ Word(d, U) = <<"/">>
    BY <2>1 DEF Word
  <2>3. WordFits(Word(p, P), Word(d, U), EntrySize)
    BY <2>2 DEF WordFits
  <2>4. Walks(After(p, P), After(d, U))
    BY <1>1, <1>3, <2>1 DEF After
  <2>5. Counted(p, d, After(p, P), m.literal_chars, m.params)
    BY <1>2, <2>1, CountsSlash DEF Recorded
  <2> QED
    BY <1>1, <1>2, <2>3, <2>4, <2>5, StepsOn DEF Recorded
<1>4. CASE PatChar # PathChar
  <2>1. Returns(0)
    BY <1>1, <1>4
  <2>2. ~WordFits(Word(p, P), Word(d, U), EntrySize)
    <3>1. CASE p[P] = "/"
      <4>1. d[U] # "/" /\ Word(p, P) = <<"/">> /\ Word(p, P)[1] = "/"
        BY <1>2, <1>4, <3>1, WordIs
      <4>2. Word(d, U) # <<"/">>
        BY <1>2, <4>1, WordIs
      <4> QED
        BY <4>1, <4>2 DEF WordFits
    <3>2. CASE p[P] # "/"
      <4>1. d[U] = "/" /\ Word(d, U) = <<"/">>
        BY <1>1, <1>2, <3>2, WordIs
      <4>2. Word(p, P) # <<"/">>
        BY <1>2, <3>2, WordIs
      <4> QED
        BY <4>1, <4>2 DEF WordFits
    <3> QED
      BY <3>1, <3>2
  <2>3. ~Matches(pattern, document, MaxEntries, EntrySize)
    BY <1>2, <2>2, Mismatches
  <2> QED
    BY <1>1, <1>2, <2>1, <2>3, Fails DEF Returns
<1> QED
  BY <1>3, <1>4

LEMMA LiteralGoes == LoopInv /\ Literal => LoopInv'
<1> SUFFICES ASSUME LoopInv, Literal PROVE LoopInv'
  OBVIOUS
<1> DEFINE p == Cut(pattern)
           d == Cut(document)
           segment == SubSeq(pattern, P, SegmentEnd(pattern, P) - 1)
<1>1. /\ GoesOn /\ PatChar # "/" /\ PathChar # "/" /\ PatChar # ":"
      /\ IF segment = SubSeq(document, U, SegmentEnd(document, U) - 1)
         THEN /\ Walks(SegmentEnd(pattern, P), SegmentEnd(document, U))
              /\ m' = [m EXCEPT !.literal_chars = @ + Len(segment)]
         ELSE Returns(0) /\ UNCHANGED m
  BY DEF Literal, AtSegments
<1>2. /\ p \in Seq(STRING) /\ Clean(p) /\ d \in Seq(STRING) /\ Clean(d)
      /\ P \in Words(p) /\ U \in Words(d) /\ P # CatchAll(p)
      /\ P \in 1 .. Len(p) /\ U \in 1 .. Len(d)
      /\ PatChar = p[P] /\ PathChar = d[U]
      /\ Walked(p, d, P, U) /\ Recorded(P)
      /\ Number(p, P) = Number(d, U) /\ m \in Recording
      /\ pattern \in Seq(STRING) /\ document \in Seq(STRING)
  BY <1>1, GoingOn
<1>3. segment = Word(p, P) /\ SegmentEnd(pattern, P) = After(p, P)
  BY <1>1, <1>2, SegmentEnds DEF After
<1>4. /\ SubSeq(document, U, SegmentEnd(document, U) - 1) = Word(d, U)
      /\ SegmentEnd(document, U) = After(d, U)
  BY <1>1, <1>2, SegmentEnds DEF After
<1>5. Word(p, P)[1] # ":" /\ Word(p, P) \in Seq(STRING)
  BY <1>1, <1>2, WordIs
<1> HIDE DEF segment
<1>6. CASE segment = SubSeq(document, U, SegmentEnd(document, U) - 1)
  <2>1. Word(p, P) = Word(d, U)
    BY <1>3, <1>4, <1>6
  <2>2. WordFits(Word(p, P), Word(d, U), EntrySize)
    BY <1>5, <2>1 DEF WordFits
  <2>3. Walks(After(p, P), After(d, U))
        /\ m' = [m EXCEPT !.literal_chars = @ + Len(Word(p, P))]
    BY <1>1, <1>3, <1>4, <1>6
  <2>4. Counted(p, d, P, m.literal_chars, m.params)
    BY <1>2 DEF Recorded
  <2>5. Counted(p, d, After(p, P), m.literal_chars + Len(Word(p, P)), m.params)
    BY <1>1, <1>2, <2>4, CountsLiteral
  <2>6. /\ m' \in Recording /\ m'.literal_chars = m.literal_chars + Len(Word(p, P))
        /\ m'.params = m.params /\ m'.param_count = m.param_count
        /\ m'.wildcard_count = m.wildcard_count
    <3>1. m \in Recording
      BY <1>2
    <3>2. m.literal_chars + Len(Word(p, P)) \in Nat
      <4>1. Len(Word(p, P)) \in Nat
        BY <1>5
      <4> QED
        BY <3>1, <4>1 DEF Recording
    <3> QED
      BY <2>3, <3>1, <3>2 DEF Recording
  <2> QED
    BY <1>1, <1>2, <2>2, <2>3, <2>5, <2>6, StepsOn DEF Recorded
<1>7. CASE segment # SubSeq(document, U, SegmentEnd(document, U) - 1)
  <2>1. Returns(0) /\ m' = m
    BY <1>1, <1>7
  <2>2. ~WordFits(Word(p, P), Word(d, U), EntrySize)
    BY <1>3, <1>4, <1>5, <1>7 DEF WordFits
  <2>3. ~Matches(pattern, document, MaxEntries, EntrySize)
    BY <1>2, <2>2, Mismatches
  <2> QED
    BY <1>2, <2>1, <2>3, Fails DEF Returns
<1> QED
  BY <1>6, <1>7

LEMMA ParamGoes == LoopInv /\ Param => LoopInv'
<1> SUFFICES ASSUME LoopInv, Param PROVE LoopInv'
  OBVIOUS
<1> DEFINE p == Cut(pattern)
           d == Cut(document)
           value == SubSeq(document, U, SegmentEnd(document, U) - 1)
           taken == [m EXCEPT !.params = Append(@, value)]
<1>1. /\ GoesOn /\ PatChar # "/" /\ PathChar # "/" /\ PatChar = ":"
      /\ IF ~Room
         THEN Returns(0) /\ UNCHANGED m
         ELSE IF Len(value) >= EntrySize
              THEN Returns(0) /\ m' = taken
              ELSE /\ Walks(SegmentEnd(pattern, P), SegmentEnd(document, U))
                   /\ m' = [taken EXCEPT !.param_count = @ + 1]
  BY DEF Param, AtSegments
<1>2. /\ p \in Seq(STRING) /\ Clean(p) /\ d \in Seq(STRING) /\ Clean(d)
      /\ P \in Words(p) /\ U \in Words(d) /\ P # CatchAll(p)
      /\ P \in 1 .. Len(p) /\ U \in 1 .. Len(d)
      /\ PatChar = p[P] /\ PathChar = d[U]
      /\ Walked(p, d, P, U) /\ Recorded(P)
      /\ Number(p, P) = Number(d, U) /\ m \in Recording
      /\ pattern \in Seq(STRING) /\ document \in Seq(STRING)
  BY <1>1, GoingOn
<1>3. SegmentEnd(pattern, P) = After(p, P)
  BY <1>1, <1>2, SegmentEnds DEF After
<1>4. value = Word(d, U) /\ SegmentEnd(document, U) = After(d, U)
  BY <1>1, <1>2, SegmentEnds DEF After
<1>5. Word(p, P)[1] = ":" /\ Word(d, U) \in Seq(STRING) /\ Word(d, U) # <<"/">>
  BY <1>1, <1>2, WordIs
<1> HIDE DEF value
<1>6. value \in Seq(STRING) /\ Len(value) \in Nat
  <2>1. value \in Seq(STRING)
    BY <1>4, <1>5
  <2> QED
    BY <2>1
<1>7. /\ taken \in Recording /\ taken.params = Append(m.params, value)
      /\ taken.literal_chars = m.literal_chars /\ taken.param_count = m.param_count
      /\ taken.wildcard_count = m.wildcard_count
  <2>1. m \in Recording
    BY <1>2
  <2>2. Append(m.params, value) \in Seq(Seq(STRING))
    BY <1>6, <2>1 DEF Recording
  <2> QED
    BY <2>1, <2>2 DEF Recording
<1> HIDE DEF taken
<1>8. Counted(p, d, P, m.literal_chars, m.params)
  BY <1>2 DEF Recorded
<1>9. CASE ~Room
  <2>1. Returns(0) /\ m' = m
    BY <1>1, <1>9
  <2>2. /\ Len(p) \in Nat /\ Params(p) \subseteq 1 .. Len(p) /\ P \in Params(p)
        /\ P < Len(p) + 1 /\ Len(p) + 1 \in Nat
    BY <1>1, <1>2, WordsArePositions DEF Params
  <2>3. Cardinality(Below(Params(p), P)) < Cardinality(Params(p))
    BY <2>2, BelowGrows
  <2>4. Cardinality(Below(Params(p), P)) >= MaxEntries
    <3>1. Len(m.params) = Cardinality(Below(Params(p), P)) /\ Len(m.params) \in Nat
      BY <1>8 DEF Counted
    <3>2. ~(Len(m.params) < MaxEntries)
      BY <1>9 DEF Room
    <3> QED
      BY <3>1, <3>2, PatternMatchAssumption
  <2>5. ~(Cardinality(Params(p)) <= MaxEntries)
    <3>1. /\ Cardinality(Below(Params(p), P)) \in Nat /\ Cardinality(Params(p)) \in Nat
          /\ MaxEntries \in Nat
      <4>1. Below(Params(p), P) \subseteq 1 .. Len(p)
        BY <2>2 DEF Below
      <4> QED
        BY <2>2, <4>1, PositionsFinite, PatternMatchAssumption
    <3> QED
      BY <2>3, <2>4, <3>1
  <2>6. ~Matches(pattern, document, MaxEntries, EntrySize)
    BY <2>5 DEF Matches
  <2> QED
    BY <1>2, <2>1, <2>6, Fails DEF Returns
<1>10. CASE Room /\ Len(value) >= EntrySize
  <2>1. Returns(0) /\ m' = taken
    BY <1>1, <1>10
  <2>2. ~(Len(value) < EntrySize)
    BY <1>6, <1>10, PatternMatchAssumption
  <2>3. ~WordFits(Word(p, P), Word(d, U), EntrySize)
    BY <1>4, <1>5, <2>2 DEF WordFits
  <2>4. ~Matches(pattern, document, MaxEntries, EntrySize)
    BY <1>2, <2>3, Mismatches
  <2> QED
    BY <1>7, <2>1, <2>4, Fails DEF Returns
<1>11. CASE Room /\ ~(Len(value) >= EntrySize)
  <2>1. Walks(After(p, P), After(d, U)) /\ m' = [taken EXCEPT !.param_count = @ + 1]
    BY <1>1, <1>3, <1>4, <1>11
  <2>2. Len(value) < EntrySize
    BY <1>6, <1>11, PatternMatchAssumption
  <2>3. WordFits(Word(p, P), Word(d, U), EntrySize)
    BY <1>4, <1>5, <2>2 DEF WordFits
  <2>4. Counted(p, d, After(p, P), m.literal_chars, Append(m.params, value))
    BY <1>1, <1>2, <1>4, <1>8, CountsParam
  <2>5. /\ m' \in Recording /\ m'.params = taken.params
        /\ m'.literal_chars = taken.literal_chars
        /\ m'.param_count = taken.param_count + 1
        /\ m'.wildcard_count = taken.wildcard_count
    BY <1>7, <2>1 DEF Recording
  <2>6. /\ m.wildcard_count = 0 /\ m.param_count = Len(m.params)
        /\ m.params \in Seq(Seq(STRING))
    BY <1>2, <1>8 DEF Recorded, Counted
  <2>7. Len(m'.params) = Len(m.params) + 1
    BY <1>6, <1>7, <2>5, <2>6
  <2>8. Len(m.params) + 1 <= MaxEntries
    BY <1>11, <2>6, PatternMatchAssumption DEF Room
  <2>9. /\ m'.literal_chars = m.literal_chars /\ m'.params = Append(m.params, value)
        /\ m'.wildcard_count = 0 /\ m'.param_count = Len(m'.params)
        /\ Len(m'.params) <= MaxEntries
    BY <1>7, <2>5, <2>6, <2>7, <2>8
  <2> QED
    BY <1>1, <2>1, <2>3, <2>4, <2>5, <2>9, StepsOn
<1> QED
  BY <1>9, <1>10, <1>11

(* pattern_match finds what the pattern means: for every pattern and path,   *)
(* every number of entries and every size of a value, it matches exactly     *)
(* when the words do, and then has counted and captured the right ones.      *)
THEOREM LoopFindsMatches == LoopSpec => []FindsMatches
<1>1. LoopInv /\ [LoopNext]_loop => LoopInv'
  <2>1. LoopInv /\ UNCHANGED loop => LoopInv'
    BY DEF LoopInv, loop, Recorded, FindsMatches, Captures
  <2> QED
    BY <2>1, EndFinds, WildcardFinds, SlashGoes, ParamGoes, LiteralGoes DEF LoopNext
<1>2. LoopInv => FindsMatches
  BY DEF LoopInv
<1> QED
  BY <1>1, <1>2, LoopStarts, PTL DEF LoopSpec

Scores == [literal_chars : Nat, param_count : Nat, wildcard_count : Nat]

LEMMA ScoreType == ASSUME NEW key \in Seq(STRING) PROVE Score(key) \in Scores
<1> DEFINE p == Cut(key)
<1>1. p \in Seq(STRING)
  BY CutIsSeq
<1>2. Literals(p) \subseteq 1 .. Len(p) /\ Params(p) \subseteq 1 .. Len(p) /\ Len(p) \in Nat
  BY <1>1, WordsArePositions
<1>3. Cardinality(Literals(p)) \in Nat /\ Cardinality(Params(p)) \in Nat
  BY <1>2, PositionsFinite
<1>4. (IF CatchAll(p) = 0 THEN 0 ELSE 1) \in Nat
  OBVIOUS
<1> QED
  BY <1>3, <1>4 DEF Score, Scores

(* pattern_better_match orders the scores strictly, and what does not beat   *)
(* one does not beat a better one: the order of the iteration decides ties   *)
(* and nothing else.                                                         *)
THEOREM BetterIsStrictOrder ==
    ASSUME NEW a \in Scores, NEW b \in Scores, NEW c \in Scores
    PROVE  /\ ~Better(a, a)
           /\ Better(a, b) => ~Better(b, a)
           /\ Better(a, b) /\ Better(b, c) => Better(a, c)
           /\ ~Better(a, b) /\ ~Better(b, c) => ~Better(a, c)
  BY DEF Better, Scores
-----------------------------------------------------------------------------
(* The iteration looks at registered keys. *)
Iterating == hdlr_hd \in Registries /\ todo \subseteq hdlr_hd /\ best \subseteq hdlr_hd

IterInv == Iterating /\ BestKept

LEMMA IterInit == Init => IterInv
  BY DEF Init, IterInv, Iterating, BestKept

LEMMA BetterKeys ==
    ASSUME NEW k \in Seq(STRING), NEW l \in Seq(STRING), NEW n \in Seq(STRING),
           BetterKey(k, l)
    PROVE  /\ ~BetterKey(k, k)
           /\ ~BetterKey(n, l) => ~BetterKey(n, k)
<1>1. Score(k) \in Scores /\ Score(l) \in Scores /\ Score(n) \in Scores
  BY ScoreType
<1> QED
  BY <1>1, BetterIsStrictOrder DEF BetterKey

LEMMA IterNext == IterInv /\ [Next]_vars => IterInv'
<1> SUFFICES ASSUME IterInv, [Next]_vars PROVE IterInv'
  OBVIOUS
<1>1. CASE Files
  BY <1>1 DEF Files, TrailingSlash, Static, Autoindex, Redirect, Stage, Serve, request,
              IterInv, Iterating, BestKept
<1>2. ASSUME NEW l, StartPatterns(l), UNCHANGED request PROVE IterInv'
  BY <1>2 DEF StartPatterns, request, IterInv, Iterating, BestKept, Visited
<1>3. ASSUME NEW who, Serve(who), UNCHANGED request PROVE IterInv'
  BY <1>3 DEF Serve, request, IterInv, Iterating, BestKept
<1>4. CASE Exact
  BY <1>2, <1>3, <1>4 DEF Exact
<1>5. CASE Visit
  <2> PICK key \in todo :
        /\ todo' = todo \ {key}
        /\ best' = IF Candidate(key) /\ \A b \in best : BetterKey(key, b)
                   THEN {key} ELSE best
    BY <1>5 DEF Visit
  <2>1. UNCHANGED <<hdlr_hd, document_uri, line, at>> /\ at = "patterns"
    BY <1>5 DEF Visit, request
  <2>2. \A k : Candidate(k)' <=> Candidate(k)
    BY <2>1 DEF Candidate
  <2>3. Visited' = Visited \cup {key} /\ key \in hdlr_hd
    BY <2>1 DEF Visited, IterInv, Iterating
  <2>4. \A k \in hdlr_hd : k \in Seq(STRING)
    BY RouteAssumption DEF IterInv, Iterating
  <2>5. /\ \A b \in best : Candidate(b)
        /\ \A k \in Visited : Candidate(k) => \E b \in best : ~BetterKey(k, b)
    BY <2>1 DEF IterInv, BestKept
  <2>6. /\ \A b \in best' : Candidate(b)
        /\ \A k \in Visited' : Candidate(k) => \E b \in best' : ~BetterKey(k, b)
    <3>1. CASE Candidate(key) /\ \A b \in best : BetterKey(key, b)
      <4>1. ASSUME NEW k \in Visited, Candidate(k) PROVE ~BetterKey(k, key)
        <5>1. PICK b \in best : ~BetterKey(k, b)
          BY <2>5, <4>1
        <5>2. k \in Seq(STRING) /\ b \in Seq(STRING) /\ key \in Seq(STRING)
          BY <2>3, <2>4 DEF Visited, IterInv, Iterating
        <5> QED
          BY <3>1, <5>1, <5>2, BetterKeys
      <4>2. ~BetterKey(key, key)
        <5>1. Score(key) \in Scores
          BY <2>3, <2>4, ScoreType
        <5> QED
          BY <5>1, BetterIsStrictOrder DEF BetterKey
      <4> QED
        BY <2>3, <3>1, <4>1, <4>2
    <3>2. CASE Candidate(key) /\ \E b \in best : ~BetterKey(key, b)
      <4>1. PICK b \in best : ~BetterKey(key, b)
        BY <3>2
      <4>2. best' = best
        BY <4>1
      <4> QED
        BY <2>3, <2>5, <4>1, <4>2
    <3>3. CASE ~Candidate(key)
      BY <2>3, <2>5, <3>3
    <3> QED
      BY <3>1, <3>2, <3>3
  <2>7. BestKept'
    BY <2>1, <2>2, <2>6 DEF BestKept
  <2>8. Iterating'
    BY <2>1, <2>3 DEF IterInv, Iterating
  <2> QED
    BY <2>7, <2>8 DEF IterInv
<1>6. CASE PatternsDone
  <2>1. UNCHANGED request
    BY <1>6 DEF PatternsDone
  <2>2. \/ \E who : Serve(who)
        \/ \E l : StartPatterns(l)
        \/ at' = "default" /\ UNCHANGED <<todo, best>>
    BY <1>6 DEF PatternsDone
  <2>3. CASE at' = "default" /\ UNCHANGED <<todo, best>>
    BY <2>1, <2>3 DEF request, IterInv, Iterating, BestKept
  <2> QED
    BY <1>2, <1>3, <2>1, <2>2, <2>3
<1>7. CASE Default \/ Fallback
  BY <1>7 DEF Default, Fallback, request, IterInv, Iterating, BestKept, Visited
<1>8. CASE UNCHANGED vars
  BY <1>8 DEF vars, request, IterInv, Iterating, BestKept, Visited, Candidate
<1> QED
  BY <1>1, <1>4, <1>5, <1>6, <1>7, <1>8 DEF Next

(* The pattern kept is beaten by none of those visited, for every registry,  *)
(* request and order of iteration.                                           *)
THEOREM BestPatternServes == Spec => []BestKept
<1>1. IterInv => BestKept
  BY DEF IterInv
<1> QED
  BY <1>1, IterInit, IterNext, PTL DEF Spec
-----------------------------------------------------------------------------
(* A directory gets past the redirect only under a path that ends in a       *)
(* slash, and so does the tree alone answer in the clear.                    *)
TreeInv ==
    /\ document_uri \in Uris
    /\ at \in {"static", "autoindex"} /\ resource \in Directories => EndsInSlash
    /\ LinksResolve
    /\ plain => /\ at \in {"slash", "static", "autoindex", "redirect", "done"}
                /\ served.by \in OfTheTree \cup {"nobody"}

LEMMA TreeInit == Init => TreeInv
  BY DEF Init, TreeInv, LinksResolve, NoOne

LEMMA TreeNext == TreeInv /\ [Next]_vars => TreeInv'
<1> SUFFICES ASSUME TreeInv, [Next]_vars PROVE TreeInv'
  OBVIOUS
<1> USE DEF TreeInv, LinksResolve, OfTheTree
<1>1. CASE TrailingSlash
  <2>1. UNCHANGED <<document_uri, resource, plain>> /\ at = "slash"
    BY <1>1 DEF TrailingSlash, Stage, request
  <2>2. CASE Len(document_uri) > 1 /\ ~EndsInSlash /\ resource \in Directories
    <3>1. at' = "done" /\ served'.by = "slash"
      BY <1>1, <2>2 DEF TrailingSlash, Stage, Serve
    <3> QED
      BY <2>1, <3>1
  <2>3. CASE ~(Len(document_uri) > 1 /\ ~EndsInSlash /\ resource \in Directories)
    <3>1. at' = "static" /\ served' = served
      BY <1>1, <2>3 DEF TrailingSlash, Stage
    <3>2. ~(Len(document_uri) > 1) => EndsInSlash
      BY RouteAssumption DEF RouteAssumption, IsPath, EndsInSlash, Last
    <3>3. EndsInSlash' <=> EndsInSlash
      BY <2>1 DEF EndsInSlash
    <3> QED
      BY <2>1, <2>3, <3>1, <3>2, <3>3
  <2> QED
    BY <2>2, <2>3
<1>2. CASE Static \/ Autoindex \/ Redirect
  BY <1>2 DEF Static, Autoindex, Redirect, Stage, Serve, request, EndsInSlash, Directories
<1>3. CASE Exact \/ Visit \/ PatternsDone \/ Default \/ Fallback
  <2>1. at \in {"exact", "patterns", "default", "fallback"} /\ UNCHANGED request
    BY <1>3 DEF Exact, Visit, PatternsDone, Default, Fallback
  <2>2. ~plain /\ ~plain'
    BY <2>1 DEF request
  <2>3. served' = served
        \/ served'.by \in {"handler", "default", "fallback", "404"}
    BY <1>3 DEF Exact, Visit, PatternsDone, Default, Fallback, Serve, StartPatterns
  <2>4. at' \in {"patterns", "default", "fallback", "done"}
    BY <1>3 DEF Exact, Visit, PatternsDone, Default, Fallback, Serve, StartPatterns
  <2>5. document_uri' = document_uri /\ (EndsInSlash' <=> EndsInSlash)
    BY <2>1 DEF request, EndsInSlash
  <2> QED
    BY <2>2, <2>3, <2>4, <2>5
<1>4. CASE UNCHANGED vars
  BY <1>4 DEF vars, request, EndsInSlash
<1> QED
  BY <1>1, <1>2, <1>3, <1>4 DEF Next, Files

(* A list of a directory is only sent under a path that ends in a slash, for *)
(* every path that request_path_is_safe lets through.                        *)
THEOREM ListsResolve == Spec => []LinksResolve
<1>1. TreeInv => LinksResolve
  BY DEF TreeInv
<1> QED
  BY <1>1, TreeInit, TreeNext, PTL DEF Spec

(* Nothing but the files answers in the clear under AXIL_SSL_ONLY.           *)
THEOREM HandlersSecure == Spec => []SecureHandlers
<1>1. TreeInv => SecureHandlers
  BY DEF TreeInv, SecureHandlers, OfTheTree
<1> QED
  BY <1>1, TreeInit, TreeNext, PTL DEF Spec
-----------------------------------------------------------------------------
(* Where a HEAD request is for which a GET would find a handler: behind the  *)
(* exact keys it is one of the patterns that would.                          *)
HeadInv ==
    method = "HEAD" /\ GetFinds =>
      /\ at \notin {"default", "fallback"}
      /\ at = "patterns" => {Line("GET"), document_uri} \cap hdlr_hd = {}
      /\ at = "done" => served.by \in OfTheTree \cup {"handler"}

LEMMA HeadInit == Init => HeadInv
  BY DEF Init, HeadInv

LEMMA HeadNext == IterInv /\ HeadInv /\ [Next]_vars => HeadInv'
<1> SUFFICES ASSUME IterInv, HeadInv, [Next]_vars, method' = "HEAD", GetFinds'
             PROVE  /\ at' \notin {"default", "fallback"}
                    /\ at' = "patterns" => {Line("GET"), document_uri}' \cap hdlr_hd' = {}
                    /\ at' = "done" => served'.by \in OfTheTree \cup {"handler"}
  BY DEF HeadInv
<1>1. UNCHANGED <<hdlr_hd, method, document_uri>>
  BY DEF Next, Files, TrailingSlash, Static, Autoindex, Redirect, Stage, Exact, Visit,
         PatternsDone, Default, Fallback, request, vars
<1>2. Line("GET")' = Line("GET")
  BY <1>1 DEF Line
<1>3. method = "HEAD" /\ GetFinds
  BY <1>1, <1>2 DEF GetFinds
<1>4. /\ at \notin {"default", "fallback"}
      /\ at = "patterns" => {Line("GET"), document_uri} \cap hdlr_hd = {}
      /\ at = "done" => served.by \in OfTheTree \cup {"handler"}
  BY <1>3 DEF HeadInv
<1>5. CASE Files
  BY <1>5 DEF Files, TrailingSlash, Static, Autoindex, Redirect, Stage, Serve, OfTheTree
<1>6. CASE Exact
  <2>1. CASE \E i \in DOMAIN ExactKeys : Serve([by |-> "handler", key |-> ExactKeys[i]])
    BY <2>1 DEF Serve
  <2>2. CASE /\ \A i \in DOMAIN ExactKeys : ExactKeys[i] \notin hdlr_hd
             /\ StartPatterns(Line(method))
    <3>1. ExactKeys = <<Line("HEAD"), Line("GET"), document_uri>>
      BY <1>3 DEF ExactKeys
    <3>2. Line("GET") \notin hdlr_hd /\ document_uri \notin hdlr_hd
      BY <2>2, <3>1
    <3>3. at' = "patterns"
      BY <2>2 DEF StartPatterns
    <3> QED
      BY <1>1, <1>2, <3>2, <3>3
  <2> QED
    BY <1>6, <2>1, <2>2 DEF Exact
<1>7. CASE Visit
  BY <1>1, <1>2, <1>4, <1>7 DEF Visit
<1>8. CASE PatternsDone
  <2>1. CASE \E b \in best : Serve([by |-> "handler", key |-> b])
    BY <2>1 DEF Serve
  <2>2. CASE StartPatterns(Line("GET"))
    BY <1>1, <1>2, <1>4, <1>8, <2>2 DEF StartPatterns, PatternsDone
  <2>3. CASE best = {} /\ line = Line("GET")
    <3>1. at = "patterns" /\ todo = {}
      BY <1>8 DEF PatternsDone
    <3>2. PICK key \in hdlr_hd :
            IsPattern(key) /\ (Fits(key, Line("GET")) \/ Fits(key, document_uri))
      BY <1>3, <1>4, <3>1 DEF GetFinds
    <3>3. Candidate(key) /\ key \in Visited
      BY <2>3, <3>1, <3>2 DEF Candidate, Visited
    <3> QED
      BY <2>3, <3>1, <3>3 DEF IterInv, BestKept
  <2> QED
    BY <1>3, <1>8, <2>1, <2>2, <2>3 DEF PatternsDone
<1>9. CASE Default \/ Fallback
  BY <1>4, <1>9 DEF Default, Fallback
<1>10. CASE UNCHANGED vars
  BY <1>1, <1>2, <1>4, <1>10 DEF vars
<1> QED
  BY <1>5, <1>6, <1>7, <1>8, <1>9, <1>10 DEF Next

(* A HEAD request finds a handler whenever a GET for the same path does, for *)
(* every set of routes and order of iteration.                               *)
THEOREM HeadFinds == Spec => []HeadLikeGet
<1>1. HeadInv => HeadLikeGet
  BY DEF HeadInv, HeadLikeGet
<1> QED
  BY <1>1, IterInit, IterNext, HeadInit, HeadNext, PTL DEF Spec
-----------------------------------------------------------------------------
(* The first word of a string that begins with "METHOD:" begins with it.     *)
BeginsWith(s, pre) == Len(pre) <= Len(s) /\ \A i \in 1 .. Len(pre) : s[i] = pre[i]

LEMMA MethodFirst ==
    ASSUME NEW s \in Seq(STRING), NEW pre \in Seq(STRING), IsPrefixOfMethod(pre), BeginsWith(s, pre)
    PROVE  /\ Len(pre) \in Nat /\ Len(pre) > 1 /\ Len(pre) <= Len(Cut(s))
           /\ 1 \in Words(Cut(s)) /\ Number(Cut(s), 1) = 0 /\ 1 # CatchAll(Cut(s))
           /\ Cut(s)[1] \notin {"/", ":", "%"}
           /\ BeginsWith(Word(Cut(s), 1), pre)
<1> DEFINE c == Cut(s)
           n == Len(pre)
<1>1. \A i \in 1 .. n : pre[i] \notin {"", "/", "?", "*", "%"} /\ (pre[i] = ":" <=> i = n)
  BY DEF IsPrefixOfMethod
<1>2. n \in Nat /\ n > 1
  <2>1. n > 1
    BY DEF IsPrefixOfMethod
  <2>2. n \in Nat
    OBVIOUS
  <2> QED
    BY <2>1, <2>2
<1>3. n <= Len(s) /\ \A i \in 1 .. n : s[i] = pre[i]
  BY DEF BeginsWith
<1>4. Len(c) \in Nat /\ Len(c) <= Len(s) /\ Len(s) \in Nat
  BY CutIs
<1>5. /\ c \in Seq(STRING) /\ Clean(c) /\ DOMAIN c = 1 .. Len(c)
      /\ \A i \in 1 .. Len(c) : c[i] = s[i]
      /\ IsEnd(At(s, Len(c) + 1))
  BY CutIs, CutIsClean
<1> HIDE DEF c, n
<1>6. n <= Len(c)
  <2>1. SUFFICES ASSUME Len(c) + 1 <= n PROVE FALSE
    BY <1>2, <1>4
  <2>2. Len(c) + 1 \in 1 .. n /\ Len(c) + 1 \in 1 .. Len(s)
    BY <1>3, <1>2, <1>4, <2>1
  <2>3. DOMAIN s = 1 .. Len(s)
    OBVIOUS
  <2>4. At(s, Len(c) + 1) = pre[Len(c) + 1]
    BY <1>3, <2>2, <2>3 DEF At
  <2> QED
    BY <1>1, <1>5, <2>2, <2>4 DEF IsEnd
<1>7. \A i \in 1 .. n : i \in 1 .. Len(c) /\ c[i] = pre[i]
  <2>1. \A i \in 1 .. n : i \in 1 .. Len(c)
    BY <1>6, <1>2, <1>4
  <2> QED
    BY <1>3, <1>5, <2>1
<1>8. 1 \in 1 .. n /\ 1 # n /\ 1 \in 1 .. Len(c)
  BY <1>6, <1>2, <1>4
<1>9. c[1] \notin {"/", ":", "*", "%"}
  BY <1>1, <1>7, <1>8
<1>10. 1 \in Words(c)
  BY <1>5, <1>8, <1>9 DEF Words, StartsWord
<1>11. Number(c, 1) = 0
  <2>1. Words(c) \subseteq 1 .. Len(c)
    BY <1>5, WordsArePositions
  <2>2. \A i \in Words(c) : ~(i < 1)
    BY <1>4, <2>1
  <2>3. {l \in Words(c) : l < 1} = {}
    BY <2>2
  <2> QED
    BY <2>3, FS_EmptySet DEF Number
<1>12. 1 # CatchAll(c)
  BY <1>5, <1>9, CatchAllIs
<1>13. BeginsWith(Word(c, 1), pre)
  <2> DEFINE e == WordEnd(c, 1)
  <2>1. /\ e \in 2 .. Len(c) + 1
        /\ e <= Len(c) => c[e] = "/"
    <3>1. 1 + 1 = 2
      OBVIOUS
    <3> QED
      BY <1>5, <1>8, <1>9, <3>1, WordEnds
  <2>2. Word(c, 1) = SubSeq(c, 1, e - 1) /\ Len(Word(c, 1)) = e - 1
    BY <1>5, <1>8, <1>9, WordIs
  <2> HIDE DEF e
  <2>3. e \in Nat /\ 2 <= e /\ e <= Len(c) + 1
    BY <1>4, <2>1
  <2>4. n < e
    <3>1. SUFFICES ASSUME e <= n PROVE FALSE
      BY <1>2, <2>3
    <3>2. e \in 1 .. n /\ e <= Len(c)
      BY <1>6, <1>2, <1>4, <2>3, <3>1
    <3> QED
      BY <1>1, <1>7, <2>1, <3>2
  <2>5. \A i \in 1 .. e - 1 : SubSeq(c, 1, e - 1)[i] = c[i]
    BY <1>5, <1>4, <2>3
  <2>6. \A i \in 1 .. n : i \in 1 .. e - 1
    BY <1>2, <2>3, <2>4
  <2>7. n <= e - 1
    BY <1>2, <2>3, <2>4
  <2> QED
    BY <1>7, <2>2, <2>5, <2>6, <2>7 DEF BeginsWith, n
<1> QED
  BY <1>2, <1>6, <1>9, <1>10, <1>11, <1>12, <1>13 DEF c, n

LEMMA MethodsEnd ==
    ASSUME NEW a \in Seq(STRING), IsPrefixOfMethod(a),
           NEW b \in Seq(STRING), IsPrefixOfMethod(b), BeginsWith(b, a)
    PROVE  a = b
<1>1. Len(a) \in Nat /\ Len(a) > 1 /\ Len(b) \in Nat /\ Len(b) > 1
  <2>1. Len(a) > 1 /\ Len(b) > 1
    BY DEF IsPrefixOfMethod
  <2>2. Len(a) \in Nat /\ Len(b) \in Nat
    OBVIOUS
  <2> QED
    BY <2>1, <2>2
<1>2. Len(a) \in 1 .. Len(a) /\ Len(a) \in 1 .. Len(b)
  BY <1>1 DEF BeginsWith
<1>3. b[Len(a)] = ":"
  BY <1>2 DEF IsPrefixOfMethod, BeginsWith
<1>4. Len(a) = Len(b)
  BY <1>2, <1>3 DEF IsPrefixOfMethod
<1> QED
  BY <1>1, <1>4, SeqEqual DEF BeginsWith

(* A request line begins with its method. *)
LEMMA LineIs ==
    ASSUME NEW mth \in Methods, document_uri \in Uris
    PROVE  /\ Line(mth) \in Seq(STRING) /\ IsPrefixOfMethod(Prefix[mth])
           /\ BeginsWith(Line(mth), Prefix[mth])
<1> DEFINE pre == Prefix[mth]
           uri == document_uri
<1>1. IsPrefixOfMethod(pre) /\ pre \in Seq(STRING) /\ uri \in Seq(STRING)
  BY RouteAssumption
<1> HIDE DEF pre, uri
<1>2. Len(pre) \in Nat /\ Len(uri) \in Nat
  BY <1>1
<1>3. /\ pre \o uri \in Seq(STRING) /\ Len(pre \o uri) = Len(pre) + Len(uri)
      /\ \A i \in 1 .. Len(pre) : (pre \o uri)[i] = pre[i]
  BY <1>1, ConcatProperties
<1>4. Line(mth) = pre \o uri
  BY DEF Line, pre, uri
<1>5. BeginsWith(pre \o uri, pre)
  BY <1>2, <1>3 DEF BeginsWith
<1> QED
  BY <1>1, <1>3, <1>4, <1>5 DEF pre

(* What begins with a method begins with one. *)
LEMMA OneMethod ==
    ASSUME NEW mth \in Methods, NEW who \in Methods, NEW l,
           BeginsWith(l, Prefix[mth]), BeginsWith(l, Prefix[who])
    PROVE  mth = who
<1> DEFINE a == Prefix[mth]
           b == Prefix[who]
<1>1. /\ a \in Seq(STRING) /\ b \in Seq(STRING)
      /\ IsPrefixOfMethod(a) /\ IsPrefixOfMethod(b)
  BY RouteAssumption
<1>2. BeginsWith(l, a) /\ BeginsWith(l, b)
  OBVIOUS
<1> HIDE DEF a, b
<1>3. Len(a) \in Nat /\ Len(b) \in Nat
  BY <1>1
<1>4. CASE Len(a) <= Len(b)
  <2>1. \A i \in 1 .. Len(a) : i \in 1 .. Len(b)
    BY <1>3, <1>4
  <2>2. BeginsWith(b, a)
    BY <1>2, <1>4, <2>1 DEF BeginsWith
  <2>3. a = b
    BY <1>1, <2>2, MethodsEnd
  <2> QED
    BY <2>3, RouteAssumption DEF a, b
<1>5. CASE Len(b) <= Len(a)
  <2>1. \A i \in 1 .. Len(b) : i \in 1 .. Len(a)
    BY <1>3, <1>5
  <2>2. BeginsWith(a, b)
    BY <1>2, <1>5, <2>1 DEF BeginsWith
  <2>3. a = b
    BY <1>1, <2>2, MethodsEnd
  <2> QED
    BY <2>3, RouteAssumption DEF a, b
<1> QED
  BY <1>3, <1>4, <1>5

(* A key of a method, where a request line is looked up as it is. *)
LEMMA ExactOfMethod ==
    ASSUME NEW mth \in Methods, NEW who \in Methods, document_uri \in Uris,
           BeginsWith(Line(who), Prefix[mth])
    PROVE  mth = who
  BY LineIs, OneMethod

(* A path is no key of a method: it begins with no letter. *)
LEMMA PathOfNoMethod ==
    ASSUME NEW mth \in Methods, document_uri \in Uris
    PROVE  ~BeginsWith(document_uri, Prefix[mth])
<1>1. /\ document_uri[1] \in {"/", "%"}
      /\ Prefix[mth] \in Seq(STRING) /\ IsPrefixOfMethod(Prefix[mth])
  BY RouteAssumption DEF IsPath
<1>2. 1 \in 1 .. Len(Prefix[mth])
  <2>1. Len(Prefix[mth]) > 1
    BY <1>1 DEF IsPrefixOfMethod
  <2>2. Len(Prefix[mth]) \in Nat
    BY <1>1
  <2> QED
    BY <2>1, <2>2
<1> QED
  BY <1>1, <1>2 DEF BeginsWith, IsPrefixOfMethod

(* A pattern of a method matches the request lines of that method only. *)
LEMMA PatternOfMethod ==
    ASSUME NEW mth \in Methods, NEW who \in Methods, document_uri \in Uris,
           NEW key \in Seq(STRING), BeginsWith(key, Prefix[mth]), Fits(key, Line(who))
    PROVE  mth = who
<1> DEFINE a == Prefix[mth]
           b == Prefix[who]
           p == Cut(key)
           d == Cut(Line(who))
<1>1. /\ a \in Seq(STRING) /\ b \in Seq(STRING)
      /\ IsPrefixOfMethod(a) /\ IsPrefixOfMethod(b)
  BY RouteAssumption
<1>2. Line(who) \in Seq(STRING) /\ BeginsWith(Line(who), b)
  BY LineIs
<1>3. /\ 1 \in Words(p) /\ Number(p, 1) = 0 /\ 1 # CatchAll(p)
      /\ p[1] \notin {"/", ":"} /\ BeginsWith(Word(p, 1), a)
  BY <1>1, MethodFirst
<1>4. 1 \in Words(d) /\ Number(d, 1) = 0 /\ BeginsWith(Word(d, 1), b)
  BY <1>1, <1>2, MethodFirst
<1>5. p \in Seq(STRING) /\ Clean(p)
  BY CutIsClean
<1>6. 1 \in 1 .. Len(p)
  BY <1>3, <1>5, WordsArePositions
<1>7. Word(p, 1) = Word(d, 1)
  <2>1. WordFits(Word(p, 1), Word(d, 1), ValueSize)
    BY <1>3, <1>4 DEF Fits, Matches
  <2>2. Word(p, 1)[1] # ":"
    BY <1>3, <1>5, <1>6, WordIs
  <2> QED
    BY <2>1, <2>2 DEF WordFits
<1> QED
  BY <1>3, <1>4, <1>7, OneMethod

(* The first word of a path, if it has one, begins with a slash or a '%'. *)
LEMMA SlashFirst ==
    ASSUME NEW uri \in Seq(STRING), uri # <<>>, uri[1] \in {"/", "%"}
    PROVE  \/ NumWords(Cut(uri)) = 0
           \/ \E q \in Words(Cut(uri)) :
                Number(Cut(uri), q) = 0 /\ Cut(uri)[q] \in {"/", "%"}
<1> DEFINE d == Cut(uri)
           q == SkipTo(uri, 1)
<1>1. d \in Seq(STRING) /\ Clean(d) /\ Len(d) \in Nat
  BY CutIsClean
<1>2. 1 \in 1 .. Len(d) + 1 /\ Boundary(d, 1)
  BY <1>1 DEF Boundary
<1>3. /\ q \in 1 .. Len(d) + 1
      /\ \A i \in 1 .. q - 1 : d[i] = "/" /\ i \notin Words(d)
      /\ q <= Len(d) => q \in Words(d)
  BY <1>2, Skips
<1>4. Number(d, q) = Number(d, 1)
  BY <1>2, NumberSkips
<1>5. Number(d, 1) = 0
  <2>1. \A i \in Words(d) : ~(i < 1)
    BY <1>1, WordsArePositions
  <2>2. {l \in Words(d) : l < 1} = {}
    BY <2>1
  <2> QED
    BY <2>2, FS_EmptySet DEF Number
<1>6. \A i \in 1 .. Len(d) : d[i] = uri[i]
  BY CutIs
<1> HIDE DEF q, d
<1>7. CASE q = Len(d) + 1
  BY <1>1, <1>4, <1>5, <1>7, Numbers DEF d
<1>8. CASE q # Len(d) + 1
  <2>1. q \in 1 .. Len(d) /\ q <= Len(d) /\ q \in Nat
    BY <1>1, <1>3, <1>8
  <2>2. d[q] \in {"/", "%"}
    <3>1. CASE q = 1
      BY <1>6, <2>1, <3>1
    <3>2. CASE q # 1
      <4>1. q - 1 \in 1 .. q - 1 /\ q - 1 \in 1 .. Len(d) /\ (q - 1) + 1 = q
        BY <1>1, <2>1, <3>2
      <4>2. d[q - 1] = "/" /\ q - 1 \notin Words(d)
        BY <1>3, <4>1
      <4>3. At(d, q) \in {"/", ""}
        <5>1. q - 1 \in DOMAIN d
          BY <1>1, <4>1
        <5>2. ~StartsWord(d, q - 1)
          BY <4>2, <5>1 DEF Words
        <5>3. At(d, (q - 1) + 1) \in {"/", ""}
          BY <4>2, <5>2 DEF StartsWord
        <5> QED
          BY <4>1, <5>3
      <4>4. At(d, q) = d[q] /\ At(d, q) # ""
        BY <1>1, <2>1, CharAt
      <4> QED
        BY <4>3, <4>4
    <3> QED
      BY <3>1, <3>2
  <2> QED
    BY <1>3, <1>4, <1>5, <2>1, <2>2 DEF d
<1> QED
  BY <1>7, <1>8

(* ... so no pattern of a method matches it. *)
LEMMA NoPathOfMethod ==
    ASSUME NEW mth \in Methods, document_uri \in Uris,
           NEW key \in Seq(STRING), BeginsWith(key, Prefix[mth])
    PROVE  ~Fits(key, document_uri)
<1> DEFINE p == Cut(key)
           d == Cut(document_uri)
<1>1. /\ Prefix[mth] \in Seq(STRING) /\ IsPrefixOfMethod(Prefix[mth])
      /\ document_uri \in Seq(STRING) /\ document_uri # <<>>
      /\ document_uri[1] \in {"/", "%"}
  BY RouteAssumption DEF IsPath
<1>2. /\ 1 \in Words(p) /\ Number(p, 1) = 0 /\ 1 # CatchAll(p)
      /\ p[1] \notin {"/", ":", "%"}
  BY <1>1, MethodFirst
<1>3. p \in Seq(STRING) /\ Clean(p) /\ d \in Seq(STRING) /\ Clean(d)
  BY <1>1, CutIsClean
<1>4. CASE NumWords(d) = 0
  <2>1. Number(p, 1) < NumWords(p) /\ NumWords(p) \in Nat
    BY <1>2, <1>3, Numbers, WordsArePositions
  <2>2. ~(NumWords(d) = NumWords(p)) /\ ~(NumWords(d) >= NumWords(p))
    BY <1>2, <1>4, <2>1
  <2> QED
    BY <2>2 DEF Fits, Matches
<1>5. ASSUME NEW q \in Words(d), Number(d, q) = 0, d[q] \in {"/", "%"}
      PROVE  ~Fits(key, document_uri)
  <2>1. 1 \in 1 .. Len(p) /\ q \in 1 .. Len(d)
    BY <1>2, <1>3, WordsArePositions
  <2>2. Word(p, 1)[1] = p[1] /\ Word(d, q)[1] \in {"/", "%"}
    BY <1>2, <1>3, <1>5, <2>1, WordIs DEF Word
  <2>3. ~WordFits(Word(p, 1), Word(d, q), ValueSize)
    BY <1>2, <2>2 DEF WordFits
  <2> QED
    BY <1>2, <1>5, <2>3 DEF Fits, Matches
<1> QED
  BY <1>1, <1>4, <1>5, SlashFirst
-----------------------------------------------------------------------------
(* The line that patterns are tried with is the request's, or that of GET    *)
(* for HEAD.                                                                 *)
MayServe(mth) == mth = method \/ (method = "HEAD" /\ mth = "GET")

MethodInv ==
    /\ method \in Methods /\ document_uri \in Uris
    /\ at = "patterns" => \E mth \in Methods : MayServe(mth) /\ line = Line(mth)
    /\ RightMethod

LEMMA MethodInit == Init => MethodInv
  BY DEF Init, MethodInv, RightMethod, NoOne

LEMMA PrefixBegins ==
    ASSUME NEW mth \in Methods, NEW key \in Seq(STRING), IsPrefix(Prefix[mth], key)
    PROVE  BeginsWith(key, Prefix[mth])
<1> DEFINE a == Prefix[mth]
<1>1. a \in Seq(STRING)
  BY RouteAssumption
<1> HIDE DEF a
<1>2. Len(a) <= Len(key) /\ SubSeq(a, 1, Len(a)) = SubSeq(key, 1, Len(a))
  BY DEF IsPrefix, a
<1>3. Len(a) \in Nat /\ Len(key) \in Nat
  BY <1>1
<1>4. ASSUME NEW i \in 1 .. Len(a) PROVE key[i] = a[i]
  <2>1. SubSeq(a, 1, Len(a))[i] = a[i]
    BY <1>1, <1>3
  <2>2. SubSeq(key, 1, Len(a))[i] = key[i]
    BY <1>2, <1>3
  <2> QED
    BY <1>2, <2>1, <2>2
<1>5. BeginsWith(key, a)
  BY <1>2, <1>4 DEF BeginsWith
<1> QED
  BY <1>5 DEF a

LEMMA MethodNext == IterInv /\ MethodInv /\ [Next]_vars => MethodInv'
<1> SUFFICES ASSUME IterInv, MethodInv, [Next]_vars PROVE MethodInv'
  OBVIOUS
<1>1. UNCHANGED <<hdlr_hd, method, document_uri>>
  BY DEF Next, Files, TrailingSlash, Static, Autoindex, Redirect, Stage, Exact, Visit,
         PatternsDone, Default, Fallback, request, vars
<1>2. method \in Methods /\ document_uri \in Uris /\ "GET" \in Methods
  BY RouteAssumption DEF MethodInv
<1>3. \A key \in hdlr_hd : key \in Seq(STRING)
  BY RouteAssumption DEF IterInv, Iterating
(* A handler whose key is only that of methods it may serve. *)
<1>4. ASSUME NEW key, Serve([by |-> "handler", key |-> key]),
             \A mth \in Methods : IsPrefix(Prefix[mth], key) => MayServe(mth)
      PROVE  MethodInv'
  <2>1. at' = "done" /\ served' = [by |-> "handler", key |-> key]
    BY <1>4 DEF Serve
  <2>2. RightMethod'
    BY <1>1, <1>4, <2>1 DEF RightMethod, MayServe
  <2> QED
    BY <1>1, <1>2, <2>1, <2>2 DEF MethodInv
<1>5. ASSUME at' # "patterns", served' = served \/ served'.by # "handler"
      PROVE  MethodInv'
  <2>1. RightMethod'
    BY <1>1, <1>5 DEF RightMethod, MethodInv
  <2> QED
    BY <1>1, <1>2, <1>5, <2>1 DEF MethodInv
<1>6. ASSUME NEW mth \in Methods, StartPatterns(Line(mth)), MayServe(mth)
      PROVE  MethodInv'
  <2>1. line' = Line(mth) /\ Line(mth)' = Line(mth) /\ served' = served
    BY <1>1, <1>6 DEF StartPatterns, Line
  <2>2. MayServe(mth)'
    BY <1>1, <1>6 DEF MayServe
  <2>3. RightMethod'
    BY <1>1, <2>1 DEF RightMethod, MethodInv
  <2> QED
    BY <1>1, <1>2, <2>1, <2>2, <2>3 DEF MethodInv
<1>7. CASE Files
  BY <1>5, <1>7 DEF Files, TrailingSlash, Static, Autoindex, Redirect, Stage, Serve
<1>8. CASE Exact
  <2>1. CASE StartPatterns(Line(method))
    BY <1>2, <1>6, <2>1 DEF MayServe
  <2>2. ASSUME NEW i \in DOMAIN ExactKeys,
               Serve([by |-> "handler", key |-> ExactKeys[i]])
        PROVE  MethodInv'
    <3>1. \/ ExactKeys[i] = document_uri
          \/ \E mth \in Methods : MayServe(mth) /\ ExactKeys[i] = Line(mth)
      <4>1. CASE method = "HEAD"
        <5>1. ExactKeys = <<Line(method), Line("GET"), document_uri>>
          BY <4>1 DEF ExactKeys
        <5>2. i \in {1, 2, 3}
          BY <5>1
        <5>3. ExactKeys[i] \in {Line(method), Line("GET"), document_uri}
          BY <5>1, <5>2
        <5> QED
          BY <1>2, <4>1, <5>3 DEF MayServe
      <4>2. CASE method # "HEAD"
        <5>1. ExactKeys = <<Line(method), document_uri>>
          BY <4>2 DEF ExactKeys
        <5>2. i \in {1, 2}
          BY <5>1
        <5>3. ExactKeys[i] \in {Line(method), document_uri}
          BY <5>1, <5>2
        <5> QED
          BY <1>2, <5>3 DEF MayServe
      <4> QED
        BY <4>1, <4>2
    <3>2. ASSUME NEW mth \in Methods, IsPrefix(Prefix[mth], ExactKeys[i])
          PROVE  MayServe(mth)
      <4>1. CASE ExactKeys[i] = document_uri
        <5>1. document_uri \in Seq(STRING)
          BY <1>2, RouteAssumption
        <5>2. BeginsWith(document_uri, Prefix[mth])
          BY <3>2, <4>1, <5>1, PrefixBegins
        <5> QED
          BY <1>2, <5>2, PathOfNoMethod
      <4>2. ASSUME NEW who \in Methods, MayServe(who), ExactKeys[i] = Line(who)
            PROVE  MayServe(mth)
        <5>1. Line(who) \in Seq(STRING)
          BY <1>2, LineIs
        <5>2. BeginsWith(Line(who), Prefix[mth])
          BY <3>2, <4>2, <5>1, PrefixBegins
        <5>3. mth = who
          BY <1>2, <5>2, ExactOfMethod
        <5> QED
          BY <4>2, <5>3
      <4> QED
        BY <3>1, <4>1, <4>2
    <3> QED
      BY <1>4, <2>2, <3>2
  <2> QED
    BY <1>8, <2>1, <2>2 DEF Exact
<1>9. CASE Visit
  <2>1. at' = at /\ line' = line /\ served' = served
    BY <1>9 DEF Visit
  <2>2. \A mth : Line(mth)' = Line(mth) /\ (MayServe(mth)' <=> MayServe(mth))
    BY <1>1 DEF Line, MayServe
  <2>3. RightMethod'
    BY <1>1, <2>1 DEF RightMethod, MethodInv
  <2> QED
    BY <1>1, <2>1, <2>2, <2>3 DEF MethodInv
<1>10. CASE PatternsDone
  <2>1. at = "patterns"
    BY <1>10 DEF PatternsDone
  <2>2. PICK who \in Methods : MayServe(who) /\ line = Line(who)
    BY <2>1 DEF MethodInv
  <2>3. ASSUME NEW key \in best, Serve([by |-> "handler", key |-> key])
        PROVE  MethodInv'
    <3>1. key \in Seq(STRING) /\ (Fits(key, line) \/ Fits(key, document_uri))
      <4>1. key \in hdlr_hd /\ Candidate(key)
        BY <2>1 DEF IterInv, Iterating, BestKept
      <4> QED
        BY <1>3, <4>1 DEF Candidate
    <3>2. ASSUME NEW mth \in Methods, IsPrefix(Prefix[mth], key) PROVE MayServe(mth)
      <4>1. BeginsWith(key, Prefix[mth])
        BY <3>1, <3>2, PrefixBegins
      <4>2. ~Fits(key, document_uri)
        BY <1>2, <3>1, <4>1, NoPathOfMethod
      <4>3. Fits(key, Line(who))
        BY <2>2, <3>1, <4>2
      <4>4. mth = who
        BY <1>2, <3>1, <4>1, <4>3, PatternOfMethod
      <4> QED
        BY <2>2, <4>4
    <3> QED
      BY <1>4, <2>3, <3>2
  <2>4. CASE method = "HEAD" /\ StartPatterns(Line("GET"))
    BY <1>2, <1>6, <2>4 DEF MayServe
  <2>5. CASE at' = "default" /\ served' = served
    BY <1>5, <2>5
  <2> QED
    BY <1>10, <2>3, <2>4, <2>5 DEF PatternsDone
<1>11. CASE Default \/ Fallback
  <2>1. served' = served \/ served'.by # "handler"
    BY <1>11 DEF Default, Fallback
  <2>2. at' # "patterns"
    BY <1>11 DEF Default, Fallback
  <2> QED
    BY <1>5, <2>1, <2>2
<1>12. CASE UNCHANGED vars
  <2>1. \A mth : Line(mth)' = Line(mth) /\ (MayServe(mth)' <=> MayServe(mth))
    BY <1>1 DEF Line, MayServe
  <2> QED
    BY <1>12, <2>1 DEF MethodInv, RightMethod, vars, request
<1> QED
  BY <1>7, <1>8, <1>9, <1>10, <1>11, <1>12 DEF Next

(* No request is answered by the handler of another method, whatever the     *)
(* routes, the path and the order of iteration: a pattern's first word holds *)
(* the whole method, and the first word of a path is a slash.                *)
THEOREM MethodServes == Spec => []RightMethod
<1>1. MethodInv => RightMethod
  BY DEF MethodInv
<1> QED
  BY <1>1, IterInit, IterNext, MethodInit, MethodNext, PTL DEF Spec
=============================================================================
