----------------------------- MODULE TreeProofs -----------------------------
(***************************************************************************)
(* What the runs of any jobs do to the tree they share, for any paths,     *)
(* rules, published trees and failures.  The argument: whatever is put at  *)
(* a path is put into directories, whatever is taken away has nothing      *)
(* below it; and where two jobs reach the same path, the rules of one of   *)
(* them exclude it.                                                        *)
(***************************************************************************)
EXTENDS Tree, WellFoundedInduction, TLAPS

-----------------------------------------------------------------------------
(* The rules.                                                              *)

\* The agent's scan and the search for extra files do not descend into a directory that
\* a rule matches (scan.go, plan.go: SkipDir), the plan asks for each entry on its own.
\* Without "!" rules the two agree.

\* The first k segments of a path are those of the directory it goes through.
LEMMA SubSeqOfPath ==
  ASSUME NEW S, NEW segs \in Seq(S), NEW more \in Seq(S), NEW k \in 1 .. Len(segs)
  PROVE  SubSeq(segs \o more, 1, k) = SubSeq(segs, 1, k)
<1>1. /\ segs \o more \in Seq(S)
      /\ Len(segs \o more) = Len(segs) + Len(more)
      /\ \A i \in 1 .. Len(segs) : (segs \o more)[i] = segs[i]
  OBVIOUS
<1>2. \A i \in 1 .. k : SubSeq(segs \o more, 1, k)[i] = SubSeq(segs, 1, k)[i]
  BY <1>1
<1>3. /\ SubSeq(segs \o more, 1, k) \in Seq(S) /\ Len(SubSeq(segs \o more, 1, k)) = k
      /\ SubSeq(segs, 1, k) \in Seq(S) /\ Len(SubSeq(segs, 1, k)) = k
  BY <1>1
<1>4. QED
  BY <1>2, <1>3

\* A rule that matches a directory matches everything below it.
LEMMA RuleReachesBelow ==
  ASSUME NEW S, NEW segs \in Seq(S), NEW more \in Seq(S), more # <<>>,
         NEW r, NEW isDir \in BOOLEAN, matches(r, segs, TRUE)
  PROVE  matches(r, segs \o more, isDir)
<1>1. /\ Len(segs \o more) = Len(segs) + Len(more)
      /\ Len(segs) \in Nat /\ Len(more) \in Nat \ {0}
      /\ \A i \in 1 .. Len(segs) : (segs \o more)[i] = segs[i]
  OBVIOUS
<1>2. \A i \in 1 .. Len(segs) : i \in 1 .. Len(segs \o more) /\ i < Len(segs \o more)
  BY <1>1
<1>3. CASE r.anyDepth
  BY <1>1, <1>2, <1>3 DEF matches, MatchesName
<1>4. CASE ~r.anyDepth
  <2>1. PICK k \in 1 .. Len(segs) : matchSegments(r.segments, SubSeq(segs, 1, k))
    BY <1>4 DEF matches, MatchesAnchored
  <2>2. matchSegments(r.segments, SubSeq(segs \o more, 1, k))
    BY <2>1, SubSeqOfPath
  <2>3. QED
    BY <1>2, <1>4, <2>2 DEF matches, MatchesAnchored
<1>5. QED
  BY <1>3, <1>4

\* Without rules that take an exclusion back, what is below an excluded directory is
\* excluded: a walk that skips the directory passes over exactly what the plan, which
\* matches entry by entry, leaves out.
THEOREM PruningIsSound ==
  ASSUME NEW S, NEW segs \in Seq(S), NEW more \in Seq(S), more # <<>>,
         NEW R, NEW rules \in Seq(R), NEW isDir \in BOOLEAN,
         \A i \in DOMAIN rules : ~rules[i].negate,
         Match(rules, segs, TRUE)
  PROVE  Match(rules, segs \o more, isDir)
<1>1. PICK i \in DOMAIN rules : matches(rules[i], segs, TRUE)
  BY DEF Match
<1>2. matches(rules[i], segs \o more, isDir)
  BY <1>1, RuleReachesBelow
<1>3. \A n \in i + 1 .. Len(rules) : n \in DOMAIN rules
  OBVIOUS
<1>4. QED
  BY <1>2, <1>3 DEF Match

-----------------------------------------------------------------------------
(* The matcher.                                                            *)

\* Induction, as a least element: what fails for some number fails for a first one.
LEMMA LeastNat ==
  ASSUME NEW T, T \subseteq Nat, T # {}
  PROVE \E x \in T : \A y \in T : x <= y
<1>1. IsWellFoundedOn(OpToRel(<, Nat), Nat)
  BY NatLessThanWellFounded
<1>2. \E x \in T : \A y \in T : ~ (<<y, x>> \in OpToRel(<, Nat))
  BY <1>1, WFMin
<1>3. \E x \in T : \A y \in T : ~ (<<y, x>> \in {ss \in Nat \X Nat : ss[1] < ss[2]})
  BY <1>2 DEF OpToRel
<1>4. PICK x \in T : \A y \in T : ~ (<<y, x>> \in {ss \in Nat \X Nat : ss[1] < ss[2]})
  BY <1>3
<1>5. ASSUME NEW y \in T PROVE x <= y
  <2>1. <<y, x>> \in Nat \X Nat /\ <<y, x>>[1] = y /\ <<y, x>>[2] = x
    OBVIOUS
  <2>2. ~ (y < x)
    BY <1>4, <2>1
  <2> QED
    BY <2>2
<1> QED
  BY <1>5

\* The pattern from j on fits the path from c on; Fits is the case of 0 and 0.
FitsAfter(pat, segs, j, c) ==
  \E cut \in [j .. Len(pat) -> 0 .. Len(segs)] :
    /\ cut[j] = c /\ cut[Len(pat)] = Len(segs)
    /\ \A l \in j + 1 .. Len(pat) : PartFits(pat, segs, cut, l)

\* The right hand side of matchSegments' equation.
Places(pat, segs, g) ==
  [i \in 1 .. Len(pat) + 1 |->
        IF i > Len(pat) THEN {Len(segs) + 1}
        ELSE {k \in 1 .. Len(segs) + 1 :
                IF pat[i] = DoubleStar THEN \E n \in k .. Len(segs) + 1 : n \in g[i + 1]
                ELSE k <= Len(segs) /\ segs[k] \in pat[i] /\ k + 1 \in g[i + 1]}]

\* matchSegments is a solution of that equation, if it has one.
LEMMA MatcherAsChoice ==
  ASSUME NEW pat, NEW segs
  PROVE matchSegments(pat, segs) = (1 \in (CHOOSE g : g = Places(pat, segs, g))[1])
BY DEF matchSegments, Places

LEMMA MatcherSolves ==
  ASSUME NEW pat, NEW segs, NEW h, h = Places(pat, segs, h)
  PROVE \E g : g = Places(pat, segs, g) /\ (matchSegments(pat, segs) <=> 1 \in g[1])
<1> DEFINE g == CHOOSE g : g = Places(pat, segs, g)
<1>1. g = Places(pat, segs, g)
  OBVIOUS
<1>2. matchSegments(pat, segs) <=> 1 \in g[1]
  BY MatcherAsChoice
<1> QED BY <1>1, <1>2

\* What a solution says of one place.
LEMMA PlacesAt ==
  ASSUME NEW P, NEW S, NEW pat \in Seq(P), NEW segs \in Seq(S), NEW g, g = Places(pat, segs, g),
   NEW i \in 1 .. Len(pat) + 1, NEW k \in 1 .. Len(segs) + 1
  PROVE k \in g[i] <=> IF i > Len(pat) THEN k > Len(segs)
     ELSE IF pat[i] = DoubleStar THEN \E n \in k .. Len(segs) + 1 : n \in g[i + 1]
     ELSE k <= Len(segs) /\ segs[k] \in pat[i] /\ k + 1 \in g[i + 1]
<1>1. i \in 1 .. Len(pat) + 1 /\ Len(pat) \in Nat /\ Len(segs) \in Nat
  OBVIOUS
<1>2. g[i] = IF i > Len(pat) THEN {Len(segs) + 1}
        ELSE {n \in 1 .. Len(segs) + 1 :
                IF pat[i] = DoubleStar THEN \E m \in n .. Len(segs) + 1 : m \in g[i + 1]
                ELSE n <= Len(segs) /\ segs[n] \in pat[i] /\ n + 1 \in g[i + 1]}
  BY <1>1, Zenon DEF Places
<1>3. CASE i > Len(pat)
  BY <1>1, <1>2, <1>3
<1>4. CASE ~(i > Len(pat))
  BY <1>1, <1>2, <1>4
<1> QED
  BY <1>3, <1>4

\* The empty rest of a pattern fits the empty rest of a path only.
LEMMA FitsAtEnd ==
  ASSUME NEW P, NEW S, NEW pat \in Seq(P), NEW segs \in Seq(S), NEW c \in 0 .. Len(segs)
  PROVE FitsAfter(pat, segs, Len(pat), c) <=> c = Len(segs)
<1>1. Len(pat) \in Nat /\ Len(segs) \in Nat
  OBVIOUS
<1>2. ASSUME FitsAfter(pat, segs, Len(pat), c) PROVE c = Len(segs)
  BY <1>1, <1>2 DEF FitsAfter
<1>3. ASSUME c = Len(segs) PROVE FitsAfter(pat, segs, Len(pat), c)
  <2> DEFINE cut == [l \in Len(pat) .. Len(pat) |-> Len(segs)]
  <2>1. cut \in [Len(pat) .. Len(pat) -> 0 .. Len(segs)] /\ cut[Len(pat)] = Len(segs)
    BY <1>1
  <2>2. \A l \in Len(pat) + 1 .. Len(pat) : PartFits(pat, segs, cut, l)
    BY <1>1
  <2> QED
    BY <1>1, <1>3, <2>1, <2>2 DEF FitsAfter
<1> QED
  BY <1>2, <1>3

\* A cut for the pattern from i on is a place where i ends and a cut for what comes after.
LEMMA FitsFromNext ==
  ASSUME NEW P, NEW S, NEW pat \in Seq(P), NEW segs \in Seq(S),
   NEW i \in 1 .. Len(pat), NEW c \in 0 .. Len(segs)
  PROVE FitsAfter(pat, segs, i - 1, c) <=>
          \E n \in 0 .. Len(segs) :
            /\ FitsAfter(pat, segs, i, n)
            /\ IF pat[i] = DoubleStar THEN c <= n ELSE n = c + 1 /\ segs[n] \in pat[i]
<1>1. Len(pat) \in Nat /\ Len(segs) \in Nat /\ i \in Nat \ {0} /\ c \in Nat /\ i <= Len(pat)
  OBVIOUS
<1>2. ASSUME FitsAfter(pat, segs, i - 1, c)
      PROVE \E n \in 0 .. Len(segs) :
            /\ FitsAfter(pat, segs, i, n)
            /\ IF pat[i] = DoubleStar THEN c <= n ELSE n = c + 1 /\ segs[n] \in pat[i]
  <2>1. PICK cut \in [i - 1 .. Len(pat) -> 0 .. Len(segs)] :
    /\ cut[i - 1] = c /\ cut[Len(pat)] = Len(segs)
    /\ \A l \in i - 1 + 1 .. Len(pat) : PartFits(pat, segs, cut, l)
    BY <1>2 DEF FitsAfter
  <2> DEFINE n == cut[i]
             rest == [l \in i .. Len(pat) |-> cut[l]]
  <2>2. n \in 0 .. Len(segs)
    BY <1>1, <2>1
  <2>3. IF pat[i] = DoubleStar THEN c <= n ELSE n = c + 1 /\ segs[n] \in pat[i]
    <3>1. PartFits(pat, segs, cut, i)
      BY <1>1, <2>1
    <3> QED
      BY <1>1, <2>1, <3>1 DEF PartFits
  <2>4. FitsAfter(pat, segs, i, n)
    <3>1. rest \in [i .. Len(pat) -> 0 .. Len(segs)]
      BY <1>1, <2>1
    <3>2. rest[i] = n /\ rest[Len(pat)] = Len(segs)
      BY <1>1, <2>1
    <3>3. ASSUME NEW l \in i + 1 .. Len(pat) PROVE PartFits(pat, segs, rest, l)
      <4>1. rest[l] = cut[l] /\ rest[l - 1] = cut[l - 1]
        BY <1>1
      <4>2. PartFits(pat, segs, cut, l)
        BY <1>1, <2>1
      <4> QED
        BY <4>1, <4>2 DEF PartFits
    <3> HIDE DEF rest, n
    <3> QED
      BY <3>1, <3>2, <3>3 DEF FitsAfter
  <2> QED
    BY <2>2, <2>3, <2>4
<1>3. ASSUME NEW n \in 0 .. Len(segs), FitsAfter(pat, segs, i, n),
             IF pat[i] = DoubleStar THEN c <= n ELSE n = c + 1 /\ segs[n] \in pat[i]
      PROVE FitsAfter(pat, segs, i - 1, c)
  <2>1. PICK rest \in [i .. Len(pat) -> 0 .. Len(segs)] :
    /\ rest[i] = n /\ rest[Len(pat)] = Len(segs)
    /\ \A l \in i + 1 .. Len(pat) : PartFits(pat, segs, rest, l)
    BY <1>3 DEF FitsAfter
  <2> DEFINE cut == [l \in i - 1 .. Len(pat) |-> IF l = i - 1 THEN c ELSE rest[l]]
  <2>2. cut \in [i - 1 .. Len(pat) -> 0 .. Len(segs)]
    BY <1>1, <2>1
  <2>3. cut[i - 1] = c /\ cut[i] = n /\ cut[Len(pat)] = Len(segs)
    BY <1>1, <2>1
  <2>4. ASSUME NEW l \in i - 1 + 1 .. Len(pat) PROVE PartFits(pat, segs, cut, l)
    <3>1. CASE l = i
      BY <1>1, <1>3, <2>3, <3>1 DEF PartFits
    <3>2. CASE l # i
      <4>1. cut[l] = rest[l] /\ cut[l - 1] = rest[l - 1] /\ l \in i + 1 .. Len(pat)
        BY <1>1, <3>2
      <4> QED
        BY <2>1, <4>1 DEF PartFits
    <3> QED
      BY <3>1, <3>2
  <2> HIDE DEF cut
  <2> QED
    BY <2>2, <2>3, <2>4 DEF FitsAfter
<1> QED
  BY <1>2, <1>3

\* The equation has a solution: the places where the rest of the path fits.
LEMMA PlacesExist ==
  ASSUME NEW P, NEW S, NEW pat \in Seq(P), NEW segs \in Seq(S)
  PROVE \E h : h = Places(pat, segs, h)
<1> DEFINE Rest(i) == {k \in 1 .. Len(segs) + 1 : FitsAfter(pat, segs, i - 1, k - 1)}
           h == [i \in 1 .. Len(pat) + 1 |-> Rest(i)]
<1>1. Len(pat) \in Nat /\ Len(segs) \in Nat
  OBVIOUS
<1>2. ASSUME NEW i \in 1 .. Len(pat) + 1, i > Len(pat)
      PROVE  Rest(i) = {Len(segs) + 1}
  <2>1. i - 1 = Len(pat)
    BY <1>1, <1>2
  <2>2. ASSUME NEW k \in 1 .. Len(segs) + 1
        PROVE  FitsAfter(pat, segs, Len(pat), k - 1) <=> k = Len(segs) + 1
    <3>1. k - 1 \in 0 .. Len(segs) /\ (k - 1 = Len(segs) <=> k = Len(segs) + 1)
      BY <1>1
    <3> QED
      BY <3>1, FitsAtEnd
  <2>3. Len(segs) + 1 \in 1 .. Len(segs) + 1
    BY <1>1
  <2> QED
    BY <2>1, <2>2, <2>3
<1>3. ASSUME NEW i \in 1 .. Len(pat) + 1, ~(i > Len(pat))
      PROVE  Rest(i) = {k \in 1 .. Len(segs) + 1 :
                IF pat[i] = DoubleStar THEN \E n \in k .. Len(segs) + 1 : n \in h[i + 1]
                ELSE k <= Len(segs) /\ segs[k] \in pat[i] /\ k + 1 \in h[i + 1]}
  <2>1. i \in 1 .. Len(pat) /\ i + 1 \in 1 .. Len(pat) + 1 /\ i + 1 - 1 = i
    BY <1>1, <1>3
  <2>2. \A n : n \in h[i + 1] <=> n \in 1 .. Len(segs) + 1 /\ FitsAfter(pat, segs, i, n - 1)
    BY <2>1
  <2> HIDE DEF h
  <2>3. ASSUME NEW k \in 1 .. Len(segs) + 1
        PROVE  FitsAfter(pat, segs, i - 1, k - 1) <=>
                IF pat[i] = DoubleStar THEN \E n \in k .. Len(segs) + 1 : n \in h[i + 1]
                ELSE k <= Len(segs) /\ segs[k] \in pat[i] /\ k + 1 \in h[i + 1]
    <3>1. k - 1 \in 0 .. Len(segs)
      BY <1>1
    <3>2. FitsAfter(pat, segs, i - 1, k - 1) <=>
          \E n \in 0 .. Len(segs) :
            /\ FitsAfter(pat, segs, i, n)
            /\ IF pat[i] = DoubleStar THEN k - 1 <= n ELSE n = k - 1 + 1 /\ segs[n] \in pat[i]
      BY <2>1, <3>1, FitsFromNext
    <3>3. CASE pat[i] = DoubleStar
      <4>1. ASSUME NEW n \in 0 .. Len(segs), FitsAfter(pat, segs, i, n), k - 1 <= n
            PROVE  \E m \in k .. Len(segs) + 1 : m \in h[i + 1]
        <5>1. n + 1 \in k .. Len(segs) + 1 /\ n + 1 - 1 = n /\ n + 1 \in 1 .. Len(segs) + 1
          BY <1>1, <4>1
        <5>2. n + 1 \in h[i + 1]
          BY <2>2, <4>1, <5>1
        <5> QED
          BY <5>1, <5>2
      <4>2. ASSUME NEW m \in k .. Len(segs) + 1, m \in h[i + 1]
            PROVE  \E n \in 0 .. Len(segs) : FitsAfter(pat, segs, i, n) /\ k - 1 <= n
        <5>1. m - 1 \in 0 .. Len(segs) /\ k - 1 <= m - 1
          BY <1>1
        <5> QED
          BY <2>2, <4>2, <5>1
      <4> QED
        BY <3>2, <3>3, <4>1, <4>2
    <3>4. CASE pat[i] # DoubleStar
      <4>1. k - 1 + 1 = k /\ k + 1 - 1 = k
        BY <1>1
      <4>2. FitsAfter(pat, segs, i - 1, k - 1) <=>
              k \in 0 .. Len(segs) /\ FitsAfter(pat, segs, i, k) /\ segs[k] \in pat[i]
        BY <3>2, <3>4, <4>1
      <4>3. k + 1 \in h[i + 1] <=> k + 1 \in 1 .. Len(segs) + 1 /\ FitsAfter(pat, segs, i, k)
        BY <2>2, <4>1
      <4>4. (k \in 0 .. Len(segs) <=> k <= Len(segs)) /\ (k + 1 \in 1 .. Len(segs) + 1 <=> k <= Len(segs))
        BY <1>1
      <4> QED
        BY <3>4, <4>2, <4>3, <4>4
    <3> QED
      BY <3>3, <3>4
  <2> QED
    BY <2>3
<1>4. \A i \in 1 .. Len(pat) + 1 : h[i] =
        IF i > Len(pat) THEN {Len(segs) + 1}
        ELSE {k \in 1 .. Len(segs) + 1 :
                IF pat[i] = DoubleStar THEN \E n \in k .. Len(segs) + 1 : n \in h[i + 1]
                ELSE k <= Len(segs) /\ segs[k] \in pat[i] /\ k + 1 \in h[i + 1]}
  <2> SUFFICES ASSUME NEW i \in 1 .. Len(pat) + 1
               PROVE  h[i] = IF i > Len(pat) THEN {Len(segs) + 1}
                        ELSE {k \in 1 .. Len(segs) + 1 :
                                IF pat[i] = DoubleStar THEN \E n \in k .. Len(segs) + 1 : n \in h[i + 1]
                                ELSE k <= Len(segs) /\ segs[k] \in pat[i] /\ k + 1 \in h[i + 1]}
    OBVIOUS
  <2>1. h[i] = Rest(i)
    OBVIOUS
  <2> HIDE DEF h, Rest
  <2> QED
    BY <1>2, <1>3, <2>1
<1>5. h = [i \in 1 .. Len(pat) + 1 |-> h[i]]
  OBVIOUS
<1> HIDE DEF h
<1>6. h = Places(pat, segs, h)
  BY <1>4, <1>5 DEF Places
<1> QED
  BY <1>6

\* And it has no other: going back from the end of the pattern, a solution that differs
\* would differ somewhere first.
LEMMA PlacesFit ==
  ASSUME NEW P, NEW S, NEW pat \in Seq(P), NEW segs \in Seq(S),
    NEW g, g = Places(pat, segs, g)
  PROVE 1 \in g[1] <=> FitsAfter(pat, segs, 0, 0)
<1> DEFINE T == {n \in Nat : n <= Len(pat) /\ \E c \in 0 .. Len(segs) :
                   ~ (c + 1 \in g[Len(pat) + 1 - n] <=> FitsAfter(pat, segs, Len(pat) - n, c))}
<1>1. Len(pat) \in Nat /\ Len(segs) \in Nat
  OBVIOUS
<1>2. T = {}
  <2> SUFFICES ASSUME T # {} PROVE FALSE
    OBVIOUS
  <2>1. PICK n \in T : \A y \in T : n <= y
    <3>1. T \subseteq Nat
      OBVIOUS
    <3> HIDE DEF T
    <3> QED
      BY <3>1, LeastNat
  <2>2. n \in Nat /\ n <= Len(pat)
    OBVIOUS
  <2>3. PICK c \in 0 .. Len(segs) :
          ~ (c + 1 \in g[Len(pat) + 1 - n] <=> FitsAfter(pat, segs, Len(pat) - n, c))
    OBVIOUS
  <2>4. CASE n = 0
    <3>1. Len(pat) + 1 - n = Len(pat) + 1 /\ Len(pat) - n = Len(pat) /\ Len(pat) + 1 > Len(pat)
      BY <1>1, <2>4
    <3>2. Len(pat) + 1 \in 1 .. Len(pat) + 1 /\ c + 1 \in 1 .. Len(segs) + 1
      BY <1>1
    <3>3. c + 1 \in g[Len(pat) + 1] <=> c + 1 > Len(segs)
      BY <3>1, <3>2, PlacesAt
    <3>4. FitsAfter(pat, segs, Len(pat), c) <=> c = Len(segs)
      BY FitsAtEnd
    <3>5. c + 1 > Len(segs) <=> c = Len(segs)
      BY <1>1
    <3> QED
      BY <2>3, <3>1, <3>3, <3>4, <3>5
  <2>5. CASE n # 0
    <3> DEFINE i == Len(pat) + 1 - n
    <3>1. i \in 1 .. Len(pat) /\ n - 1 \in Nat /\ n - 1 <= Len(pat) /\ ~(i > Len(pat))
          /\ Len(pat) - n = i - 1 /\ Len(pat) + 1 - (n - 1) = i + 1 /\ Len(pat) - (n - 1) = i
          /\ i \in 1 .. Len(pat) + 1 /\ c + 1 \in 1 .. Len(segs) + 1 /\ ~(n <= n - 1)
      BY <1>1, <2>2, <2>5
    <3>2. n - 1 \notin T
      BY <2>1, <3>1
    <3>3. \A m \in 0 .. Len(segs) : m + 1 \in g[i + 1] <=> FitsAfter(pat, segs, i, m)
      BY <3>1, <3>2
    <3>4. c + 1 \in g[i] <=>
            IF pat[i] = DoubleStar THEN \E m \in c + 1 .. Len(segs) + 1 : m \in g[i + 1]
            ELSE c + 1 <= Len(segs) /\ segs[c + 1] \in pat[i] /\ c + 1 + 1 \in g[i + 1]
      <4> DEFINE k == c + 1
      <4>1. i \in 1 .. Len(pat) + 1 /\ k \in 1 .. Len(segs) + 1 /\ ~(i > Len(pat))
        BY <3>1
      <4> HIDE DEF T, i, k
      <4>2. k \in g[i] <=>
              IF pat[i] = DoubleStar THEN \E m \in k .. Len(segs) + 1 : m \in g[i + 1]
              ELSE k <= Len(segs) /\ segs[k] \in pat[i] /\ k + 1 \in g[i + 1]
        BY <4>1, PlacesAt
      <4> QED
        BY <4>2 DEF k
    <3>5. FitsAfter(pat, segs, i - 1, c) <=>
          \E m \in 0 .. Len(segs) :
            /\ FitsAfter(pat, segs, i, m)
            /\ IF pat[i] = DoubleStar THEN c <= m ELSE m = c + 1 /\ segs[m] \in pat[i]
      <4> HIDE DEF T, i
      <4> QED
        BY <3>1, FitsFromNext
    <3> HIDE DEF T, i
    <3>6. CASE pat[i] = DoubleStar
      <4>1. ASSUME NEW m \in 0 .. Len(segs), FitsAfter(pat, segs, i, m), c <= m
            PROVE  \E l \in c + 1 .. Len(segs) + 1 : l \in g[i + 1]
        <5>1. m + 1 \in c + 1 .. Len(segs) + 1
          BY <1>1, <4>1
        <5> QED
          BY <3>3, <4>1, <5>1
      <4>2. ASSUME NEW l \in c + 1 .. Len(segs) + 1, l \in g[i + 1]
            PROVE  \E m \in 0 .. Len(segs) : FitsAfter(pat, segs, i, m) /\ c <= m
        <5>1. l - 1 \in 0 .. Len(segs) /\ c <= l - 1 /\ l - 1 + 1 = l
          BY <1>1
        <5> QED
          BY <3>3, <4>2, <5>1
      <4>3. FitsAfter(pat, segs, i - 1, c) <=> c + 1 \in g[i]
        BY <3>4, <3>5, <3>6, <4>1, <4>2
      <4> QED
        BY <2>3, <3>1, <4>3 DEF i
    <3>7. CASE pat[i] # DoubleStar
      <4>1. FitsAfter(pat, segs, i - 1, c) <=>
              c + 1 \in 0 .. Len(segs) /\ FitsAfter(pat, segs, i, c + 1) /\ segs[c + 1] \in pat[i]
        BY <3>5, <3>7
      <4>2. c + 1 \in 0 .. Len(segs) <=> c + 1 <= Len(segs)
        BY <1>1
      <4>3. c + 1 \in 0 .. Len(segs) => (c + 1 + 1 \in g[i + 1] <=> FitsAfter(pat, segs, i, c + 1))
        BY <3>3
      <4>4. FitsAfter(pat, segs, i - 1, c) <=> c + 1 \in g[i]
        BY <3>4, <3>7, <4>1, <4>2, <4>3
      <4> QED
        BY <2>3, <3>1, <4>4 DEF i
    <3> QED
      BY <3>6, <3>7
  <2> QED
    BY <2>4, <2>5
<1>3. Len(pat) + 1 - Len(pat) = 1 /\ Len(pat) - Len(pat) = 0 /\ 0 + 1 = 1 /\ 0 \in 0 .. Len(segs)
      /\ Len(pat) <= Len(pat)
  BY <1>1
<1> QED
  BY <1>1, <1>2, <1>3

\* The matcher is right for every pattern and every path: however it tries what "**"
\* takes, it finds a cut of the path into the parts the pattern asks for, if there is one.
THEOREM MatcherMeansRules ==
  ASSUME NEW P, NEW S, NEW pat \in Seq(P), NEW segs \in Seq(S)
  PROVE  matchSegments(pat, segs) <=> Fits(pat, segs)
<1>1. PICK h : h = Places(pat, segs, h)
  BY PlacesExist
<1>2. PICK g : g = Places(pat, segs, g) /\ (matchSegments(pat, segs) <=> 1 \in g[1])
  BY <1>1, MatcherSolves
<1>3. FitsAfter(pat, segs, 0, 0) <=> Fits(pat, segs)
  BY DEF FitsAfter, Fits
<1> QED
  BY <1>2, <1>3, PlacesFit

-----------------------------------------------------------------------------
(* Paths.                                                                  *)

LEMMA PathsAre ==
  /\ \A p \in Paths : /\ p \in Seq(Names) /\ p # <<>> /\ Len(p) \in Nat \ {0}
                      /\ \A n \in 1 .. Len(p) : SubSeq(p, 1, n) \in Paths
  /\ <<>> \notin Paths
BY TreeAssumption

\* A prefix of a prefix is a prefix.
LEMMA PrefixOfPrefix ==
  ASSUME NEW S, NEW q \in Seq(S), NEW m \in 0 .. Len(q), NEW n \in 0 .. m
  PROVE  /\ SubSeq(q, 1, m) \in Seq(S) /\ Len(SubSeq(q, 1, m)) = m
         /\ SubSeq(SubSeq(q, 1, m), 1, n) = SubSeq(q, 1, n)
<1>1. /\ SubSeq(q, 1, m) \in Seq(S) /\ Len(SubSeq(q, 1, m)) = m
      /\ \A i \in 1 .. m : SubSeq(q, 1, m)[i] = q[i]
  OBVIOUS
<1>2. /\ SubSeq(q, 1, n) \in Seq(S) /\ Len(SubSeq(q, 1, n)) = n
      /\ \A i \in 1 .. n : SubSeq(q, 1, n)[i] = q[i]
  OBVIOUS
<1>3. /\ SubSeq(SubSeq(q, 1, m), 1, n) \in Seq(S) /\ Len(SubSeq(SubSeq(q, 1, m), 1, n)) = n
      /\ \A i \in 1 .. n : SubSeq(SubSeq(q, 1, m), 1, n)[i] = SubSeq(q, 1, m)[i]
  BY <1>1
<1> QED
  BY <1>1, <1>2, <1>3

\* What is above something above a path is above it.
LEMMA AboveIsTransitive ==
  ASSUME NEW a \in Paths, NEW b \in Paths, NEW c \in Paths, Above(a, b), AtOrAbove(b, c)
  PROVE  Above(a, c)
<1>1. CASE b = c
  BY <1>1
<1>2. CASE Above(b, c)
  <2>1. /\ c \in Seq(Names) /\ Len(a) \in Nat /\ Len(b) \in Nat /\ Len(c) \in Nat
        /\ Len(a) < Len(b) /\ Len(b) < Len(c)
        /\ SubSeq(b, 1, Len(a)) = a /\ SubSeq(c, 1, Len(b)) = b
    BY <1>2, PathsAre DEF Above
  <2>2. SubSeq(SubSeq(c, 1, Len(b)), 1, Len(a)) = SubSeq(c, 1, Len(a))
    BY <2>1, PrefixOfPrefix
  <2> QED
    BY <2>1, <2>2 DEF Above
<1> QED
  BY <1>1, <1>2 DEF AtOrAbove

\* What is above a path is at or above its directory, and the other way round.
LEMMA AboveIsAtOrAboveUp ==
  ASSUME NEW a \in Paths, NEW p \in Paths
  PROVE  /\ Above(a, p) <=> AtOrAbove(a, Up(p))
         /\ Up(p) \in Paths \cup {<<>>}
         /\ ~ AtOrAbove(p, Up(p))
<1>1. /\ p \in Seq(Names) /\ Len(a) \in Nat \ {0} /\ Len(p) \in Nat \ {0}
      /\ a \in Seq(Names) /\ SubSeq(a, 1, Len(a)) = a
  BY PathsAre
<1>2. /\ Len(Up(p)) = Len(p) - 1
      /\ \A n \in 0 .. Len(p) - 1 : SubSeq(Up(p), 1, n) = SubSeq(p, 1, n)
  <2> DEFINE m == Len(p) - 1
  <2>1. m \in 0 .. Len(p) /\ Up(p) = SubSeq(p, 1, m)
    BY <1>1 DEF Up
  <2> HIDE DEF m
  <2>2. ASSUME NEW n \in 0 .. m
        PROVE  Len(SubSeq(p, 1, m)) = m /\ SubSeq(SubSeq(p, 1, m), 1, n) = SubSeq(p, 1, n)
    BY <1>1, <2>1, PrefixOfPrefix
  <2>3. Len(SubSeq(p, 1, m)) = m
    BY <1>1, <2>1
  <2> QED
    BY <2>1, <2>2, <2>3 DEF m
<1>3. ASSUME Above(a, p) PROVE AtOrAbove(a, Up(p))
  <2>1. Len(a) <= Len(p) - 1 /\ SubSeq(p, 1, Len(a)) = a
    BY <1>1, <1>3 DEF Above
  <2>2. CASE Len(a) = Len(p) - 1
    BY <2>1, <2>2 DEF AtOrAbove, Up
  <2>3. CASE Len(a) < Len(p) - 1
    <3>1. SubSeq(Up(p), 1, Len(a)) = a
      BY <1>1, <1>2, <2>1
    <3> QED
      BY <1>2, <2>3, <3>1 DEF AtOrAbove, Above
  <2> QED
    BY <1>1, <2>1, <2>2, <2>3
<1>4. ASSUME AtOrAbove(a, Up(p)) PROVE Above(a, p)
  <2>1. CASE a = Up(p)
    BY <1>1, <1>2, <2>1 DEF Above, Up
  <2>2. CASE Above(a, Up(p))
    <3>1. Len(a) < Len(p) - 1 /\ SubSeq(Up(p), 1, Len(a)) = a
      BY <1>2, <2>2 DEF Above
    <3>2. SubSeq(p, 1, Len(a)) = a
      BY <1>1, <1>2, <3>1
    <3> QED
      BY <1>1, <3>1, <3>2 DEF Above
  <2> QED
    BY <1>4, <2>1, <2>2 DEF AtOrAbove
<1>5. Up(p) \in Paths \cup {<<>>}
  BY <1>1, PathsAre DEF Up
<1>6. ~ AtOrAbove(p, Up(p))
  BY <1>1, <1>2 DEF Above, AtOrAbove
<1> QED
  BY <1>3, <1>4, <1>5, <1>6

\* Between a path and one above it is one in between, or itself.
LEMMA ChildBetween ==
  ASSUME NEW p \in Paths, NEW q \in Paths, Above(p, q)
  PROVE  \E c \in Paths : Up(c) = p /\ AtOrAbove(c, q)
<1> DEFINE c == SubSeq(q, 1, Len(p) + 1)
<1>1. /\ q \in Seq(Names) /\ Len(p) \in Nat \ {0} /\ Len(q) \in Nat
      /\ Len(p) < Len(q) /\ SubSeq(q, 1, Len(p)) = p
  BY PathsAre DEF Above
<1>2. c \in Paths
  BY <1>1, PathsAre
<1>3. Len(c) = Len(p) + 1 /\ Up(c) = SubSeq(q, 1, Len(p))
  BY <1>1, PrefixOfPrefix DEF Up
<1>4. AtOrAbove(c, q)
  <2>1. CASE Len(q) = Len(p) + 1
    BY <1>1, <2>1 DEF AtOrAbove
  <2>2. CASE Len(q) > Len(p) + 1
    BY <1>1, <1>3, <2>2 DEF AtOrAbove, Above
  <2> QED
    BY <1>1, <2>1, <2>2
<1> QED
  BY <1>1, <1>2, <1>3, <1>4

-----------------------------------------------------------------------------
(* The tree.                                                               *)

Childless(p) == \A q \in Paths : Above(p, q) => local[q] = None

\* What can be taken away has nothing below it.
LEMMA ClearIsChildless ==
  ASSUME WellFormed(local), NEW p \in Paths, local[p] # Dir \/ Bare(p)
  PROVE  Childless(p)
<1> SUFFICES ASSUME NEW q \in Paths, Above(p, q), local[q] # None PROVE FALSE
  BY DEF Childless
<1>1. local[p] = Dir
  BY DEF WellFormed
<1>2. PICK c \in Paths : Up(c) = p /\ AtOrAbove(c, q)
  BY ChildBetween
<1>3. local[c] = None
  BY <1>1, <1>2 DEF Bare
<1>4. c # q /\ Above(c, q)
  BY <1>2, <1>3 DEF AtOrAbove
<1>5. local[c] = Dir
  BY <1>4 DEF WellFormed
<1> QED
  BY <1>3, <1>5, TreeAssumption

\* MkdirAll turns nothing but empty places into directories.
LEMMA MkdirAllGrows ==
  ASSUME local \in [Paths -> Kinds], WellFormed(local), NEW d \in Paths \cup {<<>>}, ~ Blocked(d)
  PROVE  /\ MkdirAll(d) \in [Paths -> Kinds] /\ WellFormed(MkdirAll(d))
         /\ \A q \in Paths : \/ MkdirAll(d)[q] = local[q]
                             \/ local[q] = None /\ MkdirAll(d)[q] = Dir /\ AtOrAbove(q, d)
<1>1. MkdirAll(d) \in [Paths -> Kinds]
  BY DEF MkdirAll, Kinds
<1>2. \A q \in Paths : \/ MkdirAll(d)[q] = local[q]
                       \/ local[q] = None /\ MkdirAll(d)[q] = Dir /\ AtOrAbove(q, d)
  BY DEF MkdirAll, Blocked, Kinds, AnyLink
<1>3. ASSUME NEW p \in Paths, NEW q \in Paths, Above(p, q), MkdirAll(d)[q] # None
      PROVE  MkdirAll(d)[p] = Dir
  <2>1. CASE AtOrAbove(q, d)
    <3>1. d \in Paths
      BY <2>1, PathsAre DEF AtOrAbove, Above
    <3>2. AtOrAbove(p, d)
      BY <1>3, <2>1, <3>1, AboveIsTransitive DEF AtOrAbove
    <3> QED
      BY <3>2 DEF MkdirAll
  <2>2. CASE ~ AtOrAbove(q, d)
    <3>1. local[p] = Dir
      BY <1>3, <2>2 DEF WellFormed, MkdirAll
    <3> QED
      BY <3>1 DEF MkdirAll
  <2> QED
    BY <2>1, <2>2
<1> QED
  BY <1>1, <1>2, <1>3 DEF WellFormed

\* Changes of the tree: directories are made, something is taken away, or something is
\* put into a directory, where there is no directory.
LEMMA TakenTree ==
  ASSUME WellFormed(local), local \in [Paths -> Kinds], NEW p \in Paths, Childless(p),
         local' = [local EXCEPT ![p] = None]
  PROVE  local' \in [Paths -> Kinds] /\ WellFormed(local')
<1>1. local' \in [Paths -> Kinds]
  BY DEF Kinds
<1>2. \A a, b \in Paths : Above(a, b) /\ local'[b] # None => local'[a] = Dir
  BY DEF Childless, WellFormed
<1> QED
  BY <1>1, <1>2 DEF WellFormed

LEMMA PutTree ==
  ASSUME local \in [Paths -> Kinds], WellFormed(local), NEW p \in Paths, Childless(p),
         ~ Blocked(Up(p)), NEW k \in {None, File, Other} \cup AnyLink,
         local' = [MkdirAll(Up(p)) EXCEPT ![p] = k]
  PROVE  /\ local' \in [Paths -> Kinds] /\ WellFormed(local')
         /\ local'[p] = k
         /\ \A q \in Paths \ {p} : \/ local'[q] = local[q]
                                   \/ local[q] = None /\ local'[q] = Dir
<1>0. Up(p) \in Paths \cup {<<>>}
  BY AboveIsAtOrAboveUp
<1>1. /\ MkdirAll(Up(p)) \in [Paths -> Kinds] /\ WellFormed(MkdirAll(Up(p)))
      /\ \A q \in Paths : \/ MkdirAll(Up(p))[q] = local[q]
                          \/ /\ local[q] = None /\ MkdirAll(Up(p))[q] = Dir
                             /\ AtOrAbove(q, Up(p))
  BY <1>0, MkdirAllGrows
<1>2. local' \in [Paths -> Kinds] /\ local'[p] = k
      /\ \A q \in Paths \ {p} : local'[q] = MkdirAll(Up(p))[q]
  BY <1>1 DEF Kinds, AnyLink
<1>3. ASSUME NEW a \in Paths, NEW b \in Paths, Above(a, b), local'[b] # None
      PROVE  local'[a] = Dir
  <2>1. CASE b = p
    <3>1. AtOrAbove(a, Up(p)) /\ a # p
      BY <1>3, <2>1, AboveIsAtOrAboveUp
    <3> QED
      BY <1>2, <3>1 DEF MkdirAll
  <2>2. CASE b # p
    <3>1. MkdirAll(Up(p))[b] # None
      BY <1>2, <1>3, <2>2
    <3>2. MkdirAll(Up(p))[a] = Dir
      BY <1>1, <1>3, <3>1 DEF WellFormed
    <3>3. a # p
      <4>1. CASE local[b] = None
        <5>1. AtOrAbove(b, Up(p))
          BY <1>1, <3>1, <4>1
        <5>2. Above(b, p)
          BY <5>1, AboveIsAtOrAboveUp
        <5>3. a = p => Above(p, p)
          BY <1>3, <5>2, AboveIsTransitive DEF AtOrAbove
        <5> QED
          BY <5>3, PathsAre DEF Above
      <4>2. CASE local[b] # None
        BY <1>3, <4>2 DEF Childless
      <4> QED
        BY <4>1, <4>2
    <3> QED
      BY <1>2, <3>2, <3>3
  <2> QED
    BY <2>1, <2>2
<1> QED
  BY <1>1, <1>2, <1>3 DEF WellFormed

\* A file is renamed into a directory that is there.
LEMMA InstalledTree ==
  ASSUME local \in [Paths -> Kinds], WellFormed(local), NEW p \in Paths, IsDir(Up(p)),
         local[p] # Dir, NEW k \in Kinds, local' = [local EXCEPT ![p] = k]
  PROVE  local' \in [Paths -> Kinds] /\ WellFormed(local')
<1>1. Childless(p)
  BY ClearIsChildless
<1>2. \A a \in Paths : Above(a, p) => local[a] = Dir
  <2> SUFFICES ASSUME NEW a \in Paths, Above(a, p) PROVE local[a] = Dir
    OBVIOUS
  <2>1. AtOrAbove(a, Up(p)) /\ Up(p) \in Paths \cup {<<>>}
    BY AboveIsAtOrAboveUp
  <2>2. Up(p) \in Paths /\ local[Up(p)] = Dir
    BY <2>1, PathsAre DEF IsDir, AtOrAbove, Above
  <2> QED
    BY <2>1, <2>2, TreeAssumption DEF AtOrAbove, WellFormed
<1>3. local' \in [Paths -> Kinds]
  OBVIOUS
<1>4. \A a, b \in Paths : Above(a, b) /\ local'[b] # None => local'[a] = Dir
  <2> SUFFICES ASSUME NEW a \in Paths, NEW b \in Paths, Above(a, b), local'[b] # None
               PROVE  local'[a] = Dir
    OBVIOUS
  <2>1. CASE b = p
    <3>1. a # p
      BY <2>1, PathsAre DEF Above
    <3> QED
      BY <1>2, <2>1, <3>1
  <2>2. CASE b # p
    <3>1. local[b] # None /\ a # p
      BY <1>1, <2>2 DEF Childless
    <3> QED
      BY <3>1 DEF WellFormed
  <2> QED
    BY <2>1, <2>2
<1> QED
  BY <1>3, <1>4 DEF WellFormed

-----------------------------------------------------------------------------
(* The runs.                                                               *)

\* Where the run of job j is, and what is left of its plan then.
Phases(j) ==
  /\ pc[j] \in {"open", "write"} <=> at[j] # Nowhere
  /\ pc[j] # "dirs" => dirs[j] = {}
  /\ pc[j] \in {"idle", "plan", "fetch", "open", "write", "remove", "sweep", "end"} => links[j] = {}
  /\ pc[j] \in {"idle", "plan", "remove", "sweep", "end"} => queue[j] = {}
  /\ pc[j] \in {"idle", "plan"} => extras[j] = {}
  /\ pc[j] # "sweep" => sweep[j] = {}
  /\ pc[j] = "remove" => Mirror[j]

\* What is left of the plan of job j is wanted, or an extra, by its manifest.
Planned(j) ==
  /\ \A p \in dirs[j] : p \in Wanted(j) /\ man[j][p] = Dir
  /\ \A p \in links[j] : p \in Wanted(j) /\ man[j][p] = Link
  /\ \A p \in queue[j] : p \in Wanted(j) /\ man[j][p] = File
  /\ at[j] # Nowhere => at[j] \in Wanted(j) /\ man[j][at[j]] = File
  /\ \A p \in extras[j] :
       p \in Below(j) /\ ~Pruned(j, p) /\ ~Excluded(j, p, FALSE) /\ man[j][p] = None
  /\ \A p \in sweep[j] : p = Base[j] \/ p \in Below(j)

\* The manifest is what the agent has, while nothing is published.
Listed(j) == pc[j] # "idle" /\ edits = 0 => man[j] = agent[j]

Staging ==
  /\ \A j \in Jobs : staged[j] => IsDir(Up(at[j]))
  /\ \A d \in debris : IsDir(d)

TreeInductive ==
  /\ TypeOK /\ WellFormed(local) /\ Staging /\ edits \in Nat
  /\ \A j \in Jobs : Phases(j) /\ Planned(j) /\ Listed(j)

\* Types, one by one.
JobTypes ==
  /\ agent \in [Jobs -> [Paths -> Kinds]] /\ man \in [Jobs -> [Paths -> Kinds]]
  /\ local \in [Paths -> Kinds] /\ debris \subseteq Paths \cup {<<>>}
  /\ pc \in [Jobs -> {"idle", "plan", "dirs", "links", "fetch", "open", "write",
                      "remove", "sweep", "end"}]
  /\ dirs \in [Jobs -> SUBSET Paths] /\ links \in [Jobs -> SUBSET Paths]
  /\ queue \in [Jobs -> SUBSET Paths] /\ extras \in [Jobs -> SUBSET Paths]
  /\ sweep \in [Jobs -> SUBSET (Paths \cup {<<>>})]
  /\ at \in [Jobs -> Paths \cup {Nowhere}]
  /\ staged \in [Jobs -> BOOLEAN] /\ errors \in [Jobs -> BOOLEAN] /\ deleted \in [Jobs -> BOOLEAN]
  /\ cancelled \in [Jobs -> BOOLEAN]

LEMMA TypesAre == TypeOK <=> JobTypes /\ \A j \in Jobs : staged[j] => pc[j] = "write"
BY DEF TypeOK, JobTypes

LEMMA KindsDiffer ==
  /\ None \notin {File, Other, Link, Alias, Dir} /\ File \notin {Other, Link, Alias, Dir}
  /\ Other \notin {Link, Alias, Dir} /\ Link \notin {Alias, Dir} /\ Alias # Dir
  /\ {None, File, Other, Link, Alias, Dir} = Kinds
  /\ AnyLink = {Link, Alias} /\ UpToDate = {File, Alias} /\ Nowhere \notin Paths
  /\ \A j \in Jobs : Base[j] \in Paths \cup {<<>>}
  /\ \A j \in Jobs : Below(j) \subseteq Paths
BY TreeAssumption DEF Kinds, AnyLink, UpToDate, Below

\* A step of job j leaves the runs of the others alone, but for their staging files.
LEMMA OtherJobsStay ==
  ASSUME JobTypes, NEW j \in Jobs, Step(j) \/ Crash(j) \/ Cancel(j) \/ Publish(j),
        NEW i \in Jobs \ {j}
  PROVE  /\ pc'[i] = pc[i] /\ man'[i] = man[i] /\ agent'[i] = agent[i]
         /\ dirs'[i] = dirs[i] /\ links'[i] = links[i] /\ queue'[i] = queue[i]
         /\ extras'[i] = extras[i] /\ sweep'[i] = sweep[i] /\ at'[i] = at[i]
         /\ errors'[i] = errors[i] /\ cancelled'[i] = cancelled[i] /\ (staged'[i] => staged[i])
<1> USE DEF JobTypes, planVars, workVars, boundVars, diskVars
<1>1. CASE Begin(j) \/ Plan(j) \/ Advance(j)
  BY <1>1 DEF Begin, Plan, Advance
<1>2. ASSUME NEW p \in Paths, MakeDir(j, p) \/ MakeLink(j, p) \/ Stage(j, p) \/ RemoveExtra(j, p)
      PROVE  /\ pc'[i] = pc[i] /\ man'[i] = man[i] /\ agent'[i] = agent[i]
             /\ dirs'[i] = dirs[i] /\ links'[i] = links[i] /\ queue'[i] = queue[i]
             /\ extras'[i] = extras[i] /\ sweep'[i] = sweep[i] /\ at'[i] = at[i]
             /\ errors'[i] = errors[i] /\ cancelled'[i] = cancelled[i] /\ (staged'[i] => staged[i])
  BY <1>2 DEF MakeDir, MakeLink, Stage, RemoveExtra
<1>3. CASE OpenStaging(j) \/ Retry(j) \/ Install(j) \/ DownloadFails(j)
  BY <1>3 DEF OpenStaging, Retry, Install, DownloadFails
<1>4. CASE EndRemove(j) \/ EndSweep(j) \/ Finish(j)
  BY <1>4 DEF EndRemove, EndSweep, Finish
<1>5. ASSUME NEW d \in Paths \cup {<<>>}, SweepDir(j, d)
      PROVE  /\ pc'[i] = pc[i] /\ man'[i] = man[i] /\ agent'[i] = agent[i]
             /\ dirs'[i] = dirs[i] /\ links'[i] = links[i] /\ queue'[i] = queue[i]
             /\ extras'[i] = extras[i] /\ sweep'[i] = sweep[i] /\ at'[i] = at[i]
             /\ errors'[i] = errors[i] /\ cancelled'[i] = cancelled[i] /\ (staged'[i] => staged[i])
  BY <1>5 DEF SweepDir
<1>6. CASE Crash(j) \/ Cancel(j) \/ Publish(j)
  BY <1>6 DEF Crash, Cancel, Publish
<1> QED
  BY <1>1, <1>2, <1>3, <1>4, <1>5, <1>6 DEF Step

\* Job j has brought what it wants, but for what is still to do, unless it met an error or
\* was cancelled.
Served(j) ==
  pc[j] \notin {"idle", "plan"} /\ ~errors[j] /\ ~cancelled[j] =>
    \A p \in Wanted(j) :
      /\ man[j][p] = File => p \in queue[j] \/ p = at[j] \/ local[p] \in UpToDate
      /\ man[j][p] = Link /\ Symlinks[j] => p \in links[j] \/ local[p] \in AnyLink

\* An extra file does not become a link before its job removes it.
FileExtras(j) == \A p \in extras[j] : local[p] \notin AnyLink

RunsApart == \A j \in Jobs : Served(j) /\ FileExtras(j)

-----------------------------------------------------------------------------
(* One step: the tree.                                                     *)

\* What a step of job j may do at path p: make a directory, take away a bare one, or one
\* of the things its plan has for p.
Change(j, p) ==
  \/ local[p] = None /\ local'[p] = Dir
  \/ /\ local[p] = Dir /\ Bare(p) /\ p \in Below(j) /\ man[j][p] # Dir
     /\ local'[p] = None \/ (local'[p] \in AnyLink /\ p \in links[j])
  \/ /\ local[p] # Dir /\ p \in links[j]
     /\ local'[p] \in AnyLink \/ (local'[p] = None /\ errors'[j])
  \/ local[p] # Dir /\ p = at[j] /\ local'[p] = File
  \/ /\ local[p] \notin {None, Dir} /\ p \in extras[j] /\ pc[j] = "remove" /\ Mirror[j]
     /\ local'[p] = None

\* What is at path p stays of one of the kinds K.
Kept(p, K) == local[p] \in K => local'[p] \in K

Changes(j) == \A p \in Paths : local'[p] = local[p] \/ Change(j, p)

TreeKept(j) == JobTypes' /\ WellFormed(local') /\ Staging' /\ Changes(j)

\* Staging files stay in directories if no directory goes that holds one.
LEMMA StagingStays ==
  ASSUME JobTypes, JobTypes', Staging,
         \A i \in Jobs : staged'[i] => \/ staged[i] /\ at'[i] = at[i]
                                       \/ IsDir(Up(at'[i])) /\ local' = local,
         debris' \subseteq debris,
         \A d \in Paths : local[d] = Dir /\ local'[d] # Dir =>
           d \notin debris' /\ \A i \in Jobs : staged'[i] => Up(at'[i]) # d
  PROVE  Staging'
<1>1. ASSUME NEW i \in Jobs, staged'[i] PROVE IsDir(Up(at[i]))'
  BY <1>1 DEF Staging, IsDir
<1>2. ASSUME NEW d \in debris' PROVE IsDir(d)'
  BY <1>2 DEF Staging, IsDir
<1> QED
  BY <1>1, <1>2 DEF Staging, IsDir

LEMMA BeginTree ==
  ASSUME TreeInductive, NEW j \in Jobs, Begin(j)
  PROVE  TreeKept(j)
<1> USE DEF planVars, boundVars
<1>1. JobTypes /\ WellFormed(local) /\ Staging /\ Base[j] \in Paths \cup {<<>>}
  BY TypesAre, KindsDiffer DEF TreeInductive
<1>2. /\ local' \in [Paths -> Kinds] /\ WellFormed(local')
      /\ \A q \in Paths : local'[q] = local[q] \/ (local[q] = None /\ local'[q] = Dir)
  <2>1. local' = MkdirAll(Base[j]) /\ ~ Blocked(Base[j])
    BY DEF Begin
  <2>2. /\ MkdirAll(Base[j]) \in [Paths -> Kinds] /\ WellFormed(MkdirAll(Base[j]))
        /\ \A q \in Paths : \/ MkdirAll(Base[j])[q] = local[q]
                            \/ local[q] = None /\ MkdirAll(Base[j])[q] = Dir
    BY <1>1, <2>1, MkdirAllGrows DEF JobTypes
  <2> QED
    BY <2>1, <2>2
<1>3. man' \in [Jobs -> [Paths -> Kinds]]
  <2>1. PICK m \in Manifests(j) : man' = [man EXCEPT ![j] = m.tree]
    BY DEF Begin
  <2>2. m.tree \in [Paths -> Kinds]
    BY <1>1 DEF Manifests, JobTypes, Kinds
  <2> QED
    BY <1>1, <2>1, <2>2 DEF JobTypes
<1>4. JobTypes'
  BY <1>1, <1>2, <1>3 DEF Begin, JobTypes
<1>5. Staging'
  BY <1>1, <1>2, <1>4, StagingStays, KindsDiffer DEF Begin
<1>6. Changes(j)
  BY <1>2 DEF Changes, Change
<1> QED
  BY <1>2, <1>4, <1>5, <1>6 DEF TreeKept

LEMMA PlanTree ==
  ASSUME TreeInductive, NEW j \in Jobs, Plan(j)
  PROVE  TreeKept(j)
<1> USE DEF planVars, workVars, boundVars
<1>1. JobTypes /\ WellFormed(local) /\ Staging
  BY TypesAre DEF TreeInductive
<1>2. Wanted(j) \subseteq Paths /\ Extras(j) \subseteq Paths
  BY KindsDiffer DEF Wanted, Extras
<1>3. local' = local /\ debris' \subseteq debris /\ at' = at /\ staged' = staged
  BY DEF Plan
<1>4. JobTypes'
  <2>1. CASE IsDir(Base[j])
    <3>1. dirs' \in [Jobs -> SUBSET Paths]
      <4> DEFINE D == {p \in Wanted(j) : man[j][p] = Dir /\ local[p] # Dir}
      <4>1. D \in SUBSET Paths /\ dirs' = [dirs EXCEPT ![j] = D]
        BY <1>2, <2>1 DEF Plan
      <4> QED
        BY <1>1, <4>1 DEF JobTypes
    <3>2. links' \in [Jobs -> SUBSET Paths]
      <4> DEFINE D == {p \in Wanted(j) : man[j][p] = Link /\ Symlinks[j]}
      <4>1. D \in SUBSET Paths /\ links' = [links EXCEPT ![j] = D]
        BY <1>2, <2>1 DEF Plan
      <4> QED
        BY <1>1, <4>1 DEF JobTypes
    <3>3. queue' \in [Jobs -> SUBSET Paths]
      <4> DEFINE D == {p \in Wanted(j) : man[j][p] = File /\ local[p] \notin UpToDate}
      <4>1. D \in SUBSET Paths /\ queue' = [queue EXCEPT ![j] = D]
        BY <1>2, <2>1 DEF Plan
      <4> QED
        BY <1>1, <4>1 DEF JobTypes
    <3>4. extras' \in [Jobs -> SUBSET Paths]
      BY <1>1, <1>2, <2>1 DEF Plan, JobTypes
    <3> QED
      BY <1>1, <1>3, <2>1, <3>1, <3>2, <3>3, <3>4 DEF Plan, JobTypes
  <2>2. CASE ~ IsDir(Base[j])
    BY <1>1, <1>3, <2>2 DEF Plan, JobTypes
  <2> QED
    BY <2>1, <2>2
<1>5. Staging'
  BY <1>1, <1>3, <1>4, StagingStays
<1> QED
  BY <1>1, <1>3, <1>4, <1>5 DEF TreeKept, Changes, WellFormed

LEMMA MakeDirTree ==
  ASSUME TreeInductive, NEW j \in Jobs, NEW p \in Paths, MakeDir(j, p)
  PROVE  TreeKept(j)
<1> USE DEF workVars, boundVars
<1>1. JobTypes /\ WellFormed(local) /\ Staging
  BY TypesAre DEF TreeInductive
<1>2. /\ local' \in [Paths -> Kinds] /\ WellFormed(local')
      /\ \A q \in Paths : local'[q] = local[q] \/ (local[q] = None /\ local'[q] = Dir)
  <2>1. CASE Blocked(p)
    <3>1. local' = local
      BY <2>1 DEF MakeDir
    <3> QED
      BY <1>1, <3>1 DEF JobTypes
  <2>2. CASE ~ Blocked(p)
    <3>1. local' = MkdirAll(p)
      BY <2>2 DEF MakeDir
    <3>2. /\ MkdirAll(p) \in [Paths -> Kinds] /\ WellFormed(MkdirAll(p))
          /\ \A q \in Paths : \/ MkdirAll(p)[q] = local[q]
                              \/ local[q] = None /\ MkdirAll(p)[q] = Dir
      BY <1>1, <2>2, MkdirAllGrows DEF JobTypes
    <3> QED
      BY <3>1, <3>2
  <2> QED
    BY <2>1, <2>2
<1>3. JobTypes'
  BY <1>1, <1>2 DEF MakeDir, JobTypes
<1>4. Staging'
  BY <1>1, <1>2, <1>3, StagingStays, KindsDiffer DEF MakeDir
<1> QED
  BY <1>2, <1>3, <1>4 DEF TreeKept, Changes, Change

\* os.Remove and os.MkdirAll for a link or a file at p: nothing goes that is not empty.
LEMMA PutStaging ==
  ASSUME TreeInductive, JobTypes', NEW p \in Paths, Clear(p),
         \A q \in Paths \ {p} : local[q] = Dir => local'[q] = Dir,
         staged' = staged, debris' = debris,
         \A i \in Jobs : staged[i] => at'[i] = at[i]
  PROVE  Staging'
<1>1. JobTypes /\ Staging
  BY TypesAre DEF TreeInductive
<1>2. local[p] = Dir => p \notin debris' /\ \A i \in Jobs : staged'[i] => Up(at'[i]) # p
  BY DEF Clear, EmptyDir, StagedIn
<1> QED
  BY <1>1, <1>2, StagingStays

LEMMA MakeLinkTree ==
  ASSUME TreeInductive, NEW j \in Jobs, NEW p \in Paths, MakeLink(j, p)
  PROVE  TreeKept(j)
<1> USE DEF workVars, boundVars
<1>1. JobTypes /\ WellFormed(local) /\ Staging
  BY TypesAre DEF TreeInductive
<1>2. p \in links[j] /\ p \in Wanted(j) /\ man[j][p] = Link /\ p \in Below(j)
  BY DEF MakeLink, TreeInductive, Planned, Wanted
<1>3. Clear(p) => Childless(p) /\ (local[p] = Dir => Bare(p))
  BY <1>1, ClearIsChildless DEF Clear, EmptyDir
<1>4. /\ local' \in [Paths -> Kinds] /\ WellFormed(local')
      /\ \/ local' = local
         \/ /\ Clear(p)
            /\ local'[p] \in AnyLink \/ (local'[p] = None /\ errors'[j])
            /\ \A q \in Paths \ {p} : \/ local'[q] = local[q]
                                      \/ local[q] = None /\ local'[q] = Dir
  <2>1. CASE local' = local
    BY <1>1, <2>1 DEF JobTypes
  <2>2. CASE /\ Clear(p) /\ ~Blocked(Up(p))
             /\ \E k \in AnyLink : local' = [MkdirAll(Up(p)) EXCEPT ![p] = k]
    <3>1. PICK k \in {None, File, Other} \cup AnyLink :
            k \in AnyLink /\ local' = [MkdirAll(Up(p)) EXCEPT ![p] = k]
      BY <2>2
    <3> QED
      BY <1>1, <1>3, <2>2, <3>1, PutTree DEF JobTypes
  <2>3. CASE /\ Clear(p) /\ local' = [local EXCEPT ![p] = None]
             /\ errors' = [errors EXCEPT ![j] = TRUE]
    <3>1. local' \in [Paths -> Kinds] /\ WellFormed(local')
      BY <1>1, <1>3, <2>3, TakenTree DEF JobTypes
    <3> QED
      BY <1>1, <2>3, <3>1 DEF JobTypes
  <2> QED
    BY <2>1, <2>2, <2>3 DEF MakeLink
<1>5. errors' \in [Jobs -> BOOLEAN]
  BY <1>1 DEF MakeLink, JobTypes
<1>6. JobTypes'
  BY <1>1, <1>4, <1>5 DEF MakeLink, JobTypes
<1>7. Staging'
  <2>1. CASE local' = local
    BY <1>1, <1>6, <2>1, StagingStays DEF MakeLink
  <2>2. CASE local' # local
    BY <1>4, <1>6, <2>2, PutStaging DEF MakeLink
  <2> QED
    BY <2>1, <2>2
<1>8. Changes(j)
  BY <1>1, <1>2, <1>3, <1>4, KindsDiffer DEF Changes, Change, JobTypes
<1> QED
  BY <1>4, <1>6, <1>7, <1>8 DEF TreeKept

LEMMA StageTree ==
  ASSUME TreeInductive, NEW j \in Jobs, NEW p \in Paths, Stage(j, p)
  PROVE  TreeKept(j)
<1> USE DEF boundVars
<1>1. JobTypes /\ WellFormed(local) /\ Staging
  BY TypesAre DEF TreeInductive
<1>2. p \in queue[j] /\ p \in Wanted(j) /\ man[j][p] = File /\ p \in Below(j)
  BY DEF Stage, TreeInductive, Planned, Wanted
<1>3. Clear(p) => Childless(p) /\ (local[p] = Dir => Bare(p))
  BY <1>1, ClearIsChildless DEF Clear, EmptyDir
<1>4. /\ local' \in [Paths -> Kinds] /\ WellFormed(local')
      /\ \/ local' = local
         \/ /\ Clear(p) /\ local'[p] = IF local[p] = Dir THEN None ELSE local[p]
            /\ \A q \in Paths \ {p} : \/ local'[q] = local[q]
                                      \/ local[q] = None /\ local'[q] = Dir
  <2>1. CASE local' = local
    BY <1>1, <2>1 DEF JobTypes
  <2>2. CASE ~Blocked(Up(p)) /\ Clear(p)
    <3> DEFINE k == IF local[p] = Dir THEN None ELSE local[p]
    <3>1. k \in {None, File, Other} \cup AnyLink
      BY <1>1, KindsDiffer DEF JobTypes
    <3>2. MkdirAll(Up(p))[p] = local[p]
      BY AboveIsAtOrAboveUp DEF MkdirAll
    <3>3. local' = [MkdirAll(Up(p)) EXCEPT ![p] = k]
      BY <2>2, <3>2 DEF Stage
    <3> HIDE DEF k
    <3>4. /\ local' \in [Paths -> Kinds] /\ WellFormed(local') /\ local'[p] = k
          /\ \A q \in Paths \ {p} : \/ local'[q] = local[q]
                                    \/ local[q] = None /\ local'[q] = Dir
      BY <1>1, <1>3, <2>2, <3>1, <3>3, PutTree DEF JobTypes
    <3> QED
      BY <2>2, <3>4 DEF k
  <2> QED
    BY <2>1, <2>2 DEF Stage
<1>5. /\ errors' \in [Jobs -> BOOLEAN] /\ at' \in [Jobs -> Paths \cup {Nowhere}]
      /\ queue' \in [Jobs -> SUBSET Paths]
  BY <1>1 DEF Stage, JobTypes
<1>6. JobTypes'
  BY <1>1, <1>4, <1>5 DEF Stage, JobTypes
<1>7. Staging'
  <2>1. \A i \in Jobs : staged[i] => at'[i] = at[i]
    BY <1>1 DEF Stage, TreeInductive, TypeOK, JobTypes
  <2>2. CASE local' = local
    BY <1>1, <1>6, <2>1, <2>2, StagingStays DEF Stage
  <2>3. CASE local' # local
    BY <1>4, <1>6, <2>1, <2>3, PutStaging DEF Stage
  <2> QED
    BY <2>2, <2>3
<1>8. Changes(j)
  BY <1>1, <1>2, <1>3, <1>4, KindsDiffer DEF Changes, Change, JobTypes
<1> QED
  BY <1>4, <1>6, <1>7, <1>8 DEF TreeKept

LEMMA RemoveExtraTree ==
  ASSUME TreeInductive, NEW j \in Jobs, NEW p \in Paths, RemoveExtra(j, p)
  PROVE  TreeKept(j)
<1> USE DEF boundVars
<1>1. JobTypes /\ WellFormed(local) /\ Staging
  BY TypesAre DEF TreeInductive
<1>2. p \in extras[j] /\ man[j][p] = None /\ p \in Below(j) /\ Mirror[j] /\ pc[j] = "remove"
  BY DEF RemoveExtra, TreeInductive, Planned, Phases
<1>3. Clear(p) => Childless(p) /\ (local[p] = Dir => Bare(p))
  BY <1>1, ClearIsChildless DEF Clear, EmptyDir
<1>4. /\ local' \in [Paths -> Kinds] /\ WellFormed(local')
      /\ \/ local' = local
         \/ /\ Clear(p) /\ local[p] # None /\ local'[p] = None
            /\ \A q \in Paths \ {p} : local'[q] = local[q]
  <2>1. CASE local' = local
    BY <1>1, <2>1 DEF JobTypes
  <2>2. CASE local[p] # None /\ Clear(p) /\ local' = [local EXCEPT ![p] = None]
    <3>1. local' \in [Paths -> Kinds] /\ WellFormed(local')
      BY <1>1, <1>3, <2>2, TakenTree DEF JobTypes
    <3> QED
      BY <1>1, <2>2, <3>1 DEF JobTypes
  <2> QED
    BY <2>1, <2>2 DEF RemoveExtra
<1>5. /\ deleted' \in [Jobs -> BOOLEAN] /\ extras' \in [Jobs -> SUBSET Paths]
  BY <1>1 DEF RemoveExtra, JobTypes
<1>6. JobTypes'
  BY <1>1, <1>4, <1>5 DEF RemoveExtra, JobTypes
<1>7. Staging'
  <2>1. CASE local' = local
    BY <1>1, <1>6, <2>1, StagingStays DEF RemoveExtra
  <2>2. CASE local' # local
    BY <1>4, <1>6, <2>2, PutStaging DEF RemoveExtra
  <2> QED
    BY <2>1, <2>2
<1>8. Changes(j)
  BY <1>1, <1>2, <1>3, <1>4, KindsDiffer DEF Changes, Change, JobTypes
<1> QED
  BY <1>4, <1>6, <1>7, <1>8 DEF TreeKept

\* Steps that leave the tree alone.
LEMMA TransferTree ==
  ASSUME TreeInductive, NEW j \in Jobs, OpenStaging(j) \/ Retry(j) \/ DownloadFails(j)
  PROVE  TreeKept(j)
<1> USE DEF diskVars, planVars, workVars
<1>1. JobTypes /\ WellFormed(local) /\ Staging
  BY TypesAre DEF TreeInductive
<1>2. local' = local /\ debris' = debris
  BY DEF OpenStaging, Retry, DownloadFails
<1>3. JobTypes'
  BY <1>1, <1>2 DEF OpenStaging, Retry, DownloadFails, JobTypes
<1>4. \A i \in Jobs : staged'[i] => \/ staged[i] /\ at'[i] = at[i]
                                    \/ IsDir(Up(at'[i])) /\ local' = local
  BY <1>1, <1>2 DEF OpenStaging, Retry, DownloadFails, JobTypes
<1>5. Staging'
  BY <1>1, <1>2, <1>3, <1>4, StagingStays
<1> QED
  BY <1>1, <1>2, <1>3, <1>5 DEF TreeKept, Changes

LEMMA QuietTree ==
  ASSUME TreeInductive, NEW j \in Jobs,
         \/ Advance(j) \/ EndRemove(j) \/ EndSweep(j) \/ Finish(j)
         \/ Cancel(j) \/ Publish(j)
  PROVE  TreeKept(j)
<1> USE DEF diskVars, planVars, workVars, boundVars
<1>1. JobTypes /\ WellFormed(local) /\ Staging
  BY TypesAre DEF TreeInductive
<1>2. local' = local /\ debris' = debris /\ staged' = staged /\ at' = at
  BY DEF Advance, EndRemove, EndSweep, Finish, Cancel, Publish
<1>3. JobTypes'
  <2>1. CASE Advance(j) \/ EndSweep(j) \/ Finish(j) \/ Cancel(j)
    BY <1>1, <1>2, <2>1 DEF Advance, EndSweep, Finish, Cancel, JobTypes
  <2>2. CASE EndRemove(j)
    <3> DEFINE D == {Base[j]} \cup {p \in Below(j) : local[p] = Dir}
    <3>1. D \in SUBSET (Paths \cup {<<>>})
      BY KindsDiffer
    <3>2. sweep' = sweep \/ sweep' = [sweep EXCEPT ![j] = D]
      BY <2>2 DEF EndRemove
    <3> HIDE DEF D
    <3>3. sweep' \in [Jobs -> SUBSET (Paths \cup {<<>>})]
      BY <1>1, <3>1, <3>2 DEF JobTypes
    <3> QED
      BY <1>1, <1>2, <2>2, <3>3 DEF EndRemove, JobTypes
  <2>3. CASE Publish(j)
    <3>1. PICK t \in Trees[j] : agent' = [agent EXCEPT ![j] = t]
      BY <2>3 DEF Publish
    <3>2. t \in [Paths -> Kinds]
      BY TreeAssumption DEF Kinds
    <3> QED
      BY <1>1, <1>2, <2>3, <3>1, <3>2 DEF Publish, JobTypes
  <2> QED
    BY <2>1, <2>2, <2>3
<1>4. Staging'
  BY <1>1, <1>2, <1>3, StagingStays
<1> QED
  BY <1>1, <1>2, <1>3, <1>4 DEF TreeKept, Changes

LEMMA InstallTree ==
  ASSUME TreeInductive, NEW j \in Jobs, Install(j)
  PROVE  TreeKept(j)
<1> USE DEF planVars, boundVars
<1>1. JobTypes /\ WellFormed(local) /\ Staging
  BY TypesAre DEF TreeInductive
<1>2. at[j] \in Paths /\ IsDir(Up(at[j]))
  BY <1>1 DEF Install, TreeInductive, Phases, JobTypes, Staging
<1>3. local' \in [Paths -> Kinds] /\ WellFormed(local')
  <2>1. local[at[j]] # Dir /\ File \in Kinds /\ local' = [local EXCEPT ![at[j]] = File]
    BY DEF Install, Kinds
  <2> QED
    BY <1>1, <1>2, <2>1, InstalledTree DEF JobTypes
<1>4. \A q \in Paths : \/ local'[q] = local[q]
                       \/ local[q] # Dir /\ q = at[j] /\ local'[q] = File
  BY <1>1 DEF Install, JobTypes
<1>5. JobTypes'
  BY <1>1, <1>3 DEF Install, JobTypes
<1>6. Staging'
  <2>1. \A i \in Jobs : staged'[i] => staged[i] /\ at'[i] = at[i]
    BY <1>1 DEF Install, JobTypes
  <2> QED
    BY <1>1, <1>4, <1>5, <2>1, StagingStays DEF Install
<1> QED
  BY <1>3, <1>4, <1>5, <1>6 DEF TreeKept, Changes, Change

LEMMA SweepTree ==
  ASSUME TreeInductive, NEW j \in Jobs, NEW d \in Paths \cup {<<>>}, SweepDir(j, d)
  PROVE  TreeKept(j)
<1> USE DEF planVars, boundVars
<1>1. JobTypes /\ WellFormed(local) /\ Staging
  BY TypesAre DEF TreeInductive
<1>2. CASE UNCHANGED <<debris, staged, local>>
  <2>1. JobTypes'
    BY <1>1, <1>2 DEF SweepDir, JobTypes
  <2>2. Staging'
    BY <1>1, <1>2, <2>1, StagingStays DEF SweepDir
  <2> QED
    BY <1>1, <1>2, <2>1, <2>2 DEF TreeKept, Changes
<1>3. CASE /\ IsDir(d)
           /\ debris' = debris \ {d}
           /\ staged' = [k \in Jobs |-> staged[k] /\ k \notin StagedIn(d)]
           /\ local' = IF Bare(d) /\ d # Base[j] /\ d \notin remoteDirs(j)
                       THEN [local EXCEPT ![d] = None] ELSE local
  <2>1. /\ local' \in [Paths -> Kinds] /\ WellFormed(local')
        /\ \/ local' = local
           \/ /\ d \in Paths /\ local[d] = Dir /\ Bare(d) /\ d \in Below(j) /\ man[j][d] # Dir
              /\ local'[d] = None /\ \A q \in Paths \ {d} : local'[q] = local[q]
    <3>1. CASE local' = local
      BY <1>1, <3>1 DEF JobTypes
    <3>2. CASE local' # local
      <4>1. Bare(d) /\ d # Base[j] /\ d \notin remoteDirs(j) /\ local' = [local EXCEPT ![d] = None]
        BY <1>3, <3>2
      <4>2. d \in Below(j)
        BY <4>1 DEF SweepDir, TreeInductive, Planned
      <4>3. d \in Paths /\ local[d] = Dir /\ man[j][d] # Dir
        BY <1>3, <4>1, <4>2, KindsDiffer DEF IsDir, remoteDirs
      <4>4. Childless(d)
        BY <1>1, <4>1, <4>3, ClearIsChildless
      <4>5. local' \in [Paths -> Kinds] /\ WellFormed(local')
        BY <1>1, <4>1, <4>3, <4>4, TakenTree DEF JobTypes
      <4> QED
        BY <1>1, <4>1, <4>2, <4>3, <4>5 DEF JobTypes
    <3> QED
      BY <3>1, <3>2
  <2>2. JobTypes'
    <3>1. staged' \in [Jobs -> BOOLEAN]
      BY <1>1, <1>3 DEF JobTypes
    <3> QED
      BY <1>1, <1>3, <2>1, <3>1 DEF SweepDir, JobTypes
  <2>3. Staging'
    <3>1. at' = at /\ \A i \in Jobs : staged'[i] => staged[i] /\ Up(at[i]) # d
      BY <1>3 DEF SweepDir, StagedIn
    <3> QED
      BY <1>1, <1>3, <2>1, <2>2, <3>1, StagingStays
  <2> QED
    BY <1>1, <2>1, <2>2, <2>3 DEF TreeKept, Changes, Change
<1> QED
  BY <1>2, <1>3 DEF SweepDir

LEMMA CrashTree ==
  ASSUME TreeInductive, NEW j \in Jobs, Crash(j)
  PROVE  TreeKept(j)
<1>1. JobTypes /\ WellFormed(local) /\ Staging
  BY TypesAre DEF TreeInductive
<1>2. local' = local /\ staged' = [staged EXCEPT ![j] = FALSE] /\ at' = [at EXCEPT ![j] = Nowhere]
  BY DEF Crash
<1>3. \A d \in debris' : IsDir(d) /\ d \in Paths \cup {<<>>}
  <2>1. staged[j] => at[j] \in Paths
    BY <1>1 DEF TreeInductive, TypeOK, Phases, JobTypes
  <2>2. staged[j] => Up(at[j]) \in Paths \cup {<<>>}
    BY <2>1, AboveIsAtOrAboveUp
  <2> QED
    BY <1>1, <2>2 DEF Crash, Staging, JobTypes
<1>4. JobTypes'
  BY <1>1, <1>2, <1>3 DEF Crash, JobTypes
<1>5. Staging'
  BY <1>1, <1>2, <1>3 DEF Staging, IsDir, JobTypes
<1> QED
  BY <1>1, <1>2, <1>4, <1>5 DEF TreeKept, Changes

LEMMA StepTree ==
  ASSUME TreeInductive, NEW j \in Jobs, Step(j) \/ Crash(j) \/ Cancel(j) \/ Publish(j)
  PROVE  TreeKept(j)
BY BeginTree, PlanTree, MakeDirTree, MakeLinkTree, StageTree, RemoveExtraTree, TransferTree,
   QuietTree, InstallTree, SweepTree, CrashTree DEF Step

-----------------------------------------------------------------------------
(* One step: the run.                                                      *)

RunKept(i) == Phases(i)' /\ Planned(i)' /\ Listed(i)' /\ (staged'[i] => pc'[i] = "write")

\* What is left of a plan stays good while the manifest stays.
LEMMA SmallerPlan ==
  ASSUME TreeInductive, NEW j \in Jobs, man'[j] = man[j],
         dirs'[j] \subseteq dirs[j], links'[j] \subseteq links[j],
         queue'[j] \subseteq queue[j], extras'[j] \subseteq extras[j],
         at'[j] \in {at[j], Nowhere} \cup queue[j],
         sweep'[j] \subseteq sweep[j] \cup {Base[j]} \cup Below(j)
  PROVE  Planned(j)'
<1>1. Wanted(j)' = Wanted(j)
  BY DEF Wanted
<1> QED
  BY <1>1 DEF TreeInductive, Planned

LEMMA OtherRuns ==
  ASSUME TreeInductive, NEW j \in Jobs, Step(j) \/ Crash(j) \/ Cancel(j) \/ Publish(j),
        NEW i \in Jobs \ {j}
  PROVE  RunKept(i)
<1>1. /\ pc'[i] = pc[i] /\ man'[i] = man[i] /\ agent'[i] = agent[i]
      /\ dirs'[i] = dirs[i] /\ links'[i] = links[i] /\ queue'[i] = queue[i]
      /\ extras'[i] = extras[i] /\ sweep'[i] = sweep[i] /\ at'[i] = at[i]
      /\ staged'[i] => staged[i]
  BY TypesAre, OtherJobsStay DEF TreeInductive
<1>2. edits' = 0 => edits = 0
  <2>1. CASE Publish(j)
    BY <2>1 DEF Publish, TreeInductive
  <2>2. CASE Step(j) \/ Crash(j) \/ Cancel(j)
    BY <2>2 DEF Step, Crash, Cancel, Begin, Plan, Advance, MakeDir, MakeLink, Stage,
                RemoveExtra, OpenStaging,
         Retry, Install, DownloadFails, EndRemove, SweepDir, EndSweep, Finish, boundVars
  <2> QED
    BY <2>1, <2>2
<1>3. Phases(i)' /\ Listed(i)' /\ (staged'[i] => pc'[i] = "write")
  BY <1>1, <1>2 DEF TreeInductive, TypeOK, Phases, Listed
<1>5. Planned(i)'
  BY <1>1, SmallerPlan
<1> QED
  BY <1>3, <1>5 DEF RunKept

LEMMA StartedRun ==
  ASSUME TreeInductive, NEW j \in Jobs, Begin(j) \/ Plan(j)
  PROVE  RunKept(j)
<1> USE DEF planVars, workVars, boundVars
<1>1. JobTypes /\ Phases(j) /\ Planned(j) /\ Listed(j) /\ (staged[j] => pc[j] = "write")
  BY TypesAre DEF TreeInductive
<1>2. CASE Begin(j)
  <2>1. man'[j] = agent[j] /\ agent' = agent
    BY <1>1, <1>2 DEF Begin, Manifests, JobTypes
  <2>2. /\ dirs'[j] = {} /\ links'[j] = {} /\ queue'[j] = {} /\ extras'[j] = {} /\ sweep'[j] = {}
        /\ at'[j] = Nowhere /\ ~staged'[j] /\ pc'[j] = "plan"
    BY <1>1, <1>2 DEF Begin, Phases, JobTypes
  <2> QED
    BY <2>1, <2>2 DEF RunKept, Phases, Planned, Listed
<1>3. CASE Plan(j)
  <2>1. man' = man /\ agent' = agent /\ edits' = edits /\ staged' = staged /\ sweep' = sweep /\ at' = at
    BY <1>3 DEF Plan
  <2>2. Wanted(j)' = Wanted(j)
    BY <2>1 DEF Wanted
  <2>3. CASE IsDir(Base[j])
    <3>1. /\ dirs'[j] = {p \in Wanted(j) : man[j][p] = Dir /\ local[p] # Dir}
          /\ links'[j] = {p \in Wanted(j) : man[j][p] = Link /\ Symlinks[j]}
          /\ queue'[j] = {p \in Wanted(j) : man[j][p] = File /\ local[p] \notin UpToDate}
          /\ extras'[j] = Extras(j) /\ pc[j] = "plan" /\ pc'[j] = "dirs"
      BY <1>1, <1>3, <2>3 DEF Plan, JobTypes
    <3>2. Planned(j)'
      BY <1>1, <2>1, <2>2, <3>1 DEF Phases, Planned, Extras
    <3>3. Phases(j)' /\ Listed(j)' /\ ~staged'[j]
      BY <1>1, <2>1, <3>1 DEF Phases, Listed
    <3> QED
      BY <3>2, <3>3 DEF RunKept
  <2>4. CASE ~ IsDir(Base[j])
    <3>1. /\ pc[j] = "plan" /\ pc'[j] = "idle"
          /\ dirs' = dirs /\ links' = links /\ queue' = queue /\ extras' = extras
      BY <1>1, <1>3, <2>4 DEF Plan, JobTypes
    <3>2. Planned(j)'
      BY <1>1, <2>1, <2>2, <3>1 DEF Planned
    <3>3. Phases(j)' /\ Listed(j)' /\ ~staged'[j]
      BY <1>1, <2>1, <3>1 DEF Phases, Listed
    <3> QED
      BY <3>2, <3>3 DEF RunKept
  <2> QED
    BY <2>3, <2>4
<1> QED
  BY <1>2, <1>3

LEMMA MovedRun ==
  ASSUME TreeInductive, NEW j \in Jobs,
         Step(j), ~ Begin(j), ~ Plan(j)
  PROVE  RunKept(j)
<1> USE DEF planVars, workVars, boundVars, diskVars
<1>1. /\ JobTypes /\ Phases(j) /\ Listed(j) /\ (staged[j] => pc[j] = "write")
      /\ Nowhere \notin Paths
  BY TypesAre, KindsDiffer DEF TreeInductive
<1>2. man' = man /\ agent' = agent /\ edits' = edits
  BY DEF Step, Advance, MakeDir, MakeLink, Stage, RemoveExtra, OpenStaging,
         Retry, Install, DownloadFails, EndRemove, SweepDir, EndSweep, Finish
<1>3. ASSUME NEW p \in Paths, MakeDir(j, p) \/ MakeLink(j, p) \/ RemoveExtra(j, p)
      PROVE  RunKept(j)
  <2>1. /\ pc' = pc /\ at' = at /\ sweep' = sweep /\ queue' = queue /\ staged' = staged
        /\ dirs'[j] \subseteq dirs[j] /\ links'[j] \subseteq links[j] /\ extras'[j] \subseteq extras[j]
    BY <1>1, <1>3 DEF MakeDir, MakeLink, RemoveExtra, JobTypes
  <2>2. Planned(j)'
    BY <1>2, <2>1, SmallerPlan
  <2>3. Phases(j)' /\ Listed(j)'
    BY <1>1, <1>2, <2>1 DEF Phases, Listed
  <2> QED
    BY <1>1, <2>1, <2>2, <2>3 DEF RunKept
<1>4. ASSUME NEW p \in Paths, Stage(j, p) PROVE RunKept(j)
  <2>1. /\ p \in queue[j] /\ queue'[j] \subseteq queue[j] /\ pc[j] = "fetch" /\ ~staged[j]
        /\ dirs' = dirs /\ links' = links /\ extras' = extras /\ sweep' = sweep /\ staged' = staged
        /\ \/ pc' = pc /\ at' = at
           \/ pc'[j] = "open" /\ at'[j] = p
    BY <1>1, <1>4 DEF Stage, JobTypes
  <2>2. Planned(j)'
    BY <1>2, <2>1, SmallerPlan
  <2>3. Phases(j)' /\ Listed(j)'
    BY <1>1, <1>2, <2>1 DEF Phases, Listed
  <2> QED
    BY <1>1, <2>1, <2>2, <2>3 DEF RunKept
<1>5. CASE OpenStaging(j) \/ Retry(j)
  <2>1. /\ pc[j] \in {"open", "write"} /\ pc'[j] \in {"open", "write"}
        /\ staged'[j] => pc'[j] = "write"
        /\ dirs' = dirs /\ links' = links /\ extras' = extras /\ sweep' = sweep /\ queue' = queue
        /\ at' = at
    BY <1>1, <1>5 DEF OpenStaging, Retry, JobTypes
  <2>2. Planned(j)'
    BY <1>2, <2>1, SmallerPlan
  <2>3. Phases(j)' /\ Listed(j)'
    BY <1>1, <1>2, <2>1 DEF Phases, Listed
  <2> QED
    BY <2>1, <2>2, <2>3 DEF RunKept
<1>6. CASE Install(j) \/ DownloadFails(j)
  <2>1. /\ pc[j] \in {"open", "write"} /\ pc'[j] = "fetch" /\ ~staged'[j] /\ at'[j] = Nowhere
        /\ dirs' = dirs /\ links' = links /\ extras' = extras /\ sweep' = sweep /\ queue' = queue
    BY <1>1, <1>6 DEF Install, DownloadFails, JobTypes
  <2>2. Planned(j)'
    BY <1>2, <2>1, SmallerPlan
  <2>3. Phases(j)' /\ Listed(j)'
    BY <1>1, <1>2, <2>1 DEF Phases, Listed
  <2> QED
    BY <2>1, <2>2, <2>3 DEF RunKept
<1>7. CASE Advance(j) \/ EndSweep(j)
  <2>1. /\ dirs' = dirs /\ links' = links /\ extras' = extras /\ sweep' = sweep
        /\ at' = at /\ staged' = staged /\ queue'[j] \subseteq queue[j]
        /\ \/ pc[j] = "dirs" /\ dirs[j] = {} /\ pc'[j] = "links"
           \/ pc[j] = "links" /\ links[j] = {} /\ pc'[j] = "fetch"
           \/ pc[j] = "fetch" /\ queue'[j] = {} /\ pc'[j] = IF Mirror[j] THEN "remove" ELSE "end"
           \/ pc[j] = "sweep" /\ sweep[j] = {} /\ pc'[j] = "end"
    BY <1>1, <1>7 DEF Advance, EndSweep, JobTypes
  <2>2. Planned(j)'
    BY <1>2, <2>1, SmallerPlan
  <2>3. Phases(j)' /\ Listed(j)' /\ ~staged[j]
    BY <1>1, <1>2, <2>1 DEF Phases, Listed
  <2> QED
    BY <2>1, <2>2, <2>3 DEF RunKept
<1>8. CASE EndRemove(j)
  <2>1. /\ dirs' = dirs /\ links' = links /\ extras' = extras /\ queue' = queue
        /\ at' = at /\ staged' = staged /\ pc[j] = "remove"
        /\ \/ pc'[j] = "sweep" /\ sweep'[j] \subseteq {Base[j]} \cup Below(j)
           \/ pc'[j] = "end" /\ sweep' = sweep
    BY <1>1, <1>8 DEF EndRemove, JobTypes
  <2>2. Planned(j)'
    BY <1>2, <2>1, SmallerPlan
  <2>3. Phases(j)' /\ Listed(j)' /\ ~staged[j]
    BY <1>1, <1>2, <2>1 DEF Phases, Listed
  <2> QED
    BY <2>1, <2>2, <2>3 DEF RunKept
<1>9. ASSUME NEW d \in Paths \cup {<<>>}, SweepDir(j, d) PROVE RunKept(j)
  <2>1. /\ dirs' = dirs /\ links' = links /\ extras' = extras /\ queue' = queue /\ at' = at
        /\ pc[j] = "sweep" /\ pc' = pc /\ sweep'[j] \subseteq sweep[j] /\ (staged'[j] => staged[j])
    BY <1>1, <1>9 DEF SweepDir, JobTypes
  <2>2. Planned(j)'
    BY <1>2, <2>1, SmallerPlan
  <2>3. Phases(j)' /\ Listed(j)' /\ ~staged[j]
    BY <1>1, <1>2, <2>1 DEF Phases, Listed
  <2> QED
    BY <2>1, <2>2, <2>3 DEF RunKept
<1>10. CASE Finish(j)
  <2>1. /\ dirs' = dirs /\ links' = links /\ extras'[j] = {} /\ queue' = queue /\ at' = at
        /\ pc[j] = "end" /\ pc'[j] = "idle" /\ sweep' = sweep /\ staged' = staged
    BY <1>1, <1>10 DEF Finish, JobTypes
  <2>2. Planned(j)'
    BY <1>2, <2>1, SmallerPlan
  <2>3. Phases(j)' /\ Listed(j)' /\ ~staged[j]
    BY <1>1, <1>2, <2>1 DEF Phases, Listed
  <2> QED
    BY <2>1, <2>2, <2>3 DEF RunKept
<1> QED
  BY <1>3, <1>4, <1>5, <1>6, <1>7, <1>8, <1>9, <1>10 DEF Step

LEMMA CrashedRun ==
  ASSUME TreeInductive, NEW j \in Jobs, Crash(j) \/ Cancel(j) \/ Publish(j)
  PROVE  RunKept(j)
<1> USE DEF planVars, workVars, diskVars
<1>1. /\ JobTypes /\ Phases(j) /\ Listed(j) /\ (staged[j] => pc[j] = "write")
      /\ Nowhere \notin Paths /\ edits \in Nat
  BY TypesAre, KindsDiffer DEF TreeInductive
<1>2. CASE Crash(j)
  <2>1. /\ man' = man /\ pc'[j] = "idle" /\ at'[j] = Nowhere /\ ~staged'[j] /\ dirs'[j] = {}
        /\ links'[j] = {} /\ queue'[j] = {} /\ extras'[j] = {} /\ sweep'[j] = {}
    BY <1>1, <1>2 DEF Crash, JobTypes
  <2> QED
    BY <2>1 DEF RunKept, Phases, Planned, Listed
<1>3. CASE Cancel(j) \/ Publish(j)
  <2>1. /\ man' = man /\ pc' = pc /\ at' = at /\ staged' = staged /\ dirs' = dirs /\ links' = links
        /\ queue' = queue /\ extras' = extras /\ sweep' = sweep
        /\ edits' # 0 \/ (edits' = edits /\ agent' = agent)
    BY <1>1, <1>3 DEF Cancel, Publish
  <2>2. Planned(j)'
    BY <2>1, SmallerPlan
  <2>3. Phases(j)' /\ Listed(j)'
    BY <1>1, <2>1 DEF Phases, Listed
  <2> QED
    BY <1>1, <2>1, <2>2, <2>3 DEF RunKept
<1> QED
  BY <1>2, <1>3

-----------------------------------------------------------------------------
(* The disk stays a tree.                                                  *)

LEMMA TreeInit == Init => TreeInductive
<1> SUFFICES ASSUME Init PROVE TreeInductive
  OBVIOUS
<1>1. Empty \in [Paths -> Kinds]
  BY DEF Empty, Kinds
<1>2. agent \in [Jobs -> [Paths -> Kinds]]
  <2>1. \A j \in Jobs : agent[j] \in [Paths -> Kinds]
    <3> SUFFICES ASSUME NEW j \in Jobs PROVE agent[j] \in [Paths -> Kinds]
      OBVIOUS
    <3>1. agent[j] \in Trees[j]
      BY DEF Init
    <3> QED
      BY <3>1, TreeAssumption DEF Kinds
  <2> QED
    BY <2>1 DEF Init
<1>3. local \in [Paths -> Kinds] /\ WellFormed(local)
  BY TreeAssumption DEF Init
<1>4. JobTypes
  BY <1>1, <1>2, <1>3 DEF Init, JobTypes, Nothing, No
<1>5. TypeOK /\ Staging /\ edits \in Nat
  BY <1>4, TypesAre DEF Init, Staging, No
<1>6. ASSUME NEW j \in Jobs PROVE Phases(j) /\ Planned(j) /\ Listed(j)
  BY DEF Init, Phases, Planned, Listed, Nothing
<1> QED
  BY <1>3, <1>5, <1>6 DEF TreeInductive

LEMMA TreeStep == TreeInductive /\ [Next]_vars => TreeInductive'
<1> SUFFICES ASSUME TreeInductive, [Next]_vars PROVE TreeInductive'
  OBVIOUS
<1>1. CASE UNCHANGED vars
  <2>1. ASSUME NEW j \in Jobs PROVE Phases(j)' /\ Planned(j)' /\ Listed(j)'
    BY <1>1 DEF TreeInductive, Phases, Planned, Listed, Wanted, vars, diskVars, planVars,
                workVars, boundVars
  <2>2. TypeOK' /\ WellFormed(local') /\ Staging' /\ edits' \in Nat
    BY <1>1 DEF TreeInductive, TypeOK, Staging, IsDir, vars, diskVars, planVars, workVars, boundVars
  <2> QED
    BY <2>1, <2>2 DEF TreeInductive
<1>2. ASSUME NEW j \in Jobs, Step(j) \/ Crash(j) \/ Cancel(j) \/ Publish(j) PROVE TreeInductive'
  <2>1. JobTypes' /\ WellFormed(local') /\ Staging'
    BY <1>2, StepTree DEF TreeKept
  <2>2. \A i \in Jobs : RunKept(i)
    BY <1>2, OtherRuns, StartedRun, MovedRun, CrashedRun
  <2>3. TypeOK'
    BY <2>1, <2>2 DEF RunKept, TypeOK, JobTypes
  <2>4. edits' \in Nat
    BY <1>2 DEF TreeInductive, Step, Crash, Cancel, Publish, Begin, Plan, Advance, MakeDir,
                MakeLink, Stage,
       RemoveExtra, OpenStaging, Retry, Install, DownloadFails, EndRemove, SweepDir, EndSweep,
             Finish,
       boundVars
  <2> QED
    BY <2>1, <2>2, <2>3, <2>4 DEF TreeInductive, RunKept
<1> QED
  BY <1>1, <1>2 DEF Next

LEMMA TreeAlways == Spec => []TreeInductive
BY TreeInit, TreeStep, PTL DEF Spec

\* The path to a directory and the path from there on are the whole path.
LEMMA RestOfPath ==
  ASSUME NEW S, NEW q \in Seq(S), NEW m \in 0 .. Len(q), NEW n \in m + 1 .. Len(q) - 1,
         NEW d, d = SubSeq(q, 1, n)
  PROVE  /\ SubSeq(d, m + 1, n) \in Seq(S)
         /\ SubSeq(q, n + 1, Len(q)) \in Seq(S) /\ SubSeq(q, n + 1, Len(q)) # <<>>
         /\ SubSeq(q, m + 1, Len(q)) = SubSeq(d, m + 1, n) \o SubSeq(q, n + 1, Len(q))
<1> DEFINE segs == SubSeq(d, m + 1, n)
           more == SubSeq(q, n + 1, Len(q))
           rest == SubSeq(q, m + 1, Len(q))
<1>0. Len(q) \in Nat /\ m \in Nat /\ n \in Nat /\ m < n /\ n < Len(q)
  OBVIOUS
<1>1. d \in Seq(S) /\ Len(d) = n /\ \A i \in 1 .. n : d[i] = q[i]
  BY <1>0
<1>2. /\ segs \in Seq(S) /\ Len(segs) = n - m
      /\ \A i \in 1 .. n - m : segs[i] = d[m + i]
  BY <1>0, <1>1
<1>3. /\ more \in Seq(S) /\ Len(more) = Len(q) - n
      /\ \A i \in 1 .. Len(q) - n : more[i] = q[n + i]
  BY <1>0
<1>4. /\ rest \in Seq(S) /\ Len(rest) = Len(q) - m
      /\ \A i \in 1 .. Len(q) - m : rest[i] = q[m + i]
  BY <1>0
<1> HIDE DEF segs, more, rest
<1>5. /\ segs \o more \in Seq(S) /\ Len(segs \o more) = Len(q) - m
      /\ \A i \in 1 .. Len(q) - m :
           (segs \o more)[i] = IF i <= n - m THEN segs[i] ELSE more[i - (n - m)]
  <2>1. segs \in Seq(S) /\ more \in Seq(S)
    BY <1>2, <1>3
  <2>2. /\ segs \o more \in Seq(S)
        /\ Len(segs \o more) = Len(segs) + Len(more)
        /\ \A i \in 1 .. Len(segs) + Len(more) :
             (segs \o more)[i] = IF i <= Len(segs) THEN segs[i] ELSE more[i - Len(segs)]
    BY ONLY <2>1
  <2>3. Len(segs) = n - m /\ Len(segs) + Len(more) = Len(q) - m
    BY ONLY <1>0, <1>2, <1>3
  <2> QED
    BY ONLY <2>2, <2>3
<1>6. \A i \in 1 .. Len(q) - m : (segs \o more)[i] = rest[i]
  BY <1>0, <1>1, <1>2, <1>3, <1>4, <1>5
<1>7. rest = segs \o more
  <2> DEFINE both == segs \o more
  <2>1. \A i \in 1 .. Len(rest) : both[i] = rest[i]
    BY <1>4, <1>6
  <2>2. both \in Seq(S) /\ Len(both) = Len(rest)
    BY <1>4, <1>5
  <2> HIDE DEF both
  <2>3. both = rest
    BY <1>4, <2>1, <2>2
  <2> QED
    BY <2>3 DEF both
<1>8. more # <<>>
  BY <1>0, <1>3
<1> QED
  BY <1>2, <1>3, <1>7, <1>8 DEF segs, more, rest

\* Where the search of job j comes, below its destination: without "!" rules it comes to
\* the directory of every file that no rule excludes.
LEMMA FileIsReached ==
  ASSUME NoExceptions, NEW j \in Jobs, NEW p \in Below(j), ~Excluded(j, p, FALSE)
  PROVE  Up(p) \in Reached(j)
<1> DEFINE b == Base[j]
           rules == Exclude[j]
<1>1. p \in Paths /\ Above(b, p) /\ b \in Paths \cup {<<>>}
  BY KindsDiffer DEF Below
<1>2. /\ p \in Seq(Names) /\ b \in Seq(Names) /\ Len(b) < Len(p) /\ Len(p) \in Nat
      /\ SubSeq(p, 1, Len(b)) = b
  BY <1>1, PathsAre DEF Above
<1>3. ASSUME NEW d \in Below(j), Above(d, p) PROVE ~Excluded(j, d, TRUE)
  <2> SUFFICES ASSUME Excluded(j, d, TRUE) PROVE FALSE
    OBVIOUS
  <2> DEFINE segs == Rel(j, d)
             more == SubSeq(p, Len(d) + 1, Len(p))
  <2>1. Len(d) \in Len(b) + 1 .. Len(p) - 1 /\ d = SubSeq(p, 1, Len(d)) /\ Len(b) \in 0 .. Len(p)
    BY <1>2, <1>3, PathsAre DEF Above, Below
  <2>2. /\ segs \in Seq(Names) /\ more \in Seq(Names) /\ more # <<>>
        /\ Rel(j, p) = segs \o more
    BY <1>2, <2>1, RestOfPath DEF Rel
  <2>4. /\ rules \in Seq({rules[i] : i \in DOMAIN rules})
        /\ \A i \in DOMAIN rules : ~rules[i].negate
    BY DEF NoExceptions
  <2>5. Match(rules, segs, TRUE)
    BY DEF Excluded
  <2> HIDE DEF segs, more, rules
  <2>6. Match(rules, segs \o more, FALSE)
    BY <2>2, <2>4, <2>5, PruningIsSound
  <2> QED
    BY <2>2, <2>6 DEF Excluded, rules
<1>4. CASE Up(p) = b
  <2>1. b \notin Below(j)
    BY <1>2 DEF Below, Above
  <2> QED
    BY <1>4, <2>1 DEF Reached
<1>5. CASE Up(p) # b
  <2>1. Up(p) \in Below(j)
    <3>1. Up(p) \in Paths \cup {<<>>}
      BY <1>1, AboveIsAtOrAboveUp
    <3>2. Len(Up(p)) = Len(p) - 1 /\ SubSeq(Up(p), 1, Len(b)) = SubSeq(p, 1, Len(b))
      <4>1. Len(p) - 1 \in 0 .. Len(p) /\ Len(b) \in 0 .. Len(p) - 1
        BY <1>2
      <4> QED
        BY <1>2, <4>1, PrefixOfPrefix DEF Up
    <3>3. Len(b) < Len(Up(p))
      <4>1. CASE Len(b) = Len(p) - 1
        BY <1>2, <1>5, <4>1 DEF Up
      <4> QED
        BY <1>2, <3>2, <4>1
    <3> QED
      BY <1>2, <3>1, <3>2, <3>3 DEF Below, Above
  <2>2. Above(Up(p), p)
    BY <1>1, <2>1, AboveIsAtOrAboveUp, KindsDiffer DEF AtOrAbove
  <2>3. \A q \in Below(j) : Above(q, Up(p)) => Above(q, p)
    BY <1>1, <2>1, <2>2, AboveIsTransitive, KindsDiffer DEF AtOrAbove
  <2> QED
    BY <1>3, <2>1, <2>2, <2>3 DEF Reached, Pruned
<1> QED
  BY <1>4, <1>5

LEMMA ReachStep ==
  ASSUME NoExceptions
  PROVE  TreeInductive /\ TreeInv /\ [Next]_vars => TreeInv'
<1> SUFFICES ASSUME TreeInductive, TreeInv, [Next]_vars PROVE TreeInv'
  OBVIOUS
<1>1. TreeInductive'
  BY TreeStep
<1>3. ASSUME NEW j \in Jobs, staged'[j] PROVE Up(at'[j]) \in Reached(j)
  <2>1. at'[j] # Nowhere
    BY <1>1, <1>3 DEF TreeInductive, TypeOK, Phases
  <2>2. at'[j] \in Wanted(j)' /\ man'[j][at'[j]] = File
    BY <1>1, <2>1 DEF TreeInductive, Planned
  <2>3. at'[j] \in Below(j) /\ ~Excluded(j, at'[j], FALSE)
    BY <2>2, KindsDiffer DEF Wanted
  <2> QED
    BY <2>3, FileIsReached
<1>4. debris' \subseteq debris \cup UNION {Reached(j) : j \in Jobs}
  <2>1. ASSUME NEW j \in Jobs, Crash(j)
        PROVE  debris' \subseteq debris \cup UNION {Reached(i) : i \in Jobs}
    BY <2>1 DEF Crash, TreeInv
  <2>2. ASSUME NEW j \in Jobs, Step(j) \/ Cancel(j) \/ Publish(j)
        PROVE  debris' \subseteq debris
    BY <2>2 DEF Step, Cancel, Publish, Begin, Plan, Advance, MakeDir, MakeLink, Stage, RemoveExtra,
         OpenStaging, Retry, Install, DownloadFails, EndRemove, SweepDir, EndSweep, Finish, diskVars
  <2>3. CASE UNCHANGED vars
    BY <2>3 DEF vars, diskVars
  <2> QED
    BY <2>1, <2>2, <2>3 DEF Next
<1>5. TypeOK'
  BY <1>1 DEF TreeInductive
<1>6. debris' \subseteq UNION {Reached(j) : j \in Jobs}
  BY <1>4 DEF TreeInv
<1> QED
  BY <1>3, <1>5, <1>6 DEF TreeInv, Reached, Pruned

\* For jobs whose rules have no "!" lines, whatever they do at the same time, whatever fails
\* and whoever dies: no staging file is where no later search for extra files comes.
THEOREM StagingIsWithinReach == ASSUME NoExceptions PROVE Spec => []TreeInv
<1>1. Init => TreeInv
  BY TreeInit DEF TreeInductive, TreeInv, Init, No
<1> QED
  BY <1>1, ReachStep, TreeAlways, PTL DEF Spec

-----------------------------------------------------------------------------
(* Jobs whose rules keep them apart.                                       *)

LEMMA ApartAre ==
  ASSUME JobsApart, NEW j \in Jobs, NEW k \in Jobs, j # k, NEW p \in Below(j), p \in Below(k),
         ~ Excluded(j, p, FALSE), ~ Excluded(k, p, FALSE)
  PROVE  FALSE
BY DEF JobsApart

\* What a plan has for a path is not excluded.
LEMMA PlannedPaths ==
  ASSUME TreeInductive, NEW j \in Jobs
  PROVE  /\ \A p \in links[j] : p \in Below(j) /\ ~ Excluded(j, p, FALSE) /\ man[j][p] = Link
         /\ \A p \in extras[j] : p \in Below(j) /\ ~ Excluded(j, p, FALSE) /\ man[j][p] = None
         /\ at[j] # Nowhere =>
              at[j] \in Below(j) /\ ~ Excluded(j, at[j], FALSE) /\ man[j][at[j]] = File
<1>1. Planned(j)
  BY DEF TreeInductive
<1>2. \A p \in Wanted(j) : p \in Below(j) /\ (man[j][p] # Dir => ~ Excluded(j, p, FALSE))
  BY DEF Wanted
<1> QED
  BY <1>1, <1>2, KindsDiffer DEF Planned

\* No other job touches what a job has brought, or turns its extra files into links.
LEMMA OtherJobsApart ==
  ASSUME TreeInductive, RunsApart, JobsApart, NEW j \in Jobs, Step(j) \/ Crash(j) \/ Cancel(j)
        \/ Publish(j),
         NEW i \in Jobs, i # j
  PROVE  Served(i)' /\ FileExtras(i)'
<1>1. /\ pc'[i] = pc[i] /\ man'[i] = man[i] /\ errors'[i] = errors[i] /\ cancelled'[i] = cancelled[i]
      /\ links'[i] = links[i] /\ queue'[i] = queue[i] /\ extras'[i] = extras[i] /\ at'[i] = at[i]
  <2>1. i \in Jobs \ {j} /\ JobTypes
    BY TypesAre DEF TreeInductive
  <2> QED
    BY <2>1, OtherJobsStay
<1>2. Changes(j)
  BY StepTree DEF TreeKept
<1>3. ASSUME NEW p \in Below(i), ~ Excluded(i, p, FALSE)
      PROVE  /\ local[p] \in UpToDate => local'[p] \in UpToDate
             /\ local[p] \in AnyLink <=> local'[p] \in AnyLink
  <2>1. p \in Paths /\ p \notin links[j] /\ p \notin extras[j] /\ p # at[j]
    <3>1. ~ (p \in Below(j) /\ ~ Excluded(j, p, FALSE))
      BY <1>3, ApartAre
    <3>2. p \in Paths /\ Nowhere \notin Paths
      BY <1>3, KindsDiffer
    <3>3. p \notin links[j] /\ p \notin extras[j]
      BY <3>1, PlannedPaths
    <3>4. at[j] # Nowhere => at[j] \in Below(j) /\ ~ Excluded(j, at[j], FALSE)
      BY PlannedPaths
    <3> QED
      BY <3>1, <3>2, <3>3, <3>4
  <2>2. local'[p] = local[p] \/ Change(j, p)
    BY <1>2, <2>1 DEF Changes
  <2> QED
    BY <2>1, <2>2, KindsDiffer DEF Change
<1>4. Wanted(i)' = Wanted(i)
  BY <1>1 DEF Wanted
<1>5. Served(i)'
  <2>1. \A p \in Wanted(i) : man[i][p] \in {File, Link} => p \in Below(i) /\ ~ Excluded(i, p, FALSE)
    BY KindsDiffer DEF Wanted
  <2> QED
    BY <1>1, <1>3, <1>4, <2>1 DEF RunsApart, Served
<1>6. FileExtras(i)'
  BY <1>1, <1>3, PlannedPaths DEF RunsApart, FileExtras
<1> QED
  BY <1>5, <1>6

\* Nor does the job itself.
LEMMA OwnKept ==
  ASSUME TreeInductive, NEW j \in Jobs, Step(j) \/ Crash(j) \/ Cancel(j) \/ Publish(j)
  PROVE  /\ \A p \in Wanted(j) : /\ man[j][p] = File => Kept(p, UpToDate)
                                 /\ man[j][p] = Link => Kept(p, AnyLink) \/ errors'[j]
         /\ \A p \in extras[j] : local[p] \notin AnyLink => local'[p] \notin AnyLink
<1>1. Changes(j)
  BY StepTree DEF TreeKept
<1>2. \A p \in Wanted(j) : p \in Paths
  BY KindsDiffer DEF Wanted
<1>3. \A p \in extras[j] : p \in Paths
  BY PlannedPaths, KindsDiffer
<1>4. /\ Nowhere \notin Paths /\ AnyLink = {Link, Alias} /\ UpToDate = {File, Alias}
      /\ None \notin {File, Link, Alias} /\ File \notin {Link, Alias}
      /\ Dir \notin {None, File, Link, Alias}
  BY KindsDiffer
<1>5. ASSUME NEW p \in Paths, local'[p] # local[p]
      PROVE  /\ man[j][p] = File => Kept(p, UpToDate)
             /\ man[j][p] = Link => Kept(p, AnyLink) \/ errors'[j]
             /\ man[j][p] = None => local[p] \in AnyLink \/ local'[p] \notin AnyLink
  <2>1. /\ p \in links[j] => man[j][p] = Link
        /\ p \in extras[j] => man[j][p] = None
        /\ p = at[j] => man[j][p] = File
    BY <1>4, PlannedPaths
  <2>2. Change(j, p)
    BY <1>1, <1>5 DEF Changes
  <2> QED
    BY <1>4, <2>1, <2>2 DEF Change, Kept
<1>6. \A p \in extras[j] : man[j][p] = None
  BY PlannedPaths
<1> QED
  BY <1>2, <1>3, <1>5, <1>6 DEF Kept

LEMMA OwnServed ==
  ASSUME TreeInductive, NEW j \in Jobs, Served(j), Step(j) \/ Crash(j) \/ Cancel(j) \/ Publish(j)
  PROVE  Served(j)'
<1> USE DEF planVars, workVars, boundVars, diskVars
<1>1. JobTypes /\ Phases(j) /\ (staged[j] => pc[j] = "write")
  BY TypesAre DEF TreeInductive
<1>2. CASE Begin(j) \/ Finish(j) \/ Crash(j)
  <2>1. pc'[j] \in {"idle", "plan"}
    BY <1>1, <1>2 DEF Begin, Finish, Crash, JobTypes
  <2> QED
    BY <2>1 DEF Served
<1>3. CASE Plan(j)
  <2>1. man' = man /\ local' = local
    BY <1>3 DEF Plan
  <2>2. Wanted(j)' = Wanted(j)
    BY <2>1 DEF Wanted
  <2>3. \/ pc'[j] = "idle"
        \/ /\ links'[j] = {p \in Wanted(j) : man[j][p] = Link /\ Symlinks[j]}
           /\ queue'[j] = {p \in Wanted(j) : man[j][p] = File /\ local[p] \notin UpToDate}
    BY <1>1, <1>3 DEF Plan, JobTypes
  <2> QED
    BY <2>1, <2>2, <2>3 DEF Served
<1>4. CASE Cancel(j)
  <2>1. cancelled'[j]
    BY <1>1, <1>4 DEF Cancel, JobTypes
  <2> QED
    BY <2>1 DEF Served
<1>5. CASE Step(j) \/ Publish(j)
  <2> SUFFICES ASSUME ~Begin(j), ~Finish(j), ~Plan(j) PROVE Served(j)'
    BY <1>2, <1>3
  <2>1. man' = man
    BY <1>5 DEF Step, Advance, MakeDir, MakeLink, Stage, RemoveExtra, OpenStaging,
         Retry, Install, DownloadFails, EndRemove, SweepDir, EndSweep, Publish
  <2>2. Wanted(j)' = Wanted(j)
    BY <2>1 DEF Wanted
  <2>3. /\ pc'[j] \notin {"idle", "plan"} => pc[j] \notin {"idle", "plan"}
        /\ (errors[j] => errors'[j]) /\ cancelled'[j] = cancelled[j]
    BY <1>1, <1>5 DEF Step, Advance, MakeDir, MakeLink, Stage, RemoveExtra, OpenStaging,
         Retry, Install, DownloadFails, EndRemove, SweepDir, EndSweep, Publish, JobTypes
  <2>4. \/ errors'[j]
        \/ \A p \in Wanted(j) : /\ man[j][p] = File => Kept(p, UpToDate)
                                /\ man[j][p] = Link => Kept(p, AnyLink)
    BY OwnKept
  <2>5. errors'[j] \/ cancelled'[j] \/ \A p \in Paths :
               /\ p \in queue[j] => p \in queue'[j] \/ p = at'[j]
               /\ p = at[j] => p = at'[j] \/ local'[p] \in UpToDate
               /\ p \in links[j] => p \in links'[j] \/ local'[p] \in AnyLink
    <3>1. ASSUME NEW p \in Paths, MakeLink(j, p)
          PROVE  errors'[j] \/ local'[p] \in AnyLink
      <4>1. local' \in [Paths -> Kinds]
        BY <1>5, StepTree DEF TreeKept, JobTypes
      <4>2. MkdirAll(Up(p)) \in [Paths -> {Dir} \cup Kinds]
        BY <1>1 DEF MkdirAll, JobTypes
      <4> QED
        BY <1>1, <3>1, <4>2 DEF MakeLink, JobTypes
    <3>2. ASSUME NEW p \in Paths, MakeLink(j, p)
          PROVE  queue' = queue /\ at' = at /\ links'[j] = links[j] \ {p}
      BY <1>1, <3>2 DEF MakeLink, JobTypes
    <3>3. ASSUME NEW p \in Paths, Stage(j, p)
          PROVE  \/ errors'[j]
                 \/ /\ links' = links /\ queue'[j] = queue[j] \ {p} /\ at'[j] = p
                    /\ at[j] = Nowhere
      BY <1>1, <3>3 DEF Stage, Phases, JobTypes
    <3>4. CASE Install(j)
      <4>1. local'[at[j]] \in UpToDate /\ queue' = queue /\ links' = links
        BY <1>1, <3>4 DEF Install, Phases, JobTypes, UpToDate
      <4> QED
        BY <4>1
    <3>5. CASE DownloadFails(j)
      BY <1>1, <3>5 DEF DownloadFails, JobTypes
    <3>6. ASSUME NEW p \in Paths, MakeDir(j, p) \/ RemoveExtra(j, p)
          PROVE  queue' = queue /\ at' = at /\ links' = links
      BY <3>6 DEF MakeDir, RemoveExtra
    <3>7. CASE \/ OpenStaging(j) \/ Retry(j) \/ EndRemove(j) \/ EndSweep(j) \/ Publish(j)
               \/ \E d \in Paths \cup {<<>>} : SweepDir(j, d)
      <4>1. queue' = queue /\ at' = at /\ links' = links
        BY <3>7 DEF OpenStaging, Retry, EndRemove, EndSweep, Publish, SweepDir
      <4> QED
        BY <4>1
    <3>8. CASE \E p \in Paths : MakeLink(j, p)
      BY <3>1, <3>2, <3>8
    <3>9. CASE \E p \in Paths : Stage(j, p)
      BY <3>3, <3>9, KindsDiffer
    <3>10. CASE \E p \in Paths : MakeDir(j, p) \/ RemoveExtra(j, p)
      BY <3>6, <3>10
    <3>11. CASE Advance(j)
      <4>1. at' = at /\ links' = links /\ (queue'[j] = queue[j] \/ queue[j] = {} \/ cancelled'[j])
        BY <1>1, <3>11 DEF Advance, JobTypes
      <4> QED
        BY <4>1
    <3> QED
      BY <1>5, <3>4, <3>5, <3>7, <3>8, <3>9, <3>10, <3>11 DEF Step
  <2>6. Wanted(j) \subseteq Paths
    BY KindsDiffer DEF Wanted
  <2>7. CASE errors'[j] \/ cancelled'[j]
    BY <2>7 DEF Served
  <2>8. CASE ~errors'[j] /\ ~cancelled'[j] /\ pc'[j] \notin {"idle", "plan"}
    <3>0. pc[j] \notin {"idle", "plan"} /\ ~errors[j] /\ ~cancelled[j]
      BY <2>3, <2>8
    <3>3. \A p \in Wanted(j) : p \in Paths
      BY <2>6
    <3>4. \A p \in Wanted(j) :
            /\ man[j][p] = File /\ local[p] \in UpToDate => local'[p] \in UpToDate
            /\ man[j][p] = Link /\ local[p] \in AnyLink => local'[p] \in AnyLink
      BY <2>4, <2>8 DEF Kept
    <3>5. \A p \in Paths :
            /\ p \in queue[j] => p \in queue'[j] \/ p = at'[j]
            /\ p = at[j] => p = at'[j] \/ local'[p] \in UpToDate
            /\ p \in links[j] => p \in links'[j] \/ local'[p] \in AnyLink
      BY <2>5, <2>8
    <3>1. ASSUME NEW p \in Wanted(j), man[j][p] = File
          PROVE  p \in queue'[j] \/ p = at'[j] \/ local'[p] \in UpToDate
      <4>1. p \in queue[j] \/ p = at[j] \/ local[p] \in UpToDate
        BY <3>0, <3>1 DEF Served
      <4>2. p \in Paths /\ (local[p] \in UpToDate => local'[p] \in UpToDate)
        BY <3>1, <3>3, <3>4
      <4>3. /\ p \in queue[j] => p \in queue'[j] \/ p = at'[j]
            /\ p = at[j] => p = at'[j] \/ local'[p] \in UpToDate
        BY <3>5, <4>2
      <4> QED
        BY <4>1, <4>2, <4>3
    <3>2. ASSUME NEW p \in Wanted(j), man[j][p] = Link, Symlinks[j]
          PROVE  p \in links'[j] \/ local'[p] \in AnyLink
      <4>1. p \in links[j] \/ local[p] \in AnyLink
        BY <3>0, <3>2 DEF Served
      <4>2. p \in Paths /\ (local[p] \in AnyLink => local'[p] \in AnyLink)
        BY <3>2, <3>3, <3>4
      <4>3. p \in links[j] => p \in links'[j] \/ local'[p] \in AnyLink
        BY <3>5, <4>2
      <4> QED
        BY <4>1, <4>2, <4>3
    <3> QED
      BY <2>1, <2>2, <3>1, <3>2 DEF Served
  <2> QED
    BY <2>7, <2>8 DEF Served
<1> QED
  BY <1>2, <1>4, <1>5

LEMMA OwnExtras ==
  ASSUME TreeInductive, NEW j \in Jobs, FileExtras(j), Step(j) \/ Crash(j) \/ Cancel(j)
        \/ Publish(j)
  PROVE  FileExtras(j)'
<1>1. JobTypes /\ Phases(j)
  BY TypesAre DEF TreeInductive
<1>2. CASE Plan(j)
  <2>1. local' = local /\ (extras'[j] = extras[j] \/ extras'[j] = Extras(j))
    BY <1>1, <1>2 DEF Plan, planVars, JobTypes
  <2> QED
    BY <2>1, KindsDiffer DEF FileExtras, Extras
<1>3. CASE ~ Plan(j)
  <2>1. extras'[j] \subseteq extras[j]
    BY <1>1, <1>3 DEF Step, Crash, Cancel, Publish, Begin, Advance, MakeDir, MakeLink, Stage,
                      RemoveExtra,
         OpenStaging, Retry, Install, DownloadFails, EndRemove, SweepDir, EndSweep, Finish,
         planVars, JobTypes
  <2> QED
    BY <2>1, OwnKept DEF FileExtras
<1> QED
  BY <1>2, <1>3

LEMMA ApartInit == Init => RunsApart
BY DEF Init, RunsApart, Served, FileExtras, Nothing

LEMMA ApartStep ==
  ASSUME JobsApart
  PROVE  TreeInductive /\ RunsApart /\ [Next]_vars => RunsApart'
<1> SUFFICES ASSUME TreeInductive, RunsApart, [Next]_vars PROVE RunsApart'
  OBVIOUS
<1>1. CASE UNCHANGED vars
  BY <1>1 DEF RunsApart, Served, FileExtras, Wanted, vars, diskVars, planVars, workVars, boundVars
<1>2. ASSUME NEW j \in Jobs, Step(j) \/ Crash(j) \/ Cancel(j) \/ Publish(j) PROVE RunsApart'
  <2>1. \A i \in Jobs : i # j => Served(i)' /\ FileExtras(i)'
    BY <1>2, OtherJobsApart
  <2>2. Served(j)' /\ FileExtras(j)'
    BY <1>2, OwnServed, OwnExtras DEF RunsApart
  <2> QED
    BY <2>1, <2>2 DEF RunsApart
<1> QED
  BY <1>1, <1>2 DEF Next

LEMMA ApartAlways == ASSUME JobsApart PROVE Spec => [](TreeInductive /\ RunsApart)
BY TreeInit, TreeStep, ApartInit, ApartStep, PTL DEF Spec

\* Where the rules keep the jobs apart: nothing leaves a destination but for a reason that
\* the manifest of one of them gives.
THEOREM NothingGoesWithoutReason == ASSUME JobsApart PROVE Spec => DeletionsJustified
<1>1. TreeInductive /\ RunsApart /\ [Next]_vars =>
        [\A p \in Paths : local'[p] # local[p] =>
           CASE local[p] \in {File, Other} /\ local'[p] # File ->
                  \E j \in Jobs :
                    /\ p \in Below(j) /\ ~Excluded(j, p, FALSE)
                    /\ edits = 0 => man[j][p] = agent[j][p]
                    /\ \/ man[j][p] = Link /\ p \in links[j]
                       \/ man[j][p] = None /\ p \in extras[j] /\ Mirror[j] /\ ~Pruned(j, p)
             [] local[p] \in AnyLink ->
                  \E j \in Jobs : \/ at[j] = p /\ man[j][p] = File /\ local'[p] = File
                                  \/ p \in links[j] /\ man[j][p] = Link
             [] local[p] = Dir ->
                  /\ Bare(p)
                  /\ \E j \in Jobs : p \in Below(j) /\ man[j][p] # Dir
             [] OTHER -> TRUE]_vars
  <2> SUFFICES ASSUME TreeInductive, RunsApart, NEW j \in Jobs,
                      Step(j) \/ Crash(j) \/ Cancel(j) \/ Publish(j),
                      NEW p \in Paths, local'[p] # local[p]
               PROVE  CASE local[p] \in {File, Other} /\ local'[p] # File ->
                             \E k \in Jobs :
                               /\ p \in Below(k) /\ ~Excluded(k, p, FALSE)
                               /\ edits = 0 => man[k][p] = agent[k][p]
                               /\ \/ man[k][p] = Link /\ p \in links[k]
                                  \/ man[k][p] = None /\ p \in extras[k] /\ Mirror[k]
                                       /\ ~Pruned(k, p)
                        [] local[p] \in AnyLink ->
                             \E k \in Jobs : \/ at[k] = p /\ man[k][p] = File /\ local'[p] = File
                                             \/ p \in links[k] /\ man[k][p] = Link
                        [] local[p] = Dir ->
                             /\ Bare(p)
                             /\ \E k \in Jobs : p \in Below(k) /\ man[k][p] # Dir
                        [] OTHER -> TRUE
    BY DEF Next
  <2>1. Change(j, p)
    BY StepTree DEF TreeKept, Changes
  <2>2. ASSUME p \in links[j] \/ p \in extras[j]
        PROVE  edits = 0 => man[j][p] = agent[j][p]
    <3>1. pc[j] # "idle"
      BY <2>2 DEF TreeInductive, Phases
    <3> QED
      BY <3>1 DEF TreeInductive, Listed
  <2>3. CASE local[p] = None
    BY <2>3, KindsDiffer
  <2>4. CASE local[p] = Dir
    BY <2>1, <2>4, KindsDiffer DEF Change
  <2>5. CASE local[p] \in AnyLink
    <3>1. p \notin extras[j]
      BY <2>5 DEF RunsApart, FileExtras
    <3>2. p \in links[j] \/ (p = at[j] /\ local'[p] = File)
      BY <2>1, <2>5, <3>1, KindsDiffer DEF Change
    <3> QED
      BY <2>5, <3>2, PlannedPaths, KindsDiffer
  <2>6. CASE local[p] \in {File, Other} /\ local'[p] # File
    <3>1. p \in links[j] \/ (p \in extras[j] /\ Mirror[j])
      BY <2>1, <2>6, KindsDiffer DEF Change
    <3>2. p \in extras[j] => ~Pruned(j, p)
      BY DEF TreeInductive, Planned
    <3>3. \E k \in Jobs :
            /\ p \in Below(k) /\ ~Excluded(k, p, FALSE)
            /\ edits = 0 => man[k][p] = agent[k][p]
            /\ \/ man[k][p] = Link /\ p \in links[k]
               \/ man[k][p] = None /\ p \in extras[k] /\ Mirror[k] /\ ~Pruned(k, p)
      BY <2>2, <3>1, <3>2, PlannedPaths
    <3> QED
      BY <2>6, <3>3, KindsDiffer
  <2>7. CASE local[p] = Other /\ local'[p] = File
    BY <2>7, KindsDiffer
  <2>8. local[p] \in {None, File, Other, Dir} \cup AnyLink
    BY KindsDiffer, TypesAre DEF TreeInductive, JobTypes
  <2> QED
    BY <2>3, <2>4, <2>5, <2>6, <2>7, <2>8
<1> QED
  BY <1>1, ApartAlways, PTL DEF Spec, DeletionsJustified

\* Where the rules keep the jobs apart: a run that ends "ok", and was not cancelled, has every
\* file and link of its manifest in place, whatever the sweeps and the transfers of the other
\* jobs did meanwhile.
THEOREM OkRunsAreInstalled == ASSUME JobsApart PROVE Spec => OkMeansInstalled
<1>1. TreeInductive /\ RunsApart /\ [Next]_vars =>
        [\A j \in Jobs : Finish(j) /\ ~errors[j] /\ ~cancelled[j] =>
           \A p \in Wanted(j) :
             /\ man[j][p] = File => local[p] \in UpToDate
             /\ man[j][p] = Link /\ Symlinks[j] => local[p] \in AnyLink]_vars
  <2> SUFFICES ASSUME TreeInductive, RunsApart, NEW j \in Jobs, Finish(j), ~errors[j],
                      ~cancelled[j], NEW p \in Wanted(j)
               PROVE  /\ man[j][p] = File => local[p] \in UpToDate
                      /\ man[j][p] = Link /\ Symlinks[j] => local[p] \in AnyLink
    OBVIOUS
  <2>1. pc[j] = "end" /\ p \in Paths
    BY KindsDiffer DEF Finish, Wanted
  <2>2. queue[j] = {} /\ links[j] = {} /\ at[j] = Nowhere
    BY <2>1 DEF TreeInductive, Phases
  <2> QED
    BY <2>1, <2>2, KindsDiffer DEF RunsApart, Served
<1> QED
  BY <1>1, ApartAlways, PTL DEF Spec, OkMeansInstalled

=============================================================================
