------------------------------- MODULE MCTree -------------------------------
(***************************************************************************)
(* Tree for a mirror of the whole tree that leaves out directory b, and a  *)
(* job whose destination is b.                                             *)
(***************************************************************************)
EXTENDS Tree

CONSTANTS whole, part, b, x, y

TwoJobs == {whole, part}
FourPaths == {<<x>>, <<x, y>>, <<b>>, <<b, y>>}
Bases == [j \in Jobs |-> IF j = whole THEN <<>> ELSE <<b>>]
Rules == [j \in Jobs |-> IF j = whole THEN <<Rule(Line(FALSE, <<{b}>>, TRUE, FALSE))>> ELSE <<>>]
Both == [j \in Jobs |-> TRUE]

UpTo3(S) == UNION {[1 .. n -> S] : n \in 0 .. 3}

\* matchSegments finds a cut of the path wherever there is one (match.go:123).
ASSUME MatcherMeansItsRules ==
  \A pat \in UpTo3({DoubleStar, {b}, {b, y}}), segs \in UpTo3({b, y}) :
    matchSegments(pat, segs) <=> Fits(pat, segs)

Plant(kx, kxy, kb, kby) ==
  [p \in Paths |-> CASE p = <<x>> -> kx [] p = <<x, y>> -> kxy [] p = <<b>> -> kb [] OTHER -> kby]

Published ==
  [j \in Jobs |->
     IF j = whole
     THEN {Plant(File, None, None, None), Plant(Link, None, None, None),
           Plant(Dir, None, None, None), Plant(Dir, File, Dir, File)}
     ELSE {Plant(None, None, None, k) : k \in {None, File, Dir}}]

Disks ==
  {Plant(None, None, None, None), Plant(Other, None, Dir, Dir), Plant(Dir, Other, Dir, Other),
   Plant(Dir, Dir, Dir, None), Plant(Link, None, Other, None), Plant(Dir, Alias, None, None)}

\* The rules keep the two jobs apart.
ASSUME RulesKeepApart == JobsApart /\ NoExceptions
=============================================================================
