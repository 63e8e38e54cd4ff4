---------------------------- MODULE ExcludeRules ----------------------------
(***************************************************************************)
(* Exclude rules (proto/match.go), which both ends use.  A path is the     *)
(* sequence of its segments.  A pattern is the sequence of what stands     *)
(* between its slashes: DoubleStar, or the set of the names that the glob  *)
(* there matches.                                                          *)
(***************************************************************************)
EXTENDS Integers, Sequences

CONSTANT DoubleStar

\* A line of the configuration, taken apart: a leading slash, a trailing one, a "!".
Line(slash, segments, trailing, bang) ==
  [slash |-> slash, segments |-> segments, trailing |-> trailing, bang |-> bang]

\* NewMatcher: a leading slash is dropped before the pattern is looked at for one.
Rule(l) ==
  [segments |-> l.segments,
   anyDepth |-> Len(l.segments) = 1,
   dirOnly  |-> l.trailing,
   negate   |-> l.bang]

\* fits[i]: where what is left of the path may begin for the pattern to match it from i on.
matchSegments(pat, segs) ==
  LET fits[i \in 1 .. Len(pat) + 1] ==
        IF i > Len(pat) THEN {Len(segs) + 1}
        ELSE {k \in 1 .. Len(segs) + 1 :
                IF pat[i] = DoubleStar THEN \E n \in k .. Len(segs) + 1 : n \in fits[i + 1]
                ELSE k <= Len(segs) /\ segs[k] \in pat[i] /\ k + 1 \in fits[i + 1]}
  IN 1 \in fits[1]

\* What a pattern means: the path can be cut into as many parts as the pattern has
\* segments, where "**" takes any part and a glob one name that it matches.
PartFits(pat, segs, cut, i) ==
  IF pat[i] = DoubleStar THEN cut[i - 1] <= cut[i]
  ELSE cut[i] = cut[i - 1] + 1 /\ segs[cut[i]] \in pat[i]

Fits(pat, segs) ==
  \E cut \in [0 .. Len(pat) -> 0 .. Len(segs)] :
    /\ cut[0] = 0 /\ cut[Len(pat)] = Len(segs)
    /\ \A i \in 1 .. Len(pat) : PartFits(pat, segs, cut, i)

\* A pattern without a slash: one segment fits, and is a directory if the rule is
\* for directories.
MatchesName(r, segs, isDir) ==
  \E i \in 1 .. Len(segs) :
    /\ r.dirOnly => i < Len(segs) \/ isDir
    /\ r.segments[1] = DoubleStar \/ segs[i] \in r.segments[1]

\* Any other pattern: the path fits, or a directory above it.
MatchesAnchored(r, segs, isDir) ==
  \E k \in 1 .. Len(segs) :
    /\ r.dirOnly => k < Len(segs) \/ isDir
    /\ matchSegments(r.segments, SubSeq(segs, 1, k))

matches(r, segs, isDir) ==
  IF r.anyDepth THEN MatchesName(r, segs, isDir) ELSE MatchesAnchored(r, segs, isDir)

\* Matcher.Match: the last rule that matches decides.  There is a rule that excludes
\* the path, and none after it takes it back.
Match(rules, segs, isDir) ==
  \E i \in DOMAIN rules :
    /\ matches(rules[i], segs, isDir) /\ ~rules[i].negate
    /\ \A n \in i + 1 .. Len(rules) : matches(rules[n], segs, isDir) => ~rules[n].negate
=============================================================================
