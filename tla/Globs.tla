------------------------------- MODULE Globs -------------------------------
(***************************************************************************)
(* The glob algorithms of packages/mailbox/src/globs.ts: globsOverlap, by  *)
(* which acquireLease decides whether two leases may coexist, and          *)
(* globMatchesPath, by which the pre-commit guard decides what a lease     *)
(* covers.                                                                 *)
(*                                                                         *)
(* A segment is a sequence of characters, a glob or a path a sequence of   *)
(* segments (what segments() returns).  The machine below builds every     *)
(* pair of globs of bounded size, segment by segment.                      *)
(***************************************************************************)
EXTENDS Integers, Sequences, SequencesExt

CONSTANTS
    Letters,     \* literal characters, "X" among them
    MaxSegment,  \* bound: characters in a segment
    MaxSegments  \* bound: segments in a glob

ASSUME GlobsAssumption == "X" \in Letters /\ "*" \notin Letters

VARIABLES left, right \* the two globs

globVars == <<left, right>>

Star == <<"*">>
StarStar == <<"*", "*">>

Segments == SeqOf(Letters \cup {"*"}, MaxSegment) \ {<<>>}
Literals == SeqOf(Letters, MaxSegment) \ {<<>>}

\* Paths long enough to hold a common instance of two globs within the bounds.
ConcretePaths == SeqOf(Literals, MaxSegments) \ {<<>>}

HasStar(seg) == \E i \in DOMAIN seg : seg[i] = "*"

\* The anchored regular expression of seg, each * standing for .*, tested on s.
RECURSIVE RegexTest(_, _)
RegexTest(seg, s) ==
    IF seg = <<>> THEN s = <<>>
    ELSE IF Head(seg) = "*"
      THEN RegexTest(Tail(seg), s) \/ (s # <<>> /\ RegexTest(seg, Tail(s)))
      ELSE s # <<>> /\ Head(s) = Head(seg) /\ RegexTest(Tail(seg), Tail(s))

\* seg with every * replaced by the placeholder "X".
Concrete(seg) == [i \in DOMAIN seg |-> IF seg[i] = "*" THEN "X" ELSE seg[i]]

SegmentsCompatible(a, b) ==
    \/ a = b
    \/ /\ HasStar(a) \/ HasStar(b)
       /\ \/ a = Star \/ b = Star
          \/ RegexTest(b, Concrete(a))
          \/ RegexTest(a, Concrete(b))

AllStarStar(glob) == \A i \in DOMAIN glob : glob[i] = StarStar

\* Mutant: ** matches at least one segment.
RECURSIVE WalkNoZero(_, _)
WalkNoZero(a, b) ==
    IF a = <<>> \/ b = <<>> THEN AllStarStar(a) /\ AllStarStar(b)
    ELSE IF Head(a) = StarStar
      THEN WalkNoZero(Tail(a), Tail(b)) \/ WalkNoZero(a, Tail(b))
    ELSE IF Head(b) = StarStar
      THEN WalkNoZero(Tail(a), Tail(b)) \/ WalkNoZero(Tail(a), b)
      ELSE SegmentsCompatible(Head(a), Head(b)) /\ WalkNoZero(Tail(a), Tail(b))

RECURSIVE Walk(_, _)
Walk(a, b) ==
    IF a = <<>> \/ b = <<>> THEN AllStarStar(a) /\ AllStarStar(b)
    ELSE IF Head(a) = StarStar THEN Walk(Tail(a), b) \/ Walk(a, Tail(b))
    ELSE IF Head(b) = StarStar THEN Walk(a, Tail(b)) \/ Walk(Tail(a), b)
    ELSE SegmentsCompatible(Head(a), Head(b)) /\ Walk(Tail(a), Tail(b))

GlobsOverlap(a, b) == Walk(a, b)

RECURSIVE GlobMatchesPath(_, _)
GlobMatchesPath(glob, path) ==
    IF glob = <<>> THEN path = <<>>
    ELSE IF Head(glob) = StarStar
      THEN \/ GlobMatchesPath(Tail(glob), path)
           \/ path # <<>> /\ GlobMatchesPath(glob, Tail(path))
      ELSE /\ path # <<>>
           /\ RegexTest(Head(glob), Head(path))
           /\ GlobMatchesPath(Tail(glob), Tail(path))

GlobInit == left = <<>> /\ right = <<>>

GlobNext ==
    \/ /\ Len(left) < MaxSegments
       /\ \E seg \in Segments : left' = Append(left, seg)
       /\ UNCHANGED right
    \/ /\ Len(right) < MaxSegments
       /\ \E seg \in Segments : right' = Append(right, seg)
       /\ UNCHANGED left

GlobSpec == GlobInit /\ [][GlobNext]_globVars

-----------------------------------------------------------------------------

SharePath == \E path \in ConcretePaths : GlobMatchesPath(left, path) /\ GlobMatchesPath(right, path)

WholeStars(glob) == \A i \in DOMAIN glob : glob[i] \in {Star, StarStar} \/ ~HasStar(glob[i])

\* Globs whose segments are literals, * or ** only: an acquire is granted only
\* when the two leases cover no common path, so no two writers race; and for
\* all globs the answer does not depend on which of the two leases came first.
NoRaceOnWholeStars ==
    /\ WholeStars(left) /\ WholeStars(right) /\ ~GlobsOverlap(left, right) => ~SharePath
    /\ GlobsOverlap(left, right) = GlobsOverlap(right, left)

\* The header of globs.ts: conservative in favour of refusing; two globs that
\* might share a path overlap.
NoFalseDisjoint == SharePath => GlobsOverlap(left, right)
=============================================================================
