------------------------------- MODULE MCPool -------------------------------
(***************************************************************************)
(* Up to two workers; capacities below the minimum, in range, not a        *)
(* power of two, too large, and so large that rounding up wraps.  Two      *)
(* workers serve a call with an odd number of indices, and one of their    *)
(* callbacks may call in turn.                                             *)
(***************************************************************************)
EXTENDS ShortRanges

CONSTANT main

\* The hypothesis of the theorem about the sizes of the rings, for words of this width.
ASSUME WordFactsHold == WordFacts(0) /\ WordFacts(8)

SomeCapacities == {0, 8, 11, 40, 200}
SomeThreadCounts == {0, 1, 2, 9}
SomeCores == {0, 2}

OneClient == {main}
SomeRanges == {<<1, 1>>, <<1, 2>>, <<-1, 2>>}   \* up to LONG_MAX indices
InnerRanges == {<<2, 3>>}
TwoWorkers == {PoolConfig(2)}
=============================================================================
