----------------------------- MODULE ShortRanges -----------------------------
(***************************************************************************)
(* ParallelFor for programs that pass no range of more than LONG_MAX       *)
(* indices, so that "long count = end - begin" (parallel.c:39) does not    *)
(* overflow.  Nothing in the code or in parallel.h asks for that;          *)
(* MCLongRange shows what happens otherwise.                               *)
(***************************************************************************)
EXTENDS ParallelFor

ASSUME ShortAssumption == \A r \in Ranges \cup NestedRanges : r[2] - r[1] < LongHalf
=============================================================================
