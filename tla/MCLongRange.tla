----------------------------- MODULE MCLongRange -----------------------------
(***************************************************************************)
(* A pool of two workers and one call whose range has more indices than    *)
(* the largest long.                                                       *)
(***************************************************************************)
EXTENDS ParallelFor

CONSTANT main

OneClient == {main}
OneCapacity == {8}
TwoThreads == {2}
WholeLong == {<<-LongHalf, LongHalf - 1>>}
NoRanges == {}
TwoWorkers == {PoolConfig(2)}
=============================================================================
