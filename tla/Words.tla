-------------------------------- MODULE Words --------------------------------
(***************************************************************************)
(* The arithmetic on size_t of src/queue/queue.c and src/memory/memory.c,  *)
(* on words of Width bits, which stand for the 64 of a 64-bit build.       *)
(***************************************************************************)
EXTENDS Integers, FiniteSetsExt, SequencesExt

CONSTANT Width

ASSUME WidthAssumption == \E k \in 1 .. 6 : Width = 2 ^ k

SizeMod == 2 ^ Width          \* SIZE_MAX + 1
Words == 0 .. SizeMod - 1
Powers == {2 ^ k : k \in 0 .. Width - 1}
HalfWord == 2 ^ (Width \div 2)   \* 2^32

\* A word as the set of its one bits.
Bits(v) == {k \in 0 .. Width - 1 : (v \div 2 ^ k) % 2 = 1}
Value(B) == MapThenSumSet(LAMBDA k : 2 ^ k, B)

And(v, w) == Value(Bits(v) \cap Bits(w))
Complement(v) == SizeMod - 1 - v

\* v |= v >> n
Smear(B, n) == B \cup {k - n : k \in {j \in B : j >= n}}

\* The shifts 1, 2, 4, ... below the width of the word.  The last one, by half of the
\* word, is compiled only where the macro __SIZEOF_POINTER__ is 8: gcc and clang define
\* it, MSVC does not (0).
Shifts(sizeof_pointer) ==
  SetToSortSeq({n \in Powers : n < Width \div 2 \/ (n = Width \div 2 /\ sizeof_pointer = 8)}, <)

\* Mutant of next_pow2: the last shift is missing.
next_pow2_ShortSmear(v, sizeof_pointer) ==
  IF v = 0 THEN 1
  ELSE (Value(FoldLeft(Smear, Bits(v - 1), Front(Shifts(sizeof_pointer)))) + 1) % SizeMod

\* Every bit below the highest one of v - 1 is set, as far as the shifts reach; then 1 is
\* added.
next_pow2(v, sizeof_pointer) ==
  IF v = 0 THEN 1
  ELSE (Value(FoldLeft(Smear, Bits(v - 1), Shifts(sizeof_pointer))) + 1) % SizeMod

\* What next_pow2 computes, as far as the capacity of a queue depends on it: a power of
\* two up to half of the word, and nothing that is too small above it.
WordFacts(sizeof_pointer) ==
  /\ SizeMod \in Nat /\ Powers \subseteq 1 .. SizeMod \div 2 /\ HalfWord \in Nat
  /\ \A v \in Words : LET pow == next_pow2(v, sizeof_pointer) IN
       IF v <= HalfWord THEN pow \in Powers /\ v <= pow
       ELSE pow \in Nat /\ (v <= pow \/ (pow = 0 /\ v > SizeMod \div 2))

\* Mutant of fq_align_up: an aligned size is moved up as well.
fq_align_up_Always(size, alignment) ==
  IF alignment = 0 \/ And(alignment, alignment - 1) # 0 THEN size
  ELSE And((size + alignment) % SizeMod, Complement(alignment - 1))

fq_align_up(size, alignment) ==
  IF alignment = 0 \/ And(alignment, alignment - 1) # 0 THEN size
  ELSE And((size + alignment - 1) % SizeMod, Complement(alignment - 1))

fq_is_aligned(ptr, alignment) == alignment = 0 \/ And(ptr, alignment - 1) = 0
=============================================================================
