---------------------------- MODULE MemoryProofs ----------------------------
(***************************************************************************)
(* Proofs about Memory.tla for any number of threads, blocks and sizes and *)
(* any width of the words.                                                 *)
(*                                                                         *)
(* The argument: a call works on a block of its own (OwnInv), so a step    *)
(* changes the contribution of one block only, and by what it adds to      *)
(* g_allocated.  The contributions are summed over the live blocks; that   *)
(* one of them may be taken out of the sum is shown with a smallest set    *)
(* for which it fails.  Wrap commutes with addition, so the counter is the *)
(* wrapped sum.  The same is done for the number of calls.                 *)
(*                                                                         *)
(* At the end, the times of Clock.tla and the orders of Atomics.tla.       *)
(***************************************************************************)
EXTENDS MCMemory, FiniteSetTheorems, TLAPS

-----------------------------------------------------------------------------
(* Sums over finite sets *)

\* The element that the fold takes first.
First(s) == CHOOSE x \in s : TRUE

\* g[s] is the sum of the w[x] for x in s, for every s that is part of S.
IsSum(g, w, S) ==
  g = [s \in SUBSET S |-> IF s = {} THEN 0 ELSE w[First(s)] + g[s \ {First(s)}]]

\* The sum of the w[x] for x in S.
SumOver(w, S) == (CHOOSE g : IsSum(g, w, S))[S]

\* A family of subsets of a finite set has a smallest member.
LEMMA SmallestSet ==
  ASSUME NEW S, IsFiniteSet(S), NEW F, F \subseteq SUBSET S, F # {}
  PROVE  \E s \in F : \A r \in F : r \subseteq s => r = s
<1> DEFINE R == StrictSubsetOrdering(S)
<1>1. IsWellFoundedOn(R, SUBSET S)
  BY FS_StrictSubsetOrderingWellFounded, FS_FiniteSubsetsOfFinite
<1>2. \E s \in F : \A r \in F : ~(<<r, s>> \in R)
  <2> HIDE DEF R
  <2> QED
    BY <1>1, WFMin, Zenon
<1> QED
  BY <1>2 DEF StrictSubsetOrdering

\* The first element of a set belongs to it.
LEMMA FirstType == \A s : s # {} => First(s) \in s
BY DEF First

\* What a sum function gives.
LEMMA SumEquation ==
  ASSUME NEW g, NEW w, NEW S, IsSum(g, w, S)
  PROVE  \A s \in SUBSET S : g[s] = IF s = {} THEN 0 ELSE w[First(s)] + g[s \ {First(s)}]
<1> DEFINE e(s) == IF s = {} THEN 0 ELSE w[First(s)] + g[s \ {First(s)}]
<1>1. g = [s \in SUBSET S |-> e(s)]
  BY DEF IsSum
<1> HIDE DEF e
<1>2. \A s \in SUBSET S : g[s] = e(s)
  BY <1>1
<1> QED
  BY <1>2 DEF e

\* Two sum functions agree where both are defined.
LEMMA SumUnique ==
  ASSUME NEW S, IsFiniteSet(S), NEW T, S \subseteq T, NEW v, NEW w, \A x \in S : v[x] = w[x],
         NEW g, IsSum(g, v, S), NEW h, IsSum(h, w, T)
  PROVE  \A s \in SUBSET S : g[s] = h[s]
<1> DEFINE Bad == {s \in SUBSET S : g[s] # h[s]}
<1> SUFFICES ASSUME Bad # {} PROVE FALSE
  OBVIOUS
<1>1. PICK s \in Bad : \A r \in Bad : r \subseteq s => r = s
  <2>1. Bad \subseteq SUBSET S
    OBVIOUS
  <2> HIDE DEF Bad
  <2> QED
    BY <2>1, SmallestSet
<1>2. s \in SUBSET S /\ s \in SUBSET T /\ g[s] # h[s]
  OBVIOUS
<1>3. /\ g[s] = IF s = {} THEN 0 ELSE v[First(s)] + g[s \ {First(s)}]
      /\ h[s] = IF s = {} THEN 0 ELSE w[First(s)] + h[s \ {First(s)}]
  <2>1. \A r \in SUBSET S : g[r] = IF r = {} THEN 0 ELSE v[First(r)] + g[r \ {First(r)}]
    BY SumEquation
  <2>2. \A r \in SUBSET T : h[r] = IF r = {} THEN 0 ELSE w[First(r)] + h[r \ {First(r)}]
    BY SumEquation
  <2> QED
    BY <1>2, <2>1, <2>2
<1>4. CASE s = {}
  BY <1>2, <1>3, <1>4
<1>5. CASE s # {}
  <2>1. First(s) \in s /\ First(s) \in S
    BY <1>2, <1>5, FirstType
  <2>2. s \ {First(s)} \notin Bad
    BY <1>1, <2>1
  <2>3. g[s \ {First(s)}] = h[s \ {First(s)}]
    BY <1>2, <2>2
  <2> QED
    BY <1>2, <1>3, <1>5, <2>1, <2>3
<1> QED
  BY <1>4, <1>5

\* There is one.
LEMMA SumExists ==
  ASSUME NEW T, IsFiniteSet(T), NEW w
  PROVE  \A S \in SUBSET T : \E g : IsSum(g, w, S)
<1> DEFINE Bad == {S \in SUBSET T : ~\E g : IsSum(g, w, S)}
<1> SUFFICES ASSUME Bad # {} PROVE FALSE
  OBVIOUS
<1>1. PICK S \in Bad : \A R \in Bad : R \subseteq S => R = S
  <2>1. Bad \subseteq SUBSET T
    OBVIOUS
  <2> HIDE DEF Bad
  <2> QED
    BY <2>1, SmallestSet
<1>2. S \in SUBSET T /\ ~\E g : IsSum(g, w, S)
  OBVIOUS
<1> DEFINE part(R) == CHOOSE g : IsSum(g, w, R)
           e(s) == IF s = {} THEN 0 ELSE w[First(s)] + part(s \ {First(s)})[s \ {First(s)}]
           g == [s \in SUBSET S |-> e(s)]
<1>3. ASSUME NEW R \in SUBSET S, R # S PROVE IsFiniteSet(R) /\ IsSum(part(R), w, R)
  <2>1. \E h : IsSum(h, w, R)
    BY <1>1, <1>2, <1>3
  <2> QED
    BY <1>2, <2>1, FS_Subset
<1>4. \A s \in SUBSET S : g[s] = e(s)
  OBVIOUS
<1>5. ASSUME NEW R \in SUBSET S, R # S PROVE g[R] = part(R)[R]
  <2>1. IsSum(part(R), w, R) /\ IsFiniteSet(R)
    BY <1>3, <1>5
  <2>2. part(R)[R] = IF R = {} THEN 0 ELSE w[First(R)] + part(R)[R \ {First(R)}]
    <3> HIDE DEF part
    <3>1. \A s \in SUBSET R :
            part(R)[s] = IF s = {} THEN 0 ELSE w[First(s)] + part(R)[s \ {First(s)}]
      BY <2>1, SumEquation
    <3> QED
      BY <3>1
  <2>3. CASE R = {}
    BY <1>4, <2>2, <2>3
  <2>4. CASE R # {}
    <3> DEFINE Q == R \ {First(R)}
    <3>1. Q \in SUBSET S /\ Q # S /\ Q \subseteq R
      BY <1>5, <2>4, FirstType
    <3>2. IsSum(part(Q), w, Q) /\ IsFiniteSet(Q)
      BY <1>3, <3>1
    <3>3. part(Q)[Q] = part(R)[Q]
      <4> HIDE DEF part, Q
      <4> QED
        BY <2>1, <3>1, <3>2, SumUnique
    <3>4. g[R] = w[First(R)] + part(Q)[Q]
      BY <1>4, <2>4
    <3> QED
      BY <2>2, <2>4, <3>3, <3>4
  <2> QED
    BY <2>3, <2>4
<1>6. ASSUME NEW s \in SUBSET S, s # {} PROVE e(s) = w[First(s)] + g[s \ {First(s)}]
  <2>1. s \ {First(s)} \in SUBSET S /\ s \ {First(s)} # S
    BY <1>6, FirstType
  <2> HIDE DEF g, part
  <2> QED
    BY <1>5, <1>6, <2>1
<1>7. IsSum(g, w, S)
  <2>1. \A s \in SUBSET S : e(s) = IF s = {} THEN 0 ELSE w[First(s)] + g[s \ {First(s)}]
    <3>1. e({}) = 0
      OBVIOUS
    <3> HIDE DEF e, g
    <3> QED
      BY <1>6, <3>1
  <2>2. g = [s \in SUBSET S |-> e(s)]
    OBVIOUS
  <2> HIDE DEF e, g
  <2> QED
    BY <2>1, <2>2 DEF IsSum
<1> QED
  BY <1>2, <1>7

\* A sum is the value of any sum function.
LEMMA SumValue ==
  ASSUME NEW T, IsFiniteSet(T), NEW w, NEW g, IsSum(g, w, T)
  PROVE  \A S \in SUBSET T : SumOver(w, S) = g[S]
<1> SUFFICES ASSUME NEW S \in SUBSET T PROVE SumOver(w, S) = g[S]
  OBVIOUS
<1> DEFINE h == CHOOSE f : IsSum(f, w, S)
<1>1. IsSum(h, w, S) /\ IsFiniteSet(S) /\ S \subseteq T
  BY SumExists, FS_Subset
<1>2. SumOver(w, S) = h[S]
  BY DEF SumOver
<1> HIDE DEF h
<1>3. h[S] = g[S]
  <2>1. \A x \in S : w[x] = w[x]
    OBVIOUS
  <2>2. S \in SUBSET S
    OBVIOUS
  <2> QED
    BY <1>1, <2>1, <2>2, SumUnique
<1> QED
  BY <1>2, <1>3

\* The sum over a set takes its first element first.
LEMMA SumFirst ==
  ASSUME NEW T, IsFiniteSet(T), NEW w
  PROVE  \A S \in SUBSET T :
           SumOver(w, S) = IF S = {} THEN 0 ELSE w[First(S)] + SumOver(w, S \ {First(S)})
<1>1. PICK g : IsSum(g, w, T)
  BY SumExists
<1>2. \A S \in SUBSET T : SumOver(w, S) = g[S]
  BY <1>1, SumValue
<1>3. \A S \in SUBSET T : g[S] = IF S = {} THEN 0 ELSE w[First(S)] + g[S \ {First(S)}]
  BY <1>1, SumEquation
<1>4. \A S \in SUBSET T : S \ {First(S)} \in SUBSET T
  OBVIOUS
<1> QED
  BY <1>2, <1>3, <1>4

\* It depends on the values on that set only.
LEMMA SumSame ==
  ASSUME NEW S, IsFiniteSet(S), NEW v, NEW w, \A x \in S : v[x] = w[x]
  PROVE  SumOver(v, S) = SumOver(w, S)
<1>1. PICK g : IsSum(g, v, S)
  BY SumExists
<1>2. PICK h : IsSum(h, w, S)
  BY SumExists
<1>3. g[S] = h[S]
  BY <1>1, <1>2, SumUnique
<1>4. SumOver(v, S) = g[S]
  BY <1>1, SumValue
<1>5. SumOver(w, S) = h[S]
  BY <1>2, SumValue
<1> QED
  BY <1>3, <1>4, <1>5

\* A sum of naturals is one.
LEMMA SumType ==
  ASSUME NEW T, IsFiniteSet(T), NEW w, \A x \in T : w[x] \in Nat
  PROVE  \A S \in SUBSET T : SumOver(w, S) \in Nat
<1> DEFINE Bad == {S \in SUBSET T : SumOver(w, S) \notin Nat}
<1> SUFFICES ASSUME Bad # {} PROVE FALSE
  OBVIOUS
<1>1. PICK S \in Bad : \A R \in Bad : R \subseteq S => R = S
  <2>1. Bad \subseteq SUBSET T
    OBVIOUS
  <2> HIDE DEF Bad
  <2> QED
    BY <2>1, SmallestSet
<1>2. S \in SUBSET T /\ SumOver(w, S) \notin Nat
  OBVIOUS
<1>3. SumOver(w, S) = IF S = {} THEN 0 ELSE w[First(S)] + SumOver(w, S \ {First(S)})
  <2>1. \A R \in SUBSET T :
           SumOver(w, R) = IF R = {} THEN 0 ELSE w[First(R)] + SumOver(w, R \ {First(R)})
    BY SumFirst
  <2> QED
    BY <1>2, <2>1
<1>4. S # {}
  BY <1>2, <1>3
<1>5. First(S) \in S
  BY <1>4, FirstType
<1>6. SumOver(w, S \ {First(S)}) \in Nat
  BY <1>1, <1>2, <1>5
<1> QED
  BY <1>2, <1>3, <1>4, <1>5, <1>6

\* Any element may be taken first.
LEMMA SumTake ==
  ASSUME NEW T, IsFiniteSet(T), NEW w, \A x \in T : w[x] \in Nat
  PROVE  \A S \in SUBSET T : \A x \in S : SumOver(w, S) = w[x] + SumOver(w, S \ {x})
<1> DEFINE Bad == {S \in SUBSET T : \E x \in S : SumOver(w, S) # w[x] + SumOver(w, S \ {x})}
<1> SUFFICES ASSUME Bad # {} PROVE FALSE
  OBVIOUS
<1>1. PICK S \in Bad : \A R \in Bad : R \subseteq S => R = S
  <2>1. Bad \subseteq SUBSET T
    OBVIOUS
  <2> HIDE DEF Bad
  <2> QED
    BY <2>1, SmallestSet
<1>2. S \in SUBSET T
  OBVIOUS
<1>3. PICK x \in S : SumOver(w, S) # w[x] + SumOver(w, S \ {x})
  OBVIOUS
<1>4. \A R \in SUBSET T :
        R # {} => First(R) \in R /\ SumOver(w, R) = w[First(R)] + SumOver(w, R \ {First(R)})
  BY SumFirst, FirstType
<1>5. PICK y \in S : y = First(S) /\ SumOver(w, S) = w[y] + SumOver(w, S \ {y})
  BY <1>2, <1>3, <1>4
<1>6. x # y
  BY <1>3, <1>5
<1>7. ASSUME NEW z \in S PROVE S \ {z} \in SUBSET T /\ S \ {z} \notin Bad
  BY <1>1, <1>2
<1>8. SumOver(w, S \ {y}) = w[x] + SumOver(w, (S \ {y}) \ {x})
  BY <1>6, <1>7
<1>9. SumOver(w, S \ {x}) = w[y] + SumOver(w, (S \ {x}) \ {y})
  BY <1>6, <1>7
<1>10. (S \ {x}) \ {y} = (S \ {y}) \ {x} /\ (S \ {x}) \ {y} \in SUBSET T
  BY <1>2
<1>11. w[x] \in Nat /\ w[y] \in Nat /\ SumOver(w, (S \ {x}) \ {y}) \in Nat
  BY <1>2, <1>10, SumType
<1> QED
  BY <1>3, <1>5, <1>8, <1>9, <1>10, <1>11

\* The sum of StatsBalance is one of these.
LEMMA CountedSum ==
  ASSUME IsFiniteSet(Live), NEW w, \A b \in Live : w[b] = Counted(b)
  PROVE  MapThenSumSet(Counted, Live) = SumOver(w, Live)
<1> DEFINE F(g) == [s \in SUBSET Live |->
                     IF s = {} THEN 0 ELSE Counted(First(s)) + g[s \ {First(s)}]]
<1>1. MapThenSumSet(Counted, Live) = (CHOOSE g : g = F(g))[Live]
  BY DEF MapThenSumSet, MapThenFoldSet, First
<1>2. ASSUME NEW g PROVE F(g) = [s \in SUBSET Live |->
                     IF s = {} THEN 0 ELSE w[First(s)] + g[s \ {First(s)}]]
  <2>1. \A s \in SUBSET Live : s # {} => w[First(s)] = Counted(First(s))
    BY FirstType
  <2> HIDE DEF Live, Counted
  <2> QED
    BY <2>1
<1>3. \A g : g = F(g) <=> IsSum(g, w, Live)
  BY <1>2 DEF IsSum
<1> HIDE DEF F
<1> DEFINE h == CHOOSE g : g = F(g)
<1>4. \E g : g = F(g)
  BY <1>3, SumExists
<1>5. IsSum(h, w, Live)
  BY <1>3, <1>4
<1> HIDE DEF h
<1>6. SumOver(w, Live) = h[Live]
  BY <1>5, SumValue
<1> QED
  BY <1>1, <1>6 DEF h

-----------------------------------------------------------------------------
(* Arithmetic on an int *)

\* A multiple of m is not between 0 and m.
LEMMA MultipleFar ==
  ASSUME NEW m \in Nat \ {0}, NEW k \in Int
  PROVE  /\ k >= 1 => k * m >= m
         /\ k <= -1 => k * m <= -m
<1>1. CASE k >= 1
  <2>1. PICK j \in Nat : k = j + 1
    <3>1. k - 1 \in Nat /\ k = (k - 1) + 1
      BY <1>1
    <3> QED
      BY <3>1
  <2>2. (j + 1) * m = j * m + m /\ j * m >= 0
    OBVIOUS
  <2> QED
    BY <1>1, <2>1, <2>2
<1>2. CASE k <= -1
  <2>1. PICK j \in Nat : k = -j - 1
    <3>1. -k - 1 \in Nat /\ k = -(-k - 1) - 1
      BY <1>2
    <3> QED
      BY <3>1
  <2>2. (-j - 1) * m = -(j * m) - m /\ j * m >= 0
    OBVIOUS
  <2> QED
    BY <1>2, <2>1, <2>2
<1> QED
  BY <1>1, <1>2

\* Wrapping adds a multiple of the width, and there is one value in the range.
LEMMA WrapIs ==
  ASSUME NEW x \in Int
  PROVE  /\ Wrap(x) \in -IntHalf .. IntHalf - 1
         /\ \E k \in Int : Wrap(x) = x + k * (2 * IntHalf)
<1>0. PICK m \in Nat \ {0} : m = 2 * IntHalf
  BY IntAssumption
<1>1. PICK z \in Int : z = x + IntHalf
  BY IntAssumption
<1>2. z % m \in 0 .. m - 1 /\ z \div m \in Int /\ z = m * (z \div m) + (z % m)
  OBVIOUS
<1>3. PICK q \in Int : q = z \div m
  BY <1>2
<1>4. z % m = z + (-q) * m
  BY <1>2, <1>3
<1>5. Wrap(x) = (z % m) - IntHalf
  BY <1>0, <1>1 DEF Wrap
<1>6. Wrap(x) = x + (-q) * m
  BY <1>1, <1>4, <1>5, IntAssumption
<1>7. Wrap(x) \in -IntHalf .. IntHalf - 1
  BY <1>0, <1>2, <1>5, IntAssumption
<1> QED
  BY <1>0, <1>6, <1>7

\* A value in the range that differs from x by a multiple of the width is Wrap(x).
LEMMA WrapUnique ==
  ASSUME NEW x \in Int, NEW y \in -IntHalf .. IntHalf - 1, NEW k \in Int,
         y = x + k * (2 * IntHalf)
  PROVE  Wrap(x) = y
<1>0. PICK m \in Nat \ {0} : m = 2 * IntHalf
  BY IntAssumption
<1>1. PICK j \in Int : Wrap(x) = x + j * m /\ Wrap(x) \in -IntHalf .. IntHalf - 1
  BY <1>0, WrapIs
<1>2. PICK i \in Int : i = k - j
  OBVIOUS
<1>3. y = x + k * m
  BY <1>0
<1>4. i * m = k * m - j * m
  BY <1>2
<1>5. y - Wrap(x) = i * m
  BY <1>1, <1>3, <1>4
<1>6. -m < y - Wrap(x) /\ y - Wrap(x) < m
  BY <1>0, <1>1, IntAssumption
<1>7. i = 0
  BY <1>5, <1>6, MultipleFar
<1> QED
  BY <1>1, <1>5, <1>7, IntAssumption

\* Wrapping early or late makes no difference.
LEMMA WrapAdd ==
  ASSUME NEW x \in Int, NEW y \in Int
  PROVE  Wrap(Wrap(x) + y) = Wrap(x + y) /\ Wrap(y - Wrap(x)) = Wrap(y - x)
<1>0. PICK m \in Nat \ {0} : m = 2 * IntHalf
  BY IntAssumption
<1>1. PICK u \in Int, j \in Int : u = Wrap(x) /\ u = x + j * m
  <2>1. Wrap(x) \in -IntHalf .. IntHalf - 1
    BY WrapIs
  <2>2. PICK j \in Int : Wrap(x) = x + j * m
    BY <1>0, WrapIs
  <2>3. Wrap(x) \in Int
    BY <2>1, IntAssumption
  <2> QED
    BY <2>2, <2>3
<1>2. Wrap(u + y) = Wrap(x + y)
  <2>1. PICK i \in Int : Wrap(u + y) = u + y + i * m /\ Wrap(u + y) \in -IntHalf .. IntHalf - 1
    BY <1>0, WrapIs
  <2>2. PICK k \in Int : k = i + j
    OBVIOUS
  <2>3. k * m = i * m + j * m
    BY <2>2
  <2>4. Wrap(u + y) = (x + y) + k * m
    BY <1>1, <2>1, <2>3
  <2> QED
    BY <1>0, <2>1, <2>4, WrapUnique
<1>3. Wrap(y - u) = Wrap(y - x)
  <2>1. PICK i \in Int : Wrap(y - u) = y - u + i * m /\ Wrap(y - u) \in -IntHalf .. IntHalf - 1
    BY <1>0, WrapIs
  <2>2. PICK k \in Int : k = i - j
    OBVIOUS
  <2>3. k * m = i * m - j * m
    BY <2>2
  <2>4. Wrap(y - u) = (y - x) + k * m
    BY <1>1, <2>1, <2>3
  <2> QED
    BY <1>0, <2>1, <2>4, WrapUnique
<1> QED
  BY <1>1, <1>2, <1>3

\* A value in the range stays.
LEMMA WrapInRange ==
  ASSUME NEW x \in -IntHalf .. IntHalf - 1
  PROVE  Wrap(x) = x
<1>1. x = x + 0 * (2 * IntHalf) /\ x \in Int
  BY IntAssumption
<1> QED
  BY <1>1, WrapUnique

-----------------------------------------------------------------------------
(* The invariant *)

\* What malloc may return, with the size that its user wants.
Blocks == [size : Nat, bytes : Nat, want : Nat]

\* The types of the variables.
MemoryTypeOK ==
  /\ g_alloc_count \in IntRange /\ g_free_count \in IntRange /\ g_allocated \in IntRange
  /\ g_peak \in Int
  /\ block \in [Ptrs -> Blocks \cup {NULL}]
  /\ pc \in [Threads -> {"idle", "sub", "fcount", "release", "add", "count", "load", "cas"}]
  /\ job \in [Threads -> {"none", "alloc", "realloc", "free"}]
  /\ ptr \in [Threads -> Ptrs \cup {NULL}]
  /\ old \in [Threads -> Nat]
  /\ new_val \in [Threads -> Int] /\ p \in [Threads -> Int]
  /\ over \in BOOLEAN

\* A call works on a live block of its own.
OwnInv ==
  /\ \A t \in Threads : IF pc[t] = "idle" THEN ptr[t] = NULL ELSE ptr[t] \in Live
  /\ \A t, u \in Threads : ptr[t] = ptr[u] /\ ptr[t] # NULL => t = u

\* What a live block contributes, by the state of the call that works on it.
CountedIs ==
  \A b \in Live :
    /\ Counted(b) \in Nat
    /\ (\A t \in Threads : ptr[t] # b) => Counted(b) = Sz32(block[b].size)
    /\ \A t \in Threads : ptr[t] = b =>
         Counted(b) = IF pc[t] \in {"add", "fcount", "release"} THEN 0
                      ELSE IF pc[t] = "sub" THEN Sz32(old[t]) ELSE Sz32(block[b].size)

\* A call owns its block, so its state decides what the block contributes.
LEMMA CountedCases == MemoryTypeOK /\ OwnInv => CountedIs
<1> SUFFICES ASSUME MemoryTypeOK, OwnInv, NEW b \in Live PROVE CountedIs!(b)
  BY DEF CountedIs
<1>1. b # NULL /\ block[b] \in Blocks
  BY MemoryAssumption DEF Live, MemoryTypeOK
<1>2. \A n \in Nat : Sz32(n) \in Nat
  BY IntAssumption DEF Sz32
<1>3. block[b].size \in Nat /\ \A t \in Threads : old[t] \in Nat
  BY <1>1 DEF Blocks, MemoryTypeOK
<1>4. CASE \A t \in Threads : ptr[t] # b
  BY <1>2, <1>3, <1>4 DEF Counted
<1>5. ASSUME NEW t \in Threads, ptr[t] = b PROVE CountedIs!(b)
  <2>1. \A u \in Threads : ptr[u] = b <=> u = t
    BY <1>1, <1>5 DEF OwnInv
  <2>2. (CHOOSE u \in Threads : ptr[u] = b) = t
    BY <2>1
  <2>3. Counted(b) = IF pc[t] \in {"add", "fcount", "release"} THEN 0
                     ELSE IF pc[t] = "sub" THEN Sz32(old[t]) ELSE Sz32(block[b].size)
    BY <1>5, <2>1, <2>2 DEF Counted
  <2> QED
    BY <1>2, <1>3, <2>1, <2>3
<1> QED
  BY <1>4, <1>5

\* And so it does after a step.
LEMMA CountedCasesNext == (MemoryTypeOK /\ OwnInv => CountedIs)'
BY CountedCases, PTL

\* What malloc gives.
LEMMA FreshType ==
  ASSUME NEW size \in Nat, NEW want \in Nat
  PROVE  /\ Fresh(size, want) \in Blocks /\ Fresh(size, want).size = size
         /\ Fresh(size, want) # NULL
<1>1. (Header + size) % (SIZE_MAX + 1) \in Nat
  BY MemoryAssumption
<1>2. Fresh(size, want) \in Blocks /\ Fresh(size, want).size = size
  BY <1>1 DEF Fresh, Blocks
<1> QED
  BY <1>2, MemoryAssumption DEF Blocks

\* The sizes that are asked for.
LEMMA SizeTypes ==
  /\ \A size \in Sizes : size \in Nat
  /\ \A c \in Counts : /\ c[1] \in Nat /\ c[2] \in Nat /\ c[1] * c[2] \in Nat
                       /\ (c[1] * c[2]) % (SIZE_MAX + 1) \in Nat
<1>1. \A size \in Sizes : size \in Nat
  BY MemoryAssumption
<1>2. ASSUME NEW c \in Counts PROVE c[1] \in Nat /\ c[2] \in Nat
  BY MemoryAssumption
<1>3. ASSUME NEW a \in Nat, NEW b \in Nat PROVE a * b \in Nat /\ (a * b) % (SIZE_MAX + 1) \in Nat
  <2>1. PICK m \in Nat : m = a * b
    OBVIOUS
  <2>2. m % (SIZE_MAX + 1) \in Nat
    BY MemoryAssumption
  <2> QED
    BY <2>1, <2>2
<1> QED
  BY <1>1, <1>2, <1>3

\* The steps at which a call begins.
LEMMA BeginsOwn ==
  ASSUME MemoryTypeOK, OwnInv, NEW t \in Threads,
         \/ \E size, want \in Nat : Start(t, size, want)
         \/ fq_realloc(t) \/ fq_free(t)
  PROVE  MemoryTypeOK' /\ OwnInv'
<1>0. NULL \notin Ptrs /\ (\A b \in Ptrs : block[b] # NULL => block[b].size \in Nat)
  BY MemoryAssumption DEF MemoryTypeOK, Blocks
<1>1. ASSUME NEW size \in Nat, NEW want \in Nat, Start(t, size, want)
      PROVE  MemoryTypeOK' /\ OwnInv'
  <2>1. PICK b \in Ptrs \ Live : /\ block' = [block EXCEPT ![b] = Fresh(size, want)]
                                 /\ ptr' = [ptr EXCEPT ![t] = b]
    BY <1>1 DEF Start
  <2>2. MemoryTypeOK'
    BY <1>1, <2>1, FreshType DEF MemoryTypeOK, Start, Goto, globals
  <2>3. Live' = Live \cup {b}
    BY <2>1, FreshType DEF Live, MemoryTypeOK
  <2>4. OwnInv'
    BY <1>0, <1>1, <2>1, <2>3 DEF OwnInv, MemoryTypeOK, Start, Goto
  <2> QED
    BY <2>2, <2>4
<1>2. CASE fq_realloc(t)
  <2>1. PICK b \in Ptrs, size \in Sizes :
          /\ Free(b)
          /\ \E to \in {b} \cup (Ptrs \ Live) :
               /\ block' = [block EXCEPT ![b] = NULL, ![to] = Fresh(size, size)]
               /\ ptr' = [ptr EXCEPT ![t] = to]
          /\ old' = [old EXCEPT ![t] = block[b].size]
    BY <1>2 DEF fq_realloc
  <2>2. PICK to \in {b} \cup (Ptrs \ Live) :
          /\ block' = [block EXCEPT ![b] = NULL, ![to] = Fresh(size, size)]
          /\ ptr' = [ptr EXCEPT ![t] = to]
    BY <2>1
  <2>3. size \in Nat /\ block[b].size \in Nat
    BY <1>0, <2>1, SizeTypes DEF Free, Live
  <2>4. MemoryTypeOK'
    BY <1>2, <2>1, <2>2, <2>3, FreshType DEF MemoryTypeOK, fq_realloc, Goto, globals
  <2>5. Live' = (Live \ {b}) \cup {to}
    BY <2>2, <2>3, FreshType DEF Live, MemoryTypeOK
  <2>6. OwnInv'
    BY <1>0, <1>2, <2>1, <2>2, <2>5 DEF OwnInv, MemoryTypeOK, fq_realloc, Goto, Free
  <2> QED
    BY <2>4, <2>6
<1>3. CASE fq_free(t)
  <2>1. PICK b \in Ptrs : /\ Free(b)
                          /\ ptr' = [ptr EXCEPT ![t] = b]
                          /\ old' = [old EXCEPT ![t] = block[b].size]
    BY <1>3 DEF fq_free
  <2>2. block[b].size \in Nat
    BY <1>0, <2>1 DEF Free, Live
  <2>3. MemoryTypeOK'
    BY <1>3, <2>1, <2>2 DEF MemoryTypeOK, fq_free, Goto, globals
  <2>4. OwnInv'
    BY <1>0, <1>3, <2>1 DEF OwnInv, MemoryTypeOK, fq_free, Goto, Free, Live
  <2> QED
    BY <2>3, <2>4
<1> QED
  BY <1>1, <1>2, <1>3

\* The other steps of a call.
LEMMA StepOwn ==
  ASSUME MemoryTypeOK, OwnInv, NEW t \in Threads, Step(t)
  PROVE  MemoryTypeOK' /\ OwnInv'
<1>0. NULL \notin Ptrs
  BY MemoryAssumption
<1>r. \A x \in Int : Wrap(x) \in IntRange
  BY WrapIs DEF IntRange
<1>i. IntRange \subseteq Int /\ 1 \in Int /\ \A n \in Nat : Sz32(n) \in Nat
  BY IntAssumption DEF IntRange, Sz32
<1>1. CASE StatsSub(t) \/ StatsFreeCount(t) \/ StatsCount(t)
  <2>1. /\ fetch_sub(g_allocated, Sz32(old[t])) \in IntRange
        /\ fetch_add(g_free_count, 1) \in IntRange /\ fetch_add(g_alloc_count, 1) \in IntRange
    BY <1>r, <1>i DEF fetch_sub, fetch_add, MemoryTypeOK
  <2>2. MemoryTypeOK'
    BY <1>1, <2>1 DEF MemoryTypeOK, StatsSub, StatsFreeCount, StatsCount, Goto, locals
  <2>3. OwnInv'
    BY <1>1 DEF MemoryTypeOK, OwnInv, StatsSub, StatsFreeCount, StatsCount, Goto, locals, Live
  <2> QED
    BY <2>2, <2>3
<1>2. CASE StatsAdd(t)
  <2>1. ptr[t] \in Live /\ block[ptr[t]] \in Blocks
    BY <1>2 DEF StatsAdd, OwnInv, Live, MemoryTypeOK
  <2>2. PICK sz \in Nat : sz = Sz32(block[ptr[t]].size)
    BY <1>i, <2>1 DEF Blocks
  <2>a. g_allocated + sz \in Int
    BY <1>i DEF MemoryTypeOK
  <2>3. Wrap(g_allocated + sz) \in IntRange /\ Wrap(g_allocated + sz) \in Int
    BY <1>r, <1>i, <2>a
  <2>4. MemoryTypeOK'
    BY <1>2, <2>2, <2>3 DEF MemoryTypeOK, StatsAdd, fetch_add, Goto
  <2>5. OwnInv'
    BY <1>2 DEF MemoryTypeOK, OwnInv, StatsAdd, Goto, Live
  <2> QED
    BY <2>4, <2>5
<1>3. CASE LoadPeakHigher(t) \/ CasFails(t)
  <2>1. MemoryTypeOK'
    BY <1>3 DEF MemoryTypeOK, LoadPeakHigher, CasFails, Goto, locals, globals
  <2>2. OwnInv'
    BY <1>3 DEF MemoryTypeOK, OwnInv, LoadPeakHigher, CasFails, Goto, locals, Live
  <2> QED
    BY <2>1, <2>2
<1>4. CASE LoadPeakEnough(t) \/ CasSucceeds(t)
  <2>1. MemoryTypeOK'
    BY <1>4 DEF MemoryTypeOK, LoadPeakEnough, CasSucceeds, Goto, Leave, globals
  <2>2. OwnInv'
    BY <1>0, <1>4 DEF MemoryTypeOK, OwnInv, LoadPeakEnough, CasSucceeds, Goto, Leave, Live
  <2> QED
    BY <2>1, <2>2
<1>5. CASE Release(t)
  <2>1. ptr[t] \in Live
    BY <1>5 DEF OwnInv, Release
  <2>a. block' = [block EXCEPT ![ptr[t]] = NULL] /\ UNCHANGED <<globals, over>>
    BY <1>5 DEF Release
  <2>b. block' \in [Ptrs -> Blocks \cup {NULL}]
    BY <2>a DEF MemoryTypeOK
  <2>2. MemoryTypeOK'
    BY <1>5, <2>a, <2>b DEF MemoryTypeOK, Release, Goto, Leave, globals
  <2>3. Live' = Live \ {ptr[t]}
    BY <1>5, <2>1 DEF Release, Live, MemoryTypeOK
  <2>4. OwnInv'
    BY <1>0, <1>5, <2>3 DEF MemoryTypeOK, OwnInv, Release, Goto, Leave, Live
  <2> QED
    BY <2>2, <2>4
<1> QED
  BY <1>1, <1>2, <1>3, <1>4, <1>5 DEF Step

-----------------------------------------------------------------------------
(* The bytes that are counted *)

\* The contributions of the blocks, and the sum over the live ones.
Weight == [b \in Ptrs |-> Counted(b)]
Total == SumOver(Weight, Live)

\* Any live block can be taken out of the sum.
TakeIs ==
  /\ IsFiniteSet(Live) /\ Total \in Nat
  /\ \A b \in Live : /\ Total = Counted(b) + SumOver(Weight, Live \ {b})
                     /\ Counted(b) \in Nat /\ SumOver(Weight, Live \ {b}) \in Nat

\* The sum does not depend on the order of the blocks.
LEMMA TotalTakes == MemoryTypeOK /\ OwnInv => TakeIs
<1> SUFFICES ASSUME MemoryTypeOK, OwnInv PROVE TakeIs
  OBVIOUS
<1>1. IsFiniteSet(Live)
  BY MemoryAssumption, FS_Subset DEF Live
<1>2. \A b \in Live : Weight[b] = Counted(b) /\ Weight[b] \in Nat
  BY CountedCases DEF CountedIs, Weight, Live
<1>3. \A S \in SUBSET Live : SumOver(Weight, S) \in Nat
  BY <1>1, <1>2, SumType
<1>4. \A b \in Live : SumOver(Weight, Live) = Weight[b] + SumOver(Weight, Live \ {b})
  <2>1. \A x \in Live : Weight[x] \in Nat
    BY <1>2
  <2>2. Live \in SUBSET Live
    OBVIOUS
  <2> HIDE DEF Live, Weight
  <2> QED
    BY <1>1, <2>1, <2>2, SumTake
<1> QED
  BY <1>1, <1>2, <1>3, <1>4 DEF TakeIs, Total

\* And it does not after a step.
LEMMA TotalTakesNext == (MemoryTypeOK /\ OwnInv => TakeIs)'
BY TotalTakes, PTL

\* Only thread t moves.
OnlyThread(t) ==
  \A u \in Threads \ {t} : pc'[u] = pc[u] /\ ptr'[u] = ptr[u] /\ old'[u] = old[u]

\* The blocks of which t has no part contribute what they did.
LEMMA OthersSame ==
  ASSUME MemoryTypeOK, OwnInv, MemoryTypeOK', OwnInv', NEW t \in Threads, OnlyThread(t),
         NEW K, K \subseteq Live, K \subseteq Live',
         \A b \in K : ptr[t] # b /\ ptr'[t] # b /\ block'[b] = block[b]
  PROVE  SumOver(Weight', K) = SumOver(Weight, K)
<1>1. CountedIs /\ CountedIs'
  BY CountedCases, CountedCasesNext
<1>2. ASSUME NEW b \in K PROVE Weight'[b] = Weight[b]
  <2>1. Weight'[b] = Counted(b)' /\ Weight[b] = Counted(b) /\ b \in Live /\ b \in Live'
    BY DEF Weight, Live
  <2>2. CASE \A u \in Threads : ptr[u] # b
    <3>1. \A u \in Threads : ptr'[u] # b
      BY <2>2 DEF OnlyThread
    <3>2. Counted(b) = Sz32(block[b].size)
      BY <1>1, <2>1, <2>2 DEF CountedIs
    <3>3. Counted(b)' = Sz32(block'[b].size)
      BY <1>1, <2>1, <3>1 DEF CountedIs, Sz32
    <3> QED
      BY <2>1, <3>2, <3>3
  <2>3. ASSUME NEW u \in Threads, ptr[u] = b PROVE Weight'[b] = Weight[b]
    <3>1. ptr'[u] = b /\ pc'[u] = pc[u] /\ old'[u] = old[u]
      BY <2>3 DEF OnlyThread
    <3>2. Counted(b) = IF pc[u] \in {"add", "fcount", "release"} THEN 0
                       ELSE IF pc[u] = "sub" THEN Sz32(old[u]) ELSE Sz32(block[b].size)
      BY <1>1, <2>1, <2>3 DEF CountedIs
    <3>3. Counted(b)' = IF pc'[u] \in {"add", "fcount", "release"} THEN 0
                        ELSE IF pc'[u] = "sub" THEN Sz32(old'[u]) ELSE Sz32(block'[b].size)
      BY <1>1, <2>1, <3>1 DEF CountedIs, Sz32
    <3> QED
      BY <2>1, <3>1, <3>2, <3>3
  <2> QED
    BY <2>2, <2>3
<1>3. IsFiniteSet(K)
  BY MemoryAssumption, FS_Subset DEF Live
<1> HIDE DEF Weight
<1> QED
  BY <1>2, <1>3, SumSame

\* The call works on block b, before and after the step.
LEMMA TotalMoves ==
  ASSUME MemoryTypeOK, OwnInv, MemoryTypeOK', OwnInv', NEW t \in Threads, OnlyThread(t),
         NEW b \in Live, Live' = Live, \A a \in Live \ {b} : block'[a] = block[a],
         ptr[t] \in {b, NULL}, ptr'[t] \in {b, NULL}
  PROVE  /\ Total' = Total - Counted(b) + Counted(b)'
         /\ Total \in Nat /\ Total' \in Nat /\ Counted(b) \in 0 .. Total /\ Counted(b)' \in Nat
<1>1. TakeIs /\ TakeIs'
  BY TotalTakes, TotalTakesNext
<1>2. \A a \in Live \ {b} : ptr[t] # a /\ ptr'[t] # a
  BY MemoryAssumption DEF Live
<1>3. SumOver(Weight', Live \ {b}) = SumOver(Weight, Live \ {b})
  BY <1>2, OthersSame
<1>4. /\ Total = Counted(b) + SumOver(Weight, Live \ {b}) /\ Total \in Nat
      /\ Counted(b) \in Nat /\ SumOver(Weight, Live \ {b}) \in Nat
  BY <1>1 DEF TakeIs
<1>5. Total' = Counted(b)' + SumOver(Weight', Live' \ {b}) /\ Total' \in Nat /\ Counted(b)' \in Nat
  BY <1>1 DEF TakeIs
<1> QED
  BY <1>3, <1>4, <1>5

\* The beginning of a call leaves the sum as it is.
LEMMA BeginsTotal ==
  ASSUME MemoryTypeOK, OwnInv, NEW t \in Threads,
         \/ \E size, want \in Nat : Start(t, size, want)
         \/ fq_realloc(t) \/ fq_free(t)
  PROVE  Total' = Total
<1>n. MemoryTypeOK' /\ OwnInv'
  BY BeginsOwn
<1>c. CountedIs /\ CountedIs' /\ TakeIs /\ TakeIs'
  BY <1>n, CountedCases, CountedCasesNext, TotalTakes, TotalTakesNext
<1>0. NULL \notin Ptrs /\ (\A b \in Ptrs : block[b] # NULL => block[b].size \in Nat)
  BY MemoryAssumption DEF MemoryTypeOK, Blocks
<1>i. ptr[t] = NULL /\ pc[t] = "idle"
  BY DEF Start, fq_realloc, fq_free, OwnInv
<1>t. OnlyThread(t)
  BY DEF Start, fq_realloc, fq_free, Goto, OnlyThread, MemoryTypeOK
<1>1. ASSUME NEW size \in Nat, NEW want \in Nat, Start(t, size, want)
      PROVE  Total' = Total
  <2>1. PICK b \in Ptrs \ Live : /\ block' = [block EXCEPT ![b] = Fresh(size, want)]
                                 /\ ptr' = [ptr EXCEPT ![t] = b]
    BY <1>1 DEF Start
  <2>2. Live' = Live \cup {b}
    BY <2>1, FreshType DEF Live, MemoryTypeOK
  <2>3. ptr'[t] = b /\ pc'[t] = "add" /\ b \in Live' /\ Live' \ {b} = Live
    BY <1>1, <2>1, <2>2 DEF Start, Goto, MemoryTypeOK
  <2>4. Counted(b)' = 0
    BY <1>c, <2>3 DEF CountedIs
  <2>5. SumOver(Weight', Live) = SumOver(Weight, Live)
    <3>1. \A a \in Live : ptr[t] # a /\ ptr'[t] # a /\ block'[a] = block[a]
      BY <1>0, <1>i, <2>1, <2>3 DEF Live, MemoryTypeOK
    <3> QED
      BY <1>n, <1>t, <2>2, <3>1, OthersSame
  <2>6. Total' = Counted(b)' + SumOver(Weight', Live' \ {b})
    BY <1>c, <2>3 DEF TakeIs
  <2> QED
    BY <1>c, <2>3, <2>4, <2>5, <2>6 DEF Total, TakeIs
<1>2. CASE fq_realloc(t)
  <2>1. PICK b \in Ptrs, size \in Sizes :
          /\ Free(b)
          /\ \E to \in {b} \cup (Ptrs \ Live) :
               /\ block' = [block EXCEPT ![b] = NULL, ![to] = Fresh(size, size)]
               /\ ptr' = [ptr EXCEPT ![t] = to]
          /\ old' = [old EXCEPT ![t] = block[b].size]
    BY <1>2 DEF fq_realloc
  <2>2. PICK to \in {b} \cup (Ptrs \ Live) :
          /\ block' = [block EXCEPT ![b] = NULL, ![to] = Fresh(size, size)]
          /\ ptr' = [ptr EXCEPT ![t] = to]
    BY <2>1
  <2>3. Live' = (Live \ {b}) \cup {to} /\ b \in Live /\ \A u \in Threads : ptr[u] # b
    BY <2>1, <2>2, SizeTypes, FreshType DEF Live, MemoryTypeOK, Free
  <2>4. ptr'[t] = to /\ pc'[t] = "sub" /\ old'[t] = block[b].size /\ to \in Live'
    BY <1>2, <2>1, <2>2, <2>3 DEF fq_realloc, Goto, MemoryTypeOK
  <2>5. Counted(b) = Sz32(block[b].size)
    BY <1>c, <2>3 DEF CountedIs
  <2>6. Counted(to)' = Sz32(old'[t])
    BY <1>c, <2>4 DEF CountedIs, Sz32
  <2>7. Live' \ {to} = Live \ {b}
    BY <2>2, <2>3
  <2>8. SumOver(Weight', Live \ {b}) = SumOver(Weight, Live \ {b})
    <3>1. \A a \in Live \ {b} : ptr[t] # a /\ ptr'[t] # a /\ block'[a] = block[a]
      BY <1>0, <1>i, <2>2, <2>4 DEF Live, MemoryTypeOK
    <3> QED
      BY <1>n, <1>t, <2>7, <3>1, OthersSame
  <2>9. Total' = Counted(to)' + SumOver(Weight', Live' \ {to})
    BY <1>c, <2>4 DEF TakeIs
  <2>10. Total = Counted(b) + SumOver(Weight, Live \ {b})
    BY <1>c, <2>3 DEF TakeIs
  <2> QED
    BY <2>4, <2>5, <2>6, <2>7, <2>8, <2>9, <2>10
<1>3. CASE fq_free(t)
  <2>1. PICK b \in Ptrs : /\ Free(b)
                          /\ ptr' = [ptr EXCEPT ![t] = b]
                          /\ old' = [old EXCEPT ![t] = block[b].size]
    BY <1>3 DEF fq_free
  <2>2. block' = block /\ Live' = Live /\ b \in Live /\ \A u \in Threads : ptr[u] # b
    BY <1>3, <2>1 DEF fq_free, Live, Free
  <2>3. ptr'[t] = b /\ pc'[t] = "sub" /\ old'[t] = block[b].size
    BY <1>3, <2>1 DEF fq_free, Goto, MemoryTypeOK
  <2>4. Counted(b) = Sz32(block[b].size)
    BY <1>c, <2>2 DEF CountedIs
  <2>5. Counted(b)' = Sz32(old'[t])
    BY <1>c, <2>2, <2>3 DEF CountedIs, Sz32
  <2>6. /\ Total' = Total - Counted(b) + Counted(b)'
        /\ Total \in Nat /\ Counted(b) \in 0 .. Total
    BY <1>n, <1>t, <1>i, <2>2, <2>3, TotalMoves
  <2> QED
    BY <2>3, <2>4, <2>5, <2>6
<1> QED
  BY <1>1, <1>2, <1>3

\* The other steps change it as they change g_allocated.
LEMMA StepTotal ==
  ASSUME MemoryTypeOK, OwnInv, NEW t \in Threads, Step(t)
  PROVE  /\ StatsSub(t) => Total' = Total - Sz32(old[t]) /\ Sz32(old[t]) \in 0 .. Total
         /\ StatsAdd(t) => /\ Total' = Total + Sz32(block[ptr[t]].size)
                           /\ Sz32(block[ptr[t]].size) \in Nat
         /\ ~StatsSub(t) /\ ~StatsAdd(t) => Total' = Total
         /\ Total \in Nat /\ Total' \in Nat
<1>n. MemoryTypeOK' /\ OwnInv'
  BY StepOwn
<1>c. CountedIs /\ CountedIs' /\ TakeIs /\ TakeIs'
  BY <1>n, CountedCases, CountedCasesNext, TotalTakes, TotalTakesNext
<1>b. PICK b \in Live : ptr[t] = b
  BY DEF Step, StatsSub, StatsFreeCount, Release, StatsAdd, StatsCount, LoadPeakHigher,
         LoadPeakEnough, CasSucceeds, CasFails, OwnInv
<1>0. b \in Ptrs /\ b # NULL /\ Total \in Nat /\ Total' \in Nat
  BY <1>c, MemoryAssumption DEF Live, TakeIs
<1>t. OnlyThread(t)
  BY DEF Step, StatsSub, StatsFreeCount, Release, StatsAdd, StatsCount, LoadPeakHigher,
         LoadPeakEnough, CasSucceeds, CasFails, Leave, Goto, OnlyThread, MemoryTypeOK, locals
<1>m. ASSUME block' = block, ptr'[t] \in {b, NULL}
      PROVE  /\ Total' = Total - Counted(b) + Counted(b)' /\ Live' = Live
             /\ Counted(b) \in 0 .. Total /\ Counted(b)' \in Nat
  <2>1. Live' = Live
    BY <1>m DEF Live
  <2> QED
    BY <1>n, <1>t, <1>b, <1>m, <2>1, TotalMoves
<1>1. CASE StatsSub(t)
  <2>1. block' = block /\ ptr'[t] = b /\ pc[t] = "sub" /\ pc'[t] = "fcount"
    BY <1>1, <1>b DEF StatsSub, Goto, MemoryTypeOK, locals
  <2>2. Counted(b) = Sz32(old[t]) /\ Counted(b)' = 0
    BY <1>b, <1>c, <1>m, <2>1 DEF CountedIs
  <2> QED
    BY <1>0, <1>1, <1>m, <2>1, <2>2 DEF StatsSub, StatsAdd
<1>2. CASE StatsAdd(t)
  <2>1. block' = block /\ ptr'[t] = b /\ pc[t] = "add" /\ pc'[t] = "count"
    BY <1>2, <1>b DEF StatsAdd, Goto, MemoryTypeOK
  <2>2. Counted(b) = 0
    BY <1>b, <1>c, <1>m, <2>1 DEF CountedIs
  <2>3. Counted(b)' = Sz32(block'[b].size)
    BY <1>b, <1>c, <1>m, <2>1 DEF CountedIs, Sz32
  <2> QED
    BY <1>0, <1>2, <1>b, <1>m, <2>1, <2>2, <2>3 DEF StatsSub, StatsAdd
<1>3. CASE StatsFreeCount(t)
  <2>1. /\ block' = block /\ ptr'[t] = b /\ pc[t] = "fcount" /\ pc'[t] \in {"add", "release"}
    BY <1>3, <1>b DEF StatsFreeCount, Goto, MemoryTypeOK, locals
  <2>2. Counted(b) = 0 /\ Counted(b)' = 0
    BY <1>b, <1>c, <1>m, <2>1 DEF CountedIs
  <2> QED
    BY <1>0, <1>3, <1>m, <2>1, <2>2 DEF StatsSub, StatsAdd, StatsFreeCount
<1>4. CASE StatsCount(t) \/ LoadPeakHigher(t) \/ CasFails(t)
  <2>1. /\ block' = block /\ ptr'[t] = b /\ pc[t] \in {"count", "load", "cas"}
        /\ pc'[t] \in {"load", "cas"}
    BY <1>4, <1>b DEF StatsCount, LoadPeakHigher, CasFails, Goto, MemoryTypeOK, locals
  <2>2. Counted(b) = Sz32(block[b].size)
    BY <1>b, <1>c, <2>1 DEF CountedIs
  <2>3. Counted(b)' = Sz32(block'[b].size)
    BY <1>b, <1>c, <1>m, <2>1 DEF CountedIs, Sz32
  <2> QED
    BY <1>0, <1>m, <2>1, <2>2, <2>3 DEF StatsSub, StatsAdd
<1>5. CASE LoadPeakEnough(t) \/ CasSucceeds(t)
  <2>1. block' = block /\ ptr'[t] = NULL /\ pc[t] \in {"load", "cas"}
    BY <1>5, <1>b DEF LoadPeakEnough, CasSucceeds, Leave, MemoryTypeOK
  <2>2. Counted(b) = Sz32(block[b].size)
    BY <1>b, <1>c, <2>1 DEF CountedIs
  <2>3. \A u \in Threads : ptr'[u] # b
    BY <1>0, <1>b, <1>t, <2>1 DEF OnlyThread, OwnInv
  <2>4. Counted(b)' = Sz32(block'[b].size)
    BY <1>c, <1>m, <2>1, <2>3 DEF CountedIs, Sz32
  <2> QED
    BY <1>0, <1>m, <2>1, <2>2, <2>4 DEF StatsSub, StatsAdd
<1>6. CASE Release(t)
  <2>1. pc[t] = "release" /\ ptr'[t] = NULL /\ block' = [block EXCEPT ![b] = NULL]
    BY <1>6, <1>b DEF Release, Leave, MemoryTypeOK
  <2>2. Live' = Live \ {b}
    BY <2>1 DEF Live, MemoryTypeOK
  <2>3. Counted(b) = 0
    BY <1>b, <1>c, <2>1 DEF CountedIs
  <2>4. SumOver(Weight', Live \ {b}) = SumOver(Weight, Live \ {b})
    <3>1. \A a \in Live \ {b} : ptr[t] # a /\ ptr'[t] # a /\ block'[a] = block[a]
      BY <1>b, <2>1, MemoryAssumption DEF Live, MemoryTypeOK
    <3> QED
      BY <1>n, <1>t, <2>2, <3>1, OthersSame
  <2>5. Total = Counted(b) + SumOver(Weight, Live \ {b}) /\ SumOver(Weight, Live \ {b}) \in Nat
    BY <1>c DEF TakeIs
  <2> QED
    BY <1>0, <2>1, <2>2, <2>3, <2>4, <2>5 DEF Total, StatsSub, StatsAdd
<1> QED
  BY <1>1, <1>2, <1>3, <1>4, <1>5, <1>6 DEF Step

-----------------------------------------------------------------------------
(* The calls that are counted *)

\* The calls of which g_alloc_count or g_free_count is ahead.
Uncounted == {t \in Threads : pc[t] \in {"add", "count", "release"}}
Difference == Cardinality(Live) - Cardinality(Uncounted)

\* Adding or removing one element of a finite set.
LEMMA OneElement ==
  ASSUME NEW S, NEW T, IsFiniteSet(S), NEW x
  PROVE  /\ Cardinality(S) \in Nat
         /\ x \notin S /\ T = S \cup {x} => Cardinality(T) = Cardinality(S) + 1
         /\ x \in S /\ T = S \ {x} => Cardinality(T) = Cardinality(S) - 1
BY FS_CardinalityType, FS_AddElement, FS_RemoveElement

\* The beginning of a call changes both sets alike, or neither.
LEMMA BeginsDifference ==
  ASSUME MemoryTypeOK, OwnInv, NEW t \in Threads,
         \/ \E size, want \in Nat : Start(t, size, want)
         \/ fq_realloc(t) \/ fq_free(t)
  PROVE  Difference' = Difference
<1>f. IsFiniteSet(Live) /\ IsFiniteSet(Uncounted)
  BY MemoryAssumption, FS_Subset DEF Live, Uncounted
<1>d. Cardinality(Live) \in Nat /\ Cardinality(Uncounted) \in Nat
  BY <1>f, FS_CardinalityType
<1>1. ASSUME NEW size \in Nat, NEW want \in Nat, Start(t, size, want)
      PROVE  Difference' = Difference
  <2>1. PICK b \in Ptrs \ Live : block' = [block EXCEPT ![b] = Fresh(size, want)]
    BY <1>1 DEF Start
  <2>2. Live' = Live \cup {b} /\ b \notin Live
    BY <2>1, FreshType DEF Live, MemoryTypeOK
  <2>3. Uncounted' = Uncounted \cup {t} /\ t \notin Uncounted
    BY <1>1 DEF Start, Goto, Uncounted, MemoryTypeOK
  <2>4. /\ Cardinality(Live') = Cardinality(Live) + 1
        /\ Cardinality(Uncounted') = Cardinality(Uncounted) + 1
    BY <1>f, <2>2, <2>3, OneElement
  <2> QED
    BY <1>d, <2>4 DEF Difference
<1>2. CASE fq_realloc(t) \/ fq_free(t)
  <2>1. Uncounted' = Uncounted
    BY <1>2 DEF fq_realloc, fq_free, Goto, Uncounted, MemoryTypeOK
  <2>2. CASE fq_free(t)
    BY <2>1, <2>2 DEF fq_free, Live, Difference
  <2>3. CASE fq_realloc(t)
    <3>1. PICK b \in Ptrs, size \in Sizes :
            /\ Free(b)
            /\ \E to \in {b} \cup (Ptrs \ Live) :
                 block' = [block EXCEPT ![b] = NULL, ![to] = Fresh(size, size)]
      BY <2>3 DEF fq_realloc
    <3>2. PICK to \in {b} \cup (Ptrs \ Live) :
            block' = [block EXCEPT ![b] = NULL, ![to] = Fresh(size, size)]
      BY <3>1
    <3> DEFINE K == Live \ {b}
    <3>3. Live' = K \cup {to} /\ b \in Live /\ to \notin K
      BY <3>1, <3>2, SizeTypes, FreshType DEF Live, MemoryTypeOK, Free
    <3>4. IsFiniteSet(K)
      BY <1>f, FS_RemoveElement
    <3>5. Cardinality(K) = Cardinality(Live) - 1
      BY <1>f, <3>3, OneElement
    <3>6. Cardinality(Live') = Cardinality(K) + 1 /\ Cardinality(K) \in Nat
      <4> HIDE DEF K
      <4> QED
        BY <3>3, <3>4, OneElement
    <3> QED
      BY <1>d, <2>1, <3>5, <3>6 DEF Difference
  <2> QED
    BY <1>2, <2>2, <2>3
<1> QED
  BY <1>1, <1>2

\* The difference moves with the two counters of calls.
LEMMA StepDifference ==
  ASSUME MemoryTypeOK, OwnInv, NEW t \in Threads, Step(t)
  PROVE  /\ Difference \in Int
         /\ StatsFreeCount(t) => Difference' = Difference - 1
         /\ StatsCount(t) => Difference' = Difference + 1
         /\ ~StatsFreeCount(t) /\ ~StatsCount(t) => Difference' = Difference
<1>f. IsFiniteSet(Live) /\ IsFiniteSet(Uncounted)
  BY MemoryAssumption, FS_Subset DEF Live, Uncounted
<1>d. Cardinality(Live) \in Nat /\ Cardinality(Uncounted) \in Nat /\ Difference \in Int
  BY <1>f, FS_CardinalityType DEF Difference
<1>1. CASE StatsFreeCount(t)
  <2>1. Live' = Live
    BY <1>1 DEF StatsFreeCount, Live
  <2>2. Uncounted' = Uncounted \cup {t} /\ t \notin Uncounted
    BY <1>1 DEF StatsFreeCount, Goto, Uncounted, MemoryTypeOK
  <2>3. Cardinality(Uncounted') = Cardinality(Uncounted) + 1
    BY <1>f, <2>2, OneElement
  <2> QED
    BY <1>1, <1>d, <2>1, <2>3 DEF Difference, StatsFreeCount, StatsCount
<1>2. CASE StatsCount(t)
  <2>1. Live' = Live
    BY <1>2 DEF StatsCount, Live
  <2>2. Uncounted' = Uncounted \ {t} /\ t \in Uncounted
    BY <1>2 DEF StatsCount, Goto, Uncounted, MemoryTypeOK
  <2>3. Cardinality(Uncounted') = Cardinality(Uncounted) - 1
    BY <1>f, <2>2, OneElement
  <2> QED
    BY <1>2, <1>d, <2>1, <2>3 DEF Difference, StatsFreeCount, StatsCount
<1>3. CASE Release(t)
  <2>1. ptr[t] \in Live
    BY <1>3 DEF Release, OwnInv
  <2>2. Live' = Live \ {ptr[t]}
    BY <1>3, <2>1 DEF Release, Live, MemoryTypeOK
  <2>3. Uncounted' = Uncounted \ {t} /\ t \in Uncounted
    BY <1>3 DEF Release, Leave, Goto, Uncounted, MemoryTypeOK
  <2>4. /\ Cardinality(Live') = Cardinality(Live) - 1
        /\ Cardinality(Uncounted') = Cardinality(Uncounted) - 1
    BY <1>f, <2>1, <2>2, <2>3, OneElement
  <2> QED
    BY <1>3, <1>d, <2>4 DEF Difference, Release, StatsFreeCount, StatsCount
<1>4. CASE StatsSub(t) \/ StatsAdd(t) \/ LoadPeakHigher(t) \/ LoadPeakEnough(t) \/ CasSucceeds(t)
             \/ CasFails(t)
  <2>1. Live' = Live
    BY <1>4 DEF StatsSub, StatsAdd, LoadPeakHigher, LoadPeakEnough, CasSucceeds, CasFails, Live
  <2>2. Uncounted' = Uncounted
    BY <1>4 DEF StatsSub, StatsAdd, LoadPeakHigher, LoadPeakEnough, CasSucceeds, CasFails, Leave,
                Goto, Uncounted, MemoryTypeOK
  <2>3. ~StatsFreeCount(t) /\ ~StatsCount(t)
    BY <1>4 DEF StatsSub, StatsAdd, LoadPeakHigher, LoadPeakEnough, CasSucceeds, CasFails,
                StatsFreeCount, StatsCount
  <2> QED
    BY <1>d, <2>1, <2>2, <2>3 DEF Difference
<1> QED
  BY <1>1, <1>2, <1>3, <1>4 DEF Step

-----------------------------------------------------------------------------
(* Every step keeps the invariant *)

\* The counter is the sum, and exactly so until it has overflown.
BytesInv == g_allocated = Wrap(Total) /\ (over \/ g_allocated = Total)

\* So is the difference of the two counters of calls.
CallsInv == Wrap(g_alloc_count - g_free_count) = Wrap(Difference)

\* A compare-and-exchange raises the peak.
PeakInv == PeakCatchesUp /\ \A t \in Threads : pc[t] = "cas" => p[t] < new_val[t]

\* The inductive invariant.
MemoryInv == MemoryTypeOK /\ OwnInv /\ BytesInv /\ CallsInv /\ PeakInv /\ RoomForRequest

\* The calls that begin, by what they do to the blocks.
Begins(t) == (\E size, want \in Nat : Start(t, size, want)) \/ fq_realloc(t) \/ fq_free(t)

\* Every call begins in one of three ways.
LEMMA BeginSteps ==
  ASSUME NEW t \in Threads, fq_alloc(t) \/ fq_calloc(t) \/ fq_realloc(t) \/ fq_free(t)
  PROVE  Begins(t)
BY SizeTypes DEF fq_alloc, fq_calloc, Begins

\* g_allocated follows the sum (memory.c:23-48).
LEMMA KeepsBytes ==
  ASSUME MemoryInv, NEW t \in Threads, Begins(t) \/ Step(t)
  PROVE  BytesInv'
<1>i. MemoryTypeOK /\ OwnInv /\ BytesInv
  BY DEF MemoryInv
<1>g. g_allocated \in Int /\ over \in BOOLEAN
  BY <1>i, IntAssumption DEF MemoryTypeOK, IntRange
<1>1. CASE Begins(t)
  <2>1. Total' = Total
    BY <1>1, <1>i, BeginsTotal DEF Begins
  <2>2. UNCHANGED <<g_allocated, over>>
    BY <1>1 DEF Begins, Start, fq_realloc, fq_free, globals
  <2> QED
    BY <1>i, <2>1, <2>2 DEF BytesInv
<1>2. CASE StatsSub(t)
  <2>1. PICK sz \in Nat : sz = Sz32(old[t]) /\ sz <= Total /\ Total' = Total - sz /\ Total \in Nat
    BY <1>2, <1>i, StepTotal DEF Step
  <2>2. g_allocated' = Wrap(g_allocated - sz) /\ over' = over
    BY <1>2, <2>1 DEF StatsSub, fetch_sub
  <2>3. Wrap(Wrap(Total) - sz) = Wrap(Total - sz)
    <3>1. Wrap(Wrap(Total) + (-sz)) = Wrap(Total + (-sz))
      BY <2>1, WrapAdd
    <3>2. Wrap(Total) \in Int
      BY <1>i, <1>g DEF BytesInv
    <3>3. Wrap(Total) + (-sz) = Wrap(Total) - sz /\ Total + (-sz) = Total - sz
      BY <2>1, <3>2
    <3> QED
      BY <3>1, <3>3
  <2>4. g_allocated' = Wrap(Total')
    BY <1>i, <2>1, <2>2, <2>3 DEF BytesInv
  <2>5. ASSUME ~over PROVE g_allocated' = Total'
    <3>1. Total - sz \in -IntHalf .. IntHalf - 1
      BY <1>i, <2>1, <2>5, IntAssumption DEF BytesInv, MemoryTypeOK, IntRange
    <3> QED
      BY <2>1, <2>4, <3>1, WrapInRange
  <2> QED
    BY <2>2, <2>4, <2>5 DEF BytesInv
<1>3. CASE StatsAdd(t)
  <2>1. PICK sz \in Nat : sz = Sz32(block[ptr[t]].size) /\ Total' = Total + sz /\ Total \in Nat
    BY <1>3, <1>i, StepTotal DEF Step
  <2>2. /\ g_allocated' = Wrap(g_allocated + sz)
        /\ over' = (over \/ g_allocated + sz >= IntHalf)
    BY <1>3, <2>1 DEF StatsAdd, fetch_add
  <2>3. Wrap(Wrap(Total) + sz) = Wrap(Total + sz)
    BY <2>1, WrapAdd
  <2>4. g_allocated' = Wrap(Total')
    BY <1>i, <2>1, <2>2, <2>3 DEF BytesInv
  <2>5. ASSUME ~over' PROVE g_allocated' = Total'
    <3>1. ~over /\ ~(g_allocated + sz >= IntHalf)
      BY <2>2, <2>5
    <3>2. Total + sz \in -IntHalf .. IntHalf - 1
      BY <1>i, <1>g, <2>1, <3>1, IntAssumption DEF BytesInv
    <3> QED
      BY <2>1, <2>4, <3>2, WrapInRange
  <2> QED
    BY <2>4, <2>5 DEF BytesInv
<1>4. CASE Step(t) /\ ~StatsSub(t) /\ ~StatsAdd(t)
  <2>1. Total' = Total
    BY <1>4, <1>i, StepTotal
  <2>2. UNCHANGED <<g_allocated, over>>
    BY <1>4 DEF Step, StatsFreeCount, Release, StatsCount, LoadPeakHigher, LoadPeakEnough,
                CasSucceeds, CasFails, globals
  <2> QED
    BY <1>i, <2>1, <2>2 DEF BytesInv
<1> QED
  BY <1>1, <1>2, <1>3, <1>4

\* g_alloc_count and g_free_count follow the number of blocks.
LEMMA KeepsCalls ==
  ASSUME MemoryInv, NEW t \in Threads, Begins(t) \/ Step(t)
  PROVE  CallsInv'
<1>i. MemoryTypeOK /\ OwnInv /\ CallsInv
  BY DEF MemoryInv
<1>g. g_alloc_count \in Int /\ g_free_count \in Int
  BY <1>i, IntAssumption DEF MemoryTypeOK, IntRange
<1> DEFINE n == g_alloc_count - g_free_count
<1>n. n \in Int /\ Wrap(n) = Wrap(Difference)
  BY <1>i, <1>g DEF CallsInv
<1>1. CASE Begins(t)
  <2>1. Difference' = Difference
    BY <1>1, <1>i, BeginsDifference DEF Begins
  <2>2. UNCHANGED <<g_alloc_count, g_free_count>>
    BY <1>1 DEF Begins, Start, fq_realloc, fq_free, globals
  <2> QED
    BY <1>i, <2>1, <2>2 DEF CallsInv
<1>2. CASE StatsFreeCount(t)
  <2>1. Difference' = Difference - 1 /\ Difference \in Int
    BY <1>2, <1>i, StepDifference DEF Step
  <2>2. g_free_count' = Wrap(g_free_count + 1) /\ g_alloc_count' = g_alloc_count
    BY <1>2 DEF StatsFreeCount, fetch_add
  <2>3. Wrap(g_alloc_count - Wrap(g_free_count + 1)) = Wrap(g_alloc_count - (g_free_count + 1))
    <3>1. g_free_count + 1 \in Int
      BY <1>g
    <3> QED
      BY <1>g, <3>1, WrapAdd
  <2>4. g_alloc_count - (g_free_count + 1) = n + (-1) /\ Difference + (-1) = Difference - 1
    BY <1>g, <2>1
  <2> HIDE DEF n
  <2>5. Wrap(n + (-1)) = Wrap(Wrap(n) + (-1))
    BY <1>n, WrapAdd
  <2>6. Wrap(Difference + (-1)) = Wrap(Wrap(Difference) + (-1))
    BY <2>1, WrapAdd
  <2> QED
    BY <1>n, <2>1, <2>2, <2>3, <2>4, <2>5, <2>6 DEF CallsInv
<1>3. CASE StatsCount(t)
  <2>1. Difference' = Difference + 1 /\ Difference \in Int
    BY <1>3, <1>i, StepDifference DEF Step
  <2>2. g_alloc_count' = Wrap(g_alloc_count + 1) /\ g_free_count' = g_free_count
    BY <1>3 DEF StatsCount, fetch_add
  <2>3. Wrap(Wrap(g_alloc_count + 1) + (-g_free_count)) = Wrap((g_alloc_count + 1) + (-g_free_count))
    <3>1. g_alloc_count + 1 \in Int /\ -g_free_count \in Int
      BY <1>g
    <3> QED
      BY <3>1, WrapAdd
  <2>4. /\ (g_alloc_count + 1) + (-g_free_count) = n + 1
        /\ Wrap(g_alloc_count + 1) + (-g_free_count) = Wrap(g_alloc_count + 1) - g_free_count
    <3>1. Wrap(g_alloc_count + 1) \in Int
      BY <1>3, <1>i, <2>2, StepOwn, IntAssumption DEF Step, MemoryTypeOK, IntRange
    <3> QED
      BY <1>g, <3>1
  <2> HIDE DEF n
  <2>5. Wrap(n + 1) = Wrap(Wrap(n) + 1)
    BY <1>n, WrapAdd
  <2>6. Wrap(Difference + 1) = Wrap(Wrap(Difference) + 1)
    BY <2>1, WrapAdd
  <2> QED
    BY <1>n, <2>1, <2>2, <2>3, <2>4, <2>5, <2>6 DEF CallsInv
<1>4. CASE Step(t) /\ ~StatsFreeCount(t) /\ ~StatsCount(t)
  <2>1. Difference' = Difference
    BY <1>4, <1>i, StepDifference
  <2>2. UNCHANGED <<g_alloc_count, g_free_count>>
    BY <1>4 DEF Step, StatsSub, Release, StatsAdd, LoadPeakHigher, LoadPeakEnough,
                CasSucceeds, CasFails, globals
  <2> QED
    BY <1>i, <2>1, <2>2 DEF CallsInv
<1> QED
  BY <1>1, <1>2, <1>3, <1>4

\* A thread that leaves the loop has found or made the peak as high as its own value, and
\* a lower peak never overwrites a higher one (memory.c:31-39).
LEMMA KeepsPeak ==
  ASSUME MemoryInv, NEW t \in Threads, Begins(t) \/ Step(t)
  PROVE  PeakInv'
<1>i. MemoryTypeOK /\ OwnInv /\ BytesInv /\ PeakInv
  BY DEF MemoryInv
<1>g. /\ g_allocated \in Int /\ g_peak \in Int /\ over \in BOOLEAN
      /\ \A u \in Threads : new_val[u] \in Int /\ p[u] \in Int
  BY <1>i, IntAssumption DEF MemoryTypeOK, IntRange
<1> DEFINE Covered == g_allocated <= g_peak
           By(u) == pc[u] \in {"count", "load", "cas"} /\ g_allocated <= new_val[u]
<1>c. over \/ Covered \/ \E u \in Threads : By(u)
  BY <1>i DEF PeakInv, PeakCatchesUp
<1>p. \A u \in Threads : pc[u] = "cas" => p[u] < new_val[u]
  BY <1>i DEF PeakInv
<1>1. CASE Begins(t)
  <2>1. /\ UNCHANGED <<g_allocated, g_peak, over, new_val, p>> /\ pc[t] = "idle"
        /\ pc' \in [Threads -> {"idle", "sub", "fcount", "release", "add", "count", "load", "cas"}]
        /\ pc'[t] \in {"add", "sub"} /\ \A u \in Threads \ {t} : pc'[u] = pc[u]
    BY <1>1, <1>i DEF Begins, Start, fq_realloc, fq_free, Goto, globals, MemoryTypeOK
  <2>2. PeakCatchesUp'
    BY <1>c, <2>1 DEF PeakCatchesUp
  <2> QED
    BY <1>p, <2>1, <2>2 DEF PeakInv
<1>2. CASE StatsSub(t)
  <2>1. /\ UNCHANGED <<g_peak, over, new_val, p>> /\ pc[t] = "sub" /\ pc'[t] = "fcount"
        /\ \A u \in Threads \ {t} : pc'[u] = pc[u]
    BY <1>2, <1>i DEF StatsSub, Goto, MemoryTypeOK, locals
  <2>2. over \/ g_allocated' <= g_allocated
    <3>1. Total' = Total - Sz32(old[t]) /\ Sz32(old[t]) \in Nat /\ Total \in Nat
      BY <1>2, <1>i, StepTotal DEF Step
    <3>2. BytesInv'
      BY <1>2, KeepsBytes DEF Step
    <3> QED
      BY <1>i, <2>1, <3>1, <3>2 DEF BytesInv
  <2>3. g_allocated' \in Int
    BY <1>2, <1>i, StepOwn, IntAssumption DEF Step, MemoryTypeOK, IntRange
  <2>4. PeakCatchesUp'
    BY <1>c, <1>g, <2>1, <2>2, <2>3 DEF PeakCatchesUp
  <2> QED
    BY <1>p, <2>1, <2>4 DEF PeakInv
<1>3. CASE StatsAdd(t)
  <2>1. /\ UNCHANGED <<g_peak, p>> /\ pc'[t] = "count" /\ \A u \in Threads \ {t} : pc'[u] = pc[u]
        /\ new_val'[t] = g_allocated' /\ \A u \in Threads \ {t} : new_val'[u] = new_val[u]
    BY <1>3, <1>i DEF StatsAdd, fetch_add, Goto, MemoryTypeOK
  <2>2. g_allocated' \in Int
    BY <1>3, <1>i, StepOwn, IntAssumption DEF Step, MemoryTypeOK, IntRange
  <2>3. PeakCatchesUp'
    BY <2>1, <2>2 DEF PeakCatchesUp
  <2> QED
    BY <1>p, <2>1, <2>3 DEF PeakInv
<1>4. CASE StatsFreeCount(t) \/ Release(t)
  <2>1. /\ UNCHANGED <<g_allocated, g_peak, over>> /\ pc[t] \in {"fcount", "release"}
        /\ pc'[t] \in {"add", "release", "idle"}
        /\ \A u \in Threads \ {t} : pc'[u] = pc[u] /\ new_val'[u] = new_val[u] /\ p'[u] = p[u]
    BY <1>4, <1>i DEF StatsFreeCount, Release, Leave, Goto, MemoryTypeOK, locals, globals
  <2>2. PeakCatchesUp'
    BY <1>c, <2>1 DEF PeakCatchesUp
  <2> QED
    BY <1>p, <2>1, <2>2 DEF PeakInv
<1>5. CASE StatsCount(t) \/ CasFails(t)
  <2>1. /\ UNCHANGED <<g_allocated, g_peak, over, new_val, p>> /\ pc'[t] = "load"
        /\ \A u \in Threads \ {t} : pc'[u] = pc[u]
    BY <1>5, <1>i DEF StatsCount, CasFails, Goto, MemoryTypeOK, locals, globals
  <2>2. PeakCatchesUp'
    BY <1>c, <2>1 DEF PeakCatchesUp
  <2> QED
    BY <1>p, <2>1, <2>2 DEF PeakInv
<1>6. CASE LoadPeakHigher(t)
  <2>1. /\ UNCHANGED <<g_allocated, g_peak, over, new_val>> /\ pc'[t] = "cas"
        /\ new_val[t] > g_peak /\ p'[t] = g_peak
        /\ \A u \in Threads \ {t} : pc'[u] = pc[u] /\ p'[u] = p[u]
    BY <1>6, <1>i DEF LoadPeakHigher, Goto, MemoryTypeOK, globals
  <2>2. PeakCatchesUp'
    BY <1>c, <2>1 DEF PeakCatchesUp
  <2> QED
    BY <1>g, <1>p, <2>1, <2>2 DEF PeakInv
<1>7. CASE LoadPeakEnough(t)
  <2>1. /\ UNCHANGED <<g_allocated, g_peak, over>> /\ pc'[t] = "idle" /\ new_val[t] <= g_peak
        /\ \A u \in Threads \ {t} : pc'[u] = pc[u] /\ new_val'[u] = new_val[u] /\ p'[u] = p[u]
    BY <1>7, <1>i DEF LoadPeakEnough, Leave, Goto, MemoryTypeOK, globals
  <2>2. PeakCatchesUp'
    BY <1>c, <1>g, <2>1 DEF PeakCatchesUp
  <2> QED
    BY <1>p, <2>1, <2>2 DEF PeakInv
<1>8. CASE CasSucceeds(t)
  <2>1. /\ UNCHANGED <<g_allocated, over>> /\ pc'[t] = "idle" /\ g_peak' = new_val[t]
        /\ pc[t] = "cas" /\ g_peak = p[t]
        /\ \A u \in Threads \ {t} : pc'[u] = pc[u] /\ new_val'[u] = new_val[u] /\ p'[u] = p[u]
    BY <1>8, <1>i DEF CasSucceeds, Leave, Goto, MemoryTypeOK
  <2>2. g_peak < g_peak'
    BY <1>p, <2>1
  <2>3. PeakCatchesUp'
    BY <1>c, <1>g, <2>1, <2>2 DEF PeakCatchesUp
  <2> QED
    BY <1>p, <2>1, <2>3 DEF PeakInv
<1> QED
  BY <1>1, <1>2, <1>3, <1>4, <1>5, <1>6, <1>7, <1>8 DEF Step

\* A product that passes the check of fq_calloc fits (memory.c:111).
LEMMA ProductFits ==
  ASSUME NEW a \in Nat, NEW b \in Nat, ~(a # 0 /\ b > SIZE_MAX \div a)
  PROVE  a * b \in 0 .. SIZE_MAX
<1>0. SIZE_MAX \in Nat
  BY MemoryAssumption
<1>1. CASE a = 0
  BY <1>0, <1>1
<1>2. CASE a # 0
  <2>1. PICK q \in Nat, r \in 0 .. a - 1 : SIZE_MAX = a * q + r /\ q = SIZE_MAX \div a
    <3>1. /\ SIZE_MAX \div a \in Nat /\ SIZE_MAX % a \in 0 .. a - 1
          /\ SIZE_MAX = a * (SIZE_MAX \div a) + (SIZE_MAX % a)
      BY <1>0, <1>2
    <3> QED
      BY <3>1
  <2>2. PICK d \in Nat : q = b + d
    <3>1. q - b \in Nat /\ q = b + (q - b)
      BY <1>2, <2>1
    <3> QED
      BY <3>1
  <2>3. a * (b + d) = a * b + a * d /\ a * d \in Nat /\ a * b \in Nat
    OBVIOUS
  <2>4. SIZE_MAX = (a * b + a * d) + r
    BY <2>1, <2>2, <2>3
  <2> QED
    BY <1>0, <2>3, <2>4
<1> QED
  BY <1>1, <1>2

\* A block that is allocated with the size that its user wants has room for it, unless
\* the sum with the header wraps.
LEMMA FreshRoom ==
  ASSUME NEW size \in 0 .. SIZE_MAX
  PROVE  \/ Fresh(size, size).bytes >= Header + Fresh(size, size).want
         \/ /\ Fresh(size, size).want > SIZE_MAX - Header
            /\ Fresh(size, size).want = Fresh(size, size).size
<1>0. SIZE_MAX \in Nat /\ Header \in Nat /\ size \in Nat
  BY MemoryAssumption
<1>1. CASE Header + size <= SIZE_MAX
  <2>1. (Header + size) % (SIZE_MAX + 1) = Header + size
    BY <1>0, <1>1
  <2> QED
    BY <1>0, <2>1 DEF Fresh
<1>2. CASE size > SIZE_MAX - Header
  BY <1>2 DEF Fresh
<1> QED
  BY <1>0, <1>1, <1>2

\* Every allocation is one with the size that its user wants.
LEMMA Requests ==
  ASSUME NEW t \in Threads, fq_alloc(t) \/ fq_calloc(t)
  PROVE  \E n \in 0 .. SIZE_MAX : Start(t, n, n)
<1>1. CASE fq_alloc(t)
  BY <1>1, MemoryAssumption DEF fq_alloc
<1>2. CASE fq_calloc(t)
  <2>1. PICK c \in Counts : /\ ~(c[1] # 0 /\ c[2] > SIZE_MAX \div c[1])
                            /\ Start(t, (c[1] * c[2]) % (SIZE_MAX + 1), c[1] * c[2])
    BY <1>2 DEF fq_calloc
  <2>2. c[1] * c[2] \in 0 .. SIZE_MAX
    BY <2>1, SizeTypes, ProductFits
  <2>3. PICK n \in 0 .. SIZE_MAX : n = c[1] * c[2]
    BY <2>2
  <2>4. n % (SIZE_MAX + 1) = n
    BY MemoryAssumption
  <2> QED
    BY <2>1, <2>3, <2>4
<1> QED
  BY <1>1, <1>2

\* A block keeps the room that it was allocated or reallocated with.
LEMMA KeepsRoom ==
  ASSUME MemoryInv, NEW t \in Threads,
         fq_alloc(t) \/ fq_calloc(t) \/ fq_realloc(t) \/ fq_free(t) \/ Step(t)
  PROVE  RoomForRequest'
<1>i. MemoryTypeOK /\ RoomForRequest
  BY DEF MemoryInv
<1> DEFINE Roomy(x) == \/ x.bytes >= Header + x.want
                       \/ x.want > SIZE_MAX - Header /\ x.want = x.size
<1>r. RoomForRequest <=> \A b \in Ptrs : block[b] # NULL => Roomy(block[b])
  BY DEF RoomForRequest, Live
<1>s. RoomForRequest' <=> \A b \in Ptrs : block'[b] # NULL => Roomy(block'[b])
  BY DEF RoomForRequest, Live
<1>f. \A n \in 0 .. SIZE_MAX : Roomy(Fresh(n, n))
  BY FreshRoom
<1> HIDE DEF Roomy
<1>1. CASE fq_alloc(t) \/ fq_calloc(t)
  <2>1. PICK n \in 0 .. SIZE_MAX, b \in Ptrs : block' = [block EXCEPT ![b] = Fresh(n, n)]
    BY <1>1, Requests DEF Start
  <2>2. \A a \in Ptrs : block'[a] = block[a] \/ block'[a] = Fresh(n, n)
    BY <1>i, <2>1 DEF MemoryTypeOK
  <2> QED
    BY <1>i, <1>r, <1>s, <1>f, <2>2
<1>2. CASE fq_realloc(t)
  <2>1. PICK n \in Sizes, b \in Ptrs, to \in Ptrs :
          block' = [block EXCEPT ![b] = NULL, ![to] = Fresh(n, n)]
    BY <1>2 DEF fq_realloc
  <2>2. n \in 0 .. SIZE_MAX
    BY MemoryAssumption
  <2>3. \A a \in Ptrs : block'[a] = block[a] \/ block'[a] = NULL \/ block'[a] = Fresh(n, n)
    BY <1>i, <2>1 DEF MemoryTypeOK
  <2> QED
    BY <1>i, <1>r, <1>s, <1>f, <2>2, <2>3
<1>3. CASE fq_free(t) \/ Step(t)
  <2>1. \A a \in Ptrs : block'[a] = block[a] \/ block'[a] = NULL
    BY <1>3, <1>i DEF fq_free, Step, StatsSub, StatsFreeCount, Release, StatsAdd, StatsCount,
       LoadPeakHigher, LoadPeakEnough, CasSucceeds, CasFails, MemoryTypeOK
  <2> QED
    BY <1>i, <1>r, <1>s, <2>1
<1> QED
  BY <1>1, <1>2, <1>3

\* Every step of every thread keeps the invariant.
LEMMA NextMemoryInv == MemoryInv /\ [MemoryNext]_vars => MemoryInv'
<1> SUFFICES ASSUME MemoryInv, [MemoryNext]_vars PROVE MemoryInv'
  OBVIOUS
<1>1. ASSUME NEW t \in Threads,
             fq_alloc(t) \/ fq_calloc(t) \/ fq_realloc(t) \/ fq_free(t) \/ Step(t)
      PROVE  MemoryInv'
  <2>1. Begins(t) \/ Step(t)
    BY <1>1, BeginSteps
  <2>2. MemoryTypeOK' /\ OwnInv'
    BY <2>1, BeginsOwn, StepOwn DEF MemoryInv, Begins
  <2>3. BytesInv' /\ CallsInv' /\ PeakInv' /\ RoomForRequest'
    BY <1>1, <2>1, KeepsBytes, KeepsCalls, KeepsPeak, KeepsRoom
  <2> QED
    BY <2>2, <2>3 DEF MemoryInv
<1>2. CASE UNCHANGED vars
  <2>1. /\ UNCHANGED <<g_alloc_count, g_free_count, g_allocated, g_peak, block>>
        /\ UNCHANGED <<pc, job, ptr, old, new_val, p, over>>
    BY <1>2 DEF vars, globals, locals
  <2>2. MemoryTypeOK' /\ OwnInv' /\ RoomForRequest' /\ PeakInv'
    BY <2>1 DEF MemoryInv, MemoryTypeOK, OwnInv, RoomForRequest, PeakInv, PeakCatchesUp, Live
  <2>3. Live' = Live /\ Weight' = Weight /\ Uncounted' = Uncounted
    BY <2>1 DEF Live, Weight, Counted, Uncounted
  <2>4. BytesInv' /\ CallsInv'
    BY <2>1, <2>3 DEF MemoryInv, BytesInv, CallsInv, Total, Difference
  <2> QED
    BY <2>2, <2>4 DEF MemoryInv
<1> QED
  BY <1>1, <1>2 DEF MemoryNext

\* It holds before the first call.
LEMMA InitMemoryInv == MemoryInit => MemoryInv
<1> SUFFICES ASSUME MemoryInit PROVE MemoryInv
  OBVIOUS
<1>1. Live = {}
  BY DEF MemoryInit, Live
<1>2. Uncounted = {}
  BY DEF MemoryInit, Uncounted
<1>3. 0 \in IntRange /\ Wrap(0) = 0
  <2>1. 0 \in -IntHalf .. IntHalf - 1
    BY IntAssumption
  <2> QED
    BY <2>1, WrapInRange DEF IntRange
<1>4. MemoryTypeOK /\ OwnInv
  <2>a. /\ g_alloc_count \in IntRange /\ g_free_count \in IntRange /\ g_allocated \in IntRange
        /\ g_peak \in Int
    BY <1>3 DEF MemoryInit
  <2>d. over \in BOOLEAN
    BY Zenon DEF MemoryInit
  <2>b. block \in [Ptrs -> Blocks \cup {NULL}] /\ ptr \in [Threads -> Ptrs \cup {NULL}]
    BY DEF MemoryInit
  <2>c. old \in [Threads -> Nat] /\ new_val \in [Threads -> Int] /\ p \in [Threads -> Int]
    BY DEF MemoryInit
  <2>1. MemoryTypeOK
    BY <2>a, <2>b, <2>c, <2>d DEF MemoryInit, MemoryTypeOK
  <2>2. \A t \in Threads : pc[t] = "idle" /\ ptr[t] = NULL
    BY DEF MemoryInit
  <2> QED
    BY <2>1, <2>2 DEF OwnInv
<1>5. Total = 0
  <2>1. {} \in SUBSET {}
    OBVIOUS
  <2> QED
    BY <1>1, <2>1, FS_EmptySet, SumFirst DEF Total
<1>6. BytesInv
  BY <1>3, <1>5 DEF MemoryInit, BytesInv
<1>7. CallsInv
  BY <1>1, <1>2, FS_EmptySet DEF MemoryInit, CallsInv, Difference
<1>8. PeakInv /\ RoomForRequest
  BY <1>1 DEF MemoryInit, PeakInv, PeakCatchesUp, RoomForRequest
<1> QED
  BY <1>4, <1>6, <1>7, <1>8 DEF MemoryInv

\* The calls and the counters stay as MemoryInv says, in every interleaving.
THEOREM MemoryInvariant == MemorySpec => []MemoryInv
BY InitMemoryInv, NextMemoryInv, PTL DEF MemorySpec

\* The statistics are the sum and the number of the live blocks, up to the calls under
\* way and modulo the width of an int, for any number of threads and blocks
\* (memory.c:23-87).
THEOREM StatsBalanceTheorem == MemorySpec => []StatsBalance
<1>1. MemoryInv => StatsBalance
  <2> SUFFICES ASSUME MemoryInv PROVE StatsBalance
    OBVIOUS
  <2>1. IsFiniteSet(Live)
    BY MemoryAssumption, FS_Subset DEF Live
  <2>2. \A b \in Live : Weight[b] = Counted(b)
    BY DEF Weight, Live
  <2>3. MapThenSumSet(Counted, Live) = Total
    BY <2>1, <2>2, CountedSum DEF Total
  <2> QED
    BY <2>3 DEF MemoryInv, BytesInv, CallsInv, Difference, Uncounted, StatsBalance
<1> QED
  BY <1>1, MemoryInvariant, PTL

\* The high-water mark misses no value of g_allocated as long as that fits an int,
\* although the threads raise it without a lock (memory.c:31-39).
THEOREM PeakTheorem == MemorySpec => []PeakCatchesUp
<1>1. MemoryInv => PeakCatchesUp
  BY DEF MemoryInv, PeakInv
<1> QED
  BY <1>1, MemoryInvariant, PTL

\* A block has room for what its user asked for, but for sizes within a header of
\* SIZE_MAX (memory.c:54, 69, 111).
THEOREM RoomTheorem == MemorySpec => []RoomForRequest
<1>1. MemoryInv => RoomForRequest
  BY DEF MemoryInv
<1> QED
  BY <1>1, MemoryInvariant, PTL

-----------------------------------------------------------------------------
(* The times *)

\* Division with remainder, and that it is monotonic.
LEMMA Division ==
  ASSUME NEW m \in Nat \ {0}, NEW a \in Nat
  PROVE  /\ a \div m \in Nat /\ a % m \in 0 .. m - 1 /\ a = m * (a \div m) + (a % m)
         /\ a \div m <= a
<1> DEFINE q == a \div m
           r == a % m
<1>1. q \in Nat /\ r \in 0 .. m - 1 /\ a = m * q + r
  OBVIOUS
<1> HIDE DEF q, r
<1>2. PICK l \in Nat : m = l + 1
  <2>1. m - 1 \in Nat /\ m = (m - 1) + 1
    OBVIOUS
  <2> QED
    BY <2>1
<1>3. m * q = l * q + q /\ l * q \in Nat
  BY <1>1, <1>2
<1>4. q <= a
  BY <1>1, <1>3
<1> QED
  BY <1>1, <1>4 DEF q, r

\* A product grows with its second factor.
LEMMA Grows ==
  ASSUME NEW m \in Nat, NEW a \in Nat, NEW b \in Nat, a <= b
  PROVE  m * a <= m * b /\ m * a \in Nat /\ m * b \in Nat /\ m * (a + 1) = m * a + m
<1>1. PICK d \in Nat : b = a + d
  <2>1. b - a \in Nat /\ b = a + (b - a)
    OBVIOUS
  <2> QED
    BY <2>1
<1>2. m * (a + d) = m * a + m * d /\ m * d \in Nat /\ m * a \in Nat
  OBVIOUS
<1>3. m * (a + 1) = m * a + m
  OBVIOUS
<1> QED
  BY <1>1, <1>2, <1>3

\* A quotient is found by multiplication.
LEMMA Quotient ==
  ASSUME NEW m \in Nat \ {0}, NEW a \in Nat, NEW b \in Nat, a <= b
  PROVE  a \div m <= b \div m /\ (m * a) \div m = a
<1>1. ASSUME NEW c \in Nat, NEW d \in Nat, NEW s \in 0 .. m - 1, NEW t \in 0 .. m - 1,
             m * c + s <= m * d + t
      PROVE  c <= d
  <2> SUFFICES ASSUME d + 1 <= c PROVE FALSE
    OBVIOUS
  <2>1. m * (d + 1) <= m * c /\ m * (d + 1) = m * d + m /\ m * d \in Nat /\ m * c \in Nat
    BY Grows
  <2> QED
    BY <1>1, <2>1
<1>2. a \div m <= b \div m
  BY <1>1, Division
<1>3. PICK e \in Nat : e = m * a
  BY Grows
<1>4. PICK d \in Nat, t \in 0 .. m - 1 : d = e \div m /\ e = m * d + t
  BY Division
<1>5. m * a + 0 <= m * d + t /\ m * d + t <= m * a + 0 /\ 0 \in 0 .. m - 1
  BY <1>3, <1>4
<1>6. a <= d /\ d <= a
  BY <1>1, <1>5
<1> QED
  BY <1>2, <1>3, <1>4, <1>6

\* The nanoseconds of a millisecond.
LEMMA NsPerMs ==
  /\ NsPerSec \in Nat \ {0} /\ MsPerSec \in Nat \ {0}
  /\ NsPerSec \div MsPerSec \in Nat \ {0}
  /\ NsPerSec = MsPerSec * (NsPerSec \div MsPerSec)
<1>1. PICK k \in 1 .. NsPerSec : NsPerSec = k * MsPerSec
  BY ClockAssumption
<1>2. k \in Nat \ {0} /\ MsPerSec \in Nat \ {0} /\ k * MsPerSec = MsPerSec * k
  BY <1>1, ClockAssumption
<1>3. MsPerSec * k \in Nat \ {0}
  BY <1>2
<1>4. (MsPerSec * k) \div MsPerSec = k
  BY <1>2, Quotient
<1> QED
  BY <1>1, <1>2, <1>3, <1>4

\* The deadline of a timed wait and the time of a sleep (platform.c:90, 150), for every time
\* and every timeout, however many nanoseconds a second has.
THEOREM DeadlineIsExact ==
  ASSUME NEW now \in [sec : Nat, nsec : 0 .. NsPerSec - 1], NEW ms \in Nat
  PROVE  DeadlineExact(now, ms)
<1>1. PICK k \in Nat \ {0} : k = NsPerSec \div MsPerSec /\ NsPerSec = MsPerSec * k
  BY NsPerMs
<1>2. PICK q \in Nat, r \in 0 .. MsPerSec - 1 :
        q = ms \div MsPerSec /\ r = ms % MsPerSec /\ ms = MsPerSec * q + r
  <2>1. MsPerSec \in Nat \ {0}
    BY ClockAssumption
  <2> QED
    BY <2>1, Division
<1>3. PICK s \in Nat, n \in 0 .. NsPerSec - 1 : s = now.sec /\ n = now.nsec
  OBVIOUS
<1>4. PICK rk \in Nat : rk = r * k /\ rk < NsPerSec
  <2>1. MsPerSec \in Nat /\ r \in Nat /\ r + 1 <= MsPerSec /\ k \in Nat
    BY <1>1, ClockAssumption
  <2>2. k * (r + 1) <= k * MsPerSec /\ k * (r + 1) = k * r + k /\ k * r \in Nat
    BY <2>1, Grows
  <2>3. k * r = r * k /\ k * MsPerSec = MsPerSec * k
    BY <2>1
  <2> QED
    BY <1>1, <2>1, <2>2, <2>3
<1>5. PICK qN \in Nat, sN \in Nat : qN = q * NsPerSec /\ sN = s * NsPerSec
  BY NsPerMs
<1>6. ms * k = qN + rk
  <2>1. (MsPerSec * q + r) * k = (MsPerSec * q) * k + r * k
    BY ClockAssumption
  <2>2. (MsPerSec * q) * k = q * (MsPerSec * k)
    BY ClockAssumption
  <2> QED
    BY <1>1, <1>2, <1>4, <1>5, <2>1, <2>2
<1>7. SleepTime(ms) = [sec |-> q, nsec |-> rk]
  BY <1>1, <1>2, <1>4 DEF SleepTime
<1>8. PICK c \in {0, 1} : c = IF n + rk >= NsPerSec THEN 1 ELSE 0
  OBVIOUS
<1>9. Deadline(now, ms) = [sec |-> s + q + c, nsec |-> (n + rk) - c * NsPerSec]
  <2>1. now.nsec + (ms % MsPerSec) * (NsPerSec \div MsPerSec) = n + rk
    BY <1>1, <1>2, <1>3, <1>4
  <2>2. Deadline(now, ms) =
          [sec  |-> now.sec + ms \div MsPerSec + (IF n + rk >= NsPerSec THEN 1 ELSE 0),
           nsec |-> (n + rk) - (IF n + rk >= NsPerSec THEN 1 ELSE 0) * NsPerSec]
    BY <2>1 DEF Deadline
  <2> QED
    BY <1>2, <1>3, <1>8, <2>2
<1>10. (n + rk) - c * NsPerSec \in 0 .. NsPerSec - 1
  BY <1>3, <1>4, <1>8, NsPerMs
<1>11. (s + q + c) * NsPerSec = sN + qN + c * NsPerSec
  BY <1>5, <1>8, NsPerMs
<1>12. Nanoseconds(now) = sN + n /\ Nanoseconds(SleepTime(ms)) = qN + rk
  BY <1>3, <1>5, <1>7 DEF Nanoseconds
<1>13. Nanoseconds(Deadline(now, ms)) = sN + n + (qN + rk)
  <2>1. Nanoseconds(Deadline(now, ms)) = (s + q + c) * NsPerSec + ((n + rk) - c * NsPerSec)
    BY <1>9 DEF Nanoseconds
  <2>2. c * NsPerSec \in Nat
    BY <1>8, NsPerMs
  <2> QED
    BY <1>3, <1>4, <1>5, <1>11, <2>1, <2>2
<1>14. /\ Deadline(now, ms).nsec \in 0 .. NsPerSec - 1
       /\ SleepTime(ms).nsec \in 0 .. NsPerSec - 1
  BY <1>4, <1>7, <1>9, <1>10, NsPerMs
<1> QED
  BY <1>1, <1>6, <1>12, <1>13, <1>14 DEF DeadlineExact

\* A time that fits in 63 bits is not changed.
LEMMA TimeInRange ==
  ASSUME NEW x \in Nat, x < TimeHalf
  PROVE  Wrap64(x) = x
<1>1. x + TimeHalf \in 0 .. 2 * TimeHalf - 1 /\ 2 * TimeHalf \in Nat \ {0}
  BY ClockAssumption
<1>2. (x + TimeHalf) % (2 * TimeHalf) = x + TimeHalf
  BY <1>1
<1> QED
  BY <1>2, ClockAssumption DEF Wrap64

\* A timer on Windows (time.c:15-52), for every frequency of the counter and as long as the
\* product fits.
LEMMA TimerIsExact ==
  ASSUME NEW x \in Nat, NEW y \in Nat, TimeFits(x + y)
  PROVE  TimerExact(x, y)
<1>0. /\ NsPerSec \in Nat /\ TicksPerSec \in Nat \ {0} /\ TimeHalf \in Nat
  BY NsPerMs, ClockAssumption
<1>1. PICK P \in Nat, yN \in Nat : P = x * NsPerSec /\ yN = y * NsPerSec
  BY <1>0
<1>2. (x + y) * NsPerSec = P + yN
  BY <1>0, <1>1
<1>3. P + yN < TimeHalf
  BY <1>2 DEF TimeFits
<1>4. PICK a \in Nat, r \in 0 .. TicksPerSec - 1 :
        a = P \div TicksPerSec /\ P = TicksPerSec * a + r
  BY <1>0, Division
<1>5. PICK Q \in Nat : Q = P + yN
  OBVIOUS
<1>6. PICK b \in Nat, t \in 0 .. TicksPerSec - 1 :
        b = Q \div TicksPerSec /\ Q = TicksPerSec * b + t /\ b <= Q
  BY <1>0, Division
<1>7. a <= b
  BY <1>0, <1>4, <1>5, <1>6, Quotient
<1>8. WindowsNow(x) = a /\ WindowsNow(x + y) = b
  <2>1. Wrap64(P) = P /\ Wrap64(Q) = Q
    BY <1>0, <1>3, <1>5, TimeInRange
  <2> QED
    BY <1>1, <1>2, <1>4, <1>5, <1>6, <2>1 DEF WindowsNow, Truncated
<1>9. PICK d \in Nat : d = b - a /\ b = a + d
  BY <1>7
<1>10. fq_timer_elapsed_ns(a, b) = d
  <2>1. d < TimeHalf
    BY <1>0, <1>3, <1>5, <1>6, <1>9
  <2> QED
    BY <1>9, <2>1, TimeInRange DEF fq_timer_elapsed_ns
<1>11. d * TicksPerSec - y * NsPerSec \in 1 - TicksPerSec .. TicksPerSec - 1
  <2>1. PICK A \in Nat, D \in Nat : A = TicksPerSec * a /\ D = d * TicksPerSec
    BY <1>0
  <2>2. TicksPerSec * b = A + D
    <3>1. TicksPerSec * (a + d) = TicksPerSec * a + d * TicksPerSec
      BY <1>0
    <3> QED
      BY <1>9, <2>1, <3>1
  <2> QED
    BY <1>0, <1>1, <1>4, <1>5, <1>6, <2>1, <2>2
<1>12. fq_timer_elapsed_ms(a, b) = d \div (NsPerSec \div MsPerSec)
  BY <1>10 DEF fq_timer_elapsed_ms, Truncated
<1> QED
  BY <1>8, <1>10, <1>11, <1>12 DEF TimerExact

\* The function that is evaluated stays the same.
Called == call \in Calls \cup {NoCall}

\* Each call is one of those that are asked for.
LEMMA CalledAlways == MCSpec => []Called
<1>1. MCInit => Called
  BY DEF MCInit, Called
<1>2. Called /\ [MCNext]_<<vars, call>> => Called'
  BY DEF MCNext, Evaluated, Called
<1> QED
  BY <1>1, <1>2, PTL DEF MCSpec

\* The deadlines and sleeps of the run are exact (platform.c:90, 150), for every number of
\* nanoseconds and milliseconds in a second; the timers are (time.c:20), for every frequency,
\* until the product overflows.
THEOREM TimesTheorem == MCSpec => []TimesExact
<1>1. Called => TimesExact
  <2> SUFFICES ASSUME Called PROVE TimesExact
    OBVIOUS
  <2>1. ASSUME call.fn = "fq_condition_timedwait"
        PROVE  DeadlineExact([sec |-> 1, nsec |-> call.x], call.y)
    <3>1. call.x \in 0 .. NsPerSec - 1 /\ call.y \in Nat
      BY <2>1, ClockAssumption DEF Called, Calls, NoCall
    <3> QED
      BY <3>1, DeadlineIsExact
  <2>2. ASSUME call.fn = "fq_timer", TimeFits(call.x + call.y)
        PROVE  TimerExact(call.x, call.y)
    <3>1. call.x \in Nat /\ call.y \in Nat
      BY <2>2, ClockAssumption DEF Called, Calls, NoCall
    <3> QED
      BY <2>2, <3>1, TimerIsExact
  <2> QED
    BY <2>1, <2>2 DEF TimesExact
<1> QED
  BY <1>1, CalledAlways, PTL

-----------------------------------------------------------------------------
(* The memory orders *)

\* Whatever order is passed, an operation is given one that it may have and that guarantees
\* no less (atomic.h:45-167, 187-354), on every build.
THEOREM GivenIsHonoured ==
  ASSUME NEW order \in Orders, NEW build \in Builds, NEW kind \in {"load", "store", "rmw", "bit"}
  PROVE  /\ Given(build, kind, order) \in Legal(kind)
         /\ Strength(order) \subseteq Strength(Given(build, kind, order))
<1>1. order \in {0, 1, 2, 3, 4}
  BY DEF Orders
<1> USE DEF RELAXED, ACQUIRE, RELEASE, ACQ_REL, SEQ_CST
<1>2. \/ Given(build, kind, order) = SEQ_CST
      \/ Given(build, kind, order) = order /\ order \in Legal(kind)
  <2>1. CASE kind = "load"
    BY <1>1, <2>1 DEF Builds, Given, C11Order, MsvcOrder, GccOrder, LoadOrder, Legal
  <2>2. CASE kind = "store"
    BY <1>1, <2>2 DEF Builds, Given, C11Order, MsvcOrder, GccOrder, StoreOrder, Legal
  <2>3. CASE kind \in {"rmw", "bit"}
    BY <1>1, <2>3 DEF Builds, Given, C11Order, MsvcOrder, GccOrder, RmwOrder, Legal, Orders
  <2> QED
    BY <2>1, <2>2, <2>3
<1>3. SEQ_CST \in Legal(kind)
  BY DEF Legal, Orders
<1>4. Strength(order) \subseteq Strength(SEQ_CST)
  BY <1>1 DEF Strength
<1> QED
  BY <1>2, <1>3, <1>4

\* The failure of a compare-and-exchange, with the exception of the builtins.
LEMMA FailureIsHonoured ==
  ASSUME NEW order \in Orders, NEW build \in Builds
  PROVE  /\ FailureOrder(build, order) \in Legal("load")
         /\ build # "gcc" \/ order = RELAXED
              => Strength(order) \subseteq Strength(FailureOrder(build, order))
<1>1. order \in {0, 1, 2, 3, 4}
  BY DEF Orders
<1> USE DEF RELAXED, ACQUIRE, RELEASE, ACQ_REL, SEQ_CST
<1>2. CASE build = "gcc"
  BY <1>1, <1>2 DEF FailureOrder, Legal
<1>3. CASE build = "msvc"
  BY <1>1, <1>3 DEF FailureOrder, Legal, Strength
<1>4. CASE build = "c11"
  <2>1. FailureOrder(build, order) = order \/ FailureOrder(build, order) = SEQ_CST
    BY <1>4 DEF FailureOrder, LoadOrder
  <2>2. FailureOrder(build, order) \in Legal("load")
    BY <1>4 DEF FailureOrder, LoadOrder, Legal
  <2>3. Strength(order) \subseteq Strength(SEQ_CST)
    BY <1>1 DEF Strength
  <2> QED
    BY <2>1, <2>2, <2>3
<1> QED
  BY <1>2, <1>3, <1>4 DEF Builds

\* Every order that is asked for is honoured, by each operation of each build.
THEOREM OrdersTheorem == MCSpec => []OrdersHonoured
<1>1. Called => OrdersHonoured
  <2> SUFFICES ASSUME Called, call.fn = "fq_atomic", NEW build \in Builds
               PROVE  /\ \A kind \in {"load", "store", "rmw", "bit"} :
                           /\ Given(build, kind, call.x) \in Legal(kind)
                           /\ Strength(call.x) \subseteq Strength(Given(build, kind, call.x))
                      /\ FailureOrder(build, call.x) \in Legal("load")
                      /\ build # "gcc" \/ call.x = RELAXED
                           => Strength(call.x) \subseteq Strength(FailureOrder(build, call.x))
    BY DEF OrdersHonoured
  <2>1. call.x \in Orders
    BY DEF Called, Calls, NoCall
  <2> QED
    BY <2>1, GivenIsHonoured, FailureIsHonoured
<1> QED
  BY <1>1, CalledAlways, PTL
=============================================================================
