------------------------------- MODULE Atomics -------------------------------
(***************************************************************************)
(* include/fastqueue/atomic.h: which memory order the three builds (C11    *)
(* atomics, Interlocked functions of MSVC, __atomic builtins of GCC) give  *)
(* to an operation, and what the operations do to a signed word.           *)
(***************************************************************************)
EXTENDS Integers

CONSTANT IntHalf     \* 2^31: an int is in -IntHalf .. IntHalf - 1

ASSUME IntAssumption == IntHalf \in Nat \ {0}

Builds == {"c11", "msvc", "gcc"}
Orders == 0 .. 4
RELAXED == 0
ACQUIRE == 1
RELEASE == 2
ACQ_REL == 3
SEQ_CST == 4

IntRange == -IntHalf .. IntHalf - 1

\* Two's complement.
Wrap(x) == ((x + IntHalf) % (2 * IntHalf)) - IntHalf

fetch_add(x, operand) == Wrap(x + operand)
fetch_sub(x, operand) == Wrap(x - operand)

\* The weak compare-and-exchange of C11 and of the builtins may fail without a reason.
CasMayFail(build, x, expected) == x # expected \/ build # "msvc"

\* An order that a load cannot have becomes sequential consistency.
LoadOrder(order) == IF order \in {RELAXED, ACQUIRE} THEN order ELSE SEQ_CST

\* Mutant of StoreOrder: the clamp is the one of loads.
StoreOrder_AsLoad(order) == IF order \in {RELAXED, ACQUIRE} THEN order ELSE SEQ_CST

StoreOrder(order) == IF order \in {RELAXED, RELEASE} THEN order ELSE SEQ_CST

\* Exchange, the fetch operations and the success of a compare-and-exchange.
RmwOrder(order) == IF order \in {RELAXED, ACQUIRE, RELEASE, ACQ_REL} THEN order ELSE SEQ_CST

\* What an operation is given ("bit" stands for fetch_or and fetch_and).
C11Order(op, order) ==
  CASE op = "load" -> LoadOrder(order)
    [] op = "store" -> StoreOrder(order)
    [] op \in {"rmw", "bit"} -> RmwOrder(order)

\* The Interlocked functions are full barriers.
MsvcOrder(op, order) == SEQ_CST

GccOrder(op, order) ==
  CASE op = "load" -> LoadOrder(order)
    [] op = "store" -> StoreOrder(order)
    [] op = "rmw" -> RmwOrder(order)
    [] op = "bit" -> SEQ_CST

Given(build, op, order) ==
  CASE build = "c11"  -> C11Order(op, order)
    [] build = "msvc" -> MsvcOrder(op, order)
    [] build = "gcc"  -> GccOrder(op, order)

\* The failure of a compare-and-exchange is a load; only C11 looks at the argument.
FailureOrder(build, order) ==
  CASE build = "c11"  -> LoadOrder(order)
    [] build = "msvc" -> SEQ_CST
    [] build = "gcc"  -> RELAXED

-----------------------------------------------------------------------------

\* What an order guarantees.
Strength(order) == CASE order = RELAXED -> {}
                     [] order = ACQUIRE -> {"acquire"}
                     [] order = RELEASE -> {"release"}
                     [] order = ACQ_REL -> {"acquire", "release"}
                     [] order = SEQ_CST -> {"acquire", "release", "total"}

\* The orders that the C standard allows for an operation.
Legal(op) == CASE op = "load"  -> {RELAXED, ACQUIRE, SEQ_CST}
               [] op = "store" -> {RELAXED, RELEASE, SEQ_CST}
               [] op \in {"rmw", "bit"} -> Orders
=============================================================================
