---------------------------- MODULE NumberProofs -----------------------------
(***************************************************************************)
(* The two number algorithms of the range proof, for every input.          *)
(*                                                                         *)
(* FloorSquareRoot returns the exact floor of the square root of every     *)
(* non-negative input, in Java and in Go, and never divides by zero.  One   *)
(* Babylonian step never goes below the root (StepNotBelow), goes strictly  *)
(* down from above it (StepDescends) and from the root reaches at most one  *)
(* above it (StepFromRoot).  So a repeated value is the root (Repetition)   *)
(* and an alternating one is the root or one above it (Alternation), which  *)
(* is what the final correction of the code assumes.                       *)
(*                                                                         *)
(* SecretOrderGroupGenerator returns two different generators of G_pq, for  *)
(* every set of primes and every draw, and none of its loops is left        *)
(* without a draw that ends it.  The number theory this rests on is proved  *)
(* first: modPow computes the remainder of the power (ModPowIsPower), a     *)
(* prime is coprime to what it does not divide (PrimeCoprime), exponents    *)
(* that take a generator to one are multiples of its order                  *)
(* (GeneratorExponent), and four has order p modulo 2p + 1                  *)
(* (FourIsGenerator, from factorials).  The loop of extendedGCDBezout keeps *)
(* Bezout's identity and the common divisors of its remainders, so that it  *)
(* ends with one (LastDivisor) and what it combines is the one generator    *)
(* modulo P and the other modulo Q (CombinationCongruent).                  *)
(***************************************************************************)
EXTENDS FloorSquareRoot, GroupGenerator, WellFoundedInduction, NaturalsInduction, TLAPS

-----------------------------------------------------------------------------
(* The integer square root.                                                 *)

\* Division by a positive number: what the quotient satisfies.
LEMMA Quotient ==
    ASSUME NEW n \in Nat, NEW a \in Nat, a >= 1
    PROVE  /\ n \div a \in Nat
           /\ (n \div a) * a <= n
           /\ n < ((n \div a) + 1) * a
  OBVIOUS

\* The product of two numbers is at most the square of half their sum.
LEMMA ProductBelowSquare ==
    ASSUME NEW x \in Nat, NEW y \in Nat, NEW z \in Nat, x + y <= 2 * z
    PROVE  x * y <= z * z
  <1>1. (x - y) * (x - y) >= 0
    OBVIOUS
  <1>2. 4 * (x * y) <= (x + y) * (x + y)
    BY <1>1
  <1>3. (x + y) * (x + y) <= (2 * z) * (2 * z)
    OBVIOUS
  <1> QED BY <1>2, <1>3

\* Multiplication by a natural number is monotone.
LEMMA ProductMonotone ==
    ASSUME NEW x \in Nat, NEW y \in Nat, NEW z \in Nat, x <= y
    PROVE  x * z <= y * z
  OBVIOUS

\* What the halving in the loop body gives.
LEMMA StepBounds ==
    ASSUME NEW n \in Nat, NEW a \in Nat, a >= 1
    PROVE  /\ Improved(n, a) \in Nat
           /\ 2 * Improved(n, a) <= (n \div a) + a
           /\ (n \div a) + a <= 2 * Improved(n, a) + 1
  BY Quotient DEF Improved

\* A step of the loop never goes below the root.
LEMMA StepNotBelow ==
    ASSUME NEW n \in Nat, NEW a \in Nat, a >= 1
    PROVE  n < (Improved(n, a) + 1) * (Improved(n, a) + 1)
  <1> DEFINE q == n \div a
             b == Improved(n, a)
  <1>1. q \in Nat /\ n < (q + 1) * a
    BY Quotient
  <1>2. b \in Nat /\ q + a <= 2 * b + 1
    BY StepBounds
  <1> HIDE DEF q, b
  <1>3. (q + 1) + a <= 2 * (b + 1)
    BY <1>1, <1>2
  <1>4. (q + 1) * a <= (b + 1) * (b + 1)
    BY <1>1, <1>2, <1>3, ProductBelowSquare
  <1>5. n < (b + 1) * (b + 1)
    BY <1>1, <1>2, <1>4
  <1> QED BY <1>5 DEF b

\* A step from above the root goes strictly down.
LEMMA StepDescends ==
    ASSUME NEW n \in Nat, NEW a \in Nat, a >= 1, a * a > n
    PROVE  Improved(n, a) < a
  <1> DEFINE q == n \div a
             b == Improved(n, a)
  <1>1. q \in Nat /\ q * a <= n
    BY Quotient
  <1>2. b \in Nat /\ 2 * b <= q + a
    BY StepBounds
  <1> HIDE DEF q, b
  <1>3. q < a
    <2>1. ASSUME a <= q PROVE FALSE
      BY <2>1, <1>1, ProductMonotone
    <2> QED BY <2>1, <1>1
  <1>4. b < a
    BY <1>1, <1>2, <1>3
  <1> QED BY <1>4 DEF b

\* A step from the root reaches at most one above it.
LEMMA StepFromRoot ==
    ASSUME NEW n \in Nat, NEW a \in Nat, a >= 1, n < (a + 1) * (a + 1)
    PROVE  Improved(n, a) <= a + 1
  <1> DEFINE q == n \div a
             b == Improved(n, a)
  <1>1. q \in Nat /\ q * a <= n
    BY Quotient
  <1>2. b \in Nat /\ 2 * b <= q + a
    BY StepBounds
  <1> HIDE DEF q, b
  <1>3. q <= a + 2
    <2>1. ASSUME a + 3 <= q PROVE FALSE
      <3>1. (a + 3) * a <= q * a
        BY <2>1, <1>1, ProductMonotone
      <3>2. (a + 3) * a <= n /\ n < (a + 1) * (a + 1)
        BY <3>1, <1>1
      <3>3. (a + 3) * a = a * a + 3 * a /\ (a + 1) * (a + 1) = a * a + 2 * a + 1
        OBVIOUS
      <3> QED BY <3>2, <3>3
    <2> QED BY <2>1, <1>1
  <1>4. b <= a + 1
    BY <1>1, <1>2, <1>3
  <1> QED BY <1>4 DEF b

\* The approximation 0 is only ever computed for the argument 0.
LEMMA StepPositive ==
    ASSUME NEW n \in Nat, NEW a \in Nat, a >= 1, n >= 1
    PROVE  Improved(n, a) >= 1
  <1> DEFINE q == n \div a
             b == Improved(n, a)
  <1>1. q \in Nat /\ n < (q + 1) * a
    BY Quotient
  <1>2. b \in Nat /\ q + a <= 2 * b + 1
    BY StepBounds
  <1> HIDE DEF q, b
  <1>3. q >= 1 \/ a >= 2
    BY <1>1
  <1>4. b >= 1
    BY <1>1, <1>2, <1>3
  <1> QED BY <1>4 DEF b

\* A repeated approximation is the root.
LEMMA Repetition ==
    ASSUME NEW n \in Nat, NEW a \in Nat, a >= 1, Improved(n, a) = a
    PROVE  a * a <= n /\ n < (a + 1) * (a + 1)
  <1>1. ~(a * a > n)
    BY StepDescends
  <1> QED BY <1>1, StepNotBelow

\* An alternating approximation is the root or one above it.
LEMMA Alternation ==
    ASSUME NEW n \in Nat, NEW a \in Nat, NEW b \in Nat, a >= 1, b >= 1,
           b = Improved(n, a), a = Improved(n, b)
    PROVE  /\ n < (a + 1) * (a + 1)
           /\ a * a > n => (a - 1) * (a - 1) <= n
  <1>1. n < (a + 1) * (a + 1) /\ n < (b + 1) * (b + 1)
    BY StepNotBelow
  <1>2. ASSUME a * a > n PROVE (a - 1) * (a - 1) <= n
    <2>1. b < a
      BY <1>2, StepDescends
    <2>2. ~(b * b > n)
      BY <2>1, StepDescends
    <2>3. a <= b + 1
      BY <1>1, StepFromRoot
    <2>4. a - 1 = b
      BY <2>1, <2>3
    <2> QED BY <2>2, <2>4
  <1> QED BY <1>1, <1>2
-----------------------------------------------------------------------------
(***************************************************************************)
(* The inductive invariant.  FloorExact says nothing of a loop that is     *)
(* still running; the proof needs that each of the last approximations is  *)
(* the improvement of the one before it, and that the argument 0 leaves    *)
(* the loop after its first iteration.                                     *)
(***************************************************************************)
FirstIteration ==
    prev = 0 /\ prev2 = 0 /\ approx >= 1 /\ (input = 0 => approx = 1)

LaterIteration ==
    /\ prev >= 1
    /\ approx = Improved(input, prev)
    /\ input = 0 => prev = 1 /\ prev2 = 0
    /\ prev2 = 0 \/ (prev2 >= 1 /\ prev = Improved(input, prev2))

LoopInv ==
    pc = "loop" => /\ input \in Nat /\ outcome = "none"
                   /\ FirstIteration \/ LaterIteration

IInv == TypeOK /\ LoopInv /\ FloorExact

\* The iteration for the argument 0 starts from 1: bitLength(0) is 0.
LEMMA GuessOfZero == InitialGuess(0) = 1
  <1>1. BitLength(0) = 0
    BY DEF BitLength
  <1>2. BitLength(0) \div 2 = 0
    BY <1>1
  <1>3. InitialGuess(0) = 2^0
    BY <1>2 DEF InitialGuess
  <1> QED BY <1>3

\* 0 is its own improvement from 1.
LEMMA ImprovedZero == Improved(0, 1) = 0
  BY DEF Improved

\* The invariant holds before the first call.
LEMMA InitInv == Init => IInv
  BY DEF Init, IInv, TypeOK, LoopInv, FloorExact, IsFloorRoot

\* The divisor of the loop body is positive.
LEMMA DivisorPositive == IInv => NeverDividesByZero
  <1> SUFFICES ASSUME IInv, pc = "loop", StillMoving PROVE approx > 0
    BY DEF NeverDividesByZero
  <1>1. CASE FirstIteration
    BY <1>1 DEF FirstIteration, IInv, TypeOK
  <1>2. CASE LaterIteration
    <2>1. CASE input = 0
      BY <1>2, <2>1, ImprovedZero DEF LaterIteration, StillMoving
    <2>2. CASE input # 0
      <3>1. input \in Nat /\ input >= 1 /\ prev \in Nat /\ prev >= 1
        BY <1>2, <2>2 DEF LaterIteration, IInv, TypeOK, LoopInv
      <3>2. Improved(input, prev) \in Nat /\ Improved(input, prev) >= 1
        BY <3>1, StepPositive, StepBounds
      <3> QED BY <1>2, <3>2 DEF LaterIteration
    <2> QED BY <2>1, <2>2
  <1> QED BY <1>1, <1>2 DEF IInv, LoopInv

\* Each step preserves the invariant.
LEMMA NextInv == IInv /\ [Next]_vars => IInv'
  <1> SUFFICES ASSUME IInv, [Next]_vars PROVE IInv'
    OBVIOUS
  <1>1. ASSUME NEW i \in {"java", "go"}, NEW n \in Inputs, CallNegative(i, n)
        PROVE  IInv'
    BY <1>1, InputsAreIntegers
       DEF CallNegative, Finish, IInv, TypeOK, LoopInv, FloorExact
  <1>2. ASSUME NEW n \in Inputs, CallJavaZero(n)
        PROVE  IInv'
    BY <1>2 DEF CallJavaZero, Finish, IInv, TypeOK, LoopInv, FloorExact, IsFloorRoot
  <1>3. ASSUME NEW i \in {"java", "go"}, NEW n \in Inputs, CallLoop(i, n)
        PROVE  IInv'
    <2>1. n \in Nat
      BY <1>3, InputsAreIntegers DEF CallLoop
    <2>2. InitialGuess(n) \in Nat /\ InitialGuess(n) >= 1
      BY <2>1, GuessIsPositive
    <2>3. TypeOK' /\ FloorExact'
      BY <1>3, <2>1, <2>2 DEF CallLoop, IInv, TypeOK, FloorExact
    <2>4. FirstIteration'
      BY <1>3, <2>2, GuessOfZero DEF CallLoop, FirstIteration
    <2> QED BY <1>3, <2>1, <2>3, <2>4 DEF CallLoop, IInv, LoopInv
  <1>4. ASSUME Improve PROVE IInv'
    <2>1. input \in Nat /\ approx \in Nat /\ approx >= 1
      BY <1>4, DivisorPositive
         DEF Improve, IInv, TypeOK, LoopInv, NeverDividesByZero
    <2>2. Improved(input, approx) \in Nat
      BY <2>1, StepBounds
    <2>3. TypeOK' /\ FloorExact'
      BY <1>4, <2>2 DEF Improve, IInv, TypeOK, LoopInv, FloorExact
    <2>4. LaterIteration'
      <3>1. CASE FirstIteration
        BY <1>4, <2>1, <3>1 DEF Improve, FirstIteration, LaterIteration
      <3>2. CASE LaterIteration
        <4>1. input # 0
          BY <1>4, <2>1, <3>2, ImprovedZero DEF LaterIteration, Improve, StillMoving
        <4> QED BY <1>4, <2>1, <3>2, <4>1 DEF Improve, LaterIteration
      <3> QED BY <1>4, <3>1, <3>2 DEF Improve, IInv, LoopInv
    <2> QED BY <1>4, <2>1, <2>3, <2>4 DEF Improve, IInv, LoopInv
  <1>5. ASSUME Return PROVE IInv'
    <2>1. input \in Nat /\ approx \in Nat /\ prev \in Nat /\ prev2 \in Nat
      BY <1>5 DEF Return, IInv, TypeOK, LoopInv
    <2>2. LaterIteration
      BY <1>5 DEF Return, StillMoving, IInv, LoopInv, FirstIteration, TypeOK
    <2>3. /\ input < (approx + 1) * (approx + 1)
          /\ approx * approx > input =>
                approx >= 1 /\ (approx - 1) * (approx - 1) <= input
      <3>1. CASE approx = prev
        <4>1. prev >= 1 /\ Improved(input, prev) = prev
          BY <2>2, <3>1 DEF LaterIteration
        <4>2. prev * prev <= input /\ input < (prev + 1) * (prev + 1)
          BY <2>1, <4>1, Repetition
        <4> QED BY <2>1, <3>1, <4>2
      <3>2. CASE approx = prev2 /\ prev2 = 0
        <4>1. input = 0
          <5>1. ASSUME input >= 1 PROVE FALSE
            <6>1. Improved(input, prev) >= 1
              BY <2>1, <2>2, <5>1, StepPositive DEF LaterIteration
            <6>2. Improved(input, prev) = 0
              BY <2>2, <3>2 DEF LaterIteration
            <6> QED BY <6>1, <6>2
          <5> QED BY <5>1, <2>1
        <4> QED BY <3>2, <4>1
      <3>3. CASE approx = prev2 /\ prev2 # 0
        BY <2>1, <2>2, <3>3, Alternation DEF LaterIteration
      <3> QED BY <1>5, <3>1, <3>2, <3>3 DEF Return, StillMoving
    <2>4. IsFloorRoot(result', input)
      <3>1. CASE approx * approx > input
        <4>1. result' = approx - 1
          BY <1>5, <3>1 DEF Return, Finish
        <4>2. result' \in Nat /\ result' + 1 = approx
          BY <2>1, <2>3, <3>1, <4>1
        <4> QED BY <2>3, <3>1, <4>1, <4>2 DEF IsFloorRoot
      <3>2. CASE ~(approx * approx > input)
        <4>1. result' = approx
          BY <1>5, <3>2 DEF Return, Finish
        <4> QED BY <2>1, <2>3, <3>2, <4>1 DEF IsFloorRoot
      <3> QED BY <3>1, <3>2
    <2>5. TypeOK' /\ LoopInv'
      BY <1>5, <2>4 DEF Return, Finish, IInv, TypeOK, LoopInv, IsFloorRoot
    <2> QED BY <1>5, <2>4, <2>5 DEF Return, Finish, IInv, FloorExact
  <1>6. ASSUME UNCHANGED vars PROVE IInv'
    BY <1>6 DEF vars, IInv, TypeOK, LoopInv, FloorExact, IsFloorRoot,
                FirstIteration, LaterIteration
  <1> QED BY <1>1, <1>2, <1>3, <1>4, <1>5, <1>6 DEF Next

\* The invariant holds in every reachable state.
LEMMA AlwaysInv == Spec => []IInv
  BY InitInv, NextInv, PTL DEF Spec

\* Type correctness: in particular no approximation becomes negative.
THEOREM TypeCorrect == Spec => []TypeOK
  <1>1. IInv => TypeOK
    BY DEF IInv
  <1> QED BY <1>1, AlwaysInv, PTL

\* For every set of inputs, what BigIntUtil.floorSquareRoot and the Go
\* FloorSquareRoot return for a non-negative argument is the exact floor of
\* its square root.
THEOREM RootIsExact == Spec => []FloorExact
  <1>1. IInv => FloorExact
    BY DEF IInv
  <1> QED BY <1>1, AlwaysInv, PTL

\* For every set of inputs the loop never divides by zero.
THEOREM NoDivisionByZero == Spec => []NeverDividesByZero
  BY DivisorPositive, AlwaysInv, PTL

-----------------------------------------------------------------------------
(* Induction, and the recursions of modPow, the power and the factorial.      *)

\* A set of numbers that is not empty has a least one.
LEMMA LeastNumber ==
  ASSUME NEW S \in SUBSET Nat, S # {} PROVE \E n \in S : \A m \in S : n <= m
<1>1. PICK n \in S : \A m \in S : ~(<<m, n>> \in OpToRel(<, Nat))
  BY NatLessThanWellFounded, WFMin, Zenon
<1>2. ASSUME NEW m \in S, ~(n <= m) PROVE FALSE
  <2>1. <<m, n>> \in OpToRel(<, Nat)
    BY <1>2 DEF OpToRel
  <2> QED BY <1>1, <2>1
<1> QED BY <1>2

\* Induction, for sets.
LEMMA Induction ==
  ASSUME NEW S \in SUBSET Nat, 0 \in S, \A n \in S : n + 1 \in S PROVE S = Nat
<1>1. SUFFICES ASSUME Nat \ S # {} PROVE FALSE
  OBVIOUS
<1>2. PICK n \in Nat \ S : \A m \in Nat \ S : n <= m
  BY <1>1, LeastNumber
<1>3. n # 0 /\ n - 1 \in Nat /\ ~(n <= n - 1) /\ (n - 1) + 1 = n
  BY <1>2
<1> QED BY <1>2, <1>3

\* The same with all smaller numbers as hypothesis.
LEMMA StrongInduction ==
  ASSUME NEW S \in SUBSET Nat, \A n \in Nat : (\A m \in Nat : m < n => m \in S) => n \in S
  PROVE  S = Nat
<1>1. SUFFICES ASSUME Nat \ S # {} PROVE FALSE
  OBVIOUS
<1>2. PICK n \in Nat \ S : \A m \in Nat \ S : n <= m
  BY <1>1, LeastNumber
<1>3. \A m \in Nat : m < n => m \in S
  BY <1>2
<1> QED BY <1>2, <1>3

\* One step of the recursion of modPow, of the powers and of the factorial on f
StepOf(op, x, m, f, k) ==
  IF k = 0 THEN 1
  ELSE IF op = "modPow" THEN (f[k \div 2] * f[k \div 2] * (IF k % 2 = 1 THEN x ELSE 1)) % m
  ELSE IF op = "power" THEN x * f[k - 1]
  ELSE k * f[k - 1]

\* A step looks back only.
LEMMA StepLooksBack ==
  ASSUME NEW op, NEW x, NEW m, NEW f, NEW g, NEW k \in Nat, \A j \in Nat : j < k => f[j] = g[j]
  PROVE  StepOf(op, x, m, f, k) = StepOf(op, x, m, g, k)
<1>1. k # 0 => k - 1 \in Nat /\ k - 1 < k /\ k \div 2 \in Nat /\ k \div 2 < k
  OBVIOUS
<1>2. k # 0 => f[k - 1] = g[k - 1] /\ f[k \div 2] = g[k \div 2]
  BY <1>1
<1> QED BY <1>2, Zenon DEF StepOf

\* f satisfies the recursion up to n.
SolvesTo(op, x, m, n, f) == \A k \in 0 .. n : f[k] = StepOf(op, x, m, f, k)

\* Solutions agree where they are both defined.
LEMMA SolutionsAgree ==
  ASSUME NEW op, NEW x, NEW m, NEW n \in Nat, NEW i \in Nat, NEW f, NEW g,
         SolvesTo(op, x, m, n, f), SolvesTo(op, x, m, i, g), NEW k \in Nat, k <= n, k <= i
  PROVE  f[k] = g[k]
<1> DEFINE Bad == {j \in Nat : j <= n /\ j <= i /\ f[j] # g[j]}
<1>1. SUFFICES ASSUME Bad # {} PROVE FALSE
  OBVIOUS
<1>2. PICK j \in Bad : \A h \in Bad : j <= h
  <2>1. Bad \in SUBSET Nat
    OBVIOUS
  <2> HIDE DEF Bad
  <2> QED BY <1>1, <2>1, LeastNumber
<1>3. j \in Nat /\ j \in 0 .. n /\ j \in 0 .. i /\ f[j] # g[j]
  OBVIOUS
<1>4. f[j] = StepOf(op, x, m, f, j) /\ g[j] = StepOf(op, x, m, g, j)
  BY <1>3 DEF SolvesTo
<1>5. \A h \in Nat : h < j => f[h] = g[h]
  BY <1>2, <1>3
<1>6. StepOf(op, x, m, f, j) = StepOf(op, x, m, g, j)
  BY <1>3, <1>5, StepLooksBack
<1> QED BY <1>3, <1>4, <1>6

\* The recursion has a solution up to every number.
LEMMA SolutionExists ==
  ASSUME NEW op, NEW x, NEW m, NEW n \in Nat PROVE \E f : SolvesTo(op, x, m, n, f)
<1> DEFINE Bad == {i \in Nat : ~ \E f : SolvesTo(op, x, m, i, f)}
<1>1. SUFFICES ASSUME Bad # {} PROVE FALSE
  OBVIOUS
<1>2. PICK i \in Bad : \A h \in Bad : i <= h
  <2>1. Bad \in SUBSET Nat
    OBVIOUS
  <2> HIDE DEF Bad
  <2> QED BY <1>1, <2>1, LeastNumber
<1>3. i \in Nat /\ ~ \E f : SolvesTo(op, x, m, i, f)
  OBVIOUS
<1>4. PICK f : \A k \in 0 .. (i - 1) : f[k] = StepOf(op, x, m, f, k)
  <2>1. CASE i = 0
    BY <2>1
  <2>2. CASE i # 0
    <3>1. i - 1 \in Nat /\ ~(i <= i - 1)
      BY <1>3, <2>2
    <3>2. \E h : SolvesTo(op, x, m, i - 1, h)
      BY <1>2, <3>1
    <3> QED BY <3>2 DEF SolvesTo
  <2> QED BY <2>1, <2>2
<1> DEFINE g == [k \in 0 .. i |-> IF k = i THEN StepOf(op, x, m, f, i) ELSE f[k]]
<1>5. g[i] = StepOf(op, x, m, f, i) /\ \A k \in 0 .. (i - 1) : g[k] = f[k]
  BY <1>3
<1> HIDE DEF g
<1>6. ASSUME NEW k \in 0 .. i PROVE g[k] = StepOf(op, x, m, g, k)
  <2>1. g[k] = StepOf(op, x, m, f, k)
    BY <1>3, <1>4, <1>5
  <2>2. k \in Nat /\ \A j \in Nat : j < k => f[j] = g[j]
    BY <1>3, <1>5
  <2> QED BY <2>1, <2>2, StepLooksBack
<1> QED BY <1>3, <1>6 DEF SolvesTo

\* There is one solution for all numbers.
LEMMA Solution ==
  ASSUME NEW op, NEW x, NEW m PROVE \E f : f = [k \in Nat |-> StepOf(op, x, m, f, k)]
<1> DEFINE To(n) == CHOOSE f : SolvesTo(op, x, m, n, f)
           F == [k \in Nat |-> To(k)[k]]
<1>1. \A n \in Nat : SolvesTo(op, x, m, n, To(n))
  BY SolutionExists
<1>2. \A k \in Nat : F[k] = To(k)[k]
  OBVIOUS
<1>3. F = [k \in Nat |-> F[k]]
  OBVIOUS
<1> HIDE DEF To, F
<1>4. ASSUME NEW k \in Nat PROVE F[k] = StepOf(op, x, m, F, k)
  <2>1. F[k] = StepOf(op, x, m, To(k), k)
    BY <1>1, <1>2 DEF SolvesTo
  <2>2. ASSUME NEW j \in Nat, j < k PROVE To(k)[j] = F[j]
    <3>1. j <= k /\ j <= j
      BY <2>2
    <3>2. To(j)[j] = To(k)[j]
      BY <1>1, <3>1, SolutionsAgree
    <3> QED BY <1>2, <3>2
  <2>3. StepOf(op, x, m, To(k), k) = StepOf(op, x, m, F, k)
    BY <2>2, StepLooksBack
  <2> QED BY <2>1, <2>3
<1>5. F = [k \in Nat |-> StepOf(op, x, m, F, k)]
  BY <1>3, <1>4
<1> QED BY <1>5

\* The power itself, before any reduction
Power(x, n) == LET pow[k \in Nat] == IF k = 0 THEN 1 ELSE x * pow[k - 1] IN pow[n]

Factorial(n) == LET fac[k \in Nat] == IF k = 0 THEN 1 ELSE k * fac[k - 1] IN fac[n]

\* The power satisfies its recursion.
LEMMA PowerUnfolds ==
  ASSUME NEW x
  PROVE  Power(x, 0) = 1 /\ \A n \in Nat : Power(x, n + 1) = x * Power(x, n)
<1> DEFINE Def(f) == [k \in Nat |-> IF k = 0 THEN 1 ELSE x * f[k - 1]]
           s == CHOOSE f : f = Def(f)
<1>1. \A f : [k \in Nat |-> StepOf("power", x, 0, f, k)] = Def(f)
  BY DEF StepOf
<1>2. s = Def(s)
  <2> HIDE DEF Def
  <2> QED BY <1>1, Solution
<1>3. \A n : Power(x, n) = s[n]
  BY DEF Power
<1> HIDE DEF s
<1>4. s[0] = 1 /\ \A n \in Nat : s[n + 1] = x * s[n]
  <2>1. \A k \in Nat : s[k] = IF k = 0 THEN 1 ELSE x * s[k - 1]
    BY <1>2
  <2>2. \A n \in Nat : n + 1 \in Nat /\ n + 1 # 0 /\ (n + 1) - 1 = n
    OBVIOUS
  <2> QED BY <2>1, <2>2
<1> QED BY <1>3, <1>4

\* So does the factorial,
LEMMA FactorialUnfolds ==
  Factorial(0) = 1 /\ \A n \in Nat : Factorial(n + 1) = (n + 1) * Factorial(n)
<1> DEFINE Def(f) == [k \in Nat |-> IF k = 0 THEN 1 ELSE k * f[k - 1]]
           s == CHOOSE f : f = Def(f)
<1>1. \A f : [k \in Nat |-> StepOf("factorial", 0, 0, f, k)] = Def(f)
  BY DEF StepOf
<1>2. s = Def(s)
  <2> HIDE DEF Def
  <2> QED BY <1>1, Solution
<1>3. \A n : Factorial(n) = s[n]
  BY DEF Factorial
<1> HIDE DEF s
<1>4. s[0] = 1 /\ \A n \in Nat : s[n + 1] = (n + 1) * s[n]
  <2>1. \A k \in Nat : s[k] = IF k = 0 THEN 1 ELSE k * s[k - 1]
    BY <1>2
  <2>2. \A n \in Nat : n + 1 \in Nat /\ n + 1 # 0 /\ (n + 1) - 1 = n
    OBVIOUS
  <2> QED BY <2>1, <2>2
<1> QED BY <1>3, <1>4

\* and modPow, which squares the power with half the exponent.
LEMMA ModPowUnfolds ==
  ASSUME NEW x, NEW m
  PROVE  /\ modPow(x, 0, m) = 1
         /\ \A k \in Nat : k # 0 =>
              modPow(x, k, m) =
                (modPow(x, k \div 2, m) * modPow(x, k \div 2, m) * (IF k % 2 = 1 THEN x ELSE 1)) % m
<1> DEFINE Def(f) == [k \in Nat |-> IF k = 0 THEN 1
                        ELSE (f[k \div 2] * f[k \div 2] * (IF k % 2 = 1 THEN x ELSE 1)) % m]
           s == CHOOSE f : f = Def(f)
<1>1. \A f : [k \in Nat |-> StepOf("modPow", x, m, f, k)] = Def(f)
  BY DEF StepOf
<1>2. s = Def(s)
  <2> HIDE DEF Def
  <2> QED BY <1>1, Solution
<1>3. \A n : modPow(x, n, m) = s[n]
  BY DEF modPow
<1> HIDE DEF s
<1>4. \A k \in Nat : s[k] = IF k = 0 THEN 1
                        ELSE (s[k \div 2] * s[k \div 2] * (IF k % 2 = 1 THEN x ELSE 1)) % m
  BY <1>2
<1>5. 0 \in Nat
  OBVIOUS
<1> QED BY <1>3, <1>4, <1>5, Zenon

-----------------------------------------------------------------------------
(* Divisibility and congruence.                                             *)

\* n is a multiple of d.
Divides(d, n) == \E c \in Int : n = d * c

\* What divides two numbers divides their sum and their difference,
LEMMA DividesSum ==
  ASSUME NEW d \in Int, NEW m \in Int, NEW n \in Int, Divides(d, m), Divides(d, n)
  PROVE  Divides(d, m + n) /\ Divides(d, m - n)
<1>1. PICK a \in Int : m = d * a
  BY DEF Divides
<1>2. PICK b \in Int : n = d * b
  BY DEF Divides
<1>3. d * (a + b) = d * a + d * b /\ d * (a - b) = d * a - d * b
  BY ONLY d \in Int, a \in Int, b \in Int, SMT
<1>4. m + n = d * (a + b) /\ m - n = d * (a - b) /\ a + b \in Int /\ a - b \in Int
  BY <1>1, <1>2, <1>3
<1> QED BY <1>4, Zenon DEF Divides

\* every multiple of either,
LEMMA DividesProduct ==
  ASSUME NEW d \in Int, NEW m \in Int, NEW n \in Int, Divides(d, m)
  PROVE  Divides(d, m * n) /\ Divides(d, n * m)
<1>1. PICK a \in Int : m = d * a
  BY DEF Divides
<1>2. (d * a) * n = d * (a * n) /\ n * (d * a) = d * (a * n) /\ a * n \in Int
  BY ONLY d \in Int, a \in Int, n \in Int, SMT
<1> QED BY <1>1, <1>2, Zenon DEF Divides

\* and whatever they divide.
LEMMA DividesTransitive ==
  ASSUME NEW c \in Int, NEW d \in Int, NEW n \in Int, Divides(c, d), Divides(d, n)
  PROVE  Divides(c, n)
<1>1. PICK a \in Int : n = d * a
  BY DEF Divides
<1> QED BY <1>1, DividesProduct

\* A divisor of a positive number is positive and not above it.
LEMMA DividesBounds ==
  ASSUME NEW d \in Nat, NEW n \in Nat, n # 0, Divides(d, n)
  PROVE  d # 0 /\ d <= n
<1>1. PICK a \in Int : n = d * a
  BY DEF Divides
<1>2. \A u \in Nat, v \in Int : (u * v > 0) => (u # 0 /\ v >= 1 /\ u <= u * v)
  BY SMT
<1> QED BY <1>1, <1>2

\* Quotient and remainder
LEMMA DivMod ==
  ASSUME NEW a \in Int, NEW m \in Nat, m > 0
  PROVE  a \div m \in Int /\ a % m \in Nat /\ a % m < m /\ a = m * (a \div m) + (a % m)
  OBVIOUS

\* A remainder is determined by its range.
LEMMA RemainderUnique ==
  ASSUME NEW m \in Nat, m > 0, NEW r \in Nat, NEW t \in Nat, r < m, t < m, Divides(m, r - t)
  PROVE  r = t
<1>1. PICK k \in Int : r - t = m * k
  BY DEF Divides
<1>2. \A u \in Nat, v \in Int :
        u > 0 => (v >= 1 => u * v >= u) /\ (v <= -1 => u * v <= -u)
  BY SMT
<1>3. k >= 1 => m * k >= m
  BY <1>2
<1>4. k <= -1 => m * k <= -m
  BY <1>2
<1>5. k = 0
  BY <1>1, <1>3, <1>4
<1>6. m * k = 0
  BY <1>5
<1> QED BY <1>1, <1>6

\* A number less its remainder is a multiple; a multiple has remainder zero.
LEMMA DividesMod ==
  ASSUME NEW a \in Int, NEW m \in Nat, m > 0
  PROVE  Divides(m, a - (a % m)) /\ (Divides(m, a) <=> a % m = 0)
<1> DEFINE r == a % m
<1>1. PICK k \in Int : a = m * k + r
  BY DivMod, Zenon
<1>2. r \in Nat /\ r < m
  BY DivMod, Zenon
<1> HIDE DEF r
<1>3. m * k \in Int /\ a - r = m * k
  BY <1>1, <1>2
<1>4. Divides(m, a - r)
  BY <1>3, Zenon DEF Divides
<1>5. ASSUME Divides(m, a) PROVE r = 0
  <2>1. Divides(m, a - (a - r))
    BY <1>2, <1>4, <1>5, DividesSum
  <2>2. a - (a - r) = r - 0
    BY <1>2
  <2>3. Divides(m, r - 0)
    BY <2>1, <2>2
  <2> QED BY <1>2, <2>3, RemainderUnique
<1>6. ASSUME r = 0 PROVE Divides(m, a)
  <2>1. a - r = a
    BY <1>6
  <2> QED BY <1>4, <2>1
<1> QED BY <1>4, <1>5, <1>6 DEF r

\* Numbers are congruent when their remainders are the same.
LEMMA SameRemainder ==
  ASSUME NEW a \in Int, NEW b \in Int, NEW m \in Nat, m > 0
  PROVE  (a % m = b % m) <=> Divides(m, a - b)
<1> DEFINE r == a % m
           t == b % m
<1>1. r \in Nat /\ r < m /\ t \in Nat /\ t < m
  BY DivMod, Zenon
<1>2. Divides(m, a - r) /\ Divides(m, b - t)
  BY DividesMod, Zenon
<1> HIDE DEF r, t
<1>3. Divides(m, (a - r) - (b - t)) /\ a - r \in Int /\ b - t \in Int
  BY <1>1, <1>2, DividesSum
<1>4. ASSUME r = t PROVE Divides(m, a - b)
  <2>1. (a - r) - (b - t) = a - b
    BY <1>1, <1>4
  <2> QED BY <1>3, <2>1
<1>5. ASSUME Divides(m, a - b) PROVE r = t
  <2>1. Divides(m, (a - b) - ((a - r) - (b - t)))
    <3>1. (a - r) - (b - t) \in Int /\ a - b \in Int
      BY <1>1
    <3> QED BY <1>3, <1>5, <3>1, DividesSum
  <2>2. (a - b) - ((a - r) - (b - t)) = r - t
    BY <1>1
  <2>3. Divides(m, r - t)
    BY <2>1, <2>2
  <2> QED BY <1>1, <2>3, RemainderUnique
<1> QED BY <1>4, <1>5 DEF r, t

\* a and b are congruent modulo m.
Congruent(a, b, m) == Divides(m, a - b)

\* Congruence is an equivalence
LEMMA CongruentLaws ==
  ASSUME NEW m \in Int, NEW a \in Int, NEW b \in Int, NEW c \in Int
  PROVE  /\ Congruent(a, a, m)
         /\ Congruent(a, b, m) => Congruent(b, a, m)
         /\ Congruent(a, b, m) /\ Congruent(b, c, m) => Congruent(a, c, m)
<1>0. 0 = m * 0 /\ a - a = 0
  OBVIOUS
<1>1. Congruent(a, a, m)
  BY <1>0 DEF Congruent, Divides
<1>2. Divides(m, 0)
  BY <1>0 DEF Divides
<1>3. ASSUME Congruent(a, b, m) PROVE Congruent(b, a, m)
  <2>1. Divides(m, 0 - (a - b)) /\ 0 - (a - b) = b - a
    BY <1>2, <1>3, DividesSum DEF Congruent
  <2> QED BY <2>1 DEF Congruent
<1>4. ASSUME Congruent(a, b, m), Congruent(b, c, m) PROVE Congruent(a, c, m)
  <2>1. Divides(m, (a - b) + (b - c)) /\ (a - b) + (b - c) = a - c
    BY <1>4, DividesSum DEF Congruent
  <2> QED BY <2>1 DEF Congruent
<1> QED BY <1>1, <1>3, <1>4

\* that products respect.
LEMMA CongruentTimes ==
  ASSUME NEW m \in Int, NEW a \in Int, NEW b \in Int, NEW c \in Int, NEW d \in Int,
         Congruent(a, b, m), Congruent(c, d, m)
  PROVE  Congruent(a * c, b * d, m)
<1>0. a - b \in Int /\ c - d \in Int /\ Divides(m, a - b) /\ Divides(m, c - d)
  BY DEF Congruent
<1>1. Divides(m, (a - b) * c) /\ Divides(m, b * (c - d))
  BY <1>0, DividesProduct, Zenon
<1>2. (a - b) * c + b * (c - d) = a * c - b * d /\ (a - b) * c \in Int /\ b * (c - d) \in Int
  BY ONLY a \in Int, b \in Int, c \in Int, d \in Int, SMT
<1>3. Divides(m, (a - b) * c + b * (c - d))
  BY <1>1, <1>2, DividesSum
<1> QED BY <1>2, <1>3 DEF Congruent

\* A number is congruent to its remainder.
LEMMA CongruentRemainder ==
  ASSUME NEW a \in Int, NEW b \in Int, NEW m \in Nat, m > 0
  PROVE  /\ (a % m = b % m) <=> Congruent(a, b, m)
         /\ Congruent(a, a % m, m) /\ Congruent(a % m, a, m)
<1>1. (a % m = b % m) <=> Congruent(a, b, m)
  BY SameRemainder DEF Congruent
<1>2. Congruent(a, a % m, m)
  BY DividesMod, Zenon DEF Congruent
<1>3. a % m \in Int
  OBVIOUS
<1>4. Congruent(a % m, a, m)
  BY <1>2, <1>3, CongruentLaws
<1> QED BY <1>1, <1>2, <1>4, Zenon

\* The remainder is one exactly for what is congruent to one.
LEMMA RemainderOne ==
  ASSUME NEW a \in Int, NEW m \in Nat, m > 1
  PROVE  (a % m = 1) <=> Congruent(a, 1, m)
<1>1. 1 % m = 1
  OBVIOUS
<1>2. (a % m = 1 % m) <=> Congruent(a, 1, m)
  <2>1. m > 0 /\ 1 \in Int
    OBVIOUS
  <2> QED BY ONLY <2>1, CongruentRemainder, a \in Int, m \in Nat
<1> QED BY <1>1, <1>2

-----------------------------------------------------------------------------
(* Powers.                                                                  *)

\* Powers of integers are integers, of natural numbers natural numbers.
LEMMA PowerType ==
  ASSUME NEW x \in Int, NEW n \in Nat
  PROVE  Power(x, n) \in Int /\ (x \in Nat => Power(x, n) \in Nat)
<1> DEFINE S == {k \in Nat : Power(x, k) \in Int /\ (x \in Nat => Power(x, k) \in Nat)}
<1>1. 0 \in S
  BY PowerUnfolds
<1>2. ASSUME NEW k \in S PROVE k + 1 \in S
  <2>1. k \in Nat /\ Power(x, k) \in Int /\ (x \in Nat => Power(x, k) \in Nat)
    OBVIOUS
  <2>2. Power(x, k + 1) = x * Power(x, k)
    BY <2>1, PowerUnfolds
  <2>3. \A y \in Int : x * y \in Int /\ (x \in Nat /\ y \in Nat => x * y \in Nat)
    OBVIOUS
  <2> QED BY <2>1, <2>2, <2>3
<1>3. S \in SUBSET Nat
  OBVIOUS
<1>4. S = Nat
  <2> HIDE DEF S
  <2> QED BY <1>1, <1>2, <1>3, Induction
<1> QED BY <1>4

\* The first three powers
LEMMA PowerSmall ==
  ASSUME NEW x \in Int PROVE Power(x, 0) = 1 /\ Power(x, 1) = x /\ Power(x, 2) = x * x
<1>1. Power(x, 0) = 1 /\ Power(x, 0 + 1) = x * Power(x, 0) /\ Power(x, 1 + 1) = x * Power(x, 1)
  BY PowerUnfolds, Zenon
<1>2. 0 + 1 = 1 /\ 1 + 1 = 2 /\ x * 1 = x
  OBVIOUS
<1> QED BY <1>1, <1>2

\* The law of the sum of exponents, by induction
LEMMA PowerSum ==
  ASSUME NEW x \in Int, NEW i \in Nat, NEW n \in Nat
  PROVE  Power(x, i + n) = Power(x, i) * Power(x, n)
<1> DEFINE S == {k \in Nat : Power(x, i + k) = Power(x, i) * Power(x, k)}
<1>0. \A k \in Nat : Power(x, k) \in Int
  BY PowerType
<1>1. 0 \in S
  <2>1. i + 0 = i /\ Power(x, i) * 1 = Power(x, i)
    BY <1>0
  <2> QED BY <2>1, PowerUnfolds
<1>2. ASSUME NEW k \in S PROVE k + 1 \in S
  <2>1. k \in Nat /\ Power(x, i + k) = Power(x, i) * Power(x, k)
    OBVIOUS
  <2>2. Power(x, (i + k) + 1) = x * Power(x, i + k) /\ Power(x, k + 1) = x * Power(x, k)
    <3>1. i + k \in Nat
      BY <2>1
    <3> QED BY <2>1, <3>1, PowerUnfolds, Zenon
  <2>3. \A y, z \in Int : x * (y * z) = y * (x * z)
    BY SMT
  <2>4. x * (Power(x, i) * Power(x, k)) = Power(x, i) * (x * Power(x, k))
    BY <1>0, <2>1, <2>3
  <2>5. (i + k) + 1 = i + (k + 1) /\ k + 1 \in Nat
    BY <2>1
  <2>6. Power(x, i + (k + 1)) = Power(x, i) * Power(x, k + 1)
    BY <2>1, <2>2, <2>4, <2>5
  <2> QED BY <2>5, <2>6
<1>3. S \in SUBSET Nat
  OBVIOUS
<1>4. S = Nat
  <2> HIDE DEF S
  <2> QED BY <1>1, <1>2, <1>3, Induction
<1> QED BY <1>4

\* Every power of one is one.
LEMMA PowerOfOne == ASSUME NEW n \in Nat PROVE Power(1, n) = 1
<1> DEFINE S == {k \in Nat : Power(1, k) = 1}
<1>1. 0 \in S
  BY PowerUnfolds
<1>2. ASSUME NEW k \in S PROVE k + 1 \in S
  BY PowerUnfolds, SMTT(60)
<1>3. S \in SUBSET Nat
  OBVIOUS
<1>4. S = Nat
  <2> HIDE DEF S
  <2> QED BY <1>1, <1>2, <1>3, Induction
<1> QED BY <1>4

\* The law of the product of exponents, by induction
LEMMA PowerProduct ==
  ASSUME NEW x \in Int, NEW i \in Nat, NEW n \in Nat
  PROVE  Power(x, i * n) = Power(Power(x, i), n)
<1> DEFINE y == Power(x, i)
           S == {k \in Nat : Power(x, i * k) = Power(y, k)}
<1>0. y \in Int
  BY PowerType
<1>1. 0 \in S
  <2>1. i * 0 = 0
    OBVIOUS
  <2> QED BY <2>1, PowerUnfolds
<1>2. ASSUME NEW k \in S PROVE k + 1 \in S
  <2>1. k \in Nat /\ Power(x, i * k) = Power(y, k)
    OBVIOUS
  <2>2. i * k \in Nat /\ i * (k + 1) = i + i * k /\ k + 1 \in Nat
    BY <2>1
  <2>3. Power(x, i + i * k) = y * Power(x, i * k)
    BY <2>2, PowerSum
  <2>4. Power(y, k + 1) = y * Power(y, k)
    BY <2>1, PowerUnfolds
  <2>5. Power(x, i * (k + 1)) = Power(y, k + 1)
    BY <2>1, <2>2, <2>3, <2>4
  <2> QED BY <2>2, <2>5
<1>3. S \in SUBSET Nat
  OBVIOUS
<1>4. S = Nat
  <2> HIDE DEF S
  <2> QED BY <1>1, <1>2, <1>3, Induction
<1> QED BY <1>4

\* Congruent numbers have congruent powers.
LEMMA PowerCongruent ==
  ASSUME NEW x \in Int, NEW y \in Int, NEW m \in Int, Congruent(x, y, m), NEW n \in Nat
  PROVE  Congruent(Power(x, n), Power(y, n), m)
<1> DEFINE S == {k \in Nat : Congruent(Power(x, k), Power(y, k), m)}
<1>1. 0 \in S
  BY PowerUnfolds, CongruentLaws
<1>2. ASSUME NEW k \in S PROVE k + 1 \in S
  <2>1. k \in Nat /\ Congruent(Power(x, k), Power(y, k), m)
    OBVIOUS
  <2>2. Power(x, k) \in Int /\ Power(y, k) \in Int
    BY <2>1, PowerType
  <2>3. Congruent(x * Power(x, k), y * Power(y, k), m)
    BY <2>1, <2>2, CongruentTimes
  <2>4. Power(x, k + 1) = x * Power(x, k) /\ Power(y, k + 1) = y * Power(y, k)
    BY <2>1, PowerUnfolds, Zenon
  <2>5. k + 1 \in Nat
    BY <2>1
  <2> QED BY <2>3, <2>4, <2>5
<1>3. S \in SUBSET Nat
  OBVIOUS
<1>4. S = Nat
  <2> HIDE DEF S
  <2> QED BY <1>1, <1>2, <1>3, Induction
<1> QED BY <1>4

\* What modPow computes, for every base, exponent and modulus
LEMMA ModPowIsPower ==
  ASSUME NEW x \in Int, NEW m \in Nat, m > 1, NEW e \in Nat
  PROVE  modPow(x, e, m) = Power(x, e) % m
<1> DEFINE S == {k \in Nat : modPow(x, k, m) = Power(x, k) % m}
<1>1. ASSUME NEW k \in Nat, \A j \in Nat : j < k => j \in S PROVE k \in S
  <2>1. CASE k = 0
    <3>1. 1 % m = 1
      OBVIOUS
    <3> QED BY <2>1, <3>1, PowerUnfolds, ModPowUnfolds
  <2>2. CASE k # 0
    <3> DEFINE h == k \div 2
               y == Power(x, h)
               c == IF k % 2 = 1 THEN x ELSE 1
    <3>1. h \in Nat /\ h < k /\ k = (h + h) + (k % 2) /\ k % 2 \in 0 .. 1
      BY <2>2
    <3>2. modPow(x, h, m) = y % m
      BY <1>1, <3>1
    <3>3. modPow(x, k, m) = ((y % m) * (y % m) * c) % m
      <4>1. modPow(x, k, m) = (modPow(x, h, m) * modPow(x, h, m) * c) % m
        BY <2>2, ModPowUnfolds
      <4> HIDE DEF h, y, c
      <4> QED BY <3>2, <4>1
    <3>4. y \in Int /\ c \in Int
      BY <3>1, PowerType
    <3>5. Power(x, k) = y * y * c
      <4>1. Power(x, h + h) = y * y
        BY <3>1, PowerSum
      <4>2. CASE k % 2 = 1
        <5>1. k = (h + h) + 1 /\ h + h \in Nat /\ c = x
          BY <3>1, <4>2
        <5>2. Power(x, (h + h) + 1) = x * (y * y)
          BY <4>1, <5>1, PowerUnfolds
        <5>3. \A v \in Int : x * (v * v) = v * v * x
          BY SMT
        <5>4. Power(x, k) = Power(x, (h + h) + 1)
          BY ONLY <5>1
        <5>5. y * y * c = y * y * x
          BY ONLY <5>1
        <5>6. x * (y * y) = y * y * x
          BY <3>4, <5>3
        <5> HIDE DEF h, y, c
        <5> QED BY ONLY <5>2, <5>4, <5>5, <5>6, Zenon
      <4>3. CASE k % 2 # 1
        <5>1. k = h + h /\ c = 1
          BY <3>1, <4>3
        <5>2. y * y * 1 = y * y
          BY <3>4
        <5> HIDE DEF h, y, c
        <5> QED BY <4>1, <5>1, <5>2
      <4> QED BY <4>2, <4>3
    <3> HIDE DEF h, y, c
    <3>6. ((y % m) * (y % m) * c) % m = (y * y * c) % m
      <4> DEFINE r == y % m
      <4>1. Congruent(r, y, m) /\ r \in Int
        BY <3>4, CongruentRemainder, DivMod
      <4> HIDE DEF r
      <4>2. Congruent(r * r, y * y, m) /\ r * r \in Int /\ y * y \in Int
        BY <3>4, <4>1, CongruentTimes
      <4>3. Congruent(c, c, m)
        BY <3>4, CongruentLaws
      <4>4. Congruent(r * r * c, y * y * c, m)
        BY <3>4, <4>2, <4>3, CongruentTimes
      <4>5. r * r * c \in Int /\ y * y * c \in Int
        BY <3>4, <4>2
      <4>6. (r * r * c) % m = (y * y * c) % m
        <5>1. m > 0
          OBVIOUS
        <5> QED BY ONLY <4>4, <4>5, <5>1, CongruentRemainder, m \in Nat
      <4> QED BY <4>6 DEF r
    <3> QED BY <3>3, <3>5, <3>6
  <2> QED BY <2>1, <2>2
<1>2. S \in SUBSET Nat
  OBVIOUS
<1>3. S = Nat
  <2> HIDE DEF S
  <2> QED BY <1>1, <1>2, StrongInduction
<1> QED BY <1>3

-----------------------------------------------------------------------------
(* Primes.                                                                  *)

\* A prime has no divisor but one and itself.
LEMMA PrimeDivisor ==
  ASSUME NEW n \in Nat, IsPrime(n), NEW d \in Nat, Divides(d, n) PROVE d = 1 \/ d = n
<1>1. n > 1 /\ \A c \in 2 .. (n - 1) : n % c # 0
  BY DEF IsPrime
<1>2. d # 0 /\ d <= n
  BY <1>1, DividesBounds
<1>3. d > 0 /\ n \in Int
  BY <1>2
<1>4. n % d = 0
  BY ONLY <1>3, DividesMod, d \in Nat, Divides(d, n)
<1> QED BY <1>1, <1>2, <1>4

\* Some combination of a and b is one.
Coprime(a, b) == \E u, v \in Int : u * a + v * b = 1

\* The positive combinations of a and b
Combinations(a, b) == {n \in Nat : n > 0 /\ \E u, v \in Int : n = u * a + v * b}

\* The least of them divides a number of which every remainder is a combination.
LEMMA LeastDivides ==
  ASSUME NEW a \in Int, NEW b \in Int, NEW d \in Combinations(a, b),
         \A n \in Combinations(a, b) : d <= n,
         NEW c \in Int, \E i, j \in Int : c = i * a + j * b
  PROVE  Divides(d, c)
<1>1. PICK u, v \in Int : d = u * a + v * b
  BY DEF Combinations
<1>2. PICK i, j \in Int : c = i * a + j * b
  OBVIOUS
<1>3. d \in Nat /\ d > 0
  BY DEF Combinations
<1> DEFINE k == c \div d
           r == c % d
<1>4. k \in Int /\ r \in Nat /\ r < d /\ c = d * k + r
  BY <1>3, DivMod, Zenon
<1> HIDE DEF k, r
<1>5. r = (i - u * k) * a + (j - v * k) * b
  <2>1. (u * a + v * b) * k = (u * k) * a + (v * k) * b
    BY ONLY <1>4, <1>1, a \in Int, b \in Int, u \in Int, v \in Int, SMT
  <2>2. (i - u * k) * a = i * a - (u * k) * a /\ (j - v * k) * b = j * b - (v * k) * b
    <3>1. \A x, y, z \in Int : (x - y) * z = x * z - y * z
      BY SMT
    <3>2. u * k \in Int /\ v * k \in Int
      BY <1>4
    <3> QED BY <3>1, <3>2
  <2>4. i * a \in Int /\ j * b \in Int /\ (u * k) * a \in Int /\ (v * k) * b \in Int
    <3>1. u * k \in Int /\ v * k \in Int
      BY <1>4
    <3> QED BY <3>1
  <2>5. i * a + j * b = ((u * k) * a + (v * k) * b) + r
    BY <1>1, <1>2, <1>4, <2>1
  <2>6. r = (i * a - (u * k) * a) + (j * b - (v * k) * b)
    <3>1. PICK x \in Int : x = i * a
      BY <2>4
    <3>2. PICK y \in Int : y = j * b
      BY <2>4
    <3>3. PICK z \in Int : z = (u * k) * a
      BY <2>4
    <3>4. PICK w \in Int : w = (v * k) * b
      BY <2>4
    <3>5. x + y = (z + w) + r
      BY ONLY <2>5, <3>1, <3>2, <3>3, <3>4, Zenon
    <3>6. r = (x - z) + (y - w)
      BY ONLY <1>4, <3>5, x \in Int, y \in Int, z \in Int, w \in Int
    <3> QED BY ONLY <3>1, <3>2, <3>3, <3>4, <3>6, Zenon
  <2> QED BY ONLY <2>2, <2>6, Zenon
<1>6. i - u * k \in Int /\ j - v * k \in Int
  BY <1>4
<1>7. r > 0 => r \in Combinations(a, b)
  BY <1>4, <1>5, <1>6 DEF Combinations
<1>8. r = 0
  BY <1>3, <1>4, <1>7
<1>9. c = d * k
  BY <1>3, <1>4, <1>8
<1> QED BY <1>4, <1>9 DEF Divides

\* Bezout: a prime and what it does not divide are coprime.
LEMMA PrimeCoprime ==
  ASSUME NEW n \in Nat, IsPrime(n), NEW a \in Int, ~Divides(n, a) PROVE Coprime(n, a)
<1> DEFINE S == Combinations(n, a)
<1>1. n \in S
  <2>1. n = 1 * n + 0 * a /\ n > 0
    BY DEF IsPrime
  <2> QED BY <2>1 DEF Combinations
<1>2. S \in SUBSET Nat
  BY DEF Combinations
<1>3. PICK d \in S : \A m \in S : d <= m
  <2> HIDE DEF S
  <2> QED BY <1>1, <1>2, LeastNumber
<1>4. n = 1 * n + 0 * a /\ a = 0 * n + 1 * a
  OBVIOUS
<1>5. Divides(d, n) /\ Divides(d, a)
  <2>1. n \in Int /\ 0 \in Int /\ 1 \in Int
    OBVIOUS
  <2>2. (\E i, j \in Int : n = i * n + j * a) /\ (\E i, j \in Int : a = i * n + j * a)
    BY ONLY <1>4, <2>1
  <2> QED BY ONLY <1>3, <2>1, <2>2, LeastDivides, a \in Int, Zenon
<1>6. d \in Nat
  BY <1>2
<1>7. d = 1 \/ d = n
  BY <1>5, <1>6, PrimeDivisor
<1>8. d = 1
  BY <1>5, <1>7
<1> QED BY <1>3, <1>8 DEF Combinations, Coprime

\* Euclid: what divides a product and is coprime to one factor divides the other.
LEMMA EuclidDivides ==
  ASSUME NEW a \in Int, NEW b \in Int, NEW c \in Int, Coprime(a, b), Divides(a, b * c)
  PROVE  Divides(a, c)
<1>1. PICK u, v \in Int : u * a + v * b = 1
  BY DEF Coprime
<1>2. PICK k \in Int : b * c = a * k
  BY DEF Divides
<1>3. c = (u * a + v * b) * c
  BY <1>1
<1>4. (u * a + v * b) * c = a * (u * c) + v * (b * c)
  BY ONLY <1>1, a \in Int, b \in Int, c \in Int, u \in Int, v \in Int, SMT
<1>5. v * (a * k) = a * (v * k)
  BY ONLY a \in Int, k \in Int, v \in Int, SMT
<1>6. a * (u * c) + a * (v * k) = a * (u * c + v * k) /\ u * c + v * k \in Int
  <2>1. \A x, y \in Int : a * x + a * y = a * (x + y)
    BY SMT
  <2>2. u * c \in Int /\ v * k \in Int
    OBVIOUS
  <2> QED BY <2>1, <2>2
<1>7. c = a * (u * c + v * k)
  BY ONLY <1>2, <1>3, <1>4, <1>5, <1>6, Zenon
<1> QED BY <1>6, <1>7 DEF Divides

\* What two coprime numbers divide, their product divides.
LEMMA ProductDivides ==
  ASSUME NEW a \in Int, NEW b \in Int, NEW c \in Int, Coprime(a, b), Divides(a, c), Divides(b, c)
  PROVE  Divides(a * b, c)
<1>1. PICK u, v \in Int : u * a + v * b = 1
  BY DEF Coprime
<1>2. PICK i \in Int : c = a * i
  BY DEF Divides
<1>3. PICK j \in Int : c = b * j
  BY DEF Divides
<1>4. c = (u * a + v * b) * c
  BY <1>1
<1>5. (u * a + v * b) * c = (u * a) * c + (v * b) * c
  <2>1. \A x, y \in Int : (x + y) * c = x * c + y * c
    BY SMT
  <2>2. u * a \in Int /\ v * b \in Int
    OBVIOUS
  <2> QED BY <2>1, <2>2
<1>6. (u * a) * (b * j) = (a * b) * (u * j)
  BY ONLY a \in Int, b \in Int, j \in Int, u \in Int, SMT
<1>7. (v * b) * (a * i) = (a * b) * (v * i)
  BY ONLY a \in Int, b \in Int, i \in Int, v \in Int, SMT
<1>8. (a * b) * (u * j) + (a * b) * (v * i) = (a * b) * (u * j + v * i) /\ u * j + v * i \in Int
  <2>1. \A w, x, y \in Int : w * x + w * y = w * (x + y)
    BY SMT
  <2>2. a * b \in Int /\ u * j \in Int /\ v * i \in Int /\ u * j + v * i \in Int
    OBVIOUS
  <2> QED BY ONLY <2>1, <2>2
<1>9. (u * a) * c = (a * b) * (u * j) /\ (v * b) * c = (a * b) * (v * i)
  BY ONLY <1>2, <1>3, <1>6, <1>7, Zenon
<1>10. c = (a * b) * (u * j + v * i)
  BY ONLY <1>4, <1>5, <1>8, <1>9, Zenon
<1> QED BY <1>8, <1>10 DEF Divides

\* Two different primes are coprime.
LEMMA PrimesCoprime ==
  ASSUME NEW m \in Nat, NEW n \in Nat, IsPrime(m), IsPrime(n), m # n PROVE Coprime(m, n)
<1>1. ASSUME Divides(m, n) PROVE FALSE
  <2>1. m = 1 \/ m = n
    BY <1>1, PrimeDivisor
  <2> QED BY <2>1 DEF IsPrime
<1> QED BY <1>1, PrimeCoprime

\* Powers of a number that are one, for coprime exponents, make the number one.
LEMMA CoprimeExponents ==
  ASSUME NEW x \in Int, NEW m \in Int, NEW i \in Nat, NEW k \in Nat, i > 0, k > 0, Coprime(i, k),
         Congruent(Power(x, i), 1, m), Congruent(Power(x, k), 1, m)
  PROVE  Congruent(x, 1, m)
<1>0. ASSUME NEW a \in Nat, NEW b \in Nat, NEW c \in Nat, NEW d \in Nat, a * b = 1 + c * d,
             Congruent(Power(x, b), 1, m), Congruent(Power(x, d), 1, m)
      PROVE  Congruent(x, 1, m)
  <2>1. ASSUME NEW e \in Nat, NEW f \in Nat, Congruent(Power(x, f), 1, m)
        PROVE  Congruent(Power(x, e * f), 1, m)
    <3>1. e * f = f * e /\ Power(x, f * e) = Power(Power(x, f), e)
      BY PowerProduct
    <3>2. Power(x, f) \in Int /\ 1 \in Int
      BY PowerType
    <3>3. Congruent(Power(Power(x, f), e), Power(1, e), m)
      BY ONLY <2>1, <3>2, PowerCongruent, m \in Int, e \in Nat
    <3>4. Power(1, e) = 1
      BY PowerOfOne
    <3> QED BY <3>1, <3>3, <3>4
  <2>2. Congruent(Power(x, a * b), 1, m) /\ Congruent(Power(x, c * d), 1, m)
    BY <1>0, <2>1
  <2>3. c * d \in Nat /\ 1 + c * d = c * d + 1
    OBVIOUS
  <2> DEFINE y == Power(x, c * d)
  <2>4. Power(x, a * b) = x * y
    BY <1>0, <2>3, PowerUnfolds
  <2>10. y \in Int
    BY <2>3, PowerType
  <2> HIDE DEF y
  <2>5. y \in Int /\ x * y \in Int /\ x * 1 = x
    BY <2>10
  <2>6. Congruent(x * y, 1, m) /\ Congruent(y, 1, m)
    BY <2>2, <2>4 DEF y
  <2>7. Congruent(1, y, m)
    BY <2>5, <2>6, CongruentLaws
  <2>8. Congruent(x, x, m)
    BY CongruentLaws
  <2>9. Congruent(x * 1, x * y, m)
    <3>1. 1 \in Int
      OBVIOUS
    <3> QED BY ONLY <2>5, <2>7, <2>8, <3>1, CongruentTimes, x \in Int, m \in Int
  <2> QED BY <2>5, <2>6, <2>9, CongruentLaws
<1>1. PICK u, v \in Int : u * i + v * k = 1
  BY DEF Coprime
<1>2. \A y, z \in Int, w \in Nat : w > 0 => ((y >= 1 => y * w >= 1) /\ (y <= 0 => y * w <= 0))
  BY SMT
<1>3. (u >= 1 => u * i >= 1) /\ (u <= 0 => u * i <= 0) /\ (v >= 1 => v * k >= 1) /\ (v <= 0 => v * k <= 0)
  BY <1>2
<1>4. u * i \in Int /\ v * k \in Int
  OBVIOUS
<1>5. (u >= 1 /\ v <= 0) \/ (u <= 0 /\ v >= 1)
  BY <1>1, <1>3, <1>4
<1>6. CASE u >= 1 /\ v <= 0
  <2>1. u \in Nat /\ -v \in Nat
    BY <1>6
  <2>2. u * i = 1 + (-v) * k
    <3>1. (-v) * k = -(v * k)
      OBVIOUS
    <3> QED BY ONLY <1>1, <1>4, <3>1
  <2> QED BY <1>0, <2>1, <2>2
<1>7. CASE u <= 0 /\ v >= 1
  <2>1. -u \in Nat /\ v \in Nat
    BY <1>7
  <2>2. v * k = 1 + (-u) * i
    <3>1. (-u) * i = -(u * i)
      OBVIOUS
    <3> QED BY ONLY <1>1, <1>4, <3>1
  <2> QED BY <1>0, <2>1, <2>2
<1> QED BY <1>5, <1>6, <1>7

-----------------------------------------------------------------------------
(* The orders of generators.                                                *)

\* g is a generator of the subgroup of the prime order n modulo m.
Generates(g, n, m) == Congruent(Power(g, n), 1, m) /\ ~Congruent(g, 1, m)

\* The exponents that take a generator to one are the multiples of its order.
LEMMA GeneratorExponent ==
  ASSUME NEW g \in Int, NEW n \in Nat, NEW m \in Int, IsPrime(n), Generates(g, n, m),
         NEW k \in Nat, k > 0, Congruent(Power(g, k), 1, m)
  PROVE  Divides(n, k)
<1>1. SUFFICES ASSUME ~Divides(n, k) PROVE FALSE
  OBVIOUS
<1>2. Coprime(n, k)
  BY <1>1, PrimeCoprime
<1>3. n > 0
  BY DEF IsPrime
<1>4. Congruent(Power(g, n), 1, m) /\ ~Congruent(g, 1, m)
  BY DEF Generates
<1> QED BY ONLY <1>2, <1>3, <1>4, CoprimeExponents, g \in Int, n \in Nat, m \in Int, k \in Nat, k > 0,
                Congruent(Power(g, k), 1, m)

\* A multiple of an exponent that takes x to one takes it to one.
LEMMA MultipleExponent ==
  ASSUME NEW x \in Int, NEW m \in Int, NEW n \in Nat, NEW k \in Nat, Congruent(Power(x, n), 1, m)
  PROVE  Congruent(Power(x, n * k), 1, m)
<1>1. Power(x, n * k) = Power(Power(x, n), k)
  BY PowerProduct
<1>2. Power(x, n) \in Int /\ 1 \in Int
  BY PowerType
<1>3. Congruent(Power(Power(x, n), k), Power(1, k), m)
  BY ONLY <1>2, PowerCongruent, m \in Int, k \in Nat, Congruent(Power(x, n), 1, m)
<1>4. Power(1, k) = 1
  BY PowerOfOne
<1> QED BY <1>1, <1>3, <1>4

\* A power of a generator is one as well, unless its exponent is a multiple of the order.
LEMMA GeneratorPower ==
  ASSUME NEW g \in Int, NEW n \in Nat, NEW m \in Int, IsPrime(n), Generates(g, n, m),
         NEW e \in Nat, ~Divides(n, e)
  PROVE  Generates(Power(g, e), n, m)
<1>1. e > 0
  <2>1. 0 = n * 0
    OBVIOUS
  <2>2. Divides(n, 0)
    BY <2>1 DEF Divides
  <2> QED BY <2>2
<1>2. ~Congruent(Power(g, e), 1, m)
  BY <1>1, GeneratorExponent
<1>3. Congruent(Power(g, n), 1, m)
  BY DEF Generates
<1>4. Congruent(Power(g, n * e), 1, m)
  BY <1>3, MultipleExponent
<1>5. n * e = e * n
  OBVIOUS
<1>6. Power(g, e * n) = Power(Power(g, e), n)
  BY PowerProduct
<1> QED BY <1>2, <1>4, <1>5, <1>6 DEF Generates

\* To generate or not depends on the class only.
LEMMA GeneratorCongruent ==
  ASSUME NEW g \in Int, NEW h \in Int, NEW n \in Nat, NEW m \in Int, Generates(g, n, m), Congruent(h, g, m)
  PROVE  Generates(h, n, m)
<1>1. Congruent(Power(h, n), Power(g, n), m)
  BY PowerCongruent
<1>2. Power(h, n) \in Int /\ Power(g, n) \in Int /\ 1 \in Int
  BY PowerType
<1>3. Congruent(Power(h, n), 1, m)
  BY <1>1, <1>2, CongruentLaws DEF Generates
<1>4. Congruent(g, h, m)
  BY CongruentLaws
<1>5. Congruent(h, 1, m) => Congruent(g, 1, m)
  BY ONLY <1>2, <1>4, CongruentLaws, g \in Int, h \in Int, m \in Int
<1> QED BY <1>3, <1>5 DEF Generates

\* Congruent modulo a product: modulo its factors
LEMMA CongruentFactor ==
  ASSUME NEW a \in Int, NEW b \in Int, NEW m \in Int, NEW n \in Int, Congruent(a, b, m * n)
  PROVE  Congruent(a, b, m) /\ Congruent(a, b, n)
<1>1. Divides(m, m * n) /\ Divides(n, m * n)
  <2>1. m * n = n * m
    OBVIOUS
  <2> QED BY <2>1 DEF Divides
<1>2. m * n \in Int /\ a - b \in Int
  OBVIOUS
<1> QED BY <1>1, <1>2, DividesTransitive DEF Congruent

\* What is used of the primes and their halves
Parts(p, q, M, N) ==
  /\ p \in Nat /\ q \in Nat /\ M \in Nat /\ N \in Nat
  /\ IsPrime(p) /\ IsPrime(q) /\ IsPrime(M) /\ IsPrime(N)
  /\ p # q /\ M # N

\* A number that generates modulo both primes has the order of the whole group.
LEMMA OrderOfProduct ==
  ASSUME NEW p, NEW q, NEW M, NEW N, Parts(p, q, M, N), NEW b \in Int,
         Generates(b, p, M), Generates(b, q, N)
  PROVE  /\ HasOrder(b, p * q, M * N)
         /\ \A k \in Nat : k > 0 /\ Congruent(Power(b, k), 1, M) /\ Congruent(Power(b, k), 1, N)
                             => Divides(p * q, k)
<1>1. /\ p \in Nat /\ q \in Nat /\ M \in Nat /\ N \in Nat
      /\ IsPrime(p) /\ IsPrime(q) /\ IsPrime(M) /\ IsPrime(N) /\ p # q /\ M # N
  BY DEF Parts
<1>2. p > 1 /\ q > 1 /\ M > 1 /\ N > 1
  BY <1>1 DEF IsPrime
<1>3. p * q \in Nat /\ M * N \in Nat /\ p * q > 1 /\ M * N > 1 /\ p * q = q * p
  <2>1. \A x, y \in Nat : x > 1 /\ y > 1 => x * y > 1 /\ x * y \in Nat /\ x * y = y * x
    BY SMT
  <2> QED BY <1>1, <1>2, <2>1
<1>4. Coprime(p, q) /\ Coprime(M, N)
  BY <1>1, PrimesCoprime
<1>5. ASSUME NEW k \in Nat, k > 0, Congruent(Power(b, k), 1, M), Congruent(Power(b, k), 1, N)
      PROVE  Divides(p * q, k)
  <2>0. M \in Int /\ N \in Int /\ k \in Int /\ p \in Int /\ q \in Int
    BY <1>1
  <2>1. Divides(p, k) /\ Divides(q, k)
    BY <1>1, <1>5, <2>0, GeneratorExponent
  <2> QED BY <1>4, <2>0, <2>1, ProductDivides
<1>6. \A k \in Nat : modPow(b, k, M * N) = 1 <=> Congruent(Power(b, k), 1, M * N)
  <2> SUFFICES ASSUME NEW k \in Nat PROVE modPow(b, k, M * N) = 1 <=> Congruent(Power(b, k), 1, M * N)
    OBVIOUS
  <2>1. PICK m \in Nat : m = M * N
    BY <1>3
  <2>2. m > 1
    BY <1>3, <2>1
  <2>3. modPow(b, k, m) = Power(b, k) % m
    BY ONLY <2>2, ModPowIsPower, b \in Int, m \in Nat, k \in Nat
  <2>4. Power(b, k) \in Int
    BY PowerType
  <2>5. (Power(b, k) % m = 1) <=> Congruent(Power(b, k), 1, m)
    BY ONLY <2>2, <2>4, RemainderOne, m \in Nat
  <2> QED BY ONLY <2>1, <2>3, <2>5, Zenon
<1>7. modPow(b, p * q, M * N) = 1
  <2>1. Congruent(Power(b, p), 1, M) /\ Congruent(Power(b, q), 1, N)
    BY DEF Generates
  <2>2. M \in Int /\ N \in Int
    BY <1>1
  <2>3. Congruent(Power(b, p * q), 1, M)
    BY <1>1, <2>1, <2>2, MultipleExponent
  <2>4. Congruent(Power(b, q * p), 1, N)
    BY <1>1, <2>1, <2>2, MultipleExponent
  <2>5. Congruent(Power(b, p * q), 1, N)
    BY ONLY <1>3, <2>4, Zenon
  <2>6. Power(b, p * q) \in Int
    BY <1>3, PowerType
  <2>7. Power(b, p * q) - 1 \in Int
    BY <2>6
  <2>8. Congruent(Power(b, p * q), 1, M * N)
    BY <1>4, <2>2, <2>3, <2>5, <2>7, ProductDivides DEF Congruent
  <2> QED BY <1>3, <1>6, <2>8
<1>8. ASSUME NEW k \in 1 .. (p * q - 1) PROVE modPow(b, k, M * N) # 1
  <2>1. SUFFICES ASSUME modPow(b, k, M * N) = 1 PROVE FALSE
    OBVIOUS
  <2>2. k \in Nat /\ k # 0 /\ k > 0 /\ ~(p * q <= k)
    BY <1>3
  <2>3. Congruent(Power(b, k), 1, M * N)
    BY <1>6, <2>1, <2>2
  <2>4. Power(b, k) \in Int /\ 1 \in Int /\ M \in Int /\ N \in Int
    BY <1>1, <2>2, PowerType
  <2>5. Congruent(Power(b, k), 1, M) /\ Congruent(Power(b, k), 1, N)
    BY ONLY <2>3, <2>4, CongruentFactor
  <2>6. Divides(p * q, k)
    BY <1>5, <2>2, <2>5
  <2> QED BY ONLY <1>3, <2>2, <2>6, DividesBounds
<1>9. HasOrder(b, p * q, M * N)
  BY <1>7, <1>8 DEF HasOrder
<1> QED BY <1>5, <1>9

\* A generator that is its own power modulo m: the exponent less one is a multiple of the order.
LEMMA OwnPower ==
  ASSUME NEW b \in Int, NEW n \in Nat, NEW m \in Int, IsPrime(n), Generates(b, n, m),
         NEW a \in Nat, a > 1, Congruent(Power(b, a), b, m)
  PROVE  Congruent(Power(b, a - 1), 1, m)
<1>1. n - 1 \in Nat /\ a - 1 \in Nat /\ a + (n - 1) = (a - 1) + n /\ 1 + (n - 1) = n /\ (n - 1) + 1 = n
  BY DEF IsPrime
<1> DEFINE c == Power(b, n - 1)
           d == Power(b, a - 1)
           o == Power(b, n)
           e == Power(b, a)
<1>2. c \in Int /\ d \in Int /\ o \in Int /\ e \in Int
  BY <1>1, PowerType
<1>3. Power(b, a + (n - 1)) = e * c
  BY <1>1, PowerSum
<1>4. Power(b, (a - 1) + n) = d * o
  BY <1>1, PowerSum
<1>5. o = b * c
  BY <1>1, PowerUnfolds
<1>6. Congruent(o, 1, m)
  BY DEF Generates
<1>7. e * c = d * o
  BY ONLY <1>1, <1>3, <1>4, Zenon
<1> HIDE DEF c, d, o
<1>8. Congruent(e, b, m)
  OBVIOUS
<1> HIDE DEF e
<1>9. Congruent(c, c, m) /\ Congruent(d, d, m) /\ Congruent(1, o, m)
  <2>1. 1 \in Int
    OBVIOUS
  <2> QED BY ONLY <1>2, <1>6, <2>1, CongruentLaws, m \in Int
<1>10. Congruent(e * c, b * c, m)
  BY <1>2, <1>8, <1>9, CongruentTimes
<1>11. Congruent(d * 1, d * o, m)
  <2>1. 1 \in Int
    OBVIOUS
  <2> QED BY ONLY <1>2, <1>9, <2>1, CongruentTimes, m \in Int
<1>12. d * 1 = d /\ d * o \in Int /\ 1 \in Int
  BY <1>2
<1>13. Congruent(d, d * o, m) /\ Congruent(d * o, o, m)
  BY ONLY <1>5, <1>7, <1>10, <1>11, <1>12, Zenon
<1>14. Congruent(d, o, m)
  BY ONLY <1>2, <1>12, <1>13, CongruentLaws, m \in Int
<1>15. Congruent(d, 1, m)
  BY ONLY <1>2, <1>12, <1>14, <1>6, CongruentLaws, m \in Int
<1> QED BY <1>15 DEF d

\* A power of the first generator, with an exponent between one and the order, is another number.
LEMMA OtherGenerator ==
  ASSUME NEW p, NEW q, NEW M, NEW N, Parts(p, q, M, N), NEW b \in Nat,
         Generates(b, p, M), Generates(b, q, N),
         NEW a \in Nat, a > 1, a <= p * q
  PROVE  modPow(b, a, M * N) # b
<1>1. SUFFICES ASSUME modPow(b, a, M * N) = b PROVE FALSE
  OBVIOUS
<1>2. /\ p \in Nat /\ q \in Nat /\ M \in Nat /\ N \in Nat
      /\ IsPrime(p) /\ IsPrime(q) /\ IsPrime(M) /\ IsPrime(N)
  BY DEF Parts
<1>3. p > 1 /\ q > 1 /\ M > 1 /\ N > 1
  BY <1>2 DEF IsPrime
<1>4. p * q \in Nat /\ M * N \in Nat /\ M * N > 1
  <2>1. \A x, y \in Nat : x > 1 /\ y > 1 => x * y > 1 /\ x * y \in Nat
    BY SMT
  <2> QED BY <1>2, <1>3, <2>1
<1>5. Congruent(Power(b, a), b, M * N)
  <2>1. PICK m \in Nat : m = M * N
    BY <1>4
  <2>2. m > 1 /\ m > 0 /\ b \in Int
    BY <1>4, <2>1
  <2>3. modPow(b, a, m) = Power(b, a) % m
    BY ONLY <2>2, ModPowIsPower, m \in Nat, a \in Nat
  <2>4. Power(b, a) \in Int
    BY <2>2, PowerType
  <2>5. Congruent(Power(b, a), Power(b, a) % m, m)
    BY ONLY <2>2, <2>4, CongruentRemainder, m \in Nat
  <2> QED BY ONLY <1>1, <2>1, <2>3, <2>5, Zenon
<1>6. Power(b, a) \in Int /\ b \in Int /\ M \in Int /\ N \in Int
  BY <1>2, PowerType
<1>7. Congruent(Power(b, a), b, M) /\ Congruent(Power(b, a), b, N)
  BY ONLY <1>5, <1>6, CongruentFactor
<1>8. Congruent(Power(b, a - 1), 1, M) /\ Congruent(Power(b, a - 1), 1, N)
  BY <1>2, <1>6, <1>7, OwnPower
<1>9. a - 1 \in Nat /\ a - 1 > 0 /\ a - 1 # 0 /\ ~(p * q <= a - 1)
  BY <1>4
<1>10. Divides(p * q, a - 1)
  BY <1>6, <1>8, <1>9, OrderOfProduct
<1> QED BY ONLY <1>4, <1>9, <1>10, DividesBounds

-----------------------------------------------------------------------------
(* Four is a generator for every safe prime.                                *)

\* A prime of which the half is one
SafePrime(n) == n \in Nat /\ n > 5 /\ IsPrime(n) /\ IsSafe(n)

\* (prime - 1) / 2 of a safe prime above 5 is an odd prime.
LEMMA HalfOfSafe ==
  ASSUME NEW n, SafePrime(n)
  PROVE  /\ Half(n) \in Nat /\ n = 2 * Half(n) + 1 /\ Half(n) >= 3 /\ IsPrime(Half(n)) /\ Half(n) % 2 = 1
<1>1. n \in Nat /\ n > 5 /\ IsPrime(n) /\ IsPrime(Half(n))
  BY DEF SafePrime, IsSafe
<1>2. n % 2 # 0
  BY <1>1 DEF IsPrime
<1> DEFINE h == Half(n)
<1>3. h \in Nat /\ n = 2 * h + 1 /\ h >= 3
  BY <1>1, <1>2 DEF Half
<1> HIDE DEF h
<1>4. h % 2 # 0
  BY <1>1, <1>3 DEF IsPrime, h
<1>5. h % 2 = 1
  BY <1>3, <1>4
<1> QED BY <1>1, <1>3, <1>5 DEF h

\* Factorials are natural numbers.
LEMMA FactorialType == ASSUME NEW n \in Nat PROVE Factorial(n) \in Nat
<1> DEFINE S == {k \in Nat : Factorial(k) \in Nat}
<1>1. 0 \in S
  BY FactorialUnfolds
<1>2. ASSUME NEW k \in S PROVE k + 1 \in S
  <2>1. k \in Nat /\ Factorial(k) \in Nat /\ k + 1 \in Nat
    OBVIOUS
  <2>2. Factorial(k + 1) = (k + 1) * Factorial(k)
    BY <2>1, FactorialUnfolds
  <2>3. \A x, y \in Nat : x * y \in Nat
    OBVIOUS
  <2> QED BY <2>1, <2>2, <2>3
<1>3. S \in SUBSET Nat
  OBVIOUS
<1>4. S = Nat
  <2> HIDE DEF S
  <2> QED BY <1>1, <1>2, <1>3, Induction
<1> QED BY <1>4

\* A prime does not divide a product whose factors it does not divide.
LEMMA PrimeProduct ==
  ASSUME NEW m \in Nat, IsPrime(m), NEW a \in Int, NEW b \in Int, ~Divides(m, a), ~Divides(m, b)
  PROVE  ~Divides(m, a * b)
<1>1. Coprime(m, a) /\ m \in Int
  BY PrimeCoprime
<1> QED BY <1>1, EuclidDivides

\* A prime does not divide the factorial of a smaller number.
LEMMA FactorialPrime ==
  ASSUME NEW m \in Nat, IsPrime(m), NEW n \in Nat, n < m PROVE ~Divides(m, Factorial(n))
<1> DEFINE S == {k \in Nat : k < m => ~Divides(m, Factorial(k))}
<1>0. m > 1
  BY DEF IsPrime
<1>1. 0 \in S
  <2>1. 1 \in Nat /\ 1 # 0 /\ ~(m <= 1)
    BY <1>0
  <2>2. ~Divides(m, 1)
    BY ONLY <2>1, DividesBounds, m \in Nat
  <2> QED BY <2>2, FactorialUnfolds
<1>2. ASSUME NEW k \in S PROVE k + 1 \in S
  <2>1. k \in Nat /\ (k < m => ~Divides(m, Factorial(k)))
    OBVIOUS
  <2>2. SUFFICES ASSUME k + 1 < m PROVE ~Divides(m, Factorial(k + 1))
    BY <2>1
  <2>3. k < m /\ k + 1 \in Nat /\ k + 1 # 0 /\ ~(m <= k + 1) /\ k + 1 \in Int
    BY <2>1, <2>2
  <2>4. ~Divides(m, k + 1)
    BY ONLY <2>3, DividesBounds, m \in Nat
  <2>5. Factorial(k) \in Int
    BY <2>1, FactorialType
  <2>6. ~Divides(m, (k + 1) * Factorial(k))
    BY <2>1, <2>3, <2>4, <2>5, PrimeProduct
  <2> QED BY <2>1, <2>6, FactorialUnfolds
<1>3. S \in SUBSET Nat
  OBVIOUS
<1>4. S = Nat
  <2> HIDE DEF S
  <2> QED BY <1>1, <1>2, <1>3, Induction
<1> QED BY <1>4

\* Modulo 2p + 1, twice p + k is 2k - 1: the even numbers above p are the odd ones from one on.
LEMMA FourFactorial ==
  ASSUME NEW p \in Nat, NEW n \in Nat
  PROVE  Congruent(Power(4, n) * (Factorial(n) * Factorial(p + n)), Factorial(p) * Factorial(2 * n), 2 * p + 1)
<1> DEFINE L(k) == Power(4, k) * (Factorial(k) * Factorial(p + k))
           R(k) == Factorial(p) * Factorial(2 * k)
           M == 2 * p + 1
           S == {k \in Nat : Congruent(L(k), R(k), M)}
<1>0. M \in Nat
  OBVIOUS
<1>1. 0 \in S
  <2>1. PICK f \in Int : f = Factorial(p)
    BY FactorialType
  <2>2. Power(4, 0) = 1 /\ Factorial(0) = 1 /\ p + 0 = p /\ 2 * 0 = 0
    BY PowerUnfolds, FactorialUnfolds
  <2>3. 1 * (1 * f) = f /\ f * 1 = f
    OBVIOUS
  <2>4. L(0) = f
    BY ONLY <2>1, <2>2, <2>3, Zenon
  <2>5. R(0) = f
    BY ONLY <2>1, <2>2, <2>3, Zenon
  <2> HIDE DEF L, R, M
  <2>6. Congruent(f, f, M)
    BY <1>0, CongruentLaws
  <2>7. Congruent(L(0), R(0), M)
    BY ONLY <2>4, <2>5, <2>6, Zenon
  <2> QED BY <2>7
<1>2. ASSUME NEW k \in S PROVE k + 1 \in S
  <2>1. k \in Nat /\ Congruent(L(k), R(k), M)
    OBVIOUS
  <2>2. k + 1 \in Nat /\ p + k \in Nat /\ 2 * k \in Nat /\ 2 * k + 1 \in Nat
    BY <2>1
  <2>3. PICK a \in Int : a = Power(4, k)
    BY <2>1, PowerType
  <2>4. PICK b \in Int : b = Factorial(k)
    BY <2>1, FactorialType
  <2>5. PICK c \in Int : c = Factorial(p + k)
    BY <2>2, FactorialType
  <2>6. PICK d \in Int : d = Factorial(2 * k)
    BY <2>2, FactorialType
  <2>7. PICK f \in Int : f = Factorial(p)
    BY FactorialType
  <2>8. Power(4, k + 1) = 4 * a /\ Factorial(k + 1) = (k + 1) * b
    BY <2>1, <2>3, <2>4, PowerUnfolds, FactorialUnfolds
  <2>9. Factorial(p + (k + 1)) = ((p + k) + 1) * c
    <3>1. p + (k + 1) = (p + k) + 1
      BY <2>1
    <3> QED BY <2>2, <2>5, <3>1, FactorialUnfolds
  <2>10. Factorial(2 * (k + 1)) = ((2 * k + 1) + 1) * ((2 * k + 1) * d)
    <3>1. 2 * (k + 1) = (2 * k + 1) + 1
      BY <2>1
    <3>2. Factorial(2 * k + 1) = (2 * k + 1) * d
      BY <2>2, <2>6, FactorialUnfolds
    <3>3. Factorial((2 * k + 1) + 1) = ((2 * k + 1) + 1) * Factorial(2 * k + 1)
      BY <2>2, FactorialUnfolds
    <3> QED BY ONLY <3>1, <3>2, <3>3, Zenon
  <2>11. L(k) = a * (b * c) /\ R(k) = f * d
    BY ONLY <2>3, <2>4, <2>5, <2>6, <2>7, Zenon
  <2>12. /\ L(k + 1) = (4 * a) * (((k + 1) * b) * (((p + k) + 1) * c))
         /\ R(k + 1) = f * (((2 * k + 1) + 1) * ((2 * k + 1) * d))
    BY ONLY <2>7, <2>8, <2>9, <2>10, Zenon
  <2>13. Congruent(a * (b * c), f * d, M)
    BY ONLY <2>1, <2>11, Zenon
  <2>14. PICK x \in Int : x = a * (b * c)
    OBVIOUS
  <2>15. PICK y \in Int : y = f * d
    OBVIOUS
  <2>16. PICK u \in Int : u = 2 * k + 1
    BY <2>2
  <2>17. PICK v \in Int : v = 2 * (p + k + 1)
    BY <2>2
  <2>18. (4 * a) * (((k + 1) * b) * (((p + k) + 1) * c)) = (u + 1) * (v * x)
    <3>1. PICK w \in Int : w = k + 1
      BY <2>2
    <3>2. PICK z \in Int : z = (p + k) + 1
      BY <2>2
    <3>3. u + 1 = 2 * w /\ v = 2 * z
      BY <2>1, <2>16, <2>17, <3>1, <3>2
    <3>4. (4 * a) * ((w * b) * (z * c)) = (2 * w) * ((2 * z) * (a * (b * c)))
      BY ONLY a \in Int, b \in Int, c \in Int, w \in Int, z \in Int, SMT
    <3> QED BY ONLY <2>14, <3>1, <3>2, <3>3, <3>4, Zenon
  <2>19. f * (((2 * k + 1) + 1) * ((2 * k + 1) * d)) = (u + 1) * (u * y)
    <3>1. f * ((u + 1) * (u * d)) = (u + 1) * (u * (f * d))
      <4>1. PICK w \in Int : w = u + 1
        OBVIOUS
      <4>2. f * (w * (u * d)) = w * (u * (f * d))
        BY ONLY f \in Int, w \in Int, u \in Int, d \in Int, SMT
      <4> QED BY ONLY <4>1, <4>2, Zenon
    <3> QED BY ONLY <2>15, <2>16, <3>1, Zenon
  <2>20. Congruent(v, u, M)
    <3>1. v - u = M * 1
      BY <2>1, <2>16, <2>17
    <3> QED BY <3>1 DEF Congruent, Divides
  <2>21. Congruent(x, y, M)
    BY ONLY <2>13, <2>14, <2>15, Zenon
  <2> HIDE DEF M
  <2>22. Congruent(v * x, u * y, M) /\ M \in Int /\ v * x \in Int /\ u * y \in Int /\ u + 1 \in Int
    <3>1. M \in Int
      BY <1>0
    <3>2. Congruent(v * x, u * y, M)
      BY <2>20, <2>21, <3>1, CongruentTimes
    <3> QED BY <3>1, <3>2
  <2>23. Congruent((u + 1) * (v * x), (u + 1) * (u * y), M)
    <3>1. Congruent(u + 1, u + 1, M)
      BY <2>22, CongruentLaws
    <3> QED BY ONLY <2>22, <3>1, CongruentTimes
  <2>24. Congruent(L(k + 1), R(k + 1), M)
    <3> HIDE DEF L, R
    <3> QED BY ONLY <2>12, <2>18, <2>19, <2>23, Zenon
  <2> QED BY <2>2, <2>24
<1>3. S \in SUBSET Nat
  OBVIOUS
<1>4. S = Nat
  <2> HIDE DEF S
  <2> QED BY <1>1, <1>2, <1>3, Induction
<1> QED BY <1>4

\* Four, a square, is taken to one by half of a prime less one.
LEMMA FourToHalf ==
  ASSUME NEW p \in Nat, IsPrime(2 * p + 1) PROVE Congruent(Power(4, p), 1, 2 * p + 1)
<1>1. PICK m \in Nat : m = 2 * p + 1
  OBVIOUS
<1>2. PICK f \in Int : f = Factorial(p)
  BY FactorialType
<1>3. PICK h \in Int : h = Factorial(2 * p)
  <2>1. 2 * p \in Nat
    OBVIOUS
  <2> QED BY <2>1, FactorialType
<1>4. PICK a \in Int : a = Power(4, p)
  BY PowerType
<1>5. p + p = 2 * p
  OBVIOUS
<1>6. Congruent(Power(4, p) * (Factorial(p) * Factorial(p + p)), Factorial(p) * Factorial(2 * p), 2 * p + 1)
  BY FourFactorial
<1>7. Congruent(a * (f * h), f * h, m)
  BY ONLY <1>1, <1>2, <1>3, <1>4, <1>5, <1>6, Zenon
<1>8. a * (f * h) - f * h = (f * h) * (a - 1)
  BY ONLY a \in Int, f \in Int, h \in Int, SMT
<1>9. Divides(m, (f * h) * (a - 1))
  BY ONLY <1>7, <1>8 DEF Congruent
<1>10. IsPrime(m)
  BY <1>1
<1>11. p < m /\ 2 * p < m /\ 2 * p \in Nat
  BY <1>1
<1>12. ~Divides(m, Factorial(p)) /\ ~Divides(m, Factorial(2 * p))
  BY ONLY <1>10, <1>11, FactorialPrime, p \in Nat, m \in Nat
<1>13. ~Divides(m, f * h)
  BY <1>2, <1>3, <1>10, <1>12, PrimeProduct
<1>14. Coprime(m, f * h) /\ f * h \in Int /\ m \in Int /\ a - 1 \in Int
  <2>1. f * h \in Int /\ m \in Int /\ a - 1 \in Int
    OBVIOUS
  <2>2. Coprime(m, f * h)
    BY ONLY <1>10, <1>13, <2>1, PrimeCoprime, m \in Nat
  <2> QED BY <2>1, <2>2
<1>15. Divides(m, a - 1)
  BY ONLY <1>9, <1>14, EuclidDivides
<1> QED BY <1>1, <1>4, <1>15 DEF Congruent

\* findGeneratorForSafePrime: four is always among the candidates, and a generator.
LEMMA FourIsGenerator ==
  ASSUME NEW n, SafePrime(n) PROVE 4 \in Candidates(n) /\ IsGenerator(4, n)
<1>1. PICK p \in Nat : p = Half(n) /\ n = 2 * p + 1 /\ p >= 3
  BY HalfOfSafe
<1>2. n \in Nat /\ n > 5 /\ IsPrime(n) /\ n > 1
  BY DEF SafePrime
<1>3. 4 \in Candidates(n)
  BY <1>1, <1>2 DEF Candidates
<1>4. Congruent(Power(4, p), 1, n)
  BY <1>1, <1>2, FourToHalf
<1>5. modPow(4, p, n) = 1
  <2>1. 4 \in Int /\ Power(4, p) \in Int
    BY PowerType
  <2>2. modPow(4, p, n) = Power(4, p) % n
    BY ONLY <1>2, <2>1, ModPowIsPower, p \in Nat
  <2>3. Power(4, p) % n = 1
    BY ONLY <1>2, <1>4, <2>1, RemainderOne
  <2> QED BY <2>2, <2>3
<1>6. modPow(4, 2, n) # 1
  <2>1. 4 \in Int /\ 2 \in Nat /\ 16 \in Int
    OBVIOUS
  <2>2. Power(4, 2) = 16
    BY PowerSmall
  <2>3. modPow(4, 2, n) = 16 % n
    BY ONLY <1>2, <2>1, <2>2, ModPowIsPower
  <2>4. 16 % n # 1
    <3>1. n % 3 # 0
      BY <1>1, <1>2 DEF IsPrime
    <3>2. n \in 7 .. 15 \/ n = 16 \/ n > 16
      BY <1>1, <1>2
    <3>3. n # 15
      BY <3>1
    <3>4. CASE n > 16
      BY <1>2, <3>4
    <3>5. CASE n \in 7 .. 16
      <4>1. n = 7 \/ n = 8 \/ n = 9 \/ n = 10 \/ n = 11 \/ n = 12 \/ n = 13 \/ n = 14 \/ n = 16
        BY <3>3, <3>5
      <4> QED BY <4>1
    <3> QED BY <3>2, <3>4, <3>5
  <2> QED BY <2>3, <2>4
<1> QED BY <1>1, <1>3, <1>5, <1>6 DEF IsGenerator

-----------------------------------------------------------------------------
(* The greatest common divisor.                                             *)

\* One turn of the loop: the remainder is the difference of the one before and a multiple
\* of the divisor, and so are its coefficients.
LEMMA Distribute ==
  ASSUME NEW s0 \in Int, NEW t0 \in Int, NEW s1 \in Int, NEW t1 \in Int,
         NEW a \in Int, NEW b \in Int, NEW k \in Int
  PROVE  (s0 - k * s1) * a + (t0 - k * t1) * b = (s0 * a + t0 * b) - k * (s1 * a + t1 * b)
<1>1. (s0 - k * s1) * a = s0 * a - (k * s1) * a
  BY SMT
<1>2. (t0 - k * t1) * b = t0 * b - (k * t1) * b
  BY SMT
<1>3. k * (s1 * a + t1 * b) = (k * s1) * a + (k * t1) * b
  BY SMT
<1> QED
  BY <1>1, <1>2, <1>3, SMT

\* The remainder, as divideAndRemainder returns it with the quotient
LEMMA Division ==
  ASSUME NEW n \in Nat, NEW d \in Nat \ {0}
  PROVE  n \div d \in Int /\ n % d \in Nat /\ n % d = n - (n \div d) * d
<1>1. n \div d \in Int /\ n % d \in Nat
  BY SMT
<1>2. n = d * (n \div d) + (n % d)
  BY SMT
<1> QED
  BY <1>1, <1>2, SMT

\* The types of what the identity speaks of: the divisor never becomes negative.
Combination ==
  [r0 : Nat, r1 : Nat, s0 : Int, s1 : Int, t0 : Int, t1 : Int]

BezoutInv == P \in Nat /\ Q \in Nat /\ euclid \in Combination /\ BezoutHolds

\* A turn of the loop keeps the identity.
LEMMA DivideCombines ==
  ASSUME NEW a \in Nat, NEW b \in Nat, NEW e \in Combination, e.r1 # 0,
         e.s0 * a + e.t0 * b = e.r0,
         e.s1 * a + e.t1 * b = e.r1
  PROVE  /\ Divide(e) \in Combination
         /\ Divide(e).s0 * a + Divide(e).t0 * b = Divide(e).r0
         /\ Divide(e).s1 * a + Divide(e).t1 * b = Divide(e).r1
<1> DEFINE k == e.r0 \div e.r1
<1>1. /\ e.r0 \in Nat /\ e.r1 \in Nat \ {0}
      /\ e.s0 \in Int /\ e.s1 \in Int /\ e.t0 \in Int /\ e.t1 \in Int
  BY DEF Combination
<1>2. k \in Int /\ e.r0 % e.r1 \in Nat /\ e.r0 % e.r1 = e.r0 - k * e.r1
  BY <1>1, Division
<1>3. k * e.s1 \in Int /\ k * e.t1 \in Int
  BY <1>1, <1>2, SMT
<1>4. /\ Divide(e).r0 = e.r1 /\ Divide(e).r1 = e.r0 % e.r1
      /\ Divide(e).s0 = e.s1 /\ Divide(e).s1 = e.s0 - k * e.s1
      /\ Divide(e).t0 = e.t1 /\ Divide(e).t1 = e.t0 - k * e.t1
  BY DEF Divide
<1>5. Divide(e) \in Combination
  BY <1>1, <1>2, <1>3 DEF Divide, Combination
<1> HIDE DEF k
<1>6. (e.s0 - k * e.s1) * a + (e.t0 - k * e.t1) * b
        = (e.s0 * a + e.t0 * b) - k * (e.s1 * a + e.t1 * b)
  BY <1>1, <1>2, Distribute
<1> QED
  BY <1>2, <1>4, <1>5, <1>6

\* The identity is not asked for before the loop.
LEMMA BezoutInit == GroupInit => BezoutInv
  BY DEF GroupInit, BezoutInv, BezoutHolds, Combination

\* Every step keeps it.
LEMMA BezoutNext ==
  ASSUME GroupConstants, BezoutInv, [GroupNext]_groupVars
  PROVE  BezoutInv'
<1> USE DEF BezoutInv, BezoutHolds
<1>1. CASE GenerateP
  BY <1>1 DEF GenerateP, GroupConstants
<1>2. CASE GenerateQ
  BY <1>2 DEF GenerateQ, GroupConstants
<1>3. CASE FindGp
  BY <1>3 DEF FindGp
<1>4. CASE FindGq
  <2>1. CASE stage' = "bezout"
    <3>1. euclid' = [r0 |-> P, r1 |-> Q, s0 |-> 1, s1 |-> 0, t0 |-> 0, t1 |-> 1]
      BY <1>4, <2>1 DEF FindGq
    <3>2. P' = P /\ Q' = Q
      BY <1>4 DEF FindGq
    <3>3. euclid' \in Combination
      BY <3>1 DEF Combination
    <3>4. /\ euclid'.s0 = 1 /\ euclid'.t0 = 0 /\ euclid'.r0 = P
          /\ euclid'.s1 = 0 /\ euclid'.t1 = 1 /\ euclid'.r1 = Q
      BY <3>1
    <3> QED
      BY <3>2, <3>3, <3>4
  <2>2. CASE stage' # "bezout"
    BY <1>4, <2>2 DEF FindGq
  <2> QED
    BY <2>1, <2>2
<1>5. CASE BezoutStep
  BY <1>5, DivideCombines DEF BezoutStep
<1>6. CASE Combine
  BY <1>6 DEF Combine
<1>7. CASE FindB1
  BY <1>7 DEF FindB1
<1>8. CASE NextGroup
  BY <1>8 DEF NextGroup, Combination
<1>9. CASE UNCHANGED groupVars
  BY <1>9 DEF groupVars
<1> QED
  BY <1>1, <1>2, <1>3, <1>4, <1>5, <1>6, <1>7, <1>8, <1>9 DEF GroupNext

-----------------------------------------------------------------------------
(* The steps of findGenerators.                                             *)

\* What findGeneratorForSafePrime finds, raised to a draw below the order, generates.
LEMMA DrawnGenerates ==
  ASSUME NEW n, SafePrime(n), NEW g \in Candidates(n), IsGenerator(g, n), NEW e \in 1 .. (Half(n) - 1)
  PROVE  modPow(g, e, n) \in Nat /\ Generates(modPow(g, e, n), Half(n), n)
<1>1. PICK p \in Nat : p = Half(n) /\ n = 2 * p + 1 /\ p >= 3 /\ IsPrime(p)
  BY HalfOfSafe
<1>2. n \in Nat /\ n > 1 /\ n > 0 /\ n \in Int
  BY DEF SafePrime
<1>3. g \in Nat /\ g \in Int /\ e \in Nat /\ e > 0 /\ e # 0 /\ ~(p <= e) /\ p \in Nat /\ 2 \in Nat
  BY <1>1, <1>2 DEF Candidates
<1>4. Power(g, p) \in Int /\ Power(g, 2) \in Int /\ Power(g, e) \in Int /\ 1 \in Int
  <2>1. Power(g, p) \in Int /\ Power(g, 2) \in Int /\ Power(g, e) \in Int
    BY ONLY <1>3, PowerType, Zenon
  <2> QED BY <2>1
<1>5. Congruent(Power(g, p), 1, n)
  <2>1. modPow(g, p, n) = 1
    BY <1>1 DEF IsGenerator
  <2>2. modPow(g, p, n) = Power(g, p) % n
    BY ONLY <1>2, <1>3, ModPowIsPower
  <2> QED BY ONLY <1>2, <1>4, <2>1, <2>2, RemainderOne
<1>6. ~Congruent(g, 1, n)
  <2>1. SUFFICES ASSUME Congruent(g, 1, n) PROVE FALSE
    OBVIOUS
  <2>2. Congruent(Power(g, 2), Power(1, 2), n)
    BY ONLY <1>2, <1>3, <1>4, <2>1, PowerCongruent
  <2>3. Power(1, 2) = 1
    BY ONLY <1>3, PowerOfOne
  <2>4. Power(g, 2) % n = 1
    BY ONLY <1>2, <1>4, <2>2, <2>3, RemainderOne
  <2>5. modPow(g, 2, n) = Power(g, 2) % n
    BY ONLY <1>2, <1>3, ModPowIsPower
  <2> QED BY <2>4, <2>5 DEF IsGenerator
<1>7. Generates(g, p, n)
  BY <1>5, <1>6 DEF Generates
<1>8. ~Divides(p, e)
  BY ONLY <1>3, DividesBounds
<1>9. Generates(Power(g, e), p, n)
  BY ONLY <1>1, <1>2, <1>3, <1>7, <1>8, GeneratorPower
<1>10. modPow(g, e, n) = Power(g, e) % n
  BY ONLY <1>2, <1>3, ModPowIsPower
<1>11. Congruent(Power(g, e) % n, Power(g, e), n)
  BY ONLY <1>2, <1>4, CongruentRemainder
<1>12. Power(g, e) % n \in Nat
  BY ONLY <1>2, <1>4, DivMod
<1>13. Power(g, e) % n \in Int
  BY <1>12
<1>14. Generates(Power(g, e) % n, p, n)
  BY ONLY <1>2, <1>3, <1>4, <1>9, <1>11, <1>13, GeneratorCongruent
<1> QED BY ONLY <1>1, <1>10, <1>12, <1>14, Zenon

\* Step 3: the combination is the one generator modulo the one prime, the other modulo the other.
LEMMA CombinationCongruent ==
  ASSUME NEW M \in Nat, NEW N \in Nat, M > 1, N > 1, NEW s \in Int, NEW t \in Int, s * M + t * N = 1,
         NEW g \in Nat, NEW h \in Nat
  PROVE  LET b == (g * t * N + h * s * M) % (M * N)
         IN  b \in Nat /\ Congruent(b, g, M) /\ Congruent(b, h, N)
<1>1. PICK x \in Int : x = g * t * N + h * s * M
  OBVIOUS
<1>2. PICK m \in Nat : m = M * N /\ m > 0
  <2>1. \A y, z \in Nat : y > 1 /\ z > 1 => y * z > 0 /\ y * z \in Nat
    BY SMT
  <2> QED BY <2>1
<1>3. PICK b \in Nat : b = x % m
  BY <1>2, DivMod
<1>4. Congruent(b, x, m)
  BY ONLY <1>2, <1>3, CongruentRemainder, x \in Int, m \in Nat
<1>5. M \in Int /\ N \in Int /\ b \in Int /\ g \in Int /\ h \in Int
  BY <1>3
<1>6. Congruent(b, x, M) /\ Congruent(b, x, N)
  BY ONLY <1>2, <1>4, <1>5, CongruentFactor, x \in Int
<1>7. Congruent(x, g, M)
  <2>1. g * t * N = g * (t * N) /\ h * s * M = M * (h * s)
    BY ONLY <1>5, s \in Int, t \in Int, SMT
  <2>2. g * (t * N) = g - M * (g * s)
    <3>1. t * N = 1 - s * M /\ s * M \in Int
      <4>1. PICK y \in Int : y = s * M
        OBVIOUS
      <4>2. PICK z \in Int : z = t * N
        OBVIOUS
      <4>3. y + z = 1
        BY ONLY <4>1, <4>2, s * M + t * N = 1, Zenon
      <4>4. z = 1 - y
        BY <4>3
      <4> QED BY <4>1, <4>2, <4>4
    <3>2. g * (1 - s * M) = g - M * (g * s)
      BY ONLY <1>5, s \in Int, SMT
    <3> QED BY ONLY <3>1, <3>2, Zenon
  <2>3. x - g = M * (h * s - g * s)
    <3>1. PICK u \in Int : u = h * s
      OBVIOUS
    <3>2. PICK v \in Int : v = g * s
      OBVIOUS
    <3>3. x = (g - M * v) + M * u
      BY ONLY <1>1, <2>1, <2>2, <3>1, <3>2, Zenon
    <3>4. M * (u - v) = M * u - M * v /\ M * u \in Int /\ M * v \in Int
      BY ONLY <1>5, u \in Int, v \in Int, SMT
    <3>5. x - g = M * (u - v)
      BY ONLY <1>5, <3>3, <3>4, x \in Int
    <3> QED BY ONLY <3>1, <3>2, <3>5, Zenon
  <2>4. h * s - g * s \in Int
    OBVIOUS
  <2> QED BY <2>3, <2>4 DEF Congruent, Divides
<1>8. Congruent(x, h, N)
  <2>1. g * t * N = N * (g * t) /\ h * s * M = h * (s * M)
    BY ONLY <1>5, s \in Int, t \in Int, SMT
  <2>2. h * (s * M) = h - N * (h * t)
    <3>1. s * M = 1 - t * N /\ t * N \in Int
      <4>1. PICK y \in Int : y = s * M
        OBVIOUS
      <4>2. PICK z \in Int : z = t * N
        OBVIOUS
      <4>3. y + z = 1
        BY ONLY <4>1, <4>2, s * M + t * N = 1, Zenon
      <4>4. y = 1 - z
        BY <4>3
      <4> QED BY <4>1, <4>2, <4>4
    <3>2. h * (1 - t * N) = h - N * (h * t)
      BY ONLY <1>5, t \in Int, SMT
    <3> QED BY ONLY <3>1, <3>2, Zenon
  <2>3. x - h = N * (g * t - h * t)
    <3>1. PICK u \in Int : u = g * t
      OBVIOUS
    <3>2. PICK v \in Int : v = h * t
      OBVIOUS
    <3>3. x = N * u + (h - N * v)
      BY ONLY <1>1, <2>1, <2>2, <3>1, <3>2, Zenon
    <3>4. N * (u - v) = N * u - N * v /\ N * u \in Int /\ N * v \in Int
      BY ONLY <1>5, u \in Int, v \in Int, SMT
    <3>5. x - h = N * (u - v)
      BY ONLY <1>5, <3>3, <3>4, x \in Int
    <3> QED BY ONLY <3>1, <3>2, <3>5, Zenon
  <2>4. g * t - h * t \in Int
    OBVIOUS
  <2> QED BY <2>3, <2>4 DEF Congruent, Divides
<1>9. Congruent(b, g, M) /\ Congruent(b, h, N)
  BY ONLY <1>5, <1>6, <1>7, <1>8, CongruentLaws, x \in Int
<1> QED BY <1>1, <1>2, <1>3, <1>9

\* Step 4: the drawn power of the first generator is a second one.
LEMMA PowerGenerates ==
  ASSUME NEW p, NEW q, NEW M, NEW N, Parts(p, q, M, N), NEW b \in Nat,
         Generates(b, p, M), Generates(b, q, N),
         NEW a \in Nat, a > 1, a <= p * q, a % p # 0, a % q # 0
  PROVE  LET c == modPow(b, a, M * N)
         IN  c # b /\ HasOrder(c, p * q, M * N)
<1>1. /\ p \in Nat /\ q \in Nat /\ M \in Nat /\ N \in Nat /\ M \in Int /\ N \in Int
      /\ IsPrime(p) /\ IsPrime(q) /\ IsPrime(M) /\ IsPrime(N)
  BY DEF Parts
<1>2. p > 1 /\ q > 1 /\ M > 1 /\ N > 1 /\ p > 0 /\ q > 0 /\ a \in Int /\ b \in Int
  BY <1>1 DEF IsPrime
<1>3. PICK m \in Nat : m = M * N /\ m > 1 /\ m > 0
  <2>1. \A y, z \in Nat : y > 1 /\ z > 1 => y * z > 1 /\ y * z \in Nat
    BY SMT
  <2>2. M * N \in Nat /\ M * N > 1
    BY <1>1, <1>2, <2>1
  <2> QED BY <2>2
<1>4. ~Divides(p, a) /\ ~Divides(q, a)
  BY ONLY <1>1, <1>2, DividesMod, a % p # 0, a % q # 0
<1>5. Generates(Power(b, a), p, M) /\ Generates(Power(b, a), q, N)
  BY <1>1, <1>2, <1>4, GeneratorPower
<1>6. Power(b, a) \in Int
  BY <1>2, PowerType
<1>7. modPow(b, a, m) = Power(b, a) % m
  BY ONLY <1>2, <1>3, ModPowIsPower, m \in Nat, a \in Nat
<1>8. PICK c \in Nat : c = Power(b, a) % m
  BY ONLY <1>3, <1>6, DivMod, m \in Nat
<1>9. Congruent(c, Power(b, a), m)
  BY ONLY <1>3, <1>6, <1>8, CongruentRemainder, m \in Nat
<1>10. c \in Int
  OBVIOUS
<1>11. Congruent(c, Power(b, a), M) /\ Congruent(c, Power(b, a), N)
  BY ONLY <1>1, <1>3, <1>6, <1>9, <1>10, CongruentFactor
<1>12. Generates(c, p, M) /\ Generates(c, q, N)
  BY ONLY <1>1, <1>5, <1>6, <1>10, <1>11, GeneratorCongruent
<1>13. HasOrder(c, p * q, M * N)
  BY <1>10, <1>12, OrderOfProduct
<1>14. modPow(b, a, M * N) # b
  BY OtherGenerator
<1> QED BY <1>3, <1>7, <1>8, <1>13, <1>14

\* Step 4: the smaller order plus one is always a draw that is accepted.
LEMMA AlphaExists ==
  ASSUME SafePrime(P), SafePrime(Q), P # Q PROVE \E alpha \in Alphas : IsAlpha(alpha)
<1>1. PICK p \in Nat : p = Half(P) /\ P = 2 * p + 1 /\ p >= 3 /\ p % 2 = 1
  BY HalfOfSafe
<1>2. PICK q \in Nat : q = Half(Q) /\ Q = 2 * q + 1 /\ q >= 3 /\ q % 2 = 1
  BY HalfOfSafe
<1>3. p # q
  BY <1>1, <1>2
<1> DEFINE s == Smaller(p, q)
<1>4. \A x, y \in Nat : x >= 3 /\ y >= 3 => x * y \in Nat /\ x + 1 <= x * y /\ y + 1 <= x * y
  BY SMT
<1>5. p * q \in Nat /\ p + 1 <= p * q /\ q + 1 <= p * q
  BY <1>1, <1>2, <1>4
<1>6. s + 1 \in s .. (p * q)
  BY <1>5 DEF Smaller
<1>7. (s + 1) % p # 0 /\ (s + 1) % q # 0
  <2>0. \A x, y \in Nat : x >= 3 /\ x % 2 = 1 /\ y % 2 = 1 /\ x < y => (x + 1) % x # 0 /\ (x + 1) % y # 0
    <3> SUFFICES ASSUME NEW x \in Nat, NEW y \in Nat, x >= 3, x % 2 = 1, y % 2 = 1, x < y
                 PROVE  (x + 1) % x # 0 /\ (x + 1) % y # 0
      OBVIOUS
    <3>1. x + 1 < y
      OBVIOUS
    <3>2. (x + 1) % y = x + 1
      BY <3>1
    <3>3. 1 \in Int /\ x > 0 /\ x + 1 \in Int
      OBVIOUS
    <3>4. Congruent(x + 1, 1, x)
      <4>1. (x + 1) - 1 = x * 1
        OBVIOUS
      <4> QED BY <4>1 DEF Congruent, Divides
    <3>5. (x + 1) % x = 1 % x
      BY ONLY <3>3, <3>4, CongruentRemainder, x \in Nat
    <3>6. 1 % x = 1
      OBVIOUS
    <3> QED BY <3>2, <3>5, <3>6
  <2>1. CASE p < q
    BY <1>1, <1>2, <2>0, <2>1 DEF Smaller
  <2>2. CASE q < p
    <3>1. s = q
      BY <2>2 DEF Smaller
    <3> QED BY <1>1, <1>2, <2>0, <2>2, <3>1
  <2> QED BY <1>3, <2>1, <2>2
<1>8. s + 1 \in Alphas
  BY <1>1, <1>2, <1>6, Zenon DEF Alphas
<1>9. IsAlpha(s + 1)
  BY <1>1, <1>2, <1>7, Zenon DEF IsAlpha
<1> QED BY <1>8, <1>9

\* The end of extendedGCDBezout: the divisors common to the remainders are common to both primes.
CommonDivisors(e) ==
  \A d \in Nat : Divides(d, e.r0) /\ Divides(d, e.r1) => Divides(d, P) /\ Divides(d, Q)

\* A turn of the loop adds no common divisor.
LEMMA DivideKeepsDivisors ==
  ASSUME NEW e \in Combination, e.r1 # 0, CommonDivisors(e) PROVE CommonDivisors(Divide(e))
<1>1. Divide(e).r0 = e.r1 /\ Divide(e).r1 = e.r0 % e.r1
  BY DEF Divide
<1>2. PICK a \in Nat : a = e.r0
  BY DEF Combination
<1>3. PICK b \in Nat : b = e.r1
  BY DEF Combination
<1>4. b # 0 /\ a % b \in Nat /\ a \div b \in Int /\ a = b * (a \div b) + (a % b)
  BY <1>3
<1>5. PICK k \in Int : k = a \div b
  BY <1>4
<1>6. PICK r \in Nat : r = a % b
  BY <1>4
<1>7. a = b * k + r
  BY ONLY <1>4, <1>5, <1>6, Zenon
<1>8. b * k \in Int /\ b \in Int /\ r \in Int
  OBVIOUS
<1>9. ASSUME NEW d \in Nat, Divides(d, b), Divides(d, r) PROVE Divides(d, P) /\ Divides(d, Q)
  <2>1. Divides(d, b * k)
    <3>1. d \in Int
      OBVIOUS
    <3> QED BY ONLY <1>8, <1>9, <3>1, DividesProduct, k \in Int
  <2>2. Divides(d, b * k + r)
    BY <1>8, <1>9, <2>1, DividesSum
  <2>3. Divides(d, e.r0) /\ Divides(d, e.r1)
    BY ONLY <1>2, <1>3, <1>7, <1>9, <2>2, Zenon
  <2> QED BY <2>3 DEF CommonDivisors
<1> QED BY <1>1, <1>2, <1>3, <1>6, <1>9 DEF CommonDivisors

\* The last divisor is one: Bezout's identity for two different primes.
LEMMA LastDivisor ==
  ASSUME NEW e \in Combination, e.r1 = 0, CommonDivisors(e), SafePrime(P), SafePrime(Q), P # Q
  PROVE  e.r0 = 1
<1>1. PICK d \in Nat : d = e.r0
  BY DEF Combination
<1>2. d = d * 1 /\ 0 = d * 0
  OBVIOUS
<1>3. Divides(d, d) /\ Divides(d, 0)
  BY <1>2 DEF Divides
<1>4. Divides(d, P) /\ Divides(d, Q)
  BY <1>1, <1>3 DEF CommonDivisors
<1>5. P \in Nat /\ Q \in Nat /\ IsPrime(P) /\ IsPrime(Q)
  BY DEF SafePrime
<1>6. (d = 1 \/ d = P) /\ (d = 1 \/ d = Q)
  BY <1>4, <1>5, PrimeDivisor
<1> QED BY <1>1, <1>6

-----------------------------------------------------------------------------
(* The invariant of the generation.                                         *)

\* What is known in each stage of what was found before
StagesInv ==
  /\ stage \in {"P", "Q", "gp", "gq", "bezout", "b1", "done"}
  /\ stage # "P" => SafePrime(P)
  /\ stage \notin {"P", "Q"} => SafePrime(Q) /\ P # Q
  /\ stage \in {"gq", "bezout"} => gp \in Nat /\ Generates(gp, Half(P), P)
  /\ stage = "bezout" => /\ gq \in Nat /\ Generates(gq, Half(Q), Q)
                         /\ CommonDivisors(euclid)
  /\ stage \in {"b1", "done"} =>
       b0 \in Nat /\ Generates(b0, Half(P), P) /\ Generates(b0, Half(Q), Q)
  /\ stage = "done" => b1 # b0 /\ HasOrder(b1, Half(P) * Half(Q), P * Q)

\* The first stage asks nothing.
LEMMA StagesInit == GroupInit => StagesInv
  BY DEF GroupInit, StagesInv

\* What generateSafePrime accepts is a safe prime.
LEMMA SafeDraw ==
  ASSUME GroupConstants, NEW b \in Primes, IsSafe(b) PROVE SafePrime(b)
  BY DEF GroupConstants, SafePrime

\* The two primes and their halves are four primes, different in pairs.
LEMMA SafeParts ==
  ASSUME SafePrime(P), SafePrime(Q), P # Q PROVE Parts(Half(P), Half(Q), P, Q)
<1>1. /\ Half(P) \in Nat /\ P = 2 * Half(P) + 1 /\ IsPrime(Half(P))
      /\ Half(Q) \in Nat /\ Q = 2 * Half(Q) + 1 /\ IsPrime(Half(Q))
  BY HalfOfSafe
<1>2. Half(P) # Half(Q)
  BY <1>1
<1> QED BY <1>1, <1>2 DEF SafePrime, Parts

\* Step 3 of findGenerators: the combination is a generator modulo both primes.
LEMMA CombineStep ==
  ASSUME BezoutInv, StagesInv, Combine PROVE StagesInv'
<1>1. stage = "bezout" /\ euclid.r1 = 0 /\ stage' = "b1" /\ P' = P /\ Q' = Q
  BY DEF Combine
<1>2. SafePrime(P) /\ SafePrime(Q) /\ P # Q /\ CommonDivisors(euclid)
  BY <1>1 DEF StagesInv
<1>3. gp \in Nat /\ gq \in Nat /\ Generates(gp, Half(P), P) /\ Generates(gq, Half(Q), Q)
  BY <1>1 DEF StagesInv
<1>4. euclid \in Combination /\ euclid.s0 * P + euclid.t0 * Q = euclid.r0
  BY <1>1 DEF BezoutInv, BezoutHolds
<1>5. euclid.r0 = 1
  BY <1>1, <1>2, <1>4, LastDivisor
<1>6. PICK s \in Int : s = euclid.s0
  BY <1>4 DEF Combination
<1>7. PICK t \in Int : t = euclid.t0
  BY <1>4 DEF Combination
<1>8. s * P + t * Q = 1
  BY ONLY <1>4, <1>5, <1>6, <1>7, Zenon
<1>9. P \in Nat /\ Q \in Nat /\ P > 1 /\ Q > 1
  BY <1>2 DEF SafePrime
<1>10. b0' = (gp * t * Q + gq * s * P) % (P * Q)
  BY <1>6, <1>7 DEF Combine
<1>11. b0' \in Nat /\ Congruent(b0', gp, P) /\ Congruent(b0', gq, Q)
  BY ONLY <1>3, <1>8, <1>9, <1>10, CombinationCongruent, s \in Int, t \in Int
<1>12. /\ b0' \in Int /\ gp \in Int /\ gq \in Int /\ P \in Int /\ Q \in Int
       /\ Half(P) \in Nat /\ Half(Q) \in Nat
  <2>1. Half(P) \in Nat /\ Half(Q) \in Nat
    BY <1>2, HalfOfSafe
  <2> QED BY <1>3, <1>9, <1>11, <2>1
<1>13. Generates(b0', Half(P), P) /\ Generates(b0', Half(Q), Q)
  BY ONLY <1>3, <1>11, <1>12, GeneratorCongruent
<1>14. SafePrime(P') /\ SafePrime(Q') /\ P' # Q'
  BY ONLY <1>1, <1>2, Zenon
<1>15. b0' \in Nat /\ Generates(b0', Half(P'), P') /\ Generates(b0', Half(Q'), Q')
  BY ONLY <1>1, <1>11, <1>13, Zenon
<1> QED BY <1>1, <1>14, <1>15 DEF StagesInv

\* Step 4: the second generator, and that it is another number
LEMMA AlphaStep ==
  ASSUME StagesInv, FindB1 PROVE StagesInv'
<1>1. stage = "b1" /\ P' = P /\ Q' = Q /\ b0' = b0
  BY DEF FindB1
<1>2. /\ SafePrime(P) /\ SafePrime(Q) /\ P # Q
      /\ b0 \in Nat /\ Generates(b0, Half(P), P) /\ Generates(b0, Half(Q), Q)
  BY <1>1 DEF StagesInv
<1>3. stage' \in {"b1", "done"}
  BY <1>1 DEF FindB1
<1>4. ASSUME stage' = "done" PROVE b1' # b0 /\ HasOrder(b1', Half(P) * Half(Q), P * Q)
  <2>1. PICK alpha \in Alphas : IsAlpha(alpha) /\ b1' = modPow(b0, alpha, P * Q)
    BY <1>1, <1>4 DEF FindB1
  <2>2. PICK p \in Nat : p = Half(P) /\ p >= 3
    BY <1>2, HalfOfSafe
  <2>3. PICK q \in Nat : q = Half(Q) /\ q >= 3
    BY <1>2, HalfOfSafe
  <2>4. alpha \in Smaller(p, q) .. (p * q)
    BY <2>2, <2>3, Zenon DEF Alphas
  <2>5. alpha \in Nat /\ alpha > 1 /\ alpha <= p * q
    <3>1. p * q \in Nat /\ Smaller(p, q) \in Nat /\ Smaller(p, q) > 1
      BY <2>2, <2>3 DEF Smaller
    <3> QED BY <2>4, <3>1
  <2>6. alpha % p # 0 /\ alpha % q # 0
    BY <2>1, <2>2, <2>3, Zenon DEF IsAlpha
  <2>7. Parts(p, q, P, Q)
    BY <1>2, <2>2, <2>3, SafeParts
  <2>8. Generates(b0, p, P) /\ Generates(b0, q, Q)
    BY <1>2, <2>2, <2>3
  <2>9. modPow(b0, alpha, P * Q) # b0 /\ HasOrder(modPow(b0, alpha, P * Q), p * q, P * Q)
    BY ONLY <1>2, <2>5, <2>6, <2>7, <2>8, PowerGenerates
  <2> QED BY ONLY <2>1, <2>2, <2>3, <2>9, Zenon
<1>5. /\ SafePrime(P') /\ SafePrime(Q') /\ P' # Q'
      /\ b0' \in Nat /\ Generates(b0', Half(P'), P') /\ Generates(b0', Half(Q'), Q')
  BY ONLY <1>1, <1>2, Zenon
<1>6. stage' = "done" => b1' # b0' /\ HasOrder(b1', Half(P') * Half(Q'), P' * Q')
  BY ONLY <1>1, <1>4, Zenon
<1> QED BY <1>3, <1>5, <1>6 DEF StagesInv

\* Every step keeps what is known.
LEMMA StagesNext ==
  ASSUME GroupConstants, BezoutInv, StagesInv, [GroupNext]_groupVars
  PROVE  StagesInv'
<1>1. CASE GenerateP
  <2>1. stage = "P" /\ stage' \in {"P", "Q"}
    BY <1>1 DEF GenerateP
  <2>2. stage' # "P" => SafePrime(P')
    BY <1>1, SafeDraw DEF GenerateP
  <2> QED BY <2>1, <2>2 DEF StagesInv
<1>2. CASE GenerateQ
  <2>1. stage = "Q" /\ stage' \in {"Q", "gp"} /\ P' = P
    BY <1>2 DEF GenerateQ
  <2>2. stage' # "Q" => SafePrime(Q') /\ P # Q'
    BY <1>2, SafeDraw DEF GenerateQ
  <2>3. SafePrime(P)
    BY <2>1 DEF StagesInv
  <2>4. SafePrime(P') /\ (stage' # "Q" => SafePrime(Q') /\ P' # Q')
    BY ONLY <2>1, <2>2, <2>3, Zenon
  <2> QED BY <2>1, <2>4 DEF StagesInv
<1>3. CASE FindGp
  <2>1. stage = "gp" /\ stage' \in {"gp", "gq"} /\ P' = P /\ Q' = Q
    BY <1>3 DEF FindGp
  <2>2. SafePrime(P) /\ SafePrime(Q) /\ P # Q
    BY <2>1 DEF StagesInv
  <2>3. stage' = "gq" => gp' \in Nat /\ Generates(gp', Half(P), P)
    BY <1>3, <2>1, <2>2, DrawnGenerates DEF FindGp
  <2>4. /\ SafePrime(P') /\ SafePrime(Q') /\ P' # Q'
        /\ stage' = "gq" => gp' \in Nat /\ Generates(gp', Half(P'), P')
    BY ONLY <2>1, <2>2, <2>3, Zenon
  <2> QED BY <2>1, <2>4 DEF StagesInv
<1>4. CASE FindGq
  <2>1. stage = "gq" /\ stage' \in {"gq", "bezout"} /\ P' = P /\ Q' = Q /\ gp' = gp
    BY <1>4 DEF FindGq
  <2>2. SafePrime(P) /\ SafePrime(Q) /\ P # Q /\ gp \in Nat /\ Generates(gp, Half(P), P)
    BY <2>1 DEF StagesInv
  <2>3. stage' = "bezout" => gq' \in Nat /\ Generates(gq', Half(Q), Q)
    BY <1>4, <2>1, <2>2, DrawnGenerates DEF FindGq
  <2>4. /\ SafePrime(P') /\ SafePrime(Q') /\ P' # Q'
        /\ gp' \in Nat /\ Generates(gp', Half(P'), P')
        /\ stage' = "bezout" => gq' \in Nat /\ Generates(gq', Half(Q'), Q')
    BY ONLY <2>1, <2>2, <2>3, Zenon
  <2>5. stage' = "bezout" => CommonDivisors(euclid)'
    <3>1. SUFFICES ASSUME stage' = "bezout" PROVE CommonDivisors(euclid)'
      OBVIOUS
    <3>2. euclid'.r0 = P /\ euclid'.r1 = Q
      BY <1>4, <2>1, <3>1 DEF FindGq
    <3> QED BY <2>1, <3>2 DEF CommonDivisors
  <2> QED BY <2>1, <2>4, <2>5 DEF StagesInv
<1>5. CASE BezoutStep
  <2>1. /\ stage = "bezout" /\ stage' = "bezout" /\ P' = P /\ Q' = Q /\ gp' = gp /\ gq' = gq
        /\ euclid.r1 # 0 /\ euclid' = Divide(euclid)
    BY <1>5 DEF BezoutStep
  <2>2. /\ SafePrime(P) /\ SafePrime(Q) /\ P # Q /\ gp \in Nat /\ Generates(gp, Half(P), P)
        /\ gq \in Nat /\ Generates(gq, Half(Q), Q) /\ CommonDivisors(euclid)
    BY <2>1 DEF StagesInv
  <2>3. CommonDivisors(Divide(euclid))
    BY <2>1, <2>2, DivideKeepsDivisors DEF BezoutInv
  <2>4. CommonDivisors(euclid)'
    BY <2>1, <2>3 DEF CommonDivisors
  <2>5. /\ SafePrime(P') /\ SafePrime(Q') /\ P' # Q' /\ gp' \in Nat /\ Generates(gp', Half(P'), P')
        /\ gq' \in Nat /\ Generates(gq', Half(Q'), Q')
    BY ONLY <2>1, <2>2, Zenon
  <2> QED BY <2>1, <2>4, <2>5 DEF StagesInv
<1>6. CASE Combine
  BY <1>6, CombineStep
<1>7. CASE FindB1
  BY <1>7, AlphaStep
<1>8. CASE NextGroup
  BY <1>8 DEF NextGroup, StagesInv
<1>9. CASE UNCHANGED groupVars
  <2>1. /\ stage' = stage /\ P' = P /\ Q' = Q /\ gp' = gp /\ gq' = gq /\ euclid' = euclid
        /\ b0' = b0 /\ b1' = b1
    BY <1>9 DEF groupVars
  <2> QED BY <2>1, Zenon DEF StagesInv, CommonDivisors
<1> QED
  BY <1>1, <1>2, <1>3, <1>4, <1>5, <1>6, <1>7, <1>8, <1>9 DEF GroupNext

\* The invariant says all that is asked.
LEMMA StagesGenerate == ASSUME StagesInv PROVE ResultsGenerate
<1>1. ASSUME stage \in {"b1", "done"} PROVE HasOrder(b0, Half(P) * Half(Q), P * Q)
  <2>1. /\ SafePrime(P) /\ SafePrime(Q) /\ P # Q
        /\ b0 \in Nat /\ Generates(b0, Half(P), P) /\ Generates(b0, Half(Q), Q)
    BY <1>1 DEF StagesInv
  <2>2. Parts(Half(P), Half(Q), P, Q) /\ b0 \in Int
    BY <2>1, SafeParts
  <2> QED BY ONLY <2>1, <2>2, OrderOfProduct
<1> QED BY <1>1 DEF StagesInv, ResultsGenerate

\* None of the loops is without a draw that ends it.
LEMMA StagesEnd == ASSUME GroupConstants, StagesInv PROVE SearchesCanEnd
<1>1. \E b \in Primes : IsSafe(b) /\ b # P
  BY DEF GroupConstants
<1>2. stage = "gp" => \E g \in Candidates(P) : IsGenerator(g, P)
  BY FourIsGenerator DEF StagesInv
<1>3. stage = "gq" => \E g \in Candidates(Q) : IsGenerator(g, Q)
  BY FourIsGenerator DEF StagesInv
<1>4. stage = "b1" => \E alpha \in Alphas : IsAlpha(alpha)
  BY AlphaExists DEF StagesInv
<1> QED BY <1>1, <1>2, <1>3, <1>4 DEF SearchesCanEnd

\* For every set of primes that holds two safe ones, none of them 5 or less, and for every
\* draw: both numbers that SecretOrderGroupGenerator.generate returns have order p * q
\* modulo P * Q and they differ, extendedGCDBezout keeps its identity in every turn, and
\* whichever of the loops runs there is a draw that ends it.
THEOREM GeneratorsGenerate ==
  ASSUME GroupConstants
  PROVE  GroupSpec => []GeneratesGpq
<1>1. GroupInit => BezoutInv /\ StagesInv
  BY BezoutInit, StagesInit
<1>2. BezoutInv /\ StagesInv /\ [GroupNext]_groupVars => BezoutInv' /\ StagesInv'
  BY BezoutNext, StagesNext
<1>3. BezoutInv /\ StagesInv => GeneratesGpq
  BY StagesGenerate, StagesEnd DEF BezoutInv, GeneratesGpq
<1> QED
  BY <1>1, <1>2, <1>3, PTL DEF GroupSpec
=============================================================================
