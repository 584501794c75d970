-------------------------- MODULE RangeProofProofs --------------------------
(***************************************************************************)
(* Completeness of the range proof, for every group, every choice of the   *)
(* security parameters, every secret, range and sequence of random draws.  *)
(* ModPow is a recursive function: its laws are proved by induction, as    *)
(* the absence of a least counterexample, before the protocol uses them.   *)
(***************************************************************************)
EXTENDS RangeProof, WellFoundedInduction, NaturalsInduction, TLAPS

-----------------------------------------------------------------------------
(* The units modulo N are an abelian group.                                *)

\* A set of numbers that is not empty has a least one: induction by its counterexample.
LEMMA LeastNumber ==
    ASSUME NEW S \in SUBSET Nat, S # {}
    PROVE  \E n \in S : \A m \in Nat : m < n => m \notin S
  <1>1. PICK n \in S : \A m \in S : ~(<<m, n>> \in OpToRel(<, Nat))
    BY NatLessThanWellFounded, WFMin, Zenon
  <1>2. ASSUME NEW m \in Nat, m < n
        PROVE  m \notin S
    <2>1. <<m, n>> \in OpToRel(<, Nat)
      BY <1>2 DEF OpToRel
    <2> QED BY <1>1, <2>1
  <1> QED BY <1>2

\* Quotient and remainder, and that a remainder is determined by its range.
LEMMA Remainder ==
    ASSUME NEW a \in Int
    PROVE  /\ a % N \in 0..(N - 1) /\ a \div N \in Int /\ a = N * (a \div N) + (a % N)
           /\ \A q \in Int, r \in 0..(N - 1) : a = N * q + r => r = a % N
  <1>0. N \in Nat /\ N > 2
    BY Generators
  <1> DEFINE d == a \div N
             m == a % N
  <1>1. m \in 0..(N - 1) /\ d \in Int /\ a = N * d + m
    BY <1>0
  <1> HIDE DEF d, m
  <1>2. ASSUME NEW q \in Int, NEW r \in 0..(N - 1), a = N * q + r
        PROVE  r = m
    <2> DEFINE k == q - d
    <2>1. k \in Int /\ N * k = m - r
      <3>1. N * q - N * d = m - r
        BY <1>0, <1>1, <1>2
      <3>2. N * (q - d) = N * q - N * d
        BY <1>0, <1>1
      <3> QED BY <1>1, <3>1, <3>2
    <2>2. m - r < N /\ r - m < N
      BY <1>0, <1>1
    <2> HIDE DEF k
    <2>3. ~(k >= 1)
      <3>1. ASSUME k >= 1 PROVE N * k >= N
        BY <1>0, <2>1, <3>1
      <3> QED BY <1>0, <1>1, <2>1, <2>2, <3>1
    <2>4. ~(k <= -1)
      <3>1. ASSUME k <= -1 PROVE N * k <= -N
        BY <1>0, <2>1, <3>1
      <3> QED BY <1>0, <1>1, <2>1, <2>2, <3>1
    <2>5. k = 0
      BY <2>1, <2>3, <2>4
    <2>6. N * k = 0
      BY <1>0, <2>5
    <2> QED BY <1>1, <2>1, <2>6
  <1>3. \A q \in Int, r \in 0..(N - 1) : a = N * q + r => r = m
    BY <1>2
  <1> QED BY <1>1, <1>3, Zenon DEF d, m

\* A factor may be reduced before the product is.
LEMMA ReduceFactor ==
    ASSUME NEW a \in Int, NEW b \in Int
    PROVE  ((a % N) * b) % N = (a * b) % N
  <1>0. N \in Nat /\ N > 2
    BY Generators
  <1> DEFINE q == a \div N
             r == a % N
             p == r * b
             u == p \div N
             v == p % N
  <1>1. q \in Int /\ r \in Int /\ a = N * q + r
    BY <1>0, Remainder
  <1>2. p \in Int
    BY <1>1
  <1>3. u \in Int /\ v \in 0..(N - 1) /\ p = N * u + v
    <2> HIDE DEF p
    <2> QED BY <1>2, Remainder, Zenon
  <1> HIDE DEF u, v, q, r
  <1>4. a * b = N * (q * b + u) + v
    <2>1. a * b = (N * q + r) * b
      BY <1>1
    <2>2. (N * q + r) * b = N * (q * b) + r * b
      BY <1>0, <1>1
    <2>3. N * (q * b + u) = N * (q * b) + N * u
      BY <1>0, <1>1, <1>3
    <2>4. N * (q * b) \in Int /\ N * u \in Int
      BY <1>0, <1>1, <1>3
    <2> QED BY <1>3, <2>1, <2>2, <2>3, <2>4
  <1>5. a * b \in Int /\ q * b + u \in Int
    BY <1>1, <1>3
  <1> DEFINE ab == a * b
             k == q * b + u
  <1>6. v = ab % N
    <2>1. ab \in Int /\ k \in Int /\ ab = N * k + v
      BY <1>4, <1>5
    <2> HIDE DEF ab, k
    <2> QED BY <1>3, <2>1, Remainder
  <1> QED BY <1>6 DEF v, r

\* The product modulo N, on all integers.
LEMMA TimesLaws ==
    /\ \A x, y \in Int : Times(x, y) \in 0..(N - 1) /\ Times(x, y) \in Int /\ Times(x, y) = Times(y, x)
    /\ \A x, y, z \in Int : Times(Times(x, y), z) = Times(x, Times(y, z))
    /\ \A x \in 0..(N - 1) : Times(x, 1) = x /\ Times(1, x) = x /\ x % N = x
    /\ \A x \in Int : Times(0, x) = 0
  <1>0. N \in Nat /\ N > 2
    BY Generators
  <1>1. ASSUME NEW x \in Int, NEW y \in Int
        PROVE  Times(x, y) \in 0..(N - 1) /\ Times(x, y) \in Int /\ Times(x, y) = Times(y, x)
    <2>1. x * y \in Int /\ x * y = y * x
      OBVIOUS
    <2> DEFINE p == x * y
    <2>2. p % N \in 0..(N - 1)
      <3> HIDE DEF p
      <3> QED BY <2>1, Remainder DEF p
    <2>3. p % N \in Int
      <3> HIDE DEF p
      <3> QED BY <1>0, <2>2
    <2> QED BY <2>1, <2>2, <2>3 DEF Times
  <1>2. ASSUME NEW x \in Int, NEW y \in Int, NEW z \in Int
        PROVE  Times(Times(x, y), z) = Times(x, Times(y, z))
    <2> DEFINE p == x * y
               q == y * z
    <2>1. p \in Int /\ q \in Int /\ p * z = q * x
      OBVIOUS
    <2>2. Times(Times(x, y), z) = ((p % N) * z) % N
      BY DEF Times
    <2>3. Times(x, Times(y, z)) = Times(Times(y, z), x)
      BY <1>1
    <2>4. Times(Times(y, z), x) = ((q % N) * x) % N
      BY DEF Times
    <2> HIDE DEF p, q
    <2>5. ((p % N) * z) % N = (p * z) % N /\ ((q % N) * x) % N = (q * x) % N
      BY <2>1, ReduceFactor
    <2> QED BY <2>1, <2>2, <2>3, <2>4, <2>5
  <1>3. ASSUME NEW x \in 0..(N - 1)
        PROVE  Times(x, 1) = x /\ Times(1, x) = x /\ x % N = x
    <2>1. x \in Int /\ x = N * 0 + x
      BY <1>0
    <2>2. x % N = x
      BY <2>1, Remainder
    <2>3. x * 1 = x /\ 1 * x = x
      BY <2>1
    <2> QED BY <2>2, <2>3 DEF Times
  <1>4. ASSUME NEW x \in Int
        PROVE  Times(0, x) = 0
    <2>1. 0 * x = 0 /\ 0 \in 0..(N - 1)
      BY <1>0
    <2>2. 0 % N = 0
      BY <1>3, <2>1
    <2> QED BY <2>1, <2>2 DEF Times
  <1> QED BY <1>1, <1>2, <1>3, <1>4

\* Units are residues; one is a unit, and so are products and inverses.
LEMMA UnitLaws ==
    /\ \A x \in Units : x \in 0..(N - 1) /\ x \in Int /\ x % N = x
    /\ 1 \in Units
    /\ \A x, y \in Units : Times(x, y) \in Units /\ Times(x, y) = Times(y, x)
    /\ \A x, y, z \in Units : Times(Times(x, y), z) = Times(x, Times(y, z))
    /\ \A x \in Units : Times(x, 1) = x /\ Times(1, x) = x
  <1>0. N \in Nat /\ N > 2
    BY Generators
  <1>1. \A x \in 1..(N - 1) : x \in 0..(N - 1) /\ x \in Int
    BY <1>0
  <1>2. \A x \in Units : x \in 1..(N - 1) /\ \E y \in 1..(N - 1) : Times(x, y) = 1
    BY DEF Units
  <1>3. \A x \in Units : x \in 0..(N - 1) /\ x \in Int /\ x % N = x
    BY <1>1, <1>2, TimesLaws
  <1>4. 1 \in 1..(N - 1) /\ Times(1, 1) = 1
    <2>1. 1 \in 1..(N - 1)
      BY <1>0
    <2> QED BY <1>1, <2>1, TimesLaws
  <1>5. 1 \in Units
    BY <1>4 DEF Units
  <1>6. ASSUME NEW x \in Int, NEW y \in Int, Times(x, y) = 1
        PROVE  x # 0
    <2>1. Times(0, y) = 0
      BY TimesLaws
    <2> QED BY <1>6, <2>1
  <1>7. ASSUME NEW x \in Units, NEW y \in Units
        PROVE  Times(x, y) \in Units
    <2>1. PICK p \in 1..(N - 1) : Times(x, p) = 1
      BY <1>2
    <2>2. PICK q \in 1..(N - 1) : Times(y, q) = 1
      BY <1>2
    <2>3. x \in Int /\ y \in Int /\ p \in Int /\ q \in Int
      BY <1>1, <1>3
    <2> DEFINE xy == Times(x, y)
               pq == Times(p, q)
    <2>4. xy \in Int /\ pq \in Int /\ xy \in 0..(N - 1) /\ pq \in 0..(N - 1)
      BY <2>3, TimesLaws
    <2>5. Times(xy, pq) = 1
      <3>1. Times(xy, pq) = Times(x, Times(y, pq))
        BY <2>3, <2>4, TimesLaws
      <3>2. Times(y, pq) = Times(Times(p, q), y)
        BY <2>3, <2>4, TimesLaws
      <3>3. Times(Times(p, q), y) = Times(p, Times(q, y)) /\ Times(q, y) = 1
        BY <2>2, <2>3, TimesLaws
      <3>4. Times(p, 1) = p
        BY <1>1, TimesLaws
      <3> QED BY <2>1, <3>1, <3>2, <3>3, <3>4
    <2>6. Times(pq, xy) = 1
      BY <2>4, <2>5, TimesLaws
    <2>7. xy # 0 /\ pq # 0
      BY <1>6, <2>4, <2>5, <2>6
    <2> HIDE DEF xy, pq
    <2>8. xy \in 1..(N - 1) /\ pq \in 1..(N - 1)
      BY <1>0, <2>4, <2>7
    <2>9. xy \in Units
      BY <2>5, <2>8 DEF Units
    <2> QED BY <2>9 DEF xy
  <1> QED BY <1>3, <1>5, <1>7, TimesLaws

\* The inverse of a unit is the only number that it can be.
LEMMA InverseLaws ==
    ASSUME NEW x \in Units
    PROVE  /\ ModInverse(x) \in Units /\ Times(x, ModInverse(x)) = 1
           /\ \A y \in Units : Times(x, y) = 1 => y = ModInverse(x)
  <1> DEFINE i == ModInverse(x)
  <1>0. N \in Nat /\ N > 2
    BY Generators
  <1>1. \E y \in 1..(N - 1) : Times(x, y) = 1
    BY DEF Units
  <1>2. i \in 1..(N - 1) /\ Times(x, i) = 1
    BY <1>1 DEF ModInverse
  <1> HIDE DEF i
  <1>3. x \in Int /\ x \in 1..(N - 1) /\ i \in Int
    BY <1>0, <1>2 DEF Units
  <1>4. Times(i, x) = 1
    BY <1>2, <1>3, TimesLaws
  <1>5. i \in Units
    BY <1>2, <1>3, <1>4 DEF Units
  <1>6. ASSUME NEW y \in Units, Times(x, y) = 1
        PROVE  y = i
    <2>1. Times(i, Times(x, y)) = Times(Times(i, x), y)
      BY <1>5, UnitLaws
    <2>2. Times(i, Times(x, y)) = i
      BY <1>5, <1>6, UnitLaws
    <2>3. Times(Times(i, x), y) = y
      BY <1>4, UnitLaws
    <2> QED BY <2>1, <2>2, <2>3
  <1> QED BY <1>2, <1>5, <1>6 DEF i

\* The inverse of a product is the product of the inverses.
LEMMA InverseOfProduct ==
    ASSUME NEW x \in Units, NEW y \in Units
    PROVE  ModInverse(Times(x, y)) = Times(ModInverse(x), ModInverse(y))
  <1> DEFINE p == ModInverse(x)
             q == ModInverse(y)
  <1>1. p \in Units /\ q \in Units /\ Times(x, p) = 1 /\ Times(y, q) = 1 /\ Times(x, y) \in Units
    BY InverseLaws, UnitLaws
  <1> HIDE DEF p, q
  <1>2. Times(p, q) \in Units /\ Times(y, Times(p, q)) = Times(Times(p, q), y)
    BY <1>1, UnitLaws
  <1>3. Times(Times(p, q), y) = Times(p, Times(q, y)) /\ Times(q, y) = 1 /\ Times(p, 1) = p
    BY <1>1, UnitLaws
  <1>4. Times(Times(x, y), Times(p, q)) = Times(x, Times(y, Times(p, q)))
    BY <1>1, <1>2, UnitLaws
  <1>5. Times(Times(x, y), Times(p, q)) = 1
    BY <1>1, <1>2, <1>3, <1>4
  <1>6. Times(p, q) = ModInverse(Times(x, y))
    BY <1>1, <1>2, <1>5, InverseLaws
  <1> QED BY <1>6 DEF p, q

\* Two factors of a product of four change places.
LEMMA SwapFactors ==
    ASSUME NEW a \in Units, NEW b \in Units, NEW c \in Units, NEW d \in Units
    PROVE  Times(Times(a, b), Times(c, d)) = Times(Times(a, c), Times(b, d))
  <1>1. Times(b, c) \in Units /\ Times(c, d) \in Units /\ Times(b, d) \in Units /\ Times(b, c) = Times(c, b)
    BY UnitLaws
  <1>2. Times(Times(a, b), Times(c, d)) = Times(a, Times(b, Times(c, d)))
    BY <1>1, UnitLaws
  <1>3. Times(b, Times(c, d)) = Times(Times(b, c), d)
    BY UnitLaws
  <1>4. Times(Times(a, c), Times(b, d)) = Times(a, Times(c, Times(b, d)))
    BY <1>1, UnitLaws
  <1>5. Times(c, Times(b, d)) = Times(Times(c, b), d)
    BY UnitLaws
  <1> QED BY <1>1, <1>2, <1>3, <1>4, <1>5

-----------------------------------------------------------------------------
(* The recursion of Power has a solution, which its definition chooses.    *)

\* One step of the recursion on f.
SquareStepOf(x, f, e) ==
    IF e = 0 THEN 1
    ELSE IF e % 2 = 1 THEN Times(Times(f[e \div 2], f[e \div 2]), x) ELSE Times(f[e \div 2], f[e \div 2])

\* f satisfies the recursion up to n.
PowersTo(x, n, f) == \A e \in 0..n : f[e] = SquareStepOf(x, f, e)

\* The recursion descends.
LEMMA HalfIsLess ==
    ASSUME NEW e \in Nat, e # 0
    PROVE  e \div 2 \in Nat /\ e \div 2 < e
OBVIOUS

\* One more power can be computed.
LEMMA PowersExtend ==
    ASSUME NEW x, NEW n \in Nat, NEW f, PowersTo(x, n, f)
    PROVE  \E k : PowersTo(x, n + 1, k)
  <1> DEFINE k == [e \in 0..(n + 1) |-> IF e = n + 1 THEN SquareStepOf(x, f, e) ELSE f[e]]
  <1>1. k[n + 1] = SquareStepOf(x, f, n + 1) /\ \A e \in 0..n : k[e] = f[e]
    OBVIOUS
  <1> HIDE DEF k
  <1>2. ASSUME NEW e \in 0..(n + 1)
        PROVE  k[e] = SquareStepOf(x, k, e)
    <2>1. k[e] = SquareStepOf(x, f, e)
      <3>1. CASE e = n + 1
        BY <1>1, <3>1
      <3>2. CASE e # n + 1
        <4>1. e \in 0..n
          BY <3>2
        <4> QED BY <1>1, <4>1 DEF PowersTo
      <3> QED BY <3>1, <3>2
    <2>2. CASE e = 0
      BY <2>1, <2>2 DEF SquareStepOf
    <2>3. CASE e # 0
      <3>1. e \div 2 \in 0..n
        <4>1. e \in Nat
          OBVIOUS
        <4> QED BY <2>3, <4>1, HalfIsLess
      <3>2. k[e \div 2] = f[e \div 2]
        BY <1>1, <3>1
      <3> QED BY <2>1, <3>2 DEF SquareStepOf
    <2> QED BY <2>2, <2>3
  <1> QED BY <1>2 DEF PowersTo

\* The recursion has a solution up to every exponent.
LEMMA PowersExist ==
    ASSUME NEW x, NEW n \in Nat
    PROVE  \E f : PowersTo(x, n, f)
  <1> DEFINE Bad == {m \in Nat : ~ \E f : PowersTo(x, m, f)}
  <1>1. SUFFICES ASSUME Bad # {} PROVE FALSE
    OBVIOUS
  <1>2. PICK m \in Bad : \A k \in Nat : k < m => k \notin Bad
    <2>1. Bad \in SUBSET Nat
      OBVIOUS
    <2> HIDE DEF Bad
    <2> QED BY <1>1, <2>1, LeastNumber
  <1>3. m \in Nat /\ ~ \E f : PowersTo(x, m, f)
    OBVIOUS
  <1>4. m # 0
    <2> DEFINE f == [e \in {0} |-> 1]
    <2>1. \A e \in 0..0 : e = 0
      OBVIOUS
    <2>2. PowersTo(x, 0, f)
      BY <2>1 DEF PowersTo, SquareStepOf
    <2> QED BY <1>3, <2>2
  <1>5. m - 1 \in Nat /\ m - 1 < m /\ (m - 1) + 1 = m
    BY <1>3, <1>4
  <1>6. \E f : PowersTo(x, m - 1, f)
    BY <1>2, <1>5
  <1>7. \E f : PowersTo(x, (m - 1) + 1, f)
    BY <1>5, <1>6, PowersExtend
  <1> QED BY <1>3, <1>5, <1>7

\* Solutions agree where they are both defined.
LEMMA PowersAgree ==
    ASSUME NEW x, NEW n \in Nat, NEW m \in Nat, NEW f, NEW k, PowersTo(x, n, f), PowersTo(x, m, k),
           NEW e \in Nat, e <= n, e <= m
    PROVE  f[e] = k[e]
  <1> DEFINE Bad == {d \in Nat : d <= n /\ d <= m /\ f[d] # k[d]}
  <1>1. SUFFICES ASSUME Bad # {} PROVE FALSE
    OBVIOUS
  <1>2. PICK d \in Bad : \A c \in Nat : c < d => c \notin Bad
    <2>1. Bad \in SUBSET Nat
      OBVIOUS
    <2> HIDE DEF Bad
    <2> QED BY <1>1, <2>1, LeastNumber
  <1>3. d \in Nat /\ d <= n /\ d <= m /\ f[d] # k[d]
    OBVIOUS
  <1>4. d \in 0..n /\ d \in 0..m
    BY <1>3
  <1>5. f[d] = SquareStepOf(x, f, d) /\ k[d] = SquareStepOf(x, k, d)
    BY <1>4 DEF PowersTo
  <1>6. d # 0
    BY <1>3, <1>5 DEF SquareStepOf
  <1>7. d \div 2 \in Nat /\ d \div 2 < d
    BY <1>3, <1>6, HalfIsLess
  <1> DEFINE c == d \div 2
  <1>8. c \in Nat /\ c < d /\ c <= n /\ c <= m
    <2>1. c \in Nat /\ c < d
      BY <1>7
    <2> HIDE DEF c
    <2> QED BY <1>3, <2>1
  <1>9. f[c] = k[c]
    <2> HIDE DEF c
    <2> QED BY <1>2, <1>8
  <1> QED BY <1>3, <1>5, <1>9 DEF SquareStepOf

\* Power satisfies its recursion.
LEMMA PowerUnfolds ==
    ASSUME NEW x
    PROVE  \A e \in Nat : Power(x)[e] = SquareStepOf(x, Power(x), e)
  <1> DEFINE To(n) == CHOOSE f : PowersTo(x, n, f)
             F == [e \in Nat |-> To(e)[e]]
             Def(f) == [e \in Nat |-> IF e = 0 THEN 1
                                      ELSE IF e % 2 = 1 THEN Times(Times(f[e \div 2], f[e \div 2]), x)
                                           ELSE Times(f[e \div 2], f[e \div 2])]
  <1>1. \A n \in Nat : PowersTo(x, n, To(n))
    BY PowersExist
  <1>2. \A e \in Nat : F[e] = To(e)[e]
    OBVIOUS
  <1> HIDE DEF To
  <1>3. ASSUME NEW e \in Nat
        PROVE  F[e] = SquareStepOf(x, F, e)
    <2>1. F[e] = SquareStepOf(x, To(e), e)
      <3>1. e \in 0..e
        OBVIOUS
      <3> QED BY <1>1, <1>2, <3>1 DEF PowersTo
    <2>2. CASE e = 0
      BY <2>1, <2>2 DEF SquareStepOf
    <2>3. CASE e # 0
      <3> DEFINE c == e \div 2
      <3>1. c \in Nat /\ c < e
        BY <2>3, HalfIsLess
      <3>2. F[c] = To(e)[c]
        <4> HIDE DEF c, F
        <4>1. c <= c /\ c <= e
          BY <3>1
        <4>2. To(c)[c] = To(e)[c]
          BY <1>1, <3>1, <4>1, PowersAgree
        <4> QED BY <1>2, <3>1, <4>2
      <3> HIDE DEF F
      <3> QED BY <2>1, <3>2 DEF SquareStepOf
    <2> QED BY <2>2, <2>3
  <1>4. F = Def(F)
    BY <1>3 DEF SquareStepOf
  <1>5. Power(x) = CHOOSE f : f = Def(f)
    BY DEF Power
  <1>6. Power(x) = Def(Power(x))
    <2> HIDE DEF Def, F
    <2> QED BY <1>4, <1>5
  <1> QED BY <1>6 DEF SquareStepOf

-----------------------------------------------------------------------------
(* The laws of exponents.                                                  *)

\* Squaring computes what multiplying once more would.
LEMMA NextPower ==
    ASSUME NEW x \in Units, NEW e \in Nat
    PROVE  /\ Power(x)[0] = 1 /\ Power(x)[e] \in Units
           /\ Power(x)[e + 1] = Times(Power(x)[e], x)
  <1> DEFINE P(d) == Power(x)[d]
             Right(d) == P(d) \in Units /\ P(d + 1) = Times(P(d), x)
             Bad == {d \in Nat : ~Right(d)}
  <1>0. \A d \in Nat : P(d) = SquareStepOf(x, Power(x), d)
    BY PowerUnfolds
  <1>1. P(0) = 1
    BY <1>0 DEF SquareStepOf
  <1>2. \A k \in Nat : k # 0 => P(2 * k) = Times(P(k), P(k))
    <2> TAKE k \in Nat
    <2>1. 2 * k \in Nat /\ (2 * k) % 2 = 0 /\ (2 * k) \div 2 = k /\ (k # 0 => 2 * k # 0)
      OBVIOUS
    <2> QED BY <1>0, <2>1 DEF SquareStepOf
  <1>3. \A k \in Nat : P(2 * k + 1) = Times(Times(P(k), P(k)), x)
    <2> TAKE k \in Nat
    <2>1. 2 * k + 1 \in Nat /\ (2 * k + 1) % 2 = 1 /\ (2 * k + 1) \div 2 = k /\ 2 * k + 1 # 0
      OBVIOUS
    <2> QED BY <1>0, <2>1 DEF SquareStepOf
  <1> HIDE DEF P
  <1>4. SUFFICES ASSUME Bad # {} PROVE FALSE
    <2>1. Right(e)
      BY <1>4
    <2> QED BY <1>1, <2>1 DEF P
  <1>5. PICK d \in Bad : \A k \in Nat : k < d => k \notin Bad
    <2>1. Bad \in SUBSET Nat
      OBVIOUS
    <2> HIDE DEF Bad
    <2> QED BY <1>4, <2>1, LeastNumber
  <1>6. d \in Nat /\ ~Right(d) /\ \A k \in Nat : k < d => Right(k)
    BY <1>5
  <1> HIDE DEF Bad
  <1>7. CASE d = 0
    <2>1. P(2 * 0 + 1) = Times(Times(P(0), P(0)), x) /\ 2 * 0 + 1 = 0 + 1
      BY <1>3
    <2>2. Right(0)
      BY <1>1, <2>1, UnitLaws
    <2> QED BY <1>6, <1>7, <2>2
  <1>8. CASE d # 0
    <2>1. PICK k \in Nat : d = 2 * k \/ d = 2 * k + 1
      <3>1. d \div 2 \in Nat /\ (d = 2 * (d \div 2) \/ d = 2 * (d \div 2) + 1)
        BY <1>6
      <3> QED BY <3>1
    <2>2. k < d
      BY <1>6, <1>8, <2>1
    <2>3. P(k) \in Units /\ P(k + 1) = Times(P(k), x)
      BY <1>6, <2>2
    <2> DEFINE q == Times(P(k), P(k))
    <2>4. q \in Units /\ Times(q, x) \in Units
      BY <2>3, UnitLaws
    <2>5. CASE d = 2 * k
      <3>1. P(d) = q /\ P(d + 1) = Times(q, x)
        BY <1>2, <1>3, <1>8, <2>5
      <3> QED BY <1>6, <2>4, <3>1
    <2>6. CASE d = 2 * k + 1
      <3>1. P(d) = Times(q, x)
        BY <1>3, <2>6
      <3>2. d + 1 = 2 * (k + 1) /\ k + 1 \in Nat /\ k + 1 # 0
        BY <2>6
      <3>3. P(d + 1) = Times(P(k + 1), P(k + 1))
        BY <1>2, <3>2
      <3>4. Times(Times(P(k), x), Times(P(k), x)) = Times(q, Times(x, x))
        BY <2>3, SwapFactors
      <3>5. Times(q, Times(x, x)) = Times(Times(q, x), x)
        BY <2>4, UnitLaws
      <3> QED BY <1>6, <2>3, <2>4, <3>1, <3>3, <3>4, <3>5
    <2> QED BY <2>1, <2>5, <2>6
  <1> QED BY <1>7, <1>8

LEMMA FirstPowers ==
    ASSUME NEW x \in Units
    PROVE  Power(x)[0] = 1 /\ Power(x)[1] = x
  <1>1. Power(x)[0] = 1 /\ Power(x)[0 + 1] = Times(Power(x)[0], x)
    BY NextPower
  <1> QED BY <1>1, UnitLaws

LEMMA SumOfExponents ==
    ASSUME NEW x \in Units, NEW i \in Nat, NEW j \in Nat
    PROVE  Power(x)[i + j] = Times(Power(x)[i], Power(x)[j])
  <1> DEFINE P(d) == Power(x)[d]
             Bad == {d \in Nat : P(i + d) # Times(P(i), P(d))}
  <1>0. P(0) = 1 /\ \A d \in Nat : P(d) \in Units /\ P(d + 1) = Times(P(d), x)
    BY NextPower
  <1> HIDE DEF P
  <1>1. SUFFICES ASSUME Bad # {} PROVE FALSE
    BY <1>1 DEF P
  <1>2. PICK d \in Bad : \A k \in Nat : k < d => k \notin Bad
    <2>1. Bad \in SUBSET Nat
      OBVIOUS
    <2> HIDE DEF Bad
    <2> QED BY <1>1, <2>1, LeastNumber
  <1>3. d \in Nat /\ P(i + d) # Times(P(i), P(d))
    OBVIOUS
  <1>4. d # 0
    <2>1. i + 0 = i /\ Times(P(i), 1) = P(i)
      BY <1>0, UnitLaws
    <2> QED BY <1>0, <1>3, <2>1
  <1> DEFINE k == d - 1
  <1>5. k \in Nat /\ k < d /\ d = k + 1 /\ i + d = (i + k) + 1 /\ i + k \in Nat
    BY <1>3, <1>4
  <1>6. P(i + k) = Times(P(i), P(k))
    <2> HIDE DEF k
    <2> QED BY <1>2, <1>5
  <1> HIDE DEF k, Bad
  <1>7. P(i + d) = Times(Times(P(i), P(k)), x)
    BY <1>0, <1>5, <1>6
  <1>8. Times(Times(P(i), P(k)), x) = Times(P(i), Times(P(k), x))
    BY <1>0, <1>5, UnitLaws
  <1>9. Times(P(k), x) = P(d)
    BY <1>0, <1>5
  <1> QED BY <1>3, <1>7, <1>8, <1>9

LEMMA PowerOfProduct ==
    ASSUME NEW x \in Units, NEW y \in Units, NEW i \in Nat
    PROVE  Power(Times(x, y))[i] = Times(Power(x)[i], Power(y)[i])
  <1> DEFINE P(d) == Power(x)[d]
             Q(d) == Power(y)[d]
             z == Times(x, y)
             R(d) == Power(z)[d]
             Bad == {d \in Nat : R(d) # Times(P(d), Q(d))}
  <1>0. /\ z \in Units
        /\ P(0) = 1 /\ \A d \in Nat : P(d) \in Units /\ P(d + 1) = Times(P(d), x)
        /\ Q(0) = 1 /\ \A d \in Nat : Q(d) \in Units /\ Q(d + 1) = Times(Q(d), y)
        /\ R(0) = 1 /\ \A d \in Nat : R(d) \in Units /\ R(d + 1) = Times(R(d), z)
    <2>1. z \in Units
      BY UnitLaws
    <2> HIDE DEF z
    <2> QED BY <2>1, NextPower
  <1> HIDE DEF P, Q, R
  <1>1. SUFFICES ASSUME Bad # {} PROVE FALSE
    BY <1>1 DEF P, Q, R
  <1>2. PICK d \in Bad : \A k \in Nat : k < d => k \notin Bad
    <2>1. Bad \in SUBSET Nat
      OBVIOUS
    <2> HIDE DEF Bad
    <2> QED BY <1>1, <2>1, LeastNumber
  <1>3. d \in Nat /\ R(d) # Times(P(d), Q(d))
    OBVIOUS
  <1>4. d # 0
    <2>1. Times(1, 1) = 1
      BY UnitLaws
    <2> QED BY <1>0, <1>3, <2>1
  <1> DEFINE k == d - 1
  <1>5. k \in Nat /\ k < d /\ d = k + 1
    BY <1>3, <1>4
  <1>6. R(k) = Times(P(k), Q(k))
    <2> HIDE DEF k
    <2> QED BY <1>2, <1>5
  <1> HIDE DEF k, Bad
  <1>7. R(d) = Times(Times(P(k), Q(k)), Times(x, y))
    BY <1>0, <1>5, <1>6 DEF z
  <1>8. Times(Times(P(k), Q(k)), Times(x, y)) = Times(Times(P(k), x), Times(Q(k), y))
    BY <1>0, <1>5, SwapFactors
  <1>9. Times(P(k), x) = P(d) /\ Times(Q(k), y) = Q(d)
    BY <1>0, <1>5
  <1> QED BY <1>3, <1>7, <1>8, <1>9

LEMMA ProductOfExponents ==
    ASSUME NEW x \in Units, NEW i \in Nat, NEW j \in Nat
    PROVE  Power(x)[i * j] = Power(Power(x)[i])[j]
  <1> DEFINE y == Power(x)[i]
             P(d) == Power(x)[d]
             Q(d) == Power(y)[d]
             Bad == {d \in Nat : P(i * d) # Q(d)}
  <1>0. /\ y \in Units /\ P(i) = y
        /\ P(0) = 1 /\ Q(0) = 1 /\ \A d \in Nat : Q(d) \in Units /\ Q(d + 1) = Times(Q(d), y)
        /\ \A c, d \in Nat : P(c + d) = Times(P(c), P(d))
    <2>1. y \in Units /\ P(i) = y /\ P(0) = 1
      BY NextPower
    <2>2. \A c, d \in Nat : P(c + d) = Times(P(c), P(d))
      BY SumOfExponents
    <2> HIDE DEF y
    <2>3. Q(0) = 1 /\ \A d \in Nat : Q(d) \in Units /\ Q(d + 1) = Times(Q(d), y)
      BY <2>1, NextPower
    <2> QED BY <2>1, <2>2, <2>3
  <1> HIDE DEF P, Q, y
  <1>1. SUFFICES ASSUME Bad # {} PROVE FALSE
    BY <1>1 DEF P, Q, y
  <1>2. PICK d \in Bad : \A k \in Nat : k < d => k \notin Bad
    <2>1. Bad \in SUBSET Nat
      OBVIOUS
    <2> HIDE DEF Bad
    <2> QED BY <1>1, <2>1, LeastNumber
  <1>3. d \in Nat /\ P(i * d) # Q(d)
    OBVIOUS
  <1>4. d # 0
    <2>1. i * 0 = 0
      OBVIOUS
    <2> QED BY <1>0, <1>3, <2>1
  <1> DEFINE k == d - 1
  <1>5. k \in Nat /\ k < d /\ d = k + 1
    BY <1>3, <1>4
  <1>6. P(i * k) = Q(k)
    <2> HIDE DEF k
    <2> QED BY <1>2, <1>5
  <1> HIDE DEF k, Bad
  <1>7. i * d = i * k + i /\ i * k \in Nat
    BY <1>5
  <1> DEFINE ik == i * k
  <1>8. P(i * d) = Times(Q(k), y)
    <2>1. ik \in Nat /\ i * d = ik + i /\ P(ik) = Q(k)
      BY <1>6, <1>7
    <2> HIDE DEF ik
    <2> QED BY <1>0, <2>1
  <1> QED BY <1>0, <1>3, <1>5, <1>8

\* A power of the inverse is the inverse of the power.
LEMMA PowerOfInverse ==
    ASSUME NEW x \in Units, NEW i \in Nat
    PROVE  Power(ModInverse(x))[i] = ModInverse(Power(x)[i])
  <1> DEFINE y == ModInverse(x)
  <1>1. y \in Units /\ Times(x, y) = 1
    BY InverseLaws
  <1> HIDE DEF y
  <1>2. Times(Power(x)[i], Power(y)[i]) = Power(1)[i]
    BY <1>1, PowerOfProduct
  <1>3. Power(1)[i] = 1
    <2> DEFINE Bad == {d \in Nat : Power(1)[d] # 1}
    <2>0. Power(1)[0] = 1 /\ \A d \in Nat : Power(1)[d + 1] = Times(Power(1)[d], 1)
      BY NextPower, UnitLaws
    <2>1. SUFFICES ASSUME Bad # {} PROVE FALSE
      OBVIOUS
    <2>2. PICK d \in Bad : \A k \in Nat : k < d => k \notin Bad
      <3>1. Bad \in SUBSET Nat
        OBVIOUS
      <3> HIDE DEF Bad
      <3> QED BY <2>1, <3>1, LeastNumber
    <2>3. d \in Nat /\ Power(1)[d] # 1
      OBVIOUS
    <2>4. d # 0
      BY <2>0, <2>3
    <2> DEFINE k == d - 1
    <2>5. k \in Nat /\ k < d /\ d = k + 1
      BY <2>3, <2>4
    <2>6. Power(1)[k] = 1
      <3> HIDE DEF k
      <3> QED BY <2>2, <2>5
    <2> HIDE DEF k
    <2>7. Power(1)[d] = Times(1, 1)
      BY <2>0, <2>5, <2>6
    <2> QED BY <2>3, <2>7, UnitLaws
  <1>4. Power(x)[i] \in Units /\ Power(y)[i] \in Units
    BY <1>1, NextPower
  <1>5. Power(y)[i] = ModInverse(Power(x)[i])
    BY <1>2, <1>3, <1>4, InverseLaws
  <1> QED BY <1>5 DEF y

\* ModPow on units, for either sign of the exponent.
LEMMA ModPowIs ==
    ASSUME NEW x \in Units, NEW i \in Nat
    PROVE  /\ ModPow(x, i) = Power(x)[i] /\ ModPow(x, -i) = ModInverse(Power(x)[i])
           /\ ModPow(x, i) \in Units /\ ModPow(x, -i) \in Units
  <1>1. x % N = x
    BY UnitLaws
  <1>2. Power(x)[i] \in Units /\ Power(x)[0] = 1
    BY NextPower
  <1>3. ModPow(x, i) = Power(x)[i]
    BY <1>1 DEF ModPow
  <1>4. ModPow(x, -i) = ModInverse(Power(x)[i])
    <2>1. CASE i = 0
      <3>1. ModPow(x, -i) = Power(x)[0]
        <4>1. -i = 0
          <5>1. \A n \in Nat : n <= 0 => -n = 0
            OBVIOUS
          <5>2. i <= 0
            BY <2>1
          <5> QED BY <5>1, <5>2
        <4> QED BY <1>1, <4>1 DEF ModPow
      <3>2. ModInverse(1) = 1
        BY InverseLaws, UnitLaws
      <3> QED BY <1>2, <2>1, <3>1, <3>2
    <2>2. CASE i # 0
      <3>1. ~(-i >= 0) /\ -(-i) = i
        BY <2>2
      <3> QED BY <1>1, <3>1 DEF ModPow
    <2> QED BY <2>1, <2>2
  <1>5. ModInverse(Power(x)[i]) \in Units
    BY <1>2, InverseLaws
  <1> QED BY <1>2, <1>3, <1>4, <1>5

\* An integer is a natural number or the opposite of one.
LEMMA IntegerSigns ==
    ASSUME NEW i \in Int
    PROVE  \E n \in Nat : i = n \/ i = -n
  <1>1. CASE i >= 0
    BY <1>1
  <1>2. CASE i < 0
    <2>1. -i \in Nat /\ i = -(-i)
      BY <1>2
    <2> QED BY <2>1
  <1> QED BY <1>1, <1>2

\* The power of a difference.
LEMMA PowerOfDifference ==
    ASSUME NEW x \in Units, NEW a \in Nat, NEW b \in Nat
    PROVE  ModPow(x, a - b) = Times(Power(x)[a], ModInverse(Power(x)[b]))
  <1> DEFINE P(d) == Power(x)[d]
  <1>0. \A d \in Nat : P(d) \in Units /\ ModInverse(P(d)) \in Units /\ Times(P(d), ModInverse(P(d))) = 1
    BY NextPower, InverseLaws
  <1>1. CASE a >= b
    <2> DEFINE c == a - b
    <2>1. c \in Nat /\ c + b = a
      BY <1>1
    <2> HIDE DEF c
    <2>2. P(a) = Times(P(c), P(b))
      BY <2>1, SumOfExponents
    <2>3. ModPow(x, c) = P(c)
      BY <2>1, ModPowIs
    <2> HIDE DEF P
    <2>4. Times(Times(P(c), P(b)), ModInverse(P(b))) = Times(P(c), Times(P(b), ModInverse(P(b))))
      BY <1>0, <2>1, UnitLaws
    <2>5. Times(P(c), 1) = P(c)
      BY <1>0, <2>1, UnitLaws
    <2>6. ModPow(x, c) = Times(P(a), ModInverse(P(b)))
      BY <1>0, <2>2, <2>3, <2>4, <2>5
    <2> QED BY <2>6 DEF c, P
  <1>2. CASE a < b
    <2> DEFINE c == b - a
    <2>1. c \in Nat /\ c + a = b /\ a - b = -c
      BY <1>2
    <2> HIDE DEF c
    <2>2. P(b) = Times(P(c), P(a))
      BY <2>1, SumOfExponents
    <2>3. ModPow(x, -c) = ModInverse(P(c))
      BY <2>1, ModPowIs
    <2> HIDE DEF P
    <2> DEFINE u == ModInverse(P(c))
               v == ModInverse(P(a))
    <2>4. ModInverse(P(b)) = Times(u, v)
      BY <1>0, <2>1, <2>2, InverseOfProduct
    <2>5. u \in Units /\ v \in Units /\ P(a) \in Units /\ Times(P(a), v) = 1
      BY <1>0, <2>1
    <2> HIDE DEF u, v
    <2>6. Times(P(a), Times(u, v)) = Times(Times(P(a), u), v) /\ Times(P(a), u) = Times(u, P(a))
      BY <2>5, UnitLaws
    <2>7. Times(Times(u, P(a)), v) = Times(u, Times(P(a), v)) /\ Times(u, 1) = u
      BY <2>5, UnitLaws
    <2>8. Times(P(a), ModInverse(P(b))) = u
      BY <2>4, <2>5, <2>6, <2>7
    <2> QED BY <2>1, <2>3, <2>8 DEF u, P
  <1> QED BY <1>1, <1>2

\* Every integer is a difference of natural numbers.
LEMMA Difference ==
    ASSUME NEW i \in Int
    PROVE  \E a, b \in Nat : i = a - b
  <1>1. PICK n \in Nat : i = n \/ i = -n
    BY IntegerSigns
  <1>2. CASE i = n
    <2>1. i = n - 0 /\ 0 \in Nat
      BY <1>2
    <2> QED BY <2>1
  <1>3. CASE i = -n
    <2>1. i = 0 - n /\ 0 \in Nat
      BY <1>3
    <2> QED BY <2>1
  <1> QED BY <1>1, <1>2, <1>3

LEMMA PowerOfSum ==
    ASSUME NEW x \in Units, NEW i \in Int, NEW j \in Int
    PROVE  ModPow(x, i + j) = Times(ModPow(x, i), ModPow(x, j))
  <1> DEFINE P(d) == Power(x)[d]
  <1>0. \A d \in Nat : P(d) \in Units /\ ModInverse(P(d)) \in Units
    BY NextPower, InverseLaws
  <1>1. PICK a, b \in Nat : i = a - b
    BY Difference
  <1>2. PICK c, d \in Nat : j = c - d
    BY Difference
  <1>3. i + j = (a + c) - (b + d) /\ a + c \in Nat /\ b + d \in Nat
    BY <1>1, <1>2
  <1>4. ModPow(x, (a + c) - (b + d)) = Times(P(a + c), ModInverse(P(b + d)))
    BY <1>3, PowerOfDifference
  <1>5. P(a + c) = Times(P(a), P(c)) /\ P(b + d) = Times(P(b), P(d))
    BY SumOfExponents
  <1>6. ModPow(x, i) = Times(P(a), ModInverse(P(b))) /\ ModPow(x, j) = Times(P(c), ModInverse(P(d)))
    BY <1>1, <1>2, PowerOfDifference
  <1> HIDE DEF P
  <1>7. ModInverse(Times(P(b), P(d))) = Times(ModInverse(P(b)), ModInverse(P(d)))
    BY <1>0, InverseOfProduct
  <1>8. Times(Times(P(a), P(c)), Times(ModInverse(P(b)), ModInverse(P(d))))
          = Times(Times(P(a), ModInverse(P(b))), Times(P(c), ModInverse(P(d))))
    BY <1>0, SwapFactors
  <1> QED BY <1>3, <1>4, <1>5, <1>6, <1>7, <1>8

LEMMA ProductOfPowers ==
    ASSUME NEW x \in Units, NEW y \in Units, NEW i \in Int
    PROVE  ModPow(Times(x, y), i) = Times(ModPow(x, i), ModPow(y, i))
  <1> DEFINE z == Times(x, y)
  <1>0. z \in Units
    BY UnitLaws
  <1>1. PICK n \in Nat : i = n \/ i = -n
    BY IntegerSigns
  <1>2. Power(z)[n] = Times(Power(x)[n], Power(y)[n])
    BY PowerOfProduct
  <1> HIDE DEF z
  <1>3. /\ ModPow(x, n) = Power(x)[n] /\ ModPow(y, n) = Power(y)[n] /\ ModPow(z, n) = Power(z)[n]
        /\ ModPow(x, -n) = ModInverse(Power(x)[n]) /\ ModPow(y, -n) = ModInverse(Power(y)[n])
        /\ ModPow(z, -n) = ModInverse(Power(z)[n])
    BY <1>0, ModPowIs
  <1>4. Power(x)[n] \in Units /\ Power(y)[n] \in Units
    BY NextPower
  <1>5. ModInverse(Times(Power(x)[n], Power(y)[n])) = Times(ModInverse(Power(x)[n]), ModInverse(Power(y)[n]))
    BY <1>4, InverseOfProduct
  <1>6. ModPow(z, i) = Times(ModPow(x, i), ModPow(y, i))
    BY <1>1, <1>2, <1>3, <1>5
  <1> QED BY <1>6 DEF z

\* The opposite exponent inverts.
LEMMA OppositeExponent ==
    ASSUME NEW x \in Units, NEW i \in Int
    PROVE  ModPow(x, -i) = ModInverse(ModPow(x, i)) /\ ModPow(x, i) \in Units
  <1>1. PICK n \in Nat : i = n \/ i = -n
    BY IntegerSigns
  <1>2. /\ ModPow(x, n) = Power(x)[n] /\ ModPow(x, -n) = ModInverse(Power(x)[n])
        /\ ModPow(x, n) \in Units /\ ModPow(x, -n) \in Units
    BY ModPowIs
  <1>3. CASE i = n
    BY <1>2, <1>3
  <1>4. CASE i = -n
    <2>1. -i = n
      BY <1>4
    <2> DEFINE p == Power(x)[n]
               q == ModInverse(p)
    <2>2. p \in Units /\ q \in Units /\ Times(p, q) = 1
      BY <1>2, InverseLaws
    <2> HIDE DEF p, q
    <2>3. Times(q, p) = 1
      BY <2>2, UnitLaws
    <2>4. p = ModInverse(q)
      BY <2>2, <2>3, InverseLaws
    <2> QED BY <1>2, <1>4, <2>1, <2>4 DEF p, q
  <1> QED BY <1>1, <1>3, <1>4

LEMMA PowerOfPower ==
    ASSUME NEW x \in Units, NEW i \in Int, NEW j \in Int
    PROVE  ModPow(x, i * j) = ModPow(ModPow(x, i), j)
  <1>1. PICK m \in Nat : i = m \/ i = -m
    BY IntegerSigns
  <1>2. PICK n \in Nat : j = n \/ j = -n
    BY IntegerSigns
  <1> DEFINE mn == m * n
             y == Power(x)[m]
  <1>3. mn \in Nat
    OBVIOUS
  <1>4. Power(x)[mn] = Power(y)[n] /\ y \in Units
    BY ProductOfExponents, NextPower
  <1>5. ASSUME NEW k \in Int, k = m \/ k = -m
        PROVE  ModPow(x, k * n) = ModPow(ModPow(x, k), n)
    <2>1. CASE k = m
      <3>1. k * n = mn
        BY <2>1
      <3> HIDE DEF mn
      <3>2. ModPow(x, mn) = Power(x)[mn] /\ ModPow(x, k) = y
        BY <1>3, <2>1, ModPowIs
      <3> HIDE DEF y
      <3>3. ModPow(y, n) = Power(y)[n]
        BY <1>4, ModPowIs
      <3> QED BY <1>4, <3>1, <3>2, <3>3
    <2>2. CASE k = -m
      <3>1. k * n = -mn
        BY <2>2
      <3> HIDE DEF mn
      <3>2. ModPow(x, -mn) = ModInverse(Power(x)[mn]) /\ ModPow(x, k) = ModInverse(y)
        BY <1>3, <2>2, ModPowIs
      <3> HIDE DEF y
      <3>3. ModInverse(y) \in Units
        BY <1>4, InverseLaws
      <3>4. ModPow(ModInverse(y), n) = Power(ModInverse(y))[n]
        BY <3>3, ModPowIs
      <3>5. Power(ModInverse(y))[n] = ModInverse(Power(y)[n])
        BY <1>4, PowerOfInverse
      <3> QED BY <1>4, <3>1, <3>2, <3>4, <3>5
    <2> QED BY <1>5, <2>1, <2>2
  <1> HIDE DEF mn, y
  <1>6. ModPow(x, i * n) = ModPow(ModPow(x, i), n)
    BY <1>1, <1>5
  <1>7. CASE j = n
    BY <1>6, <1>7
  <1>8. CASE j = -n
    <2> DEFINE k == i * n
    <2>1. k \in Int /\ i * j = -k
      BY <1>8
    <2>2. ModPow(x, k) = ModPow(ModPow(x, i), n)
      BY <1>6
    <2> HIDE DEF k
    <2>3. ModPow(x, -k) = ModInverse(ModPow(x, k))
      BY <2>1, OppositeExponent
    <2> DEFINE z == ModPow(x, i)
    <2>4. z \in Units
      BY OppositeExponent
    <2> HIDE DEF z
    <2>5. ModPow(z, -n) = ModInverse(ModPow(z, n))
      BY <2>4, OppositeExponent
    <2> QED BY <1>8, <2>1, <2>2, <2>3, <2>5 DEF z
  <1> QED BY <1>2, <1>7, <1>8

\* The laws of exponents hold modulo every N, whatever the generators: ModPow of
\* zkp_validator.go and BigInteger.modPow compute in the abelian group of units.
THEOREM LawsOfExponents == GroupLaws(Int)
  <1>1. \A x \in Units, i \in Int : ModPow(x, i) \in Units
    BY OppositeExponent
  <1>2. \A x \in Units, i, j \in Int : ModPow(x, i + j) = Times(ModPow(x, i), ModPow(x, j))
    BY PowerOfSum
  <1>3. \A x \in Units, i, j \in Int : ModPow(x, i * j) = ModPow(ModPow(x, i), j)
    BY PowerOfPower
  <1>4. \A x, y \in Units, i \in Int : ModPow(Times(x, y), i) = Times(ModPow(x, i), ModPow(y, i))
    BY ProductOfPowers
  <1>5. ASSUME NEW x \in Units
        PROVE  ModPow(x, 1) = x /\ ModPow(x, 0) = 1 /\ ModInverse(x) = ModPow(x, -1)
    <2>1. ModPow(x, 1) = Power(x)[1] /\ ModPow(x, 0) = Power(x)[0] /\ ModPow(x, -1) = ModInverse(Power(x)[1])
      BY ModPowIs
    <2> QED BY <2>1, FirstPowers
  <1>6. \A x, y \in Units : Times(x, ModPow(y, 0)) = x
    BY <1>5, UnitLaws
  <1>7. /\ \A x, y \in Units : Times(x, y) \in Units /\ Times(x, y) = Times(y, x)
        /\ \A x, y, z \in Units : Times(Times(x, y), z) = Times(x, Times(y, z))
    BY UnitLaws
  <1> QED BY <1>1, <1>2, <1>3, <1>4, <1>5, <1>6, <1>7, Zenon DEF GroupLaws

\* Every natural number has a floor root.
LEMMA RootExists ==
    ASSUME NEW n \in Nat
    PROVE  \E k \in 0..n : IsFloorRoot(k, n)
  <1> DEFINE S == {k \in Nat : n < (k + 1) * (k + 1)}
  <1>1. n \in S
    <2>1. (n + 1) * (n + 1) = n * n + 2 * n + 1 /\ n * n >= 0
      OBVIOUS
    <2> QED BY <2>1
  <1>2. PICK k \in S : \A m \in Nat : m < k => m \notin S
    <2>1. S \in SUBSET Nat /\ S # {}
      BY <1>1
    <2> HIDE DEF S
    <2> QED BY <2>1, LeastNumber
  <1>3. k \in Nat /\ n < (k + 1) * (k + 1)
    OBVIOUS
  <1>4. k * k <= n
    <2>1. CASE k = 0
      BY <2>1
    <2>2. CASE k # 0
      <3> DEFINE m == k - 1
      <3>1. m \in Nat /\ m < k /\ m + 1 = k
        BY <1>3, <2>2
      <3>2. m \notin S
        <4> HIDE DEF S, m
        <4> QED BY <1>2, <3>1
      <3>3. ~(n < (m + 1) * (m + 1))
        BY <3>1, <3>2
      <3>4. ~(n < k * k)
        BY <3>1, <3>3
      <3> QED BY <1>3, <3>4
    <2> QED BY <2>1, <2>2
  <1>5. k <= n
    <2>1. CASE k = 0
      BY <2>1
    <2>2. CASE k # 0
      <3>1. k * k >= k
        BY <1>3, <2>2
      <3> QED BY <1>3, <1>4, <3>1
    <2> QED BY <2>1, <2>2
  <1> QED BY <1>3, <1>4, <1>5 DEF IsFloorRoot

-----------------------------------------------------------------------------
(* Arithmetic of commitments: commitments multiply by adding exponents.    *)

\* Commitments are invertible, so the validators may divide by them.
LEMMA CommitUnit ==
    ASSUME NEW i \in Int, NEW j \in Int
    PROVE  Commit(i, j) \in Units
  BY Generators, LawsOfExponents DEF GroupLaws, Commit

\* The product of two commitments commits to the sum of their numbers.
LEMMA CommitTimes ==
    ASSUME NEW i \in Int, NEW j \in Int, NEW k \in Int, NEW n \in Int
    PROVE  Times(Commit(i, j), Commit(k, n)) = Commit(i + k, j + n)
  <1> DEFINE gi == ModPow(g, i)
             gk == ModPow(g, k)
             hj == ModPow(h, j)
             hn == ModPow(h, n)
  <1>1. gi \in Units /\ gk \in Units /\ hj \in Units /\ hn \in Units
    BY Generators, LawsOfExponents DEF GroupLaws
  <1>2. Commit(i + k, j + n) = Times(Times(gi, gk), Times(hj, hn))
    BY Generators, LawsOfExponents DEF GroupLaws, Commit
  <1>3. Times(Commit(i, j), Commit(k, n)) = Times(Times(gi, hj), Times(gk, hn))
    BY DEF Commit
  <1> HIDE DEF gi, gk, hj, hn
  <1>4. /\ \A x, y \in Units : Times(x, y) \in Units /\ Times(x, y) = Times(y, x)
        /\ \A x, y, z \in Units : Times(Times(x, y), z) = Times(x, Times(y, z))
    BY LawsOfExponents DEF GroupLaws
  <1>5. Times(Times(gi, hj), Times(gk, hn)) = Times(gi, Times(Times(hj, gk), hn))
    BY <1>1, <1>4
  <1>6. Times(Times(gi, gk), Times(hj, hn)) = Times(gi, Times(Times(gk, hj), hn))
    BY <1>1, <1>4
  <1>7. Times(hj, gk) = Times(gk, hj)
    BY <1>1, <1>4
  <1> QED BY <1>2, <1>3, <1>5, <1>6, <1>7

\* A power of a commitment commits to the multiple of its number.
LEMMA CommitPower ==
    ASSUME NEW i \in Int, NEW j \in Int, NEW k \in Int
    PROVE  ModPow(Commit(i, j), k) = Commit(i * k, j * k)
  <1>1. ModPow(g, i) \in Units /\ ModPow(h, j) \in Units
    BY Generators, LawsOfExponents DEF GroupLaws
  <1>2. ModPow(Commit(i, j), k) = Times(ModPow(ModPow(g, i), k), ModPow(ModPow(h, j), k))
    BY <1>1, LawsOfExponents DEF GroupLaws, Commit
  <1>3. \A x \in Units, e, f \in Int : ModPow(x, e * f) = ModPow(ModPow(x, e), f)
    BY LawsOfExponents DEF GroupLaws
  <1>4. /\ ModPow(g, i * k) = ModPow(ModPow(g, i), k)
        /\ ModPow(h, j * k) = ModPow(ModPow(h, j), k)
    BY <1>3, Generators
  <1> QED BY <1>2, <1>4 DEF Commit

\* A power of either generator is a commitment.
LEMMA PowerIsCommit ==
    ASSUME NEW i \in Int
    PROVE  ModPow(g, i) = Commit(i, 0) /\ ModPow(h, i) = Commit(0, i) /\ g = Commit(1, 0)
  <1>0. \A x \in Units, e \in Int : ModPow(x, e) \in Units
    BY LawsOfExponents DEF GroupLaws
  <1>1. ModPow(g, i) \in Units /\ ModPow(h, i) \in Units /\ ModPow(g, 0) \in Units
    BY <1>0, Generators
  <1>2. Times(ModPow(g, i), ModPow(h, 0)) = ModPow(g, i)
    BY <1>1, Generators, LawsOfExponents DEF GroupLaws
  <1>3. Times(ModPow(h, i), ModPow(g, 0)) = ModPow(h, i)
    BY <1>1, Generators, LawsOfExponents DEF GroupLaws
  <1>4. Times(ModPow(h, i), ModPow(g, 0)) = Times(ModPow(g, 0), ModPow(h, i))
    BY <1>1, LawsOfExponents DEF GroupLaws
  <1>5. Times(ModPow(g, 1), ModPow(h, 0)) = g
    BY Generators, LawsOfExponents DEF GroupLaws
  <1> QED BY <1>2, <1>3, <1>4, <1>5 DEF Commit

\* The quotient of two commitments commits to the difference.
LEMMA CommitDivide ==
    ASSUME NEW i \in Int, NEW j \in Int, NEW k \in Int, NEW n \in Int
    PROVE  DivMod(Commit(i, j), Commit(k, n)) = Commit(i - k, j - n)
  <1>1. ModInverse(Commit(k, n)) = ModPow(Commit(k, n), -1)
    BY CommitUnit, LawsOfExponents DEF GroupLaws
  <1>2. ModPow(Commit(k, n), -1) = Commit(k * (-1), n * (-1))
    BY CommitPower
  <1>3. k * (-1) = -k /\ n * (-1) = -n
    OBVIOUS
  <1>4. Times(Commit(i, j), Commit(-k, -n)) = Commit(i + (-k), j + (-n))
    BY CommitTimes
  <1>5. i + (-k) = i - k /\ j + (-n) = j - n
    OBVIOUS
  <1> QED BY <1>1, <1>2, <1>3, <1>4, <1>5 DEF DivMod

\* What the verifier recomputes, in terms of exponents.
LEMMA OpeningIsCommit ==
    ASSUME NEW base, NEW D, NEW D1 \in Int, NEW E, NEW c,
           NEW p \in Int, NEW q \in Int, NEW i \in Int, NEW j \in Int,
           ModPow(base, D) = Commit(p, q), ModPow(E, -c) = Commit(i, j)
    PROVE  Opening(base, D, D1, E, c) = Commit(p + i, q + D1 + j)
  <1>1. ModPow(h, D1) = Commit(0, D1)
    BY PowerIsCommit
  <1>2. Times(Commit(p, q), Commit(0, D1)) = Commit(p, q + D1)
    <2>1. Times(Commit(p, q), Commit(0, D1)) = Commit(p + 0, q + D1)
      BY CommitTimes
    <2>2. p + 0 = p
      OBVIOUS
    <2> QED BY <2>1, <2>2
  <1>3. Times(Commit(p, q + D1), Commit(i, j)) = Commit(p + i, q + D1 + j)
    <2>1. q + D1 \in Int
      OBVIOUS
    <2> QED BY <2>1, CommitTimes
  <1> QED BY <1>1, <1>2, <1>3 DEF Opening

\* The same for the base g.
LEMMA OpeningOfG ==
    ASSUME NEW i \in Int, NEW j \in Int,
           NEW D \in Int, NEW D1 \in Int, NEW c \in Int, NEW u \in Int, NEW v \in Int,
           u = D - c * i, v = D1 - c * j
    PROVE  Opening(g, D, D1, Commit(i, j), c) = Commit(u, v)
  <1> DEFINE ic == i * (-c)
             jc == j * (-c)
  <1>1. ModPow(g, D) = Commit(D, 0)
    BY PowerIsCommit
  <1>2. ModPow(Commit(i, j), -c) = Commit(ic, jc) /\ ic \in Int /\ jc \in Int
    BY CommitPower
  <1>3. D + ic = u /\ 0 + D1 + jc = v
    OBVIOUS
  <1> HIDE DEF ic, jc
  <1>4. Opening(g, D, D1, Commit(i, j), c) = Commit(D + ic, 0 + D1 + jc)
    BY <1>1, <1>2, OpeningIsCommit
  <1> QED BY <1>3, <1>4

-----------------------------------------------------------------------------
(* Each sub-proof the prover builds is accepted by its validator.          *)

\* Residues are never 0: the zero checks of the Java validator do not fire.
LEMMA UnitNotZero ==
    ASSUME NEW x \in Units
    PROVE  x # 0 /\ x \in Nat
  BY Generators DEF Units

\* HPAKESquare and HPAKEEqualityConstraint: prover and validator hash the same
\* two numbers, because E = F^x h^r3 and the challenge cancels.
LEMMA SquareAccepted ==
    ASSUME NEW x \in Int, NEW r1 \in Int, NEW r2 \in Int,
           NEW w \in Int, NEW n1 \in Int, NEW n2 \in Int
    PROVE  /\ JavaValidateSquare(Commit(x * x, r1), SquareProof(x, r1, r2, w, n1, n2))
           /\ SquareProof(x, r1, r2, w, n1, n2) \in SquareProofs
           /\ SquareProof(x, r1, r2, w, n1, n2).F \in Units
  <1> DEFINE r3 == r1 - r2 * x
             F == Commit(x, r2)
             c == Hash2(Commit(w, n1), Times(ModPow(F, w), ModPow(h, n2)))
             D == w + c * x
             D1 == n1 + c * r2
             D2 == n2 + c * r3
             E == Commit(x * x, r1)
  <1>1. SquareProof(x, r1, r2, w, n1, n2)
          = [F |-> F, c |-> c, D |-> D, D1 |-> D1, D2 |-> D2]
    BY DEF SquareProof
  <1>2. x * x \in Int /\ r3 \in Int /\ r2 * x \in Int /\ x * w \in Int /\ r2 * w \in Int
    OBVIOUS
  <1>3. F \in Units /\ E \in Units
    BY <1>2, CommitUnit
  <1>4. ModPow(F, w) = Commit(x * w, r2 * w) /\ ModPow(h, n2) = Commit(0, n2)
    BY CommitPower, PowerIsCommit
  <1>5. Times(ModPow(F, w), ModPow(h, n2)) = Commit(x * w, r2 * w + n2)
    <2>1. Times(Commit(x * w, r2 * w), Commit(0, n2)) = Commit(x * w + 0, r2 * w + n2)
      BY <1>2, CommitTimes
    <2>2. x * w + 0 = x * w
      BY <1>2
    <2> QED BY <1>4, <2>1, <2>2
  <1>6. Commit(w, n1) \in Units /\ Times(ModPow(F, w), ModPow(h, n2)) \in Units
    BY <1>2, <1>5, CommitUnit
  <1>7. c \in Int
    BY <1>6, HashesAreIntegers
  <1> HIDE DEF c
  <1>8. D \in Int /\ D1 \in Int /\ D2 \in Int /\ 1 * D \in Int /\ 0 * D \in Int
    BY <1>2, <1>7
  <1>9. Opening(g, D, D1, F, c) = Commit(w, n1)
    <2>1. w = D - c * x /\ n1 = D1 - c * r2
      BY <1>7
    <2> HIDE DEF D, D1
    <2> QED BY <1>7, <1>8, <2>1, OpeningOfG
  <1>10. Opening(F, D, D2, E, c) = Commit(x * w, r2 * w + n2)
    <2> DEFINE xD == x * D
               rD == r2 * D
               xc == (x * x) * (-c)
               rc == r1 * (-c)
    <2>1. xD + xc = x * w
      BY <1>7
    <2>2. rD + D2 + rc = r2 * w + n2
      BY <1>7
    <2>3. xD \in Int /\ rD \in Int /\ xc \in Int /\ rc \in Int
      BY <1>2, <1>7, <1>8
    <2>4. ModPow(F, D) = Commit(xD, rD)
      <3> HIDE DEF D
      <3> QED BY <1>8, CommitPower
    <2>5. ModPow(E, -c) = Commit(xc, rc)
      <3>1. -c \in Int
        BY <1>7
      <3> QED BY <3>1, <1>2, CommitPower
    <2> HIDE DEF D, D2, F, E, xD, rD, xc, rc
    <2>6. Opening(F, D, D2, E, c) = Commit(xD + xc, rD + D2 + rc)
      BY <1>8, <2>3, <2>4, <2>5, OpeningIsCommit
    <2> QED BY <2>1, <2>2, <2>6
  <1>11. c = Hash2(Opening(g, D, D1, F, c), Opening(F, D, D2, E, c))
    BY <1>5, <1>9, <1>10 DEF c
  <1>12. F # 0 /\ E # 0 /\ F \in Nat
    BY <1>3, UnitNotZero
  <1> HIDE DEF F, E, D, D1, D2
  <1>13. JavaValidateSquare(E, [F |-> F, c |-> c, D |-> D, D1 |-> D1, D2 |-> D2])
    BY <1>11, <1>12 DEF JavaValidateSquare, JavaValidateEquality
  <1>14. JavaValidateSquare(Commit(x * x, r1), SquareProof(x, r1, r2, w, n1, n2))
    BY <1>1, <1>13 DEF E
  <1> QED BY <1>1, <1>3, <1>7, <1>8, <1>12, <1>14 DEF SquareProofs

\* CFT: an attempt the loop keeps is accepted for the commitment it is about.
LEMMA CFTAccepted ==
    ASSUME NEW x \in Int, NEW rx \in Int, NEW w \in Int, NEW n \in Int,
           NEW bound,
           IsValidD1(CFTProof(x, rx, w, n).D1, CFTProof(x, rx, w, n).C % 2^t, bound)
    PROVE  JavaValidateCFT(bound, Commit(x, rx), CFTProof(x, rx, w, n))
  <1> DEFINE C == Hash1(Commit(w, n))
             c == C % 2^t
             D1 == w + c * x
             D2 == n + c * rx
  <1>1. CFTProof(x, rx, w, n) = [C |-> C, D1 |-> D1, D2 |-> D2]
    BY DEF CFTProof
  <1>2. C \in Int
    BY CommitUnit, HashesAreIntegers
  <1>3. c \in Int
    BY <1>2, PowersOfTwo
  <1> HIDE DEF c
  <1>4. D1 \in Int /\ D2 \in Int
    BY <1>3
  <1>5. Opening(g, D1, D2, Commit(x, rx), c) = Commit(w, n)
    <2>1. w = D1 - c * x /\ n = D2 - c * rx
      BY <1>3
    <2> HIDE DEF D1, D2
    <2> QED BY <1>3, <1>4, <2>1, OpeningOfG
  <1>6. Commit(x, rx) # 0
    BY CommitUnit, UnitNotZero
  <1>7. CFTProof(x, rx, w, n).C = C /\ CFTProof(x, rx, w, n).D1 = D1
          /\ CFTProof(x, rx, w, n).D2 = D2
    BY <1>1
  <1>8. CFTProof(x, rx, w, n).C % 2^t = c
    BY <1>7 DEF c
  <1>9. C = Hash1(Opening(g, D1, D2, Commit(x, rx), c))
    BY <1>5
  <1> HIDE DEF C, D1, D2
  <1> QED BY <1>6, <1>7, <1>8, <1>9 DEF JavaValidateCFT

-----------------------------------------------------------------------------
(* The remainders fit, and the retry loop can end.                         *)

\* What is left of d after its largest square is at most 2 sqrt(W) for W >= d.
LEMMA RemainderBound ==
    ASSUME NEW d \in Nat, NEW W \in Nat, d <= W, NEW k, IsFloorRoot(k, d),
           NEW f, IsFloorRoot(f, 4 * W)
    PROVE  d - k * k \in 0..f
  <1>1. k \in Nat /\ k * k <= d /\ d < (k + 1) * (k + 1) /\ f \in Nat
    BY DEF IsFloorRoot
  <1>2. 4 * W < (f + 1) * (f + 1)
    BY DEF IsFloorRoot
  <1>3. d - k * k <= 2 * k
    BY <1>1
  <1>4. (2 * k) * (2 * k) < (f + 1) * (f + 1)
    BY <1>1, <1>2
  <1>5. 2 * k < f + 1
    <2>1. SUFFICES ASSUME 2 * k >= f + 1 PROVE FALSE
      BY <1>1
    <2> DEFINE u == 2 * k
               v == f + 1
    <2>2. u \in Nat /\ v \in Nat /\ u >= v
      BY <1>1, <2>1
    <2>3. u * u < v * v
      BY <1>4
    <2> HIDE DEF u, v
    <2>4. u * u >= v * u /\ v * u >= v * v
      BY <2>2
    <2> QED BY <2>2, <2>3, <2>4
  <1> QED BY <1>1, <1>3, <1>5

\* With w = 2^t f, D1 = w + cx is in [cf, 2^(t+l) f] whatever c is.
LEMMA SafeDraw ==
    ASSUME NEW f \in Nat, NEW x \in 0..f
    PROVE  \E w \in 0..(2^(t + l) * f) : \A c \in 0..(2^t - 1) : IsValidD1(w + c * x, c, f)
  <1> DEFINE T == 2^t
             L == 2^(t + l)
  <1>1. T \in Nat /\ T >= 1 /\ L \in Nat /\ L >= 2 * T
    BY PowersOfTwo
  <1> HIDE DEF T, L
  <1>2. T * f \in Nat /\ L * f \in Nat /\ L * f >= (2 * T) * f
    BY <1>1
  <1>3. T * f \in 0..(L * f)
    BY <1>1, <1>2
  <1>4. ASSUME NEW c \in 0..(T - 1)
        PROVE  c * f <= T * f + c * x /\ T * f + c * x <= L * f
    <2>1. c \in Nat /\ c <= T
      BY <1>1
    <2>2. c * f <= T * f /\ c * x >= 0 /\ c * x \in Nat
      BY <1>1, <2>1
    <2>3. c * x <= c * f
      BY <2>1
    <2> QED BY <1>1, <1>2, <2>1, <2>2, <2>3
  <1>5. \A c \in 0..(T - 1) : IsValidD1(T * f + c * x, c, f)
    BY <1>4 DEF IsValidD1, L
  <1> QED BY <1>3, <1>5 DEF T, L

\* The stages of calculateRangeProof that follow BeginProof.
Proving == Stages \ {"idle", "requested", "refused"}

\* What holds of the prover's locals, whatever the group.
LocalsInv ==
    /\ range \in Ranges
    /\ stage \in Stages
    /\ stage # "idle" => ttp.x \in Secrets /\ ttp.y \in Int
    /\ stage \in Proving =>
         /\ Contains(range, ttp.x)
         /\ root = [side \in Sides |-> FloorRoot(Distance[side])]
         /\ key.left \in Int /\ key.right \in Int
    /\ stage # "thrown"

\* The secret is in the range, so both distances are natural numbers, at most
\* the width of the range, and they and the width have roots.
LEMMA Distances ==
    ASSUME range \in Ranges, ttp.x \in Secrets, Contains(range, ttp.x)
    PROVE  /\ aScaled \in Int /\ bScaled \in Int /\ mScaled \in Int
           /\ bScaled - aScaled \in Nat
           /\ IsFloorRoot(CFTMax, 4 * (bScaled - aScaled))
           /\ SQMaxToHide \in Nat
           /\ \A side \in Sides : /\ Distance[side] \in Nat
                                  /\ Distance[side] <= bScaled - aScaled
                                  /\ IsFloorRoot(FloorRoot(Distance[side]), Distance[side])
  <1> DEFINE k == Scale(range)
             x == ttp.x
             lo == range.lo
             hi == range.hi
  <1>1. k \in Nat /\ k >= 1
    BY ScaleIsPositive
  <1>2. lo \in Int /\ hi \in Int /\ x \in Int /\ lo <= x /\ x <= hi
    BY RangesAreClosed, SecretsAreIntegers DEF Contains
  <1>3. \A d \in Nat : \E e \in 0..d : IsFloorRoot(e, d)
    BY RootExists
  <1> HIDE DEF k, x, lo, hi
  <1>4. /\ k * (x - lo) \in Nat /\ k * (hi - x) \in Nat /\ k * (hi - lo) \in Nat
        /\ k * (x - lo) <= k * (hi - lo) /\ k * (hi - x) <= k * (hi - lo)
    BY <1>1, <1>2
  <1>5. /\ k * x - k * lo = k * (x - lo) /\ k * hi - k * x = k * (hi - x)
        /\ k * hi - k * lo = k * (hi - lo)
        /\ k * x \in Int /\ k * lo \in Int /\ k * hi \in Int
    BY <1>1, <1>2
  <1>6. \A d \in {k * (x - lo), k * (hi - x), 4 * (k * (hi - lo)), k * (hi - lo)} :
           IsFloorRoot(FloorRoot(d), d)
    <2>1. SUFFICES ASSUME NEW d \in {k * (x - lo), k * (hi - x), 4 * (k * (hi - lo)), k * (hi - lo)}
                   PROVE  IsFloorRoot(FloorRoot(d), d)
      OBVIOUS
    <2>2. d >= 0
      BY <1>4
    <2>3. \E e \in 0..d : IsFloorRoot(e, d)
      BY <1>3, <2>2
    <2> QED BY <2>3 DEF FloorRoot
  <1>7. /\ mScaled - aScaled = k * (x - lo) /\ bScaled - mScaled = k * (hi - x)
        /\ bScaled - aScaled = k * (hi - lo)
        /\ aScaled \in Int /\ bScaled \in Int /\ mScaled \in Int
    BY <1>5 DEF mScaled, aScaled, bScaled, k, x, lo, hi
  <1>8. Distance["left"] = k * (x - lo) /\ Distance["right"] = k * (hi - x)
    BY <1>7 DEF Distance
  <1>9. IsFloorRoot(CFTMax, 4 * (bScaled - aScaled))
    BY <1>6, <1>7 DEF CFTMax, CFTMaxCommitment
  <1>10. SQMaxToHide \in Nat
    BY <1>6, <1>7 DEF SQMaxToHide, IsFloorRoot
  <1>11. \A side \in Sides : /\ Distance[side] \in Nat
                             /\ Distance[side] <= bScaled - aScaled
                             /\ IsFloorRoot(FloorRoot(Distance[side]), Distance[side])
    BY <1>4, <1>6, <1>7, <1>8 DEF Sides
  <1> QED BY <1>4, <1>7, <1>9, <1>10, <1>11

\* ... and hence what is left of a distance is within the CFT bound.
LEMMA RemainingBounded ==
    ASSUME LocalsInv, stage \in Proving, NEW side \in Sides
    PROVE  CFTMax \in Nat /\ Remaining[side] \in 0..CFTMax
  <1>1. range \in Ranges /\ ttp.x \in Secrets /\ Contains(range, ttp.x)
    BY DEF LocalsInv, Proving
  <1>2. /\ bScaled - aScaled \in Nat /\ IsFloorRoot(CFTMax, 4 * (bScaled - aScaled))
        /\ Distance[side] \in Nat /\ Distance[side] <= bScaled - aScaled
        /\ IsFloorRoot(FloorRoot(Distance[side]), Distance[side])
    BY <1>1, Distances
  <1>3. root[side] = FloorRoot(Distance[side])
    BY DEF LocalsInv
  <1>4. Remaining[side] = Distance[side] - FloorRoot(Distance[side]) * FloorRoot(Distance[side])
    BY <1>3 DEF Remaining
  <1>5. Distance[side] - FloorRoot(Distance[side]) * FloorRoot(Distance[side]) \in 0..CFTMax
    BY <1>2, RemainderBound
  <1> QED BY <1>2, <1>4, <1>5 DEF IsFloorRoot

\* The locals of the prover depend on these variables only.
LEMMA SameLocals ==
    ASSUME ttp' = ttp, range' = range, root' = root, key' = key
    PROVE  /\ Distance' = Distance /\ Remaining' = Remaining
           /\ RemainingKey' = RemainingKey /\ CFTMax' = CFTMax
           /\ Contains(range, ttp.x)' = Contains(range, ttp.x)
  BY DEF Distance, Remaining, RemainingKey, CFTMax, Contains,
         mScaled, rScaled, aScaled, bScaled

\* Before the first request nothing is computed yet.
LEMMA LocalsInit == Init => LocalsInv
  BY DEF Init, LocalsInv, Stages, Proving

\* The draws are integers.
LEMMA DrawsAreIntegers ==
    ASSUME NEW kind, NEW lo \in Int, NEW hi \in Int
    PROVE  Draws(kind, lo, hi) \subseteq Int
  BY DEF Draws

\* A number in 0..f is an integer and not above f.
LEMMA InInterval ==
    ASSUME NEW f \in Nat, NEW x \in 0..f
    PROVE  x \in Int /\ ~(x > f)
  OBVIOUS

\* The square of an integer is an integer.
LEMMA SquareIsInteger ==
    ASSUME NEW x \in Nat
    PROVE  x * x \in Int
  OBVIOUS

\* The bounds of the draws in the square and CFT proofs are integers.
LEMMA DrawBounds ==
    ASSUME NEW f \in Nat
    PROVE  /\ 0 \in Int /\ 1 \in Int
           /\ 2^(t + l) * f \in Int /\ 2^(t + l) * f - 1 \in Int
           /\ 2^(t + l + s) * N - 1 \in Int /\ -(2^(t + l + s) * N - 1) \in Int
  <1> DEFINE L == 2^(t + l)
             S == 2^(t + l + s)
  <1>1. L \in Nat /\ S \in Nat
    BY PowersOfTwo
  <1> HIDE DEF L, S
  <1>2. L * f \in Int /\ L * f - 1 \in Int /\ S * N - 1 \in Int /\ -(S * N - 1) \in Int
    BY <1>1, Generators
  <1> QED BY <1>2 DEF L, S

\* Commitment keys are integers.
LEMMA KeyDrawsAreIntegers ==
    ASSUME NEW kind
    PROVE  KeyDraws(kind) \subseteq Int
  <1> DEFINE S == 2^s
  <1>1. S \in Nat
    BY PowersOfTwo
  <1> HIDE DEF S
  <1>2. -(S * N - 1) \in Int /\ S * N - 1 \in Int
    BY <1>1, Generators
  <1> QED BY <1>2, DrawsAreIntegers DEF KeyDraws, S

\* One step per action; the interesting one is AttemptCFT, which must not throw.
LEMMA LocalsNext == LocalsInv /\ [Next]_vars => LocalsInv'
  <1> SUFFICES ASSUME LocalsInv, [Next]_vars PROVE LocalsInv'
    OBVIOUS
  <1>1. CASE GenerateTTPMessage
    <2>1. PICK x \in Secrets, y \in KeyDraws("commitment key") :
            ttp' = [c |-> Commit(x, y), x |-> x, y |-> y]
      BY <1>1 DEF GenerateTTPMessage
    <2>2. y \in Int
      BY KeyDrawsAreIntegers
    <2>3. ttp'.x \in Secrets /\ ttp'.y \in Int
      BY <2>1, <2>2
    <2>4. stage' = "requested" /\ range' = range
      BY <1>1 DEF GenerateTTPMessage
    <2> QED BY <2>3, <2>4 DEF LocalsInv, Stages, Proving
  <1>2. CASE RefuseRange
    BY <1>2 DEF RefuseRange, LocalsInv, Stages, Proving
  <1>3. CASE BeginProof
    <2>1. PICK randomLS \in KeyDraws("square key"), randomRS \in KeyDraws("square key") :
            key' = [left |-> randomLS, right |-> randomRS]
      BY <1>3 DEF BeginProof
    <2>2. key'.left \in Int /\ key'.right \in Int
      BY <2>1, KeyDrawsAreIntegers
    <2>3. /\ stage = "requested" /\ stage' = "sqrLeft" /\ Contains(range, ttp.x)
          /\ ttp' = ttp /\ range' = range
          /\ root' = [side \in Sides |-> FloorRoot(Distance[side])]
      BY <1>3 DEF BeginProof
    <2>4. Distance' = Distance /\ Contains(range, ttp.x)'
      BY <2>3 DEF Distance, mScaled, aScaled, bScaled, Contains
    <2> QED BY <2>2, <2>3, <2>4 DEF LocalsInv, Stages, Proving
  <1>4. ASSUME NEW side, NEW field \in {"sqrLeft", "sqrRight"},
               NEW next \in Proving \ {"thrown"}, ProveSquare(side, field, next)
        PROVE  LocalsInv'
    <2>1. /\ ttp' = ttp /\ range' = range /\ root' = root /\ key' = key
          /\ stage = field /\ stage' = next
      BY <1>4 DEF ProveSquare
    <2>2. stage \in Proving /\ stage' \in Proving
      BY <2>1 DEF Proving, Stages
    <2> QED BY <2>1, <2>2, SameLocals DEF LocalsInv, Proving, Stages
  <1>5. ASSUME NEW side \in Sides, NEW field \in {"cftLeft", "cftRight"},
               NEW next \in Proving \ {"thrown"}, AttemptCFT(side, field, next)
        PROVE  LocalsInv'
    <2>1. /\ ttp' = ttp /\ range' = range /\ root' = root /\ key' = key /\ stage = field
      BY <1>5 DEF AttemptCFT
    <2>2. stage \in Proving
      BY <2>1 DEF Proving, Stages
    <2>3. CFTMax \in Nat /\ Remaining[side] \in 0..CFTMax
      BY <2>2, RemainingBounded
    <2>4. ~(Remaining[side] > CFTMax)
      BY <2>3
    <2>5. stage' \in {stage, next}
      BY <1>5, <2>4 DEF AttemptCFT
    <2> QED BY <2>1, <2>2, <2>5, SameLocals DEF LocalsInv, Proving, Stages
  <1>6. CASE SelfValidate
    BY <1>6, SameLocals DEF SelfValidate, LocalsInv, Stages, Proving
  <1>7. CASE ParseArrays
    BY <1>7, SameLocals DEF ParseArrays, LocalsInv, Stages, Proving
  <1>8. ASSUME NEW asked \in Ranges, CallValidateRangeProof(asked)
        PROVE  LocalsInv'
    BY <1>8, SameLocals DEF CallValidateRangeProof, LocalsInv, Stages, Proving
  <1>9. CASE UNCHANGED vars
    BY <1>9, SameLocals DEF vars, LocalsInv
  <1>10. /\ "sqrRight" \in Proving \ {"thrown"} /\ "cftLeft" \in Proving \ {"thrown"}
         /\ "cftRight" \in Proving \ {"thrown"} /\ "self check" \in Proving \ {"thrown"}
         /\ "left" \in Sides /\ "right" \in Sides
    BY DEF Proving, Stages, Sides
  <1>11. CASE ProveSquare("left", "sqrLeft", "sqrRight")
    BY <1>4, <1>10, <1>11
  <1>12. CASE ProveSquare("right", "sqrRight", "cftLeft")
    BY <1>4, <1>10, <1>12
  <1>13. CASE AttemptCFT("left", "cftLeft", "cftRight")
    BY <1>5, <1>10, <1>13
  <1>14. CASE AttemptCFT("right", "cftRight", "self check")
    BY <1>5, <1>10, <1>14
  <1> QED
    BY <1>1, <1>2, <1>3, <1>6, <1>7, <1>8, <1>9, <1>11, <1>12, <1>13, <1>14 DEF Next

\* The locals of the prover satisfy their invariant in every reachable state.
LEMMA AlwaysLocals == Spec => []LocalsInv
  BY LocalsInit, LocalsNext, PTL DEF Spec

\* For all parameters: CFT.calculateProof is never asked to hide a number above
\* its bound.
THEOREM RemainderAlwaysFits == Spec => []RemainderFits
  <1>1. LocalsInv => RemainderFits
    BY DEF LocalsInv, RemainderFits
  <1> QED BY <1>1, AlwaysLocals, PTL

\* For all parameters: the retry loop of CFT.calculateProof can always end.
THEOREM RetryCanAlwaysSucceed == Spec => []RetryCanSucceed
  <1>1. LocalsInv => RetryCanSucceed
    <2> SUFFICES ASSUME LocalsInv, NEW side \in Sides,
                        stage \in {"cftLeft", "cftRight"}
                 PROVE  \E w \in 0..(2^(t + l) * CFTMax) : \A c \in 0..(2^t - 1) :
                          IsValidD1(w + c * Remaining[side], c, CFTMax)
      BY DEF RetryCanSucceed
    <2>1. CFTMax \in Nat /\ Remaining[side] \in 0..CFTMax
      BY RemainingBounded DEF Proving, Stages
    <2> QED BY <2>1, SafeDraw
  <1> QED BY <1>1, AlwaysLocals, PTL

-----------------------------------------------------------------------------
(* Completeness.                                                           *)

AfterSqrLeft == Proving \ {"sqrLeft"}
AfterSqrRight == AfterSqrLeft \ {"sqrRight"}
AfterCFTLeft == AfterSqrRight \ {"cftLeft"}
AfterCFTRight == AfterCFTLeft \ {"cftRight"}

\* Every part of the proof is valid from the moment it is built, for the
\* commitment its validator will derive.
ProofInv ==
    /\ proof \in Proofs
    /\ stage # "idle" => ttp.c = Commit(ttp.x, ttp.y)
    /\ stage \in Proving =>
         /\ proof.cLeftSquare = Commit(root["left"] * root["left"], key["left"])
         /\ proof.cRightSquare = Commit(root["right"] * root["right"], key["right"])
    /\ stage \in AfterSqrLeft =>
         /\ JavaValidateSquare(proof.cLeftSquare, proof.sqrLeft)
         /\ proof.sqrLeft.F \in Units
    /\ stage \in AfterSqrRight =>
         /\ JavaValidateSquare(proof.cRightSquare, proof.sqrRight)
         /\ proof.sqrRight.F \in Units
    /\ stage \in AfterCFTLeft =>
         JavaValidateCFT(CFTMax, Commit(Remaining["left"], RemainingKey["left"]), proof.cftLeft)
    /\ stage \in AfterCFTRight =>
         JavaValidateCFT(CFTMax, Commit(Remaining["right"], RemainingKey["right"]), proof.cftRight)
    /\ stage # "rejected"

\* Scaled numbers and roots are integers.
LEMMA LocalsAreIntegers ==
    ASSUME LocalsInv, stage \in Proving
    PROVE  /\ mScaled \in Int /\ rScaled \in Int /\ aScaled \in Int /\ bScaled \in Int
           /\ \A side \in Sides : /\ root[side] \in Nat /\ key[side] \in Int
                                  /\ root[side] * root[side] \in Int
                                  /\ Remaining[side] \in Int /\ RemainingKey[side] \in Int
  <1>1. /\ range \in Ranges /\ ttp.x \in Secrets /\ ttp.y \in Int /\ Contains(range, ttp.x)
        /\ root = [side \in Sides |-> FloorRoot(Distance[side])]
        /\ key["left"] \in Int /\ key["right"] \in Int
    BY DEF LocalsInv, Proving
  <1>2. mScaled \in Int /\ aScaled \in Int /\ bScaled \in Int
    BY <1>1, Distances
  <1>3. rScaled \in Int
    <2>1. Scale(range) \in Nat
      BY <1>1, ScaleIsPositive
    <2> QED BY <1>1, <2>1 DEF rScaled
  <1>4. \A side \in Sides : root[side] \in Nat
    BY <1>1, Distances DEF IsFloorRoot
  <1>5. \A side \in Sides : Remaining[side] \in Int
    BY RemainingBounded
  <1>6. \A side \in Sides : key[side] \in Int /\ RemainingKey[side] \in Int
    BY <1>1, <1>3 DEF Sides, RemainingKey
  <1> QED BY <1>2, <1>3, <1>4, <1>5, <1>6

\* The validator derives, from the commitment alone, the very commitments the
\* CFT proofs are about; so the server's validation of its own proof succeeds.
LEMMA OwnProofAccepted ==
    ASSUME LocalsInv, ProofInv, stage \in AfterCFTRight
    PROVE  JavaValidate(proof, ttp.c, range)
  <1> DEFINE k == Scale(range)
             rootL == root["left"] * root["left"]
             rootR == root["right"] * root["right"]
             c == ModPow(ttp.c, k)
             cLeft == DivMod(c, ModPow(g, range.lo * k))
             cRight == DivMod(ModPow(g, range.hi * k), c)
  <1>1. stage \in Proving /\ stage # "idle" /\ stage \in AfterSqrLeft
          /\ stage \in AfterSqrRight /\ stage \in AfterCFTLeft
    BY DEF AfterCFTRight, AfterCFTLeft, AfterSqrRight, AfterSqrLeft, Proving
  <1>2. /\ mScaled \in Int /\ rScaled \in Int /\ aScaled \in Int /\ bScaled \in Int
        /\ rootL \in Int /\ rootR \in Int /\ key["left"] \in Int /\ key["right"] \in Int
    BY <1>1, LocalsAreIntegers DEF Sides
  <1>3. ttp.x \in Int /\ ttp.y \in Int /\ range.lo \in Int /\ range.hi \in Int /\ k \in Int
    <2>1. ttp.x \in Secrets /\ ttp.y \in Int /\ range \in Ranges
      BY <1>1 DEF LocalsInv
    <2>2. ttp.x \in Int
      BY <2>1, SecretsAreIntegers
    <2>3. range.lo \in Int /\ range.hi \in Int
      BY <2>1, RangesAreClosed
    <2>4. k \in Int
      BY <2>1, ScaleIsPositive
    <2> QED BY <2>1, <2>2, <2>3, <2>4
  <1>4. range.lo * k = aScaled /\ range.hi * k = bScaled
          /\ ttp.x * k = mScaled /\ ttp.y * k = rScaled
    BY <1>3 DEF aScaled, bScaled, mScaled, rScaled
  <1>5. c = Commit(mScaled, rScaled)
    <2>1. ttp.c = Commit(ttp.x, ttp.y)
      BY <1>1 DEF ProofInv
    <2> HIDE DEF k
    <2>2. ModPow(Commit(ttp.x, ttp.y), k) = Commit(ttp.x * k, ttp.y * k)
      BY <1>3, CommitPower
    <2> QED BY <1>4, <2>1, <2>2
  <1>6. ModPow(g, range.lo * k) = Commit(aScaled, 0)
          /\ ModPow(g, range.hi * k) = Commit(bScaled, 0)
    BY <1>2, <1>4, PowerIsCommit
  <1> DEFINE dL == mScaled - aScaled
             dR == bScaled - mScaled
             kR == -rScaled
  <1>7. dL \in Int /\ dR \in Int /\ kR \in Int
    BY <1>2
  <1>8. cLeft = Commit(dL, rScaled)
    <2>1. DivMod(Commit(mScaled, rScaled), Commit(aScaled, 0))
            = Commit(mScaled - aScaled, rScaled - 0)
      BY <1>2, CommitDivide
    <2>2. rScaled - 0 = rScaled
      BY <1>2
    <2> QED BY <1>5, <1>6, <2>1, <2>2
  <1>9. cRight = Commit(dR, kR)
    <2>1. DivMod(Commit(bScaled, 0), Commit(mScaled, rScaled))
            = Commit(bScaled - mScaled, 0 - rScaled)
      BY <1>2, CommitDivide
    <2>2. 0 - rScaled = -rScaled
      BY <1>2
    <2> QED BY <1>5, <1>6, <2>1, <2>2
  <1>10. /\ Remaining["left"] = dL - rootL /\ Remaining["right"] = dR - rootR
         /\ RemainingKey["left"] = rScaled - key["left"]
         /\ RemainingKey["right"] = kR - key["right"]
    BY DEF Remaining, RemainingKey, Distance, Sides
  <1>11. proof.cLeftSquare = Commit(rootL, key["left"])
           /\ proof.cRightSquare = Commit(rootR, key["right"])
    BY <1>1 DEF ProofInv
  <1> HIDE DEF rootL, rootR, dL, dR, kR, cLeft, cRight, c
  <1>12. DivMod(cLeft, proof.cLeftSquare) = Commit(Remaining["left"], RemainingKey["left"])
    <2> DEFINE kL == key["left"]
    <2>1. dL \in Int /\ rScaled \in Int /\ rootL \in Int /\ kL \in Int
      BY <1>2, <1>7
    <2> HIDE DEF kL
    <2>2. DivMod(Commit(dL, rScaled), Commit(rootL, kL)) = Commit(dL - rootL, rScaled - kL)
      BY <2>1, CommitDivide
    <2> QED BY <1>8, <1>10, <1>11, <2>2 DEF kL
  <1>13. DivMod(cRight, proof.cRightSquare) = Commit(Remaining["right"], RemainingKey["right"])
    <2> DEFINE kSR == key["right"]
    <2>1. dR \in Int /\ kR \in Int /\ rootR \in Int /\ kSR \in Int
      BY <1>2, <1>7
    <2> HIDE DEF kSR
    <2>2. DivMod(Commit(dR, kR), Commit(rootR, kSR)) = Commit(dR - rootR, kR - kSR)
      BY <2>1, CommitDivide
    <2> QED BY <1>9, <1>10, <1>11, <2>2 DEF kSR
  <1>14. c # 0 /\ proof.cLeftSquare # 0 /\ proof.cRightSquare # 0 /\ N # 0
    <2>1. /\ Commit(mScaled, rScaled) \in Units /\ Commit(rootL, key["left"]) \in Units
          /\ Commit(rootR, key["right"]) \in Units
      BY <1>2, CommitUnit
    <2>2. c \in Units /\ proof.cLeftSquare \in Units /\ proof.cRightSquare \in Units
      BY <1>5, <1>11, <2>1
    <2> QED BY <2>2, UnitNotZero, Generators
  <1>15. /\ JavaValidateSquare(proof.cLeftSquare, proof.sqrLeft)
         /\ JavaValidateSquare(proof.cRightSquare, proof.sqrRight)
         /\ JavaValidateCFT(CFTMax, DivMod(cLeft, proof.cLeftSquare), proof.cftLeft)
         /\ JavaValidateCFT(CFTMax, DivMod(cRight, proof.cRightSquare), proof.cftRight)
    BY <1>1, <1>12, <1>13 DEF ProofInv
  <1>16. CFTMax = CFTMaxCommitment(range.lo * k, range.hi * k)
    BY <1>4 DEF CFTMax
  <1> QED BY <1>14, <1>15, <1>16 DEF JavaValidate, JavaValidateTolerance, c, cLeft, cRight

\* The fields of a CFT proof are integers.
LEMMA CFTIsTyped ==
    ASSUME NEW x \in Int, NEW rx \in Int, NEW w \in Int, NEW n \in Int
    PROVE  CFTProof(x, rx, w, n) \in CFTProofs
  <1> DEFINE C == Hash1(Commit(w, n))
             c == C % 2^t
  <1>1. C \in Int
    BY CommitUnit, HashesAreIntegers
  <1>2. c \in Int
    BY <1>1, PowersOfTwo
  <1>3. CFTProof(x, rx, w, n) = [C |-> C, D1 |-> w + c * x, D2 |-> n + c * rx]
    BY DEF CFTProof
  <1> HIDE DEF C, c
  <1>4. w + c * x \in Int /\ n + c * rx \in Int
    BY <1>2
  <1> QED BY <1>1, <1>3, <1>4 DEF CFTProofs

\* The empty proof satisfies the invariant.
LEMMA ProofInit == Init => ProofInv
  BY DEF Init, ProofInv, Proofs, SquareProofs, CFTProofs, NoProof, NoSquareProof, NoCFTProof,
         Proving, Stages, AfterSqrLeft, AfterSqrRight, AfterCFTLeft, AfterCFTRight

\* The invariant depends on these variables only.
LEMMA ProofInvSame ==
    ASSUME ProofInv, proof' = proof, ttp' = ttp, range' = range, root' = root, key' = key,
           stage' # "rejected", stage # "idle",
           stage' \in Proving => stage \in Proving,
           stage' \in AfterSqrLeft => stage \in AfterSqrLeft,
           stage' \in AfterSqrRight => stage \in AfterSqrRight,
           stage' \in AfterCFTLeft => stage \in AfterCFTLeft,
           stage' \in AfterCFTRight => stage \in AfterCFTRight
    PROVE  ProofInv'
  BY SameLocals DEF ProofInv

\* A square proof step fills its field with a proof its validator accepts.
LEMMA SquareStep ==
    ASSUME LocalsInv, ProofInv,
           \/ ProveSquare("left", "sqrLeft", "sqrRight")
           \/ ProveSquare("right", "sqrRight", "cftLeft")
    PROVE  ProofInv'
  <1>1. /\ ttp' = ttp /\ range' = range /\ root' = root /\ key' = key
        /\ stage \in Proving /\ stage # "idle"
    BY DEF ProveSquare, Proving, Stages
  <1>2. \A side \in Sides : root[side] \in Int /\ key[side] \in Int
    BY <1>1, LocalsAreIntegers
  <1>3. SQMaxToHide \in Nat
    BY <1>1, Distances DEF LocalsInv, Proving
  <1>4. /\ Draws("square w", 1, 2^(t + l) * SQMaxToHide - 1) \subseteq Int
        /\ Draws("square n", 1, 2^(t + l + s) * N - 1) \subseteq Int
    BY <1>3, DrawBounds, DrawsAreIntegers
  <1>5. "left" \in Sides /\ "right" \in Sides
    BY DEF Sides
  <1>6. CASE ProveSquare("left", "sqrLeft", "sqrRight")
    <2>1. PICK r2 \in Int, w \in Int, n1 \in Int, n2 \in Int :
            proof' = [proof EXCEPT !["sqrLeft"] =
                        SquareProof(root["left"], key["left"], r2, w, n1, n2)]
      BY <1>4, <1>6, KeyDrawsAreIntegers DEF ProveSquare
    <2> DEFINE sq == SquareProof(root["left"], key["left"], r2, w, n1, n2)
    <2>2. /\ JavaValidateSquare(Commit(root["left"] * root["left"], key["left"]), sq)
          /\ sq \in SquareProofs /\ sq.F \in Units
      BY <1>2, <1>5, SquareAccepted
    <2> HIDE DEF sq
    <2>3. proof' = [proof EXCEPT !["sqrLeft"] = sq]
      BY <2>1 DEF sq
    <2>4. /\ proof' \in Proofs /\ proof'.sqrLeft = sq
          /\ proof'.cLeftSquare = proof.cLeftSquare /\ proof'.cRightSquare = proof.cRightSquare
      BY <2>2, <2>3 DEF ProofInv, Proofs
    <2>5. stage' = "sqrRight"
      BY <1>6 DEF ProveSquare
    <2>6. proof.cLeftSquare = Commit(root["left"] * root["left"], key["left"])
      BY <1>1 DEF ProofInv
    <2> QED BY <1>1, <2>2, <2>4, <2>5, <2>6 DEF ProofInv, Proving, Stages,
              AfterSqrLeft, AfterSqrRight, AfterCFTLeft, AfterCFTRight
  <1>7. CASE ProveSquare("right", "sqrRight", "cftLeft")
    <2>1. PICK r2 \in Int, w \in Int, n1 \in Int, n2 \in Int :
            proof' = [proof EXCEPT !["sqrRight"] =
                        SquareProof(root["right"], key["right"], r2, w, n1, n2)]
      BY <1>4, <1>7, KeyDrawsAreIntegers DEF ProveSquare
    <2> DEFINE sq == SquareProof(root["right"], key["right"], r2, w, n1, n2)
    <2>2. /\ JavaValidateSquare(Commit(root["right"] * root["right"], key["right"]), sq)
          /\ sq \in SquareProofs /\ sq.F \in Units
      BY <1>2, <1>5, SquareAccepted
    <2> HIDE DEF sq
    <2>3. proof' = [proof EXCEPT !["sqrRight"] = sq]
      BY <2>1 DEF sq
    <2>4. /\ proof' \in Proofs /\ proof'.sqrRight = sq /\ proof'.sqrLeft = proof.sqrLeft
          /\ proof'.cLeftSquare = proof.cLeftSquare /\ proof'.cRightSquare = proof.cRightSquare
      BY <2>2, <2>3 DEF ProofInv, Proofs
    <2>5. stage = "sqrRight" /\ stage' = "cftLeft"
      BY <1>7 DEF ProveSquare
    <2>6. proof.cRightSquare = Commit(root["right"] * root["right"], key["right"])
      BY <1>1 DEF ProofInv
    <2> QED BY <1>1, <2>2, <2>4, <2>5, <2>6 DEF ProofInv, Proving, Stages,
              AfterSqrLeft, AfterSqrRight, AfterCFTLeft, AfterCFTRight
  <1> QED BY <1>6, <1>7

\* A turn of the CFT loop fills its field with an accepted proof or leaves it.
LEMMA CFTStep ==
    ASSUME LocalsInv, ProofInv,
           \/ AttemptCFT("left", "cftLeft", "cftRight")
           \/ AttemptCFT("right", "cftRight", "self check")
    PROVE  ProofInv'
  <1>1. /\ ttp' = ttp /\ range' = range /\ root' = root /\ key' = key
        /\ stage \in Proving /\ stage # "idle"
    BY DEF AttemptCFT, Proving, Stages
  <1>2. \A side \in Sides : /\ Remaining[side] \in Int /\ RemainingKey[side] \in Int
                            /\ CFTMax \in Nat /\ ~(Remaining[side] > CFTMax)
    <2>1. \A side \in Sides : CFTMax \in Nat /\ Remaining[side] \in 0..CFTMax
      BY <1>1, RemainingBounded
    <2>2. \A side \in Sides : RemainingKey[side] \in Int
      BY <1>1, LocalsAreIntegers
    <2>3. ASSUME NEW side \in Sides
          PROVE  Remaining[side] \in Int /\ ~(Remaining[side] > CFTMax)
      BY <2>1, InInterval
    <2> QED BY <2>1, <2>2, <2>3
  <1>3. "left" \in Sides /\ "right" \in Sides
    BY DEF Sides
  <1>4. /\ Draws("cft w", 0, 2^(t + l) * CFTMax) \subseteq Int
        /\ Draws("cft n", -(2^(t + l + s) * N - 1), 2^(t + l + s) * N - 1) \subseteq Int
    BY <1>2, <1>3, DrawBounds, DrawsAreIntegers
  <1>5. CASE UNCHANGED <<stage, proof>>
    BY <1>1, <1>5, ProofInvSame DEF ProofInv
  <1>6. CASE AttemptCFT("left", "cftLeft", "cftRight") /\ ~UNCHANGED <<stage, proof>>
    <2>1. PICK w \in Int, n \in Int :
            LET attempt == CFTProof(Remaining["left"], RemainingKey["left"], w, n)
            IN  /\ IsValidD1(attempt.D1, attempt.C % 2^t, CFTMax)
                /\ stage' = "cftRight" /\ proof' = [proof EXCEPT !["cftLeft"] = attempt]
      BY <1>2, <1>3, <1>4, <1>6 DEF AttemptCFT
    <2> DEFINE cft == CFTProof(Remaining["left"], RemainingKey["left"], w, n)
    <2>2. /\ JavaValidateCFT(CFTMax, Commit(Remaining["left"], RemainingKey["left"]), cft)
          /\ cft \in CFTProofs
      BY <1>2, <1>3, <2>1, CFTAccepted, CFTIsTyped
    <2> HIDE DEF cft
    <2>3. proof' = [proof EXCEPT !["cftLeft"] = cft] /\ stage' = "cftRight"
      BY <2>1 DEF cft
    <2>4. /\ proof' \in Proofs /\ proof'.cftLeft = cft
          /\ proof'.sqrLeft = proof.sqrLeft /\ proof'.sqrRight = proof.sqrRight
          /\ proof'.cLeftSquare = proof.cLeftSquare /\ proof'.cRightSquare = proof.cRightSquare
      BY <2>2, <2>3 DEF ProofInv, Proofs
    <2>5. stage = "cftLeft"
      BY <1>6 DEF AttemptCFT
    <2> QED BY <1>1, <2>2, <2>3, <2>4, <2>5, SameLocals DEF ProofInv, Proving, Stages,
              AfterSqrLeft, AfterSqrRight, AfterCFTLeft, AfterCFTRight
  <1>7. CASE AttemptCFT("right", "cftRight", "self check") /\ ~UNCHANGED <<stage, proof>>
    <2>1. PICK w \in Int, n \in Int :
            LET attempt == CFTProof(Remaining["right"], RemainingKey["right"], w, n)
            IN  /\ IsValidD1(attempt.D1, attempt.C % 2^t, CFTMax)
                /\ stage' = "self check" /\ proof' = [proof EXCEPT !["cftRight"] = attempt]
      BY <1>2, <1>3, <1>4, <1>7 DEF AttemptCFT
    <2> DEFINE cft == CFTProof(Remaining["right"], RemainingKey["right"], w, n)
    <2>2. /\ JavaValidateCFT(CFTMax, Commit(Remaining["right"], RemainingKey["right"]), cft)
          /\ cft \in CFTProofs
      BY <1>2, <1>3, <2>1, CFTAccepted, CFTIsTyped
    <2> HIDE DEF cft
    <2>3. proof' = [proof EXCEPT !["cftRight"] = cft] /\ stage' = "self check"
      BY <2>1 DEF cft
    <2>4. /\ proof' \in Proofs /\ proof'.cftRight = cft /\ proof'.cftLeft = proof.cftLeft
          /\ proof'.sqrLeft = proof.sqrLeft /\ proof'.sqrRight = proof.sqrRight
          /\ proof'.cLeftSquare = proof.cLeftSquare /\ proof'.cRightSquare = proof.cRightSquare
      BY <2>2, <2>3 DEF ProofInv, Proofs
    <2>5. stage = "cftRight"
      BY <1>7 DEF AttemptCFT
    <2> QED BY <1>1, <2>2, <2>3, <2>4, <2>5, SameLocals DEF ProofInv, Proving, Stages,
              AfterSqrLeft, AfterSqrRight, AfterCFTLeft, AfterCFTRight
  <1> QED BY <1>5, <1>6, <1>7

\* One step per action.
LEMMA ProofNext == LocalsInv /\ ProofInv /\ [Next]_vars => ProofInv'
  <1> SUFFICES ASSUME LocalsInv, ProofInv, [Next]_vars PROVE ProofInv'
    OBVIOUS
  <1> USE DEF AfterSqrLeft, AfterSqrRight, AfterCFTLeft, AfterCFTRight
  <1>1. CASE GenerateTTPMessage
    <2>1. PICK x \in Secrets, y \in KeyDraws("commitment key") :
            ttp' = [c |-> Commit(x, y), x |-> x, y |-> y]
      BY <1>1 DEF GenerateTTPMessage
    <2>2. ttp'.c = Commit(ttp'.x, ttp'.y)
      BY <2>1
    <2>3. stage' = "requested" /\ proof' = proof
      BY <1>1 DEF GenerateTTPMessage
    <2> QED BY <2>2, <2>3 DEF ProofInv, Proving, Stages
  <1>2. CASE RefuseRange
    BY <1>2, ProofInvSame DEF RefuseRange, Proving, Stages
  <1>3. CASE BeginProof
    <2>1. PICK randomLS \in KeyDraws("square key"), randomRS \in KeyDraws("square key") :
            /\ key' = [left |-> randomLS, right |-> randomRS]
            /\ proof' = [proof EXCEPT
                   !.cLeftSquare = Commit(root'.left * root'.left, randomLS),
                   !.cRightSquare = Commit(root'.right * root'.right, randomRS)]
      BY <1>3 DEF BeginProof
    <2>2. /\ stage = "requested" /\ stage' = "sqrLeft" /\ ttp' = ttp /\ range' = range
          /\ Contains(range, ttp.x)
          /\ root' = [side \in Sides |-> FloorRoot(Distance[side])]
      BY <1>3 DEF BeginProof
    <2>3. root'["left"] \in Nat /\ root'["right"] \in Nat
      BY <2>2, Distances DEF LocalsInv, IsFloorRoot, Sides
    <2> DEFINE rootL == root'["left"] * root'["left"]
               rootR == root'["right"] * root'["right"]
    <2>4. rootL \in Int /\ rootR \in Int
      BY <2>3, SquareIsInteger
    <2>5. randomLS \in Int /\ randomRS \in Int
      BY KeyDrawsAreIntegers
    <2> DEFINE cL == Commit(rootL, randomLS)
               cR == Commit(rootR, randomRS)
    <2>6. cL \in Nat /\ cR \in Nat
      <3> HIDE DEF rootL, rootR
      <3> QED BY <2>4, <2>5, CommitUnit, UnitNotZero
    <2>7. proof' = [proof EXCEPT !.cLeftSquare = cL, !.cRightSquare = cR]
      BY <2>1
    <2>8. key'["left"] = randomLS /\ key'["right"] = randomRS
      BY <2>1
    <2> HIDE DEF cL, cR
    <2>9. proof' \in Proofs /\ proof'.cLeftSquare = cL /\ proof'.cRightSquare = cR
      BY <2>6, <2>7 DEF ProofInv, Proofs
    <2> QED BY <2>2, <2>8, <2>9 DEF ProofInv, Proving, Stages, cL, cR
  <1>4. CASE ProveSquare("left", "sqrLeft", "sqrRight")
               \/ ProveSquare("right", "sqrRight", "cftLeft")
    BY <1>4, SquareStep
  <1>5. CASE AttemptCFT("left", "cftLeft", "cftRight")
               \/ AttemptCFT("right", "cftRight", "self check")
    BY <1>5, CFTStep
  <1>6. CASE SelfValidate
    <2>1. JavaValidate(proof, ttp.c, range)
      BY <1>6, OwnProofAccepted DEF SelfValidate, Proving, Stages
    <2>2. stage = "self check" /\ stage' = "exported"
      BY <1>6, <2>1 DEF SelfValidate
    <2> QED BY <1>6, <2>2, ProofInvSame DEF SelfValidate, Proving, Stages
  <1>7. CASE ParseArrays
    BY <1>7, ProofInvSame DEF ParseArrays, Proving, Stages
  <1>8. ASSUME NEW asked \in Ranges, CallValidateRangeProof(asked)
        PROVE  ProofInv'
    BY <1>8, ProofInvSame DEF CallValidateRangeProof, Proving, Stages, ProofInv
  <1>9. CASE UNCHANGED vars
    <2>1. CASE stage = "idle"
      BY <1>9, <2>1 DEF vars, ProofInv, Proving, Stages
    <2>2. CASE stage # "idle"
      BY <1>9, <2>2, ProofInvSame DEF vars, ProofInv
    <2> QED BY <2>1, <2>2
  <1> QED BY <1>1, <1>2, <1>3, <1>4, <1>5, <1>6, <1>7, <1>8, <1>9 DEF Next

\* The proof under construction satisfies its invariant in every reachable state.
LEMMA AlwaysProof == Spec => [](LocalsInv /\ ProofInv)
  BY LocalsInit, LocalsNext, ProofInit, ProofNext, PTL DEF Spec

\* Completeness, for every modulus and generators: the server never rejects a proof it has built itself.
THEOREM Completeness == Spec => []SelfCheckPasses
  <1>1. LocalsInv /\ ProofInv => SelfCheckPasses
    BY DEF ProofInv, SelfCheckPasses
  <1> QED BY <1>1, AlwaysProof, PTL

-----------------------------------------------------------------------------
(* The Go validator answers what the Java validator answers.               *)

\* A slice, element by element.
LEMMA Slice ==
    ASSUME NEW e \in Seq(Int), NEW i \in 1..Len(e), NEW j \in i..Len(e)
    PROVE  /\ SubSeq(e, i, j) \in Seq(Int) /\ Len(SubSeq(e, i, j)) = j - i + 1
           /\ \A k \in 1..(j - i + 1) : SubSeq(e, i, j)[k] = e[i + k - 1]
  OBVIOUS

\* The exported proof is a sequence of 18 integers.
LEMMA ExportIsTyped ==
    ASSUME NEW p \in Proofs
    PROVE  ExportProof(p) \in Seq(Int) /\ Len(ExportProof(p)) = 18
  BY DEF ExportProof, Proofs, SquareProofs, CFTProofs

\* On a square proof Go checks what Java checks, but for the zero checks.
LEMMA GoSquare ==
    ASSUME NEW sq \in SquareProofs, NEW q \in Seq(Int), Len(q) = 5,
           q[1] = sq.F, q[2] = sq.c, q[3] = sq.D, q[4] = sq.D1, q[5] = sq.D2,
           NEW E, E # 0, sq.F # 0
    PROVE  JavaValidateSquare(E, sq) <=> GoValidateSquare(E, q)
  <1> DEFINE ec == SubSeq(q, 2, 5)
  <1>1. ec[1] = sq.c /\ ec[2] = sq.D /\ ec[3] = sq.D1 /\ ec[4] = sq.D2
    BY Slice
  <1> HIDE DEF ec
  <1>2. GoValidateSquare(E, q) = GoValidateEquality(sq.F, sq.F, E, ec)
    BY DEF GoValidateSquare, ec
  <1> QED BY <1>1, <1>2 DEF GoValidateEquality, JavaValidateSquare, JavaValidateEquality

\* The same for a CFT proof, whose bounds Go multiplies the other way round.
LEMMA GoCFT ==
    ASSUME NEW cft \in CFTProofs, NEW q, q[1] = cft.C, q[2] = cft.D1, q[3] = cft.D2,
           NEW bound \in Nat, NEW E, E # 0
    PROVE  JavaValidateCFT(bound, E, cft) <=> GoValidateCFT(bound, E, q)
  <1> DEFINE c == cft.C % 2^t
             L == 2^(t + l)
             D1 == cft.D1
  <1>1. c \in Int /\ L \in Int /\ D1 \in Int
    BY PowersOfTwo DEF CFTProofs
  <1> HIDE DEF c, L, D1
  <1>2. (c * bound <= D1 <=> D1 >= bound * c) /\ (D1 <= L * bound <=> D1 <= bound * L)
    BY <1>1
  <1>3. JavaValidateCFT(bound, E, cft) <=>
          /\ c * bound <= D1 /\ D1 <= L * bound
          /\ cft.C = Hash1(Opening(g, D1, cft.D2, E, c))
    BY DEF JavaValidateCFT, IsValidD1, c, L, D1
  <1>4. GoValidateCFT(bound, E, q) <=>
          /\ cft.C = Hash1(Opening(g, D1, cft.D2, E, c))
          /\ D1 >= bound * c /\ D1 <= bound * L
    BY DEF GoValidateCFT, c, L, D1
  <1> QED BY <1>2, <1>3, <1>4

\* The bound of the CFT proofs is a natural number.
LEMMA BoundIsNat ==
    ASSUME NEW asked \in Ranges
    PROVE  CFTMaxCommitment(asked.lo * Scale(asked), asked.hi * Scale(asked)) \in Nat
  <1> DEFINE k == Scale(asked)
             lo == asked.lo
             hi == asked.hi
             d == 4 * (k * (hi - lo))
  <1>1. k \in Nat /\ lo \in Int /\ hi \in Int /\ lo <= hi
    BY ScaleIsPositive, RangesAreClosed
  <1>2. d \in Nat => \E e \in 0..d : IsFloorRoot(e, d)
    BY RootExists
  <1> HIDE DEF k, lo, hi
  <1>3. d \in Nat /\ 4 * (hi * k - lo * k) = d
    BY <1>1
  <1>4. FloorRoot(d) \in Nat
    BY <1>2, <1>3 DEF FloorRoot, IsFloorRoot
  <1> QED BY <1>3, <1>4 DEF CFTMaxCommitment, k, lo, hi

\* The quotient of units is a unit.
LEMMA DivideUnits ==
    ASSUME NEW x \in Units, NEW y \in Units
    PROVE  DivMod(x, y) \in Units
  <1>1. ModInverse(y) \in Units
    <2>1. ModInverse(y) = ModPow(y, -1)
      BY LawsOfExponents DEF GroupLaws
    <2>2. \A z \in Units, e \in Int : ModPow(z, e) \in Units
      BY LawsOfExponents DEF GroupLaws
    <2>3. -1 \in Int
      OBVIOUS
    <2> QED BY <2>1, <2>2, <2>3
  <1>2. \A v, w \in Units : Times(v, w) \in Units
    BY LawsOfExponents DEF GroupLaws
  <1> QED BY <1>1, <1>2 DEF DivMod

\* Any proof whose group elements are units gets the same verdict from both.
LEMMA SameVerdict ==
    ASSUME NEW p \in Proofs, NEW c \in Units, NEW asked \in Ranges,
           p.cLeftSquare \in Units, p.cRightSquare \in Units,
           p.sqrLeft.F \in Units, p.sqrRight.F \in Units
    PROVE  JavaValidate(p, c, asked) <=> GoValidate(asked, c, ExportProof(p))
  <1> DEFINE k == Scale(asked)
             e == ExportProof(p)
             cPrime == ModPow(c, k)
             low == asked.lo * k
             high == asked.hi * k
             restL == DivMod(DivMod(cPrime, ModPow(g, low)), p.cLeftSquare)
             restR == DivMod(DivMod(ModPow(g, high), cPrime), p.cRightSquare)
             bound == CFTMaxCommitment(low, high)
  <1>1. k \in Int /\ low \in Int /\ high \in Int
    BY ScaleIsPositive, RangesAreClosed
  <1>2. bound \in Nat
    BY BoundIsNat
  <1> HIDE DEF k, low, high, bound
  <1>3. cPrime \in Units /\ ModPow(g, low) \in Units /\ ModPow(g, high) \in Units
    <2>1. \A x \in Units, i \in Int : ModPow(x, i) \in Units
      BY LawsOfExponents DEF GroupLaws
    <2> QED BY <1>1, <2>1, Generators
  <1> HIDE DEF cPrime
  <1>4. restL \in Units /\ restR \in Units
    BY <1>3, DivideUnits
  <1> HIDE DEF restL, restR
  <1>5. restL # 0 /\ restR # 0 /\ cPrime # 0 /\ p.cLeftSquare # 0 /\ p.cRightSquare # 0
          /\ p.sqrLeft.F # 0 /\ p.sqrRight.F # 0 /\ N # 0 /\ N > 0
    BY <1>3, <1>4, UnitNotZero, Generators
  <1>6. e \in Seq(Int) /\ Len(e) = 18
    BY ExportIsTyped
  <1>7. /\ e[1] = p.cLeftSquare /\ e[2] = p.cRightSquare
        /\ e[3] = p.sqrLeft.F /\ e[4] = p.sqrLeft.c /\ e[5] = p.sqrLeft.D
        /\ e[6] = p.sqrLeft.D1 /\ e[7] = p.sqrLeft.D2
        /\ e[8] = p.sqrRight.F /\ e[9] = p.sqrRight.c /\ e[10] = p.sqrRight.D
        /\ e[11] = p.sqrRight.D1 /\ e[12] = p.sqrRight.D2
        /\ e[13] = p.cftLeft.C /\ e[14] = p.cftLeft.D1 /\ e[15] = p.cftLeft.D2
        /\ e[16] = p.cftRight.C /\ e[17] = p.cftRight.D1 /\ e[18] = p.cftRight.D2
    BY DEF ExportProof
  <1> HIDE DEF e
  <1>8. /\ p.sqrLeft \in SquareProofs /\ p.sqrRight \in SquareProofs
        /\ p.cftLeft \in CFTProofs /\ p.cftRight \in CFTProofs
    BY DEF Proofs
  <1>9. JavaValidateSquare(p.cLeftSquare, p.sqrLeft)
          <=> GoValidateSquare(e[1], SubSeq(e, 3, 7))
    <2> DEFINE q == SubSeq(e, 3, 7)
    <2>1. /\ q \in Seq(Int) /\ Len(q) = 5
          /\ q[1] = e[3] /\ q[2] = e[4] /\ q[3] = e[5] /\ q[4] = e[6] /\ q[5] = e[7]
      <3>1. 3 \in 1..Len(e) /\ 7 \in 3..Len(e)
        BY <1>6
      <3>2. /\ q \in Seq(Int) /\ Len(q) = 7 - 3 + 1
            /\ \A f \in 1..(7 - 3 + 1) : q[f] = e[3 + f - 1]
        BY <1>6, <3>1, Slice
      <3> HIDE DEF q
      <3> QED BY <3>2
    <2> HIDE DEF q
    <2>2. JavaValidateSquare(p.cLeftSquare, p.sqrLeft) <=> GoValidateSquare(p.cLeftSquare, q)
      BY <1>5, <1>7, <1>8, <2>1, GoSquare
    <2> QED BY <1>7, <2>2 DEF q
  <1>10. JavaValidateSquare(p.cRightSquare, p.sqrRight)
           <=> GoValidateSquare(e[2], SubSeq(e, 8, 12))
    <2> DEFINE q == SubSeq(e, 8, 12)
    <2>1. /\ q \in Seq(Int) /\ Len(q) = 5
          /\ q[1] = e[8] /\ q[2] = e[9] /\ q[3] = e[10] /\ q[4] = e[11] /\ q[5] = e[12]
      <3>1. 8 \in 1..Len(e) /\ 12 \in 8..Len(e)
        BY <1>6
      <3>2. /\ q \in Seq(Int) /\ Len(q) = 12 - 8 + 1
            /\ \A f \in 1..(12 - 8 + 1) : q[f] = e[8 + f - 1]
        BY <1>6, <3>1, Slice
      <3> HIDE DEF q
      <3> QED BY <3>2
    <2> HIDE DEF q
    <2>2. JavaValidateSquare(p.cRightSquare, p.sqrRight) <=> GoValidateSquare(p.cRightSquare, q)
      BY <1>5, <1>7, <1>8, <2>1, GoSquare
    <2> QED BY <1>7, <2>2 DEF q
  <1>11. JavaValidateCFT(bound, restL, p.cftLeft)
           <=> GoValidateCFT(bound, restL, SubSeq(e, 13, 15))
    <2> DEFINE q == SubSeq(e, 13, 15)
    <2>1. q[1] = e[13] /\ q[2] = e[14] /\ q[3] = e[15]
      BY <1>6, Slice
    <2> HIDE DEF q
    <2>2. JavaValidateCFT(bound, restL, p.cftLeft) <=> GoValidateCFT(bound, restL, q)
      BY <1>2, <1>5, <1>7, <1>8, <2>1, GoCFT
    <2> QED BY <2>2 DEF q
  <1>12. JavaValidateCFT(bound, restR, p.cftRight)
           <=> GoValidateCFT(bound, restR, SubSeq(e, 16, 18))
    <2> DEFINE q == SubSeq(e, 16, 18)
    <2>1. q[1] = e[16] /\ q[2] = e[17] /\ q[3] = e[18]
      BY <1>6, Slice
    <2> HIDE DEF q
    <2>2. JavaValidateCFT(bound, restR, p.cftRight) <=> GoValidateCFT(bound, restR, q)
      BY <1>2, <1>5, <1>7, <1>8, <2>1, GoCFT
    <2> QED BY <2>2 DEF q
  <1>13. JavaValidate(p, c, asked) <=>
           /\ JavaValidateSquare(p.cLeftSquare, p.sqrLeft)
           /\ JavaValidateSquare(p.cRightSquare, p.sqrRight)
           /\ JavaValidateCFT(bound, restL, p.cftLeft)
           /\ JavaValidateCFT(bound, restR, p.cftRight)
    BY <1>5 DEF JavaValidate, JavaValidateTolerance, bound, restL, restR, cPrime, low, high, k
  <1>14. GoValidate(asked, c, e) <=>
           /\ GoValidateSquare(e[1], SubSeq(e, 3, 7))
           /\ GoValidateSquare(e[2], SubSeq(e, 8, 12))
           /\ GoValidateCFT(bound, restL, SubSeq(e, 13, 15))
           /\ GoValidateCFT(bound, restR, SubSeq(e, 16, 18))
    BY <1>5, <1>6, <1>7 DEF GoValidate, GoValidateTolerance, GoScaledCommitment,
                            bound, restL, restR, cPrime, low, high, k
  <1> QED BY <1>9, <1>10, <1>11, <1>12, <1>13, <1>14 DEF e

\* 1 is a unit.
LEMMA OneIsUnit == 1 \in Units
  <1>1. Times(1, 1) = 1
    BY Generators DEF Times
  <1> QED BY <1>1, Generators DEF Units

\* The group elements of a finished proof are units, the commitment too.
LEMMA FinishedIsUnits ==
    ASSUME LocalsInv, ProofInv, stage \in AfterCFTRight
    PROVE  /\ ttp.c \in Units /\ proof.cLeftSquare \in Units /\ proof.cRightSquare \in Units
           /\ proof.sqrLeft.F \in Units /\ proof.sqrRight.F \in Units
  <1>1. /\ stage \in Proving /\ stage # "idle"
        /\ stage \in AfterSqrLeft /\ stage \in AfterSqrRight
    BY DEF AfterCFTRight, AfterCFTLeft, AfterSqrRight, AfterSqrLeft, Proving
  <1> DEFINE rootL == root["left"] * root["left"]
             rootR == root["right"] * root["right"]
             kL == key["left"]
             kR == key["right"]
  <1>2. rootL \in Int /\ rootR \in Int /\ kL \in Int /\ kR \in Int
    BY <1>1, LocalsAreIntegers DEF Sides
  <1>3. proof.cLeftSquare = Commit(rootL, kL) /\ proof.cRightSquare = Commit(rootR, kR)
    BY <1>1 DEF ProofInv
  <1> HIDE DEF rootL, rootR, kL, kR
  <1>4. Commit(rootL, kL) \in Units /\ Commit(rootR, kR) \in Units
    BY <1>2, CommitUnit
  <1>5. ttp.c \in Units
    <2> DEFINE x == ttp.x
               y == ttp.y
    <2>1. x \in Int /\ y \in Int
      BY <1>1, SecretsAreIntegers DEF LocalsInv
    <2>2. ttp.c = Commit(x, y)
      BY <1>1 DEF ProofInv
    <2> HIDE DEF x, y
    <2> QED BY <2>1, <2>2, CommitUnit
  <1> QED BY <1>1, <1>3, <1>4, <1>5 DEF ProofInv

\* For every modulus and generators: on the exported proof, and on each proof with one field spoilt, Go and Java agree.
THEOREM ValidatorsAgree == Spec => []SameVerdicts
  <1>1. LocalsInv /\ ProofInv => SameVerdicts
    <2> SUFFICES ASSUME LocalsInv, ProofInv, stage = "exported",
                        NEW p \in Spoilt(proof) \cup {proof}
                 PROVE  JavaValidate(p, ttp.c, range) = GoValidate(range, ttp.c, ExportProof(p))
      BY DEF SameVerdicts
    <2>1. stage \in AfterCFTRight
      BY DEF AfterCFTRight, AfterCFTLeft, AfterSqrRight, AfterSqrLeft, Proving, Stages
    <2>2. /\ ttp.c \in Units /\ proof.cLeftSquare \in Units /\ proof.cRightSquare \in Units
          /\ proof.sqrLeft.F \in Units /\ proof.sqrRight.F \in Units
      BY <2>1, FinishedIsUnits
    <2>3. proof \in Proofs
      BY DEF ProofInv
    <2>4. 1 \in Nat /\ 1 \in Int /\ 1 \in Units
      BY OneIsUnit
    <2>5. /\ p \in Proofs /\ p.cLeftSquare \in Units /\ p.cRightSquare \in Units
          /\ p.sqrLeft.F \in Units /\ p.sqrRight.F \in Units
      BY <2>2, <2>3, <2>4 DEF Spoilt, Proofs, SquareProofs, CFTProofs
    <2>6. range \in Ranges
      BY DEF LocalsInv
    <2>7. JavaValidate(p, ttp.c, range) <=> GoValidate(range, ttp.c, ExportProof(p))
      BY <2>2, <2>5, <2>6, SameVerdict
    <2>8. JavaValidate(p, ttp.c, range) \in BOOLEAN
            /\ GoValidate(range, ttp.c, ExportProof(p)) \in BOOLEAN
      BY DEF JavaValidate, JavaValidateTolerance, GoValidate
    <2> QED BY <2>7, <2>8
  <1> QED BY <1>1, AlwaysProof, PTL

\* The Go caller's array holds the commitment until the first call changes it.
CallsInv ==
    /\ calls \in Seq([range : Ranges, answer : BOOLEAN])
    /\ stage # "parsed" => calls = <<>> /\ cell = 0
    /\ stage = "parsed" => cell \in Units
    /\ stage = "parsed" /\ calls = <<>> => cell = ttp.c
    /\ GoFirstAnswerIsJavas

\* No call has been made at the start.
LEMMA CallsInit == Init => CallsInv
  BY DEF Init, CallsInv, GoFirstAnswerIsJavas

\* Each step keeps what is known of the Go caller's array and its first answer.
LEMMA CallsNext ==
    LocalsInv /\ ProofInv /\ CallsInv /\ [Next]_vars => CallsInv'
  <1> SUFFICES ASSUME LocalsInv, ProofInv, CallsInv, [Next]_vars PROVE CallsInv'
    OBVIOUS
  <1>1. ASSUME stage # "parsed", stage' # "parsed", UNCHANGED <<cell, calls>>
        PROVE  CallsInv'
    BY <1>1 DEF CallsInv, GoFirstAnswerIsJavas
  <1>2. CASE GenerateTTPMessage \/ RefuseRange \/ BeginProof \/ SelfValidate
    BY <1>1, <1>2 DEF GenerateTTPMessage, RefuseRange, BeginProof, SelfValidate
  <1>3. CASE \/ ProveSquare("left", "sqrLeft", "sqrRight")
             \/ ProveSquare("right", "sqrRight", "cftLeft")
    BY <1>1, <1>3 DEF ProveSquare
  <1>4. CASE \/ AttemptCFT("left", "cftLeft", "cftRight")
             \/ AttemptCFT("right", "cftRight", "self check")
    <2>1. UNCHANGED <<cell, calls>> /\ stage # "parsed"
      BY <1>4 DEF AttemptCFT
    <2>2. stage' # "parsed"
      BY <1>4 DEF AttemptCFT
    <2> QED BY <1>1, <2>1, <2>2
  <1>5. CASE ParseArrays
    <2>1. stage = "exported" /\ stage' = "parsed" /\ cell' = ttp.c /\ calls' = <<>>
            /\ ttp' = ttp
      BY <1>5 DEF ParseArrays
    <2>2. ttp.c \in Units
      BY <2>1, FinishedIsUnits DEF AfterCFTRight, AfterCFTLeft, AfterSqrRight, AfterSqrLeft,
                                   Proving, Stages
    <2> QED BY <2>1, <2>2 DEF CallsInv, GoFirstAnswerIsJavas
  <1>6. ASSUME NEW asked \in Ranges, CallValidateRangeProof(asked)
        PROVE  CallsInv'
    <2> DEFINE answer == GoValidate(asked, cell, ExportProof(proof))
               call == [range |-> asked, answer |-> answer]
    <2>1. /\ stage = "parsed" /\ stage' = "parsed" /\ ttp' = ttp /\ proof' = proof
          /\ calls' = Append(calls, call) /\ cell' = ModPow(cell, Scale(asked))
      BY <1>6 DEF CallValidateRangeProof, GoScaledCommitment
    <2>2. cell \in Units /\ calls \in Seq([range : Ranges, answer : BOOLEAN])
      BY <2>1 DEF CallsInv
    <2>3. answer \in BOOLEAN
      BY DEF GoValidate
    <2>4. call \in [range : Ranges, answer : BOOLEAN]
      BY <2>3
    <2>5. cell' \in Units
      <3>1. Scale(asked) \in Int
        BY ScaleIsPositive
      <3>2. \A x \in Units, i \in Int : ModPow(x, i) \in Units
        BY LawsOfExponents DEF GroupLaws
      <3> QED BY <2>1, <2>2, <3>1, <3>2
    <2> DEFINE kinds == [range : Ranges, answer : BOOLEAN]
    <2> HIDE DEF call, answer, kinds
    <2>6. /\ calls' \in Seq(kinds) /\ calls' # <<>>
          /\ calls = <<>> => calls'[1] = call
          /\ calls # <<>> => calls'[1] = calls[1]
      <3>1. calls \in Seq(kinds) /\ call \in kinds
        BY <2>2, <2>4 DEF kinds
      <3> QED BY <2>1, <3>1
    <2>7. GoFirstAnswerIsJavas'
      <3>1. CASE calls # <<>>
        BY <2>1, <2>6, <3>1 DEF CallsInv, GoFirstAnswerIsJavas
      <3>2. CASE calls = <<>>
        <4>1. cell = ttp.c
          BY <2>1, <3>2 DEF CallsInv
        <4>2. /\ proof.cLeftSquare \in Units /\ proof.cRightSquare \in Units
              /\ proof.sqrLeft.F \in Units /\ proof.sqrRight.F \in Units
              /\ proof \in Proofs
          BY <2>1, FinishedIsUnits DEF AfterCFTRight, AfterCFTLeft, AfterSqrRight,
                                       AfterSqrLeft, Proving, Stages, ProofInv
        <4>3. JavaValidate(proof, cell, asked) <=> answer
          BY <2>2, <4>2, SameVerdict DEF answer
        <4>4. JavaValidate(proof, cell, asked) \in BOOLEAN
          BY DEF JavaValidate, JavaValidateTolerance
        <4>5. answer = JavaValidate(proof, cell, asked)
          BY <2>3, <4>3, <4>4
        <4>6. calls'[1].range = asked /\ calls'[1].answer = answer
          BY <2>6, <3>2 DEF call
        <4> QED BY <2>1, <4>1, <4>5, <4>6 DEF GoFirstAnswerIsJavas
      <3> QED BY <3>1, <3>2
    <2> QED BY <2>1, <2>5, <2>6, <2>7 DEF CallsInv, kinds
  <1>7. CASE UNCHANGED vars
    BY <1>7 DEF vars, CallsInv, GoFirstAnswerIsJavas
  <1> QED BY <1>2, <1>3, <1>4, <1>5, <1>6, <1>7 DEF Next

\* ... and so it is known in every reachable state.
LEMMA AlwaysCalls == Spec => [](LocalsInv /\ ProofInv /\ CallsInv)
  BY LocalsInit, LocalsNext, ProofInit, ProofNext, CallsInit, CallsNext, PTL DEF Spec

\* For every modulus and generators: the first answer a Go caller gets on freshly parsed arrays is the Java validator's answer.
THEOREM FirstAnswerAgrees == Spec => []GoFirstAnswerIsJavas
  <1>1. CallsInv => GoFirstAnswerIsJavas
    BY DEF CallsInv
  <1> QED BY <1>1, AlwaysCalls, PTL

-----------------------------------------------------------------------------
(* Type correctness.                                                       *)

\* The variables the other invariants do not type before the proof begins.
ShapeInv ==
    /\ ttp \in [c : Nat, x : Int, y : Int]
    /\ root \in [Sides -> Nat]
    /\ key \in [left : Int, right : Int]

\* The types of the prover's variables hold at the start.
LEMMA ShapeInit == Init => ShapeInv
  BY DEF Init, ShapeInv, Sides

\* Each step keeps the types of the prover's variables.
LEMMA ShapeNext == LocalsInv /\ ShapeInv /\ [Next]_vars => ShapeInv'
  <1> SUFFICES ASSUME LocalsInv, ShapeInv, [Next]_vars PROVE ShapeInv'
    OBVIOUS
  <1>1. ASSUME UNCHANGED <<ttp, root, key>> PROVE ShapeInv'
    BY <1>1 DEF ShapeInv
  <1>2. CASE GenerateTTPMessage
    <2>1. PICK x \in Secrets, y \in KeyDraws("commitment key") :
            ttp' = [c |-> Commit(x, y), x |-> x, y |-> y]
      BY <1>2 DEF GenerateTTPMessage
    <2>2. x \in Int /\ y \in Int
      BY SecretsAreIntegers, KeyDrawsAreIntegers
    <2>3. Commit(x, y) \in Nat
      BY <2>2, CommitUnit, UnitNotZero
    <2>4. root' = root /\ key' = key
      BY <1>2 DEF GenerateTTPMessage
    <2> QED BY <2>1, <2>2, <2>3, <2>4 DEF ShapeInv
  <1>3. CASE BeginProof
    <2>1. PICK randomLS \in KeyDraws("square key"), randomRS \in KeyDraws("square key") :
            key' = [left |-> randomLS, right |-> randomRS]
      BY <1>3 DEF BeginProof
    <2>2. randomLS \in Int /\ randomRS \in Int
      BY KeyDrawsAreIntegers
    <2>3. key' \in [left : Int, right : Int]
      BY <2>1, <2>2 DEF Sides
    <2>4. /\ stage = "requested" /\ ttp' = ttp /\ Contains(range, ttp.x)
          /\ root' = [side \in Sides |-> FloorRoot(Distance[side])]
      BY <1>3 DEF BeginProof
    <2>5. root' \in [Sides -> Nat]
      BY <2>4, Distances DEF LocalsInv, IsFloorRoot
    <2> QED BY <2>3, <2>4, <2>5 DEF ShapeInv
  <1>4. CASE UNCHANGED vars
    BY <1>1, <1>4 DEF vars
  <1> QED
    BY <1>1, <1>2, <1>3, <1>4 DEF Next, RefuseRange, ProveSquare, AttemptCFT, SelfValidate,
                                  ParseArrays, CallValidateRangeProof

\* Every variable stays in its type.
THEOREM TypeCorrect == Spec => []TypeOK
  <1>1. LocalsInv /\ ProofInv /\ CallsInv /\ ShapeInv => TypeOK
    <2> SUFFICES ASSUME LocalsInv, ProofInv, CallsInv, ShapeInv PROVE TypeOK
      OBVIOUS
    <2>1. cell \in Nat
      BY UnitNotZero DEF CallsInv
    <2> QED BY <2>1 DEF LocalsInv, ProofInv, CallsInv, ShapeInv, TypeOK
  <1>2. Spec => []ShapeInv
    BY LocalsInit, LocalsNext, ShapeInit, ShapeNext, PTL DEF Spec
  <1> QED BY <1>1, <1>2, AlwaysCalls, PTL
=============================================================================
