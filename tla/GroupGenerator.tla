--------------------------- MODULE GroupGenerator ---------------------------
(***************************************************************************)
(* SecretOrderGroupGenerator.generate: two safe primes P and Q, and two     *)
(* generators of the subgroup G_pq modulo N = P * Q, where P = 2p + 1 and   *)
(* Q = 2q + 1.  One step per turn of a loop; random numbers are drawn with  *)
(* \E, and a draw that is refused leaves the state as it is.                *)
(***************************************************************************)
EXTENDS Integers

CONSTANT Primes     \* what new BigInteger(bits, certainty, rnd) may return

VARIABLES
  stage,     \* the local variable that is computed next, or "done"
  P, Q,      \* the safe primes
  gp, gq,    \* g_p and g_q: generators modulo P and modulo Q
  euclid,    \* the locals of extendedGCDBezout
  b0, b1     \* the result

groupVars == <<stage, P, Q, gp, gq, euclid, b0, b1>>

\* BigInteger.isProbablePrime, which is taken to be right.
IsPrime(n) == n > 1 /\ \A d \in 2 .. (n - 1) : n % d # 0

Half(prime) == (prime - 1) \div 2
IsSafe(prime) == IsPrime(Half(prime))

\* Two safe primes at least, or the search for Q never ends; none of them 5, for which
\* there is no generator to find: 2 and 3 have order 4.  Primes of 511 bits are neither.
GroupConstants ==
  /\ Primes \subseteq Nat
  /\ \A b \in Primes : b > 5 /\ IsPrime(b)
  /\ \E a, b \in Primes : a # b /\ IsSafe(a) /\ IsSafe(b)

\* BigInteger.modPow with a non-negative exponent
modPow(x, e, m) ==
  LET pow[k \in Nat] ==
        IF k = 0 THEN 1
        ELSE LET half == pow[k \div 2]
             IN  (half * half * (IF k % 2 = 1 THEN x ELSE 1)) % m
  IN  pow[e]

-----------------------------------------------------------------------------

GroupInit ==
  /\ stage = "P"
  /\ P = 0 /\ Q = 0 /\ gp = 0 /\ gq = 0 /\ b0 = 0 /\ b1 = 0
  /\ euclid = [r0 |-> 0, r1 |-> 0, s0 |-> 1, s1 |-> 0, t0 |-> 0, t1 |-> 1]

\* generateSafePrime: another prime until half of it is prime as well
GenerateP ==
  /\ stage = "P"
  /\ \E b \in Primes :
       IF IsSafe(b) THEN P' = b /\ stage' = "Q" ELSE UNCHANGED <<P, stage>>
  /\ UNCHANGED <<Q, gp, gq, euclid, b0, b1>>

\* The same, until it is another one than P
GenerateQ ==
  /\ stage = "Q"
  /\ \E b \in Primes :
       IF IsSafe(b) /\ b # P THEN Q' = b /\ stage' = "gp" ELSE UNCHANGED <<Q, stage>>
  /\ UNCHANGED <<P, gp, gq, euclid, b0, b1>>

\* The condition on which the loop of findGeneratorForSafePrime ends
IsGenerator(g, prime) ==
  modPow(g, Half(prime), prime) = 1 /\ modPow(g, 2, prime) # 1

\* What createRandomInRange(TWO, P.subtract(TWO)) may draw
Candidates(prime) == 2 .. (prime - 2)

\* findGeneratorForSafePrime, and the random power of what it finds
FindGp ==
  /\ stage = "gp"
  /\ \E g \in Candidates(P), e \in 1 .. (Half(P) - 1) :
       IF IsGenerator(g, P) THEN gp' = modPow(g, e, P) /\ stage' = "gq"
       ELSE UNCHANGED <<gp, stage>>
  /\ UNCHANGED <<P, Q, gq, euclid, b0, b1>>

\* The call of extendedGCDBezout, which follows, is begun.
FindGq ==
  /\ stage = "gq"
  /\ \E g \in Candidates(Q), e \in 1 .. (Half(Q) - 1) :
       IF IsGenerator(g, Q)
       THEN /\ gq' = modPow(g, e, Q) /\ stage' = "bezout"
            /\ euclid' = [r0 |-> P, r1 |-> Q, s0 |-> 1, s1 |-> 0, t0 |-> 0, t1 |-> 1]
       ELSE UNCHANGED <<gq, stage, euclid>>
  /\ UNCHANGED <<P, Q, gp, b0, b1>>

\* The body of the loop of extendedGCDBezout
Divide(e) ==
  LET quotient == e.r0 \div e.r1
  IN  [r0 |-> e.r1, r1 |-> e.r0 % e.r1,
       s0 |-> e.s1, s1 |-> e.s0 - quotient * e.s1,
       t0 |-> e.t1, t1 |-> e.t0 - quotient * e.t1]

BezoutStep ==
  /\ stage = "bezout" /\ euclid.r1 # 0
  /\ euclid' = Divide(euclid)
  /\ UNCHANGED <<stage, P, Q, gp, gq, b0, b1>>

\* Step 3: the number that is g_p modulo P and g_q modulo Q
Combine ==
  /\ stage = "bezout" /\ euclid.r1 = 0
  /\ b0' = (gp * euclid.t0 * Q + gq * euclid.s0 * P) % (P * Q)
  /\ stage' = "b1"
  /\ UNCHANGED <<P, Q, gp, gq, euclid, b1>>

\* Slip: refused only if it is a multiple of both
AlphaOfBoth(alpha) == alpha % Half(P) # 0 \/ alpha % Half(Q) # 0

\* The condition on which the loop of step 4 ends
IsAlpha(alpha) == alpha % Half(P) # 0 /\ alpha % Half(Q) # 0

Smaller(m, n) == IF m < n THEN m ELSE n

\* What createRandomInRange(p.min(q), p.multiply(q)) may draw
Alphas == Smaller(Half(P), Half(Q)) .. (Half(P) * Half(Q))

\* Step 4
FindB1 ==
  /\ stage = "b1"
  /\ \E alpha \in Alphas :
       IF IsAlpha(alpha) THEN b1' = modPow(b0, alpha, P * Q) /\ stage' = "done"
       ELSE UNCHANGED <<b1, stage>>
  /\ UNCHANGED <<P, Q, gp, gq, euclid, b0>>

\* The next call, for the next TTP message, shares nothing with this one.
NextGroup ==
  /\ stage = "done"
  /\ stage' = "P"
  /\ P' = 0 /\ Q' = 0 /\ gp' = 0 /\ gq' = 0 /\ b0' = 0 /\ b1' = 0
  /\ euclid' = [r0 |-> 0, r1 |-> 0, s0 |-> 1, s1 |-> 0, t0 |-> 0, t1 |-> 1]

GroupNext ==
  NextGroup \/ GenerateP \/ GenerateQ \/ FindGp \/ FindGq \/ BezoutStep \/ Combine \/ FindB1

GroupSpec == GroupInit /\ [][GroupNext]_groupVars

-----------------------------------------------------------------------------

\* The least positive exponent that takes x to 1 is n.
HasOrder(x, n, m) ==
  modPow(x, n, m) = 1 /\ \A k \in 1 .. (n - 1) : modPow(x, k, m) # 1

\* findGenerators: both results generate the whole of G_pq, which has p * q elements,
\* and are not the same.
ResultsGenerate ==
  /\ stage \in {"b1", "done"} => HasOrder(b0, Half(P) * Half(Q), P * Q)
  /\ stage = "done" => b1 # b0 /\ HasOrder(b1, Half(P) * Half(Q), P * Q)

\* extendedGCDBezout: in every turn of the loop both remainders are the combinations of
\* P and Q that the coefficients say, so that a remainder of 1 leaves Bezout's identity.
BezoutHolds ==
  stage = "bezout" =>
    /\ euclid.s0 * P + euclid.t0 * Q = euclid.r0
    /\ euclid.s1 * P + euclid.t1 * Q = euclid.r1

\* The do-while loops: whatever was drawn before, there is a draw that ends each.
SearchesCanEnd ==
  /\ stage = "Q" => \E b \in Primes : IsSafe(b) /\ b # P
  /\ stage = "gp" => \E g \in Candidates(P) : IsGenerator(g, P)
  /\ stage = "gq" => \E g \in Candidates(Q) : IsGenerator(g, Q)
  /\ stage = "b1" => \E alpha \in Alphas : IsAlpha(alpha)

\* generate: both generators of a new group generate the whole of G_pq; in every turn of
\* extendedGCDBezout the coefficients fit the remainders; no search is for something
\* that does not exist.
GeneratesGpq == ResultsGenerate /\ BezoutHolds /\ SearchesCanEnd
=============================================================================
