---------------------------- MODULE Commitments ----------------------------
(***************************************************************************)
(* The group of secret order, the Fujisaki-Okamoto commitments in it and   *)
(* the fields of a range proof: what the Java prover (ProofWithTolerance   *)
(* and the classes it calls) and the Go validator compute with.            *)
(*                                                                         *)
(* The parameters are small here and the hash is a parameter; everything   *)
(* else is the arithmetic of the code, on integers modulo N.               *)
(***************************************************************************)
EXTENDS Arithmetic, Sequences

CONSTANTS
    N, g, h,       \* modulus and the two generators: SecretOrderGroup
    t, l, s,       \* CFT.t (soundness), CFT.l (zero knowledge), TTPGenerator.s
    Hash1(_),      \* DigestUtil.calculateHash(W), a signed integer
    Hash2(_, _)    \* DigestUtil.calculateHash(W1, W2)

Times(x, y) == (x * y) % N

\* The residues that have an inverse modulo N.
Units == {x \in 1..(N - 1) : \E y \in 1..(N - 1) : Times(x, y) = 1}

\* BigInteger.modInverse; defined for the units only.
ModInverse(x) == CHOOSE y \in 1..(N - 1) : Times(x, y) = 1

\* Powers of x with a non-negative exponent, by repeated squaring.
Power(x) ==
    LET power[e \in Nat] ==
          IF e = 0 THEN 1
          ELSE LET half == power[e \div 2]
                   square == Times(half, half)
               IN  IF e % 2 = 1 THEN Times(square, x) ELSE square
    IN  power

\* ModPow in Go, BigInteger.modPow in Java: a negative exponent inverts.
ModPow(x, e) ==
    IF e >= 0 THEN Power(x % N)[e] ELSE ModInverse(Power(x % N)[-e])

\* x / y modulo N
DivMod(x, y) == Times(x, ModInverse(y))

\* TTPGenerator.commit: g^m h^r mod N
Commit(m, r) == Times(ModPow(g, m), ModPow(h, r))

ASSUME Generators == N \in Nat /\ N > 2 /\ g \in Units /\ h \in Units

ASSUME SecurityParameters == t \in Nat /\ l \in Nat \ {0} /\ s \in Nat

ASSUME PowersOfTwo ==
    /\ 2^t \in Nat \ {0} /\ 2^s \in Nat \ {0} /\ 2^(t + l + s) \in Nat \ {0}
    /\ 2^(t + l) \in Nat /\ 2^(t + l) >= 2 * 2^t

ASSUME HashesAreIntegers ==
    \A x, y \in Units : Hash1(x) \in Int /\ Hash2(x, y) \in Int

\* The laws of exponents in the abelian group of units, for exponents in E.
GroupLaws(E) ==
    /\ \A x, y \in Units : Times(x, y) \in Units /\ Times(x, y) = Times(y, x)
    /\ \A x, y, z \in Units : Times(Times(x, y), z) = Times(x, Times(y, z))
    /\ \A x \in Units, i \in E : ModPow(x, i) \in Units
    /\ \A x \in Units, i, j \in E : ModPow(x, i + j) = Times(ModPow(x, i), ModPow(x, j))
    /\ \A x \in Units, i, j \in E : ModPow(x, i * j) = ModPow(ModPow(x, i), j)
    /\ \A x, y \in Units, i \in E :
         ModPow(Times(x, y), i) = Times(ModPow(x, i), ModPow(y, i))
    /\ \A x \in Units : ModPow(x, 1) = x
    /\ \A x, y \in Units : Times(x, ModPow(y, 0)) = x
    /\ \A x \in Units : ModInverse(x) = ModPow(x, -1)

-----------------------------------------------------------------------------
\* The factor 2^T both sides scale commitment and range by, so that the
\* tolerance of the proof on the scaled numbers leaves none on the original.
Scale(range) == 2^(2 * (t + l + 1) + BitLength(range.hi - range.lo))

\* Slip: the factor 2 is left out.
CFTMaxUnshifted(a, b) == FloorRoot(b - a)

\* 2 sqrt(b - a) rounded down: the largest remainder a CFT proof may hide.
CFTMaxCommitment(a, b) == FloorRoot(4 * (b - a))

\* base^D h^D1 E^-c, what the verifier hashes in place of base^w h^n.
Opening(base, D, D1, E, c) ==
    Times(Times(ModPow(base, D), ModPow(h, D1)), ModPow(E, -c))

\* Slip: the upper end of the interval is excluded.
IsValidD1Strict(D1, c, b) == c * b <= D1 /\ D1 < 2^(t + l) * b

\* D1 is in [cb, 2^(t+l) b].
IsValidD1(D1, c, b) == c * b <= D1 /\ D1 <= 2^(t + l) * b

=============================================================================
