----------------------------- MODULE Arithmetic -----------------------------
(***************************************************************************)
(* The few facts about integers that prover and validators share: the bit  *)
(* length of a number and the floor of a square root, as mathematics.      *)
(* How the code computes the root is the subject of FloorSquareRoot.       *)
(***************************************************************************)
EXTENDS Integers

\* BigInteger.bitLength and big.Int.BitLen of a non-negative number.
BitLength(n) ==
    CHOOSE k \in 0..n : n < 2^k /\ (k > 0 => 2^(k-1) <= n)

IsFloorRoot(k, n) == k \in Nat /\ k * k <= n /\ n < (k + 1) * (k + 1)

\* Slip: one step too far down.
FloorRootOneLess(n) == (CHOOSE k \in 0..n : IsFloorRoot(k, n)) - 1

\* What floorSquareRoot returns for a non-negative number.
FloorRoot(n) == CHOOSE k \in 0..n : IsFloorRoot(k, n)

=============================================================================
