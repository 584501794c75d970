---------------------------- MODULE MCRangeProof ----------------------------
(***************************************************************************)
(* Model checking of RangeProof in the group of order 15 modulo 77 = 7 * 11 *)
(* (7 and 11 are safe primes), with a four-bit hash.                       *)
(***************************************************************************)
EXTENDS RangeProof

CONSTANTS MaxSecret, Widest

MCSecrets == (-1)..MaxSecret

\* One number, the whole interval, and two numbers, one negative (where what is
\* left of a distance exceeds half its bound).
MCRanges == {[lo |-> 1, hi |-> 1], [lo |-> 0, hi |-> Widest], [lo |-> -1, hi |-> 0]}

\* Stand-ins for SHA-256: signed numbers of 2t bits that depend on all of the
\* arguments.
MCHash1(x) == (((x * x + 5 * x) \div 3) % 2^(2 * t)) - 2^(2 * t - 1)
MCHash2(x, y) == (((x * y + 7 * x + 3 * y) \div 5) % 2^(2 * t)) - 2^(2 * t - 1)

\* The extremes for the keys; the CFT loop also gets one draw in the middle.
MCTried(kind, lo, hi) ==
    CASE kind \in {"commitment key", "square key"} -> {lo, hi}
      [] kind = "square w" -> {lo, hi}
      [] kind = "cft w" -> {lo, (lo + 2 * hi) \div 3, hi}
      [] OTHER -> {(lo + 3 * hi) \div 4}

\* The laws of exponents, evaluated in this group for small exponents.
ASSUME LawsHoldHere == GroupLaws((-5)..5)
=============================================================================
