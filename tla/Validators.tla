----------------------------- MODULE Validators -----------------------------
(***************************************************************************)
(* The two validators of a range proof: RangeProof.validateRangeProof,     *)
(* which the Java server runs on every proof before it hands it out, and   *)
(* ValidateRangeProof, which the Ethereum precompile runs in Go.           *)
(*                                                                         *)
(* Java works on a BoudotRangeProof, Go on the 18 integers exportProof     *)
(* writes out.  A Java exception is a rejection.                           *)
(***************************************************************************)
EXTENDS Commitments

\* HPAKEEqualityConstraint: E = g^x h^r1 and F = g2^x h^r2 hide the same x.
JavaValidateEquality(g2, E, F, ec) ==
    /\ E # 0 /\ F # 0
    /\ ec.c = Hash2(Opening(g, ec.D, ec.D1, E, ec.c), Opening(g2, ec.D, ec.D2, F, ec.c))

\* HPAKESquare: E hides the square of what F hides.
JavaValidateSquare(E, sq) == JavaValidateEquality(sq.F, sq.F, E, sq)

\* CFT: E hides a number that is not much larger than b.
JavaValidateCFT(b, E, cft) ==
    LET c == cft.C % 2^t IN
    /\ E # 0
    /\ IsValidD1(cft.D1, c, b)
    /\ cft.C = Hash1(Opening(g, cft.D1, cft.D2, E, c))

\* ProofWithTolerance.validateRangeProof on the scaled commitment and range.
JavaValidateTolerance(proof, c, a, b) ==
    /\ N # 0 /\ c # 0 /\ proof.cLeftSquare # 0 /\ proof.cRightSquare # 0
    /\ LET cLeft == DivMod(c, ModPow(g, a))
           cRight == DivMod(ModPow(g, b), c)
       IN  /\ JavaValidateSquare(proof.cLeftSquare, proof.sqrLeft)
           /\ JavaValidateSquare(proof.cRightSquare, proof.sqrRight)
           /\ JavaValidateCFT(CFTMaxCommitment(a, b),
                              DivMod(cLeft, proof.cLeftSquare), proof.cftLeft)
           /\ JavaValidateCFT(CFTMaxCommitment(a, b),
                              DivMod(cRight, proof.cRightSquare), proof.cftRight)

\* RangeProof.validateRangeProof
JavaValidate(proof, c, range) ==
    JavaValidateTolerance(proof, ModPow(c, Scale(range)),
                          range.lo * Scale(range), range.hi * Scale(range))

-----------------------------------------------------------------------------
\* Slip: two fields of the left square proof are exchanged.
ExportProofSwapped(proof) ==
    <<proof.cLeftSquare, proof.cRightSquare,
      proof.sqrLeft.F, proof.sqrLeft.c, proof.sqrLeft.D, proof.sqrLeft.D2, proof.sqrLeft.D1,
      proof.sqrRight.F, proof.sqrRight.c, proof.sqrRight.D, proof.sqrRight.D1, proof.sqrRight.D2,
      proof.cftLeft.C, proof.cftLeft.D1, proof.cftLeft.D2,
      proof.cftRight.C, proof.cftRight.D1, proof.cftRight.D2>>

\* RangeproofPacket.exportProof: the order of the fields on the wire.
ExportProof(proof) ==
    LET sqL == proof.sqrLeft
        sqR == proof.sqrRight
        cftL == proof.cftLeft
        cftR == proof.cftRight
    IN  <<proof.cLeftSquare, proof.cRightSquare,
          sqL.F, sqL.c, sqL.D, sqL.D1, sqL.D2,
          sqR.F, sqR.c, sqR.D, sqR.D1, sqR.D2,
          cftL.C, cftL.D1, cftL.D2,
          cftR.C, cftR.D1, cftR.D2>>

-----------------------------------------------------------------------------
\* HPAKEEqualityConstraintValidateZeroKnowledgeProof; ec is C, D, D1, D2.
GoValidateEquality(g2, E, F, ec) ==
    ec[1] = Hash2(Opening(g, ec[2], ec[3], E, ec[1]), Opening(g2, ec[2], ec[4], F, ec[1]))

\* HPAKESquareValidateZeroKnowledgeProof
GoValidateSquare(E, sq) == GoValidateEquality(sq[1], sq[1], E, SubSeq(sq, 2, 5))

\* CFTValidateZeroKnowledgeProof; cft is C, D1, D2.
GoValidateCFT(b, E, cft) ==
    LET c == cft[1] % 2^t IN
    /\ cft[1] = Hash1(Opening(g, cft[2], cft[3], E, c))
    /\ cft[2] >= b * c /\ cft[2] <= b * 2^(t + l)

\* ValidateProofWithTolerance: proof[2:7] of Go is SubSeq(proof, 3, 7) here.
GoValidateTolerance(a, b, c, proof) ==
    /\ Len(proof) >= 18
    /\ N > 0
    /\ LET cLeft == DivMod(c, ModPow(g, a))
           cRight == DivMod(ModPow(g, b), c)
       IN  /\ GoValidateSquare(proof[1], SubSeq(proof, 3, 7))
           /\ GoValidateSquare(proof[2], SubSeq(proof, 8, 12))
           /\ GoValidateCFT(CFTMaxCommitment(a, b),
                            DivMod(cLeft, proof[1]), SubSeq(proof, 13, 15))
           /\ GoValidateCFT(CFTMaxCommitment(a, b),
                            DivMod(cRight, proof[2]), SubSeq(proof, 16, 18))

\* Slip: the range is scaled, the commitment is not.
GoUnscaledCommitment(c, range) == c

\* ValidateRangeProof writes this into the first cell of the caller's own
\* commitment array before it goes on to ValidateProofWithTolerance.
GoScaledCommitment(c, range) == ModPow(c, Scale(range))

\* The answer of ValidateRangeProof when that cell holds c.  The other cells of the
\* caller's array hold N, g and h: it has the four the length check asks for.
GoValidate(range, c, proof) ==
    /\ Len(proof) >= 18
    /\ GoValidateTolerance(range.lo * Scale(range), range.hi * Scale(range),
                           GoScaledCommitment(c, range), proof)

=============================================================================
