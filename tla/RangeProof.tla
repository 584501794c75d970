----------------------------- MODULE RangeProof -----------------------------
(***************************************************************************)
(* One range proof from commitment to contract.  The trusted third party   *)
(* commits to a secret (TTPGenerator); the server builds a Boudot proof    *)
(* that the secret lies in the requested range, validates it itself and    *)
(* exports it (RangeproofPacket, RangeProof, ProofWithTolerance,           *)
(* HPAKESquare, HPAKEEqualityConstraint, CFT); a Go caller that holds the  *)
(* parsed commitment and proof calls ValidateRangeProof on them, possibly  *)
(* more than once.                                                         *)
(*                                                                         *)
(* A step of the prover is one sub-proof, or one turn of the retry loop    *)
(* of CFT.calculateProof.  Random numbers are drawn nondeterministically.  *)
(***************************************************************************)
EXTENDS Validators

CONSTANTS
    Secrets,            \* the numbers the third party may commit to
    Ranges,             \* the ranges requested and validated: [lo, hi]
    Tried(_, _, _),     \* draws explored of a kind of random number in lo..hi
    MaxGoCalls          \* bound on the validations of one parsed commitment

VARIABLES
    ttp,                \* the TTPMessage: commitment value c, secret x, key y
    range,              \* the requested range
    stage,              \* where calculateRangeProof is
    root,               \* leftSquareRoot and rightSquareRoot
    key,                \* randomLS and randomRS, the keys of the squares
    proof,              \* the BoudotRangeProof under construction
    cell,               \* element 0 of the Go caller's commitment array
    calls               \* what ValidateRangeProof answered on that array

vars == <<ttp, range, stage, root, key, proof, cell, calls>>

ASSUME SecretsAreIntegers == Secrets \subseteq Int

ASSUME RangesAreClosed ==
    \A r \in Ranges : r.lo \in Int /\ r.hi \in Int /\ r.lo <= r.hi

ASSUME ScaleIsPositive == \A r \in Ranges : Scale(r) \in Nat \ {0}

Sides == {"left", "right"}

Draws(kind, lo, hi) == {d \in lo..hi : d \in Tried(kind, lo, hi)}

\* TTPGenerator.generateKey: a signed number of at most 2^s N - 1.
KeyDraws(kind) == Draws(kind, -(2^s * N - 1), 2^s * N - 1)

NoSquareProof == [F |-> 0, c |-> 0, D |-> 0, D1 |-> 0, D2 |-> 0]

NoCFTProof == [C |-> 0, D1 |-> 0, D2 |-> 0]

NoProof ==
    [cLeftSquare |-> 0, cRightSquare |-> 0,
     sqrLeft |-> NoSquareProof, sqrRight |-> NoSquareProof,
     cftLeft |-> NoCFTProof, cftRight |-> NoCFTProof]

Init ==
    /\ ttp = [c |-> 0, x |-> 0, y |-> 0]
    /\ range \in Ranges
    /\ stage = "idle"
    /\ root = [left |-> 0, right |-> 0]
    /\ key = [left |-> 0, right |-> 0]
    /\ proof = NoProof
    /\ cell = 0
    /\ calls = <<>>

-----------------------------------------------------------------------------
\* TTPGenerator.generateTTPMessage
GenerateTTPMessage ==
    /\ stage = "idle"
    /\ \E x \in Secrets, y \in KeyDraws("commitment key") :
         ttp' = [c |-> Commit(x, y), x |-> x, y |-> y]
    /\ stage' = "requested"
    /\ UNCHANGED <<range, root, key, proof, cell, calls>>

\* ClosedRange.contains
Contains(r, x) == r.lo <= x /\ x <= r.hi

\* RangeproofPacket refuses a range that does not contain the secret.
RefuseRange ==
    /\ stage = "requested" /\ ~Contains(range, ttp.x)
    /\ stage' = "refused"
    /\ UNCHANGED <<ttp, range, root, key, proof, cell, calls>>

-----------------------------------------------------------------------------
\* RangeProof.calculateRangeProof scales secret, key and bounds; these are the
\* m, r, a and b of ProofWithTolerance.calculateRangeProof ...
mScaled == Scale(range) * ttp.x
rScaled == Scale(range) * ttp.y
aScaled == Scale(range) * range.lo
bScaled == Scale(range) * range.hi

\* ... the distances of m to the two ends ...
Distance == [left |-> mScaled - aScaled, right |-> bScaled - mScaled]

\* ... what is left of them after the largest square ...
Remaining == [side \in Sides |-> Distance[side] - root[side] * root[side]]

\* Slip: both sides keep the sign of the key.
RemainingKeyOneSign == [left |-> rScaled - key.left, right |-> rScaled - key.right]

\* ... the keys of the remainders, randomLR and randomRR ...
RemainingKey == [left |-> rScaled - key.left, right |-> -rScaled - key.right]

\* ... and the bounds on what the square and the CFT proofs hide.
SQMaxToHide == FloorRoot(bScaled - aScaled) + 1
CFTMax == CFTMaxCommitment(aScaled, bScaled)

\* Step 3 to 5 of ProofWithTolerance.calculateRangeProof.
BeginProof ==
    /\ stage = "requested" /\ Contains(range, ttp.x)
    /\ root' = [side \in Sides |-> FloorRoot(Distance[side])]
    /\ \E randomLS, randomRS \in KeyDraws("square key") :
         /\ key' = [left |-> randomLS, right |-> randomRS]
         /\ proof' = [proof EXCEPT
                !.cLeftSquare = Commit(root'.left * root'.left, randomLS),
                !.cRightSquare = Commit(root'.right * root'.right, randomRS)]
    /\ stage' = "sqrLeft"
    /\ UNCHANGED <<ttp, range, cell, calls>>

\* HPAKESquare.calculateZeroKnowledgeProof with the equality proof inside it:
\* E = g^(x^2) h^r1 is F^x h^r3 for F = g^x h^r2, so F and E hide the same x.
SquareProof(x, r1, r2, w, n1, n2) ==
    LET r3 == r1 - r2 * x
        F == Commit(x, r2)
        c == Hash2(Commit(w, n1), Times(ModPow(F, w), ModPow(h, n2)))
    IN  [F |-> F, c |-> c, D |-> w + c * x, D1 |-> n1 + c * r2, D2 |-> n2 + c * r3]

\* Step 7, for one side: the stage is named after the field it fills.
ProveSquare(side, field, next) ==
    /\ stage = field
    /\ \E r2 \in KeyDraws("root key"),
          w \in Draws("square w", 1, 2^(t + l) * SQMaxToHide - 1),
          n1, n2 \in Draws("square n", 1, 2^(t + l + s) * N - 1) :
         proof' = [proof EXCEPT ![field] =
                      SquareProof(root[side], key[side], r2, w, n1, n2)]
    /\ stage' = next
    /\ UNCHANGED <<ttp, range, root, key, cell, calls>>

\* The numbers one turn of the loop of CFT.calculateProof computes.
CFTProof(x, rx, w, n) ==
    LET C == Hash1(Commit(w, n))
        c == C % 2^t
    IN  [C |-> C, D1 |-> w + c * x, D2 |-> n + c * rx]

\* Step 8, for one side.  calculateProof throws when the number is above the
\* maximum; otherwise a step is one turn of its loop, and an attempt whose D1
\* would give the number away, or would not convince, is dropped.
AttemptCFT(side, field, next) ==
    /\ stage = field
    /\ \E w \in Draws("cft w", 0, 2^(t + l) * CFTMax),
          n \in Draws("cft n", -(2^(t + l + s) * N - 1), 2^(t + l + s) * N - 1) :
         LET attempt == CFTProof(Remaining[side], RemainingKey[side], w, n)
         IN  IF Remaining[side] > CFTMax
               THEN stage' = "thrown" /\ UNCHANGED proof
             ELSE IF IsValidD1(attempt.D1, attempt.C % 2^t, CFTMax)
               THEN stage' = next /\ proof' = [proof EXCEPT ![field] = attempt]
             ELSE UNCHANGED <<stage, proof>>
    /\ UNCHANGED <<ttp, range, root, key, cell, calls>>

\* RangeproofPacket validates its own proof before it exports it.
SelfValidate ==
    /\ stage = "self check"
    /\ stage' = IF JavaValidate(proof, ttp.c, range) THEN "exported" ELSE "rejected"
    /\ UNCHANGED <<ttp, range, root, key, proof, cell, calls>>

-----------------------------------------------------------------------------
\* A Go caller parses commitment and proof into arrays of its own.
ParseArrays ==
    /\ stage = "exported"
    /\ stage' = "parsed"
    /\ cell' = ttp.c
    /\ calls' = <<>>
    /\ UNCHANGED <<ttp, range, root, key, proof>>

\* ValidateRangeProof: commitmentPrime is the caller's array, not a copy.
CallValidateRangeProof(asked) ==
    /\ stage = "parsed" /\ Len(calls) < MaxGoCalls
    /\ calls' = Append(calls, [range |-> asked,
                               answer |-> GoValidate(asked, cell, ExportProof(proof))])
    /\ cell' = GoScaledCommitment(cell, asked)
    /\ UNCHANGED <<ttp, range, stage, root, key, proof>>

Next ==
    \/ GenerateTTPMessage
    \/ RefuseRange
    \/ BeginProof
    \/ ProveSquare("left", "sqrLeft", "sqrRight")
    \/ ProveSquare("right", "sqrRight", "cftLeft")
    \/ AttemptCFT("left", "cftLeft", "cftRight")
    \/ AttemptCFT("right", "cftRight", "self check")
    \/ SelfValidate
    \/ ParseArrays
    \/ \E asked \in Ranges : CallValidateRangeProof(asked)

Spec == Init /\ [][Next]_vars

-----------------------------------------------------------------------------
SquareProofs == [F : Nat, c : Int, D : Int, D1 : Int, D2 : Int]

CFTProofs == [C : Int, D1 : Int, D2 : Int]

Proofs ==
    [cLeftSquare : Nat, cRightSquare : Nat,
     sqrLeft : SquareProofs, sqrRight : SquareProofs,
     cftLeft : CFTProofs, cftRight : CFTProofs]

Stages == {"idle", "requested", "refused", "sqrLeft", "sqrRight", "cftLeft",
           "cftRight", "thrown", "self check", "exported", "rejected", "parsed"}

\* Every variable stays in its type; in particular the roots are natural
\* numbers and every field of a proof is an integer.
TypeOK ==
    /\ ttp \in [c : Nat, x : Int, y : Int]
    /\ range \in Ranges
    /\ stage \in Stages
    /\ root \in [Sides -> Nat]
    /\ key \in [left : Int, right : Int]
    /\ proof \in Proofs
    /\ cell \in Nat
    /\ calls \in Seq([range : Ranges, answer : BOOLEAN])

\* Completeness: a proof built from an honest TTP message, for a range that
\* contains the secret, passes the server's own validation, whatever random
\* numbers were drawn, at both ends of the range and on a one-number range.
SelfCheckPasses == stage # "rejected"

\* CFT.calculateProof never throws "Committed number is larger than maximum":
\* what remains of a distance after its largest square fits the bound that is
\* computed from the width of the whole range.
RemainderFits == stage # "thrown"

\* The retry loop of CFT.calculateProof always has a way out: among the
\* numbers w it may draw there is one that is valid whatever challenge c the
\* hash then yields.
RetryCanSucceed ==
    \A side \in Sides :
        stage = (IF side = "left" THEN "cftLeft" ELSE "cftRight") =>
          \E w \in 0..(2^(t + l) * CFTMax) : \A c \in 0..(2^t - 1) :
              IsValidD1(w + c * Remaining[side], c, CFTMax)

\* A Go caller's first validation of a freshly parsed commitment answers what
\* the Java validator answers, for the proved range and for any other.
GoFirstAnswerIsJavas ==
    calls # <<>> =>
        calls[1].answer = JavaValidate(proof, ttp.c, calls[1].range)

\* One field of a proof replaced by 1, the way the tests spoil proofs.
Spoilt(p) ==
    {[p EXCEPT ![f] = 1] : f \in {"cLeftSquare", "cRightSquare"}}
      \cup {[p EXCEPT ![f][k] = 1] : f \in {"sqrLeft", "sqrRight"},
                                     k \in {"F", "c", "D", "D1", "D2"}}
      \cup {[p EXCEPT ![f][k] = 1] : f \in {"cftLeft", "cftRight"},
                                     k \in {"C", "D1", "D2"}}

\* What the server exports is read back by Go field by field: on the exported
\* proof, and on each proof with one field spoilt, both validators agree.
SameVerdicts ==
    stage = "exported" =>
        \A p \in Spoilt(proof) \cup {proof} :
            JavaValidate(p, ttp.c, range) = GoValidate(range, ttp.c, ExportProof(p))

\* The Go test TestValidRangeProof: "First verification passed, second failed"
\* is an error.  Validating the same arrays again gives the same answer.
GoAnswerRepeats ==
    \A i, j \in 1..Len(calls) :
        calls[i].range = calls[j].range => calls[i].answer = calls[j].answer
=============================================================================
