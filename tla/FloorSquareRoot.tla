--------------------------- MODULE FloorSquareRoot ---------------------------
(***************************************************************************)
(* The integer square root both halves of the system compute for           *)
(* themselves: BigIntUtil.floorSquareRoot in the Java prover and           *)
(* FloorSquareRoot in the Go validator.  Prover and validator must agree   *)
(* on it to the last unit: the bound CFT_maxCommitment that the CFT proofs *)
(* are checked against is such a root.                                     *)
(*                                                                         *)
(* The Babylonian loop is a state machine: one step per iteration.  The    *)
(* two versions differ in how a call enters the loop (impl).               *)
(***************************************************************************)
EXTENDS Arithmetic

CONSTANT Inputs          \* the integers the callers may pass

VARIABLES
    impl,                \* "java" or "go": whose code is running
    pc,                  \* "idle" between calls, "loop" inside the while loop
    input,               \* the argument of the current or last call
    prev2, prev, approx, \* the last three approximations
    outcome,             \* "none", "returned" or "thrown"
    result               \* the returned value

vars == <<impl, pc, input, prev2, prev, approx, outcome, result>>

\* setBit(bitLength / 2): the power of two the iteration starts from.
InitialGuess(n) == 2^(BitLength(n) \div 2)

ASSUME InputsAreIntegers == Inputs \subseteq Int

\* A number with one bit set is positive.
ASSUME GuessIsPositive ==
    \A n \in Inputs : n >= 0 => InitialGuess(n) \in Nat \ {0}

Init ==
    /\ impl \in {"java", "go"}
    /\ pc = "idle"
    /\ input = 0 /\ prev2 = 0 /\ prev = 0 /\ approx = 0
    /\ outcome = "none"
    /\ result = 0

Finish(how, value) ==
    /\ pc' = "idle"
    /\ outcome' = how
    /\ result' = value

\* A negative argument: Java throws IllegalArgumentException, Go returns 0.
CallNegative(i, n) ==
    /\ pc = "idle" /\ n < 0
    /\ impl' = i /\ input' = n
    /\ prev2' = 0 /\ prev' = 0 /\ approx' = 0
    /\ Finish(IF i = "java" THEN "thrown" ELSE "returned", 0)

\* Java only: approximateSquareRoot returns 0 for an argument below 1.
CallJavaZero(n) ==
    /\ pc = "idle" /\ n = 0
    /\ impl' = "java" /\ input' = n
    /\ prev2' = 0 /\ prev' = 0 /\ approx' = 0
    /\ Finish("returned", 0)

\* Every other call sets up the three approximations and enters the loop.
CallLoop(i, n) ==
    /\ pc = "idle"
    /\ IF i = "java" THEN n >= 1 ELSE n >= 0
    /\ impl' = i /\ input' = n
    /\ prev2' = 0 /\ prev' = 0
    /\ approx' = InitialGuess(n)
    /\ pc' = "loop"
    /\ outcome' = "none"
    /\ result' = 0

\* Slip: stopping on a repetition only, not on an alternation.
StillMovingIgnoringAlternation == approx # prev

\* The loop runs until the approximation repeats or alternates.
StillMoving == approx # prev /\ approx # prev2

\* (i / a + a) / 2
Improved(n, a) == ((n \div a) + a) \div 2

\* Slip: the approximation before the last is not remembered.
ImproveForgetsPrev2 ==
    /\ pc = "loop" /\ StillMoving
    /\ prev' = approx
    /\ approx' = Improved(input, approx)
    /\ UNCHANGED <<impl, pc, input, prev2, outcome, result>>

\* One turn of the loop.
Improve ==
    /\ pc = "loop" /\ StillMoving
    /\ prev2' = prev
    /\ prev' = approx
    /\ approx' = Improved(input, approx)
    /\ UNCHANGED <<impl, pc, input, outcome, result>>

\* Slip: the final correction is forgotten.
ReturnUncorrected ==
    /\ pc = "loop" /\ ~StillMoving
    /\ Finish("returned", approx)
    /\ UNCHANGED <<impl, input, prev2, prev, approx>>

\* Slip: the correction is applied whether or not the loop overshot.
ReturnAlwaysOneLess ==
    /\ pc = "loop" /\ ~StillMoving
    /\ Finish("returned", approx - 1)
    /\ UNCHANGED <<impl, input, prev2, prev, approx>>

\* The loop may have settled one above the root: step back, then return.
Return ==
    /\ pc = "loop" /\ ~StillMoving
    /\ Finish("returned", IF approx * approx > input THEN approx - 1 ELSE approx)
    /\ UNCHANGED <<impl, input, prev2, prev, approx>>

Next ==
    \/ \E i \in {"java", "go"}, n \in Inputs : CallNegative(i, n) \/ CallLoop(i, n)
    \/ \E n \in Inputs : CallJavaZero(n)
    \/ Improve
    \/ Return

Spec == Init /\ [][Next]_vars

\* A function call runs to its end: the loop is scheduled, callers need not be.
FairSpec == Spec /\ WF_vars(Improve) /\ WF_vars(Return)

-----------------------------------------------------------------------------
\* Every variable stays in its type: no approximation goes negative.
TypeOK ==
    /\ impl \in {"java", "go"}
    /\ pc \in {"idle", "loop"}
    /\ input \in Int
    /\ prev2 \in Nat /\ prev \in Nat /\ approx \in Nat
    /\ outcome \in {"none", "returned", "thrown"}
    /\ result \in Nat

\* Whatever either implementation returns for a non-negative argument is the
\* floor of its square root: the alternating exit of the loop, the start below
\* the root and the argument 0 (which only Go iterates on) included.
FloorExact ==
    outcome = "returned" /\ input >= 0 => IsFloorRoot(result, input)

\* The loop never divides by an approximation of 0.  For the argument 0 the Go
\* loop does compute the approximation 0, and must stop on prev2 = 0 before
\* using it as a divisor.
NeverDividesByZero == pc = "loop" /\ StillMoving => approx > 0

\* Every call returns: the approximations reach a repetition or an alternation.
EveryCallReturns == pc = "loop" ~> pc = "idle"

=============================================================================
