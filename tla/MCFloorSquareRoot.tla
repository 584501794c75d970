-------------------------- MODULE MCFloorSquareRoot --------------------------
(***************************************************************************)
(* Model checking of FloorSquareRoot: every argument from -MaxNegative to  *)
(* MaxInput, in both implementations.                                      *)
(***************************************************************************)
EXTENDS FloorSquareRoot

CONSTANTS MaxNegative, MaxInput

MCInputs == (-MaxNegative)..MaxInput
=============================================================================
