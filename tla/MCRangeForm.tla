---------------------------- MODULE MCRangeForm ----------------------------
(***************************************************************************)
(* The range fields for TLC: two years, the empty text and a text that is  *)
(* no integer.                                                             *)
(***************************************************************************)
EXTENDS RangeForm

MCEntries == {[integer |-> TRUE, value |-> 1900], [integer |-> TRUE, value |-> 1999],
              [integer |-> TRUE, value |-> 0], [integer |-> FALSE, value |-> 7]}
=============================================================================
