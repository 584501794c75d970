------------------------------ MODULE MCService -------------------------------
(***************************************************************************)
(* The way of a credential, in four parts that share no state: the group   *)
(* it is committed in (GroupGenerator), the issuer and intermediary pages   *)
(* with the demo server (Credentials), the encoding and parsing of numbers  *)
(* (ByteCalls) and the precompiled contract (Precompile).  A behaviour      *)
(* takes the steps of one part; the others rest in their initial state.     *)
(***************************************************************************)
EXTENDS Credentials, ByteCalls, Precompile, GroupGenerator

VARIABLE part

-----------------------------------------------------------------------------
(* Two TTP messages, loads that may mix their halves, a foreign attestation, *)
(* ranges whose ends are the year itself.                                   *)

MCYears == {1999}       \* besides the -1 the page starts with
MCEntries == {[integer |-> TRUE, value |-> 1999]}
MCForeign == {[name |-> "privateVars", message |-> 1, genuine |-> FALSE]}

-----------------------------------------------------------------------------
(* Numbers of one to three bytes around every change of length, arrays of   *)
(* up to three bytes with all edge values, texts of up to four characters.  *)

Around(n) == (n - 2) .. (n + 2)
MCNumbers == UNION {Around(n) : n \in {0, 127, 255, 32768, 65535, 8388605,
                                     -128, -256, -32768, -65536, -8388605}}
MCArrays == UNION {[1 .. n -> {0, 1, 127, 128, 254, 255}] : n \in 0 .. 3}
\* 0, 1, 9, minus, comma, and a character that is none of them
MCTexts == UNION {[1 .. n -> {48, 49, 57, 45, 44, 32}] : n \in 0 .. 4}

-----------------------------------------------------------------------------
(* Texts that end just before, at and just behind a 32-byte word, an empty  *)
(* one and one that is no number; every prefix of the call data, with not   *)
(* quite enough and more than enough gas.                                   *)

\* A list of one-digit numbers, n characters long
ListText(n) == [i \in 1 .. n |-> IF i % 2 = 0 THEN 44 ELSE 48 + (i % 10)]
MCCommitTexts == {ListText(n) : n \in {0, 32, 33}} \cup {<<49, 32>>}
MCProofTexts == {ListText(32), <<45, 49, 44, 50>>}
MCRanges == {[lower |-> 0, upper |-> 1900]}

\* Int64 has two bytes here.  Offsets that lie before and inside the texts, the first and
\* the last one where startProof + 32 wraps around and their neighbours, a negative one,
\* and two that Int64 makes the proof's own.
MCOffsets == {0, 160, 194, 225, 32731, 32732, 32763, 32764, 65535, 65728, 65760}

-----------------------------------------------------------------------------
(* Three safe primes, in either order, and a prime that is not safe.        *)

MCPrimes == {7, 11, 13, 23}

ASSUME GroupConstants

-----------------------------------------------------------------------------

ServiceInit ==
  /\ part \in {"credentials", "bytes", "contract", "group"}
  /\ Init /\ CallsInit /\ ContractInit /\ GroupInit

ServiceNext ==
  /\ UNCHANGED part
  /\ \/ part = "credentials" /\ Next /\ UNCHANGED <<callVars, contractVars, groupVars>>
     \/ part = "bytes" /\ CallsNext /\ UNCHANGED <<vars, contractVars, groupVars>>
     \/ part = "contract" /\ ContractNext /\ UNCHANGED <<vars, callVars, groupVars>>
     \/ part = "group" /\ GroupNext /\ UNCHANGED <<vars, callVars, contractVars>>

serviceVars == <<part, vars, callVars, contractVars, groupVars>>

\* The fairness of the demo server, as in Credentials.
ServiceSpec ==
  /\ ServiceInit /\ [][ServiceNext]_serviceVars
  /\ \A id \in 1 .. MaxRequests : WF_vars(part = "credentials" /\ ServerHandles(id))
=============================================================================
