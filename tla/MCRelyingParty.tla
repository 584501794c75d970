--------------------------- MODULE MCRelyingParty ---------------------------
(***************************************************************************)
(* The ticket shop for TLC: a uPort app with the government's commitments  *)
(* to 1990 and, for a younger customer, to 2005, one to 1940 that somebody *)
(* else issued, one to 1941 whose signature is wrong, and honest proofs    *)
(* for the first three.                                                    *)
(***************************************************************************)
EXTENDS RelyingParty

Mine == [year |-> 1990, from |-> "government"]
Minor == [year |-> 2005, from |-> "government"]
Friends == [year |-> 1940, from |-> "friend"]
Altered == [year |-> 1941, from |-> "altered"]

MCEntries == {[integer |-> TRUE, value |-> 1900]}

MCAttestations ==
    {[sub |-> TRUE, iss |-> TRUE, signed |-> TRUE, claim |-> Mine],
     [sub |-> TRUE, iss |-> TRUE, signed |-> TRUE, claim |-> Minor],
     [sub |-> TRUE, iss |-> FALSE, signed |-> TRUE, claim |-> Friends],
     [sub |-> TRUE, iss |-> TRUE, signed |-> FALSE, claim |-> Altered]}

MCWalletProofs ==
    {[commitment |-> Mine, lo |-> 1900, hi |-> 1999],
     [commitment |-> Minor, lo |-> 1900, hi |-> 2010],
     [commitment |-> Friends, lo |-> 1900, hi |-> 1952]}
=============================================================================
