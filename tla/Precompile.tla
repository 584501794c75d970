----------------------------- MODULE Precompile -----------------------------
(***************************************************************************)
(* The precompiled contract 0x09 of the Go client (core/vm/contracts.go):  *)
(* a caller encodes validate(lower, upper, commitment, proof) as web3 does *)
(* and the client charges the gas, cuts the call data into its parts and   *)
(* parses them.  The data may end early: a caller contract chooses how     *)
(* many bytes of its memory it passes on.  The word with the offset of the *)
(* proof may hold another number than an encoder writes there.             *)
(***************************************************************************)
EXTENDS ByteConversion

CONSTANTS
  Ranges,       \* lower and upper bounds a caller asks about
  CommitTexts,  \* commitments as text
  ProofTexts,   \* proofs as text
  OtherOffsets, \* offsets of the proof that no encoder writes
  IntBytes,     \* bytes of an int64: 8 in Go
  Limit64,      \* 2^63 in Go: an int64 lies in -Limit64 .. Limit64 - 1
  Gas           \* amounts of gas a call may carry

RequiredGas == 180000
OFFSET == 4
WordBytes == 32

VARIABLES
  sent,         \* the arguments the caller encoded
  input,        \* the call data as the contract receives it
  gas,          \* gas left in the call's contract
  slices,       \* the slice expressions evaluated, as <<low, high>> of input
  outcome,      \* "none", an error, "panic" or "validated"
  validated     \* the arguments ValidateRangeProof was called with

contractVars == <<sent, input, gas, slices, outcome, validated>>

NoCall == [lower |-> 0, upper |-> 0, commitment |-> <<>>, proof |-> <<>>, offset |-> 0]

-----------------------------------------------------------------------------
(* The encoder of the caller (web3, not part of the repository). *)

Zeros(n) == [i \in 1 .. n |-> 0]

\* What is left of a number after its last k bytes.
Shifted(n) ==
  LET rest[k \in Nat] == IF k = 0 THEN n ELSE rest[k - 1] \div 256
  IN  rest

\* A number as a 32-byte word.
EncodeWord(n) == [i \in 1 .. WordBytes |-> Shifted(n)[WordBytes - i] % 256]

PaddedLength(n) == ((n + WordBytes - 1) \div WordBytes) * WordBytes

EncodeString(text) ==
  EncodeWord(Len(text)) \o text \o Zeros(PaddedLength(Len(text)) - Len(text))

\* Where the texts start, counted from the first argument
CommitmentOffset == 4 * WordBytes
ProofOffset(commitment) == CommitmentOffset + WordBytes + PaddedLength(Len(commitment))

Encode(args) ==
  Zeros(OFFSET)
  \o EncodeWord(args.lower) \o EncodeWord(args.upper)
  \o EncodeWord(CommitmentOffset) \o EncodeWord(args.offset)
  \o EncodeString(args.commitment) \o EncodeString(args.proof)

Lengths == {Len(text) : text \in CommitTexts \cup ProofTexts} \cup {ProofOffset(text) : text \in CommitTexts}

\* What callers encode fits into a word, and what an encoder measures into an int64.
ASSUME ArgumentsAreEncodable ==
  /\ CommitTexts \cup ProofTexts \subseteq Seq(0 .. 255)
  /\ \A n \in (UNION {{r.lower, r.upper} : r \in Ranges}) \cup OtherOffsets \cup Lengths : n \in Nat /\ Shifted(n)[WordBytes] = 0
  /\ \A n \in Lengths : Shifted(n)[IntBytes] = 0 /\ n + OFFSET + WordBytes < Limit64

\* The low bytes of a word are a number below 2^64.
ASSUME Int64Width ==
  /\ IntBytes \in 1 .. WordBytes /\ Limit64 \in Nat
  /\ \A low \in [1 .. IntBytes -> 0 .. 255] : SetBytes(low) < 2 * Limit64

-----------------------------------------------------------------------------
ContractInit ==
  /\ sent = NoCall /\ input = <<>> /\ gas = 0
  /\ slices = {} /\ outcome = "none" /\ validated = NoCall

\* A caller encodes its arguments, with the offset of the proof or another one, and
\* passes all of the data, or a prefix.
Call ==
  /\ outcome = "none" /\ sent = NoCall
  /\ \E r \in Ranges, c \in CommitTexts, p \in ProofTexts, g \in Gas :
       /\ \E offset \in {ProofOffset(c)} \cup OtherOffsets :
            sent' = [lower |-> r.lower, upper |-> r.upper, commitment |-> c, proof |-> p, offset |-> offset]
       /\ gas' = g
       /\ LET data == Encode(sent')
          IN  \E length \in 0 .. Len(data) : input' = SubSeq(data, 1, length)
  /\ UNCHANGED <<slices, outcome, validated>>

\* input[low:high] of slices in bounds, low and high counted from 0 as in Go
Slice(low, high) == SubSeq(input, low + 1, high)
Bytes32(low) == Slice(low, low + WordBytes)
Word(low) == SetBytes(Bytes32(low))

\* Int64() of a word keeps its low bits; sums of int64 wrap around.
Int64(word) ==
  LET low == SetBytes(SubSeq(word, WordBytes - IntBytes + 1, WordBytes))
  IN  IF low < Limit64 THEN low ELSE low - 2 * Limit64
Plus(m, n) == IF m + n < Limit64 THEN m + n ELSE m + n - 2 * Limit64

StartProof == Plus(Int64(Bytes32(OFFSET + 3 * WordBytes)), OFFSET)
ProofText == Plus(StartProof, WordBytes)
CommitmentStart == OFFSET + 5 * WordBytes

TooShort == Len(input) < OFFSET + 6 * WordBytes

BadProofOffset ==
  StartProof <= CommitmentStart \/ ProofText > Len(input)

CommitmentLength == Int64(Bytes32(OFFSET + 4 * WordBytes))
ProofLength == Int64(Bytes32(StartProof))

BadLengths ==
  \/ CommitmentLength <= 0 \/ ProofLength <= 0
  \/ CommitmentLength > StartProof - CommitmentStart
  \/ ProofLength > Len(input) - ProofText

\* The words read before the offset of the proof is known to be good.
HeadSlices == {<<OFFSET + k * WordBytes, OFFSET + (k + 1) * WordBytes>> : k \in {0, 1, 3}}
\* The slices taken once it is.
BodySlices == {<<OFFSET + 4 * WordBytes, CommitmentStart>>,
               <<CommitmentStart, StartProof>>,
               <<StartProof, ProofText>>,
               <<ProofText, Len(input)>>}
\* The two texts, cut to their declared lengths.
CommitmentSlice == <<CommitmentStart, CommitmentStart + CommitmentLength>>
\* Slip: the length is counted from the word that holds it.
ProofSliceFromLengthWord == <<ProofText, StartProof + ProofLength>>

ProofSlice == <<ProofText, ProofText + ProofLength>>

TextOf(slice) == Slice(slice[1], slice[2])

\* Go panics when a slice leaves the data.
InBounds(s) == 0 <= s[1] /\ s[1] <= s[2] /\ s[2] <= Len(input)
Panic(evaluated) ==
  /\ outcome' = "panic" /\ slices' = evaluated
  /\ UNCHANGED validated

Invalid(evaluated) ==
  /\ outcome' = "invalid input" /\ slices' = evaluated
  /\ UNCHANGED validated

ParseAndValidate ==
  LET commitment == ParseInput(TextOf(CommitmentSlice))
      proof      == ParseInput(TextOf(ProofSlice))
  IN  /\ slices' = HeadSlices \cup BodySlices \cup {CommitmentSlice, ProofSlice}
      /\ IF commitment = NoValue \/ proof = NoValue
           THEN outcome' = "invalid ASCII" /\ UNCHANGED validated
           ELSE /\ outcome' = "validated"
                /\ validated' = [lower |-> Word(OFFSET), upper |-> Word(OFFSET + WordBytes),
                                 commitment |-> commitment[1], proof |-> proof[1]]

Run ==
  IF TooShort THEN Invalid({})
  ELSE IF BadProofOffset THEN Invalid(HeadSlices)
  ELSE IF \E s \in BodySlices : ~InBounds(s) THEN Panic(HeadSlices \cup BodySlices)
  ELSE IF BadLengths THEN Invalid(HeadSlices \cup BodySlices)
  ELSE ParseAndValidate

RunPrecompiledContract ==
  /\ sent # NoCall /\ outcome = "none"
  /\ IF gas < RequiredGas
       THEN outcome' = "out of gas" /\ UNCHANGED <<gas, slices, validated>>
       ELSE gas' = gas - RequiredGas /\ Run
  /\ UNCHANGED <<sent, input>>

\* The contract keeps no state: the next call starts afresh.
Return ==
  /\ outcome # "none"
  /\ sent' = NoCall /\ input' = <<>> /\ gas' = 0
  /\ slices' = {} /\ outcome' = "none" /\ validated' = NoCall

ContractNext == Call \/ RunPrecompiledContract \/ Return

ContractSpec == ContractInit /\ [][ContractNext]_contractVars

-----------------------------------------------------------------------------
(* Properties. *)

\* The data is as an encoder makes it.
Encoded == sent.offset = ProofOffset(sent.commitment)

WellFormedCall ==
  /\ input = Encode(sent) /\ Encoded
  /\ \A text \in {sent.commitment, sent.proof} : text # <<>> /\ ParseInput(text) # NoValue

\* Complete call data with two non-empty numeric texts reaches the validator,
\* whatever the lengths of the texts are relative to the 32-byte words; only
\* the gas can prevent it (contracts.go:401-436).
CompleteCallIsValidated ==
  outcome \notin {"none", "out of gas"} /\ WellFormedCall => outcome = "validated"

\* However early the data ends, and wherever its offset word points, the validator is
\* never asked about other bounds or another commitment than the caller encoded, nor
\* about another proof if the offset is that of the proof.
OnlyWhatWasSent ==
  outcome = "validated" =>
    /\ validated.lower = sent.lower /\ validated.upper = sent.upper
    /\ <<validated.commitment>> = ParseInput(sent.commitment)
    /\ Encoded => <<validated.proof>> = ParseInput(sent.proof)

\* No slice expression of Run leaves the call data, for data of any length and any
\* offset word but those that put the start of the proof less than a word below the
\* largest int64: there startProof + 32 wraps around and passes the check.
SlicesInBounds ==
  \A s \in slices : InBounds(s) \/ StartProof + WordBytes >= Limit64

\* The contract validates the arguments the caller encoded, or none, and those of
\* complete call data that is paid for it does validate; every slice of the call data
\* lies inside it, however early the data ends and wherever the proof is said to be,
\* short of the last word below the largest int64.
ValidatesWhatWasSent == OnlyWhatWasSent /\ CompleteCallIsValidated /\ SlicesInBounds

-----------------------------------------------------------------------------
(* What the code does not keep; no run checks it.                           *)

\* The check of the offset lets no slice leave the data: not for the offset words from
\* 2^63 - 36 to 2^63 - 5 (modulo 2^64), where the slice that ends at startProof does.
NeverPanics == outcome # "panic"
=============================================================================
