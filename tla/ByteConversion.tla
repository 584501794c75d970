--------------------------- MODULE ByteConversion ---------------------------
(***************************************************************************)
(* Package byteconversion of the Go client: numbers to and from two's      *)
(* complement byte arrays (conversion.go) and comma-separated decimal text *)
(* to numbers (parse.go).  Byte arrays are sequences over 0..255; text is  *)
(* a sequence of ASCII codes.  A function that may fail returns a pair of  *)
(* a value and an error in Go: here <<value>>, or NoValue for the error.   *)
(***************************************************************************)
EXTENDS Integers, Sequences, SequencesExt

NoValue == <<>>

-----------------------------------------------------------------------------
(* math/big as the package uses it. *)

Magnitude(n) == IF n < 0 THEN -n ELSE n

\* big.Int.SetBytes: the bytes as an unsigned big-endian number.
SetBytes(bytes) ==
  LET value[i \in Nat] == IF i = 0 THEN 0 ELSE 256 * value[i - 1] + bytes[i]
  IN  value[Len(bytes)]

\* big.Int.Bytes: the magnitude without leading zero bytes; empty for 0.
Bytes(n) ==
  LET bytes[a \in Nat] == IF a = 0 THEN <<>> ELSE Append(bytes[a \div 256], a % 256)
  IN  bytes[Magnitude(n)]

\* big.Int.SetString(s, 10) on text that passed the validation of
\* ConvertToBigInt.  On text without a digit it reports a failure the caller
\* ignores, and leaves the freshly made number 0.
SetString(text) ==
  LET negative == text # <<>> /\ Head(text) = 45
      digits   == IF negative THEN Tail(text) ELSE text
      value    == FoldLeft(LAMBDA acc, c : 10 * acc + (c - 48), 0, digits)
  IN  IF negative THEN -value ELSE value

-----------------------------------------------------------------------------
(* conversion.go *)

HighBit(b) == b >= 128

FlipBytes(bytesIn) == [i \in DOMAIN bytesIn |-> 255 - bytesIn[i]]

\* Slip: a negative number with its high bit set is not prefixed by a sign byte.
ToByteArrayUnsigned(in) ==
  LET bytes == Bytes(in)
  IN  IF bytes = <<>> THEN <<0>>
      ELSE IF in >= 0 THEN (IF HighBit(Head(bytes)) THEN <<0>> \o bytes ELSE bytes)
      ELSE Bytes(SetBytes(FlipBytes(bytes)) + 1)

ToByteArray(in) ==
  LET bytes  == Bytes(in)
      prefix == IF ~HighBit(Head(bytes)) THEN <<>> ELSE IF in < 0 THEN <<255>> ELSE <<0>>
  IN  IF bytes = <<>> THEN <<0>>
      ELSE IF in >= 0 THEN prefix \o bytes
      ELSE Bytes(SetBytes(prefix \o FlipBytes(bytes)) + 1)

\* The result, or the error for an empty array.  The two branches on the first
\* byte of tmpBytes write the flipped bytes with and without a leading zero.
FromByteArray(bytesIn) ==
  IF bytesIn = <<>> THEN NoValue
  ELSE IF HighBit(Head(bytesIn))
    THEN LET tmpBytes == Bytes(SetBytes(bytesIn) - 1)
             flipped  == FlipBytes(tmpBytes)
         IN  <<-SetBytes(IF Head(tmpBytes) = 255 THEN Tail(flipped) ELSE flipped)>>
    ELSE <<SetBytes(bytesIn)>>

\* zkp_validator.go: what CalculateHash writes into the digest; b2 is a number or nil.
DigestInput(b1, b2) ==
  ToByteArray(b1) \o (IF b2 = NoValue THEN <<>> ELSE ToByteArray(b2[1]))

-----------------------------------------------------------------------------
(* parse.go *)

Comma == 44
Minus == 45
IsDigit(c) == c \in 48 .. 57

ConvertToBigInt(in) ==
  IF \E i \in DOMAIN in : ~(IsDigit(in[i]) \/ (i = 1 /\ in[i] = Minus))
    THEN NoValue
    ELSE <<SetString(in)>>

\* The state of the loop of ParseInput before the byte at position index:
\* where the current number starts and the numbers before it, or the error.
ParseStart == [prevIndex |-> 1, output |-> <<>>, err |-> FALSE]

ParseNumber(in, loop, until) ==
  LET number == ConvertToBigInt(SubSeq(in, loop.prevIndex, until - 1))
  IN  IF number = NoValue
        THEN [loop EXCEPT !.err = TRUE]
        ELSE [loop EXCEPT !.output = @ \o number, !.prevIndex = until + 1]

ParseByte(in, loop, index) ==
  IF loop.err \/ in[index] # Comma THEN loop ELSE ParseNumber(in, loop, index)

ParseInput(in) ==
  LET loop[index \in Nat] ==
        IF index = 0 THEN ParseStart ELSE ParseByte(in, loop[index - 1], index)
      commas == loop[Len(in)]
      done   == IF commas.err THEN commas ELSE ParseNumber(in, commas, Len(in) + 1)
  IN  IF done.err THEN NoValue ELSE <<done.output>>
=============================================================================
