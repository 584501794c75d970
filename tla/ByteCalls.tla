------------------------------ MODULE ByteCalls ------------------------------
(***************************************************************************)
(* Calls of package byteconversion, one per step, with what they return    *)
(* compared to reference definitions: the value a two's complement array   *)
(* stands for, the array Java's BigInteger.toByteArray makes, and the      *)
(* fields between the commas of a text.                                    *)
(***************************************************************************)
EXTENDS ByteConversion, FiniteSets

CONSTANTS
  Numbers,      \* numbers that are hashed or sent
  Arrays,       \* byte arrays that are decoded
  Texts         \* texts that are parsed

VARIABLES
  call,         \* the function that was called last
  arg,          \* its arguments
  result,       \* the numbers it returned
  err           \* whether it returned an error

callVars == <<call, arg, result, err>>

ASSUME CallsAreTyped ==
  Numbers \subseteq Int /\ Arrays \cup Texts \subseteq Seq(0 .. 255)

CallsInit == call = "none" /\ arg = <<>> /\ result = <<>> /\ err = FALSE

Called(name, input, output, failed) ==
  /\ call = "none"
  /\ call' = name /\ arg' = input /\ result' = output /\ err' = failed

CallToByteArray == \E n \in Numbers : Called("ToByteArray", <<n>>, ToByteArray(n), FALSE)

CallFromByteArray ==
  \E b \in Arrays : Called("FromByteArray", b, FromByteArray(b), FromByteArray(b) = NoValue)

\* Of one number or of two
CallCalculateHash ==
  \E b1 \in Numbers \cap Nat, n \in Numbers \cap Nat : \E b2 \in {NoValue, <<n>>} :
    Called("CalculateHash", <<b1>> \o b2, DigestInput(b1, b2), FALSE)

CallParseInput ==
  \E t \in Texts :
    LET parsed == ParseInput(t)
    IN  IF parsed = NoValue THEN Called("ParseInput", t, <<>>, TRUE)
        ELSE Called("ParseInput", t, parsed[1], FALSE)

\* The package keeps no state: the next call starts afresh.
NextCall == call # "none" /\ call' = "none" /\ arg' = <<>> /\ result' = <<>> /\ err' = FALSE

CallsNext == CallToByteArray \/ CallFromByteArray \/ CallCalculateHash
             \/ CallParseInput \/ NextCall

CallsSpec == CallsInit /\ [][CallsNext]_callVars

-----------------------------------------------------------------------------
(* References. *)

\* How many values k bytes have.
Span(k) ==
  LET span[j \in Nat] == IF j = 0 THEN 1 ELSE 256 * span[j - 1]
  IN  span[k]

\* The value of a two's complement array: its top bit counts negative.
TwosComplement(bytes) ==
  SetBytes(bytes) - (IF HighBit(Head(bytes)) THEN Span(Len(bytes)) ELSE 0)

\* The least length that has room for the magnitude of a number and a sign bit.  For
\* a number that is not negative it is the length of Java's array; Java's array is one
\* byte shorter for -128, -128 * 256, -128 * 256^2 and so on, and for no other number.
LeastLength(n, length) ==
  /\ Magnitude(n) < 128 * Span(length - 1)
  /\ length > 1 => Magnitude(n) >= 128 * Span(length - 2)

\* BigInteger.toByteArray of a number that is not negative: bytes are cut off the
\* end until what is left fits into seven bits.
JavaToByteArray(n) ==
  LET java[a \in Nat] == IF a < 128 THEN <<a>> ELSE Append(java[a \div 256], a % 256)
  IN  java[n]

\* The characters that belong into a list of decimal numbers: commas, digits, and a
\* minus at the start of a number.
Belongs(t, i) ==
  \/ t[i] = Comma \/ IsDigit(t[i])
  \/ t[i] = Minus /\ (i = 1 \/ t[i - 1] = Comma)

\* ends lists the ends of the fields of a text in order: its commas and its end.
EndsFields(t, ends) ==
  /\ {ends[k] : k \in DOMAIN ends} = {i \in DOMAIN t : t[i] = Comma} \cup {Len(t) + 1}
  /\ \A k \in DOMAIN ends : k > 1 => ends[k - 1] < ends[k]

\* The k-th field of a text with these ends
Field(t, ends, k) == SubSeq(t, (IF k = 1 THEN 1 ELSE ends[k - 1] + 1), ends[k] - 1)

-----------------------------------------------------------------------------
(* Properties. *)

\* ToByteArray makes the two's complement of a number of either sign, at and around the
\* powers of 256, in the least length with room for the magnitude and a sign bit;
\* FromByteArray reads it back, decodes every array, padded ones included, and refuses
\* the empty one.  Both validators feed their hash the same bytes for the numbers they
\* hash, which are not negative; for negative numbers the lengths differ from Java's
\* where LeastLength says so (conversion.go:30-107, zkp_validator.go:176-186 against
\* DigestUtil.calculateHash).
ConvertsExactly ==
  /\ call = "ToByteArray" =>
       /\ TwosComplement(result) = arg[1] /\ FromByteArray(result) = arg
       /\ LeastLength(arg[1], Len(result))
  /\ call = "FromByteArray" => IF arg = <<>> THEN err ELSE ~err /\ result = <<TwosComplement(arg)>>
  /\ call = "CalculateHash" =>
       result = JavaToByteArray(arg[1])
                \o (IF Len(arg) = 1 THEN <<>> ELSE JavaToByteArray(arg[2]))

\* ParseInput rejects a text exactly if it holds a character that does not belong into
\* a list of decimal numbers, and otherwise returns one number per field in the order
\* of the text (parse.go:29-68).
ParsesEveryField ==
  call = "ParseInput" =>
    IF \E i \in DOMAIN arg : ~Belongs(arg, i) THEN err
    ELSE /\ ~err
         /\ \E ends \in [DOMAIN result -> 1 .. Len(arg) + 1] :
              EndsFields(arg, ends) /\ \A k \in DOMAIN result : result[k] = SetString(Field(arg, ends, k))

\* Numbers become their two's complement and are read back, the bytes that are hashed are
\* Java's, and a text is parsed into its fields or rejected.
CallsAreExact == ConvertsExactly /\ ParsesEveryField

-----------------------------------------------------------------------------
(* What comments of the code say and the code does not keep: the README has  *)
(* the behaviours.  No run checks these.                                     *)

\* The comment of ToByteArray: "The array will contain the minimum number of
\* bytes required to represent this BigInteger" (conversion.go:66-67).  For -128 and
\* its multiples by powers of 256 it contains one more.
MinimumNumberOfBytes ==
  call = "ToByteArray" =>
    Len(result) = Len(JavaToByteArray(IF arg[1] < 0 THEN -(arg[1] + 1) ELSE arg[1]))
=============================================================================
