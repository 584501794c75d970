---------------------------- MODULE ServiceProofs ----------------------------
(***************************************************************************)
(* Three theorems about the way of a credential.  Issuer, uPort app,        *)
(* intermediary and server together implement the proof service, for every  *)
(* set of years, entries and foreign attestations and all bounds: a range   *)
(* proof leaves the server only for a TTP message that was made and a range *)
(* its year lies in.  The precompiled contract validates what its caller    *)
(* encoded, for every set of bounds and texts that can be encoded, every    *)
(* offset word and every amount of gas, and slices inside the data unless   *)
(* an int64 overflows.  And package byteconversion converts and parses exactly, *)
(* for all numbers, byte arrays and texts.                                  *)
(***************************************************************************)
EXTENDS Credentials, ByteCalls, Precompile, SequenceTheorems, WellFoundedInduction, NaturalsInduction, TLAPS

-----------------------------------------------------------------------------
(* The proof service. *)

TypedYears == Years \cup {-1}

\* A number that stands for a TTP message stands for one that was made.
Made(n) == n \in 0 .. Len(issued)

YearsInv ==
  /\ issued \in Seq(TypedYears)
  /\ varXInput \in TypedYears
  /\ \A request \in ttpRequests : request.X \in TypedYears

\* Every place in which halves of messages are kept, on their way to the server
HalvesInv ==
  /\ page1 \in [Credentials -> Nat] /\ \A c \in Credentials : Made(page1[c])
  /\ \A att \in wallet.halves : att.genuine => Made(att.message)
  /\ page2 \in [commitment : Nat, privateVars : Nat, rangeproof : {page2.rangeproof}]
  /\ Made(page2.commitment) /\ Made(page2.privateVars)
  /\ \A request \in proofRequests : Made(request.commitment) /\ Made(request.privateVars)

PromiseInv == YearsInv /\ HalvesInv

\* The invariant of the promise holds at the start.
LEMMA PromiseInit ==
  ASSUME Init
  PROVE  PromiseInv /\ Promise!Init
<1>1. YearsInv
  BY DEF Init, YearsInv, TypedYears
<1>2. issued = <<>> /\ Len(issued) = 0
  BY DEF Init
<1>3. Made(0)
  BY <1>2 DEF Made
<1>4. page1 \in [Credentials -> Nat] /\ \A c \in Credentials : Made(page1[c])
  BY <1>3 DEF Init, Missing
<1>5. \A att \in wallet.halves : att.genuine => Made(att.message)
  BY ForeignIsNotGenuine DEF Init
<1>6. /\ page2 \in [commitment : Nat, privateVars : Nat, rangeproof : {page2.rangeproof}]
      /\ Made(page2.commitment) /\ Made(page2.privateVars)
  BY <1>3 DEF Init, Missing
<1>7. HalvesInv
  BY <1>4, <1>5, <1>6 DEF HalvesInv, Init
<1> QED
  BY <1>1, <1>7 DEF PromiseInv, Init, Promise!Init

\* The steps that make no message
LEMMA IssuedUnchanged ==
  ASSUME PromiseInv, issued' = issued, varXInput' \in TypedYears,
         \A request \in ttpRequests' : request.X \in TypedYears
  PROVE  YearsInv' /\ \A n : Made(n)' <=> Made(n)
  BY DEF PromiseInv, YearsInv, Made

\* The steps of the issuer page and its server keep it.
LEMMA IssuerKeeps ==
  ASSUME PromiseInv, IssuerStep
  PROVE  PromiseInv' /\ [Promise!Next]_<<issued, proved>>
<1> USE DEF PromiseInv
<1>1. ASSUME NEW year \in Years, HandleYearChange(year)
      PROVE  PromiseInv' /\ UNCHANGED <<issued, proved>>
  <2>1. YearsInv' /\ \A n : Made(n)' <=> Made(n)
    BY <1>1, IssuedUnchanged DEF HandleYearChange, YearsInv, TypedYears
  <2>2. UNCHANGED <<page1, wallet, page2, proofRequests, issued, proved>>
    BY <1>1 DEF HandleYearChange, intermediaryVars
  <2> QED
    BY <2>1, <2>2 DEF HalvesInv
<1>2. ASSUME RetrieveTTPMessage
      PROVE  PromiseInv' /\ UNCHANGED <<issued, proved>>
  <2>1. YearsInv' /\ \A n : Made(n)' <=> Made(n)
    BY <1>2, IssuedUnchanged DEF RetrieveTTPMessage, YearsInv
  <2>2. UNCHANGED <<page1, wallet, page2, proofRequests, issued, proved>>
    BY <1>2 DEF RetrieveTTPMessage, intermediaryVars
  <2> QED
    BY <2>1, <2>2 DEF HalvesInv
<1>3. ASSUME NEW request \in ttpRequests, TTPMessageArrives(request)
      PROVE  PromiseInv' /\ Promise!Issue
  <2>1. request.X \in TypedYears /\ issued' = Append(issued, request.X)
    BY <1>3 DEF TTPMessageArrives, YearsInv
  <2>2. /\ issued \in Seq(TypedYears) /\ issued' \in Seq(TypedYears)
        /\ Len(issued) \in Nat /\ Len(issued') = Len(issued) + 1
    BY <2>1 DEF YearsInv
  <2>3. YearsInv'
    BY <1>3, <2>2 DEF TTPMessageArrives, YearsInv
  <2>4. \A n : Made(n) => Made(n)'
    BY <2>2 DEF Made
  <2>5. page1' \in [Credentials -> Nat] /\ \A c \in Credentials : Made(page1[c])'
    BY <1>3, <2>2 DEF TTPMessageArrives, Made
  <2>6. UNCHANGED <<wallet, page2, proofRequests, proved>>
    BY <1>3 DEF TTPMessageArrives, intermediaryVars
  <2>7. HalvesInv'
    BY <2>4, <2>5, <2>6 DEF HalvesInv
  <2>8. Promise!Issue
    BY <2>1, <2>6 DEF Promise!Issue, TypedYears
  <2> QED
    BY <2>3, <2>7, <2>8
<1>4. ASSUME NEW request \in ttpRequests, TTPMessageLost(request)
      PROVE  PromiseInv' /\ UNCHANGED <<issued, proved>>
  <2>1. YearsInv' /\ \A n : Made(n)' <=> Made(n)
    BY <1>4, IssuedUnchanged DEF TTPMessageLost, YearsInv
  <2>2. UNCHANGED <<page1, wallet, page2, proofRequests, issued, proved>>
    BY <1>4 DEF TTPMessageLost, intermediaryVars
  <2> QED
    BY <2>1, <2>2 DEF HalvesInv
<1>5. ASSUME NEW c \in Credentials, Attest(c)
      PROVE  PromiseInv' /\ UNCHANGED <<issued, proved>>
  <2>1. UNCHANGED <<varXInput, ttpRequests, page1, page2, proofRequests, issued, proved>>
    BY <1>5 DEF Attest, issuerVars, intermediaryVars
  <2>2. YearsInv' /\ \A n : Made(n)' <=> Made(n)
    BY <2>1, IssuedUnchanged DEF YearsInv
  <2>3. wallet'.halves \subseteq wallet.halves \cup {CredentialHalf(c, page1[c])}
    BY <1>5 DEF Attest
  <2>4. \A att \in wallet'.halves : att.genuine => Made(att.message)
    BY <2>3 DEF HalvesInv, CredentialHalf
  <2> QED
    BY <2>1, <2>2, <2>4 DEF HalvesInv
<1> QED
  BY <1>1, <1>2, <1>3, <1>4, <1>5 DEF IssuerStep, Promise!Next

\* So do those of the intermediary page and its server.
LEMMA IntermediaryKeeps ==
  ASSUME PromiseInv, IntermediaryStep
  PROVE  PromiseInv' /\ [Promise!Next]_<<issued, proved>>
<1> USE DEF PromiseInv
<1>0. ASSUME UNCHANGED <<varXInput, page1, ttpRequests, issued>>
      PROVE  YearsInv' /\ \A n : Made(n)' <=> Made(n)
  BY <1>0, IssuedUnchanged DEF YearsInv
<1>1. ASSUME \/ EditRange \/ AttestRangeproof
             \/ \E c \in Credentials : LoadAttestation(c) \/ NoAttestationArrives(c)
      PROVE  PromiseInv' /\ UNCHANGED <<issued, proved>>
  <2>1. /\ UNCHANGED <<varXInput, page1, ttpRequests, issued, page2, proofRequests, proved>>
        /\ wallet'.halves = wallet.halves
    <3>1. CASE EditRange
      BY <3>1 DEF EditRange, issuerVars
    <3>2. CASE AttestRangeproof
      BY <3>2 DEF AttestRangeproof, issuerVars, intermediaryVars, HalvesInv
    <3>3. CASE \E c \in Credentials : LoadAttestation(c) \/ NoAttestationArrives(c)
      BY <3>3 DEF LoadAttestation, NoAttestationArrives, issuerVars
    <3> QED
      BY <1>1, <3>1, <3>2, <3>3
  <2> QED
    BY <1>0, <2>1 DEF HalvesInv
<1>2. ASSUME NEW c \in Credentials, NEW att \in wallet.halves, AttestationArrives(c, att)
      PROVE  PromiseInv' /\ UNCHANGED <<issued, proved>>
  <2>1. UNCHANGED <<varXInput, page1, ttpRequests, issued, wallet, proofRequests, proved>>
    BY <1>2 DEF AttestationArrives, issuerVars
  <2>2. CASE ~att.genuine
    BY <1>0, <1>2, <2>1, <2>2 DEF AttestationArrives, HalvesInv
  <2>3. CASE att.genuine
    <3>1. Made(att.message) /\ att.message \in Nat
      BY <2>3 DEF HalvesInv, Made, YearsInv
    <3>2. page2' = [page2 EXCEPT ![c] = att.message]
      BY <1>2, <2>3 DEF AttestationArrives
    <3>3. CASE c = "commitment"
      <4>1. /\ page2' \in [commitment : Nat, privateVars : Nat, rangeproof : {page2'.rangeproof}]
            /\ page2'.commitment = att.message /\ page2'.privateVars = page2.privateVars
        BY <3>1, <3>2, <3>3 DEF HalvesInv
      <4> QED
        BY <1>0, <2>1, <3>1, <4>1 DEF HalvesInv
    <3>4. CASE c = "privateVars"
      <4>1. /\ page2' \in [commitment : Nat, privateVars : Nat, rangeproof : {page2'.rangeproof}]
            /\ page2'.privateVars = att.message /\ page2'.commitment = page2.commitment
        BY <3>1, <3>2, <3>4 DEF HalvesInv
      <4> QED
        BY <1>0, <2>1, <3>1, <4>1 DEF HalvesInv
    <3> QED
      BY <3>3, <3>4 DEF Credentials
  <2> QED
    BY <2>2, <2>3
<1>3. ASSUME RetrieveRangeProof
      PROVE  PromiseInv' /\ UNCHANGED <<issued, proved>>
  <2>1. UNCHANGED <<varXInput, page1, ttpRequests, issued, wallet, page2, proved>>
    BY <1>3 DEF RetrieveRangeProof, issuerVars
  <2>2. \A request \in proofRequests' :
          Made(request.commitment) /\ Made(request.privateVars)
    BY <1>3 DEF RetrieveRangeProof, HalvesInv
  <2> QED
    BY <1>0, <2>1, <2>2 DEF HalvesInv
<1>4. ASSUME NEW request \in proofRequests, ServerProves(request)
      PROVE  PromiseInv' /\ Promise!Prove
  <2>1. /\ UNCHANGED <<varXInput, page1, ttpRequests, issued, wallet, page2>>
        /\ proofRequests' \subseteq proofRequests
    BY <1>4 DEF ServerProves, issuerVars
  <2>2. PromiseInv'
    BY <1>0, <2>1 DEF HalvesInv
  <2>3. request.commitment \in 1 .. Len(issued)
    BY <1>4 DEF ServerProves, Refused, Parsed, Missing, HalvesInv, Made, YearsInv
  <2>4. Promise!TrueStatement(Proof(request))
    BY <1>4, <2>3 DEF ServerProves, Refused, RangeContains, SelfCheck, Proof,
                      Promise!TrueStatement, YearsInv
  <2>5. Promise!Prove
    BY <1>4, <2>1, <2>4 DEF ServerProves, Promise!Prove
  <2> QED
    BY <2>2, <2>5
<1>5. ASSUME NEW request \in proofRequests, ServerRefuses(request)
      PROVE  PromiseInv' /\ UNCHANGED <<issued, proved>>
  <2>1. /\ UNCHANGED <<varXInput, page1, ttpRequests, issued, wallet, page2, proved>>
        /\ proofRequests' \subseteq proofRequests
    BY <1>5 DEF ServerRefuses, issuerVars
  <2> QED
    BY <1>0, <2>1 DEF HalvesInv
<1>6. ASSUME NEW answer \in answers, RangeProofArrives(answer) \/ RangeProofLost(answer)
      PROVE  PromiseInv' /\ UNCHANGED <<issued, proved>>
  <2>1. UNCHANGED <<varXInput, page1, ttpRequests, issued, wallet, proofRequests, proved>>
    BY <1>6 DEF RangeProofArrives, RangeProofLost, issuerVars
  <2>2. /\ page2' \in [commitment : Nat, privateVars : Nat, rangeproof : {page2'.rangeproof}]
        /\ page2'.commitment = page2.commitment /\ page2'.privateVars = page2.privateVars
    BY <1>6 DEF RangeProofArrives, RangeProofLost, HalvesInv
  <2> QED
    BY <1>0, <2>1, <2>2 DEF HalvesInv
<1> QED
  BY <1>1, <1>2, <1>3, <1>4, <1>5, <1>6 DEF IntermediaryStep, Promise!Next

\* For every set of years, entries and foreign attestations, and however clicks, loads and
\* answers interleave, the pages and the server implement the proof service.
THEOREM ImplementsService == Spec => KeepsPromise
<1>1. Init => PromiseInv /\ Promise!Init
  BY PromiseInit
<1>2. PromiseInv /\ [Next]_vars => PromiseInv' /\ [Promise!Next]_<<issued, proved>>
  <2> SUFFICES ASSUME PromiseInv, [Next]_vars
               PROVE  PromiseInv' /\ [Promise!Next]_<<issued, proved>>
    OBVIOUS
  <2>1. CASE Next
    BY <2>1, IssuerKeeps, IntermediaryKeeps DEF Next
  <2>2. CASE UNCHANGED vars
    BY <2>2 DEF vars, issuerVars, intermediaryVars, PromiseInv, YearsInv, HalvesInv, Made
  <2> QED
    BY <2>1, <2>2
<1> QED
  BY <1>1, <1>2, PTL DEF Spec, KeepsPromise, Promise!Spec

-----------------------------------------------------------------------------
(* The recursions of SetBytes, Shifted, Bytes, Span, JavaToByteArray and     *)
(* ParseInput have solutions.                                               *)

\* A set of numbers that is not empty has a least one.
LEMMA LeastNumber ==
  ASSUME NEW S \in SUBSET Nat, S # {} PROVE \E n \in S : \A m \in S : n <= m
<1>1. PICK n \in S : \A m \in S : ~(<<m, n>> \in OpToRel(<, Nat))
  BY NatLessThanWellFounded, WFMin, Zenon
<1>2. ASSUME NEW m \in S, ~(n <= m) PROVE FALSE
  <2>1. <<m, n>> \in OpToRel(<, Nat)
    BY <1>2 DEF OpToRel
  <2> QED BY <1>1, <2>1
<1> QED BY <1>2

\* One step of a recursion on f: x is a number to shift, bytes to add up or a text.
StepOf(op, x, f, k) ==
  IF op = "shift" THEN (IF k = 0 THEN x ELSE f[k - 1] \div 256)
  ELSE IF op = "add" THEN (IF k = 0 THEN 0 ELSE 256 * f[k - 1] + x[k])
  ELSE IF op = "span" THEN (IF k = 0 THEN 1 ELSE 256 * f[k - 1])
  ELSE IF op = "bytes" THEN (IF k = 0 THEN <<>> ELSE Append(f[k \div 256], k % 256))
  ELSE IF op = "java" THEN (IF k < 128 THEN <<k>> ELSE Append(f[k \div 256], k % 256))
  ELSE (IF k = 0 THEN ParseStart ELSE ParseByte(x, f[k - 1], k))

\* A step looks back only.
LEMMA StepLooksBack ==
  ASSUME NEW op, NEW x, NEW f, NEW g, NEW k \in Nat, \A j \in Nat : j < k => f[j] = g[j]
  PROVE  StepOf(op, x, f, k) = StepOf(op, x, g, k)
<1>1. k # 0 => k - 1 \in Nat /\ k - 1 < k /\ k \div 256 \in Nat /\ k \div 256 < k
  OBVIOUS
<1>2. k # 0 => f[k - 1] = g[k - 1] /\ f[k \div 256] = g[k \div 256]
  BY <1>1
<1>3. k = 0 => k < 128
  OBVIOUS
<1>4. CASE op = "shift"
  <2>1. ASSUME NEW h PROVE StepOf(op, x, h, k) = IF k = 0 THEN x ELSE h[k - 1] \div 256
    BY ONLY <1>4 DEF StepOf
  <2> QED BY ONLY <1>2, <2>1
<1>5. CASE op = "add"
  <2>1. ASSUME NEW h PROVE StepOf(op, x, h, k) = IF k = 0 THEN 0 ELSE 256 * h[k - 1] + x[k]
    BY ONLY <1>5 DEF StepOf
  <2> QED BY ONLY <1>2, <2>1
<1>6. CASE op = "span"
  <2>1. ASSUME NEW h PROVE StepOf(op, x, h, k) = IF k = 0 THEN 1 ELSE 256 * h[k - 1]
    BY ONLY <1>6 DEF StepOf
  <2> QED BY ONLY <1>2, <2>1
<1>7. CASE op = "bytes"
  <2> DEFINE Byte(v) == IF k = 0 THEN <<>> ELSE Append(v, k % 256)
  <2>1. ASSUME NEW h PROVE StepOf(op, x, h, k) = Byte(h[k \div 256])
    BY ONLY <1>7 DEF StepOf
  <2>2. Byte(f[k \div 256]) = Byte(g[k \div 256])
    <3>1. CASE k = 0
      BY ONLY <3>1
    <3>2. CASE k # 0
      BY ONLY <1>2, <3>2
    <3> QED BY ONLY <3>1, <3>2
  <2> HIDE DEF Byte
  <2> QED BY ONLY <2>1, <2>2
<1>8. CASE op = "java"
  <2> DEFINE Byte(v) == IF k < 128 THEN <<k>> ELSE Append(v, k % 256)
  <2>1. ASSUME NEW h PROVE StepOf(op, x, h, k) = Byte(h[k \div 256])
    BY ONLY <1>8 DEF StepOf
  <2>2. Byte(f[k \div 256]) = Byte(g[k \div 256])
    <3>1. CASE k < 128
      BY ONLY <3>1
    <3>2. CASE ~(k < 128)
      <4>1. f[k \div 256] = g[k \div 256]
        BY ONLY <1>2, <1>3, <3>2
      <4> QED BY ONLY <4>1
    <3> QED BY ONLY <3>1, <3>2
  <2> HIDE DEF Byte
  <2> QED BY ONLY <2>1, <2>2
<1>9. CASE op \notin {"shift", "add", "span", "bytes", "java"}
  <2>1. ASSUME NEW h PROVE StepOf(op, x, h, k) = IF k = 0 THEN ParseStart ELSE ParseByte(x, h[k - 1], k)
    BY ONLY <1>9 DEF StepOf
  <2> QED BY ONLY <1>2, <2>1
<1> QED BY ONLY <1>4, <1>5, <1>6, <1>7, <1>8, <1>9

\* f satisfies the recursion up to n.
SolvesTo(op, x, n, f) == \A k \in 0 .. n : f[k] = StepOf(op, x, f, k)

\* Solutions agree where they are both defined.
LEMMA SolutionsAgree ==
  ASSUME NEW op, NEW x, NEW n \in Nat, NEW i \in Nat, NEW f, NEW g,
         SolvesTo(op, x, n, f), SolvesTo(op, x, i, g), NEW k \in Nat, k <= n, k <= i
  PROVE  f[k] = g[k]
<1> DEFINE Bad == {j \in Nat : j <= n /\ j <= i /\ f[j] # g[j]}
<1>1. SUFFICES ASSUME Bad # {} PROVE FALSE
  OBVIOUS
<1>2. PICK j \in Bad : \A m \in Bad : j <= m
  <2>1. Bad \in SUBSET Nat
    OBVIOUS
  <2> HIDE DEF Bad
  <2> QED BY <1>1, <2>1, LeastNumber
<1>3. j \in Nat /\ j \in 0 .. n /\ j \in 0 .. i /\ f[j] # g[j]
  OBVIOUS
<1>4. f[j] = StepOf(op, x, f, j) /\ g[j] = StepOf(op, x, g, j)
  BY <1>3 DEF SolvesTo
<1>5. \A m \in Nat : m < j => f[m] = g[m]
  BY <1>2, <1>3
<1>6. StepOf(op, x, f, j) = StepOf(op, x, g, j)
  BY <1>3, <1>5, StepLooksBack
<1> QED BY <1>3, <1>4, <1>6

\* The recursion has a solution up to every number.
LEMMA SolutionExists == ASSUME NEW op, NEW x, NEW n \in Nat PROVE \E f : SolvesTo(op, x, n, f)
<1> DEFINE Bad == {i \in Nat : ~ \E f : SolvesTo(op, x, i, f)}
<1>1. SUFFICES ASSUME Bad # {} PROVE FALSE
  OBVIOUS
<1>2. PICK i \in Bad : \A m \in Bad : i <= m
  <2>1. Bad \in SUBSET Nat
    OBVIOUS
  <2> HIDE DEF Bad
  <2> QED BY <1>1, <2>1, LeastNumber
<1>3. i \in Nat /\ ~ \E f : SolvesTo(op, x, i, f)
  OBVIOUS
<1>4. PICK f : \A k \in 0 .. (i - 1) : f[k] = StepOf(op, x, f, k)
  <2>1. CASE i = 0
    BY <2>1
  <2>2. CASE i # 0
    <3>1. i - 1 \in Nat /\ ~(i <= i - 1)
      BY <1>3, <2>2
    <3>2. \E h : SolvesTo(op, x, i - 1, h)
      BY <1>2, <3>1
    <3> QED BY <3>2 DEF SolvesTo
  <2> QED BY <2>1, <2>2
<1> DEFINE g == [k \in 0 .. i |-> IF k = i THEN StepOf(op, x, f, i) ELSE f[k]]
<1>5. g[i] = StepOf(op, x, f, i) /\ \A k \in 0 .. (i - 1) : g[k] = f[k]
  BY <1>3
<1> HIDE DEF g
<1>6. ASSUME NEW k \in 0 .. i PROVE g[k] = StepOf(op, x, g, k)
  <2>1. g[k] = StepOf(op, x, f, k)
    BY <1>3, <1>4, <1>5
  <2>2. k \in Nat /\ \A j \in Nat : j < k => f[j] = g[j]
    BY <1>3, <1>5
  <2> QED BY <2>1, <2>2, StepLooksBack
<1> QED BY <1>3, <1>6 DEF SolvesTo

\* There is one solution for all numbers.
LEMMA Solution == ASSUME NEW op, NEW x PROVE \E f : f = [k \in Nat |-> StepOf(op, x, f, k)]
<1> DEFINE To(n) == CHOOSE f : SolvesTo(op, x, n, f)
           F == [k \in Nat |-> To(k)[k]]
<1>1. \A n \in Nat : SolvesTo(op, x, n, To(n))
  BY SolutionExists
<1>2. \A k \in Nat : F[k] = To(k)[k]
  OBVIOUS
<1>3. F = [k \in Nat |-> F[k]]
  OBVIOUS
<1> HIDE DEF To, F
<1>4. ASSUME NEW k \in Nat PROVE F[k] = StepOf(op, x, F, k)
  <2>1. F[k] = StepOf(op, x, To(k), k)
    BY <1>1, <1>2 DEF SolvesTo
  <2>2. ASSUME NEW j \in Nat, j < k PROVE To(k)[j] = F[j]
    <3>1. j <= k /\ j <= j
      BY <2>2
    <3>2. To(j)[j] = To(k)[j]
      BY <1>1, <3>1, SolutionsAgree
    <3> QED BY <1>2, <3>2
  <2>3. StepOf(op, x, To(k), k) = StepOf(op, x, F, k)
    BY <2>2, StepLooksBack
  <2> QED BY <2>1, <2>3
<1>5. F = [k \in Nat |-> StepOf(op, x, F, k)]
  BY <1>3, <1>4
<1> QED BY <1>5

\* Induction, for sets.
LEMMA Induction ==
  ASSUME NEW S \in SUBSET Nat, 0 \in S, \A n \in S : n + 1 \in S PROVE S = Nat
<1>1. SUFFICES ASSUME Nat \ S # {} PROVE FALSE
  OBVIOUS
<1>2. PICK n \in Nat \ S : \A m \in Nat \ S : n <= m
  BY <1>1, LeastNumber
<1>3. n # 0 /\ n - 1 \in Nat /\ ~(n <= n - 1) /\ (n - 1) + 1 = n
  BY <1>2
<1> QED BY <1>2, <1>3

\* The same with all smaller numbers as hypothesis.
LEMMA StrongInduction ==
  ASSUME NEW S \in SUBSET Nat, \A n \in Nat : (\A m \in Nat : m < n => m \in S) => n \in S PROVE S = Nat
<1>1. SUFFICES ASSUME Nat \ S # {} PROVE FALSE
  OBVIOUS
<1>2. PICK n \in Nat \ S : \A m \in Nat \ S : n <= m
  BY <1>1, LeastNumber
<1>3. \A m \in Nat : m < n => m \in S
  BY <1>2
<1> QED BY <1>2, <1>3

-----------------------------------------------------------------------------
(* The contract.  Words. *)

\* Shifted satisfies its recursion.
LEMMA ShiftedUnfolds ==
  ASSUME NEW n
  PROVE  Shifted(n)[0] = n /\ \A k \in Nat : k # 0 => Shifted(n)[k] = Shifted(n)[k - 1] \div 256
<1> DEFINE Def(f) == [k \in Nat |-> IF k = 0 THEN n ELSE f[k - 1] \div 256]
           s == Shifted(n)
<1>1. \A f : [k \in Nat |-> StepOf("shift", n, f, k)] = Def(f)
  BY DEF StepOf
<1>2. s = CHOOSE f : f = Def(f)
  BY DEF Shifted
<1>3. s = Def(s)
  <2> HIDE DEF Def, s
  <2> QED BY <1>1, <1>2, Solution
<1> HIDE DEF s
<1>4. s[0] = n /\ \A k \in Nat : k # 0 => s[k] = s[k - 1] \div 256
  BY <1>3
<1> QED BY <1>4 DEF s

\* The values of the prefixes of an array of bytes
PrefixValues(bytes) == CHOOSE f : f = [k \in Nat |-> IF k = 0 THEN 0 ELSE 256 * f[k - 1] + bytes[k]]

\* SetBytes adds up the bytes one by one.
LEMMA SetBytesUnfolds ==
  ASSUME NEW bytes
  PROVE  /\ SetBytes(bytes) = PrefixValues(bytes)[Len(bytes)] /\ PrefixValues(bytes)[0] = 0
         /\ \A k \in Nat : k # 0 => PrefixValues(bytes)[k] = 256 * PrefixValues(bytes)[k - 1] + bytes[k]
<1> DEFINE Def(f) == [k \in Nat |-> IF k = 0 THEN 0 ELSE 256 * f[k - 1] + bytes[k]]
           s == PrefixValues(bytes)
<1>1. \A f : [k \in Nat |-> StepOf("add", bytes, f, k)] = Def(f)
  BY DEF StepOf
<1>2. s = CHOOSE f : f = Def(f)
  BY DEF PrefixValues
<1>3. s = Def(s)
  <2> HIDE DEF Def, s
  <2> QED BY <1>1, <1>2, Solution
<1>4. SetBytes(bytes) = s[Len(bytes)]
  BY DEF SetBytes, PrefixValues
<1> HIDE DEF s
<1>5. s[0] = 0 /\ \A k \in Nat : k # 0 => s[k] = 256 * s[k - 1] + bytes[k]
  BY <1>3
<1> QED BY <1>4, <1>5 DEF s

\* A function on 1..n is a sequence of length n.
LEMMA FunctionIsSequence ==
  ASSUME NEW S, NEW n \in Nat, NEW f \in [1 .. n -> S] PROVE f \in Seq(S) /\ Len(f) = n
OBVIOUS

\* Bytes add up to a number.
LEMMA BytesAreNumber == ASSUME NEW bytes \in Seq(0 .. 255) PROVE SetBytes(bytes) \in Nat
<1>1. PICK v, n : v = PrefixValues(bytes) /\ n = Len(bytes)
  OBVIOUS
<1>2. /\ SetBytes(bytes) = v[n] /\ v[0] = 0
      /\ \A k \in Nat : k # 0 => v[k] = 256 * v[k - 1] + bytes[k]
  BY ONLY <1>1, SetBytesUnfolds, ZenonT(60)
<1>3. n \in Nat /\ \A k \in 1 .. n : bytes[k] \in 0 .. 255
  <2>1. n \in Nat
    BY ONLY <1>1, bytes \in Seq(0 .. 255), LenProperties
  <2>2. ASSUME NEW k \in 1 .. n PROVE bytes[k] \in 0 .. 255
    BY ONLY <1>1, <2>2, bytes \in Seq(0 .. 255), ElementOfSeq
  <2> QED BY ONLY <2>1, <2>2
<1> DEFINE Bad == {k \in Nat : k <= n /\ v[k] \notin Nat}
<1>4. ASSUME Bad # {} PROVE FALSE
  <2>1. PICK k \in Bad : \A m \in Bad : k <= m
    <3>1. Bad \in SUBSET Nat
      OBVIOUS
    <3> HIDE DEF Bad
    <3> QED BY <1>4, <3>1, LeastNumber
  <2>2. k \in Nat /\ k <= n /\ v[k] \notin Nat /\ k # 0
    BY <1>2
  <2>3. k - 1 \in Nat /\ v[k - 1] \in Nat /\ k \in 1 .. n
    BY <1>3, <2>1, <2>2
  <2>4. v[k] = 256 * v[k - 1] + bytes[k]
    BY ONLY <1>2, <2>2
  <2>5. bytes[k] \in 0 .. 255
    BY ONLY <1>3, <2>3
  <2>6. PICK x \in Nat, y \in Nat : x = v[k - 1] /\ y = bytes[k]
    <3>1. \A b \in 0 .. 255 : b \in Nat
      OBVIOUS
    <3>2. bytes[k] \in Nat
      BY ONLY <2>5, <3>1, Zenon
    <3> QED BY ONLY <2>3, <3>2, Zenon
  <2>7. v[k] \in Nat
    BY ONLY <2>4, <2>6
  <2> QED BY ONLY <2>2, <2>7
<1>5. v[n] \in Nat
  BY ONLY <1>3, <1>4
<1> QED BY ONLY <1>2, <1>5

\* What is left of a number is a number.
LEMMA ShiftedIsNumber == ASSUME NEW n \in Nat PROVE \A k \in Nat : Shifted(n)[k] \in Nat
<1> DEFINE s == Shifted(n)
           Bad == {k \in Nat : s[k] \notin Nat}
<1>1. s[0] = n /\ \A k \in Nat : k # 0 => s[k] = s[k - 1] \div 256
  BY ShiftedUnfolds
<1> HIDE DEF s
<1>2. SUFFICES ASSUME Bad # {} PROVE FALSE
  BY DEF s
<1>3. PICK k \in Bad : \A m \in Bad : k <= m
  <2>1. Bad \in SUBSET Nat
    OBVIOUS
  <2> HIDE DEF Bad
  <2> QED BY <1>2, <2>1, LeastNumber
<1>4. k \in Nat /\ s[k] \notin Nat
  OBVIOUS
<1>5. CASE k = 0
  BY <1>1, <1>4, <1>5
<1>6. CASE k # 0
  <2>1. k - 1 \in Nat /\ s[k - 1] \in Nat
    BY <1>3, <1>6
  <2>2. s[k - 1] \div 256 \in Nat
    BY <2>1
  <2> QED BY <1>1, <1>4, <1>6, <2>2
<1> QED BY <1>5, <1>6

\* A word is 32 bytes, the last bytes of what is left of the number.
LEMMA WordIsBytes ==
  ASSUME NEW n \in Nat
  PROVE  /\ EncodeWord(n) \in Seq(0 .. 255) /\ Len(EncodeWord(n)) = 32
         /\ \A i \in 1 .. 32 : EncodeWord(n)[i] = Shifted(n)[32 - i] % 256
<1> DEFINE b(i) == Shifted(n)[32 - i] % 256
<1>1. \A k \in Nat : k % 256 \in 0 .. 255
  OBVIOUS
<1>2. \A i \in 1 .. 32 : 32 - i \in Nat
  OBVIOUS
<1>3. \A i \in 1 .. 32 : b(i) \in 0 .. 255
  BY <1>1, <1>2, ShiftedIsNumber, Zenon
<1>4. EncodeWord(n) = [i \in 1 .. 32 |-> b(i)]
  BY Zenon DEF EncodeWord, WordBytes
<1>5. \A i \in 1 .. 32 : EncodeWord(n)[i] = b(i)
  BY <1>4, Zenon
<1>6. EncodeWord(n) \in Seq(0 .. 255) /\ Len(EncodeWord(n)) = 32
  <2> HIDE DEF b
  <2> DEFINE w == EncodeWord(n)
  <2>1. w \in [1 .. 32 -> 0 .. 255]
    BY <1>3, <1>4, ZenonT(60)
  <2> HIDE DEF w
  <2>2. PICK m \in Nat : m = 32
    OBVIOUS
  <2>3. PICK S : S = 0 .. 255
    OBVIOUS
  <2>4. w \in [1 .. m -> S]
    BY ONLY <2>1, <2>2, <2>3
  <2>5. w \in Seq(S) /\ Len(w) = m
    BY ONLY <2>4, FunctionIsSequence
  <2> QED BY <2>2, <2>3, <2>5 DEF w
<1> QED BY <1>5, <1>6, Zenon

\* s is a number shifted step by step, w the last m bytes it loses, v what they add up to.
AddUp(m, s, w, v) ==
  /\ \A k \in Nat : s[k] \in Nat
  /\ \A k \in Nat : k # 0 => s[k] = s[k - 1] \div 256
  /\ \A i \in 1 .. m : w[i] = s[m - i] % 256
  /\ \A k \in Nat : k # 0 => v[k] = 256 * v[k - 1] + w[k]
  /\ s[m] = 0
  /\ v[0] = 0

\* Adding up the bytes undoes the shifts.
LEMMA BytesAddUp == ASSUME NEW m \in Nat, NEW s, NEW w, NEW v, AddUp(m, s, w, v) PROVE v[m] = s[0]
<1>0. /\ \A k \in Nat : s[k] \in Nat
      /\ \A k \in Nat : k # 0 => s[k] = s[k - 1] \div 256
      /\ \A k \in Nat : k # 0 => v[k] = 256 * v[k - 1] + w[k]
      /\ s[m] = 0 /\ v[0] = 0
  BY DEF AddUp
<1>a. ASSUME NEW i \in 1 .. m PROVE w[i] = s[m - i] % 256
  BY Zenon DEF AddUp
<1> DEFINE Bad == {k \in Nat : k <= m /\ v[k] # s[m - k]}
<1>1. ASSUME Bad # {} PROVE FALSE
  <2>2. PICK k \in Bad : \A n \in Bad : k <= n
    <3>1. Bad \in SUBSET Nat
      OBVIOUS
    <3> HIDE DEF Bad
    <3> QED BY <1>1, <3>1, LeastNumber
  <2>3. k \in Nat /\ k <= m /\ v[k] # s[m - k]
    OBVIOUS
  <2>4. CASE k = 0
    <3>1. m - 0 = m
      OBVIOUS
    <3> QED BY <1>0, <2>3, <2>4, <3>1
  <2>5. CASE k # 0
    <3>1. k - 1 \in Nat /\ k \in 1 .. m /\ m - k \in Nat /\ m - (k - 1) \in Nat
          /\ m - (k - 1) # 0 /\ (m - (k - 1)) - 1 = m - k
      BY <2>3, <2>5
    <3>2. v[k - 1] = s[m - (k - 1)]
      BY <2>2, <2>3, <2>5
    <3>3. w[k] = s[m - k] % 256 /\ s[m - k] \in Nat
      BY <1>0, <1>a, <3>1
    <3>4. s[m - (k - 1)] = s[m - k] \div 256
      BY <1>0, <3>1
    <3>5. v[k] = 256 * (s[m - k] \div 256) + (s[m - k] % 256)
      BY <1>0, <2>3, <2>5, <3>2, <3>3, <3>4
    <3>6. \A a \in Nat : 256 * (a \div 256) + (a % 256) = a
      OBVIOUS
    <3> QED BY <2>3, <3>3, <3>5, <3>6
  <2> QED BY <2>4, <2>5
<1>2. m \in Nat /\ m \notin Bad /\ m <= m /\ m - m = 0
  BY <1>1
<1>3. v[m] = s[m - m]
  BY <1>2
<1> QED BY <1>2, <1>3

\* A number that fits into a word
Fits(n) == n \in Nat /\ Shifted(n)[WordBytes] = 0

\* A word holds the number that was encoded.
LEMMA WordIsNumber ==
  ASSUME NEW n, Fits(n)
  PROVE  /\ EncodeWord(n) \in Seq(0 .. 255) /\ Len(EncodeWord(n)) = 32
         /\ SetBytes(EncodeWord(n)) = n
<1>1. n \in Nat /\ Shifted(n)[32] = 0
  BY DEF Fits, WordBytes
<1>2. EncodeWord(n) \in Seq(0 .. 255) /\ Len(EncodeWord(n)) = 32
      /\ \A i \in 1 .. 32 : EncodeWord(n)[i] = Shifted(n)[32 - i] % 256
  BY <1>1, WordIsBytes
<1>3. PICK s, w, v : s = Shifted(n) /\ w = EncodeWord(n) /\ v = PrefixValues(w)
  OBVIOUS
<1>4. s[0] = n /\ \A k \in Nat : k # 0 => s[k] = s[k - 1] \div 256
  BY ONLY <1>3, ShiftedUnfolds
<1>5. \A k \in Nat : s[k] \in Nat
  BY ONLY <1>1, <1>3, ShiftedIsNumber
<1>6. /\ SetBytes(w) = v[Len(w)] /\ v[0] = 0
      /\ \A k \in Nat : k # 0 => v[k] = 256 * v[k - 1] + w[k]
  BY ONLY <1>3, SetBytesUnfolds
<1>7. s[32] = 0 /\ Len(w) = 32 /\ \A i \in 1 .. 32 : w[i] = s[32 - i] % 256
  BY <1>1, <1>2, <1>3
<1>8. v[32] = s[0]
  <2>1. AddUp(32, s, w, v)
    BY ONLY <1>4, <1>5, <1>6, <1>7, Zenon DEF AddUp
  <2>2. 32 \in Nat
    OBVIOUS
  <2> QED BY ONLY <2>1, <2>2, BytesAddUp
<1> QED BY <1>2, <1>3, <1>4, <1>6, <1>7, <1>8

\* The last m bytes of a word of bytes
LEMMA LowBytes ==
  ASSUME NEW w \in Seq(0 .. 255), Len(w) = 32, NEW m \in 1 .. 32
  PROVE  LET t == SubSeq(w, 32 - m + 1, 32)
         IN  /\ t \in [1 .. m -> 0 .. 255] /\ Len(t) = m
             /\ \A i \in 1 .. m : t[i] = w[32 - m + i]
<1>1. PICK t, a : a = 32 - m + 1 /\ t = SubSeq(w, a, 32)
  OBVIOUS
<1>2. a \in Int /\ 32 \in Int /\ (IF a <= 32 THEN 32 - a + 1 ELSE 0) = m /\ 32 - a + 1 = m
  BY <1>1
<1>3. \A i \in a .. 32 : w[i] \in 0 .. 255
  <2>1. \A i \in a .. 32 : i \in 1 .. Len(w)
    BY <1>1
  <2>2. ASSUME NEW i \in a .. 32 PROVE w[i] \in 0 .. 255
    BY ONLY <2>1, <2>2, w \in Seq(0 .. 255), ElementOfSeq
  <2> QED BY ONLY <2>2
<1>4. t \in Seq(0 .. 255) /\ Len(t) = m /\ \A i \in 1 .. m : t[i] = w[a + i - 1]
  BY <1>1, <1>2, <1>3, SubSeqProperties
<1>5. \A i \in 1 .. m : a + i - 1 = 32 - m + i
  BY <1>1
<1>6. t \in [1 .. m -> 0 .. 255]
  BY ONLY <1>4, LenProperties
<1>7. \A i \in 1 .. m : t[i] = w[32 - m + i]
  BY <1>4, <1>5
<1> QED BY <1>1, <1>4, <1>6, <1>7

\* A number an int64 holds
Fits64(n) == n \in Nat /\ Shifted(n)[IntBytes] = 0 /\ n < Limit64

\* Int64 keeps it.
LEMMA Int64IsNumber == ASSUME NEW n, Fits64(n) PROVE Int64(EncodeWord(n)) = n
<1>1. n \in Nat /\ Shifted(n)[IntBytes] = 0 /\ n < Limit64 /\ Limit64 \in Nat
  BY Int64Width DEF Fits64
<1>2. PICK m \in 1 .. 32 : m = IntBytes
  BY Int64Width DEF WordBytes
<1>3. PICK w, t : w = EncodeWord(n) /\ t = SubSeq(w, 32 - m + 1, 32)
  OBVIOUS
<1>4. w \in Seq(0 .. 255) /\ Len(w) = 32 /\ \A i \in 1 .. 32 : w[i] = Shifted(n)[32 - i] % 256
  <2>1. n \in Nat
    BY <1>1
  <2>2. /\ EncodeWord(n) \in Seq(0 .. 255) /\ Len(EncodeWord(n)) = 32
        /\ \A i \in 1 .. 32 : EncodeWord(n)[i] = Shifted(n)[32 - i] % 256
    BY ONLY <2>1, WordIsBytes
  <2> QED BY ONLY <2>2, <1>3
<1>5. Len(t) = m /\ \A i \in 1 .. m : t[i] = w[32 - m + i]
  BY ONLY <1>3, <1>4, LowBytes, ZenonT(60)
<1>6. PICK s, v : s = Shifted(n) /\ v = PrefixValues(t)
  OBVIOUS
<1>7. s[0] = n /\ \A k \in Nat : k # 0 => s[k] = s[k - 1] \div 256
  BY ONLY <1>6, ShiftedUnfolds
<1>8. \A k \in Nat : s[k] \in Nat
  BY ONLY <1>1, <1>6, ShiftedIsNumber
<1>9. /\ SetBytes(t) = v[Len(t)] /\ v[0] = 0
      /\ \A k \in Nat : k # 0 => v[k] = 256 * v[k - 1] + t[k]
  BY ONLY <1>6, SetBytesUnfolds
<1>10. \A i \in 1 .. m : t[i] = s[m - i] % 256
  <2>1. ASSUME NEW i \in 1 .. m PROVE 32 - m + i \in 1 .. 32 /\ 32 - (32 - m + i) = m - i
    OBVIOUS
  <2>2. ASSUME NEW i \in 1 .. m PROVE t[i] = s[m - i] % 256
    <3>1. 32 - m + i \in 1 .. 32 /\ 32 - (32 - m + i) = m - i
      BY ONLY <2>1, <2>2
    <3>2. t[i] = w[32 - m + i]
      BY ONLY <1>5, <2>2
    <3>3. PICK j \in 1 .. 32 : j = 32 - m + i
      BY ONLY <3>1
    <3>4. w[j] = s[32 - j] % 256
      BY ONLY <1>4, <1>6, <3>3
    <3> QED BY ONLY <3>1, <3>2, <3>3, <3>4
  <2> QED BY ONLY <2>2
<1>11. s[m] = 0
  BY <1>1, <1>2, <1>6
<1>12. v[m] = s[0]
  <2>1. AddUp(m, s, t, v)
    BY ONLY <1>7, <1>8, <1>9, <1>10, <1>11, Zenon DEF AddUp
  <2>2. m \in Nat
    OBVIOUS
  <2> QED BY ONLY <2>1, <2>2, BytesAddUp
<1>13. SetBytes(t) = n
  BY <1>5, <1>7, <1>9, <1>12
<1>14. t = SubSeq(EncodeWord(n), WordBytes - IntBytes + 1, WordBytes)
  BY <1>2, <1>3 DEF WordBytes
<1> QED BY <1>1, <1>13, <1>14 DEF Int64

\* Int64 of a word of bytes is an int64; a sum of one and a small number wraps around at
\* the end only.
LEMMA Int64IsBounded ==
  ASSUME NEW w \in Seq(0 .. 255), Len(w) = 32 PROVE Int64(w) \in Int /\ Int64(w) < Limit64
<1>1. PICK m \in 1 .. 32 : m = IntBytes
  BY Int64Width DEF WordBytes
<1>2. PICK t, b : t = SubSeq(w, 32 - m + 1, 32) /\ b = SetBytes(t)
  OBVIOUS
<1>3. t \in [1 .. m -> 0 .. 255] /\ t \in Seq(0 .. 255)
  <2>1. t \in [1 .. m -> 0 .. 255] /\ Len(t) = m
    BY ONLY <1>2, w \in Seq(0 .. 255), Len(w) = 32, LowBytes
  <2>2. m \in Nat
    OBVIOUS
  <2>3. t \in Seq(0 .. 255)
    BY ONLY <2>1, <2>2, FunctionIsSequence
  <2> QED BY ONLY <2>1, <2>3
<1>4. b < 2 * Limit64 /\ Limit64 \in Nat
  BY <1>1, <1>2, <1>3, Int64Width
<1>5. b \in Nat
  BY <1>2, <1>3, BytesAreNumber
<1>6. t = SubSeq(w, WordBytes - IntBytes + 1, WordBytes)
  BY <1>1, <1>2 DEF WordBytes
<1>7. Int64(w) = IF b < Limit64 THEN b ELSE b - 2 * Limit64
  BY <1>2, <1>6 DEF Int64
<1> QED BY <1>4, <1>5, <1>7
-----------------------------------------------------------------------------
(* Where the parts of the call data lie. *)

ByteArray == Seq(0 .. 255)

\* part lies in s behind the first offset bytes.
LiesAt(s, offset, part) ==
  /\ s \in ByteArray /\ part \in ByteArray /\ offset \in Nat
  /\ offset + Len(part) <= Len(s)
  /\ \A i \in 1 .. Len(part) : s[offset + i] = part[i]

\* Both halves of a concatenation lie in it.
LEMMA HalvesLie ==
  ASSUME NEW s \in ByteArray, NEW t \in ByteArray
  PROVE  s \o t \in ByteArray /\ Len(s \o t) = Len(s) + Len(t)
         /\ LiesAt(s \o t, 0, s) /\ LiesAt(s \o t, Len(s), t)
<1>1. Len(s) \in Nat /\ Len(t) \in Nat
  BY DEF ByteArray
<1>2. PICK u : u = s \o t
  OBVIOUS
<1>3. u \in ByteArray /\ Len(u) = Len(s) + Len(t)
  BY <1>2, ConcatProperties DEF ByteArray
<1>4. \A i \in 1 .. Len(s) + Len(t) : u[i] = IF i <= Len(s) THEN s[i] ELSE t[i - Len(s)]
  BY <1>2, ConcatProperties DEF ByteArray
<1>5. \A i \in 1 .. Len(s) : u[0 + i] = s[i]
  BY <1>1, <1>4
<1>6. ASSUME NEW i \in 1 .. Len(t) PROVE u[Len(s) + i] = t[i]
  <2>1. Len(s) + i \in 1 .. Len(s) + Len(t) /\ ~(Len(s) + i <= Len(s)) /\ (Len(s) + i) - Len(s) = i
    BY <1>1
  <2> QED BY <1>4, <2>1
<1>7. 0 + Len(s) <= Len(u) /\ Len(s) + Len(t) <= Len(u) /\ 0 \in Nat
  BY <1>1, <1>3
<1> QED BY <1>1, <1>2, <1>3, <1>5, <1>6, <1>7, Zenon DEF LiesAt

\* u joins s, of length m, and t, of length n.
Joins(u, s, t, m, n) == u = s \o t /\ s \in ByteArray /\ t \in ByteArray /\ Len(s) = m /\ Len(t) = n

\* The same with the lengths given.
LEMMA JoinLies ==
  ASSUME NEW u, NEW s, NEW t, NEW m, NEW n, Joins(u, s, t, m, n)
  PROVE  u \in ByteArray /\ Len(u) = m + n /\ LiesAt(u, 0, s) /\ LiesAt(u, m, t)
<1>1. u = s \o t /\ s \in ByteArray /\ t \in ByteArray /\ Len(s) = m /\ Len(t) = n
  BY DEF Joins
<1>2. s \o t \in ByteArray /\ Len(s \o t) = Len(s) + Len(t)
         /\ LiesAt(s \o t, 0, s) /\ LiesAt(s \o t, Len(s), t)
  BY <1>1, HalvesLie
<1> QED BY ONLY <1>1, <1>2, Zenon

\* What lies in a part lies in the whole.
LEMMA LiesWithin ==
  ASSUME NEW s, NEW t, NEW u, NEW a, NEW b, LiesAt(s, a, t), LiesAt(t, b, u)
  PROVE  LiesAt(s, a + b, u)
<1>1. a \in Nat /\ b \in Nat /\ Len(s) \in Nat /\ Len(t) \in Nat /\ Len(u) \in Nat /\ s \in ByteArray /\ u \in ByteArray
      /\ a + Len(t) <= Len(s) /\ b + Len(u) <= Len(t)
  BY DEF LiesAt, ByteArray
<1>2. ASSUME NEW i \in 1 .. Len(u) PROVE s[(a + b) + i] = u[i]
  <2>1. b + i \in 1 .. Len(t) /\ a + (b + i) = (a + b) + i
    BY <1>1
  <2>2. s[a + (b + i)] = t[b + i] /\ t[b + i] = u[i]
    BY <2>1, Zenon DEF LiesAt
  <2> QED BY <2>1, <2>2
<1>3. (a + b) \in Nat /\ (a + b) + Len(u) <= Len(s)
  BY <1>1
<1> QED BY <1>1, <1>2, <1>3, Zenon DEF LiesAt

\* A part that lies in s lies in every prefix of s it ends in, and a slice reads it.
LEMMA PrefixHolds ==
  ASSUME NEW s, NEW offset, NEW part, LiesAt(s, offset, part),
         NEW k \in 0 .. Len(s), offset + Len(part) <= k
  PROVE  LiesAt(SubSeq(s, 1, k), offset, part)
<1>1. s \in ByteArray /\ part \in ByteArray /\ offset \in Nat /\ Len(s) \in Nat /\ Len(part) \in Nat /\ k \in Nat
  BY DEF LiesAt, ByteArray
<1>2. \A i \in 1 .. k : s[i] \in 0 .. 255
  <2>1. \A i \in 1 .. k : i \in 1 .. Len(s)
    BY <1>1
  <2> QED BY <1>1, <2>1, ElementOfSeq DEF ByteArray
<1>3. PICK t : t = SubSeq(s, 1, k)
  OBVIOUS
<1>4. t \in ByteArray /\ Len(t) = k /\ \A i \in 1 .. k : t[i] = s[i]
  <2>1. /\ SubSeq(s, 1, k) \in Seq(0 .. 255)
        /\ Len(SubSeq(s, 1, k)) = IF 1 <= k THEN k - 1 + 1 ELSE 0
        /\ \A i \in 1 .. k - 1 + 1 : SubSeq(s, 1, k)[i] = s[1 + i - 1]
    BY <1>1, <1>2, SubSeqProperties
  <2>2. k - 1 + 1 = k /\ \A i \in 1 .. k : 1 + i - 1 = i
    BY <1>1
  <2> QED BY <1>1, <1>3, <2>1, <2>2 DEF ByteArray
<1>5. ASSUME NEW i \in 1 .. Len(part) PROVE t[offset + i] = part[i]
  <2>1. offset + i \in 1 .. k
    BY <1>1
  <2>2. s[offset + i] = part[i]
    BY Zenon DEF LiesAt
  <2> QED BY <1>4, <2>1, <2>2
<1> QED BY <1>1, <1>3, <1>4, <1>5 DEF LiesAt

\* Slicing out a part gives the part.
LEMMA SliceIsPart ==
  ASSUME NEW s, NEW offset, NEW part, LiesAt(s, offset, part)
  PROVE  SubSeq(s, offset + 1, offset + Len(part)) = part
<1>1. s \in ByteArray /\ part \in ByteArray /\ offset \in Nat /\ Len(s) \in Nat /\ Len(part) \in Nat
      /\ offset + Len(part) <= Len(s)
  BY DEF LiesAt, ByteArray
<1> DEFINE m == offset + 1
           n == offset + Len(part)
<1>2. m \in Int /\ n \in Int /\ (IF m <= n THEN n - m + 1 ELSE 0) = Len(part) /\ n - m + 1 = Len(part)
  BY <1>1
<1>3. \A i \in m .. n : s[i] \in 0 .. 255
  <2>1. \A i \in m .. n : i \in 1 .. Len(s)
    BY <1>1
  <2> QED BY <1>1, <2>1, ElementOfSeq DEF ByteArray
<1>4. PICK t : t = SubSeq(s, m, n)
  OBVIOUS
<1> HIDE DEF m, n
<1>5. t \in Seq(0 .. 255) /\ Len(t) = Len(part) /\ \A i \in 1 .. Len(part) : t[i] = s[m + i - 1]
  BY <1>2, <1>3, <1>4, SubSeqProperties
<1>6. ASSUME NEW i \in 1 .. Len(part) PROVE t[i] = part[i]
  <2>1. m + i - 1 = offset + i
    BY <1>1 DEF m
  <2>2. s[offset + i] = part[i]
    BY Zenon DEF LiesAt
  <2> QED BY <1>5, <2>1, <2>2
<1>7. t = part
  BY <1>1, <1>5, <1>6, SeqEqual DEF ByteArray
<1> QED BY <1>4, <1>7 DEF m, n

\* Padding adds less than a word and makes whole words.
LEMMA PaddingIsShort ==
  ASSUME NEW n \in Nat
  PROVE  PaddedLength(n) \in Nat /\ n <= PaddedLength(n) /\ (n > 0 => PaddedLength(n) >= 32)
<1>1. PaddedLength(n) = ((n + 31) \div 32) * 32
  BY DEF PaddedLength, WordBytes
<1>2. \A m \in Nat : (m \div 32) * 32 \in Nat /\ (m \div 32) * 32 <= m /\ m - 31 <= (m \div 32) * 32
                     /\ (m >= 32 => (m \div 32) * 32 >= 32)
  OBVIOUS
<1>3. n + 31 \in Nat /\ (n + 31) - 31 = n /\ (n > 0 => n + 31 >= 32)
  OBVIOUS
<1> QED BY <1>1, <1>2, <1>3

\* The data of an encoded string: its length, then the text, then the padding.
LEMMA StringLayout ==
  ASSUME NEW chars \in ByteArray, Fits(Len(chars))
  PROVE  /\ EncodeString(chars) \in ByteArray
         /\ Len(EncodeString(chars)) = 32 + PaddedLength(Len(chars))
         /\ LiesAt(EncodeString(chars), 0, EncodeWord(Len(chars)))
         /\ LiesAt(EncodeString(chars), 32, chars)
<1>1. Len(chars) \in Nat
  BY DEF ByteArray
<1>2. PICK w, z, d : w = EncodeWord(Len(chars)) /\ d = PaddedLength(Len(chars)) - Len(chars) /\ z = Zeros(d)
  OBVIOUS
<1>3. w \in ByteArray /\ Len(w) = 32
  BY <1>2, WordIsNumber DEF ByteArray
<1>4. d \in Nat /\ 32 + Len(chars) + d = 32 + PaddedLength(Len(chars))
  <2>1. PaddedLength(Len(chars)) \in Nat /\ Len(chars) <= PaddedLength(Len(chars))
    BY <1>1, PaddingIsShort
  <2> QED BY <1>1, <1>2, <2>1
<1>5. z \in ByteArray /\ Len(z) = d
  BY <1>2, <1>4, FunctionIsSequence DEF Zeros, ByteArray
<1>6. PICK v, e, m : v = w \o chars /\ e = v \o z /\ m = 32
  OBVIOUS
<1>7. v \in ByteArray /\ Len(v) = m + Len(chars) /\ LiesAt(v, 0, w) /\ LiesAt(v, m, chars)
  <2>1. Joins(v, w, chars, m, Len(chars))
    BY <1>3, <1>6 DEF Joins
  <2> QED BY ONLY <2>1, JoinLies
<1>8. e \in ByteArray /\ Len(e) = (m + Len(chars)) + d /\ LiesAt(e, 0, v)
  <2>1. Joins(e, v, z, m + Len(chars), d)
    BY ONLY <1>5, <1>6, <1>7, Zenon DEF Joins
  <2> QED BY ONLY <2>1, JoinLies
<1>9. LiesAt(e, 0 + 0, w) /\ LiesAt(e, 0 + m, chars)
  BY ONLY <1>7, <1>8, LiesWithin
<1>10. EncodeString(chars) = e
  BY <1>2, <1>6 DEF EncodeString
<1>11. LiesAt(e, 0, w) /\ LiesAt(e, 32, chars)
  BY ONLY <1>6, <1>9
<1> QED BY <1>2, <1>4, <1>6, <1>8, <1>10, <1>11

\* Arguments a caller can encode
Encodable(args) ==
  /\ args.commitment \in ByteArray /\ args.proof \in ByteArray
  /\ Fits(args.lower) /\ Fits(args.upper) /\ Fits(args.offset)
  /\ Fits(Len(args.commitment)) /\ Fits(Len(args.proof))
  /\ Fits64(Len(args.commitment)) /\ Fits64(Len(args.proof)) /\ Fits64(ProofOffset(args.commitment))
  /\ ProofOffset(args.commitment) + 36 < Limit64

\* Where the length of the proof stands in the call data
ProofAt(args) == 164 + PaddedLength(Len(args.commitment))

\* What stands where in the call data of arguments.
LEMMA CallLayout ==
  ASSUME NEW args, Encodable(args)
  PROVE  LET data == Encode(args) IN
         /\ data \in ByteArray
         /\ Len(data) = ProofAt(args) + 32 + PaddedLength(Len(args.proof))
         /\ LiesAt(data, 4, EncodeWord(args.lower)) /\ LiesAt(data, 36, EncodeWord(args.upper))
         /\ LiesAt(data, 100, EncodeWord(args.offset))
         /\ LiesAt(data, 132, EncodeWord(Len(args.commitment))) /\ LiesAt(data, 164, args.commitment)
         /\ LiesAt(data, ProofAt(args), EncodeWord(Len(args.proof)))
         /\ LiesAt(data, ProofAt(args) + 32, args.proof)
<1>1. PICK z, l, u, o, q, c, p :
        /\ z = Zeros(4) /\ l = EncodeWord(args.lower) /\ u = EncodeWord(args.upper)
        /\ o = EncodeWord(CommitmentOffset) /\ q = EncodeWord(args.offset)
        /\ c = EncodeString(args.commitment) /\ p = EncodeString(args.proof)
  OBVIOUS
<1>2. PICK a, b : a = PaddedLength(Len(args.commitment)) /\ b = PaddedLength(Len(args.proof))
  OBVIOUS
<1>3. a \in Nat /\ b \in Nat
  <2>1. Len(args.commitment) \in Nat /\ Len(args.proof) \in Nat
    BY DEF Encodable, Fits
  <2> QED BY <1>2, <2>1, PaddingIsShort
<1>4. PICK w, e1, e2, e3, e4, e5, e6, e7 :
        w = 32 /\ e1 = 4 /\ e2 = 36 /\ e3 = 68 /\ e4 = 100 /\ e5 = 132 /\ e6 = 164 + a /\ e7 = e6 + (w + b)
  OBVIOUS
<1>5. /\ z \in ByteArray /\ Len(z) = e1
      /\ l \in ByteArray /\ Len(l) = w /\ u \in ByteArray /\ Len(u) = w /\ q \in ByteArray /\ Len(q) = w
  <2>1. z \in ByteArray /\ Len(z) = 4
    BY <1>1, FunctionIsSequence DEF Zeros, ByteArray
  <2>2. l \in ByteArray /\ Len(l) = 32 /\ u \in ByteArray /\ Len(u) = 32 /\ q \in ByteArray /\ Len(q) = 32
    BY <1>1, WordIsNumber DEF Encodable, ByteArray
  <2> QED BY <1>4, <2>1, <2>2
<1>6. o \in ByteArray /\ Len(o) = w
  BY <1>1, <1>4, WordIsBytes DEF CommitmentOffset, WordBytes, ByteArray
<1>7. /\ c \in ByteArray /\ Len(c) = w + a
      /\ LiesAt(c, 0, EncodeWord(Len(args.commitment))) /\ LiesAt(c, w, args.commitment)
  BY <1>1, <1>2, <1>4, StringLayout DEF Encodable
<1>8. /\ p \in ByteArray /\ Len(p) = w + b
      /\ LiesAt(p, 0, EncodeWord(Len(args.proof))) /\ LiesAt(p, w, args.proof)
  BY <1>1, <1>2, <1>4, StringLayout DEF Encodable
<1>9. PICK s1, s2, s3, s4, s5, data :
        s1 = z \o l /\ s2 = s1 \o u /\ s3 = s2 \o o /\ s4 = s3 \o q /\ s5 = s4 \o c /\ data = s5 \o p
  OBVIOUS
<1>10. e1 + w = e2 /\ e2 + w = e3 /\ e3 + w = e4 /\ e4 + w = e5 /\ e5 + (w + a) = e6 /\ e6 + (w + b) = e7
  BY <1>3, <1>4
<1>11. s1 \in ByteArray /\ Len(s1) = e2 /\ LiesAt(s1, e1, l)
  <2>1. Joins(s1, z, l, e1, w)
    BY ONLY <1>5, <1>9, Zenon DEF Joins
  <2> QED BY ONLY <1>10, <2>1, JoinLies
<1>12. s2 \in ByteArray /\ Len(s2) = e3 /\ LiesAt(s2, 0, s1) /\ LiesAt(s2, e2, u)
  <2>1. Joins(s2, s1, u, e2, w)
    BY ONLY <1>5, <1>11, <1>9, Zenon DEF Joins
  <2> QED BY ONLY <1>10, <2>1, JoinLies
<1>13. s3 \in ByteArray /\ Len(s3) = e4 /\ LiesAt(s3, 0, s2)
  <2>1. Joins(s3, s2, o, e3, w)
    BY ONLY <1>6, <1>12, <1>9, Zenon DEF Joins
  <2> QED BY ONLY <1>10, <2>1, JoinLies
<1>14. s4 \in ByteArray /\ Len(s4) = e5 /\ LiesAt(s4, 0, s3) /\ LiesAt(s4, e4, q)
  <2>1. Joins(s4, s3, q, e4, w)
    BY ONLY <1>5, <1>13, <1>9, Zenon DEF Joins
  <2> QED BY ONLY <1>10, <2>1, JoinLies
<1>15. s5 \in ByteArray /\ Len(s5) = e6 /\ LiesAt(s5, 0, s4) /\ LiesAt(s5, e5, c)
  <2>1. Joins(s5, s4, c, e5, w + a)
    BY ONLY <1>7, <1>14, <1>9, Zenon DEF Joins
  <2> QED BY ONLY <1>10, <2>1, JoinLies
<1>16. data \in ByteArray /\ Len(data) = e7 /\ LiesAt(data, 0, s5) /\ LiesAt(data, e6, p)
  <2>1. Joins(data, s5, p, e6, w + b)
    BY ONLY <1>8, <1>15, <1>9, Zenon DEF Joins
  <2> QED BY ONLY <1>10, <2>1, JoinLies
<1>17. \A x, y, n, t : LiesAt(x, 0, y) /\ LiesAt(y, n, t) => LiesAt(x, n, t)
  <2>1. SUFFICES ASSUME NEW x, NEW y, NEW n, NEW t, LiesAt(x, 0, y), LiesAt(y, n, t) PROVE LiesAt(x, n, t)
    BY Zenon
  <2>2. LiesAt(x, 0 + n, t)
    BY <2>1, LiesWithin
  <2>3. n \in Nat
    BY <2>1 DEF LiesAt
  <2>4. 0 + n = n
    BY <2>3
  <2> QED BY <2>2, <2>4
<1>18. LiesAt(data, 0, s4) /\ LiesAt(data, 0, s3) /\ LiesAt(data, 0, s2) /\ LiesAt(data, 0, s1)
  BY ONLY <1>12, <1>13, <1>14, <1>15, <1>16, <1>17, Zenon
<1>19. LiesAt(data, e1, l) /\ LiesAt(data, e2, u) /\ LiesAt(data, e4, q) /\ LiesAt(data, e5, c)
  BY ONLY <1>11, <1>12, <1>14, <1>15, <1>16, <1>17, <1>18, Zenon
<1>20. LiesAt(data, e5 + 0, EncodeWord(Len(args.commitment))) /\ LiesAt(data, e5 + w, args.commitment)
  BY ONLY <1>7, <1>19, LiesWithin, Zenon
<1>21. LiesAt(data, e6 + 0, EncodeWord(Len(args.proof))) /\ LiesAt(data, e6 + w, args.proof)
  BY ONLY <1>8, <1>16, LiesWithin, Zenon
<1>22. e5 + 0 = 132 /\ e5 + w = 164 /\ e6 + 0 = ProofAt(args) /\ e6 + w = ProofAt(args) + 32
       /\ e7 = ProofAt(args) + 32 + PaddedLength(Len(args.proof))
  BY <1>2, <1>3, <1>4, SMTT(60) DEF ProofAt
<1>23. Encode(args) = data
  BY <1>1, <1>9 DEF Encode, OFFSET
<1>24. LiesAt(data, 4, l) /\ LiesAt(data, 36, u) /\ LiesAt(data, 100, q)
  BY ONLY <1>4, <1>19
<1>25. LiesAt(data, 132, EncodeWord(Len(args.commitment))) /\ LiesAt(data, 164, args.commitment)
       /\ LiesAt(data, ProofAt(args), EncodeWord(Len(args.proof)))
       /\ LiesAt(data, ProofAt(args) + 32, args.proof)
  BY ONLY <1>20, <1>21, <1>22
<1> QED BY ONLY <1>1, <1>16, <1>22, <1>23, <1>24, <1>25

-----------------------------------------------------------------------------
(* What Run reads of call data. *)

\* The contract holds encoded arguments, or a prefix of them.
Received ==
  /\ Encodable(sent)
  /\ \E k \in 0 .. Len(Encode(sent)) : input = SubSeq(Encode(sent), 1, k)

\* A word of the data is the one encoded there.
LEMMA WordReads ==
  ASSUME NEW low, NEW n, Fits(n), LiesAt(input, low, EncodeWord(n))
  PROVE  Bytes32(low) = EncodeWord(n) /\ Word(low) = n
<1>1. PICK w : w = EncodeWord(n)
  OBVIOUS
<1>2. Len(w) = 32 /\ SetBytes(w) = n
  BY <1>1, WordIsNumber
<1>3. SubSeq(input, low + 1, low + 32) = w
  <2>1. SubSeq(input, low + 1, low + Len(w)) = w
    BY <1>1, SliceIsPart
  <2> QED BY <1>2, <2>1
<1>4. Bytes32(low) = w
  BY <1>3 DEF Bytes32, Slice, WordBytes
<1> QED BY <1>1, <1>2, <1>4 DEF Word

\* So is a text.
LEMMA TextReads ==
  ASSUME NEW low, NEW chars, LiesAt(input, low, chars) PROVE TextOf(<<low, low + Len(chars)>>) = chars
<1>1. SubSeq(input, low + 1, low + Len(chars)) = chars
  BY SliceIsPart
<1> QED BY <1>1, Zenon DEF TextOf, Slice

\* 32 bytes of the data are a word.
LEMMA DataIsBytes ==
  ASSUME input \in ByteArray, NEW low \in Nat, low + 32 <= Len(input)
  PROVE  Bytes32(low) \in Seq(0 .. 255) /\ Len(Bytes32(low)) = 32
<1>1. PICK a, b, t : a = low + 1 /\ b = low + 32 /\ t = SubSeq(input, a, b)
  OBVIOUS
<1>2. a \in Int /\ b \in Int /\ (IF a <= b THEN b - a + 1 ELSE 0) = 32
  BY <1>1
<1>3. \A i \in a .. b : input[i] \in 0 .. 255
  <2>1. \A i \in a .. b : i \in 1 .. Len(input)
    BY <1>1 DEF ByteArray
  <2> QED BY <2>1, ElementOfSeq DEF ByteArray
<1>4. t \in Seq(0 .. 255) /\ Len(t) = 32
  BY <1>1, <1>2, <1>3, SubSeqProperties DEF ByteArray
<1> QED BY <1>1, <1>4 DEF Bytes32, Slice, WordBytes

\* The numbers a reader of the data goes by
Measures(a, b, c, p, n) ==
  /\ c = Len(sent.commitment) /\ p = Len(sent.proof) /\ n = Len(input)
  /\ a = PaddedLength(c) /\ b = PaddedLength(p)
  /\ a \in Nat /\ b \in Nat /\ c \in Nat /\ p \in Nat /\ n \in Nat
  /\ c <= a /\ p <= b /\ (c > 0 => a >= 32)
  /\ ProofAt(sent) = 164 + a /\ 196 + a < Limit64 /\ Limit64 \in Nat
  /\ Len(Encode(sent)) = 196 + a + b /\ input \in ByteArray

\* They are there for data that was received.
LEMMA DataIsMeasured == ASSUME Received PROVE \E a, b, c, p, n : Measures(a, b, c, p, n)
<1>1. PICK c, p, a, b, n : c = Len(sent.commitment) /\ p = Len(sent.proof) /\ n = Len(input)
                           /\ a = PaddedLength(c) /\ b = PaddedLength(p)
  OBVIOUS
<1>2. c \in Nat /\ p \in Nat
  BY <1>1 DEF Received, Encodable, Fits
<1>3. a \in Nat /\ b \in Nat /\ c <= a /\ p <= b /\ (c > 0 => a >= 32)
  BY <1>1, <1>2, PaddingIsShort
<1>4. ProofAt(sent) = 164 + a
  BY <1>1 DEF ProofAt
<1>5. Len(Encode(sent)) = 196 + a + b /\ Encode(sent) \in ByteArray
  <2>1. Len(Encode(sent)) = ProofAt(sent) + 32 + PaddedLength(Len(sent.proof)) /\ Encode(sent) \in ByteArray
    BY CallLayout DEF Received
  <2> QED BY <1>1, <1>3, <1>4, <2>1
<1>6. n \in Nat /\ input \in ByteArray
  <2>1. PICK k \in 0 .. Len(Encode(sent)) : input = SubSeq(Encode(sent), 1, k)
    BY DEF Received
  <2>2. LiesAt(Encode(sent), 0, <<>>)
    BY <1>3, <1>5 DEF LiesAt, ByteArray
  <2>3. 0 + Len(<<>>) <= k
    BY <1>5, <1>3
  <2>4. LiesAt(input, 0, <<>>)
    BY <2>1, <2>2, <2>3, PrefixHolds
  <2> QED BY <1>1, <2>4 DEF LiesAt, ByteArray
<1>8. 196 + a < Limit64 /\ Limit64 \in Nat
  <2>1. ProofOffset(sent.commitment) + 36 < Limit64
    BY DEF Received, Encodable
  <2>2. ProofOffset(sent.commitment) = 4 * 32 + 32 + a
    BY <1>1 DEF ProofOffset, CommitmentOffset, WordBytes
  <2> QED BY <1>3, <2>1, <2>2, Int64Width
<1>7. Measures(a, b, c, p, n)
  BY <1>1, <1>2, <1>3, <1>4, <1>5, <1>6, <1>8 DEF Measures
<1> QED BY <1>7

\* What lies in the encoded arguments lies in the data, if the data goes that far.
LEMMA ReceivedHolds ==
  ASSUME Received, NEW low, NEW part, LiesAt(Encode(sent), low, part), low + Len(part) <= Len(input)
  PROVE  LiesAt(input, low, part)
<1>1. PICK k \in 0 .. Len(Encode(sent)) : input = SubSeq(Encode(sent), 1, k)
  BY DEF Received
<1>2. Len(input) = k
  <2>1. PICK e : e = Encode(sent)
    OBVIOUS
  <2>2. e \in Seq(0 .. 255)
    BY <2>1, CallLayout DEF Received, ByteArray
  <2>3. k \in 0 .. Len(e) /\ input = SubSeq(e, 1, k)
    BY <1>1, <2>1
  <2> QED BY ONLY <2>2, <2>3
<1> QED BY <1>1, <1>2, PrefixHolds

\* Data long enough for the head gives the bounds, how long the commitment is, and where
\* the proof is said to start.
LEMMA HeadReads ==
  ASSUME Received, ~TooShort
  PROVE  /\ Word(OFFSET) = sent.lower /\ Word(OFFSET + WordBytes) = sent.upper
         /\ CommitmentLength = Len(sent.commitment)
         /\ StartProof \in Int /\ StartProof < Limit64
         /\ Encoded => StartProof = ProofAt(sent)
<1>1. PICK a, b, c, p, n : Measures(a, b, c, p, n)
  BY DataIsMeasured
<1>2. Len(input) = n /\ n \in Nat /\ a \in Nat /\ n >= 196
  BY <1>1 DEF Measures, TooShort, OFFSET, WordBytes
<1>3. /\ Fits(sent.lower) /\ Fits(sent.upper) /\ Fits(sent.offset) /\ Fits(Len(sent.commitment))
      /\ Fits64(Len(sent.commitment)) /\ Fits64(ProofOffset(sent.commitment))
  BY DEF Received, Encodable
<1>4. \A low, m : low \in 0 .. 132 /\ Fits(m) /\ LiesAt(Encode(sent), low, EncodeWord(m))
                  => Bytes32(low) = EncodeWord(m) /\ Word(low) = m
  <2>1. SUFFICES ASSUME NEW low, NEW m, low \in 0 .. 132, Fits(m), LiesAt(Encode(sent), low, EncodeWord(m))
                 PROVE  Bytes32(low) = EncodeWord(m) /\ Word(low) = m
    BY Zenon
  <2>2. Len(EncodeWord(m)) = 32
    BY <2>1, WordIsNumber
  <2>3. low + Len(EncodeWord(m)) <= Len(input)
    BY <1>2, <2>1, <2>2
  <2>4. LiesAt(input, low, EncodeWord(m))
    BY <2>1, <2>3, ReceivedHolds
  <2> QED BY <2>1, <2>4, WordReads
<1>5. /\ LiesAt(Encode(sent), 4, EncodeWord(sent.lower)) /\ LiesAt(Encode(sent), 36, EncodeWord(sent.upper))
      /\ LiesAt(Encode(sent), 100, EncodeWord(sent.offset))
      /\ LiesAt(Encode(sent), 132, EncodeWord(Len(sent.commitment)))
  BY CallLayout DEF Received
<1>6. 4 \in 0 .. 132 /\ 36 \in 0 .. 132 /\ 100 \in 0 .. 132 /\ 132 \in 0 .. 132
  OBVIOUS
<1>7. Word(4) = sent.lower /\ Word(36) = sent.upper
  BY ONLY <1>3, <1>4, <1>5, <1>6
<1>8. Bytes32(100) = EncodeWord(sent.offset)
  BY ONLY <1>3, <1>4, <1>5, <1>6
<1>9. Bytes32(132) = EncodeWord(Len(sent.commitment))
  BY ONLY <1>3, <1>4, <1>5, <1>6
<1>10. OFFSET = 4 /\ OFFSET + WordBytes = 36 /\ OFFSET + 3 * WordBytes = 100 /\ OFFSET + 4 * WordBytes = 132
  BY DEF OFFSET, WordBytes
<1>11. CommitmentLength = Len(sent.commitment)
  <2>1. Int64(EncodeWord(Len(sent.commitment))) = Len(sent.commitment)
    BY <1>3, Int64IsNumber
  <2> QED BY <1>9, <1>10, <2>1 DEF CommitmentLength
<1>12. PICK v : v = Int64(EncodeWord(sent.offset))
  OBVIOUS
<1>13. StartProof = IF v + 4 < Limit64 THEN v + 4 ELSE v + 4 - 2 * Limit64
  BY <1>8, <1>10, <1>12 DEF StartProof, Plus
<1>14. v \in Int /\ v < Limit64
  <2>1. EncodeWord(sent.offset) \in Seq(0 .. 255) /\ Len(EncodeWord(sent.offset)) = 32
    BY <1>3, WordIsNumber
  <2> QED BY <1>12, <2>1, Int64IsBounded
<1>15. Limit64 \in Nat /\ 196 + a < Limit64
  BY <1>1 DEF Measures
<1>16. StartProof \in Int /\ StartProof < Limit64
  BY <1>2, <1>13, <1>14, <1>15
<1>17. ASSUME Encoded PROVE StartProof = ProofAt(sent)
  <2>1. ProofOffset(sent.commitment) = 4 * 32 + 32 + a
    BY <1>1 DEF ProofOffset, CommitmentOffset, WordBytes, Measures
  <2>2. v = ProofOffset(sent.commitment)
    BY <1>3, <1>12, <1>17, Int64IsNumber DEF Encoded
  <2>3. ProofAt(sent) = 164 + a
    BY <1>1 DEF Measures
  <2> QED BY <1>2, <1>13, <1>15, <2>1, <2>2, <2>3
<1> QED BY <1>7, <1>10, <1>11, <1>16, <1>17

\* The offset passed the check.
OffsetTaken == ~TooShort /\ ~BadProofOffset

\* It did, and Go took the slices behind it.
BodyTaken == OffsetTaken /\ \A s \in BodySlices : InBounds(s)

\* The slices it took, with numbers
LEMMA BodySlicesAre ==
  ASSUME Received, OffsetTaken
  PROVE  /\ BodySlices = {<<132, 164>>, <<164, StartProof>>, <<StartProof, ProofText>>, <<ProofText, Len(input)>>}
         /\ StartProof \in Int /\ StartProof > 164 /\ ProofText \in Int /\ ProofText <= Len(input)
         /\ Len(input) \in Nat /\ Len(input) >= 196
         /\ StartProof + 32 < Limit64 => ProofText = StartProof + 32
         /\ ~(StartProof + 32 < Limit64) => ProofText < StartProof
<1>1. PICK a, b, c, p, n : Measures(a, b, c, p, n)
  BY DataIsMeasured
<1>2. PICK x, y : x = StartProof /\ y = ProofText
  OBVIOUS
<1>3. Len(input) = n /\ n \in Nat /\ n >= 196 /\ Limit64 \in Nat /\ Limit64 > 196
  BY <1>1 DEF Measures, OffsetTaken, TooShort, OFFSET, WordBytes
<1>4. x \in Int /\ x < Limit64
  BY <1>2, HeadReads DEF OffsetTaken
<1>5. y = IF x + 32 < Limit64 THEN x + 32 ELSE x + 32 - 2 * Limit64
  BY <1>2 DEF ProofText, Plus, WordBytes
<1>6. ~(x <= 164) /\ ~(y > n)
  BY <1>2, <1>3 DEF OffsetTaken, BadProofOffset, CommitmentStart, OFFSET, WordBytes
<1>7. x > 164 /\ y \in Int /\ y <= n /\ (x + 32 < Limit64 => y = x + 32) /\ (~(x + 32 < Limit64) => y < x)
  BY <1>3, <1>4, <1>5, <1>6
<1>8. BodySlices = {<<132, 164>>, <<164, x>>, <<x, y>>, <<y, n>>}
  BY <1>2, <1>3 DEF BodySlices, CommitmentStart, OFFSET, WordBytes
<1> QED BY <1>2, <1>3, <1>4, <1>7, <1>8

\* When they lie in the data nothing has wrapped around.
LEMMA BodyIsOrdered ==
  ASSUME Received, BodyTaken
  PROVE  ProofText = StartProof + 32
<1>1. <<StartProof, ProofText>> \in BodySlices
  BY BodySlicesAre DEF BodyTaken
<1>2. StartProof <= ProofText
  BY <1>1 DEF BodyTaken, InBounds
<1> QED BY <1>2, BodySlicesAre DEF BodyTaken

\* Data that reaches the proof's length gives that too.
LEMMA BodyReads ==
  ASSUME Received, BodyTaken
  PROVE  ProofLength \in Int /\ (Encoded => ProofLength = Len(sent.proof))
<1>1. /\ StartProof \in Nat /\ StartProof + 32 <= Len(input) /\ Len(input) \in Nat
  BY BodySlicesAre, BodyIsOrdered DEF BodyTaken
<1>2. ProofLength \in Int
  <2>1. input \in ByteArray
    BY DataIsMeasured DEF Measures
  <2>2. Bytes32(StartProof) \in Seq(0 .. 255) /\ Len(Bytes32(StartProof)) = 32
    BY <1>1, <2>1, DataIsBytes
  <2> QED BY <2>2, Int64IsBounded DEF ProofLength
<1>3. ASSUME Encoded PROVE ProofLength = Len(sent.proof)
  <2>1. StartProof = ProofAt(sent)
    BY <1>3, HeadReads DEF BodyTaken, OffsetTaken
  <2>2. /\ Fits(Len(sent.proof)) /\ Fits64(Len(sent.proof))
        /\ LiesAt(Encode(sent), ProofAt(sent), EncodeWord(Len(sent.proof)))
    BY CallLayout DEF Received, Encodable
  <2>3. StartProof + Len(EncodeWord(Len(sent.proof))) <= Len(input)
    <3>1. Len(EncodeWord(Len(sent.proof))) = 32
      BY <2>2, WordIsNumber
    <3> QED BY <1>1, <3>1
  <2>4. LiesAt(input, StartProof, EncodeWord(Len(sent.proof)))
    BY <2>1, <2>2, <2>3, ReceivedHolds
  <2>5. Bytes32(StartProof) = EncodeWord(Len(sent.proof))
    BY <2>2, <2>4, WordReads
  <2> QED BY <2>2, <2>5, Int64IsNumber DEF ProofLength
<1> QED BY <1>2, <1>3

\* Data with good lengths gives the texts, in slices that lie in it.
LEMMA TextsRead ==
  ASSUME Received, BodyTaken, ~BadLengths
  PROVE  /\ TextOf(CommitmentSlice) = sent.commitment
         /\ Encoded => TextOf(ProofSlice) = sent.proof
         /\ InBounds(CommitmentSlice) /\ InBounds(ProofSlice)
<1>1. PICK a, b, c, p, n : Measures(a, b, c, p, n)
  BY DataIsMeasured
<1>2. PICK x, y, q : x = StartProof /\ y = ProofText /\ q = ProofLength
  OBVIOUS
<1>3. Len(input) = n /\ n \in Nat /\ c \in Nat /\ c = Len(sent.commitment) /\ CommitmentLength = c
  BY <1>1, HeadReads DEF Measures, BodyTaken, OffsetTaken
<1>4. x \in Int /\ x > 164 /\ y = x + 32 /\ y <= n
  BY <1>2, <1>3, BodySlicesAre, BodyIsOrdered DEF BodyTaken
<1>5. q \in Int /\ (Encoded => q = Len(sent.proof))
  BY <1>2, BodyReads
<1>6. ~(q <= 0) /\ ~(c > x - 164) /\ ~(q > n - y)
  BY <1>2, <1>3 DEF BadLengths, CommitmentStart, OFFSET, WordBytes
<1>7. 164 + c <= n /\ 0 <= y /\ y <= y + q /\ y + q <= n /\ 0 <= 164 /\ 164 <= 164 + c
  BY <1>3, <1>4, <1>5, <1>6
<1>8. CommitmentSlice = <<164, 164 + c>> /\ ProofSlice = <<y, y + q>>
  BY <1>2, <1>3 DEF CommitmentSlice, ProofSlice, CommitmentStart, OFFSET, WordBytes
<1>9. InBounds(CommitmentSlice) /\ InBounds(ProofSlice)
  BY <1>3, <1>7, <1>8 DEF InBounds
<1>10. TextOf(CommitmentSlice) = sent.commitment
  <2>1. LiesAt(Encode(sent), 164, sent.commitment) /\ 164 + Len(sent.commitment) <= Len(input)
    BY <1>3, <1>7, CallLayout DEF Received
  <2>2. LiesAt(input, 164, sent.commitment)
    BY <2>1, ReceivedHolds
  <2> QED BY <1>3, <1>8, <2>2, TextReads
<1>11. ASSUME Encoded PROVE TextOf(ProofSlice) = sent.proof
  <2>1. x = ProofAt(sent) /\ y = ProofAt(sent) + 32 /\ q = Len(sent.proof)
    BY <1>2, <1>4, <1>5, <1>11, HeadReads DEF BodyTaken, OffsetTaken
  <2>2. LiesAt(Encode(sent), y, sent.proof) /\ y + Len(sent.proof) <= Len(input)
    BY <1>3, <1>7, <2>1, CallLayout DEF Received
  <2>3. LiesAt(input, y, sent.proof)
    BY <2>2, ReceivedHolds
  <2> QED BY <1>8, <2>1, <2>3, TextReads
<1> QED BY <1>9, <1>10, <1>11

-----------------------------------------------------------------------------
(* The steps of the contract. *)

\* A parsed text is one value.
LEMMA ParsedIsOneValue == ASSUME NEW chars, ParseInput(chars) # NoValue
                          PROVE ParseInput(chars) = <<ParseInput(chars)[1]>>
<1>1. \E list : ParseInput(chars) = <<list>>
  BY Zenon DEF ParseInput
<1> QED BY <1>1

\* The slices taken of data that is not too short lie in it.
LEMMA HeadInBounds ==
  ASSUME Received, ~TooShort PROVE \A s \in HeadSlices : InBounds(s)
<1>1. PICK a, b, c, p, n : Measures(a, b, c, p, n)
  BY DataIsMeasured
<1>2. Len(input) = n /\ n \in Nat /\ n >= 196
  BY <1>1 DEF Measures, TooShort, OFFSET, WordBytes
<1>3. HeadSlices = {<<4 + k * 32, 4 + (k + 1) * 32>> : k \in {0, 1, 3}}
  BY DEF HeadSlices, OFFSET, WordBytes
<1>4. \A k \in {0, 1, 3} : 0 <= 4 + k * 32 /\ 4 + k * 32 <= 4 + (k + 1) * 32 /\ 4 + (k + 1) * 32 <= n
  BY <1>2
<1> QED BY <1>2, <1>3, <1>4 DEF InBounds

\* So do those taken once the offset is good, unless its end wraps around.
LEMMA BodyInBounds ==
  ASSUME Received, OffsetTaken PROVE (\A s \in BodySlices : InBounds(s)) \/ StartProof + WordBytes >= Limit64
<1>1. SUFFICES ASSUME StartProof + 32 < Limit64 PROVE \A s \in BodySlices : InBounds(s)
  <2>1. StartProof \in Int /\ Limit64 \in Nat
    BY BodySlicesAre, Int64Width
  <2> QED BY <1>1, <2>1 DEF WordBytes
<1>2. PICK x, y, n : x = StartProof /\ y = ProofText /\ n = Len(input)
  OBVIOUS
<1>3. /\ x \in Int /\ x > 164 /\ y = x + 32 /\ y <= n /\ n \in Nat /\ n >= 196
      /\ BodySlices = {<<132, 164>>, <<164, x>>, <<x, y>>, <<y, n>>}
  BY <1>1, <1>2, BodySlicesAre
<1>4. \A s \in BodySlices : 0 <= s[1] /\ s[1] <= s[2] /\ s[2] <= n
  BY <1>3
<1> QED BY <1>2, <1>4 DEF InBounds

\* Complete data with texts that are not empty is neither too short nor badly measured.
LEMMA CompleteIsAccepted ==
  ASSUME Received, WellFormedCall PROVE BodyTaken /\ ~BadLengths
<1>1. PICK a, b, c, p, n : Measures(a, b, c, p, n)
  BY DataIsMeasured
<1>2. a \in Nat /\ b \in Nat /\ c \in Nat /\ p \in Nat /\ c <= a /\ p <= b /\ (c > 0 => a >= 32)
      /\ Len(input) = n /\ n = 196 + a + b /\ 196 + a < Limit64 /\ Limit64 \in Nat /\ Encoded
  BY <1>1 DEF Measures, WellFormedCall
<1>3. c > 0 /\ p > 0
  <2>1. sent.commitment \in Seq(0 .. 255) /\ sent.proof \in Seq(0 .. 255)
    BY DEF Received, Encodable, ByteArray
  <2>2. sent.commitment # <<>> /\ sent.proof # <<>>
    BY DEF WellFormedCall
  <2>3. Len(sent.commitment) > 0 /\ Len(sent.proof) > 0
    BY <2>1, <2>2, EmptySeq
  <2> QED BY <1>1, <2>3 DEF Measures
<1>4. ~TooShort
  BY <1>2 DEF TooShort, OFFSET, WordBytes
<1>5. StartProof = 164 + a /\ CommitmentLength = c
  BY <1>1, <1>2, <1>4, HeadReads DEF Measures
<1>6. ProofText = 196 + a
  BY <1>2, <1>5 DEF ProofText, Plus, WordBytes
<1>7. OffsetTaken
  BY <1>2, <1>3, <1>4, <1>5, <1>6 DEF OffsetTaken, BadProofOffset, CommitmentStart, OFFSET, WordBytes
<1>8. BodyTaken
  <2>1. ~(StartProof + WordBytes >= Limit64)
    BY <1>2, <1>5 DEF WordBytes
  <2> QED BY <1>7, <2>1, BodyInBounds DEF BodyTaken
<1>9. ProofLength = p
  BY <1>1, <1>2, <1>8, BodyReads DEF Measures
<1>10. ~BadLengths
  BY <1>2, <1>3, <1>5, <1>6, <1>9 DEF BadLengths, CommitmentStart, OFFSET, WordBytes
<1> QED BY <1>8, <1>10

\* Run on received data: what is validated was sent, complete data is validated,
\* and no slice leaves the data but where the offset wraps around.
LEMMA RunIsRight ==
  ASSUME Received, Run, UNCHANGED <<sent, input>>, slices = {}
  PROVE  ValidatesWhatWasSent'
<1> DEFINE In(s) == InBounds(s) \/ StartProof + WordBytes >= Limit64
<1>1. sent' = sent /\ input' = input
  OBVIOUS
<1>2. (\A s \in slices' : In(s)) => SlicesInBounds'
  BY <1>1, Zenon DEF SlicesInBounds, InBounds, StartProof, Bytes32, Slice
<1>3. \/ BodyTaken /\ ~BadLengths
      \/ outcome' \in {"invalid input", "panic"} /\ ~WellFormedCall
  <2>1. CASE BodyTaken /\ ~BadLengths
    BY <2>1
  <2>2. CASE ~(BodyTaken /\ ~BadLengths)
    <3>1. outcome' = "invalid input" \/ outcome' = "panic"
      BY <2>2, Zenon DEF Run, Invalid, Panic, BodyTaken, OffsetTaken
    <3> QED BY <2>2, <3>1, CompleteIsAccepted
  <2> QED BY <2>1, <2>2
<1>4. outcome' \in {"invalid input", "panic"} /\ ~WellFormedCall => OnlyWhatWasSent' /\ CompleteCallIsValidated'
  <2>1. WellFormedCall' <=> WellFormedCall
    BY <1>1 DEF WellFormedCall, Encoded
  <2> QED BY <2>1 DEF OnlyWhatWasSent, CompleteCallIsValidated
<1>5. CASE TooShort
  <2>1. slices' = {}
    BY <1>5 DEF Run, Invalid
  <2> QED BY <1>2, <1>3, <1>4, <1>5, <2>1 DEF ValidatesWhatWasSent, BodyTaken, OffsetTaken
<1>6. CASE ~TooShort /\ BadProofOffset
  <2>1. slices' = HeadSlices
    BY <1>6, Zenon DEF Run, Invalid
  <2>2. \A s \in slices' : In(s)
    BY <1>6, <2>1, HeadInBounds
  <2> QED BY <1>2, <1>3, <1>4, <1>6, <2>2, Zenon DEF ValidatesWhatWasSent, BodyTaken, OffsetTaken
<1>7. CASE OffsetTaken /\ (~BodyTaken \/ BadLengths)
  <2>1. slices' = HeadSlices \cup BodySlices
    BY <1>7, Zenon DEF Run, Invalid, Panic, BodyTaken, OffsetTaken
  <2>2. \A s \in slices' : In(s)
    <3>1. \A s \in HeadSlices : InBounds(s)
      BY <1>7, HeadInBounds DEF OffsetTaken
    <3>2. (\A s \in BodySlices : InBounds(s)) \/ StartProof + WordBytes >= Limit64
      BY <1>7, BodyInBounds
    <3> QED BY ONLY <2>1, <3>1, <3>2, Zenon
  <2> QED BY <1>2, <1>3, <1>4, <1>7, <2>2, Zenon DEF ValidatesWhatWasSent
<1>8. CASE BodyTaken /\ ~BadLengths
  <2>1. ParseAndValidate
    BY <1>8, Zenon DEF Run, BodyTaken, OffsetTaken
  <2>2. PICK c, p, q : c = ParseInput(sent.commitment) /\ p = ParseInput(TextOf(ProofSlice)) /\ q = ParseInput(sent.proof)
    OBVIOUS
  <2>3. ParseInput(TextOf(CommitmentSlice)) = c /\ (Encoded => p = q) /\ InBounds(CommitmentSlice) /\ InBounds(ProofSlice)
    BY <1>8, <2>2, TextsRead
  <2>4. Word(OFFSET) = sent.lower /\ Word(OFFSET + WordBytes) = sent.upper
    BY <1>8, HeadReads DEF BodyTaken, OffsetTaken
  <2>5. slices' = HeadSlices \cup BodySlices \cup {CommitmentSlice, ProofSlice}
    BY <2>1, Zenon DEF ParseAndValidate
  <2>6. \A s \in slices' : In(s)
    <3>1. \A s \in HeadSlices : InBounds(s)
      BY <1>8, HeadInBounds DEF BodyTaken, OffsetTaken
    <3>2. \A s \in BodySlices : InBounds(s)
      BY <1>8 DEF BodyTaken
    <3> QED BY ONLY <2>3, <2>5, <3>1, <3>2, Zenon
  <2>7. CASE c = NoValue \/ p = NoValue
    <3>1. outcome' = "invalid ASCII"
      BY <2>1, <2>2, <2>3, <2>7, Zenon DEF ParseAndValidate
    <3>2. ~WellFormedCall'
      BY <1>1, <2>2, <2>3, <2>7 DEF WellFormedCall, Encoded
    <3>3. OnlyWhatWasSent' /\ CompleteCallIsValidated'
      BY <3>1, <3>2 DEF OnlyWhatWasSent, CompleteCallIsValidated
    <3> QED BY <1>2, <2>6, <3>3, Zenon DEF ValidatesWhatWasSent
  <2>8. CASE ~(c = NoValue \/ p = NoValue)
    <3>1. /\ outcome' = "validated"
          /\ validated' = [lower |-> sent.lower, upper |-> sent.upper, commitment |-> c[1], proof |-> p[1]]
      BY <2>1, <2>2, <2>3, <2>4, <2>8, Zenon DEF ParseAndValidate
    <3>2. c = <<c[1]>> /\ p = <<p[1]>>
      BY <2>2, <2>8, ParsedIsOneValue
    <3>3. OnlyWhatWasSent'
      BY <1>1, <2>2, <2>3, <3>1, <3>2 DEF OnlyWhatWasSent, Encoded
    <3>4. CompleteCallIsValidated'
      BY <3>1 DEF CompleteCallIsValidated
    <3> QED BY <1>2, <2>6, <3>3, <3>4, Zenon DEF ValidatesWhatWasSent
  <2> QED BY <2>7, <2>8
<1> QED BY <1>5, <1>6, <1>7, <1>8 DEF OffsetTaken, BodyTaken

\* Between calls nothing is sliced; from a call on, the contract holds what its caller
\* encoded, or a prefix of it.
ContractInvariant ==
  /\ sent # NoCall => Received
  /\ outcome # "none" => sent # NoCall
  /\ outcome = "none" => slices = {}
  /\ ValidatesWhatWasSent

\* The precompiled contract validates the arguments its caller encoded, or none, and
\* those of complete call data that is paid for it does validate; no slice of the call
\* data leaves it, however early it ends, however long the texts are and wherever the
\* offset word points, unless startProof + 32 overflows (Run in core/vm/contracts.go).
THEOREM ContractValidatesWhatWasSent == ContractSpec => []ValidatesWhatWasSent
<1>1. ContractInit => ContractInvariant
  <2>1. SUFFICES ASSUME ContractInit PROVE ContractInvariant
    OBVIOUS
  <2>2. sent = NoCall /\ outcome = "none" /\ slices = {}
    BY <2>1 DEF ContractInit
  <2>3. ValidatesWhatWasSent
    BY <2>2 DEF ValidatesWhatWasSent, OnlyWhatWasSent, CompleteCallIsValidated, SlicesInBounds
  <2> QED BY <2>2, <2>3 DEF ContractInvariant
<1>2. ContractInvariant /\ [ContractNext]_contractVars => ContractInvariant'
  <2>1. SUFFICES ASSUME ContractInvariant, [ContractNext]_contractVars PROVE ContractInvariant'
    OBVIOUS
  <2>2. outcome' = "none" /\ slices' = {} => ValidatesWhatWasSent'
    BY DEF ValidatesWhatWasSent, OnlyWhatWasSent, CompleteCallIsValidated, SlicesInBounds
  <2>3. CASE Call
    <3>1. outcome' = "none" /\ slices' = {}
      BY <2>1, <2>3 DEF Call, ContractInvariant
    <3>1a. PICK r \in Ranges, c \in CommitTexts, p \in ProofTexts :
            /\ \E offset \in {ProofOffset(c)} \cup OtherOffsets :
                 sent' = [lower |-> r.lower, upper |-> r.upper, commitment |-> c, proof |-> p, offset |-> offset]
            /\ \E length \in 0 .. Len(Encode(sent')) : input' = SubSeq(Encode(sent'), 1, length)
      BY <2>3 DEF Call
    <3>2. PICK offset \in {ProofOffset(c)} \cup OtherOffsets :
            /\ sent' = [lower |-> r.lower, upper |-> r.upper, commitment |-> c, proof |-> p, offset |-> offset]
            /\ \E length \in 0 .. Len(Encode(sent')) : input' = SubSeq(Encode(sent'), 1, length)
      BY <3>1a
    <3>3. Encodable(sent')
      <4>1. Len(c) \in Lengths /\ Len(p) \in Lengths /\ ProofOffset(c) \in Lengths
        BY DEF Lengths
      <4>2. /\ c \in Seq(0 .. 255) /\ p \in Seq(0 .. 255)
            /\ Fits(r.lower) /\ Fits(r.upper) /\ Fits(Len(c)) /\ Fits(Len(p)) /\ Fits(offset)
        BY <4>1, ArgumentsAreEncodable DEF Fits
      <4>3. \A n \in Lengths : Fits64(n) /\ n + 36 < Limit64
        <5>1. ASSUME NEW n \in Lengths PROVE n \in Nat /\ Shifted(n)[IntBytes] = 0 /\ n + 4 + 32 < Limit64
          BY ArgumentsAreEncodable DEF OFFSET, WordBytes
        <5>2. Limit64 \in Nat
          BY Int64Width
        <5> QED BY <5>1, <5>2 DEF Fits64
      <4>4. sent'.lower = r.lower /\ sent'.upper = r.upper /\ sent'.commitment = c /\ sent'.proof = p /\ sent'.offset = offset
        BY <3>2
      <4> QED BY <4>1, <4>2, <4>3, <4>4 DEF Encodable, ByteArray
    <3>4. Received'
      BY <3>2, <3>3, Zenon DEF Received
    <3> QED BY <2>2, <3>1, <3>4 DEF ContractInvariant
  <2>4. CASE RunPrecompiledContract
    <3>1. sent # NoCall /\ outcome = "none" /\ sent' = sent /\ input' = input /\ Received /\ slices = {}
      BY <2>1, <2>4 DEF RunPrecompiledContract, ContractInvariant
    <3>2. Received'
      BY <3>1 DEF Received
    <3>3. CASE gas < RequiredGas
      <4>1. outcome' = "out of gas" /\ slices' = {}
        BY <2>4, <3>1, <3>3 DEF RunPrecompiledContract
      <4>2. ValidatesWhatWasSent'
        BY <4>1 DEF ValidatesWhatWasSent, OnlyWhatWasSent, CompleteCallIsValidated, SlicesInBounds
      <4> QED BY <3>1, <3>2, <4>1, <4>2 DEF ContractInvariant
    <3>4. CASE ~(gas < RequiredGas)
      <4>1. Run
        BY <2>4, <3>4 DEF RunPrecompiledContract
      <4>2. ValidatesWhatWasSent'
        BY <3>1, <4>1, RunIsRight
      <4>3. outcome' # "none"
        BY <4>1, Zenon DEF Run, Invalid, Panic, ParseAndValidate
      <4> QED BY <3>1, <3>2, <4>2, <4>3 DEF ContractInvariant
    <3> QED BY <3>3, <3>4
  <2>5. CASE Return
    <3>1. sent' = NoCall /\ outcome' = "none" /\ slices' = {}
      BY <2>5 DEF Return
    <3> QED BY <2>2, <3>1 DEF ContractInvariant
  <2>6. CASE UNCHANGED contractVars
    <3>1. sent' = sent /\ input' = input /\ slices' = slices /\ outcome' = outcome /\ validated' = validated
      BY <2>6 DEF contractVars
    <3>2. ValidatesWhatWasSent'
      BY <2>1, <3>1 DEF ContractInvariant, ValidatesWhatWasSent, OnlyWhatWasSent, CompleteCallIsValidated,
                        SlicesInBounds, InBounds, StartProof, Bytes32, Slice, WellFormedCall, Encoded
    <3> QED BY <2>1, <3>1, <3>2 DEF ContractInvariant, Received
  <2> QED BY <2>1, <2>3, <2>4, <2>5, <2>6 DEF ContractNext
<1>3. ContractInvariant => ValidatesWhatWasSent
  BY DEF ContractInvariant
<1> QED BY <1>1, <1>2, <1>3, PTL DEF ContractSpec

-----------------------------------------------------------------------------
(* The calls of package byteconversion.  What an array of bytes is worth. *)

\* Span satisfies its recursion.
LEMMA SpanUnfolds == Span(0) = 1 /\ \A k \in Nat : Span(k + 1) = 256 * Span(k)
<1> DEFINE Def(f) == [k \in Nat |-> IF k = 0 THEN 1 ELSE 256 * f[k - 1]]
           s == CHOOSE f : f = Def(f)
<1>1. \A f : [k \in Nat |-> StepOf("span", 0, f, k)] = Def(f)
  BY DEF StepOf
<1>2. s = CHOOSE f : f = Def(f)
  OBVIOUS
<1>3. s = Def(s)
  <2> HIDE DEF Def, s
  <2> QED BY <1>1, <1>2, Solution
<1>4. \A k : Span(k) = s[k]
  BY DEF Span
<1> HIDE DEF s
<1>5. s[0] = 1 /\ \A k \in Nat : k # 0 => s[k] = 256 * s[k - 1]
  BY <1>3
<1>6. ASSUME NEW k \in Nat PROVE s[k + 1] = 256 * s[k]
  <2>1. k + 1 \in Nat /\ k + 1 # 0 /\ (k + 1) - 1 = k
    OBVIOUS
  <2>2. s[k + 1] = 256 * s[(k + 1) - 1]
    BY <1>5, <2>1, Zenon
  <2> QED BY <2>1, <2>2, Zenon
<1> QED BY <1>4, <1>5, <1>6, Zenon

\* Bytes of a natural number satisfies its recursion.
LEMMA BytesUnfolds ==
  Bytes(0) = <<>> /\ \A a \in Nat : a # 0 => Bytes(a) = Append(Bytes(a \div 256), a % 256)
<1> DEFINE Def(f) == [k \in Nat |-> IF k = 0 THEN <<>> ELSE Append(f[k \div 256], k % 256)]
           s == CHOOSE f : f = Def(f)
<1>1. \A f : [k \in Nat |-> StepOf("bytes", 0, f, k)] = Def(f)
  BY DEF StepOf
<1>2. s = CHOOSE f : f = Def(f)
  OBVIOUS
<1>3. s = Def(s)
  <2> HIDE DEF Def, s
  <2> QED BY <1>1, <1>2, Solution
<1>4. \A a \in Nat : Bytes(a) = s[a]
  <2>1. \A a \in Nat : Magnitude(a) = a
    BY DEF Magnitude
  <2> QED BY <2>1, Zenon DEF Bytes
<1> HIDE DEF s
<1>5. s[0] = <<>> /\ \A k \in Nat : k # 0 => s[k] = Append(s[k \div 256], k % 256)
  BY <1>3
<1>6. ASSUME NEW a \in Nat, a # 0 PROVE Bytes(a) = Append(Bytes(a \div 256), a % 256)
  <2>1. PICK b \in Nat : b = a \div 256
    OBVIOUS
  <2>2. s[a] = Append(s[b], a % 256)
    BY <1>5, <1>6, <2>1
  <2> QED BY <1>4, <2>1, <2>2
<1> QED BY <1>4, <1>5, <1>6

\* So does Java's array.
LEMMA JavaUnfolds ==
  \A a \in Nat : JavaToByteArray(a) = IF a < 128 THEN <<a>> ELSE Append(JavaToByteArray(a \div 256), a % 256)
<1> DEFINE Def(f) == [k \in Nat |-> IF k < 128 THEN <<k>> ELSE Append(f[k \div 256], k % 256)]
           s == CHOOSE f : f = Def(f)
<1>1. \A f : [k \in Nat |-> StepOf("java", 0, f, k)] = Def(f)
  BY DEF StepOf
<1>2. s = CHOOSE f : f = Def(f)
  OBVIOUS
<1>3. s = Def(s)
  <2> HIDE DEF Def, s
  <2> QED BY <1>1, <1>2, Solution
<1>4. \A a : JavaToByteArray(a) = s[a]
  BY Zenon DEF JavaToByteArray
<1> HIDE DEF s
<1>5. \A k \in Nat : s[k] = IF k < 128 THEN <<k>> ELSE Append(s[k \div 256], k % 256)
  BY <1>3, Zenon
<1> QED BY <1>4, <1>5, Zenon

\* Spans are positive.
LEMMA SpanIsPositive == \A k \in Nat : Span(k) \in Nat /\ Span(k) > 0
<1> DEFINE S == {k \in Nat : Span(k) \in Nat /\ Span(k) > 0}
<1>1. 0 \in S
  BY SpanUnfolds
<1>2. ASSUME NEW n \in S PROVE n + 1 \in S
  <2>1. Span(n + 1) = 256 * Span(n) /\ Span(n) \in Nat /\ Span(n) > 0 /\ n + 1 \in Nat
    BY SpanUnfolds
  <2>2. \A a \in Nat : a > 0 => 256 * a \in Nat /\ 256 * a > 0
    OBVIOUS
  <2> QED BY <2>1, <2>2
<1>3. S = Nat
  <2>1. S \in SUBSET Nat
    OBVIOUS
  <2> HIDE DEF S
  <2> QED BY <1>1, <1>2, <2>1, Induction
<1> QED BY <1>3

\* A longer array has no fewer values.
LEMMA SpanGrows == \A i, j \in Nat : i <= j => Span(i) <= Span(j)
<1> SUFFICES ASSUME NEW i \in Nat PROVE \A j \in Nat : i <= j => Span(i) <= Span(j)
  OBVIOUS
<1> DEFINE S == {d \in Nat : Span(i) <= Span(i + d)}
<1>1. 0 \in S
  BY SpanIsPositive
<1>2. ASSUME NEW d \in S PROVE d + 1 \in S
  <2>1. i + d \in Nat /\ i + (d + 1) = (i + d) + 1 /\ Span(i) <= Span(i + d)
    OBVIOUS
  <2>2. Span((i + d) + 1) = 256 * Span(i + d) /\ Span(i + d) \in Nat /\ Span(i) \in Nat
    BY <2>1, SpanUnfolds, SpanIsPositive
  <2>3. \A a, b \in Nat : a <= b => a <= 256 * b
    OBVIOUS
  <2> QED BY <2>1, <2>2, <2>3
<1>3. S = Nat
  <2>1. S \in SUBSET Nat
    OBVIOUS
  <2> HIDE DEF S
  <2> QED BY <1>1, <1>2, <2>1, Induction
<1>4. ASSUME NEW j \in Nat, i <= j PROVE Span(i) <= Span(j)
  <2>1. PICK d \in Nat : i + d = j
    <3>1. j - i \in Nat /\ i + (j - i) = j
      BY <1>4
    <3> QED BY <3>1
  <2>2. d \in S
    BY <1>3
  <2> QED BY <2>1, <2>2
<1> QED BY <1>4

\* Its elements are bytes.
LEMMA ArrayElements ==
  ASSUME NEW bytes \in ByteArray
  PROVE  /\ Len(bytes) \in Nat /\ \A k \in 1 .. Len(bytes) : bytes[k] \in 0 .. 255
         /\ bytes # <<>> => Len(bytes) >= 1
<1>1. bytes \in Seq(0 .. 255)
  BY DEF ByteArray
<1>2. Len(bytes) \in Nat /\ \A k \in 1 .. Len(bytes) : bytes[k] \in 0 .. 255
  BY <1>1, ElementOfSeq, LenProperties
<1>3. bytes # <<>> => Len(bytes) \in Nat \ {0}
  BY <1>1, EmptySeq
<1> QED BY <1>2, <1>3

\* Every prefix of an array is worth less than its span.
LEMMA PrefixIsBounded ==
  ASSUME NEW bytes \in ByteArray
  PROVE  \A k \in 0 .. Len(bytes) : PrefixValues(bytes)[k] \in Nat /\ PrefixValues(bytes)[k] < Span(k)
<1>1. PICK v : v = PrefixValues(bytes)
  OBVIOUS
<1>2. v[0] = 0 /\ \A k \in Nat : k # 0 => v[k] = 256 * v[k - 1] + bytes[k]
  BY <1>1, SetBytesUnfolds
<1>3. Len(bytes) \in Nat /\ \A k \in 1 .. Len(bytes) : bytes[k] \in 0 .. 255
  BY ArrayElements
<1> DEFINE S == {k \in Nat : k <= Len(bytes) => v[k] \in Nat /\ v[k] < Span(k)}
<1>4. 0 \in S
  <2>1. v[0] \in Nat /\ v[0] < Span(0)
    <3>1. Span(0) = 1
      BY SpanUnfolds
    <3> QED BY <1>2, <3>1
  <2> QED BY <2>1
<1>5. ASSUME NEW n \in S PROVE n + 1 \in S
  <2>1. SUFFICES ASSUME n + 1 <= Len(bytes) PROVE v[n + 1] \in Nat /\ v[n + 1] < Span(n + 1)
    OBVIOUS
  <2>2. n \in Nat /\ n + 1 \in Nat /\ n + 1 # 0 /\ (n + 1) - 1 = n /\ n + 1 \in 1 .. Len(bytes) /\ n <= Len(bytes)
    BY <1>3, <2>1
  <2>3. v[n] \in Nat /\ v[n] < Span(n) /\ bytes[n + 1] \in 0 .. 255 /\ Span(n) \in Nat
    BY <1>3, <2>2, SpanIsPositive
  <2>4. v[n + 1] = 256 * v[n] + bytes[n + 1] /\ Span(n + 1) = 256 * Span(n)
    BY <1>2, <2>2, SpanUnfolds
  <2>5. PICK a \in Nat, p \in Nat, b \in 0 .. 255 : a = v[n] /\ p = Span(n) /\ b = bytes[n + 1]
    BY <2>3
  <2>6. a < p /\ v[n + 1] = 256 * a + b /\ Span(n + 1) = 256 * p
    BY ONLY <2>3, <2>4, <2>5
  <2>7. 256 * a + b \in Nat /\ 256 * a + b < 256 * p
    BY ONLY <2>6
  <2> QED BY ONLY <2>6, <2>7
<1>6. S = Nat
  <2>1. S \in SUBSET Nat
    OBVIOUS
  <2> HIDE DEF S
  <2> QED BY <1>4, <1>5, <2>1, Induction
<1> QED BY <1>1, <1>3, <1>6

\* The first byte tells how much of the span an array is worth.
LEMMA FirstByteCounts ==
  ASSUME NEW bytes \in ByteArray, bytes # <<>>, NEW c \in 0 .. 256
  PROVE  /\ Len(bytes) \in Nat /\ Len(bytes) >= 1 /\ bytes[1] \in 0 .. 255
         /\ bytes[1] >= c <=> SetBytes(bytes) >= c * Span(Len(bytes) - 1)
<1>1. PICK v : v = PrefixValues(bytes)
  OBVIOUS
<1>2. v[0] = 0 /\ SetBytes(bytes) = v[Len(bytes)] /\ \A k \in Nat : k # 0 => v[k] = 256 * v[k - 1] + bytes[k]
  BY <1>1, SetBytesUnfolds
<1>3. Len(bytes) \in Nat /\ Len(bytes) >= 1 /\ \A k \in 1 .. Len(bytes) : bytes[k] \in 0 .. 255
  BY ArrayElements
<1>4. bytes[1] \in 0 .. 255
  BY <1>3
<1> DEFINE S == {k \in Nat : k + 1 <= Len(bytes) => v[k + 1] \in Nat /\ (bytes[1] >= c <=> v[k + 1] >= c * Span(k))}
<1>5. 0 \in S
  <2>1. 1 \in Nat /\ 1 # 0 /\ 1 - 1 = 0 /\ 0 + 1 = 1
    OBVIOUS
  <2>2. v[1] = 256 * v[0] + bytes[1]
    BY <1>2, <2>1
  <2>a. PICK e \in 0 .. 255 : e = bytes[1]
    BY <1>4
  <2>3. v[1] = e
    BY ONLY <1>2, <2>a, <2>2
  <2>4. c * Span(0) = c
    <3>1. Span(0) = 1
      BY SpanUnfolds
    <3> QED BY <3>1
  <2>5. v[0 + 1] \in Nat /\ (bytes[1] >= c <=> v[0 + 1] >= c * Span(0))
    BY ONLY <2>a, <2>1, <2>3, <2>4, c \in 0 .. 256
  <2> QED BY <2>5
<1>6. ASSUME NEW n \in S PROVE n + 1 \in S
  <2>1. SUFFICES ASSUME (n + 1) + 1 <= Len(bytes)
                 PROVE  v[(n + 1) + 1] \in Nat /\ (bytes[1] >= c <=> v[(n + 1) + 1] >= c * Span(n + 1))
    OBVIOUS
  <2>2. PICK m \in Nat : m = n + 1
    OBVIOUS
  <2>3. n \in Nat /\ m + 1 \in Nat /\ m + 1 # 0 /\ (m + 1) - 1 = m /\ m + 1 \in 1 .. Len(bytes) /\ n + 1 <= Len(bytes)
    BY <1>3, <2>1, <2>2
  <2>4. v[m] \in Nat /\ (bytes[1] >= c <=> v[m] >= c * Span(n)) /\ bytes[m + 1] \in 0 .. 255
    BY <1>3, <2>2, <2>3
  <2>5. v[m + 1] = 256 * v[m] + bytes[m + 1] /\ Span(m) = 256 * Span(n) /\ Span(n) \in Nat
    BY <1>2, <2>2, <2>3, SpanUnfolds, SpanIsPositive
  <2>6. PICK q \in Nat : q = c * Span(n)
    <3>1. PICK p \in Nat : p = Span(n)
      BY <2>5
    <3>2. c * p \in Nat
      OBVIOUS
    <3> QED BY <3>1, <3>2
  <2>7. c * Span(m) = 256 * q
    <3>1. PICK p \in Nat : p = Span(n)
      BY <2>5
    <3>2. c * (256 * p) = 256 * (c * p)
      OBVIOUS
    <3> QED BY <2>5, <2>6, <3>1, <3>2
  <2>8. PICK a \in Nat, b \in 0 .. 255 : a = v[m] /\ b = bytes[m + 1]
    BY <2>4
  <2>9. v[m + 1] \in Nat /\ (v[m + 1] >= 256 * q <=> v[m] >= q)
    <3>1. 256 * a + b \in Nat /\ (256 * a + b >= 256 * q <=> a >= q)
      OBVIOUS
    <3>2. v[m + 1] = 256 * a + b
      BY <2>5, <2>8
    <3> QED BY <2>8, <3>1, <3>2
  <2> QED BY <2>2, <2>4, <2>6, <2>7, <2>9
<1>7. S = Nat
  <2>1. S \in SUBSET Nat
    OBVIOUS
  <2> HIDE DEF S
  <2> QED BY <1>5, <1>6, <2>1, Induction
<1>8. PICK k \in Nat : k = Len(bytes) - 1 /\ k + 1 = Len(bytes)
  <2>1. PICK m \in Nat : m = Len(bytes) /\ m >= 1
    BY <1>3
  <2>2. m - 1 \in Nat /\ (m - 1) + 1 = m
    BY ONLY <2>1
  <2> QED BY ONLY <2>1, <2>2
<1>9. bytes[1] >= c <=> v[Len(bytes)] >= c * Span(Len(bytes) - 1)
  <2>1. k \in S
    BY <1>7
  <2>2. bytes[1] >= c <=> v[k + 1] >= c * Span(k)
    BY <1>3, <1>8, <2>1
  <2> QED BY <1>8, <2>2
<1> QED BY <1>2, <1>3, <1>4, <1>9

\* An array is a number below its span.
LEMMA ArrayIsBounded ==
  ASSUME NEW bytes \in ByteArray PROVE SetBytes(bytes) \in Nat /\ SetBytes(bytes) < Span(Len(bytes))
<1>1. SetBytes(bytes) = PrefixValues(bytes)[Len(bytes)]
  BY SetBytesUnfolds
<1>2. Len(bytes) \in 0 .. Len(bytes)
  <2>1. Len(bytes) \in Nat
    BY ArrayElements
  <2> QED BY ONLY <2>1
<1>3. PrefixValues(bytes)[Len(bytes)] \in Nat /\ PrefixValues(bytes)[Len(bytes)] < Span(Len(bytes))
  BY <1>2, PrefixIsBounded
<1> QED BY ONLY <1>1, <1>3

\* A byte at the end counts 1, the others 256 times what they did.
LEMMA LastByteCounts ==
  ASSUME NEW bytes \in ByteArray, NEW b \in 0 .. 255
  PROVE  /\ Append(bytes, b) \in ByteArray /\ Append(bytes, b) # <<>>
         /\ Len(Append(bytes, b)) = Len(bytes) + 1
         /\ SetBytes(Append(bytes, b)) = 256 * SetBytes(bytes) + b
<1>1. PICK t, v, w : t = Append(bytes, b) /\ v = PrefixValues(bytes) /\ w = PrefixValues(t)
  OBVIOUS
<1>2. /\ SetBytes(bytes) = v[Len(bytes)] /\ v[0] = 0
      /\ \A k \in Nat : k # 0 => v[k] = 256 * v[k - 1] + bytes[k]
  BY ONLY <1>1, SetBytesUnfolds, ZenonT(60)
<1>3. /\ SetBytes(t) = w[Len(t)] /\ w[0] = 0
      /\ \A k \in Nat : k # 0 => w[k] = 256 * w[k - 1] + t[k]
  BY ONLY <1>1, SetBytesUnfolds, ZenonT(60)
<1>4. PICK n \in Nat : n = Len(bytes)
  BY ArrayElements
<1>5. /\ t \in ByteArray /\ t # <<>> /\ Len(t) = n + 1 /\ t[n + 1] = b
      /\ \A k \in 1 .. n : t[k] = bytes[k]
  BY <1>1, <1>4, AppendProperties DEF ByteArray
<1> DEFINE S == {k \in Nat : k <= n => w[k] = v[k]}
<1>6. 0 \in S
  BY <1>2, <1>3
<1>7. ASSUME NEW k \in S PROVE k + 1 \in S
  <2>1. SUFFICES ASSUME k + 1 <= n PROVE w[k + 1] = v[k + 1]
    OBVIOUS
  <2>2. k \in Nat /\ k + 1 \in Nat /\ k + 1 # 0 /\ (k + 1) - 1 = k /\ k + 1 \in 1 .. n /\ k <= n
    BY <2>1
  <2>3. w[k] = v[k] /\ t[k + 1] = bytes[k + 1]
    BY <1>5, <2>2
  <2>4. w[k + 1] = 256 * w[(k + 1) - 1] + t[k + 1] /\ v[k + 1] = 256 * v[(k + 1) - 1] + bytes[k + 1]
    BY ONLY <1>2, <1>3, <2>2
  <2> QED BY ONLY <2>2, <2>3, <2>4
<1>8. S = Nat
  <2>1. S \in SUBSET Nat
    OBVIOUS
  <2> HIDE DEF S
  <2> QED BY <1>6, <1>7, <2>1, Induction
<1>9. w[n] = v[n]
  BY <1>8
<1>10. w[n + 1] = 256 * w[n] + b
  <2>1. n + 1 \in Nat /\ n + 1 # 0 /\ (n + 1) - 1 = n
    OBVIOUS
  <2>2. w[n + 1] = 256 * w[(n + 1) - 1] + t[n + 1]
    BY ONLY <1>3, <2>1
  <2> QED BY ONLY <1>5, <2>1, <2>2
<1>11. SetBytes(t) = 256 * SetBytes(bytes) + b
  BY ONLY <1>2, <1>3, <1>4, <1>5, <1>9, <1>10
<1> QED BY ONLY <1>1, <1>4, <1>5, <1>11

\* No bytes are worth nothing.
LEMMA NoBytes == <<>> \in ByteArray /\ SetBytes(<<>>) = 0
<1>1. Len(<<>>) = 0
  OBVIOUS
<1> QED BY <1>1, SetBytesUnfolds DEF ByteArray

\* The bytes of a number are worth the number and have no leading zero.
LEMMA BytesAreExact ==
  ASSUME NEW a \in Nat
  PROVE  /\ Bytes(a) \in ByteArray /\ SetBytes(Bytes(a)) = a
         /\ a = 0 => Bytes(a) = <<>>
         /\ a # 0 => Bytes(a) # <<>> /\ Bytes(a)[1] >= 1
<1> DEFINE Good(k) == /\ Bytes(k) \in ByteArray /\ SetBytes(Bytes(k)) = k
                      /\ k = 0 => Bytes(k) = <<>>
                      /\ k # 0 => Bytes(k) # <<>> /\ Bytes(k)[1] >= 1
           S == {k \in Nat : Good(k)}
<1>1. ASSUME NEW n \in Nat, \A m \in Nat : m < n => m \in S PROVE Good(n)
  <2>1. CASE n = 0
    <3>1. Bytes(0) = <<>>
      BY BytesUnfolds
    <3> QED BY <2>1, <3>1, NoBytes
  <2>2. CASE n # 0
    <3>1. PICK h \in Nat, b \in 0 .. 255 : h = n \div 256 /\ b = n % 256
      <4>1. n \div 256 \in Nat /\ n % 256 \in 0 .. 255
        BY ONLY n \in Nat
      <4> QED BY ONLY <4>1
    <3>2. h < n /\ 256 * h + b = n /\ (h = 0 => b = n)
      BY ONLY <2>2, <3>1, n \in Nat
    <3>3. Good(h)
      BY <1>1, <3>1, <3>2
    <3>4. Bytes(n) = Append(Bytes(h), b)
      BY ONLY <2>2, <3>1, BytesUnfolds, n \in Nat, ZenonT(60)
    <3>5. PICK s : s = Bytes(h)
      OBVIOUS
    <3>6. s \in ByteArray /\ SetBytes(s) = h /\ (h = 0 => s = <<>>) /\ (h # 0 => s # <<>> /\ s[1] >= 1)
      BY <3>3, <3>5
    <3>7. /\ Append(s, b) \in ByteArray /\ Append(s, b) # <<>>
          /\ SetBytes(Append(s, b)) = 256 * h + b
      BY ONLY <3>6, LastByteCounts, b \in 0 .. 255, ZenonT(60)
    <3>8. Append(s, b)[1] >= 1
      <4>1. CASE h = 0
        <5>1. s = <<>>
          BY ONLY <3>6, <4>1
        <5>2. Append(<<>>, b) = <<b>>
          OBVIOUS
        <5>3. <<b>>[1] = b
          OBVIOUS
        <5>4. b >= 1
          BY ONLY <2>2, <3>2, <4>1, n \in Nat
        <5> QED BY ONLY <5>1, <5>2, <5>3, <5>4
      <4>2. CASE h # 0
        <5>1. s \in Seq(0 .. 255) /\ Len(s) \in Nat /\ Len(s) >= 1
          BY <3>6, <4>2, ArrayElements DEF ByteArray
        <5>2. \A i \in 1 .. Len(s) : Append(s, b)[i] = s[i]
          BY ONLY <5>1, AppendProperties, b \in 0 .. 255
        <5>3. 1 \in 1 .. Len(s)
          BY ONLY <5>1
        <5>4. Append(s, b)[1] = s[1]
          BY ONLY <5>2, <5>3
        <5> QED BY ONLY <3>6, <4>2, <5>4
      <4> QED BY <4>1, <4>2
    <3> QED BY ONLY <2>2, <3>2, <3>4, <3>5, <3>7, <3>8
  <2> QED BY <2>1, <2>2
<1>2. S = Nat
  <2>1. S \in SUBSET Nat /\ \A n \in Nat : (\A m \in Nat : m < n => m \in S) => n \in S
    BY <1>1
  <2> HIDE DEF S
  <2> QED BY <2>1, StrongInduction
<1>3. Good(a)
  BY <1>2
<1> QED BY <1>3

\* Flipped bytes are worth what is missing to the largest number.
LEMMA FlippedIsRest ==
  ASSUME NEW bytes \in ByteArray
  PROVE  /\ FlipBytes(bytes) \in ByteArray /\ Len(FlipBytes(bytes)) = Len(bytes)
         /\ \A k \in 1 .. Len(bytes) : FlipBytes(bytes)[k] = 255 - bytes[k]
         /\ SetBytes(FlipBytes(bytes)) = Span(Len(bytes)) - 1 - SetBytes(bytes)
<1>1. PICK t, v, w : t = FlipBytes(bytes) /\ v = PrefixValues(bytes) /\ w = PrefixValues(t)
  OBVIOUS
<1>2. /\ SetBytes(bytes) = v[Len(bytes)] /\ v[0] = 0
      /\ \A k \in Nat : k # 0 => v[k] = 256 * v[k - 1] + bytes[k]
  BY ONLY <1>1, SetBytesUnfolds, ZenonT(60)
<1>3. /\ SetBytes(t) = w[Len(t)] /\ w[0] = 0
      /\ \A k \in Nat : k # 0 => w[k] = 256 * w[k - 1] + t[k]
  BY ONLY <1>1, SetBytesUnfolds, ZenonT(60)
<1>4. PICK n \in Nat : n = Len(bytes)
  BY ArrayElements
<1>5. \A k \in 1 .. n : bytes[k] \in 0 .. 255
  BY <1>4, ArrayElements
<1>6. t = [k \in 1 .. n |-> 255 - bytes[k]]
  <2>1. DOMAIN bytes = 1 .. n
    BY <1>4, LenProperties DEF ByteArray
  <2> QED BY <1>1, <2>1 DEF FlipBytes
<1>7. \A k \in 1 .. n : t[k] = 255 - bytes[k] /\ t[k] \in 0 .. 255
  <2>1. ASSUME NEW k \in 1 .. n PROVE t[k] = 255 - bytes[k] /\ t[k] \in 0 .. 255
    <3>1. t[k] = 255 - bytes[k]
      BY ONLY <1>6, k \in 1 .. n
    <3>2. PICK b \in 0 .. 255 : b = bytes[k]
      BY <1>5
    <3> QED BY ONLY <3>1, <3>2
  <2> QED BY <2>1
<1>8. t \in ByteArray /\ Len(t) = n
  <2>1. DOMAIN t = 1 .. n /\ t = [k \in 1 .. n |-> t[k]]
    BY ONLY <1>6
  <2>2. t \in [1 .. n -> 0 .. 255]
    BY ONLY <1>7, <2>1, Zenon
  <2>3. t \in Seq(0 .. 255) /\ Len(t) = n
    <3>1. PICK B : B = 0 .. 255
      OBVIOUS
    <3>2. t \in [1 .. n -> B]
      BY ONLY <2>2, <3>1
    <3>3. t \in Seq(B) /\ Len(t) = n
      BY ONLY <3>2, n \in Nat
    <3> QED BY ONLY <3>1, <3>3
  <2> QED BY <2>3 DEF ByteArray
<1> DEFINE S == {k \in Nat : k <= n => v[k] \in Nat /\ w[k] = Span(k) - 1 - v[k]}
<1>9. 0 \in S
  <2>1. Span(0) = 1
    BY SpanUnfolds
  <2>2. v[0] \in Nat /\ w[0] = Span(0) - 1 - v[0]
    BY ONLY <1>2, <1>3, <2>1
  <2> QED BY ONLY <2>2
<1>10. ASSUME NEW k \in S PROVE k + 1 \in S
  <2>1. SUFFICES ASSUME k + 1 <= n PROVE v[k + 1] \in Nat /\ w[k + 1] = Span(k + 1) - 1 - v[k + 1]
    OBVIOUS
  <2>2. k \in Nat /\ k + 1 \in Nat /\ k + 1 # 0 /\ (k + 1) - 1 = k /\ k + 1 \in 1 .. n /\ k <= n
    BY <2>1
  <2>3. v[k] \in Nat /\ w[k] = Span(k) - 1 - v[k] /\ t[k + 1] = 255 - bytes[k + 1]
    BY <1>7, <2>2
  <2>4. w[k + 1] = 256 * w[(k + 1) - 1] + t[k + 1] /\ v[k + 1] = 256 * v[(k + 1) - 1] + bytes[k + 1]
    BY ONLY <1>2, <1>3, <2>2
  <2>5. Span(k + 1) = 256 * Span(k) /\ Span(k) \in Nat
    BY ONLY <2>2, SpanUnfolds, SpanIsPositive
  <2>6. PICK a \in Nat, p \in Nat, b \in 0 .. 255 : a = v[k] /\ p = Span(k) /\ b = bytes[k + 1]
    BY ONLY <1>5, <2>2, <2>3, <2>5
  <2>7. w[k + 1] = 256 * (p - 1 - a) + (255 - b) /\ v[k + 1] = 256 * a + b /\ Span(k + 1) = 256 * p
    BY ONLY <2>2, <2>3, <2>4, <2>5, <2>6
  <2>8. 256 * (p - 1 - a) + (255 - b) = 256 * p - 1 - (256 * a + b) /\ 256 * a + b \in Nat
    OBVIOUS
  <2> QED BY ONLY <2>7, <2>8
<1>11. S = Nat
  <2>1. S \in SUBSET Nat
    OBVIOUS
  <2> HIDE DEF S
  <2> QED BY <1>9, <1>10, <2>1, Induction
<1>12. w[n] = Span(n) - 1 - v[n]
  BY <1>11
<1>13. SetBytes(t) = Span(n) - 1 - SetBytes(bytes)
  BY ONLY <1>2, <1>3, <1>4, <1>8, <1>12
<1> QED BY ONLY <1>1, <1>4, <1>7, <1>8, <1>13

\* A byte put in front counts once for every value of the others.
LEMMA ByteInFront ==
  ASSUME NEW bytes \in ByteArray, NEW c \in 0 .. 255
  PROVE  /\ <<c>> \o bytes \in ByteArray /\ <<c>> \o bytes # <<>>
         /\ Len(<<c>> \o bytes) = Len(bytes) + 1 /\ (<<c>> \o bytes)[1] = c
         /\ SetBytes(<<c>> \o bytes) = c * Span(Len(bytes)) + SetBytes(bytes)
<1>1. PICK t, v, w : t = <<c>> \o bytes /\ v = PrefixValues(bytes) /\ w = PrefixValues(t)
  OBVIOUS
<1>2. /\ SetBytes(bytes) = v[Len(bytes)] /\ v[0] = 0
      /\ \A k \in Nat : k # 0 => v[k] = 256 * v[k - 1] + bytes[k]
  BY ONLY <1>1, SetBytesUnfolds, ZenonT(60)
<1>3. /\ SetBytes(t) = w[Len(t)] /\ w[0] = 0
      /\ \A k \in Nat : k # 0 => w[k] = 256 * w[k - 1] + t[k]
  BY ONLY <1>1, SetBytesUnfolds, ZenonT(60)
<1>4. PICK n \in Nat : n = Len(bytes)
  BY ArrayElements
<1>5. \A k \in 1 .. n : bytes[k] \in 0 .. 255
  BY <1>4, ArrayElements
<1>6. /\ t \in Seq(0 .. 255) /\ Len(t) = n + 1 /\ t[1] = c /\ \A k \in 1 .. n : t[k + 1] = bytes[k]
  <2>1. bytes \in Seq(0 .. 255) /\ <<c>> \in Seq(0 .. 255) /\ Len(<<c>>) = 1
    BY DEF ByteArray
  <2>2. /\ t \in Seq(0 .. 255) /\ Len(t) = 1 + n
        /\ \A i \in 1 .. 1 + n : t[i] = IF i <= 1 THEN <<c>>[i] ELSE bytes[i - 1]
    BY ONLY <1>1, <1>4, <2>1, ConcatProperties
  <2>3. 1 + n = n + 1 /\ 1 \in 1 .. 1 + n
    OBVIOUS
  <2>4. t[1] = c
    BY ONLY <2>2, <2>3
  <2>5. ASSUME NEW k \in 1 .. n PROVE t[k + 1] = bytes[k]
    <3>1. k + 1 \in 1 .. 1 + n /\ ~(k + 1 <= 1) /\ (k + 1) - 1 = k
      OBVIOUS
    <3> QED BY ONLY <2>2, <3>1
  <2> QED BY <2>2, <2>3, <2>4, <2>5
<1> DEFINE S == {k \in Nat : k <= n => v[k] \in Nat /\ w[k + 1] = c * Span(k) + v[k]}
<1>9. 0 \in S
  <2>1. Span(0) = 1
    BY SpanUnfolds
  <2>2. 0 + 1 = 1 /\ 1 \in Nat /\ 1 # 0 /\ 1 - 1 = 0
    OBVIOUS
  <2>3. w[1] = 256 * w[1 - 1] + t[1]
    BY ONLY <1>3, <2>2
  <2>4. v[0] \in Nat /\ w[0 + 1] = c * Span(0) + v[0]
    BY ONLY <1>2, <1>3, <1>6, <2>1, <2>2, <2>3, c \in 0 .. 255
  <2> QED BY ONLY <2>4
<1>10. ASSUME NEW k \in S PROVE k + 1 \in S
  <2>1. SUFFICES ASSUME k + 1 <= n PROVE v[k + 1] \in Nat /\ w[(k + 1) + 1] = c * Span(k + 1) + v[k + 1]
    OBVIOUS
  <2>2. /\ k \in Nat /\ k + 1 \in Nat /\ k + 1 # 0 /\ (k + 1) - 1 = k /\ k + 1 \in 1 .. n /\ k <= n
        /\ (k + 1) + 1 \in Nat /\ (k + 1) + 1 # 0 /\ ((k + 1) + 1) - 1 = k + 1
    BY <2>1
  <2>3. v[k] \in Nat /\ w[k + 1] = c * Span(k) + v[k] /\ t[(k + 1) + 1] = bytes[k + 1]
    BY <1>6, <2>2
  <2>4. w[(k + 1) + 1] = 256 * w[k + 1] + t[(k + 1) + 1] /\ v[k + 1] = 256 * v[k] + bytes[k + 1]
    BY ONLY <1>2, <1>3, <2>2
  <2>5. Span(k + 1) = 256 * Span(k) /\ Span(k) \in Nat
    BY ONLY <2>2, SpanUnfolds, SpanIsPositive
  <2>6. PICK a \in Nat, p \in Nat, b \in 0 .. 255 : a = v[k] /\ p = Span(k) /\ b = bytes[k + 1]
    BY ONLY <1>5, <2>2, <2>3, <2>5
  <2>7. w[(k + 1) + 1] = 256 * (c * p + a) + b /\ v[k + 1] = 256 * a + b /\ Span(k + 1) = 256 * p
    BY ONLY <2>2, <2>3, <2>4, <2>5, <2>6
  <2>8. 256 * (c * p + a) + b = c * (256 * p) + (256 * a + b) /\ 256 * a + b \in Nat
    OBVIOUS
  <2> QED BY ONLY <2>7, <2>8
<1>11. S = Nat
  <2>1. S \in SUBSET Nat
    OBVIOUS
  <2> HIDE DEF S
  <2> QED BY <1>9, <1>10, <2>1, Induction
<1>12. w[n + 1] = c * Span(n) + v[n]
  BY <1>11
<1>13. SetBytes(t) = c * Span(n) + SetBytes(bytes)
  BY ONLY <1>2, <1>3, <1>4, <1>6, <1>12
<1>14. t # <<>>
  <2>1. Len(<<>>) = 0 /\ n + 1 # 0
    OBVIOUS
  <2> QED BY ONLY <1>6, <2>1
<1> QED BY ONLY <1>1, <1>4, <1>6, <1>13, <1>14 DEF ByteArray

\* A number between the spans of L - 1 and of L has L bytes.
LEMMA BytesLength ==
  ASSUME NEW a \in Nat, NEW L \in Nat, L >= 1, Span(L - 1) <= a, a < Span(L)
  PROVE  /\ Bytes(a) \in ByteArray /\ Bytes(a) # <<>> /\ Len(Bytes(a)) = L
         /\ SetBytes(Bytes(a)) = a
<1>1. PICK b : b = Bytes(a)
  OBVIOUS
<1>2. L - 1 \in Nat /\ Span(L - 1) \in Nat /\ Span(L - 1) > 0 /\ Span(L) \in Nat
  <2>1. L - 1 \in Nat
    OBVIOUS
  <2> QED BY <2>1, SpanIsPositive
<1>3. a # 0
  BY <1>2
<1>4. b \in ByteArray /\ SetBytes(b) = a /\ b # <<>> /\ b[1] >= 1
  BY <1>1, <1>3, BytesAreExact
<1>5. PICK n \in Nat : n = Len(b) /\ n >= 1
  BY <1>4, ArrayElements
<1>6. a < Span(n)
  BY <1>4, <1>5, ArrayIsBounded
<1>7. n - 1 \in Nat /\ Span(n - 1) \in Nat /\ Span(n) \in Nat
  <2>1. n - 1 \in Nat
    BY <1>5
  <2> QED BY <2>1, SpanIsPositive
<1>8. a >= Span(n - 1)
  <2>1. 1 \in 0 .. 256
    OBVIOUS
  <2>2. b[1] >= 1 <=> SetBytes(b) >= 1 * Span(Len(b) - 1)
    BY ONLY <1>4, <2>1, FirstByteCounts
  <2>3. \A p \in Nat : 1 * p = p
    OBVIOUS
  <2> QED BY ONLY <1>4, <1>5, <1>7, <2>2, <2>3
<1>9. ~(n <= L - 1)
  <2>1. n <= L - 1 => Span(n) <= Span(L - 1)
    BY ONLY <1>2, n \in Nat, SpanGrows
  <2> QED BY <1>2, <1>6, <1>7, <2>1
<1>10. ~(L <= n - 1)
  <2>1. L <= n - 1 => Span(L) <= Span(n - 1)
    BY ONLY <1>7, L \in Nat, SpanGrows
  <2> QED BY <1>2, <1>7, <1>8, <2>1
<1>11. n = L
  BY <1>5, <1>9, <1>10
<1> QED BY ONLY <1>1, <1>4, <1>5, <1>11

\* A sequence is its head and its tail.
LEMMA HeadThenTail == ASSUME NEW T, NEW s \in Seq(T), s # <<>> PROVE s = <<Head(s)>> \o Tail(s)
<1>1. PICK n \in Nat : Len(s) = n + 1
  <2>1. PICK m \in Nat : m = Len(s) /\ m # 0
    BY EmptySeq, LenProperties
  <2>2. m - 1 \in Nat /\ m = (m - 1) + 1
    BY ONLY <2>1
  <2> QED BY ONLY <2>1, <2>2
<1>2. PICK h, t : h = Head(s) /\ t = Tail(s)
  OBVIOUS
<1>3. /\ h \in T /\ h = s[1] /\ t \in Seq(T) /\ Len(t) = n
      /\ \A i \in 1 .. n : t[i] = s[i + 1]
  BY <1>1, <1>2, HeadTailProperties
<1>4. <<h>> \in Seq(T) /\ Len(<<h>>) = 1 /\ <<h>>[1] = h
  BY <1>3
<1>5. PICK u : u = <<h>> \o t
  OBVIOUS
<1>6. u \in Seq(T) /\ Len(u) = 1 + n /\ \A i \in 1 .. 1 + n : u[i] = IF i <= 1 THEN <<h>>[i] ELSE t[i - 1]
  BY ONLY <1>3, <1>4, <1>5, ConcatProperties
<1>7. ASSUME NEW i \in 1 .. 1 + n PROVE s[i] = u[i]
  <2>1. CASE i = 1
    BY ONLY <1>3, <1>4, <1>6, <2>1, i \in 1 .. 1 + n
  <2>2. CASE i # 1
    <3>1. PICK j \in 1 .. n : j = i - 1 /\ i = j + 1 /\ ~(i <= 1)
      <4>1. i - 1 \in 1 .. n /\ i = (i - 1) + 1 /\ ~(i <= 1)
        BY <2>2
      <4> QED BY <4>1
    <3> QED BY ONLY <1>3, <1>6, <3>1, i \in 1 .. 1 + n
  <2> QED BY <2>1, <2>2
<1>8. Len(s) = 1 + n
  BY ONLY <1>1, n \in Nat
<1>9. s = u
  BY ONLY <1>6, <1>7, <1>8, SeqEqual, s \in Seq(T)
<1> QED BY ONLY <1>2, <1>5, <1>9

\* The first byte of an array
LEMMA FirstByte ==
  ASSUME NEW bytes \in ByteArray, bytes # <<>> PROVE Head(bytes) = bytes[1] /\ bytes[1] \in 0 .. 255
<1>1. bytes \in Seq(0 .. 255)
  BY DEF ByteArray
<1>2. 1 \in 1 .. Len(bytes)
  BY ArrayElements
<1> QED BY <1>1, <1>2, ArrayElements

\* The value of an array of L bytes that is worth v: the top bit counts negative.
LEMMA TopBitCounts ==
  ASSUME NEW bytes \in ByteArray, bytes # <<>>, NEW k \in Nat, Len(bytes) = k + 1
  PROVE  /\ HighBit(Head(bytes)) <=> SetBytes(bytes) >= 128 * Span(k)
         /\ TwosComplement(bytes) = IF SetBytes(bytes) >= 128 * Span(k) THEN SetBytes(bytes) - Span(k + 1)
                                    ELSE SetBytes(bytes)
<1>1. bytes[1] >= 128 <=> SetBytes(bytes) >= 128 * Span(Len(bytes) - 1)
  <2>1. 128 \in 0 .. 256
    OBVIOUS
  <2> QED BY <2>1, FirstByteCounts
<1>2. (k + 1) - 1 = k
  OBVIOUS
<1>3. HighBit(Head(bytes)) <=> SetBytes(bytes) >= 128 * Span(k)
  BY <1>1, <1>2, FirstByte DEF HighBit
<1>4. SetBytes(bytes) \in Nat
  BY ArrayIsBounded
<1>5. SetBytes(bytes) - 0 = SetBytes(bytes)
  BY ONLY <1>4
<1> QED BY <1>3, <1>5, Zenon DEF TwosComplement

\* FromByteArray decodes every array.
LEMMA FromIsExact ==
  ASSUME NEW bytes \in ByteArray, bytes # <<>> PROVE FromByteArray(bytes) = <<TwosComplement(bytes)>>
<1>1. PICK k \in Nat : Len(bytes) = k + 1
  <2>1. PICK m \in Nat : m = Len(bytes) /\ m >= 1
    BY ArrayElements
  <2>2. m - 1 \in Nat /\ m = (m - 1) + 1
    BY ONLY <2>1
  <2> QED BY ONLY <2>1, <2>2
<1>2. PICK V \in Nat, p \in Nat : V = SetBytes(bytes) /\ p = Span(k) /\ p > 0
  BY ArrayIsBounded, SpanIsPositive
<1>3. Span(k + 1) = 256 * p /\ V < 256 * p
  <2>1. Span(k + 1) = 256 * p
    BY <1>2, SpanUnfolds
  <2> QED BY <1>1, <1>2, <2>1, ArrayIsBounded
<1>4. HighBit(Head(bytes)) <=> V >= 128 * p
  BY <1>1, <1>2, TopBitCounts
<1>5. TwosComplement(bytes) = IF V >= 128 * p THEN V - 256 * p ELSE V
  <2>1. TwosComplement(bytes) = IF V >= 128 * p THEN V - Span(k + 1) ELSE V
    BY ONLY <1>1, <1>2, TopBitCounts, bytes \in ByteArray, bytes # <<>>, k \in Nat
  <2> QED BY ONLY <1>3, <2>1
<1>6. CASE ~(V >= 128 * p)
  <2>1. FromByteArray(bytes) = <<V>>
    BY ONLY <1>2, <1>4, <1>6, bytes # <<>>, Zenon DEF FromByteArray
  <2> QED BY ONLY <1>5, <1>6, <2>1
<1>7. CASE V >= 128 * p
  <2>1. PICK a \in Nat : a = V - 1
    <3>1. V - 1 \in Nat
      BY ONLY <1>2, <1>7, V \in Nat, p \in Nat
    <3> QED BY <3>1
  <2>2. p <= a /\ a < 256 * p /\ k + 1 \in Nat /\ k + 1 >= 1 /\ (k + 1) - 1 = k
    BY ONLY <1>2, <1>3, <1>7, <2>1, V \in Nat, p \in Nat, k \in Nat
  <2>3. PICK tmp : tmp = Bytes(a)
    OBVIOUS
  <2>4. tmp \in ByteArray /\ tmp # <<>> /\ Len(tmp) = k + 1 /\ SetBytes(tmp) = a
    <3>1. Span((k + 1) - 1) <= a /\ a < Span(k + 1)
      BY ONLY <1>2, <1>3, <2>2
    <3> QED BY ONLY <2>2, <2>3, <3>1, BytesLength, a \in Nat
  <2>5. PICK flipped : flipped = FlipBytes(tmp)
    OBVIOUS
  <2>6. /\ flipped \in ByteArray /\ Len(flipped) = k + 1 /\ SetBytes(flipped) = Span(k + 1) - 1 - a
        /\ \A i \in 1 .. k + 1 : flipped[i] = 255 - tmp[i]
    BY ONLY <2>4, <2>5, FlippedIsRest
  <2>7. SetBytes(flipped) = 256 * p - V
    BY ONLY <1>3, <2>1, <2>6, V \in Nat, p \in Nat
  <2>8. PICK rest : rest = IF Head(tmp) = 255 THEN Tail(flipped) ELSE flipped
    OBVIOUS
  <2>9. SetBytes(rest) = 256 * p - V
    <3>1. CASE Head(tmp) # 255
      BY ONLY <2>7, <2>8, <3>1
    <3>2. CASE Head(tmp) = 255
      <4>1. rest = Tail(flipped)
        BY ONLY <2>8, <3>2
      <4>2. tmp[1] = 255
        BY ONLY <2>4, <3>2, FirstByte
      <4>3. flipped[1] = 0
        <5>1. 1 \in 1 .. k + 1
          BY ONLY <2>2
        <5>2. flipped[1] = 255 - tmp[1]
          BY ONLY <2>6, <5>1
        <5> QED BY ONLY <4>2, <5>2
      <4>4. flipped \in Seq(0 .. 255) /\ flipped # <<>>
        <5>1. flipped \in Seq(0 .. 255)
          BY <2>6 DEF ByteArray
        <5>2. Len(<<>>) = 0 /\ k + 1 # 0
          OBVIOUS
        <5>3. flipped # <<>>
          BY ONLY <2>6, <5>2
        <5> QED BY ONLY <5>1, <5>3
      <4>5. rest \in ByteArray
        <5>1. Tail(flipped) \in Seq(0 .. 255)
          BY ONLY <4>4, HeadTailProperties
        <5> QED BY <4>1, <5>1 DEF ByteArray
      <4>6. <<0>> \o rest = flipped
        <5>1. Head(flipped) = flipped[1]
          BY ONLY <4>4
        <5>2. flipped = <<Head(flipped)>> \o Tail(flipped)
          BY ONLY <4>4, HeadThenTail
        <5> QED BY ONLY <4>1, <4>3, <5>1, <5>2
      <4>7. 0 \in 0 .. 255
        OBVIOUS
      <4>8. SetBytes(<<0>> \o rest) = 0 * Span(Len(rest)) + SetBytes(rest)
        BY ONLY <4>5, <4>7, ByteInFront
      <4>9. PICK q \in Nat, s \in Nat : q = Span(Len(rest)) /\ s = SetBytes(rest)
        <5>1. SetBytes(rest) \in Nat /\ Len(rest) \in Nat
          BY <4>5, ArrayIsBounded, ArrayElements
        <5>2. Span(Len(rest)) \in Nat
          BY ONLY <5>1, SpanIsPositive
        <5> QED BY ONLY <5>1, <5>2
      <4>10. 0 * q + s = s
        OBVIOUS
      <4> QED BY ONLY <2>7, <4>6, <4>8, <4>9, <4>10
    <3> QED BY <3>1, <3>2
  <2>10. FromByteArray(bytes) = <<-SetBytes(rest)>>
    <3>1. HighBit(Head(bytes)) /\ V - 1 = a /\ bytes # <<>>
      BY ONLY <1>4, <1>7, <2>1, bytes # <<>>
    <3> QED BY ONLY <1>2, <2>3, <2>5, <2>8, <3>1, Zenon DEF FromByteArray
  <2>11. -(256 * p - V) = V - 256 * p
    OBVIOUS
  <2> QED BY ONLY <1>5, <1>7, <2>9, <2>10, <2>11
<1> QED BY <1>6, <1>7

\* An array that is not empty has a length k + 1.
LEMMA OneByteMore == ASSUME NEW bytes \in ByteArray, bytes # <<>> PROVE \E k \in Nat : Len(bytes) = k + 1
<1>1. PICK m \in Nat : m = Len(bytes) /\ m >= 1
  BY ArrayElements
<1>2. m - 1 \in Nat /\ m = (m - 1) + 1
  BY ONLY <1>1
<1> QED BY ONLY <1>1, <1>2

\* A number w whose top bit is set, cut to k + 1 bytes, stands for w - Span(k + 1).
LEMMA NegativeBytes ==
  ASSUME NEW k \in Nat, NEW w \in Nat, w >= 128 * Span(k), w < 256 * Span(k)
  PROVE  /\ Bytes(w) \in ByteArray /\ Bytes(w) # <<>> /\ Len(Bytes(w)) = k + 1
         /\ TwosComplement(Bytes(w)) = w - 256 * Span(k)
<1>1. PICK p \in Nat : p = Span(k) /\ p > 0
  BY SpanIsPositive
<1>2. p <= w /\ w < 256 * p /\ w >= 128 * p
  BY <1>1
<1>3. Span(k + 1) = 256 * p
  BY <1>1, SpanUnfolds
<1>4. k + 1 \in Nat /\ k + 1 >= 1 /\ (k + 1) - 1 = k
  OBVIOUS
<1>5. PICK r : r = Bytes(w)
  OBVIOUS
<1>6. r \in ByteArray /\ r # <<>> /\ Len(r) = k + 1 /\ SetBytes(r) = w
  <2>1. Span((k + 1) - 1) <= w /\ w < Span(k + 1)
    BY ONLY <1>1, <1>2, <1>3, <1>4
  <2> QED BY ONLY <1>4, <1>5, <2>1, BytesLength, w \in Nat
<1>7. TwosComplement(r) = w - Span(k + 1)
  BY ONLY <1>1, <1>2, <1>6, TopBitCounts, k \in Nat
<1> QED BY ONLY <1>1, <1>3, <1>5, <1>6, <1>7

\* The bytes of a number that is not 0 and a sign byte if their top bit is set: no
\* shorter array has room for them and a sign bit.
LEMMA SignByteIsNeeded ==
  ASSUME NEW m \in Nat, m # 0, NEW k \in Nat, Len(Bytes(m)) = k + 1
  PROVE  IF HighBit(Head(Bytes(m))) THEN LeastLength(m, k + 2) ELSE LeastLength(m, k + 1)
<1>1. PICK b : b = Bytes(m)
  OBVIOUS
<1>2. b \in ByteArray /\ SetBytes(b) = m /\ b # <<>> /\ b[1] >= 1
  BY ONLY <1>1, BytesAreExact, m \in Nat, m # 0
<1>3. PICK p \in Nat, q \in Nat : p = Span(k) /\ p > 0 /\ q = Span(k + 1) /\ q = 256 * p
  <2>1. k + 1 \in Nat
    OBVIOUS
  <2> QED BY ONLY <2>1, SpanIsPositive, SpanUnfolds, k \in Nat
<1>4. m < q
  BY ONLY <1>1, <1>2, <1>3, ArrayIsBounded, Len(Bytes(m)) = k + 1
<1>5. HighBit(Head(b)) <=> m >= 128 * p
  BY ONLY <1>1, <1>2, <1>3, TopBitCounts, k \in Nat, Len(Bytes(m)) = k + 1
<1>6. m >= p
  <2>1. PICK c \in 0 .. 256 : c = 1
    OBVIOUS
  <2>2. b[1] >= c <=> m >= c * Span(Len(b) - 1)
    BY ONLY <1>2, FirstByteCounts, c \in 0 .. 256
  <2>3. Len(b) - 1 = k
    BY ONLY <1>1, k \in Nat, Len(Bytes(m)) = k + 1
  <2> QED BY ONLY <1>2, <1>3, <2>1, <2>2, <2>3
<1>7. ASSUME k > 0 PROVE p >= 128 * Span(k - 1)
  <2>1. k - 1 \in Nat /\ (k - 1) + 1 = k
    BY ONLY <1>7, k \in Nat
  <2>2. PICK o \in Nat : o = Span(k - 1)
    BY ONLY <2>1, SpanIsPositive
  <2>3. p = 256 * o
    BY ONLY <1>3, <2>1, <2>2, SpanUnfolds
  <2> QED BY ONLY <2>2, <2>3
<1>8. Magnitude(m) = m
  BY DEF Magnitude
<1>9. CASE HighBit(Head(b))
  <2>1. (k + 2) - 1 = k + 1 /\ (k + 2) - 2 = k
    OBVIOUS
  <2>2. m < 128 * q /\ m >= 128 * p
    BY ONLY <1>3, <1>4, <1>5, <1>9, m \in Nat
  <2>3. LeastLength(m, k + 2)
    BY ONLY <1>3, <1>8, <2>1, <2>2 DEF LeastLength
  <2> QED BY ONLY <1>1, <1>9, <2>3
<1>10. CASE ~HighBit(Head(b))
  <2>1. (k + 1) - 1 = k /\ (k + 1) - 2 = k - 1 /\ (k + 1 > 1 => k > 0)
    OBVIOUS
  <2>2. m < 128 * p
    BY ONLY <1>3, <1>5, <1>10, m \in Nat
  <2>3. ASSUME k > 0 PROVE m >= 128 * Span(k - 1)
    <3>1. k - 1 \in Nat
      BY ONLY <2>3, k \in Nat
    <3>2. Span(k - 1) \in Nat
      BY ONLY <3>1, SpanIsPositive
    <3> QED BY ONLY <1>3, <1>6, <1>7, <2>3, <3>2, m \in Nat
  <2>4. LeastLength(m, k + 1)
    BY ONLY <1>3, <1>8, <2>1, <2>2, <2>3 DEF LeastLength
  <2> QED BY ONLY <1>1, <1>10, <2>4
<1> QED BY ONLY <1>9, <1>10

\* ToByteArray makes an array that stands for the number, and no longer one than its
\* magnitude and a sign bit need.
LEMMA ToIsExact ==
  ASSUME NEW n \in Int
  PROVE  /\ ToByteArray(n) \in ByteArray /\ ToByteArray(n) # <<>> /\ TwosComplement(ToByteArray(n)) = n
         /\ LeastLength(n, Len(ToByteArray(n)))
<1>1. PICK m \in Nat : m = Magnitude(n)
  BY DEF Magnitude
<1>2. (n >= 0 => n = m) /\ (n < 0 => n = -m /\ m # 0)
  BY <1>1 DEF Magnitude
<1>3. PICK b : b = Bytes(n) /\ b = Bytes(m)
  <2>1. Magnitude(m) = m
    BY DEF Magnitude
  <2> QED BY <1>1, <2>1 DEF Bytes
<1>4. b \in ByteArray /\ SetBytes(b) = m /\ (m = 0 => b = <<>>) /\ (m # 0 => b # <<>>)
  BY ONLY <1>3, BytesAreExact, m \in Nat
<1>4a. ASSUME NEW L, LeastLength(m, L) PROVE LeastLength(n, L)
  <2>1. Magnitude(m) = m
    BY DEF Magnitude
  <2> QED BY ONLY <1>1, <1>4a, <2>1 DEF LeastLength
<1>5. CASE m = 0
  <2>1. ToByteArray(n) = <<0>>
    BY ONLY <1>3, <1>4, <1>5, Zenon DEF ToByteArray
  <2>2. <<0>> = Append(<<>>, 0) /\ 0 \in 0 .. 255 /\ 256 * 0 + 0 = 0 /\ Len(<<>>) = 0 /\ 0 + 1 = 1
    OBVIOUS
  <2>3. <<0>> \in ByteArray /\ <<0>> # <<>> /\ Len(<<0>>) = 0 + 1 /\ SetBytes(<<0>>) = 0
    <3>1. PICK none, zero : none = <<>> /\ zero = 0
      OBVIOUS
    <3>2. none \in ByteArray /\ zero \in 0 .. 255
      BY ONLY <3>1, NoBytes
    <3>3. /\ Append(none, zero) \in ByteArray /\ Append(none, zero) # <<>>
          /\ Len(Append(none, zero)) = Len(none) + 1
          /\ SetBytes(Append(none, zero)) = 256 * SetBytes(none) + zero
      BY ONLY <3>2, LastByteCounts, ZenonT(60)
    <3>4. SetBytes(none) = 0 /\ Len(none) = 0
      BY ONLY <2>2, <3>1, NoBytes
    <3>5. Append(none, zero) = <<0>>
      BY ONLY <3>1
    <3> QED BY ONLY <3>1, <3>3, <3>4, <3>5
  <2>4. Span(0) = 1 /\ 0 \in Nat /\ ~(0 >= 128 * 1)
    BY SpanUnfolds
  <2>5. TwosComplement(<<0>>) = 0
    BY ONLY <2>3, <2>4, TopBitCounts
  <2>6. n = 0
    BY ONLY <1>2, <1>5, n \in Int
  <2>7. LeastLength(m, 1)
    <3>1. Magnitude(m) = 0
      BY <1>5 DEF Magnitude
    <3> QED BY ONLY <2>4, <3>1 DEF LeastLength
  <2>8. Len(<<0>>) = 1
    OBVIOUS
  <2> QED BY ONLY <1>4a, <2>1, <2>3, <2>5, <2>6, <2>7, <2>8, Zenon
<1>6. CASE m # 0 /\ n >= 0
  <2>1. b # <<>> /\ n = m
    BY ONLY <1>2, <1>4, <1>6
  <2>2. PICK k \in Nat : Len(b) = k + 1
    BY ONLY <1>4, <2>1, OneByteMore
  <2>3. HighBit(Head(b)) <=> m >= 128 * Span(k)
    BY ONLY <1>4, <2>1, <2>2, TopBitCounts
  <2>4. CASE ~HighBit(Head(b))
    <3>1. ToByteArray(n) = <<>> \o b
      BY ONLY <1>3, <1>6, <2>1, <2>4, Zenon DEF ToByteArray
    <3>2. <<>> \o b = b
      <4>1. b \in Seq(0 .. 255)
        BY <1>4 DEF ByteArray
      <4> QED BY ONLY <4>1, ConcatEmptySeq
    <3>3. TwosComplement(b) = m
      BY ONLY <1>4, <2>1, <2>2, <2>3, <2>4, TopBitCounts
    <3>4. LeastLength(m, k + 1)
      BY ONLY <1>3, <1>6, <2>2, <2>4, SignByteIsNeeded, m \in Nat, k \in Nat
    <3> QED BY ONLY <1>4, <1>4a, <2>1, <2>2, <3>1, <3>2, <3>3, <3>4
  <2>5. CASE HighBit(Head(b))
    <3>1. ToByteArray(n) = <<0>> \o b
      <4>1. ~(n < 0)
        BY ONLY <1>6, n \in Int
      <4> QED BY ONLY <1>3, <1>6, <2>1, <2>5, <4>1, Zenon DEF ToByteArray
    <3>2. PICK r : r = <<0>> \o b
      OBVIOUS
    <3>3. 0 \in 0 .. 255
      OBVIOUS
    <3>4. /\ r \in ByteArray /\ r # <<>> /\ Len(r) = Len(b) + 1
          /\ SetBytes(r) = 0 * Span(Len(b)) + SetBytes(b)
      BY ONLY <1>4, <3>2, <3>3, ByteInFront
    <3>5. PICK q \in Nat : q = Span(Len(b)) /\ k + 1 \in Nat /\ m < q
      <4>1. k + 1 \in Nat
        OBVIOUS
      <4>2. Span(k + 1) \in Nat
        BY ONLY <4>1, SpanIsPositive
      <4> QED BY ONLY <1>4, <2>2, <4>1, <4>2, ArrayIsBounded
    <3>6. 0 * q + m = m /\ ~(m >= 128 * q)
      BY ONLY <3>5, q \in Nat, m \in Nat
    <3>7. SetBytes(r) = m
      BY ONLY <1>4, <3>4, <3>5, <3>6
    <3>8. TwosComplement(r) = m
      BY ONLY <2>2, <3>4, <3>5, <3>6, <3>7, TopBitCounts
    <3>9. LeastLength(m, k + 2) /\ (k + 1) + 1 = k + 2
      BY ONLY <1>3, <1>6, <2>2, <2>5, SignByteIsNeeded, m \in Nat, k \in Nat
    <3> QED BY ONLY <1>4a, <2>1, <2>2, <3>1, <3>2, <3>4, <3>8, <3>9
  <2> QED BY <2>4, <2>5
<1>7. CASE m # 0 /\ n < 0
  <2>1. b # <<>> /\ n = -m /\ ~(n >= 0)
    BY ONLY <1>2, <1>4, <1>7, n \in Int
  <2>2. PICK k \in Nat : Len(b) = k + 1
    BY ONLY <1>4, <2>1, OneByteMore
  <2>3. PICK p \in Nat : p = Span(k) /\ p > 0
    BY ONLY SpanIsPositive, k \in Nat
  <2>4. Span(k + 1) = 256 * p /\ m < 256 * p /\ k + 1 \in Nat
    <3>1. Span(k + 1) = 256 * p /\ k + 1 \in Nat
      BY ONLY <2>3, SpanUnfolds, k \in Nat
    <3> QED BY ONLY <1>4, <2>2, <3>1, ArrayIsBounded
  <2>5. HighBit(Head(b)) <=> m >= 128 * p
    BY ONLY <1>4, <2>1, <2>2, <2>3, TopBitCounts
  <2>6. PICK f : f = FlipBytes(b)
    OBVIOUS
  <2>7. f \in ByteArray /\ Len(f) = k + 1 /\ SetBytes(f) = 256 * p - 1 - m
    BY ONLY <1>4, <2>2, <2>4, <2>6, FlippedIsRest
  <2>8. CASE ~HighBit(Head(b))
    <3>1. PICK w \in Nat : w = 256 * p - m
      <4>1. 256 * p - m \in Nat
        BY ONLY <2>4, m \in Nat, p \in Nat
      <4> QED BY ONLY <4>1
    <3>2. ToByteArray(n) = Bytes(w)
      <4>1. ToByteArray(n) = Bytes(SetBytes(<<>> \o f) + 1)
        BY ONLY <1>3, <2>1, <2>6, <2>8, Zenon DEF ToByteArray
      <4>2. <<>> \o f = f
        <5>1. f \in Seq(0 .. 255)
          BY <2>7 DEF ByteArray
        <5> QED BY ONLY <5>1, ConcatEmptySeq
      <4>3. (256 * p - 1 - m) + 1 = w
        BY ONLY <3>1, p \in Nat, m \in Nat
      <4> QED BY ONLY <2>7, <4>1, <4>2, <4>3
    <3>3. w >= 128 * p /\ w < 256 * p /\ w - 256 * p = n
      BY ONLY <1>7, <2>1, <2>5, <2>8, <3>1, p \in Nat, m \in Nat
    <3>4. /\ Bytes(w) \in ByteArray /\ Bytes(w) # <<>> /\ Len(Bytes(w)) = k + 1
          /\ TwosComplement(Bytes(w)) = n
      BY ONLY <2>3, <3>3, NegativeBytes, k \in Nat, w \in Nat
    <3>5. LeastLength(m, k + 1)
      BY ONLY <1>3, <1>7, <2>2, <2>8, SignByteIsNeeded, m \in Nat, k \in Nat
    <3> QED BY ONLY <1>4a, <3>2, <3>4, <3>5
  <2>9. CASE HighBit(Head(b))
    <3>1. PICK q \in Nat : q = Span(k + 1) /\ q > 0 /\ m < q
      BY ONLY <2>4, SpanIsPositive
    <3>2. PICK w \in Nat : w = 256 * q - m
      <4>1. 256 * q - m \in Nat
        BY ONLY <3>1, m \in Nat, q \in Nat
      <4> QED BY ONLY <4>1
    <3>3. SetBytes(<<255>> \o f) = 255 * q + SetBytes(f)
      <4>1. PICK c \in 0 .. 255 : c = 255
        OBVIOUS
      <4>2. SetBytes(<<c>> \o f) = c * Span(Len(f)) + SetBytes(f)
        BY ONLY <2>7, ByteInFront, c \in 0 .. 255
      <4> QED BY ONLY <2>7, <3>1, <4>1, <4>2
    <3>4. ToByteArray(n) = Bytes(w)
      <4>1. ToByteArray(n) = Bytes(SetBytes(<<255>> \o f) + 1)
        BY ONLY <1>3, <1>7, <2>1, <2>6, <2>9, Zenon DEF ToByteArray
      <4>2. SetBytes(f) = q - 1 - m
        BY ONLY <2>4, <2>7, <3>1
      <4>3. SetBytes(<<255>> \o f) + 1 = w
        BY ONLY <3>2, <3>3, <4>2, q \in Nat, m \in Nat
      <4> QED BY ONLY <4>1, <4>3
    <3>5. w >= 128 * q /\ w < 256 * q /\ w - 256 * q = n
      BY ONLY <1>7, <2>1, <3>1, <3>2, q \in Nat, m \in Nat
    <3>6. /\ Bytes(w) \in ByteArray /\ Bytes(w) # <<>> /\ Len(Bytes(w)) = (k + 1) + 1
          /\ TwosComplement(Bytes(w)) = n
      BY ONLY <2>4, <3>1, <3>5, NegativeBytes, w \in Nat
    <3>7. LeastLength(m, k + 2) /\ (k + 1) + 1 = k + 2
      BY ONLY <1>3, <1>7, <2>2, <2>9, SignByteIsNeeded, m \in Nat, k \in Nat
    <3> QED BY ONLY <1>4a, <3>4, <3>6, <3>7
  <2> QED BY <2>8, <2>9
<1> QED BY <1>5, <1>6, <1>7

\* The array of a number that is not negative is Java's.
LEMMA ToIsJava == \A n \in Nat : ToByteArray(n) = JavaToByteArray(n)
<1> DEFINE S == {n \in Nat : ToByteArray(n) = JavaToByteArray(n)}
<1>1. ASSUME NEW n \in Nat, \A m \in Nat : m < n => m \in S PROVE ToByteArray(n) = JavaToByteArray(n)
  <2>1. PICK h \in Nat, b \in 0 .. 255 : h = n \div 256 /\ b = n % 256
    <3>1. n \div 256 \in Nat /\ n % 256 \in 0 .. 255
      BY ONLY n \in Nat
    <3> QED BY ONLY <3>1
  <2>2. JavaToByteArray(n) = IF n < 128 THEN <<n>> ELSE Append(JavaToByteArray(h), b)
    BY ONLY <2>1, JavaUnfolds, n \in Nat
  <2>3. n # 0 => Bytes(n) = Append(Bytes(h), b)
    BY ONLY <2>1, BytesUnfolds, n \in Nat
  <2>4. n # 0 => h < n
    BY ONLY <2>1, n \in Nat
  <2>5. ~(n < 0) /\ n >= 0
    BY ONLY n \in Nat
  <2>6. CASE n = 0
    <3>1. Bytes(n) = <<>>
      BY ONLY <2>6, BytesUnfolds
    <3>2. ToByteArray(n) = <<0>>
      BY ONLY <3>1, Zenon DEF ToByteArray
    <3>3. n < 128
      BY ONLY <2>6
    <3> QED BY ONLY <2>2, <2>6, <3>2, <3>3
  <2>7. CASE n # 0 /\ h = 0
    <3>1. b = n
      BY ONLY <2>1, <2>7, n \in Nat
    <3>2. Bytes(n) = <<n>>
      <4>1. Bytes(0) = <<>>
        BY BytesUnfolds
      <4>2. Append(<<>>, b) = <<b>>
        OBVIOUS
      <4> QED BY ONLY <2>3, <2>7, <3>1, <4>1, <4>2
    <3>3. <<n>> # <<>> /\ Head(<<n>>) = n
      OBVIOUS
    <3>4. CASE n < 128
      <4>1. ~HighBit(Head(<<n>>))
        BY ONLY <3>3, <3>4, n \in Nat DEF HighBit
      <4>2. ToByteArray(n) = <<>> \o <<n>>
        BY ONLY <2>5, <3>2, <3>3, <4>1, Zenon DEF ToByteArray
      <4>3. <<>> \o <<n>> = <<n>>
        OBVIOUS
      <4> QED BY ONLY <2>2, <3>4, <4>2, <4>3
    <3>5. CASE ~(n < 128)
      <4>1. HighBit(Head(<<n>>))
        BY ONLY <3>3, <3>5, n \in Nat DEF HighBit
      <4>2. ToByteArray(n) = <<0>> \o <<n>>
        BY ONLY <2>5, <3>2, <3>3, <4>1, Zenon DEF ToByteArray
      <4>3. JavaToByteArray(0) = <<0>>
        <5>1. 0 \in Nat /\ 0 < 128
          OBVIOUS
        <5> QED BY ONLY <5>1, JavaUnfolds
      <4>4. Append(<<0>>, n) = <<0>> \o <<n>>
        OBVIOUS
      <4> QED BY ONLY <2>2, <2>7, <3>1, <3>5, <4>2, <4>3, <4>4
    <3> QED BY <3>4, <3>5
  <2>8. CASE n # 0 /\ h # 0
    <3>1. ~(n < 128) /\ h >= 0
      BY ONLY <2>1, <2>8, n \in Nat
    <3>2. ToByteArray(h) = JavaToByteArray(h)
      BY <1>1, <2>4, <2>8
    <3>3. PICK s : s = Bytes(h)
      OBVIOUS
    <3>4. s \in Seq(0 .. 255) /\ s # <<>>
      BY <2>8, <3>3, BytesAreExact DEF ByteArray
    <3>5. Bytes(n) = Append(s, b) /\ Append(s, b) # <<>> /\ Head(Append(s, b)) = Head(s)
      <4>1. Head(Append(s, b)) = Head(s)
        BY ONLY <3>4, HeadTailAppend
      <4>2. Append(s, b) # <<>>
        BY ONLY <3>4, AppendProperties, b \in 0 .. 255
      <4> QED BY ONLY <2>3, <2>8, <3>3, <4>1, <4>2
    <3>6. PICK prefix : prefix = IF ~HighBit(Head(s)) THEN <<>> ELSE <<0>>
      OBVIOUS
    <3>7. ToByteArray(h) = prefix \o s
      <4>1. ~(h < 0)
        BY ONLY h \in Nat
      <4> QED BY ONLY <3>1, <3>3, <3>4, <3>6, <4>1, Zenon DEF ToByteArray
    <3>8. ToByteArray(n) = prefix \o Append(s, b)
      BY ONLY <2>5, <3>5, <3>6, Zenon DEF ToByteArray
    <3>9. prefix \o Append(s, b) = Append(prefix \o s, b)
      <4>1. prefix \in Seq(0 .. 255)
        <5>1. <<>> \in Seq(0 .. 255) /\ <<0>> \in Seq(0 .. 255)
          OBVIOUS
        <5> QED BY ONLY <3>6, <5>1
      <4>2. Append(s, b) = s \o <<b>> /\ <<b>> \in Seq(0 .. 255)
        BY ONLY <3>4, AppendIsConcat, b \in 0 .. 255
      <4>3. prefix \o s \in Seq(0 .. 255)
        BY ONLY <3>4, <4>1, ConcatProperties
      <4>4. Append(prefix \o s, b) = (prefix \o s) \o <<b>>
        BY ONLY <4>3, AppendIsConcat, b \in 0 .. 255
      <4>5. (prefix \o s) \o <<b>> = prefix \o (s \o <<b>>)
        BY ONLY <3>4, <4>1, <4>2, ConcatAssociative, SMTT(60)
      <4> QED BY ONLY <4>2, <4>4, <4>5
    <3> QED BY ONLY <2>2, <3>1, <3>2, <3>7, <3>8, <3>9
  <2> QED BY <2>6, <2>7, <2>8
<1>2. S = Nat
  <2>1. S \in SUBSET Nat /\ \A n \in Nat : (\A m \in Nat : m < n => m \in S) => n \in S
    BY <1>1
  <2> HIDE DEF S
  <2> QED BY <2>1, StrongInduction
<1> QED BY <1>2

-----------------------------------------------------------------------------
(* The parser. *)

\* The states of the loop of ParseInput
ParseStates(t) == CHOOSE f : f = [k \in Nat |-> IF k = 0 THEN ParseStart ELSE ParseByte(t, f[k - 1], k)]

\* ParseInput runs its loop over the text, then parses what is left.
LEMMA ParseUnfolds ==
  ASSUME NEW t
  PROVE  /\ ParseStates(t)[0] = ParseStart
         /\ \A k \in Nat : ParseStates(t)[k + 1] = ParseByte(t, ParseStates(t)[k], k + 1)
         /\ ParseInput(t) =
              LET commas == ParseStates(t)[Len(t)]
                  done   == IF commas.err THEN commas ELSE ParseNumber(t, commas, Len(t) + 1)
              IN  IF done.err THEN NoValue ELSE <<done.output>>
<1> DEFINE Def(f) == [k \in Nat |-> IF k = 0 THEN ParseStart ELSE ParseByte(t, f[k - 1], k)]
           s == ParseStates(t)
<1>1. \A f : [k \in Nat |-> StepOf("parse", t, f, k)] = Def(f)
  BY DEF StepOf
<1>2. s = CHOOSE f : f = Def(f)
  BY DEF ParseStates
<1>3. s = Def(s)
  <2> HIDE DEF Def, s
  <2> QED BY <1>1, <1>2, Solution
<1>4. ParseInput(t) =
        LET commas == s[Len(t)]
            done   == IF commas.err THEN commas ELSE ParseNumber(t, commas, Len(t) + 1)
        IN  IF done.err THEN NoValue ELSE <<done.output>>
  BY Zenon DEF ParseInput, ParseStates
<1> HIDE DEF s
<1>5. s[0] = ParseStart /\ \A k \in Nat : k # 0 => s[k] = ParseByte(t, s[k - 1], k)
  BY <1>3
<1>6. ASSUME NEW k \in Nat PROVE s[k + 1] = ParseByte(t, s[k], k + 1)
  <2>1. k + 1 \in Nat /\ k + 1 # 0 /\ (k + 1) - 1 = k
    OBVIOUS
  <2>2. s[k + 1] = ParseByte(t, s[(k + 1) - 1], k + 1)
    BY ONLY <1>5, <2>1, Zenon
  <2> QED BY ONLY <2>1, <2>2, Zenon
<1>7. /\ s[0] = ParseStart
      /\ \A k \in Nat : s[k + 1] = ParseByte(t, s[k], k + 1)
      /\ ParseInput(t) =
           LET commas == s[Len(t)]
               done   == IF commas.err THEN commas ELSE ParseNumber(t, commas, Len(t) + 1)
           IN  IF done.err THEN NoValue ELSE <<done.output>>
  BY ONLY <1>4, <1>5, <1>6, Zenon
<1> QED BY ONLY <1>7, Zenon DEF s

\* A field starts behind a comma or with the text and holds no comma.
IsField(t, start, until) ==
  /\ start \in Nat /\ until \in Nat /\ start >= 1 /\ start <= until /\ until <= Len(t) + 1
  /\ start = 1 \/ t[start - 1] = Comma
  /\ \A i \in start .. until - 1 : t[i] # Comma

\* A field is a number exactly if its characters belong into the text.
LEMMA FieldConverts ==
  ASSUME NEW t \in ByteArray, NEW start, NEW until, IsField(t, start, until)
  PROVE  /\ SubSeq(t, start, until - 1) \in ByteArray
         /\ IF \E i \in start .. until - 1 : ~Belongs(t, i)
              THEN ConvertToBigInt(SubSeq(t, start, until - 1)) = NoValue
              ELSE ConvertToBigInt(SubSeq(t, start, until - 1)) = <<SetString(SubSeq(t, start, until - 1))>>
<1>1. PICK N \in Nat : N = Len(t) /\ \A i \in 1 .. N : t[i] \in 0 .. 255
  BY ArrayElements
<1>2. /\ start \in Nat /\ until \in Nat /\ start >= 1 /\ start <= until /\ until <= N + 1
      /\ start = 1 \/ t[start - 1] = Comma
      /\ \A i \in start .. until - 1 : t[i] # Comma
  BY <1>1 DEF IsField
<1>3. PICK last \in Int, d \in Nat : last = until - 1 /\ d = until - start
  <2>1. until - 1 \in Int /\ until - start \in Nat
    BY ONLY <1>2
  <2> QED BY ONLY <2>1
<1>4. /\ start \in Int /\ \A i \in start .. last : i \in 1 .. N
      /\ d = last - start + 1 /\ (IF start <= last THEN last - start + 1 ELSE 0) = d
  BY ONLY <1>2, <1>3, N \in Nat
<1>5. PICK f : f = SubSeq(t, start, last)
  OBVIOUS
<1>6. f \in Seq(0 .. 255) /\ Len(f) = d /\ \A j \in 1 .. d : f[j] = t[start + j - 1]
  <2>1. \A i \in start .. last : t[i] \in 0 .. 255
    BY ONLY <1>1, <1>4
  <2>2. /\ f \in Seq(0 .. 255)
        /\ Len(f) = IF start <= last THEN last - start + 1 ELSE 0
        /\ \A i \in 1 .. last - start + 1 : f[i] = t[start + i - 1]
    BY ONLY <1>4, <1>5, <2>1, SubSeqProperties, last \in Int
  <2> QED BY ONLY <1>4, <2>2
<1>7. DOMAIN f = 1 .. d
  BY ONLY <1>6, LenProperties
<1> DEFINE Proper(j) == IsDigit(f[j]) \/ (j = 1 /\ f[j] = Minus)
<1>8. ASSUME NEW j \in 1 .. d PROVE start + j - 1 \in start .. last /\ (Proper(j) <=> Belongs(t, start + j - 1))
  <2>1. PICK i \in Nat : i = start + j - 1
    <3>1. start + j - 1 \in Nat
      BY ONLY <1>2, j \in 1 .. d, d \in Nat
    <3> QED BY ONLY <3>1
  <2>2. i \in start .. last /\ (j = 1 => i = start) /\ (j # 1 => i - 1 \in start .. last /\ i # 1)
    BY ONLY <1>2, <1>3, <2>1, j \in 1 .. d, d \in Nat, last \in Int
  <2>3. f[j] = t[i] /\ t[i] # Comma
    BY ONLY <1>2, <1>3, <1>6, <2>1, <2>2, j \in 1 .. d
  <2>4. j # 1 => t[i - 1] # Comma
    BY ONLY <1>2, <1>3, <2>2
  <2>5. j = 1 => (i = 1 \/ t[i - 1] = Comma)
    BY ONLY <1>2, <2>2
  <2>6. Proper(j) <=> Belongs(t, i)
    BY ONLY <2>2, <2>3, <2>4, <2>5, Zenon DEF Belongs
  <2> QED BY ONLY <2>1, <2>2, <2>6
<1>9. (\E i \in start .. last : ~Belongs(t, i)) <=> \E j \in DOMAIN f : ~Proper(j)
  <2>1. ASSUME NEW i \in start .. last PROVE i - start + 1 \in 1 .. d /\ start + (i - start + 1) - 1 = i
    BY ONLY <1>2, <1>3, i \in start .. last, last \in Int, d \in Nat
  <2> HIDE DEF Proper
  <2> QED BY ONLY <1>7, <1>8, <2>1
<1>10. ConvertToBigInt(f) = IF \E j \in DOMAIN f : ~Proper(j) THEN NoValue ELSE <<SetString(f)>>
  BY ONLY Zenon DEF ConvertToBigInt
<1> HIDE DEF Proper
<1>11. /\ f \in ByteArray
       /\ IF \E i \in start .. last : ~Belongs(t, i)
            THEN ConvertToBigInt(f) = NoValue ELSE ConvertToBigInt(f) = <<SetString(f)>>
  BY ONLY <1>6, <1>9, <1>10, Zenon DEF ByteArray
<1> QED BY ONLY <1>3, <1>5, <1>11, Zenon

\* The numbers that texts stand for
ParsedNumbers == {SetString(s) : s \in ByteArray}

\* output holds the fields of t that end at the cuts, in order; they end before start.
Splits(t, output, start, cuts, ends) ==
  /\ output \in Seq(ParsedNumbers)
  /\ ends \in [1 .. Len(output) -> cuts]
  /\ \A c \in cuts : \E k \in 1 .. Len(output) : ends[k] = c
  /\ \A k \in 1 .. Len(output) : k > 1 => ends[k - 1] < ends[k]
  /\ start = IF Len(output) = 0 THEN 1 ELSE ends[Len(output)] + 1
  /\ \A k \in 1 .. Len(output) : output[k] = SetString(Field(t, ends, k))
  /\ \A i \in 1 .. Len(t) : i < start => Belongs(t, i)

\* One more field keeps it so.
LEMMA OneMoreField ==
  ASSUME NEW t \in ByteArray, NEW output, NEW start, NEW cuts \in SUBSET Nat, NEW ends, NEW until,
         IsField(t, start, until), Splits(t, output, start, cuts, ends),
         until <= Len(t) => t[until] = Comma, \A i \in start .. until - 1 : Belongs(t, i)
  PROVE  \E longer : Splits(t, output \o <<SetString(SubSeq(t, start, until - 1))>>, until + 1, cuts \cup {until}, longer)
<1>1. PICK number, more, f : /\ f = SubSeq(t, start, until - 1) /\ number = SetString(f)
                             /\ more = output \o <<number>>
  OBVIOUS
<1>2. f \in ByteArray
  BY ONLY <1>1, FieldConverts, t \in ByteArray, IsField(t, start, until)
<1>3. number \in ParsedNumbers
  BY ONLY <1>1, <1>2 DEF ParsedNumbers
<1>4. output \in Seq(ParsedNumbers)
  BY DEF Splits
<1>5. PICK n \in Nat : n = Len(output)
  BY ONLY <1>4, LenProperties
<1>6. /\ ends \in [1 .. n -> cuts]
      /\ \A c \in cuts : \E k \in 1 .. n : ends[k] = c
      /\ \A k \in 1 .. n : k > 1 => ends[k - 1] < ends[k]
      /\ start = IF n = 0 THEN 1 ELSE ends[n] + 1
      /\ \A k \in 1 .. n : output[k] = SetString(Field(t, ends, k))
      /\ \A i \in 1 .. Len(t) : i < start => Belongs(t, i)
  BY ONLY <1>5, Splits(t, output, start, cuts, ends) DEF Splits
<1>7. start \in Nat /\ until \in Nat /\ start >= 1 /\ start <= until /\ until <= Len(t) + 1 /\ Len(t) \in Nat
  BY ArrayElements DEF IsField
<1>8. /\ more \in Seq(ParsedNumbers) /\ Len(more) = n + 1 /\ more[n + 1] = number
      /\ \A k \in 1 .. n : more[k] = output[k]
  <2>1. <<number>> \in Seq(ParsedNumbers) /\ Len(<<number>>) = 1 /\ <<number>>[1] = number
    BY ONLY <1>3
  <2>2. /\ more \in Seq(ParsedNumbers) /\ Len(more) = n + 1
        /\ \A i \in 1 .. n + 1 : more[i] = IF i <= n THEN output[i] ELSE <<number>>[i - n]
    BY ONLY <1>1, <1>4, <1>5, <2>1, ConcatProperties
  <2>3. n + 1 \in 1 .. n + 1 /\ ~(n + 1 <= n) /\ (n + 1) - n = 1 /\ \A k \in 1 .. n : k \in 1 .. n + 1 /\ k <= n
    OBVIOUS
  <2> QED BY ONLY <2>1, <2>2, <2>3
<1>9. PICK longer : longer = [k \in 1 .. n + 1 |-> IF k = n + 1 THEN until ELSE ends[k]]
  OBVIOUS
<1>10. \A k \in 1 .. n + 1 : (k \in 1 .. n /\ k # n + 1) \/ k = n + 1
  OBVIOUS
<1>11. longer[n + 1] = until /\ \A k \in 1 .. n : longer[k] = ends[k]
  BY ONLY <1>9, n \in Nat
<1>12. longer \in [1 .. n + 1 -> cuts \cup {until}]
  BY ONLY <1>6, <1>9, <1>10
<1>13. \A c \in cuts \cup {until} : \E k \in 1 .. n + 1 : longer[k] = c
  BY ONLY <1>6, <1>11, n \in Nat
<1>14. ASSUME NEW k \in 1 .. n + 1, k > 1 PROVE longer[k - 1] < longer[k]
  <2>1. CASE k # n + 1
    <3>1. k \in 1 .. n /\ k - 1 \in 1 .. n
      BY ONLY <1>14, <2>1, k \in 1 .. n + 1, n \in Nat
    <3> QED BY ONLY <1>6, <1>11, <1>14, <3>1
  <2>2. CASE k = n + 1
    <3>1. n \in 1 .. n /\ k - 1 = n /\ n # 0
      BY ONLY <1>14, <2>2, n \in Nat
    <3>2. start = ends[n] + 1 /\ ends[n] \in Nat
      BY ONLY <1>6, <3>1, cuts \in SUBSET Nat
    <3>3. ends[n] < until
      BY ONLY <1>7, <3>2
    <3> QED BY ONLY <1>11, <2>2, <3>1, <3>3
  <2> QED BY <2>1, <2>2
<1>15. until + 1 = IF n + 1 = 0 THEN 1 ELSE longer[n + 1] + 1
  <2>1. n + 1 # 0
    OBVIOUS
  <2> QED BY ONLY <1>11, <2>1
<1>16. ASSUME NEW k \in 1 .. n + 1 PROVE more[k] = SetString(Field(t, longer, k))
  <2>1. CASE k # n + 1
    <3>1. k \in 1 .. n /\ (k # 1 => k - 1 \in 1 .. n)
      BY ONLY <2>1, k \in 1 .. n + 1, n \in Nat
    <3>2. Field(t, longer, k) = Field(t, ends, k)
      BY ONLY <1>11, <3>1, Zenon DEF Field
    <3> QED BY ONLY <1>6, <1>8, <3>1, <3>2
  <2>2. CASE k = n + 1
    <3>1. (k = 1 <=> n = 0) /\ (k # 1 => k - 1 = n /\ n \in 1 .. n)
      BY ONLY <2>2, n \in Nat
    <3>2. (IF k = 1 THEN 1 ELSE longer[k - 1] + 1) = start
      BY ONLY <1>6, <1>11, <3>1, Zenon
    <3>3. Field(t, longer, k) = f
      BY ONLY <1>1, <1>11, <2>2, <3>2, Zenon DEF Field
    <3> QED BY ONLY <1>1, <1>8, <2>2, <3>3
  <2> QED BY <2>1, <2>2
<1>17. ASSUME NEW i \in 1 .. Len(t), i < until + 1 PROVE Belongs(t, i)
  <2>1. CASE i < start
    BY ONLY <1>6, <2>1, i \in 1 .. Len(t)
  <2>2. CASE ~(i < start) /\ i # until
    <3>1. i \in start .. until - 1
      BY ONLY <1>7, <1>17, <2>2, i \in 1 .. Len(t)
    <3> QED BY ONLY <3>1, \A j \in start .. until - 1 : Belongs(t, j)
  <2>3. CASE i = until
    <3>1. t[i] = Comma
      BY <2>3
    <3> QED BY ONLY <3>1, Zenon DEF Belongs
  <2> QED BY <2>1, <2>2, <2>3
<1>18. Splits(t, more, until + 1, cuts \cup {until}, longer)
  BY ONLY <1>8, <1>12, <1>13, <1>14, <1>15, <1>16, <1>17, Zenon DEF Splits
<1> QED BY ONLY <1>1, <1>18, Zenon

\* The commas up to k
Commas(t, k) == {i \in 1 .. k : t[i] = Comma}

\* The loop stands at k: it met a character that does not belong, or it holds the fields
\* up to the last comma.
LoopAt(t, k, loop) ==
  /\ loop \in [prevIndex : Nat, output : Seq(ParsedNumbers), err : BOOLEAN]
  /\ loop.err => \E i \in 1 .. k : ~Belongs(t, i)
  /\ ~loop.err => /\ IsField(t, loop.prevIndex, k + 1)
                  /\ \E ends : Splits(t, loop.output, loop.prevIndex, Commas(t, k), ends)

\* Parsing a field finds a character that does not belong, or holds the field as well.
LEMMA FieldParsed ==
  ASSUME NEW t \in ByteArray, NEW k \in Nat, k <= Len(t), NEW loop, LoopAt(t, k, loop), ~loop.err,
         k + 1 <= Len(t) => t[k + 1] = Comma
  PROVE  LET next == ParseNumber(t, loop, k + 1)
         IN  /\ next \in [prevIndex : Nat, output : Seq(ParsedNumbers), err : BOOLEAN]
             /\ next.err => \E i \in 1 .. k : ~Belongs(t, i)
             /\ ~next.err => /\ next.prevIndex = k + 2
                             /\ \E ends : Splits(t, next.output, k + 2, Commas(t, k) \cup {k + 1}, ends)
<1>1. PICK start \in Nat, output \in Seq(ParsedNumbers) :
        loop = [prevIndex |-> start, output |-> output, err |-> FALSE]
  BY DEF LoopAt
<1>2. loop.prevIndex = start /\ loop.output = output
  BY ONLY <1>1
<1>3. IsField(t, start, k + 1) /\ \E ends : Splits(t, output, start, Commas(t, k), ends)
  BY <1>2 DEF LoopAt
<1>4. PICK f : f = SubSeq(t, start, (k + 1) - 1)
  OBVIOUS
<1>5. start >= 1 /\ (k + 1) - 1 = k /\ (k + 1) + 1 = k + 2 /\ k + 2 \in Nat
  <2>1. start >= 1
    BY <1>3 DEF IsField
  <2> QED BY <2>1
<1>6. /\ f \in ByteArray
      /\ IF \E i \in start .. k : ~Belongs(t, i) THEN ConvertToBigInt(f) = NoValue
                                               ELSE ConvertToBigInt(f) = <<SetString(f)>>
  BY ONLY <1>3, <1>4, <1>5, FieldConverts, t \in ByteArray
<1>7. PICK next : next = ParseNumber(t, loop, k + 1)
  OBVIOUS
<1>8. CASE \E i \in start .. k : ~Belongs(t, i)
  <2>1. ConvertToBigInt(f) = NoValue
    BY ONLY <1>6, <1>8
  <2>2. next = [loop EXCEPT !.err = TRUE]
    BY ONLY <1>2, <1>4, <1>7, <2>1, Zenon DEF ParseNumber
  <2>3. next = [prevIndex |-> start, output |-> output, err |-> TRUE]
    BY ONLY <1>1, <2>2
  <2>4. \E i \in 1 .. k : ~Belongs(t, i)
    BY ONLY <1>5, <1>8, start \in Nat, k \in Nat
  <2>5. next \in [prevIndex : Nat, output : Seq(ParsedNumbers), err : BOOLEAN] /\ next.err
    BY ONLY <2>3, start \in Nat, output \in Seq(ParsedNumbers)
  <2> QED BY ONLY <1>7, <2>4, <2>5, Zenon
<1>9. CASE \A i \in start .. k : Belongs(t, i)
  <2>1. ConvertToBigInt(f) = <<SetString(f)>> /\ <<SetString(f)>> # NoValue
    BY ONLY <1>6, <1>9 DEF NoValue
  <2>2. next = [loop EXCEPT !.output = @ \o <<SetString(f)>>, !.prevIndex = (k + 1) + 1]
    BY ONLY <1>2, <1>4, <1>7, <2>1 DEF ParseNumber
  <2>3. PICK more : more = output \o <<SetString(f)>>
    OBVIOUS
  <2>4. next = [prevIndex |-> k + 2, output |-> more, err |-> FALSE]
    BY ONLY <1>1, <1>5, <2>2, <2>3
  <2>5. \E ends : Splits(t, more, k + 2, Commas(t, k) \cup {k + 1}, ends)
    <3>1. Commas(t, k) \in SUBSET Nat
      BY DEF Commas
    <3>2. \A i \in start .. (k + 1) - 1 : Belongs(t, i)
      BY ONLY <1>5, <1>9
    <3>3. PICK ends : Splits(t, output, start, Commas(t, k), ends)
      BY ONLY <1>3
    <3>4. \E longer : Splits(t, output \o <<SetString(SubSeq(t, start, (k + 1) - 1))>>, (k + 1) + 1,
                             Commas(t, k) \cup {k + 1}, longer)
      <4>1. PICK u : u = k + 1
        OBVIOUS
      <4>2. IsField(t, start, u) /\ (u <= Len(t) => t[u] = Comma) /\ \A i \in start .. u - 1 : Belongs(t, i)
        BY ONLY <1>3, <3>2, <4>1, k + 1 <= Len(t) => t[k + 1] = Comma
      <4>3. \E longer : Splits(t, output \o <<SetString(SubSeq(t, start, u - 1))>>, u + 1,
                             Commas(t, k) \cup {u}, longer)
        BY ONLY <3>1, <3>3, <4>2, OneMoreField, t \in ByteArray
      <4> QED BY ONLY <4>1, <4>3
    <3> QED BY ONLY <1>4, <1>5, <2>3, <3>4
  <2>6. more \in Seq(ParsedNumbers)
    BY ONLY <2>5, Zenon DEF Splits
  <2>7. /\ next \in [prevIndex : Nat, output : Seq(ParsedNumbers), err : BOOLEAN]
        /\ ~next.err /\ next.prevIndex = k + 2 /\ next.output = more
    BY ONLY <1>5, <2>4, <2>6
  <2> QED BY ONLY <1>7, <2>5, <2>7, Zenon
<1> QED BY ONLY <1>8, <1>9, Zenon

\* The loop does so at every position.
LEMMA LoopParses == ASSUME NEW t \in ByteArray PROVE LoopAt(t, Len(t), ParseStates(t)[Len(t)])
<1>0. PICK s : s = ParseStates(t)
  OBVIOUS
<1>1. PICK N \in Nat : N = Len(t) /\ s = ParseStates(t)
  BY <1>0, ArrayElements
<1>2. s[0] = ParseStart /\ \A k \in Nat : s[k + 1] = ParseByte(t, s[k], k + 1)
  BY ONLY <1>1, ParseUnfolds
<1> DEFINE S == {k \in Nat : k <= N => LoopAt(t, k, s[k])}
<1>3. 0 \in S
  <2>1. PICK none : none = <<>>
    OBVIOUS
  <2>2. none \in Seq(ParsedNumbers) /\ Len(none) = 0
    BY ONLY <2>1
  <2>3. s[0] = [prevIndex |-> 1, output |-> none, err |-> FALSE]
    BY ONLY <1>2, <2>1 DEF ParseStart
  <2>4. Commas(t, 0) = {}
    BY DEF Commas
  <2>5. none \in [1 .. Len(none) -> Commas(t, 0)]
    BY ONLY <2>1, <2>2, <2>4
  <2>6. Splits(t, none, 1, Commas(t, 0), none)
    BY ONLY <2>2, <2>4, <2>5 DEF Splits
  <2>7. IsField(t, 1, 0 + 1)
    BY ONLY <1>1, N \in Nat DEF IsField
  <2>8. LoopAt(t, 0, s[0])
    <3>1. /\ s[0] \in [prevIndex : Nat, output : Seq(ParsedNumbers), err : BOOLEAN]
          /\ ~s[0].err /\ s[0].prevIndex = 1 /\ s[0].output = none
      BY ONLY <2>2, <2>3
    <3> QED BY ONLY <2>6, <2>7, <3>1, Zenon DEF LoopAt
  <2> QED BY ONLY <2>8
<1>4. ASSUME NEW k \in S PROVE k + 1 \in S
  <2>1. SUFFICES ASSUME k + 1 <= N PROVE LoopAt(t, k + 1, s[k + 1])
    OBVIOUS
  <2>2. k \in Nat /\ k <= N /\ k + 1 \in Nat /\ k + 1 \in 1 .. k + 1 /\ (k + 1) + 1 = k + 2 /\ k + 2 \in Nat
    BY <2>1
  <2>3. LoopAt(t, k, s[k])
    BY <2>2
  <2>4. PICK loop : loop = s[k]
    OBVIOUS
  <2>5. s[k + 1] = IF loop.err \/ t[k + 1] # Comma THEN loop ELSE ParseNumber(t, loop, k + 1)
    BY ONLY <1>2, <2>2, <2>4, Zenon DEF ParseByte
  <2>6. /\ loop \in [prevIndex : Nat, output : Seq(ParsedNumbers), err : BOOLEAN]
        /\ loop.err => \E i \in 1 .. k : ~Belongs(t, i)
        /\ ~loop.err => /\ IsField(t, loop.prevIndex, k + 1)
                        /\ \E ends : Splits(t, loop.output, loop.prevIndex, Commas(t, k), ends)
    BY ONLY <2>3, <2>4, Zenon DEF LoopAt
  <2>7. CASE loop.err
    <3>1. \E i \in 1 .. k + 1 : ~Belongs(t, i)
      BY ONLY <2>2, <2>6, <2>7
    <3> QED BY ONLY <2>5, <2>6, <2>7, <3>1, Zenon DEF LoopAt
  <2>8. CASE ~loop.err /\ t[k + 1] # Comma
    <3>1. Commas(t, k + 1) = Commas(t, k)
      BY ONLY <2>2, <2>8 DEF Commas
    <3>2. IsField(t, loop.prevIndex, (k + 1) + 1)
      BY ONLY <1>1, <2>1, <2>2, <2>6, <2>8 DEF IsField
    <3> QED BY ONLY <2>5, <2>6, <2>8, <3>1, <3>2, Zenon DEF LoopAt
  <2>9. CASE ~loop.err /\ t[k + 1] = Comma
    <3>1. PICK next : next = ParseNumber(t, loop, k + 1)
      OBVIOUS
    <3>2. /\ next \in [prevIndex : Nat, output : Seq(ParsedNumbers), err : BOOLEAN]
          /\ next.err => \E i \in 1 .. k : ~Belongs(t, i)
          /\ ~next.err => /\ next.prevIndex = k + 2
                          /\ \E ends : Splits(t, next.output, k + 2, Commas(t, k) \cup {k + 1}, ends)
      BY ONLY <1>1, <2>2, <2>3, <2>4, <2>9, <3>1, FieldParsed, t \in ByteArray
    <3>3. s[k + 1] = next
      BY ONLY <2>5, <2>9, <3>1
    <3>4. next.err => \E i \in 1 .. k + 1 : ~Belongs(t, i)
      BY ONLY <2>2, <3>2
    <3>5. Commas(t, k + 1) = Commas(t, k) \cup {k + 1}
      BY ONLY <2>2, <2>9 DEF Commas
    <3>6. IsField(t, k + 2, (k + 1) + 1)
      <4>1. (k + 2) - 1 = k + 1 /\ k + 2 >= 1 /\ k + 2 <= (k + 1) + 1 /\ (k + 1) + 1 <= Len(t) + 1
        BY ONLY <1>1, <2>1, <2>2, N \in Nat
      <4>2. \A i \in (k + 2) .. ((k + 1) + 1) - 1 : FALSE
        BY ONLY <2>2
      <4> QED BY ONLY <2>2, <2>9, <4>1, <4>2, Zenon DEF IsField
    <3> QED BY ONLY <3>2, <3>3, <3>4, <3>5, <3>6, Zenon DEF LoopAt
  <2> QED BY ONLY <2>7, <2>8, <2>9, Zenon
<1>5. S = Nat
  <2>1. S \in SUBSET Nat
    OBVIOUS
  <2> HIDE DEF S
  <2> QED BY <1>3, <1>4, <2>1, Induction
<1>6. LoopAt(t, N, s[N])
  <2>1. N \in S /\ N <= N
    BY <1>5
  <2> QED BY <2>1
<1> QED BY ONLY <1>1, <1>6

\* What ParseInput returns for a text.
Parses(t, numbers) ==
  \E ends \in [DOMAIN numbers -> 1 .. Len(t) + 1] :
    EndsFields(t, ends) /\ \A k \in DOMAIN numbers : numbers[k] = SetString(Field(t, ends, k))

\* ParseInput returns the fields of a text, or the error if something does not belong.
LEMMA ParseIsExact ==
  ASSUME NEW t \in ByteArray
  PROVE  IF \E i \in DOMAIN t : ~Belongs(t, i) THEN ParseInput(t) = NoValue
         ELSE \E numbers : ParseInput(t) = <<numbers>> /\ Parses(t, numbers)
<1>1. PICK N \in Nat : N = Len(t) /\ DOMAIN t = 1 .. N
  BY ArrayElements, LenProperties DEF ByteArray
<1>2. PICK commas : commas = ParseStates(t)[N]
  OBVIOUS
<1>3. LoopAt(t, N, commas)
  BY ONLY <1>1, <1>2, LoopParses, t \in ByteArray
<1>4. PICK done : done = IF commas.err THEN commas ELSE ParseNumber(t, commas, N + 1)
  OBVIOUS
<1>5. ParseInput(t) = IF done.err THEN NoValue ELSE <<done.output>>
  BY ONLY <1>1, <1>2, <1>4, ParseUnfolds, Zenon
<1>6. /\ done.err \in BOOLEAN
      /\ done.err => \E i \in 1 .. N : ~Belongs(t, i)
      /\ ~done.err => \E ends : Splits(t, done.output, N + 2, Commas(t, N) \cup {N + 1}, ends)
  <2>1. CASE commas.err
    <3>1. commas.err \in BOOLEAN /\ \E i \in 1 .. N : ~Belongs(t, i)
      BY <1>3, <2>1 DEF LoopAt
    <3> QED BY ONLY <1>4, <2>1, <3>1
  <2>2. CASE ~commas.err
    <3>1. N <= Len(t) /\ ~(N + 1 <= Len(t))
      BY ONLY <1>1, N \in Nat
    <3>2. done = ParseNumber(t, commas, N + 1)
      BY ONLY <1>4, <2>2
    <3>3. /\ done \in [prevIndex : Nat, output : Seq(ParsedNumbers), err : BOOLEAN]
          /\ done.err => \E i \in 1 .. N : ~Belongs(t, i)
          /\ ~done.err => /\ done.prevIndex = N + 2
                          /\ \E ends : Splits(t, done.output, N + 2, Commas(t, N) \cup {N + 1}, ends)
      BY ONLY <1>3, <2>2, <3>1, <3>2, FieldParsed, t \in ByteArray, N \in Nat
    <3>4. done.err \in BOOLEAN
      BY ONLY <3>3
    <3> QED BY ONLY <3>3, <3>4, Zenon
  <2> QED BY <2>1, <2>2
<1>7. CASE done.err
  <2>1. ParseInput(t) = NoValue /\ \E i \in DOMAIN t : ~Belongs(t, i)
    BY ONLY <1>1, <1>5, <1>6, <1>7
  <2> QED BY ONLY <2>1
<1>8. CASE ~done.err
  <2>1. PICK numbers : numbers = done.output
    OBVIOUS
  <2>2. PICK cuts : cuts = Commas(t, N) \cup {N + 1}
    OBVIOUS
  <2>3. PICK ends : Splits(t, numbers, N + 2, cuts, ends)
    BY ONLY <1>6, <1>8, <2>1, <2>2
  <2>4. ~ \E i \in DOMAIN t : ~Belongs(t, i)
    <3>1. \A i \in 1 .. N : i < N + 2 => Belongs(t, i)
      BY <1>1, <2>3 DEF Splits
    <3>2. \A i \in 1 .. N : i < N + 2
      OBVIOUS
    <3> QED BY ONLY <1>1, <3>1, <3>2
  <2>5. PICK n \in Nat : n = Len(numbers) /\ DOMAIN numbers = 1 .. n
    BY <2>3, LenProperties DEF Splits
  <2>6. /\ ends \in [1 .. n -> cuts]
        /\ \A c \in cuts : \E k \in 1 .. n : ends[k] = c
        /\ \A k \in 1 .. n : k > 1 => ends[k - 1] < ends[k]
        /\ \A k \in 1 .. n : numbers[k] = SetString(Field(t, ends, k))
    BY ONLY <2>3, <2>5 DEF Splits
  <2>7. cuts \subseteq 1 .. N + 1 /\ cuts = {i \in DOMAIN t : t[i] = Comma} \cup {Len(t) + 1}
    BY ONLY <1>1, <2>2, N \in Nat DEF Commas
  <2>8. DOMAIN ends = 1 .. n /\ {ends[k] : k \in DOMAIN ends} = cuts
    BY ONLY <2>6
  <2>9. EndsFields(t, ends)
    BY ONLY <2>6, <2>7, <2>8, Zenon DEF EndsFields
  <2>10. ends \in [DOMAIN numbers -> 1 .. Len(t) + 1]
    BY ONLY <1>1, <2>5, <2>6, <2>7
  <2>11. Parses(t, numbers)
    BY ONLY <2>5, <2>6, <2>9, <2>10, Zenon DEF Parses
  <2>12. ParseInput(t) = <<numbers>>
    BY ONLY <1>5, <1>8, <2>1
  <2> QED BY ONLY <2>4, <2>11, <2>12, Zenon
<1> QED BY ONLY <1>6, <1>7, <1>8, Zenon

\* Every call of package byteconversion is exact, for any numbers, arrays and texts:
\* ToByteArray makes the two's complement in the least length with room for magnitude
\* and sign bit, FromByteArray reads it back and decodes every array,
\* CalculateHash digests Java's bytes, and ParseInput returns one number per field
\* or the error (conversion.go:30-107, parse.go:29-68, zkp_validator.go:176-186).
THEOREM CallsAlwaysExact == CallsSpec => []CallsAreExact
<1>1. CallsInit => CallsAreExact
  BY DEF CallsInit, CallsAreExact, ConvertsExactly, ParsesEveryField
<1>2. CallsAreExact /\ [CallsNext]_callVars => CallsAreExact'
  <2> SUFFICES ASSUME CallsAreExact, [CallsNext]_callVars PROVE CallsAreExact'
    OBVIOUS
  <2>0. /\ \A n \in Numbers : n \in Int
        /\ \A b \in Arrays : b \in ByteArray
        /\ \A t \in Texts : t \in ByteArray
    BY CallsAreTyped DEF ByteArray
  <2>1. CASE CallToByteArray
    <3>1. PICK n \in Numbers : Called("ToByteArray", <<n>>, ToByteArray(n), FALSE)
      BY <2>1 DEF CallToByteArray
    <3>2. call' = "ToByteArray" /\ arg' = <<n>> /\ result' = ToByteArray(n)
      BY <3>1 DEF Called
    <3>3. PICK r : r = ToByteArray(n)
      OBVIOUS
    <3>4. r \in ByteArray /\ r # <<>> /\ TwosComplement(r) = n /\ LeastLength(n, Len(r))
      BY ONLY <2>0, <3>3, ToIsExact, n \in Numbers
    <3>5. FromByteArray(r) = <<n>>
      BY ONLY <3>4, FromIsExact
    <3>6. <<n>>[1] = n
      OBVIOUS
    <3>7. /\ TwosComplement(result') = arg'[1] /\ FromByteArray(result') = arg'
          /\ LeastLength(arg'[1], Len(result'))
      BY ONLY <3>2, <3>3, <3>4, <3>5, <3>6
    <3>8. call' # "FromByteArray" /\ call' # "CalculateHash" /\ call' # "ParseInput"
      BY ONLY <3>2
    <3> QED BY ONLY <3>7, <3>8 DEF CallsAreExact, ConvertsExactly, ParsesEveryField
  <2>2. CASE CallFromByteArray
    <3>1. PICK b \in Arrays : Called("FromByteArray", b, FromByteArray(b), FromByteArray(b) = NoValue)
      BY <2>2 DEF CallFromByteArray
    <3>2. /\ call' = "FromByteArray" /\ arg' = b /\ result' = FromByteArray(b)
          /\ err' = (FromByteArray(b) = NoValue)
      BY <3>1 DEF Called
    <3>3. b \in ByteArray
      BY ONLY <2>0, b \in Arrays
    <3>4. IF b = <<>> THEN FromByteArray(b) = NoValue
          ELSE FromByteArray(b) = <<TwosComplement(b)>> /\ FromByteArray(b) # NoValue
      <4>1. b = <<>> => FromByteArray(b) = NoValue
        BY DEF FromByteArray
      <4>2. b # <<>> => FromByteArray(b) = <<TwosComplement(b)>>
        BY ONLY <3>3, FromIsExact
      <4>3. <<TwosComplement(b)>> # NoValue
        BY DEF NoValue
      <4> QED BY ONLY <4>1, <4>2, <4>3, Zenon
    <3>5. IF arg' = <<>> THEN err' ELSE ~err' /\ result' = <<TwosComplement(arg')>>
      BY ONLY <3>2, <3>4, Zenon
    <3>6. call' # "ToByteArray" /\ call' # "CalculateHash" /\ call' # "ParseInput"
      BY ONLY <3>2
    <3> QED BY ONLY <3>5, <3>6 DEF CallsAreExact, ConvertsExactly, ParsesEveryField
  <2>3. CASE CallCalculateHash
    <3>0. PICK b1 \in Numbers \cap Nat, n \in Numbers \cap Nat :
            \E b2 \in {NoValue, <<n>>} : Called("CalculateHash", <<b1>> \o b2, DigestInput(b1, b2), FALSE)
      BY <2>3 DEF CallCalculateHash
    <3>1. PICK b2 \in {NoValue, <<n>>} : Called("CalculateHash", <<b1>> \o b2, DigestInput(b1, b2), FALSE)
      BY <3>0
    <3>2. call' = "CalculateHash" /\ arg' = <<b1>> \o b2 /\ result' = DigestInput(b1, b2)
      BY <3>1 DEF Called
    <3>3. ToByteArray(b1) = JavaToByteArray(b1) /\ ToByteArray(n) = JavaToByteArray(n)
      BY ONLY ToIsJava, b1 \in Numbers \cap Nat, n \in Numbers \cap Nat
    <3>4. ASSUME b2 = NoValue
          PROVE  result' = JavaToByteArray(arg'[1])
                           \o (IF Len(arg') = 1 THEN <<>> ELSE JavaToByteArray(arg'[2]))
      <4>1. result' = ToByteArray(b1) \o <<>>
        BY ONLY <3>2, <3>4, Zenon DEF DigestInput
      <4>2. arg'[1] = b1 /\ Len(arg') = 1
        BY ONLY <3>2, <3>4 DEF NoValue
      <4> QED BY ONLY <3>3, <4>1, <4>2
    <3>5. ASSUME b2 = <<n>>
          PROVE  result' = JavaToByteArray(arg'[1])
                           \o (IF Len(arg') = 1 THEN <<>> ELSE JavaToByteArray(arg'[2]))
      <4>1. b2 # NoValue /\ b2[1] = n
        BY ONLY <3>5 DEF NoValue
      <4>2. result' = ToByteArray(b1) \o ToByteArray(n)
        BY ONLY <3>2, <4>1, Zenon DEF DigestInput
      <4>3. arg'[1] = b1 /\ arg'[2] = n /\ Len(arg') # 1
        BY ONLY <3>2, <3>5
      <4> QED BY ONLY <3>3, <4>2, <4>3
    <3>6. result' = JavaToByteArray(arg'[1]) \o (IF Len(arg') = 1 THEN <<>> ELSE JavaToByteArray(arg'[2]))
      BY ONLY <3>4, <3>5, b2 \in {NoValue, <<n>>}
    <3>7. call' # "ToByteArray" /\ call' # "FromByteArray" /\ call' # "ParseInput"
      BY ONLY <3>2
    <3> QED BY ONLY <3>6, <3>7 DEF CallsAreExact, ConvertsExactly, ParsesEveryField
  <2>4. CASE CallParseInput
    <3>1. PICK t \in Texts : IF ParseInput(t) = NoValue THEN Called("ParseInput", t, <<>>, TRUE)
                             ELSE Called("ParseInput", t, ParseInput(t)[1], FALSE)
      BY <2>4 DEF CallParseInput
    <3>2. call' = "ParseInput" /\ arg' = t
      BY <3>1 DEF Called
    <3>3. t \in ByteArray
      BY ONLY <2>0, t \in Texts
    <3>4. ASSUME \E i \in DOMAIN t : ~Belongs(t, i) PROVE ParsesEveryField'
      <4>1. ParseInput(t) = NoValue
        BY ONLY <3>3, <3>4, ParseIsExact
      <4>2. err'
        BY ONLY <3>1, <4>1 DEF Called
      <4>3. \E i \in DOMAIN arg' : ~Belongs(arg', i)
        BY ONLY <3>2, <3>4
      <4> QED BY ONLY <4>2, <4>3, Zenon DEF ParsesEveryField
    <3>5. ASSUME ~ \E i \in DOMAIN t : ~Belongs(t, i) PROVE ParsesEveryField'
      <4>1. PICK numbers : ParseInput(t) = <<numbers>> /\ Parses(t, numbers)
        BY ONLY <3>3, <3>5, ParseIsExact
      <4>2. ParseInput(t) # NoValue /\ ParseInput(t)[1] = numbers
        BY ONLY <4>1 DEF NoValue
      <4>3. ~err' /\ result' = numbers
        BY ONLY <3>1, <4>2 DEF Called
      <4>4. Parses(arg', result')
        BY ONLY <3>2, <4>1, <4>3
      <4> QED BY ONLY <4>3, <4>4, <3>2, <3>5, Zenon DEF ParsesEveryField, Parses
    <3>6. ParsesEveryField'
      BY ONLY <3>4, <3>5
    <3>7. call' # "ToByteArray" /\ call' # "FromByteArray" /\ call' # "CalculateHash"
      BY ONLY <3>2
    <3>8. ConvertsExactly'
      BY ONLY <3>7 DEF ConvertsExactly
    <3> QED BY ONLY <3>6, <3>8 DEF CallsAreExact
  <2>5. CASE NextCall
    <3>1. call' = "none"
      BY <2>5 DEF NextCall
    <3> QED BY ONLY <3>1 DEF CallsAreExact, ConvertsExactly, ParsesEveryField
  <2>6. CASE UNCHANGED callVars
    BY <2>6 DEF callVars, CallsAreExact, ConvertsExactly, ParsesEveryField
  <2> QED BY <2>1, <2>2, <2>3, <2>4, <2>5, <2>6 DEF CallsNext
<1> QED BY <1>1, <1>2, PTL DEF CallsSpec
=============================================================================
