------------------------- MODULE RelyingPartyProofs -------------------------
(***************************************************************************)
(* What the ticket shop guarantees, for every uPort app and any number of  *)
(* loads and checks.                                                       *)
(***************************************************************************)
EXTENDS RelyingParty, TLAPS

Buttons == CheckButtons \cup LoadButtons

-----------------------------------------------------------------------------
(* The range form: a field that counts as entered has a bound.             *)

FormInv ==
    /\ entered \in [Fields -> BOOLEAN]
    /\ bound \in [Fields -> Int]
    /\ \A f \in Fields : entered[f] => bound[f] # NoBound
    /\ UnlockedHasBounds

\* Nothing is entered at the start.
LEMMA FormInvInit == FormInit => FormInv
  BY DEF FormInit, FormInv, UnlockedHasBounds, NoBound, Fields

\* An edit sets a flag only together with its bound, and no bound is forgotten.
LEMMA FormInvNext == FormInv /\ [FormNext]_formVars => FormInv'
  <1> SUFFICES ASSUME FormInv, [FormNext]_formVars PROVE FormInv'
    OBVIOUS
  <1> USE DEF FormInv, UnlockedHasBounds, Fields
  <1>1. ASSUME NEW f \in Fields, NEW e \in Entries, HandleInputChange(f, e)
        PROVE  FormInv'
    <2>1. e.integer \in BOOLEAN /\ e.value \in Nat
      BY EntriesAreTyped
    <2>2. entered' \in [Fields -> BOOLEAN] /\ bound' \in [Fields -> Int]
      BY <1>1, <2>1 DEF HandleInputChange
    <2>3. \A k \in Fields : entered'[k] => bound'[k] # NoBound
      BY <1>1, <2>1 DEF HandleInputChange, NoBound
    <2>4. rangeEntered' => \A k \in Fields : bound'[k] # NoBound
      BY <1>1, <2>1 DEF HandleInputChange, NoBound
    <2> QED BY <2>2, <2>3, <2>4
  <1>2. ASSUME NEW f \in Fields, HandleInputClick(f) PROVE FormInv'
    BY <1>2 DEF HandleInputClick
  <1>3. CASE UNCHANGED formVars
    BY <1>3 DEF formVars
  <1> QED BY <1>1, <1>2, <1>3 DEF FormNext

\* For every set of entries, in the form on its own: the button is never
\* unlocked before both bounds were typed.
THEOREM FormUnlockedHasBounds == FormSpec => []UnlockedHasBounds
  <1>1. FormInv => UnlockedHasBounds
    BY DEF FormInv
  <1> QED BY FormInvInit, FormInvNext, <1>1, PTL DEF FormSpec

-----------------------------------------------------------------------------
(* Type correctness.                                                       *)

\* The form keeps its types.
LEMMA FormTyped == FormTypeOK /\ [FormNext]_formVars => FormTypeOK'
  <1> SUFFICES ASSUME FormTypeOK, [FormNext]_formVars PROVE FormTypeOK'
    OBVIOUS
  <1> USE DEF FormTypeOK
  <1>1. ASSUME NEW f \in Fields, NEW e \in Entries, HandleInputChange(f, e)
        PROVE  FormTypeOK'
    <2>1. e.integer \in BOOLEAN /\ "rangeStart" \in Fields /\ "rangeEnd" \in Fields
      BY EntriesAreTyped DEF Fields
    <2>2. text' \in [Fields -> Entries \cup {Prompt, Blank}]
      BY <1>1 DEF HandleInputChange
    <2>3. bound' \in [Fields -> {NoBound} \cup {x.value : x \in {y \in Entries : y.integer}}]
      BY <1>1 DEF HandleInputChange
    <2>4. entered' \in [Fields -> BOOLEAN] /\ rangeEntered' \in BOOLEAN
      BY <1>1, <2>1 DEF HandleInputChange
    <2> QED BY <2>2, <2>3, <2>4
  <1>2. ASSUME NEW f \in Fields, HandleInputClick(f) PROVE FormTypeOK'
    BY <1>2 DEF HandleInputClick
  <1>3. CASE UNCHANGED formVars
    BY <1>3 DEF formVars
  <1> QED BY <1>1, <1>2, <1>3 DEF FormNext

\* For every set of entries, texts, bounds and flags of the form on its own stay in
\* their types; what is not an integer never becomes a bound.
THEOREM FormTypeCorrect == FormSpec => []FormTypeOK
  <1>1. FormInit => FormTypeOK
    BY DEF FormInit, FormTypeOK
  <1> QED BY <1>1, FormTyped, PTL DEF FormSpec

\* The page keeps its types; each action of the shop counts its requests.
LEMMA ShopTyped == TypeOK /\ [Next]_vars => TypeOK'
  <1> SUFFICES ASSUME TypeOK, [Next]_vars PROVE TypeOK'
    OBVIOUS
  <1> USE DEF TypeOK
  <1>0. CheckButtons \cap LoadButtons = {}
    BY DEF CheckButtons, LoadButtons
  <1>f. ASSUME UNCHANGED formVars PROVE FormTypeOK'
    BY <1>f, FormTyped
  <1>1. CASE EditRange
    BY <1>1, FormTyped DEF EditRange, shopVars
  <1>2. ASSUME NEW b \in LoadButtons, RequestCredential(b) PROVE TypeOK'
    BY <1>2, <1>f, BoundsAreNumbers DEF RequestCredential
  <1>3. ASSUME NEW b \in LoadButtons, RequestRejected(b) PROVE TypeOK'
    BY <1>3, <1>f, BoundsAreNumbers DEF RequestRejected
  <1>4. ASSUME NEW b \in LoadButtons, NEW ok \in BOOLEAN, Answered(b, ok),
               commitment' \in Commitments, rangeproof' \in Proofs
        PROVE  TypeOK'
    BY <1>4, <1>f, BoundsAreNumbers DEF Answered
  <1>5. ASSUME NEW att \in Attestations, CommitmentArrives(att) PROVE TypeOK'
    BY <1>4, <1>5, AttestationsAreTyped DEF CommitmentArrives, LoadButtons, Commitments
  <1>6. CASE NoCommitmentArrives
    BY <1>4, <1>6 DEF NoCommitmentArrives, LoadButtons
  <1>7. ASSUME NEW p \in WalletProofs \cup {Undefined}, RangeproofArrives(p) PROVE TypeOK'
    BY <1>4, <1>7 DEF RangeproofArrives, LoadButtons, Proofs
  <1>8. ASSUME NEW b \in CheckButtons, NEW sent \in BOOLEAN, CheckProof(b, sent)
        PROVE  TypeOK'
    <2>1. checks' \in 0..MaxChecks /\ checks' = checks + 1 /\ checks + 1 \in 1..MaxChecks
      BY <1>8, BoundsAreNumbers DEF CheckProof
    <2>2. calls' \subseteq Calls /\ \A c \in calls' : c.id <= checks'
      BY <1>8, <2>1, BoundsAreNumbers DEF CheckProof, Calls
    <2>3. store' \in [validatingProof : BOOLEAN, proofOkay : BOOLEAN]
      BY <1>8 DEF CheckProof, ValidateProofREQUEST
    <2>4. proofError' \in {"none", "commitment", "rangeproof"}
      BY <1>8 DEF CheckProof
    <2>5. failed' \subseteq CheckButtons \cup LoadButtons
      BY <1>8 DEF CheckProof
    <2> QED BY <1>8, <1>f, <2>1, <2>2, <2>3, <2>4, <2>5 DEF CheckProof
  <1>9. ASSUME NEW call \in calls, ContractReplies(call) PROVE TypeOK'
    <2>1. Accepts(call) \in BOOLEAN
      BY DEF Accepts
    <2>2. store' \in [validatingProof : BOOLEAN, proofOkay : BOOLEAN]
      BY <1>9, <2>1 DEF ContractReplies, ValidateProofSUCCESS
    <2>3. label' \in [CheckButtons \cup LoadButtons -> {"initial", "waiting", "ok", "failed"}]
      BY <1>9 DEF ContractReplies
    <2>4. basis' \in [CheckButtons -> Calls \cup {NoCall}]
      BY <1>9 DEF ContractReplies
    <2> QED BY <1>9, <1>f, <2>2, <2>3, <2>4 DEF ContractReplies
  <1>10. ASSUME NEW call \in calls, ContractFails(call) PROVE TypeOK'
    <2>1. call.button \in CheckButtons
      BY DEF Calls
    <2>2. store' \in [validatingProof : BOOLEAN, proofOkay : BOOLEAN]
      BY <1>10 DEF ContractFails, ValidateProofERROR
    <2> QED BY <1>10, <1>f, <2>1, <2>2 DEF ContractFails
  <1>11. CASE UNCHANGED vars
    BY <1>11, <1>f DEF vars, shopVars
  <1> QED BY <1>1, <1>2, <1>3, <1>5, <1>6, <1>7, <1>8, <1>9, <1>10, <1>11 DEF Next

\* For every uPort app and all bounds the variables of the page stay in their
\* types; in particular a load button never has more answers than requests.
THEOREM TypeCorrect == Spec => []TypeOK
  <1>1. FormInit => FormTypeOK
    BY DEF FormInit, FormTypeOK
  <1>2. Init => TypeOK
    BY <1>1, BoundsAreNumbers DEF Init, TypeOK, Commitments, Proofs, LoadButtons, CheckButtons
  <1> QED BY <1>2, ShopTyped, PTL DEF Spec

-----------------------------------------------------------------------------
(* The shop: what every Okay rests on.                                     *)

\* A call the page has made, or the state of the page: the commitment was
\* signed or is missing, the proof came from the uPort app or is missing.
Sound(c, p) == c \in Genuine \cup {Missing} /\ p \in Proofs

OkayInv ==
    /\ DOMAIN label = Buttons
    /\ Sound(commitment, rangeproof)
    /\ \A c \in calls : Sound(c.commitment, c.proof) /\ c.button \in CheckButtons
    /\ \A b \in CheckButtons : label[b] = "ok" =>
         /\ Sound(basis[b].commitment, basis[b].proof)
         /\ basis[b].button \in CheckButtons
         /\ Accepts(basis[b])

\* At the start nothing is loaded and no button shows an Okay.
LEMMA OkayInit == Init => OkayInv
  BY DEF Init, OkayInv, Sound, Proofs, Buttons, CheckButtons

\* One step per action; only an accepted call turns a button to Okay, and it
\* becomes the basis of that button.
LEMMA OkayNext == OkayInv /\ [Next]_vars => OkayInv'
  <1> SUFFICES ASSUME OkayInv, [Next]_vars PROVE OkayInv'
    OBVIOUS
  <1> USE DEF OkayInv
  <1>0. CheckButtons \subseteq Buttons /\ LoadButtons \subseteq Buttons
        /\ CheckButtons \cap LoadButtons = {}
    BY DEF Buttons, CheckButtons, LoadButtons
  <1>1. CASE EditRange
    BY <1>1 DEF EditRange, shopVars, Accepts
  <1>2. ASSUME NEW b \in LoadButtons, RequestCredential(b) PROVE OkayInv'
    BY <1>0, <1>2 DEF RequestCredential, Accepts
  <1>3. ASSUME NEW b \in LoadButtons, RequestRejected(b) PROVE OkayInv'
    BY <1>3 DEF RequestRejected, Accepts
  <1>4. ASSUME NEW att \in Attestations, CommitmentArrives(att) PROVE OkayInv'
    <2>1. commitment' \in Genuine \cup {Missing} /\ rangeproof' = rangeproof
      BY <1>4 DEF CommitmentArrives, Genuine, Sound
    <2>2. /\ DOMAIN label' = DOMAIN label /\ UNCHANGED <<calls, basis>>
          /\ \A b \in CheckButtons : label'[b] = label[b]
      BY <1>0, <1>4 DEF CommitmentArrives, Answered, LoadButtons, CheckButtons
    <2> QED BY <2>1, <2>2 DEF Sound, Accepts
  <1>5. CASE NoCommitmentArrives
    BY <1>0, <1>5 DEF NoCommitmentArrives, Answered, Accepts, LoadButtons, CheckButtons
  <1>6. ASSUME NEW p \in WalletProofs \cup {Undefined}, RangeproofArrives(p) PROVE OkayInv'
    <2>1. rangeproof' \in Proofs /\ commitment' = commitment
      BY <1>6 DEF RangeproofArrives, Proofs
    <2>2. /\ DOMAIN label' = DOMAIN label /\ UNCHANGED <<calls, basis>>
          /\ \A b \in CheckButtons : label'[b] = label[b]
      BY <1>0, <1>6 DEF RangeproofArrives, Answered, LoadButtons, CheckButtons
    <2> QED BY <2>1, <2>2 DEF Sound, Accepts
  <1>7. ASSUME NEW b \in CheckButtons, NEW sent \in BOOLEAN, CheckProof(b, sent)
        PROVE  OkayInv'
    <2>1. \A c \in calls' : Sound(c.commitment, c.proof) /\ c.button \in CheckButtons
      BY <1>7 DEF CheckProof
    <2>2. /\ DOMAIN label' = DOMAIN label /\ UNCHANGED <<commitment, rangeproof, basis>>
          /\ \A d \in CheckButtons : label'[d] = "ok" => label[d] = "ok"
      BY <1>0, <1>7 DEF CheckProof
    <2> QED BY <2>1, <2>2 DEF Sound, Accepts
  <1>8. ASSUME NEW call \in calls, ContractReplies(call) PROVE OkayInv'
    <2>1. DOMAIN label' = DOMAIN label /\ UNCHANGED <<commitment, rangeproof>> /\ calls' \subseteq calls
      BY <1>8 DEF ContractReplies
    <2>2. ASSUME NEW b \in CheckButtons, label'[b] = "ok"
          PROVE  \/ basis'[b] = call /\ Accepts(call)
                 \/ basis'[b] = basis[b] /\ label[b] = "ok"
      BY <1>0, <1>8, <2>2 DEF ContractReplies
    <2>3. Sound(call.commitment, call.proof) /\ call.button \in CheckButtons
      OBVIOUS
    <2> QED BY <2>1, <2>2, <2>3 DEF Sound, Accepts
  <1>9. ASSUME NEW call \in calls, ContractFails(call) PROVE OkayInv'
    BY <1>9 DEF ContractFails, Accepts
  <1>10. CASE UNCHANGED vars
    BY <1>10 DEF vars, shopVars, Accepts
  <1> QED BY <1>1, <1>2, <1>3, <1>4, <1>5, <1>6, <1>7, <1>8, <1>9, <1>10 DEF Next

\* The invariant holds in every reachable state.
LEMMA AlwaysOkayInv == Spec => []OkayInv
  BY OkayInit, OkayNext, PTL DEF Spec

\* For every uPort app, however often the user clicks and however late the
\* answers are: an Okay shows the acceptance of a commitment the government
\* signed for this customer.
THEOREM OkayRestsOnGenuine == Spec => []OkayIsGenuine
  <1>1. OkayInv => OkayIsGenuine
    BY DEF OkayInv, OkayIsGenuine, Sound, Accepts
  <1> QED BY AlwaysOkayInv, <1>1, PTL

\* If the uPort app holds proofs of true statements only, the 18+ discount is
\* shown to nobody born after 1999.
THEOREM AdultsOnly == Spec => []AdultDiscountDeserved
  <1>1. ASSUME OkayInv, label["checkProof18Plus"] = "ok"
        PROVE  basis["checkProof18Plus"].commitment.year <= Upper("checkProof18Plus")
    <2> DEFINE call == basis["checkProof18Plus"]
    <2>1. call.proof \in Proofs /\ Accepts(call)
      BY <1>1 DEF OkayInv, Sound, CheckButtons
    <2>2. call.proof \in WalletProofs /\ call.proof.commitment = call.commitment
      BY <2>1 DEF Proofs, Accepts, NotLoaded, Undefined
    <2>3. call.commitment.year \in Int /\ call.commitment.year <= Upper(call.button)
      BY <2>1, <2>2, ProofsAreHonest, YearsAreNumbers DEF Accepts
    <2>4. Upper(call.button) \in {1952, 1999} /\ Upper("checkProof18Plus") = 1999
      BY DEF Upper
    <2> HIDE DEF call
    <2>5. call.commitment.year <= 1999
      BY <2>3, <2>4
    <2> QED BY <2>4, <2>5 DEF call
  <1>2. OkayInv => AdultDiscountDeserved
    BY <1>1 DEF AdultDiscountDeserved
  <1> QED BY AlwaysOkayInv, <1>2, PTL

-----------------------------------------------------------------------------
(* The hourglass.                                                          *)

WaitInv ==
    /\ DOMAIN label = Buttons
    /\ loading \in [LoadButtons -> Nat]
    /\ WaitingHasReason

\* No button waits at the start.
LEMMA WaitInit == Init => WaitInv
  BY DEF Init, WaitInv, WaitingHasReason, Buttons, CheckButtons, LoadButtons

\* One step per action: an answer takes the hourglass away together with the
\* request it is about, an error leaves it and is remembered.
LEMMA WaitNext == WaitInv /\ [Next]_vars => WaitInv'
  <1> SUFFICES ASSUME WaitInv, [Next]_vars PROVE WaitInv'
    OBVIOUS
  <1> USE DEF WaitInv, WaitingHasReason
  <1>0. CheckButtons \subseteq Buttons /\ LoadButtons \subseteq Buttons
        /\ CheckButtons \cap LoadButtons = {}
    BY DEF Buttons, CheckButtons, LoadButtons
  <1>1. CASE EditRange
    BY <1>1 DEF EditRange, shopVars
  <1>2. ASSUME NEW b \in LoadButtons, RequestCredential(b) PROVE WaitInv'
    BY <1>0, <1>2 DEF RequestCredential
  <1>3. ASSUME NEW b \in LoadButtons, RequestRejected(b) PROVE WaitInv'
    BY <1>0, <1>3 DEF RequestRejected
  <1>4. ASSUME NEW b \in LoadButtons, NEW ok \in BOOLEAN, Answered(b, ok) PROVE WaitInv'
    BY <1>0, <1>4 DEF Answered
  <1>5. ASSUME NEW att \in Attestations, CommitmentArrives(att) PROVE WaitInv'
    BY <1>4, <1>5, AttestationsAreTyped DEF CommitmentArrives, LoadButtons
  <1>6. CASE NoCommitmentArrives
    BY <1>4, <1>6 DEF NoCommitmentArrives, LoadButtons
  <1>7. ASSUME NEW p \in WalletProofs \cup {Undefined}, RangeproofArrives(p) PROVE WaitInv'
    BY <1>4, <1>7 DEF RangeproofArrives, LoadButtons
  <1>8. ASSUME NEW b \in CheckButtons, NEW sent \in BOOLEAN, CheckProof(b, sent)
        PROVE  WaitInv'
    <2> DEFINE call == [id |-> checks + 1, button |-> b,
                        commitment |-> commitment, proof |-> rangeproof]
    <2>1. CASE sent
      <3>1. call \in calls' /\ call.button = b /\ calls \subseteq calls' /\ failed' = failed \ {b}
        BY <1>8, <2>1 DEF CheckProof
      <3>2. label' = [label EXCEPT ![b] = "waiting"] /\ loading' = loading
        BY <1>8 DEF CheckProof
      <3> QED BY <1>0, <3>1, <3>2
    <2>2. CASE ~ sent
      BY <1>0, <1>8, <2>2 DEF CheckProof
    <2> QED BY <2>1, <2>2
  <1>9. ASSUME NEW call \in calls, ContractReplies(call) PROVE WaitInv'
    <2>1. \A b \in CheckButtons : label'[b] # "waiting"
      BY <1>0, <1>9 DEF ContractReplies
    <2>2. /\ DOMAIN label' = Buttons /\ loading' = loading /\ failed' = failed
          /\ \A b \in LoadButtons : label'[b] = label[b]
      BY <1>0, <1>9 DEF ContractReplies
    <2> QED BY <2>1, <2>2
  <1>10. ASSUME NEW call \in calls, ContractFails(call) PROVE WaitInv'
    BY <1>0, <1>10 DEF ContractFails
  <1>11. CASE UNCHANGED vars
    BY <1>11 DEF vars, shopVars
  <1> QED BY <1>1, <1>2, <1>3, <1>5, <1>6, <1>7, <1>8, <1>9, <1>10, <1>11 DEF Next

\* For every uPort app and any number of clicks: a button shows the hourglass
\* only while its own request is out or after it ended in an error.
THEOREM HourglassHasReason == Spec => []WaitingHasReason
  <1>1. WaitInv => WaitingHasReason
    BY DEF WaitInv
  <1> QED BY WaitInit, WaitNext, <1>1, PTL DEF Spec
=============================================================================
