---------------------------- MODULE RelyingParty ----------------------------
(***************************************************************************)
(* The ticket shop (dapp3): it loads the government's commitment and a     *)
(* range proof from the customer's uPort app, asks the precompiled         *)
(* contract whether the proof holds for the 18+ or the 65+ range and shows *)
(* the answer on the button that was clicked.                              *)
(*                                                                         *)
(* Every request is answered later, in any order, or never; the handlers   *)
(* run one at a time.                                                      *)
(***************************************************************************)
EXTENDS RangeForm, FiniteSets

CONSTANTS
    Attestations,   \* what the uPort app may return for "commitment":
                    \* [sub, iss, signed : are the three checks met, claim]
    WalletProofs,   \* the range proofs in the uPort app: [commitment, lo, hi]
    MaxLoads,       \* bound on the requests of each kind to the uPort app
    MaxChecks       \* bound on the clicks on the two check buttons

VARIABLES
    commitment,     \* this.state.commitment
    rangeproof,     \* this.state.rangeproof
    label,          \* the text on the four buttons
    proofError,     \* the message under the buttons
    store,          \* validatingProof and proofOkay in the Redux store
    asked,          \* requests made to the uPort app, by kind
    loading,        \* ... and those not answered yet
    checks,         \* calls of the contract made so far
    calls,          \* ... and those not answered yet
    failed,         \* history: the buttons whose last request ended in an error
                    \* that no handler turns into a text on the button
    basis           \* history: the call whose answer each check button shows

shopVars == <<commitment, rangeproof, label, proofError, store, asked, loading,
              checks, calls, failed, basis>>
vars == <<formVars, shopVars>>

CheckButtons == {"checkProof18Plus", "checkProof65Plus"}

LoadButtons == {"loadAttestationCommitment", "loadAttestationRangeproof"}

\* The years of birth the two buttons ask about.
Lower(b) == 1900
Upper(b) == IF b = "checkProof18Plus" THEN 1999 ELSE 1952

Missing == [year |-> 0, from |-> "nobody"]      \* commitment: -1
NotLoaded == [commitment |-> Missing, lo |-> -1, hi |-> -1]   \* rangeproof: -1
Undefined == [commitment |-> Missing, lo |-> 0, hi |-> 0]     \* no such attestation
NoCall == [id |-> 0, button |-> "none", commitment |-> Missing, proof |-> NotLoaded]

\* The commitments the government issued to this customer.
Genuine == {att.claim : att \in {x \in Attestations : x.sub /\ x.iss /\ x.signed}}

ASSUME BoundsAreNumbers == MaxLoads \in Nat /\ MaxChecks \in Nat

ASSUME AttestationsAreTyped ==
    \A att \in Attestations : {att.sub, att.iss, att.signed} \subseteq BOOLEAN

ASSUME YearsAreNumbers ==
    \A p \in WalletProofs : {p.commitment.year, p.lo, p.hi} \subseteq Int

ASSUME ForgeriesDiffer ==
    \A att \in Attestations : att.claim \in Genuine => att.sub /\ att.iss /\ att.signed

\* The server makes proofs of true statements only.
ASSUME ProofsAreHonest ==
    \A p \in WalletProofs : p.lo <= p.commitment.year /\ p.commitment.year <= p.hi

Init ==
    /\ FormInit
    /\ commitment = Missing
    /\ rangeproof = NotLoaded
    /\ label = [b \in CheckButtons \cup LoadButtons |-> "initial"]
    /\ proofError = "none"
    /\ store = [validatingProof |-> FALSE, proofOkay |-> FALSE]
    /\ asked = [b \in LoadButtons |-> 0]
    /\ loading = [b \in LoadButtons |-> 0]
    /\ checks = 0
    /\ calls = {}
    /\ failed = {}
    /\ basis = [b \in CheckButtons |-> NoCall]

-----------------------------------------------------------------------------
\* The range fields.
EditRange ==
    /\ FormNext
    /\ UNCHANGED shopVars

\* A click on a load button sends a request to the uPort app; the range proof
\* is asked for by a name made of the two bounds.
RequestCredential(b) ==
    /\ b = "loadAttestationRangeproof" => rangeEntered
    /\ asked[b] < MaxLoads
    /\ label' = [label EXCEPT ![b] = "waiting"]
    /\ asked' = [asked EXCEPT ![b] = @ + 1]
    /\ loading' = [loading EXCEPT ![b] = @ + 1]
    /\ failed' = failed \ {b}
    /\ UNCHANGED <<formVars, commitment, rangeproof, proofError, store, checks, calls, basis>>

\* Slip: the text for the failure is left out.
AnsweredWithoutText(b, ok) ==
    /\ loading[b] > 0
    /\ loading' = [loading EXCEPT ![b] = @ - 1]
    /\ label' = [label EXCEPT ![b] = IF ok THEN "ok" ELSE "undefined"]
    /\ UNCHANGED <<formVars, proofError, store, asked, checks, calls, failed, basis>>

\* The callback of a load button.
Answered(b, ok) ==
    /\ loading[b] > 0
    /\ loading' = [loading EXCEPT ![b] = @ - 1]
    /\ label' = [label EXCEPT ![b] = IF ok THEN "ok" ELSE "failed"]
    /\ UNCHANGED <<formVars, proofError, store, asked, checks, calls, failed, basis>>

\* Slip: the issuer of the commitment is not compared with the government.
CommitmentArrivesAnyIssuer(att) ==
    LET ok == att.sub /\ att.signed IN
    /\ Answered("loadAttestationCommitment", ok)
    /\ commitment' = IF ok THEN att.claim ELSE commitment
    /\ UNCHANGED rangeproof

\* The commitment arrives: it is kept if it is about this user, comes from the
\* government and carries its signature.
CommitmentArrives(att) ==
    LET ok == att.sub /\ att.iss /\ att.signed IN
    /\ Answered("loadAttestationCommitment", ok)
    /\ commitment' = IF ok THEN att.claim ELSE commitment
    /\ UNCHANGED rangeproof

\* The user has no commitment attestation: verified[0] is undefined.
NoCommitmentArrives ==
    /\ Answered("loadAttestationCommitment", FALSE)
    /\ UNCHANGED <<commitment, rangeproof>>

\* Whatever the app returns under the name replaces the range proof, also when
\* it returns nothing.
RangeproofArrives(p) ==
    /\ Answered("loadAttestationRangeproof", p # Undefined)
    /\ rangeproof' = p
    /\ UNCHANGED commitment

\* The request is refused: the promise has no handler for that.
RequestRejected(b) ==
    /\ loading[b] > 0
    /\ loading' = [loading EXCEPT ![b] = @ - 1]
    /\ failed' = failed \cup {b}
    /\ UNCHANGED <<formVars, commitment, rangeproof, label, proofError, store, asked,
                   checks, calls, basis>>

-----------------------------------------------------------------------------
\* The reducer of the Redux store.
ValidateProofREQUEST(st) == [st EXCEPT !.validatingProof = TRUE]
ValidateProofSUCCESS(st, reply) == [st EXCEPT !.validatingProof = FALSE, !.proofOkay = reply]
ValidateProofERROR(st) == [st EXCEPT !.validatingProof = FALSE]

\* web3 cannot encode arguments that were never loaded.
Encodable(c, p) == c # Missing /\ p \notin {NotLoaded, Undefined}

\* checkProof18Plus, checkProof65Plus and checkProof: a missing commitment or
\* proof is reported, and the contract is called all the same.  If web3 throws
\* on such arguments (~ sent), the promise of validateProof is rejected and
\* nobody hears of it.
CheckProof(b, sent) ==
    /\ checks < MaxChecks
    /\ sent \/ ~ Encodable(commitment, rangeproof)
    /\ label' = [label EXCEPT ![b] = "waiting"]
    /\ proofError' = IF rangeproof = NotLoaded THEN "rangeproof"
                     ELSE IF commitment = Missing THEN "commitment" ELSE proofError
    /\ store' = ValidateProofREQUEST(store)
    /\ checks' = checks + 1
    /\ calls' = IF sent THEN calls \cup {[id |-> checks + 1, button |-> b,
                                         commitment |-> commitment, proof |-> rangeproof]}
                ELSE calls
    /\ failed' = IF sent THEN failed \ {b} ELSE failed \cup {b}
    /\ UNCHANGED <<formVars, commitment, rangeproof, asked, loading, basis>>

\* The precompiled contract accepts a proof for the commitment and the range it
\* was made for (what it computes is GoValidate in module Validators).
Accepts(call) ==
    /\ call.commitment # Missing /\ call.proof.commitment = call.commitment
    /\ call.proof.lo = Lower(call.button) /\ call.proof.hi = Upper(call.button)

\* Slip: only the 18+ button is updated.
ContractRepliesOnly18(call) ==
    LET waiting == {b \in {"checkProof18Plus"} : label[b] = "waiting"} IN
    /\ calls' = calls \ {call}
    /\ store' = ValidateProofSUCCESS(store, Accepts(call))
    /\ label' = [b \in DOMAIN label |->
                   IF b \in waiting THEN IF Accepts(call) THEN "ok" ELSE "failed"
                   ELSE label[b]]
    /\ basis' = [b \in CheckButtons |-> IF b \in waiting THEN call ELSE basis[b]]
    /\ UNCHANGED <<formVars, commitment, rangeproof, proofError, asked, loading, checks, failed>>

\* Slip: any reply counts as an acceptance.
ContractRepliesOkay(call) ==
    LET waiting == {b \in CheckButtons : label[b] = "waiting"} IN
    /\ calls' = calls \ {call}
    /\ store' = ValidateProofSUCCESS(store, Accepts(call))
    /\ label' = [b \in DOMAIN label |-> IF b \in waiting THEN "ok" ELSE label[b]]
    /\ basis' = [b \in CheckButtons |-> IF b \in waiting THEN call ELSE basis[b]]
    /\ UNCHANGED <<formVars, commitment, rangeproof, proofError, asked, loading, checks, failed>>

\* The contract replies: every check button that waits shows the answer.
ContractReplies(call) ==
    LET waiting == {b \in CheckButtons : label[b] = "waiting"} IN
    /\ calls' = calls \ {call}
    /\ store' = ValidateProofSUCCESS(store, Accepts(call))
    /\ label' = [b \in DOMAIN label |->
                   IF b \in waiting THEN IF Accepts(call) THEN "ok" ELSE "failed"
                   ELSE label[b]]
    /\ basis' = [b \in CheckButtons |-> IF b \in waiting THEN call ELSE basis[b]]
    /\ UNCHANGED <<formVars, commitment, rangeproof, proofError, asked, loading, checks, failed>>

\* The call fails: the store is told, the callback is not called.
ContractFails(call) ==
    /\ calls' = calls \ {call}
    /\ store' = ValidateProofERROR(store)
    /\ failed' = failed \cup {call.button}
    /\ UNCHANGED <<formVars, commitment, rangeproof, label, proofError, asked, loading,
                   checks, basis>>

Next ==
    \/ EditRange
    \/ \E b \in LoadButtons : RequestCredential(b) \/ RequestRejected(b)
    \/ \E att \in Attestations : CommitmentArrives(att)
    \/ NoCommitmentArrives
    \/ \E p \in WalletProofs \cup {Undefined} : RangeproofArrives(p)
    \/ \E b \in CheckButtons, sent \in BOOLEAN : CheckProof(b, sent)
    \/ \E call \in calls : ContractReplies(call) \/ ContractFails(call)

Spec == Init /\ [][Next]_vars

-----------------------------------------------------------------------------
Commitments == {att.claim : att \in Attestations} \cup {Missing}
Proofs == WalletProofs \cup {NotLoaded, Undefined}
Calls == [id : 1..MaxChecks, button : CheckButtons, commitment : Commitments, proof : Proofs]

\* Every variable stays in its type; the requests that are out never exceed
\* those that were made.
TypeOK ==
    /\ FormTypeOK
    /\ commitment \in Commitments
    /\ rangeproof \in Proofs
    /\ label \in [CheckButtons \cup LoadButtons -> {"initial", "waiting", "ok", "failed"}]
    /\ proofError \in {"none", "commitment", "rangeproof"}
    /\ store \in [validatingProof : BOOLEAN, proofOkay : BOOLEAN]
    /\ asked \in [LoadButtons -> 0..MaxLoads]
    /\ loading \in [LoadButtons -> 0..MaxLoads]
    /\ \A b \in LoadButtons : loading[b] <= asked[b]
    /\ checks \in 0..MaxChecks
    /\ calls \subseteq Calls
    /\ \A c \in calls : c.id <= checks
    /\ failed \subseteq CheckButtons \cup LoadButtons
    /\ basis \in [CheckButtons -> Calls \cup {NoCall}]

\* Whatever is loaded, reloaded or answered late, a button that shows "Okay!"
\* shows the contract's acceptance of a commitment that the government signed
\* for this customer, although the range proof itself carries no signature.
OkayIsGenuine ==
    \A b \in CheckButtons : label[b] = "ok" =>
        basis[b].commitment \in Genuine

\* The 18+ discount is shown only to a customer born in 1999 or earlier, also
\* when the answer it shows was given to the other button.
AdultDiscountDeserved ==
    label["checkProof18Plus"] = "ok" =>
        basis["checkProof18Plus"].commitment.year <= Upper("checkProof18Plus")

\* A button shows the hourglass only while its own request is out or after that
\* request ended in an error: an answer to another button never takes the
\* answer to this one away.
WaitingHasReason ==
    /\ \A b \in CheckButtons : label[b] = "waiting" =>
            b \in failed \/ \E c \in calls : c.button = b
    /\ \A b \in LoadButtons : label[b] = "waiting" => b \in failed \/ loading[b] > 0

\* The two check handlers say: "Check the proof for a 18+ or a 65+ range, and
\* inform the user by updating the corresponding button accordingly."
OkayMeansInRange ==
    \A b \in CheckButtons : label[b] = "ok" =>
        basis[b].commitment.year \in Lower(b)..Upper(b)

=============================================================================
