---------------------------- MODULE Credentials ----------------------------
(***************************************************************************)
(* The way of a credential: the issuer page (dapp1) has the Java server    *)
(* make a TTP message and attests its two halves, commitment and private   *)
(* variables, to the user's uPort app in two clicks; the intermediary page *)
(* (dapp2) loads the halves, has the server make a range proof and attests *)
(* that under a name built from the range.                                 *)
(*                                                                         *)
(* Every request is answered later, in any order, or never: the answer to  *)
(* a range proof that the server made may be lost on its way to the page.  *)
(* A TTP message is its number in the order of issue; the texts on the     *)
(* buttons are left out.                                                   *)
(***************************************************************************)
EXTENDS RangeForm, Sequences, FiniteSets

CONSTANTS
  Years,          \* what may be typed as year of birth
  Foreign,        \* attestations in the app that the government did not sign
                  \* for this user
  MaxMessages,    \* bound on clicks on "Retrieve TTP message"
  MaxLoads,       \* bound on clicks on each load button
  MaxRequests     \* bound on clicks on "Retrieve rangeproof"

VARIABLES
  varXInput,      \* dapp1: the year in the text field
  page1,          \* dapp1: this.state.commitment and .privateVars
  ttpRequests,    \* dapp1: requests to /ttpmessage not answered yet
  clicks,         \* clicks made so far, by button
  issued,         \* server: the year of every TTP message made
  wallet,         \* the attestations in the uPort app
  page2,          \* dapp2: this.state.commitment, .privateVars and .rangeproof
  loading,        \* dapp2: loads not answered yet, by credential
  proofRequests,  \* requests to /rangeproof the server has not handled yet
  answers,        \* its answers with a proof on their way to the page
  proved          \* history: every range proof the server let out

issuerVars == <<varXInput, page1, ttpRequests>>
intermediaryVars == <<formVars, page2, loading, proofRequests, answers>>
vars == <<issuerVars, intermediaryVars, clicks, issued, wallet, proved>>

Credentials == {"commitment", "privateVars"}

Missing == 0                                       \* the page's '-1' or '?'
NoProof == [message |-> Missing, lo |-> 0, hi |-> 0]   \* rangeproof undefined

\* What the app holds: a half of a TTP message, or a range proof under the name
\* of a range.
CredentialHalf(credential, message) ==
  [name |-> credential, message |-> message, genuine |-> TRUE]

ASSUME BoundsAreNumbers == {MaxMessages, MaxLoads, MaxRequests} \subseteq Nat
ASSUME YearsAreIntegers == Years \subseteq Int
ASSUME ForeignIsNotGenuine ==
  \A att \in Foreign : att.name \in Credentials /\ ~att.genuine

Buttons == {"retrieveTTPMessage", "retrieveRangeProof"} \cup Credentials

Init ==
  /\ FormInit
  /\ varXInput = -1
  /\ page1 = [c \in Credentials |-> Missing]
  /\ ttpRequests = {} /\ proofRequests = {} /\ answers = {}
  /\ clicks = [b \in Buttons |-> 0]
  /\ issued = <<>>
  /\ wallet = [halves |-> Foreign, proofs |-> {}]
  /\ page2 = [commitment |-> Missing, privateVars |-> Missing, rangeproof |-> NoProof]
  /\ loading = [c \in Credentials |-> 0]
  /\ proved = {}

-----------------------------------------------------------------------------
(* dapp1, the issuer. *)

HandleYearChange(year) ==
  /\ varXInput' = year
  /\ UNCHANGED <<page1, ttpRequests, intermediaryVars, clicks, issued, wallet, proved>>

\* A click sends the year; testserver is asked as well and only logs.
RetrieveTTPMessage ==
  /\ clicks["retrieveTTPMessage"] < MaxMessages
  /\ clicks' = [clicks EXCEPT !["retrieveTTPMessage"] = @ + 1]
  /\ ttpRequests' = ttpRequests \cup
       {[id |-> clicks["retrieveTTPMessage"] + 1, X |-> varXInput]}
  /\ UNCHANGED <<varXInput, page1, intermediaryVars, issued, wallet, proved>>

\* The server makes a message for the year it was sent and the page splits it
\* into its halves.
TTPMessageArrives(request) ==
  /\ issued' = Append(issued, request.X)
  /\ ttpRequests' = ttpRequests \ {request}
  /\ page1' = [c \in Credentials |-> Len(issued')]
  /\ UNCHANGED <<varXInput, intermediaryVars, clicks, wallet, proved>>

\* The server cannot be reached: no handler changes the state.
TTPMessageLost(request) ==
  /\ ttpRequests' = ttpRequests \ {request}
  /\ UNCHANGED <<varXInput, page1, intermediaryVars, clicks, issued, wallet, proved>>

\* attestCommitment and attestPrivateVars; the user may refuse the attestation,
\* which looks like not clicking.
Attest(c) ==
  /\ page1[c] # Missing
  /\ wallet' = [wallet EXCEPT !.halves = @ \cup {CredentialHalf(c, page1[c])}]
  /\ UNCHANGED <<issuerVars, intermediaryVars, clicks, issued, proved>>

-----------------------------------------------------------------------------
(* dapp2, the intermediary. *)

EditRange ==
  /\ FormNext
  /\ UNCHANGED <<issuerVars, page2, loading, proofRequests, answers, clicks, issued, wallet, proved>>

LoadAttestation(c) ==
  /\ clicks[c] < MaxLoads
  /\ clicks' = [clicks EXCEPT ![c] = @ + 1]
  /\ loading' = [loading EXCEPT ![c] = @ + 1]
  /\ UNCHANGED <<issuerVars, formVars, page2, proofRequests, answers, issued, wallet, proved>>

\* The app returns one of the attestations it holds under the name; it is kept
\* if subject, issuer and signature are right.
AttestationArrives(c, att) ==
  /\ loading[c] > 0 /\ att.name = c
  /\ loading' = [loading EXCEPT ![c] = @ - 1]
  /\ page2' = IF att.genuine THEN [page2 EXCEPT ![c] = att.message] ELSE page2
  /\ UNCHANGED <<issuerVars, formVars, proofRequests, answers, clicks, issued, wallet, proved>>

\* The app has no such attestation, or the user refuses.
NoAttestationArrives(c) ==
  /\ loading[c] > 0
  /\ loading' = [loading EXCEPT ![c] = @ - 1]
  /\ UNCHANGED <<issuerVars, formVars, page2, proofRequests, answers, clicks, issued, wallet, proved>>

\* A click whose request does not reach the server changes nothing.
RetrieveRangeProof ==
  /\ rangeEntered
  /\ clicks["retrieveRangeProof"] < MaxRequests
  /\ clicks' = [clicks EXCEPT !["retrieveRangeProof"] = @ + 1]
  /\ proofRequests' = proofRequests \cup
       {[id |-> clicks["retrieveRangeProof"] + 1,
         lower |-> bound["rangeStart"], upper |-> bound["rangeEnd"],
         commitment |-> page2.commitment, privateVars |-> page2.privateVars]}
  /\ UNCHANGED <<issuerVars, formVars, page2, loading, answers, issued, wallet, proved>>

\* The server's range check, on the year in the private variables.
Parsed(request) == request.commitment # Missing /\ request.privateVars # Missing

\* Slip: the range is taken as open at its upper end.
RangeContainsOpen(request) ==
  request.lower <= issued[request.privateVars] /\ issued[request.privateVars] < request.upper

RangeContains(request) ==
  request.lower <= issued[request.privateVars] /\ issued[request.privateVars] <= request.upper

\* Slip: the server does not validate the proof it made.
SelfCheckSkipped(request) == TRUE

\* The server's validation of the proof it just made: halves of two messages do
\* not fit together (RangeProof models the check itself).
SelfCheck(request) == request.commitment = request.privateVars

Proof(request) ==
  [message |-> request.commitment, lo |-> request.lower, hi |-> request.upper]

Refused(request) == ~(Parsed(request) /\ RangeContains(request) /\ SelfCheck(request))

\* The server makes the proof and sends it.
ServerProves(request) ==
  /\ ~Refused(request)
  /\ proofRequests' = proofRequests \ {request}
  /\ proved' = proved \cup {Proof(request)}
  /\ answers' = answers \cup {[request |-> request, rangeproofPacket |-> Proof(request)]}
  /\ UNCHANGED <<issuerVars, formVars, page2, loading, clicks, issued, wallet>>

\* The server throws: the page has no handler for the status it then sends.
ServerRefuses(request) ==
  /\ Refused(request)
  /\ proofRequests' = proofRequests \ {request}
  /\ UNCHANGED <<issuerVars, formVars, page2, loading, answers, clicks, issued, wallet, proved>>

\* The page keeps the proof that arrives last, whatever was asked for since.
RangeProofArrives(answer) ==
  /\ answers' = answers \ {answer}
  /\ page2' = [page2 EXCEPT !.rangeproof = answer.rangeproofPacket]
  /\ UNCHANGED <<issuerVars, formVars, loading, proofRequests, clicks, issued, wallet, proved>>

\* The connection fails: the page has no handler for that either.
RangeProofLost(answer) ==
  /\ answers' = answers \ {answer}
  /\ UNCHANGED <<issuerVars, formVars, page2, loading, proofRequests, clicks, issued, wallet, proved>>

\* The name is made of the bounds that are in the form now.
AttestRangeproof ==
  /\ rangeEntered
  /\ wallet' = [wallet EXCEPT !.proofs = @ \cup
       {[lo |-> bound["rangeStart"], hi |-> bound["rangeEnd"], claim |-> page2.rangeproof]}]
  /\ UNCHANGED <<issuerVars, intermediaryVars, clicks, issued, proved>>

-----------------------------------------------------------------------------
IssuerStep ==
  \/ \E year \in Years : HandleYearChange(year)
  \/ RetrieveTTPMessage
  \/ \E request \in ttpRequests : TTPMessageArrives(request) \/ TTPMessageLost(request)
  \/ \E c \in Credentials : Attest(c)

IntermediaryStep ==
  \/ EditRange
  \/ \E c \in Credentials : LoadAttestation(c) \/ NoAttestationArrives(c)
  \/ \E c \in Credentials, att \in wallet.halves : AttestationArrives(c, att)
  \/ RetrieveRangeProof
  \/ \E request \in proofRequests : ServerProves(request) \/ ServerRefuses(request)
  \/ \E answer \in answers : RangeProofArrives(answer) \/ RangeProofLost(answer)
  \/ AttestRangeproof

Next == IssuerStep \/ IntermediaryStep

\* The server's thread handles every request it was sent; that the page sees the answer
\* is not assumed.
ServerHandles(id) ==
  \E request \in proofRequests :
    request.id = id /\ (ServerProves(request) \/ ServerRefuses(request))

Spec ==
  Init /\ [][Next]_vars /\ \A id \in 1 .. MaxRequests : WF_vars(ServerHandles(id))

-----------------------------------------------------------------------------
(* Properties. *)

\* The composed system keeps the promise of module ProofService.
Promise == INSTANCE ProofService WITH PromisedYears <- Years \cup {-1}

KeepsPromise == Promise!Spec

\* The request has matching halves and a range that contains the year.
Justified(request) ==
  /\ request.commitment = request.privateVars /\ request.commitment # Missing
  /\ issued[request.commitment] \in request.lower .. request.upper

\* A request the server received, with matching halves and a range that contains the
\* year, its ends included, is eventually answered, by the proof of this range for this
\* commitment and not by what an earlier request was answered (/rangeproof of the demo
\* server, asked by dapp2's retrieveRangeProof).
ProvableIsProved ==
  \A id \in 1 .. MaxRequests :
    (\E request \in proofRequests : request.id = id /\ Justified(request))
      ~> (\E answer \in answers :
            LET asked == answer.request
            IN  /\ asked.id = id
                /\ answer.rangeproofPacket =
                     [message |-> asked.commitment, lo |-> asked.lower, hi |-> asked.upper])

-----------------------------------------------------------------------------
(* What comments of the code say and the code does not keep: the README has  *)
(* the behaviours.  No run checks these.                                     *)

\* attestRangeproof says: "We include the range in the attestation's name".
NameIsRange ==
  \A att \in wallet.proofs : att.claim # NoProof =>
    att.lo = att.claim.lo /\ att.hi = att.claim.hi
=============================================================================
