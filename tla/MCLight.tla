------------------------------- MODULE MCLight -------------------------------
(***************************************************************************)
(* The light client protocol of the host client, in parts that share no     *)
(* state: who is asked next (Distributor), the attempts to get one answer   *)
(* (Retriever), the buffer that client and server compute each on its own   *)
(* (FlowControl) and the server's share for each client (ClientManager).  A *)
(* behaviour takes the steps of one part; the others rest in their initial  *)
(* state.                                                                   *)
(***************************************************************************)
EXTENDS Distributor, Retriever, ClientManager

VARIABLES part,
  flowNow, bufEstimate, estTime, sumCost, pending, chosen, requests, toServer,   \* FlowControl
  toClient, bufValue, bufTime, serving, rejected, overdrawn

flowVars == <<flowNow, bufEstimate, estTime, sumCost, pending, chosen, requests, toServer, toClient,
              bufValue, bufTime, serving, rejected, overdrawn>>

-----------------------------------------------------------------------------

\* Request r3 suits only peer p.
MCSuits == {"r1", "r2", "r3"} \X {"p"} \cup {"r1", "r2"} \X {"q"}

\* A small and a larger request and one that costs more than the buffer holds; replies
\* may dawdle.  The buffer recharges by more than one per unit of time, so that canSend
\* does not wait for a small rest.
Flow == INSTANCE FlowControl
  WITH BufLimit <- 12, MinRecharge <- 7, fcTimeConst <- 2, safetyMargin <- 2, Costs <- {1, 5, 15},
       RcValues <- {8, 12}, Word <- 32, MaxDelay <- 1, MaxReplyDelay <- 3, MaxTime <- 5, MaxRequests <- 3,
       now <- flowNow

\* The buffer recharges by less than one, as with the constants of a server of this
\* repository, so that an update may add nothing.
Slow == INSTANCE FlowControl
  WITH BufLimit <- 8, MinRecharge <- 3, fcTimeConst <- 4, safetyMargin <- 6, Costs <- {1, 3, 9},
       RcValues <- {5, 8}, Word <- 32, MaxDelay <- 1, MaxReplyDelay <- 3, MaxTime <- 5, MaxRequests <- 3,
       now <- flowNow

ASSUME Flow!FlowConstants /\ Slow!FlowConstants

-----------------------------------------------------------------------------

Init ==
  /\ part \in {"retriever", "distributor", "flow", "slow", "manager"}
  /\ RetrieverInit /\ DistributorInit /\ ManagerInit
  /\ IF part = "slow" THEN Slow!Init ELSE Flow!Init

Next ==
  /\ UNCHANGED part
  /\ \/ part = "retriever" /\ RetrieverNext /\ UNCHANGED <<distributorVars, flowVars, managerVars>>
     \/ part = "distributor" /\ DistributorNext /\ UNCHANGED <<retrieverVars, flowVars, managerVars>>
     \/ part = "flow" /\ Flow!Next /\ UNCHANGED <<retrieverVars, distributorVars, managerVars>>
     \/ part = "slow" /\ Slow!Next /\ UNCHANGED <<retrieverVars, distributorVars, managerVars>>
     \/ part = "manager" /\ ManagerNext /\ UNCHANGED <<retrieverVars, distributorVars, flowVars>>

vars == <<part, retrieverVars, distributorVars, flowVars, managerVars>>

\* The fairness of Retriever.
Spec ==
  /\ Init /\ [][Next]_vars
  /\ WF_retrieverVars(part = "retriever" /\ LoopStep)
  /\ \A k \in Tries : WF_retrieverVars(part = "retriever" /\ TryStep(k))

-----------------------------------------------------------------------------
(* Properties of the parts; NobodyIsForgotten is that of Distributor,       *)
(* LoadIsCounted that of ClientManager.                                      *)

\* A peer is waited for by one attempt at a time, retrieve reports that there are no
\* peers only when none can answer any more, and what it returned stays; a valid
\* answer ends it, a late one leads to another attempt (Retriever).
AnswerIsFinal ==
  /\ [](OneAttemptPerPeer /\ NoPeersIsFinal)
  /\ ResultIsFinal /\ ValidAnswerStops /\ TimeoutIsRetried

=============================================================================
