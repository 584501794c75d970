----------------------------- MODULE FlowControl -----------------------------
(***************************************************************************)
(* Flow control between a light client and a light server                   *)
(* (les/flowcontrol/control.go, and its use in les/handler.go and           *)
(* les/distributor.go).  The server keeps a buffer that recharges with time *)
(* and pays for every request; the client estimates it from the replies and *)
(* sends only what the buffer can pay for.                                  *)
(*                                                                         *)
(* Messages arrive in order, after a delay, and may be on their way in both *)
(* directions.  MaxDelay bounds the time from the moment a request is queued *)
(* to the moment it is processed, MaxReplyDelay the time a reply takes.     *)
(* Both sides read clocks of the same speed.  Some requests (transactions)  *)
(* have no reply.  Unsigned numbers wrap at Word.                           *)
(***************************************************************************)
EXTENDS Integers, Sequences, FiniteSets, FiniteSetsExt, SequencesExt

CONSTANTS
  BufLimit, MinRecharge,   \* of ServerParams
  fcTimeConst, safetyMargin,
  Costs,                   \* costs of requests
  RcValues,                \* recharge values ClientManager.processed may report
  Word,                    \* where uint64 wraps
  MaxDelay, MaxReplyDelay, \* time a request takes to be processed, and a reply to arrive
  MaxTime, MaxRequests     \* bounds

FlowConstants ==
  /\ BufLimit \in Nat /\ MinRecharge \in Nat \ {0} /\ fcTimeConst \in Nat \ {0}
  /\ safetyMargin \in Nat /\ Word \in Nat \ {0} /\ BufLimit < Word

VARIABLES
  now,
  bufEstimate, estTime, sumCost, pending,   \* ServerNode, at the client
  chosen,                  \* cost of the request that CanSend let through, 0 if none
  requests,                \* requests queued so far
  toServer, toClient,      \* messages on their way: [id, cost, reply, sent], [id, bv, sent]
  bufValue, bufTime,       \* ClientNode, at the server
  serving,                 \* accepted request that is being processed, or NoRequest
  rejected,                \* a request came too early; the server drops the client
  overdrawn                \* history: the client queued more than its estimate held

vars == <<now, bufEstimate, estTime, sumCost, pending, chosen, requests, toServer, toClient,
          bufValue, bufTime, serving, rejected, overdrawn>>

NoRequest == [id |-> 0, cost |-> 0, reply |-> FALSE, sent |-> 0]
NotPending == Word
Requests == 1..MaxRequests

clientVars == <<bufEstimate, estTime, sumCost, pending, chosen, requests, overdrawn>>
serverVars == <<bufValue, bufTime, serving, rejected>>

Lower(a, b) == IF a < b THEN a ELSE b
Upper(a, b) == IF a > b THEN a ELSE b

\* uint64 subtraction
Minus(a, b) == (a - b) % Word

\* recalcBV and recalcBLE, with the division of integers: what is lost of a fraction
\* is lost for good.
Recharged(value, since) == Lower(BufLimit, value + (MinRecharge * (now - since)) \div fcTimeConst)

\* GetRequestCost, and the handler's reject: no request costs more than the buffer.
Capped(cost) == Lower(cost, BufLimit)

Init ==
  /\ now = 0
  /\ bufEstimate = BufLimit /\ estTime = 0 /\ sumCost = 0
  /\ pending = [r \in Requests |-> NotPending]
  /\ chosen = 0 /\ requests = 0 /\ overdrawn = FALSE
  /\ toServer = <<>> /\ toClient = <<>>
  /\ bufValue = BufLimit /\ bufTime = 0 /\ serving = NoRequest /\ rejected = FALSE

\* The distributor queues a request right after CanSend: no time passes in between.
Tick ==
  /\ now < MaxTime /\ now' = now + 1 /\ chosen = 0
  /\ \A m \in ToSet(toServer) \cup ({serving} \ {NoRequest}) : now < m.sent + MaxDelay
  /\ \A m \in ToSet(toClient) : now < m.sent + MaxReplyDelay
  /\ UNCHANGED <<clientVars, toServer, toClient, serverVars>>

-----------------------------------------------------------------------------
(* The client                                                               *)

Margin == (safetyMargin * MinRecharge) \div fcTimeConst

\* What canSend asks of the estimate.
Needed(cost) == Lower(BufLimit, cost + Margin)

\* How long canSend has the client wait for what the estimate lacks; what recharges in
\* less than a unit of time is not waited for.
WaitFor(rest) == (rest * fcTimeConst) \div MinRecharge

\* CanSend updates the estimate; the distributor sends if there is nothing to wait for.
CanSend(c) ==
  /\ chosen = 0 /\ requests < MaxRequests /\ ~rejected
  /\ bufEstimate' = Recharged(bufEstimate, estTime) /\ estTime' = now
  /\ chosen' = IF WaitFor(Upper(0, Needed(Capped(c)) - bufEstimate')) = 0 THEN c ELSE 0
  /\ UNCHANGED <<now, sumCost, pending, requests, overdrawn, toServer, toClient, serverVars>>

\* The request is queued and sent; a reply may have been handled since CanSend.
QueueRequest(reply) ==
  /\ chosen # 0
  /\ LET cost == Capped(chosen) id == requests + 1
     IN  /\ bufEstimate' = Minus(bufEstimate, cost)
         /\ overdrawn' = (overdrawn \/ bufEstimate < cost)
         /\ sumCost' = sumCost + cost
         /\ pending' = [pending EXCEPT ![id] = sumCost + cost]
         /\ requests' = id
         /\ toServer' = Append(toServer, [id |-> id, cost |-> chosen, reply |-> reply, sent |-> now])
  /\ chosen' = 0
  /\ UNCHANGED <<now, estTime, toClient, serverVars>>


\* The reported value less what was sent after the request.
EstimateAfter(bv, id) == Upper(0, Lower(bv, BufLimit) - (sumCost - pending[id]))

GotReply ==
  /\ toClient # <<>> /\ toClient' = Tail(toClient)
  /\ LET m == Head(toClient)
     IN  /\ bufEstimate' = EstimateAfter(m.bv, m.id)
         /\ pending' = [pending EXCEPT ![m.id] = NotPending]
  /\ estTime' = now
  /\ UNCHANGED <<now, sumCost, chosen, requests, overdrawn, toServer, serverVars>>

-----------------------------------------------------------------------------
(* The server                                                               *)

\* AcceptRequest and reject.
AcceptRequest ==
  /\ serving = NoRequest /\ toServer # <<>> /\ ~rejected
  /\ toServer' = Tail(toServer)
  /\ bufValue' = Recharged(bufValue, bufTime) /\ bufTime' = now
  /\ LET m == Head(toServer)
     IN  IF Capped(m.cost) > bufValue' THEN rejected' = TRUE /\ UNCHANGED serving
         ELSE serving' = m /\ UNCHANGED rejected
  /\ UNCHANGED <<now, clientVars, toClient>>

\* The cost is taken off and the result limited to the buffer.
Paid(value, cost) == Lower(BufLimit, Minus(value, cost))

\* RequestProcessed; a client that used little of the server gets part of it back.
RequestProcessed(rcValue) ==
  /\ serving # NoRequest
  /\ LET value == Paid(Recharged(bufValue, bufTime), serving.cost)
     IN  bufValue' = IF rcValue < BufLimit THEN Upper(value, BufLimit - rcValue) ELSE value
  /\ bufTime' = now
  /\ toClient' = IF serving.reply THEN Append(toClient, [id |-> serving.id, bv |-> bufValue', sent |-> now]) ELSE toClient
  /\ serving' = NoRequest
  /\ UNCHANGED <<now, clientVars, toServer, rejected>>

-----------------------------------------------------------------------------

Next ==
  \/ Tick
  \/ \E c \in Costs : CanSend(c)
  \/ \E reply \in BOOLEAN : QueueRequest(reply)
  \/ GotReply \/ AcceptRequest
  \/ \E rcValue \in RcValues : RequestProcessed(rcValue)

Spec == Init /\ [][Next]_vars

-----------------------------------------------------------------------------
(* Properties                                                               *)

\* The server's buffer never holds more than its limit, although a cost above the limit
\* wraps; neither does the client's estimate, until the client queues more than it holds.
BuffersWithinLimit == bufValue <= BufLimit /\ (~overdrawn => bufEstimate <= BufLimit)

\* Until then the estimate exceeds what the server's buffer will be, once it has paid
\* for everything on its way, by no more than the safety margin.
EstimateIsSafe ==
  LET due == MapThenSumSet(LAMBDA k : Capped(toServer[k].cost), DOMAIN toServer) + Capped(serving.cost)
  IN  ~rejected /\ ~overdrawn => Recharged(bufEstimate, estTime) <= Recharged(bufValue, bufTime) - due + Margin

\* And until then no request comes too early but one that costs so much that the margin
\* is cut off at the limit (control.go:131-134): so is every step.
OnlyLargeIsEarly ==
  rejected' /\ ~rejected => overdrawn \/ Capped(Head(toServer).cost) + Margin > BufLimit

-----------------------------------------------------------------------------
(* What the code does not keep: the README has the behaviours.  No run      *)
(* checks these.                                                            *)

\* What CanSend let through can be paid when it arrives: not if it is as large as the
\* buffer.
NeverTooEarly == ~rejected

\* CanSend lets nothing through that the estimate does not hold when it is queued: not
\* if a late reply lowers the estimate in between, nor if MinRecharge exceeds fcTimeConst,
\* where canSend does not wait for what is missing.
NeverOverdrawn == ~overdrawn
=============================================================================
