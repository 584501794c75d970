---------------------------- MODULE ClientManager ----------------------------
(***************************************************************************)
(* The light server's client manager (les/flowcontrol/manager.go): it       *)
(* limits how many requests are served at once, charges every client for    *)
(* the time it is served and lets that charge recharge afterwards.          *)
(*                                                                         *)
(* One handler per client serves its requests one after the other.  A       *)
(* handler reads the clock, then takes the manager's lock: the time it      *)
(* passes may be older than the manager's.  All clients have weight 1.      *)
(***************************************************************************)
EXTENDS Integers, FiniteSets, FiniteSetsExt

CONSTANTS
  Nodes,                   \* clients
  rcConst, rcRecharge, maxSimReq, maxRcSum,
  RcWord,                  \* charges are added up modulo this; 2^64 in Go
  MaxTime                  \* bound on the clock

ASSUME ManagerConstants ==
  /\ IsFiniteSet(Nodes) /\ rcConst \in Nat \ {0} /\ rcRecharge \in Nat /\ rcRecharge >= Cardinality(Nodes)
  /\ maxSimReq \in Nat \ {0} /\ maxRcSum \in Nat /\ RcWord \in Nat \ {0}

VARIABLES
  now,
  cm,            \* the manager: [node, nodes, simReqCnt, sumWeight, rcSumValue, time]
  pc,            \* of each handler: "gone" "joining" "idle" "arrived" "queueing" "resuming" "resumed" "serving" "done"
  at,            \* the time each handler has read
  head,          \* the waiting handler queueProc has taken, or "none"
  closed         \* Stop was called: resumeQueue is closed

managerVars == <<now, cm, pc, at, head, closed>>

NewNode(t) ==
  [serving |-> FALSE, recharging |-> FALSE, rcValue |-> 0, rcDelta |-> 0, startValue |-> 0,
   lastUpdate |-> t, finishRecharge |-> t]

\* Division of signed integers rounds towards zero.
Quotient(a, b) == IF a >= 0 THEN a \div b ELSE -((-a) \div b)

-----------------------------------------------------------------------------
(* cmNode                                                                   *)

nodeUpdate(nd, t) ==
  IF nd.recharging /\ t >= nd.finishRecharge
  THEN [nd EXCEPT !.recharging = FALSE, !.rcDelta = 0, !.rcValue = 0, !.lastUpdate = t]
  ELSE [nd EXCEPT !.rcValue = @ + Quotient(nd.rcDelta * (t - nd.lastUpdate), rcConst),
                  !.lastUpdate = t]

set(nd, serving, simReqCnt, sumWeight) ==
  LET ends       == nd.serving /\ ~serving
      recharging == ~serving /\ (nd.recharging \/ ends)
      weight     == IF ends THEN sumWeight + 1 ELSE sumWeight
      speed      == rcRecharge \div weight
  IN  [nd EXCEPT !.serving = serving, !.recharging = recharging,
                 !.rcDelta = IF serving THEN rcConst \div simReqCnt ELSE IF recharging THEN -speed ELSE 0,
                 !.finishRecharge = IF recharging THEN nd.lastUpdate + (nd.rcValue * rcConst) \div speed ELSE @]

-----------------------------------------------------------------------------
(* ClientManager                                                            *)

Recharging(m) == {n \in m.nodes : m.node[n].recharging}

\* Charges are signed and added up as unsigned numbers.
updateNodes(m, t) ==
  LET m1 == [m EXCEPT !.node = [n \in Nodes |-> IF n \in m.nodes THEN nodeUpdate(m.node[n], t) ELSE m.node[n]]]
  IN  [m1 EXCEPT !.sumWeight = Cardinality(Recharging(m1)),
                 !.rcSumValue = MapThenSumSet(LAMBDA n : m1.node[n].rcValue, m1.nodes) % RcWord]

\* One turn of the loop of update: up to the first end of a recharge, after which the
\* other recharges speed up.
Turn(m, t) ==
  LET first == Min({t} \cup {m.node[n].finishRecharge : n \in Recharging(m)})
      m1    == updateNodes(m, first)
      again == Recharging(m1) # Recharging(m)
  IN  [m |-> IF again THEN [m1 EXCEPT !.node = [n \in Nodes |->
                              IF n \in Recharging(m1)
                              THEN set(m1.node[n], m1.node[n].serving, m1.simReqCnt, m1.sumWeight)
                              ELSE m1.node[n]]]
             ELSE [m1 EXCEPT !.time = t],
       again |-> again]

\* The turns, from the first: each but the last ends a recharge.
Turns(m, t) ==
  LET turn[k \in Nat] == IF k = 0 THEN Turn(m, t)
                         ELSE LET r == turn[k - 1] IN IF r.again THEN Turn(r.m, t) ELSE r
  IN  turn

Update(m, t) == Turns(m, t)[Cardinality(Nodes)].m

canStartReq(m) == m.simReqCnt < maxSimReq /\ m.rcSumValue < maxRcSum

Start(m, n) ==
  LET m1 == [m EXCEPT !.simReqCnt = @ + 1]
      m2 == [m1 EXCEPT !.node[n] = set(@, TRUE, m1.simReqCnt, m1.sumWeight)]
  IN  Update([m2 EXCEPT !.node[n].startValue = m2.node[n].rcValue], m2.time)

\* Slip: a request that ends twice is counted down twice.
StopAlways(m, n, t) ==
  LET m1 == Update(m, t)
      m2 == [m1 EXCEPT !.simReqCnt = @ - 1]
  IN  Update([m2 EXCEPT !.node[n] = set(@, FALSE, m2.simReqCnt, m2.sumWeight)], t)

stop(m, n, t) ==
  IF ~m.node[n].serving THEN m
  ELSE LET m1 == Update(m, t)
           m2 == [m1 EXCEPT !.simReqCnt = @ - 1]
       IN  Update([m2 EXCEPT !.node[n] = set(@, FALSE, m2.simReqCnt, m2.sumWeight)], t)

-----------------------------------------------------------------------------
(* Handlers                                                                 *)

ManagerInit ==
  /\ now = 0 /\ closed = FALSE /\ head = "none"
  /\ pc = [n \in Nodes |-> "gone"] /\ at = [n \in Nodes |-> 0]
  /\ cm = [node |-> [n \in Nodes |-> NewNode(0)], nodes |-> {},
           simReqCnt |-> 0, sumWeight |-> 0, rcSumValue |-> 0, time |-> 0]

Tick == now < MaxTime /\ now' = now + 1 /\ UNCHANGED <<cm, pc, at, head, closed>>

HandlerTo(n, p) == pc' = [pc EXCEPT ![n] = p]

\* A client connects, a request arrives or is done: the handler reads the clock.
ReadClock(n, from, to) ==
  /\ pc[n] = from /\ HandlerTo(n, to)
  /\ at' = [at EXCEPT ![n] = now]
  /\ UNCHANGED <<now, cm, head, closed>>

\* A client that comes back gets a new node.
addNode(n) ==
  /\ pc[n] = "joining"
  /\ cm' = Update([cm EXCEPT !.node[n] = NewNode(at[n]), !.nodes = @ \cup {n}], now)
  /\ HandlerTo(n, "idle")
  /\ UNCHANGED <<now, at, head, closed>>

\* accept, up to the point where it has to wait
Accept(n) ==
  /\ pc[n] = "arrived"
  /\ LET m == Update(cm, at[n])
     IN  IF canStartReq(m) THEN cm' = Start(m, n) /\ HandlerTo(n, "serving")
         ELSE cm' = m /\ HandlerTo(n, "queueing")
  /\ UNCHANGED <<now, at, head, closed>>

\* resumeQueue <- resume, received by queueProc
Enqueue(n) ==
  /\ pc[n] = "queueing" /\ head = "none" /\ ~closed
  /\ head' = n /\ HandlerTo(n, "resuming")
  /\ UNCHANGED <<now, cm, at, closed>>

\* queueProc polls until a request can start, then wakes the handler.
Resume ==
  /\ head # "none"
  /\ LET m == Update(cm, now)
     IN  /\ cm' = m
         /\ IF canStartReq(m) THEN head' = "none" /\ pc' = [pc EXCEPT ![head] = "resumed"]
            ELSE UNCHANGED <<head, pc>>
  /\ UNCHANGED <<now, at, closed>>

\* The rest of accept; what canStartReq says now does not matter any more.
AcceptResumed(n) ==
  /\ pc[n] = "resumed"
  /\ IF n \in cm.nodes THEN cm' = Start(cm, n) ELSE UNCHANGED cm
  /\ HandlerTo(n, "serving")
  /\ UNCHANGED <<now, at, head, closed>>

\* RequestProcessed
Processed(n) ==
  /\ pc[n] = "done"
  /\ cm' = stop(cm, n, at[n])
  /\ HandlerTo(n, "idle")
  /\ UNCHANGED <<now, at, head, closed>>

\* The handler returns, after a request that was too early or between requests; the
\* clock is read under the lock.
removeNode(n) ==
  /\ pc[n] \in {"idle", "serving"}
  /\ LET m == stop(cm, n, now)
     IN  cm' = Update([m EXCEPT !.nodes = @ \ {n}], now)
  /\ HandlerTo(n, "gone")
  /\ UNCHANGED <<now, at, head, closed>>

\* Stop, which the server calls when it shuts down.
StopManager ==
  /\ ~closed /\ closed' = TRUE
  /\ cm' = [cm EXCEPT !.nodes = {}]
  /\ UNCHANGED <<now, pc, at, head>>

-----------------------------------------------------------------------------

HandlerStep(n) ==
  \/ ReadClock(n, "gone", "joining") \/ ReadClock(n, "idle", "arrived") \/ ReadClock(n, "serving", "done")
  \/ addNode(n) \/ Accept(n) \/ Enqueue(n) \/ AcceptResumed(n) \/ Processed(n) \/ removeNode(n)

ManagerNext == Tick \/ Resume \/ StopManager \/ \E n \in Nodes : HandlerStep(n)

ManagerSpec == ManagerInit /\ [][ManagerNext]_managerVars

-----------------------------------------------------------------------------
(* Properties                                                               *)

\* simReqCnt, which is unsigned, counts the requests that are being served, whatever
\* is removed, resumed or stopped meanwhile.
ServingIsCounted == cm.simReqCnt = Cardinality({n \in Nodes : cm.node[n].serving})

\* A client that left is neither served nor counted.
GoneIsNotServed == \A n \in Nodes : pc[n] = "gone" => ~cm.node[n].serving

\* sumWeight, which is divided by, is the number of clients that recharge.
SumsAreUpToDate == closed \/ cm.sumWeight = Cardinality(Recharging(cm))

\* The unsigned counters of the manager count what is served and recharged, whoever
\* joins, leaves, waits or is resumed meanwhile (accept, stop, removeNode).
LoadIsCounted == ServingIsCounted /\ GoneIsNotServed /\ SumsAreUpToDate

\* Although handlers pass times that are older than the manager's, no charge is
\* negative once it is brought up to date: charges are added up as unsigned numbers.
ChargesAreNotNegative ==
  \A n \in cm.nodes : updateNodes(cm, now).node[n].rcValue >= 0

-----------------------------------------------------------------------------
(* What comments of the code say and the code does not keep: the README has  *)
(* the behaviours.  No run checks these.                                     *)

\* Stop lets every waiting handler return: none is at its send on the channel that
\* Stop closes, where it panics.
StopFindsNoSender == [][closed' # closed => \A n \in Nodes : pc[n] # "queueing"]_managerVars
=============================================================================
