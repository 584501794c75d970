----------------------------- MODULE Distributor -----------------------------
(***************************************************************************)
(* The light client's request distributor and the send queues of its peers  *)
(* (les/distributor.go, les/execqueue.go).  Requests wait in creation order; *)
(* a loop hands each to a suitable peer whose flow control lets it through, *)
(* and sleeps until a signal or a timer wakes it.                           *)
(*                                                                         *)
(* Which peer suits which request is fixed; whether a peer has to wait      *)
(* changes with every request sent and with time.  One activation of the    *)
(* loop holds the lock over all its turns.                                  *)
(***************************************************************************)
EXTENDS Integers, Sequences, FiniteSets, SequencesExt, FiniteSetsExt

CONSTANTS
  Reqs, Peers,
  Suits,         \* pairs <<request, peer>>
  Capacity,      \* of a peer's send queue
  MaxQueued      \* bound on calls of queue

VARIABLES
  reqQueue, reqOrder, lastReqOrder,
  sentChn,       \* request -> "nil", "open" or "closed", as the request's field has it
  outcome,       \* request -> what its latest channel delivered: "none", "closed" or a peer
  loopNextSent, loopChn, timers,   \* the flag; signals in the channel; sleeping goroutines
  loop,          \* "idle" | "woken" | "working" | "stopped"
  mustWait,      \* peers whose flow control demands to wait
  peers,         \* registered peers
  sendQueue,     \* peer -> functions queued, the first of them running if running
  running, quit, \* per peer; quit is "no", "asked" or "done"
  assigned, executed,   \* history: per peer, requests in the order of request() and of sending
  doubleClose,   \* a closed channel was closed again, which panics
  queued         \* calls of queue so far

distributorVars == <<reqQueue, reqOrder, lastReqOrder, sentChn, outcome, loopNextSent, loopChn, timers, loop,
          mustWait, peers, sendQueue, running, quit, assigned, executed, doubleClose, queued>>

execVars == <<sendQueue, running, quit, executed>>
loopVars == <<loopNextSent, loopChn, timers, loop>>

DistributorInit ==
  /\ reqQueue = <<>> /\ lastReqOrder = 0 /\ reqOrder = [r \in Reqs |-> 0]
  /\ sentChn = [r \in Reqs |-> "nil"] /\ outcome = [r \in Reqs |-> "none"]
  /\ loopNextSent = FALSE /\ loopChn = 0 /\ timers = 0 /\ loop = "idle"
  /\ mustWait = {} /\ peers = {}
  /\ sendQueue = [p \in Peers |-> <<>>] /\ running = [p \in Peers |-> FALSE]
  /\ quit = [p \in Peers |-> "no"]
  /\ assigned = [p \in Peers |-> <<>>] /\ executed = [p \in Peers |-> <<>>]
  /\ doubleClose = FALSE /\ queued = 0

-----------------------------------------------------------------------------
(* Calls of other goroutines, which take the lock while the loop is idle    *)

\* Where queue puts a request: before the first one with a higher order.
Place(q, r, order) ==
  LET before == {k \in DOMAIN q : reqOrder[q[k]] >= order}
  IN  IF before = {} THEN Append(q, r) ELSE InsertAt(q, Min(before), r)

\* A signal is sent unless one is on its way.  The caller queues a request that is new, or whose last channel has an outcome.
queue(r) ==
  /\ loop # "working" /\ queued < MaxQueued /\ queued' = queued + 1
  /\ sentChn[r] = "nil"
  /\ LET new   == reqOrder[r] = 0
         order == IF new THEN lastReqOrder + 1 ELSE reqOrder[r]
         sig   == ~loopNextSent
     IN  /\ reqOrder' = [reqOrder EXCEPT ![r] = order]
         /\ lastReqOrder' = IF new THEN order ELSE lastReqOrder
         /\ reqQueue' = Place(reqQueue, r, order)
         /\ loopNextSent' = (loopNextSent \/ sig)
         /\ loopChn' = IF sig THEN loopChn + 1 ELSE loopChn
  /\ sentChn' = [sentChn EXCEPT ![r] = "open"]
  /\ outcome' = [outcome EXCEPT ![r] = "none"]
  /\ UNCHANGED <<timers, loop, mustWait, peers, execVars, assigned, doubleClose>>

\* remove takes a request's element out of the list; it also sets sentChn to nil.
remove(q, r) ==
  IF r \in ToSet(q) THEN RemoveAt(q, CHOOSE k \in DOMAIN q : q[k] = r) ELSE q

\* cancel of a request that was not sent
cancel(r) ==
  /\ loop # "working" /\ sentChn[r] # "nil"
  /\ doubleClose' = (doubleClose \/ sentChn[r] = "closed")
  /\ sentChn' = [sentChn EXCEPT ![r] = "nil"]
  /\ outcome' = [outcome EXCEPT ![r] = "closed"]
  /\ reqQueue' = remove(reqQueue, r)
  /\ UNCHANGED <<reqOrder, lastReqOrder, loopVars, mustWait, peers, execVars, assigned, queued>>

registerPeer(p) ==
  /\ p \notin peers /\ quit[p] = "no" /\ peers' = peers \cup {p}
  /\ UNCHANGED <<reqQueue, reqOrder, lastReqOrder, sentChn, outcome, loopVars, mustWait, execVars,
                 assigned, doubleClose, queued>>

\* unregisterPeer, followed by quit of the peer's send queue
unregisterPeer(p) ==
  /\ p \in peers /\ peers' = peers \ {p}
  /\ quit' = [quit EXCEPT ![p] = IF running[p] THEN "asked" ELSE "done"]
  /\ UNCHANGED <<reqQueue, reqOrder, lastReqOrder, sentChn, outcome, loopVars, mustWait, sendQueue,
                 running, executed, assigned, doubleClose, queued>>

\* The buffer of a peer recharges.
Recharge(p) ==
  /\ p \in mustWait /\ mustWait' = mustWait \ {p}
  /\ UNCHANGED <<reqQueue, reqOrder, lastReqOrder, sentChn, outcome, loopVars, peers, execVars,
                 assigned, doubleClose, queued>>

TimerFires ==
  /\ timers > 0 /\ timers' = timers - 1 /\ loopChn' = loopChn + 1
  /\ UNCHANGED <<reqQueue, reqOrder, lastReqOrder, sentChn, outcome, loopNextSent, loop, mustWait,
                 peers, execVars, assigned, doubleClose, queued>>

-----------------------------------------------------------------------------
(* The loop                                                                 *)

canQueue(p) == quit[p] = "no" /\ Len(sendQueue[p]) < Capacity

Usable(r, p) == p \in peers /\ canQueue(p) /\ <<r, p>> \in Suits

\* nextRequest gives up on the requests at the front that nobody can serve.
Hopeless ==
  {k \in DOMAIN reqQueue : \A j \in 1..k : \A p \in Peers : ~Usable(reqQueue[j], p)}

\* The first request in the queue that a peer can serve; the only one it is asked for.
FirstFor(p) ==
  LET ks == {k \in DOMAIN reqQueue : Usable(reqQueue[k], p)} IN IF ks = {} THEN 0 ELSE Min(ks)

Candidates == {<<reqQueue[FirstFor(p)], p>> : p \in {q \in Peers \ mustWait : FirstFor(q) # 0}}

\* case <-d.loopChn; others may still take the lock before the loop does.
ReceiveSignal ==
  /\ loop = "idle" /\ loopChn > 0
  /\ loop' = "woken" /\ loopChn' = loopChn - 1
  /\ UNCHANGED <<reqQueue, reqOrder, lastReqOrder, sentChn, outcome, loopNextSent, timers, mustWait, peers,
                 execVars, assigned, doubleClose, queued>>

\* The loop takes the lock, which it holds until it sleeps.
Wake ==
  /\ loop = "woken"
  /\ loop' = "working" /\ loopNextSent' = FALSE /\ UNCHANGED loopChn
  /\ UNCHANGED <<reqQueue, reqOrder, lastReqOrder, sentChn, outcome, timers, mustWait, peers, execVars,
                 assigned, doubleClose, queued>>

\* nextRequest, as far as it gives up requests
GiveUp ==
  /\ loop = "working" /\ Hopeless # {}
  /\ LET gone == {reqQueue[k] : k \in Hopeless}
     IN  /\ sentChn' = [r \in Reqs |-> IF r \in gone THEN "nil" ELSE sentChn[r]]
         /\ outcome' = [r \in Reqs |-> IF r \in gone THEN "closed" ELSE outcome[r]]
         /\ doubleClose' = (doubleClose \/ \E r \in gone : sentChn[r] = "closed")
         /\ reqQueue' = SubSeq(reqQueue, Cardinality(Hopeless) + 1, Len(reqQueue))
  /\ UNCHANGED <<reqOrder, lastReqOrder, loopVars, mustWait, peers, execVars, assigned, queued>>

\* A request is assigned: request() charges the peer, the send is queued at the peer,
\* and the peer is sent on the channel, which is then closed.
Assign(r, p, waits) ==
  /\ loop = "working" /\ Hopeless = {} /\ <<r, p>> \in Candidates
  /\ reqQueue' = remove(reqQueue, r)
  /\ sentChn' = [sentChn EXCEPT ![r] = "nil"] /\ outcome' = [outcome EXCEPT ![r] = p]
  /\ assigned' = [assigned EXCEPT ![p] = Append(@, r)]
  /\ mustWait' = IF waits THEN mustWait \cup {p} ELSE mustWait
  /\ sendQueue' = IF canQueue(p) THEN [sendQueue EXCEPT ![p] = Append(@, r)] ELSE sendQueue
  /\ UNCHANGED <<reqOrder, lastReqOrder, loopVars, peers, running, quit, executed, doubleClose, queued>>

\* Slip: the loop sleeps without a timer.
SleepForever ==
  /\ loop = "working" /\ Hopeless = {} /\ Candidates = {}
  /\ loop' = "idle"
  /\ UNCHANGED <<reqQueue, reqOrder, lastReqOrder, sentChn, outcome, loopNextSent, timers, loopChn,
                 mustWait, peers, execVars, assigned, doubleClose, queued>>

\* Nothing can be sent: sleep, with a timer if some peer has to wait.
Sleep ==
  /\ loop = "working" /\ Hopeless = {} /\ Candidates = {}
  /\ loop' = "idle"
  /\ LET wait == \E p \in Peers : FirstFor(p) # 0
     IN  /\ loopNextSent' = (loopNextSent \/ wait)
         /\ timers' = IF wait THEN timers + 1 ELSE timers
  /\ UNCHANGED <<reqQueue, reqOrder, lastReqOrder, sentChn, outcome, loopChn, mustWait, peers, execVars,
                 assigned, doubleClose, queued>>

\* case <-d.stopChn: every channel is closed; the requests keep their field.  What is
\* queued between the receive, which changes nothing, and the lock is closed as well.
StopLoop ==
  /\ loop = "idle" /\ loop' = "stopped"
  /\ LET left == ToSet(reqQueue)
     IN  /\ sentChn' = [r \in Reqs |-> IF r \in left THEN "closed" ELSE sentChn[r]]
         /\ outcome' = [r \in Reqs |-> IF r \in left THEN "closed" ELSE outcome[r]]
  /\ UNCHANGED <<reqQueue, reqOrder, lastReqOrder, loopNextSent, loopChn, timers, mustWait, peers,
                 execVars, assigned, doubleClose, queued>>

-----------------------------------------------------------------------------
(* execQueue                                                                *)

\* waitNext hands the first function to the queue's goroutine.
StartNext(p) ==
  /\ ~running[p] /\ sendQueue[p] # <<>> /\ quit[p] = "no"
  /\ running' = [running EXCEPT ![p] = TRUE]
  /\ executed' = [executed EXCEPT ![p] = Append(@, Head(sendQueue[p]))]
  /\ UNCHANGED <<reqQueue, reqOrder, lastReqOrder, sentChn, outcome, loopVars, mustWait, peers,
                 sendQueue, quit, assigned, doubleClose, queued>>

\* The function returns and is dropped; a queue that was asked to quit ends.
Finish(p) ==
  /\ running[p]
  /\ running' = [running EXCEPT ![p] = FALSE]
  /\ sendQueue' = [sendQueue EXCEPT ![p] = Tail(@)]
  /\ quit' = [quit EXCEPT ![p] = IF @ = "asked" THEN "done" ELSE @]
  /\ UNCHANGED <<reqQueue, reqOrder, lastReqOrder, sentChn, outcome, loopVars, mustWait, peers,
                 executed, assigned, doubleClose, queued>>

-----------------------------------------------------------------------------

DistributorLoopStep == \/ ReceiveSignal \/ Wake \/ GiveUp \/ Sleep
            \/ \E r \in Reqs, p \in Peers, waits \in BOOLEAN : Assign(r, p, waits)

DistributorNext ==
  \/ DistributorLoopStep \/ StopLoop \/ TimerFires
  \/ \E r \in Reqs : queue(r) \/ cancel(r)
  \/ \E p \in Peers : \/ registerPeer(p) \/ unregisterPeer(p) \/ Recharge(p)
                      \/ StartNext(p) \/ Finish(p)

\* The loop, the timers and the send queues run, and buffers recharge.
DistributorSpec ==
  /\ DistributorInit /\ [][DistributorNext]_distributorVars
  /\ WF_distributorVars(DistributorLoopStep) /\ WF_distributorVars(TimerFires)
  /\ \A p \in Peers : WF_distributorVars(Recharge(p)) /\ WF_distributorVars(StartNext(p)) /\ WF_distributorVars(Finish(p))

-----------------------------------------------------------------------------
(* Properties                                                               *)

\* At most one wake-up is on its way, so that queue, which sends it with the lock
\* held, never blocks on the channel.
OneWakeUp ==
  loopChn + timers + (IF loop = "woken" THEN 1 ELSE 0) = (IF loopNextSent THEN 1 ELSE 0)

\* No lost wake-up: while requests wait, the loop works or will be woken.
NoLostWakeUp == (reqQueue # <<>> /\ loop \in {"idle", "woken"}) => loopNextSent

\* The queue is in creation order, requests that were queued again included, and
\* holds exactly the requests whose channel is pending.
QueueIsOrdered ==
  /\ \A j, k \in DOMAIN reqQueue : j < k => reqOrder[reqQueue[j]] < reqOrder[reqQueue[k]]
  /\ \A r \in Reqs : r \in ToSet(reqQueue) <=> sentChn[r] # "nil"

\* A peer is given the oldest request it can serve, and its flow control allows it.
OldestFirst ==
  [][\A p \in Peers : assigned'[p] # assigned[p] =>
       /\ p \notin mustWait
       /\ \A r \in Reqs : Usable(r, p) /\ r \in ToSet(reqQueue) => reqOrder[r] >= reqOrder[Last(assigned'[p])]]_distributorVars

\* A peer executes what was assigned to it, in the same order, each once.
SentInOrder == \A p \in Peers : IsPrefix(executed[p], assigned[p])

\* While requests wait the loop works or exactly one wake-up is on its way; each peer
\* gets the oldest request it can serve and sends what it got in that order.
NobodyIsForgotten ==
  [](OneWakeUp /\ NoLostWakeUp /\ QueueIsOrdered /\ SentInOrder) /\ OldestFirst

-----------------------------------------------------------------------------
(* What comments of the code say and the code does not keep: the README has  *)
(* the behaviours.  No run checks these.                                     *)

\* No channel is closed twice.
ClosedOnce == ~doubleClose
=============================================================================
