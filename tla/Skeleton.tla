------------------------------- MODULE Skeleton ------------------------------
(***************************************************************************)
(* Filling a skeleton of headers (the header half of                        *)
(* eth/downloader/queue.go, with fillHeaderSkeleton and fetchParts): each   *)
(* batch between two skeleton headers is fetched from some peer, and what   *)
(* is complete is forwarded to the header processor in order, as early as   *)
(* its channel has room.                                                    *)
(*                                                                         *)
(* A batch is a number; an answer is the batch asked for or another one,    *)
(* and links up with the skeleton or not.                                   *)
(***************************************************************************)
EXTENDS Integers, Sequences, FiniteSets, SequencesExt, FiniteSetsExt

CONSTANTS
  Peers,
  Size,        \* batches of a skeleton
  Rounds       \* skeletons fetched

\* A skeleton that is scheduled is not empty.
ASSUME SizeIsPositive == Size \in Nat \ {0}

VARIABLES
  state,       \* "idle" | "filling" | "rest" (of a round to be sent) | "failed"
  from,        \* first batch of the round
  headerTaskPool, headerTaskQueue, headerPeerMiss, headerPendPool,
  headerResults,           \* batches filled in
  headerProced,            \* batches of the round forwarded so far
  headerContCh, finished,  \* the signal that all is there, sent and received
  headerProcCh,            \* the processor's channel, of capacity one
  forwarded,               \* history: all batches sent on it
  peers, busy, net         \* registered peers, those not idle, and peer -> requests unanswered

headerVars == <<from, headerTaskPool, headerTaskQueue, headerPeerMiss, headerPendPool, headerResults,
               headerProced, headerContCh>>
skeletonVars == <<state, headerVars, finished, headerProcCh, forwarded, peers, busy, net>>

none == 0        \* batches are numbered from 1

SkeletonInit ==
  /\ state = "idle" /\ from = 1 - Size
  /\ headerTaskPool = {} /\ headerTaskQueue = <<>> /\ headerPeerMiss = [p \in Peers |-> {}]
  /\ headerPendPool = [p \in Peers |-> none] /\ headerResults = {} /\ headerProced = 0
  /\ headerContCh = 0 /\ finished = FALSE /\ headerProcCh = <<>> /\ forwarded = <<>>
  /\ peers = Peers /\ busy = {} /\ net = [p \in Peers |-> {}]

Batches == from..(from + Size - 1)
InFlight == \E p \in Peers : headerPendPool[p] # none

ScheduleSkeleton ==
  /\ state = "idle" /\ from + Size <= 1 + (Rounds - 1) * Size /\ peers # {}
  /\ state' = "filling" /\ from' = from + Size
  /\ headerTaskPool' = from'..(from' + Size - 1)
  /\ headerTaskQueue' = [i \in 1..Size |-> from' + i - 1]
  /\ headerPeerMiss' = [p \in Peers |-> {}]
  /\ headerResults' = {} /\ headerProced' = 0 /\ headerContCh' = 0 /\ finished' = FALSE
  /\ UNCHANGED <<headerPendPool, headerProcCh, forwarded, peers, busy, net>>

\* Batches a peer may be asked for, as their places in the queue
Askable(p) == {i \in DOMAIN headerTaskQueue : headerTaskQueue[i] \notin headerPeerMiss[p]}

ReserveHeaders(p) ==
  /\ state = "filling" /\ p \in peers /\ p \notin busy /\ headerPendPool[p] = none /\ Askable(p) # {}
  /\ LET i == Min(Askable(p)) b == headerTaskQueue[i]
     IN  /\ headerTaskQueue' = RemoveAt(headerTaskQueue, i)
         /\ headerPendPool' = [headerPendPool EXCEPT ![p] = b]
         /\ net' = [net EXCEPT ![p] = @ \cup {b}]
  /\ busy' = busy \cup {p}
  /\ UNCHANGED <<state, from, headerTaskPool, headerPeerMiss, headerResults, headerProced, headerContCh,
                 finished, headerProcCh, forwarded, peers>>

\* Slip: a gap does not end the count.
ReadyAny(results) == Cardinality({b \in results : b >= from + headerProced})

\* How many batches follow those forwarded without a gap
Ready(results) ==
  Max({n \in 0..(Size - headerProced) : \A c \in 1..n : from + headerProced + c - 1 \in results})

\* The next n batches that were not forwarded
Following(n) == [i \in 1..n |-> from + headerProced + i - 1]

\* Slip: the batch is not put back.
PutBackNone(b) == headerTaskQueue

\* The task queue serves the lowest batch first.
PutBack(b) ==
  LET behind == {i \in DOMAIN headerTaskQueue : headerTaskQueue[i] >= b}
  IN  InsertAt(headerTaskQueue, Min(behind \cup {Len(headerTaskQueue) + 1}), b)

\* A good answer to the pending request
Fill(b) ==
  LET ready == Ready(headerResults \cup {b})
      send  == ready > 0 /\ headerProcCh = <<>>
  IN  /\ headerResults' = headerResults \cup {b}
      /\ headerTaskPool' = headerTaskPool \ {b}
      /\ headerProcCh' = IF send THEN Following(ready) ELSE headerProcCh
      /\ forwarded' = IF send THEN forwarded \o Following(ready) ELSE forwarded
      /\ headerProced' = IF send THEN headerProced + ready ELSE headerProced
      /\ headerContCh' = IF headerTaskPool' = {} THEN headerContCh + 1 ELSE headerContCh
      /\ UNCHANGED <<headerTaskQueue, headerPeerMiss>>

\* DeliverHeaders: p answers for batch c, and the headers link up or not.
DeliverHeaders(p, c, links) ==
  /\ state = "filling" /\ p \in peers /\ c \in net[p]
  /\ net' = [net EXCEPT ![p] = @ \ {c}] /\ busy' = busy \ {p}
  /\ LET b == headerPendPool[p]
     IN  /\ headerPendPool' = [headerPendPool EXCEPT ![p] = none]
         /\ CASE b = none ->
                   UNCHANGED <<headerTaskPool, headerTaskQueue, headerPeerMiss, headerResults,
                               headerProced, headerContCh, headerProcCh, forwarded>>
              [] b # none /\ links /\ c = b -> Fill(b)
              [] OTHER ->
                   /\ headerPeerMiss' = [headerPeerMiss EXCEPT ![p] = @ \cup {b}]
                   /\ headerTaskQueue' = PutBack(b)
                   /\ UNCHANGED <<headerTaskPool, headerResults, headerProced, headerContCh, headerProcCh,
                                  forwarded>>
  /\ UNCHANGED <<state, from, finished, peers>>

\* ExpireHeaders; the peer is dropped.
ExpireHeaders(p) ==
  /\ state = "filling" /\ headerPendPool[p] # none
  /\ headerTaskQueue' = PutBack(headerPendPool[p])
  /\ headerPendPool' = [headerPendPool EXCEPT ![p] = none]
  /\ peers' = peers \ {p} /\ busy' = busy \ {p}
  /\ UNCHANGED <<state, from, headerTaskPool, headerPeerMiss, headerResults, headerProced, headerContCh,
                 finished, headerProcCh, forwarded, net>>

\* The peer disconnects; Revoke leaves its header request.
Unregister(p) ==
  /\ p \in peers /\ peers' = peers \ {p} /\ busy' = busy \ {p}
  /\ UNCHANGED <<state, headerVars, finished, headerProcCh, forwarded, net>>

\* case cont := <-wakeCh
Wake ==
  /\ state = "filling" /\ headerContCh > 0 /\ headerContCh' = headerContCh - 1 /\ finished' = TRUE
  /\ UNCHANGED <<state, from, headerTaskPool, headerTaskQueue, headerPeerMiss, headerPendPool,
                 headerResults, headerProced, headerProcCh, forwarded, peers, busy, net>>

FillDone == headerTaskQueue = <<>> /\ ~InFlight /\ finished

\* fetchParts returns; RetrieveHeaders.
RetrieveHeaders ==
  /\ state = "filling" /\ FillDone /\ peers # {}
  /\ state' = "rest"
  /\ UNCHANGED <<headerVars, finished, headerProcCh, forwarded, peers, busy, net>>

\* fetchHeaders sends what was not forwarded, and waits for the channel to have room.
SendRest ==
  LET rest == Following(Size - headerProced)
  IN  /\ state = "rest" /\ state' = "idle"
      /\ IF rest = <<>> THEN UNCHANGED <<headerProcCh, forwarded>>
         ELSE headerProcCh = <<>> /\ headerProcCh' = rest /\ forwarded' = forwarded \o rest
      /\ UNCHANGED <<headerVars, finished, peers, busy, net>>

\* No peer is left, or none can be asked for what is missing.
GiveUp ==
  /\ state = "filling"
  /\ \/ peers = {}
     \/ /\ headerTaskQueue # <<>> /\ ~InFlight /\ busy = {}
        /\ \A p \in peers : Askable(p) = {}
  /\ state' = "failed"
  /\ UNCHANGED <<headerVars, finished, headerProcCh, forwarded, peers, busy, net>>

\* processHeaders takes a list.
Process ==
  /\ headerProcCh # <<>> /\ headerProcCh' = <<>>
  /\ UNCHANGED <<state, headerVars, finished, forwarded, peers, busy, net>>

Step ==
  \/ Wake \/ RetrieveHeaders \/ SendRest \/ GiveUp \/ Process
  \/ \E p \in Peers : ReserveHeaders(p) \/ ExpireHeaders(p)

SkeletonNext ==
  \/ ScheduleSkeleton \/ Step
  \/ \E p \in Peers : \/ Unregister(p)
                      \/ \E c \in net[p], links \in BOOLEAN : DeliverHeaders(p, c, links)

\* The loop of fetchParts and the header processor run, and requests expire.
SkeletonSpec == SkeletonInit /\ [][SkeletonNext]_skeletonVars /\ WF_skeletonVars(Step)

-----------------------------------------------------------------------------
(* Properties                                                               *)

\* While a skeleton is filled, a batch waits, is asked of one peer, or is there.
BatchInOnePlace ==
  state = "filling" => \A b \in Batches :
    Cardinality({i \in DOMAIN headerTaskQueue : headerTaskQueue[i] = b}) +
    Cardinality({p \in Peers : headerPendPool[p] = b}) = IF b \in headerResults THEN 0 ELSE 1

\* A round that ends well is complete.
RoundIsComplete == state = "rest" => headerResults = Batches

\* What was forwarded early was filled in: none of it was a gap.
ForwardedIsThere == \A k \in 1..headerProced : from + k - 1 \in headerResults

\* The processor gets every batch once and in order, over all rounds, however the
\* answers, the early forwarding and the rest of each round interleave, and no gap in
\* place of one; for each batch waits, is asked of one peer or is there, and a round
\* that ends well is complete.
ForwardedInOrder ==
  /\ forwarded = [i \in 1..Len(forwarded) |-> i]
  /\ ForwardedIsThere /\ BatchInOnePlace /\ RoundIsComplete

\* Filling ends, with all headers or with an error.
FillEnds == state = "filling" ~> state # "filling"

-----------------------------------------------------------------------------
(* What comments of the code say and the code does not keep: the README has  *)
(* the behaviours.  No run checks these.                                     *)

\* A peer that is gone has no request pending.
GoneHasNothing == \A p \in Peers \ peers : headerPendPool[p] = none
=============================================================================
