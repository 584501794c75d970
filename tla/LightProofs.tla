----------------------------- MODULE LightProofs -----------------------------
(***************************************************************************)
(* The light client's requests, for every set of requests and peers, every  *)
(* relation between them, every capacity and any number of attempts.        *)
(*                                                                         *)
(* Distributor: that no wake-up is lost needs a third fact besides the two  *)
(* it speaks of: when the loop goes to sleep without a timer nobody can     *)
(* serve the first request, and such a request was given up before, so that *)
(* the queue is empty.  That the oldest request goes first rests on the     *)
(* order of the queue, through insertions in the middle and removals.       *)
(*                                                                         *)
(* Retriever: no two attempts wait for the same peer, because a peer stays  *)
(* entered until the deferred function of its attempt ran, and the result   *)
(* of a retrieval never changes.                                            *)
(*                                                                         *)
(* ClientManager: the loop of update is a recursive function, about which   *)
(* is proved that it ends and what no turn of it changes.  The counters are *)
(* right because a client is only served while its handler is at work, and  *)
(* the handler stops it once.                                               *)
(***************************************************************************)
EXTENDS Distributor, Retriever, ClientManager, SequenceTheorems, FiniteSetTheorems, WellFoundedInduction,
        NaturalsInduction, TLAPS

-----------------------------------------------------------------------------
(* Operators on the queue.                                                  *)

\* A non-empty set of numbers has the minimum that Min chooses.
LEMMA MinIsLeast ==
  ASSUME NEW S \in SUBSET Nat, S # {}
  PROVE  Min(S) \in S /\ \A y \in S : Min(S) <= y
<1> DEFINE Less == {ss \in Nat \X Nat : ss[1] < ss[2]}
<1>1. OpToRel(<, Nat) = Less
  BY Zenon DEF OpToRel
<1>2. \E x \in S : \A y \in S : ~(<<y, x>> \in OpToRel(<, Nat))
  BY NatLessThanWellFounded, WFMin, Zenon
<1>3. PICK x \in S : \A y \in S : ~(<<y, x>> \in Less)
  BY <1>1, <1>2, Zenon
<1>4. ASSUME NEW y \in S PROVE x <= y
  <2>1. <<y, x>> \in Nat \X Nat /\ <<y, x>>[1] = y /\ <<y, x>>[2] = x
    OBVIOUS
  <2>2. ~(y < x)
    BY <1>3, <2>1, Zenon
  <2> QED BY <2>2
<1> QED BY <1>4 DEF Min

\* InsertAt moves what is behind by one place.
LEMMA InsertAtProperties ==
  ASSUME NEW q \in Seq(Reqs), NEW e \in Reqs, NEW k \in 1..(Len(q) + 1)
  PROVE  /\ InsertAt(q, k, e) \in Seq(Reqs)
         /\ Len(InsertAt(q, k, e)) = Len(q) + 1
         /\ \A i \in 1..(k - 1) : InsertAt(q, k, e)[i] = q[i]
         /\ InsertAt(q, k, e)[k] = e
         /\ \A i \in (k + 1)..(Len(q) + 1) : InsertAt(q, k, e)[i] = q[i - 1]
<1>1. Len(q) \in Nat /\ \A i \in 1..Len(q) : q[i] \in Reqs
  BY LenProperties, ElementOfSeq
<1> DEFINE l == SubSeq(q, 1, k - 1)
           r == SubSeq(q, k, Len(q))
<1>2. l \in Seq(Reqs) /\ Len(l) = k - 1 /\ \A i \in 1..(k - 1) : l[i] = q[i]
  BY <1>1, SubSeqProperties
<1>3. r \in Seq(Reqs) /\ Len(r) = Len(q) - k + 1 /\ \A i \in 1..(Len(q) - k + 1) : r[i] = q[k + i - 1]
  BY <1>1, SubSeqProperties
<1> HIDE DEF l, r
<1>4. <<e>> \in Seq(Reqs) /\ Len(<<e>>) = 1 /\ <<e>>[1] = e
  OBVIOUS
<1>5. /\ l \o <<e>> \in Seq(Reqs) /\ Len(l \o <<e>>) = k
      /\ \A i \in 1..k : (l \o <<e>>)[i] = IF i <= k - 1 THEN l[i] ELSE <<e>>[i - (k - 1)]
  BY <1>2, <1>4, ConcatProperties
<1>6. /\ (l \o <<e>>) \o r \in Seq(Reqs) /\ Len((l \o <<e>>) \o r) = Len(q) + 1
      /\ \A i \in 1..(Len(q) + 1) : ((l \o <<e>>) \o r)[i] = IF i <= k THEN (l \o <<e>>)[i] ELSE r[i - k]
  <2> DEFINE m == l \o <<e>>
  <2>1. m \in Seq(Reqs) /\ Len(m) = k
    BY <1>5
  <2> HIDE DEF m
  <2>2. /\ m \o r \in Seq(Reqs) /\ Len(m \o r) = Len(m) + Len(r)
        /\ \A i \in 1..(Len(m) + Len(r)) : (m \o r)[i] = IF i <= Len(m) THEN m[i] ELSE r[i - Len(m)]
    BY <1>3, <2>1, ConcatProperties
  <2>3. Len(m) + Len(r) = Len(q) + 1
    BY <1>1, <1>3, <2>1
  <2> QED BY <2>1, <2>2, <2>3 DEF m
<1>7. InsertAt(q, k, e) = (l \o <<e>>) \o r
  BY DEF InsertAt, l, r
<1>8. \A i \in 1..(k - 1) : ((l \o <<e>>) \o r)[i] = q[i]
  <2> SUFFICES ASSUME NEW i \in 1..(k - 1) PROVE ((l \o <<e>>) \o r)[i] = q[i]
    OBVIOUS
  <2>1. i \in 1..k /\ i \in 1..(Len(q) + 1) /\ i <= k /\ i <= k - 1
    BY <1>1
  <2>2. (l \o <<e>>)[i] = l[i]
    BY <1>5, <2>1
  <2> QED BY <1>2, <1>6, <2>1, <2>2
<1>9. ((l \o <<e>>) \o r)[k] = e
  BY <1>1, <1>4, <1>5, <1>6
<1>10. ASSUME NEW i \in (k + 1)..(Len(q) + 1)
       PROVE  ((l \o <<e>>) \o r)[i] = q[i - 1]
  <2>1. i - k \in 1..(Len(q) - k + 1) /\ k + (i - k) - 1 = i - 1 /\ i \in 1..(Len(q) + 1) /\ ~(i <= k)
    BY <1>1
  <2> QED BY <1>3, <1>6, <2>1
<1> QED BY <1>6, <1>7, <1>8, <1>9, <1>10

\* RemoveAt moves them back.
LEMMA RemoveAtProperties ==
  ASSUME NEW q \in Seq(Reqs), NEW k \in 1..Len(q)
  PROVE  /\ RemoveAt(q, k) \in Seq(Reqs)
         /\ Len(RemoveAt(q, k)) = Len(q) - 1
         /\ \A i \in 1..(Len(q) - 1) : RemoveAt(q, k)[i] = IF i < k THEN q[i] ELSE q[i + 1]
<1>1. Len(q) \in Nat /\ \A i \in 1..Len(q) : q[i] \in Reqs
  BY LenProperties, ElementOfSeq
<1> DEFINE l == SubSeq(q, 1, k - 1)
           r == SubSeq(q, k + 1, Len(q))
<1>2. l \in Seq(Reqs) /\ Len(l) = k - 1 /\ \A i \in 1..(k - 1) : l[i] = q[i]
  BY <1>1, SubSeqProperties
<1>3. r \in Seq(Reqs) /\ Len(r) = Len(q) - k /\ \A i \in 1..(Len(q) - k) : r[i] = q[k + i]
  <2>1. \A i \in (k + 1)..Len(q) : q[i] \in Reqs
    BY <1>1
  <2>2. /\ r \in Seq(Reqs) /\ Len(r) = IF k + 1 <= Len(q) THEN Len(q) - (k + 1) + 1 ELSE 0
        /\ \A i \in 1..(Len(q) - (k + 1) + 1) : r[i] = q[(k + 1) + i - 1]
    BY <1>1, <2>1, SubSeqProperties
  <2> QED BY <1>1, <2>2
<1> HIDE DEF l, r
<1>4. /\ l \o r \in Seq(Reqs) /\ Len(l \o r) = Len(q) - 1
      /\ \A i \in 1..(Len(q) - 1) : (l \o r)[i] = IF i <= k - 1 THEN l[i] ELSE r[i - (k - 1)]
  <2>1. k \in Int /\ (k - 1) + (Len(q) - k) = Len(q) - 1
    BY <1>1
  <2>2. /\ l \o r \in Seq(Reqs) /\ Len(l \o r) = Len(l) + Len(r)
        /\ \A i \in 1..(Len(l) + Len(r)) : (l \o r)[i] = IF i <= Len(l) THEN l[i] ELSE r[i - Len(l)]
    BY <1>2, <1>3, ConcatProperties
  <2>3. Len(l) + Len(r) = Len(q) - 1
    BY <1>2, <1>3, <2>1
  <2> QED BY <1>2, <2>2, <2>3
<1>5. ASSUME NEW i \in 1..(Len(q) - 1)
      PROVE  (l \o r)[i] = IF i < k THEN q[i] ELSE q[i + 1]
  <2>1. CASE i < k
    <3>1. i \in 1..(k - 1) /\ i <= k - 1
      BY <1>1, <2>1
    <3> QED BY <1>2, <1>4, <2>1, <3>1
  <2>2. CASE i >= k
    <3>1. i - (k - 1) \in 1..(Len(q) - k) /\ k + (i - (k - 1)) = i + 1 /\ ~(i <= k - 1) /\ ~(i < k)
      BY <1>1, <2>2
    <3>2. (l \o r)[i] = r[i - (k - 1)]
      BY <1>4, <3>1
    <3>3. r[i - (k - 1)] = q[i + 1]
      BY <1>3, <3>1
    <3> QED BY <3>1, <3>2, <3>3
  <2>3. i < k \/ i >= k
    BY <1>1
  <2> QED BY <2>1, <2>2, <2>3, Zenon
<1> QED BY <1>4, <1>5 DEF RemoveAt, l, r

\* Inserting before the first request with a higher order keeps the queue a sequence.
LEMMA PlaceIsSeq ==
  ASSUME NEW q \in Seq(Reqs), NEW r \in Reqs, NEW order
  PROVE  Place(q, r, order) \in Seq(Reqs)
  <1> DEFINE before == {k \in DOMAIN q : reqOrder[q[k]] >= order}
  <1>1. CASE before = {}
    BY <1>1 DEF Place
  <1>2. CASE before # {}
    <2> DEFINE m == Min(before)
    <2>0. DOMAIN q = 1..Len(q) /\ Len(q) \in Nat
      BY LenProperties
    <2>a. before \in SUBSET Nat /\ before \subseteq 1..Len(q)
      BY <2>0
    <2> HIDE DEF before
    <2>1. m \in 1..Len(q)
      BY <1>2, <2>a, MinIsLeast, Zenon
    <2> HIDE DEF m
    <2>2. SubSeq(q, 1, m - 1) \in Seq(Reqs) /\ SubSeq(q, m, Len(q)) \in Seq(Reqs)
      BY <2>0, <2>1, SubSeqProperties
    <2>3. InsertAt(q, m, r) \in Seq(Reqs)
      BY <2>2 DEF InsertAt
    <2> QED BY <1>2, <2>3 DEF Place, m, before
  <1> QED BY <1>1, <1>2

\* So does taking a request out.
LEMMA RemoveIsSeq == ASSUME NEW q \in Seq(Reqs), NEW r PROVE remove(q, r) \in Seq(Reqs)
  <1>1. CASE r \in ToSet(q)
    <2> DEFINE i == CHOOSE k \in DOMAIN q : q[k] = r
    <2>0. DOMAIN q = 1..Len(q) /\ Len(q) \in Nat
      BY LenProperties
    <2>1. i \in 1..Len(q)
      BY <1>1, <2>0 DEF ToSet
    <2> HIDE DEF i
    <2>2. SubSeq(q, 1, i - 1) \in Seq(Reqs) /\ SubSeq(q, i + 1, Len(q)) \in Seq(Reqs)
      BY <2>0, <2>1, SubSeqProperties
    <2>3. RemoveAt(q, i) \in Seq(Reqs)
      BY <2>2 DEF RemoveAt
    <2> QED BY <1>1, <2>3 DEF remove, i
  <1>2. CASE r \notin ToSet(q)
    BY <1>2 DEF remove
  <1> QED BY <1>1, <1>2

\* nextRequest takes away what it gives up, a part at the front.
LEMMA GiveUpIsSeq ==
  ASSUME reqQueue \in Seq(Reqs)
  PROVE  SubSeq(reqQueue, Cardinality(Hopeless) + 1, Len(reqQueue)) \in Seq(Reqs)
  <1>1. DOMAIN reqQueue = 1..Len(reqQueue) /\ Len(reqQueue) \in Nat
    BY LenProperties
  <1>2. IsFiniteSet(1..Len(reqQueue)) /\ Hopeless \subseteq 1..Len(reqQueue)
    BY <1>1, FS_Interval DEF Hopeless
  <1>3. Cardinality(Hopeless) \in Nat
    BY <1>2, FS_Subset, FS_CardinalityType
  <1> QED BY <1>1, <1>3, SubSeqProperties

\* If the first request of a non-empty queue is not hopeless, some peer is asked for
\* a request.
LEMMA SomebodyIsAsked ==
  ASSUME reqQueue \in Seq(Reqs), reqQueue # <<>>, Hopeless = {}
  PROVE  \E p \in Peers : FirstFor(p) # 0
  <1>1. DOMAIN reqQueue = 1..Len(reqQueue) /\ Len(reqQueue) \in Nat /\ 1 \in DOMAIN reqQueue
    BY LenProperties, EmptySeq
  <1>2. PICK p \in Peers : Usable(reqQueue[1], p)
    BY <1>1 DEF Hopeless
  <1> DEFINE ks == {k \in DOMAIN reqQueue : Usable(reqQueue[k], p)}
  <1>3. 1 \in ks /\ ks \in SUBSET Nat /\ 0 \notin ks
    BY <1>1, <1>2
  <1> HIDE DEF ks
  <1>4. Min(ks) # 0 /\ ks # {}
    BY <1>3, MinIsLeast, Zenon
  <1>5. FirstFor(p) # 0
    BY <1>4 DEF FirstFor, ks
  <1> QED BY <1>5

-----------------------------------------------------------------------------
(* Wake-ups.                                                                *)

\* The strengthening: the queue is a sequence, counters are numbers, and while the
\* loop works it has taken the only wake-up.
WakeInv ==
  /\ reqQueue \in Seq(Reqs)
  /\ loopChn \in Nat /\ timers \in Nat
  /\ loop = "working" => ~loopNextSent
  /\ loop = "woken" => loopNextSent /\ loopChn + timers = 0
  /\ loop # "woken" /\ loopNextSent => loopChn + timers = 1
  /\ ~loopNextSent => loopChn + timers = 0
  /\ NoLostWakeUp

LEMMA WakeInvInit == DistributorInit => WakeInv
  <1> SUFFICES ASSUME DistributorInit PROVE WakeInv
    OBVIOUS
  <1>1. ~loopNextSent
    BY Zenon DEF DistributorInit
  <1> QED BY <1>1 DEF DistributorInit, WakeInv, NoLostWakeUp

LEMMA WakeInvNext == WakeInv /\ [DistributorNext]_distributorVars => WakeInv'
  <1> SUFFICES ASSUME WakeInv, [DistributorNext]_distributorVars PROVE WakeInv'
    OBVIOUS
  <1> USE DEF WakeInv, NoLostWakeUp
  <1>1. ASSUME NEW r \in Reqs, queue(r) PROVE WakeInv'
    <2>1. \E order : reqQueue' = Place(reqQueue, r, order)
      BY <1>1 DEF queue
    <2>2. reqQueue' \in Seq(Reqs)
      BY <2>1, PlaceIsSeq
    <2>a. loopNextSent' /\ UNCHANGED timers
          /\ loopChn' = IF ~loopNextSent THEN loopChn + 1 ELSE loopChn
      BY <1>1, Zenon DEF queue
    <2>4. loop' # "working" /\ UNCHANGED loop
      BY <1>1 DEF queue
    <2>3. /\ loopChn' \in Nat /\ timers' \in Nat
          /\ loopChn' + timers' = IF loop = "woken" THEN 0 ELSE 1
      BY <2>a
    <2> QED BY <2>2, <2>a, <2>3, <2>4
  <1>2. ASSUME NEW r \in Reqs, cancel(r) PROVE WakeInv'
    <2>1. reqQueue' \in Seq(Reqs)
      BY <1>2, RemoveIsSeq DEF cancel
    <2>2. UNCHANGED <<loopNextSent, loopChn, timers, loop>> /\ (reqQueue' # <<>> => reqQueue # <<>>)
      BY <1>2 DEF cancel, loopVars, remove, ToSet
    <2> QED BY <2>1, <2>2
  <1>3. CASE Wake
    <2>1. ~loopNextSent'
      BY <1>3, Zenon DEF Wake
    <2> QED BY <1>3, <2>1 DEF Wake
  <1>11. CASE ReceiveSignal
    <2>1. loopNextSent /\ loopChn + timers = 1
      BY <1>11 DEF ReceiveSignal
    <2> QED BY <1>11, <2>1 DEF ReceiveSignal
  <1>4. CASE GiveUp
    BY <1>4, GiveUpIsSeq DEF GiveUp, loopVars
  <1>5. ASSUME NEW r \in Reqs, NEW p \in Peers, NEW waits \in BOOLEAN, Assign(r, p, waits) PROVE WakeInv'
    BY <1>5, RemoveIsSeq DEF Assign, loopVars
  <1>6. CASE Sleep
    <2>1. reqQueue # <<>> => \E p \in Peers : FirstFor(p) # 0
      BY <1>6, SomebodyIsAsked DEF Sleep
    <2> DEFINE wait == \E p \in Peers : FirstFor(p) # 0
    <2>2. (loopNextSent' <=> loopNextSent \/ wait) /\ timers' = IF wait THEN timers + 1 ELSE timers
      BY <1>6, Zenon DEF Sleep
    <2>3. UNCHANGED <<reqQueue, loopChn>> /\ loop' = "idle" /\ ~loopNextSent
      BY <1>6 DEF Sleep
    <2> HIDE DEF wait
    <2>4. reqQueue # <<>> => wait
      BY <2>1 DEF wait
    <2> QED BY <2>2, <2>3, <2>4
  <1>7. CASE StopLoop
    BY <1>7 DEF StopLoop
  <1>8. CASE TimerFires
    BY <1>8 DEF TimerFires
  <1>9. ASSUME NEW p \in Peers,
               registerPeer(p) \/ unregisterPeer(p) \/ Recharge(p) \/ StartNext(p) \/ Finish(p)
        PROVE  WakeInv'
    BY <1>9 DEF registerPeer, unregisterPeer, Recharge, StartNext, Finish, loopVars
  <1>10. CASE UNCHANGED distributorVars
    BY <1>10 DEF distributorVars
  <1> QED BY <1>1, <1>2, <1>3, <1>4, <1>5, <1>6, <1>7, <1>8, <1>9, <1>10, <1>11
         DEF DistributorNext, DistributorLoopStep

-----------------------------------------------------------------------------
(* The order of the queue.                                                  *)

Sorted(q, order) == \A j, k \in 1..Len(q) : j < k => order[q[j]] < order[q[k]]

\* Place inserts the request behind those with a lower order.
LEMMA PlaceProperties ==
  ASSUME NEW q \in Seq(Reqs), NEW r \in Reqs, NEW order \in Nat, reqOrder \in [Reqs -> Nat],
         Sorted(q, reqOrder)
  PROVE  \E m \in 1..(Len(q) + 1) :
           /\ Place(q, r, order) \in Seq(Reqs) /\ Len(Place(q, r, order)) = Len(q) + 1
           /\ \A i \in 1..(m - 1) : Place(q, r, order)[i] = q[i] /\ reqOrder[q[i]] < order
           /\ Place(q, r, order)[m] = r
           /\ \A i \in (m + 1)..(Len(q) + 1) : Place(q, r, order)[i] = q[i - 1]
           /\ \A i \in m..Len(q) : reqOrder[q[i]] >= order
<1> DEFINE before == {k \in DOMAIN q : reqOrder[q[k]] >= order}
<1>0. DOMAIN q = 1..Len(q) /\ Len(q) \in Nat /\ \A i \in 1..Len(q) : q[i] \in Reqs /\ reqOrder[q[i]] \in Nat
  BY LenProperties, ElementOfSeq
<1>1. CASE before = {}
  <2>1. Place(q, r, order) = Append(q, r)
    BY <1>1 DEF Place
  <2>2. \A i \in 1..Len(q) : reqOrder[q[i]] < order
    BY <1>0, <1>1
  <2>3. /\ Append(q, r) \in Seq(Reqs) /\ Len(Append(q, r)) = Len(q) + 1
        /\ \A i \in 1..Len(q) : Append(q, r)[i] = q[i]
        /\ Append(q, r)[Len(q) + 1] = r
    BY <1>0, AppendProperties
  <2> DEFINE m == Len(q) + 1
  <2>4. m \in 1..(Len(q) + 1) /\ 1..(m - 1) = 1..Len(q) /\ (m + 1)..(Len(q) + 1) = {} /\ m..Len(q) = {}
    BY <1>0
  <2> QED BY <2>1, <2>2, <2>3, <2>4
<1>2. CASE before # {}
  <2> DEFINE m == Min(before)
  <2>1. before \in SUBSET Nat
    BY <1>0
  <2>2. m \in before /\ \A k \in before : m <= k
    <3> HIDE DEF before
    <3> QED BY <1>2, <2>1, MinIsLeast, Zenon
  <2>3. m \in 1..Len(q) /\ m \in 1..(Len(q) + 1) /\ reqOrder[q[m]] >= order
    BY <1>0, <2>2
  <2>4. ASSUME NEW i \in 1..(m - 1) PROVE reqOrder[q[i]] < order
    <3>1. i \in DOMAIN q /\ i \in 1..Len(q) /\ ~(m <= i)
      BY <1>0, <2>3
    <3>2. i \notin before
      BY <2>2, <3>1
    <3> QED BY <1>0, <3>1, <3>2
  <2>5. Place(q, r, order) = InsertAt(q, m, r)
    BY <1>2 DEF Place
  <2> HIDE DEF m, before
  <2>6. ASSUME NEW i \in m..Len(q) PROVE reqOrder[q[i]] >= order
    <3>1. i \in 1..Len(q) /\ m \in 1..Len(q) /\ (i = m \/ m < i)
      BY <1>0, <2>3
    <3>2. m < i => reqOrder[q[m]] < reqOrder[q[i]]
      BY <3>1 DEF Sorted
    <3> QED BY <1>0, <2>3, <3>1, <3>2
  <2>7. /\ InsertAt(q, m, r) \in Seq(Reqs)
        /\ Len(InsertAt(q, m, r)) = Len(q) + 1
        /\ \A i \in 1..(m - 1) : InsertAt(q, m, r)[i] = q[i]
        /\ InsertAt(q, m, r)[m] = r
        /\ \A i \in (m + 1)..(Len(q) + 1) : InsertAt(q, m, r)[i] = q[i - 1]
    BY <2>3, InsertAtProperties, ZenonT(60)
  <2> QED BY <2>3, <2>4, <2>5, <2>6, <2>7
<1> QED BY <1>1, <1>2

\* A request that is placed according to its order keeps the queue sorted.
LEMMA PlaceKeepsOrder ==
  ASSUME NEW q \in Seq(Reqs), NEW r \in Reqs, NEW order \in Nat, reqOrder \in [Reqs -> Nat],
         Sorted(q, reqOrder), \A i \in 1..Len(q) : q[i] # r /\ reqOrder[q[i]] # order,
         NEW new, new = [reqOrder EXCEPT ![r] = order]
  PROVE  /\ Place(q, r, order) \in Seq(Reqs)
         /\ Sorted(Place(q, r, order), new)
         /\ \A s : s \in ToSet(Place(q, r, order)) <=> s = r \/ s \in ToSet(q)
<1> DEFINE t == Place(q, r, order)
<1>1. PICK m \in 1..(Len(q) + 1) :
           /\ t \in Seq(Reqs) /\ Len(t) = Len(q) + 1
           /\ \A i \in 1..(m - 1) : t[i] = q[i] /\ reqOrder[q[i]] < order
           /\ t[m] = r
           /\ \A i \in (m + 1)..(Len(q) + 1) : t[i] = q[i - 1]
           /\ \A i \in m..Len(q) : reqOrder[q[i]] >= order
  BY PlaceProperties
<1> HIDE DEF t
<1>2. /\ DOMAIN q = 1..Len(q) /\ Len(q) \in Nat /\ DOMAIN t = 1..Len(t) /\ m \in Nat
      /\ \A i \in 1..Len(q) : q[i] \in Reqs /\ reqOrder[q[i]] \in Nat /\ new[q[i]] = reqOrder[q[i]]
      /\ new[r] = order
  BY <1>1, LenProperties, ElementOfSeq, SMTT(60)
\* Where each place of the new queue comes from
<1>3. \A i \in 1..Len(t) : \/ i \in 1..(m - 1) /\ i \in 1..Len(q) /\ i < m
                           \/ i = m
                           \/ i \in (m + 1)..(Len(q) + 1) /\ i - 1 \in 1..Len(q) /\ i - 1 \in m..Len(q) /\ i > m
  BY <1>1, <1>2
<1>4. Sorted(t, new)
  <2> SUFFICES ASSUME NEW j \in 1..Len(t), NEW k \in 1..Len(t), j < k PROVE new[t[j]] < new[t[k]]
    BY DEF Sorted
  <2>1. CASE k \in 1..(m - 1)
    <3>1. j \in 1..(m - 1) /\ j \in 1..Len(q) /\ k \in 1..Len(q)
      BY <1>1, <1>2, <2>1
    <3>2. t[j] = q[j] /\ t[k] = q[k] /\ reqOrder[q[j]] < reqOrder[q[k]]
      BY <1>1, <2>1, <3>1 DEF Sorted
    <3> QED BY <1>2, <3>1, <3>2
  <2>2. CASE k = m
    <3>1. j \in 1..(m - 1) /\ j \in 1..Len(q)
      BY <1>1, <1>2, <2>2
    <3>2. t[j] = q[j] /\ reqOrder[q[j]] < order /\ t[k] = r
      BY <1>1, <2>2, <3>1
    <3> QED BY <1>2, <3>1, <3>2
  <2>3. CASE k \in (m + 1)..(Len(q) + 1) /\ k - 1 \in 1..Len(q) /\ k - 1 \in m..Len(q)
    <3>0. t[k] = q[k - 1]
      BY <1>1, <2>3
    <3>1. CASE j \in 1..(m - 1) /\ j \in 1..Len(q)
      <4>1. t[j] = q[j] /\ j < k - 1
        BY <1>1, <1>2, <2>3, <3>1
      <4> QED BY <1>2, <2>3, <3>0, <3>1, <4>1 DEF Sorted
    <3>2. CASE j = m
      <4>1. reqOrder[q[k - 1]] >= order /\ reqOrder[q[k - 1]] # order /\ t[j] = r
        BY <1>1, <2>3, <3>2
      <4> QED BY <1>2, <2>3, <3>0, <4>1
    <3>3. CASE j \in (m + 1)..(Len(q) + 1) /\ j - 1 \in 1..Len(q)
      <4>1. t[j] = q[j - 1] /\ j - 1 < k - 1
        BY <1>1, <1>2, <2>3, <3>3
      <4> QED BY <1>2, <2>3, <3>0, <3>3, <4>1 DEF Sorted
    <3> QED BY <1>3, <3>1, <3>2, <3>3, Zenon
  <2> QED BY <1>3, <2>1, <2>2, <2>3, Zenon
<1>5. ASSUME NEW s PROVE s \in ToSet(t) <=> s = r \/ s \in ToSet(q)
  <2>1. ASSUME s \in ToSet(t) PROVE s = r \/ s \in ToSet(q)
    <3>1. PICK i \in 1..Len(t) : t[i] = s
      BY <1>2, <2>1 DEF ToSet
    <3> QED BY <1>1, <1>2, <1>3, <3>1 DEF ToSet
  <2>2. ASSUME s = r PROVE s \in ToSet(t)
    <3>1. m \in 1..Len(t)
      BY <1>1, <1>2
    <3> QED BY <1>1, <1>2, <2>2, <3>1 DEF ToSet
  <2>3. ASSUME s \in ToSet(q) PROVE s \in ToSet(t)
    <3>1. PICK i \in 1..Len(q) : q[i] = s
      BY <1>2, <2>3 DEF ToSet
    <3>2. CASE i < m
      <4>1. i \in 1..(m - 1) /\ i \in 1..Len(t)
        BY <1>1, <1>2, <3>2
      <4> QED BY <1>1, <1>2, <3>1, <4>1 DEF ToSet
    <3>3. CASE i >= m
      <4>1. i + 1 \in (m + 1)..(Len(q) + 1) /\ i + 1 \in 1..Len(t) /\ (i + 1) - 1 = i
        BY <1>1, <1>2, <3>3
      <4>2. t[i + 1] = q[i]
        BY <1>1, <4>1
      <4> QED BY <1>2, <3>1, <4>1, <4>2 DEF ToSet
    <3>4. i < m \/ i >= m
      BY <1>2
    <3> QED BY <3>2, <3>3, <3>4, Zenon
  <2> QED BY <2>1, <2>2, <2>3
<1> QED BY <1>1, <1>4, <1>5 DEF t

\* Taking a request out keeps it sorted, and takes no other out.
LEMMA RemoveKeepsOrder ==
  ASSUME NEW q \in Seq(Reqs), NEW r, reqOrder \in [Reqs -> Nat], Sorted(q, reqOrder)
  PROVE  /\ remove(q, r) \in Seq(Reqs)
         /\ Sorted(remove(q, r), reqOrder)
         /\ \A s : s \in ToSet(remove(q, r)) <=> s # r /\ s \in ToSet(q)
<1>0. DOMAIN q = 1..Len(q) /\ Len(q) \in Nat /\ \A i \in 1..Len(q) : q[i] \in Reqs /\ reqOrder[q[i]] \in Nat
  BY LenProperties, ElementOfSeq
<1>1. CASE r \notin ToSet(q)
  BY <1>1 DEF remove
<1>2. CASE r \in ToSet(q)
  <2> DEFINE m == CHOOSE k \in DOMAIN q : q[k] = r
             t == RemoveAt(q, m)
  <2>1. m \in 1..Len(q) /\ q[m] = r
    BY <1>0, <1>2 DEF ToSet
  <2>2. remove(q, r) = t
    BY <1>2 DEF remove
  <2> HIDE DEF m
  <2>3. /\ t \in Seq(Reqs) /\ Len(t) = Len(q) - 1
        /\ \A i \in 1..(Len(q) - 1) : i < m => t[i] = q[i]
        /\ \A i \in 1..(Len(q) - 1) : i >= m => t[i] = q[i + 1]
    <3>1. /\ t \in Seq(Reqs) /\ Len(t) = Len(q) - 1
          /\ \A i \in 1..(Len(q) - 1) : t[i] = IF i < m THEN q[i] ELSE q[i + 1]
      BY <2>1, RemoveAtProperties
    <3>2. \A i \in 1..(Len(q) - 1) : i >= m => ~(i < m)
      BY <1>0, <2>1
    <3> HIDE DEF t
    <3> QED BY <3>1, <3>2
  <2> HIDE DEF t
  <2>4. DOMAIN t = 1..Len(t)
    BY <2>3, LenProperties
  <2>5. \A i, j \in 1..Len(q) : q[i] = q[j] => i = j
    <3>1. ASSUME NEW i \in 1..Len(q), NEW j \in 1..Len(q), i < j PROVE q[i] # q[j]
      BY <1>0, <3>1 DEF Sorted
    <3>2. ASSUME NEW i \in 1..Len(q), NEW j \in 1..Len(q) PROVE i < j \/ j < i \/ i = j
      BY <1>0
    <3> QED BY <3>1, <3>2, Zenon
  <2>6. Sorted(t, reqOrder)
    <3> SUFFICES ASSUME NEW j \in 1..Len(t), NEW k \in 1..Len(t), j < k
                 PROVE  reqOrder[t[j]] < reqOrder[t[k]]
      BY DEF Sorted
    <3>1. /\ j \in 1..(Len(q) - 1) /\ k \in 1..(Len(q) - 1) /\ j \in 1..Len(q) /\ k \in 1..Len(q)
          /\ j + 1 \in 1..Len(q) /\ k + 1 \in 1..Len(q) /\ j + 1 < k + 1 /\ j < k + 1
      BY <1>0, <2>3
    <3>2. CASE k < m
      <4>1. j < m
        BY <2>1, <3>1, <3>2
      <4> QED BY <2>3, <3>1, <3>2, <4>1 DEF Sorted
    <3>3. CASE k >= m /\ j < m
      BY <2>3, <3>1, <3>3 DEF Sorted
    <3>4. CASE k >= m /\ j >= m
      BY <2>3, <3>1, <3>4 DEF Sorted
    <3>5. k < m \/ (k >= m /\ j < m) \/ (k >= m /\ j >= m)
      BY <2>1
    <3> QED BY <3>2, <3>3, <3>4, <3>5, Zenon
  <2>7. ASSUME NEW s PROVE s \in ToSet(t) <=> s # r /\ s \in ToSet(q)
    <3>1. ASSUME s \in ToSet(t) PROVE s # r /\ s \in ToSet(q)
      <4>1. PICK i \in 1..Len(t) : t[i] = s
        BY <2>4, <3>1 DEF ToSet
      <4>2. i \in 1..(Len(q) - 1) /\ i \in 1..Len(q) /\ i + 1 \in 1..Len(q)
        BY <1>0, <2>3, <4>1
      <4>3. CASE i < m
        <5>1. s = q[i] /\ i # m
          BY <2>1, <2>3, <4>1, <4>2, <4>3, SMTT(60)
        <5>2. q[i] # q[m]
          BY <2>1, <2>5, <4>2, <5>1
        <5> QED BY <1>0, <2>1, <4>2, <5>1, <5>2 DEF ToSet
      <4>4. CASE i >= m
        <5>1. s = q[i + 1] /\ i + 1 # m
          BY <2>1, <2>3, <4>1, <4>2, <4>4, SMTT(60)
        <5>2. q[i + 1] # q[m]
          BY <2>1, <2>5, <4>2, <5>1
        <5> QED BY <1>0, <2>1, <4>2, <5>1, <5>2 DEF ToSet
      <4>5. i < m \/ i >= m
        BY <2>1
      <4> QED BY <4>3, <4>4, <4>5, Zenon
    <3>2. ASSUME s # r, s \in ToSet(q) PROVE s \in ToSet(t)
      <4>1. PICK i \in 1..Len(q) : q[i] = s
        BY <1>0, <3>2 DEF ToSet
      <4>2. i # m
        BY <2>1, <3>2, <4>1
      <4>3. CASE i < m
        <5>1. i \in 1..(Len(q) - 1) /\ i \in 1..Len(t)
          BY <1>0, <2>1, <2>3, <4>3
        <5> QED BY <2>3, <2>4, <4>1, <4>3, <5>1 DEF ToSet
      <4>4. CASE i > m
        <5>1. i - 1 \in 1..(Len(q) - 1) /\ i - 1 \in 1..Len(t) /\ i - 1 >= m /\ (i - 1) + 1 = i
          BY <1>0, <2>1, <2>3, <4>4
        <5>2. t[i - 1] = q[i]
          BY <2>3, <5>1
        <5> QED BY <2>4, <4>1, <5>1, <5>2 DEF ToSet
      <4>5. i < m \/ i > m
        BY <2>1, <4>2
      <4> QED BY <4>3, <4>4, <4>5, Zenon
    <3> QED BY <3>1, <3>2
  <2> QED BY <2>2, <2>3, <2>6, <2>7
<1> QED BY <1>1, <1>2

\* What nextRequest gives up is a part at the front of the queue.
LEMMA HopelessIsPrefix ==
  ASSUME reqQueue \in Seq(Reqs), Hopeless # {}
  PROVE  \E h \in 1..Len(reqQueue) : Hopeless = 1..h /\ Cardinality(Hopeless) = h
<1> DEFINE n == Len(reqQueue)
           left == {k \in 0..n : k \notin Hopeless /\ k # 0}
<1>0. DOMAIN reqQueue = 1..n /\ n \in Nat
  BY LenProperties
<1>1. Hopeless \subseteq 1..n
  BY <1>0 DEF Hopeless
<1>2. ASSUME NEW k \in Hopeless, NEW j \in 1..k PROVE j \in Hopeless
  <2>1. k \in 1..n /\ j \in 1..n /\ \A i \in 1..j : i \in 1..k
    BY <1>0, <1>1
  <2> QED BY <1>0, <2>1 DEF Hopeless
<1>3. \E h \in 1..n : Hopeless = 1..h
  <2>1. CASE left = {}
    <3>1. \A k \in 1..n : k \in 0..n /\ k # 0
      BY <1>0
    <3>2. Hopeless = 1..n /\ 1..n # {}
      BY <1>1, <2>1, <3>1, Zenon
    <3>3. n \in 1..n
      BY <1>0, <3>2
    <3> QED BY <3>2, <3>3, Zenon
  <2>2. CASE left # {}
    <3> DEFINE m == Min(left)
    <3>1. left \in SUBSET Nat
      BY <1>0
    <3>2. m \in left /\ \A y \in left : m <= y
      <4> HIDE DEF left
      <4> QED BY <2>2, <3>1, MinIsLeast
    <3>3. m \in 1..n /\ m \notin Hopeless
      BY <1>0, <3>2
    <3>4. ASSUME NEW k \in 1..n, k < m PROVE k \in Hopeless
      BY <1>0, <3>2, <3>3, <3>4
    <3>5. ASSUME NEW k \in Hopeless PROVE k < m
      <4>1. k \in 1..n /\ (m <= k => m \in 1..k)
        BY <1>1, <3>3
      <4> QED BY <1>2, <3>3, <4>1
    <3>6. PICK x : x \in Hopeless
      OBVIOUS
    <3> HIDE DEF m, left
    <3>7. x \in 1..n /\ x < m /\ m - 1 \in 1..n
      BY <1>0, <1>1, <3>3, <3>5, <3>6
    <3>8. ASSUME NEW k PROVE k \in Hopeless <=> k \in 1..(m - 1)
      <4>1. k \in Hopeless => k \in 1..n /\ k < m
        BY <1>1, <3>5
      <4>2. k \in 1..(m - 1) => k \in 1..n /\ k < m
        BY <1>0, <3>3
      <4>3. k \in 1..n /\ k < m => k \in 1..(m - 1)
        BY <1>0, <3>3
      <4> QED BY <3>4, <4>1, <4>2, <4>3, Zenon
    <3> QED BY <3>7, <3>8
  <2> QED BY <2>1, <2>2
<1>4. PICK h \in 1..n : Hopeless = 1..h
  BY <1>3
<1>5. h \in Nat /\ Cardinality(1..h) = h
  <2>1. h \in Nat /\ 1 \in Int /\ h \in Int /\ ~(1 > h) /\ h - 1 + 1 = h
    BY <1>0, <1>4
  <2> QED BY <2>1, FS_Interval
<1> QED BY <1>4, <1>5

\* What is left is sorted, and holds none of the requests given up.
LEMMA GiveUpKeepsOrder ==
  ASSUME reqQueue \in Seq(Reqs), reqOrder \in [Reqs -> Nat], Sorted(reqQueue, reqOrder), Hopeless # {},
         NEW t, t = SubSeq(reqQueue, Cardinality(Hopeless) + 1, Len(reqQueue))
  PROVE  /\ t \in Seq(Reqs)
         /\ Sorted(t, reqOrder)
         /\ \A s : s \in ToSet(t) <=> s \in ToSet(reqQueue) /\ s \notin {reqQueue[k] : k \in Hopeless}
<1> DEFINE n == Len(reqQueue)
<1>0. /\ DOMAIN reqQueue = 1..n /\ n \in Nat
      /\ \A i \in 1..n : reqQueue[i] \in Reqs /\ reqOrder[reqQueue[i]] \in Nat
  BY LenProperties, ElementOfSeq
<1>1. PICK h \in 1..n : Hopeless = 1..h /\ Cardinality(Hopeless) = h
  BY HopelessIsPrefix
<1>2. h \in Nat /\ 1 <= h /\ h <= n
  BY <1>0, <1>1
<1>3. /\ t \in Seq(Reqs) /\ Len(t) = n - h
      /\ \A i \in 1..(n - h) : t[i] = reqQueue[h + i]
  <2>1. \A i \in (h + 1)..n : reqQueue[i] \in Reqs
    BY <1>0, <1>2
  <2>a. t = SubSeq(reqQueue, h + 1, n)
    BY <1>1, Zenon
  <2>b. h + 1 \in Int /\ n \in Int
    BY <1>0, <1>2
  <2> HIDE DEF n
  <2>2. /\ t \in Seq(Reqs) /\ Len(t) = IF h + 1 <= n THEN n - (h + 1) + 1 ELSE 0
        /\ \A i \in 1..(n - (h + 1) + 1) : t[i] = reqQueue[(h + 1) + i - 1]
    <3> DEFINE u == SubSeq(reqQueue, h + 1, n)
    <3>1. /\ u \in Seq(Reqs) /\ Len(u) = IF h + 1 <= n THEN n - (h + 1) + 1 ELSE 0
          /\ \A i \in 1..(n - (h + 1) + 1) : u[i] = reqQueue[(h + 1) + i - 1]
      BY <2>b, <2>1, SubSeqProperties
    <3> HIDE DEF u
    <3>2. t = u
      BY <2>a DEF u
    <3> QED BY <3>1, <3>2
  <2>3. n - (h + 1) + 1 = n - h /\ \A i \in 1..(n - h) : (h + 1) + i - 1 = h + i
    BY <1>0, <1>2
  <2> QED BY <1>0, <1>2, <2>2, <2>3, SMTT(60)
<1>4. DOMAIN t = 1..Len(t)
  BY <1>3, LenProperties
<1>5. \A i \in 1..(n - h) : h + i \in 1..n /\ h + i > h
  BY <1>0, <1>2
<1>6. Sorted(t, reqOrder)
  <2> SUFFICES ASSUME NEW j \in 1..Len(t), NEW k \in 1..Len(t), j < k PROVE reqOrder[t[j]] < reqOrder[t[k]]
    BY DEF Sorted
  <2>1. j \in 1..(n - h) /\ k \in 1..(n - h)
    BY <1>3
  <2>2. h + j < h + k
    BY <1>2
  <2> QED BY <1>3, <1>5, <2>1, <2>2 DEF Sorted
<1>7. ASSUME NEW i \in 1..n, NEW j \in 1..n, i < j PROVE reqQueue[i] # reqQueue[j]
  BY <1>0, <1>7 DEF Sorted
<1>8. ASSUME NEW s, s \in ToSet(t)
      PROVE  s \in ToSet(reqQueue) /\ s \notin {reqQueue[k] : k \in Hopeless}
  <2>1. PICK i \in 1..(n - h) : s = reqQueue[h + i]
    BY <1>3, <1>4, <1>8 DEF ToSet
  <2>2. h + i \in 1..n /\ h + i > h
    BY <1>5, <2>1
  <2>3. \A k \in 1..h : k \in 1..n /\ k < h + i
    BY <1>0, <1>2, <2>2
  <2>4. \A k \in Hopeless : reqQueue[k] # s
    BY <1>1, <1>7, <2>1, <2>2, <2>3
  <2> QED BY <1>0, <2>1, <2>2, <2>4 DEF ToSet
<1>9. ASSUME NEW s, s \in ToSet(reqQueue), s \notin {reqQueue[k] : k \in Hopeless}
      PROVE  s \in ToSet(t)
  <2>1. PICK i \in 1..n : s = reqQueue[i]
    BY <1>0, <1>9 DEF ToSet
  <2>2. i \notin 1..h
    BY <1>1, <1>9, <2>1
  <2>3. i - h \in 1..(n - h) /\ h + (i - h) = i
    BY <1>0, <1>2, <2>1, <2>2
  <2>4. t[i - h] = s
    BY <1>3, <2>1, <2>3
  <2> QED BY <1>3, <1>4, <2>3, <2>4 DEF ToSet
<1> QED BY <1>3, <1>6, <1>8, <1>9

\* The request that a peer is asked for is the oldest one it can serve.
LEMMA CandidateIsOldest ==
  ASSUME reqQueue \in Seq(Reqs), reqOrder \in [Reqs -> Nat], Sorted(reqQueue, reqOrder),
         NEW r, NEW p, <<r, p>> \in Candidates
  PROVE  /\ r \in ToSet(reqQueue) /\ Usable(r, p) /\ p \notin mustWait
         /\ \A s \in ToSet(reqQueue) : Usable(s, p) => reqOrder[s] >= reqOrder[r]
<1>0. /\ DOMAIN reqQueue = 1..Len(reqQueue) /\ Len(reqQueue) \in Nat
      /\ \A i \in 1..Len(reqQueue) : reqQueue[i] \in Reqs /\ reqOrder[reqQueue[i]] \in Nat
  BY LenProperties, ElementOfSeq
<1>1. r = reqQueue[FirstFor(p)] /\ p \notin mustWait /\ FirstFor(p) # 0
  BY DEF Candidates
<1> DEFINE ks == {k \in DOMAIN reqQueue : Usable(reqQueue[k], p)}
<1>2. ks # {} /\ FirstFor(p) = Min(ks)
  BY <1>1 DEF FirstFor
<1>3. ks \in SUBSET Nat
  BY <1>0
<1>4. FirstFor(p) \in ks /\ \A k \in ks : FirstFor(p) <= k
  <2> HIDE DEF ks
  <2> QED BY <1>2, <1>3, MinIsLeast
<1>5. ASSUME NEW s \in ToSet(reqQueue), Usable(s, p) PROVE reqOrder[s] >= reqOrder[r]
  <2>1. PICK k \in 1..Len(reqQueue) : reqQueue[k] = s
    BY <1>0, <1>5 DEF ToSet
  <2>2. k \in ks
    BY <1>0, <1>5, <2>1
  <2>3. FirstFor(p) <= k /\ FirstFor(p) \in 1..Len(reqQueue)
    BY <1>0, <1>4, <2>2
  <2> HIDE DEF ks
  <2>4. FirstFor(p) = k \/ FirstFor(p) < k
    BY <2>1, <2>3
  <2>5. FirstFor(p) < k => reqOrder[r] < reqOrder[s]
    BY <1>1, <2>1, <2>3 DEF Sorted
  <2> QED BY <1>0, <1>1, <2>1, <2>3, <2>4, <2>5
<1> QED BY <1>0, <1>1, <1>4, <1>5 DEF ToSet

\* The strengthening: orders are distinct numbers up to the last one given.
QueueInv ==
  /\ reqQueue \in Seq(Reqs) /\ Sorted(reqQueue, reqOrder)
  /\ reqOrder \in [Reqs -> Nat] /\ lastReqOrder \in Nat /\ DOMAIN sentChn = Reqs
  /\ \A r \in Reqs : reqOrder[r] <= lastReqOrder
  /\ \A r, s \in Reqs : reqOrder[r] = reqOrder[s] /\ reqOrder[r] # 0 => r = s
  /\ \A r \in Reqs : r \in ToSet(reqQueue) <=> sentChn[r] # "nil"

LEMMA QueueInvInit == DistributorInit => QueueInv
  BY DEF DistributorInit, QueueInv, Sorted, ToSet

LEMMA QueueInvNext == QueueInv /\ [DistributorNext]_distributorVars => QueueInv'
<1> SUFFICES ASSUME QueueInv, [DistributorNext]_distributorVars PROVE QueueInv'
  OBVIOUS
<1> USE DEF QueueInv
<1>1. ASSUME NEW r \in Reqs, queue(r) PROVE QueueInv'
  <2> DEFINE order == IF reqOrder[r] = 0 THEN lastReqOrder + 1 ELSE reqOrder[r]
  <2>1. /\ sentChn[r] = "nil" /\ sentChn' = [sentChn EXCEPT ![r] = "open"]
        /\ reqOrder' = [reqOrder EXCEPT ![r] = order]
        /\ lastReqOrder' = IF reqOrder[r] = 0 THEN order ELSE lastReqOrder
        /\ reqQueue' = Place(reqQueue, r, order)
    BY <1>1 DEF queue
  <2>2. order \in Nat /\ order # 0
    OBVIOUS
  <2>3. ASSUME NEW s \in Reqs, s # r PROVE reqOrder[s] # order
    BY <2>3
  <2> HIDE DEF order
  <2>4. \A i \in 1..Len(reqQueue) : reqQueue[i] \in Reqs /\ reqQueue[i] # r
    <3>1. \A i \in 1..Len(reqQueue) : reqQueue[i] \in Reqs /\ reqQueue[i] \in ToSet(reqQueue)
      BY LenProperties, ElementOfSeq DEF ToSet
    <3> QED BY <2>1, <3>1
  <2>5. \A i \in 1..Len(reqQueue) : reqQueue[i] # r /\ reqOrder[reqQueue[i]] # order
    BY <2>3, <2>4
  <2>6. /\ reqQueue' \in Seq(Reqs)
        /\ Sorted(reqQueue', reqOrder')
        /\ \A s : s \in ToSet(reqQueue') <=> s = r \/ s \in ToSet(reqQueue)
    BY <2>1, <2>2, <2>5, PlaceKeepsOrder, ZenonT(60)
  <2>7. reqOrder' \in [Reqs -> Nat] /\ lastReqOrder' \in Nat /\ DOMAIN sentChn' = Reqs
    BY <2>1, <2>2
  <2>8. \A s \in Reqs : reqOrder'[s] <= lastReqOrder'
    BY <2>1, <2>2 DEF order
  <2>9. ASSUME NEW s \in Reqs, NEW u \in Reqs, reqOrder'[s] = reqOrder'[u], reqOrder'[s] # 0 PROVE s = u
    <3>1. reqOrder'[s] = (IF s = r THEN order ELSE reqOrder[s])
      BY <2>1
    <3>2. reqOrder'[u] = (IF u = r THEN order ELSE reqOrder[u])
      BY <2>1
    <3> QED BY <2>3, <2>9, <3>1, <3>2
  <2>10. \A s \in Reqs : s \in ToSet(reqQueue') <=> sentChn'[s] # "nil"
    BY <2>1, <2>6
  <2> QED BY <2>6, <2>7, <2>8, <2>9, <2>10
<1>2. ASSUME NEW r \in Reqs, reqQueue' = remove(reqQueue, r), sentChn' = [sentChn EXCEPT ![r] = "nil"],
             UNCHANGED <<reqOrder, lastReqOrder>>
      PROVE  QueueInv'
  <2>1. /\ reqQueue' \in Seq(Reqs)
        /\ Sorted(reqQueue', reqOrder)
        /\ \A s : s \in ToSet(reqQueue') <=> s # r /\ s \in ToSet(reqQueue)
    BY <1>2, RemoveKeepsOrder
  <2>2. \A s \in Reqs : s \in ToSet(reqQueue') <=> sentChn'[s] # "nil"
    BY <1>2, <2>1
  <2> QED BY <1>2, <2>1, <2>2
<1>3. ASSUME NEW r \in Reqs, cancel(r) PROVE QueueInv'
  BY <1>2, <1>3 DEF cancel
<1>4. ASSUME NEW r \in Reqs, NEW p \in Peers, NEW waits \in BOOLEAN, Assign(r, p, waits) PROVE QueueInv'
  BY <1>2, <1>4 DEF Assign
<1>5. CASE GiveUp
  <2> DEFINE gone == {reqQueue[k] : k \in Hopeless}
  <2>1. /\ Hopeless # {} /\ sentChn' = [r \in Reqs |-> IF r \in gone THEN "nil" ELSE sentChn[r]]
        /\ reqQueue' = SubSeq(reqQueue, Cardinality(Hopeless) + 1, Len(reqQueue))
        /\ UNCHANGED <<reqOrder, lastReqOrder>>
    BY <1>5 DEF GiveUp
  <2>2. /\ reqQueue' \in Seq(Reqs)
        /\ Sorted(reqQueue', reqOrder)
        /\ \A s : s \in ToSet(reqQueue') <=> s \in ToSet(reqQueue) /\ s \notin gone
    BY <2>1, GiveUpKeepsOrder
  <2> HIDE DEF gone
  <2>3. \A s \in Reqs : s \in ToSet(reqQueue') <=> sentChn'[s] # "nil"
    BY <2>1, <2>2
  <2> QED BY <2>1, <2>2, <2>3
<1>6. CASE StopLoop
  <2>1. \A s \in Reqs : s \in ToSet(reqQueue') <=> sentChn'[s] # "nil"
    BY <1>6 DEF StopLoop
  <2> QED BY <1>6, <2>1 DEF StopLoop
<1>7. CASE ReceiveSignal \/ Wake \/ Sleep \/ TimerFires \/ UNCHANGED distributorVars
  <2>1. UNCHANGED <<reqQueue, reqOrder, lastReqOrder, sentChn>>
    BY <1>7 DEF ReceiveSignal, Wake, Sleep, TimerFires, distributorVars
  <2> QED BY <2>1
<1>8. ASSUME NEW p \in Peers,
             registerPeer(p) \/ unregisterPeer(p) \/ Recharge(p) \/ StartNext(p) \/ Finish(p)
      PROVE  QueueInv'
  <2>1. UNCHANGED <<reqQueue, reqOrder, lastReqOrder, sentChn>>
    BY <1>8 DEF registerPeer, unregisterPeer, Recharge, StartNext, Finish
  <2> QED BY <2>1
<1> QED BY <1>1, <1>3, <1>4, <1>5, <1>6, <1>7, <1>8 DEF DistributorNext, DistributorLoopStep

\* A step gives a peer only the oldest request it can serve.
LEMMA OldestStep ==
  ASSUME QueueInv, [DistributorNext]_distributorVars, assigned \in [Peers -> Seq(Reqs)],
         NEW p \in Peers, assigned'[p] # assigned[p]
  PROVE  /\ p \notin mustWait
         /\ \A r \in Reqs : Usable(r, p) /\ r \in ToSet(reqQueue) => reqOrder[r] >= reqOrder[Last(assigned'[p])]
<1>1. PICK r \in Reqs, q \in Peers, waits \in BOOLEAN : Assign(r, q, waits)
  <2>1. \/ \E r \in Reqs, q \in Peers, waits \in BOOLEAN : Assign(r, q, waits)
        \/ assigned' = assigned
    BY DEF DistributorNext, DistributorLoopStep, ReceiveSignal, Wake, GiveUp, Sleep, StopLoop, TimerFires, queue, cancel, registerPeer,
           unregisterPeer, Recharge, StartNext, Finish, distributorVars
  <2> QED BY <2>1
<1>2. assigned' = [assigned EXCEPT ![q] = Append(@, r)] /\ <<r, q>> \in Candidates
  BY <1>1 DEF Assign
<1>3. p = q /\ assigned'[p] = Append(assigned[p], r)
  BY <1>2
<1>4. Last(assigned'[p]) = r
  <2>1. assigned[p] \in Seq(Reqs)
    OBVIOUS
  <2> HIDE DEF QueueInv
  <2>2. Last(Append(assigned[p], r)) = r
    BY <1>1, <2>1, AppendProperties DEF Last
  <2> QED BY <1>3, <2>2
<1>5. /\ p \notin mustWait
      /\ \A s \in ToSet(reqQueue) : Usable(s, p) => reqOrder[s] >= reqOrder[r]
  BY <1>2, <1>3, CandidateIsOldest DEF QueueInv
<1> QED BY <1>4, <1>5

-----------------------------------------------------------------------------
(* The send queues.                                                         *)

\* What a peer still has to send
Rest(p) == IF running[p] THEN Tail(sendQueue[p]) ELSE sendQueue[p]

\* The strengthening: until a queue quits, what was assigned is what was sent followed
\* by what is queued; the function that runs is the queue's first.
ExecInv ==
  /\ sendQueue \in [Peers -> Seq(Reqs)] /\ executed \in [Peers -> Seq(Reqs)]
  /\ assigned \in [Peers -> Seq(Reqs)] /\ running \in [Peers -> BOOLEAN] /\ DOMAIN quit = Peers
  /\ \A p \in Peers : running[p] => sendQueue[p] # <<>>
  /\ \A p \in Peers : quit[p] = "no" => assigned[p] = executed[p] \o Rest(p)
  /\ SentInOrder

LEMMA PrefixOfConcat == ASSUME NEW s \in Seq(Reqs), NEW t \in Seq(Reqs) PROVE IsPrefix(s, s \o t)
<1>1. Len(s) \in Nat /\ Len(t) \in Nat /\ \A i \in 1..Len(s) : s[i] \in Reqs
  BY LenProperties, ElementOfSeq
<1>2. Len(s \o t) = Len(s) + Len(t)
  BY ConcatProperties
<1>3. SubSeq(s \o t, 1, Len(s)) = SubSeq(s, 1, Len(s))
  <2>1. CASE s = <<>>
    <3>1. Len(s) < 1
      BY <2>1
    <3> QED BY <1>1, <3>1, SubSeqEmpty
  <2>2. CASE s # <<>>
    <3>1. 1 \in 1..Len(s) /\ Len(s) \in 1..Len(s)
      BY <2>2, EmptySeq
    <3> QED BY <3>1, SubSeqOfConcat1
  <2> QED BY <2>1, <2>2
<1> QED BY <1>1, <1>2, <1>3 DEF IsPrefix

\* A sequence is its head followed by its tail.
LEMMA HeadThenTail == ASSUME NEW s \in Seq(Reqs), s # <<>> PROVE <<Head(s)>> \o Tail(s) = s
<1>1. Len(s) \in Nat /\ 1 \in 1..Len(s) /\ Len(s) \in 1..Len(s)
  BY EmptySeq
<1>2. SubSeq(s, 1, Len(s)) = <<s[1]>> \o SubSeq(s, 1 + 1, Len(s))
  BY <1>1, SubSeqRecursiveFirst
<1>3. SubSeq(s, 1, Len(s)) = s /\ Tail(s) = SubSeq(s, 2, Len(s)) /\ 1 + 1 = 2
  BY SubSeqFull, TailIsSubSeq
<1>4. Head(s) = s[1]
  BY HeadTailProperties
<1> QED BY <1>2, <1>3, <1>4

LEMMA ExecInvInit == DistributorInit => ExecInv
<1> SUFFICES ASSUME DistributorInit PROVE ExecInv
  OBVIOUS
<1>1. /\ sendQueue = [p \in Peers |-> <<>>] /\ running = [p \in Peers |-> FALSE] /\ quit = [p \in Peers |-> "no"]
      /\ assigned = [p \in Peers |-> <<>>] /\ executed = [p \in Peers |-> <<>>]
  BY Zenon DEF DistributorInit
<1>2. <<>> \in Seq(Reqs) /\ <<>> \o <<>> = <<>> /\ IsPrefix(<<>>, <<>>)
  <2>1. <<>> \in Seq(Reqs)
    BY EmptySeq
  <2>2. <<>> \o <<>> = <<>>
    BY <2>1, ConcatEmptySeq
  <2> QED BY <2>1, <2>2, PrefixOfConcat
<1>3. \A p \in Peers : ~running[p] /\ Rest(p) = <<>> /\ IsPrefix(executed[p], assigned[p])
  BY <1>1, <1>2, Zenon DEF Rest
<1>4. /\ sendQueue \in [Peers -> Seq(Reqs)] /\ executed \in [Peers -> Seq(Reqs)]
      /\ assigned \in [Peers -> Seq(Reqs)] /\ running \in [Peers -> BOOLEAN] /\ DOMAIN quit = Peers
  BY <1>1, <1>2, Zenon
<1>5. \A p \in Peers : assigned[p] = executed[p] \o Rest(p)
  BY <1>1, <1>2, <1>3, Zenon
<1> QED BY <1>3, <1>4, <1>5, Zenon DEF ExecInv, SentInOrder

\* A step that leaves the sequences alone and starts or stops nothing.
LEMMA ExecOthersKeep ==
  ASSUME ExecInv, UNCHANGED <<sendQueue, running, executed, assigned>>, DOMAIN quit' = Peers,
         \A p \in Peers : quit'[p] = "no" => quit[p] = "no"
  PROVE  ExecInv'
<1>1. \A p \in Peers : Rest(p)' = Rest(p)
  BY DEF Rest
<1> QED BY <1>1 DEF ExecInv, SentInOrder

\* A step of one peer's queue keeps the others.
LEMMA ExecOnePeer ==
  ASSUME ExecInv, NEW p \in Peers,
         sendQueue' \in [Peers -> Seq(Reqs)], executed' \in [Peers -> Seq(Reqs)],
         assigned' \in [Peers -> Seq(Reqs)], running' \in [Peers -> BOOLEAN], DOMAIN quit' = Peers,
         \A q \in Peers : q # p => /\ sendQueue'[q] = sendQueue[q] /\ executed'[q] = executed[q]
                                   /\ assigned'[q] = assigned[q] /\ running'[q] = running[q] /\ quit'[q] = quit[q],
         running'[p] => sendQueue'[p] # <<>>,
         quit'[p] = "no" => assigned'[p] = executed'[p] \o Rest(p)',
         IsPrefix(executed'[p], assigned'[p])
  PROVE  ExecInv'
<1>1. \A q \in Peers : q # p => Rest(q)' = Rest(q)
  BY DEF Rest
<1>2. \A q \in Peers : running'[q] => sendQueue'[q] # <<>>
  BY DEF ExecInv
<1>3. \A q \in Peers : quit'[q] = "no" => assigned'[q] = executed'[q] \o Rest(q)'
  <2> SUFFICES ASSUME NEW q \in Peers, quit'[q] = "no" PROVE assigned'[q] = executed'[q] \o Rest(q)'
    OBVIOUS
  <2>1. CASE q = p
    BY <2>1
  <2>2. CASE q # p
    <3>1. assigned[q] = executed[q] \o Rest(q)
      BY <2>2 DEF ExecInv
    <3> QED BY <1>1, <2>2, <3>1
  <2> QED BY <2>1, <2>2
<1>4. SentInOrder'
  <2> SUFFICES ASSUME NEW q \in Peers PROVE IsPrefix(executed'[q], assigned'[q])
    BY DEF SentInOrder
  <2>1. CASE q = p
    BY <2>1
  <2>2. CASE q # p
    <3>1. IsPrefix(executed[q], assigned[q])
      BY DEF ExecInv, SentInOrder
    <3> QED BY <2>2, <3>1
  <2> QED BY <2>1, <2>2
<1> QED BY <1>2, <1>3, <1>4 DEF ExecInv

LEMMA AssignKeepsExec ==
  ASSUME QueueInv, ExecInv, NEW r \in Reqs, NEW p \in Peers, NEW waits, Assign(r, p, waits)
  PROVE  ExecInv'
<1>1. /\ assigned' = [assigned EXCEPT ![p] = Append(@, r)] /\ UNCHANGED <<running, quit, executed>>
      /\ sendQueue' = IF canQueue(p) THEN [sendQueue EXCEPT ![p] = Append(@, r)] ELSE sendQueue
  BY DEF Assign
<1>2. canQueue(p)
  <2>1. Usable(r, p)
    BY CandidateIsOldest DEF QueueInv, Assign
  <2> QED BY <2>1 DEF Usable
<1> DEFINE e == executed[p]
           q == sendQueue[p]
           a == assigned[p]
<1>3. /\ e \in Seq(Reqs) /\ q \in Seq(Reqs) /\ a \in Seq(Reqs) /\ (running[p] => q # <<>>)
      /\ a = e \o Rest(p) /\ running[p] \in BOOLEAN
  BY <1>2 DEF ExecInv, canQueue
<1>4. /\ sendQueue'[p] = Append(q, r) /\ assigned'[p] = Append(a, r)
      /\ executed'[p] = e /\ running'[p] = running[p]
  BY <1>1, <1>2 DEF ExecInv
<1> DEFINE t == IF running[p] THEN Tail(q) ELSE q
<1>5. Rest(p) = t
  BY DEF Rest
<1>6. t \in Seq(Reqs)
  BY <1>3, HeadTailProperties
<1>7. Rest(p)' = Append(t, r)
  <2>1. CASE running[p]
    <3>1. Tail(Append(q, r)) = Append(Tail(q), r)
      BY <1>3, <2>1, HeadTailAppend
    <3> QED BY <1>4, <2>1, <3>1 DEF Rest
  <2>2. CASE ~running[p]
    BY <1>4, <2>2 DEF Rest
  <2> QED BY <2>1, <2>2
<1> HIDE DEF e, q, a, t
<1>8. Append(a, r) = e \o Append(t, r) /\ Append(t, r) \in Seq(Reqs) /\ Append(a, r) \in Seq(Reqs)
  <2>1. <<r>> \in Seq(Reqs)
    OBVIOUS
  <2>2. Append(a, r) = a \o <<r>> /\ Append(t, r) = t \o <<r>>
    BY <1>3, <1>6, AppendIsConcat
  <2>3. (e \o t) \o <<r>> = e \o (t \o <<r>>)
    BY <1>3, <1>6, <2>1, ConcatAssociative, SMTT(60)
  <2> QED BY <1>3, <1>5, <1>6, <2>2, <2>3, AppendProperties
<1>9. IsPrefix(executed'[p], assigned'[p])
  BY <1>3, <1>4, <1>8, PrefixOfConcat DEF e
<1>10. Append(q, r) \in Seq(Reqs) /\ Append(q, r) # <<>>
  BY <1>3, AppendProperties
<1>11. /\ sendQueue' \in [Peers -> Seq(Reqs)] /\ executed' \in [Peers -> Seq(Reqs)]
       /\ assigned' \in [Peers -> Seq(Reqs)] /\ running' \in [Peers -> BOOLEAN] /\ DOMAIN quit' = Peers
       /\ \A s \in Peers : s # p => /\ sendQueue'[s] = sendQueue[s] /\ executed'[s] = executed[s]
                                    /\ assigned'[s] = assigned[s] /\ running'[s] = running[s] /\ quit'[s] = quit[s]
  BY <1>1, <1>2, <1>8, <1>10 DEF ExecInv, a, q
<1>12. assigned'[p] = executed'[p] \o Rest(p)'
  BY <1>4, <1>7, <1>8
<1>13. sendQueue'[p] # <<>>
  BY <1>4, <1>10
<1> QED BY <1>9, <1>11, <1>12, <1>13, ExecOnePeer, Zenon

LEMMA StartNextKeepsExec == ASSUME ExecInv, NEW p \in Peers, StartNext(p) PROVE ExecInv'
<1> DEFINE e == executed[p]
           q == sendQueue[p]
<1>1. /\ ~running[p] /\ q # <<>> /\ quit[p] = "no" /\ UNCHANGED <<sendQueue, quit, assigned>>
      /\ running' = [running EXCEPT ![p] = TRUE]
      /\ executed' = [executed EXCEPT ![p] = Append(@, Head(q))]
  BY Zenon DEF StartNext
<1>2. /\ e \in Seq(Reqs) /\ q \in Seq(Reqs) /\ assigned[p] = e \o Rest(p)
  BY <1>1 DEF ExecInv
<1>3. executed'[p] = Append(e, Head(q)) /\ running'[p] /\ sendQueue'[p] = q
  BY <1>1, Zenon DEF ExecInv
<1>4. Rest(p) = q /\ Rest(p)' = Tail(q)
  BY <1>1, <1>3, Zenon DEF Rest
<1>a. /\ sendQueue' \in [Peers -> Seq(Reqs)]
      /\ assigned' \in [Peers -> Seq(Reqs)] /\ running' \in [Peers -> BOOLEAN] /\ DOMAIN quit' = Peers
      /\ \A s \in Peers : s # p => running'[s] = running[s] /\ executed'[s] = executed[s]
  BY <1>1, Zenon DEF ExecInv
<1>b. \A s \in Peers : sendQueue'[s] = sendQueue[s] /\ assigned'[s] = assigned[s] /\ quit'[s] = quit[s]
  BY <1>1, Zenon
<1>c. assigned'[p] = assigned[p] /\ sendQueue'[p] # <<>>
  BY <1>1, <1>3, Zenon
<1> HIDE DEF e, q
<1>5. Head(q) \in Reqs /\ Tail(q) \in Seq(Reqs)
  BY <1>1, <1>2, HeadTailProperties
<1>6. Append(e, Head(q)) \in Seq(Reqs) /\ Append(e, Head(q)) \o Tail(q) = e \o q
  <2>1. <<Head(q)>> \in Seq(Reqs)
    BY <1>5
  <2>2. Append(e, Head(q)) = e \o <<Head(q)>>
    BY <1>2, <1>5, AppendIsConcat
  <2>3. (e \o <<Head(q)>>) \o Tail(q) = e \o (<<Head(q)>> \o Tail(q))
    BY <1>2, <1>5, <2>1, ConcatAssociative
  <2>4. <<Head(q)>> \o Tail(q) = q
    BY <1>1, <1>2, HeadThenTail
  <2>5. Append(e, Head(q)) \in Seq(Reqs)
    BY <1>2, <1>5, AppendProperties
  <2> QED BY <2>2, <2>3, <2>4, <2>5, Zenon
<1>7. assigned'[p] = executed'[p] \o Rest(p)'
  BY <1>2, <1>3, <1>4, <1>6, <1>c, Zenon
<1>8. IsPrefix(executed'[p], assigned'[p])
  <2>1. IsPrefix(Append(e, Head(q)), Append(e, Head(q)) \o Tail(q))
    BY <1>5, <1>6, PrefixOfConcat
  <2> QED BY <1>3, <1>4, <1>7, <2>1, Zenon
<1>9. executed' \in [Peers -> Seq(Reqs)]
  BY <1>1, <1>6 DEF ExecInv, e
<1> QED BY <1>a, <1>b, <1>c, <1>7, <1>8, <1>9, ExecOnePeer, ZenonT(60)

LEMMA FinishKeepsExec == ASSUME ExecInv, NEW p \in Peers, Finish(p) PROVE ExecInv'
<1> DEFINE q == sendQueue[p]
<1>1. /\ running[p] /\ UNCHANGED <<executed, assigned>>
      /\ running' = [running EXCEPT ![p] = FALSE]
      /\ sendQueue' = [sendQueue EXCEPT ![p] = Tail(q)]
      /\ quit' = [quit EXCEPT ![p] = IF @ = "asked" THEN "done" ELSE @]
  BY Zenon DEF Finish
<1>2. q \in Seq(Reqs) /\ q # <<>>
  BY <1>1 DEF ExecInv
<1>3. Tail(q) \in Seq(Reqs)
  <2> HIDE DEF q
  <2> QED BY <1>2, HeadTailProperties
<1>4. ~running'[p] /\ sendQueue'[p] = Tail(q)
  BY <1>1, Zenon DEF ExecInv
<1>5. Rest(p) = Tail(q) /\ Rest(p)' = Tail(q)
  BY <1>1, <1>4, Zenon DEF Rest
<1>6. quit'[p] = "no" => quit[p] = "no"
  BY <1>1 DEF ExecInv
<1>7. /\ sendQueue' \in [Peers -> Seq(Reqs)] /\ executed' \in [Peers -> Seq(Reqs)]
      /\ assigned' \in [Peers -> Seq(Reqs)] /\ running' \in [Peers -> BOOLEAN] /\ DOMAIN quit' = Peers
      /\ \A s \in Peers : s # p => running'[s] = running[s] /\ sendQueue'[s] = sendQueue[s] /\ quit'[s] = quit[s]
  BY <1>1, <1>3, Zenon DEF ExecInv
<1>8. \A s \in Peers : executed'[s] = executed[s] /\ assigned'[s] = assigned[s]
  BY <1>1, Zenon
<1>9. quit'[p] = "no" => assigned'[p] = executed'[p] \o Rest(p)'
  BY <1>5, <1>6, <1>8, Zenon DEF ExecInv
<1>10. IsPrefix(executed'[p], assigned'[p])
  BY <1>8, Zenon DEF ExecInv, SentInOrder
<1> QED BY <1>4, <1>7, <1>8, <1>9, <1>10, ExecOnePeer, ZenonT(60)

LEMMA ExecInvNext == QueueInv /\ ExecInv /\ [DistributorNext]_distributorVars => ExecInv'
<1> SUFFICES ASSUME QueueInv, ExecInv, [DistributorNext]_distributorVars PROVE ExecInv'
  OBVIOUS
<1>0. DOMAIN quit = Peers
  BY DEF ExecInv
<1>1. ASSUME NEW r \in Reqs, NEW p \in Peers, NEW waits \in BOOLEAN, Assign(r, p, waits) PROVE ExecInv'
  BY <1>1, AssignKeepsExec
<1>2. ASSUME NEW p \in Peers, StartNext(p) \/ Finish(p) PROVE ExecInv'
  BY <1>2, StartNextKeepsExec, FinishKeepsExec
<1>3. ASSUME NEW p \in Peers, unregisterPeer(p) PROVE ExecInv'
  <2>1. /\ UNCHANGED <<sendQueue, running, executed, assigned>>
        /\ quit' = [quit EXCEPT ![p] = IF running[p] THEN "asked" ELSE "done"]
    BY <1>3 DEF unregisterPeer
  <2>2. DOMAIN quit' = Peers /\ \A s \in Peers : quit'[s] = "no" => quit[s] = "no"
    BY <1>0, <2>1
  <2> QED BY <2>1, <2>2, ExecOthersKeep
<1>4. ASSUME UNCHANGED <<sendQueue, running, quit, executed, assigned>> PROVE ExecInv'
  BY <1>0, <1>4, ExecOthersKeep
<1>5. ASSUME NEW r \in Reqs, queue(r) \/ cancel(r) PROVE ExecInv'
  BY <1>4, <1>5 DEF queue, cancel, execVars
<1>6. ASSUME NEW p \in Peers, registerPeer(p) \/ Recharge(p) PROVE ExecInv'
  BY <1>4, <1>6 DEF registerPeer, Recharge, execVars
<1>7. CASE ReceiveSignal \/ Wake \/ GiveUp \/ Sleep \/ StopLoop \/ TimerFires \/ UNCHANGED distributorVars
  BY <1>4, <1>7 DEF ReceiveSignal, Wake, GiveUp, Sleep, StopLoop, TimerFires, distributorVars, execVars
<1> QED BY <1>1, <1>2, <1>3, <1>5, <1>6, <1>7 DEF DistributorNext, DistributorLoopStep

\* For every set of requests and peers: while requests wait the loop works or exactly
\* one wake-up is on its way, the queue is in creation order and holds exactly the
\* requests whose channel is pending, each peer is given the oldest request it can
\* serve, and sends what it was given in that order (distributor.go, execqueue.go).
THEOREM NobodyForgotten == DistributorSpec => NobodyIsForgotten
<1> DEFINE Inv == WakeInv /\ QueueInv /\ ExecInv
<1>1. DistributorInit => Inv
  BY WakeInvInit, QueueInvInit, ExecInvInit
<1>2. Inv /\ [DistributorNext]_distributorVars => Inv'
  BY WakeInvNext, QueueInvNext, ExecInvNext
<1>3. Inv => OneWakeUp /\ NoLostWakeUp /\ QueueIsOrdered /\ SentInOrder
  <2> SUFFICES ASSUME Inv PROVE OneWakeUp /\ NoLostWakeUp /\ QueueIsOrdered /\ SentInOrder
    OBVIOUS
  <2>1. OneWakeUp
    BY DEF WakeInv, OneWakeUp
  <2>2. DOMAIN reqQueue = 1..Len(reqQueue)
    BY LenProperties DEF QueueInv
  <2>3. QueueIsOrdered
    BY <2>2 DEF QueueInv, QueueIsOrdered, Sorted
  <2> QED BY <2>1, <2>3 DEF WakeInv, ExecInv
<1>4. Inv /\ [DistributorNext]_distributorVars =>
        [\A p \in Peers : assigned'[p] # assigned[p] =>
           /\ p \notin mustWait
           /\ \A r \in Reqs : Usable(r, p) /\ r \in ToSet(reqQueue) =>
                reqOrder[r] >= reqOrder[Last(assigned'[p])]]_distributorVars
  <2> SUFFICES ASSUME QueueInv, ExecInv, [DistributorNext]_distributorVars, NEW p \in Peers,
                      assigned'[p] # assigned[p]
               PROVE  /\ p \notin mustWait
                      /\ \A r \in Reqs : Usable(r, p) /\ r \in ToSet(reqQueue) =>
                           reqOrder[r] >= reqOrder[Last(assigned'[p])]
    OBVIOUS
  <2>1. assigned \in [Peers -> Seq(Reqs)]
    BY DEF ExecInv
  <2> QED BY <2>1, OldestStep
<1> HIDE DEF Inv
<1> QED BY <1>1, <1>2, <1>3, <1>4, PTL DEF DistributorSpec, NobodyIsForgotten, OldestFirst

-----------------------------------------------------------------------------
(* Attempts.                                                                *)

\* A peer stays entered in sentTo until the deferred function of its attempt ran.
Owns(k) == try[k].pc \in {"sent", "waiting", "late", "cleanup"}

AttemptTypes ==
  /\ tries \in Nat
  /\ try \in [Tries -> [pc : {"none", "queued", "sent", "waiting", "late", "cleanup", "done"},
                        peer : DistPeers \cup {NoPeer}]]
  /\ sentTo \in [DistPeers -> {"no", "open", "valid", "invalid"}]

EntryOfOwner == \A k \in Tries : Owns(k) => try[k].peer \in DistPeers /\ sentTo[try[k].peer] # "no"
OneOwner == \A j, k \in Tries : Owns(j) /\ Owns(k) /\ try[j].peer = try[k].peer => j = k
NotYetLaunched == \A k \in Tries : k > tries => try[k].pc = "none"

AttemptInv == AttemptTypes /\ EntryOfOwner /\ OneOwner /\ NotYetLaunched

LEMMA AttemptInit ==
  ASSUME MaxTries \in Nat, RetrieverInit
  PROVE  AttemptInv
  BY DEF RetrieverInit, AttemptInv, AttemptTypes, EntryOfOwner, OneOwner, NotYetLaunched, Owns, Tries, NoPeer

\* A step of an attempt that leaves peers and entries alone and takes on nothing new
LEMMA GotoKeeps ==
  ASSUME AttemptInv, NEW k \in Tries, NEW to \in {"waiting", "late", "cleanup", "done"},
         try[k].pc # "none", to # "done" => Owns(k),
         Goto(k, to), tries' = tries, sentTo' = sentTo
  PROVE  AttemptInv'
<1> USE DEF AttemptInv, AttemptTypes
<1>1. /\ try'[k].pc = to /\ try'[k].peer = try[k].peer
      /\ \A j \in Tries : j # k => try'[j] = try[j]
  BY DEF Goto
<1>2. AttemptTypes'
  BY DEF Goto
<1>3. \A j \in Tries : try'[j].peer = try[j].peer
  BY <1>1
<1>4. \A j \in Tries : Owns(j)' => Owns(j)
  BY <1>1 DEF Owns
<1>5. EntryOfOwner'
  BY <1>3, <1>4 DEF EntryOfOwner
<1>6. OneOwner'
  BY <1>3, <1>4 DEF OneOwner
<1>7. NotYetLaunched'
  BY <1>1 DEF NotYetLaunched
<1> QED
  BY <1>2, <1>5, <1>6, <1>7

LEMMA SentKeeps ==
  ASSUME AttemptInv, NEW k \in Tries, NEW p \in DistPeers, Sent(k, p)
  PROVE  AttemptInv'
<1> USE DEF AttemptInv, AttemptTypes
<1>1. /\ try'[k] = [pc |-> "sent", peer |-> p]
      /\ \A j \in Tries : j # k => try'[j] = try[j]
      /\ tries' = tries
      /\ sentTo[p] = "no" /\ sentTo'[p] = "open"
      /\ \A q \in DistPeers : q # p => sentTo'[q] = sentTo[q]
  BY DEF Sent, canSend, LoopVars
<1>2. AttemptTypes'
  BY DEF Sent, LoopVars
<1>3. \A j \in Tries : j # k => (Owns(j)' <=> Owns(j)) /\ try'[j].peer = try[j].peer
  BY <1>1 DEF Owns
<1>4. try'[k].peer = p /\ try'[k].pc = "sent"
  BY <1>1
<1>5. \A j \in Tries : j # k /\ Owns(j) => try[j].peer \in DistPeers /\ try[j].peer # p
  BY <1>1 DEF EntryOfOwner
<1>6. EntryOfOwner'
  BY <1>1, <1>3, <1>4, <1>5 DEF EntryOfOwner
<1>7. OneOwner'
  BY <1>3, <1>4, <1>5 DEF OneOwner
<1>8. NotYetLaunched'
  BY <1>1 DEF NotYetLaunched, Sent
<1> QED
  BY <1>2, <1>6, <1>7, <1>8

LEMMA CleanupKeeps ==
  ASSUME AttemptInv, NEW k \in Tries, Cleanup(k)
  PROVE  AttemptInv'
<1> USE DEF AttemptInv, AttemptTypes
<1>1. /\ try[k].pc = "cleanup" /\ try'[k].pc = "done"
      /\ \A j \in Tries : j # k => try'[j] = try[j]
      /\ tries' = tries
  BY DEF Cleanup, Goto, LoopVars
<1>2. try[k].peer \in DistPeers
  BY <1>1 DEF EntryOfOwner, Owns
<1>3. /\ AttemptTypes'
      /\ \A q \in DistPeers : q # try[k].peer => sentTo'[q] = sentTo[q]
  BY <1>2 DEF Cleanup, Goto, LoopVars
<1>4. ~Owns(k)' /\ Owns(k)
  BY <1>1 DEF Owns
<1>5. \A j \in Tries : j # k => (Owns(j)' <=> Owns(j)) /\ try'[j].peer = try[j].peer
  BY <1>1 DEF Owns
<1>6. \A j \in Tries : j # k /\ Owns(j) => try[j].peer # try[k].peer
  BY <1>4 DEF OneOwner
<1>7. EntryOfOwner'
  BY <1>3, <1>4, <1>5, <1>6 DEF EntryOfOwner
<1>8. OneOwner'
  BY <1>4, <1>5 DEF OneOwner
<1>9. NotYetLaunched'
  BY <1>1 DEF NotYetLaunched
<1> QED
  BY <1>3, <1>7, <1>8, <1>9

LEMMA LaunchKeeps ==
  ASSUME MaxTries \in Nat, AttemptInv, Launch, sentTo' = sentTo
  PROVE  AttemptInv'
<1> USE DEF AttemptInv, AttemptTypes
<1>1. tries + 1 \in Tries
  BY DEF Launch, Tries
<1>2. /\ tries' = tries + 1
      /\ try'[tries + 1].pc = "queued" /\ try'[tries + 1].peer = try[tries + 1].peer
      /\ \A j \in Tries : j # tries + 1 => try'[j] = try[j]
  BY <1>1 DEF Launch
<1>3. AttemptTypes'
  BY <1>1 DEF Launch
<1>4. \A j \in Tries : (Owns(j)' => Owns(j)) /\ try'[j].peer = try[j].peer
  BY <1>1, <1>2 DEF Owns
<1>5. EntryOfOwner' /\ OneOwner'
  BY <1>4 DEF EntryOfOwner, OneOwner
<1>6. NotYetLaunched'
  BY <1>1, <1>2 DEF NotYetLaunched, Tries
<1> QED
  BY <1>3, <1>5, <1>6

\* A step that leaves the attempts and the entries alone
LEMMA OthersKeep ==
  ASSUME AttemptInv, tries' = tries, try' = try,
         sentTo' \in [DistPeers -> {"no", "open", "valid", "invalid"}],
         \A p \in DistPeers : sentTo[p] # "no" => sentTo'[p] # "no"
  PROVE  AttemptInv'
  BY DEF AttemptInv, AttemptTypes, EntryOfOwner, OneOwner, NotYetLaunched, Owns

LEMMA AttemptNext ==
  ASSUME MaxTries \in Nat, AttemptInv, [RetrieverNext]_retrieverVars
  PROVE  AttemptInv'
<1> USE DEF AttemptInv, AttemptTypes
<1>1. ASSUME NEW k \in Tries, TryStep(k)
      PROVE  AttemptInv'
  <2>1. ASSUME NEW p \in DistPeers, Sent(k, p)
        PROVE  AttemptInv'
    BY <2>1, SentKeeps
  <2>2. CASE NotSent(k)
    BY <2>2, GotoKeeps DEF NotSent, LoopVars
  <2>3. CASE ReportSent(k)
    BY <2>3, GotoKeeps DEF ReportSent, Owns, LoopVars
  <2>4. CASE Answered(k)
    BY <2>4, GotoKeeps DEF Answered, Owns, LoopVars
  <2>5. CASE SoftTimeout(k)
    BY <2>5, GotoKeeps DEF SoftTimeout, Owns, LoopVars
  <2>6. CASE HardTimeout(k)
    BY <2>6, GotoKeeps DEF HardTimeout, Owns, LoopVars
  <2>7. CASE Cleanup(k)
    BY <2>7, CleanupKeeps
  <2> QED
    BY <1>1, <2>1, <2>2, <2>3, <2>4, <2>5, <2>6, <2>7 DEF TryStep
<1>2. ASSUME NEW p \in DistPeers, NEW valid \in BOOLEAN, deliver(p, valid)
      PROVE  AttemptInv'
  <2>1. tries' = tries /\ try' = try
    BY <1>2 DEF deliver, LoopVars
  <2>2. /\ sentTo' \in [DistPeers -> {"no", "open", "valid", "invalid"}]
        /\ \A q \in DistPeers : sentTo[q] # "no" => sentTo'[q] # "no"
    BY <1>2 DEF deliver
  <2> QED
    BY <2>1, <2>2, OthersKeep
<1>3. CASE AskAnother \/ RetryQueue
  BY <1>3, LaunchKeeps DEF AskAnother, RetryQueue
<1>4. CASE \/ Note \/ NoSuitablePeer \/ Succeeded \/ NoteNoMorePeers
           \/ StopSeen \/ Drain \/ End \/ CtxDone \/ UNCHANGED retrieverVars
  <2>1. tries' = tries /\ try' = try /\ sentTo' = sentTo
    BY <1>4 DEF Note, NoSuitablePeer, Succeeded, NoteNoMorePeers, StopSeen, Drain, End,
                CtxDone, retrieverVars
  <2> QED
    BY <2>1, OthersKeep
<1> QED
  BY <1>1, <1>2, <1>3, <1>4 DEF RetrieverNext, LoopStep

\* For every set of peers and any number of attempts, two attempts never wait for the
\* same peer, and each finds its entry in sentTo.
THEOREM NoPeerAskedTwice ==
  ASSUME MaxTries \in Nat
  PROVE  RetrieverSpec => []OneAttemptPerPeer
<1>1. RetrieverInit => AttemptInv
  BY AttemptInit
<1>2. AttemptInv /\ [RetrieverNext]_retrieverVars => AttemptInv'
  BY AttemptNext
<1>3. AttemptInv => OneAttemptPerPeer
  BY DEF AttemptInv, EntryOfOwner, OneOwner, OneAttemptPerPeer, Pending, Owns
<1> QED
  BY <1>1, <1>2, <1>3, PTL DEF RetrieverSpec

LEMMA ResultStep ==
  ASSUME [RetrieverNext]_retrieverVars
  PROVE  Stopped => err' = err
<1> SUFFICES ASSUME Stopped PROVE err' = err
  OBVIOUS
<1>1. ASSUME NEW k \in Tries, TryStep(k)
      PROVE  err' = err
  BY <1>1 DEF TryStep, Sent, NotSent, ReportSent, Answered, SoftTimeout, HardTimeout,
              Cleanup, LoopVars
<1>2. ASSUME NEW p \in DistPeers, NEW valid \in BOOLEAN, deliver(p, valid)
      PROVE  err' = err
  BY <1>2 DEF deliver, LoopVars
<1>3. CASE LoopStep
  BY <1>3 DEF LoopStep, Note, NoSuitablePeer, AskAnother, Succeeded, RetryQueue,
              NoteNoMorePeers, StopSeen, Drain, End, Stop
<1>4. CASE CtxDone \/ UNCHANGED retrieverVars
  BY <1>4 DEF CtxDone, Stop, retrieverVars
<1> QED
  BY <1>1, <1>2, <1>3, <1>4 DEF RetrieverNext

\* For every set of peers, what retrieve returned first stays its result, although the
\* loop, the caller and late answers may all end the request.
THEOREM FirstResultStays == RetrieverSpec => ResultIsFinal
<1>1. [RetrieverNext]_retrieverVars => [Stopped => err' = err]_retrieverVars
  BY ResultStep
<1> QED
  BY <1>1, PTL DEF RetrieverSpec, ResultIsFinal

-----------------------------------------------------------------------------
(* ClientManager.                                                           *)

\* No client is served and recharges at once.
IsNode(nd) ==
  /\ nd = [serving |-> nd.serving, recharging |-> nd.recharging, rcValue |-> nd.rcValue, rcDelta |-> nd.rcDelta,
           startValue |-> nd.startValue, lastUpdate |-> nd.lastUpdate, finishRecharge |-> nd.finishRecharge]
  /\ nd.serving \in BOOLEAN /\ nd.recharging \in BOOLEAN /\ ~(nd.serving /\ nd.recharging)

\* The manager's record; only what is served and recharged matters to its counters.
IsManager(m) ==
  /\ m = [node |-> m.node, nodes |-> m.nodes, simReqCnt |-> m.simReqCnt, sumWeight |-> m.sumWeight,
          rcSumValue |-> m.rcSumValue, time |-> m.time]
  /\ m.node = [n \in Nodes |-> m.node[n]] /\ \A n \in Nodes : IsNode(m.node[n])
  /\ m.nodes \in SUBSET Nodes /\ m.simReqCnt \in Int

\* A new client is idle.
LEMMA NewNodeIsNode == ASSUME NEW t PROVE IsNode(NewNode(t)) /\ ~NewNode(t).serving
  BY DEF IsNode, NewNode

\* Time only ends recharges.
LEMMA NodeUpdateKeeps ==
  ASSUME NEW nd, IsNode(nd), NEW t
  PROVE  /\ IsNode(nodeUpdate(nd, t)) /\ nodeUpdate(nd, t).serving = nd.serving
         /\ nodeUpdate(nd, t).recharging => nd.recharging
<1> DEFINE q == Quotient(nd.rcDelta * (t - nd.lastUpdate), rcConst)
           v == nd.rcValue + q
<1>1. CASE nd.recharging /\ t >= nd.finishRecharge
  BY <1>1 DEF IsNode, nodeUpdate
<1>2. CASE ~(nd.recharging /\ t >= nd.finishRecharge)
  <2>1. nodeUpdate(nd, t) = [nd EXCEPT !.rcValue = v, !.lastUpdate = t]
    BY <1>2 DEF nodeUpdate
  <2> HIDE DEF v
  <2> QED BY <2>1 DEF IsNode
<1> QED BY <1>1, <1>2

\* A client that is not served any more recharges.
LEMMA SetKeeps ==
  ASSUME NEW nd, IsNode(nd), NEW s \in BOOLEAN, NEW c, NEW w
  PROVE  /\ IsNode(set(nd, s, c, w)) /\ set(nd, s, c, w).serving = s
         /\ set(nd, s, c, w).recharging = (~s /\ (nd.recharging \/ nd.serving))
<1> DEFINE r == ~s /\ (nd.recharging \/ (nd.serving /\ ~s))
<1>1. PICK x, y : set(nd, s, c, w) = [nd EXCEPT !.serving = s, !.recharging = r, !.rcDelta = x, !.finishRecharge = y]
  BY Zenon DEF set
<1>2. r \in BOOLEAN /\ r = (~s /\ (nd.recharging \/ nd.serving)) /\ ~(s /\ r)
  BY DEF IsNode
<1> HIDE DEF r
<1>3. DOMAIN nd = {"serving", "recharging", "rcValue", "rcDelta", "startValue", "lastUpdate", "finishRecharge"}
  BY DEF IsNode
<1> QED BY <1>1, <1>2, <1>3 DEF IsNode

\* What no turn changes, and what the last one leaves behind.
Keeps(m, k) ==
  /\ IsManager(k) /\ k.nodes = m.nodes /\ k.simReqCnt = m.simReqCnt
  /\ \A n \in Nodes : k.node[n].serving = m.node[n].serving
  /\ Recharging(k) \subseteq Recharging(m)
  /\ k.sumWeight = Cardinality(Recharging(k))

\* Bringing all clients up to a time keeps who is served.
LEMMA UpdateNodesKeeps == ASSUME NEW m, IsManager(m), NEW t PROVE Keeps(m, updateNodes(m, t))
<1> DEFINE nodes == [n \in Nodes |-> IF n \in m.nodes THEN nodeUpdate(m.node[n], t) ELSE m.node[n]]
           m1 == [m EXCEPT !.node = nodes]
<1>1. ASSUME NEW n \in Nodes
      PROVE  IsNode(nodes[n]) /\ nodes[n].serving = m.node[n].serving /\ (nodes[n].recharging => m.node[n].recharging)
  <2>1. IsNode(m.node[n])
    BY DEF IsManager
  <2>2. nodes[n] = IF n \in m.nodes THEN nodeUpdate(m.node[n], t) ELSE m.node[n]
    OBVIOUS
  <2>3. CASE n \in m.nodes
    BY <2>1, <2>2, <2>3, NodeUpdateKeeps, Zenon
  <2>4. CASE n \notin m.nodes
    BY <2>1, <2>2, <2>4, Zenon
  <2> QED BY <2>3, <2>4
<1>2. nodes = [n \in Nodes |-> nodes[n]]
  OBVIOUS
<1> HIDE DEF nodes
<1>3. m1 = [node |-> nodes, nodes |-> m.nodes, simReqCnt |-> m.simReqCnt, sumWeight |-> m.sumWeight,
            rcSumValue |-> m.rcSumValue, time |-> m.time]
  BY DEF IsManager
<1>4. PICK v : updateNodes(m, t) = [m1 EXCEPT !.sumWeight = Cardinality(Recharging(m1)), !.rcSumValue = v]
  BY Zenon DEF updateNodes, nodes
<1> DEFINE k == [node |-> nodes, nodes |-> m.nodes, simReqCnt |-> m.simReqCnt,
                 sumWeight |-> Cardinality(Recharging(m1)), rcSumValue |-> v, time |-> m.time]
<1>5. updateNodes(m, t) = k
  BY <1>3, <1>4
<1>6. Recharging(k) = Recharging(m1)
  BY <1>3 DEF Recharging
<1>7. IsManager(k)
  BY <1>1, <1>2 DEF IsManager
<1>8. Recharging(k) \subseteq Recharging(m)
  BY <1>1 DEF Recharging, IsManager
<1>9. k.sumWeight = Cardinality(Recharging(k)) /\ k.nodes = m.nodes /\ k.simReqCnt = m.simReqCnt /\ k.node = nodes
  BY <1>6
<1> HIDE DEF k
<1> QED BY <1>1, <1>5, <1>7, <1>8, <1>9 DEF Keeps

\* A turn that is not the last one ends a recharge.
LEMMA TurnKeeps ==
  ASSUME NEW m, IsManager(m), NEW t
  PROVE  /\ Keeps(m, Turn(m, t).m)
         /\ Turn(m, t).again => Recharging(Turn(m, t).m) # Recharging(m)
<1> DEFINE first == Min({t} \cup {m.node[n].finishRecharge : n \in Recharging(m)})
           m1 == updateNodes(m, first)
           again == Recharging(m1) # Recharging(m)
           nodes == [n \in Nodes |-> IF n \in Recharging(m1)
                                     THEN set(m1.node[n], m1.node[n].serving, m1.simReqCnt, m1.sumWeight)
                                     ELSE m1.node[n]]
           sped == [m1 EXCEPT !.node = nodes]
           done == [m1 EXCEPT !.time = t]
<1>1. Turn(m, t) = [m |-> IF again THEN sped ELSE done, again |-> again]
  BY Zenon DEF Turn
<1>2. Keeps(m, m1)
  BY UpdateNodesKeeps, Zenon
<1> HIDE DEF m1
<1>3. IsManager(m1) /\ m1.sumWeight = Cardinality(Recharging(m1))
  BY <1>2 DEF Keeps
<1>4. ASSUME NEW n \in Nodes
      PROVE  IsNode(nodes[n]) /\ nodes[n].serving = m1.node[n].serving /\ nodes[n].recharging = m1.node[n].recharging
  <2>1. IsNode(m1.node[n])
    BY <1>3 DEF IsManager
  <2>2. m1.node[n].serving \in BOOLEAN /\ (n \in Recharging(m1) => m1.node[n].recharging)
    BY <2>1 DEF IsNode, Recharging
  <2>3. CASE n \in Recharging(m1)
    <3>1. nodes[n] = set(m1.node[n], m1.node[n].serving, m1.simReqCnt, m1.sumWeight)
      BY <2>3
    <3> HIDE DEF nodes
    <3>2. PICK nd, s, c, w : nd = m1.node[n] /\ s = nd.serving /\ nodes[n] = set(nd, s, c, w)
      BY <3>1
    <3>3. IsNode(nd) /\ s \in BOOLEAN /\ nd.recharging /\ ~s
      BY <2>1, <2>2, <2>3, <3>2 DEF IsNode
    <3>4. /\ IsNode(set(nd, s, c, w)) /\ set(nd, s, c, w).serving = s
          /\ set(nd, s, c, w).recharging = (~s /\ (nd.recharging \/ nd.serving))
      BY ONLY <3>3, SetKeeps
    <3> QED BY <3>2, <3>3, <3>4 DEF IsNode
  <2>4. CASE n \notin Recharging(m1)
    BY <2>1, <2>4
  <2> QED BY <2>3, <2>4
<1>5. nodes = [n \in Nodes |-> nodes[n]]
  OBVIOUS
<1> HIDE DEF nodes
<1>6. /\ sped = [node |-> nodes, nodes |-> m1.nodes, simReqCnt |-> m1.simReqCnt, sumWeight |-> m1.sumWeight,
                 rcSumValue |-> m1.rcSumValue, time |-> m1.time]
      /\ done = [node |-> m1.node, nodes |-> m1.nodes, simReqCnt |-> m1.simReqCnt, sumWeight |-> m1.sumWeight,
                 rcSumValue |-> m1.rcSumValue, time |-> t]
  BY <1>3 DEF IsManager
<1> HIDE DEF sped, done
<1>7. Recharging(sped) = Recharging(m1) /\ Recharging(done) = Recharging(m1)
  BY <1>3, <1>4, <1>6 DEF Recharging, IsManager
<1>8. IsManager(sped) /\ IsManager(done)
  BY <1>3, <1>4, <1>5, <1>6 DEF IsManager
<1>9. Keeps(m, sped) /\ Keeps(m, done)
  BY <1>2, <1>4, <1>6, <1>7, <1>8 DEF Keeps
<1> DEFINE r == Turn(m, t)
<1>10. r.m = (IF again THEN sped ELSE done) /\ r.again = again
  BY <1>1
<1> HIDE DEF r
<1> QED BY <1>7, <1>9, <1>10 DEF r

-----------------------------------------------------------------------------
(* The turns are a recursive function: it has a solution, which LET chooses. *)

\* One step of the recursion on f.
TurnOf(m, t, f, k) == IF k = 0 THEN Turn(m, t) ELSE IF f[k - 1].again THEN Turn(f[k - 1].m, t) ELSE f[k - 1]

\* f satisfies the recursion up to n.
TurnsTo(m, t, n, f) == \A k \in 0..n : f[k] = TurnOf(m, t, f, k)

\* A set of numbers that is not empty has a least one.
LEMMA LeastNumber == ASSUME NEW S \in SUBSET Nat, S # {} PROVE \E n \in S : n = 0 \/ (n - 1 \in Nat /\ n - 1 \notin S)
<1>1. PICK n \in S : \A m \in S : ~(<<m, n>> \in OpToRel(<, Nat))
  BY NatLessThanWellFounded, WFMin, Zenon
<1>2. ASSUME n # 0, n - 1 \in S PROVE FALSE
  <2>1. <<n - 1, n>> \in OpToRel(<, Nat)
    BY <1>2 DEF OpToRel
  <2> QED BY <1>1, <1>2, <2>1
<1> QED BY <1>2

\* The recursion has a solution up to every number of turns.
LEMMA TurnsExist == ASSUME NEW m, NEW t, NEW n \in Nat PROVE \E f : TurnsTo(m, t, n, f)
<1> DEFINE Bad == {i \in Nat : ~ \E f : TurnsTo(m, t, i, f)}
<1>1. SUFFICES ASSUME Bad # {} PROVE FALSE
  OBVIOUS
<1>2. PICK i \in Bad : i = 0 \/ (i - 1 \in Nat /\ i - 1 \notin Bad)
  <2>1. Bad \in SUBSET Nat
    OBVIOUS
  <2> HIDE DEF Bad
  <2> QED BY <1>1, <2>1, LeastNumber
<1>3. i \in Nat /\ ~ \E f : TurnsTo(m, t, i, f)
  OBVIOUS
<1>4. i # 0
  <2> DEFINE f == [k \in {0} |-> Turn(m, t)]
  <2>1. \A k \in 0..0 : k = 0
    OBVIOUS
  <2>2. TurnsTo(m, t, 0, f)
    BY <2>1 DEF TurnsTo, TurnOf
  <2> QED BY <1>3, <2>2
<1>5. PICK f : TurnsTo(m, t, i - 1, f)
  BY <1>2, <1>4
<1> DEFINE g == [k \in 0..i |-> IF k = i THEN TurnOf(m, t, f, i) ELSE f[k]]
<1>6. g[i] = TurnOf(m, t, f, i) /\ \A k \in 0..(i - 1) : g[k] = f[k]
  BY <1>3
<1> HIDE DEF g
<1>7. ASSUME NEW k \in 0..i PROVE g[k] = TurnOf(m, t, g, k)
  <2>1. g[k] = TurnOf(m, t, f, k)
    BY <1>3, <1>5, <1>6 DEF TurnsTo
  <2>2. k = 0 \/ k - 1 \in 0..(i - 1)
    BY <1>3
  <2> QED BY <1>6, <2>1, <2>2 DEF TurnOf
<1> QED BY <1>3, <1>7 DEF TurnsTo

\* Solutions agree where they are both defined.
LEMMA TurnsAgree ==
  ASSUME NEW m, NEW t, NEW n \in Nat, NEW i \in Nat, NEW f, NEW g, TurnsTo(m, t, n, f), TurnsTo(m, t, i, g),
         NEW k \in Nat, k <= n, k <= i
  PROVE  f[k] = g[k]
<1> DEFINE Bad == {j \in Nat : j <= n /\ j <= i /\ f[j] # g[j]}
<1>1. SUFFICES ASSUME Bad # {} PROVE FALSE
  OBVIOUS
<1>2. PICK j \in Bad : j = 0 \/ (j - 1 \in Nat /\ j - 1 \notin Bad)
  <2>1. Bad \in SUBSET Nat
    OBVIOUS
  <2> HIDE DEF Bad
  <2> QED BY <1>1, <2>1, LeastNumber
<1>3. j \in Nat /\ j \in 0..n /\ j \in 0..i /\ f[j] # g[j]
  OBVIOUS
<1>4. f[j] = TurnOf(m, t, f, j) /\ g[j] = TurnOf(m, t, g, j)
  BY <1>3 DEF TurnsTo
<1>5. j = 0 \/ f[j - 1] = g[j - 1]
  BY <1>2, <1>3
<1> QED BY <1>3, <1>4, <1>5 DEF TurnOf

\* Turns satisfies its recursion.
LEMMA TurnsUnfold == ASSUME NEW m, NEW t PROVE \A k \in Nat : Turns(m, t)[k] = TurnOf(m, t, Turns(m, t), k)
<1> DEFINE To(n) == CHOOSE f : TurnsTo(m, t, n, f)
           F == [k \in Nat |-> To(k)[k]]
           Def(f) == [k \in Nat |-> IF k = 0 THEN Turn(m, t)
                                    ELSE IF f[k - 1].again THEN Turn(f[k - 1].m, t) ELSE f[k - 1]]
<1>1. \A n \in Nat : TurnsTo(m, t, n, To(n))
  BY TurnsExist
<1>2. \A k \in Nat : F[k] = To(k)[k]
  OBVIOUS
<1> HIDE DEF To, F
<1>3. ASSUME NEW k \in Nat PROVE F[k] = TurnOf(m, t, F, k)
  <2>1. F[k] = TurnOf(m, t, To(k), k)
    BY <1>1, <1>2 DEF TurnsTo
  <2>2. CASE k = 0
    BY <2>1, <2>2 DEF TurnOf
  <2>3. CASE k # 0
    <3>1. k - 1 \in Nat /\ k - 1 <= k - 1 /\ k - 1 <= k
      BY <2>3
    <3>2. To(k - 1)[k - 1] = To(k)[k - 1]
      BY <1>1, <3>1, TurnsAgree
    <3> QED BY <1>2, <2>1, <3>1, <3>2 DEF TurnOf
  <2> QED BY <2>2, <2>3
<1>4. F = Def(F)
  <2>1. \A k \in Nat : TurnOf(m, t, F, k) = Def(F)[k]
    BY DEF TurnOf
  <2>2. F = [k \in Nat |-> F[k]]
    BY DEF F
  <2>3. Def(F) = [k \in Nat |-> Def(F)[k]]
    OBVIOUS
  <2> HIDE DEF Def
  <2> QED BY <1>3, <2>1, <2>2, <2>3
<1>5. Turns(m, t) = CHOOSE f : f = Def(f)
  BY DEF Turns
<1>6. Turns(m, t) = Def(Turns(m, t))
  <2> HIDE DEF Def
  <2> QED BY <1>4, <1>5
<1> QED BY <1>6 DEF TurnOf

-----------------------------------------------------------------------------
(* What update keeps, and that its loop ends.                               *)

\* Turns follow each other.
LEMMA KeepsAgain == ASSUME NEW m, NEW k, NEW j, Keeps(m, k), Keeps(k, j) PROVE Keeps(m, j)
  BY DEF Keeps

\* After k turns.
LEMMA TurnsKeep ==
  ASSUME NEW m, IsManager(m), NEW t, NEW k \in Nat
  PROVE  /\ Keeps(m, Turns(m, t)[k].m)
         /\ Turns(m, t)[k].again => Cardinality(Recharging(Turns(m, t)[k].m)) + k < Cardinality(Nodes)
<1> DEFINE r(i) == Turns(m, t)[i]
           C(i) == Cardinality(Recharging(r(i).m))
           Good(i) == Keeps(m, r(i).m) /\ (r(i).again => C(i) + i < Cardinality(Nodes))
           Bad == {i \in Nat : ~Good(i)}
<1>1. /\ r(0) = Turn(m, t)
      /\ \A i \in Nat : i # 0 => r(i) = IF r(i - 1).again THEN Turn(r(i - 1).m, t) ELSE r(i - 1)
  BY TurnsUnfold DEF TurnOf
<1> HIDE DEF r
<1>2. /\ IsFiniteSet(Nodes) /\ Cardinality(Nodes) \in Nat
      /\ \A j : Recharging(j) \in SUBSET j.nodes
  BY ManagerConstants, FS_CardinalityType DEF Recharging
<1>3. ASSUME NEW j, NEW l, IsManager(j), Keeps(j, l), Recharging(l) # Recharging(j)
      PROVE  /\ Cardinality(Recharging(l)) \in Nat /\ Cardinality(Recharging(j)) \in Nat
             /\ Cardinality(Recharging(l)) < Cardinality(Recharging(j))
             /\ Cardinality(Recharging(j)) <= Cardinality(Nodes)
  <2>1. Recharging(j) \subseteq Nodes /\ Recharging(l) \subseteq Recharging(j)
    BY <1>2, <1>3 DEF IsManager, Keeps
  <2>2. IsFiniteSet(Recharging(j)) /\ Cardinality(Recharging(j)) <= Cardinality(Nodes)
    BY <1>2, <2>1, FS_Subset
  <2>3. IsFiniteSet(Recharging(l)) /\ Cardinality(Recharging(l)) <= Cardinality(Recharging(j))
        /\ (Cardinality(Recharging(j)) = Cardinality(Recharging(l)) => Recharging(l) = Recharging(j))
    BY <2>1, <2>2, FS_Subset
  <2> QED BY <1>3, <2>2, <2>3, FS_CardinalityType
<1>4. Good(0)
  <2>1. Keeps(m, r(0).m) /\ (r(0).again => Recharging(r(0).m) # Recharging(m))
    BY <1>1, TurnKeeps
  <2> QED BY <1>2, <1>3, <2>1
<1>5. ASSUME NEW i \in Nat, i # 0, Good(i - 1) PROVE Good(i)
  <2> DEFINE p == r(i - 1)
             q == r(i)
  <2>1. q = (IF p.again THEN Turn(p.m, t) ELSE p) /\ IsManager(p.m) /\ Keeps(m, p.m)
    BY <1>1, <1>5 DEF Keeps
  <2>2. p.again => C(i - 1) + (i - 1) < Cardinality(Nodes)
    BY <1>5
  <2> HIDE DEF p, q
  <2>3. CASE p.again
    <3>1. Keeps(p.m, q.m) /\ (q.again => Recharging(q.m) # Recharging(p.m))
      BY <2>1, <2>3, TurnKeeps
    <3>2. Keeps(m, q.m)
      BY <2>1, <3>1, KeepsAgain
    <3>3. q.again => C(i) < C(i - 1) /\ C(i) \in Nat /\ C(i - 1) \in Nat
      BY <1>3, <2>1, <3>1 DEF p, q
    <3>4. q.again => C(i) + i < Cardinality(Nodes)
      <4> HIDE DEF C
      <4> QED BY <1>2, <2>2, <2>3, <3>3
    <3> QED BY <3>2, <3>4 DEF q
  <2>4. CASE ~p.again
    <3>1. q = p
      BY <2>1, <2>4
    <3> QED BY <2>1, <2>4, <3>1 DEF q
  <2> QED BY <2>3, <2>4
<1> HIDE DEF Good
<1>6. SUFFICES ASSUME Bad # {} PROVE FALSE
  BY DEF Good, r
<1>7. PICK i \in Bad : i = 0 \/ (i - 1 \in Nat /\ i - 1 \notin Bad)
  <2>1. Bad \in SUBSET Nat
    OBVIOUS
  <2> HIDE DEF Bad
  <2> QED BY <1>6, <2>1, LeastNumber
<1> QED BY <1>4, <1>5, <1>7

\* The loop of update ends: every turn but the last ends a recharge and none begins one,
\* so that Cardinality(Nodes) further turns are enough, whatever the times and charges.
THEOREM UpdateEnds ==
  ASSUME NEW m, IsManager(m), NEW t
  PROVE  ~Turns(m, t)[Cardinality(Nodes)].again
<1> DEFINE N == Cardinality(Nodes)
           j == Turns(m, t)[N].m
<1>1. N \in Nat
  BY ManagerConstants, FS_CardinalityType
<1>2. Keeps(m, j) /\ (Turns(m, t)[N].again => Cardinality(Recharging(j)) + N < N)
  <2> HIDE DEF N
  <2> QED BY <1>1, TurnsKeep DEF N
<1>3. Recharging(j) \subseteq Nodes
  BY <1>2 DEF Keeps, IsManager, Recharging
<1>4. Cardinality(Recharging(j)) \in Nat
  BY <1>3, ManagerConstants, FS_Subset, FS_CardinalityType
<1> HIDE DEF N, j
<1>5. ~Turns(m, t)[N].again
  BY <1>1, <1>2, <1>4
<1> QED BY <1>5 DEF N

\* So update as a whole keeps who is served and leaves sumWeight right.
LEMMA UpdateKeeps == ASSUME NEW m, IsManager(m), NEW t PROVE Keeps(m, Update(m, t))
  BY TurnsKeep, ManagerConstants, FS_CardinalityType DEF Update

-----------------------------------------------------------------------------
(* The counters.                                                            *)

\* The clients that are being served.
Served(m) == {n \in Nodes : m.node[n].serving}

\* simReqCnt is right.
Counted(m) == IsManager(m) /\ m.simReqCnt = Cardinality(Served(m))

\* sumWeight is right.
Weighed(m) == m.sumWeight = Cardinality(Recharging(m))

\* From m to k only the client n has changed.
OthersStay(m, k, n) == k.nodes = m.nodes /\ \A i \in Nodes \ {n} : k.node[i].serving = m.node[i].serving

\* Update keeps the counter right.
LEMMA UpdateCounts ==
  ASSUME NEW m, Counted(m), NEW t
  PROVE  /\ Counted(Update(m, t)) /\ Weighed(Update(m, t)) /\ Update(m, t).nodes = m.nodes
         /\ \A n \in Nodes : Update(m, t).node[n].serving = m.node[n].serving
<1> DEFINE k == Update(m, t)
<1>1. Keeps(m, k)
  BY UpdateKeeps DEF Counted
<1> HIDE DEF k
<1>2. Served(k) = Served(m)
  BY <1>1 DEF Keeps, Served
<1>3. Counted(k) /\ Weighed(k) /\ k.nodes = m.nodes /\ \A n \in Nodes : k.node[n].serving = m.node[n].serving
  BY <1>1, <1>2 DEF Counted, Weighed, Keeps
<1> QED BY <1>3 DEF k

\* One client begins or ends to be served, and the counter follows.
LEMMA OneChanges ==
  ASSUME NEW m, Counted(m), NEW k, IsManager(k), NEW n \in Nodes, OthersStay(m, k, n), NEW s \in BOOLEAN,
         k.node[n].serving = s, m.node[n].serving = ~s,
         k.simReqCnt = IF s THEN m.simReqCnt + 1 ELSE m.simReqCnt - 1
  PROVE  Counted(k)
<1>1. IsFiniteSet(Served(m)) /\ IsFiniteSet(Served(k)) /\ Cardinality(Served(m)) \in Nat /\ Cardinality(Served(k)) \in Nat
  <2>1. Served(m) \subseteq Nodes /\ Served(k) \subseteq Nodes
    BY DEF Served
  <2> QED BY <2>1, ManagerConstants, FS_Subset, FS_CardinalityType
<1>2. CASE s = TRUE
  <2>1. Served(k) = Served(m) \cup {n} /\ n \notin Served(m)
    BY <1>2 DEF Served, OthersStay
  <2>2. Cardinality(Served(k)) = Cardinality(Served(m)) + 1
    BY <1>1, <2>1, FS_AddElement
  <2> QED BY <1>2, <2>2 DEF Counted
<1>3. CASE s = FALSE
  <2>1. Served(k) = Served(m) \ {n} /\ n \in Served(m)
    BY <1>3 DEF Served, OthersStay
  <2>2. Cardinality(Served(k)) = Cardinality(Served(m)) - 1
    BY <1>1, <2>1, FS_RemoveElement
  <2> QED BY <1>3, <2>2 DEF Counted
<1> QED BY <1>2, <1>3

\* An assignment to one client keeps the shape of the manager.
LEMMA AssignNode ==
  ASSUME NEW m, IsManager(m), NEW n \in Nodes, NEW nd, IsNode(nd)
  PROVE  LET k == [m EXCEPT !.node[n] = nd]
         IN  /\ IsManager(k) /\ k.simReqCnt = m.simReqCnt /\ k.nodes = m.nodes /\ k.node[n] = nd
             /\ \A i \in Nodes \ {n} : k.node[i] = m.node[i]
<1> DEFINE nodes == [m.node EXCEPT ![n] = nd]
           k == [m EXCEPT !.node[n] = nd]
<1>1. /\ nodes = [i \in Nodes |-> nodes[i]] /\ nodes[n] = nd
      /\ \A i \in Nodes \ {n} : nodes[i] = m.node[i]
  BY DEF IsManager
<1>2. k = [m EXCEPT !.node = nodes]
  BY DEF IsManager
<1> HIDE DEF nodes, k
<1>3. k = [node |-> nodes, nodes |-> m.nodes, simReqCnt |-> m.simReqCnt, sumWeight |-> m.sumWeight,
           rcSumValue |-> m.rcSumValue, time |-> m.time]
  BY <1>2 DEF IsManager
<1>4. \A i \in Nodes : IsNode(nodes[i])
  BY <1>1 DEF IsManager
<1>5. IsManager(k)
  BY <1>1, <1>3, <1>4 DEF IsManager
<1>6. /\ IsManager(k) /\ k.simReqCnt = m.simReqCnt /\ k.nodes = m.nodes /\ k.node[n] = nd
      /\ \A i \in Nodes \ {n} : k.node[i] = m.node[i]
  BY <1>1, <1>3, <1>5
<1> QED BY <1>6 DEF k

\* So do assignments to its counter and its set of clients.
LEMMA AssignField ==
  ASSUME NEW m, IsManager(m), NEW c \in Int, NEW ns \in SUBSET Nodes
  PROVE  /\ IsManager([m EXCEPT !.simReqCnt = c]) /\ [m EXCEPT !.simReqCnt = c].simReqCnt = c
         /\ [m EXCEPT !.simReqCnt = c].nodes = m.nodes /\ [m EXCEPT !.simReqCnt = c].node = m.node
         /\ IsManager([m EXCEPT !.nodes = ns]) /\ [m EXCEPT !.nodes = ns].simReqCnt = m.simReqCnt
         /\ [m EXCEPT !.nodes = ns].nodes = ns /\ [m EXCEPT !.nodes = ns].node = m.node
<1>1. /\ [m EXCEPT !.simReqCnt = c] = [node |-> m.node, nodes |-> m.nodes, simReqCnt |-> c, sumWeight |-> m.sumWeight,
                                       rcSumValue |-> m.rcSumValue, time |-> m.time]
      /\ [m EXCEPT !.nodes = ns] = [node |-> m.node, nodes |-> ns, simReqCnt |-> m.simReqCnt, sumWeight |-> m.sumWeight,
                                    rcSumValue |-> m.rcSumValue, time |-> m.time]
  BY DEF IsManager
<1> QED BY <1>1 DEF IsManager

\* accept: the client is served from now on.
LEMMA StartCounts ==
  ASSUME NEW m, Counted(m), NEW n \in Nodes, ~m.node[n].serving
  PROVE  Counted(Start(m, n)) /\ Weighed(Start(m, n)) /\ OthersStay(m, Start(m, n), n)
<1> DEFINE m1 == [m EXCEPT !.simReqCnt = @ + 1]
           nd == set(m1.node[n], TRUE, m1.simReqCnt, m1.sumWeight)
           m2 == [m1 EXCEPT !.node[n] = nd]
           nd2 == [m2.node[n] EXCEPT !.startValue = m2.node[n].rcValue]
           m3 == [m2 EXCEPT !.node[n] = nd2]
<1>1. IsManager(m1) /\ m1.simReqCnt = m.simReqCnt + 1 /\ m1.nodes = m.nodes /\ m1.node = m.node
  <2>1. m.simReqCnt + 1 \in Int /\ m.nodes \in SUBSET Nodes
    BY DEF Counted, IsManager
  <2> DEFINE c == m.simReqCnt + 1
  <2>2. m1 = [m EXCEPT !.simReqCnt = c]
    OBVIOUS
  <2> HIDE DEF c, m1
  <2> QED BY <2>1, <2>2, AssignField DEF Counted, c
<1>2. Start(m, n) = Update([m2 EXCEPT !.node[n].startValue = m2.node[n].rcValue], m2.time)
  BY DEF Start
<1> HIDE DEF m1
<1>3. IsNode(nd) /\ nd.serving = TRUE
  <2>1. IsNode(m1.node[n])
    BY <1>1 DEF IsManager
  <2> QED BY <2>1, SetKeeps
<1> HIDE DEF nd
<1>4. IsManager(m2) /\ m2.simReqCnt = m1.simReqCnt /\ m2.nodes = m1.nodes /\ m2.node[n] = nd
      /\ \A i \in Nodes \ {n} : m2.node[i] = m1.node[i]
  BY <1>1, <1>3, AssignNode
<1>5. [m2 EXCEPT !.node[n].startValue = m2.node[n].rcValue] = m3
  <2> HIDE DEF m2
  <2> QED BY <1>4 DEF IsManager
<1> HIDE DEF m2
<1>6. IsNode(nd2) /\ nd2.serving = TRUE
  BY <1>3, <1>4 DEF IsNode
<1> HIDE DEF nd2
<1>7. IsManager(m3) /\ m3.simReqCnt = m2.simReqCnt /\ m3.nodes = m2.nodes /\ m3.node[n] = nd2
      /\ \A i \in Nodes \ {n} : m3.node[i] = m2.node[i]
  BY <1>4, <1>6, AssignNode
<1> HIDE DEF m3
<1>8. OthersStay(m, m3, n)
  BY <1>1, <1>4, <1>7 DEF OthersStay
<1>9. m.node[n].serving = FALSE /\ m3.node[n].serving = TRUE /\ m3.simReqCnt = m.simReqCnt + 1
  BY <1>1, <1>4, <1>6, <1>7 DEF Counted, IsManager, IsNode
<1>10. Counted(m3)
  BY <1>7, <1>8, <1>9, OneChanges
<1> QED BY <1>2, <1>5, <1>8, <1>10, UpdateCounts DEF OthersStay

\* stop: the client is not served any more.
LEMMA StopCounts ==
  ASSUME NEW m, Counted(m), NEW n \in Nodes, NEW t
  PROVE  /\ Counted(stop(m, n, t)) /\ (Weighed(m) => Weighed(stop(m, n, t)))
         /\ OthersStay(m, stop(m, n, t), n) /\ ~stop(m, n, t).node[n].serving
<1>1. CASE ~m.node[n].serving
  BY <1>1 DEF stop, OthersStay
<1>2. CASE m.node[n].serving
  <2> DEFINE m1 == Update(m, t)
             m2 == [m1 EXCEPT !.simReqCnt = @ - 1]
             nd == set(m2.node[n], FALSE, m2.simReqCnt, m2.sumWeight)
             m3 == [m2 EXCEPT !.node[n] = nd]
  <2>1. stop(m, n, t) = Update(m3, t)
    BY <1>2 DEF stop
  <2>2. Counted(m1) /\ m1.nodes = m.nodes /\ \A i \in Nodes : m1.node[i].serving = m.node[i].serving
    BY UpdateCounts
  <2> HIDE DEF m1
  <2>3. IsManager(m2) /\ m2.simReqCnt = m1.simReqCnt - 1 /\ m2.nodes = m1.nodes /\ m2.node = m1.node
    <3>1. m1.simReqCnt - 1 \in Int /\ m1.nodes \in SUBSET Nodes
      BY <2>2 DEF Counted, IsManager
    <3> DEFINE c == m1.simReqCnt - 1
    <3>2. m2 = [m1 EXCEPT !.simReqCnt = c]
      OBVIOUS
    <3> HIDE DEF c, m2
    <3> QED BY <2>2, <3>1, <3>2, AssignField DEF Counted, c
  <2> HIDE DEF m2
  <2>4. IsNode(nd) /\ nd.serving = FALSE
    <3>1. IsNode(m2.node[n])
      BY <2>3 DEF IsManager
    <3>2. PICK s, x, c, w : s = FALSE /\ x = m2.node[n] /\ nd = set(x, s, c, w)
      OBVIOUS
    <3> HIDE DEF nd
    <3>3. IsNode(x) /\ s \in BOOLEAN
      BY <3>1, <3>2
    <3>4. IsNode(set(x, s, c, w)) /\ set(x, s, c, w).serving = s
      BY ONLY <3>3, SetKeeps
    <3> QED BY <3>2, <3>4
  <2> HIDE DEF nd
  <2>5. IsManager(m3) /\ m3.simReqCnt = m2.simReqCnt /\ m3.nodes = m2.nodes /\ m3.node[n] = nd
        /\ \A i \in Nodes \ {n} : m3.node[i] = m2.node[i]
    BY <2>3, <2>4, AssignNode
  <2> HIDE DEF m3
  <2>6. OthersStay(m1, m3, n) /\ OthersStay(m, m3, n)
    BY <2>2, <2>3, <2>5 DEF OthersStay
  <2>7. m1.node[n].serving = TRUE /\ m3.node[n].serving = FALSE /\ m3.simReqCnt = m1.simReqCnt - 1
    BY <1>2, <2>2, <2>3, <2>4, <2>5 DEF Counted, IsManager, IsNode
  <2>8. Counted(m3)
    BY <2>2, <2>5, <2>6, <2>7, OneChanges
  <2> QED BY <2>1, <2>6, <2>7, <2>8, UpdateCounts DEF OthersStay
<1> QED BY <1>1, <1>2

-----------------------------------------------------------------------------
(* The inductive invariant: a client is served only while its handler is at  *)
(* work for it, and whom queueProc took from the queue waits for it.         *)

\* Where a handler may be.
HandlerStates == {"gone", "joining", "idle", "arrived", "queueing", "resuming", "resumed", "serving", "done"}

\* Both counters are right, and a served client has a handler that will stop it.
LoadInv ==
  /\ Counted(cm) /\ pc \in [Nodes -> HandlerStates]
  /\ \A n \in Nodes : cm.node[n].serving => pc[n] \in {"serving", "done"}
  /\ head # "none" => head \in Nodes /\ pc[head] = "resuming"
  /\ closed \/ Weighed(cm)

\* The invariant holds when the manager is created.
LEMMA LoadInit == ManagerInit => LoadInv
<1> SUFFICES ASSUME ManagerInit PROVE LoadInv
  OBVIOUS
<1>1. \A n \in Nodes : cm.node[n] = NewNode(0)
  BY DEF ManagerInit
<1>2. IsManager(cm)
  BY <1>1, NewNodeIsNode DEF ManagerInit, IsManager
<1>3. Served(cm) = {} /\ Recharging(cm) = {} /\ Cardinality({}) = 0
  BY <1>1, NewNodeIsNode, FS_EmptySet DEF Served, Recharging, ManagerInit
<1>4. Counted(cm) /\ Weighed(cm)
  BY <1>2, <1>3 DEF Counted, Weighed, ManagerInit
<1> QED BY <1>1, <1>4, NewNodeIsNode DEF LoadInv, ManagerInit, HandlerStates

\* A step of the handler of n to the point p, while nobody else is affected.
LEMMA HandlerKeeps ==
  ASSUME LoadInv, NEW n \in Nodes, NEW p \in HandlerStates, HandlerTo(n, p), pc[n] # "resuming", head' = head,
         Counted(cm'), closed' = closed, closed \/ Weighed(cm'),
         \A i \in Nodes \ {n} : cm'.node[i].serving = cm.node[i].serving,
         cm'.node[n].serving => p \in {"serving", "done"}
  PROVE  LoadInv'
<1>1. pc' \in [Nodes -> HandlerStates] /\ pc'[n] = p /\ \A i \in Nodes \ {n} : pc'[i] = pc[i]
  BY DEF LoadInv, HandlerTo
<1>2. \A i \in Nodes : cm'.node[i].serving => pc'[i] \in {"serving", "done"}
  BY <1>1 DEF LoadInv
<1>3. head' # "none" => head' \in Nodes /\ pc'[head'] = "resuming"
  BY <1>1 DEF LoadInv
<1> QED BY <1>1, <1>2, <1>3 DEF LoadInv

\* Every step of a handler, of queueProc and of Stop keeps the invariant.
LEMMA LoadNext == LoadInv /\ [ManagerNext]_managerVars => LoadInv'
<1> SUFFICES ASSUME LoadInv, [ManagerNext]_managerVars PROVE LoadInv'
  OBVIOUS
<1>0. Counted(cm) /\ IsManager(cm) /\ pc \in [Nodes -> HandlerStates] /\ (closed \/ Weighed(cm))
  BY DEF LoadInv, Counted
<1>1. CASE Tick
  BY <1>1 DEF Tick, LoadInv
<1>2. CASE UNCHANGED managerVars
  BY <1>2 DEF managerVars, LoadInv
<1>3. CASE Resume
  <2> DEFINE m == Update(cm, now)
  <2>1. cm' = m /\ closed' = closed
    BY <1>3 DEF Resume
  <2>2. Counted(m) /\ Weighed(m) /\ \A i \in Nodes : m.node[i].serving = cm.node[i].serving
    BY <1>0, UpdateCounts
  <2>3. CASE UNCHANGED <<head, pc>>
    BY <2>1, <2>2, <2>3 DEF LoadInv
  <2>4. CASE head' = "none" /\ pc' = [pc EXCEPT ![head] = "resumed"]
    <3>1. head \in Nodes /\ pc[head] = "resuming"
      BY <1>3 DEF Resume, LoadInv
    <3>2. pc' \in [Nodes -> HandlerStates]
      BY <1>0, <2>4, <3>1 DEF HandlerStates
    <3>3. \A i \in Nodes : cm'.node[i].serving => pc'[i] \in {"serving", "done"}
      BY <1>0, <2>1, <2>2, <2>4, <3>1 DEF LoadInv
    <3> QED BY <2>1, <2>2, <2>4, <3>2, <3>3 DEF LoadInv
  <2> QED BY <1>3, <2>3, <2>4 DEF Resume
<1>4. CASE StopManager
  <2>1. cm' = [cm EXCEPT !.nodes = {}] /\ closed' = TRUE /\ UNCHANGED <<pc, head>>
    BY <1>4 DEF StopManager
  <2>2. IsManager(cm') /\ cm'.simReqCnt = cm.simReqCnt /\ cm'.node = cm.node
    <3>1. {} \in SUBSET Nodes /\ 0 \in Int
      OBVIOUS
    <3> QED BY <1>0, <2>1, <3>1, AssignField
  <2>3. Counted(cm')
    BY <1>0, <2>2 DEF Counted, Served
  <2> QED BY <2>1, <2>2, <2>3 DEF LoadInv
<1>5. ASSUME NEW n \in Nodes, HandlerStep(n) PROVE LoadInv'
  <2>1. ASSUME NEW from, NEW to \in HandlerStates, ReadClock(n, from, to), from # "resuming",
               to = "done" \/ from \in {"gone", "idle"}
        PROVE  LoadInv'
    <3>1. pc[n] # "resuming" /\ HandlerTo(n, to) /\ UNCHANGED <<cm, head, closed>>
      BY <2>1 DEF ReadClock
    <3>2. cm.node[n].serving => to \in {"serving", "done"}
      BY <2>1 DEF ReadClock, LoadInv
    <3> QED BY <1>0, <3>1, <3>2, HandlerKeeps
  <2>2. CASE addNode(n)
    <3> DEFINE nd == NewNode(at[n])
               m1 == [cm EXCEPT !.node[n] = nd]
               m2 == [m1 EXCEPT !.nodes = m1.nodes \cup {n}]
    <3>1. cm' = Update(m2, now) /\ pc[n] # "resuming" /\ HandlerTo(n, "idle") /\ UNCHANGED <<head, closed>>
          /\ ~cm.node[n].serving
      BY <2>2 DEF addNode, LoadInv
    <3>2. IsNode(nd) /\ ~nd.serving
      BY NewNodeIsNode
    <3> HIDE DEF nd
    <3>3. IsManager(m1) /\ m1.simReqCnt = cm.simReqCnt /\ m1.nodes = cm.nodes /\ m1.node[n] = nd
          /\ \A i \in Nodes \ {n} : m1.node[i] = cm.node[i]
      BY <1>0, <3>2, AssignNode
    <3> HIDE DEF m1
    <3>4. IsManager(m2) /\ m2.simReqCnt = cm.simReqCnt /\ m2.node = m1.node
      <4>1. m1.nodes \cup {n} \in SUBSET Nodes /\ 0 \in Int
        BY <3>3 DEF IsManager
      <4> QED BY <3>3, <4>1, AssignField
    <3> HIDE DEF m2
    <3>5. Served(m2) = Served(cm)
      BY <3>1, <3>2, <3>3, <3>4 DEF Served
    <3>6. Counted(m2)
      BY <1>0, <3>4, <3>5 DEF Counted
    <3>7. Counted(cm') /\ Weighed(cm') /\ \A i \in Nodes : cm'.node[i].serving = m2.node[i].serving
      BY <3>1, <3>6, UpdateCounts
    <3>8. ~cm'.node[n].serving /\ \A i \in Nodes \ {n} : cm'.node[i].serving = cm.node[i].serving
      BY <3>2, <3>3, <3>4, <3>7
    <3>9. "idle" \in HandlerStates
      BY DEF HandlerStates
    <3> QED BY <3>1, <3>7, <3>8, <3>9, HandlerKeeps
  <2>3. CASE Accept(n)
    <3> DEFINE m == Update(cm, at[n])
    <3>1. Counted(m) /\ Weighed(m) /\ \A i \in Nodes : m.node[i].serving = cm.node[i].serving
      BY <1>0, UpdateCounts
    <3>2. pc[n] # "resuming" /\ UNCHANGED <<head, closed>> /\ ~cm.node[n].serving
      BY <2>3 DEF Accept, LoadInv
    <3>3. \/ cm' = Start(m, n) /\ HandlerTo(n, "serving")
          \/ cm' = m /\ HandlerTo(n, "queueing")
      BY <2>3 DEF Accept
    <3> HIDE DEF m
    <3>4. {"serving", "queueing"} \subseteq HandlerStates
      BY DEF HandlerStates
    <3>5. CASE cm' = m /\ HandlerTo(n, "queueing")
      BY <3>1, <3>2, <3>4, <3>5, HandlerKeeps
    <3>6. CASE cm' = Start(m, n) /\ HandlerTo(n, "serving")
      <4>1. Counted(cm') /\ Weighed(cm') /\ OthersStay(m, cm', n)
        BY <3>1, <3>2, <3>6, StartCounts
      <4> QED BY <3>1, <3>2, <3>4, <3>6, <4>1, HandlerKeeps DEF OthersStay
    <3> QED BY <3>3, <3>5, <3>6
  <2>4. CASE Enqueue(n)
    <3>1. pc' = [pc EXCEPT ![n] = "resuming"] /\ head' = n /\ UNCHANGED <<cm, closed>> /\ pc[n] = "queueing"
      BY <2>4 DEF Enqueue, HandlerTo
    <3>2. pc' \in [Nodes -> HandlerStates] /\ pc'[n] = "resuming" /\ \A i \in Nodes \ {n} : pc'[i] = pc[i]
      BY <1>0, <3>1 DEF HandlerStates
    <3> QED BY <3>1, <3>2 DEF LoadInv
  <2>5. CASE AcceptResumed(n)
    <3>1. pc[n] # "resuming" /\ UNCHANGED <<head, closed>> /\ ~cm.node[n].serving /\ HandlerTo(n, "serving")
          /\ (cm' = Start(cm, n) \/ cm' = cm)
      BY <2>5 DEF AcceptResumed, LoadInv
    <3>2. "serving" \in HandlerStates
      BY DEF HandlerStates
    <3>3. Counted(cm') /\ (closed \/ Weighed(cm')) /\ OthersStay(cm, cm', n)
      BY <1>0, <3>1, StartCounts DEF OthersStay
    <3> QED BY <3>1, <3>2, <3>3, HandlerKeeps DEF OthersStay
  <2>6. CASE Processed(n)
    <3>1. pc[n] # "resuming" /\ UNCHANGED <<head, closed>> /\ HandlerTo(n, "idle") /\ cm' = stop(cm, n, at[n])
      BY <2>6 DEF Processed
    <3>2. "idle" \in HandlerStates
      BY DEF HandlerStates
    <3>3. Counted(cm') /\ (closed \/ Weighed(cm')) /\ OthersStay(cm, cm', n) /\ ~cm'.node[n].serving
      BY <1>0, <3>1, StopCounts
    <3> QED BY <3>1, <3>2, <3>3, HandlerKeeps DEF OthersStay
  <2>7. CASE removeNode(n)
    <3> DEFINE m == stop(cm, n, now)
               ns == m.nodes \ {n}
               m1 == [m EXCEPT !.nodes = ns]
    <3>1. pc[n] # "resuming" /\ UNCHANGED <<head, closed>> /\ HandlerTo(n, "gone") /\ cm' = Update(m1, now)
      BY <2>7 DEF removeNode
    <3>2. Counted(m) /\ OthersStay(cm, m, n) /\ ~m.node[n].serving
      BY <1>0, StopCounts
    <3> HIDE DEF m
    <3>3. IsManager(m1) /\ m1.simReqCnt = m.simReqCnt /\ m1.node = m.node
      <4>1. ns \in SUBSET Nodes /\ 0 \in Int /\ IsManager(m)
        BY <3>2 DEF IsManager, Counted
      <4> HIDE DEF ns
      <4> QED BY <4>1, AssignField
    <3> HIDE DEF m1
    <3>4. Counted(m1)
      BY <3>2, <3>3 DEF Counted, Served
    <3>5. Counted(cm') /\ Weighed(cm') /\ \A i \in Nodes : cm'.node[i].serving = m1.node[i].serving
      BY <3>1, <3>4, UpdateCounts
    <3>6. ~cm'.node[n].serving /\ \A i \in Nodes \ {n} : cm'.node[i].serving = cm.node[i].serving
      BY <3>2, <3>3, <3>5 DEF OthersStay
    <3>7. "gone" \in HandlerStates
      BY DEF HandlerStates
    <3> QED BY <3>1, <3>5, <3>6, <3>7, HandlerKeeps
  <2>8. {"joining", "arrived", "done"} \subseteq HandlerStates
    BY DEF HandlerStates
  <2> QED BY <1>5, <2>1, <2>2, <2>3, <2>4, <2>5, <2>6, <2>7, <2>8 DEF HandlerStep
<1> QED BY <1>1, <1>2, <1>3, <1>4, <1>5 DEF ManagerNext

\* The unsigned counters of the light server's manager are right whatever its clients,
\* their number and the limits: nobody's request is counted twice or given back twice,
\* and no client that left is served.
THEOREM LoadAlwaysCounted == ManagerSpec => []LoadIsCounted
<1>1. LoadInv => LoadIsCounted
  BY DEF LoadInv, LoadIsCounted, ServingIsCounted, GoneIsNotServed, SumsAreUpToDate, Counted, Weighed, Served
<1> QED BY <1>1, LoadInit, LoadNext, PTL DEF ManagerSpec
=============================================================================
