----------------------------- MODULE SyncProofs ------------------------------
(***************************************************************************)
(* How the host client follows the chain, for every set of peers: the       *)
(* headers of any number of skeletons reach the processor once and in       *)
(* order, the block fetcher keeps its books, the download queue has each    *)
(* part in one place, and the peer server knows the peers that run.         *)
(*                                                                         *)
(* That all headers arrive rests on where each batch is: in the queue, with *)
(* one peer, or there.  The queue may then be empty with no request pending *)
(* only if all is there, so that what is sent last closes the round; and a  *)
(* batch of an older round is nowhere, because a round ends with no request *)
(* pending.                                                                 *)
(*                                                                         *)
(* That the dialer neither forgets a node nor dials too many rests on its   *)
(* marks: each is one task that runs or waits, a connection that was        *)
(* dialled belongs to such a task until it is set up, and newTasks makes a  *)
(* task whenever nothing runs and something is to be dialled.               *)
(***************************************************************************)
EXTENDS Skeleton, Fetcher, DownloadQueue, PeerServer, SequenceTheorems, FiniteSetTheorems, WellFoundedInduction, NaturalsInduction, TLAPS

-----------------------------------------------------------------------------
(* Least and greatest numbers, insertion and removal.                       *)

\* A non-empty set of numbers has the minimum that Min chooses.
LEMMA MinIsLeast ==
  ASSUME NEW S \in SUBSET Nat, S # {}
  PROVE  Min(S) \in S /\ \A y \in S : Min(S) <= y
<1> DEFINE Less == {ss \in Nat \X Nat : ss[1] < ss[2]}
<1>1. OpToRel(<, Nat) = Less
  BY Zenon DEF OpToRel
<1>2. \E x \in S : \A y \in S : ~(<<y, x>> \in OpToRel(<, Nat))
  BY NatLessThanWellFounded, WFMin, Zenon
<1>3. PICK x \in S : \A y \in S : ~(<<y, x>> \in Less)
  BY <1>1, <1>2, Zenon
<1>4. ASSUME NEW y \in S PROVE x <= y
  <2>1. <<y, x>> \in Nat \X Nat /\ <<y, x>>[1] = y /\ <<y, x>>[2] = x
    OBVIOUS
  <2>2. ~(y < x)
    BY <1>3, <2>1, Zenon
  <2> QED BY <2>2
<1> QED BY <1>4 DEF Min

\* A non-empty set of numbers up to n has the maximum that Max chooses.
LEMMA MaxIsGreatest ==
  ASSUME NEW n \in Nat, NEW S \in SUBSET (0..n), S # {}
  PROVE  Max(S) \in S /\ \A y \in S : y <= Max(S)
<1> DEFINE T == {n - x : x \in S}
<1>1. T \in SUBSET Nat /\ T # {}
  <2>1. \A x \in S : x \in Nat /\ x <= n /\ n - x \in Nat
    OBVIOUS
  <2> QED BY <2>1
<1> HIDE DEF T
<1>2. Min(T) \in T /\ \A y \in T : Min(T) <= y
  BY <1>1, MinIsLeast
<1>3. PICK x \in S : Min(T) = n - x
  BY <1>2 DEF T
<1>4. \A y \in S : y <= x
  BY <1>2, <1>3 DEF T
<1> QED BY <1>4 DEF Max

\* InsertAt moves what is behind by one place.
LEMMA InsertAtProperties ==
  ASSUME NEW q \in Seq(Int), NEW e \in Int, NEW k \in 1..(Len(q) + 1)
  PROVE  /\ InsertAt(q, k, e) \in Seq(Int)
         /\ Len(InsertAt(q, k, e)) = Len(q) + 1
         /\ \A i \in 1..(k - 1) : InsertAt(q, k, e)[i] = q[i]
         /\ InsertAt(q, k, e)[k] = e
         /\ \A i \in (k + 1)..(Len(q) + 1) : InsertAt(q, k, e)[i] = q[i - 1]
<1>1. Len(q) \in Nat /\ \A i \in 1..Len(q) : q[i] \in Int
  BY LenProperties, ElementOfSeq
<1> DEFINE l == SubSeq(q, 1, k - 1)
           r == SubSeq(q, k, Len(q))
<1>2. l \in Seq(Int) /\ Len(l) = k - 1 /\ \A i \in 1..(k - 1) : l[i] = q[i]
  BY <1>1, SubSeqProperties
<1>3. r \in Seq(Int) /\ Len(r) = Len(q) - k + 1 /\ \A i \in 1..(Len(q) - k + 1) : r[i] = q[k + i - 1]
  BY <1>1, SubSeqProperties
<1> HIDE DEF l, r
<1>4. <<e>> \in Seq(Int) /\ Len(<<e>>) = 1 /\ <<e>>[1] = e
  OBVIOUS
<1>5. /\ l \o <<e>> \in Seq(Int) /\ Len(l \o <<e>>) = k
      /\ \A i \in 1..k : (l \o <<e>>)[i] = IF i <= k - 1 THEN l[i] ELSE <<e>>[i - (k - 1)]
  <2>1. /\ l \o <<e>> \in Seq(Int) /\ Len(l \o <<e>>) = Len(l) + Len(<<e>>)
        /\ \A i \in 1..(Len(l) + Len(<<e>>)) :
              (l \o <<e>>)[i] = IF i <= Len(l) THEN l[i] ELSE <<e>>[i - Len(l)]
    BY <1>2, <1>4, ConcatProperties, Zenon
  <2>2. Len(l) + Len(<<e>>) = k
    BY <1>2, <1>4
  <2> QED BY <1>2, <2>1, <2>2, Zenon
<1>6. /\ (l \o <<e>>) \o r \in Seq(Int) /\ Len((l \o <<e>>) \o r) = Len(q) + 1
      /\ \A i \in 1..(Len(q) + 1) : ((l \o <<e>>) \o r)[i] = IF i <= k THEN (l \o <<e>>)[i] ELSE r[i - k]
  <2> DEFINE m == l \o <<e>>
  <2>1. m \in Seq(Int) /\ Len(m) = k
    BY <1>5
  <2> HIDE DEF m
  <2>2. /\ m \o r \in Seq(Int) /\ Len(m \o r) = Len(m) + Len(r)
        /\ \A i \in 1..(Len(m) + Len(r)) : (m \o r)[i] = IF i <= Len(m) THEN m[i] ELSE r[i - Len(m)]
    BY <1>3, <2>1, ConcatProperties
  <2>3. Len(m) + Len(r) = Len(q) + 1
    BY <1>1, <1>3, <2>1
  <2> QED BY <2>1, <2>2, <2>3 DEF m
<1>7. InsertAt(q, k, e) = (l \o <<e>>) \o r
  BY DEF InsertAt, l, r
<1>8. \A i \in 1..(k - 1) : ((l \o <<e>>) \o r)[i] = q[i]
  <2> SUFFICES ASSUME NEW i \in 1..(k - 1) PROVE ((l \o <<e>>) \o r)[i] = q[i]
    OBVIOUS
  <2>1. i \in 1..k /\ i \in 1..(Len(q) + 1) /\ i <= k /\ i <= k - 1
    BY <1>1
  <2>2. (l \o <<e>>)[i] = l[i]
    BY <1>5, <2>1
  <2> QED BY <1>2, <1>6, <2>1, <2>2
<1>9. ((l \o <<e>>) \o r)[k] = e
  BY <1>1, <1>4, <1>5, <1>6
<1>10. ASSUME NEW i \in (k + 1)..(Len(q) + 1)
       PROVE  ((l \o <<e>>) \o r)[i] = q[i - 1]
  <2>1. i - k \in 1..(Len(q) - k + 1) /\ k + (i - k) - 1 = i - 1 /\ i \in 1..(Len(q) + 1) /\ ~(i <= k)
    BY <1>1
  <2> QED BY <1>3, <1>6, <2>1
<1> QED BY <1>6, <1>7, <1>8, <1>9, <1>10

\* RemoveAt moves them back.
LEMMA RemoveAtProperties ==
  ASSUME NEW S, NEW q \in Seq(S), NEW k \in 1..Len(q)
  PROVE  /\ RemoveAt(q, k) \in Seq(S)
         /\ Len(RemoveAt(q, k)) = Len(q) - 1
         /\ \A i \in 1..(Len(q) - 1) : RemoveAt(q, k)[i] = IF i < k THEN q[i] ELSE q[i + 1]
<1>1. Len(q) \in Nat /\ \A i \in 1..Len(q) : q[i] \in S
  BY LenProperties, ElementOfSeq
<1> DEFINE l == SubSeq(q, 1, k - 1)
           r == SubSeq(q, k + 1, Len(q))
<1>2. l \in Seq(S) /\ Len(l) = k - 1 /\ \A i \in 1..(k - 1) : l[i] = q[i]
  BY <1>1, SubSeqProperties
<1>3. r \in Seq(S) /\ Len(r) = Len(q) - k /\ \A i \in 1..(Len(q) - k) : r[i] = q[k + i]
  <2>1. \A i \in (k + 1)..Len(q) : q[i] \in S
    BY <1>1
  <2>2. /\ r \in Seq(S) /\ Len(r) = IF k + 1 <= Len(q) THEN Len(q) - (k + 1) + 1 ELSE 0
        /\ \A i \in 1..(Len(q) - (k + 1) + 1) : r[i] = q[(k + 1) + i - 1]
    BY <1>1, <2>1, SubSeqProperties
  <2> QED BY <1>1, <2>2
<1> HIDE DEF l, r
<1>4. /\ l \o r \in Seq(S) /\ Len(l \o r) = Len(q) - 1
      /\ \A i \in 1..(Len(q) - 1) : (l \o r)[i] = IF i <= k - 1 THEN l[i] ELSE r[i - (k - 1)]
  <2>1. k \in Int /\ (k - 1) + (Len(q) - k) = Len(q) - 1
    BY <1>1
  <2>2. /\ l \o r \in Seq(S) /\ Len(l \o r) = Len(l) + Len(r)
        /\ \A i \in 1..(Len(l) + Len(r)) : (l \o r)[i] = IF i <= Len(l) THEN l[i] ELSE r[i - Len(l)]
    BY <1>2, <1>3, ConcatProperties
  <2>3. Len(l) + Len(r) = Len(q) - 1
    BY <1>2, <1>3, <2>1
  <2> QED BY <1>2, <2>2, <2>3
<1>5. ASSUME NEW i \in 1..(Len(q) - 1)
      PROVE  (l \o r)[i] = IF i < k THEN q[i] ELSE q[i + 1]
  <2>1. CASE i < k
    <3>1. i \in 1..(k - 1) /\ i <= k - 1
      BY <1>1, <2>1
    <3> QED BY <1>2, <1>4, <2>1, <3>1
  <2>2. CASE i >= k
    <3>1. i - (k - 1) \in 1..(Len(q) - k) /\ k + (i - (k - 1)) = i + 1 /\ ~(i <= k - 1) /\ ~(i < k)
      BY <1>1, <2>2
    <3>2. (l \o r)[i] = r[i - (k - 1)]
      BY <1>4, <3>1
    <3>3. r[i - (k - 1)] = q[i + 1]
      BY <1>3, <3>1
    <3> QED BY <3>1, <3>2, <3>3
  <2>3. i < k \/ i >= k
    BY <1>1
  <2> QED BY <2>1, <2>2, <2>3, Zenon
<1> QED BY <1>4, <1>5 DEF RemoveAt, l, r

-----------------------------------------------------------------------------
(* Where a batch of the skeleton is.                                        *)

Once(q) == \A i, j \in 1..Len(q) : q[i] = q[j] => i = j
Elements(q) == {q[i] : i \in 1..Len(q)}

Waiting == Elements(headerTaskQueue)
Missing == Batches \ headerResults

SkeletonTypes ==
  /\ from \in Int /\ headerProced \in 0..Size
  /\ headerTaskQueue \in Seq(Int) /\ headerPendPool \in [Peers -> Int]
  /\ headerResults \subseteq Batches /\ forwarded \in Seq(Int)

\* What was forwarded is a run from the first batch on; how far it reaches.
Forwarded ==
  /\ \A i \in 1..Len(forwarded) : forwarded[i] = i
  /\ state = "idle" => Len(forwarded) = from + Size - 1
  /\ state # "idle" => from >= 1 /\ Len(forwarded) = from + headerProced - 1

\* No batch is queued twice, none is asked of two peers, and those queued or asked
\* for are those that are missing.
Places ==
  /\ Once(headerTaskQueue)
  /\ \A p, q \in Peers : headerPendPool[p] = headerPendPool[q] /\ headerPendPool[p] # none => p = q
  /\ \A p \in Peers : headerPendPool[p] # none => headerPendPool[p] \notin Waiting
  /\ \A b \in Int : b \in Missing <=> b \in Waiting \/ (b # none /\ \E p \in Peers : headerPendPool[p] = b)

\* Nothing is pending between rounds.
NothingPending == \A p \in Peers : headerPendPool[p] = none

SkeletonInv ==
  /\ SkeletonTypes /\ Forwarded
  /\ state = "filling" => Places
  /\ state \in {"idle", "rest"} => NothingPending
  /\ RoundIsComplete

\* A batch that is put back is queued once.
LEMMA PutBackProperties ==
  ASSUME headerTaskQueue \in Seq(Int), Once(headerTaskQueue), NEW b \in Int, b \notin Waiting
  PROVE  /\ PutBack(b) \in Seq(Int) /\ Once(PutBack(b))
         /\ Elements(PutBack(b)) = Waiting \cup {b}
<1> DEFINE q == headerTaskQueue
           n == Len(q)
<1>1. n \in Nat /\ DOMAIN q = 1..n
  BY LenProperties
<1>2. PICK k \in 1..(n + 1) : PutBack(b) = InsertAt(q, k, b)
  <2> DEFINE S == {i \in DOMAIN q : q[i] >= b} \cup {n + 1}
  <2>1. S \in SUBSET Nat /\ S # {} /\ S \subseteq 1..(n + 1)
    BY <1>1
  <2> HIDE DEF S
  <2>2. Min(S) \in S
    BY <2>1, MinIsLeast
  <2> QED BY <2>1, <2>2 DEF S, PutBack
<1> DEFINE r == InsertAt(q, k, b)
<1>4. /\ r \in Seq(Int)
      /\ Len(r) = n + 1
      /\ \A i \in 1..(k - 1) : r[i] = q[i]
      /\ r[k] = b
      /\ \A i \in (k + 1)..(n + 1) : r[i] = q[i - 1]
  BY <1>2, InsertAtProperties
<1> HIDE DEF r
<1>5. \A i \in 1..n : q[i] # b
  BY DEF Waiting, Elements
<1>6. Once(r)
  <2> SUFFICES ASSUME NEW i \in 1..(n + 1), NEW j \in 1..(n + 1), r[i] = r[j], i < j PROVE FALSE
    BY <1>1, <1>4 DEF Once
  <2>1. CASE j < k
    BY <1>1, <1>2, <1>4, <2>1 DEF Once
  <2>2. CASE j = k
    BY <1>1, <1>2, <1>4, <1>5, <2>2
  <2>3. CASE j > k /\ i = k
    <3>1. j - 1 \in 1..n /\ j \in (k + 1)..(n + 1)
      BY <1>1, <1>2, <2>3
    <3>2. r[j] = q[j - 1] /\ r[i] = b
      BY <1>4, <2>3, <3>1
    <3> QED BY <1>5, <3>1, <3>2
  <2>4. CASE j > k /\ i < k
    <3>1. j - 1 \in 1..n /\ i \in 1..n /\ r[j] = q[j - 1] /\ r[i] = q[i] /\ i # j - 1
      BY <1>1, <1>2, <1>4, <2>4
    <3> QED BY <3>1 DEF Once
  <2>5. CASE j > k /\ i > k
    <3>1. j - 1 \in 1..n /\ i - 1 \in 1..n /\ r[j] = q[j - 1] /\ r[i] = q[i - 1] /\ i - 1 # j - 1
      BY <1>1, <1>2, <1>4, <2>5
    <3> QED BY <3>1 DEF Once
  <2> QED BY <1>1, <1>2, <2>1, <2>2, <2>3, <2>4, <2>5
<1>7. Elements(r) = Waiting \cup {b}
  <2>1. ASSUME NEW i \in 1..(n + 1) PROVE r[i] \in Waiting \cup {b}
    <3>1. i < k => i \in 1..n /\ i \in 1..(k - 1)
      BY <1>1, <1>2
    <3>2. i > k => i - 1 \in 1..n /\ i \in (k + 1)..(n + 1)
      BY <1>1, <1>2
    <3>3. i < k \/ i = k \/ i > k
      BY <1>1, <1>2
    <3> QED BY <1>4, <3>1, <3>2, <3>3 DEF Waiting, Elements
  <2>2. ASSUME NEW i \in 1..n PROVE q[i] \in Elements(r)
    <3>1. CASE i < k
      <4>1. i \in 1..(n + 1) /\ r[i] = q[i]
        BY <1>1, <1>4, <3>1
      <4> QED BY <1>4, <4>1 DEF Elements
    <3>2. CASE i >= k
      <4>1. i + 1 \in 1..(n + 1) /\ i + 1 \in (k + 1)..(n + 1) /\ (i + 1) - 1 = i
        BY <1>1, <1>2, <3>2
      <4>2. r[i + 1] = q[i]
        BY <1>4, <4>1
      <4> QED BY <1>4, <4>1, <4>2 DEF Elements
    <3>3. i < k \/ i >= k
      BY <1>1, <1>2
    <3> QED BY <3>1, <3>2, <3>3
  <2>3. b \in Elements(r)
    BY <1>2, <1>4 DEF Elements
  <2>4. Elements(r) \subseteq Waiting \cup {b}
    BY <1>4, <2>1 DEF Elements
  <2>5. Waiting \subseteq Elements(r)
    BY <2>2 DEF Waiting, Elements
  <2> QED BY <2>3, <2>4, <2>5
<1> QED BY <1>2, <1>4, <1>6, <1>7 DEF r

\* A batch that is taken from the queue is not queued any more.
LEMMA TakeProperties ==
  ASSUME headerTaskQueue \in Seq(Int), Once(headerTaskQueue), NEW k \in 1..Len(headerTaskQueue)
  PROVE  LET r == RemoveAt(headerTaskQueue, k)
         IN  r \in Seq(Int) /\ Once(r) /\ Elements(r) = Waiting \ {headerTaskQueue[k]}
<1> DEFINE q == headerTaskQueue
           n == Len(q)
           r == RemoveAt(q, k)
<1>1. n \in Nat
  BY LenProperties
<1>2. /\ r \in Seq(Int) /\ Len(r) = n - 1
      /\ \A i \in 1..(n - 1) : r[i] = IF i < k THEN q[i] ELSE q[i + 1]
  BY RemoveAtProperties
<1> HIDE DEF r
<1> DEFINE old(i) == IF i < k THEN i ELSE i + 1
<1>3. \A i \in 1..(n - 1) : old(i) \in 1..n /\ old(i) # k /\ r[i] = q[old(i)]
  <2> SUFFICES ASSUME NEW i \in 1..(n - 1) PROVE old(i) \in 1..n /\ old(i) # k /\ r[i] = q[old(i)]
    OBVIOUS
  <2>1. r[i] = q[old(i)]
    BY <1>2
  <2>2. old(i) \in 1..n /\ old(i) # k
    BY <1>1
  <2> QED BY <2>1, <2>2
<1>4. \A i, j \in 1..(n - 1) : old(i) = old(j) => i = j
  BY <1>1
<1>5. \A m \in 1..n : m # k => \E i \in 1..(n - 1) : old(i) = m
  <2> SUFFICES ASSUME NEW m \in 1..n, m # k PROVE \E i \in 1..(n - 1) : old(i) = m
    OBVIOUS
  <2>1. CASE m < k
    BY <1>1, <2>1
  <2>2. CASE m > k
    <3>1. m - 1 \in 1..(n - 1) /\ old(m - 1) = m
      BY <1>1, <2>2
    <3> QED BY <3>1
  <2> QED BY <1>1, <2>1, <2>2
<1> HIDE DEF old
<1>6. \A i \in 1..(n - 1) : r[i] # q[k]
  BY <1>3, Zenon DEF Once
<1>7. Once(r)
  <2> SUFFICES ASSUME NEW i \in 1..(n - 1), NEW j \in 1..(n - 1), r[i] = r[j] PROVE i = j
    BY <1>2 DEF Once
  <2>1. q[old(i)] = q[old(j)] /\ old(i) \in 1..n /\ old(j) \in 1..n
    BY <1>3
  <2>2. old(i) = old(j)
    BY <2>1, Zenon DEF Once
  <2> QED BY <1>4, <2>2
<1>8. \A i \in 1..(n - 1) : r[i] \in Waiting \ {q[k]}
  BY <1>3, <1>6, Zenon DEF Waiting, Elements
<1>9. \A m \in 1..n : q[m] # q[k] => q[m] \in Elements(r)
  <2> SUFFICES ASSUME NEW m \in 1..n, m # k PROVE q[m] \in Elements(r)
    OBVIOUS
  <2>1. PICK i \in 1..(n - 1) : old(i) = m
    BY <1>5
  <2>2. r[i] = q[m]
    BY <1>3, <2>1
  <2> QED BY <1>2, <2>2 DEF Elements
<1>10. Elements(r) = Waiting \ {q[k]}
  BY <1>2, <1>8, <1>9, Zenon DEF Waiting, Elements
<1> QED BY <1>2, <1>7, <1>10 DEF r

-----------------------------------------------------------------------------
(* The steps.                                                               *)

\* A skeleton that was just made
LEMMA SkeletonInitial == SkeletonInit => SkeletonInv
<1> SUFFICES ASSUME SkeletonInit PROVE SkeletonInv
  OBVIOUS
<1> USE SizeIsPositive DEF SkeletonInit
<1>1. SkeletonTypes
  BY DEF SkeletonTypes, Batches, none
<1>2. Forwarded
  BY DEF Forwarded
<1> QED BY <1>1, <1>2 DEF SkeletonInv, NothingPending, RoundIsComplete

\* ScheduleSkeleton puts every batch into the queue.
LEMMA ScheduleKeeps == SkeletonInv /\ ScheduleSkeleton => SkeletonInv'
<1> SUFFICES ASSUME SkeletonInv, ScheduleSkeleton PROVE SkeletonInv'
  OBVIOUS
<1> USE SizeIsPositive
<1>1. /\ state = "idle" /\ state' = "filling" /\ from' = from + Size /\ headerProced' = 0
      /\ headerTaskQueue' = [i \in 1..Size |-> from' + i - 1]
      /\ headerResults' = {} /\ UNCHANGED <<headerPendPool, forwarded>>
  BY DEF ScheduleSkeleton
<1>2. /\ from \in Int /\ forwarded \in Seq(Int) /\ Len(forwarded) \in Nat
      /\ headerPendPool \in [Peers -> Int]
      /\ Len(forwarded) = from + Size - 1 /\ NothingPending
      /\ \A i \in 1..Len(forwarded) : forwarded[i] = i
  BY <1>1 DEF SkeletonInv, SkeletonTypes, Forwarded
<1>3. headerTaskQueue' \in Seq(Int) /\ Len(headerTaskQueue') = Size
  BY <1>1, <1>2
<1>4. SkeletonTypes'
  BY <1>1, <1>2, <1>3 DEF SkeletonTypes
<1>5. Forwarded'
  BY <1>1, <1>2 DEF Forwarded
<1>6. Once(headerTaskQueue)'
  BY <1>1, <1>2, <1>3 DEF Once
<1>7. \A b \in Int : b \in Batches' <=> b \in Waiting'
  <2>1. \A i \in 1..Size : headerTaskQueue'[i] = from' + i - 1
    BY <1>1
  <2>2. ASSUME NEW b \in Batches' PROVE b \in Waiting'
    <3>1. b - from' + 1 \in 1..Size /\ from' + (b - from' + 1) - 1 = b
      BY <1>1, <1>2 DEF Batches
    <3>2. headerTaskQueue'[b - from' + 1] = b
      BY <2>1, <3>1
    <3> QED BY <1>3, <3>1, <3>2 DEF Waiting, Elements
  <2>3. ASSUME NEW i \in 1..Size PROVE headerTaskQueue'[i] \in Batches'
    BY <1>1, <1>2, <2>1 DEF Batches
  <2> QED BY <1>3, <2>2, <2>3 DEF Waiting, Elements
<1>8. Places'
  BY <1>1, <1>2, <1>6, <1>7 DEF Places, Missing, NothingPending
<1> QED BY <1>1, <1>4, <1>5, <1>8 DEF SkeletonInv, RoundIsComplete

\* ReserveHeaders moves a batch from the queue to a peer.
LEMMA ReserveKeeps == ASSUME NEW p \in Peers, SkeletonInv, ReserveHeaders(p) PROVE SkeletonInv'
<1>1. /\ state = "filling" /\ state' = state /\ headerPendPool[p] = none
      /\ UNCHANGED <<from, headerProced, headerResults, forwarded>>
  BY DEF ReserveHeaders
<1>2. Places /\ SkeletonTypes /\ Forwarded
  BY <1>1 DEF SkeletonInv
<1>3. PICK i \in 1..Len(headerTaskQueue) :
        /\ headerTaskQueue' = RemoveAt(headerTaskQueue, i)
        /\ headerPendPool' = [headerPendPool EXCEPT ![p] = headerTaskQueue[i]]
  <2>1. DOMAIN headerTaskQueue = 1..Len(headerTaskQueue) /\ Len(headerTaskQueue) \in Nat
    BY <1>2, LenProperties DEF SkeletonTypes
  <2>2. Askable(p) \in SUBSET Nat /\ Askable(p) # {} /\ Askable(p) \subseteq 1..Len(headerTaskQueue)
    BY <2>1 DEF Askable, ReserveHeaders
  <2>3. Min(Askable(p)) \in 1..Len(headerTaskQueue)
    BY <2>2, MinIsLeast
  <2> QED BY <2>3 DEF ReserveHeaders
<1> DEFINE b == headerTaskQueue[i]
<1>4. /\ headerTaskQueue' \in Seq(Int) /\ Once(headerTaskQueue)'
      /\ Elements(headerTaskQueue') = Waiting \ {b}
  BY <1>2, <1>3, TakeProperties DEF SkeletonTypes, Places
<1>5. b \in Int /\ b \in Waiting
  BY <1>2, <1>3, ElementOfSeq DEF SkeletonTypes, Waiting, Elements
<1>6. b \in Missing /\ b # none
  <2>1. b \in Missing
    BY <1>2, <1>5 DEF Places
  <2>2. from >= 1 /\ from \in Int
    BY <1>1, <1>2 DEF Forwarded, SkeletonTypes
  <2> QED BY <2>1, <2>2, SizeIsPositive DEF Missing, Batches, none
<1> HIDE DEF b
<1>7. /\ headerPendPool' \in [Peers -> Int] /\ headerPendPool'[p] = b
      /\ \A q \in Peers : q # p => headerPendPool'[q] = headerPendPool[q]
  BY <1>2, <1>3, <1>5 DEF SkeletonTypes, b
<1>8. SkeletonTypes' /\ Forwarded' /\ RoundIsComplete'
  BY <1>1, <1>2, <1>4, <1>7 DEF SkeletonTypes, Forwarded, RoundIsComplete, Batches
<1>9. Places'
  <2>1. Waiting' = Waiting \ {b}
    BY <1>4 DEF Waiting
  <2>2. Missing' = Missing
    BY <1>1 DEF Missing, Batches
  <2>3. \A q \in Peers : headerPendPool[q] # none => headerPendPool[q] # b
    BY <1>2, <1>5 DEF Places
  <2>4. \A q, r \in Peers :
          headerPendPool'[q] = headerPendPool'[r] /\ headerPendPool'[q] # none => q = r
    BY <1>2, <1>6, <1>7, <2>3 DEF Places
  <2>5. \A q \in Peers : headerPendPool'[q] # none => headerPendPool'[q] \notin Waiting'
    BY <1>2, <1>7, <2>1 DEF Places
  <2>6. ASSUME NEW c \in Int
        PROVE  c \in Missing <=> c \in Waiting' \/ (c # none /\ \E q \in Peers : headerPendPool'[q] = c)
    <3>1. CASE c = b
      BY <1>6, <1>7, <3>1
    <3>2. CASE c # b
      BY <1>1, <1>2, <1>7, <2>1, <3>2 DEF Places
    <3> QED BY <3>1, <3>2
  <2> QED BY <1>4, <2>2, <2>4, <2>5, <2>6 DEF Places
<1> QED BY <1>1, <1>8, <1>9 DEF SkeletonInv

\* A request that fails goes back to the queue.
LEMMA ReturnKeeps ==
  ASSUME NEW p \in Peers, SkeletonInv, state = "filling", state' = state, headerPendPool[p] # none,
         headerTaskQueue' = PutBack(headerPendPool[p]),
         headerPendPool' = [headerPendPool EXCEPT ![p] = none],
         UNCHANGED <<from, headerProced, headerResults, forwarded>>
  PROVE  SkeletonInv'
<1> DEFINE b == headerPendPool[p]
<1>1. Places /\ SkeletonTypes /\ Forwarded
  BY DEF SkeletonInv
<1>2. b \in Int /\ b \notin Waiting /\ b \in Missing
  BY <1>1 DEF Places, SkeletonTypes
<1>3. /\ headerTaskQueue' \in Seq(Int) /\ Once(headerTaskQueue)'
      /\ Elements(headerTaskQueue') = Waiting \cup {b}
  BY <1>1, <1>2, PutBackProperties DEF SkeletonTypes, Places
<1>4. /\ headerPendPool' \in [Peers -> Int] /\ headerPendPool'[p] = none
      /\ \A q \in Peers : q # p => headerPendPool'[q] = headerPendPool[q]
  BY <1>1 DEF SkeletonTypes, none
<1>5. \A q \in Peers : q # p => headerPendPool[q] # b
  BY <1>1 DEF Places
<1>a. b # none
  OBVIOUS
<1> HIDE DEF b
<1>6. SkeletonTypes' /\ Forwarded' /\ RoundIsComplete'
  BY <1>1, <1>3, <1>4 DEF SkeletonTypes, Forwarded, RoundIsComplete, Batches
<1>7. Places'
  <2>1. Waiting' = Waiting \cup {b}
    BY <1>3 DEF Waiting
  <2>2. Missing' = Missing
    BY DEF Missing, Batches
  <2>3. \A q, r \in Peers :
          headerPendPool'[q] = headerPendPool'[r] /\ headerPendPool'[q] # none => q = r
    BY <1>1, <1>4 DEF Places
  <2>4. \A q \in Peers : headerPendPool'[q] # none => headerPendPool'[q] \notin Waiting'
    BY <1>1, <1>4, <1>5, <2>1 DEF Places
  <2>5. ASSUME NEW c \in Int
        PROVE  c \in Missing <=> c \in Waiting' \/ (c # none /\ \E q \in Peers : headerPendPool'[q] = c)
    <3>1. CASE c = b
      BY <1>2, <2>1, <3>1
    <3>2. CASE c # b
      BY <1>1, <1>4, <2>1, <3>2 DEF Places, b
    <3> QED BY <3>1, <3>2
  <2> QED BY <1>3, <2>2, <2>3, <2>4, <2>5 DEF Places
<1> QED BY <1>6, <1>7 DEF SkeletonInv

\* What follows the run that was forwarded continues it.
LEMMA FollowingContinues ==
  ASSUME NEW n \in Nat, forwarded \in Seq(Int), from \in Int, headerProced \in Int,
         \A i \in 1..Len(forwarded) : forwarded[i] = i, Len(forwarded) = from + headerProced - 1
  PROVE  LET r == forwarded \o Following(n)
         IN  r \in Seq(Int) /\ Len(r) = Len(forwarded) + n /\ \A i \in 1..Len(r) : r[i] = i
<1> DEFINE t == Following(n)
           r == forwarded \o t
           m == Len(forwarded)
<1>1. m \in Nat
  BY LenProperties
<1>2. t \in Seq(Int) /\ Len(t) = n /\ \A i \in 1..n : t[i] = m + i
  BY <1>1 DEF Following
<1> HIDE DEF t
<1>3. /\ r \in Seq(Int) /\ Len(r) = m + n
      /\ \A i \in 1..(m + n) : r[i] = IF i <= m THEN forwarded[i] ELSE t[i - m]
  BY <1>2, ConcatProperties
<1> HIDE DEF r
<1>4. ASSUME NEW i \in 1..(m + n) PROVE r[i] = i
  <2>1. CASE i <= m
    <3>1. i \in 1..m
      BY <1>1, <2>1
    <3> QED BY <1>3, <2>1, <3>1
  <2>2. CASE ~(i <= m)
    <3>1. i - m \in 1..n /\ m + (i - m) = i
      BY <1>1, <2>2
    <3>2. t[i - m] = m + (i - m)
      BY <1>2, <3>1
    <3> QED BY <1>3, <2>2, <3>1, <3>2
  <2> QED BY <2>1, <2>2
<1> QED BY <1>3, <1>4 DEF r, t

\* The batches counted as ready are there, and they are of this round.
LEMMA ReadyIsThere ==
  ASSUME NEW results, headerProced \in 0..Size, from \in Int
  PROVE  /\ Ready(results) \in 0..(Size - headerProced)
         /\ \A c \in 1..Ready(results) : from + headerProced + c - 1 \in results
<1> DEFINE S == {n \in 0..(Size - headerProced) : \A c \in 1..n : from + headerProced + c - 1 \in results}
<1>1. Size - headerProced \in Nat
  BY SizeIsPositive
<1>2. S \in SUBSET (0..(Size - headerProced)) /\ 0 \in S
  BY <1>1
<1> HIDE DEF S
<1>3. Max(S) \in S
  BY <1>1, <1>2, MaxIsGreatest
<1> QED BY <1>2, <1>3 DEF S, Ready

\* A batch that is filled in is forwarded with those it completes.
LEMMA FillKeeps ==
  ASSUME NEW p \in Peers, SkeletonInv, state = "filling", state' = state, headerPendPool[p] # none,
         Fill(headerPendPool[p]), headerPendPool' = [headerPendPool EXCEPT ![p] = none], from' = from
  PROVE  SkeletonInv'
<1> DEFINE b == headerPendPool[p]
           ready == Ready(headerResults \cup {b})
<1>1. Places /\ SkeletonTypes /\ Forwarded
  BY DEF SkeletonInv
<1>2. b \in Int /\ b \notin Waiting /\ b \in Missing
  BY <1>1 DEF Places, SkeletonTypes
<1>3. /\ headerTaskQueue' = headerTaskQueue /\ headerResults' = headerResults \cup {b}
      /\ \/ forwarded' = forwarded /\ headerProced' = headerProced
         \/ forwarded' = forwarded \o Following(ready) /\ headerProced' = headerProced + ready
  BY DEF Fill
<1>4. /\ headerPendPool' \in [Peers -> Int] /\ headerPendPool'[p] = none
      /\ \A q \in Peers : q # p => headerPendPool'[q] = headerPendPool[q]
  BY <1>1 DEF SkeletonTypes, none
<1>5. \A q \in Peers : q # p => headerPendPool[q] # b
  BY <1>1 DEF Places
<1>6. ready \in 0..(Size - headerProced)
  BY <1>1, ReadyIsThere DEF SkeletonTypes
<1> HIDE DEF b, ready
<1>7. /\ headerProced' \in 0..Size /\ forwarded' \in Seq(Int)
      /\ \A i \in 1..Len(forwarded') : forwarded'[i] = i
      /\ Len(forwarded') = from + headerProced' - 1
  <2>1. CASE forwarded' = forwarded /\ headerProced' = headerProced
    BY <1>1, <2>1 DEF SkeletonTypes, Forwarded
  <2>2. CASE forwarded' = forwarded \o Following(ready) /\ headerProced' = headerProced + ready
    <3>1. ready \in Nat /\ headerProced + ready \in 0..Size /\ headerProced \in Int /\ from \in Int
      BY <1>1, <1>6, SizeIsPositive DEF SkeletonTypes
    <3>2. /\ forwarded' \in Seq(Int) /\ Len(forwarded') = Len(forwarded) + ready
          /\ \A i \in 1..Len(forwarded') : forwarded'[i] = i
      BY <1>1, <2>2, <3>1, FollowingContinues DEF SkeletonTypes, Forwarded
    <3>3. Len(forwarded) = from + headerProced - 1 /\ Len(forwarded) \in Int
      BY <1>1, <3>1 DEF Forwarded
    <3>4. Len(forwarded') = from + headerProced' - 1
      BY <2>2, <3>1, <3>2, <3>3
    <3> QED BY <2>2, <3>1, <3>2, <3>4
  <2> QED BY <1>3, <2>1, <2>2
<1>8. SkeletonTypes' /\ Forwarded' /\ RoundIsComplete'
  BY <1>1, <1>2, <1>3, <1>4, <1>7 DEF SkeletonTypes, Forwarded, RoundIsComplete, Batches, Missing
<1>9. Places'
  <2>1. Waiting' = Waiting /\ Once(headerTaskQueue)'
    BY <1>1, <1>3 DEF Waiting, Places, Once, Elements
  <2>2. Missing' = Missing \ {b}
    BY <1>3 DEF Missing, Batches
  <2>3. \A q, r \in Peers :
          headerPendPool'[q] = headerPendPool'[r] /\ headerPendPool'[q] # none => q = r
    BY <1>1, <1>4 DEF Places
  <2>4. \A q \in Peers : headerPendPool'[q] # none => headerPendPool'[q] \notin Waiting'
    BY <1>1, <1>4, <2>1 DEF Places
  <2>5. ASSUME NEW c \in Int
        PROVE  c \in Missing' <=> c \in Waiting' \/ (c # none /\ \E q \in Peers : headerPendPool'[q] = c)
    <3>1. CASE c = b
      BY <1>2, <1>4, <1>5, <2>1, <2>2, <3>1
    <3>2. CASE c # b
      BY <1>1, <1>4, <2>1, <2>2, <3>2 DEF Places, b
    <3> QED BY <3>1, <3>2
  <2> QED BY <2>1, <2>3, <2>4, <2>5 DEF Places
<1> QED BY <1>8, <1>9 DEF SkeletonInv

\* A step that leaves the queue of headers and what was forwarded alone
LEMMA SkeletonOthersKeep ==
  ASSUME SkeletonInv, state' = state,
         UNCHANGED <<from, headerProced, headerResults, headerTaskQueue, headerPendPool, forwarded>>
  PROVE  SkeletonInv'
  BY DEF SkeletonInv, SkeletonTypes, Forwarded, Places, NothingPending, RoundIsComplete,
         Batches, Missing, Waiting, Once, Elements

\* DeliverHeaders accepts a batch or puts it back.
LEMMA DeliverHeadersKeeps ==
  ASSUME NEW p \in Peers, NEW c, NEW links \in BOOLEAN, SkeletonInv, DeliverHeaders(p, c, links)
  PROVE  SkeletonInv'
<1> DEFINE b == headerPendPool[p]
<1>1. /\ state = "filling" /\ state' = state /\ from' = from
      /\ headerPendPool' = [headerPendPool EXCEPT ![p] = none]
  BY DEF DeliverHeaders
<1>2. CASE b = none
  <2>1. UNCHANGED <<headerTaskQueue, headerResults, headerProced, forwarded>>
    BY <1>2 DEF DeliverHeaders
  <2>2. headerPendPool' = headerPendPool
    BY <1>1, <1>2 DEF SkeletonInv, SkeletonTypes
  <2> QED BY <1>1, <2>1, <2>2, SkeletonOthersKeep
<1>3. CASE b # none /\ links /\ c = b
  <2>1. Fill(b)
    BY <1>3 DEF DeliverHeaders
  <2> QED BY <1>1, <1>3, <2>1, FillKeeps
<1>4. CASE b # none /\ ~(links /\ c = b)
  <2>1. headerTaskQueue' = PutBack(b) /\ UNCHANGED <<headerResults, headerProced, forwarded>>
    BY <1>4 DEF DeliverHeaders
  <2> QED BY <1>1, <1>4, <2>1, ReturnKeeps
<1> QED BY <1>2, <1>3, <1>4

\* Nothing queued and nothing asked for: all is there.
LEMMA RetrieveHeadersKeeps == SkeletonInv /\ RetrieveHeaders => SkeletonInv'
<1> SUFFICES ASSUME SkeletonInv, RetrieveHeaders PROVE SkeletonInv'
  OBVIOUS
<1>1. /\ state = "filling" /\ state' = "rest" /\ headerTaskQueue = <<>> /\ NothingPending
      /\ UNCHANGED <<from, headerProced, headerResults, headerTaskQueue, headerPendPool, forwarded>>
  BY DEF RetrieveHeaders, FillDone, InFlight, NothingPending, headerVars
<1>2. Places /\ SkeletonTypes /\ Forwarded
  BY <1>1 DEF SkeletonInv
<1>3. Waiting = {}
  BY <1>1 DEF Waiting, Elements
<1>4. \A b \in Int : b \notin Missing
  BY <1>1, <1>2, <1>3 DEF Places, NothingPending
<1>5. Batches \subseteq Int
  BY <1>2 DEF Batches, SkeletonTypes
<1>6. headerResults = Batches
  BY <1>2, <1>4, <1>5 DEF Missing, SkeletonTypes
<1>7. SkeletonTypes' /\ Forwarded' /\ NothingPending' /\ RoundIsComplete'
  BY <1>1, <1>2, <1>6 DEF SkeletonTypes, Forwarded, NothingPending, RoundIsComplete, Batches
<1> QED BY <1>1, <1>7 DEF SkeletonInv

\* What is sent last closes the round.
LEMMA SendRestKeeps == SkeletonInv /\ SendRest => SkeletonInv'
<1> SUFFICES ASSUME SkeletonInv, SendRest PROVE SkeletonInv'
  OBVIOUS
<1> DEFINE n == Size - headerProced
<1>1. /\ state = "rest" /\ state' = "idle"
      /\ UNCHANGED <<from, headerProced, headerResults, headerTaskQueue, headerPendPool>>
      /\ \/ Following(n) = <<>> /\ forwarded' = forwarded
         \/ forwarded' = forwarded \o Following(n)
  BY DEF SendRest, headerVars
<1>2. NothingPending /\ SkeletonTypes /\ Forwarded
  BY <1>1 DEF SkeletonInv
<1>3. n \in Nat /\ from \in Int /\ headerProced \in Int /\ Size \in Int /\ headerProced <= Size
  BY <1>2, SizeIsPositive DEF SkeletonTypes
<1>4. Len(forwarded) = from + headerProced - 1
  BY <1>1, <1>2 DEF Forwarded
<1>5. /\ forwarded' \in Seq(Int) /\ Len(forwarded') = from + Size - 1
      /\ \A i \in 1..Len(forwarded') : forwarded'[i] = i
  <2>1. CASE Following(n) = <<>> /\ forwarded' = forwarded
    <3>1. n = 0
      BY <1>3, <2>1 DEF Following
    <3> QED BY <1>2, <1>3, <1>4, <2>1, <3>1 DEF SkeletonTypes, Forwarded
  <2>2. CASE forwarded' = forwarded \o Following(n)
    <3>1. /\ forwarded' \in Seq(Int) /\ Len(forwarded') = Len(forwarded) + n
          /\ \A i \in 1..Len(forwarded') : forwarded'[i] = i
      BY <1>2, <1>3, <1>4, <2>2, FollowingContinues DEF SkeletonTypes, Forwarded
    <3>2. Len(forwarded') = from + Size - 1
      BY <1>3, <1>4, <3>1
    <3> QED BY <3>1, <3>2
  <2> QED BY <1>1, <2>1, <2>2
<1>6. SkeletonTypes' /\ Forwarded' /\ NothingPending' /\ RoundIsComplete'
  BY <1>1, <1>2, <1>5 DEF SkeletonTypes, Forwarded, NothingPending, RoundIsComplete, Batches
<1> QED BY <1>1, <1>6 DEF SkeletonInv

\* Every step of a skeleton keeps the inductive invariant.
LEMMA SkeletonNextKeeps == SkeletonInv /\ [SkeletonNext]_skeletonVars => SkeletonInv'
<1> SUFFICES ASSUME SkeletonInv, [SkeletonNext]_skeletonVars PROVE SkeletonInv'
  OBVIOUS
<1>1. CASE ScheduleSkeleton
  BY <1>1, ScheduleKeeps
<1>2. ASSUME NEW p \in Peers, ReserveHeaders(p) PROVE SkeletonInv'
  BY <1>2, ReserveKeeps
<1>3. ASSUME NEW p \in Peers, ExpireHeaders(p) PROVE SkeletonInv'
  BY <1>3, ReturnKeeps DEF ExpireHeaders
<1>4. ASSUME NEW p \in Peers, NEW c \in net[p], NEW links \in BOOLEAN, DeliverHeaders(p, c, links)
      PROVE  SkeletonInv'
  BY <1>4, DeliverHeadersKeeps
<1>5. CASE RetrieveHeaders
  BY <1>5, RetrieveHeadersKeeps
<1>6. CASE SendRest
  BY <1>6, SendRestKeeps
<1>7. CASE GiveUp
  BY <1>7 DEF GiveUp, headerVars, SkeletonInv, SkeletonTypes, Forwarded, RoundIsComplete, Batches
<1>8. CASE \/ Wake \/ Process \/ (\E p \in Peers : Unregister(p)) \/ UNCHANGED skeletonVars
  <2>1. /\ state' = state
        /\ UNCHANGED <<from, headerProced, headerResults, headerTaskQueue, headerPendPool, forwarded>>
    BY <1>8 DEF Wake, Process, Unregister, skeletonVars, headerVars
  <2> QED BY <2>1, SkeletonOthersKeep
<1> QED BY <1>1, <1>2, <1>3, <1>4, <1>5, <1>6, <1>7, <1>8 DEF SkeletonNext, Step

\* A gap ends what is forwarded early.
LEMMA ThereKeeps ==
  SkeletonInv /\ ForwardedIsThere /\ [SkeletonNext]_skeletonVars => ForwardedIsThere'
<1> SUFFICES ASSUME SkeletonInv, ForwardedIsThere, [SkeletonNext]_skeletonVars PROVE ForwardedIsThere'
  OBVIOUS
<1>1. CASE ScheduleSkeleton
  BY <1>1 DEF ScheduleSkeleton, ForwardedIsThere
<1>2. ASSUME from' = from, headerProced' = headerProced, headerResults \subseteq headerResults'
      PROVE  ForwardedIsThere'
  BY <1>2 DEF ForwardedIsThere
<1>3. ASSUME NEW b, Fill(b), from' = from PROVE ForwardedIsThere'
  <2> DEFINE results == headerResults \cup {b}
             ready == Ready(results)
  <2>1. /\ headerResults' = results
        /\ headerProced' = headerProced \/ headerProced' = headerProced + ready
    BY <1>3 DEF Fill
  <2>2. headerProced \in 0..Size /\ from \in Int
    BY DEF SkeletonInv, SkeletonTypes
  <2>3. CASE headerProced' = headerProced
    BY <1>2, <1>3, <2>1, <2>3
  <2>4. CASE headerProced' = headerProced + ready
    <3> HIDE DEF results
    <3>1. ready \in 0..(Size - headerProced) /\ \A c \in 1..ready : from + headerProced + c - 1 \in results
      BY <2>2, ReadyIsThere
    <3> HIDE DEF ready
    <3> SUFFICES ASSUME NEW k \in 1..(headerProced + ready) PROVE from + k - 1 \in results
      BY <1>3, <2>1, <2>4 DEF ForwardedIsThere
    <3>2. CASE k <= headerProced
      <4>1. k \in 1..headerProced
        BY <2>2, <3>1, <3>2
      <4> QED BY <4>1 DEF ForwardedIsThere, results
    <3>3. CASE k > headerProced
      <4>1. k - headerProced \in 1..ready /\ from + headerProced + (k - headerProced) - 1 = from + k - 1
        BY <2>2, <3>1, <3>3, SizeIsPositive
      <4> QED BY <3>1, <4>1
    <3> QED BY <2>2, <3>1, <3>2, <3>3
  <2> QED BY <2>1, <2>3, <2>4
<1>4. ASSUME NEW p \in Peers, NEW c, NEW links \in BOOLEAN, DeliverHeaders(p, c, links)
      PROVE  ForwardedIsThere'
  <2>1. from' = from
    BY <1>4 DEF DeliverHeaders
  <2>2. Fill(headerPendPool[p]) \/ UNCHANGED <<headerProced, headerResults>>
    BY <1>4 DEF DeliverHeaders
  <2> QED BY <1>2, <1>3, <2>1, <2>2
<1>5. CASE \/ Step \/ (\E p \in Peers : Unregister(p)) \/ UNCHANGED skeletonVars
  BY <1>2, <1>5 DEF Step, Wake, RetrieveHeaders, SendRest, GiveUp, Process, ReserveHeaders, ExpireHeaders,
                    Unregister, skeletonVars, headerVars
<1> QED BY <1>1, <1>4, <1>5 DEF SkeletonNext

-----------------------------------------------------------------------------
(* What the processor gets.                                                 *)

\* A set with at most one element has as many as it has.
LEMMA OneOrNone ==
  ASSUME NEW S, \A x, y \in S : x = y
  PROVE  Cardinality(S) = IF S = {} THEN 0 ELSE 1
<1>1. CASE S = {}
  BY <1>1, FS_EmptySet
<1>2. CASE S # {}
  <2>1. PICK x : x \in S
    BY <1>2
  <2>2. S = {x}
    BY <2>1
  <2> QED BY <1>2, <2>2, FS_Singleton
<1> QED BY <1>1, <1>2

\* Batches in one place each, as the run counts them
LEMMA PlacesCounted == SkeletonTypes /\ from >= 1 /\ (state = "filling" => Places) => BatchInOnePlace
<1> SUFFICES ASSUME SkeletonTypes, from >= 1, state = "filling", Places, NEW b \in Batches
             PROVE  Cardinality({i \in DOMAIN headerTaskQueue : headerTaskQueue[i] = b}) +
                    Cardinality({p \in Peers : headerPendPool[p] = b}) = IF b \in headerResults THEN 0 ELSE 1
  BY DEF BatchInOnePlace
<1> DEFINE Q == {i \in DOMAIN headerTaskQueue : headerTaskQueue[i] = b}
           R == {p \in Peers : headerPendPool[p] = b}
<1>1. b \in Int /\ b # none
  BY SizeIsPositive DEF Batches, SkeletonTypes, none
<1>2. DOMAIN headerTaskQueue = 1..Len(headerTaskQueue)
  BY LenProperties DEF SkeletonTypes
<1>3. Q # {} <=> b \in Waiting
  BY <1>2 DEF Waiting, Elements
<1>4. \A x, y \in Q : x = y
  BY <1>2 DEF Places, Once
<1>5. \A x, y \in R : x = y
  BY <1>1 DEF Places
<1>6. b \in Missing <=> b \in Waiting \/ R # {}
  BY <1>1 DEF Places
<1>7. ~(b \in Waiting /\ R # {})
  BY <1>1 DEF Places
<1> HIDE DEF Q, R
<1>8. /\ Cardinality(Q) = IF Q = {} THEN 0 ELSE 1
      /\ Cardinality(R) = IF R = {} THEN 0 ELSE 1
  BY <1>4, <1>5, OneOrNone
<1>9. b \in headerResults <=> Q = {} /\ R = {}
  BY <1>3, <1>6 DEF Missing
<1>10. Cardinality(Q) + Cardinality(R) = IF b \in headerResults THEN 0 ELSE 1
  BY <1>3, <1>7, <1>8, <1>9
<1> QED BY <1>10 DEF Q, R

\* For every set of peers and every size of skeleton, the header processor gets every
\* batch once and in order, over all rounds, and never a gap in place of one; while a
\* skeleton is filled each batch is in one place, and RetrieveHeaders finds a round complete (queue.go and fetchParts).
THEOREM HeadersInOrder == SkeletonSpec => []ForwardedInOrder
<1>1. SkeletonInv /\ ForwardedIsThere => ForwardedInOrder
  <2> SUFFICES ASSUME SkeletonInv, ForwardedIsThere PROVE ForwardedInOrder
    OBVIOUS
  <2>1. DOMAIN forwarded = 1..Len(forwarded) /\ Len(forwarded) \in Nat /\ forwarded \in [1..Len(forwarded) -> Int]
    BY LenProperties DEF SkeletonInv, SkeletonTypes
  <2>2. forwarded = [i \in 1..Len(forwarded) |-> i]
    BY <2>1 DEF SkeletonInv, Forwarded
  <2>3. BatchInOnePlace
    <3>1. CASE state = "filling"
      BY <3>1, PlacesCounted DEF SkeletonInv, Forwarded
    <3>2. CASE state # "filling"
      BY <3>2 DEF BatchInOnePlace
    <3> QED BY <3>1, <3>2
  <2> QED BY <2>2, <2>3 DEF ForwardedInOrder, SkeletonInv
<1>2. SkeletonInit => ForwardedIsThere
  BY DEF SkeletonInit, ForwardedIsThere
<1> QED BY SkeletonInitial, SkeletonNextKeeps, ThereKeeps, <1>1, <1>2, PTL DEF SkeletonSpec

-----------------------------------------------------------------------------
(* The block fetcher: any peers, any blocks, any limits.                     *)
(*                                                                         *)
(* A peer may be dropped long after it announced, so every announcement and *)
(* every queued block has an origin that lied if it has to; and a block is  *)
(* imported once because it stays marked as queued until the loop hears     *)
(* that its import is done.                                                 *)

\* What a peer may have announced of block b, given that L are the liars; once the
\* header is there; and the blocks a peer may have sent.
Announce == [origin : Origins, number : Numbers, header : BOOLEAN]
Truthful(b, L) == {a \in Announce : a.number # b.number \/ ~b.valid => a.origin \in L}
Headed(b, L) == {a \in Truthful(b, L) : a.header}
Jobs(L) == {op \in [origin : Origins, block : Blocks] : ~op.block.valid => op.origin \in L}

Parts == {"announces", "announced", "fetching", "fetched", "completing", "queue", "queues", "queued",
          "fetchTimer", "completeTimer"}

Shaped(s) ==
  /\ DOMAIN s = Parts
  /\ DOMAIN s.announced = Blocks /\ DOMAIN s.fetching = Blocks
  /\ DOMAIN s.fetched = Blocks /\ DOMAIN s.completing = Blocks

TracksOk(s, L) ==
  \A b \in Blocks : /\ s.announced[b] \in Seq(Truthful(b, L))
                    /\ s.fetching[b] \in Truthful(b, L) \cup {NoAnnounce}
                    /\ s.fetched[b] \in Seq(Headed(b, L))
                    /\ s.completing[b] \in Headed(b, L) \cup {NoAnnounce}

TimersOk(s) ==
  /\ s.fetchTimer \in BOOLEAN /\ s.completeTimer \in BOOLEAN
  /\ Announced(s) # {} => s.fetchTimer
  /\ Fetched(s) # {} => s.completeTimer

\* A block that counts as queued is in the queue, being imported (imp) or about to be
\* reported as done (dn), and in no two of these places.
JobsOk(s, imp, dn, L) ==
  /\ s.queued \in [Blocks -> Origins \cup {"none"}]
  /\ s.queue \subseteq Jobs(L) /\ IsFiniteSet(s.queue)
  /\ imp \in Seq(Jobs(L)) /\ dn \in Seq(Blocks)
  /\ \A op \in s.queue : s.queued[op.block] = op.origin
  /\ \A i \in DOMAIN imp : s.queued[imp[i].block] = imp[i].origin /\ imp[i] \notin s.queue
  /\ \A i, j \in DOMAIN imp : imp[i].block = imp[j].block => i = j
  /\ \A i \in DOMAIN dn : s.queued[dn[i]] # "none"
  /\ \A i, j \in DOMAIN dn : dn[i] = dn[j] => i = j
  /\ \A i \in DOMAIN dn : /\ \A op \in s.queue : op.block # dn[i]
                          /\ \A j \in DOMAIN imp : imp[j].block # dn[i]

Queued(s, p) == {b \in Blocks : s.queued[b] = p}
Counted(s) == s.queues = [p \in Origins |-> Cardinality(Queued(s, p))]

\* The invariant, of a state s of the loop that need not be the current one: an event
\* changes it in several steps.
Good(s, imp, dn, L) == Shaped(s) /\ TracksOk(s, L) /\ TimersOk(s) /\ JobsOk(s, imp, dn, L) /\ Counted(s)

FetcherInv == Good(f, importing, doneCh, liars) /\ dropped \subseteq liars

\* What forgetHash changes.
LEMMA ForgetHashesParts ==
  ASSUME NEW s, DOMAIN s = Parts, NEW bs, NEW t, t = forgetHashes(s, bs)
  PROVE  /\ Shaped(t)
         /\ t.queue = s.queue /\ t.queues = s.queues /\ t.queued = s.queued
         /\ t.fetchTimer = s.fetchTimer /\ t.completeTimer = s.completeTimer
         /\ \A b \in Blocks : b \in bs => /\ t.announced[b] = <<>> /\ t.fetching[b] = NoAnnounce
                                         /\ t.fetched[b] = <<>> /\ t.completing[b] = NoAnnounce
         /\ \A b \in Blocks : b \notin bs =>
               /\ t.announced[b] = s.announced[b] /\ t.fetching[b] = s.fetching[b]
               /\ t.fetched[b] = s.fetched[b] /\ t.completing[b] = s.completing[b]
BY DEF forgetHashes, Shaped, Parts

\* What forgetBlock changes.
LEMMA ForgetBlocksParts ==
  ASSUME NEW s, Shaped(s), NEW bs, NEW t, t = forgetBlocks(s, bs)
  PROVE  /\ Shaped(t)
         /\ t.announced = s.announced /\ t.fetching = s.fetching /\ t.fetched = s.fetched
         /\ t.completing = s.completing /\ t.queue = s.queue
         /\ t.fetchTimer = s.fetchTimer /\ t.completeTimer = s.completeTimer
         /\ t.queues = [p \in Origins |-> s.queues[p] - Cardinality({b \in bs : s.queued[b] = p})]
         /\ t.queued = [b \in Blocks |-> IF b \in bs THEN "none" ELSE s.queued[b]]
BY DEF forgetBlocks, Shaped, Parts

\* Forgetting announcements leaves nothing that was not there.
LEMMA ForgetHashesGood ==
  ASSUME NEW s, NEW imp, NEW dn, NEW L, Good(s, imp, dn, L), NEW bs, NEW t, t = forgetHashes(s, bs)
  PROVE  Good(t, imp, dn, L)
<1>1. DOMAIN s = Parts
  BY DEF Good, Shaped
<1>2. /\ Shaped(t)
      /\ t.queue = s.queue /\ t.queues = s.queues /\ t.queued = s.queued
      /\ t.fetchTimer = s.fetchTimer /\ t.completeTimer = s.completeTimer
      /\ \A b \in Blocks : b \in bs => /\ t.announced[b] = <<>> /\ t.fetching[b] = NoAnnounce
                                      /\ t.fetched[b] = <<>> /\ t.completing[b] = NoAnnounce
      /\ \A b \in Blocks : b \notin bs =>
            /\ t.announced[b] = s.announced[b] /\ t.fetching[b] = s.fetching[b]
            /\ t.fetched[b] = s.fetched[b] /\ t.completing[b] = s.completing[b]
  BY <1>1, ForgetHashesParts
<1>3. TracksOk(t, L)
  <2> SUFFICES ASSUME NEW b \in Blocks
               PROVE  /\ t.announced[b] \in Seq(Truthful(b, L))
                      /\ t.fetching[b] \in Truthful(b, L) \cup {NoAnnounce}
                      /\ t.fetched[b] \in Seq(Headed(b, L))
                      /\ t.completing[b] \in Headed(b, L) \cup {NoAnnounce}
    BY DEF TracksOk
  <2>1. CASE b \in bs
    BY <1>2, <2>1, EmptySeq
  <2>2. CASE b \notin bs
    BY <1>2, <2>2 DEF Good, TracksOk
  <2> QED BY <2>1, <2>2
<1>4. TimersOk(t)
  <2>1. Announced(t) \subseteq Announced(s) /\ Fetched(t) \subseteq Fetched(s)
    BY <1>2 DEF Announced, Fetched
  <2> QED BY <1>2, <2>1 DEF Good, TimersOk
<1>5. JobsOk(t, imp, dn, L)
  BY <1>2 DEF Good, JobsOk
<1>6. Counted(t)
  BY <1>2 DEF Good, Counted, Queued
<1> QED BY <1>2, <1>3, <1>4, <1>5, <1>6 DEF Good

\* A count is one of finitely many blocks.
LEMMA QueuedIsFinite ==
  ASSUME NEW s, NEW p
  PROVE  IsFiniteSet(Queued(s, p)) /\ Cardinality(Queued(s, p)) \in Nat
BY BlocksAreFinite, FS_Subset, FS_CardinalityType DEF Queued

\* Forgetting queued blocks keeps the count of each peer.
LEMMA ForgetBlocksCounted ==
  ASSUME NEW s, Shaped(s), s.queued \in [Blocks -> Origins \cup {"none"}], Counted(s),
         NEW bs \in SUBSET Blocks, NEW t, t = forgetBlocks(s, bs)
  PROVE  t.queued \in [Blocks -> Origins \cup {"none"}] /\ Counted(t)
<1>1. /\ t.queues = [p \in Origins |-> s.queues[p] - Cardinality({b \in bs : s.queued[b] = p})]
      /\ t.queued = [b \in Blocks |-> IF b \in bs THEN "none" ELSE s.queued[b]]
  BY ForgetBlocksParts
<1>2. t.queued \in [Blocks -> Origins \cup {"none"}]
  BY <1>1
<1>3. ASSUME NEW p \in Origins
      PROVE  s.queues[p] - Cardinality({b \in bs : s.queued[b] = p}) = Cardinality(Queued(t, p))
  <2>1. Queued(t, p) = Queued(s, p) \ bs
    BY <1>1, NoneIsNoOrigin DEF Queued
  <2>2. {b \in bs : s.queued[b] = p} = Queued(s, p) \cap bs
    BY DEF Queued
  <2>3. Cardinality(Queued(s, p) \ bs) = Cardinality(Queued(s, p)) - Cardinality(Queued(s, p) \cap bs)
    BY QueuedIsFinite, FS_Difference
  <2>4. s.queues[p] = Cardinality(Queued(s, p))
    BY DEF Counted
  <2> QED BY <2>1, <2>2, <2>3, <2>4
<1> QED BY <1>1, <1>2, <1>3 DEF Counted

\* Every element of r is in q at a place of its own, none at place k.
PlacesIn(r, q, k) ==
  \E g \in [1..Len(r) -> 1..Len(q)] :
    /\ \A i, j \in 1..Len(r) : g[i] = g[j] => i = j
    /\ \A i \in 1..Len(r) : g[i] # k /\ r[i] = q[g[i]]

\* What RemoveAt leaves was there, at other places.
LEMMA RemoveAtPlaces ==
  ASSUME NEW S, NEW q \in Seq(S), NEW k \in 1..Len(q), NEW r, r = RemoveAt(q, k)
  PROVE  r \in Seq(S) /\ PlacesIn(r, q, k)
<1> DEFINE n == Len(q)
<1>1. n \in Nat
  BY LenProperties
<1>2. /\ r \in Seq(S) /\ Len(r) = n - 1
      /\ \A i \in 1..(n - 1) : r[i] = IF i < k THEN q[i] ELSE q[i + 1]
  BY RemoveAtProperties
<1> DEFINE g == [i \in 1..(n - 1) |-> IF i < k THEN i ELSE i + 1]
<1>3. g \in [1..(n - 1) -> 1..n]
  BY <1>1
<1>4. \A i, j \in 1..(n - 1) : g[i] = g[j] => i = j
  BY <1>1
<1>5. \A i \in 1..(n - 1) : g[i] # k /\ r[i] = q[g[i]]
  <2> SUFFICES ASSUME NEW i \in 1..(n - 1) PROVE g[i] # k /\ r[i] = q[g[i]]
    OBVIOUS
  <2>1. g[i] = IF i < k THEN i ELSE i + 1
    OBVIOUS
  <2> HIDE DEF g
  <2>2. g[i] # k
    BY <1>1, <2>1
  <2>3. r[i] = q[g[i]]
    BY <1>2, <2>1
  <2> QED BY <2>2, <2>3
<1> HIDE DEF g
<1> QED BY <1>2, <1>3, <1>4, <1>5 DEF PlacesIn

\* SetToSeq lists each element of a finite set once.
LEMMA SetToSeqProperties ==
  ASSUME NEW S, IsFiniteSet(S), NEW q, q = SetToSeq(S)
  PROVE  /\ q \in Seq(S)
         /\ \A i, j \in 1..Len(q) : q[i] = q[j] => i = j
<1> DEFINE n == Cardinality(S)
<1>1. n \in Nat /\ ExistsBijection(1..n, S)
  BY FS_CardinalityType
<1>2. \E g \in [1..n -> S] : IsInjective(g)
  BY <1>1 DEF ExistsBijection, Bijection, Injection
<1>3. q \in [1..n -> S] /\ IsInjective(q)
  BY <1>2 DEF SetToSeq
<1>4. q \in Seq(S) /\ Len(q) = n
  BY <1>1, <1>3, SeqDef
<1> QED BY <1>3, <1>4 DEF IsInjective

\* Queued blocks have one job each.
LEMMA OneJob ==
  ASSUME NEW s, NEW imp, NEW dn, NEW L, JobsOk(s, imp, dn, L)
  PROVE  /\ \A op, oq \in s.queue : op.block = oq.block => op = oq
         /\ \A op \in s.queue : \A i \in DOMAIN imp : imp[i].block # op.block
<1>1. \A op, oq \in Jobs(L) : op.block = oq.block /\ op.origin = oq.origin => op = oq
  BY DEF Jobs
<1>2. \A i \in DOMAIN imp : imp[i] \in Jobs(L)
  BY ElementOfSeq DEF JobsOk
<1>3. \A op, oq \in s.queue : op.block = oq.block => op = oq
  BY <1>1 DEF JobsOk
<1>4. \A op \in s.queue : \A i \in DOMAIN imp : imp[i].block # op.block
  BY <1>1, <1>2 DEF JobsOk
<1> QED BY <1>3, <1>4

\* The queue without what fits the chain
Rest(s) == [s EXCEPT !.queue = @ \ Fits(s)]
Late(s) == {op.block : op \in Fits(s) \ Started(s)}

\* What is taken off the queue is started once, or forgotten.
LEMMA WorkedOffGood ==
  ASSUME NEW s, NEW imp, NEW dn, NEW L, Good(s, imp, dn, L),
         NEW t, t = WorkedOff(s), NEW q, q = SetToSeq(Started(s)), NEW r, r = imp \o q
  PROVE  Good(t, r, dn, L)
<1> DEFINE u == Rest(s)
           out == Late(s)
<1>1. /\ Shaped(u)
      /\ u.announced = s.announced /\ u.fetching = s.fetching /\ u.fetched = s.fetched
      /\ u.completing = s.completing /\ u.queue = s.queue \ Fits(s)
      /\ u.queues = s.queues /\ u.queued = s.queued
      /\ u.fetchTimer = s.fetchTimer /\ u.completeTimer = s.completeTimer
  BY DEF Rest, Good, Shaped, Parts
<1>2. t = forgetBlocks(u, out)
  BY DEF WorkedOff, Rest, Late
<1>3. Shaped(s) /\ TracksOk(s, L) /\ TimersOk(s) /\ JobsOk(s, imp, dn, L) /\ Counted(s)
  BY DEF Good
<1>4. Started(s) \subseteq Fits(s) /\ Fits(s) \subseteq s.queue
  BY DEF Started, Fits
<1>5. /\ \A op, oq \in s.queue : op.block = oq.block => op = oq
      /\ \A op \in s.queue : \A i \in DOMAIN imp : imp[i].block # op.block
  BY <1>3, OneJob
<1>6. s.queue \subseteq Jobs(L) /\ \A op \in Jobs(L) : op.block \in Blocks
  BY <1>3 DEF JobsOk, Jobs
<1>7. out \in SUBSET Blocks
  BY <1>4, <1>6 DEF Late
<1>8. /\ \A op \in s.queue : op.block \in out => op \in Fits(s) \ Started(s)
      /\ \A i \in DOMAIN imp : imp[i].block \notin out
      /\ \A i \in DOMAIN dn : dn[i] \notin out
  BY <1>3, <1>4, <1>5 DEF Late, JobsOk
<1> HIDE DEF u, out
<1>9. /\ Shaped(t)
      /\ t.announced = s.announced /\ t.fetching = s.fetching /\ t.fetched = s.fetched
      /\ t.completing = s.completing /\ t.queue = s.queue \ Fits(s)
      /\ t.fetchTimer = s.fetchTimer /\ t.completeTimer = s.completeTimer
      /\ t.queued = [b \in Blocks |-> IF b \in out THEN "none" ELSE s.queued[b]]
  <2>1. /\ Shaped(t)
        /\ t.announced = u.announced /\ t.fetching = u.fetching /\ t.fetched = u.fetched
        /\ t.completing = u.completing /\ t.queue = u.queue
        /\ t.fetchTimer = u.fetchTimer /\ t.completeTimer = u.completeTimer
        /\ t.queued = [b \in Blocks |-> IF b \in out THEN "none" ELSE u.queued[b]]
    BY <1>1, <1>2 DEF forgetBlocks, Shaped, Parts
  <2> QED BY <1>1, <2>1, Zenon
<1>10. t.queued \in [Blocks -> Origins \cup {"none"}] /\ Counted(t)
  <2>1. u.queued \in [Blocks -> Origins \cup {"none"}] /\ Counted(u)
    BY <1>1, <1>3 DEF Counted, Queued, JobsOk
  <2> QED BY <1>1, <1>2, <1>7, <2>1, ForgetBlocksCounted
<1>11. TracksOk(t, L) /\ TimersOk(t)
  BY <1>3, <1>9 DEF TracksOk, TimersOk, Announced, Fetched
<1>12. \A b \in Blocks : b \notin out => t.queued[b] = s.queued[b]
  BY <1>9
<1>13. /\ q \in Seq(Started(s))
       /\ \A i, j \in 1..Len(q) : q[i] = q[j] => i = j
  <2>1. IsFiniteSet(Started(s))
    BY <1>3, <1>4, FS_Subset DEF JobsOk
  <2> QED BY <2>1, SetToSeqProperties
<1>14. /\ imp \in Seq(Jobs(L)) /\ q \in Seq(Jobs(L)) /\ Len(imp) \in Nat /\ Len(q) \in Nat
       /\ DOMAIN imp = 1..Len(imp) /\ \A i \in DOMAIN imp : imp[i] \in Jobs(L)
       /\ \A i \in 1..Len(q) : q[i] \in Started(s)
  <2>1. imp \in Seq(Jobs(L))
    BY <1>3 DEF JobsOk
  <2>2. q \in Seq(Jobs(L))
    BY <1>4, <1>6, <1>13, SeqMonotonic
  <2> QED BY <1>13, <2>1, <2>2, LenProperties, ElementOfSeq
<1>15. /\ r \in Seq(Jobs(L)) /\ DOMAIN r = 1..(Len(imp) + Len(q))
       /\ \A i \in 1..Len(imp) : r[i] = imp[i]
       /\ \A i \in (Len(imp) + 1)..(Len(imp) + Len(q)) : r[i] = q[i - Len(imp)]
  <2>1. /\ r \in Seq(Jobs(L)) /\ Len(r) = Len(imp) + Len(q)
        /\ \A i \in 1..(Len(imp) + Len(q)) : r[i] = IF i <= Len(imp) THEN imp[i] ELSE q[i - Len(imp)]
    BY <1>14, ConcatProperties
  <2>2. DOMAIN r = 1..Len(r)
    BY <2>1, LenProperties
  <2> QED BY <1>14, <2>1, <2>2
<1>16. \A i \in DOMAIN r : \/ i \in DOMAIN imp /\ r[i] = imp[i]
                           \/ i - Len(imp) \in 1..Len(q) /\ r[i] = q[i - Len(imp)]
  <2> SUFFICES ASSUME NEW i \in DOMAIN r
               PROVE  \/ i \in DOMAIN imp /\ r[i] = imp[i]
                      \/ i - Len(imp) \in 1..Len(q) /\ r[i] = q[i - Len(imp)]
    BY Zenon
  <2>0. i \in 1..(Len(imp) + Len(q)) /\ Len(imp) \in Nat /\ Len(q) \in Nat
    BY <1>14, <1>15, Zenon
  <2>1. i \in 1..Len(imp) \/ (i \in (Len(imp) + 1)..(Len(imp) + Len(q)) /\ i - Len(imp) \in 1..Len(q))
    BY <2>0
  <2> QED BY <1>14, <1>15, <2>1
<1>17. JobsOk(t, r, dn, L)
  <2>1. t.queue \subseteq Jobs(L) /\ IsFiniteSet(t.queue) /\ dn \in Seq(Blocks)
    BY <1>3, <1>9, FS_Subset DEF JobsOk
  <2>2. \A op \in t.queue : t.queued[op.block] = op.origin
    BY <1>3, <1>6, <1>8, <1>9, <1>12 DEF JobsOk
  <2>3. \A i \in DOMAIN imp : t.queued[imp[i].block] = imp[i].origin /\ imp[i] \notin t.queue
    BY <1>3, <1>6, <1>8, <1>9, <1>12, <1>14 DEF JobsOk
  <2>4. \A op \in Started(s) : t.queued[op.block] = op.origin /\ op \notin t.queue
    <3>1. \A op \in Started(s) : op.block \in Blocks /\ op.block \notin out
      BY <1>4, <1>6, <1>8
    <3> QED BY <1>3, <1>4, <1>9, <1>12, <3>1 DEF JobsOk
  <2>5. \A i \in DOMAIN r : t.queued[r[i].block] = r[i].origin /\ r[i] \notin t.queue
    BY <1>14, <1>16, <2>3, <2>4
  <2>6. \A i, j \in DOMAIN r : r[i].block = r[j].block => i = j
    <3> SUFFICES ASSUME NEW i \in DOMAIN r, NEW j \in DOMAIN r, r[i].block = r[j].block
                 PROVE  i = j
      OBVIOUS
    <3>0. i \in Int /\ j \in Int
      BY <1>15
    <3>1. CASE i \in DOMAIN imp /\ r[i] = imp[i] /\ j \in DOMAIN imp /\ r[j] = imp[j]
      BY <1>3, <3>1 DEF JobsOk
    <3>2. CASE /\ i - Len(imp) \in 1..Len(q) /\ r[i] = q[i - Len(imp)]
               /\ j - Len(imp) \in 1..Len(q) /\ r[j] = q[j - Len(imp)]
      <4>1. r[i] = r[j]
        BY <1>4, <1>5, <1>14, <3>2
      <4>2. i - Len(imp) = j - Len(imp)
        BY <1>13, <3>2, <4>1
      <4> QED BY <1>14, <3>0, <4>2
    <3>3. ASSUME NEW k \in DOMAIN imp, NEW m \in 1..Len(q) PROVE imp[k].block # q[m].block
      BY <1>4, <1>5, <1>14
    <3> QED BY <1>16, <3>1, <3>2, <3>3
  <2>7. \A i \in DOMAIN dn : t.queued[dn[i]] # "none"
    <3>1. \A i \in DOMAIN dn : dn[i] \in Blocks
      BY <2>1, ElementOfSeq, LenProperties
    <3> QED BY <1>3, <1>8, <1>12, <3>1 DEF JobsOk
  <2>8. \A i, j \in DOMAIN dn : dn[i] = dn[j] => i = j
    BY <1>3 DEF JobsOk
  <2>9. ASSUME NEW i \in DOMAIN dn
        PROVE  (\A op \in t.queue : op.block # dn[i]) /\ (\A j \in DOMAIN r : r[j].block # dn[i])
    <3>1. (\A op \in s.queue : op.block # dn[i]) /\ (\A j \in DOMAIN imp : imp[j].block # dn[i])
      BY <1>3 DEF JobsOk
    <3>2. \A op \in t.queue : op.block # dn[i]
      BY <1>9, <3>1
    <3>3. \A j \in DOMAIN r : r[j].block # dn[i]
      BY <1>4, <1>14, <1>16, <3>1
    <3> QED BY <3>2, <3>3
  <2> QED BY <1>10, <1>15, <2>1, <2>2, <2>5, <2>6, <2>7, <2>8, <2>9 DEF JobsOk
<1> QED BY <1>9, <1>10, <1>11, <1>17 DEF Good

\* The top of the loop keeps the invariant, whatever expired.
LEMMA LoopGood ==
  ASSUME NEW s, NEW dn, NEW L, Good(s, importing, dn, L), Loop(s)
  PROVE  Good(f', importing', dn, L)
<1>1. PICK expired \in SUBSET Fetching(s) :
        /\ f' = WorkedOff(forgetHashes(s, expired))
        /\ importing' = importing \o SetToSeq(Started(forgetHashes(s, expired)))
  BY DEF Loop
<1> DEFINE u == forgetHashes(s, expired)
<1>2. Good(u, importing, dn, L)
  BY ForgetHashesGood
<1>3. f' = WorkedOff(u) /\ importing' = importing \o SetToSeq(Started(u))
  BY <1>1
<1> HIDE DEF u
<1> QED BY <1>2, <1>3, WorkedOffGood

\* A new liar excuses nobody.
LEMMA MoreLiars ==
  ASSUME NEW s, NEW imp, NEW dn, NEW L, Good(s, imp, dn, L), NEW M, L \subseteq M
  PROVE  Good(s, imp, dn, M)
<1>1. \A b \in Blocks : Truthful(b, L) \subseteq Truthful(b, M) /\ Headed(b, L) \subseteq Headed(b, M)
  BY DEF Truthful, Headed
<1>2. TracksOk(s, M)
  <2> SUFFICES ASSUME NEW b \in Blocks
               PROVE  /\ s.announced[b] \in Seq(Truthful(b, M))
                      /\ s.fetching[b] \in Truthful(b, M) \cup {NoAnnounce}
                      /\ s.fetched[b] \in Seq(Headed(b, M))
                      /\ s.completing[b] \in Headed(b, M) \cup {NoAnnounce}
    BY DEF TracksOk
  <2>1. /\ s.announced[b] \in Seq(Truthful(b, L))
        /\ s.fetching[b] \in Truthful(b, L) \cup {NoAnnounce}
        /\ s.fetched[b] \in Seq(Headed(b, L))
        /\ s.completing[b] \in Headed(b, L) \cup {NoAnnounce}
    BY DEF Good, TracksOk
  <2> QED BY <1>1, <2>1, SeqMonotonic
<1>3. Jobs(L) \subseteq Jobs(M)
  BY DEF Jobs
<1>4. JobsOk(s, imp, dn, M)
  <2>1. imp \in Seq(Jobs(M))
    BY <1>3, SeqMonotonic DEF Good, JobsOk
  <2> QED BY <1>3, <2>1 DEF Good, JobsOk
<1> QED BY <1>2, <1>4 DEF Good

\* A block is queued for the peer that sent it, within its limit.
LEMMA EnqueueGood ==
  ASSUME NEW s, NEW imp, NEW dn, NEW L, Good(s, imp, dn, L),
         NEW p \in Origins, NEW b \in Blocks, ~b.valid => p \in L,
         NEW t, t = enqueue(s, p, b)
  PROVE  Good(t, imp, dn, L)
<1>1. CASE s.queues[p] + 1 > blockLimit \/ TooFar(b.number)
  <2>1. t = forgetHashes(s, {b})
    BY <1>1 DEF enqueue, forgetHash
  <2> QED BY <2>1, ForgetHashesGood
<1>2. CASE ~(s.queues[p] + 1 > blockLimit \/ TooFar(b.number)) /\ AlreadyQueued(s, b)
  BY <1>2 DEF enqueue
<1>3. CASE ~(s.queues[p] + 1 > blockLimit \/ TooFar(b.number)) /\ ~AlreadyQueued(s, b)
  <2> DEFINE op == [origin |-> p, block |-> b]
  <2>1. t = [s EXCEPT !.queues[p] = @ + 1, !.queued[b] = p, !.queue = @ \cup {[origin |-> p, block |-> b]}]
    BY <1>3 DEF enqueue
  <2>2. Shaped(s) /\ TracksOk(s, L) /\ TimersOk(s) /\ JobsOk(s, imp, dn, L) /\ Counted(s)
    BY DEF Good
  <2>3. /\ Shaped(t)
        /\ t.announced = s.announced /\ t.fetching = s.fetching /\ t.fetched = s.fetched
        /\ t.completing = s.completing /\ t.queue = s.queue \cup {op}
        /\ t.fetchTimer = s.fetchTimer /\ t.completeTimer = s.completeTimer
        /\ t.queues = [s.queues EXCEPT ![p] = s.queues[p] + 1]
        /\ t.queued = [s.queued EXCEPT ![b] = p]
    BY <2>1, <2>2 DEF Shaped, Parts
  <2>4. s.queued[b] = "none" /\ op \in Jobs(L) /\ op.block = b /\ op.origin = p /\ p # "none"
    BY <1>3, NoneIsNoOrigin DEF AlreadyQueued, Jobs
  <2>5. t.queued \in [Blocks -> Origins \cup {"none"}] /\ t.queued[b] = p
        /\ \A c \in Blocks : c # b => t.queued[c] = s.queued[c]
    BY <2>2, <2>3 DEF JobsOk
  <2> HIDE DEF op
  <2>6. TracksOk(t, L) /\ TimersOk(t)
    BY <2>2, <2>3 DEF TracksOk, TimersOk, Announced, Fetched
  <2>7. Counted(t)
    <3>1. ASSUME NEW c \in Origins PROVE t.queues[c] = Cardinality(Queued(t, c))
      <4>1. CASE c = p
        <5>1. Queued(t, p) = Queued(s, p) \cup {b} /\ b \notin Queued(s, p)
          BY <2>2, <2>4, <2>5 DEF Queued
        <5>2. Cardinality(Queued(t, p)) = Cardinality(Queued(s, p)) + 1
          BY <5>1, QueuedIsFinite, FS_AddElement
        <5>3. t.queues[p] = s.queues[p] + 1 /\ s.queues[p] = Cardinality(Queued(s, p))
          BY <2>2, <2>3 DEF Counted
        <5> QED BY <4>1, <5>2, <5>3
      <4>2. CASE c # p
        <5>1. Queued(t, c) = Queued(s, c)
          BY <2>2, <2>4, <2>5, <4>2, NoneIsNoOrigin DEF Queued
        <5>2. t.queues[c] = s.queues[c] /\ s.queues[c] = Cardinality(Queued(s, c))
          BY <2>2, <2>3, <4>2 DEF Counted
        <5> QED BY <5>1, <5>2
      <4> QED BY <4>1, <4>2
    <3>2. t.queues = [c \in Origins |-> t.queues[c]]
      BY <2>2, <2>3 DEF Counted
    <3> QED BY <3>1, <3>2 DEF Counted
  <2>8. JobsOk(t, imp, dn, L)
    <3>1. /\ t.queue \subseteq Jobs(L) /\ IsFiniteSet(t.queue)
          /\ imp \in Seq(Jobs(L)) /\ dn \in Seq(Blocks)
      <4>1. s.queue \subseteq Jobs(L) /\ IsFiniteSet(s.queue) /\ imp \in Seq(Jobs(L)) /\ dn \in Seq(Blocks)
        BY <2>2 DEF JobsOk
      <4>2. IsFiniteSet(s.queue \cup {op})
        BY <4>1, FS_AddElement
      <4> QED BY <2>3, <2>4, <4>1, <4>2
    <3>2. /\ \A o \in s.queue : o.block \in Blocks /\ o.block # b
          /\ \A i \in DOMAIN imp : imp[i].block \in Blocks /\ imp[i].block # b
          /\ \A i \in DOMAIN dn : dn[i] \in Blocks /\ dn[i] # b
      <4>1. /\ \A o \in s.queue : o \in Jobs(L)
            /\ \A i \in DOMAIN imp : imp[i] \in Jobs(L)
            /\ \A i \in DOMAIN dn : dn[i] \in Blocks
        BY <2>2, <3>1, ElementOfSeq, LenProperties DEF JobsOk
      <4>2. \A o \in Jobs(L) : o.block \in Blocks /\ o.origin # "none"
        BY NoneIsNoOrigin DEF Jobs
      <4> QED BY <2>2, <2>4, <4>1, <4>2 DEF JobsOk
    <3>3. \A o \in t.queue : t.queued[o.block] = o.origin
      BY <2>2, <2>3, <2>4, <2>5, <3>2 DEF JobsOk
    <3>4. \A i \in DOMAIN imp : t.queued[imp[i].block] = imp[i].origin /\ imp[i] \notin t.queue
      BY <2>2, <2>3, <2>4, <2>5, <3>2 DEF JobsOk
    <3>5. \A i \in DOMAIN dn : t.queued[dn[i]] # "none" /\ \A o \in t.queue : o.block # dn[i]
      BY <2>2, <2>3, <2>4, <2>5, <3>2 DEF JobsOk
    <3> QED BY <2>2, <2>5, <3>1, <3>3, <3>4, <3>5 DEF JobsOk
  <2> QED BY <2>3, <2>6, <2>7, <2>8 DEF Good
<1> QED BY <1>1, <1>2, <1>3

\* Jobs depend on nothing else.
LEMMA SameJobs ==
  ASSUME NEW s, NEW imp, NEW dn, NEW L, JobsOk(s, imp, dn, L), Counted(s),
         NEW t, t.queue = s.queue, t.queues = s.queues, t.queued = s.queued
  PROVE  JobsOk(t, imp, dn, L) /\ Counted(t)
BY DEF JobsOk, Counted, Queued

\* Arming a timer changes nothing else.
LEMMA RescheduleFetchParts ==
  ASSUME NEW s, Shaped(s), NEW t, t = rescheduleFetch(s)
  PROVE  /\ Shaped(t)
         /\ t.announced = s.announced /\ t.fetching = s.fetching /\ t.fetched = s.fetched
         /\ t.completing = s.completing
         /\ t.queue = s.queue /\ t.queues = s.queues /\ t.queued = s.queued
         /\ t.completeTimer = s.completeTimer
         /\ t.fetchTimer = (s.fetchTimer \/ Announced(s) # {})
BY DEF rescheduleFetch, Shaped, Parts

\* The same for the completion timer.
LEMMA RescheduleCompleteParts ==
  ASSUME NEW s, Shaped(s), NEW t, t = rescheduleComplete(s)
  PROVE  /\ Shaped(t)
         /\ t.announced = s.announced /\ t.fetching = s.fetching /\ t.fetched = s.fetched
         /\ t.completing = s.completing
         /\ t.queue = s.queue /\ t.queues = s.queues /\ t.queued = s.queued
         /\ t.fetchTimer = s.fetchTimer
         /\ t.completeTimer = (s.completeTimer \/ Fetched(s) # {})
BY DEF rescheduleComplete, Shaped, Parts


\* An announcement is kept with its origin; it finds the timer armed, or arms it.
LEMMA ScheduledGood ==
  ASSUME NEW s, NEW imp, NEW dn, NEW L, Good(s, imp, dn, L),
         NEW p \in Origins, NEW b \in Blocks, NEW n \in Numbers, n # b.number \/ ~b.valid => p \in L,
         NEW t, t = Scheduled(s, p, b, n)
  PROVE  Good(t, imp, dn, L)
<1> DEFINE a == [origin |-> p, number |-> n, header |-> FALSE]
           v == [s EXCEPT !.announces[p] = @ + 1,
                          !.announced[b] = Append(@, [origin |-> p, number |-> n, header |-> FALSE])]
<1>1. t = IF Cardinality(Announced(v)) = 1 THEN rescheduleFetch(v) ELSE v
  BY DEF Scheduled
<1>2. Shaped(s) /\ TracksOk(s, L) /\ TimersOk(s) /\ JobsOk(s, imp, dn, L) /\ Counted(s)
  BY DEF Good
<1>3. /\ Shaped(v)
      /\ v.announced = [s.announced EXCEPT ![b] = Append(s.announced[b], a)]
      /\ v.fetching = s.fetching /\ v.fetched = s.fetched /\ v.completing = s.completing
      /\ v.queue = s.queue /\ v.queues = s.queues /\ v.queued = s.queued
      /\ v.fetchTimer = s.fetchTimer /\ v.completeTimer = s.completeTimer
  BY <1>2 DEF Shaped, Parts
<1>4. a \in Truthful(b, L)
  BY DEF Truthful, Announce
<1> HIDE DEF v, a
<1>5. /\ v.announced[b] \in Seq(Truthful(b, L)) /\ v.announced[b] # <<>>
      /\ \A c \in Blocks : c # b => v.announced[c] = s.announced[c]
  <2>1. s.announced[b] \in Seq(Truthful(b, L)) /\ DOMAIN s.announced = Blocks
    BY <1>2 DEF TracksOk, Shaped
  <2>2. v.announced[b] = Append(s.announced[b], a) /\ \A c \in Blocks : c # b => v.announced[c] = s.announced[c]
    BY <1>3, <2>1
  <2>3. Append(s.announced[b], a) \in Seq(Truthful(b, L)) /\ Append(s.announced[b], a) # <<>>
    BY <1>4, <2>1
  <2> QED BY <2>2, <2>3
<1>6. TracksOk(v, L)
  BY <1>2, <1>3, <1>5 DEF TracksOk
<1>7. Announced(v) = Announced(s) \cup {b} /\ Fetched(v) = Fetched(s)
  BY <1>3, <1>5 DEF Announced, Fetched
<1>8. CASE Cardinality(Announced(v)) = 1
  <2>1. t = rescheduleFetch(v)
    BY <1>1, <1>8
  <2>2. /\ Shaped(t)
        /\ t.announced = v.announced /\ t.fetching = v.fetching /\ t.fetched = v.fetched
        /\ t.completing = v.completing
        /\ t.queue = v.queue /\ t.queues = v.queues /\ t.queued = v.queued
        /\ t.completeTimer = v.completeTimer
        /\ t.fetchTimer = (v.fetchTimer \/ Announced(v) # {})
    BY <1>3, <2>1, RescheduleFetchParts
  <2>3. Announced(v) # {}
    BY <1>7
  <2>4. t.fetchTimer = TRUE
    BY <2>2, <2>3
  <2>5. TimersOk(t)
    BY <1>2, <1>3, <1>7, <2>2, <2>4 DEF TimersOk, Fetched
  <2>6. TracksOk(t, L)
    BY <1>6, <2>2 DEF TracksOk
  <2>7. JobsOk(t, imp, dn, L) /\ Counted(t)
    BY <1>2, <1>3, <2>2, SameJobs
  <2> QED BY <2>2, <2>5, <2>6, <2>7 DEF Good
<1>9. CASE Cardinality(Announced(v)) # 1
  <2>1. t = v
    BY <1>1, <1>9
  <2>2. Announced(s) # {}
    BY <1>7, <1>9, FS_Singleton
  <2>3. TimersOk(t)
    BY <1>2, <1>3, <1>7, <2>1, <2>2 DEF TimersOk
  <2>4. JobsOk(t, imp, dn, L) /\ Counted(t)
    BY <1>2, <1>3, <2>1, SameJobs
  <2> QED BY <1>3, <1>6, <2>1, <2>3, <2>4 DEF Good
<1> QED BY <1>8, <1>9

\* A header that is accepted leads to the queue, or to the completion timer.
LEMMA HeaderAcceptedGood ==
  ASSUME NEW s, NEW imp, NEW dn, NEW L, Good(s, imp, dn, L),
         NEW b \in Blocks, b \in Fetching(s),
         NEW t, t = HeaderAccepted(s, b)
  PROVE  Good(t, imp, dn, L)
<1> DEFINE a == WithHeader(s.fetching[b])
           v == [s EXCEPT !.fetching[b] = a, !.fetched[b] = Append(@, a)]
           w == [s EXCEPT !.fetching[b] = a, !.completing[b] = a]
<1>1. Shaped(s) /\ TracksOk(s, L) /\ TimersOk(s) /\ JobsOk(s, imp, dn, L) /\ Counted(s)
  BY DEF Good
<1>2. s.fetching[b] \in Truthful(b, L)
  BY <1>1 DEF TracksOk, Fetching
<1>3. a \in Headed(b, L) /\ a \in Truthful(b, L) /\ a.origin \in Origins /\ (~b.valid => a.origin \in L)
  BY <1>2 DEF WithHeader, Headed, Truthful, Announce
<1> HIDE DEF a
<1>4. CASE b.empty
  <2>1. t = enqueue(w, a.origin, b)
    BY <1>4 DEF HeaderAccepted, a
  <2>2. /\ Shaped(w)
        /\ w.announced = s.announced /\ w.fetched = s.fetched
        /\ w.fetching = [s.fetching EXCEPT ![b] = a] /\ w.completing = [s.completing EXCEPT ![b] = a]
        /\ w.queue = s.queue /\ w.queues = s.queues /\ w.queued = s.queued
        /\ w.fetchTimer = s.fetchTimer /\ w.completeTimer = s.completeTimer
    BY <1>1 DEF Shaped, Parts
  <2> HIDE DEF w
  <2>3. \A c \in Blocks : /\ w.fetching[c] = IF c = b THEN a ELSE s.fetching[c]
                          /\ w.completing[c] = IF c = b THEN a ELSE s.completing[c]
    BY <1>1, <2>2 DEF Shaped
  <2>4. TracksOk(w, L)
    BY <1>1, <1>3, <2>2, <2>3 DEF TracksOk
  <2>5. TimersOk(w)
    BY <1>1, <2>2 DEF TimersOk, Announced, Fetched
  <2>6. JobsOk(w, imp, dn, L) /\ Counted(w)
    BY <1>1, <2>2, SameJobs
  <2>7. Good(w, imp, dn, L)
    BY <2>2, <2>4, <2>5, <2>6 DEF Good
  <2> QED BY <1>3, <2>1, <2>7, EnqueueGood
<1>5. CASE ~b.empty
  <2>1. t = IF Cardinality(Fetched(v)) = 1 THEN rescheduleComplete(v) ELSE v
    BY <1>5 DEF HeaderAccepted, a
  <2>2. /\ Shaped(v)
        /\ v.announced = s.announced /\ v.completing = s.completing
        /\ v.fetching = [s.fetching EXCEPT ![b] = a]
        /\ v.fetched = [s.fetched EXCEPT ![b] = Append(s.fetched[b], a)]
        /\ v.queue = s.queue /\ v.queues = s.queues /\ v.queued = s.queued
        /\ v.fetchTimer = s.fetchTimer /\ v.completeTimer = s.completeTimer
    BY <1>1 DEF Shaped, Parts
  <2> HIDE DEF v
  <2>3. /\ v.fetching[b] = a /\ v.fetched[b] \in Seq(Headed(b, L)) /\ v.fetched[b] # <<>>
        /\ \A c \in Blocks : c # b => v.fetching[c] = s.fetching[c] /\ v.fetched[c] = s.fetched[c]
    <3>1. s.fetched[b] \in Seq(Headed(b, L)) /\ DOMAIN s.fetched = Blocks /\ DOMAIN s.fetching = Blocks
      BY <1>1 DEF TracksOk, Shaped
    <3>2. Append(s.fetched[b], a) \in Seq(Headed(b, L)) /\ Append(s.fetched[b], a) # <<>>
      BY <1>3, <3>1
    <3> QED BY <2>2, <3>1, <3>2
  <2>4. TracksOk(v, L)
    BY <1>1, <1>3, <2>2, <2>3 DEF TracksOk
  <2>5. Fetched(v) = Fetched(s) \cup {b} /\ Announced(v) = Announced(s)
    BY <2>2, <2>3 DEF Announced, Fetched
  <2>6. CASE Cardinality(Fetched(v)) = 1
    <3>1. t = rescheduleComplete(v)
      BY <2>1, <2>6
    <3>2. /\ Shaped(t)
          /\ t.announced = v.announced /\ t.fetching = v.fetching /\ t.fetched = v.fetched
          /\ t.completing = v.completing
          /\ t.queue = v.queue /\ t.queues = v.queues /\ t.queued = v.queued
          /\ t.fetchTimer = v.fetchTimer
          /\ t.completeTimer = (v.completeTimer \/ Fetched(v) # {})
      BY <2>2, <3>1, RescheduleCompleteParts
    <3>3. Fetched(v) # {}
      BY <2>5
    <3>4. t.completeTimer = TRUE
      BY <3>2, <3>3
    <3>5. TimersOk(t)
      BY <1>1, <2>2, <2>5, <3>2, <3>4 DEF TimersOk, Announced
    <3>6. TracksOk(t, L)
      BY <2>4, <3>2 DEF TracksOk
    <3>7. JobsOk(t, imp, dn, L) /\ Counted(t)
      BY <1>1, <2>2, <3>2, SameJobs
    <3> QED BY <3>2, <3>5, <3>6, <3>7 DEF Good
  <2>7. CASE Cardinality(Fetched(v)) # 1
    <3>1. t = v
      BY <2>1, <2>7
    <3>2. Fetched(s) # {}
      BY <2>5, <2>7, FS_Singleton
    <3>3. TimersOk(t)
      BY <1>1, <2>2, <2>5, <3>1, <3>2 DEF TimersOk
    <3>4. JobsOk(t, imp, dn, L) /\ Counted(t)
      BY <1>1, <2>2, <3>1, SameJobs
    <3> QED BY <2>2, <2>4, <3>1, <3>3, <3>4 DEF Good
  <2> QED BY <2>6, <2>7
<1> QED BY <1>4, <1>5

\* The steps of the timers, with the timer off, without what is due, with the requests
FetchOff(s) == [s EXCEPT !.fetchTimer = FALSE]
CompleteOff(s) == [s EXCEPT !.completeTimer = FALSE]
FetchAsked(s, u, asked, pick) ==
  [u EXCEPT !.fetching = [b \in Blocks |-> IF b \in asked THEN s.announced[b][pick[b]] ELSE @[b]]]
CompleteAsked(s, u, asked, pick) ==
  [u EXCEPT !.completing = [b \in Blocks |-> IF b \in asked THEN s.fetched[b][pick[b]] ELSE @[b]]]

\* The fetch timer: announcements that are due give way to one request each.
LEMMA FetchTimerGood ==
  ASSUME NEW s, NEW imp, NEW dn, NEW L, Good(s, imp, dn, L),
         NEW due \in SUBSET Blocks, NEW asked \in SUBSET due, NEW pick,
         \A b \in due : pick[b] \in DOMAIN s.announced[b],
         NEW w, w = FetchOff(s), NEW u, u = forgetHashes(w, due),
         NEW v, v = FetchAsked(s, u, asked, pick),
         NEW t, t = rescheduleFetch(v)
  PROVE  Good(t, imp, dn, L)
<1>1. Shaped(s) /\ TracksOk(s, L) /\ TimersOk(s) /\ JobsOk(s, imp, dn, L) /\ Counted(s)
  BY DEF Good
<1>2. /\ Shaped(w) /\ DOMAIN w = Parts
      /\ w.announced = s.announced /\ w.fetching = s.fetching /\ w.fetched = s.fetched
      /\ w.completing = s.completing
      /\ w.queue = s.queue /\ w.queues = s.queues /\ w.queued = s.queued
      /\ w.fetchTimer = FALSE /\ w.completeTimer = s.completeTimer
  BY <1>1 DEF FetchOff, Shaped, Parts
<1>3. /\ Shaped(u)
      /\ u.queue = s.queue /\ u.queues = s.queues /\ u.queued = s.queued
      /\ u.fetchTimer = FALSE /\ u.completeTimer = s.completeTimer
      /\ \A b \in Blocks : b \in due => /\ u.announced[b] = <<>> /\ u.fetching[b] = NoAnnounce
                                       /\ u.fetched[b] = <<>> /\ u.completing[b] = NoAnnounce
      /\ \A b \in Blocks : b \notin due =>
            /\ u.announced[b] = s.announced[b] /\ u.fetching[b] = s.fetching[b]
            /\ u.fetched[b] = s.fetched[b] /\ u.completing[b] = s.completing[b]
  BY <1>2, ForgetHashesParts
<1>4. /\ Shaped(v)
      /\ v.announced = u.announced /\ v.fetched = u.fetched /\ v.completing = u.completing
      /\ v.queue = u.queue /\ v.queues = u.queues /\ v.queued = u.queued
      /\ v.fetchTimer = u.fetchTimer /\ v.completeTimer = u.completeTimer
      /\ \A b \in Blocks : b \in asked => v.fetching[b] = s.announced[b][pick[b]]
      /\ \A b \in Blocks : b \notin asked => v.fetching[b] = u.fetching[b]
  BY <1>3 DEF FetchAsked, Shaped, Parts
<1>5. /\ Shaped(t)
      /\ t.announced = v.announced /\ t.fetching = v.fetching /\ t.fetched = v.fetched
      /\ t.completing = v.completing
      /\ t.queue = v.queue /\ t.queues = v.queues /\ t.queued = v.queued
      /\ t.completeTimer = v.completeTimer
      /\ t.fetchTimer = (v.fetchTimer \/ Announced(v) # {})
  BY <1>4, RescheduleFetchParts
<1>6. TracksOk(t, L)
  <2> SUFFICES ASSUME NEW b \in Blocks
               PROVE  /\ t.announced[b] \in Seq(Truthful(b, L))
                      /\ t.fetching[b] \in Truthful(b, L) \cup {NoAnnounce}
                      /\ t.fetched[b] \in Seq(Headed(b, L))
                      /\ t.completing[b] \in Headed(b, L) \cup {NoAnnounce}
    BY DEF TracksOk
  <2>1. /\ s.announced[b] \in Seq(Truthful(b, L))
        /\ s.fetching[b] \in Truthful(b, L) \cup {NoAnnounce}
        /\ s.fetched[b] \in Seq(Headed(b, L))
        /\ s.completing[b] \in Headed(b, L) \cup {NoAnnounce}
    BY <1>1 DEF TracksOk
  <2>2. t.announced[b] = u.announced[b] /\ t.fetched[b] = u.fetched[b] /\ t.completing[b] = u.completing[b]
        /\ t.fetching[b] = v.fetching[b]
    BY <1>4, <1>5
  <2>3. CASE b \in due
    <3>1. b \in asked => s.announced[b][pick[b]] \in Truthful(b, L)
      BY <2>1, <2>3, ElementOfSeq, LenProperties
    <3>2. t.fetching[b] \in Truthful(b, L) \cup {NoAnnounce}
      BY <1>3, <1>4, <2>2, <2>3, <3>1
    <3> QED BY <1>3, <2>2, <2>3, <3>2, EmptySeq
  <2>4. CASE b \notin due
    BY <1>3, <1>4, <2>1, <2>2, <2>4
  <2> QED BY <2>3, <2>4
<1>7. TimersOk(t)
  <2>1. t.fetchTimer = (Announced(v) # {}) /\ t.completeTimer = s.completeTimer
    BY <1>3, <1>4, <1>5
  <2>2. Announced(t) = Announced(v) /\ Fetched(t) \subseteq Fetched(s)
    BY <1>3, <1>4, <1>5 DEF Announced, Fetched
  <2>3. t.completeTimer \in BOOLEAN /\ (Fetched(t) # {} => t.completeTimer)
    BY <1>1, <2>1, <2>2 DEF TimersOk
  <2> QED BY <2>1, <2>2, <2>3 DEF TimersOk
<1>8. JobsOk(t, imp, dn, L) /\ Counted(t)
  BY <1>1, <1>3, <1>4, <1>5, SameJobs
<1> QED BY <1>5, <1>6, <1>7, <1>8 DEF Good

\* The completion timer: fetched headers give way to one request each.
LEMMA CompleteTimerGood ==
  ASSUME NEW s, NEW imp, NEW dn, NEW L, Good(s, imp, dn, L),
         NEW due \in SUBSET Blocks, NEW asked \in SUBSET due, NEW pick,
         \A b \in due : pick[b] \in DOMAIN s.fetched[b],
         NEW w, w = CompleteOff(s), NEW u, u = forgetHashes(w, due),
         NEW v, v = CompleteAsked(s, u, asked, pick),
         NEW t, t = rescheduleComplete(v)
  PROVE  Good(t, imp, dn, L)
<1>1. Shaped(s) /\ TracksOk(s, L) /\ TimersOk(s) /\ JobsOk(s, imp, dn, L) /\ Counted(s)
  BY DEF Good
<1>2. /\ Shaped(w) /\ DOMAIN w = Parts
      /\ w.announced = s.announced /\ w.fetching = s.fetching /\ w.fetched = s.fetched
      /\ w.completing = s.completing
      /\ w.queue = s.queue /\ w.queues = s.queues /\ w.queued = s.queued
      /\ w.completeTimer = FALSE /\ w.fetchTimer = s.fetchTimer
  BY <1>1 DEF CompleteOff, Shaped, Parts
<1>3. /\ Shaped(u)
      /\ u.queue = s.queue /\ u.queues = s.queues /\ u.queued = s.queued
      /\ u.completeTimer = FALSE /\ u.fetchTimer = s.fetchTimer
      /\ \A b \in Blocks : b \in due => /\ u.announced[b] = <<>> /\ u.fetching[b] = NoAnnounce
                                       /\ u.fetched[b] = <<>> /\ u.completing[b] = NoAnnounce
      /\ \A b \in Blocks : b \notin due =>
            /\ u.announced[b] = s.announced[b] /\ u.fetching[b] = s.fetching[b]
            /\ u.fetched[b] = s.fetched[b] /\ u.completing[b] = s.completing[b]
  BY <1>2, ForgetHashesParts
<1>4. /\ Shaped(v)
      /\ v.announced = u.announced /\ v.fetched = u.fetched /\ v.fetching = u.fetching
      /\ v.queue = u.queue /\ v.queues = u.queues /\ v.queued = u.queued
      /\ v.fetchTimer = u.fetchTimer /\ v.completeTimer = u.completeTimer
      /\ \A b \in Blocks : b \in asked => v.completing[b] = s.fetched[b][pick[b]]
      /\ \A b \in Blocks : b \notin asked => v.completing[b] = u.completing[b]
  BY <1>3 DEF CompleteAsked, Shaped, Parts
<1>5. /\ Shaped(t)
      /\ t.announced = v.announced /\ t.fetching = v.fetching /\ t.fetched = v.fetched
      /\ t.completing = v.completing
      /\ t.queue = v.queue /\ t.queues = v.queues /\ t.queued = v.queued
      /\ t.fetchTimer = v.fetchTimer
      /\ t.completeTimer = (v.completeTimer \/ Fetched(v) # {})
  BY <1>4, RescheduleCompleteParts
<1>6. TracksOk(t, L)
  <2> SUFFICES ASSUME NEW b \in Blocks
               PROVE  /\ t.announced[b] \in Seq(Truthful(b, L))
                      /\ t.fetching[b] \in Truthful(b, L) \cup {NoAnnounce}
                      /\ t.fetched[b] \in Seq(Headed(b, L))
                      /\ t.completing[b] \in Headed(b, L) \cup {NoAnnounce}
    BY DEF TracksOk
  <2>1. /\ s.announced[b] \in Seq(Truthful(b, L))
        /\ s.fetching[b] \in Truthful(b, L) \cup {NoAnnounce}
        /\ s.fetched[b] \in Seq(Headed(b, L))
        /\ s.completing[b] \in Headed(b, L) \cup {NoAnnounce}
    BY <1>1 DEF TracksOk
  <2>2. t.announced[b] = u.announced[b] /\ t.fetched[b] = u.fetched[b] /\ t.fetching[b] = u.fetching[b]
        /\ t.completing[b] = v.completing[b]
    BY <1>4, <1>5
  <2>3. CASE b \in due
    <3>1. b \in asked => s.fetched[b][pick[b]] \in Headed(b, L)
      BY <2>1, <2>3, ElementOfSeq, LenProperties
    <3>2. t.completing[b] \in Headed(b, L) \cup {NoAnnounce}
      BY <1>3, <1>4, <2>2, <2>3, <3>1
    <3> QED BY <1>3, <2>2, <2>3, <3>2, EmptySeq
  <2>4. CASE b \notin due
    BY <1>3, <1>4, <2>1, <2>2, <2>4
  <2> QED BY <2>3, <2>4
<1>7. TimersOk(t)
  <2>1. t.completeTimer = (Fetched(v) # {}) /\ t.fetchTimer = s.fetchTimer
    BY <1>3, <1>4, <1>5
  <2>2. Fetched(t) = Fetched(v) /\ Announced(t) \subseteq Announced(s)
    BY <1>3, <1>4, <1>5 DEF Announced, Fetched
  <2>3. t.fetchTimer \in BOOLEAN /\ (Announced(t) # {} => t.fetchTimer)
    BY <1>1, <2>1, <2>2 DEF TimersOk
  <2> QED BY <2>1, <2>2, <2>3 DEF TimersOk
<1>8. JobsOk(t, imp, dn, L) /\ Counted(t)
  BY <1>1, <1>3, <1>4, <1>5, SameJobs
<1> QED BY <1>5, <1>6, <1>7, <1>8 DEF Good

\* An import that is done frees its block and the place of its peer.
LEMMA DoneGood ==
  ASSUME NEW s, NEW imp, NEW dn, NEW L, Good(s, imp, dn, L), NEW k \in DOMAIN dn,
         NEW u, u = forgetHash(s, dn[k]), NEW t, t = forgetBlock(u, dn[k]), NEW r, r = RemoveAt(dn, k)
  PROVE  Good(t, imp, r, L)
<1> DEFINE d == dn[k]
<1>1. Good(u, imp, dn, L)
  BY ForgetHashesGood DEF forgetHash
<1>2. Shaped(u) /\ TracksOk(u, L) /\ TimersOk(u) /\ JobsOk(u, imp, dn, L) /\ Counted(u)
  BY <1>1 DEF Good
<1>3. dn \in Seq(Blocks) /\ DOMAIN dn = 1..Len(dn) /\ \A i \in DOMAIN dn : dn[i] \in Blocks
  BY <1>2, LenProperties, ElementOfSeq DEF JobsOk
<1>4. t = forgetBlocks(u, {d}) /\ {d} \in SUBSET Blocks
  BY <1>3 DEF forgetBlock
<1>5. /\ Shaped(t)
      /\ t.announced = u.announced /\ t.fetching = u.fetching /\ t.fetched = u.fetched
      /\ t.completing = u.completing /\ t.queue = u.queue
      /\ t.fetchTimer = u.fetchTimer /\ t.completeTimer = u.completeTimer
      /\ \A b \in Blocks : b # d => t.queued[b] = u.queued[b]
  BY <1>2, <1>4 DEF forgetBlocks, Shaped, Parts
<1>6. t.queued \in [Blocks -> Origins \cup {"none"}] /\ Counted(t)
  BY <1>2, <1>4, ForgetBlocksCounted, ZenonT(60) DEF JobsOk
<1>7. TracksOk(t, L) /\ TimersOk(t)
  BY <1>2, <1>5 DEF TracksOk, TimersOk, Announced, Fetched
<1>8. r \in Seq(Blocks) /\ PlacesIn(r, dn, k)
  <2>1. k \in 1..Len(dn)
    BY <1>3
  <2> QED BY <1>3, <2>1, RemoveAtPlaces
<1>9. PICK g \in [1..Len(r) -> 1..Len(dn)] :
        /\ \A i, j \in 1..Len(r) : g[i] = g[j] => i = j
        /\ \A i \in 1..Len(r) : g[i] # k /\ r[i] = dn[g[i]]
  BY <1>8 DEF PlacesIn
<1>10. DOMAIN r = 1..Len(r)
  BY <1>8, LenProperties
<1>11. \A i \in DOMAIN dn : i # k => dn[i] # d
  BY <1>2 DEF JobsOk
<1> HIDE DEF d
<1>12. \A i \in DOMAIN r : g[i] \in DOMAIN dn /\ r[i] = dn[g[i]] /\ r[i] # d /\ r[i] \in Blocks
  BY <1>3, <1>9, <1>10, <1>11
<1>13. JobsOk(t, imp, r, L)
  <2>1. /\ t.queue \subseteq Jobs(L) /\ IsFiniteSet(t.queue) /\ imp \in Seq(Jobs(L))
        /\ \A i, j \in DOMAIN imp : imp[i].block = imp[j].block => i = j
    BY <1>2, <1>5 DEF JobsOk
  <2>2. /\ \A op \in u.queue : op.block \in Blocks /\ op.block # d
        /\ \A i \in DOMAIN imp : imp[i].block \in Blocks /\ imp[i].block # d
    <3>1. \A op \in Jobs(L) : op.block \in Blocks
      BY DEF Jobs
    <3>2. \A i \in DOMAIN imp : imp[i] \in Jobs(L)
      BY <2>1, LenProperties, ElementOfSeq
    <3> QED BY <1>2, <3>1, <3>2 DEF JobsOk, d
  <2>3. \A op \in t.queue : t.queued[op.block] = op.origin
    BY <1>2, <1>5, <2>2 DEF JobsOk
  <2>4. \A i \in DOMAIN imp : t.queued[imp[i].block] = imp[i].origin /\ imp[i] \notin t.queue
    BY <1>2, <1>5, <2>2 DEF JobsOk
  <2>5. \A i \in DOMAIN r : t.queued[r[i]] # "none"
    <3>1. \A i \in DOMAIN dn : u.queued[dn[i]] # "none"
      BY <1>2 DEF JobsOk
    <3> QED BY <1>5, <1>12, <3>1
  <2>6. \A i, j \in DOMAIN r : r[i] = r[j] => i = j
    <3>1. \A i, j \in DOMAIN dn : dn[i] = dn[j] => i = j
      BY <1>2 DEF JobsOk
    <3> QED BY <1>9, <1>10, <1>12, <3>1
  <2>7. \A i \in DOMAIN r : /\ \A op \in t.queue : op.block # r[i]
                            /\ \A j \in DOMAIN imp : imp[j].block # r[i]
    <3>1. \A i \in DOMAIN dn : /\ \A op \in u.queue : op.block # dn[i]
                               /\ \A j \in DOMAIN imp : imp[j].block # dn[i]
      BY <1>2 DEF JobsOk
    <3> QED BY <1>5, <1>12, <3>1
  <2> QED BY <1>6, <1>8, <2>1, <2>3, <2>4, <2>5, <2>6, <2>7 DEF JobsOk
<1> QED BY <1>5, <1>6, <1>7, <1>13 DEF Good

\* An import that ends is no longer running, but not yet done for the loop.
LEMMA ImportGood ==
  ASSUME NEW s, NEW imp, NEW dn, NEW L, Good(s, imp, dn, L), NEW k \in DOMAIN imp,
         NEW r, r = RemoveAt(imp, k), NEW e, e = Append(dn, imp[k].block)
  PROVE  Good(s, r, e, L)
<1> DEFINE d == imp[k].block
<1>1. JobsOk(s, imp, dn, L)
  BY DEF Good
<1>2. /\ imp \in Seq(Jobs(L)) /\ DOMAIN imp = 1..Len(imp) /\ \A i \in DOMAIN imp : imp[i] \in Jobs(L)
      /\ dn \in Seq(Blocks) /\ DOMAIN dn = 1..Len(dn)
  BY <1>1, LenProperties, ElementOfSeq DEF JobsOk
<1>3. \A op \in Jobs(L) : op.block \in Blocks /\ op.origin # "none"
  BY NoneIsNoOrigin DEF Jobs
<1>4. d \in Blocks
  BY <1>2, <1>3
<1>5. r \in Seq(Jobs(L)) /\ PlacesIn(r, imp, k)
  <2>1. k \in 1..Len(imp)
    BY <1>2
  <2> QED BY <1>2, <2>1, RemoveAtPlaces
<1>6. PICK g \in [1..Len(r) -> 1..Len(imp)] :
        /\ \A i, j \in 1..Len(r) : g[i] = g[j] => i = j
        /\ \A i \in 1..Len(r) : g[i] # k /\ r[i] = imp[g[i]]
  BY <1>5 DEF PlacesIn
<1>7. DOMAIN r = 1..Len(r)
  BY <1>5, LenProperties
<1>8. \A i \in DOMAIN r : g[i] \in DOMAIN imp /\ r[i] = imp[g[i]] /\ r[i].block # d
  BY <1>1, <1>2, <1>6, <1>7 DEF JobsOk
<1>9. /\ e \in Seq(Blocks) /\ DOMAIN e = 1..(Len(dn) + 1)
      /\ e[Len(dn) + 1] = d /\ \A i \in DOMAIN dn : e[i] = dn[i]
  BY <1>2, <1>4
<1>10. /\ \A op \in s.queue : op.block # d
       /\ \A i \in DOMAIN dn : dn[i] # d
       /\ s.queued[d] # "none"
  <2>1. \A op \in s.queue : op.block # d
    BY <1>1, OneJob
  <2>2. \A i \in DOMAIN dn : dn[i] # d
    BY <1>1 DEF JobsOk
  <2>3. s.queued[d] # "none"
    BY <1>1, <1>2, <1>3 DEF JobsOk
  <2> QED BY <2>1, <2>2, <2>3
<1> HIDE DEF d
<1>11. Len(dn) \in Nat
  BY <1>2, LenProperties
<1>12. \A i \in DOMAIN e : i = Len(dn) + 1 \/ i \in DOMAIN dn
  BY <1>2, <1>9, <1>11
<1>13. JobsOk(s, r, e, L)
  <2>1. /\ s.queued \in [Blocks -> Origins \cup {"none"}] /\ s.queue \subseteq Jobs(L) /\ IsFiniteSet(s.queue)
        /\ \A op \in s.queue : s.queued[op.block] = op.origin
    BY <1>1 DEF JobsOk
  <2>2. \A i \in DOMAIN r : s.queued[r[i].block] = r[i].origin /\ r[i] \notin s.queue
    BY <1>1, <1>8 DEF JobsOk
  <2>3. \A i, j \in DOMAIN r : r[i].block = r[j].block => i = j
    <3>1. \A i, j \in DOMAIN imp : imp[i].block = imp[j].block => i = j
      BY <1>1 DEF JobsOk
    <3> QED BY <1>6, <1>7, <1>8, <3>1
  <2>4. \A i \in DOMAIN e : s.queued[e[i]] # "none"
    BY <1>1, <1>9, <1>10, <1>12 DEF JobsOk
  <2>5. \A i, j \in DOMAIN e : e[i] = e[j] => i = j
    <3>1. \A i, j \in DOMAIN dn : dn[i] = dn[j] => i = j
      BY <1>1 DEF JobsOk
    <3> QED BY <1>9, <1>10, <1>12, <3>1
  <2>6. \A i \in DOMAIN e : /\ \A op \in s.queue : op.block # e[i]
                            /\ \A j \in DOMAIN r : r[j].block # e[i]
    <3>1. \A i \in DOMAIN dn : /\ \A op \in s.queue : op.block # dn[i]
                               /\ \A j \in DOMAIN imp : imp[j].block # dn[i]
      BY <1>1 DEF JobsOk
    <3> QED BY <1>8, <1>9, <1>10, <1>12, <3>1
  <2> QED BY <1>5, <1>9, <2>1, <2>2, <2>3, <2>4, <2>5, <2>6 DEF JobsOk
<1> QED BY <1>13 DEF Good

\* The empty fetcher keeps the invariant.
LEMMA FetcherStarts == FetcherInit => FetcherInv
<1> SUFFICES ASSUME FetcherInit PROVE FetcherInv
  OBVIOUS
<1>1. f = New /\ importing = <<>> /\ doneCh = <<>> /\ dropped = {}
  BY DEF FetcherInit
<1>2. /\ DOMAIN f = Parts
      /\ f.announced = [b \in Blocks |-> <<>>] /\ f.fetching = [b \in Blocks |-> NoAnnounce]
      /\ f.fetched = [b \in Blocks |-> <<>>] /\ f.completing = [b \in Blocks |-> NoAnnounce]
      /\ f.queue = {} /\ f.queues = [p \in Origins |-> 0] /\ f.queued = [b \in Blocks |-> "none"]
      /\ f.fetchTimer = TRUE /\ f.completeTimer = TRUE
  BY <1>1 DEF New, Parts
<1>3. Shaped(f)
  BY <1>2 DEF Shaped
<1>4. TracksOk(f, liars)
  BY <1>2, EmptySeq DEF TracksOk
<1>5. TimersOk(f)
  BY <1>2 DEF TimersOk
<1>6. JobsOk(f, importing, doneCh, liars)
  <2>1. DOMAIN importing = {} /\ DOMAIN doneCh = {}
    BY <1>1
  <2>2. importing \in Seq(Jobs(liars)) /\ doneCh \in Seq(Blocks)
    BY <1>1, EmptySeq
  <2>3. IsFiniteSet(f.queue)
    BY <1>2, FS_EmptySet
  <2> QED BY <1>2, <2>1, <2>2, <2>3 DEF JobsOk
<1>7. Counted(f)
  <2>1. \A p \in Origins : Queued(f, p) = {}
    BY <1>2, NoneIsNoOrigin DEF Queued
  <2> QED BY <1>2, <2>1, FS_EmptySet, ZenonT(60) DEF Counted
<1> QED BY <1>1, <1>3, <1>4, <1>5, <1>6, <1>7 DEF FetcherInv, Good

\* Every event of the loop and every import keeps it: the state an event computes is
\* good, and so is what the top of the loop makes of it.
LEMMA FetcherSteps ==
  ASSUME FetcherInv, [FetcherNext]_fetcherVars
  PROVE  FetcherInv'
<1>1. Good(f, importing, doneCh, liars) /\ dropped \subseteq liars
  BY DEF FetcherInv
<1>2. SUFFICES Good(f', importing', doneCh', liars') /\ dropped' \subseteq liars'
  BY DEF FetcherInv, Good, Shaped, TracksOk, TimersOk, JobsOk, Counted, Queued, Truthful, Headed, Jobs,
         Announced, Fetched
<1>3. ASSUME NEW p \in Origins, NEW b \in Blocks, Enqueue(p, b)
      PROVE  Good(f', importing', doneCh', liars') /\ dropped' \subseteq liars'
  <2>1. /\ Loop(enqueue(f, p, b)) /\ doneCh' = doneCh /\ dropped' = dropped
        /\ liars \subseteq liars' /\ (~b.valid => p \in liars')
    BY <1>3 DEF Enqueue
  <2>2. Good(f, importing, doneCh, liars')
    BY <1>1, <2>1, MoreLiars
  <2>3. Good(enqueue(f, p, b), importing, doneCh, liars')
    BY <2>1, <2>2, EnqueueGood
  <2> QED BY <1>1, <2>1, <2>3, LoopGood
<1>4. ASSUME NEW p \in Origins, NEW b \in Blocks, NEW n \in Numbers, Notify(p, b, n)
      PROVE  Good(f', importing', doneCh', liars') /\ dropped' \subseteq liars'
  <2>1. /\ Loop(f) \/ Loop(Scheduled(f, p, b, n))
        /\ doneCh' = doneCh /\ dropped' = dropped
        /\ liars \subseteq liars' /\ (n # b.number \/ ~b.valid => p \in liars')
    BY <1>4 DEF Notify
  <2>2. Good(f, importing, doneCh, liars')
    BY <1>1, <2>1, MoreLiars
  <2>3. Good(Scheduled(f, p, b, n), importing, doneCh, liars')
    BY <2>1, <2>2, ScheduledGood
  <2> QED BY <1>1, <2>1, <2>2, <2>3, LoopGood
<1>5. ASSUME NEW due \in SUBSET Blocks, NEW pick \in Picks, FetchTimer(due, pick)
      PROVE  Good(f', importing', doneCh', liars') /\ dropped' \subseteq liars'
  <2> DEFINE asked == {b \in due : ~getBlock(b)}
             v == FetchAsked(f, forgetHashes(FetchOff(f), due), asked, pick)
  <2>1. /\ \A b \in due : pick[b] \in DOMAIN f.announced[b]
        /\ Loop(rescheduleFetch(v)) /\ doneCh' = doneCh /\ dropped' = dropped /\ liars' = liars
    BY <1>5 DEF FetchTimer, FetchAsked, FetchOff, Outside
  <2>2. asked \in SUBSET due
    OBVIOUS
  <2> HIDE DEF asked
  <2>3. Good(rescheduleFetch(v), importing, doneCh, liars)
    BY <1>1, <2>1, <2>2, FetchTimerGood
  <2> HIDE DEF v
  <2> QED BY <1>1, <2>1, <2>3, LoopGood
<1>6. ASSUME Complete
      PROVE  Good(f', importing', doneCh', liars') /\ dropped' \subseteq liars'
  <2>0. PICK pick \in Picks : CompleteTimer(pick)
    BY <1>6 DEF Complete
  <2> DEFINE due == Fetched(f)
             asked == {b \in due : ~getBlock(b)}
             v == CompleteAsked(f, forgetHashes(CompleteOff(f), due), asked, pick)
  <2>1. /\ \A b \in due : pick[b] \in DOMAIN f.fetched[b]
        /\ Loop(rescheduleComplete(v)) /\ doneCh' = doneCh /\ dropped' = dropped /\ liars' = liars
    BY <2>0 DEF CompleteTimer, CompleteAsked, CompleteOff, Outside
  <2>2. due \in SUBSET Blocks /\ asked \in SUBSET due
    BY DEF Fetched
  <2> HIDE DEF asked, due
  <2>3. Good(rescheduleComplete(v), importing, doneCh, liars)
    BY <1>1, <2>1, <2>2, CompleteTimerGood
  <2> HIDE DEF v
  <2> QED BY <1>1, <2>1, <2>3, LoopGood
<1>7. ASSUME NEW i \in DOMAIN doneCh, Done(i)
      PROVE  Good(f', importing', doneCh', liars') /\ dropped' \subseteq liars'
  <2> DEFINE s == forgetBlock(forgetHash(f, doneCh[i]), doneCh[i])
  <2>1. Loop(s) /\ doneCh' = RemoveAt(doneCh, i) /\ dropped' = dropped /\ liars' = liars
    BY <1>7 DEF Done
  <2>2. Good(s, importing, RemoveAt(doneCh, i), liars)
    BY <1>1, DoneGood
  <2> HIDE DEF s
  <2> QED BY <1>1, <2>1, <2>2, LoopGood
<1>8. ASSUME NEW b \in Blocks, FilterHeaders(b)
      PROVE  Good(f', importing', doneCh', liars') /\ dropped' \subseteq liars'
  <2> DEFINE wrong == Requested(f, b) /\ f.fetching[b].number # b.number
  <2>1. /\ \/ Loop(f)
           \/ Loop(forgetHash(f, b))
           \/ Requested(f, b) /\ Loop(HeaderAccepted(f, b))
        /\ dropped' = IF wrong THEN dropped \cup {f.fetching[b].origin} ELSE dropped
        /\ doneCh' = doneCh /\ liars' = liars
    BY <1>8 DEF FilterHeaders
  <2>2. Requested(f, b) => b \in Fetching(f)
    BY DEF Requested
  <2>3. wrong => f.fetching[b].origin \in liars
    <3>1. b \in Fetching(f) => f.fetching[b] \in Truthful(b, liars)
      BY <1>1 DEF Good, TracksOk, Fetching
    <3> QED BY <2>2, <3>1 DEF Truthful
  <2>4. Good(forgetHash(f, b), importing, doneCh, liars)
    BY <1>1, ForgetHashesGood DEF forgetHash
  <2>5. Requested(f, b) => Good(HeaderAccepted(f, b), importing, doneCh, liars)
    BY <1>1, <2>2, HeaderAcceptedGood
  <2>6. Good(f', importing', doneCh, liars)
    BY <1>1, <2>1, <2>4, <2>5, LoopGood
  <2> QED BY <1>1, <2>1, <2>3, <2>6
<1>9. ASSUME NEW b \in Blocks, FilterBodies(b)
      PROVE  Good(f', importing', doneCh', liars') /\ dropped' \subseteq liars'
  <2>1. /\ \/ Loop(f)
           \/ Loop(forgetHash(f, b))
           \/ b \in Completing(f) /\ Loop(enqueue(f, f.completing[b].origin, b))
        /\ doneCh' = doneCh /\ dropped' = dropped /\ liars' = liars
    BY <1>9 DEF FilterBodies, Outside
  <2>2. Good(forgetHash(f, b), importing, doneCh, liars)
    BY <1>1, ForgetHashesGood DEF forgetHash
  <2>3. b \in Completing(f) => /\ f.completing[b].origin \in Origins
                               /\ ~b.valid => f.completing[b].origin \in liars
    <3>1. b \in Completing(f) => f.completing[b] \in Truthful(b, liars)
      BY <1>1 DEF Good, TracksOk, Completing, Headed
    <3> QED BY <3>1 DEF Truthful, Announce
  <2>4. b \in Completing(f) => Good(enqueue(f, f.completing[b].origin, b), importing, doneCh, liars)
    BY <1>1, <2>3, EnqueueGood
  <2> QED BY <1>1, <2>1, <2>2, <2>4, LoopGood
<1>10. ASSUME NEW i \in DOMAIN importing, Import(i)
       PROVE  Good(f', importing', doneCh', liars') /\ dropped' \subseteq liars'
  <2> DEFINE op == importing[i]
  <2>1. /\ f' = f /\ liars' = liars /\ importing' = RemoveAt(importing, i)
        /\ doneCh' = Append(doneCh, importing[i].block)
        /\ dropped' = dropped \/ (~op.block.valid /\ dropped' = dropped \cup {op.origin})
    BY <1>10 DEF Import
  <2>2. Good(f, RemoveAt(importing, i), Append(doneCh, importing[i].block), liars)
    BY <1>1, ImportGood
  <2>3. ~op.block.valid => op.origin \in liars
    <3>1. op \in Jobs(liars)
      BY <1>1, LenProperties, ElementOfSeq DEF Good, JobsOk
    <3> QED BY <3>1 DEF Jobs
  <2> QED BY <1>1, <2>1, <2>2, <2>3
<1>11. ASSUME NEW b \in Blocks, OtherImport(b)
       PROVE  Good(f', importing', doneCh', liars') /\ dropped' \subseteq liars'
  BY <1>1, <1>11 DEF OtherImport
<1>12. CASE UNCHANGED fetcherVars
  BY <1>1, <1>12 DEF fetcherVars
<1>13. CASE FetcherNext
  <2>1. DOMAIN doneCh = 1..Len(doneCh) /\ DOMAIN importing = 1..Len(importing)
    BY <1>1, LenProperties DEF Good, JobsOk
  <2>2. AnyDone => \E i \in DOMAIN doneCh : Done(i)
    BY <2>1 DEF AnyDone
  <2>3. AnyImport => \E i \in DOMAIN importing : Import(i)
    BY <2>1 DEF AnyImport
  <2> QED BY <1>3, <1>4, <1>5, <1>6, <1>7, <1>8, <1>9, <1>10, <1>11, <1>13, <2>2, <2>3 DEF FetcherNext
<1> QED BY <1>12, <1>13

\* However announcements, answers, timers and imports interleave, and whatever the peers
\* send: the timer runs for what waits for it, each queued block counts against its peer
\* until its one import ends, what is being completed has a header, and only a peer that
\* lied is dropped (fetcher.go: loop, insert, enqueue, forgetHash, forgetBlock).
THEOREM FetcherAlwaysConsistent == FetcherSpec => []FetcherIsConsistent
<1>1. FetcherInv => FetcherIsConsistent
  <2> SUFFICES ASSUME FetcherInv PROVE FetcherIsConsistent
    OBVIOUS
  <2>1. /\ TracksOk(f, liars) /\ TimersOk(f) /\ JobsOk(f, importing, doneCh, liars) /\ Counted(f)
        /\ dropped \subseteq liars
    BY DEF FetcherInv, Good
  <2>2. TimersRun
    BY <2>1 DEF TimersRun, TimersOk
  <2>3. ImportsAreCounted
    BY <2>1 DEF ImportsAreCounted, JobsOk, Counted, Queued
  <2>4. CompletingHasHeader
    BY <2>1 DEF CompletingHasHeader, TracksOk, Completing, Headed
  <2> QED BY <2>1, <2>2, <2>3, <2>4 DEF FetcherIsConsistent, DropsOnlyLiars
<1> QED BY <1>1, FetcherStarts, FetcherSteps, PTL DEF FetcherSpec

-----------------------------------------------------------------------------
(* The queue of bodies and receipts.                                        *)

\* The parts a height still waits for.
MissingParts(h) == {k \in Needs(h) : h \notin got[k]}

QueueTypes ==
  /\ sync \in Syncs /\ scheduled \in 0..sync.head /\ offset \in Nat \ {0}
  /\ pool \in [Kinds -> SUBSET Heights] /\ tasks \in [Kinds -> SUBSET Heights]
  /\ done \in [Kinds -> SUBSET Heights] /\ got \in [Kinds -> SUBSET Heights]
  /\ pend \in [Kinds -> [Sources -> SUBSET Heights]]
  /\ cache \in [Heights -> Int]

\* What the pools say: a part is pooled from the time it is scheduled until it is got,
\* and done from then until its block leaves the cache.
PoolsAgree ==
  \A k \in Kinds, h \in Heights :
    /\ h \in pool[k] <=> (h <= scheduled /\ k \in Needs(h) /\ h \notin got[k])
    /\ h \in done[k] <=> (h \in got[k] /\ h >= offset)
    /\ h \in got[k] => (h <= scheduled /\ k \in Needs(h))

\* A part that is pooled is in the queue or with a peer, and nowhere twice.
PoolIsSplit ==
  \A k \in Kinds :
    /\ \A h \in Heights : h \in pool[k] <=> (h \in tasks[k] \/ \E p \in Sources : h \in pend[k][p])
    /\ \A p \in Sources, h \in Heights : h \in pend[k][p] => h \notin tasks[k]
    /\ \A p, q \in Sources, h \in Heights : h \in pend[k][p] /\ h \in pend[k][q] => p = q

\* What is asked for or done has a slot, and slots are within the cache and count what is missing.
SlotsAreRight ==
  /\ \A k \in Kinds, p \in Sources, h \in Heights : h \in pend[k][p] => cache[h] # nil
  /\ \A k \in Kinds, h \in Heights : h \in done[k] => cache[h] # nil
  /\ \A h \in Heights : cache[h] # nil =>
       h \in InCache /\ h <= scheduled /\ cache[h] = Cardinality(MissingParts(h))

QueueInv ==
  /\ QueueTypes /\ PoolsAgree /\ PoolIsSplit /\ SlotsAreRight /\ ImportedIsComplete
  /\ offset <= scheduled + 1 /\ ~invalid

\* A set of kinds has at most two elements.
LEMMA FewKinds ==
  ASSUME NEW S \in SUBSET Kinds
  PROVE  /\ IsFiniteSet(S) /\ Cardinality(S) \in 0..2
         /\ Cardinality(S) = 0 <=> S = {}
         /\ \A k \in S : Cardinality(S \ {k}) = Cardinality(S) - 1
<1>1. /\ IsFiniteSet({}) /\ Cardinality({}) = 0
      /\ IsFiniteSet({"receipt"}) /\ Cardinality({"receipt"}) = 1
  BY FS_EmptySet, FS_Singleton
<1>2. /\ IsFiniteSet({"receipt"} \cup {"body"})
      /\ Cardinality({"receipt"} \cup {"body"}) = 2
  BY <1>1, FS_AddElement
<1>3. {"receipt"} \cup {"body"} = Kinds
  BY DEF Kinds
<1>4. IsFiniteSet(Kinds) /\ Cardinality(Kinds) = 2
  BY <1>2, <1>3, Zenon
<1>5. IsFiniteSet(S) /\ Cardinality(S) <= 2
  BY <1>4, FS_Subset
<1>6. Cardinality(S) \in Nat /\ (Cardinality(S) = 0 <=> S = {})
  BY <1>5, FS_CardinalityType, FS_EmptySet
<1>7. ASSUME NEW k \in S PROVE Cardinality(S \ {k}) = Cardinality(S) - 1
  BY <1>5, FS_RemoveElement
<1> QED BY <1>5, <1>6, <1>7

\* Needs and MissingParts are sets of kinds.
LEMMA KindsNeeded == ASSUME NEW h PROVE Needs(h) \in SUBSET Kinds /\ MissingParts(h) \in SUBSET Kinds
  BY DEF Needs, MissingParts, Kinds

\* The sets of heights are finite.
LEMMA HeightsAreFinite == ASSUME NEW S \in SUBSET Heights PROVE IsFiniteSet(S) /\ Cardinality(S) \in Nat
<1>1. IsFiniteSet(Heights)
  BY QueueConstants, FS_Interval DEF Heights
<1> QED BY <1>1, FS_Subset, FS_CardinalityType

\* A union has at most the elements of its two sets.
LEMMA UnionIsBounded ==
  ASSUME NEW S, IsFiniteSet(S), NEW T, IsFiniteSet(T)
  PROVE  /\ IsFiniteSet(S \cup T) /\ Cardinality(S \cup T) \in Nat
         /\ Cardinality(S \cup T) <= Cardinality(S) + Cardinality(T)
<1>1. IsFiniteSet(S \cap T) /\ IsFiniteSet(S \cup T)
  BY FS_Intersection, FS_Union
<1>2. Cardinality(S \cup T) = Cardinality(S) + Cardinality(T) - Cardinality(S \cap T)
  BY FS_Union
<1>3. /\ Cardinality(S) \in Nat /\ Cardinality(T) \in Nat
      /\ Cardinality(S \cap T) \in Nat /\ Cardinality(S \cup T) \in Nat
  BY <1>1, FS_CardinalityType
<1> QED BY <1>1, <1>2, <1>3

\* The throttle of reserveHeaders: what the loop takes from the queue has a place in the
\* cache.  Whatever is below it and not imported is done, under way or before it in the
\* queue, and the space counts the first two.
LEMMA PoppedFits ==
  ASSUME QueueInv, NEW k \in Kinds, NEW p \in Sources, NEW h \in Popped(k, p)
  PROVE  h \in InCache
<1> DEFINE Flying == {x \in Heights : \E q \in Sources : x \in pend[k][q]}
           Pairs == {x \in Sources \X Heights : x[2] \in pend[k][x[1]]}
           Before == Below(tasks[k], h)
           D == done[k]
<1>1. /\ h \in tasks[k] /\ h \in Heights /\ h \in Nat
      /\ Cardinality(Before) < space(k)
  BY DEF Popped, QueueInv, QueueTypes, Heights
<1>2. offset \in Nat /\ offset >= 1 /\ scheduled \in Nat /\ CacheLimit \in Nat
  BY QueueConstants DEF QueueInv, QueueTypes
<1>3. h <= scheduled /\ k \in Needs(h) /\ h \notin got[k]
  BY <1>1 DEF QueueInv, PoolIsSplit, PoolsAgree
<1>4. h >= offset
  <2> SUFFICES ASSUME h < offset PROVE FALSE
    BY <1>1, <1>2
  <2>1. h \in 1..(offset - 1)
    BY <1>1, <1>2 DEF Heights
  <2> QED BY <1>3, <2>1 DEF QueueInv, ImportedIsComplete
<1>5. offset..(h - 1) \subseteq (D \cup Flying) \cup Before
  <2> SUFFICES ASSUME NEW x \in offset..(h - 1)
               PROVE  x \in (D \cup Flying) \cup Before
    OBVIOUS
  <2>1. x \in Nat /\ x >= offset /\ x < h /\ x \in Heights /\ x <= scheduled
    BY <1>1, <1>2, <1>3, QueueConstants DEF Heights
  <2>2. k \in Needs(x)
    <3>1. sync.pivot \in Nat
      BY QueueConstants DEF QueueInv, QueueTypes
    <3> QED BY <1>1, <1>3, <2>1, <3>1 DEF Needs
  <2>3. CASE x \in got[k]
    BY <2>1, <2>3 DEF QueueInv, PoolsAgree
  <2>4. CASE x \notin got[k]
    <3>1. x \in pool[k]
      BY <2>1, <2>2, <2>4 DEF QueueInv, PoolsAgree
    <3>2. x \in tasks[k] \/ x \in Flying
      BY <2>1, <3>1 DEF QueueInv, PoolIsSplit
    <3> QED BY <2>1, <3>2 DEF Below
  <2> QED BY <2>3, <2>4
<1>6. /\ D \in SUBSET Heights /\ Flying \in SUBSET Heights /\ Before \in SUBSET Heights
  BY DEF QueueInv, QueueTypes, Below
<1>7. /\ IsFiniteSet(D) /\ Cardinality(D) \in Nat
      /\ IsFiniteSet(Flying) /\ Cardinality(Flying) \in Nat
      /\ IsFiniteSet(Before) /\ Cardinality(Before) \in Nat
  BY <1>6, HeightsAreFinite
<1>8. IsFiniteSet(Pairs) /\ Cardinality(Pairs) \in Nat /\ Cardinality(Flying) <= Cardinality(Pairs)
  <2>1. IsFiniteSet(Sources \X Heights)
    BY QueueConstants, HeightsAreFinite, FS_Product
  <2>2. IsFiniteSet(Pairs) /\ Cardinality(Pairs) \in Nat
    BY <2>1, FS_Subset, FS_CardinalityType
  <2> DEFINE second == [x \in Pairs |-> x[2]]
  <2>3. second \in Surjection(Pairs, Flying)
    <3>1. ASSUME NEW x \in Pairs PROVE x[2] \in Flying
      OBVIOUS
    <3>2. second \in [Pairs -> Flying]
      BY <3>1
    <3>3. ASSUME NEW y \in Flying PROVE \E x \in Pairs : second[x] = y
      <4>1. PICK q \in Sources : y \in pend[k][q]
        OBVIOUS
      <4>2. <<q, y>> \in Pairs /\ <<q, y>>[2] = y
        BY <4>1
      <4> QED BY <4>2
    <3> HIDE DEF second
    <3> QED BY <3>2, <3>3 DEF Surjection
  <2> HIDE DEF second
  <2> QED BY <2>2, <2>3, FS_Surjection
<1>9. UnderWay(k) = Cardinality(Pairs)
  BY DEF UnderWay
<1>10. Cardinality(Before) < CacheLimit - Cardinality(D) - Cardinality(Pairs)
  BY <1>1, <1>9 DEF space
<1>11. IsFiniteSet(offset..(h - 1)) /\ Cardinality(offset..(h - 1)) = h - offset
  <2>1. offset \in Int /\ h - 1 \in Int
    BY <1>1, <1>2
  <2>2. /\ IsFiniteSet(offset..(h - 1))
        /\ Cardinality(offset..(h - 1)) = IF offset > h - 1 THEN 0 ELSE (h - 1) - offset + 1
    BY <2>1, FS_Interval, Zenon
  <2> QED BY <1>1, <1>2, <1>4, <2>2
<1> HIDE DEF Flying, Pairs, Before, D
<1>12. /\ IsFiniteSet(D \cup Flying) /\ Cardinality(D \cup Flying) \in Nat
       /\ Cardinality(D \cup Flying) <= Cardinality(D) + Cardinality(Flying)
  BY <1>7, UnionIsBounded
<1>13. /\ IsFiniteSet((D \cup Flying) \cup Before) /\ Cardinality((D \cup Flying) \cup Before) \in Nat
       /\ Cardinality((D \cup Flying) \cup Before) <= Cardinality(D \cup Flying) + Cardinality(Before)
  BY <1>7, <1>12, UnionIsBounded
<1>14. Cardinality(offset..(h - 1)) <= Cardinality((D \cup Flying) \cup Before)
  BY <1>5, <1>13, FS_Subset
<1>15. h < offset + CacheLimit
  BY <1>1, <1>2, <1>7, <1>8, <1>10, <1>11, <1>12, <1>13, <1>14, SMTT(60)
<1> QED BY <1>1, <1>4, <1>15 DEF InCache

\* An empty queue.
LEMMA QueueInitial == QueueInit => QueueInv
<1> SUFFICES ASSUME QueueInit PROVE QueueInv
  OBVIOUS
<1>1. QueueTypes
  <2>1. sync.head \in Nat
    BY QueueConstants DEF QueueInit
  <2> QED BY <2>1 DEF QueueInit, QueueTypes, nil
<1>2. PoolsAgree
  BY DEF QueueInit, PoolsAgree, Heights
<1>3. PoolIsSplit
  BY DEF QueueInit, PoolIsSplit
<1>4. SlotsAreRight
  BY DEF QueueInit, SlotsAreRight
<1>5. ImportedIsComplete
  BY DEF QueueInit, ImportedIsComplete
<1> QED BY <1>1, <1>2, <1>3, <1>4, <1>5 DEF QueueInv, QueueInit

\* Schedule puts the next height into the pools and queues that it needs.
LEMMA ScheduleQueueKeeps == QueueInv /\ Schedule => QueueInv'
<1> SUFFICES ASSUME QueueInv, Schedule PROVE QueueInv'
  OBVIOUS
<1> DEFINE n == scheduled + 1
<1>1. /\ scheduled \in Nat /\ scheduled' = scheduled + 1 /\ n \in Heights /\ scheduled' \in 0..sync.head
      /\ sync.head \in Nat /\ offset \in Nat
  <2>1. sync.head \in 0..Top
    BY QueueConstants DEF QueueInv, QueueTypes
  <2> QED BY <2>1, QueueConstants DEF QueueInv, QueueTypes, Schedule, Heights
<1>2. /\ sync' = sync /\ pend' = pend /\ done' = done /\ cache' = cache /\ offset' = offset
      /\ got' = got /\ invalid' = invalid
  BY DEF Schedule
<1>3. \A h : Needs(h)' = Needs(h) /\ MissingParts(h)' = MissingParts(h)
  BY <1>2 DEF Needs, MissingParts
<1>4. /\ pool' = [k \in Kinds |-> IF k \in Needs(n) THEN pool[k] \cup {n} ELSE pool[k]]
      /\ tasks' = [k \in Kinds |-> IF k \in Needs(n) THEN tasks[k] \cup {n} ELSE tasks[k]]
  BY DEF Schedule
<1>5. \A h \in Heights : h \in Nat /\ (h <= scheduled' <=> h <= scheduled \/ h = n)
  BY <1>1 DEF Heights
<1> HIDE DEF n
<1>6. QueueTypes'
  BY <1>1, <1>2, <1>4 DEF QueueInv, QueueTypes
<1>7. \A k \in Kinds : n \notin pool[k] /\ n \notin got[k]
  BY <1>1 DEF QueueInv, PoolsAgree, n
<1>8. PoolsAgree'
  BY <1>1, <1>2, <1>3, <1>4, <1>5, <1>7 DEF QueueInv, PoolsAgree
<1>9. PoolIsSplit'
  <2>1. \A k \in Kinds : n \notin tasks[k] /\ \A p \in Sources : n \notin pend[k][p]
    BY <1>1, <1>7 DEF QueueInv, PoolIsSplit
  <2> QED BY <1>1, <1>2, <1>4, <2>1 DEF QueueInv, PoolIsSplit
<1>10. SlotsAreRight'
  <2>1. InCache' = InCache
    BY <1>2 DEF InCache
  <2> QED BY <1>2, <1>3, <1>5, <2>1 DEF QueueInv, SlotsAreRight
<1>11. ImportedIsComplete' /\ (offset <= scheduled + 1)'
  <2>1. sync.pivot \in Nat
    BY QueueConstants DEF QueueInv, QueueTypes
  <2> QED BY <1>1, <1>2, <1>3, <2>1, QueueConstants DEF QueueInv, ImportedIsComplete
<1> QED BY <1>2, <1>6, <1>8, <1>9, <1>10, <1>11 DEF QueueInv

\* What is got is missing no more.
LEMMA GotMore ==
  ASSUME QueueInv, NEW Got \in [Kinds -> SUBSET Heights],
         \A k \in Kinds : Got[k] \subseteq pool[k],
         sync' = sync, \A k \in Kinds : got'[k] = got[k] \cup Got[k]
  PROVE  \A h \in Heights :
           /\ Needs(h)' = Needs(h)
           /\ MissingParts(h)' = {k \in MissingParts(h) : h \notin Got[k]}
           /\ \A k \in Kinds : h \in pool[k] => k \in MissingParts(h)
<1>1. \A h : Needs(h)' = Needs(h)
  BY DEF Needs
<1>2. \A h : Needs(h) \subseteq Kinds
  BY KindsNeeded
<1>3. \A h \in Heights : MissingParts(h)' = {k \in MissingParts(h) : h \notin Got[k]}
  BY <1>1, <1>2 DEF MissingParts
<1>4. \A h \in Heights, k \in Kinds : h \in pool[k] => k \in MissingParts(h)
  BY DEF QueueInv, PoolsAgree, MissingParts
<1> QED BY <1>1, <1>3, <1>4

\* What was in the queue or with a peer p becomes got (Got), waits again (T) or is asked
\* for (R), and the slots are right: the step of Reserve, Deliver, Revoke and expire.
Moves(p, Got, T, R) ==
  /\ \A k \in Kinds, h \in Heights :
       /\ h \in tasks[k] \/ h \in pend[k][p] <=> h \in Got[k] \/ h \in T[k] \/ h \in R[k]
       /\ ~(h \in Got[k] /\ h \in T[k]) /\ ~(h \in Got[k] /\ h \in R[k]) /\ ~(h \in T[k] /\ h \in R[k])
  /\ sync' = sync /\ scheduled' = scheduled /\ offset' = offset /\ ~invalid'
  /\ pool' \in [Kinds -> SUBSET Heights] /\ done' \in [Kinds -> SUBSET Heights]
  /\ got' \in [Kinds -> SUBSET Heights] /\ tasks' = T
  /\ \A k \in Kinds : /\ pool'[k] = pool[k] \ Got[k] /\ done'[k] = done[k] \cup Got[k]
                      /\ got'[k] = got[k] \cup Got[k]
  /\ pend' \in [Kinds -> [Sources -> SUBSET Heights]]
  /\ \A k \in Kinds, q \in Sources : pend'[k][q] = IF q = p THEN R[k] ELSE pend[k][q]
  /\ cache' \in [Heights -> Int]
  /\ \A h \in Heights :
       /\ \A k \in Kinds : h \in Got[k] \/ h \in R[k] => cache'[h] # nil
       /\ cache[h] # nil => cache'[h] # nil
       /\ cache'[h] # nil => h \in InCache /\ h <= scheduled /\ cache'[h] = Cardinality(MissingParts(h)')

\* Such a step keeps the invariant.
LEMMA PartsMove ==
  ASSUME QueueInv, NEW p \in Sources, NEW Got \in [Kinds -> SUBSET Heights],
         NEW T \in [Kinds -> SUBSET Heights], NEW R \in [Kinds -> SUBSET Heights],
         Moves(p, Got, T, R)
  PROVE  QueueInv'
<1>a. sync' = sync /\ scheduled' = scheduled /\ offset' = offset /\ ~invalid' /\ tasks' = T
  BY DEF Moves
<1>b. \A k \in Kinds, h \in Heights :
        /\ h \in tasks[k] \/ h \in pend[k][p] <=> h \in Got[k] \/ h \in T[k] \/ h \in R[k]
        /\ ~(h \in Got[k] /\ h \in T[k]) /\ ~(h \in Got[k] /\ h \in R[k]) /\ ~(h \in T[k] /\ h \in R[k])
  BY DEF Moves
<1>c. \A k \in Kinds : /\ pool'[k] = pool[k] \ Got[k] /\ done'[k] = done[k] \cup Got[k]
                       /\ got'[k] = got[k] \cup Got[k]
  BY DEF Moves
<1>d. \A h \in Heights :
        /\ \A k \in Kinds : h \in Got[k] \/ h \in R[k] => cache'[h] # nil
        /\ cache[h] # nil => cache'[h] # nil
        /\ cache'[h] # nil => h \in InCache /\ h <= scheduled /\ cache'[h] = Cardinality(MissingParts(h)')
  BY DEF Moves
<1>5. \A k \in Kinds, q \in Sources : pend'[k][q] = IF q = p THEN R[k] ELSE pend[k][q]
  BY DEF Moves
<1>1. \A h : Needs(h)' = Needs(h)
  BY <1>a DEF Needs
<1>2. QueueTypes'
  BY <1>a DEF QueueInv, QueueTypes, Moves
<1>3. \A k \in Kinds : Got[k] \subseteq pool[k] /\ pool[k] \subseteq Heights
  BY <1>b DEF QueueInv, PoolIsSplit, QueueTypes
<1>4. PoolsAgree'
  <2> SUFFICES ASSUME NEW k \in Kinds, NEW h \in Heights
               PROVE  /\ h \in pool'[k] <=> (h <= scheduled /\ k \in Needs(h) /\ h \notin got'[k])
                      /\ h \in done'[k] <=> (h \in got'[k] /\ h >= offset)
                      /\ h \in got'[k] => (h <= scheduled /\ k \in Needs(h))
    BY <1>1, <1>a DEF PoolsAgree
  <2>1. /\ h \in pool[k] <=> (h <= scheduled /\ k \in Needs(h) /\ h \notin got[k])
        /\ h \in done[k] <=> (h \in got[k] /\ h >= offset)
        /\ h \in got[k] => (h <= scheduled /\ k \in Needs(h))
    BY DEF QueueInv, PoolsAgree
  <2>2. /\ h \in pool'[k] <=> h \in pool[k] /\ h \notin Got[k]
        /\ h \in got'[k] <=> h \in got[k] \/ h \in Got[k]
        /\ h \in done'[k] <=> h \in done[k] \/ h \in Got[k]
    BY <1>c
  <2>3. h \in pool[k] => h >= offset
    <3> SUFFICES ASSUME h \in pool[k], h < offset PROVE FALSE
      BY DEF QueueInv, QueueTypes, Heights
    <3>1. h \in 1..(offset - 1)
      BY DEF QueueInv, QueueTypes, Heights
    <3> QED BY <2>1, <3>1 DEF QueueInv, ImportedIsComplete
  <2>4. h \in Got[k] => h \in pool[k]
    BY <1>3
  <2> QED BY <2>1, <2>2, <2>3, <2>4
<1>6. PoolIsSplit'
  <2> SUFFICES ASSUME NEW k \in Kinds
               PROVE  /\ \A h \in Heights : h \in pool'[k] <=> (h \in T[k] \/ \E q \in Sources : h \in pend'[k][q])
                      /\ \A q \in Sources, h \in Heights : h \in pend'[k][q] => h \notin T[k]
                      /\ \A q, r \in Sources, h \in Heights : h \in pend'[k][q] /\ h \in pend'[k][r] => q = r
    BY <1>a DEF PoolIsSplit
  <2>1. /\ \A h \in Heights : h \in pool[k] <=> (h \in tasks[k] \/ \E q \in Sources : h \in pend[k][q])
        /\ \A q \in Sources, h \in Heights : h \in pend[k][q] => h \notin tasks[k]
        /\ \A q, r \in Sources, h \in Heights : h \in pend[k][q] /\ h \in pend[k][r] => q = r
    BY DEF QueueInv, PoolIsSplit
  <2>2. \A h \in Heights : h \in pool'[k] <=> h \in pool[k] /\ h \notin Got[k]
    BY <1>c
  <2>3. ASSUME NEW q \in Sources, NEW h \in Heights, h \in pend[k][q], q # p
        PROVE  h \notin T[k] /\ h \notin R[k] /\ h \notin Got[k]
    BY <1>b, <2>1, <2>3
  <2>4. ASSUME NEW h \in Heights
        PROVE  h \in pool'[k] <=> (h \in T[k] \/ \E q \in Sources : h \in pend'[k][q])
    <3>1. ASSUME h \in pool'[k] PROVE h \in T[k] \/ \E q \in Sources : h \in pend'[k][q]
      <4>1. CASE h \in tasks[k] \/ h \in pend[k][p]
        BY <1>b, <1>5, <2>2, <3>1, <4>1
      <4>2. CASE ~(h \in tasks[k] \/ h \in pend[k][p])
        BY <1>5, <2>1, <2>2, <3>1, <4>2
      <4> QED BY <4>1, <4>2
    <3>2. ASSUME h \in T[k] PROVE h \in pool'[k]
      BY <1>b, <2>1, <2>2, <3>2
    <3>3. ASSUME NEW q \in Sources, h \in pend'[k][q] PROVE h \in pool'[k]
      BY <1>b, <1>5, <2>1, <2>2, <2>3, <3>3
    <3> QED BY <3>1, <3>2, <3>3
  <2>5. ASSUME NEW q \in Sources, NEW h \in Heights, h \in pend'[k][q]
        PROVE  h \notin T[k] /\ \A r \in Sources : h \in pend'[k][r] => q = r
    BY <1>b, <1>5, <2>1, <2>3, <2>5
  <2> QED BY <2>4, <2>5
<1>7. SlotsAreRight'
  <2>1. InCache' = InCache
    BY <1>a DEF InCache
  <2>2. \A k \in Kinds, q \in Sources, h \in Heights : h \in pend'[k][q] => cache'[h] # nil
    BY <1>d, <1>5 DEF QueueInv, SlotsAreRight
  <2>3. \A k \in Kinds, h \in Heights : h \in done'[k] => cache'[h] # nil
    BY <1>c, <1>d DEF QueueInv, SlotsAreRight
  <2> QED BY <1>a, <1>d, <2>1, <2>2, <2>3 DEF SlotsAreRight
<1>8. ImportedIsComplete' /\ (offset <= scheduled + 1)'
  <2>1. \A h \in 1..(offset - 1) : \A k \in Needs(h) : k \in Kinds /\ h \in got[k]
    BY KindsNeeded DEF QueueInv, ImportedIsComplete
  <2>2. \A k \in Kinds : got[k] \subseteq got'[k]
    BY <1>c
  <2>3. \A h \in 1..(offset - 1) : \A k \in Needs(h) : h \in got'[k]
    BY <2>1, <2>2
  <2> QED BY <1>1, <1>a, <2>3 DEF QueueInv, ImportedIsComplete
<1> QED BY <1>a, <1>2, <1>4, <1>6, <1>7, <1>8 DEF QueueInv

\* Reserve moves items from the queue to a peer; what is known to be empty is got at once.
LEMMA ReserveQueueKeeps ==
  ASSUME QueueInv, NEW k \in Kinds, NEW p \in Sources, Reserve(k, p)
  PROVE  QueueInv'
<1> DEFINE r == Reserved(k, p)
           seen == Popped(k, p)
           empty == seen \cap noop(k)
           send == seen \ (noop(k) \cup lacks[p])
<1>0. PICK Got, T, R :
        /\ Got = [j \in Kinds |-> IF j = k THEN empty ELSE {}]
        /\ T = [j \in Kinds |-> IF j = k THEN tasks[k] \ (empty \cup send) ELSE tasks[j]]
        /\ R = [j \in Kinds |-> IF j = k THEN send ELSE pend[j][p]]
  OBVIOUS
<1>1. seen \subseteq InCache /\ seen \subseteq tasks[k] /\ tasks[k] \subseteq Heights
  BY PoppedFits DEF Popped, QueueInv, QueueTypes
<1>2. r = [err |-> FALSE, seen |-> seen, none |-> empty, send |-> send, rest |-> tasks[k] \ (empty \cup send)]
  <2>1. Popped(k, p) \ InCache = {}
    BY <1>1
  <2>2. {h \in Popped(k, p) : \A b \in Popped(k, p) \ InCache : h < b} = seen
    BY <2>1
  <2> QED BY <2>1, <2>2, Zenon DEF Reserved
<1>3. r.err = FALSE /\ r.seen = seen /\ r.none = empty /\ r.send = send /\ r.rest = tasks[k] \ (empty \cup send)
  BY <1>2
<1>4. /\ sync' = sync /\ scheduled' = scheduled /\ offset' = offset /\ pend[k][p] = {}
      /\ invalid' = r.err
      /\ cache' = [h \in Heights |->
                    IF h \notin r.seen THEN cache[h]
                    ELSE (IF cache[h] = nil THEN Cardinality(Needs(h)) ELSE cache[h])
                         - (IF h \in r.none THEN 1 ELSE 0)]
      /\ done' = [done EXCEPT ![k] = done[k] \cup r.none]
      /\ got' = [got EXCEPT ![k] = got[k] \cup r.none]
      /\ pool' = [pool EXCEPT ![k] = pool[k] \ r.none]
      /\ tasks' = [tasks EXCEPT ![k] = r.rest]
      /\ \/ r.send = {} /\ pend' = pend
         \/ r.err
         \/ pend' = [pend EXCEPT ![k][p] = r.send]
  BY DEF Reserve
<1> HIDE DEF r, seen, empty, send
<1>5. /\ seen \subseteq Heights /\ empty \subseteq seen /\ send \subseteq seen
      /\ \A h \in empty : h \notin send
  BY <1>1 DEF empty, send
<1>6. /\ pool' \in [Kinds -> SUBSET Heights] /\ done' \in [Kinds -> SUBSET Heights]
      /\ got' \in [Kinds -> SUBSET Heights] /\ tasks' = T
      /\ \A j \in Kinds : /\ pool'[j] = pool[j] \ Got[j] /\ done'[j] = done[j] \cup Got[j]
                          /\ got'[j] = got[j] \cup Got[j]
  BY <1>0, <1>1, <1>3, <1>4, <1>5 DEF QueueInv, QueueTypes
<1>7. /\ pend' \in [Kinds -> [Sources -> SUBSET Heights]]
      /\ \A j \in Kinds, q \in Sources : pend'[j][q] = IF q = p THEN R[j] ELSE pend[j][q]
  <2>1. CASE send = {} /\ pend' = pend
    BY <1>0, <1>4, <2>1 DEF QueueInv, QueueTypes
  <2>2. CASE pend' = [pend EXCEPT ![k][p] = send]
    BY <1>0, <1>1, <1>5, <2>2 DEF QueueInv, QueueTypes
  <2> QED BY <1>0, <1>3, <1>4, <2>1, <2>2
<1>8. Got \in [Kinds -> SUBSET Heights] /\ T \in [Kinds -> SUBSET Heights] /\ R \in [Kinds -> SUBSET Heights]
  BY <1>0, <1>1, <1>5 DEF QueueInv, QueueTypes
<1>9. \A j \in Kinds, h \in Heights :
        /\ h \in tasks[j] \/ h \in pend[j][p] <=> h \in Got[j] \/ h \in T[j] \/ h \in R[j]
        /\ ~(h \in Got[j] /\ h \in T[j]) /\ ~(h \in Got[j] /\ h \in R[j]) /\ ~(h \in T[j] /\ h \in R[j])
  <2>1. \A j \in Kinds, h \in Heights : h \in pend[j][p] => h \notin tasks[j]
    BY <1>0 DEF QueueInv, PoolIsSplit
  <2> QED BY <1>0, <1>1, <1>4, <1>5, <2>1
<1>10. \A j \in Kinds : Got[j] \subseteq pool[j]
  BY <1>0, <1>1, <1>5 DEF QueueInv, PoolIsSplit
<1>11. \A h \in Heights :
         /\ MissingParts(h)' = {j \in MissingParts(h) : h \notin Got[j]}
         /\ \A j \in Kinds : h \in pool[j] => j \in MissingParts(h)
  BY <1>4, <1>6, <1>8, <1>10, GotMore
<1>12. \A h \in Heights : MissingParts(h)' = IF h \in empty THEN MissingParts(h) \ {k} ELSE MissingParts(h)
  <2>1. \A h : MissingParts(h) \subseteq Kinds
    BY <1>0, KindsNeeded
  <2> QED BY <1>0, <1>11, <2>1
<1>13. \A h \in seen : h \in pool[k] /\ k \in MissingParts(h) /\ h <= scheduled
  BY <1>1, <1>5, <1>11 DEF QueueInv, PoolIsSplit, PoolsAgree
<1>14. \A h \in seen : (IF cache[h] = nil THEN Cardinality(Needs(h)) ELSE cache[h]) = Cardinality(MissingParts(h))
  <2> SUFFICES ASSUME NEW h \in seen, cache[h] = nil PROVE Needs(h) = MissingParts(h)
    BY <1>5 DEF QueueInv, SlotsAreRight
  <2>1. h \in Heights /\ offset <= h
    BY <1>1, <1>5 DEF InCache
  <2>2. \A j \in Kinds : h \notin done[j]
    BY <2>1 DEF QueueInv, SlotsAreRight
  <2>3. \A j \in Kinds : h \notin got[j]
    BY <2>1, <2>2 DEF QueueInv, PoolsAgree, QueueTypes, Heights
  <2> QED BY <2>3, KindsNeeded DEF MissingParts
<1>15. \A h \in Heights :
         /\ Cardinality(MissingParts(h)) \in 0..2
         /\ Cardinality(MissingParts(h)') \in 0..2
         /\ h \in empty => Cardinality(MissingParts(h)') = Cardinality(MissingParts(h)) - 1
  <2> SUFFICES ASSUME NEW h \in Heights
               PROVE  /\ Cardinality(MissingParts(h)) \in 0..2
                      /\ Cardinality(MissingParts(h)') \in 0..2
                      /\ h \in empty => Cardinality(MissingParts(h)') = Cardinality(MissingParts(h)) - 1
    OBVIOUS
  <2>1. MissingParts(h) \in SUBSET Kinds /\ MissingParts(h) \ {k} \in SUBSET Kinds
    BY KindsNeeded
  <2>2. h \in empty => k \in MissingParts(h)
    BY <1>5, <1>13
  <2> QED BY <1>12, <2>1, <2>2, FewKinds
<1>16. \A h \in Heights : cache'[h] = IF h \in seen THEN Cardinality(MissingParts(h)') ELSE cache[h]
  BY <1>3, <1>4, <1>5, <1>12, <1>14, <1>15
<1>17. cache' \in [Heights -> Int]
  <2>1. \A h \in Heights : cache'[h] \in Int
    BY <1>15, <1>16 DEF QueueInv, QueueTypes
  <2> QED BY <1>4, <2>1
<1>18. \A h \in Heights :
         /\ \A j \in Kinds : h \in Got[j] \/ h \in R[j] => cache'[h] # nil
         /\ cache[h] # nil => cache'[h] # nil
         /\ cache'[h] # nil => h \in InCache /\ h <= scheduled /\ cache'[h] = Cardinality(MissingParts(h)')
  <2> SUFFICES ASSUME NEW h \in Heights
               PROVE  /\ \A j \in Kinds : h \in Got[j] \/ h \in R[j] => cache'[h] # nil
                      /\ cache[h] # nil => cache'[h] # nil
                      /\ cache'[h] # nil => /\ h \in InCache /\ h <= scheduled
                                            /\ cache'[h] = Cardinality(MissingParts(h)')
    BY <1>0
  <2>1. h \in seen => cache'[h] # nil
    BY <1>0, <1>15, <1>16 DEF nil
  <2>2. \A j \in Kinds : h \in Got[j] => h \in seen
    BY <1>0, <1>5
  <2>3. \A j \in Kinds : h \in R[j] => h \in seen \/ h \in pend[j][p]
    BY <1>0, <1>5
  <2>4. \A j \in Kinds : h \in pend[j][p] => cache[h] # nil
    BY <1>0 DEF QueueInv, SlotsAreRight
  <2>5. cache[h] # nil => cache'[h] # nil
    BY <1>0, <1>16, <2>1
  <2>6. h \in seen => h \in InCache /\ h <= scheduled
    BY <1>0, <1>1, <1>13
  <2>7. h \notin seen /\ cache[h] # nil =>
          h \in InCache /\ h <= scheduled /\ cache[h] = Cardinality(MissingParts(h)')
    BY <1>0, <1>5, <1>12 DEF QueueInv, SlotsAreRight
  <2> QED BY <1>0, <1>16, <2>1, <2>2, <2>3, <2>4, <2>5, <2>6, <2>7
<1>19. ~invalid'
  BY <1>3, <1>4
<1>20. Moves(p, Got, T, R)
  BY <1>4, <1>6, <1>7, <1>9, <1>17, <1>18, <1>19, Zenon DEF Moves
<1> QED BY <1>8, <1>20, PartsMove

\* Deliver stores what is accepted and puts the rest back.
LEMMA DeliverQueueKeeps ==
  ASSUME QueueInv, NEW k \in Kinds, NEW p \in Sources, NEW i, NEW reply, Deliver(k, p, i, reply)
  PROVE  QueueInv'
<1> DEFINE req == pend[k][p]
           ok == Accepted(req, reply)
<1>0. PICK Got, T, R :
        /\ Got = [j \in Kinds |-> IF j = k THEN ok ELSE {}]
        /\ T = [j \in Kinds |-> IF j = k THEN tasks[k] \cup (req \ ok) ELSE tasks[j]]
        /\ R = [j \in Kinds |-> IF j = k THEN {} ELSE pend[j][p]]
  OBVIOUS
<1>1. req \subseteq Heights /\ ok \subseteq req /\ tasks[k] \subseteq Heights
  BY DEF QueueInv, QueueTypes, Accepted
<1>2. /\ sync' = sync /\ scheduled' = scheduled /\ offset' = offset
      /\ pend' = [pend EXCEPT ![k][p] = {}]
      /\ cache' = [h \in Heights |-> IF h \in ok THEN cache[h] - 1 ELSE cache[h]]
      /\ done' = [done EXCEPT ![k] = done[k] \cup ok]
      /\ got' = [got EXCEPT ![k] = got[k] \cup ok]
      /\ pool' = [pool EXCEPT ![k] = pool[k] \ ok]
      /\ tasks' = [tasks EXCEPT ![k] = tasks[k] \cup (req \ ok)]
      /\ (~ \E h \in req : NoSlot(h)) => ~invalid'
  BY DEF Deliver, Return
<1>3. \A h \in req : ~NoSlot(h) /\ h \in pool[k] /\ cache[h] # nil
  BY <1>1 DEF QueueInv, SlotsAreRight, PoolIsSplit, NoSlot
<1> HIDE DEF ok
<1>4. /\ pool' \in [Kinds -> SUBSET Heights] /\ done' \in [Kinds -> SUBSET Heights]
      /\ got' \in [Kinds -> SUBSET Heights] /\ tasks' = T
      /\ \A j \in Kinds : /\ pool'[j] = pool[j] \ Got[j] /\ done'[j] = done[j] \cup Got[j]
                          /\ got'[j] = got[j] \cup Got[j]
  BY <1>0, <1>1, <1>2 DEF QueueInv, QueueTypes
<1>5. /\ pend' \in [Kinds -> [Sources -> SUBSET Heights]]
      /\ \A j \in Kinds, q \in Sources : pend'[j][q] = IF q = p THEN R[j] ELSE pend[j][q]
  BY <1>0, <1>1, <1>2 DEF QueueInv, QueueTypes
<1>6. Got \in [Kinds -> SUBSET Heights] /\ T \in [Kinds -> SUBSET Heights] /\ R \in [Kinds -> SUBSET Heights]
  BY <1>0, <1>1 DEF QueueInv, QueueTypes
<1>7. \A j \in Kinds, h \in Heights :
        /\ h \in tasks[j] \/ h \in pend[j][p] <=> h \in Got[j] \/ h \in T[j] \/ h \in R[j]
        /\ ~(h \in Got[j] /\ h \in T[j]) /\ ~(h \in Got[j] /\ h \in R[j]) /\ ~(h \in T[j] /\ h \in R[j])
  <2>1. \A j \in Kinds, h \in Heights : h \in pend[j][p] => h \notin tasks[j]
    BY <1>0 DEF QueueInv, PoolIsSplit
  <2> QED BY <1>0, <1>1, <2>1
<1>8. \A j \in Kinds : Got[j] \subseteq pool[j]
  BY <1>0, <1>1, <1>3
<1>9. \A h \in Heights :
        /\ MissingParts(h)' = {j \in MissingParts(h) : h \notin Got[j]}
        /\ \A j \in Kinds : h \in pool[j] => j \in MissingParts(h)
  BY <1>2, <1>4, <1>6, <1>8, GotMore
<1>10. \A h \in Heights : MissingParts(h)' = IF h \in ok THEN MissingParts(h) \ {k} ELSE MissingParts(h)
  <2>1. \A h : MissingParts(h) \subseteq Kinds
    BY <1>0, KindsNeeded
  <2> QED BY <1>0, <1>9, <2>1
<1>11. \A h \in Heights :
         /\ Cardinality(MissingParts(h)') \in 0..2
         /\ h \in ok => Cardinality(MissingParts(h)') = Cardinality(MissingParts(h)) - 1
  <2> SUFFICES ASSUME NEW h \in Heights
               PROVE  /\ Cardinality(MissingParts(h)') \in 0..2
                      /\ h \in ok => Cardinality(MissingParts(h)') = Cardinality(MissingParts(h)) - 1
    OBVIOUS
  <2>1. MissingParts(h) \in SUBSET Kinds /\ MissingParts(h) \ {k} \in SUBSET Kinds
    BY KindsNeeded
  <2>2. h \in ok => k \in MissingParts(h)
    BY <1>1, <1>3, <1>9
  <2> QED BY <1>10, <2>1, <2>2, FewKinds
<1>12. \A h \in Heights : cache'[h] = IF h \in ok THEN Cardinality(MissingParts(h)') ELSE cache[h]
  BY <1>1, <1>2, <1>3, <1>11 DEF QueueInv, SlotsAreRight
<1>13. cache' \in [Heights -> Int]
  <2>1. \A h \in Heights : cache'[h] \in Int
    BY <1>11, <1>12 DEF QueueInv, QueueTypes
  <2> QED BY <1>2, <2>1
<1>14. \A h \in Heights :
         /\ \A j \in Kinds : h \in Got[j] \/ h \in R[j] => cache'[h] # nil
         /\ cache[h] # nil => cache'[h] # nil
         /\ cache'[h] # nil => h \in InCache /\ h <= scheduled /\ cache'[h] = Cardinality(MissingParts(h)')
  <2> SUFFICES ASSUME NEW h \in Heights
               PROVE  /\ \A j \in Kinds : h \in Got[j] \/ h \in R[j] => cache'[h] # nil
                      /\ cache[h] # nil => cache'[h] # nil
                      /\ cache'[h] # nil => /\ h \in InCache /\ h <= scheduled
                                            /\ cache'[h] = Cardinality(MissingParts(h)')
    BY <1>0
  <2>1. h \in ok => cache'[h] # nil /\ cache[h] # nil
    BY <1>0, <1>1, <1>3, <1>11, <1>12 DEF nil
  <2>2. \A j \in Kinds : h \in Got[j] => h \in ok
    BY <1>0
  <2>3. \A j \in Kinds : h \in R[j] => h \in pend[j][p]
    BY <1>0
  <2>4. \A j \in Kinds : h \in pend[j][p] => cache[h] # nil
    BY <1>0 DEF QueueInv, SlotsAreRight
  <2>5. cache[h] # nil => cache'[h] # nil
    BY <1>0, <1>12, <2>1
  <2>6. cache[h] # nil => h \in InCache /\ h <= scheduled /\ cache[h] = Cardinality(MissingParts(h))
    BY <1>0 DEF QueueInv, SlotsAreRight
  <2> QED BY <1>0, <1>10, <1>12, <2>1, <2>2, <2>3, <2>4, <2>5, <2>6
<1>15. ~invalid'
  BY <1>2, <1>3
<1>16. Moves(p, Got, T, R)
  BY <1>2, <1>4, <1>5, <1>7, <1>13, <1>14, <1>15, Zenon DEF Moves
<1> QED BY <1>6, <1>16, PartsMove

\* Requests of one peer, of the kinds in K, go back to the queue.
LEMMA GivenBack ==
  ASSUME QueueInv, NEW p \in Sources, NEW K \in SUBSET Kinds,
         tasks' \in [Kinds -> SUBSET Heights],
         \A k \in Kinds : tasks'[k] = IF k \in K THEN tasks[k] \cup pend[k][p] ELSE tasks[k],
         pend' \in [Kinds -> [Sources -> SUBSET Heights]],
         \A k \in Kinds, q \in Sources : pend'[k][q] = IF k \in K /\ q = p THEN {} ELSE pend[k][q],
         sync' = sync, scheduled' = scheduled, pool' = pool, done' = done, cache' = cache,
         offset' = offset, got' = got, invalid' = invalid
  PROVE  QueueInv'
<1>1. PICK Got, T, R :
        /\ Got = [k \in Kinds |-> {}] /\ T = tasks'
        /\ R = [k \in Kinds |-> IF k \in K THEN {} ELSE pend[k][p]]
  OBVIOUS
<1>2. Got \in [Kinds -> SUBSET Heights] /\ T \in [Kinds -> SUBSET Heights] /\ R \in [Kinds -> SUBSET Heights]
  BY <1>1 DEF QueueInv, QueueTypes
<1>3. \A h : MissingParts(h)' = MissingParts(h)
  BY DEF MissingParts, Needs
<1>4. \A k \in Kinds, h \in Heights : h \in pend[k][p] => h \notin tasks[k]
  BY DEF QueueInv, PoolIsSplit
<1>5. \A k \in Kinds, h \in Heights :
        /\ h \in tasks[k] \/ h \in pend[k][p] <=> h \in Got[k] \/ h \in T[k] \/ h \in R[k]
        /\ ~(h \in Got[k] /\ h \in T[k]) /\ ~(h \in Got[k] /\ h \in R[k]) /\ ~(h \in T[k] /\ h \in R[k])
  BY <1>1, <1>4
<1>6. /\ pool' \in [Kinds -> SUBSET Heights] /\ done' \in [Kinds -> SUBSET Heights]
      /\ got' \in [Kinds -> SUBSET Heights] /\ tasks' = T /\ cache' \in [Heights -> Int] /\ ~invalid'
      /\ \A k \in Kinds : /\ pool'[k] = pool[k] \ Got[k] /\ done'[k] = done[k] \cup Got[k]
                          /\ got'[k] = got[k] \cup Got[k]
  BY <1>1 DEF QueueInv, QueueTypes
<1>7. \A k \in Kinds, q \in Sources : pend'[k][q] = IF q = p THEN R[k] ELSE pend[k][q]
  BY <1>1
<1>8. \A h \in Heights :
        /\ \A k \in Kinds : h \in Got[k] \/ h \in R[k] => cache'[h] # nil
        /\ cache[h] # nil => cache'[h] # nil
        /\ cache'[h] # nil => h \in InCache /\ h <= scheduled /\ cache'[h] = Cardinality(MissingParts(h)')
  BY <1>1, <1>3 DEF QueueInv, SlotsAreRight
<1>9. Moves(p, Got, T, R)
  BY <1>5, <1>6, <1>7, <1>8, Zenon DEF Moves
<1> QED BY <1>2, <1>9, PartsMove

\* A peer that leaves gives back its requests of both kinds.
LEMMA UnregisterQueueKeeps ==
  ASSUME QueueInv, NEW p \in Sources, UnregisterPeer(p)
  PROVE  QueueInv'
<1>1. /\ tasks' = [k \in Kinds |-> tasks[k] \cup pend[k][p]]
      /\ pend' = [k \in Kinds |-> [pend[k] EXCEPT ![p] = {}]]
      /\ sync' = sync /\ scheduled' = scheduled /\ pool' = pool /\ done' = done /\ cache' = cache
      /\ offset' = offset /\ got' = got /\ invalid' = invalid
  BY DEF UnregisterPeer, Revoked, Return
<1>2. /\ tasks' \in [Kinds -> SUBSET Heights] /\ pend' \in [Kinds -> [Sources -> SUBSET Heights]]
      /\ \A k \in Kinds : tasks'[k] = IF k \in Kinds THEN tasks[k] \cup pend[k][p] ELSE tasks[k]
      /\ \A k \in Kinds, q \in Sources : pend'[k][q] = IF k \in Kinds /\ q = p THEN {} ELSE pend[k][q]
  BY <1>1 DEF QueueInv, QueueTypes
<1>3. Kinds \in SUBSET Kinds
  OBVIOUS
<1> QED BY <1>1, <1>2, <1>3, GivenBack

\* A request that expires goes back, with all of its peer if that is dropped.
LEMMA ExpireQueueKeeps ==
  ASSUME QueueInv, NEW k \in Kinds, NEW p \in Sources, Expire(k, p)
  PROVE  QueueInv'
<1>1. /\ sync' = sync /\ scheduled' = scheduled /\ pool' = pool /\ done' = done /\ cache' = cache
      /\ offset' = offset /\ got' = got /\ invalid' = invalid
  BY DEF Expire
<1>2. CASE /\ tasks' = [tasks EXCEPT ![k] = tasks[k] \cup pend[k][p]]
           /\ pend' = [pend EXCEPT ![k][p] = {}]
  <2>0. /\ tasks \in [Kinds -> SUBSET Heights] /\ pend \in [Kinds -> [Sources -> SUBSET Heights]]
        /\ pend[k][p] \in SUBSET Heights
    BY DEF QueueInv, QueueTypes
  <2>1. /\ tasks' \in [Kinds -> SUBSET Heights]
        /\ \A j \in Kinds : tasks'[j] = IF j \in {k} THEN tasks[j] \cup pend[j][p] ELSE tasks[j]
    BY <1>2, <2>0
  <2>3. /\ pend' \in [Kinds -> [Sources -> SUBSET Heights]]
        /\ \A j \in Kinds, q \in Sources : pend'[j][q] = IF j \in {k} /\ q = p THEN {} ELSE pend[j][q]
    BY <1>2, <2>0
  <2>2. {k} \in SUBSET Kinds
    OBVIOUS
  <2> QED BY <1>1, <2>1, <2>2, <2>3, GivenBack
<1>3. CASE /\ tasks' = [j \in Kinds |-> tasks[j] \cup pend[j][p]]
           /\ pend' = [j \in Kinds |-> [pend[j] EXCEPT ![p] = {}]]
  <2>1. /\ tasks' \in [Kinds -> SUBSET Heights] /\ pend' \in [Kinds -> [Sources -> SUBSET Heights]]
        /\ \A j \in Kinds : tasks'[j] = IF j \in Kinds THEN tasks[j] \cup pend[j][p] ELSE tasks[j]
        /\ \A j \in Kinds, q \in Sources : pend'[j][q] = IF j \in Kinds /\ q = p THEN {} ELSE pend[j][q]
    BY <1>3 DEF QueueInv, QueueTypes
  <2>2. Kinds \in SUBSET Kinds
    OBVIOUS
  <2> QED BY <1>1, <2>1, <2>2, GivenBack
<1> QED BY <1>2, <1>3 DEF Expire, Revoked, Return, expirePend

\* WaitResults takes the longest run of complete results; nothing of it is asked for any more.
LEMMA WaitResultsKeeps == QueueInv /\ WaitResults => QueueInv'
<1> SUFFICES ASSUME QueueInv, WaitResults PROVE QueueInv'
  OBVIOUS
<1> DEFINE Runs == {n \in InCache : \A h \in offset..n : cache[h] = 0 /\ ~waitsForMore(h)}
           last == Processable
<1>1. /\ offset \in Nat /\ offset >= 1 /\ scheduled \in Nat /\ Top \in Nat /\ CacheLimit \in Nat
      /\ sync.pivot \in Nat /\ sync.fast \in BOOLEAN /\ ForceVerify \in Nat
  BY QueueConstants DEF QueueInv, QueueTypes
<1>2. last \in {offset - 1} \cup Runs
  <2>1. {offset - 1} \cup Runs \in SUBSET (0..(Top + offset))
    BY <1>1 DEF InCache, Heights
  <2>2. {offset - 1} \cup Runs # {}
    OBVIOUS
  <2>3. Top + offset \in Nat
    BY <1>1
  <2> HIDE DEF Runs
  <2>4. Max({offset - 1} \cup Runs) \in {offset - 1} \cup Runs
    BY <2>1, <2>2, <2>3, MaxIsGreatest
  <2> QED BY <2>4 DEF Processable, Runs
<1>3. /\ last >= offset /\ offset' = last + 1
      /\ done' = [k \in Kinds |-> done[k] \ (offset..last)]
      /\ cache' = [h \in Heights |-> IF h \in offset..last THEN nil ELSE cache[h]]
      /\ sync' = sync /\ scheduled' = scheduled /\ pool' = pool /\ tasks' = tasks /\ pend' = pend
      /\ got' = got /\ invalid' = invalid
  BY DEF WaitResults
<1> HIDE DEF last
<1>4. /\ last \in InCache /\ last \in Nat /\ last \in Heights
      /\ \A h \in offset..last : h \in Heights /\ cache[h] = 0 /\ ~waitsForMore(h)
  <2>1. last \in Runs
    BY <1>1, <1>2, <1>3
  <2> QED BY <1>1, <2>1 DEF InCache, Heights
<1>5. \A h \in offset..last : h <= scheduled /\ MissingParts(h) = {}
  <2> SUFFICES ASSUME NEW h \in offset..last PROVE h <= scheduled /\ MissingParts(h) = {}
    OBVIOUS
  <2>1. h \in Heights /\ cache[h] = 0 /\ cache[h] # nil
    BY <1>4 DEF nil
  <2>2. h <= scheduled /\ Cardinality(MissingParts(h)) = 0
    BY <2>1 DEF QueueInv, SlotsAreRight
  <2>3. MissingParts(h) \in SUBSET Kinds
    BY KindsNeeded
  <2> QED BY <2>2, <2>3, FewKinds
<1>6. \A h : Needs(h)' = Needs(h) /\ MissingParts(h)' = MissingParts(h)
  BY <1>3 DEF Needs, MissingParts
<1>7. offset' \in Nat \ {0} /\ offset' >= offset /\ offset' <= scheduled + 1
  <2>1. last \in offset..last
    BY <1>1, <1>3, <1>4
  <2>2. last <= scheduled
    BY <1>5, <2>1
  <2> QED BY <1>1, <1>3, <1>4, <2>2
<1>8. QueueTypes'
  <2>1. done' \in [Kinds -> SUBSET Heights]
    BY <1>3 DEF QueueInv, QueueTypes
  <2>2. cache' \in [Heights -> Int]
    BY <1>3 DEF QueueInv, QueueTypes, nil
  <2> QED BY <1>3, <1>7, <2>1, <2>2 DEF QueueInv, QueueTypes
<1>9. \A h \in Heights : h \in Nat /\ (h >= offset' <=> h >= offset /\ h \notin offset..last)
  BY <1>1, <1>3, <1>4 DEF Heights
<1>10. PoolsAgree'
  <2> SUFFICES ASSUME NEW k \in Kinds, NEW h \in Heights
               PROVE  h \in done'[k] <=> (h \in got[k] /\ h >= offset')
    BY <1>3, <1>6 DEF QueueInv, PoolsAgree
  <2>1. h \in done'[k] <=> h \in done[k] /\ h \notin offset..last
    BY <1>3
  <2>2. h \in done[k] <=> (h \in got[k] /\ h >= offset)
    BY DEF QueueInv, PoolsAgree
  <2> QED BY <1>9, <2>1, <2>2
<1>11. PoolIsSplit'
  BY <1>3 DEF QueueInv, PoolIsSplit
<1>12. \A h \in Heights : h \in offset..last => \A k \in Kinds : h \notin pool[k]
  BY <1>5 DEF QueueInv, PoolsAgree, MissingParts
<1>13. SlotsAreRight'
  <2>1. ASSUME NEW k \in Kinds, NEW p \in Sources, NEW h \in Heights, h \in pend[k][p]
        PROVE  cache'[h] # nil
    <3>1. h \in pool[k] /\ cache[h] # nil
      BY <2>1 DEF QueueInv, PoolIsSplit, SlotsAreRight
    <3>2. h \notin offset..last
      BY <1>12, <3>1
    <3> QED BY <1>3, <3>1, <3>2
  <2>2. ASSUME NEW k \in Kinds, NEW h \in Heights, h \in done'[k]
        PROVE  cache'[h] # nil
    BY <1>3, <2>2 DEF QueueInv, SlotsAreRight
  <2>3. ASSUME NEW h \in Heights, cache'[h] # nil
        PROVE  h \in InCache' /\ h <= scheduled /\ cache'[h] = Cardinality(MissingParts(h))
    <3>1. h \notin offset..last /\ cache'[h] = cache[h] /\ cache[h] # nil
      BY <1>3, <2>3
    <3>2. h \in InCache /\ h <= scheduled /\ cache[h] = Cardinality(MissingParts(h))
      BY <3>1 DEF QueueInv, SlotsAreRight
    <3>3. h >= offset' /\ h < offset' + CacheLimit
      BY <1>1, <1>7, <1>9, <3>1, <3>2 DEF InCache
    <3> QED BY <3>1, <3>2, <3>3 DEF InCache
  <2> QED BY <1>3, <1>6, <2>1, <2>2, <2>3 DEF SlotsAreRight
<1>14. ImportedIsComplete'
  <2>1. ASSUME NEW h \in 1..(offset' - 1), NEW k \in Needs(h) PROVE h \in got[k]
    <3>1. CASE h \in 1..(offset - 1)
      BY <3>1 DEF QueueInv, ImportedIsComplete
    <3>2. CASE h \notin 1..(offset - 1)
      <4>1. h \in offset..last
        BY <1>1, <1>3, <1>4, <3>2
      <4> QED BY <1>5, <4>1 DEF MissingParts
    <3> QED BY <3>1, <3>2
  <2>2. ASSUME sync.fast, sync.pivot \in 1..(offset' - 1) PROVE scheduled >= sync.pivot + ForceVerify
    <3>1. CASE sync.pivot \in 1..(offset - 1)
      BY <2>2, <3>1 DEF QueueInv, ImportedIsComplete
    <3>2. CASE sync.pivot \notin 1..(offset - 1)
      <4>1. sync.pivot \in offset..last
        BY <1>1, <1>3, <1>4, <2>2, <3>2
      <4>2. ~waitsForMore(sync.pivot) /\ sync.pivot <= scheduled
        BY <1>4, <1>5, <4>1
      <4>3. CASE ForceVerify = 0
        BY <1>1, <4>2, <4>3
      <4>4. CASE ForceVerify # 0
        <5>1. ForceVerify \in 1..ForceVerify
          BY <1>1, <4>4
        <5>2. ~NoSlot(sync.pivot + ForceVerify)
          BY <2>2, <4>2, <5>1 DEF waitsForMore
        <5> QED BY <5>2 DEF NoSlot, InCache, QueueInv, SlotsAreRight
      <4> QED BY <4>3, <4>4
    <3> QED BY <3>1, <3>2
  <2> QED BY <1>3, <1>6, <2>1, <2>2 DEF ImportedIsComplete
<1> QED BY <1>3, <1>7, <1>8, <1>10, <1>11, <1>13, <1>14 DEF QueueInv

\* No other action touches what the invariant is about.
LEMMA QueueOthersKeep ==
  ASSUME QueueInv, UNCHANGED <<sync, scheduled, pool, tasks, pend, done, cache, offset, got, invalid>>
  PROVE  QueueInv'
<1>1. \A h : Needs(h)' = Needs(h) /\ MissingParts(h)' = MissingParts(h)
  BY DEF MissingParts, Needs
<1>2. InCache' = InCache
  BY DEF InCache
<1>3. QueueTypes' /\ PoolIsSplit'
  BY DEF QueueInv, QueueTypes, PoolIsSplit
<1>4. PoolsAgree'
  BY <1>1 DEF QueueInv, PoolsAgree
<1>5. SlotsAreRight'
  BY <1>1, <1>2 DEF QueueInv, SlotsAreRight
<1>6. ImportedIsComplete'
  BY <1>1 DEF QueueInv, ImportedIsComplete
<1> QED BY <1>3, <1>4, <1>5, <1>6 DEF QueueInv

\* Every step keeps the invariant.
LEMMA QueueNextKeeps == QueueInv /\ [QueueNext]_queueVars => QueueInv'
<1> SUFFICES ASSUME QueueInv, [QueueNext]_queueVars PROVE QueueInv'
  OBVIOUS
<1>1. CASE Schedule
  BY <1>1, ScheduleQueueKeeps
<1>2. CASE WaitResults
  BY <1>2, WaitResultsKeeps
<1>3. ASSUME NEW p \in Sources, RegisterPeer(p) PROVE QueueInv'
  <2>1. UNCHANGED <<sync, scheduled, pool, tasks, pend, done, cache, offset, got, invalid>>
    BY <1>3 DEF RegisterPeer
  <2> QED BY <2>1, QueueOthersKeep
<1>4. ASSUME NEW p \in Sources, UnregisterPeer(p) PROVE QueueInv'
  BY <1>4, UnregisterQueueKeeps
<1>5. ASSUME NEW k \in Kinds, NEW p \in Sources, Reserve(k, p) PROVE QueueInv'
  BY <1>5, ReserveQueueKeeps
<1>6. ASSUME NEW k \in Kinds, NEW p \in Sources, Expire(k, p) PROVE QueueInv'
  BY <1>6, ExpireQueueKeeps
<1>7. ASSUME NEW k \in Kinds, NEW p \in Sources, NEW i, Lost(k, p, i) PROVE QueueInv'
  <2>1. UNCHANGED <<sync, scheduled, pool, tasks, pend, done, cache, offset, got, invalid>>
    BY <1>7 DEF Lost
  <2> QED BY <2>1, QueueOthersKeep
<1>8. ASSUME NEW k \in Kinds, NEW p \in Sources, NEW i, NEW reply, Deliver(k, p, i, reply) PROVE QueueInv'
  BY <1>8, DeliverQueueKeeps
<1>9. CASE UNCHANGED queueVars
  <2>1. UNCHANGED <<sync, scheduled, pool, tasks, pend, done, cache, offset, got, invalid>>
    BY <1>9 DEF queueVars
  <2> QED BY <2>1, QueueOthersKeep
<1> QED BY <1>1, <1>2, <1>3, <1>4, <1>5, <1>6, <1>7, <1>8, <1>9 DEF QueueNext

\* A part that is pooled has one copy.
LEMMA OneCopy == QueueInv => OnePlace
<1> SUFFICES ASSUME QueueInv, NEW k \in Kinds, NEW h \in Heights
             PROVE  Copies(k, h) = IF h \in pool[k] THEN 1 ELSE 0
  BY DEF OnePlace, QueueInv, PoolsAgree
<1> DEFINE With == {p \in Sources : h \in pend[k][p]}
<1>1. /\ h \in pool[k] <=> (h \in tasks[k] \/ \E p \in Sources : h \in pend[k][p])
      /\ \A p \in Sources : h \in pend[k][p] => h \notin tasks[k]
      /\ \A p, q \in Sources : h \in pend[k][p] /\ h \in pend[k][q] => p = q
  BY DEF QueueInv, PoolIsSplit
<1>2. Copies(k, h) = (IF h \in tasks[k] THEN 1 ELSE 0) + Cardinality(With)
  BY DEF Copies
<1>3. CASE With = {}
  <2>1. Cardinality(With) = 0
    BY <1>3, FS_EmptySet
  <2> QED BY <1>1, <1>2, <1>3, <2>1
<1>4. CASE With # {}
  <2>1. PICK p \in Sources : h \in pend[k][p]
    BY <1>4
  <2>2. With = {p}
    BY <1>1, <2>1
  <2>3. Cardinality(With) = 1
    BY <2>2, FS_Singleton
  <2> QED BY <1>1, <1>2, <2>1, <2>3
<1> QED BY <1>3, <1>4

\* The download queue keeps each part in one place, counts what results wait for, stays
\* within its cache and hands out complete results (queue.go, fetchParts), for heights up
\* to 2^24, where priorities are exact, any number of peers, any limits, empty parts and
\* pivot.
THEOREM PartsAlwaysOnce == QueueSpec => []EachPartOnce
<1>1. QueueInv => EachPartOnce
  <2> SUFFICES ASSUME QueueInv PROVE EachPartOnce
    OBVIOUS
  <2>1. OnePlace
    BY OneCopy
  <2>2. PendingIsRight
    BY DEF QueueInv, QueueTypes, SlotsAreRight, PendingIsRight, MissingParts, InCache
  <2> QED BY <2>1, <2>2 DEF QueueInv, EachPartOnce, NeverInvalid
<1> QED BY <1>1, QueueInitial, QueueNextKeeps, PTL DEF QueueSpec

-----------------------------------------------------------------------------
(* The peer server, for every set of nodes and connections: the shapes of   *)
(* its state, and the inductive invariant.                                  *)

TaskSet == [kind : {"dyn", "static", "discover", "wait"}, node : Nodes]
DialStates ==
  [static : SUBSET Nodes, dialing : [Nodes -> {"no", "dyn", "static"}], hist : Seq(Nodes),
   lookupRunning : BOOLEAN, lookupBuf : Seq(Nodes), bootnodes : Seq(Nodes)]
ConnSet ==
  [setup : {"none", "new", "enc", "post", "posted", "proto", "add", "added", "end"},
   run : {"no", "on", "asked", "left", "gone"}, id : Nodes, flag : {"inbound", "dyn", "static"}, trusted : BOOLEAN]

Reasons == {"nil", "DiscTooManyPeers", "DiscAlreadyConnected", "DiscSelf", "DiscUselessPeer"}
LoopSet == [at : {"start", "select", "reply", "lock", "spindown", "ended"}, c : Conns \cup {0}, err : Reasons]

\* A task that the dialer remembers; only dials are about another node.
Marked(dd, t) ==
  /\ IsDial(t) => dd.dialing[t.node] = t.kind
  /\ t.kind = "discover" => dd.lookupRunning
  /\ ~IsDial(t) => t.node = Self

\* Tasks that run and tasks that wait, each once, are those that are remembered.
TasksInv(dd, run, q) ==
  /\ \A t \in run : Marked(dd, t)
  /\ \A i \in 1..Len(q) : Marked(dd, q[i]) /\ q[i] \notin run
  /\ \A i, j \in 1..Len(q) : q[i] = q[j] => i = j
  /\ \A n \in Nodes : dd.dialing[n] # "no" =>
        Task(dd.dialing[n], n) \in run \/ \E i \in 1..Len(q) : q[i] = Task(dd.dialing[n], n)
  /\ dd.lookupRunning => Task("discover", Self) \in run \/ \E i \in 1..Len(q) : q[i] = Task("discover", Self)

Live(c) == conns[c].setup \notin {"none", "end"}
Runs(c) == conns[c].run \in {"on", "asked", "left"}

\* Every connection that was dialled belongs to a task of its own that has not ended.
DialledInv ==
  /\ taskdone \subseteq running
  /\ \A c \in Conns : Live(c) /\ conns[c].flag # "inbound" => Task(conns[c].flag, conns[c].id) \in running \ taskdone
  /\ \A c, e \in Conns : Live(c) /\ Live(e) /\ conns[c].flag # "inbound" /\ conns[c].flag = conns[e].flag
                         /\ conns[c].id = conns[e].id => c = e

DynDials(dd) == {n \in Nodes : dd.dialing[n] = "dyn"}

ServerTypes ==
  /\ dialstate \in DialStates /\ running \in SUBSET TaskSet /\ queued \in Seq(TaskSet) /\ stale \in 0..Len(dialstate.hist)
  /\ conns \in [Conns -> ConnSet] /\ peerOf \in [Nodes -> Conns \cup {0}] /\ slots \in Int
  /\ loop \in LoopSet
  /\ IsFiniteSet(running) /\ Cardinality(running) <= maxActiveDialTasks

PeersInv ==
  /\ \A c \in Conns : conns[c].run # "no" => conns[c].setup \in {"added", "end"}
  /\ \A c \in Conns : Runs(c) => peerOf[conns[c].id] = c
  /\ \A n \in Nodes : peerOf[n] # 0 => conns[peerOf[n]].id = n /\ Runs(peerOf[n])
  /\ Cardinality({n \in Connected : conns[peerOf[n]].flag # "static" /\ ~conns[peerOf[n]].trusted}) <= MaxPeers
  /\ loop.at = "ended" => Connected = {}

ServerInv ==
  /\ ServerTypes /\ PeersInv /\ TasksInv(dialstate, running, queued) /\ DialledInv
  /\ Cardinality(DynPeers(peerOf) \cup DynDials(dialstate)) <= maxDynDials
  /\ SlotsAreReturned
  /\ KeepsTicking

-----------------------------------------------------------------------------
(* The peer server.  Its loops over nodes are a recursive function: it has a *)
(* solution, which LET chooses.                                             *)

\* What holds at 0 and goes on holding up to n holds at n.
LEMMA UpTo ==
  ASSUME NEW n \in Nat, NEW S, 0 \in S, \A k \in 1..n : k - 1 \in S => k \in S
  PROVE  \A k \in 0..n : k \in S
<1> DEFINE Bad == {k \in 0..n : k \notin S}
<1>1. SUFFICES ASSUME Bad # {} PROVE FALSE
  OBVIOUS
<1>2. Bad \in SUBSET Nat
  OBVIOUS
<1>3. PICK k \in Bad : \A y \in Bad : k <= y
  <2> HIDE DEF Bad
  <2> QED BY <1>1, <1>2, MinIsLeast
<1>4. k \in 1..n /\ k - 1 \in 0..n /\ k - 1 < k /\ k \notin S
  OBVIOUS
<1> QED BY <1>3, <1>4

\* fn is the recursion of TryAll up to n.
TriedTo(what, acc, ns, n, fn) == fn[0] = acc /\ \A k \in 1..n : fn[k] = Try(what, fn[k - 1], ns[k])

\* The recursion of TryAll has a solution.
LEMMA TriedExists ==
  ASSUME NEW what, NEW acc, NEW ns, NEW n \in Nat
  PROVE  \E fn : TriedTo(what, acc, ns, n, fn)
<1> DEFINE S == {k \in Nat : \E fn : TriedTo(what, acc, ns, k, fn)}
<1>1. 0 \in S
  <2> DEFINE fn == [k \in {0} |-> acc]
  <2>1. TriedTo(what, acc, ns, 0, fn)
    BY DEF TriedTo
  <2> QED BY <2>1
<1>2. ASSUME NEW k \in 1..n, k - 1 \in S PROVE k \in S
  <2>1. PICK fn : TriedTo(what, acc, ns, k - 1, fn)
    BY <1>2
  <2> DEFINE g == [i \in 0..k |-> IF i = k THEN Try(what, fn[k - 1], ns[k]) ELSE fn[i]]
  <2>2. g[k] = Try(what, fn[k - 1], ns[k]) /\ \A i \in 0..(k - 1) : g[i] = fn[i]
    OBVIOUS
  <2> HIDE DEF g
  <2>3. ASSUME NEW i \in 1..k PROVE g[i] = Try(what, g[i - 1], ns[i])
    <3>1. i - 1 \in 0..(k - 1) /\ (i = k \/ (i \in 0..(k - 1) /\ i \in 1..(k - 1)))
      OBVIOUS
    <3> QED BY <2>1, <2>2, <3>1 DEF TriedTo
  <2>4. g[0] = acc
    BY <2>1, <2>2 DEF TriedTo
  <2>5. k \in Nat /\ TriedTo(what, acc, ns, k, g)
    BY <2>3, <2>4 DEF TriedTo
  <2> QED BY <2>5
<1>3. n \in S
  <2> HIDE DEF S
  <2> QED BY <1>1, <1>2, UpTo
<1> QED BY <1>3

\* TryAll goes through the nodes one by one.
LEMMA TryAllUnfolds ==
  ASSUME NEW what, NEW acc, NEW ns, Len(ns) \in Nat
  PROVE  \E fn : TriedTo(what, acc, ns, Len(ns), fn) /\ TryAll(what, acc, ns) = fn[Len(ns)]
<1> DEFINE Def(fn) == [k \in 0..Len(ns) |-> IF k = 0 THEN acc ELSE Try(what, fn[k - 1], ns[k])]
           s == CHOOSE fn : fn = Def(fn)
<1>1. PICK fn : TriedTo(what, acc, ns, Len(ns), fn)
  BY TriedExists
<1> DEFINE g == [k \in 0..Len(ns) |-> fn[k]]
<1>2. g = Def(g)
  <2>1. \A k \in 0..Len(ns) : g[k] = fn[k]
    OBVIOUS
  <2>2. \A k \in 0..Len(ns) : g[k] = IF k = 0 THEN acc ELSE Try(what, g[k - 1], ns[k])
    <3> HIDE DEF g
    <3>1. \A k \in 0..Len(ns) : k = 0 \/ (k \in 1..Len(ns) /\ k - 1 \in 0..Len(ns))
      OBVIOUS
    <3> QED BY <1>1, <2>1, <3>1 DEF TriedTo
  <2> QED BY <2>2
<1>3. s = Def(s)
  <2> HIDE DEF Def, g
  <2> QED BY <1>2
<1>4. TryAll(what, acc, ns) = s[Len(ns)]
  BY DEF TryAll
<1> HIDE DEF s
<1>5. \A k \in 0..Len(ns) : s[k] = IF k = 0 THEN acc ELSE Try(what, s[k - 1], ns[k])
  BY <1>3
<1>6. TriedTo(what, acc, ns, Len(ns), s)
  <2>1. 0 \in 0..Len(ns) /\ \A k \in 1..Len(ns) : k \in 0..Len(ns) /\ k # 0
    OBVIOUS
  <2> QED BY <1>5, <2>1 DEF TriedTo
<1> QED BY <1>4, <1>6

-----------------------------------------------------------------------------
(* newTasks.                                                                *)

Accs == [d : DialStates, need : Int, tasks : Seq(TaskSet), up : SUBSET Nodes]

\* While newTasks dials, from the dialer dd and with peers ps: what was marked stays
\* marked, each task is for a node that was not, each mark has its task, the need is
\* what is left, and the static nodes in S need no dial.
AccInv(dd, ps, S, a) ==
  /\ a \in Accs /\ a.up = In(ps) /\ a.d.hist = dd.hist /\ a.d.lookupRunning = dd.lookupRunning
  /\ a.d.static \subseteq dd.static
  /\ \A n \in Nodes : dd.dialing[n] # "no" => a.d.dialing[n] = dd.dialing[n]
  /\ \A i \in 1..Len(a.tasks) : /\ IsDial(a.tasks[i]) /\ dd.dialing[a.tasks[i].node] = "no"
                                /\ a.d.dialing[a.tasks[i].node] = a.tasks[i].kind
  /\ \A i, j \in 1..Len(a.tasks) : a.tasks[i].node = a.tasks[j].node => i = j
  /\ \A n \in Nodes : dd.dialing[n] = "no" /\ a.d.dialing[n] # "no" =>
        \E i \in 1..Len(a.tasks) : a.tasks[i] = Task(a.d.dialing[n], n)
  /\ a.need = maxDynDials - Cardinality(DynPeers(ps)) - Cardinality(DynDials(a.d))
  /\ a.need >= 0 \/ DynDials(a.d) = DynDials(dd)
  /\ \A n \in S \cap a.d.static : n \in a.up \/ a.d.dialing[n] # "no" \/ n \in Range(a.d.hist)

\* b is a with one node more to dial.
OneMore(a, n, flag, b) ==
  /\ b \in Accs /\ b.up = a.up /\ b.d.hist = a.d.hist /\ b.d.lookupRunning = a.d.lookupRunning
  /\ b.d.static = a.d.static /\ b.d.dialing = [a.d.dialing EXCEPT ![n] = flag]
  /\ b.tasks = Append(a.tasks, Task(flag, n)) /\ b.need = IF flag = "dyn" THEN a.need - 1 ELSE a.need

\* The peers are finitely many.
LEMMA DynPeersAreFinite ==
  ASSUME ServerConstants, NEW ps
  PROVE  IsFiniteSet(In(ps)) /\ IsFiniteSet(DynPeers(ps)) /\ Cardinality(DynPeers(ps)) \in Nat
<1>1. DynPeers(ps) \subseteq Nodes /\ In(ps) \subseteq Nodes /\ IsFiniteSet(Nodes)
  BY DEF DynPeers, In, ServerConstants
<1> QED BY <1>1, FS_Subset, FS_CardinalityType

\* The dynamic dials are one more, or the same.
LEMMA DynDialsGrow ==
  ASSUME ServerConstants, NEW a \in DialStates, NEW b \in DialStates, NEW n \in Nodes, NEW flag \in {"dyn", "static"},
         a.dialing[n] = "no", b.dialing = [a.dialing EXCEPT ![n] = flag]
  PROVE  /\ flag = "dyn" => Cardinality(DynDials(b)) = Cardinality(DynDials(a)) + 1
         /\ flag = "static" => DynDials(b) = DynDials(a)
         /\ Cardinality(DynDials(a)) \in Nat
<1>1. a.dialing \in [Nodes -> {"no", "dyn", "static"}] /\ IsFiniteSet(Nodes)
  BY DEF DialStates, ServerConstants
<1>2. \A m \in Nodes : b.dialing[m] = IF m = n THEN flag ELSE a.dialing[m]
  BY <1>1
<1>3. flag = "static" => DynDials(b) = DynDials(a)
  BY <1>2 DEF DynDials
<1>4. flag = "dyn" => DynDials(b) = DynDials(a) \cup {n}
  BY <1>2 DEF DynDials
<1>5. n \notin DynDials(a) /\ DynDials(a) \subseteq Nodes
  BY DEF DynDials
<1>6. IsFiniteSet(DynDials(a)) /\ Cardinality(DynDials(a)) \in Nat
  BY <1>1, <1>5, FS_Subset, FS_CardinalityType
<1>7. Cardinality(DynDials(a) \cup {n}) = Cardinality(DynDials(a)) + 1
  BY <1>5, <1>6, FS_AddElement
<1> QED BY <1>3, <1>4, <1>6, <1>7

\* Dialling a node that is not dialled keeps AccInv.
LEMMA DialKeeps ==
  ASSUME ServerConstants, NEW dd \in DialStates, NEW ps, NEW S, NEW a, AccInv(dd, ps, S, a),
         NEW n \in Nodes, NEW flag \in {"dyn", "static"}, a.d.dialing[n] = "no", flag = "dyn" => a.need > 0,
         NEW b, OneMore(a, n, flag, b)
  PROVE  AccInv(dd, ps, S \cup {n}, b)
<1>1. /\ a \in Accs /\ a.d \in DialStates /\ a.d.dialing \in [Nodes -> {"no", "dyn", "static"}]
      /\ a.tasks \in Seq(TaskSet) /\ a.need \in Int /\ Len(a.tasks) \in Nat /\ b.d \in DialStates
  BY SMTT(60) DEF AccInv, Accs, DialStates, OneMore
<1>2. \A m \in Nodes : b.d.dialing[m] = IF m = n THEN flag ELSE a.d.dialing[m]
  BY <1>1 DEF OneMore
<1>3. dd.dialing[n] = "no"
  BY DEF AccInv
<1>4. Task(flag, n) \in TaskSet /\ IsDial(Task(flag, n)) /\ Task(flag, n).node = n /\ Task(flag, n).kind = flag
  BY DEF Task, TaskSet, IsDial
<1>5. /\ Len(b.tasks) = Len(a.tasks) + 1 /\ b.tasks[Len(a.tasks) + 1] = Task(flag, n)
      /\ \A i \in 1..Len(a.tasks) : b.tasks[i] = a.tasks[i] /\ a.tasks[i] \in TaskSet
  <2>1. b.tasks = Append(a.tasks, Task(flag, n))
    BY DEF OneMore
  <2> QED BY <1>1, <1>4, <2>1, AppendProperties, ElementOfSeq
<1>6. \A i \in 1..Len(b.tasks) : i \in 1..Len(a.tasks) \/ i = Len(a.tasks) + 1
  BY <1>1, <1>5
<1>7. \A i \in 1..Len(a.tasks) : a.tasks[i].node \in Nodes /\ a.tasks[i].node # n
  <2>1. \A i \in 1..Len(a.tasks) : a.tasks[i].node \in Nodes /\ a.tasks[i].kind \in {"dyn", "static"}
                                   /\ a.d.dialing[a.tasks[i].node] = a.tasks[i].kind
    BY <1>5 DEF AccInv, TaskSet, IsDial
  <2> QED BY <2>1
<1>8. \A m \in Nodes : dd.dialing[m] # "no" => b.d.dialing[m] = dd.dialing[m]
  BY <1>2, <1>3 DEF AccInv
<1>9. ASSUME NEW i \in 1..Len(b.tasks)
      PROVE  IsDial(b.tasks[i]) /\ dd.dialing[b.tasks[i].node] = "no" /\ b.d.dialing[b.tasks[i].node] = b.tasks[i].kind
  <2>1. CASE i \in 1..Len(a.tasks)
    <3>1. IsDial(a.tasks[i]) /\ dd.dialing[a.tasks[i].node] = "no" /\ a.d.dialing[a.tasks[i].node] = a.tasks[i].kind
      BY <2>1 DEF AccInv
    <3> QED BY ONLY <1>2, <1>5, <1>7, <2>1, <3>1
  <2>2. CASE i = Len(a.tasks) + 1
    BY <1>2, <1>3, <1>4, <1>5, <2>2
  <2> QED BY <1>6, <2>1, <2>2
<1>10. ASSUME NEW i \in 1..Len(b.tasks), NEW j \in 1..Len(b.tasks), b.tasks[i].node = b.tasks[j].node PROVE i = j
  <2>1. CASE i \in 1..Len(a.tasks) /\ j \in 1..Len(a.tasks)
    BY <1>5, <1>10, <2>1 DEF AccInv
  <2>2. CASE i \in 1..Len(a.tasks) /\ j = Len(a.tasks) + 1
    BY <1>4, <1>5, <1>7, <1>10, <2>2
  <2>3. CASE i = Len(a.tasks) + 1 /\ j \in 1..Len(a.tasks)
    BY <1>4, <1>5, <1>7, <1>10, <2>3
  <2> QED BY <1>6, <2>1, <2>2, <2>3
<1>11. ASSUME NEW m \in Nodes, dd.dialing[m] = "no", b.d.dialing[m] # "no"
       PROVE  \E i \in 1..Len(b.tasks) : b.tasks[i] = Task(b.d.dialing[m], m)
  <2>1. CASE m = n
    <3>1. Len(a.tasks) + 1 \in 1..Len(b.tasks)
      BY <1>1, <1>5
    <3> QED BY <1>2, <1>5, <2>1, <3>1
  <2>2. CASE m # n
    <3>1. b.d.dialing[m] = a.d.dialing[m]
      BY <1>2, <2>2
    <3>2. PICK i \in 1..Len(a.tasks) : a.tasks[i] = Task(a.d.dialing[m], m)
      BY <1>11, <3>1 DEF AccInv
    <3>3. i \in 1..Len(b.tasks)
      BY <1>1, <1>5
    <3> QED BY <1>5, <3>1, <3>2, <3>3
  <2> QED BY <2>1, <2>2
<1>12. /\ flag = "dyn" => Cardinality(DynDials(b.d)) = Cardinality(DynDials(a.d)) + 1
       /\ flag = "static" => DynDials(b.d) = DynDials(a.d)
       /\ Cardinality(DynDials(a.d)) \in Nat
  <2>1. b.d.dialing = [a.d.dialing EXCEPT ![n] = flag]
    BY DEF OneMore
  <2>2. ServerConstants /\ n \in Nodes /\ flag \in {"dyn", "static"} /\ a.d.dialing[n] = "no"
    OBVIOUS
  <2> QED BY ONLY <1>1, <2>1, <2>2, DynDialsGrow, ZenonT(60)
<1>13. b.need = maxDynDials - Cardinality(DynPeers(ps)) - Cardinality(DynDials(b.d))
  <2>1. a.need = maxDynDials - Cardinality(DynPeers(ps)) - Cardinality(DynDials(a.d))
    BY DEF AccInv
  <2>2. b.need = IF flag = "dyn" THEN a.need - 1 ELSE a.need
    BY DEF OneMore
  <2>3. maxDynDials \in Nat /\ Cardinality(DynPeers(ps)) \in Nat
    BY DynPeersAreFinite DEF ServerConstants
  <2>4. CASE flag = "static"
    BY <1>12, <2>1, <2>2, <2>4
  <2>5. CASE flag = "dyn"
    BY ONLY <1>1, <1>12, <2>1, <2>2, <2>3, <2>5
  <2> QED BY <2>4, <2>5
<1>14. b.need >= 0 \/ DynDials(b.d) = DynDials(dd)
  BY <1>1, <1>12 DEF AccInv, OneMore
<1>15. \A m \in (S \cup {n}) \cap b.d.static : m \in b.up \/ b.d.dialing[m] # "no" \/ m \in Range(b.d.hist)
  <2>1. b.up = a.up /\ b.d.hist = a.d.hist /\ b.d.static = a.d.static /\ b.d.static \subseteq Nodes
    BY <1>1 DEF OneMore, DialStates
  <2> QED BY <1>2, <2>1 DEF AccInv
<1>16. /\ b \in Accs /\ b.up = In(ps) /\ b.d.hist = dd.hist /\ b.d.lookupRunning = dd.lookupRunning
       /\ b.d.static \subseteq dd.static
  BY DEF OneMore, AccInv
<1> QED BY ONLY <1>8, <1>9, <1>10, <1>11, <1>13, <1>14, <1>15, <1>16, Zenon DEF AccInv
\* What AccInv does not speak of may change, and static nodes may be fewer.
LEMMA AccSame ==
  ASSUME NEW dd, NEW ps, NEW S, NEW R, NEW a, AccInv(dd, ps, S, a), NEW b \in Accs, b.up = a.up, b.d.hist = a.d.hist,
         b.d.lookupRunning = a.d.lookupRunning, b.d.static \subseteq a.d.static, R \cap b.d.static \subseteq S,
         b.d.dialing = a.d.dialing, b.tasks = a.tasks, b.need = a.need
  PROVE  AccInv(dd, ps, R, b)
<1>1. DynDials(b.d) = DynDials(a.d)
  BY DEF DynDials
<1>2. \A n \in R \cap b.d.static : n \in b.up \/ b.d.dialing[n] # "no" \/ n \in Range(b.d.hist)
  BY DEF AccInv
<1>3. /\ b \in Accs /\ b.up = In(ps) /\ b.d.hist = dd.hist /\ b.d.lookupRunning = dd.lookupRunning
      /\ b.d.static \subseteq dd.static
      /\ b.need = maxDynDials - Cardinality(DynPeers(ps)) - Cardinality(DynDials(b.d))
      /\ b.need >= 0 \/ DynDials(b.d) = DynDials(dd)
  BY <1>1 DEF AccInv
<1>4. /\ \A n \in Nodes : dd.dialing[n] # "no" => b.d.dialing[n] = dd.dialing[n]
      /\ \A i \in 1..Len(b.tasks) : /\ IsDial(b.tasks[i]) /\ dd.dialing[b.tasks[i].node] = "no"
                                    /\ b.d.dialing[b.tasks[i].node] = b.tasks[i].kind
      /\ \A i, j \in 1..Len(b.tasks) : b.tasks[i].node = b.tasks[j].node => i = j
      /\ \A n \in Nodes : dd.dialing[n] = "no" /\ b.d.dialing[n] # "no" =>
            \E i \in 1..Len(b.tasks) : b.tasks[i] = Task(b.d.dialing[n], n)
  BY DEF AccInv
<1> QED BY ONLY <1>2, <1>3, <1>4, Zenon DEF AccInv

\* What checkDial has ruled out.
LEMMA CheckDial ==
  ASSUME NEW a, NEW n
  PROVE  /\ checkDial(a, n) = "nil" => a.d.dialing[n] = "no"
         /\ checkDial(a, n) \notin {"nil", "errSelf", "errNotWhitelisted"} =>
              n \in a.up \/ a.d.dialing[n] # "no" \/ n \in Range(a.d.hist)
BY DEF checkDial

\* Dialed dials one node more.
LEMMA DialedIsOneMore ==
  ASSUME NEW a \in Accs, NEW n \in Nodes
  PROVE  /\ OneMore(a, n, "static", Dialed(a, n, "static"))
         /\ OneMore(a, n, "dyn", [Dialed(a, n, "dyn") EXCEPT !.need = @ - 1])
         /\ [Dialed(a, n, "dyn") EXCEPT !.need = @ - 1].d.lookupBuf = a.d.lookupBuf
<1>1. /\ a.d \in DialStates /\ a.d.dialing \in [Nodes -> {"no", "dyn", "static"}] /\ a.tasks \in Seq(TaskSet)
      /\ a.need \in Int
  BY DEF Accs, DialStates
<1>2. ASSUME NEW flag \in {"dyn", "static"}
      PROVE  LET b == Dialed(a, n, flag)
             IN  /\ b \in Accs /\ b.up = a.up /\ b.d.hist = a.d.hist /\ b.d.lookupRunning = a.d.lookupRunning
                 /\ b.d.static = a.d.static /\ b.d.dialing = [a.d.dialing EXCEPT ![n] = flag]
                 /\ b.tasks = Append(a.tasks, Task(flag, n)) /\ b.need = a.need /\ b.d.lookupBuf = a.d.lookupBuf
  <2> DEFINE e == [a.d EXCEPT !.dialing = [a.d.dialing EXCEPT ![n] = flag]]
             q == Append(a.tasks, Task(flag, n))
  <2>1. /\ e \in DialStates /\ e.hist = a.d.hist /\ e.lookupRunning = a.d.lookupRunning /\ e.static = a.d.static
        /\ e.dialing = [a.d.dialing EXCEPT ![n] = flag] /\ e.lookupBuf = a.d.lookupBuf
    BY <1>1 DEF DialStates
  <2>2. q \in Seq(TaskSet)
    <3>1. Task(flag, n) \in TaskSet
      BY DEF Task, TaskSet
    <3> QED BY <1>1, <3>1, AppendProperties
  <2>3. Dialed(a, n, flag) = [a EXCEPT !.d = e, !.tasks = q]
    BY <1>1 DEF Dialed, Accs, DialStates
  <2> HIDE DEF e, q
  <2>4. LET b == [a EXCEPT !.d = e, !.tasks = q] IN b \in Accs /\ b.up = a.up /\ b.d = e /\ b.tasks = q /\ b.need = a.need
    BY <2>1, <2>2 DEF Accs
  <2> QED BY <2>1, <2>3, <2>4 DEF q
<1>3. OneMore(a, n, "static", Dialed(a, n, "static"))
  BY <1>2 DEF OneMore
<1> DEFINE c == Dialed(a, n, "dyn")
           b == [c EXCEPT !.need = @ - 1]
<1>4. c \in Accs
  BY <1>2
<1>5. b \in Accs /\ b.up = c.up /\ b.d = c.d /\ b.tasks = c.tasks /\ b.need = c.need - 1
  <2> HIDE DEF c
  <2> QED BY <1>4 DEF Accs
<1>6. OneMore(a, n, "dyn", b) /\ b.d.lookupBuf = a.d.lookupBuf
  <2> HIDE DEF b
  <2> QED BY <1>2, <1>5 DEF OneMore
<1> QED BY <1>3, <1>6

\* A dynamic dial, while one is needed
LEMMA AddDialKeeps ==
  ASSUME ServerConstants, NEW dd \in DialStates, NEW ps, NEW S, NEW a, AccInv(dd, ps, S, a), NEW n \in Nodes, a.need > 0
  PROVE  /\ AccInv(dd, ps, S, addDial(a, n)) /\ addDial(a, n).d.lookupBuf = a.d.lookupBuf
         /\ addDial(a, n).need \in {a.need, a.need - 1}
<1>1. a \in Accs
  BY DEF AccInv
<1>2. CASE checkDial(a, n) # "nil"
  BY <1>2 DEF addDial
<1>3. CASE checkDial(a, n) = "nil"
  <2> DEFINE b == [Dialed(a, n, "dyn") EXCEPT !.need = @ - 1]
  <2>1. addDial(a, n) = b
    BY <1>3 DEF addDial
  <2>2. OneMore(a, n, "dyn", b) /\ b.d.lookupBuf = a.d.lookupBuf
    BY <1>1, DialedIsOneMore
  <2> HIDE DEF b
  <2>3. AccInv(dd, ps, S \cup {n}, b)
    BY <1>3, <2>2, CheckDial, DialKeeps
  <2>4. AccInv(dd, ps, S, b)
    <3>1. b \in Accs
      BY <2>2 DEF OneMore
    <3> QED BY <2>3, <3>1, AccSame
  <2>5. b.need = a.need - 1
    BY <2>2 DEF OneMore
  <2> QED BY <2>1, <2>2, <2>4, <2>5
<1> QED BY <1>2, <1>3

\* A static node is dialled, forgotten, or needs no dial.
LEMMA DialStaticKeeps ==
  ASSUME ServerConstants, NEW dd \in DialStates, NEW ps, NEW S, NEW a, AccInv(dd, ps, S, a), NEW n \in Nodes
  PROVE  AccInv(dd, ps, S \cup {n}, DialStatic(a, n))
<1>1. a \in Accs
  BY DEF AccInv
<1>2. CASE checkDial(a, n) \in {"errNotWhitelisted", "errSelf"}
  <2> DEFINE b == [a EXCEPT !.d.static = @ \ {n}]
  <2>1. DialStatic(a, n) = b
    BY <1>2 DEF DialStatic
  <2>2. /\ b \in Accs /\ b.up = a.up /\ b.d.hist = a.d.hist /\ b.d.lookupRunning = a.d.lookupRunning
        /\ b.d.static = a.d.static \ {n} /\ b.d.dialing = a.d.dialing /\ b.tasks = a.tasks /\ b.need = a.need
    BY <1>1 DEF Accs, DialStates
  <2> HIDE DEF b
  <2>3. (S \cup {n}) \cap b.d.static \subseteq S /\ b.d.static \subseteq a.d.static
    BY <2>2
  <2> QED BY <2>1, <2>2, <2>3, AccSame
<1>3. CASE checkDial(a, n) = "nil"
  <2>1. DialStatic(a, n) = Dialed(a, n, "static")
    BY <1>3 DEF DialStatic
  <2>2. OneMore(a, n, "static", Dialed(a, n, "static"))
    BY <1>1, DialedIsOneMore
  <2> QED BY <1>3, <2>1, <2>2, CheckDial, DialKeeps
<1>4. CASE checkDial(a, n) \notin {"errNotWhitelisted", "errSelf", "nil"}
  <2>1. DialStatic(a, n) = a
    BY <1>4 DEF DialStatic
  <2>2. n \in a.up \/ a.d.dialing[n] # "no" \/ n \in Range(a.d.hist)
    BY <1>4, CheckDial
  <2>3. AccInv(dd, ps, S \cup {n}, a)
    BY <2>2 DEF AccInv
  <2> QED BY <2>1, <2>3
<1> QED BY <1>2, <1>3, <1>4
\* The loop over the static nodes leaves none that needs a dial.
LEMMA StaticLoop ==
  ASSUME ServerConstants, NEW dd \in DialStates, NEW ps, NEW a, AccInv(dd, ps, {}, a), NEW order \in SetToSeqs(dd.static)
  PROVE  AccInv(dd, ps, dd.static, TryAll("static", a, order))
<1>1. dd.static \in SUBSET Nodes /\ IsFiniteSet(dd.static) /\ Cardinality(dd.static) \in Nat
  <2>1. dd.static \in SUBSET Nodes /\ IsFiniteSet(Nodes)
    BY DEF DialStates, ServerConstants
  <2> QED BY <2>1, FS_Subset, FS_CardinalityType
<1> DEFINE N == Cardinality(dd.static)
<1>2. /\ order \in [1..N -> dd.static] /\ \A i, j \in 1..N : i # j => order[i] # order[j]
  BY DEF SetToSeqs
<1>3. Len(order) = N /\ order \in Seq(dd.static)
  BY <1>1, <1>2
<1>4. \A n \in dd.static : \E i \in 1..N : order[i] = n
  <2>1. order \in Injection(1..N, dd.static)
    BY <1>2 DEF Injection, IsInjective
  <2>2. Cardinality(1..N) = N
    BY <1>1, FS_Interval
  <2>3. order \in Surjection(1..N, dd.static)
    BY <1>1, <2>1, <2>2, FS_Injection
  <2> QED BY <2>3 DEF Surjection
<1>5. PICK fn : TriedTo("static", a, order, N, fn) /\ TryAll("static", a, order) = fn[N]
  BY <1>1, <1>3, TryAllUnfolds
<1> HIDE DEF N
<1> DEFINE Gone(k) == {order[j] : j \in 1..k}
           Fine == {k \in Nat : AccInv(dd, ps, Gone(k), fn[k])}
<1>6. 0 \in Fine
  <2>1. Gone(0) = {}
    OBVIOUS
  <2> QED BY <1>5, <2>1 DEF TriedTo
<1>7. ASSUME NEW k \in 1..N, k - 1 \in Fine PROVE k \in Fine
  <2>1. k \in Nat /\ order[k] \in Nodes /\ Gone(k) = Gone(k - 1) \cup {order[k]}
    <3>1. k \in Nat /\ order[k] \in Nodes /\ \A j \in 1..k : j = k \/ j \in 1..(k - 1)
      BY <1>1, <1>2
    <3>2. \A j \in 1..(k - 1) : j \in 1..k
      OBVIOUS
    <3> QED BY <3>1, <3>2
  <2>2. fn[k] = DialStatic(fn[k - 1], order[k])
    BY <1>5 DEF TriedTo, Try
  <2>3. AccInv(dd, ps, Gone(k - 1), fn[k - 1])
    BY <1>7
  <2> HIDE DEF Gone
  <2>4. AccInv(dd, ps, Gone(k - 1) \cup {order[k]}, fn[k])
    BY <2>1, <2>2, <2>3, DialStaticKeeps
  <2> QED BY <2>1, <2>4
<1>8. N \in Fine
  <2> HIDE DEF Fine
  <2> QED BY <1>1, <1>6, <1>7, UpTo DEF N
<1>9. Gone(N) = dd.static
  BY <1>2, <1>4
<1> QED BY <1>5, <1>8, <1>9

\* The loop over random nodes dials no more than are needed.
LEMMA RandomLoop ==
  ASSUME ServerConstants, NEW dd \in DialStates, NEW ps, NEW S, NEW a, AccInv(dd, ps, S, a),
         NEW ns \in Seq(Nodes), Len(ns) <= a.need
  PROVE  AccInv(dd, ps, S, TryAll("random", a, ns))
<1>1. Len(ns) \in Nat /\ (\A i \in 1..Len(ns) : ns[i] \in Nodes) /\ a.need \in Int
  BY ElementOfSeq, LenProperties DEF AccInv, Accs
<1>2. PICK fn : TriedTo("random", a, ns, Len(ns), fn) /\ TryAll("random", a, ns) = fn[Len(ns)]
  BY <1>1, TryAllUnfolds
<1> DEFINE Fine == {k \in Nat : AccInv(dd, ps, S, fn[k]) /\ fn[k].need >= a.need - k}
<1>3. 0 \in Fine
  BY <1>1, <1>2 DEF TriedTo
<1>4. ASSUME NEW k \in 1..Len(ns), k - 1 \in Fine PROVE k \in Fine
  <2>1. fn[k] = addDial(fn[k - 1], ns[k]) /\ ns[k] \in Nodes
    BY <1>1, <1>2 DEF TriedTo, Try
  <2>2. AccInv(dd, ps, S, fn[k - 1]) /\ fn[k - 1].need >= a.need - (k - 1)
    BY <1>4
  <2>3. fn[k - 1].need \in Int
    BY <2>2 DEF AccInv, Accs
  <2>4. fn[k - 1].need > 0
    BY <1>1, <2>2, <2>3
  <2>5. AccInv(dd, ps, S, fn[k]) /\ fn[k].need \in {fn[k - 1].need, fn[k - 1].need - 1}
    BY <2>1, <2>2, <2>4, AddDialKeeps
  <2>6. fn[k].need >= a.need - k
    BY <1>1, <2>2, <2>3, <2>5
  <2> QED BY <2>5, <2>6
<1>5. Len(ns) \in Fine
  <2> HIDE DEF Fine
  <2>1. \A k \in 0..Len(ns) : k \in Fine
    BY ONLY <1>1, <1>3, <1>4, UpTo
  <2> QED BY <1>1, <2>1
<1> QED BY <1>2, <1>5

\* A lookup result is tried while dials are needed.
LEMMA DialLookupKeeps ==
  ASSUME ServerConstants, NEW dd \in DialStates, NEW ps, NEW S, NEW a, AccInv(dd, ps, S, a), NEW n \in Nodes,
         a.need > 0, a.d.lookupBuf # <<>>
  PROVE  /\ AccInv(dd, ps, S, DialLookup(a, n)) /\ DialLookup(a, n).need \in {a.need, a.need - 1}
         /\ Len(DialLookup(a, n).d.lookupBuf) = Len(a.d.lookupBuf) - 1
<1>1. a \in Accs /\ a.d \in DialStates /\ a.d.lookupBuf \in Seq(Nodes) /\ a.need \in Int
  BY DEF AccInv, Accs, DialStates
<1> DEFINE b == [a EXCEPT !.d.lookupBuf = Tail(@)]
<1>2. Tail(a.d.lookupBuf) \in Seq(Nodes) /\ Len(Tail(a.d.lookupBuf)) = Len(a.d.lookupBuf) - 1
  BY <1>1, HeadTailProperties
<1>3. /\ b \in Accs /\ b.up = a.up /\ b.d.hist = a.d.hist /\ b.d.lookupRunning = a.d.lookupRunning
      /\ b.d.static = a.d.static /\ b.d.dialing = a.d.dialing /\ b.tasks = a.tasks /\ b.need = a.need
      /\ b.d.lookupBuf = Tail(a.d.lookupBuf)
  BY <1>1, <1>2 DEF Accs, DialStates
<1>4. DialLookup(a, n) = addDial(b, n)
  BY <1>1 DEF DialLookup
<1> HIDE DEF b
<1>5. AccInv(dd, ps, S, b)
  BY <1>3, AccSame
<1>6. b.need > 0
  BY <1>3
<1>7. AccInv(dd, ps, S, addDial(b, n)) /\ addDial(b, n).d.lookupBuf = b.d.lookupBuf /\ addDial(b, n).need \in {b.need, b.need - 1}
  BY <1>5, <1>6, AddDialKeeps
<1> QED BY ONLY <1>2, <1>3, <1>4, <1>7

\* The loop over the lookup results ends when no dial is needed or none is left.
LEMMA LookupLoop ==
  ASSUME ServerConstants, NEW dd \in DialStates, NEW ps, NEW S, NEW a, AccInv(dd, ps, S, a)
  PROVE  LET r == TryAll("lookup", a, a.d.lookupBuf)
         IN  AccInv(dd, ps, S, r) /\ (r.need > 0 => Len(r.d.lookupBuf) = 0)
<1> DEFINE buf == a.d.lookupBuf
<1>1. buf \in Seq(Nodes) /\ Len(buf) \in Nat /\ \A i \in 1..Len(buf) : buf[i] \in Nodes
  <2>1. a.d.lookupBuf \in Seq(Nodes)
    BY DEF AccInv, Accs, DialStates
  <2> QED BY <2>1, ElementOfSeq, LenProperties
<1>2. PICK fn : TriedTo("lookup", a, buf, Len(buf), fn) /\ TryAll("lookup", a, buf) = fn[Len(buf)]
  BY <1>1, TryAllUnfolds
<1> DEFINE Fine == {k \in Nat : AccInv(dd, ps, S, fn[k]) /\ (fn[k].need > 0 => Len(fn[k].d.lookupBuf) = Len(buf) - k)}
<1>3. 0 \in Fine
  BY <1>1, <1>2 DEF TriedTo
<1> HIDE DEF buf
<1>4. ASSUME NEW k \in 1..Len(buf), k - 1 \in Fine PROVE k \in Fine
  <2>1. fn[k] = DialLookup(fn[k - 1], buf[k]) /\ buf[k] \in Nodes
    BY <1>1, <1>2 DEF TriedTo, Try
  <2>2. AccInv(dd, ps, S, fn[k - 1]) /\ (fn[k - 1].need > 0 => Len(fn[k - 1].d.lookupBuf) = Len(buf) - (k - 1))
    BY <1>4
  <2>3. fn[k - 1].need \in Int
    BY <2>2 DEF AccInv, Accs
  <2>4. CASE fn[k - 1].need <= 0
    <3>1. fn[k] = fn[k - 1]
      BY <2>1, <2>4 DEF DialLookup
    <3> QED BY <2>2, <2>3, <2>4, <3>1
  <2>5. CASE fn[k - 1].need > 0
    <3>1. Len(fn[k - 1].d.lookupBuf) = Len(buf) - (k - 1) /\ Len(buf) - (k - 1) > 0
      BY <1>1, <2>2, <2>5
    <3>2. fn[k - 1].d.lookupBuf # <<>>
      BY <3>1
    <3>3. AccInv(dd, ps, S, fn[k]) /\ Len(fn[k].d.lookupBuf) = Len(fn[k - 1].d.lookupBuf) - 1
      BY <2>1, <2>2, <2>5, <3>2, DialLookupKeeps
    <3>4. Len(fn[k].d.lookupBuf) = Len(buf) - k
      BY <1>1, <3>1, <3>3
    <3> QED BY <3>3, <3>4
  <2>6. fn[k - 1].need <= 0 \/ fn[k - 1].need > 0
    BY <2>3
  <2> QED BY ONLY <2>4, <2>5, <2>6
<1>5. Len(buf) \in Fine
  <2> HIDE DEF Fine
  <2>1. \A k \in 0..Len(buf) : k \in Fine
    BY ONLY <1>1, <1>3, <1>4, UpTo
  <2> QED BY <1>1, <2>1
<1>6. AccInv(dd, ps, S, fn[Len(buf)]) /\ (fn[Len(buf)].need > 0 => Len(fn[Len(buf)].d.lookupBuf) = Len(buf) - Len(buf))
  BY <1>5
<1> QED BY <1>1, <1>2, <1>6 DEF buf
\* A bootnode is tried while dials are needed.
LEMMA BootnodeKeeps ==
  ASSUME ServerConstants, NEW dd \in DialStates, NEW ps, NEW S, NEW a, AccInv(dd, ps, S, a)
  PROVE  AccInv(dd, ps, S, DialBootnode(a))
<1> DEFINE boots == a.d.bootnodes
           b == [a EXCEPT !.d.bootnodes = Append(Tail(@), Head(@))]
<1>1. a \in Accs /\ a.d \in DialStates /\ boots \in Seq(Nodes) /\ a.need \in Int
  BY DEF AccInv, Accs, DialStates
<1>2. CASE a.up # {} \/ boots = <<>> \/ a.need <= 0 \/ ~late
  BY <1>2 DEF DialBootnode
<1>3. CASE ~(a.up # {} \/ boots = <<>> \/ a.need <= 0 \/ ~late)
  <2>1. Head(boots) \in Nodes /\ Append(Tail(boots), Head(boots)) \in Seq(Nodes)
    <3>1. Head(boots) \in Nodes /\ Tail(boots) \in Seq(Nodes)
      BY <1>1, <1>3, HeadTailProperties
    <3> QED BY <3>1, AppendProperties
  <2>2. /\ b \in Accs /\ b.up = a.up /\ b.d.hist = a.d.hist /\ b.d.lookupRunning = a.d.lookupRunning
        /\ b.d.static = a.d.static /\ b.d.dialing = a.d.dialing /\ b.tasks = a.tasks /\ b.need = a.need
    BY <1>1, <2>1 DEF Accs, DialStates
  <2>3. DialBootnode(a) = addDial(b, Head(boots))
    BY <1>3 DEF DialBootnode
  <2> HIDE DEF b, boots
  <2>4. AccInv(dd, ps, S, b)
    BY <2>2, AccSame
  <2>5. b.need > 0
    BY <1>1, <1>3, <2>2
  <2>6. AccInv(dd, ps, S, addDial(b, Head(boots)))
    BY <2>1, <2>4, <2>5, AddDialKeeps
  <2> QED BY <2>3, <2>6
<1> QED BY <1>2, <1>3

\* Random nodes are for half of the dials.
LEMMA DialRandomKeeps ==
  ASSUME ServerConstants, NEW dd \in DialStates, NEW ps, NEW S, NEW a, AccInv(dd, ps, S, a), NEW ns \in Seq(Nodes)
  PROVE  AccInv(dd, ps, S, DialRandom(a, ns))
<1> DEFINE n == IF a.need \div 2 > Len(ns) THEN Len(ns) ELSE a.need \div 2
<1>1. a.need \in Int /\ Len(ns) \in Nat /\ \A i \in 1..Len(ns) : ns[i] \in Nodes
  BY ElementOfSeq, LenProperties DEF AccInv, Accs
<1>2. DialRandom(a, ns) = IF n <= 0 THEN a ELSE TryAll("random", a, SubSeq(ns, 1, n))
  BY DEF DialRandom
<1>3. n \in Int /\ n <= Len(ns) /\ n <= a.need \div 2
  BY <1>1
<1> HIDE DEF n
<1>4. CASE n > 0
  <2>1. SubSeq(ns, 1, n) \in Seq(Nodes) /\ Len(SubSeq(ns, 1, n)) = n
    <3>1. \A i \in 1..n : ns[i] \in Nodes
      BY <1>1, <1>3
    <3>2. SubSeq(ns, 1, n) \in Seq(Nodes) /\ Len(SubSeq(ns, 1, n)) = IF 1 <= n THEN n - 1 + 1 ELSE 0
      BY ONLY <1>3, <3>1, SubSeqProperties
    <3> QED BY <1>3, <1>4, <3>2
  <2>2. n <= a.need
    BY <1>1, <1>3, <1>4
  <2>3. AccInv(dd, ps, S, TryAll("random", a, SubSeq(ns, 1, n)))
    BY <2>1, <2>2, RandomLoop
  <2> QED BY <1>2, <1>3, <1>4, <2>3
<1> QED BY <1>2, <1>3, <1>4

\* As AccInv, when the lookup was asked for as well: what is left undone is being done.
LookedInv(dd, ps, b) ==
  /\ b \in Accs /\ b.up = In(ps) /\ b.d.hist = dd.hist
  /\ \A n \in Nodes : dd.dialing[n] # "no" => b.d.dialing[n] = dd.dialing[n]
  /\ dd.lookupRunning => b.d.lookupRunning
  /\ \A i \in 1..Len(b.tasks) :
        /\ b.tasks[i].kind # "wait" /\ (~IsDial(b.tasks[i]) => b.tasks[i].node = Self)
        /\ IsDial(b.tasks[i]) => dd.dialing[b.tasks[i].node] = "no" /\ b.d.dialing[b.tasks[i].node] = b.tasks[i].kind
        /\ b.tasks[i].kind = "discover" => ~dd.lookupRunning /\ b.d.lookupRunning
  /\ \A i, j \in 1..Len(b.tasks) : b.tasks[i] = b.tasks[j] => i = j
  /\ \A n \in Nodes : dd.dialing[n] = "no" /\ b.d.dialing[n] # "no" =>
        \E i \in 1..Len(b.tasks) : b.tasks[i] = Task(b.d.dialing[n], n)
  /\ b.d.lookupRunning /\ ~dd.lookupRunning => \E i \in 1..Len(b.tasks) : b.tasks[i] = Task("discover", Self)
  /\ needDynDials(b.d, ps) >= 0 \/ DynDials(b.d) = DynDials(dd)
  /\ \A n \in b.d.static : n \in b.up \/ b.d.dialing[n] # "no" \/ n \in Range(b.d.hist)
  /\ needDynDials(b.d, ps) > 0 => b.d.lookupRunning

\* A lookup is asked for when the buffer does not hold enough nodes.
LEMMA LookupKeeps ==
  ASSUME ServerConstants, NEW dd \in DialStates, NEW ps, NEW a, AccInv(dd, ps, dd.static, a),
         a.need > 0 => Len(a.d.lookupBuf) = 0
  PROVE  LookedInv(dd, ps, Lookup(a))
<1>1. /\ a \in Accs /\ a.d \in DialStates /\ a.tasks \in Seq(TaskSet) /\ a.need \in Int /\ Len(a.tasks) \in Nat
      /\ a.d.lookupBuf \in Seq(Nodes) /\ Len(a.d.lookupBuf) \in Nat /\ a.d.lookupRunning \in BOOLEAN
  BY DEF AccInv, Accs, DialStates
<1>2. needDynDials(a.d, ps) = a.need
  BY DEF AccInv, needDynDials, DynDials
<1>3. \A i \in 1..Len(a.tasks) : /\ a.tasks[i] \in TaskSet /\ a.tasks[i].kind \in {"dyn", "static"}
                                 /\ IsDial(a.tasks[i]) /\ dd.dialing[a.tasks[i].node] = "no"
                                 /\ a.d.dialing[a.tasks[i].node] = a.tasks[i].kind
  BY <1>1, ElementOfSeq DEF AccInv, IsDial
<1>4. \A n \in a.d.static : n \in a.up \/ a.d.dialing[n] # "no" \/ n \in Range(a.d.hist)
  BY DEF AccInv
<1>5. \A i, j \in 1..Len(a.tasks) : a.tasks[i] = a.tasks[j] => i = j
  BY DEF AccInv
<1>6. /\ a.up = In(ps) /\ a.d.hist = dd.hist /\ a.d.lookupRunning = dd.lookupRunning
      /\ \A n \in Nodes : dd.dialing[n] # "no" => a.d.dialing[n] = dd.dialing[n]
      /\ \A n \in Nodes : dd.dialing[n] = "no" /\ a.d.dialing[n] # "no" =>
            \E i \in 1..Len(a.tasks) : a.tasks[i] = Task(a.d.dialing[n], n)
      /\ a.need >= 0 \/ DynDials(a.d) = DynDials(dd)
  BY DEF AccInv
<1>7. CASE Len(a.d.lookupBuf) >= a.need \/ a.d.lookupRunning
  <2>1. Lookup(a) = a
    BY <1>7 DEF Lookup
  <2>2. a.need > 0 => a.d.lookupRunning
    BY <1>1, <1>7
  <2>3. LookedInv(dd, ps, a)
    BY ONLY <1>1, <1>2, <1>3, <1>4, <1>5, <1>6, <2>2 DEF LookedInv
  <2> QED BY <2>1, <2>3
<1>8. CASE ~(Len(a.d.lookupBuf) >= a.need \/ a.d.lookupRunning)
  <2> DEFINE t == Task("discover", Self)
             b == [a EXCEPT !.d.lookupRunning = TRUE, !.tasks = Append(@, t)]
  <2>1. Lookup(a) = b
    BY <1>8 DEF Lookup
  <2>2. t \in TaskSet /\ t.kind = "discover" /\ t.node = Self /\ ~IsDial(t)
    BY DEF Task, TaskSet, IsDial, ServerConstants
  <2>3. Append(a.tasks, t) \in Seq(TaskSet)
    <3> HIDE DEF t
    <3> QED BY <1>1, <2>2, AppendProperties
  <2>4. /\ b \in Accs /\ b.up = a.up /\ b.d.hist = a.d.hist /\ b.d.lookupRunning = TRUE
        /\ b.d.static = a.d.static /\ b.d.dialing = a.d.dialing /\ b.tasks = Append(a.tasks, t) /\ b.need = a.need
    <3> HIDE DEF t
    <3> QED BY <1>1, <2>3 DEF Accs, DialStates
  <2> HIDE DEF b
  <2>5. Len(b.tasks) = Len(a.tasks) + 1 /\ b.tasks[Len(a.tasks) + 1] = t /\ \A i \in 1..Len(a.tasks) : b.tasks[i] = a.tasks[i]
    <3> HIDE DEF t
    <3> QED BY <1>1, <2>2, <2>4, AppendProperties
  <2>6. \A i \in 1..Len(b.tasks) : i \in 1..Len(a.tasks) \/ i = Len(a.tasks) + 1
    BY <1>1, <2>5
  <2>7. Len(a.tasks) + 1 \in 1..Len(b.tasks) /\ 1..Len(a.tasks) \subseteq 1..Len(b.tasks)
    BY <1>1, <2>5
  <2>8. DynDials(b.d) = DynDials(a.d) /\ needDynDials(b.d, ps) = a.need
    BY <1>2, <2>4 DEF DynDials, needDynDials
  <2>9. ~dd.lookupRunning
    BY <1>6, <1>8
  <2>10. ASSUME NEW i \in 1..Len(b.tasks)
         PROVE  /\ b.tasks[i].kind # "wait" /\ (~IsDial(b.tasks[i]) => b.tasks[i].node = Self)
                /\ IsDial(b.tasks[i]) => dd.dialing[b.tasks[i].node] = "no" /\ b.d.dialing[b.tasks[i].node] = b.tasks[i].kind
                /\ b.tasks[i].kind = "discover" => ~dd.lookupRunning /\ b.d.lookupRunning
    <3>1. CASE i \in 1..Len(a.tasks)
      BY <1>3, <2>4, <2>5, <3>1
    <3>2. CASE i = Len(a.tasks) + 1
      BY <2>2, <2>4, <2>5, <2>9, <3>2
    <3> QED BY <2>6, <3>1, <3>2
  <2>11. ASSUME NEW i \in 1..Len(b.tasks), NEW j \in 1..Len(b.tasks), b.tasks[i] = b.tasks[j] PROVE i = j
    <3>1. \A k \in 1..Len(a.tasks) : a.tasks[k] # t
      BY <1>3, <2>2
    <3> QED BY <1>5, <2>5, <2>6, <2>11, <3>1
  <2>12. ASSUME NEW n \in Nodes, dd.dialing[n] = "no", b.d.dialing[n] # "no"
         PROVE  \E i \in 1..Len(b.tasks) : b.tasks[i] = Task(b.d.dialing[n], n)
    BY <1>6, <2>4, <2>5, <2>7, <2>12
  <2>13. \E i \in 1..Len(b.tasks) : b.tasks[i] = Task("discover", Self)
    BY <2>5, <2>7
  <2>14. \A n \in b.d.static : n \in b.up \/ b.d.dialing[n] # "no" \/ n \in Range(b.d.hist)
    BY <1>4, <2>4
  <2>15. LookedInv(dd, ps, b)
    <3>1. /\ b \in Accs /\ b.up = In(ps) /\ b.d.hist = dd.hist /\ b.d.lookupRunning
          /\ \A n \in Nodes : dd.dialing[n] # "no" => b.d.dialing[n] = dd.dialing[n]
          /\ needDynDials(b.d, ps) >= 0 \/ DynDials(b.d) = DynDials(dd)
      BY <1>6, <2>4, <2>8
    <3> QED BY ONLY <2>10, <2>11, <2>12, <2>13, <2>14, <3>1, Zenon DEF LookedInv
  <2> QED BY <2>1, <2>15
<1> QED BY <1>7, <1>8
\* What newTasks returns, from the dialer dd with peers ps: the new tasks are those
\* that were marked, and if there is none and none runs, nothing is to be done.
NewInv(dd, ps, nRunning, r) ==
  /\ r.d \in DialStates /\ r.tasks \in Seq(TaskSet)
  /\ \A n \in Nodes : dd.dialing[n] # "no" => r.d.dialing[n] = dd.dialing[n]
  /\ dd.lookupRunning => r.d.lookupRunning
  /\ \A i \in 1..Len(r.tasks) :
        /\ ~IsDial(r.tasks[i]) => r.tasks[i].node = Self
        /\ IsDial(r.tasks[i]) => dd.dialing[r.tasks[i].node] = "no" /\ r.d.dialing[r.tasks[i].node] = r.tasks[i].kind
        /\ r.tasks[i].kind = "discover" => ~dd.lookupRunning /\ r.d.lookupRunning
        /\ r.tasks[i].kind = "wait" => nRunning = 0
  /\ \A i, j \in 1..Len(r.tasks) : r.tasks[i] = r.tasks[j] => i = j
  /\ \A n \in Nodes : dd.dialing[n] = "no" /\ r.d.dialing[n] # "no" =>
        \E i \in 1..Len(r.tasks) : r.tasks[i] = Task(r.d.dialing[n], n)
  /\ r.d.lookupRunning /\ ~dd.lookupRunning => \E i \in 1..Len(r.tasks) : r.tasks[i] = Task("discover", Self)
  /\ needDynDials(r.d, ps) >= 0 \/ DynDials(r.d) = DynDials(dd)
  /\ r.tasks = <<>> /\ nRunning = 0 =>
        /\ \A n \in r.d.static : n \in In(ps) \/ r.d.dialing[n] # "no"
        /\ needDynDials(r.d, ps) > 0 => r.d.lookupRunning

\* The waitExpireTask is for when nothing else would wake the loop.
LEMMA WaitExpireKeeps ==
  ASSUME ServerConstants, NEW dd \in DialStates, NEW ps, NEW b, LookedInv(dd, ps, b), NEW nRunning
  PROVE  NewInv(dd, ps, nRunning, WaitExpire(b, nRunning))
<1>1. b \in Accs /\ b.d \in DialStates /\ b.tasks \in Seq(TaskSet) /\ Len(b.tasks) \in Nat /\ b.d.hist \in Seq(Nodes)
  BY DEF LookedInv, Accs, DialStates
<1>2. CASE nRunning # 0 \/ b.tasks # <<>> \/ b.d.hist = <<>>
  <2>1. WaitExpire(b, nRunning) = b
    BY <1>2 DEF WaitExpire
  <2>2. b.tasks = <<>> /\ nRunning = 0 => \A n \in b.d.static : n \in In(ps) \/ b.d.dialing[n] # "no"
    <3>1. b.d.hist = <<>> => Range(b.d.hist) = {}
      BY DEF Range
    <3> QED BY <1>2, <3>1 DEF LookedInv
  <2>3. NewInv(dd, ps, nRunning, b)
    BY <1>1, <2>2 DEF LookedInv, NewInv
  <2> QED BY <2>1, <2>3
<1>3. CASE ~(nRunning # 0 \/ b.tasks # <<>> \/ b.d.hist = <<>>)
  <2> DEFINE t == Task("wait", Self)
             r == [b EXCEPT !.tasks = <<t>>]
  <2>1. WaitExpire(b, nRunning) = r /\ r.d = b.d /\ r.tasks = <<t>>
    BY <1>1, <1>3 DEF WaitExpire, Accs
  <2>2. t \in TaskSet /\ t.kind = "wait" /\ t.node = Self /\ ~IsDial(t)
    BY DEF Task, TaskSet, IsDial, ServerConstants
  <2> HIDE DEF t, r
  <2>3. r.tasks \in Seq(TaskSet) /\ Len(r.tasks) = 1 /\ r.tasks[1] = t /\ r.tasks # <<>>
    BY <2>1, <2>2
  <2>4. \A i \in 1..Len(r.tasks) : i = 1
    BY <2>3
  <2>5. Len(b.tasks) = 0 /\ nRunning = 0
    BY <1>3
  <2>6. /\ \A n \in Nodes : dd.dialing[n] = "no" => r.d.dialing[n] = "no"
        /\ ~dd.lookupRunning => ~r.d.lookupRunning
    BY <2>1, <2>5 DEF LookedInv
  <2>7. /\ \A n \in Nodes : dd.dialing[n] # "no" => r.d.dialing[n] = dd.dialing[n]
        /\ dd.lookupRunning => r.d.lookupRunning
        /\ needDynDials(r.d, ps) >= 0 \/ DynDials(r.d) = DynDials(dd)
    BY <2>1 DEF LookedInv
  <2>8. \A i \in 1..Len(r.tasks) :
          /\ ~IsDial(r.tasks[i]) => r.tasks[i].node = Self
          /\ IsDial(r.tasks[i]) => dd.dialing[r.tasks[i].node] = "no" /\ r.d.dialing[r.tasks[i].node] = r.tasks[i].kind
          /\ r.tasks[i].kind = "discover" => ~dd.lookupRunning /\ r.d.lookupRunning
          /\ r.tasks[i].kind = "wait" => nRunning = 0
    BY <2>2, <2>3, <2>4, <2>5
  <2>9. NewInv(dd, ps, nRunning, r)
    BY ONLY <1>1, <2>1, <2>3, <2>4, <2>6, <2>7, <2>8 DEF NewInv
  <2> QED BY <2>1, <2>9
<1> QED BY <1>2, <1>3

\* newTasks as a whole
LEMMA NewTasks ==
  ASSUME ServerConstants, NEW dd \in DialStates, NEW ps, stale \in 0..Len(dd.hist),
         NEW order \in SetToSeqs(dd.static), NEW nodes \in RandomReads, NEW nRunning
  PROVE  NewInv(dd, ps, nRunning, newTasks(dd, ps, nRunning, order, nodes))
<1> DEFINE e == Expired(dd)
           start == [d |-> e, need |-> needDynDials(dd, ps), tasks |-> <<>>, up |-> In(ps)]
           tried == DialRandom(DialBootnode(TryAll("static", start, order)), nodes)
           looked == TryAll("lookup", tried, tried.d.lookupBuf)
<1>1. nodes \in Seq(Nodes) /\ maxDynDials \in Nat
  BY DEF ServerConstants
<1>2. /\ e \in DialStates /\ e.dialing = dd.dialing /\ e.static = dd.static /\ e.lookupRunning = dd.lookupRunning
  <2>1. dd.hist \in Seq(Nodes) /\ Len(dd.hist) \in Nat
    BY DEF DialStates
  <2>2. \A i \in (stale + 1)..Len(dd.hist) : dd.hist[i] \in Nodes
    BY <2>1, ElementOfSeq
  <2>3. SubSeq(dd.hist, stale + 1, Len(dd.hist)) \in Seq(Nodes)
    BY <2>1, <2>2, SubSeqProperties
  <2> QED BY <2>3 DEF Expired, DialStates
<1> HIDE DEF e
<1>3. DynDials(e) = DynDials(dd) /\ Cardinality(DynDials(e)) \in Nat /\ Cardinality(DynPeers(ps)) \in Nat
  <2>1. DynDials(e) \subseteq Nodes /\ IsFiniteSet(Nodes)
    BY DEF DynDials, ServerConstants
  <2>2. Cardinality(DynDials(e)) \in Nat
    BY <2>1, FS_Subset, FS_CardinalityType
  <2> QED BY <1>2, <2>2, DynPeersAreFinite DEF DynDials
<1>4. needDynDials(dd, ps) = maxDynDials - Cardinality(DynPeers(ps)) - Cardinality(DynDials(e)) /\ needDynDials(dd, ps) \in Int
  <2>1. needDynDials(dd, ps) = maxDynDials - Cardinality(DynPeers(ps)) - Cardinality(DynDials(dd))
    BY DEF needDynDials, DynDials
  <2> QED BY <1>1, <1>3, <2>1
<1>5. start \in Accs /\ start.d = e /\ start.need = needDynDials(dd, ps) /\ start.tasks = <<>> /\ start.up = In(ps)
  <2>1. In(ps) \in SUBSET Nodes /\ <<>> \in Seq(TaskSet)
    BY DEF In
  <2> QED BY <1>2, <1>4, <2>1 DEF Accs
<1> HIDE DEF start
<1>6. AccInv(e, ps, {}, start)
  <2>1. Len(start.tasks) = 0
    BY <1>5
  <2> QED BY <1>4, <1>5, <2>1 DEF AccInv
<1>7. AccInv(e, ps, dd.static, TryAll("static", start, order))
  BY <1>2, <1>6, StaticLoop
<1>8. AccInv(e, ps, dd.static, DialBootnode(TryAll("static", start, order)))
  BY <1>2, <1>7, BootnodeKeeps
<1>9. AccInv(e, ps, dd.static, tried)
  BY <1>1, <1>2, <1>8, DialRandomKeeps
<1> HIDE DEF tried
<1>10. AccInv(e, ps, dd.static, looked) /\ (looked.need > 0 => Len(looked.d.lookupBuf) = 0)
  BY <1>2, <1>9, LookupLoop
<1> HIDE DEF looked
<1>11. LookedInv(e, ps, Lookup(looked))
  BY <1>2, <1>10, LookupKeeps
<1>12. NewInv(e, ps, nRunning, WaitExpire(Lookup(looked), nRunning))
  BY <1>2, <1>11, WaitExpireKeeps
<1>13. newTasks(dd, ps, nRunning, order, nodes) = WaitExpire(Lookup(looked), nRunning)
  BY DEF newTasks, looked, tried, start, e
<1>14. ASSUME NEW r, NewInv(e, ps, nRunning, r) PROVE NewInv(dd, ps, nRunning, r)
  BY <1>2, <1>3, <1>14 DEF NewInv
<1> QED BY <1>12, <1>13, <1>14
-----------------------------------------------------------------------------
(* scheduleTasks.                                                           *)

\* Tasks that run: no more than may
RunSet(run) == run \in SUBSET TaskSet /\ IsFiniteSet(run) /\ Cardinality(run) <= maxActiveDialTasks

\* startTasks starts a prefix, all of it if there is room left.
WellStarted(dd, run, ts, s) ==
  /\ RunSet(s.run) /\ s.rest \in Seq(TaskSet) /\ run \subseteq s.run /\ TasksInv(dd, s.run, s.rest)
  /\ Room(s.run) > 0 => s.rest = <<>>
  /\ s.run = {} => ts = <<>>
  /\ s = [run |-> s.run, rest |-> s.rest]

\* What startTasks returns when tasks ts wait and run is running.
LEMMA StartTasks ==
  ASSUME ServerConstants, NEW dd, NEW run, NEW ts \in Seq(TaskSet), RunSet(run), TasksInv(dd, run, ts)
  PROVE  WellStarted(dd, run, ts, startTasks([run |-> run, rest |-> <<>>], ts))
<1> DEFINE k == IF Room(run) > Len(ts) THEN Len(ts) ELSE Room(run)
           p == SubSeq(ts, 1, k)
           q == SubSeq(ts, k + 1, Len(ts))
           s == startTasks([run |-> run, rest |-> <<>>], ts)
<1>1. Len(ts) \in Nat /\ (\A i \in 1..Len(ts) : ts[i] \in TaskSet) /\ maxActiveDialTasks \in Nat \ {0}
  BY ElementOfSeq, LenProperties DEF ServerConstants
<1>2. Cardinality(run) \in Nat /\ Room(run) \in Nat /\ Room(run) = maxActiveDialTasks - Cardinality(run)
  <2>1. Cardinality(run) \in Nat /\ Cardinality(run) <= maxActiveDialTasks
    BY FS_CardinalityType DEF RunSet
  <2> QED BY <1>1, <2>1 DEF Room
<1>3. k \in Nat /\ k <= Len(ts) /\ k <= Room(run) /\ (k = Len(ts) \/ k = Room(run))
  BY <1>1, <1>2
<1>4. /\ s.run = run \cup Range(p) /\ s.rest = <<>> \o q /\ s = [run |-> s.run, rest |-> s.rest]
  BY DEF startTasks
<1> HIDE DEF k
<1>5. p \in Seq(TaskSet) /\ Len(p) = k /\ \A i \in 1..k : p[i] = ts[i] /\ i \in 1..Len(ts)
  <2>1. \A i \in 1..k : ts[i] \in TaskSet /\ i \in 1..Len(ts)
    BY <1>1, <1>3
  <2>2. /\ p \in Seq(TaskSet) /\ Len(p) = (IF 1 <= k THEN k - 1 + 1 ELSE 0)
        /\ \A i \in 1..(k - 1 + 1) : p[i] = ts[1 + i - 1]
    BY <1>3, <2>1, SubSeqProperties
  <2> HIDE DEF p
  <2>3. Len(p) = k
    BY <1>3, <2>2
  <2>4. \A i \in 1..k : p[i] = ts[i]
    BY <1>3, <2>2
  <2> QED BY <2>1, <2>2, <2>3, <2>4
<1>6. q \in Seq(TaskSet) /\ Len(q) = Len(ts) - k /\ \A i \in 1..Len(q) : q[i] = ts[k + i] /\ k + i \in 1..Len(ts)
  <2>1. \A i \in (k + 1)..Len(ts) : ts[i] \in TaskSet
    BY <1>1, <1>3
  <2>2. /\ q \in Seq(TaskSet) /\ Len(q) = (IF k + 1 <= Len(ts) THEN Len(ts) - (k + 1) + 1 ELSE 0)
        /\ \A i \in 1..(Len(ts) - (k + 1) + 1) : q[i] = ts[k + 1 + i - 1]
    BY <1>1, <1>3, <2>1, SubSeqProperties
  <2> HIDE DEF q
  <2>3. Len(q) = Len(ts) - k
    BY <1>1, <1>3, <2>2
  <2>4. ASSUME NEW i \in 1..Len(q) PROVE q[i] = ts[k + i] /\ k + i \in 1..Len(ts)
    <3>1. i \in 1..(Len(ts) - (k + 1) + 1) /\ k + 1 + i - 1 = k + i /\ k + i \in 1..Len(ts)
      BY <1>1, <1>3, <2>3
    <3> QED BY <2>2, <3>1
  <2> QED BY <2>2, <2>3, <2>4
<1>7. s.rest = q
  <2> HIDE DEF q, s
  <2> QED BY <1>4, <1>6, ConcatEmptySeq
<1> HIDE DEF p, q, s
<1>8. \A t : t \in Range(p) <=> \E i \in 1..k : t = ts[i]
  <2>1. DOMAIN p = 1..k
    BY <1>5, LenProperties
  <2> QED BY <1>5, <2>1 DEF Range
<1>9. Range(p) \subseteq TaskSet /\ IsFiniteSet(Range(p)) /\ Cardinality(Range(p)) = k /\ Range(p) \cap run = {}
  <2>1. Range(p) \subseteq TaskSet
    BY <1>1, <1>5, <1>8
  <2>2. Range(p) \cap run = {}
    BY <1>5, <1>8 DEF TasksInv
  <2> DEFINE fn == [i \in 1..k |-> ts[i]]
  <2>3. \A i \in 1..k : fn[i] = ts[i]
    OBVIOUS
  <2>4. fn \in [1..k -> Range(p)]
    BY <1>8
  <2> HIDE DEF fn
  <2>5. fn \in Surjection(1..k, Range(p))
    BY <1>8, <2>3, <2>4 DEF Surjection
  <2>6. fn \in Injection(1..k, Range(p))
    BY <1>5, <2>3, <2>4 DEF Injection, IsInjective, TasksInv
  <2>7. IsFiniteSet(1..k) /\ Cardinality(1..k) = k
    BY <1>3, FS_Interval
  <2>8. IsFiniteSet(Range(p)) /\ Cardinality(Range(p)) = Cardinality(1..k)
    BY <2>5, <2>6, <2>7, FS_Surjection
  <2> QED BY <2>1, <2>2, <2>7, <2>8
<1>10. IsFiniteSet(s.run) /\ Cardinality(s.run) = Cardinality(run) + k
  <2>1. IsFiniteSet(run)
    BY DEF RunSet
  <2>2. Cardinality(run \cap Range(p)) = 0
    <3>1. run \cap Range(p) = {}
      BY <1>9
    <3> QED BY <3>1, FS_EmptySet
  <2>3. /\ IsFiniteSet(run \cup Range(p))
        /\ Cardinality(run \cup Range(p)) = Cardinality(run) + Cardinality(Range(p)) - Cardinality(run \cap Range(p))
    BY <1>9, <2>1, FS_Union
  <2> QED BY <1>2, <1>3, <1>4, <1>9, <2>2, <2>3
<1>11. RunSet(s.run) /\ run \subseteq s.run
  <2>1. Cardinality(s.run) <= maxActiveDialTasks
    BY <1>1, <1>2, <1>3, <1>10
  <2> QED BY <1>4, <1>9, <1>10, <2>1 DEF RunSet
<1>12. ASSUME Room(s.run) > 0 PROVE s.rest = <<>>
  <2>1. k < Room(run)
    BY <1>1, <1>2, <1>3, <1>10, <1>12 DEF Room
  <2>2. Len(q) = 0
    BY <1>1, <1>3, <1>6, <2>1
  <2> QED BY <1>6, <1>7, <2>2
<1>13. ASSUME s.run = {} PROVE ts = <<>>
  <2>1. Cardinality(run) + k = 0
    BY <1>10, <1>13, FS_EmptySet
  <2>2. Len(ts) = 0
    BY <1>1, <1>2, <1>3, <2>1
  <2> QED BY <2>2
<1>14. TasksInv(dd, s.run, q)
  <2>1. \A t \in s.run : Marked(dd, t)
    BY <1>4, <1>5, <1>8 DEF TasksInv
  <2>2. ASSUME NEW i \in 1..Len(q) PROVE Marked(dd, q[i]) /\ q[i] \notin s.run
    <3>1. q[i] = ts[k + i] /\ k + i \in 1..Len(ts)
      BY <1>6
    <3>2. Marked(dd, q[i]) /\ q[i] \notin run
      BY <3>1 DEF TasksInv
    <3>3. \A j \in 1..k : j # k + i
      BY <1>3
    <3>4. q[i] \notin Range(p)
      BY <1>5, <1>8, <3>1, <3>3 DEF TasksInv
    <3> QED BY <1>4, <3>2, <3>4
  <2>3. ASSUME NEW i \in 1..Len(q), NEW j \in 1..Len(q), q[i] = q[j] PROVE i = j
    <3>1. k + i = k + j
      BY <1>6, <2>3 DEF TasksInv
    <3> QED BY <1>3, <3>1
  <2>4. \A i \in 1..Len(ts) : ts[i] \in s.run \/ \E j \in 1..Len(q) : q[j] = ts[i]
    <3>1. SUFFICES ASSUME NEW i \in 1..Len(ts) PROVE ts[i] \in s.run \/ \E j \in 1..Len(q) : q[j] = ts[i]
      OBVIOUS
    <3>2. CASE i <= k
      <4>1. i \in 1..k
        BY <1>3, <3>2
      <4> QED BY <1>4, <1>8, <4>1
    <3>3. CASE i > k
      <4>1. i - k \in 1..Len(q) /\ k + (i - k) = i
        BY <1>1, <1>3, <1>6, <3>3
      <4> QED BY <1>6, <4>1
    <3> QED BY <1>3, <3>2, <3>3
  <2>5. \A n \in Nodes : dd.dialing[n] # "no" =>
          Task(dd.dialing[n], n) \in s.run \/ \E i \in 1..Len(q) : q[i] = Task(dd.dialing[n], n)
    BY <1>11, <2>4 DEF TasksInv
  <2>6. dd.lookupRunning => Task("discover", Self) \in s.run \/ \E i \in 1..Len(q) : q[i] = Task("discover", Self)
    BY <1>11, <2>4 DEF TasksInv
  <2> QED BY ONLY <2>1, <2>2, <2>3, <2>5, <2>6, Zenon DEF TasksInv
<1> QED BY <1>4, <1>6, <1>7, <1>11, <1>12, <1>13, <1>14 DEF s, WellStarted
\* The new tasks are none of those that run.
LEMMA NewMarks ==
  ASSUME NEW dd, NEW ps, NEW run \in SUBSET TaskSet, NEW nRunning, nRunning = 0 => run = {}, NEW r,
         TasksInv(dd, run, <<>>), NewInv(dd, ps, nRunning, r)
  PROVE  TasksInv(r.d, run, r.tasks)
<1>1. Len(<<>>) = 0 /\ Len(r.tasks) \in Nat /\ \A i \in 1..Len(r.tasks) : r.tasks[i] \in TaskSet
  BY ElementOfSeq, LenProperties DEF NewInv
<1>2. \A t \in run : t.node \in Nodes /\ t.kind \in {"dyn", "static", "discover", "wait"} /\ Marked(dd, t)
  BY DEF TaskSet, TasksInv
<1>3. \A t \in run : Marked(r.d, t)
  BY <1>2 DEF NewInv, Marked, IsDial
<1>4. ASSUME NEW i \in 1..Len(r.tasks) PROVE Marked(r.d, r.tasks[i]) /\ r.tasks[i] \notin run
  <2>1. /\ r.tasks[i].kind \in {"dyn", "static", "discover", "wait"}
        /\ ~IsDial(r.tasks[i]) => r.tasks[i].node = Self
        /\ IsDial(r.tasks[i]) => dd.dialing[r.tasks[i].node] = "no" /\ r.d.dialing[r.tasks[i].node] = r.tasks[i].kind
        /\ r.tasks[i].kind = "discover" => ~dd.lookupRunning /\ r.d.lookupRunning
        /\ r.tasks[i].kind = "wait" => nRunning = 0
    BY <1>1 DEF NewInv, TaskSet
  <2>2. Marked(r.d, r.tasks[i])
    BY <2>1 DEF Marked
  <2>3. r.tasks[i] \notin run
    BY <1>2, <2>1 DEF Marked, IsDial
  <2> QED BY <2>2, <2>3
<1>5. \A i, j \in 1..Len(r.tasks) : r.tasks[i] = r.tasks[j] => i = j
  BY DEF NewInv
<1>6. ASSUME NEW n \in Nodes, r.d.dialing[n] # "no"
      PROVE  Task(r.d.dialing[n], n) \in run \/ \E i \in 1..Len(r.tasks) : r.tasks[i] = Task(r.d.dialing[n], n)
  <2>1. CASE dd.dialing[n] = "no"
    BY <1>6, <2>1 DEF NewInv
  <2>2. CASE dd.dialing[n] # "no"
    <3>1. r.d.dialing[n] = dd.dialing[n]
      BY <2>2 DEF NewInv
    <3>2. Task(dd.dialing[n], n) \in run
      BY <1>1, <2>2 DEF TasksInv
    <3> QED BY <3>1, <3>2
  <2> QED BY <2>1, <2>2
<1>7. r.d.lookupRunning => Task("discover", Self) \in run \/ \E i \in 1..Len(r.tasks) : r.tasks[i] = Task("discover", Self)
  <2>1. dd.lookupRunning => Task("discover", Self) \in run
    BY <1>1 DEF TasksInv
  <2> QED BY <2>1 DEF NewInv
<1> QED BY ONLY <1>3, <1>4, <1>5, <1>6, <1>7, Zenon DEF TasksInv

\* The dials stay within their bound: the need counts a node twice rather than not at all.
LEMMA BoundStays ==
  ASSUME ServerConstants, NEW dd, NEW e, NEW ps, Cardinality(DynPeers(ps) \cup DynDials(dd)) <= maxDynDials,
         needDynDials(e, ps) >= 0 \/ DynDials(e) = DynDials(dd)
  PROVE  Cardinality(DynPeers(ps) \cup DynDials(e)) <= maxDynDials
<1>1. DynPeers(ps) \subseteq Nodes /\ DynDials(e) \subseteq Nodes /\ IsFiniteSet(Nodes) /\ maxDynDials \in Nat
  BY DEF DynPeers, DynDials, In, ServerConstants
<1>2. /\ IsFiniteSet(DynPeers(ps)) /\ IsFiniteSet(DynDials(e)) /\ IsFiniteSet(DynPeers(ps) \cap DynDials(e))
      /\ Cardinality(DynPeers(ps)) \in Nat /\ Cardinality(DynDials(e)) \in Nat
      /\ Cardinality(DynPeers(ps) \cap DynDials(e)) \in Nat
  <2>1. DynPeers(ps) \cap DynDials(e) \subseteq Nodes
    BY <1>1
  <2> QED BY <1>1, <2>1, FS_Subset, FS_CardinalityType
<1>3. Cardinality(DynPeers(ps) \cup DynDials(e))
        = Cardinality(DynPeers(ps)) + Cardinality(DynDials(e)) - Cardinality(DynPeers(ps) \cap DynDials(e))
  BY <1>2, FS_Union
<1>4. needDynDials(e, ps) = maxDynDials - Cardinality(DynPeers(ps)) - Cardinality(DynDials(e))
  BY DEF needDynDials, DynDials
<1>5. CASE needDynDials(e, ps) >= 0
  BY ONLY <1>1, <1>2, <1>3, <1>4, <1>5
<1>6. CASE DynDials(e) = DynDials(dd)
  BY <1>6
<1> QED BY <1>5, <1>6

\* After scheduleTasks the tasks are those that are marked, within their bounds, and
\* some task runs unless nothing is to be done.
WellScheduled(run, ps) ==
  /\ dialstate' \in DialStates /\ RunSet(running') /\ run \subseteq running' /\ queued' \in Seq(TaskSet)
  /\ TasksInv(dialstate', running', queued') /\ stale' \in 0..Len(dialstate'.hist)
  /\ Cardinality(DynPeers(ps) \cup DynDials(dialstate')) <= maxDynDials
  /\ running' = {} => dialstate'.static \subseteq In(ps) /\ ~(needDynDials(dialstate', ps) > 0)

\* scheduleTasks keeps the tasks and the dialer in step.
LEMMA ScheduleTasks ==
  ASSUME ServerConstants, NEW dd \in DialStates, NEW run, RunSet(run), queued \in Seq(TaskSet),
         TasksInv(dd, run, queued), NEW ps, stale \in 0..Len(dd.hist),
         Cardinality(DynPeers(ps) \cup DynDials(dd)) <= maxDynDials, scheduleTasks(dd, run, ps)
  PROVE  WellScheduled(run, ps)
<1> DEFINE s == startTasks([run |-> run, rest |-> <<>>], queued)
<1>1. PICK order \in SetToSeqs(dd.static), nodes \in RandomReads :
        LET nt == newTasks(dd, ps, Cardinality(s.run) + Len(s.rest), order, nodes)
            s2 == startTasks(s, nt.tasks)
        IN  IF Room(s.run) <= 0
            THEN dialstate' = dd /\ running' = s.run /\ queued' = s.rest /\ UNCHANGED <<stale, waitOver>>
            ELSE /\ dialstate' = nt.d /\ running' = s2.run /\ queued' = s2.rest /\ stale' = 0
                 /\ waitOver' = IF Task("wait", Self) \in Range(nt.tasks) THEN FALSE ELSE waitOver
  BY DEF scheduleTasks
<1>2. /\ RunSet(s.run) /\ s.rest \in Seq(TaskSet) /\ run \subseteq s.run /\ TasksInv(dd, s.run, s.rest)
      /\ Room(s.run) > 0 => s.rest = <<>>
      /\ s.run = {} => queued = <<>>
      /\ s = [run |-> s.run, rest |-> s.rest]
  <2>1. WellStarted(dd, run, queued, s)
    BY StartTasks
  <2> HIDE DEF s
  <2> QED BY <2>1 DEF WellStarted
<1> DEFINE nRunning == Cardinality(s.run) + Len(s.rest)
           nt == newTasks(dd, ps, nRunning, order, nodes)
           s2 == startTasks(s, nt.tasks)
<1>3. NewInv(dd, ps, nRunning, nt)
  BY NewTasks
<1>4. maxActiveDialTasks \in Nat \ {0} /\ Cardinality(s.run) \in Nat /\ Len(s.rest) \in Nat /\ Room(s.run) \in Int
      /\ Room(s.run) = maxActiveDialTasks - Cardinality(s.run)
  BY <1>2, FS_CardinalityType, LenProperties, SMTT(60) DEF ServerConstants, RunSet, Room
<1>5. CASE Room(s.run) <= 0
  <2>1. dialstate' = dd /\ running' = s.run /\ queued' = s.rest /\ stale' = stale
    BY <1>1, <1>5
  <2>2. running' # {}
    <3>1. Cardinality(s.run) # 0
      BY <1>4, <1>5
    <3> QED BY <2>1, <3>1, FS_EmptySet
  <2> HIDE DEF s
  <2> QED BY <1>2, <2>1, <2>2 DEF WellScheduled
<1>6. CASE Room(s.run) > 0
  <2>1. dialstate' = nt.d /\ running' = s2.run /\ queued' = s2.rest /\ stale' = 0
    <3>1. ~(Room(s.run) <= 0)
      BY <1>4, <1>6
    <3> QED BY <1>1, <3>1
  <2>2. s.rest = <<>> /\ s = [run |-> s.run, rest |-> <<>>] /\ nRunning = Cardinality(s.run)
    <3>1. s.rest = <<>> /\ Len(s.rest) = 0
      BY <1>2, <1>6
    <3> QED BY <1>2, <1>4, <3>1
  <2> HIDE DEF s, nt
  <2>3. nRunning = 0 => s.run = {}
    BY <1>2, <2>2, FS_EmptySet DEF RunSet
  <2> HIDE DEF nRunning
  <2>4. TasksInv(nt.d, s.run, nt.tasks)
    <3>1. s.run \in SUBSET TaskSet /\ TasksInv(dd, s.run, <<>>)
      BY <1>2, <2>2 DEF RunSet
    <3> QED BY <1>3, <2>3, <3>1, NewMarks
  <2>5. nt.tasks \in Seq(TaskSet) /\ nt.d \in DialStates
    BY <1>3 DEF NewInv
  <2>6. /\ RunSet(s2.run) /\ s2.rest \in Seq(TaskSet) /\ s.run \subseteq s2.run /\ TasksInv(nt.d, s2.run, s2.rest)
        /\ s2.run = {} => nt.tasks = <<>>
        /\ Room(s2.run) > 0 => s2.rest = <<>>
    <3>1. WellStarted(nt.d, s.run, nt.tasks, startTasks([run |-> s.run, rest |-> <<>>], nt.tasks))
      BY <1>2, <2>4, <2>5, StartTasks
    <3>2. WellStarted(nt.d, s.run, nt.tasks, s2)
      BY <2>2, <3>1
    <3> HIDE DEF s2
    <3> QED BY <3>2 DEF WellStarted
  <2> HIDE DEF s2
  <2>7. Cardinality(DynPeers(ps) \cup DynDials(nt.d)) <= maxDynDials
    BY <1>3, BoundStays DEF NewInv
  <2>8. ASSUME running' = {} PROVE nt.d.static \subseteq In(ps) /\ ~(needDynDials(nt.d, ps) > 0)
    <3>1. s2.run = {} /\ s.run = {} /\ nt.tasks = <<>>
      BY <2>1, <2>6, <2>8
    <3>2. nRunning = 0
      BY <2>2, <3>1, FS_EmptySet
    <3>3. s2.rest = <<>> /\ Len(s2.rest) = 0
      <4>1. Room(s2.run) = maxActiveDialTasks
        BY <1>4, <3>1, FS_EmptySet DEF Room
      <4> QED BY <1>4, <2>6, <4>1
    <3>4. (\A n \in Nodes : nt.d.dialing[n] = "no") /\ ~nt.d.lookupRunning
      BY <2>6, <3>1, <3>3 DEF TasksInv
    <3>5. /\ \A n \in nt.d.static : n \in In(ps) \/ nt.d.dialing[n] # "no"
          /\ needDynDials(nt.d, ps) > 0 => nt.d.lookupRunning
      BY <1>3, <3>1, <3>2 DEF NewInv
    <3>6. nt.d.static \subseteq Nodes
      BY <2>5 DEF DialStates
    <3> QED BY <3>4, <3>5, <3>6
  <2>9. stale' \in 0..Len(dialstate'.hist)
    <3>1. Len(nt.d.hist) \in Nat
      BY <2>5 DEF DialStates
    <3> QED BY <2>1, <3>1
  <2>10. run \subseteq running'
    BY <1>2, <2>1, <2>6
  <2> QED BY ONLY <2>1, <2>5, <2>6, <2>7, <2>8, <2>9, <2>10 DEF WellScheduled
<1> QED BY <1>4, <1>5, <1>6
-----------------------------------------------------------------------------
(* The connections.                                                         *)

\* A step leaves the running peers as they are.
SamePeers ==
  \A c \in Conns : /\ Runs(c)' <=> Runs(c)
                   /\ Runs(c) => /\ conns'[c].id = conns[c].id /\ conns'[c].flag = conns[c].flag
                                 /\ conns'[c].trusted = conns[c].trusted

\* A step leaves the connections that are being set up as they are.
SameSetup ==
  \A c \in Conns : /\ Live(c)' <=> Live(c)
                   /\ Live(c) => conns'[c].id = conns[c].id /\ conns'[c].flag = conns[c].flag

\* The loop ends without peers, and comes to wait for a case only after scheduleTasks.
LoopGoes ==
  /\ loop' \in LoopSet /\ (loop'.at = "select" => loop.at = "select")
  /\ loop'.at = "ended" => loop.at = "ended" \/ Connected = {}

\* Only a connection that was added has a peer.
AddedRun(cs) == \A c \in Conns : cs[c].run # "no" => cs[c].setup \in {"added", "end"}

\* The peers of the loop stay what they are.
LEMMA PeersStay ==
  ASSUME ServerTypes, PeersInv, peerOf' = peerOf, SamePeers, AddedRun(conns'),
         loop'.at = "ended" => loop.at = "ended" \/ Connected = {}
  PROVE  PeersInv' /\ DynPeers(peerOf)' = DynPeers(peerOf) /\ Connected' = Connected
<1>1. \A n \in Nodes : peerOf[n] # 0 =>
        /\ peerOf[n] \in Conns /\ conns[peerOf[n]].id = n /\ Runs(peerOf[n]) /\ Runs(peerOf[n])'
        /\ conns'[peerOf[n]].id = n /\ conns'[peerOf[n]].flag = conns[peerOf[n]].flag
        /\ conns'[peerOf[n]].trusted = conns[peerOf[n]].trusted
  BY DEF ServerTypes, PeersInv, SamePeers
<1>2. Connected' = Connected
  BY DEF Connected, In
<1>3. DynPeers(peerOf)' = DynPeers(peerOf)
  BY <1>1 DEF DynPeers, In
<1>4. {n \in Connected : conns[peerOf[n]].flag # "static" /\ ~conns[peerOf[n]].trusted}'
        = {n \in Connected : conns[peerOf[n]].flag # "static" /\ ~conns[peerOf[n]].trusted}
  BY <1>1, <1>2 DEF Connected, In
<1>5. \A c \in Conns : Runs(c)' => peerOf'[conns'[c].id] = c
  BY DEF SamePeers, PeersInv
<1>6. \A n \in Nodes : peerOf'[n] # 0 => conns'[peerOf'[n]].id = n /\ Runs(peerOf[n])'
  BY <1>1
<1>7. PeersInv'
  BY <1>2, <1>4, <1>5, <1>6 DEF PeersInv, AddedRun
<1> QED BY <1>2, <1>3, <1>7

\* Connections that are being set up keep their tasks and their slots.
LEMMA SetupStays ==
  ASSUME DialledInv, SlotsAreReturned, SameSetup, slots' = slots, taskdone' \subseteq taskdone,
         running \ taskdone \subseteq running', taskdone' \subseteq running'
  PROVE  DialledInv' /\ SlotsAreReturned'
<1>1. DialledInv'
  <2>1. \A c \in Conns : (Live(c) /\ conns[c].flag # "inbound" => Task(conns[c].flag, conns[c].id) \in running \ taskdone)'
    BY DEF DialledInv, SameSetup
  <2>2. \A c, e \in Conns : (Live(c) /\ Live(e) /\ conns[c].flag # "inbound" /\ conns[c].flag = conns[e].flag
                         /\ conns[c].id = conns[e].id => c = e)'
    BY DEF DialledInv, SameSetup
  <2> QED BY <2>1, <2>2 DEF DialledInv
<1>2. {c \in Conns : conns[c].flag = "inbound" /\ conns[c].setup \notin {"none", "end"}}'
        = {c \in Conns : conns[c].flag = "inbound" /\ conns[c].setup \notin {"none", "end"}}
  BY DEF SameSetup, Live
<1> QED BY <1>1, <1>2 DEF SlotsAreReturned

\* A step without scheduleTasks.
LEMMA UnscheduledStep ==
  ASSUME ServerInv, dialstate' = dialstate, running' = running, queued' = queued, stale' \in 0..Len(dialstate.hist),
         conns' \in [Conns -> ConnSet], peerOf' \in [Nodes -> Conns \cup {0}], slots' \in Int,
         loop' \in LoopSet,
         PeersInv', DialledInv', SlotsAreReturned',
         loop'.at = "select" => loop.at = "select" /\ DynPeers(peerOf)' = DynPeers(peerOf) /\ Connected' = Connected,
         Cardinality(DynPeers(peerOf)' \cup DynDials(dialstate)) <= maxDynDials
  PROVE  ServerInv'
<1>1. ServerTypes'
  BY DEF ServerInv, ServerTypes
<1>2. TasksInv(dialstate', running', queued')
  BY DEF ServerInv
<1>3. Cardinality((DynPeers(peerOf) \cup DynDials(dialstate))') <= maxDynDials
  BY DEF DynDials
<1>4. KeepsTicking'
  BY DEF ServerInv, KeepsTicking, needDynDials
<1> QED BY <1>1, <1>2, <1>3, <1>4 DEF ServerInv

\* The loop and the dialer as they are.
LEMMA SameLoop ==
  ASSUME ServerInv, loop' = loop
  PROVE  LoopGoes
BY DEF ServerInv, ServerTypes, LoopGoes

\* What a step keeps when peers and setups stay.
LEMMA PeersKeepStep ==
  ASSUME ServerInv, UNCHANGED <<dialstate, running, queued, stale, peerOf>>, LoopGoes, slots' \in Int,
         conns' \in [Conns -> ConnSet], SamePeers, AddedRun(conns'), DialledInv', SlotsAreReturned'
  PROVE  ServerInv'
<1>1. PeersInv' /\ DynPeers(peerOf)' = DynPeers(peerOf) /\ Connected' = Connected
  BY PeersStay DEF ServerInv, LoopGoes
<1>2. stale' \in 0..Len(dialstate.hist) /\ peerOf' \in [Nodes -> Conns \cup {0}]
  BY DEF ServerInv, ServerTypes
<1>3. Cardinality(DynPeers(peerOf)' \cup DynDials(dialstate)) <= maxDynDials
  BY <1>1 DEF ServerInv
<1> QED BY <1>1, <1>2, <1>3, UnscheduledStep DEF LoopGoes

\* A connection goes on in its setup.
LEMMA MovesStep ==
  ASSUME ServerInv, NEW c \in Conns, conns[c].setup \notin {"none", "added", "end"},
         NEW x \in ConnSet, x.run = conns[c].run, x.id = conns[c].id, x.flag = conns[c].flag,
         x.setup \notin {"none", "end"}, conns' = [conns EXCEPT ![c] = x],
         UNCHANGED <<dialstate, running, queued, stale, taskdone, peerOf, slots>>, LoopGoes
  PROVE  ServerInv'
<1>1. conns \in [Conns -> ConnSet] /\ slots' \in Int /\ AddedRun(conns)
  BY DEF ServerInv, ServerTypes, PeersInv, AddedRun
<1>2. /\ conns' \in [Conns -> ConnSet] /\ conns'[c] = x /\ \A e \in Conns : e # c => conns'[e] = conns[e]
  BY <1>1
<1>3. conns[c].run = "no"
  BY <1>1 DEF AddedRun
<1>4. SamePeers
  BY <1>2, <1>3 DEF SamePeers, Runs
<1>5. SameSetup
  BY <1>2 DEF SameSetup, Live
<1>6. AddedRun(conns')
  BY <1>1, <1>2, <1>3 DEF AddedRun
<1>7. DialledInv' /\ SlotsAreReturned'
  <2>1. running \ taskdone \subseteq running' /\ taskdone' \subseteq running'
    BY DEF ServerInv, DialledInv
  <2> QED BY <1>5, <2>1, SetupStays DEF ServerInv
<1> QED BY <1>1, <1>2, <1>4, <1>6, <1>7, PeersKeepStep

\* MovesTo is such a step.
LEMMA MovesToStep ==
  ASSUME ServerInv, NEW c \in Conns, conns[c].setup \notin {"none", "added", "end"},
         NEW stage \in {"enc", "post", "proto", "add"}, MovesTo(c, stage), LoopGoes
  PROVE  ServerInv'
<1>1. conns \in [Conns -> ConnSet] /\ conns[c] \in ConnSet
  BY DEF ServerInv, ServerTypes
<1> DEFINE x == [conns[c] EXCEPT !.setup = stage]
<1>2. x \in ConnSet /\ x.run = conns[c].run /\ x.id = conns[c].id /\ x.flag = conns[c].flag /\ x.setup = stage
  BY <1>1 DEF ConnSet
<1>3. conns' = [conns EXCEPT ![c] = x] /\ UNCHANGED <<dialstate, running, queued, stale, taskdone, peerOf, slots>>
  BY DEF MovesTo, dialVars
<1> HIDE DEF x
<1> QED BY <1>2, <1>3, MovesStep

\* Free and forgotten connections
LEMMA KeptIs ==
  ASSUME ServerConstants, NEW x \in ConnSet
  PROVE  /\ Free \in ConnSet /\ Kept(x) \in ConnSet
         /\ Kept(x).setup = x.setup \/ (x.setup = "end" /\ Kept(x).setup = "none")
         /\ x.run \in {"on", "asked", "left"} => Kept(x) = x
         /\ x.run \in {"no", "gone"} => Kept(x).run \in {"no", "gone"}
         /\ Kept(x) = x \/ (Kept(x) = Free /\ x.setup = "end")
         /\ Kept(x).run # "no" => Kept(x) = x
<1>1. Free \in ConnSet /\ Free.setup = "none" /\ Free.run = "no"
  BY DEF Free, ConnSet, ServerConstants
<1> QED BY <1>1 DEF Kept

\* setupConn returns.
LEMMA SetupEndsStep ==
  ASSUME ServerConstants, ServerInv, NEW c \in Conns, Live(c), SetupEnds(c), LoopGoes
  PROVE  ServerInv'
<1>1. conns \in [Conns -> ConnSet] /\ slots \in Int /\ AddedRun(conns) /\ conns[c] \in ConnSet
  BY DEF ServerInv, ServerTypes, PeersInv, AddedRun
<1> DEFINE x == [conns[c] EXCEPT !.setup = "end"]
<1>2. x \in ConnSet /\ x.run = conns[c].run /\ x.id = conns[c].id /\ x.flag = conns[c].flag
      /\ x.trusted = conns[c].trusted /\ x.setup = "end"
  BY <1>1 DEF ConnSet
<1>3. /\ conns' \in [Conns -> ConnSet] /\ conns'[c] = Kept(x) /\ \A e \in Conns : e # c => conns'[e] = conns[e]
  BY <1>1, <1>2, KeptIs DEF SetupEnds
<1> HIDE DEF x
<1>4. /\ Kept(x) \in ConnSet /\ Kept(x).setup \in {"none", "end"}
      /\ x.run \in {"on", "asked", "left"} => Kept(x) = x
      /\ x.run \in {"no", "gone"} => Kept(x).run \in {"no", "gone"}
      /\ Kept(x).run # "no" => Kept(x) = x
  BY <1>2, KeptIs
<1>5. x.run \in {"no", "on", "asked", "left", "gone"}
  BY <1>2 DEF ConnSet
<1>6. SamePeers
  BY <1>2, <1>3, <1>4, <1>5 DEF SamePeers, Runs
<1>7. AddedRun(conns')
  BY <1>1, <1>2, <1>3, <1>4 DEF AddedRun
<1>8. ~Live(c)' /\ \A e \in Conns : e # c => (Live(e)' <=> Live(e)) /\ conns'[e] = conns[e]
  BY <1>3, <1>4 DEF Live
<1>9. UNCHANGED <<dialstate, running, queued, stale, peerOf>> /\ slots' \in Int
  BY <1>1 DEF SetupEnds
<1>10. DialledInv'
  <2>1. taskdone' \subseteq running'
    BY <1>9 DEF SetupEnds, ServerInv, DialledInv
  <2>2. ASSUME NEW e \in Conns, Live(e)', conns'[e].flag # "inbound"
        PROVE  Task(conns'[e].flag, conns'[e].id) \in running' \ taskdone'
    <3>1. e # c /\ Live(e) /\ conns'[e] = conns[e]
      BY <1>8, <2>2
    <3>2. Task(conns[e].flag, conns[e].id) \in running \ taskdone
      BY <2>2, <3>1 DEF ServerInv, DialledInv
    <3>3. conns[c].flag # "inbound" => Task(conns[e].flag, conns[e].id) # Task(conns[c].flag, conns[c].id)
      <4>1. conns[c].flag # "inbound" => ~(conns[e].flag = conns[c].flag /\ conns[e].id = conns[c].id)
        BY <3>1 DEF ServerInv, DialledInv
      <4> QED BY <4>1 DEF Task
    <3> QED BY <1>9, <3>1, <3>2, <3>3 DEF SetupEnds
  <2>3. \A e, fn \in Conns : Live(e)' /\ Live(fn)' /\ conns'[e].flag # "inbound" /\ conns'[e].flag = conns'[fn].flag
                         /\ conns'[e].id = conns'[fn].id => e = fn
    BY <1>8 DEF ServerInv, DialledInv
  <2> QED BY <2>1, <2>2, <2>3 DEF DialledInv
<1>11. SlotsAreReturned'
  <2> DEFINE H == {e \in Conns : conns[e].flag = "inbound" /\ conns[e].setup \notin {"none", "end"}}
  <2>1. IsFiniteSet(H) /\ Cardinality(H) \in Nat /\ MaxPendingPeers \in Nat /\ slots + Cardinality(H) = MaxPendingPeers
    <3>1. H \subseteq Conns /\ IsFiniteSet(Conns)
      BY DEF ServerConstants
    <3> QED BY <3>1, FS_Subset, FS_CardinalityType DEF ServerConstants, ServerInv, SlotsAreReturned
  <2>2. CASE conns[c].flag = "inbound"
    <3>1. H' = H \ {c} /\ c \in H
      BY <1>3, <1>8, <2>2 DEF Live
    <3>2. slots' = slots + 1
      BY <2>2 DEF SetupEnds
    <3> HIDE DEF H
    <3>3. Cardinality(H \ {c}) = Cardinality(H) - 1
      BY <2>1, <3>1, FS_RemoveElement
    <3>4. slots' + Cardinality(H') = MaxPendingPeers
      BY <1>1, <2>1, <3>1, <3>2, <3>3
    <3> QED BY <3>4 DEF SlotsAreReturned, H
  <2>3. CASE conns[c].flag # "inbound"
    <3>1. H' = H
      BY <1>3, <1>8, <2>3 DEF Live
    <3>2. slots' = slots
      BY <2>3 DEF SetupEnds
    <3> QED BY <2>1, <3>1, <3>2 DEF SlotsAreReturned
  <2> QED BY <2>2, <2>3
<1> QED BY <1>3, <1>6, <1>7, <1>9, <1>10, <1>11, PeersKeepStep

\* Before a connection is opened there is a free one.
LEMMA OpensStep ==
  ASSUME ServerConstants, ServerInv, FreeConns # {}, NEW n \in Nodes, NEW flag \in {"inbound", "dyn", "static"},
         conns' = [conns EXCEPT ![Min(FreeConns)] = Opened(n, flag)],
         slots' = IF flag = "inbound" THEN slots - 1 ELSE slots,
         flag # "inbound" => /\ Task(flag, n) \in running \ taskdone
                             /\ \A c \in Conns : ~(Live(c) /\ conns[c].flag = flag /\ conns[c].id = n),
         UNCHANGED <<dialstate, running, queued, stale, taskdone, peerOf, loop>>
  PROVE  ServerInv'
<1>1. conns \in [Conns -> ConnSet] /\ slots \in Int /\ AddedRun(conns)
  BY DEF ServerInv, ServerTypes, PeersInv, AddedRun
<1>2. PICK m \in Conns : m = Min(FreeConns) /\ conns[m] = Free
  <2>1. FreeConns \subseteq Nat
    BY DEF FreeConns, ServerConstants
  <2> QED BY <2>1, MinIsLeast DEF FreeConns
<1>3. /\ Opened(n, flag) \in ConnSet /\ Opened(n, flag).setup = "new" /\ Opened(n, flag).run = "no"
      /\ Opened(n, flag).id = n /\ Opened(n, flag).flag = flag /\ Free.setup = "none" /\ Free.run = "no"
  BY DEF Opened, Free, ConnSet, ServerConstants
<1>4. /\ conns' \in [Conns -> ConnSet] /\ conns'[m] = Opened(n, flag) /\ \A e \in Conns : e # m => conns'[e] = conns[e]
  BY <1>1, <1>2, <1>3
<1>5. SamePeers
  BY <1>2, <1>3, <1>4 DEF SamePeers, Runs
<1>6. AddedRun(conns')
  BY <1>1, <1>3, <1>4 DEF AddedRun
<1>7. ~Live(m) /\ Live(m)' /\ \A e \in Conns : e # m => (Live(e)' <=> Live(e)) /\ conns'[e] = conns[e]
  BY <1>2, <1>3, <1>4 DEF Live
<1>8. slots' \in Int
  BY <1>1
<1>9. DialledInv'
  <2>1. taskdone' \subseteq running'
    BY DEF ServerInv, DialledInv
  <2>2. ASSUME NEW e \in Conns, Live(e)', conns'[e].flag # "inbound"
        PROVE  Task(conns'[e].flag, conns'[e].id) \in running' \ taskdone'
    <3>1. CASE e = m
      BY <1>3, <1>4, <2>2, <3>1
    <3>2. CASE e # m
      BY <1>7, <2>2, <3>2 DEF ServerInv, DialledInv
    <3> QED BY <3>1, <3>2
  <2>3. ASSUME NEW e \in Conns, NEW fn \in Conns, Live(e)', Live(fn)', conns'[e].flag # "inbound",
               conns'[e].flag = conns'[fn].flag, conns'[e].id = conns'[fn].id
        PROVE  e = fn
    <3>1. CASE e = m /\ fn = m
      BY <3>1
    <3>2. CASE e = m /\ fn # m
      <4>1. Live(fn) /\ conns[fn].flag = flag /\ conns[fn].id = n /\ flag # "inbound"
        BY <1>3, <1>4, <1>7, <2>3, <3>2
      <4> QED BY <4>1
    <3>3. CASE e # m /\ fn = m
      <4>1. Live(e) /\ conns[e].flag = flag /\ conns[e].id = n /\ flag # "inbound"
        BY <1>3, <1>4, <1>7, <2>3, <3>3
      <4> QED BY <4>1
    <3>4. CASE e # m /\ fn # m
      BY <1>7, <2>3, <3>4 DEF ServerInv, DialledInv
    <3> QED BY <3>1, <3>2, <3>3, <3>4
  <2> QED BY <2>1, <2>2, <2>3 DEF DialledInv
<1>10. SlotsAreReturned'
  <2> DEFINE H == {e \in Conns : conns[e].flag = "inbound" /\ conns[e].setup \notin {"none", "end"}}
  <2>1. IsFiniteSet(H) /\ Cardinality(H) \in Nat /\ MaxPendingPeers \in Nat /\ slots + Cardinality(H) = MaxPendingPeers
    <3>1. H \subseteq Conns /\ IsFiniteSet(Conns)
      BY DEF ServerConstants
    <3> QED BY <3>1, FS_Subset, FS_CardinalityType DEF ServerConstants, ServerInv, SlotsAreReturned
  <2>2. CASE flag = "inbound"
    <3>1. H' = H \cup {m} /\ m \notin H
      BY <1>3, <1>4, <1>7, <2>2 DEF Live
    <3> HIDE DEF H
    <3>2. Cardinality(H \cup {m}) = Cardinality(H) + 1
      BY <2>1, <3>1, FS_AddElement
    <3>3. slots' + Cardinality(H') = MaxPendingPeers
      BY <1>1, <2>1, <2>2, <3>1, <3>2
    <3> QED BY <3>3 DEF SlotsAreReturned, H
  <2>3. CASE flag # "inbound"
    <3>1. H' = H
      BY <1>3, <1>4, <1>7, <2>3 DEF Live
    <3> QED BY <2>1, <2>3, <3>1 DEF SlotsAreReturned
  <2> QED BY <2>2, <2>3
<1> QED BY <1>4, <1>5, <1>6, <1>8, <1>9, <1>10, PeersKeepStep, SameLoop

\* Peers are asked to leave, or leave: a step that changes only how far a peer is.
LEMMA PeerGoesStep ==
  ASSUME ServerInv, conns' \in [Conns -> ConnSet],
         \A c \in Conns : /\ conns'[c].setup = conns[c].setup /\ conns'[c].id = conns[c].id
                          /\ conns'[c].flag = conns[c].flag /\ conns'[c].trusted = conns[c].trusted
                          /\ conns'[c].run = conns[c].run \/ (Runs(c) /\ Runs(c)'),
         UNCHANGED <<dialstate, running, queued, stale, taskdone, peerOf, slots>>, LoopGoes
  PROVE  ServerInv'
<1>1. slots' \in Int /\ AddedRun(conns)
  BY DEF ServerInv, ServerTypes, PeersInv, AddedRun
<1>2. SamePeers
  BY DEF SamePeers, Runs
<1>3. SameSetup
  BY DEF SameSetup, Live
<1>4. AddedRun(conns')
  BY <1>1 DEF AddedRun, Runs
<1>5. DialledInv' /\ SlotsAreReturned'
  <2>1. running \ taskdone \subseteq running' /\ taskdone' \subseteq running'
    BY DEF ServerInv, DialledInv
  <2> QED BY <1>3, <2>1, SetupStays DEF ServerInv
<1> QED BY <1>1, <1>2, <1>4, <1>5, PeersKeepStep

\* Disconnect changes only how far a peer is.
LEMMA DisconnectIs ==
  ASSUME conns \in [Conns -> ConnSet], NEW S, conns' = Disconnect(conns, S)
  PROVE  /\ conns' \in [Conns -> ConnSet]
         /\ \A c \in Conns : /\ conns'[c].setup = conns[c].setup /\ conns'[c].id = conns[c].id
                             /\ conns'[c].flag = conns[c].flag /\ conns'[c].trusted = conns[c].trusted
                             /\ conns'[c].run = conns[c].run \/ (Runs(c) /\ Runs(c)')
<1>1. ASSUME NEW c \in Conns
      PROVE  /\ conns'[c] \in ConnSet
             /\ conns'[c].setup = conns[c].setup /\ conns'[c].id = conns[c].id
             /\ conns'[c].flag = conns[c].flag /\ conns'[c].trusted = conns[c].trusted
             /\ conns'[c].run = conns[c].run \/ (Runs(c) /\ Runs(c)')
  <2>1. conns[c] \in ConnSet
    OBVIOUS
  <2>2. conns'[c] = IF c \in S /\ conns[c].run = "on" THEN [conns[c] EXCEPT !.run = "asked"] ELSE conns[c]
    BY DEF Disconnect
  <2>3. CASE c \in S /\ conns[c].run = "on"
    BY <2>1, <2>2, <2>3 DEF ConnSet, Runs
  <2>4. CASE ~(c \in S /\ conns[c].run = "on")
    BY <2>1, <2>2, <2>4
  <2> QED BY <2>3, <2>4
<1>2. conns' \in [Conns -> ConnSet]
  <2>1. DOMAIN conns' = Conns /\ conns' = [c \in Conns |-> conns'[c]]
    BY DEF Disconnect
  <2> QED BY <1>1, <2>1
<1> QED BY <1>1, <1>2

\* The loop answers, or waits for the lock.
LEMMA AnswersGo ==
  ASSUME NEW c \in Conns, NEW needsLock, NEW err \in Reasons, Answers(c, needsLock, err)
  PROVE  LoopGoes /\ loop'.at \in {"lock", "reply"}
<1>1. \/ loop' = [at |-> "lock", c |-> c, err |-> "nil"]
      \/ loop' = [at |-> "reply", c |-> c, err |-> err]
  BY Zenon DEF Answers
<1>2. "nil" \in Reasons
  BY DEF Reasons
<1>3. loop' \in LoopSet /\ loop'.at \in {"lock", "reply"}
  BY ONLY <1>1, <1>2, c \in Conns, err \in Reasons DEF LoopSet
<1> QED BY <1>3 DEF LoopGoes

\* The checkpoint after the encryption handshake.
LEMMA PosthandshakeStep ==
  ASSUME ServerInv, NEW c \in Conns, Posthandshake(c)
  PROVE  ServerInv'
<1>1. conns \in [Conns -> ConnSet] /\ conns[c] \in ConnSet
  BY DEF ServerInv, ServerTypes
<1> DEFINE x == [conns[c] EXCEPT !.trusted = conns[c].id \in Trusted, !.setup = "posted"]
<1>0. PICK b \in BOOLEAN : b = (conns[c].id \in Trusted)
  <2>1. (conns[c].id \in Trusted) \in BOOLEAN
    OBVIOUS
  <2> QED BY <2>1, Zenon
<1>00. x = [conns[c] EXCEPT !.trusted = b, !.setup = "posted"]
  BY <1>0, Zenon
<1>2. x \in ConnSet /\ x.run = conns[c].run /\ x.id = conns[c].id /\ x.flag = conns[c].flag /\ x.setup = "posted"
  BY ONLY <1>00, <1>1, b \in BOOLEAN DEF ConnSet
<1>3. /\ conns' = [conns EXCEPT ![c] = x] /\ UNCHANGED <<dialstate, running, queued, stale, taskdone, peerOf, slots>>
      /\ conns[c].setup = "post" /\ Answers(c, TakesLock(x), encHandshakeChecks(x))
  BY DEF Posthandshake, dialVars
<1> HIDE DEF x
<1>4. encHandshakeChecks(x) \in Reasons
  BY DEF encHandshakeChecks, Reasons
<1>5. LoopGoes
  BY <1>3, <1>4, AnswersGo
<1> QED BY <1>2, <1>3, <1>5, MovesStep

\* What the loop has checked when it adds a peer
LEMMA CheckedIs ==
  ASSUME ServerConstants, NEW x, encHandshakeChecks(x) = "nil"
  PROVE  /\ x.id \notin Connected
         /\ x.trusted \/ x.flag = "static" \/ Cardinality(Connected) < MaxPeers
<1>1. Connected \subseteq Nodes /\ IsFiniteSet(Nodes) /\ MaxPeers \in Nat
  BY DEF ServerConstants, Connected, In
<1>2. Cardinality(Connected) \in Nat
  BY <1>1, FS_Subset, FS_CardinalityType
<1>3. ~(~x.trusted /\ x.flag # "static" /\ Cardinality(Connected) >= MaxPeers) /\ x.id \notin Connected
  BY DEF encHandshakeChecks
<1> QED BY <1>1, <1>2, <1>3

\* The checkpoint after the protocol handshake, where a peer is added.
LEMMA AddpeerStep ==
  ASSUME ServerConstants, ServerInv, NEW c \in Conns, NEW useful \in BOOLEAN, Addpeer(c, useful)
  PROVE  ServerInv'
<1> DEFINE err   == protoHandshakeChecks(conns[c], useful)
           add == err = "nil" /\ ~(useful /\ TakesLock(conns[c]) /\ stop = "stopping")
           id  == conns[c].id
<1>1. conns \in [Conns -> ConnSet] /\ conns[c] \in ConnSet /\ slots' \in Int /\ AddedRun(conns) /\ id \in Nodes
      /\ peerOf \in [Nodes -> Conns \cup {0}] /\ 0 \notin Conns
  BY DEF ServerInv, ServerTypes, PeersInv, AddedRun, ConnSet, Addpeer, ServerConstants
<1>2. /\ conns[c].setup = "add" /\ UNCHANGED <<dialstate, running, queued, stale, taskdone, slots>>
      /\ Answers(c, useful /\ TakesLock(conns[c]), err)
      /\ peerOf' = IF add THEN [peerOf EXCEPT ![id] = c] ELSE peerOf
  BY DEF Addpeer, dialVars
<1>3. err \in Reasons
  BY DEF protoHandshakeChecks, encHandshakeChecks, Reasons
<1>4. LoopGoes /\ loop'.at \in {"lock", "reply"}
  BY <1>2, <1>3, AnswersGo
<1>5. /\ conns' \in [Conns -> ConnSet] /\ \A e \in Conns : e # c => conns'[e] = conns[e]
      /\ conns'[c].setup = "added" /\ conns'[c].id = id /\ conns'[c].flag = conns[c].flag
      /\ conns'[c].trusted = conns[c].trusted /\ conns'[c].run = IF add THEN "on" ELSE conns[c].run
  <2> DEFINE x == [conns[c] EXCEPT !.setup = "added", !.run = IF add THEN "on" ELSE conns[c].run]
  <2>1. x \in ConnSet /\ x.setup = "added" /\ x.id = id /\ x.flag = conns[c].flag
        /\ x.trusted = conns[c].trusted /\ x.run = IF add THEN "on" ELSE conns[c].run
    BY <1>1 DEF ConnSet
  <2>2. conns' = [conns EXCEPT ![c] = x]
    BY <1>1 DEF Addpeer, ConnSet
  <2> HIDE DEF x
  <2> QED BY <1>1, <2>1, <2>2
<1>6. add => /\ id \notin Connected
             /\ conns[c].trusted \/ conns[c].flag = "static" \/ Cardinality(Connected) < MaxPeers
  <2>1. add => encHandshakeChecks(conns[c]) = "nil"
    BY DEF protoHandshakeChecks
  <2> QED BY <2>1, CheckedIs
<1> HIDE DEF add, err, id
<1>7. conns[c].run = "no" /\ Live(c)
  BY <1>1, <1>2 DEF AddedRun, Live
<1>8. SameSetup
  BY <1>5, <1>7 DEF SameSetup, Live, id
<1>9. AddedRun(conns')
  BY <1>1, <1>5 DEF AddedRun
<1>10. DialledInv' /\ SlotsAreReturned'
  <2>1. running \ taskdone \subseteq running' /\ taskdone' \subseteq running'
    BY <1>2 DEF ServerInv, DialledInv
  <2> QED BY <1>2, <1>8, <2>1, SetupStays DEF ServerInv
<1>11. CASE ~add
  <2>1. SamePeers
    BY <1>5, <1>7, <1>11 DEF SamePeers, Runs, id
  <2> QED BY <1>1, <1>2, <1>4, <1>5, <1>9, <1>10, <1>11, <2>1, PeersKeepStep
<1>12. CASE add
  <2>1. /\ peerOf' \in [Nodes -> Conns \cup {0}] /\ peerOf'[id] = c /\ peerOf[id] = 0
        /\ \A n \in Nodes : n # id => peerOf'[n] = peerOf[n]
    BY <1>1, <1>2, <1>6, <1>12 DEF Connected, In
  <2>2. \A n \in Nodes : peerOf[n] # 0 => /\ peerOf[n] \in Conns /\ peerOf[n] # c /\ conns[peerOf[n]].id = n
                                          /\ Runs(peerOf[n]) /\ n # id
    BY <1>1, <1>7, <2>1 DEF ServerInv, PeersInv, Runs
  <2>3. \A n \in Nodes : n # id /\ peerOf'[n] # 0 => peerOf'[n] = peerOf[n] /\ conns'[peerOf'[n]] = conns[peerOf[n]]
    BY <1>5, <2>1, <2>2
  <2>4. Connected' = Connected \cup {id} /\ id \notin Connected /\ c # 0
    BY <1>1, <2>1 DEF Connected, In
  <2>5. \A e \in Conns : Runs(e)' => peerOf'[conns'[e].id] = e
    <3>1. SUFFICES ASSUME NEW e \in Conns, Runs(e)' PROVE peerOf'[conns'[e].id] = e
      OBVIOUS
    <3>2. CASE e = c
      BY <1>5, <2>1, <3>2
    <3>3. CASE e # c
      <4>1. Runs(e) /\ conns'[e] = conns[e] /\ conns[e].id \in Nodes
        BY <1>1, <1>5, <3>1, <3>3 DEF Runs, ConnSet
      <4>2. peerOf[conns[e].id] = e /\ e # 0
        BY <1>1, <4>1 DEF ServerInv, PeersInv
      <4> QED BY <2>1, <4>1, <4>2
    <3> QED BY <3>2, <3>3
  <2>6. \A n \in Nodes : peerOf'[n] # 0 => conns'[peerOf'[n]].id = n /\ conns'[peerOf'[n]].run \in {"on", "asked", "left"}
    <3>1. SUFFICES ASSUME NEW n \in Nodes, peerOf'[n] # 0
                   PROVE  conns'[peerOf'[n]].id = n /\ conns'[peerOf'[n]].run \in {"on", "asked", "left"}
      OBVIOUS
    <3>2. CASE n = id
      BY <1>5, <1>12, <2>1, <3>2
    <3>3. CASE n # id
      BY <2>2, <2>3, <3>1, <3>3 DEF Runs
    <3> QED BY <3>2, <3>3
  <2> DEFINE C == {n \in Connected : conns[peerOf[n]].flag # "static" /\ ~conns[peerOf[n]].trusted}
  <2>7. Cardinality(C') <= MaxPeers
    <3>1. IsFiniteSet(C) /\ C \subseteq Connected /\ IsFiniteSet(Connected) /\ id \notin C
      <4>1. Connected \subseteq Nodes /\ IsFiniteSet(Nodes) /\ C \subseteq Connected
        BY DEF Connected, In, ServerConstants
      <4> QED BY <2>4, <4>1, FS_Subset
    <3>2. Cardinality(C) \in Nat /\ Cardinality(Connected) \in Nat /\ Cardinality(C) <= Cardinality(Connected) /\ MaxPeers \in Nat
      BY <3>1, FS_Subset, FS_CardinalityType DEF ServerConstants
    <3>3. Cardinality(C) <= MaxPeers
      BY DEF ServerInv, PeersInv
    <3>4. \A n \in Connected : n \in Nodes /\ n # id /\ peerOf'[n] = peerOf[n] /\ conns'[peerOf'[n]] = conns[peerOf[n]]
      BY <2>1, <2>2, <2>3, <2>4 DEF Connected, In
    <3>5. CASE conns[c].trusted \/ conns[c].flag = "static"
      <4>1. C' = C
        BY <1>5, <2>1, <2>4, <3>4, <3>5
      <4> QED BY <3>3, <4>1
    <3>6. CASE ~(conns[c].trusted \/ conns[c].flag = "static")
      <4>1. C' = C \cup {id}
        BY <1>5, <2>1, <2>4, <3>4, <3>6
      <4> HIDE DEF C
      <4>2. Cardinality(C \cup {id}) = Cardinality(C) + 1
        BY <3>1, FS_AddElement
      <4>3. Cardinality(Connected) < MaxPeers
        BY <1>6, <1>12, <3>6
      <4> QED BY <3>2, <4>1, <4>2, <4>3
    <3> QED BY <3>5, <3>6
  <2>8. PeersInv'
    BY <1>4, <1>9, <2>5, <2>6, <2>7 DEF PeersInv, AddedRun, Runs
  <2>9. DynPeers(peerOf)' \cup DynDials(dialstate) = DynPeers(peerOf) \cup DynDials(dialstate)
    <3>1. conns[c].flag = "dyn" => id \in DynDials(dialstate)
      <4>1. conns[c].flag = "dyn" => Task("dyn", id) \in running
        BY <1>7 DEF ServerInv, DialledInv, id
      <4>2. Task("dyn", id) \in running => dialstate.dialing[id] = "dyn"
        BY DEF ServerInv, TasksInv, Marked, IsDial, Task
      <4> QED BY <1>1, <4>1, <4>2 DEF DynDials
    <3>2. \A n \in Nodes : n # id => (n \in DynPeers(peerOf)' <=> n \in DynPeers(peerOf))
      BY <2>1, <2>2, <2>3 DEF DynPeers, In
    <3>3. id \notin DynPeers(peerOf) /\ (id \in DynPeers(peerOf)' => conns[c].flag = "dyn")
      BY <1>5, <2>1 DEF DynPeers, In
    <3>4. DynPeers(peerOf) \subseteq Nodes /\ DynPeers(peerOf)' \subseteq Nodes
      BY DEF DynPeers, In
    <3> QED BY <3>1, <3>2, <3>3, <3>4
  <2>10. Cardinality(DynPeers(peerOf)' \cup DynDials(dialstate)) <= maxDynDials
    BY <2>9 DEF ServerInv
  <2>11. stale' \in 0..Len(dialstate.hist)
    BY <1>2 DEF ServerInv, ServerTypes
  <2> QED BY <1>1, <1>2, <1>4, <1>5, <1>10, <2>1, <2>8, <2>10, <2>11, UnscheduledStep DEF LoopGoes
<1> QED BY <1>11, <1>12

\* The loop forgets a peer that has left.
LEMMA DelpeerKeeps ==
  ASSUME ServerConstants, ServerInv, NEW c \in Conns, Delpeer(c), loop' = loop, loop.at # "ended"
  PROVE  /\ conns' \in [Conns -> ConnSet] /\ peerOf' \in [Nodes -> Conns \cup {0}] /\ PeersInv' /\ SameSetup
         /\ DynPeers(peerOf)' = DynPeers(peerOf') /\ DynPeers(peerOf') \subseteq DynPeers(peerOf)
<1> DEFINE id == conns[c].id
           x  == [conns[c] EXCEPT !.run = "gone"]
<1>1. conns \in [Conns -> ConnSet] /\ conns[c] \in ConnSet /\ AddedRun(conns) /\ id \in Nodes
      /\ peerOf \in [Nodes -> Conns \cup {0}] /\ 0 \notin Conns
  BY DEF ServerInv, ServerTypes, PeersInv, AddedRun, ConnSet, ServerConstants
<1>2. /\ x \in ConnSet /\ x.run = "gone" /\ x.id = id /\ x.flag = conns[c].flag /\ x.setup = conns[c].setup
  BY <1>1 DEF ConnSet
<1>3. conns[c].run = "left" /\ Runs(c) /\ x.setup \in {"added", "end"} /\ peerOf[id] = c
  BY <1>1, <1>2 DEF Delpeer, Runs, AddedRun, ServerInv, PeersInv
<1>4. conns' = [conns EXCEPT ![c] = Kept(x)] /\ peerOf' = [peerOf EXCEPT ![id] = 0]
  BY DEF Delpeer
<1> HIDE DEF x
<1>5. /\ Kept(x) \in ConnSet /\ Kept(x).run \in {"no", "gone"}
      /\ Kept(x) = x \/ (Kept(x).setup = "none" /\ Kept(x).run = "no" /\ x.setup = "end")
  BY <1>2, KeptIs DEF Free
<1>6. /\ conns' \in [Conns -> ConnSet] /\ conns'[c] = Kept(x) /\ \A e \in Conns : e # c => conns'[e] = conns[e]
  BY <1>1, <1>4, <1>5
<1>7. /\ peerOf' \in [Nodes -> Conns \cup {0}] /\ peerOf'[id] = 0 /\ \A n \in Nodes : n # id => peerOf'[n] = peerOf[n]
  BY <1>1, <1>4
<1> HIDE DEF id
<1>8. SameSetup
  BY <1>2, <1>5, <1>6 DEF SameSetup, Live, id
<1>9. AddedRun(conns')
  BY <1>1, <1>3, <1>5, <1>6 DEF AddedRun
<1>10. \A n \in Nodes : peerOf'[n] # 0 => /\ n # id /\ peerOf'[n] = peerOf[n] /\ peerOf[n] \in Conns
                                          /\ conns'[peerOf[n]] = conns[peerOf[n]]
                                          /\ conns[peerOf[n]].id = n /\ Runs(peerOf[n])
  <2>1. SUFFICES ASSUME NEW n \in Nodes, peerOf'[n] # 0
                 PROVE  /\ n # id /\ peerOf'[n] = peerOf[n] /\ peerOf[n] \in Conns
                        /\ conns'[peerOf[n]] = conns[peerOf[n]] /\ conns[peerOf[n]].id = n /\ Runs(peerOf[n])
    OBVIOUS
  <2>2. n # id /\ peerOf'[n] = peerOf[n] /\ peerOf[n] \in Conns
    BY <1>1, <1>7, <2>1
  <2>3. conns[peerOf[n]].id = n /\ Runs(peerOf[n])
    BY <2>1, <2>2 DEF ServerInv, PeersInv
  <2>4. peerOf[n] # c
    BY <2>2, <2>3 DEF id
  <2> QED BY <1>6, <2>2, <2>3, <2>4
<1>11. ASSUME NEW e \in Conns, Runs(e)' PROVE peerOf'[conns'[e].id] = e
  <2>1. e # c /\ conns'[e] = conns[e] /\ Runs(e) /\ conns[e].id \in Nodes
    BY <1>1, <1>5, <1>6, <1>11 DEF Runs, ConnSet
  <2>2. peerOf[conns[e].id] = e
    BY <2>1 DEF ServerInv, PeersInv
  <2>3. conns[e].id # id
    BY <1>3, <2>1, <2>2
  <2> QED BY <1>7, <2>1, <2>2, <2>3
<1>12. \A n \in Nodes : peerOf'[n] # 0 => conns'[peerOf'[n]].id = n /\ conns'[peerOf'[n]].run \in {"on", "asked", "left"}
  BY <1>10 DEF Runs
<1> DEFINE C == {n \in Connected : conns[peerOf[n]].flag # "static" /\ ~conns[peerOf[n]].trusted}
<1>13. Cardinality(C') <= MaxPeers
  <2>1. C' \subseteq C
    BY <1>10 DEF Connected, In
  <2>2. IsFiniteSet(C)
    <3>1. C \subseteq Nodes /\ IsFiniteSet(Nodes)
      BY DEF Connected, In, ServerConstants
    <3> QED BY <3>1, FS_Subset
  <2>3. Cardinality(C) <= MaxPeers /\ MaxPeers \in Nat
    BY DEF ServerInv, PeersInv, ServerConstants
  <2> HIDE DEF C
  <2>4. Cardinality(C') <= Cardinality(C) /\ Cardinality(C') \in Nat /\ Cardinality(C) \in Nat
    BY <2>1, <2>2, FS_Subset, FS_CardinalityType
  <2> QED BY <2>3, <2>4
<1>14. PeersInv'
  BY <1>9, <1>11, <1>12, <1>13 DEF PeersInv, AddedRun, Runs
<1>15. DynPeers(peerOf)' = DynPeers(peerOf')
  BY <1>10 DEF DynPeers, In
<1>16. DynPeers(peerOf') \subseteq DynPeers(peerOf)
  BY <1>10 DEF DynPeers, In
<1> QED BY <1>6, <1>7, <1>8, <1>14, <1>15, <1>16

\* Fewer dynamic peers and dials stay within the bound.
LEMMA FewerDials ==
  ASSUME ServerConstants, NEW S, NEW T, S \subseteq Nodes, T \subseteq S, Cardinality(S) <= maxDynDials
  PROVE  Cardinality(T) <= maxDynDials
<1>1. IsFiniteSet(S) /\ maxDynDials \in Nat
  BY FS_Subset DEF ServerConstants
<1>2. Cardinality(T) <= Cardinality(S) /\ Cardinality(T) \in Nat /\ Cardinality(S) \in Nat
  BY <1>1, FS_Subset, FS_CardinalityType
<1> QED BY <1>1, <1>2

\* A peer leaves while the server spins down.
LEMMA SpinDownStep ==
  ASSUME ServerConstants, ServerInv, NEW c \in Conns, SpinDown(c)
  PROVE  ServerInv'
<1>1. Delpeer(c) /\ UNCHANGED <<dialstate, running, queued, stale, taskdone, slots, loop>> /\ loop.at = "spindown"
  BY DEF SpinDown, dialVars
<1>2. /\ conns' \in [Conns -> ConnSet] /\ peerOf' \in [Nodes -> Conns \cup {0}] /\ PeersInv' /\ SameSetup
      /\ DynPeers(peerOf)' \subseteq DynPeers(peerOf)
  BY <1>1, DelpeerKeeps
<1>3. DialledInv' /\ SlotsAreReturned'
  <2>1. running \ taskdone \subseteq running' /\ taskdone' \subseteq running'
    BY <1>1 DEF ServerInv, DialledInv
  <2> QED BY <1>1, <1>2, <2>1, SetupStays DEF ServerInv
<1>4. Cardinality(DynPeers(peerOf)' \cup DynDials(dialstate)) <= maxDynDials
  <2>1. DynPeers(peerOf) \cup DynDials(dialstate) \subseteq Nodes
    BY DEF DynPeers, In, DynDials
  <2>2. DynPeers(peerOf)' \cup DynDials(dialstate) \subseteq DynPeers(peerOf) \cup DynDials(dialstate)
    BY <1>2
  <2> QED BY <2>1, <2>2, FewerDials DEF ServerInv
<1>5. slots' \in Int /\ loop' \in LoopSet /\ stale' \in 0..Len(dialstate.hist)
  BY <1>1 DEF ServerInv, ServerTypes
<1> QED BY <1>1, <1>2, <1>3, <1>4, <1>5, UnscheduledStep

\* A step with scheduleTasks.
LEMMA ScheduledStep ==
  ASSUME ServerConstants, ServerInv, NEW dd \in DialStates, NEW run, RunSet(run), TasksInv(dd, run, queued),
         stale \in 0..Len(dd.hist), DynDials(dd) \subseteq DynDials(dialstate),
         scheduleTasks(dd, run, peerOf'), running \ taskdone \subseteq run, taskdone' \subseteq run,
         taskdone' \subseteq taskdone, slots' = slots, SameSetup,
         conns' \in [Conns -> ConnSet], peerOf' \in [Nodes -> Conns \cup {0}], loop' \in LoopSet, PeersInv',
         DynPeers(peerOf)' = DynPeers(peerOf'), DynPeers(peerOf') \subseteq DynPeers(peerOf)
  PROVE  ServerInv'
<1>1. Cardinality(DynPeers(peerOf') \cup DynDials(dd)) <= maxDynDials
  <2>1. DynPeers(peerOf) \cup DynDials(dialstate) \subseteq Nodes
    BY DEF DynPeers, In, DynDials
  <2>2. DynPeers(peerOf') \cup DynDials(dd) \subseteq DynPeers(peerOf) \cup DynDials(dialstate)
    OBVIOUS
  <2> QED BY <2>1, <2>2, FewerDials DEF ServerInv
<1>2. WellScheduled(run, peerOf')
  <2>1. queued \in Seq(TaskSet)
    BY DEF ServerInv, ServerTypes
  <2> QED BY <1>1, <2>1, ScheduleTasks
<1>3. ServerTypes'
  <2>1. slots' \in Int
    BY DEF ServerInv, ServerTypes
  <2> QED BY <1>2, <2>1 DEF WellScheduled, RunSet, ServerTypes
<1>4. DialledInv' /\ SlotsAreReturned'
  <2>1. running \ taskdone \subseteq running' /\ taskdone' \subseteq running'
    BY <1>2 DEF WellScheduled
  <2> QED BY <2>1, SetupStays DEF ServerInv
<1>5. Cardinality((DynPeers(peerOf) \cup DynDials(dialstate))') <= maxDynDials
  BY <1>2 DEF WellScheduled, DynDials
<1>6. KeepsTicking'
  <2>1. needDynDials(dialstate, peerOf)' = needDynDials(dialstate', peerOf')
    BY DEF needDynDials
  <2>2. Connected' = In(peerOf')
    BY DEF Connected, In
  <2>3. running' = {} => dialstate'.static \ In(peerOf') = {} /\ ~(needDynDials(dialstate', peerOf') > 0)
    BY <1>2 DEF WellScheduled
  <2> QED BY <2>1, <2>2, <2>3 DEF KeepsTicking
<1> QED BY <1>2, <1>3, <1>4, <1>5, <1>6 DEF ServerInv, WellScheduled

\* A handler that leaves the connections alone, with scheduleTasks.
LEMMA ScheduledQuietly ==
  ASSUME ServerConstants, ServerInv, NEW dd \in DialStates, NEW run, RunSet(run), TasksInv(dd, run, queued),
         stale \in 0..Len(dd.hist), DynDials(dd) \subseteq DynDials(dialstate),
         scheduleTasks(dd, run, peerOf), running \ taskdone \subseteq run, taskdone' \subseteq run,
         taskdone' \subseteq taskdone, slots' = slots, peerOf' = peerOf, conns' \in [Conns -> ConnSet],
         SamePeers, SameSetup, AddedRun(conns'), loop' \in LoopSet, loop'.at # "ended"
  PROVE  ServerInv'
<1>1. PeersInv' /\ DynPeers(peerOf)' = DynPeers(peerOf) /\ Connected' = Connected
  BY PeersStay DEF ServerInv
<1>2. peerOf' \in [Nodes -> Conns \cup {0}] /\ DynPeers(peerOf') = DynPeers(peerOf) /\ scheduleTasks(dd, run, peerOf')
  BY DEF ServerInv, ServerTypes
<1> QED BY <1>1, <1>2, ScheduledStep

\* The tasks, as the inductive invariant has them
LEMMA TasksNow ==
  ASSUME ServerInv
  PROVE  /\ RunSet(running) /\ TasksInv(dialstate, running, queued) /\ running \ taskdone \subseteq running
         /\ taskdone \subseteq running /\ dialstate \in DialStates /\ stale \in 0..Len(dialstate.hist)
         /\ conns \in [Conns -> ConnSet] /\ AddedRun(conns) /\ loop \in LoopSet /\ queued \in Seq(TaskSet)
BY DEF ServerInv, ServerTypes, RunSet, DialledInv, PeersInv, AddedRun

\* Connections that nothing touches
LEMMA SameConns ==
  ASSUME conns' = conns
  PROVE  SamePeers /\ SameSetup
BY DEF SamePeers, SameSetup, Runs, Live

\* The loop starts over.
LEMMA StartStep ==
  ASSUME ServerConstants, ServerInv, Start
  PROVE  ServerInv'
<1>1. /\ scheduleTasks(dialstate, running, peerOf) /\ UNCHANGED <<taskdone, conns, peerOf, slots>>
      /\ loop' = [at |-> "select", c |-> 0, err |-> "nil"]
  BY DEF Start, AtSelect, connVars
<1>2. loop' \in LoopSet /\ loop'.at # "ended"
  BY <1>1 DEF LoopSet, Reasons
<1>3. conns' \in [Conns -> ConnSet] /\ AddedRun(conns') /\ SamePeers /\ SameSetup
  BY <1>1, TasksNow, SameConns
<1> QED BY <1>1, <1>2, <1>3, TasksNow, ScheduledQuietly

\* What AddPeer and RemovePeer change in the dialer.
LEMMA StaticChanges ==
  ASSUME ServerInv, NEW S \in SUBSET Nodes, NEW dd, dd = [dialstate EXCEPT !.static = S]
  PROVE  /\ dd \in DialStates /\ TasksInv(dd, running, queued) /\ stale \in 0..Len(dd.hist)
         /\ DynDials(dd) \subseteq DynDials(dialstate)
<1>1. dialstate \in DialStates /\ TasksInv(dialstate, running, queued) /\ stale \in 0..Len(dialstate.hist)
  BY TasksNow
<1>2. dd \in DialStates /\ dd.dialing = dialstate.dialing /\ dd.hist = dialstate.hist
      /\ dd.lookupRunning = dialstate.lookupRunning
  BY <1>1 DEF DialStates
<1>3. TasksInv(dd, running, queued)
  BY ONLY <1>1, <1>2 DEF TasksInv, Marked
<1> QED BY <1>1, <1>2, <1>3 DEF DynDials

\* AddPeer of a static node.
LEMMA AddStaticStep ==
  ASSUME ServerConstants, ServerInv, NEW n \in Nodes, AddStatic(n)
  PROVE  ServerInv'
<1> DEFINE S == dialstate.static \cup {n}
           dd == [dialstate EXCEPT !.static = S]
<1>1. /\ scheduleTasks(dd, running, peerOf) /\ UNCHANGED <<taskdone, conns, peerOf, slots, loop>> /\ loop.at = "select"
  BY DEF AddStatic, connVars, Selecting
<1>2. S \in SUBSET Nodes
  BY TasksNow DEF DialStates
<1>3. conns' \in [Conns -> ConnSet] /\ AddedRun(conns') /\ SamePeers /\ SameSetup /\ loop' \in LoopSet /\ loop'.at # "ended"
  BY <1>1, TasksNow, SameConns
<1> HIDE DEF S
<1>4. /\ dd \in DialStates /\ TasksInv(dd, running, queued) /\ stale \in 0..Len(dd.hist)
      /\ DynDials(dd) \subseteq DynDials(dialstate)
  BY <1>2, StaticChanges
<1> HIDE DEF dd
<1> QED BY <1>1, <1>3, <1>4, TasksNow, ScheduledQuietly

\* RemovePeer of a static node.
LEMMA RemoveStaticStep ==
  ASSUME ServerConstants, ServerInv, NEW n \in Nodes, RemoveStatic(n)
  PROVE  ServerInv'
<1> DEFINE S == dialstate.static \ {n}
           dd == [dialstate EXCEPT !.static = S]
<1>1. /\ scheduleTasks(dd, running, peerOf) /\ UNCHANGED <<taskdone, peerOf, slots, loop>> /\ loop.at = "select"
      /\ conns' = Disconnect(conns, {peerOf[n]})
  BY DEF RemoveStatic, Selecting
<1>2. S \in SUBSET Nodes
  BY TasksNow DEF DialStates
<1>3. /\ conns' \in [Conns -> ConnSet]
      /\ \A c \in Conns : /\ conns'[c].setup = conns[c].setup /\ conns'[c].id = conns[c].id
                          /\ conns'[c].flag = conns[c].flag /\ conns'[c].trusted = conns[c].trusted
                          /\ conns'[c].run = conns[c].run \/ (Runs(c) /\ Runs(c)')
  BY <1>1, TasksNow, DisconnectIs
<1>4. SamePeers /\ SameSetup
  BY <1>3 DEF SamePeers, SameSetup, Runs, Live
<1>5. AddedRun(conns') /\ loop' \in LoopSet /\ loop'.at # "ended"
  BY <1>1, <1>3, TasksNow DEF AddedRun, Runs
<1> HIDE DEF S
<1>6. /\ dd \in DialStates /\ TasksInv(dd, running, queued) /\ stale \in 0..Len(dd.hist)
      /\ DynDials(dd) \subseteq DynDials(dialstate)
  BY <1>2, StaticChanges
<1> HIDE DEF dd
<1> QED BY <1>1, <1>3, <1>4, <1>5, <1>6, TasksNow, ScheduledQuietly

\* A peer leaves while the loop runs.
LEMMA DropPeerStep ==
  ASSUME ServerConstants, ServerInv, NEW c \in Conns, DropPeer(c)
  PROVE  ServerInv'
<1>1. Delpeer(c) /\ scheduleTasks(dialstate, running, peerOf') /\ UNCHANGED <<taskdone, slots, loop>> /\ loop.at = "select"
  BY DEF DropPeer, Selecting
<1>2. /\ conns' \in [Conns -> ConnSet] /\ peerOf' \in [Nodes -> Conns \cup {0}] /\ PeersInv' /\ SameSetup
      /\ DynPeers(peerOf)' = DynPeers(peerOf') /\ DynPeers(peerOf') \subseteq DynPeers(peerOf)
  BY <1>1, DelpeerKeeps
<1>3. loop' \in LoopSet
  BY <1>1, TasksNow
<1> QED BY <1>1, <1>2, <1>3, TasksNow, ScheduledStep

\* A task that has ended is forgotten by the dialer.
LEMMA TaskDoneKeeps ==
  ASSUME ServerConstants, ServerInv, NEW t \in taskdone, NEW results \in Seq(Nodes)
  PROVE  /\ TaskDoneIn(dialstate, t, results) \in DialStates
         /\ TasksInv(TaskDoneIn(dialstate, t, results), running \ {t}, queued)
         /\ stale \in 0..Len(TaskDoneIn(dialstate, t, results).hist)
         /\ DynDials(TaskDoneIn(dialstate, t, results)) \subseteq DynDials(dialstate)
<1>1. /\ dialstate \in DialStates /\ TasksInv(dialstate, running, queued) /\ stale \in 0..Len(dialstate.hist)
      /\ t \in running /\ running \subseteq TaskSet /\ queued \in Seq(TaskSet)
  BY TasksNow DEF RunSet
<1>2. t \in TaskSet /\ t.node \in Nodes /\ t.kind \in {"dyn", "static", "discover", "wait"}
      /\ Marked(dialstate, t) /\ \A i \in 1..Len(queued) : queued[i] \in TaskSet
  BY <1>1, ElementOfSeq DEF TaskSet, TasksInv
<1>3. /\ dialstate.hist \in Seq(Nodes) /\ dialstate.lookupBuf \in Seq(Nodes) /\ Len(dialstate.hist) \in Nat
      /\ dialstate.dialing \in [Nodes -> {"no", "dyn", "static"}]
  BY <1>1, LenProperties DEF DialStates
<1>4. PICK dd : dd = TaskDoneIn(dialstate, t, results)
  OBVIOUS
<1>5. \A u \in TaskSet : u.kind = t.kind /\ u.node = t.node => u = t
  BY <1>2 DEF TaskSet
<1>6. CASE IsDial(t)
  <2>1. dd = [dialstate EXCEPT !.hist = Append(@, t.node), !.dialing[t.node] = "no"]
    BY <1>4, <1>6 DEF TaskDoneIn, IsDial
  <2> DEFINE h == Append(dialstate.hist, t.node)
             g == [dialstate.dialing EXCEPT ![t.node] = "no"]
  <2>2. h \in Seq(Nodes) /\ Len(h) = Len(dialstate.hist) + 1
    BY <1>2, <1>3, AppendProperties
  <2>3. g \in [Nodes -> {"no", "dyn", "static"}] /\ g[t.node] = "no" /\ \A n \in Nodes : n # t.node => g[n] = dialstate.dialing[n]
    BY <1>2, <1>3
  <2>4. dd = [[dialstate EXCEPT !.hist = h] EXCEPT !.dialing = g]
    BY <1>1, <2>1 DEF DialStates
  <2> HIDE DEF h, g
  <2>5. dd \in DialStates /\ dd.hist = h /\ dd.dialing = g /\ dd.lookupRunning = dialstate.lookupRunning
    BY ONLY <1>1, <2>2, <2>3, <2>4 DEF DialStates
  <2>6. ASSUME NEW u \in TaskSet, Marked(dialstate, u), u # t PROVE Marked(dd, u)
    <3>1. u.node \in Nodes
      BY DEF TaskSet
    <3>2. IsDial(u) => u.node # t.node
      BY <1>2, <1>5, <1>6, <2>6 DEF Marked
    <3> QED BY <2>3, <2>5, <2>6, <3>1, <3>2 DEF Marked
  <2>7. \A n \in Nodes : dd.dialing[n] # "no" => n # t.node /\ dd.dialing[n] = dialstate.dialing[n]
    BY <2>3, <2>5
  <2>8. TasksInv(dd, running \ {t}, queued)
    <3>1. \A u \in running \ {t} : Marked(dd, u)
      BY <1>1, <2>6 DEF TasksInv
    <3>2. \A i \in 1..Len(queued) : Marked(dd, queued[i]) /\ queued[i] \notin running \ {t}
      BY <1>1, <1>2, <2>6 DEF TasksInv
    <3>3. \A n \in Nodes : dd.dialing[n] # "no" =>
            \/ Task(dd.dialing[n], n) \in running \ {t}
            \/ \E i \in 1..Len(queued) : queued[i] = Task(dd.dialing[n], n)
      <4>1. \A n \in Nodes : n # t.node => \A k : Task(k, n) # t
        BY DEF Task
      <4> QED BY <1>1, <2>7, <4>1 DEF TasksInv
    <3>4. dd.lookupRunning => \/ Task("discover", Self) \in running \ {t}
                              \/ \E i \in 1..Len(queued) : queued[i] = Task("discover", Self)
      <4>1. Task("discover", Self) # t
        BY <1>6 DEF IsDial, Task
      <4> QED BY <1>1, <2>5, <4>1 DEF TasksInv
    <3>5. \A i, j \in 1..Len(queued) : queued[i] = queued[j] => i = j
      BY <1>1 DEF TasksInv
    <3> QED BY ONLY <3>1, <3>2, <3>3, <3>4, <3>5, Zenon DEF TasksInv
  <2>9. stale \in 0..Len(dd.hist)
    BY <1>1, <1>3, <2>2, <2>5
  <2>10. DynDials(dd) \subseteq DynDials(dialstate)
    BY <2>7 DEF DynDials
  <2> QED BY <1>4, <2>5, <2>8, <2>9, <2>10
<1>7. CASE t.kind = "discover"
  <2>1. dd = [dialstate EXCEPT !.lookupRunning = FALSE, !.lookupBuf = @ \o results]
    BY <1>4, <1>7 DEF TaskDoneIn, IsDial
  <2> DEFINE b == dialstate.lookupBuf \o results
  <2>2. b \in Seq(Nodes)
    BY <1>3, ConcatProperties
  <2>3. dd = [[dialstate EXCEPT !.lookupRunning = FALSE] EXCEPT !.lookupBuf = b]
    BY <1>1, <2>1 DEF DialStates
  <2> HIDE DEF b
  <2>4. dd \in DialStates /\ dd.hist = dialstate.hist /\ dd.dialing = dialstate.dialing /\ dd.lookupRunning = FALSE
    BY ONLY <1>1, <2>2, <2>3 DEF DialStates
  <2>5. ASSUME NEW u \in TaskSet, Marked(dialstate, u), u # t PROVE Marked(dd, u)
    <3>1. u.kind # "discover"
      BY <1>2, <1>5, <1>7, <2>5 DEF Marked, IsDial
    <3> QED BY <2>4, <2>5, <3>1 DEF Marked
  <2>6. TasksInv(dd, running \ {t}, queued)
    <3>1. \A u \in running \ {t} : Marked(dd, u)
      BY <1>1, <2>5 DEF TasksInv
    <3>2. \A i \in 1..Len(queued) : Marked(dd, queued[i]) /\ queued[i] \notin running \ {t}
      BY <1>1, <1>2, <2>5 DEF TasksInv
    <3>3. \A n \in Nodes : dd.dialing[n] # "no" =>
            \/ Task(dd.dialing[n], n) \in running \ {t}
            \/ \E i \in 1..Len(queued) : queued[i] = Task(dd.dialing[n], n)
      <4>1. \A n \in Nodes : Task(dialstate.dialing[n], n) # t
        BY <1>3, <1>7 DEF Task
      <4> QED BY <1>1, <2>4, <4>1 DEF TasksInv
    <3>4. ~dd.lookupRunning
      BY <2>4
    <3>5. \A i, j \in 1..Len(queued) : queued[i] = queued[j] => i = j
      BY <1>1 DEF TasksInv
    <3> QED BY ONLY <3>1, <3>2, <3>3, <3>4, <3>5, Zenon DEF TasksInv
  <2>7. DynDials(dd) \subseteq DynDials(dialstate)
    BY <2>4 DEF DynDials
  <2> QED BY <1>1, <1>4, <2>4, <2>6, <2>7
<1>8. CASE t.kind = "wait"
  <2>1. dd = dialstate
    BY <1>4, <1>8 DEF TaskDoneIn, IsDial
  <2>2. TasksInv(dd, running \ {t}, queued)
    <3>1. \A u \in running \ {t} : Marked(dd, u)
      BY <1>1, <2>1 DEF TasksInv
    <3>2. \A i \in 1..Len(queued) : Marked(dd, queued[i]) /\ queued[i] \notin running \ {t}
      BY <1>1, <2>1 DEF TasksInv
    <3>3. \A n \in Nodes : dd.dialing[n] # "no" =>
            \/ Task(dd.dialing[n], n) \in running \ {t}
            \/ \E i \in 1..Len(queued) : queued[i] = Task(dd.dialing[n], n)
      <4>1. \A n \in Nodes : Task(dialstate.dialing[n], n) # t
        BY <1>3, <1>8 DEF Task
      <4> QED BY <1>1, <2>1, <4>1 DEF TasksInv
    <3>4. dd.lookupRunning => \/ Task("discover", Self) \in running \ {t}
                              \/ \E i \in 1..Len(queued) : queued[i] = Task("discover", Self)
      <4>1. Task("discover", Self) # t
        BY <1>8 DEF Task
      <4> QED BY <1>1, <2>1, <4>1 DEF TasksInv
    <3>5. \A i, j \in 1..Len(queued) : queued[i] = queued[j] => i = j
      BY <1>1 DEF TasksInv
    <3> QED BY ONLY <3>1, <3>2, <3>3, <3>4, <3>5, Zenon DEF TasksInv
  <2> QED BY <1>1, <1>4, <2>1, <2>2
<1> QED BY <1>2, <1>6, <1>7, <1>8 DEF IsDial

\* A task ends.
LEMMA TaskDoneStep ==
  ASSUME ServerConstants, ServerInv, NEW t \in taskdone, NEW results \in (IF t.kind = "discover" THEN Lookups ELSE {<<>>}),
         TaskDone(t, results)
  PROVE  ServerInv'
<1>1. PICK dd : dd = TaskDoneIn(dialstate, t, results)
  OBVIOUS
<1>2. /\ scheduleTasks(dd, running \ {t}, peerOf) /\ taskdone' = taskdone \ {t}
      /\ UNCHANGED <<conns, peerOf, slots, loop>> /\ loop.at = "select"
  BY <1>1 DEF TaskDone, connVars, Selecting
<1>3. results \in Seq(Nodes)
  <2>1. <<>> \in Seq(Nodes)
    OBVIOUS
  <2> QED BY <2>1 DEF ServerConstants
<1>4. /\ dd \in DialStates /\ TasksInv(dd, running \ {t}, queued) /\ stale \in 0..Len(dd.hist)
      /\ DynDials(dd) \subseteq DynDials(dialstate)
  BY <1>1, <1>3, TaskDoneKeeps
<1>5. RunSet(running \ {t})
  <2>1. running \in SUBSET TaskSet /\ IsFiniteSet(running) /\ Cardinality(running) <= maxActiveDialTasks /\ maxActiveDialTasks \in Nat
    BY TasksNow DEF RunSet, ServerConstants
  <2>2. IsFiniteSet(running \ {t}) /\ Cardinality(running \ {t}) <= Cardinality(running)
        /\ Cardinality(running \ {t}) \in Nat /\ Cardinality(running) \in Nat
    <3>1. running \ {t} \subseteq running
      OBVIOUS
    <3> QED BY <2>1, <3>1, FS_Subset, FS_CardinalityType
  <2> QED BY <2>1, <2>2 DEF RunSet
<1>6. conns' \in [Conns -> ConnSet] /\ AddedRun(conns') /\ SamePeers /\ SameSetup /\ loop' \in LoopSet /\ loop'.at # "ended"
  BY <1>2, TasksNow, SameConns
<1>7. running \ taskdone \subseteq running \ {t} /\ taskdone' \subseteq running \ {t} /\ taskdone' \subseteq taskdone
  BY <1>2, TasksNow
<1> QED BY <1>2, <1>4, <1>5, <1>6, <1>7, ScheduledQuietly

\* The steps of setupConn and runPeer.
LEMMA SetupStep ==
  ASSUME ServerConstants, ServerInv, NEW c \in Conns,
         EntersSetup(c) \/ Handshake(c) \/ Reply(c) \/ CheckpointQuits(c) \/ PeerEnds(c)
  PROVE  ServerInv'
<1>1. CASE EntersSetup(c)
  <2>1. conns[c].setup = "new" /\ loop' = loop /\ (MovesTo(c, "enc") \/ SetupEnds(c))
    BY <1>1, Zenon DEF EntersSetup
  <2>2. LoopGoes /\ Live(c) /\ conns[c].setup \notin {"none", "added", "end"}
    BY <2>1, SameLoop DEF Live
  <2> QED BY <2>1, <2>2, MovesToStep, SetupEndsStep
<1>2. CASE Handshake(c)
  <2>1. conns[c].setup \in {"enc", "proto"} /\ loop' = loop /\ (MovesTo(c, "post") \/ MovesTo(c, "add") \/ SetupEnds(c))
    BY <1>2 DEF Handshake
  <2>2. LoopGoes /\ Live(c) /\ conns[c].setup \notin {"none", "added", "end"}
    BY <2>1, SameLoop DEF Live
  <2> QED BY <2>1, <2>2, MovesToStep, SetupEndsStep
<1>3. CASE Reply(c)
  <2>1. /\ conns[c].setup \in {"posted", "added"} /\ loop' = [loop EXCEPT !.at = "start", !.c = 0, !.err = "nil"]
        /\ (conns[c].setup = "posted" /\ MovesTo(c, "proto")) \/ SetupEnds(c)
    BY <1>3, Zenon DEF Reply
  <2>2. loop' \in LoopSet /\ loop'.at = "start"
    BY <2>1, TasksNow DEF LoopSet, Reasons
  <2>3. LoopGoes /\ Live(c)
    BY <2>1, <2>2 DEF LoopGoes, Live
  <2>4. CASE conns[c].setup = "posted" /\ MovesTo(c, "proto")
    <3>1. conns[c].setup \notin {"none", "added", "end"}
      BY <2>4
    <3> QED BY <2>3, <2>4, <3>1, MovesToStep
  <2>5. CASE SetupEnds(c)
    BY <2>3, <2>5, SetupEndsStep
  <2> QED BY <2>1, <2>4, <2>5
<1>4. CASE CheckpointQuits(c)
  <2>1. conns[c].setup \in {"post", "posted", "add", "added"} /\ loop' = loop /\ SetupEnds(c)
    BY <1>4 DEF CheckpointQuits
  <2>2. LoopGoes /\ Live(c)
    BY <2>1, SameLoop DEF Live
  <2> QED BY <2>1, <2>2, SetupEndsStep
<1>5. CASE PeerEnds(c)
  <2> DEFINE x == [conns[c] EXCEPT !.run = "left"]
  <2>1. /\ conns[c].run \in {"on", "asked"} /\ conns' = [conns EXCEPT ![c] = x]
        /\ UNCHANGED <<dialstate, running, queued, stale, taskdone, peerOf, slots, loop>>
    BY <1>5 DEF PeerEnds, dialVars
  <2>2. conns \in [Conns -> ConnSet] /\ conns[c] \in ConnSet
    BY TasksNow
  <2>3. /\ x \in ConnSet /\ x.run = "left" /\ x.setup = conns[c].setup /\ x.id = conns[c].id
        /\ x.flag = conns[c].flag /\ x.trusted = conns[c].trusted
    BY <2>2 DEF ConnSet
  <2> HIDE DEF x
  <2>4. conns' \in [Conns -> ConnSet] /\ conns'[c] = x /\ \A e \in Conns : e # c => conns'[e] = conns[e]
    BY <2>1, <2>2, <2>3
  <2>5. \A e \in Conns : /\ conns'[e].setup = conns[e].setup /\ conns'[e].id = conns[e].id
                         /\ conns'[e].flag = conns[e].flag /\ conns'[e].trusted = conns[e].trusted
                         /\ conns'[e].run = conns[e].run \/ (Runs(e) /\ Runs(e)')
    BY <2>1, <2>3, <2>4 DEF Runs
  <2> QED BY <2>1, <2>4, <2>5, SameLoop, PeerGoesStep
<1> QED BY <1>1, <1>2, <1>3, <1>4, <1>5

\* Steps that leave dials, connections and slots alone.
LEMMA QuietStep ==
  ASSUME ServerInv, UNCHANGED <<dialstate, running, queued, conns, peerOf, slots>>, stale' \in 0..Len(dialstate.hist),
         LoopGoes, DialledInv'
  PROVE  ServerInv'
<1>1. /\ conns' \in [Conns -> ConnSet] /\ AddedRun(conns') /\ SamePeers /\ slots' \in Int
      /\ peerOf' \in [Nodes -> Conns \cup {0}]
  BY TasksNow, SameConns DEF ServerInv, ServerTypes
<1>2. PeersInv' /\ DynPeers(peerOf)' = DynPeers(peerOf) /\ Connected' = Connected
  BY <1>1, PeersStay DEF ServerInv, LoopGoes
<1>3. SlotsAreReturned'
  BY DEF ServerInv, SlotsAreReturned
<1>4. Cardinality(DynPeers(peerOf)' \cup DynDials(dialstate)) <= maxDynDials
  BY <1>2 DEF ServerInv
<1> QED BY <1>1, <1>2, <1>3, <1>4, UnscheduledStep DEF LoopGoes

\* A step that no connection and no task notices
LEMMA DialledStays ==
  ASSUME ServerInv, UNCHANGED <<running, taskdone, conns>>
  PROVE  DialledInv'
BY DEF ServerInv, DialledInv, Live

\* The steps of run, Stop and listenLoop when the server ends.
LEMMA EndingStep ==
  ASSUME ServerConstants, ServerInv, Ending
  PROVE  ServerInv'
<1>1. CASE Quit
  <2>1. /\ conns' = Disconnect(conns, Conns) /\ loop' = [at |-> "spindown", c |-> 0, err |-> "nil"]
        /\ UNCHANGED <<dialstate, running, queued, stale, taskdone, peerOf, slots>>
    BY <1>1 DEF Quit, AtSelect, dialVars
  <2>2. LoopGoes
    BY <2>1 DEF LoopGoes, LoopSet, Reasons
  <2>3. /\ conns' \in [Conns -> ConnSet]
        /\ \A c \in Conns : /\ conns'[c].setup = conns[c].setup /\ conns'[c].id = conns[c].id
                            /\ conns'[c].flag = conns[c].flag /\ conns'[c].trusted = conns[c].trusted
                            /\ conns'[c].run = conns[c].run \/ (Runs(c) /\ Runs(c)')
    BY <2>1, TasksNow, DisconnectIs
  <2> QED BY <2>1, <2>2, <2>3, PeerGoesStep
<1>2. CASE RunEnds
  <2>1. /\ Connected = {} /\ loop' = [at |-> "ended", c |-> 0, err |-> "nil"]
        /\ UNCHANGED <<dialstate, running, queued, stale, taskdone, conns, peerOf, slots>>
    BY <1>2 DEF RunEnds, AtSelect, dialVars, connVars
  <2>2. LoopGoes
    BY <2>1 DEF LoopGoes, LoopSet, Reasons
  <2> QED BY <2>1, <2>2, TasksNow, DialledStays, QuietStep
<1>3. CASE ListenEnds
  <2>1. UNCHANGED <<dialstate, running, queued, stale, taskdone, conns, peerOf, slots, loop>>
    BY <1>3 DEF ListenEnds, dialVars
  <2> QED BY <2>1, TasksNow, SameLoop, DialledStays, QuietStep
<1>4. CASE StopReturns
  <2>1. UNCHANGED <<dialstate, running, queued, stale, taskdone, conns, peerOf, slots, loop>>
    BY <1>4 DEF StopReturns, dialVars, connVars
  <2> QED BY <2>1, TasksNow, SameLoop, DialledStays, QuietStep
<1>5. CASE \E c \in Conns : SpinDown(c)
  BY <1>5, SpinDownStep
<1> QED BY <1>1, <1>2, <1>3, <1>4, <1>5 DEF Ending

\* The steps of tasks, of the other side, and of time.
LEMMA SurroundingsStep ==
  ASSUME ServerConstants, ServerInv, Surroundings
  PROVE  ServerInv'
<1>1. ASSUME NEW t \in running, Dial(t) PROVE ServerInv'
  <2>1. /\ IsDial(t) /\ t \in running \ taskdone /\ FreeConns # {}
        /\ \A c \in Conns : ~(Live(c) /\ conns[c].flag = t.kind /\ conns[c].id = t.node)
        /\ conns' = [conns EXCEPT ![Min(FreeConns)] = Opened(t.node, t.kind)]
        /\ UNCHANGED <<dialstate, running, queued, stale, taskdone, peerOf, slots, loop>>
    BY <1>1 DEF Dial, Unserved, Live, dialVars
  <2>2. t.node \in Nodes /\ t.kind \in {"inbound", "dyn", "static"} /\ t.kind # "inbound" /\ Task(t.kind, t.node) = t
    BY <2>1, TasksNow DEF RunSet, TaskSet, IsDial, Task
  <2> QED BY <2>1, <2>2, OpensStep
<1>2. ASSUME NEW t \in running, TaskEnds(t) PROVE ServerInv'
  <2>1. /\ Unserved(t) /\ taskdone' = taskdone \cup {t}
        /\ UNCHANGED <<dialstate, running, queued, stale, conns, peerOf, slots, loop>>
    BY <1>2 DEF TaskEnds, connVars
  <2>2. ASSUME NEW c \in Conns, Live(c), conns[c].flag # "inbound"
        PROVE  Task(conns[c].flag, conns[c].id) # t
    <3>1. ~(conns[c].flag = t.kind /\ conns[c].id = t.node)
      BY <2>1, <2>2 DEF Unserved, Live
    <3> QED BY <3>1 DEF Task
  <2>3. DialledInv'
    <3>1. taskdone' \subseteq running'
      BY <2>1, TasksNow
    <3>2. \A c \in Conns : (Live(c) /\ conns[c].flag # "inbound" => Task(conns[c].flag, conns[c].id) \in running \ taskdone)'
      BY <2>1, <2>2 DEF ServerInv, DialledInv, Live
    <3>3. \A c, e \in Conns : (Live(c) /\ Live(e) /\ conns[c].flag # "inbound" /\ conns[c].flag = conns[e].flag
                         /\ conns[c].id = conns[e].id => c = e)'
      BY <2>1 DEF ServerInv, DialledInv, Live
    <3> QED BY <3>1, <3>2, <3>3 DEF DialledInv
  <2> QED BY <2>1, <2>3, TasksNow, SameLoop, QuietStep
<1>3. ASSUME NEW n \in Nodes, Accept(n) PROVE ServerInv'
  <2>1. FreeConns # {} /\ UNCHANGED <<dialstate, running, queued, stale, taskdone, peerOf, loop>>
    BY <1>3 DEF Accept, dialVars
  <2>2. CASE n \in Allowed
    BY <1>3, <2>1, <2>2, OpensStep DEF Accept
  <2>3. CASE n \notin Allowed
    <3>1. UNCHANGED <<conns, slots>>
      BY <1>3, <2>3 DEF Accept
    <3> QED BY <2>1, <3>1, TasksNow, SameLoop, DialledStays, QuietStep
  <2> QED BY <2>2, <2>3
<1>4. CASE HistoryExpires
  <2>1. UNCHANGED <<dialstate, running, queued, taskdone, conns, peerOf, slots, loop>>
    BY <1>4 DEF HistoryExpires, connVars
  <2>2. stale' \in 0..Len(dialstate.hist)
    <3>1. Len(dialstate.hist) \in Nat /\ stale \in 0..Len(dialstate.hist)
      BY TasksNow, LenProperties DEF DialStates
    <3> QED BY <1>4, <3>1 DEF HistoryExpires
  <2> QED BY <2>1, <2>2, SameLoop, DialledStays, QuietStep
<1>5. CASE FallbackInterval
  <2>1. UNCHANGED <<dialstate, running, queued, stale, taskdone, conns, peerOf, slots, loop>>
    BY <1>5 DEF FallbackInterval, connVars
  <2> QED BY <2>1, TasksNow, SameLoop, DialledStays, QuietStep
<1>6. CASE Stop
  <2>1. UNCHANGED <<dialstate, running, queued, stale, taskdone, conns, peerOf, slots, loop>>
    BY <1>6 DEF Stop, dialVars, connVars
  <2> QED BY <2>1, TasksNow, SameLoop, DialledStays, QuietStep
<1> QED BY <1>1, <1>2, <1>3, <1>4, <1>5, <1>6 DEF Surroundings

\* The handlers of the loop.
LEMMA RunLoopStep ==
  ASSUME ServerConstants, ServerInv, RunLoop
  PROVE  ServerInv'
<1>1. CASE Start
  BY <1>1, StartStep
<1>2. CASE \E n \in Nodes : AddStatic(n) \/ RemoveStatic(n)
  BY <1>2, AddStaticStep, RemoveStaticStep
<1>3. CASE \E t \in taskdone : \E results \in (IF t.kind = "discover" THEN Lookups ELSE {<<>>}) : TaskDone(t, results)
  <2>1. PICK t \in taskdone : \E results \in (IF t.kind = "discover" THEN Lookups ELSE {<<>>}) : TaskDone(t, results)
    BY <1>3
  <2>2. PICK results \in (IF t.kind = "discover" THEN Lookups ELSE {<<>>}) : TaskDone(t, results)
    BY <2>1
  <2> QED BY <2>2, TaskDoneStep
<1>4. CASE \E c \in Conns : Posthandshake(c) \/ DropPeer(c) \/ \E useful \in BOOLEAN : Addpeer(c, useful)
  <2>1. PICK c \in Conns : Posthandshake(c) \/ DropPeer(c) \/ \E useful \in BOOLEAN : Addpeer(c, useful)
    BY <1>4
  <2> QED BY <2>1, PosthandshakeStep, DropPeerStep, AddpeerStep
<1> QED BY <1>1, <1>2, <1>3, <1>4 DEF RunLoop

\* The server starts without tasks, connections and peers.
LEMMA ServerInit ==
  ASSUME ServerConstants, Init
  PROVE  ServerInv
<1>1. /\ Self \in Nodes /\ Static \in SUBSET Nodes /\ Bootnodes \in Seq(Nodes) /\ MaxPendingPeers \in Nat
      /\ maxActiveDialTasks \in Nat /\ MaxPeers \in Nat /\ maxDynDials \in Nat
  BY DEF ServerConstants
<1>2. Cardinality({}) = 0 /\ IsFiniteSet({})
  BY FS_EmptySet
<1>3. Free \in ConnSet /\ Free.setup = "none" /\ Free.run = "no"
  BY <1>1 DEF Free, ConnSet
<1>4. conns \in [Conns -> ConnSet] /\ \A c \in Conns : conns[c] = Free
  BY <1>3 DEF Init
<1>5. /\ dialstate \in DialStates /\ Len(dialstate.hist) = 0 /\ ~dialstate.lookupRunning
      /\ \A n \in Nodes : dialstate.dialing[n] = "no"
  <2>1. /\ dialstate = [static |-> Static, dialing |-> [n \in Nodes |-> "no"], hist |-> <<>>,
                        lookupRunning |-> FALSE, lookupBuf |-> <<>>, bootnodes |-> Bootnodes]
    BY DEF Init
  <2>2. [n \in Nodes |-> "no"] \in [Nodes -> {"no", "dyn", "static"}] /\ <<>> \in Seq(Nodes)
    OBVIOUS
  <2> QED BY <1>1, <2>1, <2>2 DEF DialStates
<1>6. /\ running = {} /\ queued = <<>> /\ queued \in Seq(TaskSet) /\ Len(queued) = 0 /\ taskdone = {} /\ stale = 0
      /\ peerOf \in [Nodes -> Conns \cup {0}] /\ (\A n \in Nodes : peerOf[n] = 0)
      /\ slots = MaxPendingPeers /\ loop \in LoopSet /\ loop.at = "start"
  BY DEF Init, LoopSet, Reasons
<1>7. ServerTypes
  BY <1>1, <1>2, <1>4, <1>5, <1>6 DEF ServerTypes
<1>8. Connected = {} /\ DynPeers(peerOf) = {} /\ DynDials(dialstate) = {}
  BY <1>5, <1>6 DEF Connected, DynPeers, DynDials, In
<1>9. PeersInv
  <2>1. {n \in Connected : conns[peerOf[n]].flag # "static" /\ ~conns[peerOf[n]].trusted} = {}
    BY <1>8
  <2>2. Cardinality({n \in Connected : conns[peerOf[n]].flag # "static" /\ ~conns[peerOf[n]].trusted}) <= MaxPeers
    <3>1. Cardinality({n \in Connected : conns[peerOf[n]].flag # "static" /\ ~conns[peerOf[n]].trusted}) = 0
      BY ONLY <1>2, <2>1, Zenon
    <3> QED BY ONLY <1>1, <3>1
  <2> QED BY <1>3, <1>4, <1>6, <1>8, <2>2 DEF PeersInv, Runs
<1>10. TasksInv(dialstate, running, queued)
  BY <1>5, <1>6 DEF TasksInv
<1>11. DialledInv
  BY <1>3, <1>4, <1>6 DEF DialledInv, Live
<1>12. Cardinality(DynPeers(peerOf) \cup DynDials(dialstate)) <= maxDynDials
  <2>1. DynPeers(peerOf) \cup DynDials(dialstate) = {}
    BY <1>8
  <2>2. Cardinality(DynPeers(peerOf) \cup DynDials(dialstate)) = 0
    BY ONLY <1>2, <2>1, Zenon
  <2> QED BY ONLY <1>1, <2>2
<1>13. SlotsAreReturned
  <2>1. {c \in Conns : conns[c].flag = "inbound" /\ conns[c].setup \notin {"none", "end"}} = {}
    BY <1>3, <1>4
  <2>2. Cardinality({c \in Conns : conns[c].flag = "inbound" /\ conns[c].setup \notin {"none", "end"}}) = 0
    BY ONLY <1>2, <2>1, Zenon
  <2> QED BY <1>1, <1>6, <2>2 DEF SlotsAreReturned
<1>14. KeepsTicking
  BY <1>6 DEF KeepsTicking
<1> QED BY <1>7, <1>9, <1>10, <1>11, <1>12, <1>13, <1>14 DEF ServerInv

\* Every step of the server keeps its inductive invariant.
LEMMA ServerStep ==
  ASSUME ServerConstants, ServerInv, [Next]_vars
  PROVE  ServerInv'
<1>1. CASE RunLoop
  BY <1>1, RunLoopStep
<1>2. CASE Ending
  BY <1>2, EndingStep
<1>3. CASE Setup
  BY <1>3, SetupStep DEF Setup
<1>4. CASE Surroundings
  BY <1>4, SurroundingsStep
<1>5. CASE UNCHANGED vars
  <2>1. UNCHANGED <<dialstate, running, queued, stale, taskdone, conns, peerOf, slots, loop>>
    BY <1>5 DEF vars, dialVars, connVars
  <2> QED BY <2>1, TasksNow, SameLoop, DialledStays, QuietStep
<1> QED BY <1>1, <1>2, <1>3, <1>4, <1>5 DEF Next

\* A node that is marked as being dialled has one task, any other none.
LEMMA OneDial ==
  ASSUME ServerInv, NEW n \in Nodes
  PROVE  Cardinality({t \in running : IsDial(t) /\ t.node = n})
           + Cardinality({i \in DOMAIN queued : IsDial(queued[i]) /\ queued[i].node = n})
         = (IF dialstate.dialing[n] = "no" THEN 0 ELSE 1)
<1> DEFINE R == {t \in running : IsDial(t) /\ t.node = n}
           Q == {i \in DOMAIN queued : IsDial(queued[i]) /\ queued[i].node = n}
           tk == Task(dialstate.dialing[n], n)
<1>1. /\ DOMAIN queued = 1..Len(queued) /\ (\A i \in 1..Len(queued) : queued[i] \in TaskSet)
      /\ TasksInv(dialstate, running, queued) /\ running \subseteq TaskSet
      /\ dialstate.dialing \in [Nodes -> {"no", "dyn", "static"}]
  BY TasksNow, LenProperties, ElementOfSeq DEF RunSet, DialStates
<1>2. \A t \in TaskSet : IsDial(t) /\ t.node = n /\ Marked(dialstate, t) => t = tk /\ dialstate.dialing[n] # "no"
  BY DEF TaskSet, IsDial, Marked, Task
<1>3. dialstate.dialing[n] # "no" => IsDial(tk) /\ tk.node = n
  BY <1>1 DEF IsDial, Task
<1>4. Cardinality({}) = 0 /\ \A x : Cardinality({x}) = 1
  BY FS_EmptySet, FS_Singleton
<1> HIDE DEF tk
<1>5. \A t \in R : t = tk /\ dialstate.dialing[n] # "no"
  BY <1>1, <1>2 DEF TasksInv
<1>6. \A i \in Q : queued[i] = tk /\ dialstate.dialing[n] # "no" /\ tk \notin running
  BY <1>1, <1>2 DEF TasksInv
<1>7. CASE dialstate.dialing[n] = "no"
  <2>1. R = {} /\ Q = {}
    BY <1>5, <1>6, <1>7
  <2> HIDE DEF R, Q
  <2>2. Cardinality(R) + Cardinality(Q) = 0
    BY <1>4, <2>1
  <2> QED BY <1>7, <2>2 DEF R, Q
<1>8. CASE dialstate.dialing[n] # "no" /\ tk \in running
  <2>1. R = {tk} /\ Q = {}
    BY <1>3, <1>5, <1>6, <1>8
  <2> HIDE DEF R, Q
  <2>2. Cardinality(R) = 1 /\ Cardinality(Q) = 0
    BY ONLY <1>4, <2>1, Zenon
  <2> QED BY <1>8, <2>2 DEF R, Q
<1>9. CASE dialstate.dialing[n] # "no" /\ tk \notin running
  <2>1. PICK i \in 1..Len(queued) : queued[i] = tk
    BY <1>1, <1>9 DEF TasksInv, tk
  <2>2. R = {}
    BY <1>5, <1>9
  <2>3. \A j \in Q : j = i
    BY <1>1, <1>6, <2>1 DEF TasksInv
  <2>4. i \in Q
    BY <1>1, <1>3, <1>9, <2>1
  <2> HIDE DEF R, Q
  <2>5. Q = {i}
    BY <2>3, <2>4
  <2>6. Cardinality(R) = 0 /\ Cardinality(Q) = 1
    BY ONLY <1>4, <2>2, <2>5, Zenon
  <2> QED BY <1>9, <2>6 DEF R, Q
<1> QED BY <1>7, <1>8, <1>9

\* What the inductive invariant says of the properties the runs check
LEMMA ServerInvMeans ==
  ASSUME ServerConstants, ServerInv
  PROVE  TypeOK /\ PeersAreKnown /\ DialsAreBounded /\ KeepsTicking /\ SlotsAreReturned
<1>1. TypeOK
  <2>1. Range(queued) \cap running = {}
    <3>1. DOMAIN queued = 1..Len(queued)
      BY TasksNow, LenProperties
    <3> QED BY <3>1, TasksNow DEF TasksInv, Range
  <2>2. loop.at \in {"start", "select", "reply", "lock", "spindown", "ended"}
    BY TasksNow DEF LoopSet
  <2>3. running \subseteq [kind : {"dyn", "static", "discover", "wait"}, node : Nodes]
    BY TasksNow DEF RunSet, TaskSet
  <2>4. peerOf \in [Nodes -> Conns \cup {0}]
    BY DEF ServerInv, ServerTypes
  <2> QED BY <2>1, <2>2, <2>3, <2>4, TasksNow DEF TypeOK
<1>2. PeersAreKnown
  <2>1. \A c \in Conns : conns[c].run \in {"on", "asked", "left"} => peerOf[conns[c].id] = c
    BY DEF ServerInv, PeersInv, Runs
  <2>2. \A n \in Connected : conns[peerOf[n]].id = n /\ conns[peerOf[n]].run \in {"on", "asked", "left"}
    BY DEF ServerInv, PeersInv, Runs, Connected, In
  <2>3. ASSUME loop.at = "ended", NEW c \in Conns PROVE conns[c].run \in {"no", "gone"}
    <3>1. conns[c] \in ConnSet /\ conns[c].id \in Nodes /\ conns[c].run \in {"no", "on", "asked", "left", "gone"} /\ c # 0
      BY TasksNow DEF ConnSet, ServerConstants
    <3>2. peerOf[conns[c].id] = 0
      BY <2>3, <3>1 DEF ServerInv, PeersInv, Connected, In
    <3> QED BY <2>1, <3>1, <3>2
  <2> QED BY <2>1, <2>2, <2>3 DEF PeersAreKnown, ServerInv, PeersInv
<1>3. DialsAreBounded
  <2>1. Cardinality(running) <= maxActiveDialTasks
    BY TasksNow DEF RunSet
  <2> QED BY <2>1, OneDial DEF DialsAreBounded, ServerInv, DynDials
<1> QED BY <1>1, <1>2, <1>3 DEF ServerInv

\* Whatever the number of nodes, connections, slots and dials: the peers that run are
\* those the loop knows, within MaxPeers; the dials are those that are marked, within
\* their bounds; the loop is never left without a task while something is to be
\* dialled; and every slot comes back (run, scheduleTasks, newTasks, setupConn).
THEOREM ServerKeepsItsPeers ==
  ASSUME ServerConstants
  PROVE  Spec => [](TypeOK /\ PeersAreKnown /\ DialsAreBounded /\ KeepsTicking /\ SlotsAreReturned)
<1>1. Init => ServerInv
  BY ServerInit
<1>2. ServerInv /\ [Next]_vars => ServerInv'
  BY ServerStep
<1>3. ServerInv => TypeOK /\ PeersAreKnown /\ DialsAreBounded /\ KeepsTicking /\ SlotsAreReturned
  BY ServerInvMeans
<1> QED BY <1>1, <1>2, <1>3, PTL DEF Spec
=============================================================================
