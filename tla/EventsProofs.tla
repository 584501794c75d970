---------------------------- MODULE EventsProofs ----------------------------
(***************************************************************************)
(* The mux, the feed and the renewed subscription, for any number of        *)
(* goroutines, subscriptions, events and calls.                             *)
(*                                                                         *)
(* Resubscribe: that only the latest subscription is in use is not          *)
(* inductive.  It has to be known that the calls before the latest one are  *)
(* over, each without a subscription or unsubscribed from it, and what the  *)
(* state of the loop says about the latest call.                            *)
(*                                                                         *)
(* TypeMux: a subscription's channel is open until it is closed, and while  *)
(* it is closed and the channel still open exactly one closer waits for its *)
(* deliveries; nobody but Stop works on what is in the mux; and times tell  *)
(* events apart, so that a list of subscriptions read before is used once.  *)
(*                                                                         *)
(* Feed: cases are not tied to subscriptions, for a remove takes whichever  *)
(* case of its channel it finds, so the argument counts per channel.  There *)
(* are as many cases as live subscriptions; the inbox holds no more than    *)
(* those that are not yet past it; what a Send has not served and what it   *)
(* has delivered together do not exceed its audience, and what it has       *)
(* served does not exceed what it has delivered.                            *)
(***************************************************************************)
EXTENDS Resubscribe, TypeMux, Feed, SequenceTheorems, FiniteSetTheorems, WellFoundedInduction,
        NaturalsInduction, TLAPS

-----------------------------------------------------------------------------
(* Resubscribe                                                              *)

\* A call of fn the loop has done with.
EarlierIsOver(n) == fn[n] = "handed" /\ inner[n] \in {"none", "unsubscribed"}

\* What each state of the loop says about the latest call.
LatestInv ==
  /\ loop = "calling" => fn[calls] # "handed"
  /\ loop = "established" => fn[calls] = "handed"
  /\ loop = "backoff" => fn[calls] = "handed" /\ inner[calls] = "none"
  /\ loop = "ended" /\ fn[calls] = "handed" => inner[calls] \in {"none", "unsubscribed"}

\* The strengthening of OneSubscriptionInUse.
CallsInv ==
  /\ calls \in Calls
  /\ loop \in {"calling", "established", "backoff", "ended"}
  /\ fn \in [Calls -> {"none", "running", "failed", "ok", "handed"}]
  /\ inner \in [Calls -> {"none", "live", "failing", "over", "unsubscribed"}]
  /\ \A n \in Calls : n > calls => fn[n] = "none" /\ inner[n] = "none"
  /\ \A n \in Calls : n < calls => EarlierIsOver(n)
  /\ \A n \in Calls : fn[n] \in {"none", "running", "failed"} => inner[n] = "none"
  /\ LatestInv

LEMMA CallsInvInit == ASSUME ResubscribeConstants PROVE Init => CallsInv
  BY DEF ResubscribeConstants, Init, CallsInv, LatestInv, Calls

LEMMA CallsInvNext ==
  ASSUME ResubscribeConstants PROVE CallsInv /\ [Next]_vars => CallsInv'
  <1> SUFFICES ASSUME CallsInv, [Next]_vars PROVE CallsInv'
    OBVIOUS
  <1>0. Calls \subseteq Nat
    BY DEF ResubscribeConstants, Calls
  <1> USE DEF CallsInv, LatestInv, EarlierIsOver
  <1>1. ASSUME NEW n \in Calls, NEW established \in BOOLEAN, FnReturns(n, established) PROVE CallsInv'
    <2>1. n = calls /\ loop \in {"calling", "ended"}
      BY <1>0, <1>1 DEF FnReturns
    <2>2. fn'[n] \in {"ok", "failed"} /\ (fn'[n] = "failed" => inner'[n] = "none")
      BY <1>1 DEF FnReturns
    <2>3. \A m \in Calls : m # n => fn'[m] = fn[m] /\ inner'[m] = inner[m]
      BY <1>1 DEF FnReturns
    <2>4. /\ fn' \in [Calls -> {"none", "running", "failed", "ok", "handed"}]
          /\ inner' \in [Calls -> {"none", "live", "failing", "over", "unsubscribed"}]
      BY <1>1 DEF FnReturns
    <2> QED BY <1>0, <1>1, <2>1, <2>2, <2>3, <2>4 DEF FnReturns
  <1>2. ASSUME NEW n \in Calls, NEW how \in {"failing", "over"}, InnerEnds(n, how) PROVE CallsInv'
    <2>1. n = calls /\ fn[n] \in {"ok", "handed"} /\ loop # "backoff"
          /\ ~(loop = "ended" /\ fn[n] = "handed")
      BY <1>0, <1>2 DEF InnerEnds
    <2> QED BY <1>0, <1>2, <2>1 DEF InnerEnds
  <1>3. CASE Subscribed
    <2>1. fn[calls] = "failed" => inner[calls] = "none"
      OBVIOUS
    <2> QED BY <1>0, <1>3, <2>1 DEF Subscribed
  <1>4. ASSUME Launch(fn), fn[calls] = "handed", inner' \in [Calls -> {"none", "unsubscribed", "live", "failing", "over"}],
               inner'[calls] \in {"none", "unsubscribed"},
               \A m \in Calls : m # calls => inner'[m] = inner[m]
        PROVE  CallsInv'
    <2>1. calls' = calls + 1 /\ calls' \in Calls /\ fn'[calls'] = "running" /\ inner'[calls'] = "none"
      BY <1>0, <1>4 DEF Launch, Calls, ResubscribeConstants
    <2>2. \A m \in Calls : m # calls' => fn'[m] = fn[m]
      BY <1>4, <2>1 DEF Launch
    <2>3. fn' \in [Calls -> {"none", "running", "failed", "ok", "handed"}] /\ loop' = "calling"
      BY <1>4 DEF Launch
    <2>4. \A m \in Calls : /\ m > calls' => m > calls /\ m # calls'
                          /\ m < calls' => m < calls \/ m = calls
      BY <1>0, <2>1
    <2> QED BY <1>0, <1>4, <2>1, <2>2, <2>3, <2>4
  <1>5. CASE BackoffOver
    BY <1>4, <1>5 DEF BackoffOver
  <1>6. CASE Failed
    BY <1>4, <1>6 DEF Failed
  <1>7. CASE Over
    BY <1>0, <1>7 DEF Over
  <1>8. ASSUME NEW c \in Callers, Unsub(c) PROVE CallsInv'
    BY <1>0, <1>8 DEF Unsub
  <1>9. ASSUME NEW c \in Callers, Enter(c) \/ OnceDone(c) \/ UnsubReturns(c) PROVE CallsInv'
    BY <1>9 DEF Enter, OnceDone, UnsubReturns
  <1>10. CASE UNCHANGED vars
    BY <1>10 DEF vars
  <1> QED BY <1>1, <1>2, <1>3, <1>5, <1>6, <1>7, <1>8, <1>9, <1>10 DEF Next, LoopStep, CallerStep

\* Of the subscriptions fn has handed over only the latest is in use, and only while
\* the loop waits for its error: every failed one is unsubscribed before the next call
\* (subscription.go, loop, subscribe and waitForError).
THEOREM LatestOnly == ASSUME ResubscribeConstants PROVE Spec => []OneSubscriptionInUse
  <1>1. CallsInv => OneSubscriptionInUse
    <2> SUFFICES ASSUME CallsInv, NEW n \in Calls, fn[n] = "handed",
                        inner[n] \in {"live", "failing", "over"}
                 PROVE  n = calls /\ loop = "established"
      BY DEF OneSubscriptionInUse
    <2>1. Calls \subseteq Nat
      BY DEF ResubscribeConstants, Calls
    <2> QED BY <2>1 DEF CallsInv, LatestInv, EarlierIsOver
  <1> QED BY CallsInvInit, CallsInvNext, <1>1, PTL DEF Spec

\* The pause between two calls of fn stays between zero and backoffMax, however often
\* it is doubled or starts over (subscription.go, backoffWait).
THEOREM PauseIsBounded == ASSUME ResubscribeConstants PROVE Spec => []BackoffIsBounded
  <1> USE DEF ResubscribeConstants, BackoffIsBounded
  <1>1. Init => BackoffIsBounded
    BY DEF Init
  <1>2. BackoffIsBounded /\ [Next]_vars => BackoffIsBounded'
    <2> SUFFICES ASSUME BackoffIsBounded, [Next]_vars PROVE BackoffIsBounded'
      OBVIOUS
    <2>1. CASE Subscribed
      <3>1. \A slow \in BOOLEAN : NextWait(slow) \in 0..backoffMax
        BY DEF NextWait
      <3> QED BY <2>1, <3>1 DEF Subscribed
    <2>2. CASE UNCHANGED waitTime
      BY <2>2
    <2> QED BY <2>1, <2>2 DEF Next, LoopStep, CallerStep, FnReturns, InnerEnds, BackoffOver, Failed,
               Over, Enter, OnceDone, Unsub, UnsubReturns, vars
  <1> QED BY <1>1, <1>2, PTL DEF Spec

-----------------------------------------------------------------------------
(* TypeMux                                                                  *)

PosterType == [pc : {"idle", "posting", "deliver", "select"}, time : Nat, todo : Seq(Subs)]
CloserType == [pc : {"idle", "close", "lock", "returned"}, todo : Seq(Subs)]

MuxTyped ==
  /\ subm \in Seq(Subs) /\ stopped \in BOOLEAN /\ stopping \in Closers \cup {"none"}
  /\ created \in [Subs -> Nat] /\ clock \in Nat
  /\ closing \in [Subs -> BOOLEAN] /\ closed \in [Subs -> BOOLEAN]
  /\ postC \in [Subs -> {"open", "closed", "nil"}]
  /\ poster \in [Posters -> PosterType] /\ closer \in [Closers -> CloserType]
  /\ heard \in [Subs -> Seq(Nat)]

\* Who is worked on exists, and what does not exist has heard nothing.
Exist(q) == \A k \in 1..Len(q) : created[q[k]] # 0
ExistInv ==
  /\ Exist(subm)
  /\ \A p \in Posters : Exist(poster[p].todo)
  /\ \A c \in Closers : Exist(closer[c].todo)
  /\ \A s \in Subs : created[s] = 0 => ~closed[s] /\ heard[s] = <<>>

\* Nobody but Stop closes what is in the mux.
Apart(q) == \A j \in 1..Len(q), k \in 1..Len(subm) : q[j] # subm[k]
ListInv ==
  /\ IsInjective(subm)
  /\ \A c \in Closers : c # stopping => Apart(closer[c].todo)
  /\ ClosedIsGone

\* Closing a channel is left to the one closer that found it open.
AtLock(c, s) == closer[c].pc = "lock" /\ Head(closer[c].todo) = s
LockInv ==
  /\ \A c \in Closers : closer[c].pc = "lock" =>
       /\ closer[c].todo # <<>>
       /\ closed[Head(closer[c].todo)] /\ postC[Head(closer[c].todo)] = "open"
  /\ \A c, d \in Closers, s \in Subs : AtLock(c, s) /\ AtLock(d, s) => c = d
  /\ \A s \in Subs : ~closed[s] => postC[s] = "open"
  /\ \A s \in Subs : closed[s] /\ postC[s] = "open" => \E c \in Closers : AtLock(c, s)

\* An event is still to be delivered to whom a Post has on its list.
Unheard(t, s) == \A k \in 1..Len(heard[s]) : heard[s][k] # t
OnePost(p) ==
  /\ poster[p].pc # "idle" =>
       /\ poster[p].time <= clock /\ \A s \in Subs : created[s] # poster[p].time
       /\ IsInjective(poster[p].todo)
       /\ \A k \in 1..Len(poster[p].todo) : Unheard(poster[p].time, poster[p].todo[k])
  /\ poster[p].pc = "posting" => \A s \in Subs : Unheard(poster[p].time, s)
  /\ poster[p].pc = "select" =>
       poster[p].todo # <<>> /\ created[Head(poster[p].todo)] <= poster[p].time
PostInv ==
  /\ \A s \in Subs : created[s] <= clock /\ \A k \in 1..Len(heard[s]) : heard[s][k] <= clock
  /\ \A p \in Posters : OnePost(p)
  /\ \A p, q \in Posters : poster[p].pc # "idle" /\ poster[q].pc # "idle" /\ p # q =>
       poster[p].time # poster[q].time

\* The strengthening of MuxClosesCleanly.
MuxInv == MuxTyped /\ ExistInv /\ ListInv /\ LockInv /\ PostInv /\ OnlyNewEventsOnce

-----------------------------------------------------------------------------
(* Lists of subscriptions                                                   *)

LEMMA TailOf ==
  ASSUME NEW S, NEW q \in Seq(S), q # <<>>
  PROVE  /\ Head(q) = q[1] /\ Head(q) \in S /\ Len(q) \in Nat \ {0}
         /\ Tail(q) \in Seq(S) /\ Len(Tail(q)) = Len(q) - 1
         /\ \A k \in 1..(Len(q) - 1) : Tail(q)[k] = q[k + 1]
<1>1. Len(q) \in Nat /\ Len(q) # 0 /\ \A k \in 1..Len(q) : q[k] \in S
  BY LenProperties, ElementOfSeq, EmptySeq
<1> QED BY <1>1, HeadTailProperties

\* A list without repetitions stays one without its first element, which then is not
\* in it.
LEMMA TailOnce ==
  ASSUME NEW S, NEW q \in Seq(S), q # <<>>, IsInjective(q)
  PROVE  /\ IsInjective(Tail(q))
         /\ \A k \in 1..Len(Tail(q)) : Tail(q)[k] # Head(q)
<1>1. DOMAIN q = 1..Len(q) /\ DOMAIN Tail(q) = 1..(Len(q) - 1)
  BY TailOf, LenProperties
<1>2. \A j, k \in 1..Len(q) : q[j] = q[k] => j = k
  BY <1>1 DEF IsInjective
<1>3. \A k \in 1..(Len(q) - 1) : k + 1 \in 1..Len(q) /\ k + 1 # 1 /\ Tail(q)[k] = q[k + 1]
  BY TailOf
<1>4. 1 \in 1..Len(q) /\ Head(q) = q[1] /\ Len(Tail(q)) = Len(q) - 1 /\ Len(q) \in Nat
  BY TailOf
<1>5. IsInjective(Tail(q))
  <2> SUFFICES ASSUME NEW j \in 1..(Len(q) - 1), NEW k \in 1..(Len(q) - 1), Tail(q)[j] = Tail(q)[k]
               PROVE  j = k
    BY <1>1 DEF IsInjective
  <2>1. j + 1 = k + 1
    BY <1>2, <1>3
  <2> QED BY <2>1
<1> QED BY <1>2, <1>3, <1>4, <1>5

\* What is appended to a list that does not have it.
LEMMA AppendOnce ==
  ASSUME NEW S, NEW q \in Seq(S), NEW e \in S
  PROVE  /\ Append(q, e) \in Seq(S) /\ Len(Append(q, e)) = Len(q) + 1 /\ Len(q) \in Nat
         /\ \A k \in 1..Len(q) : Append(q, e)[k] = q[k]
         /\ Append(q, e)[Len(q) + 1] = e
         /\ (IsInjective(q) /\ \A k \in 1..Len(q) : q[k] # e) => IsInjective(Append(q, e))
<1>1. /\ Append(q, e) \in Seq(S) /\ Len(Append(q, e)) = Len(q) + 1 /\ Len(q) \in Nat
      /\ \A k \in 1..Len(q) : Append(q, e)[k] = q[k]
      /\ Append(q, e)[Len(q) + 1] = e
  BY AppendProperties, LenProperties
<1>2. DOMAIN q = 1..Len(q) /\ DOMAIN Append(q, e) = 1..(Len(q) + 1)
  BY <1>1, LenProperties
<1>3. ASSUME IsInjective(q), \A k \in 1..Len(q) : q[k] # e PROVE IsInjective(Append(q, e))
  <2> SUFFICES ASSUME NEW j \in 1..(Len(q) + 1), NEW k \in 1..(Len(q) + 1),
                      Append(q, e)[j] = Append(q, e)[k]
               PROVE  j = k
    BY <1>2 DEF IsInjective
  <2>1. \A a, b \in 1..Len(q) : q[a] = q[b] => a = b
    BY <1>2, <1>3 DEF IsInjective
  <2>2. \A a \in 1..(Len(q) + 1) : a \in 1..Len(q) \/ a = Len(q) + 1
    BY <1>1
  <2> QED BY <1>1, <1>3, <2>1, <2>2
<1> QED BY <1>1, <1>3

\* del takes s out and leaves the rest.
LEMMA DelProperties ==
  ASSUME subm \in Seq(Subs), IsInjective(subm), NEW s \in Subs
  PROVE  /\ del(s) \in Seq(Subs) /\ IsInjective(del(s))
         /\ \A k \in 1..Len(del(s)) : del(s)[k] # s /\ \E j \in 1..Len(subm) : del(s)[k] = subm[j]
<1>1. DOMAIN subm = 1..Len(subm) /\ Len(subm) \in Nat /\ \A k \in 1..Len(subm) : subm[k] \in Subs
  BY LenProperties, ElementOfSeq
<1>2. \A j, k \in 1..Len(subm) : subm[j] = subm[k] => j = k
  BY <1>1 DEF IsInjective
<1>3. CASE s \notin ToSet(subm)
  BY <1>1, <1>3 DEF del, ToSet
<1>4. CASE s \in ToSet(subm)
  <2>1. find(s) \in 1..Len(subm) /\ subm[find(s)] = s
    BY <1>1, <1>4 DEF find, ToSet
  <2> DEFINE n == find(s)
             l == SubSeq(subm, 1, n - 1)
             r == SubSeq(subm, n + 1, Len(subm))
  <2>2. n \in 1..Len(subm) /\ subm[n] = s
    BY <2>1
  <2>3. l \in Seq(Subs) /\ Len(l) = n - 1 /\ \A k \in 1..(n - 1) : l[k] = subm[k]
    <3> HIDE DEF n
    <3> QED BY <1>1, <2>2, SubSeqProperties
  <2>4. r \in Seq(Subs) /\ Len(r) = Len(subm) - n /\ \A k \in 1..(Len(subm) - n) : r[k] = subm[n + k]
    <3> HIDE DEF n
    <3>1. \A k \in (n + 1)..Len(subm) : subm[k] \in Subs
      BY <1>1, <2>2
    <3>2. /\ r \in Seq(Subs) /\ Len(r) = IF n + 1 <= Len(subm) THEN Len(subm) - (n + 1) + 1 ELSE 0
          /\ \A k \in 1..(Len(subm) - (n + 1) + 1) : r[k] = subm[(n + 1) + k - 1]
      BY <1>1, <2>2, <3>1, SubSeqProperties
    <3>3. Len(r) = Len(subm) - n /\ Len(subm) - (n + 1) + 1 = Len(subm) - n
      <4> HIDE DEF r
      <4>1. n \in Nat /\ n <= Len(subm)
        BY <1>1, <2>2
      <4>2. CASE n + 1 <= Len(subm)
        BY <1>1, <3>2, <4>1, <4>2
      <4>3. CASE ~(n + 1 <= Len(subm))
        <5>1. Len(r) = 0
          BY <3>2, <4>3
        <5>2. Len(subm) \in Nat
          BY <1>1
        <5>3. n = Len(subm)
          BY <4>1, <4>3, <5>2
        <5> QED BY <4>1, <5>1, <5>3
      <4> QED BY <4>2, <4>3
    <3>4. \A k \in 1..(Len(subm) - n) : (n + 1) + k - 1 = n + k
      BY <1>1, <2>2
    <3> QED BY <3>2, <3>3, <3>4
  <2>5. del(s) = l \o r
    BY <1>4 DEF del, RemoveAt
  <2> HIDE DEF l, r, n
  <2>6. /\ l \o r \in Seq(Subs) /\ Len(l \o r) = Len(l) + Len(r)
        /\ \A k \in 1..(Len(l) + Len(r)) : (l \o r)[k] = IF k <= Len(l) THEN l[k] ELSE r[k - Len(l)]
    BY <2>3, <2>4, ConcatProperties
  <2>7. Len(l) + Len(r) = Len(subm) - 1
    BY <1>1, <2>2, <2>3, <2>4
  <2>8. ASSUME NEW k \in 1..(Len(subm) - 1)
        PROVE  /\ k < n => (l \o r)[k] = subm[k]
               /\ ~(k < n) => (l \o r)[k] = subm[k + 1]
    <3>1. CASE k < n
      <4>1. k <= Len(l) /\ k \in 1..(n - 1)
        BY <1>1, <2>2, <2>3, <3>1
      <4> QED BY <2>3, <2>6, <2>7, <3>1, <4>1
    <3>2. CASE ~(k < n)
      <4>1. ~(k <= Len(l)) /\ k - (n - 1) \in 1..(Len(subm) - n) /\ n + (k - (n - 1)) = k + 1
        BY <1>1, <2>2, <2>3, <3>2
      <4>2. (l \o r)[k] = r[k - (n - 1)]
        BY <2>3, <2>6, <2>7, <4>1
      <4> QED BY <2>4, <3>2, <4>1, <4>2
    <3> QED BY <3>1, <3>2
  <2>9. \A k \in 1..(Len(subm) - 1) : \E j \in 1..Len(subm) :
          (l \o r)[k] = subm[j] /\ j # n /\ ((k < n /\ j = k) \/ (~(k < n) /\ j = k + 1))
    <3> SUFFICES ASSUME NEW k \in 1..(Len(subm) - 1)
                 PROVE  \E j \in 1..Len(subm) :
                          (l \o r)[k] = subm[j] /\ j # n /\ ((k < n /\ j = k) \/ (~(k < n) /\ j = k + 1))
      OBVIOUS
    <3>1. k \in 1..Len(subm) /\ k + 1 \in 1..Len(subm) /\ (k < n => k # n) /\ (~(k < n) => k + 1 # n)
      BY <1>1, <2>2
    <3> QED BY <2>8, <3>1
  <2>10. \A k \in 1..(Len(subm) - 1) : (l \o r)[k] # s /\ \E j \in 1..Len(subm) : (l \o r)[k] = subm[j]
    BY <1>2, <2>2, <2>9
  <2>11. \A j, k \in 1..(Len(subm) - 1) : (l \o r)[j] = (l \o r)[k] => j = k
    <3> SUFFICES ASSUME NEW j \in 1..(Len(subm) - 1), NEW k \in 1..(Len(subm) - 1),
                        (l \o r)[j] = (l \o r)[k]
                 PROVE  j = k
      OBVIOUS
    <3>1. PICK a \in 1..Len(subm) : (l \o r)[j] = subm[a] /\ ((j < n /\ a = j) \/ (~(j < n) /\ a = j + 1))
      BY <2>9
    <3>2. PICK b \in 1..Len(subm) : (l \o r)[k] = subm[b] /\ ((k < n /\ b = k) \/ (~(k < n) /\ b = k + 1))
      BY <2>9
    <3>3. a = b
      BY <1>2, <3>1, <3>2
    <3> QED BY <1>1, <2>2, <3>1, <3>2, <3>3
  <2>12. DOMAIN (l \o r) = 1..(Len(subm) - 1) /\ Len(l \o r) = Len(subm) - 1
    BY <2>6, <2>7, LenProperties
  <2>13. IsInjective(l \o r)
    BY <2>11, <2>12 DEF IsInjective
  <2> QED BY <2>5, <2>6, <2>10, <2>12, <2>13
<1> QED BY <1>3, <1>4

-----------------------------------------------------------------------------
(* The invariant holds at first and is kept by Post.                        *)

LEMMA MuxInvInit == MuxInit => MuxInv
<1> SUFFICES ASSUME MuxInit PROVE MuxInv
  OBVIOUS
<1> USE DEF MuxInit
<1>0. <<>> \in Seq(Subs) /\ <<>> \in Seq(Nat) /\ Len(<<>>) = 0 /\ 1..0 = {} /\ DOMAIN <<>> = {}
  OBVIOUS
<1>1. MuxTyped
  BY <1>0 DEF MuxTyped, PosterType, CloserType, Idle
<1>2. ExistInv
  BY <1>0 DEF ExistInv, Exist, Idle
<1>3. ListInv
  BY <1>0 DEF ListInv, Apart, IsInjective, ClosedIsGone
<1>4. LockInv
  BY DEF LockInv, AtLock
<1>5. PostInv
  BY <1>0 DEF PostInv, OnePost, Idle
<1>6. OnlyNewEventsOnce
  BY <1>0 DEF OnlyNewEventsOnce, IsInjective
<1> QED BY <1>1, <1>2, <1>3, <1>4, <1>5, <1>6 DEF MuxInv

\* A step of one Post that delivers nothing.
LEMMA PosterOnly ==
  ASSUME MuxInv, NEW p \in Posters,
         UNCHANGED <<subm, stopped, stopping, created, SubVars, closer, heard>>,
         clock' \in Nat, clock <= clock',
         poster' \in [Posters -> PosterType],
         \A q \in Posters : q # p => poster'[q] = poster[q],
         Exist(poster[p].todo)', OnePost(p)',
         \A q \in Posters : q # p /\ poster'[p].pc # "idle" /\ poster[q].pc # "idle" =>
                              poster'[p].time # poster[q].time
  PROVE  MuxInv'
<1>1. MuxTyped'
  BY DEF MuxInv, MuxTyped, SubVars
<1>2. ExistInv'
  BY DEF MuxInv, ExistInv, Exist, SubVars
<1>3. ListInv'
  BY DEF MuxInv, ListInv, Apart, ClosedIsGone, SubVars
<1>4. LockInv'
  BY DEF MuxInv, LockInv, AtLock, SubVars
<1>5. PostInv'
  <2>1. \A s \in Subs : created[s] \in Nat /\ heard[s] \in Seq(Nat)
    BY DEF MuxInv, MuxTyped
  <2>2. clock \in Nat /\ \A q \in Posters : poster[q].time \in Nat
    BY DEF MuxInv, MuxTyped, PosterType
  <2>3. ASSUME NEW s \in Subs
        PROVE  created'[s] <= clock' /\ \A k \in 1..Len(heard'[s]) : heard'[s][k] <= clock'
    <3>1. \A k \in 1..Len(heard[s]) : heard[s][k] \in Nat
      BY <2>1
    <3> QED BY <2>1, <2>2, <3>1 DEF MuxInv, PostInv
  <2>4. ASSUME NEW q \in Posters, q # p PROVE OnePost(q)'
    <3>1. OnePost(q) /\ poster'[q] = poster[q]
      BY <2>4 DEF MuxInv, PostInv
    <3>2. poster[q].time <= clock => poster[q].time <= clock'
      BY <2>2
    <3> QED BY <3>1, <3>2 DEF OnePost, Unheard
  <2>5. \A q \in Posters : OnePost(q)'
    BY <2>4
  <2>6. \A q, r \in Posters : poster'[q].pc # "idle" /\ poster'[r].pc # "idle" /\ q # r =>
                                poster'[q].time # poster'[r].time
    BY DEF MuxInv, PostInv
  <2> QED BY <2>3, <2>5, <2>6 DEF PostInv
<1>6. OnlyNewEventsOnce'
  BY DEF MuxInv, OnlyNewEventsOnce
<1> QED BY <1>1, <1>2, <1>3, <1>4, <1>5, <1>6 DEF MuxInv

LEMMA PostKeeps == ASSUME MuxInv, NEW p \in Posters, Post(p) PROVE MuxInv'
<1>0. clock \in Nat /\ poster \in [Posters -> PosterType] /\ created \in [Subs -> Nat] /\ heard \in [Subs -> Seq(Nat)]
  BY DEF MuxInv, MuxTyped
<1>1. <<>> \in Seq(Subs) /\ Len(<<>>) = 0 /\ 1..0 = {} /\ DOMAIN <<>> = {}
  OBVIOUS
<1>2. poster'[p] = [pc |-> "posting", time |-> clock + 1, todo |-> <<>>]
  BY <1>0 DEF Post
<1>3. poster' \in [Posters -> PosterType] /\ \A q \in Posters : q # p => poster'[q] = poster[q]
  BY <1>0, <1>1 DEF Post, PosterType
<1>4. clock' = clock + 1 /\ clock' \in Nat /\ clock <= clock'
  BY <1>0 DEF Post
<1>5. UNCHANGED <<subm, stopped, stopping, created, SubVars, closer, heard>>
  BY DEF Post
<1>6. Exist(poster[p].todo)'
  BY <1>1, <1>2 DEF Exist
<1>7. \A s \in Subs : created[s] # clock + 1 /\ \A k \in 1..Len(heard[s]) : heard[s][k] # clock + 1
  <2> SUFFICES ASSUME NEW s \in Subs
               PROVE  created[s] # clock + 1 /\ \A k \in 1..Len(heard[s]) : heard[s][k] # clock + 1
    OBVIOUS
  <2>1. created[s] <= clock /\ created[s] \in Nat
    BY <1>0 DEF MuxInv, PostInv
  <2>2. ASSUME NEW k \in 1..Len(heard[s]) PROVE heard[s][k] <= clock /\ heard[s][k] \in Nat
    BY <1>0 DEF MuxInv, PostInv
  <2> QED BY <1>0, <2>1, <2>2
<1>8. OnePost(p)'
  BY <1>1, <1>2, <1>4, <1>5, <1>7 DEF OnePost, Unheard, IsInjective
<1>9. ASSUME NEW q \in Posters, q # p, poster[q].pc # "idle" PROVE poster'[p].time # poster[q].time
  <2>1. poster[q].time <= clock /\ poster[q].time \in Nat
    BY <1>0, <1>9 DEF MuxInv, PostInv, OnePost, PosterType
  <2> QED BY <1>0, <1>2, <2>1
<1> QED BY <1>3, <1>4, <1>5, <1>6, <1>8, <1>9, PosterOnly

\* What the other steps of a Post leave alone.
LEMMA TimesStay ==
  ASSUME MuxInv, NEW p \in Posters, poster[p].pc # "idle",
         poster' \in [Posters -> PosterType],
         \A q \in Posters : q # p => poster'[q] = poster[q],
         poster'[p].pc # "idle" => poster'[p].time = poster[p].time
  PROVE  \A q \in Posters : q # p /\ poster'[p].pc # "idle" /\ poster[q].pc # "idle" =>
                              poster'[p].time # poster[q].time
BY DEF MuxInv, PostInv

LEMMA ReadSubsKeeps == ASSUME MuxInv, NEW p \in Posters, ReadSubs(p) PROVE MuxInv'
<1>0. clock \in Nat /\ poster \in [Posters -> PosterType] /\ subm \in Seq(Subs)
  BY DEF MuxInv, MuxTyped
<1>1. UNCHANGED <<subm, stopped, stopping, created, SubVars, closer, heard>> /\ clock' \in Nat /\ clock <= clock'
  BY <1>0 DEF ReadSubs, MuxVars
<1>2. \A q \in Posters : q # p => poster'[q] = poster[q]
  BY <1>0 DEF ReadSubs
<1>3. CASE stopped
  <2>0. <<>> \in Seq(Subs) /\ Len(<<>>) = 0 /\ 1..0 = {}
    OBVIOUS
  <2>1. poster' \in [Posters -> PosterType] /\ poster'[p] = Idle
    BY <1>0, <1>3, <2>0 DEF ReadSubs, Idle, PosterType
  <2>2. Exist(poster[p].todo)' /\ OnePost(p)' /\ poster'[p].pc = "idle"
    BY <2>0, <2>1 DEF Exist, OnePost, Idle
  <2> QED BY <1>1, <1>2, <2>1, <2>2, PosterOnly
<1>4. CASE ~stopped
  <2>1. poster' = [poster EXCEPT ![p].pc = "deliver", ![p].todo = subm] /\ poster[p].pc = "posting"
    BY <1>4 DEF ReadSubs
  <2>2. /\ poster' \in [Posters -> PosterType]
        /\ poster'[p].pc = "deliver" /\ poster'[p].todo = subm /\ poster'[p].time = poster[p].time
    BY <1>0, <2>1 DEF PosterType
  <2>3. Exist(poster[p].todo)'
    BY <1>1, <2>2 DEF MuxInv, ExistInv, Exist
  <2>4. OnePost(p) /\ IsInjective(subm) /\ \A k \in 1..Len(subm) : subm[k] \in Subs
    BY <1>0 DEF MuxInv, PostInv, ListInv
  <2>5. OnePost(p)'
    BY <1>1, <2>1, <2>2, <2>4 DEF OnePost, Unheard, ReadSubs, MuxVars
  <2>6. poster[p].pc # "idle"
    BY <2>1
  <2>7. \A q \in Posters : q # p /\ poster'[p].pc # "idle" /\ poster[q].pc # "idle" =>
                              poster'[p].time # poster[q].time
    BY <1>2, <2>2, <2>6, TimesStay
  <2> QED BY <1>1, <1>2, <2>2, <2>3, <2>5, <2>7, PosterOnly
<1> QED BY <1>3, <1>4

\* The first subscription on the list of a Post is done with.
LEMMA AdvanceFacts ==
  ASSUME MuxInv, NEW p \in Posters, poster[p].pc \in {"deliver", "select"}, poster[p].todo # <<>>, Advance(p)
  PROVE  /\ poster' \in [Posters -> PosterType]
         /\ \A q \in Posters : q # p => poster'[q] = poster[q]
         /\ poster'[p].pc = "deliver" /\ poster'[p].time = poster[p].time
         /\ poster'[p].todo = Tail(poster[p].todo)
         /\ IsInjective(poster'[p].todo)
         /\ \A k \in 1..Len(poster'[p].todo) :
              /\ poster'[p].todo[k] # Head(poster[p].todo)
              /\ k + 1 \in 1..Len(poster[p].todo) /\ poster'[p].todo[k] = poster[p].todo[k + 1]
<1>0. poster \in [Posters -> PosterType] /\ poster[p].todo \in Seq(Subs) /\ poster[p].pc # "idle"
  BY DEF MuxInv, MuxTyped, PosterType
<1>1. Tail(poster[p].todo) \in Seq(Subs)
  BY <1>0, TailOf
<1>2. poster' \in [Posters -> PosterType] /\ \A q \in Posters : q # p => poster'[q] = poster[q]
  BY <1>0, <1>1 DEF Advance, PosterType
<1>3. poster'[p].pc = "deliver" /\ poster'[p].time = poster[p].time /\ poster'[p].todo = Tail(poster[p].todo)
  BY <1>0 DEF Advance, PosterType
<1>4. IsInjective(poster[p].todo)
  BY <1>0 DEF MuxInv, PostInv, OnePost
<1>5. IsInjective(Tail(poster[p].todo)) /\ \A k \in 1..Len(Tail(poster[p].todo)) : Tail(poster[p].todo)[k] # Head(poster[p].todo)
  BY <1>0, <1>4, TailOnce
<1>6. /\ Len(poster[p].todo) \in Nat /\ Len(Tail(poster[p].todo)) = Len(poster[p].todo) - 1
      /\ \A k \in 1..(Len(poster[p].todo) - 1) : Tail(poster[p].todo)[k] = poster[p].todo[k + 1]
  BY <1>0, TailOf
<1>7. \A k \in 1..(Len(poster[p].todo) - 1) : k + 1 \in 1..Len(poster[p].todo)
  BY <1>6
<1> QED BY <1>2, <1>3, <1>5, <1>6, <1>7

LEMMA AdvanceKeeps ==
  ASSUME MuxInv, NEW p \in Posters, poster[p].pc \in {"deliver", "select"}, poster[p].todo # <<>>,
         Advance(p), UNCHANGED <<MuxVars, SubVars, closer, heard>>
  PROVE  MuxInv'
<1>0. clock \in Nat
  BY DEF MuxInv, MuxTyped
<1>1. UNCHANGED <<subm, stopped, stopping, created, SubVars, closer, heard>> /\ clock' = clock
  BY DEF MuxVars
<1>2. clock' \in Nat /\ clock <= clock'
  BY <1>0, <1>1
<1>3. Exist(poster[p].todo)'
  BY <1>1, AdvanceFacts DEF MuxInv, ExistInv, Exist
<1>4. OnePost(p)'
  <2>1. OnePost(p)
    BY DEF MuxInv, PostInv
  <2> QED BY <1>1, <2>1, AdvanceFacts, SMTT(60) DEF OnePost, Unheard
<1>5. \A q \in Posters : q # p /\ poster'[p].pc # "idle" /\ poster[q].pc # "idle" =>
                              poster'[p].time # poster[q].time
  BY AdvanceFacts, TimesStay
<1> QED BY <1>1, <1>2, <1>3, <1>4, <1>5, AdvanceFacts, PosterOnly

LEMMA DeliverKeeps == ASSUME MuxInv, NEW p \in Posters, Deliver(p) PROVE MuxInv'
<1> DEFINE s == Head(poster[p].todo)
<1>0. /\ poster[p].pc = "deliver" /\ poster[p].todo # <<>>
      /\ UNCHANGED <<MuxVars, SubVars, closer, heard>>
  BY DEF Deliver
<1>1. CASE Stale(p, s)
  BY <1>0, <1>1, AdvanceKeeps DEF Deliver
<1>2. CASE ~Stale(p, s)
  <2>0. clock \in Nat /\ poster \in [Posters -> PosterType] /\ created \in [Subs -> Nat]
    BY DEF MuxInv, MuxTyped
  <2>1. poster' = [poster EXCEPT ![p].pc = "select"]
    BY <1>2 DEF Deliver
  <2>2. /\ poster' \in [Posters -> PosterType] /\ \A q \in Posters : q # p => poster'[q] = poster[q]
        /\ poster'[p].pc = "select" /\ poster'[p].time = poster[p].time /\ poster'[p].todo = poster[p].todo
    BY <2>0, <2>1 DEF PosterType
  <2>3. UNCHANGED <<subm, stopped, stopping, created, SubVars, closer, heard>> /\ clock' = clock
    BY <1>0 DEF MuxVars
  <2>4. clock' \in Nat /\ clock <= clock'
    BY <2>0, <2>3
  <2>5. Exist(poster[p].todo)'
    BY <2>2, <2>3 DEF MuxInv, ExistInv, Exist
  <2>6. created[s] <= poster[p].time
    <3>1. s \in Subs /\ poster[p].time \in Nat
      BY <1>0, <2>0, TailOf DEF PosterType
    <3> QED BY <1>2, <2>0, <3>1 DEF Stale
  <2>7. OnePost(p)'
    <3>1. OnePost(p)
      BY DEF MuxInv, PostInv
    <3> QED BY <1>0, <2>2, <2>3, <2>6, <3>1 DEF OnePost, Unheard
  <2>8. \A q \in Posters : q # p /\ poster'[p].pc # "idle" /\ poster[q].pc # "idle" =>
                              poster'[p].time # poster[q].time
    BY <1>0, <2>2, TimesStay
  <2> QED BY <2>2, <2>3, <2>4, <2>5, <2>7, <2>8, PosterOnly
<1> QED BY <1>1, <1>2

LEMMA PostedKeeps == ASSUME MuxInv, NEW p \in Posters, Posted(p) PROVE MuxInv'
<1>0. <<>> \in Seq(Subs) /\ Len(<<>>) = 0 /\ 1..0 = {}
  OBVIOUS
<1>1. clock \in Nat /\ poster \in [Posters -> PosterType]
  BY DEF MuxInv, MuxTyped
<1>2. UNCHANGED <<subm, stopped, stopping, created, SubVars, closer, heard>> /\ clock' \in Nat /\ clock <= clock'
  BY <1>1 DEF Posted, MuxVars
<1>3. /\ poster' \in [Posters -> PosterType] /\ poster'[p] = Idle
      /\ \A q \in Posters : q # p => poster'[q] = poster[q]
  BY <1>0, <1>1 DEF Posted, Idle, PosterType
<1>4. Exist(poster[p].todo)' /\ OnePost(p)' /\ poster'[p].pc = "idle"
  BY <1>0, <1>3 DEF Exist, OnePost, Idle
<1> QED BY <1>2, <1>3, <1>4, PosterOnly

LEMMA GivenUpKeeps == ASSUME MuxInv, NEW p \in Posters, GivenUp(p) PROVE MuxInv'
<1>1. poster[p].pc = "select" /\ poster[p].todo # <<>>
  BY DEF GivenUp, MuxInv, PostInv, OnePost
<1> QED BY <1>1, AdvanceKeeps DEF GivenUp

-----------------------------------------------------------------------------
(* It is kept by a delivery.                                                *)

\* The event in delivery is new to the first subscription on the list, younger than it
\* and no other event.
LEMMA SentFacts ==
  ASSUME MuxInv, NEW p \in Posters, Sent(p), NEW s, s = Head(poster[p].todo)
  PROVE  /\ s \in Subs /\ poster[p].todo # <<>> /\ poster[p].pc = "select" /\ Advance(p)
         /\ poster[p].time \in Nat /\ poster[p].time <= clock /\ poster[p].time > created[s]
         /\ created[s] # 0
         /\ \A k \in 1..Len(heard[s]) : heard[s][k] # poster[p].time
         /\ heard' = [heard EXCEPT ![s] = Append(@, poster[p].time)]
         /\ UNCHANGED <<MuxVars, SubVars, closer>>
<1>0. poster[p] \in PosterType /\ created \in [Subs -> Nat] /\ OnePost(p) /\ Exist(poster[p].todo)
  BY DEF MuxInv, MuxTyped, PostInv, ExistInv
<1>1. poster[p].pc = "select" /\ poster[p].todo # <<>>
  BY <1>0 DEF Sent, OnePost
<1>2. s = poster[p].todo[1] /\ s \in Subs /\ 1 \in 1..Len(poster[p].todo)
  BY <1>0, <1>1, TailOf DEF PosterType
<1>3. poster[p].time \in Nat /\ poster[p].time <= clock /\ created[s] # poster[p].time
      /\ created[s] <= poster[p].time /\ created[s] \in Nat
  BY <1>0, <1>1, <1>2 DEF OnePost, PosterType
<1>4. Unheard(poster[p].time, s) /\ created[s] # 0
  BY <1>0, <1>1, <1>2 DEF OnePost, Exist
<1>5. poster[p].time > created[s]
  BY <1>3
<1> QED BY <1>1, <1>2, <1>3, <1>4, <1>5 DEF Sent, Unheard

LEMMA SentKeeps == ASSUME MuxInv, NEW p \in Posters, Sent(p) PROVE MuxInv'
<1>0. PICK s : s = Head(poster[p].todo)
  OBVIOUS
<1>1. /\ s \in Subs /\ poster[p].todo # <<>> /\ poster[p].pc = "select" /\ Advance(p)
      /\ poster[p].time \in Nat /\ poster[p].time <= clock /\ poster[p].time > created[s]
      /\ created[s] # 0
      /\ \A k \in 1..Len(heard[s]) : heard[s][k] # poster[p].time
      /\ heard' = [heard EXCEPT ![s] = Append(@, poster[p].time)]
      /\ UNCHANGED <<MuxVars, SubVars, closer>>
  BY <1>0, SentFacts
<1>2. /\ poster' \in [Posters -> PosterType]
      /\ \A q \in Posters : q # p => poster'[q] = poster[q]
      /\ poster'[p].pc = "deliver" /\ poster'[p].time = poster[p].time
      /\ IsInjective(poster'[p].todo)
      /\ \A k \in 1..Len(poster'[p].todo) :
              /\ poster'[p].todo[k] # s
              /\ k + 1 \in 1..Len(poster[p].todo) /\ poster'[p].todo[k] = poster[p].todo[k + 1]
  BY <1>0, <1>1, AdvanceFacts
<1>3. UNCHANGED <<subm, stopped, stopping, created, closing, closed, postC, closer, clock>>
  BY <1>1 DEF MuxVars, SubVars
<1>4. heard \in [Subs -> Seq(Nat)]
  BY DEF MuxInv, MuxTyped
<1> DEFINE h == heard[s]
           t == poster[p].time
<1>5. h \in Seq(Nat) /\ t \in Nat
  BY <1>1, <1>4
<1>6. heard' \in [Subs -> Seq(Nat)] /\ heard'[s] = Append(h, t) /\ \A r \in Subs : r # s => heard'[r] = heard[r]
  <2>1. Append(h, t) \in Seq(Nat)
    BY <1>5, AppendOnce
  <2> QED BY <1>1, <1>4, <2>1
<1> HIDE DEF h, t
<1>7. /\ Len(Append(h, t)) = Len(h) + 1 /\ Len(h) \in Nat
      /\ \A k \in 1..Len(h) : Append(h, t)[k] = h[k]
      /\ Append(h, t)[Len(h) + 1] = t
      /\ (IsInjective(h) /\ \A k \in 1..Len(h) : h[k] # t) => IsInjective(Append(h, t))
  BY <1>5, AppendOnce
<1>8. \A k \in 1..(Len(h) + 1) : k \in 1..Len(h) \/ k = Len(h) + 1
  BY <1>7
<1>9. MuxTyped'
  BY <1>2, <1>3, <1>6 DEF MuxInv, MuxTyped
<1>10. ExistInv'
  <2>1. Exist(poster[p].todo)'
    BY <1>2, <1>3, ZenonT(60) DEF MuxInv, ExistInv, Exist
  <2>2. \A q \in Posters : q # p => Exist(poster[q].todo)'
    BY <1>2, <1>3 DEF MuxInv, ExistInv, Exist
  <2>3. \A r \in Subs : created'[r] = 0 => ~closed'[r] /\ heard'[r] = <<>>
    BY <1>1, <1>3, <1>6 DEF MuxInv, ExistInv
  <2> QED BY <1>3, <2>1, <2>2, <2>3 DEF MuxInv, ExistInv, Exist
<1>11. ListInv'
  BY <1>3 DEF MuxInv, ListInv, Apart, ClosedIsGone
<1>12. LockInv'
  BY <1>3 DEF MuxInv, LockInv, AtLock
<1>13. \A k \in 1..(Len(h) + 1) : Append(h, t)[k] <= clock
  BY <1>1, <1>7, <1>8 DEF MuxInv, PostInv, h, t
<1>14. ASSUME NEW q \in Posters, q # p, poster[q].pc # "idle", NEW r \in Subs, Unheard(poster[q].time, r)
       PROVE  Unheard(poster[q].time, r)'
  <2>1. poster[q].time # t /\ poster'[q] = poster[q]
    BY <1>1, <1>2, <1>14 DEF MuxInv, PostInv, t
  <2>2. CASE r # s
    BY <1>6, <1>14, <2>1, <2>2 DEF Unheard
  <2>3. CASE r = s
    BY <1>6, <1>7, <1>8, <1>14, <2>1, <2>3 DEF Unheard, h
  <2> QED BY <2>2, <2>3
<1>15. ASSUME NEW q \in Posters, q # p PROVE OnePost(q)'
  <2>1. OnePost(q) /\ poster'[q] = poster[q] /\ poster[q].todo \in Seq(Subs)
    BY <1>2, <1>15 DEF MuxInv, PostInv, MuxTyped, PosterType
  <2>2. \A k \in 1..Len(poster[q].todo) : poster[q].todo[k] \in Subs
    BY <2>1
  <2>3. poster'[q].pc # "idle" =>
          /\ poster'[q].time <= clock' /\ \A r \in Subs : created'[r] # poster'[q].time
          /\ IsInjective(poster'[q].todo)
    BY <1>3, <2>1 DEF OnePost
  <2>4. poster'[q].pc # "idle" =>
          \A k \in 1..Len(poster'[q].todo) : Unheard(poster[q].time, poster[q].todo[k])'
    <3> SUFFICES ASSUME poster[q].pc # "idle", NEW k \in 1..Len(poster[q].todo)
                 PROVE  Unheard(poster[q].time, poster[q].todo[k])'
      BY <2>1
    <3>1. Unheard(poster[q].time, poster[q].todo[k])
      BY <2>1 DEF OnePost
    <3> QED BY <1>14, <1>15, <2>1, <2>2, <3>1
  <2>5. poster'[q].pc = "posting" => \A r \in Subs : Unheard(poster[q].time, r)'
    BY <1>14, <1>15, <2>1 DEF OnePost
  <2>6. poster'[q].pc = "select" =>
          poster'[q].todo # <<>> /\ created'[Head(poster'[q].todo)] <= poster'[q].time
    BY <1>3, <2>1 DEF OnePost
  <2> QED BY <2>3, <2>4, <2>5, <2>6 DEF OnePost
<1>16. OnePost(p)'
  <2>1. OnePost(p) /\ \A k \in 1..Len(poster[p].todo) : poster[p].todo[k] \in Subs
    BY DEF MuxInv, PostInv, MuxTyped, PosterType
  <2>2. ASSUME NEW k \in 1..Len(poster'[p].todo) PROVE Unheard(poster[p].time, poster[p].todo[k])'
    <3>1. Unheard(poster[p].time, poster'[p].todo[k]) /\ poster'[p].todo[k] # s /\ poster'[p].todo[k] \in Subs
      BY <1>1, <1>2, <2>1 DEF OnePost
    <3>2. heard'[poster'[p].todo[k]] = heard[poster'[p].todo[k]]
      BY <1>6, <3>1
    <3> QED BY <1>2, <3>1, <3>2 DEF Unheard
  <2> QED BY <1>1, <1>2, <1>3, <2>1, <2>2 DEF OnePost
<1>17. PostInv'
  <2>1. \A r \in Subs : created'[r] <= clock' /\ \A k \in 1..Len(heard'[r]) : heard'[r][k] <= clock'
    BY <1>3, <1>6, <1>7, <1>13 DEF MuxInv, PostInv
  <2>2. \A q, r \in Posters : poster'[q].pc # "idle" /\ poster'[r].pc # "idle" /\ q # r =>
                                poster'[q].time # poster'[r].time
    BY <1>1, <1>2 DEF MuxInv, PostInv
  <2>3. \A q \in Posters : OnePost(q)'
    BY <1>15, <1>16
  <2> QED BY <2>1, <2>2, <2>3 DEF PostInv
<1>18. OnlyNewEventsOnce'
  <2>1. IsInjective(h) /\ \A k \in 1..Len(h) : h[k] # t
    BY <1>1 DEF MuxInv, OnlyNewEventsOnce, h, t
  <2>2. DOMAIN h = 1..Len(h) /\ DOMAIN Append(h, t) = 1..(Len(h) + 1)
    BY <1>5, <1>7, AppendOnce, LenProperties
  <2>3. \A k \in 1..Len(h) : h[k] > created[s]
    BY <1>1, <2>2 DEF MuxInv, OnlyNewEventsOnce, h
  <2>4. t > created[s]
    BY <1>1 DEF t
  <2>5. \A k \in DOMAIN Append(h, t) : Append(h, t)[k] > created[s]
    BY <1>7, <1>8, <2>2, <2>3, <2>4
  <2>6. IsInjective(Append(h, t))
    BY <1>7, <2>1
  <2> QED BY <1>3, <1>6, <2>5, <2>6 DEF MuxInv, OnlyNewEventsOnce
<1> QED BY <1>9, <1>10, <1>11, <1>12, <1>17, <1>18 DEF MuxInv

-----------------------------------------------------------------------------
(* It is kept by a new subscription, which nobody knows yet.                *)

LEMMA SubscribeKeeps == ASSUME MuxInv, NEW s \in Subs, Subscribe(s) PROVE MuxInv'
<1>0. /\ subm \in Seq(Subs) /\ stopped \in BOOLEAN /\ created \in [Subs -> Nat] /\ clock \in Nat
      /\ closed \in [Subs -> BOOLEAN] /\ postC \in [Subs -> {"open", "closed", "nil"}]
      /\ poster \in [Posters -> PosterType] /\ closer \in [Closers -> CloserType]
      /\ heard \in [Subs -> Seq(Nat)]
  BY DEF MuxInv, MuxTyped
<1>1. /\ created[s] = 0 /\ stopping = "none" /\ clock' = clock + 1
      /\ created' = [created EXCEPT ![s] = clock + 1]
      /\ subm' = IF stopped THEN subm ELSE Append(subm, s)
      /\ UNCHANGED <<stopped, stopping, closing, poster, closer, heard>>
  BY DEF Subscribe
<1>2. created'[s] = clock + 1 /\ \A r \in Subs : r # s => created'[r] = created[r]
  BY <1>0, <1>1
<1>3. closed' = [closed EXCEPT ![s] = stopped] /\ closed' \in [Subs -> BOOLEAN] /\ closed'[s] = stopped
      /\ \A r \in Subs : r # s => closed'[r] = closed[r]
  BY <1>0, Zenon DEF Subscribe
<1>4. /\ postC' \in [Subs -> {"open", "closed", "nil"}]
      /\ stopped => postC'[s] = "closed"
      /\ ~stopped => postC'[s] = postC[s]
      /\ \A r \in Subs : r # s => postC'[r] = postC[r]
  BY <1>0 DEF Subscribe
<1>5. ~closed[s] /\ heard[s] = <<>> /\ postC[s] = "open"
  BY <1>1 DEF MuxInv, ExistInv, LockInv
<1>6. /\ \A k \in 1..Len(subm) : subm[k] # s
      /\ \A c \in Closers : \A k \in 1..Len(closer[c].todo) : closer[c].todo[k] # s
      /\ \A p \in Posters : \A k \in 1..Len(poster[p].todo) : poster[p].todo[k] # s
  BY <1>1 DEF MuxInv, ExistInv, Exist
<1>7. /\ Append(subm, s) \in Seq(Subs) /\ Len(Append(subm, s)) = Len(subm) + 1 /\ Len(subm) \in Nat
      /\ \A k \in 1..Len(subm) : Append(subm, s)[k] = subm[k]
      /\ Append(subm, s)[Len(subm) + 1] = s
      /\ IsInjective(Append(subm, s))
  BY <1>0, <1>6, AppendOnce DEF MuxInv, ListInv
<1>8. subm' \in Seq(Subs) /\ IsInjective(subm')
  BY <1>0, <1>1, <1>7 DEF MuxInv, ListInv
<1>9. \A k \in 1..Len(subm') : (~stopped /\ subm'[k] = s) \/ \E j \in 1..Len(subm) : subm'[k] = subm[j]
  <2>1. CASE stopped
    BY <1>1, <2>1
  <2>2. CASE ~stopped
    <3>1. \A k \in 1..(Len(subm) + 1) : k \in 1..Len(subm) \/ k = Len(subm) + 1
      BY <1>7
    <3> QED BY <1>1, <1>7, <2>2, <3>1
  <2> QED BY <2>1, <2>2
<1>10. MuxTyped'
  <2>1. created' \in [Subs -> Nat] /\ clock' \in Nat
    BY <1>0, <1>1
  <2> QED BY <1>1, <1>3, <1>4, <1>8, <2>1 DEF MuxInv, MuxTyped
<1>11. \A r \in Subs : created[r] # 0 => created'[r] # 0
  BY <1>0, <1>2
<1>12. ExistInv'
  <2>1. \A k \in 1..Len(subm) : subm[k] \in Subs /\ created[subm[k]] # 0
    BY <1>0 DEF MuxInv, ExistInv, Exist
  <2>2. created'[s] # 0
    BY <1>0, <1>2
  <2>3. Exist(subm)'
    BY <1>9, <1>11, <2>1, <2>2 DEF Exist
  <2>4. \A p \in Posters : Exist(poster[p].todo)'
    <3>1. \A p \in Posters : \A k \in 1..Len(poster[p].todo) : poster[p].todo[k] \in Subs
      BY <1>0 DEF PosterType
    <3> QED BY <1>1, <1>11, <3>1 DEF MuxInv, ExistInv, Exist
  <2>5. \A c \in Closers : Exist(closer[c].todo)'
    <3>1. \A c \in Closers : \A k \in 1..Len(closer[c].todo) : closer[c].todo[k] \in Subs
      BY <1>0 DEF CloserType
    <3> QED BY <1>1, <1>11, <3>1 DEF MuxInv, ExistInv, Exist
  <2>6. \A r \in Subs : created'[r] = 0 => ~closed'[r] /\ heard'[r] = <<>>
    BY <1>1, <1>2, <1>3, <2>2 DEF MuxInv, ExistInv
  <2> QED BY <2>3, <2>4, <2>5, <2>6 DEF ExistInv
<1>13. ListInv'
  <2>1. ASSUME NEW c \in Closers, c # stopping PROVE Apart(closer[c].todo)'
    <3> SUFFICES ASSUME NEW j \in 1..Len(closer[c].todo), NEW k \in 1..Len(subm')
                 PROVE  closer[c].todo[j] # subm'[k]
      BY <1>1 DEF Apart
    <3> QED BY <1>6, <1>9, <2>1 DEF MuxInv, ListInv, Apart
  <2>2. ClosedIsGone'
    <3> SUFFICES ASSUME NEW k \in 1..Len(subm') PROVE ~closed'[subm'[k]]
      BY <1>8, LenProperties DEF ClosedIsGone
    <3>1. \A j \in 1..Len(subm) : ~closed[subm[j]] /\ subm[j] \in Subs
      BY <1>0, <1>1, LenProperties DEF MuxInv, ListInv, ClosedIsGone
    <3> QED BY <1>3, <1>6, <1>9, <3>1
  <2> QED BY <1>1, <1>8, <2>1, <2>2 DEF ListInv
<1>14. LockInv'
  <2>1. ASSUME NEW c \in Closers, closer[c].pc = "lock"
        PROVE  /\ closer[c].todo # <<>> /\ Head(closer[c].todo) # s /\ Head(closer[c].todo) \in Subs
               /\ closed[Head(closer[c].todo)] /\ postC[Head(closer[c].todo)] = "open"
    <3>1. closer[c].todo # <<>> /\ closed[Head(closer[c].todo)] /\ postC[Head(closer[c].todo)] = "open"
      BY <2>1 DEF MuxInv, LockInv
    <3>2. Head(closer[c].todo) = closer[c].todo[1] /\ Head(closer[c].todo) \in Subs /\ 1 \in 1..Len(closer[c].todo)
      BY <1>0, <3>1, TailOf DEF CloserType
    <3> QED BY <1>6, <3>1, <3>2
  <2>2. \A c \in Closers : closer'[c].pc = "lock" =>
          /\ closer'[c].todo # <<>>
          /\ closed'[Head(closer'[c].todo)] /\ postC'[Head(closer'[c].todo)] = "open"
    BY <1>1, <1>3, <1>4, <2>1
  <2>3. \A c, d \in Closers, r \in Subs : AtLock(c, r)' /\ AtLock(d, r)' => c = d
    BY <1>1 DEF MuxInv, LockInv, AtLock
  <2>4. \A r \in Subs : ~closed'[r] => postC'[r] = "open"
    BY <1>0, <1>3, <1>4, <1>5 DEF MuxInv, LockInv
  <2>5. \A r \in Subs : closed'[r] /\ postC'[r] = "open" => \E c \in Closers : AtLock(c, r)'
    <3>1. ~(closed'[s] /\ postC'[s] = "open")
      BY <1>3, <1>4
    <3> QED BY <1>1, <1>3, <1>4, <3>1 DEF MuxInv, LockInv, AtLock
  <2> QED BY <2>2, <2>3, <2>4, <2>5 DEF LockInv
<1>15. \A r \in Subs : \A k \in 1..Len(heard[r]) : heard[r][k] \in Nat /\ heard[r][k] <= clock
  BY <1>0 DEF MuxInv, PostInv
<1>16. PostInv'
  <2>1. \A r \in Subs : created'[r] <= clock' /\ \A k \in 1..Len(heard'[r]) : heard'[r][k] <= clock'
    <3>1. \A r \in Subs : created[r] <= clock /\ created[r] \in Nat
      BY <1>0 DEF MuxInv, PostInv
    <3> QED BY <1>0, <1>1, <1>2, <1>15, <3>1
  <2>2. ASSUME NEW p \in Posters PROVE OnePost(p)'
    <3>1. OnePost(p) /\ poster[p].time \in Nat /\ poster[p].todo \in Seq(Subs) /\ poster'[p] = poster[p]
      BY <1>0, <1>1 DEF MuxInv, PostInv, PosterType
    <3>2. poster[p].time <= clock => poster[p].time <= clock' /\ poster[p].time # clock + 1
      BY <1>0, <1>1, <3>1
    <3>3. poster[p].todo # <<>> => Head(poster[p].todo) # s /\ Head(poster[p].todo) \in Subs
      BY <1>6, <3>1, TailOf
    <3>4. poster'[p].pc # "idle" =>
            /\ poster'[p].time <= clock' /\ \A r \in Subs : created'[r] # poster'[p].time
            /\ IsInjective(poster'[p].todo)
            /\ \A k \in 1..Len(poster'[p].todo) : Unheard(poster[p].time, poster[p].todo[k])'
      BY <1>1, <1>2, <3>1, <3>2 DEF OnePost, Unheard
    <3>5. poster'[p].pc = "select" =>
            poster'[p].todo # <<>> /\ created'[Head(poster'[p].todo)] <= poster'[p].time
      BY <1>2, <3>1, <3>3 DEF OnePost
    <3>6. poster'[p].pc = "posting" => \A r \in Subs : Unheard(poster[p].time, r)'
      BY <1>1, <3>1 DEF OnePost, Unheard
    <3> QED BY <3>4, <3>5, <3>6 DEF OnePost
  <2>3. \A q, r \in Posters : poster'[q].pc # "idle" /\ poster'[r].pc # "idle" /\ q # r =>
                                poster'[q].time # poster'[r].time
    BY <1>1 DEF MuxInv, PostInv
  <2> QED BY <2>1, <2>2, <2>3 DEF PostInv
<1>17. OnlyNewEventsOnce'
  <2>1. \A k \in DOMAIN heard[s] : FALSE
    BY <1>5
  <2> QED BY <1>1, <1>2, <2>1 DEF MuxInv, OnlyNewEventsOnce
<1> QED BY <1>10, <1>12, <1>13, <1>14, <1>16, <1>17 DEF MuxInv

-----------------------------------------------------------------------------
(* It is kept by Unsubscribe and Stop.                                      *)

\* A step of a closer, which has nothing to do with deliveries.
LEMMA CloserOnly ==
  ASSUME MuxInv, MuxTyped', ListInv', LockInv', Exist(subm)',
         \A c \in Closers : Exist(closer[c].todo)',
         \A s \in Subs : closed'[s] => closed[s] \/ created[s] # 0,
         UNCHANGED <<created, clock, poster, heard>>
  PROVE  MuxInv'
<1>1. ExistInv'
  BY DEF MuxInv, ExistInv, Exist
<1>2. PostInv'
  <2>1. \A p \in Posters : OnePost(p)'
    BY DEF MuxInv, PostInv, OnePost, Unheard
  <2> QED BY <2>1 DEF MuxInv, PostInv
<1>3. OnlyNewEventsOnce'
  BY DEF MuxInv, OnlyNewEventsOnce
<1> QED BY <1>1, <1>2, <1>3 DEF MuxInv

LEMMA UnsubscribeKeeps ==
  ASSUME MuxInv, NEW c \in Closers, NEW s \in Subs, Unsubscribe(c, s) PROVE MuxInv'
<1>0. subm \in Seq(Subs) /\ closer \in [Closers -> CloserType] /\ IsInjective(subm)
  BY DEF MuxInv, MuxTyped, ListInv
<1>1. /\ closer[c].pc = "idle" /\ created[s] # 0 /\ stopping = "none" /\ subm' = del(s)
      /\ closer' = [closer EXCEPT ![c] = [pc |-> "close", todo |-> <<s>>]]
      /\ UNCHANGED <<stopped, stopping, created, clock, closing, closed, postC, poster, heard>>
  BY DEF Unsubscribe, SubVars
<1>2. /\ subm' \in Seq(Subs) /\ IsInjective(subm')
      /\ \A k \in 1..Len(subm') : subm'[k] # s /\ \E j \in 1..Len(subm) : subm'[k] = subm[j]
  BY <1>0, <1>1, DelProperties
<1>3. /\ closer'[c].pc = "close" /\ closer'[c].todo = <<s>> /\ closer' \in [Closers -> CloserType]
      /\ \A d \in Closers : d # c => closer'[d] = closer[d]
  BY <1>0, <1>1 DEF CloserType
<1>4. MuxTyped'
  BY <1>1, <1>2, <1>3 DEF MuxInv, MuxTyped
<1>5. Len(<<s>>) = 1 /\ \A k \in 1..1 : <<s>>[k] = s
  OBVIOUS
<1>6. ListInv'
  <2>1. ASSUME NEW d \in Closers PROVE Apart(closer[d].todo)'
    <3>1. CASE d = c
      BY <1>2, <1>3, <1>5, <3>1 DEF Apart
    <3>2. CASE d # c
      <4>1. Apart(closer[d].todo)
        BY <1>1, NoneIsNoCloser DEF MuxInv, ListInv
      <4> QED BY <1>2, <1>3, <3>2, <4>1 DEF Apart
    <3> QED BY <3>1, <3>2
  <2>2. ClosedIsGone'
    <3>1. DOMAIN subm = 1..Len(subm) /\ DOMAIN subm' = 1..Len(subm')
      BY <1>0, <1>2, LenProperties
    <3> QED BY <1>1, <1>2, <3>1 DEF MuxInv, ListInv, ClosedIsGone
  <2> QED BY <1>2, <2>1, <2>2 DEF ListInv
<1>7. LockInv'
  <2>1. \A d \in Closers, r \in Subs : AtLock(d, r)' <=> AtLock(d, r)
    BY <1>1, <1>3 DEF AtLock
  <2> QED BY <1>1, <1>3, <2>1 DEF MuxInv, LockInv
<1>8. Exist(subm)' /\ \A d \in Closers : Exist(closer[d].todo)'
  <2>1. Exist(subm)'
    BY <1>1, <1>2 DEF MuxInv, ExistInv, Exist
  <2>2. ASSUME NEW d \in Closers PROVE Exist(closer[d].todo)'
    BY <1>1, <1>3, <1>5 DEF MuxInv, ExistInv, Exist
  <2> QED BY <2>1, <2>2
<1> QED BY <1>1, <1>4, <1>6, <1>7, <1>8, CloserOnly

LEMMA StopKeeps == ASSUME MuxInv, NEW c \in Closers, Stop(c) PROVE MuxInv'
<1>0. subm \in Seq(Subs) /\ closer \in [Closers -> CloserType]
  BY DEF MuxInv, MuxTyped
<1>1. /\ closer[c].pc = "idle" /\ stopping = "none" /\ stopping' = c
      /\ closer' = [closer EXCEPT ![c] = [pc |-> "close", todo |-> subm]]
      /\ UNCHANGED <<subm, stopped, created, clock, closing, closed, postC, poster, heard>>
  BY DEF Stop, SubVars
<1>2. /\ closer'[c].pc = "close" /\ closer'[c].todo = subm /\ closer' \in [Closers -> CloserType]
      /\ \A d \in Closers : d # c => closer'[d] = closer[d]
  BY <1>0, <1>1 DEF CloserType
<1>3. MuxTyped'
  BY <1>1, <1>2 DEF MuxInv, MuxTyped
<1>4. ListInv'
  <2>1. \A d \in Closers : d # stopping
    BY <1>1, NoneIsNoCloser
  <2>2. \A d \in Closers : d # stopping' => Apart(closer[d].todo)'
    BY <1>1, <1>2, <2>1 DEF MuxInv, ListInv, Apart
  <2>3. ClosedIsGone'
    BY <1>1, NoneIsNoCloser DEF ClosedIsGone
  <2> QED BY <1>1, <2>2, <2>3 DEF MuxInv, ListInv
<1>5. LockInv'
  <2>1. \A d \in Closers, r \in Subs : AtLock(d, r)' <=> AtLock(d, r)
    BY <1>1, <1>2 DEF AtLock
  <2> QED BY <1>1, <1>2, <2>1 DEF MuxInv, LockInv
<1>6. Exist(subm)' /\ \A d \in Closers : Exist(closer[d].todo)'
  BY <1>1, <1>2 DEF MuxInv, ExistInv, Exist
<1> QED BY <1>1, <1>3, <1>4, <1>5, <1>6, CloserOnly

LEMMA ClosewaitKeeps == ASSUME MuxInv, NEW c \in Closers, Closewait(c) PROVE MuxInv'
<1>0. PICK s : s = Head(closer[c].todo)
  OBVIOUS
<1>1. /\ closer \in [Closers -> CloserType] /\ closed \in [Subs -> BOOLEAN] /\ closing \in [Subs -> BOOLEAN]
      /\ subm \in Seq(Subs)
  BY DEF MuxInv, MuxTyped
<1>2. /\ closer[c].pc = "close" /\ closer[c].todo # <<>>
      /\ UNCHANGED <<subm, stopped, stopping, created, clock, postC, poster, heard>>
  BY DEF Closewait, MuxVars
<1> DEFINE q == closer[c].todo
<1>3. q \in Seq(Subs) /\ q # <<>>
  BY <1>1, <1>2 DEF CloserType
<1>4. /\ s = q[1] /\ s \in Subs /\ Len(q) \in Nat \ {0} /\ Tail(q) \in Seq(Subs)
      /\ Len(Tail(q)) = Len(q) - 1 /\ \A k \in 1..(Len(q) - 1) : Tail(q)[k] = q[k + 1]
  <2> HIDE DEF q
  <2> QED BY <1>0, <1>3, TailOf DEF q
<1>5. \A k \in 1..Len(Tail(q)) : k + 1 \in 1..Len(q) /\ Tail(q)[k] = q[k + 1]
  BY <1>4
<1>6. Exist(q) /\ (c # stopping => Apart(q))
  BY DEF MuxInv, ExistInv, ListInv
<1> DEFINE u == Tail(q)
<1>6a. \A k \in 1..Len(u) : k + 1 \in 1..Len(q) /\ u[k] = q[k + 1]
  BY <1>5
<1>6b. Exist(u) /\ (c # stopping => Apart(u))
  <2> HIDE DEF q, u
  <2> QED BY <1>6, <1>6a DEF Exist, Apart
<1>7. created[s] # 0
  BY <1>4, <1>6 DEF Exist
<1> HIDE DEF q, u
<1>8. CASE closed[s]
  <2>1. closer' = [closer EXCEPT ![c].todo = Tail(@)] /\ UNCHANGED <<closing, closed>>
    BY <1>0, <1>8 DEF Closewait
  <2>2. /\ closer'[c].pc = "close" /\ closer'[c].todo = u /\ closer' \in [Closers -> CloserType]
        /\ \A d \in Closers : d # c => closer'[d] = closer[d]
    BY <1>1, <1>2, <1>4, <2>1 DEF CloserType, q, u
  <2>3. MuxTyped'
    BY <1>2, <2>1, <2>2 DEF MuxInv, MuxTyped
  <2>4. ListInv'
    <3>1. ASSUME NEW d \in Closers, d # stopping' PROVE Apart(closer[d].todo)'
      <4>1. CASE d = c
        BY <1>2, <1>6b, <2>2, <3>1, <4>1 DEF Apart
      <4>2. CASE d # c
        BY <1>2, <2>2, <3>1, <4>2 DEF MuxInv, ListInv, Apart
      <4> QED BY <4>1, <4>2
    <3> QED BY <1>2, <2>1, <3>1 DEF MuxInv, ListInv, ClosedIsGone
  <2>5. LockInv'
    <3>1. \A d \in Closers, r \in Subs : AtLock(d, r)' <=> AtLock(d, r)
      BY <1>2, <2>2 DEF AtLock
    <3> QED BY <1>2, <2>1, <2>2, <3>1 DEF MuxInv, LockInv
  <2>6. Exist(subm)' /\ \A d \in Closers : Exist(closer[d].todo)'
    <3>1. Exist(subm)'
      BY <1>2 DEF MuxInv, ExistInv, Exist
    <3>2. ASSUME NEW d \in Closers PROVE Exist(closer[d].todo)'
      <4>1. CASE d = c
        BY <1>2, <1>6b, <2>2, <4>1 DEF Exist
      <4>2. CASE d # c
        BY <1>2, <2>2, <4>2 DEF MuxInv, ExistInv, Exist
      <4> QED BY <4>1, <4>2
    <3> QED BY <3>1, <3>2
  <2> QED BY <1>2, <2>1, <2>3, <2>4, <2>5, <2>6, CloserOnly
<1>9. CASE ~closed[s]
  <2>1. /\ closing' = [closing EXCEPT ![s] = TRUE] /\ closed' = [closed EXCEPT ![s] = TRUE]
        /\ closer' = [closer EXCEPT ![c].pc = "lock"]
    BY <1>0, <1>9 DEF Closewait
  <2>2. /\ closer'[c].pc = "lock" /\ closer'[c].todo = q /\ closer' \in [Closers -> CloserType]
        /\ \A d \in Closers : d # c => closer'[d] = closer[d]
    BY <1>1, <2>1 DEF CloserType, q
  <2>3. /\ closing' \in [Subs -> BOOLEAN] /\ closed' \in [Subs -> BOOLEAN] /\ closed'[s] = TRUE
        /\ \A r \in Subs : r # s => closed'[r] = closed[r]
    BY <1>1, <1>4, <2>1, Zenon
  <2>4. MuxTyped'
    BY <1>2, <2>2, <2>3 DEF MuxInv, MuxTyped
  <2>5. ListInv'
    <3>1. \A d \in Closers : d # stopping' => Apart(closer[d].todo)'
      BY <1>2, <2>2 DEF MuxInv, ListInv, Apart, q
    <3>2. ClosedIsGone'
      <4> SUFFICES ASSUME stopping = "none", NEW k \in 1..Len(subm) PROVE ~closed'[subm[k]]
        BY <1>1, <1>2, LenProperties DEF ClosedIsGone
      <4>1. ~closed[subm[k]] /\ subm[k] \in Subs
        BY <1>1, LenProperties DEF MuxInv, ListInv, ClosedIsGone
      <4>2. subm[k] # s
        BY <1>4, <1>6, NoneIsNoCloser DEF Apart
      <4> QED BY <2>3, <4>1, <4>2
    <3> QED BY <1>2, <3>1, <3>2 DEF MuxInv, ListInv
  <2>6. LockInv'
    <3>1. \A d \in Closers, r \in Subs : d # c => (AtLock(d, r)' <=> AtLock(d, r))
      BY <2>2 DEF AtLock
    <3>2. \A r \in Subs : AtLock(c, r)' <=> r = s
      BY <1>0, <2>2 DEF AtLock, q
    <3>3. \A d \in Closers : ~AtLock(d, s)
      BY <1>9 DEF MuxInv, LockInv, AtLock
    <3>4. ASSUME NEW d \in Closers, closer'[d].pc = "lock"
          PROVE  /\ closer'[d].todo # <<>>
                 /\ closed'[Head(closer'[d].todo)] /\ postC'[Head(closer'[d].todo)] = "open"
      <4>1. CASE d = c
        BY <1>0, <1>2, <1>3, <1>4, <1>9, <2>2, <2>3, <4>1 DEF MuxInv, LockInv, q
      <4>2. CASE d # c
        <5>1. closer[d].todo # <<>> /\ closed[Head(closer[d].todo)] /\ postC[Head(closer[d].todo)] = "open"
              /\ closer'[d] = closer[d]
          BY <2>2, <3>4, <4>2 DEF MuxInv, LockInv
        <5>2. Head(closer[d].todo) \in Subs
          BY <1>1, <5>1, TailOf DEF CloserType
        <5> QED BY <1>2, <2>3, <5>1, <5>2
      <4> QED BY <4>1, <4>2
    <3>5. \A d, e \in Closers, r \in Subs : AtLock(d, r)' /\ AtLock(e, r)' => d = e
      BY <3>1, <3>2, <3>3 DEF MuxInv, LockInv
    <3>6. \A r \in Subs : ~closed'[r] => postC'[r] = "open"
      BY <1>2, <2>3 DEF MuxInv, LockInv
    <3>7. ASSUME NEW r \in Subs, closed'[r], postC'[r] = "open" PROVE \E d \in Closers : AtLock(d, r)'
      <4>1. CASE r = s
        BY <3>2, <4>1
      <4>2. CASE r # s
        <5>1. PICK d \in Closers : AtLock(d, r)
          BY <1>2, <2>3, <3>7, <4>2 DEF MuxInv, LockInv
        <5>2. d # c
          BY <1>2, <5>1 DEF AtLock
        <5> QED BY <3>1, <5>1, <5>2
      <4> QED BY <4>1, <4>2
    <3> QED BY <3>4, <3>5, <3>6, <3>7 DEF LockInv
  <2>7. Exist(subm)' /\ \A d \in Closers : Exist(closer[d].todo)'
    BY <1>2, <2>2 DEF MuxInv, ExistInv, Exist, q
  <2>8. \A r \in Subs : closed'[r] => closed[r] \/ created[r] # 0
    BY <1>7, <2>3
  <2> QED BY <1>2, <2>4, <2>5, <2>6, <2>7, <2>8, CloserOnly
<1> QED BY <1>8, <1>9

LEMMA ClosePostKeeps == ASSUME MuxInv, NEW c \in Closers, ClosePost(c) PROVE MuxInv'
<1>0. PICK s : s = Head(closer[c].todo)
  OBVIOUS
<1>1. closer \in [Closers -> CloserType] /\ postC \in [Subs -> {"open", "closed", "nil"}]
  BY DEF MuxInv, MuxTyped
<1>2. /\ closer[c].pc = "lock" /\ postC' = [postC EXCEPT ![s] = "nil"]
      /\ closer' = [closer EXCEPT ![c].pc = "close", ![c].todo = Tail(@)]
      /\ UNCHANGED <<subm, stopped, stopping, created, clock, closing, closed, poster, heard>>
  BY <1>0 DEF ClosePost, MuxVars
<1> DEFINE q == closer[c].todo
<1>3. q \in Seq(Subs) /\ q # <<>> /\ closed[s]
  BY <1>0, <1>1, <1>2 DEF CloserType, MuxInv, LockInv
<1>4. /\ s = q[1] /\ s \in Subs /\ Len(q) \in Nat \ {0} /\ Tail(q) \in Seq(Subs)
      /\ Len(Tail(q)) = Len(q) - 1 /\ \A k \in 1..(Len(q) - 1) : Tail(q)[k] = q[k + 1]
  <2> HIDE DEF q
  <2> QED BY <1>0, <1>3, TailOf DEF q
<1>5. \A k \in 1..Len(Tail(q)) : k + 1 \in 1..Len(q) /\ Tail(q)[k] = q[k + 1]
  BY <1>4
<1>6. Exist(q) /\ (c # stopping => Apart(q)) /\ AtLock(c, s)
  BY <1>0, <1>2 DEF MuxInv, ExistInv, ListInv, AtLock
<1> DEFINE u == Tail(q)
<1>6a. \A k \in 1..Len(u) : k + 1 \in 1..Len(q) /\ u[k] = q[k + 1]
  BY <1>5
<1>6b. Exist(u) /\ (c # stopping => Apart(u))
  <2> HIDE DEF q, u
  <2> QED BY <1>6, <1>6a DEF Exist, Apart
<1> HIDE DEF q, u
<1>7. /\ closer'[c].pc = "close" /\ closer'[c].todo = u /\ closer' \in [Closers -> CloserType]
      /\ \A d \in Closers : d # c => closer'[d] = closer[d]
  BY <1>1, <1>2, <1>4 DEF CloserType, q, u
<1>8. /\ postC' \in [Subs -> {"open", "closed", "nil"}] /\ postC'[s] = "nil"
      /\ \A r \in Subs : r # s => postC'[r] = postC[r]
  BY <1>1, <1>2, <1>4
<1>9. MuxTyped'
  BY <1>2, <1>7, <1>8 DEF MuxInv, MuxTyped
<1>10. ListInv'
  <2>1. ASSUME NEW d \in Closers, d # stopping' PROVE Apart(closer[d].todo)'
    <3>1. CASE d = c
      BY <1>2, <1>7, <1>6b, <2>1, <3>1 DEF Apart
    <3>2. CASE d # c
      BY <1>2, <1>7, <2>1, <3>2 DEF MuxInv, ListInv, Apart
    <3> QED BY <3>1, <3>2
  <2> QED BY <1>2, <2>1 DEF MuxInv, ListInv, ClosedIsGone
<1>11. LockInv'
  <2>1. \A d \in Closers, r \in Subs : AtLock(d, r)' <=> AtLock(d, r) /\ d # c
    BY <1>7 DEF AtLock
  <2>2. ASSUME NEW d \in Closers, closer'[d].pc = "lock"
        PROVE  /\ closer'[d].todo # <<>>
               /\ closed'[Head(closer'[d].todo)] /\ postC'[Head(closer'[d].todo)] = "open"
    <3>1. d # c /\ closer'[d] = closer[d]
      BY <1>7, <2>2
    <3>2. closer[d].todo # <<>> /\ closed[Head(closer[d].todo)] /\ postC[Head(closer[d].todo)] = "open"
      BY <2>2, <3>1 DEF MuxInv, LockInv
    <3>3. Head(closer[d].todo) \in Subs
      BY <1>1, <3>2, TailOf DEF CloserType
    <3>4. Head(closer[d].todo) # s
      BY <1>4, <1>6, <2>2, <3>1 DEF MuxInv, LockInv, AtLock
    <3> QED BY <1>2, <1>8, <3>1, <3>2, <3>3, <3>4
  <2>3. \A d, e \in Closers, r \in Subs : AtLock(d, r)' /\ AtLock(e, r)' => d = e
    BY <2>1 DEF MuxInv, LockInv
  <2>4. \A r \in Subs : ~closed'[r] => postC'[r] = "open"
    BY <1>2, <1>3, <1>8 DEF MuxInv, LockInv
  <2>5. ASSUME NEW r \in Subs, closed'[r], postC'[r] = "open" PROVE \E d \in Closers : AtLock(d, r)'
    <3>1. r # s
      BY <1>8, <2>5
    <3>2. PICK d \in Closers : AtLock(d, r)
      BY <1>2, <1>8, <2>5, <3>1 DEF MuxInv, LockInv
    <3>3. d # c
      BY <1>6, <3>1, <3>2 DEF AtLock
    <3> QED BY <2>1, <3>2, <3>3
  <2> QED BY <2>2, <2>3, <2>4, <2>5 DEF LockInv
<1>12. Exist(subm)' /\ \A d \in Closers : Exist(closer[d].todo)'
  BY <1>2, <1>7, <1>6b DEF MuxInv, ExistInv, Exist
<1> QED BY <1>2, <1>9, <1>10, <1>11, <1>12, CloserOnly

LEMMA ClosedKeeps == ASSUME MuxInv, NEW c \in Closers, Closed(c) PROVE MuxInv'
<1>0. closer \in [Closers -> CloserType] /\ subm \in Seq(Subs)
  BY DEF MuxInv, MuxTyped
<1>1. /\ closer[c].pc = "close" /\ closer[c].todo = <<>> /\ closer' = [closer EXCEPT ![c].pc = "returned"]
      /\ UNCHANGED <<created, clock, closing, closed, postC, poster, heard>>
  BY DEF Closed, SubVars
<1>2. /\ closer' \in [Closers -> CloserType] /\ closer'[c].pc = "returned"
      /\ \A d \in Closers : closer'[d].todo = closer[d].todo /\ (d # c => closer'[d] = closer[d])
  BY <1>0, <1>1 DEF CloserType
<1>3. <<>> \in Seq(Subs) /\ Len(<<>>) = 0 /\ 1..0 = {} /\ DOMAIN <<>> = {}
  OBVIOUS
<1>4. LockInv'
  <2>1. \A d \in Closers, r \in Subs : AtLock(d, r)' <=> AtLock(d, r)
    BY <1>1, <1>2 DEF AtLock
  <2> QED BY <1>1, <1>2, <2>1 DEF MuxInv, LockInv
<1>5. \A d \in Closers : Exist(closer[d].todo)'
  BY <1>1, <1>2 DEF MuxInv, ExistInv, Exist
<1>6. CASE stopping = c
  <2>1. subm' = <<>> /\ stopped' = TRUE /\ stopping' = "none"
    BY <1>6 DEF Closed
  <2>2. MuxTyped'
    BY <1>1, <1>2, <1>3, <2>1 DEF MuxInv, MuxTyped
  <2>3. ListInv' /\ Exist(subm)'
    BY <1>3, <2>1 DEF ListInv, Apart, IsInjective, ClosedIsGone, Exist
  <2> QED BY <1>1, <1>4, <1>5, <2>2, <2>3, CloserOnly
<1>7. CASE stopping # c
  <2>1. UNCHANGED <<subm, stopped, stopping>>
    BY <1>7 DEF Closed
  <2>2. MuxTyped'
    BY <1>1, <1>2, <2>1 DEF MuxInv, MuxTyped
  <2>3. ListInv' /\ Exist(subm)'
    BY <1>1, <1>2, <2>1 DEF MuxInv, ExistInv, ListInv, Apart, ClosedIsGone, Exist
  <2> QED BY <1>1, <1>4, <1>5, <2>2, <2>3, CloserOnly
<1> QED BY <1>6, <1>7

-----------------------------------------------------------------------------
(* What follows from the invariant.                                         *)

LEMMA MuxInvNext == MuxInv /\ [MuxNext]_muxVars => MuxInv'
<1> SUFFICES ASSUME MuxInv, [MuxNext]_muxVars PROVE MuxInv'
  OBVIOUS
<1>1. CASE \E s \in Subs : Subscribe(s)
  BY <1>1, SubscribeKeeps
<1>2. ASSUME NEW p \in Posters, Post(p) \/ PostStep(p) PROVE MuxInv'
  BY <1>2, PostKeeps, ReadSubsKeeps, DeliverKeeps, SentKeeps, GivenUpKeeps, PostedKeeps DEF PostStep
<1>3. ASSUME NEW c \in Closers, Stop(c) \/ CloseStep(c) \/ \E s \in Subs : Unsubscribe(c, s) PROVE MuxInv'
  BY <1>3, StopKeeps, UnsubscribeKeeps, ClosewaitKeeps, ClosePostKeeps, ClosedKeeps DEF CloseStep
<1>4. CASE UNCHANGED muxVars
  <2>1. MuxTyped' /\ ExistInv'
    BY <1>4 DEF muxVars, MuxInv, MuxTyped, ExistInv, Exist
  <2>2. ListInv'
    BY <1>4 DEF muxVars, MuxInv, ListInv, Apart, ClosedIsGone
  <2>3. LockInv'
    BY <1>4 DEF muxVars, MuxInv, LockInv, AtLock
  <2>4. PostInv' /\ OnlyNewEventsOnce'
    BY <1>4 DEF muxVars, MuxInv, PostInv, OnePost, Unheard, OnlyNewEventsOnce
  <2> QED BY <2>1, <2>4, <2>2, <2>3 DEF MuxInv
<1> QED BY <1>1, <1>2, <1>3, <1>4 DEF MuxNext

LEMMA ClosewaitClosesIt == MuxInv => ClosewaitCloses
BY DEF MuxInv, LockInv, AtLock, ClosewaitCloses, InClosewait, WantsLock

\* A channel is closed by the one closer that found it open, and only when no delivery
\* is under way; that of a subscription to a stopped mux is known to nobody.
LEMMA ClosedBetween ==
  ASSUME MuxInv, [MuxNext]_muxVars, NEW s \in Subs, postC'[s] # postC[s]
  PROVE  postC[s] = "open" /\ Delivering(s) = {}
<1>0. postC \in [Subs -> {"open", "closed", "nil"}] /\ created \in [Subs -> Nat]
  BY DEF MuxInv, MuxTyped
<1>1. ASSUME NEW r \in Subs, Subscribe(r) PROVE postC[s] = "open" /\ Delivering(s) = {}
  <2>1. r = s /\ created[s] = 0
    BY <1>0, <1>1 DEF Subscribe
  <2>2. ASSUME NEW p \in Posters, poster[p].pc = "select", Head(poster[p].todo) = s PROVE FALSE
    <3>1. poster[p].todo # <<>> /\ poster[p].todo \in Seq(Subs) /\ Exist(poster[p].todo)
      BY <2>2 DEF MuxInv, MuxTyped, PosterType, PostInv, OnePost, ExistInv
    <3>2. s = poster[p].todo[1] /\ 1 \in 1..Len(poster[p].todo)
      BY <2>2, <3>1, TailOf
    <3> QED BY <2>1, <3>1, <3>2 DEF Exist
  <2>3. postC[s] = "open"
    BY <2>1 DEF MuxInv, ExistInv, LockInv
  <2> QED BY <2>2, <2>3 DEF Delivering
<1>2. ASSUME NEW c \in Closers, ClosePost(c) PROVE postC[s] = "open" /\ Delivering(s) = {}
  <2>1. closer[c].pc = "lock" /\ s = Head(closer[c].todo) /\ Delivering(Head(closer[c].todo)) = {}
    BY <1>0, <1>2 DEF ClosePost
  <2> QED BY <2>1 DEF MuxInv, LockInv
<1> QED BY <1>1, <1>2 DEF MuxNext, PostStep, CloseStep, Post, ReadSubs, Deliver, Sent, GivenUp, Posted,
           Unsubscribe, Stop, Closewait, Closed, SubVars, muxVars

\* Only an open channel is sent on, and one whose closewait returned is not open.
LEMMA NothingMore ==
  ASSUME MuxInv, [MuxNext]_muxVars, NEW s \in Subs, heard'[s] # heard[s]
  PROVE  ~(closed[s] /\ InClosewait(s) = {})
<1>0. heard \in [Subs -> Seq(Nat)] /\ ClosewaitCloses
  BY ClosewaitClosesIt DEF MuxInv, MuxTyped
<1>1. ASSUME NEW p \in Posters, Sent(p) PROVE postC[s] = "open"
  <2>1. s = Head(poster[p].todo)
    BY <1>0, <1>1 DEF Sent
  <2> QED BY <1>1, <2>1 DEF Sent
<1>2. postC[s] = "open"
  BY <1>1 DEF MuxNext, PostStep, CloseStep, Subscribe, Post, ReadSubs, Deliver, GivenUp, Posted,
           Unsubscribe, Stop, Closewait, ClosePost, Closed, muxVars
<1> QED BY <1>0, <1>2 DEF ClosewaitCloses

\* For any number of posters, subscriptions and closers, of which any may stop the mux:
\* each channel is closed once and while no delivery is under way, nothing is delivered
\* after a closewait returned, nobody hears an event twice or an older one, and what is
\* closed is no longer in the mux (event.go, deliver, closewait, del and Stop).
THEOREM MuxAlwaysClosesCleanly == MuxSpec => MuxClosesCleanly
<1>1. MuxInit => MuxInv
  BY MuxInvInit
<1>2. MuxInv /\ [MuxNext]_muxVars => MuxInv'
  BY MuxInvNext
<1>3. MuxInv => ClosewaitCloses /\ OnlyNewEventsOnce /\ ClosedIsGone
  BY ClosewaitClosesIt DEF MuxInv, ListInv
<1>4. MuxInv /\ [MuxNext]_muxVars =>
        [\A s \in Subs : postC'[s] # postC[s] => postC[s] = "open" /\ Delivering(s) = {}]_muxVars
  BY ClosedBetween
<1>5. MuxInv /\ [MuxNext]_muxVars =>
        [\A s \in Subs : heard'[s] # heard[s] => ~(closed[s] /\ InClosewait(s) = {})]_muxVars
  BY NothingMore
<1> QED BY <1>1, <1>2, <1>3, <1>4, <1>5, PTL DEF MuxSpec, MuxClosesCleanly, ClosedBetweenDeliveries, NothingAfterClose

-----------------------------------------------------------------------------
(* Feed: what the channels' cases, the subscriptions and the running Send    *)
(* have to do with each other.                                              *)

SubStates == {"new", "subscribed", "removing", "waiting", "done"}
SenderStates == {"idle", "locked", "joined", "typing", "trying", "selecting", "panicked"}
Joined == {"joined", "typing", "trying", "selecting"}

FeedTyped ==
  /\ sendLock \in BOOLEAN /\ sendCases \in Seq(Channels) /\ inbox \in Seq(Channels)
  /\ cases \in Nat /\ i \in Nat \ {0} /\ nsent \in Nat /\ value \in Nat
  /\ pc \in [Senders \cup FeedSubs -> SubStates \cup SenderStates]
  /\ \A s \in FeedSubs : pc[s] \in SubStates
  /\ \A p \in Senders : pc[p] \in SenderStates
  /\ got \in [Channels -> Seq(Nat)] /\ audience \subseteq FeedSubs

\* Whoever is inside Send has the lock.
OneSender ==
  \A p \in Senders : pc[p] # "idle" =>
    ~sendLock /\ \A q \in Senders : pc[q] # "idle" => q = p

Sending == \E p \in Senders : pc[p] \in Joined

\* The subscriptions whose case the inbox may still hold.
MayBeInInbox(c) ==
  {s \in On(c) : pc[s] = "removing" \/ (pc[s] = "subscribed" /\ ~(Sending /\ s \in audience))}

CountedOn(c) ==
  /\ Occurrences(sendCases, c) + Occurrences(inbox, c) = Cardinality(Live \cap On(c))
  /\ Occurrences(inbox, c) <= Cardinality(MayBeInInbox(c))

Counted ==
  /\ \A c \in Channels : CountedOn(c)
  /\ Sending => \A s \in audience : pc[s] # "new"

InOrder ==
  \A c \in Channels :
    /\ \A j, k \in DOMAIN got[c] : j < k => got[c][j] <= got[c][k]
    /\ \A k \in DOMAIN got[c] : got[c][k] <= value

\* Where, and how often, x is in a sequence from place a to place b.
PlacesOf(seq, x, a, b) == {k \in a..b : seq[k] = x}
Count(seq, x, a, b) == Cardinality(PlacesOf(seq, x, a, b))

NothingSent == nsent = 0 /\ \A c \in Channels : \A k \in DOMAIN got[c] : got[c][k] < value

\* Those that are not served yet and the deliveries are no more than there were
\* subscriptions; those that are served have had a delivery.
ServedOn(c) ==
  /\ Count(sendCases, c, 1, cases) + Occurrences(got[c], value) <= Cardinality(audience \cap On(c))
  /\ Count(sendCases, c, cases + 1, Len(sendCases)) <= Occurrences(got[c], value)

Served ==
  /\ cases <= Len(sendCases)
  /\ IsFiniteSet(Deliveries(value)) /\ nsent = Cardinality(Deliveries(value))
  /\ \A c \in Channels : ServedOn(c)

SendInv ==
  \A p \in Senders :
    /\ pc[p] = "locked" => NothingSent
    /\ pc[p] \in {"joined", "typing"} =>
         NothingSent /\ \A c \in Channels : Occurrences(sendCases, c) <= Cardinality(audience \cap On(c))
    /\ pc[p] \in {"trying", "selecting"} => Served

FeedInv == FeedTyped /\ OneSender /\ Counted /\ InOrder /\ SendInv

-----------------------------------------------------------------------------
(* Least numbers and removal.                                               *)

\* A non-empty set of numbers has the minimum that Min chooses.
LEMMA MinIsLeast ==
  ASSUME NEW S \in SUBSET Nat, S # {}
  PROVE  Min(S) \in S /\ \A y \in S : Min(S) <= y
<1> DEFINE Less == {ss \in Nat \X Nat : ss[1] < ss[2]}
<1>1. OpToRel(<, Nat) = Less
  BY Zenon DEF OpToRel
<1>2. \E x \in S : \A y \in S : ~(<<y, x>> \in OpToRel(<, Nat))
  BY NatLessThanWellFounded, WFMin, Zenon
<1>3. PICK x \in S : \A y \in S : ~(<<y, x>> \in Less)
  BY <1>1, <1>2, Zenon
<1>4. ASSUME NEW y \in S PROVE x <= y
  <2>1. <<y, x>> \in Nat \X Nat /\ <<y, x>>[1] = y /\ <<y, x>>[2] = x
    OBVIOUS
  <2>2. ~(y < x)
    BY <1>3, <2>1, Zenon
  <2> QED BY <2>2
<1> QED BY <1>4 DEF Min

\* RemoveAt moves what is behind by one place.
LEMMA RemoveAtProperties ==
  ASSUME NEW S, NEW q \in Seq(S), NEW k \in 1..Len(q)
  PROVE  /\ RemoveAt(q, k) \in Seq(S)
         /\ Len(RemoveAt(q, k)) = Len(q) - 1
         /\ \A j \in 1..(Len(q) - 1) : RemoveAt(q, k)[j] = IF j < k THEN q[j] ELSE q[j + 1]
<1>1. Len(q) \in Nat /\ \A j \in 1..Len(q) : q[j] \in S
  BY LenProperties, ElementOfSeq
<1> DEFINE l == SubSeq(q, 1, k - 1)
           r == SubSeq(q, k + 1, Len(q))
<1>2. l \in Seq(S) /\ Len(l) = k - 1 /\ \A j \in 1..(k - 1) : l[j] = q[j]
  BY <1>1, SubSeqProperties
<1>3. r \in Seq(S) /\ Len(r) = Len(q) - k /\ \A j \in 1..(Len(q) - k) : r[j] = q[k + j]
  <2>1. \A j \in (k + 1)..Len(q) : q[j] \in S
    BY <1>1
  <2>2. /\ r \in Seq(S) /\ Len(r) = IF k + 1 <= Len(q) THEN Len(q) - (k + 1) + 1 ELSE 0
        /\ \A j \in 1..(Len(q) - (k + 1) + 1) : r[j] = q[(k + 1) + j - 1]
    BY <1>1, <2>1, SubSeqProperties
  <2> QED BY <1>1, <2>2
<1> HIDE DEF l, r
<1>4. /\ l \o r \in Seq(S) /\ Len(l \o r) = Len(q) - 1
      /\ \A j \in 1..(Len(q) - 1) : (l \o r)[j] = IF j <= k - 1 THEN l[j] ELSE r[j - (k - 1)]
  <2>1. k \in Int /\ (k - 1) + (Len(q) - k) = Len(q) - 1
    BY <1>1
  <2>2. /\ l \o r \in Seq(S) /\ Len(l \o r) = Len(l) + Len(r)
        /\ \A j \in 1..(Len(l) + Len(r)) : (l \o r)[j] = IF j <= Len(l) THEN l[j] ELSE r[j - Len(l)]
    BY <1>2, <1>3, ConcatProperties
  <2>3. Len(l) + Len(r) = Len(q) - 1
    BY <1>2, <1>3, <2>1
  <2> QED BY <1>2, <2>2, <2>3
<1>5. ASSUME NEW j \in 1..(Len(q) - 1)
      PROVE  (l \o r)[j] = IF j < k THEN q[j] ELSE q[j + 1]
  <2>1. CASE j < k
    <3>1. j \in 1..(k - 1) /\ j <= k - 1
      BY <1>1, <2>1
    <3> QED BY <1>2, <1>4, <2>1, <3>1
  <2>2. CASE j >= k
    <3>1. j - (k - 1) \in 1..(Len(q) - k) /\ k + (j - (k - 1)) = j + 1 /\ ~(j <= k - 1) /\ ~(j < k)
      BY <1>1, <2>2
    <3>2. (l \o r)[j] = r[j - (k - 1)]
      BY <1>4, <3>1
    <3>3. r[j - (k - 1)] = q[j + 1]
      BY <1>3, <3>1
    <3> QED BY <3>1, <3>2, <3>3
  <2>3. j < k \/ j >= k
    BY <1>1
  <2> QED BY <2>1, <2>2, <2>3, Zenon
<1> QED BY <1>4, <1>5 DEF RemoveAt, l, r

-----------------------------------------------------------------------------
(* Counting in sequences.                                                   *)

\* A count is a number.
LEMMA CountIsNatural ==
  ASSUME NEW seq, NEW x, NEW a \in Int, NEW b \in Int
  PROVE  IsFiniteSet(PlacesOf(seq, x, a, b)) /\ Count(seq, x, a, b) \in Nat
<1>1. IsFiniteSet(a..b) /\ PlacesOf(seq, x, a, b) \in SUBSET (a..b)
  BY FS_Interval DEF PlacesOf
<1>2. IsFiniteSet(PlacesOf(seq, x, a, b))
  BY <1>1, FS_Subset
<1> QED BY <1>2, FS_CardinalityType DEF Count

\* What is counted in two parts.
LEMMA CountSplit ==
  ASSUME NEW seq, NEW x, NEW a \in Int, NEW m \in Int, NEW b \in Int, a - 1 <= m, m <= b
  PROVE  Count(seq, x, a, b) = Count(seq, x, a, m) + Count(seq, x, m + 1, b)
<1> DEFINE S == PlacesOf(seq, x, a, m)
           T == PlacesOf(seq, x, m + 1, b)
<1>1. IsFiniteSet(S) /\ IsFiniteSet(T)
  <2>1. m + 1 \in Int
    OBVIOUS
  <2> QED BY <2>1, CountIsNatural, Zenon
<1>2. PlacesOf(seq, x, a, b) = S \cup T
  BY DEF PlacesOf
<1>3. S \cap T = {}
  BY DEF PlacesOf
<1> HIDE DEF S, T
<1>4. Cardinality(S \cup T) = Cardinality(S) + Cardinality(T) - 0
  BY <1>1, <1>3, FS_Union, FS_EmptySet
<1>5. Cardinality(S) \in Nat /\ Cardinality(T) \in Nat
  BY <1>1, FS_CardinalityType
<1> QED BY <1>2, <1>4, <1>5 DEF Count, S, T

\* One place.
LEMMA CountOne ==
  ASSUME NEW seq, NEW x, NEW a \in Int
  PROVE  Count(seq, x, a, a) = IF seq[a] = x THEN 1 ELSE 0
<1>1. a..a = {a}
  OBVIOUS
<1>2. CASE seq[a] = x
  <2>1. PlacesOf(seq, x, a, a) = {a}
    BY <1>1, <1>2 DEF PlacesOf
  <2> QED BY <1>2, <2>1, FS_Singleton DEF Count
<1>3. CASE seq[a] # x
  <2>1. PlacesOf(seq, x, a, a) = {}
    BY <1>1, <1>3 DEF PlacesOf
  <2> QED BY <1>3, <2>1, FS_EmptySet DEF Count
<1> QED BY <1>2, <1>3

\* No place.
LEMMA CountNone ==
  ASSUME NEW seq, NEW x, NEW a \in Int, NEW b \in Int, b < a
  PROVE  Count(seq, x, a, b) = 0
<1>1. PlacesOf(seq, x, a, b) = {}
  BY DEF PlacesOf
<1> QED BY <1>1, FS_EmptySet DEF Count

\* The same elements at places that are d further.
Shifted(seq, to, a, b, d) == \A k \in a..b : to[k + d] = seq[k]

\* They are as many.
LEMMA CountShift ==
  ASSUME NEW seq, NEW to, NEW x, NEW a \in Int, NEW b \in Int, NEW d \in Int,
         Shifted(seq, to, a, b, d), NEW a2, a2 = a + d, NEW b2, b2 = b + d
  PROVE  Count(to, x, a2, b2) = Count(seq, x, a, b)
<1> USE DEF Shifted
<1> DEFINE S == PlacesOf(seq, x, a, b)
           T == PlacesOf(to, x, a + d, b + d)
           g == [k \in S |-> k + d]
<1>1. ASSUME NEW k \in S PROVE k + d \in T
  BY DEF PlacesOf
<1>2. ASSUME NEW n \in T PROVE n - d \in S /\ (n - d) + d = n
  <2>1. n - d \in a..b /\ (n - d) + d = n
    BY DEF PlacesOf
  <2> QED BY <2>1 DEF PlacesOf
<1>3. S \subseteq Int
  BY DEF PlacesOf
<1>4. IsFiniteSet(S)
  BY CountIsNatural
<1> HIDE DEF S, T
<1>5. g \in [S -> T] /\ \A k \in S : g[k] = k + d
  BY <1>1
<1> HIDE DEF g
<1>6. \A j, k \in S : g[j] = g[k] => j = k
  BY <1>3, <1>5
<1>7. \A n \in T : \E k \in S : g[k] = n
  BY <1>2, <1>5
<1>8. g \in Bijection(S, T)
  BY <1>5, <1>6, <1>7 DEF Bijection, Injection, Surjection, IsInjective
<1>9. Cardinality(T) = Cardinality(S)
  BY <1>4, <1>8, FS_Bijection DEF ExistsBijection
<1> QED BY <1>9 DEF Count, S, T

\* The same elements at the same places.
LEMMA CountSame ==
  ASSUME NEW seq, NEW to, NEW x, NEW a \in Int, NEW b \in Int, \A k \in a..b : to[k] = seq[k]
  PROVE  Count(to, x, a, b) = Count(seq, x, a, b)
<1>1. PlacesOf(to, x, a, b) = PlacesOf(seq, x, a, b)
  BY DEF PlacesOf
<1> QED BY <1>1 DEF Count

\* Occurrences are counted from the first place to the last.
LEMMA OccurrencesCounted ==
  ASSUME NEW S, NEW seq \in Seq(S), NEW x
  PROVE  Occurrences(seq, x) = Count(seq, x, 1, Len(seq)) /\ Occurrences(seq, x) \in Nat
<1>1. DOMAIN seq = 1..Len(seq) /\ Len(seq) \in Nat
  BY LenProperties
<1>2. Occurrences(seq, x) = Count(seq, x, 1, Len(seq))
  BY <1>1, Zenon DEF Occurrences, Count, PlacesOf
<1>3. 1 \in Int /\ Len(seq) \in Int
  BY <1>1
<1>4. Count(seq, x, 1, Len(seq)) \in Nat
  BY <1>3, CountIsNatural, Zenon
<1> QED BY <1>2, <1>4

\* An appended element is counted.
LEMMA AppendCounts ==
  ASSUME NEW S, NEW seq \in Seq(S), NEW e \in S, NEW x
  PROVE  Occurrences(Append(seq, e), x) = Occurrences(seq, x) + (IF e = x THEN 1 ELSE 0)
<1> DEFINE to == Append(seq, e)
           n == Len(seq)
<1>1. /\ to \in Seq(S) /\ Len(to) = n + 1 /\ n \in Nat
      /\ \A k \in 1..n : to[k] = seq[k]
      /\ to[n + 1] = e
  BY AppendProperties, LenProperties
<1> HIDE DEF to, n
<1>2. Occurrences(to, x) = Count(to, x, 1, n + 1)
  BY <1>1, OccurrencesCounted
<1>3. Occurrences(seq, x) = Count(seq, x, 1, n)
  BY OccurrencesCounted DEF n
<1>4. Count(to, x, 1, n) = Count(seq, x, 1, n)
  BY <1>1, CountSame
<1>5. Count(to, x, 1, n + 1) = Count(to, x, 1, n) + Count(to, x, n + 1, n + 1)
  BY <1>1, CountSplit
<1>6. Count(to, x, n + 1, n + 1) = IF e = x THEN 1 ELSE 0
  BY <1>1, CountOne
<1> QED BY <1>2, <1>3, <1>4, <1>5, <1>6 DEF to

\* What two sequences have together.
LEMMA ConcatCounts ==
  ASSUME NEW S, NEW seq \in Seq(S), NEW more \in Seq(S), NEW x
  PROVE  Occurrences(seq \o more, x) = Occurrences(seq, x) + Occurrences(more, x)
<1> DEFINE to == seq \o more
           n == Len(seq)
           m == Len(more)
<1>1. /\ to \in Seq(S) /\ Len(to) = n + m /\ n \in Nat /\ m \in Nat
      /\ \A k \in 1..(n + m) : to[k] = IF k <= n THEN seq[k] ELSE more[k - n]
  BY ConcatProperties, LenProperties
<1> HIDE DEF to, n, m
<1>2. Occurrences(to, x) = Count(to, x, 1, n + m)
  BY <1>1, OccurrencesCounted
<1>3. Occurrences(seq, x) = Count(seq, x, 1, n) /\ Occurrences(more, x) = Count(more, x, 1, m)
  BY OccurrencesCounted DEF n, m
<1>4. Count(to, x, 1, n) = Count(seq, x, 1, n)
  <2>1. \A k \in 1..n : to[k] = seq[k]
    BY <1>1
  <2> QED BY <1>1, <2>1, CountSame
<1>5. Count(to, x, 1 + n, m + n) = Count(more, x, 1, m)
  <2>1. ASSUME NEW k \in 1..m PROVE to[k + n] = more[k]
    <3>1. k + n \in 1..(n + m) /\ ~(k + n <= n) /\ (k + n) - n = k
      BY <1>1
    <3> QED BY <1>1, <3>1
  <2>2. 1 \in Int /\ m \in Int /\ n \in Int
    BY <1>1
  <2>3. Shifted(more, to, 1, m, n)
    BY <2>1 DEF Shifted
  <2> QED BY <1>1, <2>2, <2>3, CountShift
<1>6. Count(to, x, 1, n + m) = Count(to, x, 1, n) + Count(to, x, n + 1, n + m)
  BY <1>1, CountSplit
<1>7. 1 + n = n + 1 /\ m + n = n + m
  BY <1>1
<1> QED BY <1>2, <1>3, <1>4, <1>5, <1>6, <1>7 DEF to

\* An element that is removed is no longer counted, neither in all nor in its part.
CountsWithout(seq, k, x) ==
  /\ seq[k] = x => Occurrences(RemoveAt(seq, k), x) = Occurrences(seq, x) - 1
  /\ seq[k] # x => Occurrences(RemoveAt(seq, k), x) = Occurrences(seq, x)
  /\ \A m \in k..Len(seq) :
       /\ seq[k] = x => Count(RemoveAt(seq, k), x, 1, m - 1) = Count(seq, x, 1, m) - 1
       /\ seq[k] # x => Count(RemoveAt(seq, k), x, 1, m - 1) = Count(seq, x, 1, m)
       /\ Count(RemoveAt(seq, k), x, m, Len(seq) - 1) = Count(seq, x, m + 1, Len(seq))
  /\ \A m \in 0..(k - 1) :
       /\ Count(RemoveAt(seq, k), x, 1, m) = Count(seq, x, 1, m)
       /\ seq[k] = x => Count(RemoveAt(seq, k), x, m + 1, Len(seq) - 1) = Count(seq, x, m + 1, Len(seq)) - 1
       /\ seq[k] # x => Count(RemoveAt(seq, k), x, m + 1, Len(seq) - 1) = Count(seq, x, m + 1, Len(seq))

\* That is what RemoveAt does.
LEMMA RemoveAtCounts ==
  ASSUME NEW S, NEW seq \in Seq(S), NEW k \in 1..Len(seq), NEW x
  PROVE  CountsWithout(seq, k, x)
<1> DEFINE n == Len(seq)
           to == RemoveAt(seq, k)
<1>1. n \in Nat /\ k \in Int /\ 1 <= k /\ k <= n
  BY LenProperties
<1>2. /\ to \in Seq(S) /\ Len(to) = n - 1
      /\ \A j \in 1..(n - 1) : to[j] = IF j < k THEN seq[j] ELSE seq[j + 1]
  BY RemoveAtProperties
<1>3. Occurrences(seq, x) = Count(seq, x, 1, n) /\ Occurrences(to, x) = Count(to, x, 1, n - 1)
  BY <1>2, OccurrencesCounted
<1> HIDE DEF n, to
<1>4. Count(seq, x, k, k) \in Nat /\ (seq[k] = x => Count(seq, x, k, k) = 1) /\ (seq[k] # x => Count(seq, x, k, k) = 0)
  BY CountOne
\* Before the removed place nothing moves, behind it everything by one.
<1>5. ASSUME NEW a \in Nat \ {0}, NEW b \in Nat, b <= k - 1
      PROVE  Count(to, x, a, b) = Count(seq, x, a, b)
  <2>1. ASSUME NEW j \in a..b PROVE to[j] = seq[j]
    <3>1. j \in 1..(n - 1) /\ j < k
      BY <1>1, <1>5
    <3> QED BY <1>2, <3>1
  <2> QED BY <2>1, CountSame
<1>6. ASSUME NEW a \in Nat, k <= a, NEW b \in Nat, b <= n - 1
      PROVE  Count(to, x, a, b) = Count(seq, x, a + 1, b + 1)
  <2>1. a \in Int /\ b \in Int /\ 1 \in Int
    OBVIOUS
  <2>2. Shifted(to, seq, a, b, 1)
    <3> SUFFICES ASSUME NEW j \in a..b PROVE seq[j + 1] = to[j]
      BY DEF Shifted
    <3>1. j \in 1..(n - 1) /\ ~(j < k)
      BY <1>1, <1>6
    <3> QED BY <1>2, <3>1
  <2> QED BY <2>1, <2>2, CountShift
<1>7. \A a, b \in Int : Count(seq, x, a, b) \in Nat /\ Count(to, x, a, b) \in Nat
  BY CountIsNatural, Zenon
<1>8. ASSUME NEW m \in k..n
      PROVE  /\ Count(to, x, 1, m - 1) = Count(seq, x, 1, m) - Count(seq, x, k, k)
             /\ Count(to, x, m, n - 1) = Count(seq, x, m + 1, n)
  <2>0. m \in Nat /\ m - 1 \in Nat /\ k - 1 \in Nat /\ k \in Nat /\ n - 1 \in Nat /\ k <= m /\ m <= n
    BY <1>1
  <2>1. Count(to, x, 1, m - 1) = Count(to, x, 1, k - 1) + Count(to, x, k, m - 1)
    <3>1. Count(to, x, 1, m - 1) = Count(to, x, 1, k - 1) + Count(to, x, (k - 1) + 1, m - 1)
      BY <1>1, <2>0, CountSplit
    <3> QED BY <1>1, <3>1
  <2>2. Count(to, x, 1, k - 1) = Count(seq, x, 1, k - 1)
    BY <1>5, <2>0
  <2>3. Count(to, x, k, m - 1) = Count(seq, x, k + 1, m)
    <3>1. k <= k /\ m - 1 <= n - 1 /\ (m - 1) + 1 = m
      BY <1>1, <2>0
    <3>2. Count(to, x, k, m - 1) = Count(seq, x, k + 1, (m - 1) + 1)
      BY <1>6, <2>0, <3>1, Zenon
    <3> QED BY <3>1, <3>2
  <2>4. Count(seq, x, 1, m) = Count(seq, x, 1, k) + Count(seq, x, k + 1, m)
    BY <1>1, <2>0, CountSplit
  <2>5. Count(seq, x, 1, k) = Count(seq, x, 1, k - 1) + Count(seq, x, k, k)
    <3>1. Count(seq, x, 1, k) = Count(seq, x, 1, k - 1) + Count(seq, x, (k - 1) + 1, k)
      BY <1>1, <2>0, CountSplit
    <3> QED BY <1>1, <3>1
  <2>6. Count(to, x, m, n - 1) = Count(seq, x, m + 1, n)
    <3>1. Count(to, x, m, n - 1) = Count(seq, x, m + 1, (n - 1) + 1)
      BY <1>6, <2>0
    <3> QED BY <1>1, <3>1
  <2>7. Count(seq, x, 1, k - 1) \in Nat /\ Count(seq, x, k + 1, m) \in Nat
    <3>1. 1 \in Int /\ k - 1 \in Int /\ k + 1 \in Int /\ m \in Int
      BY <1>1
    <3> QED BY <1>7, <3>1, Zenon
  <2> QED BY <1>4, <2>1, <2>2, <2>3, <2>4, <2>5, <2>6, <2>7
<1>9. ASSUME NEW m \in 0..(k - 1)
      PROVE  /\ Count(to, x, 1, m) = Count(seq, x, 1, m)
             /\ Count(to, x, m + 1, n - 1) = Count(seq, x, m + 1, n) - Count(seq, x, k, k)
  <2>0. /\ m \in Nat /\ m + 1 \in Nat \ {0} /\ k - 1 \in Nat /\ k \in Nat /\ n - 1 \in Nat
        /\ m <= k - 1 /\ k - 1 <= n - 1 /\ 1 \in Nat \ {0}
    BY <1>1
  <2>1. Count(to, x, 1, m) = Count(seq, x, 1, m)
    BY <1>5, <2>0
  <2>2. Count(to, x, m + 1, n - 1) = Count(to, x, m + 1, k - 1) + Count(to, x, k, n - 1)
    <3>1. Count(to, x, m + 1, n - 1) = Count(to, x, m + 1, k - 1) + Count(to, x, (k - 1) + 1, n - 1)
      BY <1>1, <2>0, CountSplit
    <3> QED BY <1>1, <3>1
  <2>3. Count(to, x, m + 1, k - 1) = Count(seq, x, m + 1, k - 1)
    BY <1>5, <2>0
  <2>4. Count(to, x, k, n - 1) = Count(seq, x, k + 1, n)
    <3>1. Count(to, x, k, n - 1) = Count(seq, x, k + 1, (n - 1) + 1)
      BY <1>6, <2>0
    <3> QED BY <1>1, <3>1
  <2>5. Count(seq, x, m + 1, n) = Count(seq, x, m + 1, k) + Count(seq, x, k + 1, n)
    BY <1>1, <2>0, CountSplit
  <2>6. Count(seq, x, m + 1, k) = Count(seq, x, m + 1, k - 1) + Count(seq, x, k, k)
    <3>1. Count(seq, x, m + 1, k) = Count(seq, x, m + 1, k - 1) + Count(seq, x, (k - 1) + 1, k)
      BY <1>1, <2>0, CountSplit
    <3> QED BY <1>1, <3>1
  <2>7. Count(seq, x, m + 1, k - 1) \in Nat /\ Count(seq, x, k + 1, n) \in Nat
    <3>1. m + 1 \in Int /\ k - 1 \in Int /\ k + 1 \in Int /\ n \in Int
      BY <1>1
    <3> QED BY <1>7, <3>1, Zenon
  <2> QED BY <1>4, <2>1, <2>2, <2>3, <2>4, <2>5, <2>6, <2>7
<1>10. Count(to, x, 1, n - 1) = Count(seq, x, 1, n) - Count(seq, x, k, k)
  <2>1. n \in k..n
    BY <1>1
  <2> QED BY <1>8, <2>1
<1>12. /\ seq[k] = x => Occurrences(to, x) = Occurrences(seq, x) - 1
       /\ seq[k] # x => Occurrences(to, x) = Occurrences(seq, x)
  <2>1. Count(seq, x, 1, n) \in Nat
    <3>1. 1 \in Int /\ n \in Int
      BY <1>1
    <3> QED BY <1>7, <3>1, Zenon
  <2> QED BY <1>3, <1>4, <1>10, <2>1
<1>13. ASSUME NEW m \in k..n
       PROVE  /\ seq[k] = x => Count(to, x, 1, m - 1) = Count(seq, x, 1, m) - 1
              /\ seq[k] # x => Count(to, x, 1, m - 1) = Count(seq, x, 1, m)
  <2>1. Count(seq, x, 1, m) \in Nat
    <3>1. 1 \in Int /\ m \in Int
      BY <1>1
    <3> QED BY <1>7, <3>1, Zenon
  <2> QED BY <1>4, <1>8, <2>1
<1>14. ASSUME NEW m \in 0..(k - 1)
       PROVE  /\ seq[k] = x => Count(to, x, m + 1, n - 1) = Count(seq, x, m + 1, n) - 1
              /\ seq[k] # x => Count(to, x, m + 1, n - 1) = Count(seq, x, m + 1, n)
  <2>1. Count(seq, x, m + 1, n) \in Nat
    <3>1. m + 1 \in Int /\ n \in Int
      BY <1>1
    <3> QED BY <1>7, <3>1, Zenon
  <2>2. Count(to, x, m + 1, n - 1) = Count(seq, x, m + 1, n) - Count(seq, x, k, k)
    BY <1>9
  <2> QED BY <1>4, <2>1, <2>2
<1> QED BY <1>8, <1>9, <1>12, <1>13, <1>14 DEF CountsWithout, n, to

\* Place k of the first n is served: its channel moves behind them.
CountsServed(seq, n, k, x) ==
  /\ Occurrences(deactivate(seq, n, k), x) = Occurrences(seq, x)
  /\ seq[k] = x => /\ Count(deactivate(seq, n, k), x, 1, n - 1) = Count(seq, x, 1, n) - 1
                   /\ Count(deactivate(seq, n, k), x, n, Len(seq)) = Count(seq, x, n + 1, Len(seq)) + 1
  /\ seq[k] # x => /\ Count(deactivate(seq, n, k), x, 1, n - 1) = Count(seq, x, 1, n)
                   /\ Count(deactivate(seq, n, k), x, n, Len(seq)) = Count(seq, x, n + 1, Len(seq))

\* That is what deactivate does.
LEMMA DeactivateCounts ==
  ASSUME NEW S, NEW seq \in Seq(S), NEW n \in 1..Len(seq), NEW k \in 1..n, NEW x
  PROVE  /\ deactivate(seq, n, k) \in Seq(S) /\ Len(deactivate(seq, n, k)) = Len(seq)
         /\ CountsServed(seq, n, k, x)
<1> DEFINE to == deactivate(seq, n, k)
           l == Len(seq)
<1>1. /\ l \in Nat /\ n \in Nat /\ k \in Nat /\ 1 <= k /\ k <= n /\ n <= l
      /\ DOMAIN seq = 1..l /\ \A j \in 1..l : seq[j] \in S
  BY LenProperties, ElementOfSeq
<1>2. /\ to \in Seq(S) /\ Len(to) = l
      /\ to[k] = seq[n] /\ to[n] = seq[k]
      /\ \A j \in 1..l : j # k /\ j # n => to[j] = seq[j]
  <2>1. to = [seq EXCEPT ![k] = seq[n], ![n] = seq[k]]
    BY DEF deactivate
  <2>2. /\ DOMAIN to = 1..l
        /\ to[k] = seq[n] /\ to[n] = seq[k]
        /\ \A j \in 1..l : j # k /\ j # n => to[j] = seq[j]
    BY <1>1, <2>1
  <2>3. to \in [1..l -> S]
    <3>1. \A j \in 1..l : to[j] \in S
      BY <1>1, <2>2
    <3>2. to = [j \in 1..l |-> to[j]]
      BY <1>1, <2>1, Zenon
    <3> QED BY <3>1, <3>2
  <2>4. to \in Seq(S)
    BY <1>1, <2>3, SeqDef
  <2> QED BY <1>1, <2>2, <2>4, LenProperties
<1> HIDE DEF l, to
<1>3. \A a, b \in Int : Count(seq, x, a, b) \in Nat /\ Count(to, x, a, b) \in Nat
  BY CountIsNatural, Zenon
<1>4. Count(to, x, 1, n) = Count(to, x, 1, n - 1) + Count(to, x, n, n)
  <2>1. Count(to, x, 1, n) = Count(to, x, 1, n - 1) + Count(to, x, (n - 1) + 1, n)
    BY <1>1, CountSplit
  <2> QED BY <1>1, <2>1
<1>5. Count(to, x, n, l) = Count(to, x, n, n) + Count(to, x, n + 1, l)
  BY <1>1, CountSplit
<1>6. Count(to, x, n + 1, l) = Count(seq, x, n + 1, l)
  <2>1. \A j \in (n + 1)..l : to[j] = seq[j]
    BY <1>1, <1>2
  <2> QED BY <1>1, <2>1, CountSame
<1>7. Count(to, x, n, n) = Count(seq, x, k, k)
  BY <1>1, <1>2, CountOne
<1>8. Count(to, x, 1, n) = Count(seq, x, 1, n)
  <2>1. CASE k = n
    <3>1. \A j \in 1..n : to[j] = seq[j]
      BY <1>1, <1>2, <2>1
    <3> QED BY <1>1, <3>1, CountSame
  <2>2. CASE k < n
    <3>1. ASSUME NEW f \in {seq, to}
          PROVE  Count(f, x, 1, n) = ((Count(f, x, 1, k - 1) + Count(f, x, k, k)) + Count(f, x, k + 1, n - 1)) + Count(f, x, n, n)
      <4>1. Count(f, x, 1, n) = Count(f, x, 1, n - 1) + Count(f, x, n, n)
        <5>1. Count(f, x, 1, n) = Count(f, x, 1, n - 1) + Count(f, x, (n - 1) + 1, n)
          BY <1>1, CountSplit
        <5> QED BY <1>1, <5>1
      <4>2. Count(f, x, 1, n - 1) = Count(f, x, 1, k) + Count(f, x, k + 1, n - 1)
        BY <1>1, <2>2, CountSplit
      <4>3. Count(f, x, 1, k) = Count(f, x, 1, k - 1) + Count(f, x, k, k)
        <5>1. Count(f, x, 1, k) = Count(f, x, 1, k - 1) + Count(f, x, (k - 1) + 1, k)
          BY <1>1, CountSplit
        <5> QED BY <1>1, <5>1
      <4> QED BY <4>1, <4>2, <4>3
    <3>2. Count(to, x, 1, k - 1) = Count(seq, x, 1, k - 1)
      <4>1. \A j \in 1..(k - 1) : to[j] = seq[j]
        BY <1>1, <1>2, <2>2
      <4> QED BY <1>1, <4>1, CountSame
    <3>3. Count(to, x, k + 1, n - 1) = Count(seq, x, k + 1, n - 1)
      <4>1. \A j \in (k + 1)..(n - 1) : to[j] = seq[j]
        BY <1>1, <1>2, <2>2
      <4> QED BY <1>1, <4>1, CountSame
    <3>4. Count(to, x, k, k) = Count(seq, x, n, n)
      BY <1>1, <1>2, CountOne
    <3>5. /\ Count(seq, x, 1, k - 1) \in Nat /\ Count(seq, x, k, k) \in Nat
          /\ Count(seq, x, k + 1, n - 1) \in Nat /\ Count(seq, x, n, n) \in Nat
      <4>1. 1 \in Int /\ k - 1 \in Int /\ k \in Int /\ k + 1 \in Int /\ n - 1 \in Int /\ n \in Int
        BY <1>1
      <4> QED BY <1>3, <4>1, Zenon
    <3> QED BY <1>7, <3>1, <3>2, <3>3, <3>4, <3>5
  <2> QED BY <1>1, <2>1, <2>2
<1>9. /\ seq[k] = x => Count(seq, x, k, k) = 1
      /\ seq[k] # x => Count(seq, x, k, k) = 0
  BY <1>1, CountOne
<1>10. Occurrences(to, x) = Occurrences(seq, x)
  <2>1. Occurrences(to, x) = Count(to, x, 1, l) /\ Occurrences(seq, x) = Count(seq, x, 1, l)
    BY <1>2, OccurrencesCounted DEF l
  <2>2. /\ Count(to, x, 1, l) = Count(to, x, 1, n) + Count(to, x, n + 1, l)
        /\ Count(seq, x, 1, l) = Count(seq, x, 1, n) + Count(seq, x, n + 1, l)
    BY <1>1, CountSplit
  <2> QED BY <1>6, <1>8, <2>1, <2>2
<1>11. Count(seq, x, 1, n) \in Nat /\ Count(to, x, 1, n - 1) \in Nat /\ Count(seq, x, n + 1, l) \in Nat
  <2>1. 1 \in Int /\ n \in Int /\ n - 1 \in Int /\ n + 1 \in Int /\ l \in Int
    BY <1>1
  <2> QED BY <1>3, <2>1, Zenon
<1>12. seq[k] = x => /\ Count(to, x, 1, n - 1) = Count(seq, x, 1, n) - 1
                    /\ Count(to, x, n, l) = Count(seq, x, n + 1, l) + 1
  BY <1>4, <1>5, <1>6, <1>7, <1>8, <1>9, <1>11
<1>13. seq[k] # x => /\ Count(to, x, 1, n - 1) = Count(seq, x, 1, n)
                    /\ Count(to, x, n, l) = Count(seq, x, n + 1, l)
  BY <1>4, <1>5, <1>6, <1>7, <1>8, <1>9, <1>11
<1> QED BY <1>2, <1>10, <1>12, <1>13 DEF CountsServed, l, to

\* findCase finds the channel where there is one.
LEMMA FindCaseFinds ==
  ASSUME NEW S, NEW seq \in Seq(S), NEW c
  PROVE  /\ findCase(seq, c) = 0 => Occurrences(seq, c) = 0
         /\ Occurrences(seq, c) = 0 => findCase(seq, c) = 0
         /\ findCase(seq, c) # 0 => findCase(seq, c) \in 1..Len(seq) /\ seq[findCase(seq, c)] = c
<1> DEFINE at == {k \in DOMAIN seq : seq[k] = c}
<1>1. DOMAIN seq = 1..Len(seq) /\ Len(seq) \in Nat
  BY LenProperties
<1>2. IsFiniteSet(at) /\ at \in SUBSET Nat /\ 0 \notin at
  <2>1. IsFiniteSet(1..Len(seq)) /\ at \in SUBSET (1..Len(seq))
    BY <1>1, FS_Interval
  <2> QED BY <1>1, <2>1, FS_Subset
<1>3. at # {} => Min(at) \in at
  BY <1>2, MinIsLeast
<1>4. findCase(seq, c) = IF at = {} THEN 0 ELSE Min(at)
  BY DEF findCase
<1>5. Occurrences(seq, c) = Cardinality(at)
  BY DEF Occurrences
<1>6. Cardinality(at) = 0 <=> at = {}
  BY <1>2, FS_EmptySet
<1>7. findCase(seq, c) # 0 => findCase(seq, c) \in at
  BY <1>3, <1>4
<1>8. at = {} <=> findCase(seq, c) = 0
  <2> HIDE DEF at
  <2> QED BY <1>2, <1>3, <1>4
<1> QED BY <1>1, <1>5, <1>6, <1>7, <1>8

-----------------------------------------------------------------------------
(* Subscriptions come and go.                                               *)

\* There are finitely many subscriptions.
LEMMA SomeSubscriptions ==
  ASSUME NEW T \in SUBSET FeedSubs
  PROVE  IsFiniteSet(T) /\ Cardinality(T) \in Nat
BY SubscriptionsAreFinite, FS_Subset, FS_CardinalityType

\* More subscriptions are more.
LEMMA MoreSubscriptions ==
  ASSUME NEW U \in SUBSET FeedSubs, NEW T \in SUBSET U
  PROVE  Cardinality(T) <= Cardinality(U)
BY SomeSubscriptions, FS_Subset

\* What the step of one subscription does to the two sets that are counted.
LEMMA OneMoves ==
  ASSUME FeedTyped, NEW s \in FeedSubs, \A r \in FeedSubs : r # s => pc'[r] = pc[r],
         Sending' <=> Sending, audience' = audience, NEW c \in Channels
  PROVE  /\ c # ChanOf[s] => /\ Cardinality(Live \cap On(c))' = Cardinality(Live \cap On(c))
                             /\ Cardinality(MayBeInInbox(c))' = Cardinality(MayBeInInbox(c))
         /\ c = ChanOf[s] =>
              /\ pc[s] = "new" /\ pc'[s] = "done" =>
                   /\ Cardinality(Live \cap On(c))' = Cardinality(Live \cap On(c))
                   /\ Cardinality(MayBeInInbox(c))' = Cardinality(MayBeInInbox(c))
              /\ pc[s] = "new" /\ pc'[s] = "subscribed" /\ ~(Sending /\ s \in audience) =>
                   /\ Cardinality(Live \cap On(c))' = Cardinality(Live \cap On(c)) + 1
                   /\ Cardinality(MayBeInInbox(c))' = Cardinality(MayBeInInbox(c)) + 1
              /\ pc[s] = "subscribed" /\ pc'[s] = "removing" =>
                   /\ Cardinality(Live \cap On(c))' = Cardinality(Live \cap On(c))
                   /\ Cardinality(MayBeInInbox(c))' >= Cardinality(MayBeInInbox(c))
              /\ pc[s] = "removing" /\ pc'[s] = "done" =>
                   /\ Cardinality(Live \cap On(c))' = Cardinality(Live \cap On(c)) - 1
                   /\ Cardinality(MayBeInInbox(c))' = Cardinality(MayBeInInbox(c)) - 1
              /\ pc[s] = "removing" /\ pc'[s] = "waiting" =>
                   Cardinality(Live \cap On(c))' = Cardinality(Live \cap On(c))
              /\ pc[s] = "waiting" /\ pc'[s] = "done" =>
                   /\ Cardinality(Live \cap On(c))' = Cardinality(Live \cap On(c)) - 1
                   /\ Cardinality(MayBeInInbox(c))' = Cardinality(MayBeInInbox(c))
<1> DEFINE Q == Live \cap On(c)
           F == MayBeInInbox(c)
<1>1. Q \subseteq FeedSubs /\ F \subseteq FeedSubs /\ Q' \subseteq FeedSubs /\ F' \subseteq FeedSubs
  BY DEF Live, On, MayBeInInbox
<1>2. /\ \A r \in FeedSubs : r \in Q <=> ChanOf[r] = c /\ pc[r] \in {"subscribed", "removing", "waiting"}
      /\ \A r \in FeedSubs : r \in Q' <=> ChanOf[r] = c /\ pc'[r] \in {"subscribed", "removing", "waiting"}
  BY DEF Live, On
<1>3. /\ \A r \in FeedSubs : r \in F <=>
           ChanOf[r] = c /\ (pc[r] = "removing" \/ (pc[r] = "subscribed" /\ ~(Sending /\ r \in audience)))
      /\ \A r \in FeedSubs : r \in F' <=>
           ChanOf[r] = c /\ (pc'[r] = "removing" \/ (pc'[r] = "subscribed" /\ ~(Sending /\ r \in audience)))
  BY DEF MayBeInInbox, On
<1> HIDE DEF Q, F
<1>4. IsFiniteSet(Q) /\ IsFiniteSet(F) /\ Cardinality(Q) \in Nat /\ Cardinality(F) \in Nat
  BY <1>1, SomeSubscriptions
<1>5. ASSUME c # ChanOf[s] PROVE Q' = Q /\ F' = F
  BY <1>1, <1>2, <1>3, <1>5
<1>6. ASSUME c = ChanOf[s], pc[s] = "new", pc'[s] = "done" PROVE Q' = Q /\ F' = F
  BY <1>1, <1>2, <1>3, <1>6
<1>7. ASSUME c = ChanOf[s], pc[s] = "new", pc'[s] = "subscribed", ~(Sending /\ s \in audience)
      PROVE  Cardinality(Q') = Cardinality(Q) + 1 /\ Cardinality(F') = Cardinality(F) + 1
  <2>1. Q' = Q \cup {s} /\ s \notin Q
    BY <1>1, <1>2, <1>7
  <2>2. F' = F \cup {s} /\ s \notin F
    BY <1>1, <1>3, <1>7
  <2> QED BY <1>4, <2>1, <2>2, FS_AddElement
<1>8. ASSUME c = ChanOf[s], pc[s] = "subscribed", pc'[s] = "removing"
      PROVE  Q' = Q /\ Cardinality(F') >= Cardinality(F)
  <2>1. Q' = Q
    BY <1>1, <1>2, <1>8
  <2>2. F \subseteq F'
    BY <1>1, <1>3, <1>8
  <2>3. Cardinality(F) <= Cardinality(F') /\ Cardinality(F') \in Nat
    BY <1>1, <2>2, MoreSubscriptions, SomeSubscriptions
  <2> QED BY <1>4, <2>1, <2>3
<1>9. ASSUME c = ChanOf[s], pc[s] = "removing", pc'[s] = "done"
      PROVE  Cardinality(Q') = Cardinality(Q) - 1 /\ Cardinality(F') = Cardinality(F) - 1
  <2>1. Q' = Q \ {s} /\ s \in Q
    BY <1>1, <1>2, <1>9
  <2>2. F' = F \ {s} /\ s \in F
    BY <1>1, <1>3, <1>9
  <2> QED BY <1>4, <2>1, <2>2, FS_RemoveElement
<1>10. ASSUME c = ChanOf[s], pc[s] = "removing", pc'[s] = "waiting" PROVE Q' = Q
  BY <1>1, <1>2, <1>10
<1>11. ASSUME c = ChanOf[s], pc[s] = "waiting", pc'[s] = "done"
       PROVE  Cardinality(Q') = Cardinality(Q) - 1 /\ F' = F
  <2>1. Q' = Q \ {s} /\ s \in Q
    BY <1>1, <1>2, <1>11
  <2>2. F' = F
    BY <1>1, <1>3, <1>11
  <2> QED BY <1>4, <2>1, <2>2, FS_RemoveElement
<1>12. /\ Cardinality(Live \cap On(c))' = Cardinality(Q') /\ Cardinality(MayBeInInbox(c))' = Cardinality(F')
       /\ Cardinality(Live \cap On(c)) = Cardinality(Q) /\ Cardinality(MayBeInInbox(c)) = Cardinality(F)
  BY DEF Q, F
<1> QED BY <1>4, <1>5, <1>6, <1>7, <1>8, <1>9, <1>10, <1>11, <1>12

\* Live subscriptions whose case cannot be in the inbox have it in sendCases.
LEMMA CaseIsThere ==
  ASSUME FeedTyped, Counted, NEW c \in Channels, NEW T \in SUBSET (Live \cap On(c)),
         T \cap MayBeInInbox(c) = {}
  PROVE  Cardinality(T) <= Occurrences(sendCases, c)
<1> DEFINE Q == Live \cap On(c)
           F == MayBeInInbox(c)
<1>1. Q \subseteq FeedSubs /\ F \subseteq Q /\ T \subseteq Q
  BY DEF Live, On, MayBeInInbox
<1>2. /\ Occurrences(sendCases, c) + Occurrences(inbox, c) = Cardinality(Q)
      /\ Occurrences(inbox, c) <= Cardinality(F)
  BY DEF Counted, CountedOn
<1>3. Occurrences(sendCases, c) \in Nat /\ Occurrences(inbox, c) \in Nat
  BY OccurrencesCounted DEF FeedTyped
<1>4. T \cap F = {}
  OBVIOUS
<1> HIDE DEF Q, F
<1>5. /\ IsFiniteSet(T) /\ IsFiniteSet(F) /\ Cardinality(T) \in Nat /\ Cardinality(F) \in Nat
      /\ Cardinality(Q) \in Nat /\ T \cup F \in SUBSET Q
  BY <1>1, SomeSubscriptions
<1>6. Cardinality(T \cup F) = Cardinality(T) + Cardinality(F) - 0
  BY <1>4, <1>5, FS_Union, FS_EmptySet
<1>7. Cardinality(T \cup F) <= Cardinality(Q)
  BY <1>1, <1>5, MoreSubscriptions
<1> QED BY <1>2, <1>3, <1>5, <1>6, <1>7

\* A remove that is past the inbox finds its case.
LEMMA WaitingHasCase ==
  ASSUME FeedTyped, Counted, NEW s \in FeedSubs, pc[s] = "waiting"
  PROVE  /\ findCase(sendCases, ChanOf[s]) \in 1..Len(sendCases)
         /\ sendCases[findCase(sendCases, ChanOf[s])] = ChanOf[s]
<1>1. ChanOf[s] \in Channels
  BY ChannelsAreKnown
<1>2. {s} \in SUBSET (Live \cap On(ChanOf[s])) /\ {s} \cap MayBeInInbox(ChanOf[s]) = {}
  BY DEF Live, On, MayBeInInbox
<1>3. Cardinality({s}) = 1
  BY FS_Singleton
<1>4. 1 <= Occurrences(sendCases, ChanOf[s])
  BY <1>1, <1>2, <1>3, CaseIsThere
<1>5. Occurrences(sendCases, ChanOf[s]) # 0
  BY <1>4
<1> QED BY <1>5, FindCaseFinds DEF FeedTyped

\* The senders are where they were.
LEMMA SendersStay ==
  ASSUME FeedInv, NEW s \in FeedSubs, NEW v \in SubStates, pc' = [pc EXCEPT ![s] = v],
         UNCHANGED <<sendLock, value, got, audience>>
  PROVE  /\ pc' \in [Senders \cup FeedSubs -> SubStates \cup SenderStates]
         /\ pc'[s] = v /\ \A r \in FeedSubs : r # s => pc'[r] = pc[r]
         /\ \A r \in FeedSubs : pc'[r] \in SubStates
         /\ \A p \in Senders : pc'[p] = pc[p]
         /\ Sending' <=> Sending
         /\ OneSender' /\ InOrder'
<1>1. pc \in [Senders \cup FeedSubs -> SubStates \cup SenderStates] /\ \A r \in FeedSubs : pc[r] \in SubStates
  BY DEF FeedInv, FeedTyped
<1>2. /\ pc' \in [Senders \cup FeedSubs -> SubStates \cup SenderStates]
      /\ pc'[s] = v /\ \A r \in FeedSubs : r # s => pc'[r] = pc[r]
      /\ \A p \in Senders : pc'[p] = pc[p]
  BY <1>1, SubscriptionsAreFinite
<1>3. \A r \in FeedSubs : pc'[r] \in SubStates
  BY <1>1, <1>2
<1>4. Sending' <=> Sending
  BY <1>2 DEF Sending
<1>5. OneSender'
  BY <1>2 DEF FeedInv, OneSender
<1>6. InOrder'
  BY DEF FeedInv, InOrder
<1> QED BY <1>2, <1>3, <1>4, <1>5, <1>6

\* Nothing the running Send is about changes.
LEMMA SendUndisturbed ==
  ASSUME SendInv, UNCHANGED SendVars, \A p \in Senders : pc'[p] = pc[p]
  PROVE  SendInv'
<1>1. NothingSent' <=> NothingSent
  BY DEF NothingSent, SendVars
<1>2. Deliveries(value)' = Deliveries(value)
  BY DEF Deliveries, Places, SendVars
<1>3. Served' <=> Served
  BY <1>2 DEF Served, ServedOn, On, SendVars
<1>4. ASSUME NEW p \in Senders, pc[p] \in {"joined", "typing"}, NEW c \in Channels
      PROVE  (Occurrences(sendCases, c) <= Cardinality(audience \cap On(c)))'
  BY <1>4 DEF SendInv, SendVars, On
<1> QED BY <1>1, <1>3, <1>4 DEF SendInv

\* A step of a subscription that leaves the senders alone.
LEMMA SubStep ==
  ASSUME FeedInv, NEW s \in FeedSubs, NEW v \in SubStates \ {"new"}, pc' = [pc EXCEPT ![s] = v],
         inbox' \in Seq(Channels), UNCHANGED SendVars, \A c \in Channels : CountedOn(c)'
  PROVE  FeedInv'
<1>1. UNCHANGED <<sendLock, value, got, audience>>
  BY DEF SendVars
<1>2. /\ pc' \in [Senders \cup FeedSubs -> SubStates \cup SenderStates]
      /\ pc'[s] = v /\ \A r \in FeedSubs : r # s => pc'[r] = pc[r]
      /\ \A r \in FeedSubs : pc'[r] \in SubStates
      /\ \A p \in Senders : pc'[p] = pc[p]
      /\ Sending' <=> Sending
      /\ OneSender' /\ InOrder'
  BY <1>1, SendersStay
<1>3. FeedTyped'
  BY <1>2 DEF FeedInv, FeedTyped, SendVars
<1>4. Counted'
  <2>1. Sending' => \A r \in audience' : pc'[r] # "new"
    BY <1>1, <1>2 DEF FeedInv, FeedTyped, Counted
  <2> QED BY <2>1 DEF Counted
<1>5. SendInv'
  BY <1>2, SendUndisturbed DEF FeedInv
<1> QED BY <1>2, <1>3, <1>4, <1>5 DEF FeedInv

\* The numbers that are compared.
LEMMA CountsNow ==
  ASSUME FeedInv, NEW c \in Channels
  PROVE  /\ Occurrences(sendCases, c) + Occurrences(inbox, c) = Cardinality(Live \cap On(c))
         /\ Occurrences(inbox, c) <= Cardinality(MayBeInInbox(c))
         /\ Occurrences(sendCases, c) \in Nat /\ Occurrences(inbox, c) \in Nat
         /\ Cardinality(Live \cap On(c)) \in Nat /\ Cardinality(MayBeInInbox(c)) \in Nat
<1>1. CountedOn(c)
  BY DEF FeedInv, Counted
<1>2. Occurrences(sendCases, c) \in Nat /\ Occurrences(inbox, c) \in Nat
  BY OccurrencesCounted DEF FeedInv, FeedTyped
<1>3. Live \cap On(c) \in SUBSET FeedSubs /\ MayBeInInbox(c) \in SUBSET FeedSubs
  BY DEF Live, MayBeInInbox, On
<1>4. Cardinality(Live \cap On(c)) \in Nat /\ Cardinality(MayBeInInbox(c)) \in Nat
  BY <1>3, SomeSubscriptions
<1> QED BY <1>1, <1>2, <1>4 DEF CountedOn

\* The numbers that are compared after the step of a subscription.
LEMMA CountsThen ==
  ASSUME FeedInv, NEW s \in FeedSubs, NEW v \in SubStates, pc' = [pc EXCEPT ![s] = v],
         UNCHANGED <<sendLock, value, got, audience>>, NEW c \in Channels
  PROVE  /\ c # ChanOf[s] => /\ Cardinality(Live \cap On(c))' = Cardinality(Live \cap On(c))
                             /\ Cardinality(MayBeInInbox(c))' = Cardinality(MayBeInInbox(c))
         /\ c = ChanOf[s] =>
              /\ pc[s] = "new" /\ v = "done" =>
                   /\ Cardinality(Live \cap On(c))' = Cardinality(Live \cap On(c))
                   /\ Cardinality(MayBeInInbox(c))' = Cardinality(MayBeInInbox(c))
              /\ pc[s] = "new" /\ v = "subscribed" =>
                   /\ Cardinality(Live \cap On(c))' = Cardinality(Live \cap On(c)) + 1
                   /\ Cardinality(MayBeInInbox(c))' = Cardinality(MayBeInInbox(c)) + 1
              /\ pc[s] = "subscribed" /\ v = "removing" =>
                   /\ Cardinality(Live \cap On(c))' = Cardinality(Live \cap On(c))
                   /\ Cardinality(MayBeInInbox(c))' >= Cardinality(MayBeInInbox(c))
              /\ pc[s] = "removing" /\ v = "done" =>
                   /\ Cardinality(Live \cap On(c))' = Cardinality(Live \cap On(c)) - 1
                   /\ Cardinality(MayBeInInbox(c))' = Cardinality(MayBeInInbox(c)) - 1
              /\ pc[s] = "removing" /\ v = "waiting" =>
                   Cardinality(Live \cap On(c))' = Cardinality(Live \cap On(c))
              /\ pc[s] = "waiting" /\ v = "done" =>
                   /\ Cardinality(Live \cap On(c))' = Cardinality(Live \cap On(c)) - 1
                   /\ Cardinality(MayBeInInbox(c))' = Cardinality(MayBeInInbox(c))
         /\ Cardinality(MayBeInInbox(c))' \in Nat
<1>1. FeedTyped /\ audience' = audience
  BY DEF FeedInv
<1>2. pc'[s] = v /\ (\A r \in FeedSubs : r # s => pc'[r] = pc[r]) /\ (Sending' <=> Sending)
  BY SendersStay
<1>3. pc[s] = "new" => ~(Sending /\ s \in audience)
  BY DEF FeedInv, Counted
<1>4. MayBeInInbox(c)' \in SUBSET FeedSubs
  BY DEF MayBeInInbox, On
<1>5. Cardinality(MayBeInInbox(c))' \in Nat
  BY <1>4, SomeSubscriptions
<1> QED BY <1>1, <1>2, <1>3, <1>5, OneMoves

LEMMA SubscribeCounts == ASSUME FeedInv, NEW s \in FeedSubs, FeedSubscribe(s) PROVE FeedInv'
<1>1. /\ pc[s] = "new" /\ pc' = [pc EXCEPT ![s] = "subscribed"]
      /\ inbox' = Append(inbox, ChanOf[s]) /\ UNCHANGED SendVars
      /\ UNCHANGED <<sendLock, value, got, audience>> /\ sendCases' = sendCases
  BY DEF FeedSubscribe, SendVars
<1>2. ChanOf[s] \in Channels /\ inbox \in Seq(Channels) /\ inbox' \in Seq(Channels)
  <2>1. ChanOf[s] \in Channels /\ inbox \in Seq(Channels)
    BY ChannelsAreKnown DEF FeedInv, FeedTyped
  <2> QED BY <1>1, <2>1, AppendProperties
<1>3. "subscribed" \in SubStates \ {"new"}
  BY DEF SubStates
<1>4. ASSUME NEW c \in Channels PROVE CountedOn(c)'
  <2>0. /\ Occurrences(sendCases, c) + Occurrences(inbox, c) = Cardinality(Live \cap On(c))
        /\ Occurrences(inbox, c) <= Cardinality(MayBeInInbox(c))
        /\ Occurrences(sendCases, c) \in Nat /\ Occurrences(inbox, c) \in Nat
        /\ Cardinality(Live \cap On(c)) \in Nat /\ Cardinality(MayBeInInbox(c)) \in Nat
    BY CountsNow
  <2>1. Occurrences(inbox', c) = Occurrences(inbox, c) + (IF ChanOf[s] = c THEN 1 ELSE 0)
    BY <1>1, <1>2, AppendCounts
  <2>2. /\ c # ChanOf[s] => /\ Cardinality(Live \cap On(c))' = Cardinality(Live \cap On(c))
                             /\ Cardinality(MayBeInInbox(c))' = Cardinality(MayBeInInbox(c))
        /\ c = ChanOf[s] => /\ Cardinality(Live \cap On(c))' = Cardinality(Live \cap On(c)) + 1
                            /\ Cardinality(MayBeInInbox(c))' = Cardinality(MayBeInInbox(c)) + 1
    BY <1>1, <1>3, CountsThen
  <2>3. /\ c # ChanOf[s] => Occurrences(inbox', c) = Occurrences(inbox, c)
        /\ c = ChanOf[s] => Occurrences(inbox', c) = Occurrences(inbox, c) + 1
    BY <2>0, <2>1
  <2>4. CASE c = ChanOf[s]
    <3>1. /\ Occurrences(sendCases', c) = Occurrences(sendCases, c)
          /\ Occurrences(inbox', c) = Occurrences(inbox, c) + 1
          /\ Cardinality(Live \cap On(c))' = Cardinality(Live \cap On(c)) + 1
          /\ Cardinality(MayBeInInbox(c))' = Cardinality(MayBeInInbox(c)) + 1
      BY <1>1, <2>2, <2>3, <2>4
    <3>2. /\ Occurrences(sendCases', c) + Occurrences(inbox', c) = Cardinality(Live \cap On(c))'
          /\ Occurrences(inbox', c) <= Cardinality(MayBeInInbox(c))'
      BY <2>0, <3>1
    <3> QED BY <3>2 DEF CountedOn
  <2>5. CASE c # ChanOf[s]
    BY <1>1, <2>0, <2>2, <2>3, <2>5 DEF CountedOn
  <2> QED BY <2>4, <2>5
<1> QED BY <1>1, <1>2, <1>3, <1>4, SubStep

LEMMA SubscribePanicsCounts == ASSUME FeedInv, NEW s \in FeedSubs, SubscribePanics(s) PROVE FeedInv'
<1>1. /\ pc[s] = "new" /\ pc' = [pc EXCEPT ![s] = "done"] /\ UNCHANGED SendVars
      /\ UNCHANGED <<sendLock, value, got, audience>> /\ sendCases' = sendCases /\ inbox' = inbox
  BY DEF SubscribePanics, SendVars
<1>2. inbox' \in Seq(Channels)
  BY <1>1 DEF FeedInv, FeedTyped
<1>3. "done" \in SubStates \ {"new"}
  BY DEF SubStates
<1>4. ASSUME NEW c \in Channels PROVE CountedOn(c)'
  <2>1. /\ Cardinality(Live \cap On(c))' = Cardinality(Live \cap On(c))
        /\ Cardinality(MayBeInInbox(c))' = Cardinality(MayBeInInbox(c))
    BY <1>1, <1>3, CountsThen
  <2> QED BY <1>1, <2>1, CountsNow DEF CountedOn
<1> QED BY <1>1, <1>2, <1>3, <1>4, SubStep

LEMMA UnsubscribeCounts == ASSUME FeedInv, NEW s \in FeedSubs, FeedUnsubscribe(s) PROVE FeedInv'
<1>1. /\ pc[s] = "subscribed" /\ pc' = [pc EXCEPT ![s] = "removing"] /\ UNCHANGED SendVars
      /\ UNCHANGED <<sendLock, value, got, audience>> /\ sendCases' = sendCases /\ inbox' = inbox
  BY DEF FeedUnsubscribe, SendVars
<1>2. inbox' \in Seq(Channels)
  BY <1>1 DEF FeedInv, FeedTyped
<1>3. "removing" \in SubStates \ {"new"}
  BY DEF SubStates
<1>4. ASSUME NEW c \in Channels PROVE CountedOn(c)'
  <2>1. /\ Cardinality(Live \cap On(c))' = Cardinality(Live \cap On(c))
        /\ Cardinality(MayBeInInbox(c))' >= Cardinality(MayBeInInbox(c))
        /\ Cardinality(MayBeInInbox(c))' \in Nat
    <3>1. CASE c = ChanOf[s]
      BY <1>1, <1>3, <3>1, CountsThen
    <3>2. CASE c # ChanOf[s]
      <4>1. /\ Cardinality(Live \cap On(c))' = Cardinality(Live \cap On(c))
            /\ Cardinality(MayBeInInbox(c))' = Cardinality(MayBeInInbox(c))
        BY <1>1, <1>3, <3>2, CountsThen
      <4>2. Cardinality(MayBeInInbox(c)) \in Nat
        BY CountsNow
      <4> QED BY <4>1, <4>2
    <3> QED BY <3>1, <3>2
  <2> QED BY <1>1, <2>1, CountsNow DEF CountedOn
<1> QED BY <1>1, <1>2, <1>3, <1>4, SubStep

LEMMA RemoveFromInboxCounts == ASSUME FeedInv, NEW s \in FeedSubs, RemoveFromInbox(s) PROVE FeedInv'
<1> DEFINE k == findCase(inbox, ChanOf[s])
<1>1. /\ pc[s] = "removing" /\ UNCHANGED SendVars
      /\ UNCHANGED <<sendLock, value, got, audience>> /\ sendCases' = sendCases
      /\ inbox' = IF k # 0 THEN RemoveAt(inbox, k) ELSE inbox
      /\ pc' = [pc EXCEPT ![s] = IF k # 0 THEN "done" ELSE "waiting"]
  BY DEF RemoveFromInbox, SendVars, delete
<1>2. inbox \in Seq(Channels)
  BY DEF FeedInv, FeedTyped
<1>3. /\ k = 0 => Occurrences(inbox, ChanOf[s]) = 0
      /\ k # 0 => k \in 1..Len(inbox) /\ inbox[k] = ChanOf[s]
  BY <1>2, FindCaseFinds
<1>4. "done" \in SubStates \ {"new"} /\ "waiting" \in SubStates \ {"new"}
  BY DEF SubStates
<1>7. pc[s] = "removing" /\ UNCHANGED <<sendLock, value, got, audience>>
  BY <1>1
<1> HIDE DEF k
<1>5. CASE k = 0
  <2>1. inbox' = inbox /\ pc' = [pc EXCEPT ![s] = "waiting"]
    BY <1>1, <1>5
  <2>2. ASSUME NEW c \in Channels PROVE CountedOn(c)'
    <3>1. CASE c = ChanOf[s]
      <4>1. /\ Cardinality(Live \cap On(c))' = Cardinality(Live \cap On(c))
            /\ Cardinality(MayBeInInbox(c))' \in Nat
        BY <1>4, <1>7, <2>1, <3>1, CountsThen
      <4>2. Occurrences(inbox', c) = 0
        BY <1>3, <1>5, <2>1, <3>1
      <4> QED BY <1>1, <2>1, <4>1, <4>2, CountsNow DEF CountedOn
    <3>2. CASE c # ChanOf[s]
      <4>1. /\ Cardinality(Live \cap On(c))' = Cardinality(Live \cap On(c))
            /\ Cardinality(MayBeInInbox(c))' = Cardinality(MayBeInInbox(c))
        BY <1>4, <1>7, <2>1, <3>2, CountsThen
      <4> QED BY <1>1, <2>1, <4>1, CountsNow DEF CountedOn
    <3> QED BY <3>1, <3>2
  <2> QED BY <1>1, <1>2, <1>4, <2>1, <2>2, SubStep
<1>6. CASE k # 0
  <2>1. inbox' = RemoveAt(inbox, k) /\ pc' = [pc EXCEPT ![s] = "done"]
    BY <1>1, <1>6
  <2>2. k \in 1..Len(inbox) /\ ChanOf[s] = inbox[k]
    BY <1>3, <1>6
  <2>3. inbox' \in Seq(Channels)
    BY <1>2, <2>1, <2>2, RemoveAtProperties
  <2>4. ASSUME NEW c \in Channels PROVE CountedOn(c)'
    <3>1. /\ ChanOf[s] = c => Occurrences(RemoveAt(inbox, k), c) = Occurrences(inbox, c) - 1
          /\ ChanOf[s] # c => Occurrences(RemoveAt(inbox, k), c) = Occurrences(inbox, c)
      <4>1. CountsWithout(inbox, k, c)
        BY <1>2, <2>2, RemoveAtCounts, Zenon
      <4> QED BY <2>2, <4>1 DEF CountsWithout
    <3>2. CASE c = ChanOf[s]
      <4>1. /\ Cardinality(Live \cap On(c))' = Cardinality(Live \cap On(c)) - 1
            /\ Cardinality(MayBeInInbox(c))' = Cardinality(MayBeInInbox(c)) - 1
        BY <1>4, <1>7, <2>1, <3>2, CountsThen
      <4> QED BY <1>1, <2>1, <3>1, <3>2, <4>1, CountsNow DEF CountedOn
    <3>3. CASE c # ChanOf[s]
      <4>1. /\ Cardinality(Live \cap On(c))' = Cardinality(Live \cap On(c))
            /\ Cardinality(MayBeInInbox(c))' = Cardinality(MayBeInInbox(c))
        BY <1>4, <1>7, <2>1, <3>3, CountsThen
      <4> QED BY <1>1, <2>1, <3>1, <3>3, <4>1, CountsNow DEF CountedOn
    <3> QED BY <3>2, <3>3
  <2> QED BY <1>1, <1>4, <2>1, <2>3, <2>4, SubStep
<1> QED BY <1>5, <1>6

LEMMA RemoveWithLockCounts == ASSUME FeedInv, NEW s \in FeedSubs, RemoveWithLock(s) PROVE FeedInv'
<1> DEFINE k == findCase(sendCases, ChanOf[s])
<1>1. /\ pc[s] = "waiting" /\ sendLock
      /\ UNCHANGED <<sendLock, value, got, audience>>
      /\ UNCHANGED <<inbox, cases, i, nsent>>
      /\ sendCases' = RemoveAt(sendCases, k)
      /\ pc' = [pc EXCEPT ![s] = "done"]
  BY DEF RemoveWithLock, delete
<1>2. sendCases \in Seq(Channels)
  BY DEF FeedInv, FeedTyped
<1>3. k \in 1..Len(sendCases) /\ ChanOf[s] = sendCases[k]
  BY <1>1, WaitingHasCase DEF FeedInv
<1>4. "done" \in SubStates
  BY DEF SubStates
<1> HIDE DEF k
<1>5. /\ pc' \in [Senders \cup FeedSubs -> SubStates \cup SenderStates]
      /\ pc'[s] = "done" /\ \A r \in FeedSubs : r # s => pc'[r] = pc[r]
      /\ \A r \in FeedSubs : pc'[r] \in SubStates
      /\ \A p \in Senders : pc'[p] = pc[p]
      /\ Sending' <=> Sending
      /\ OneSender' /\ InOrder'
  BY <1>1, <1>4, SendersStay
<1>6. sendCases' \in Seq(Channels)
  BY <1>1, <1>2, <1>3, RemoveAtProperties
<1>7. ASSUME NEW c \in Channels PROVE CountedOn(c)'
  <2>1. /\ ChanOf[s] = c => Occurrences(RemoveAt(sendCases, k), c) = Occurrences(sendCases, c) - 1
        /\ ChanOf[s] # c => Occurrences(RemoveAt(sendCases, k), c) = Occurrences(sendCases, c)
    <3>1. CountsWithout(sendCases, k, c)
      BY <1>2, <1>3, RemoveAtCounts, Zenon
    <3> QED BY <1>3, <3>1 DEF CountsWithout
  <2>2. /\ ChanOf[s] = c => Cardinality(Live \cap On(c))' = Cardinality(Live \cap On(c)) - 1
        /\ ChanOf[s] # c => Cardinality(Live \cap On(c))' = Cardinality(Live \cap On(c))
        /\ Cardinality(MayBeInInbox(c))' = Cardinality(MayBeInInbox(c))
    BY <1>1, <1>4, CountsThen
  <2> QED BY <1>1, <2>1, <2>2, CountsNow DEF CountedOn
<1>8. \A p \in Senders : pc'[p] = "idle"
  BY <1>1, <1>5 DEF FeedInv, OneSender
<1>9. FeedTyped'
  BY <1>1, <1>5, <1>6 DEF FeedInv, FeedTyped
<1>10. Counted'
  BY <1>7, <1>8 DEF Counted, Sending, Joined
<1>11. SendInv'
  BY <1>8 DEF SendInv
<1> QED BY <1>5, <1>9, <1>10, <1>11 DEF FeedInv

-----------------------------------------------------------------------------
(* Send.                                                                    *)

\* The sender that has the lock takes a step: the others are idle.
LEMMA HolderMoves ==
  ASSUME FeedInv, NEW p \in Senders, pc[p] # "idle", NEW v \in SenderStates, pc' = [pc EXCEPT ![p] = v],
         v # "idle" => sendLock' = sendLock
  PROVE  /\ pc' \in [Senders \cup FeedSubs -> SubStates \cup SenderStates]
         /\ \A s \in FeedSubs : pc'[s] \in SubStates /\ pc'[s] = pc[s]
         /\ \A q \in Senders : pc'[q] \in SenderStates /\ (q # p => pc'[q] = "idle")
         /\ pc'[p] = v
         /\ OneSender'
         /\ Sending <=> pc[p] \in Joined
         /\ Sending' <=> v \in Joined
<1>1. /\ pc \in [Senders \cup FeedSubs -> SubStates \cup SenderStates]
      /\ \A s \in FeedSubs : pc[s] \in SubStates
      /\ \A q \in Senders : pc[q] \in SenderStates
  BY DEF FeedInv, FeedTyped
<1>2. ~sendLock /\ \A q \in Senders : q # p => pc[q] = "idle"
  BY DEF FeedInv, OneSender
<1>3. /\ pc' \in [Senders \cup FeedSubs -> SubStates \cup SenderStates]
      /\ pc'[p] = v /\ \A q \in Senders : q # p => pc'[q] = pc[q]
      /\ \A s \in FeedSubs : pc'[s] = pc[s]
  BY <1>1, SubscriptionsAreFinite
<1>4. \A q \in Senders : pc'[q] \in SenderStates /\ (q # p => pc'[q] = "idle")
  BY <1>1, <1>2, <1>3
<1>5. OneSender'
  BY <1>2, <1>3, <1>4 DEF OneSender
<1>6. "idle" \notin Joined
  BY DEF Joined
<1>7. Sending <=> pc[p] \in Joined
  BY <1>2, <1>6 DEF Sending
<1>8. Sending' <=> v \in Joined
  BY <1>3, <1>4, <1>6 DEF Sending
<1> QED BY <1>1, <1>3, <1>4, <1>5, <1>7, <1>8

\* The books of a step that moves no case between the inbox and sendCases.
LEMMA CountedStays ==
  ASSUME FeedInv, \A s \in FeedSubs : pc'[s] = pc[s], Sending' => Sending, audience' = audience,
         inbox' = inbox, \A c \in Channels : Occurrences(sendCases', c) = Occurrences(sendCases, c)
  PROVE  Counted'
<1>1. ASSUME NEW c \in Channels PROVE CountedOn(c)'
  <2>1. (Live \cap On(c))' = Live \cap On(c)
    BY DEF Live, On
  <2>2. MayBeInInbox(c) \in SUBSET MayBeInInbox(c)' /\ MayBeInInbox(c)' \in SUBSET FeedSubs
    BY DEF MayBeInInbox, On
  <2>3. Cardinality(MayBeInInbox(c)) <= Cardinality(MayBeInInbox(c)') /\ Cardinality(MayBeInInbox(c)') \in Nat
    BY <2>2, MoreSubscriptions, SomeSubscriptions
  <2>4. /\ Occurrences(sendCases, c) + Occurrences(inbox, c) = Cardinality(Live \cap On(c))
        /\ Occurrences(inbox, c) <= Cardinality(MayBeInInbox(c))
        /\ Occurrences(sendCases, c) \in Nat /\ Occurrences(inbox, c) \in Nat
        /\ Cardinality(MayBeInInbox(c)) \in Nat
    BY CountsNow
  <2>5. Occurrences(sendCases', c) + Occurrences(inbox', c) = Cardinality(Live \cap On(c))'
    BY <2>1, <2>4
  <2>6. Occurrences(inbox', c) <= Cardinality(MayBeInInbox(c)')
    BY <2>3, <2>4
  <2> QED BY <2>5, <2>6 DEF CountedOn
<1>2. Sending' => \A s \in audience' : pc'[s] # "new"
  BY DEF FeedInv, FeedTyped, Counted
<1> QED BY <1>1, <1>2 DEF Counted

LEMMA LockCounts == ASSUME FeedInv, NEW p \in Senders, Lock(p) PROVE FeedInv'
<1>1. /\ pc[p] = "idle" /\ sendLock /\ sendLock' = FALSE /\ value' = value + 1 /\ nsent' = 0
      /\ pc' = [pc EXCEPT ![p] = "locked"]
      /\ UNCHANGED <<sendCases, inbox, cases, i, got, audience>>
  BY DEF Lock
<1>2. /\ pc \in [Senders \cup FeedSubs -> SubStates \cup SenderStates]
      /\ \A s \in FeedSubs : pc[s] \in SubStates
      /\ value \in Nat /\ got \in [Channels -> Seq(Nat)]
  BY DEF FeedInv, FeedTyped
<1>3. \A q \in Senders : pc[q] = "idle"
  BY <1>1 DEF FeedInv, OneSender
<1>4. /\ pc' \in [Senders \cup FeedSubs -> SubStates \cup SenderStates]
      /\ pc'[p] = "locked" /\ \A q \in Senders : q # p => pc'[q] = "idle"
      /\ \A s \in FeedSubs : pc'[s] = pc[s]
  <2>1. "locked" \in SenderStates
    BY DEF SenderStates
  <2> QED BY <1>1, <1>2, <1>3, <2>1, SubscriptionsAreFinite
<1>5. \A q \in Senders : pc'[q] \in {"idle", "locked"}
  BY <1>4
<1>6. ~Sending'
  BY <1>5 DEF Sending, Joined
<1>7. FeedTyped'
  <2>1. \A q \in Senders : pc'[q] \in SenderStates
    BY <1>5 DEF SenderStates
  <2>2. \A s \in FeedSubs : pc'[s] \in SubStates
    BY <1>2, <1>4
  <2>3. value' \in Nat /\ nsent' \in Nat
    BY <1>1, <1>2
  <2>5. sendLock' \in BOOLEAN
    BY <1>1
  <2>4. /\ sendCases' \in Seq(Channels) /\ inbox' \in Seq(Channels)
        /\ cases' \in Nat /\ i' \in Nat \ {0}
        /\ got' \in [Channels -> Seq(Nat)] /\ audience' \subseteq FeedSubs
    BY <1>1 DEF FeedInv, FeedTyped
  <2> QED BY <1>4, <2>1, <2>2, <2>3, <2>4, <2>5 DEF FeedTyped
<1>8. OneSender'
  BY <1>1, <1>4 DEF OneSender
<1>9. Counted'
  BY <1>1, <1>4, <1>6, CountedStays
<1>10. \A c \in Channels : \A k \in DOMAIN got[c] : got[c][k] \in Nat /\ got[c][k] <= value
  BY <1>2, LenProperties, ElementOfSeq DEF FeedInv, InOrder
<1>11. InOrder'
  BY <1>1, <1>2, <1>10 DEF FeedInv, InOrder
<1>12. NothingSent'
  BY <1>1, <1>2, <1>10 DEF NothingSent
<1>13. SendInv'
  BY <1>5, <1>12 DEF SendInv
<1> QED BY <1>7, <1>8, <1>9, <1>11, <1>13 DEF FeedInv

LEMMA JoinCounts == ASSUME FeedInv, NEW p \in Senders, Join(p) PROVE FeedInv'
<1>1. /\ pc[p] = "locked" /\ sendCases' = sendCases \o inbox /\ inbox' = <<>> /\ audience' = Live
      /\ pc' = [pc EXCEPT ![p] = "joined"]
      /\ UNCHANGED <<sendLock, cases, i, nsent, value, got>>
  BY DEF Join
<1>2. "joined" \in SenderStates
  BY DEF SenderStates
<1>3. /\ pc' \in [Senders \cup FeedSubs -> SubStates \cup SenderStates]
      /\ \A s \in FeedSubs : pc'[s] \in SubStates /\ pc'[s] = pc[s]
      /\ \A q \in Senders : pc'[q] \in SenderStates /\ (q # p => pc'[q] = "idle")
      /\ pc'[p] = "joined" /\ OneSender'
  <2>1. pc[p] # "idle"
    BY <1>1
  <2> QED BY <1>1, <1>2, <2>1, HolderMoves
<1>4. sendCases \in Seq(Channels) /\ inbox \in Seq(Channels)
  BY DEF FeedInv, FeedTyped
<1>5. FeedTyped'
  <2>1. sendCases' \in Seq(Channels) /\ inbox' \in Seq(Channels)
    BY <1>1, <1>4, ConcatProperties
  <2>2. audience' \subseteq FeedSubs
    BY <1>1 DEF Live
  <2> QED BY <1>1, <1>3, <2>1, <2>2 DEF FeedInv, FeedTyped
<1>6. ASSUME NEW c \in Channels
      PROVE  /\ Occurrences(sendCases', c) = Cardinality(Live \cap On(c))
             /\ Occurrences(inbox', c) = 0
             /\ (Live \cap On(c))' = Live \cap On(c)
  <2>1. Occurrences(sendCases', c) = Occurrences(sendCases, c) + Occurrences(inbox, c)
    BY <1>1, <1>4, ConcatCounts
  <2>2. Occurrences(inbox', c) = 0
    <3>1. {k \in DOMAIN inbox' : inbox'[k] = c} = {}
      BY <1>1
    <3> QED BY <3>1, FS_EmptySet DEF Occurrences
  <2>3. (Live \cap On(c))' = Live \cap On(c)
    BY <1>3 DEF Live, On
  <2> QED BY <2>1, <2>2, <2>3, CountsNow
<1>7. Counted'
  <2>1. ASSUME NEW c \in Channels PROVE CountedOn(c)'
    <3>1. MayBeInInbox(c)' \in SUBSET FeedSubs
      BY DEF MayBeInInbox, On
    <3>2. Cardinality(MayBeInInbox(c)') \in Nat
      BY <3>1, SomeSubscriptions
    <3>3. Cardinality(Live \cap On(c)) \in Nat
      BY CountsNow
    <3>4. Occurrences(sendCases', c) + Occurrences(inbox', c) = Cardinality(Live \cap On(c))'
      BY <1>6, <3>3
    <3>5. Occurrences(inbox', c) <= Cardinality(MayBeInInbox(c)')
      <4>1. Occurrences(inbox', c) = 0
        BY <1>6
      <4> QED BY <3>2, <4>1
    <3> QED BY <3>4, <3>5 DEF CountedOn
  <2>2. \A s \in audience' : pc'[s] # "new"
    BY <1>1, <1>3 DEF Live
  <2> QED BY <2>1, <2>2 DEF Counted
<1>8. InOrder'
  BY <1>1 DEF FeedInv, InOrder
<1>9. NothingSent'
  BY <1>1 DEF FeedInv, SendInv, NothingSent
<1>10. ASSUME NEW c \in Channels PROVE (Occurrences(sendCases, c) <= Cardinality(audience \cap On(c)))'
  <2>1. (audience \cap On(c))' = Live \cap On(c)
    BY <1>1 DEF On
  <2>2. Cardinality(Live \cap On(c)) \in Nat
    BY CountsNow
  <2> QED BY <1>6, <2>1, <2>2
<1>11. SendInv'
  BY <1>3, <1>9, <1>10 DEF SendInv
<1> QED BY <1>3, <1>5, <1>7, <1>8, <1>11 DEF FeedInv

\* A step of the sender that has the lock and moves no cases; it is in SendInv what
\* its new place requires.
LEMMA HolderStep ==
  ASSUME FeedInv, NEW p \in Senders, pc[p] # "idle", NEW v \in SenderStates, pc' = [pc EXCEPT ![p] = v],
         v # "idle" => sendLock' = sendLock, sendLock' \in BOOLEAN,
         v \in Joined => pc[p] \in Joined,
         UNCHANGED <<sendCases, inbox, nsent, value, got, audience>>, cases' \in Nat, i' \in Nat \ {0},
         v # "locked",
         v = "typing" \/ v = "joined" => pc[p] = "joined",
         v = "trying" \/ v = "selecting" => Served'
  PROVE  FeedInv'
<1>1. /\ pc' \in [Senders \cup FeedSubs -> SubStates \cup SenderStates]
      /\ \A s \in FeedSubs : pc'[s] \in SubStates /\ pc'[s] = pc[s]
      /\ \A q \in Senders : pc'[q] \in SenderStates /\ (q # p => pc'[q] = "idle")
      /\ pc'[p] = v /\ OneSender'
      /\ Sending <=> pc[p] \in Joined
      /\ Sending' <=> v \in Joined
  BY HolderMoves
<1>2. FeedTyped'
  BY <1>1 DEF FeedInv, FeedTyped
<1>3. Counted'
  <2>1. Sending' => Sending
    BY <1>1
  <2> QED BY <1>1, <2>1, CountedStays
<1>4. InOrder'
  BY DEF FeedInv, InOrder
<1>5. SendInv'
  <2>1. ASSUME v = "typing" \/ v = "joined"
        PROVE  NothingSent' /\ \A c \in Channels : (Occurrences(sendCases, c) <= Cardinality(audience \cap On(c)))'
    <3>1. NothingSent /\ \A c \in Channels : Occurrences(sendCases, c) <= Cardinality(audience \cap On(c))
      BY <2>1 DEF FeedInv, SendInv
    <3> QED BY <3>1 DEF NothingSent, On
  <2> QED BY <1>1, <2>1 DEF SendInv
<1> QED BY <1>1, <1>2, <1>3, <1>4, <1>5 DEF FeedInv

\* When the loop begins, nobody is served.
LEMMA ServingBegins ==
  ASSUME FeedInv, NEW p \in Senders, pc[p] \in {"joined", "typing"},
         UNCHANGED <<sendCases, nsent, value, got, audience>>, cases' = Len(sendCases)
  PROVE  Served'
<1>1. /\ NothingSent /\ \A c \in Channels : Occurrences(sendCases, c) <= Cardinality(audience \cap On(c))
      /\ sendCases \in Seq(Channels) /\ got \in [Channels -> Seq(Nat)] /\ value \in Nat
      /\ audience \subseteq FeedSubs
  BY DEF FeedInv, SendInv, FeedTyped
<1>2. Len(sendCases) \in Nat
  BY <1>1, LenProperties
<1>3. \A c \in Channels : \A k \in DOMAIN got[c] : got[c][k] \in Nat /\ got[c][k] # value
  BY <1>1, LenProperties, ElementOfSeq DEF NothingSent
<1>4. Deliveries(value) = {}
  BY <1>3 DEF Deliveries, Places
<1>5. IsFiniteSet(Deliveries(value)') /\ nsent' = Cardinality(Deliveries(value)')
  <2>1. Deliveries(value)' = Deliveries(value)
    BY DEF Deliveries, Places
  <2> QED BY <1>1, <1>4, <2>1, FS_EmptySet DEF NothingSent
<1>6. ASSUME NEW c \in Channels PROVE ServedOn(c)'
  <2>1. Occurrences(got[c], value) = 0
    <3>1. {k \in DOMAIN got[c] : got[c][k] = value} = {}
      BY <1>3
    <3> QED BY <3>1, FS_EmptySet DEF Occurrences
  <2>2. Count(sendCases, c, 1, Len(sendCases)) = Occurrences(sendCases, c) /\ Occurrences(sendCases, c) \in Nat
    BY <1>1, OccurrencesCounted
  <2>3. Count(sendCases, c, Len(sendCases) + 1, Len(sendCases)) = 0
    BY <1>2, CountNone
  <2>4. Occurrences(sendCases, c) <= Cardinality(audience \cap On(c)) /\ (audience \cap On(c))' = audience \cap On(c)
    BY <1>1 DEF On
  <2> QED BY <2>1, <2>2, <2>3, <2>4 DEF ServedOn
<1> QED BY <1>2, <1>5, <1>6 DEF Served

LEMMA TypecheckCounts ==
  ASSUME FeedInv, NEW p \in Senders, Typecheck(p) \/ SetType(p) \/ SendPanics(p)
  PROVE  FeedInv'
<1>1. cases \in Nat /\ i \in Nat \ {0} /\ sendLock \in BOOLEAN /\ Len(sendCases) \in Nat
  BY LenProperties DEF FeedInv, FeedTyped
<1>2. {"typing", "trying", "idle"} \subseteq SenderStates /\ {"joined", "typing"} \subseteq Joined /\ "idle" \notin Joined
  BY DEF SenderStates, Joined
<1>3. CASE Typecheck(p) /\ etype = "none"
  <2>1. /\ pc[p] = "joined" /\ pc' = [pc EXCEPT ![p] = "typing"]
        /\ UNCHANGED <<sendCases, inbox, nsent, value, got, audience>> /\ UNCHANGED <<sendLock, cases, i>>
    BY <1>3 DEF Typecheck
  <2> QED BY <1>1, <1>2, <2>1, HolderStep
<1>4. CASE (Typecheck(p) /\ etype # "none") \/ SetType(p)
  <2>1. /\ pc[p] \in {"joined", "typing"} /\ pc' = [pc EXCEPT ![p] = "trying"]
        /\ UNCHANGED <<sendCases, inbox, nsent, value, got, audience>> /\ sendLock' = sendLock
        /\ cases' = Len(sendCases) /\ i' = 1
    BY <1>4 DEF Typecheck, SetType
  <2>2. Served'
    BY <2>1, ServingBegins
  <2>3. cases' \in Nat /\ i' \in Nat \ {0} /\ pc[p] \in Joined /\ pc[p] # "idle"
    BY <1>1, <1>2, <2>1
  <2> QED BY <1>1, <1>2, <2>1, <2>2, <2>3, HolderStep
<1>5. CASE SendPanics(p)
  <2>1. /\ pc[p] = "joined" /\ pc' = [pc EXCEPT ![p] = "idle"] /\ sendLock' \in BOOLEAN
        /\ UNCHANGED <<sendCases, inbox, nsent, value, got, audience>> /\ UNCHANGED <<cases, i>>
    BY <1>5 DEF SendPanics
  <2> QED BY <1>1, <1>2, <2>1, HolderStep
<1> QED BY <1>3, <1>4, <1>5

\* The steps of the loop that send nothing.
LEMMA LoopCounts ==
  ASSUME FeedInv, NEW p \in Senders, TrySendPanics(p) \/ Block(p) \/ Return(p)
  PROVE  FeedInv'
<1>1. cases \in Nat /\ i \in Nat \ {0} /\ sendLock \in BOOLEAN
  BY DEF FeedInv, FeedTyped
<1>2. {"panicked", "selecting", "idle"} \subseteq SenderStates /\ "trying" \in Joined /\ "idle" \notin Joined /\ "panicked" \notin Joined
  BY DEF SenderStates, Joined
<1>3. CASE TrySendPanics(p)
  <2>1. /\ pc[p] = "trying" /\ pc' = [pc EXCEPT ![p] = "panicked"]
        /\ UNCHANGED <<sendCases, inbox, nsent, value, got, audience>> /\ UNCHANGED <<sendLock, cases, i>>
    BY <1>3 DEF TrySendPanics, SendVars
  <2> QED BY <1>1, <1>2, <2>1, HolderStep
<1>4. CASE Block(p)
  <2>1. /\ pc[p] = "trying" /\ pc' = [pc EXCEPT ![p] = "selecting"]
        /\ UNCHANGED <<sendCases, inbox, nsent, value, got, audience>> /\ UNCHANGED <<sendLock, cases, i>>
    BY <1>4 DEF Block, SendVars
  <2>2. Served
    BY <2>1 DEF FeedInv, SendInv
  <2>3. Served'
    <3>1. Deliveries(value)' = Deliveries(value)
      BY <2>1 DEF Deliveries, Places
    <3> QED BY <2>1, <2>2, <3>1 DEF Served, ServedOn, On
  <2> QED BY <1>1, <1>2, <2>1, <2>3, HolderStep
<1>5. CASE Return(p)
  <2>1. /\ pc[p] = "trying" /\ pc' = [pc EXCEPT ![p] = "idle"] /\ sendLock' \in BOOLEAN
        /\ UNCHANGED <<sendCases, inbox, nsent, value, got, audience>> /\ UNCHANGED <<cases, i>>
    BY <1>5 DEF Return
  <2> QED BY <1>1, <1>2, <2>1, HolderStep
<1> QED BY <1>3, <1>4, <1>5

\* One delivery more.
LEMMA DeliveredOne ==
  ASSUME FeedTyped, NEW k \in 1..Len(sendCases), got' = [got EXCEPT ![sendCases[k]] = Append(@, value)],
         value' = value, IsFiniteSet(Deliveries(value))
  PROVE  IsFiniteSet(Deliveries(value)') /\ Cardinality(Deliveries(value)') = Cardinality(Deliveries(value)) + 1
<1> DEFINE c == sendCases[k]
           n == Len(got[c])
           new == <<c, n + 1>>
<1>1. /\ c \in Channels /\ got \in [Channels -> Seq(Nat)] /\ got[c] \in Seq(Nat) /\ n \in Nat
      /\ DOMAIN got[c] = 1..n
  BY ElementOfSeq, LenProperties DEF FeedTyped
<1>2. /\ got' \in [Channels -> Seq(Nat)] /\ DOMAIN got'[c] = 1..(n + 1) /\ got'[c][n + 1] = value
      /\ \A j \in 1..n : got'[c][j] = got[c][j]
      /\ \A d \in Channels : d # c => got'[d] = got[d]
  <2>1. got'[c] = Append(got[c], value) /\ value \in Nat
    BY <1>1 DEF FeedTyped
  <2>2. Append(got[c], value) \in Seq(Nat) /\ Len(Append(got[c], value)) = n + 1
    BY <1>1, <2>1, AppendProperties
  <2>3. DOMAIN got'[c] = 1..(n + 1)
    BY <2>1, <2>2, LenProperties
  <2>4. got'[c][n + 1] = value /\ \A j \in 1..n : got'[c][j] = got[c][j]
    BY <1>1, <2>1, AppendProperties
  <2>5. got' \in [Channels -> Seq(Nat)]
    BY <1>1, <2>1, <2>2
  <2> QED BY <1>1, <2>3, <2>4, <2>5
<1> HIDE DEF c, n
<1>3. Deliveries(value)' = Deliveries(value) \cup {new}
  <2>1. ASSUME NEW d, NEW j PROVE /\ <<d, j>> \in Deliveries(value) <=> d \in Channels /\ j \in DOMAIN got[d] /\ got[d][j] = value
                                  /\ <<d, j>> \in Deliveries(value)' <=> d \in Channels /\ j \in DOMAIN got'[d] /\ got'[d][j] = value
    BY DEF Deliveries, Places
  <2>2. ASSUME NEW e, e \in Deliveries(value) \/ e \in Deliveries(value)' PROVE e = <<e[1], e[2]>>
    BY <2>2 DEF Deliveries, Places
  <2>3. ASSUME NEW e \in Deliveries(value)' PROVE e \in Deliveries(value) \cup {new}
    <3>1. /\ e = <<e[1], e[2]>> /\ e[1] \in Channels /\ e[2] \in DOMAIN got'[e[1]] /\ got'[e[1]][e[2]] = value
      BY <2>1, <2>2, <2>3
    <3>2. CASE e[1] # c
      BY <1>2, <2>1, <3>1, <3>2
    <3>3. CASE e[1] = c /\ e[2] = n + 1
      BY <3>1, <3>3
    <3>4. CASE e[1] = c /\ e[2] # n + 1
      <4>1. e[2] \in 1..n
        BY <1>1, <1>2, <3>1, <3>4
      <4> QED BY <1>1, <1>2, <2>1, <3>1, <3>4, <4>1
    <3> QED BY <3>2, <3>3, <3>4
  <2>4. ASSUME NEW e \in Deliveries(value) PROVE e \in Deliveries(value)'
    <3>1. /\ e = <<e[1], e[2]>> /\ e[1] \in Channels /\ e[2] \in DOMAIN got[e[1]] /\ got[e[1]][e[2]] = value
      BY <2>1, <2>2, <2>4
    <3>2. CASE e[1] # c
      BY <1>2, <2>1, <3>1, <3>2
    <3>3. CASE e[1] = c
      <4>1. e[2] \in 1..n /\ e[2] \in 1..(n + 1)
        BY <1>1, <3>1, <3>3
      <4> QED BY <1>1, <1>2, <2>1, <3>1, <3>3, <4>1
    <3> QED BY <3>2, <3>3
  <2>5. new \in Deliveries(value)'
    <3>1. n + 1 \in 1..(n + 1)
      BY <1>1
    <3> QED BY <1>1, <1>2, <2>1, <3>1
  <2> QED BY <2>3, <2>4, <2>5
<1>4. new \notin Deliveries(value)
  <2>1. n + 1 \notin DOMAIN got[c]
    BY <1>1
  <2> QED BY <2>1 DEF Deliveries, Places
<1> HIDE DEF new
<1> QED BY <1>3, <1>4, FS_AddElement

\* A case is served: its channel has the value, and moves behind those that are not.
LEMMA DeliverCounts ==
  ASSUME FeedInv, NEW p \in Senders, pc[p] \in {"trying", "selecting"}, pc' = [pc EXCEPT ![p] = "trying"],
         NEW k \in 1..cases, DeliverTo(k), i' \in Nat \ {0},
         UNCHANGED <<sendLock, inbox, value, audience>>
  PROVE  FeedInv'
<1> DEFINE c0 == sendCases[k]
<1>1. /\ got' = [got EXCEPT ![c0] = Append(@, value)] /\ nsent' = nsent + 1
      /\ sendCases' = deactivate(sendCases, cases, k) /\ cases' = cases - 1
  BY DEF DeliverTo
<1>2. /\ FeedTyped /\ Served /\ sendCases \in Seq(Channels) /\ got \in [Channels -> Seq(Nat)]
      /\ cases \in Nat /\ nsent \in Nat /\ value \in Nat /\ audience \subseteq FeedSubs
  BY DEF FeedInv, SendInv, FeedTyped
<1>3. Len(sendCases) \in Nat /\ cases \in 1..Len(sendCases) /\ k \in 1..Len(sendCases) /\ cases - 1 \in Nat
  <2>1. Len(sendCases) \in Nat /\ cases <= Len(sendCases)
    BY <1>2, LenProperties DEF Served
  <2> QED BY <1>2, <2>1
<1>4. c0 \in Channels /\ got[c0] \in Seq(Nat)
  BY <1>2, <1>3, ElementOfSeq
<1>5. /\ sendCases' \in Seq(Channels) /\ Len(sendCases') = Len(sendCases)
      /\ \A c \in Channels : Occurrences(sendCases', c) = Occurrences(sendCases, c)
  <2>1. /\ deactivate(sendCases, cases, k) \in Seq(Channels)
        /\ Len(deactivate(sendCases, cases, k)) = Len(sendCases)
        /\ \A c \in Channels : CountsServed(sendCases, cases, k, c)
    BY <1>2, <1>3, DeactivateCounts, Zenon
  <2> QED BY <1>1, <2>1 DEF CountsServed
<1>6. /\ pc' \in [Senders \cup FeedSubs -> SubStates \cup SenderStates]
      /\ \A s \in FeedSubs : pc'[s] \in SubStates /\ pc'[s] = pc[s]
      /\ \A q \in Senders : pc'[q] \in SenderStates /\ (q # p => pc'[q] = "idle")
      /\ pc'[p] = "trying" /\ OneSender' /\ Sending
  <2>1. "trying" \in SenderStates /\ pc[p] # "idle" /\ pc[p] \in Joined
    BY DEF SenderStates, Joined
  <2> QED BY <2>1, HolderMoves
<1> HIDE DEF c0
<1>7. got'[c0] = Append(got[c0], value) /\ got' \in [Channels -> Seq(Nat)] /\ \A c \in Channels : c # c0 => got'[c] = got[c]
  <2>1. Append(got[c0], value) \in Seq(Nat)
    BY <1>2, <1>4, AppendProperties
  <2> QED BY <1>1, <1>2, <1>4, <2>1
<1>8. FeedTyped'
  <2>1. cases' \in Nat /\ nsent' \in Nat /\ value' \in Nat
    BY <1>1, <1>2, <1>3
  <2>2. sendLock' \in BOOLEAN /\ inbox' \in Seq(Channels) /\ audience' \subseteq FeedSubs
    BY <1>2 DEF FeedTyped
  <2> QED BY <1>5, <1>6, <1>7, <2>1, <2>2 DEF FeedTyped
<1>9. Counted'
  BY <1>5, <1>6, CountedStays
<1>10. InOrder'
  <2>1. ASSUME NEW c \in Channels
        PROVE  /\ \A j, m \in DOMAIN got'[c] : j < m => got'[c][j] <= got'[c][m]
               /\ \A m \in DOMAIN got'[c] : got'[c][m] <= value
    <3>1. /\ \A j, m \in DOMAIN got[c] : j < m => got[c][j] <= got[c][m]
          /\ \A m \in DOMAIN got[c] : got[c][m] <= value
      BY DEF FeedInv, InOrder
    <3>2. CASE c # c0
      BY <1>7, <3>1, <3>2
    <3>3. CASE c = c0
      <4> DEFINE n == Len(got[c])
      <4>1. got[c] \in Seq(Nat) /\ n \in Nat /\ DOMAIN got[c] = 1..n /\ \A j \in 1..n : got[c][j] \in Nat
        BY <1>2, LenProperties, ElementOfSeq
      <4>2. /\ DOMAIN got'[c] = 1..(n + 1) /\ got'[c][n + 1] = value
            /\ \A j \in 1..n : got'[c][j] = got[c][j]
        <5>1. /\ Append(got[c], value) \in Seq(Nat) /\ Len(Append(got[c], value)) = n + 1
              /\ Append(got[c], value)[n + 1] = value
              /\ \A j \in 1..n : Append(got[c], value)[j] = got[c][j]
          BY <1>2, <4>1, AppendProperties
        <5>2. got'[c] = Append(got[c], value)
          BY <1>7, <3>3
        <5> QED BY <5>1, <5>2, LenProperties
      <4> HIDE DEF n
      <4>3. \A j \in 1..(n + 1) : j # n + 1 => j \in 1..n
        BY <4>1
      <4>4. \A m \in DOMAIN got'[c] : got'[c][m] <= value
        BY <1>2, <3>1, <4>1, <4>2, <4>3, SMTT(60)
      <4>5. ASSUME NEW j \in 1..(n + 1), NEW m \in 1..(n + 1), j < m PROVE got'[c][j] <= got'[c][m]
        <5>1. j \in 1..n
          BY <4>1, <4>5
        <5>2. CASE m = n + 1
          BY <1>2, <3>1, <4>1, <4>2, <5>1, <5>2
        <5>3. CASE m # n + 1
          BY <3>1, <4>1, <4>2, <4>3, <4>5, <5>1, <5>3
        <5> QED BY <5>2, <5>3
      <4> QED BY <4>2, <4>4, <4>5
    <3> QED BY <3>2, <3>3
  <2> QED BY <2>1 DEF InOrder
<1>11. Served'
  <2>1. IsFiniteSet(Deliveries(value)') /\ nsent' = Cardinality(Deliveries(value)')
    <3>1. IsFiniteSet(Deliveries(value)) /\ nsent = Cardinality(Deliveries(value))
      BY <1>2 DEF Served
    <3>2. got' = [got EXCEPT ![sendCases[k]] = Append(@, value)]
      BY <1>1 DEF c0
    <3> QED BY <1>1, <1>2, <1>3, <3>1, <3>2, DeliveredOne
  <2>2. ASSUME NEW c \in Channels PROVE ServedOn(c)'
    <3> DEFINE l == Len(sendCases)
               cs == sendCases'
    <3>1. /\ Count(sendCases, c, 1, cases) + Occurrences(got[c], value) <= Cardinality(audience \cap On(c))
          /\ Count(sendCases, c, cases + 1, l) <= Occurrences(got[c], value)
      BY <1>2 DEF Served, ServedOn
    <3>2. /\ sendCases[k] = c => /\ Count(cs, c, 1, cases - 1) = Count(sendCases, c, 1, cases) - 1
                                 /\ Count(cs, c, cases, l) = Count(sendCases, c, cases + 1, l) + 1
          /\ sendCases[k] # c => /\ Count(cs, c, 1, cases - 1) = Count(sendCases, c, 1, cases)
                                 /\ Count(cs, c, cases, l) = Count(sendCases, c, cases + 1, l)
      <4>1. CountsServed(sendCases, cases, k, c)
        BY <1>2, <1>3, DeactivateCounts, Zenon
      <4> QED BY <1>1, <4>1 DEF CountsServed
    <3>3. Count(sendCases, c, 1, cases) \in Nat /\ Count(sendCases, c, cases + 1, l) \in Nat
      <4>1. 1 \in Int /\ cases \in Int /\ cases + 1 \in Int /\ l \in Int
        BY <1>2, <1>3
      <4> QED BY <4>1, CountIsNatural, Zenon
    <3>4. audience \cap On(c) \in SUBSET FeedSubs /\ (audience \cap On(c))' = audience \cap On(c)
      BY <1>2 DEF On
    <3>5. Cardinality(audience \cap On(c)) \in Nat
      BY <3>4, SomeSubscriptions
    <3>6. /\ c = c0 => Occurrences(got'[c], value) = Occurrences(got[c], value) + 1
          /\ c # c0 => Occurrences(got'[c], value) = Occurrences(got[c], value)
          /\ Occurrences(got[c], value) \in Nat
      <4>1. got[c] \in Seq(Nat)
        BY <1>2
      <4>2. Occurrences(Append(got[c], value), value) = Occurrences(got[c], value) + (IF value = value THEN 1 ELSE 0)
        BY <1>2, <4>1, AppendCounts
      <4>3. Occurrences(got[c], value) \in Nat
        BY <4>1, OccurrencesCounted
      <4> QED BY <1>7, <4>2, <4>3
    <3>7. cases' = cases - 1 /\ cases' + 1 = cases /\ Len(cs) = l /\ value' = value
      BY <1>1, <1>2, <1>5
    <3> HIDE DEF l, cs
    <3>8. CASE c = c0
      <4>1. /\ Count(cs, c, 1, cases') + Occurrences(got'[c], value) <= Cardinality(audience \cap On(c))
            /\ Count(cs, c, cases' + 1, Len(cs)) <= Occurrences(got'[c], value)
        BY <3>1, <3>2, <3>3, <3>5, <3>6, <3>7, <3>8, SMTT(60) DEF c0
      <4> QED BY <3>4, <3>7, <4>1 DEF ServedOn, cs
    <3>9. CASE c # c0
      <4>1. /\ Count(cs, c, 1, cases') + Occurrences(got'[c], value) <= Cardinality(audience \cap On(c))
            /\ Count(cs, c, cases' + 1, Len(cs)) <= Occurrences(got'[c], value)
        BY <3>1, <3>2, <3>3, <3>5, <3>6, <3>7, <3>9 DEF c0
      <4> QED BY <3>4, <3>7, <4>1 DEF ServedOn, cs
    <3> QED BY <3>8, <3>9
  <2>3. cases' <= Len(sendCases')
    BY <1>1, <1>2, <1>3, <1>5
  <2> QED BY <2>1, <2>2, <2>3 DEF Served
<1>12. SendInv'
  BY <1>6, <1>11 DEF SendInv
<1> QED BY <1>6, <1>8, <1>9, <1>10, <1>12 DEF FeedInv

LEMMA TrySendCounts ==
  ASSUME FeedInv, NEW p \in Senders, TrySend(p) \/ \E k \in 1..Len(sendCases) : SelectSend(p, k)
  PROVE  FeedInv'
<1>1. cases \in Nat /\ i \in Nat \ {0} /\ pc \in [Senders \cup FeedSubs -> SubStates \cup SenderStates]
  BY DEF FeedInv, FeedTyped
<1>2. CASE TrySend(p) /\ HasRoom(sendCases[i])
  <2>1. /\ pc[p] = "trying" /\ i <= cases /\ DeliverTo(i) /\ i' = i /\ pc' = pc
        /\ UNCHANGED <<sendLock, inbox, value, audience>>
    BY <1>2 DEF TrySend
  <2>2. i \in 1..cases /\ pc' = [pc EXCEPT ![p] = "trying"]
    BY <1>1, <2>1
  <2> QED BY <1>1, <2>1, <2>2, DeliverCounts
<1>3. CASE TrySend(p) /\ ~HasRoom(sendCases[i])
  <2>1. /\ pc[p] = "trying" /\ i' = i + 1 /\ pc' = pc /\ UNCHANGED <<sendLock, cases>>
        /\ UNCHANGED <<sendCases, inbox, nsent, value, got, audience>>
    BY <1>3 DEF TrySend
  <2>2. pc' = [pc EXCEPT ![p] = "trying"] /\ i' \in Nat \ {0} /\ cases' \in Nat
    BY <1>1, <2>1
  <2>3. Served
    BY <2>1 DEF FeedInv, SendInv
  <2>4. Served'
    <3>1. Deliveries(value)' = Deliveries(value)
      BY <2>1 DEF Deliveries, Places
    <3> QED BY <2>1, <2>3, <3>1 DEF Served, ServedOn, On
  <2>5. "trying" \in SenderStates /\ sendLock' \in BOOLEAN
    BY <2>1 DEF SenderStates, FeedInv, FeedTyped
  <2> QED BY <2>1, <2>2, <2>4, <2>5, HolderStep
<1>4. ASSUME NEW k \in 1..Len(sendCases), SelectSend(p, k) PROVE FeedInv'
  <2>1. /\ pc[p] = "selecting" /\ k <= cases /\ DeliverTo(k) /\ i' = 1 /\ pc' = [pc EXCEPT ![p] = "trying"]
        /\ UNCHANGED <<sendLock, inbox, value, audience>>
    BY <1>4 DEF SelectSend
  <2>2. k \in 1..cases /\ i' \in Nat \ {0}
    BY <1>1, <2>1
  <2> QED BY <2>1, <2>2, DeliverCounts
<1> QED BY <1>2, <1>3, <1>4

LEMMA RemoveInSendCounts ==
  ASSUME FeedInv, NEW s \in FeedSubs, NEW p \in Senders, RemoveInSend(s, p)
  PROVE  FeedInv'
<1> DEFINE k == findCase(sendCases, ChanOf[s])
           l == Len(sendCases)
           cs == sendCases'
<1>1. /\ pc[s] = "waiting" /\ pc[p] = "selecting" /\ cs = RemoveAt(sendCases, k)
      /\ cases' = IF k <= cases THEN cases - 1 ELSE cases
      /\ i' = 1 /\ pc' = [pc EXCEPT ![s] = "done", ![p] = "trying"]
      /\ UNCHANGED <<sendLock, inbox, nsent, value, got, audience>>
  BY DEF RemoveInSend, delete, CasesAfter
<1>2. k \in 1..l /\ ChanOf[s] = sendCases[k]
  BY <1>1, WaitingHasCase DEF FeedInv
<1>3. /\ FeedTyped /\ Served /\ sendCases \in Seq(Channels) /\ got \in [Channels -> Seq(Nat)]
      /\ cases \in Nat /\ value \in Nat /\ audience \subseteq FeedSubs
      /\ pc \in [Senders \cup FeedSubs -> SubStates \cup SenderStates]
      /\ \A r \in FeedSubs : pc[r] \in SubStates
  BY <1>1 DEF FeedInv, SendInv, FeedTyped
<1>4. l \in Nat /\ cases <= l
  BY <1>3, LenProperties DEF Served
<1>5. cs \in Seq(Channels) /\ Len(cs) = l - 1
  BY <1>1, <1>2, <1>3, RemoveAtProperties
<1>6. ~sendLock /\ \A q \in Senders : q # p => pc[q] = "idle"
  BY <1>1 DEF FeedInv, OneSender
<1> HIDE DEF k, l
<1>7. /\ pc' \in [Senders \cup FeedSubs -> SubStates \cup SenderStates]
      /\ pc'[s] = "done" /\ pc'[p] = "trying"
      /\ \A r \in FeedSubs : r # s => pc'[r] = pc[r]
      /\ \A q \in Senders : q # p => pc'[q] = "idle"
  <2>1. s # p /\ s \notin Senders /\ p \notin FeedSubs /\ "done" \in SubStates /\ "trying" \in SenderStates
    BY SubscriptionsAreFinite DEF SubStates, SenderStates
  <2> QED BY <1>1, <1>3, <1>6, <2>1
<1>8. Sending /\ Sending'
  BY <1>1, <1>7 DEF Sending, Joined
<1>9. FeedTyped'
  <2>1. \A q \in Senders : pc'[q] \in SenderStates
    BY <1>7 DEF SenderStates
  <2>2. \A r \in FeedSubs : pc'[r] \in SubStates
    BY <1>3, <1>7 DEF SubStates
  <2>3. cases' \in Nat /\ i' \in Nat \ {0} /\ nsent' \in Nat /\ value' \in Nat
    BY <1>1, <1>2, <1>3 DEF FeedTyped
  <2>4. sendLock' \in BOOLEAN /\ inbox' \in Seq(Channels) /\ audience' \subseteq FeedSubs /\ got' \in [Channels -> Seq(Nat)]
    BY <1>1, <1>3 DEF FeedTyped
  <2> QED BY <1>5, <1>7, <2>1, <2>2, <2>3, <2>4 DEF FeedTyped
<1>10. OneSender'
  BY <1>1, <1>6, <1>7 DEF OneSender
<1>11. InOrder'
  BY <1>1 DEF FeedInv, InOrder
<1>12. Counted'
  <2>1. ASSUME NEW c \in Channels PROVE CountedOn(c)'
    <3>1. /\ ChanOf[s] = c => Occurrences(cs, c) = Occurrences(sendCases, c) - 1
          /\ ChanOf[s] # c => Occurrences(cs, c) = Occurrences(sendCases, c)
      <4>1. CountsWithout(sendCases, k, c)
        BY <1>2, <1>3, RemoveAtCounts, Zenon DEF l
      <4> QED BY <1>1, <1>2, <4>1 DEF CountsWithout
    <3>2. /\ ChanOf[s] = c => Cardinality(Live \cap On(c))' = Cardinality(Live \cap On(c)) - 1
          /\ ChanOf[s] # c => Cardinality(Live \cap On(c))' = Cardinality(Live \cap On(c))
          /\ Cardinality(MayBeInInbox(c))' = Cardinality(MayBeInInbox(c))
      <4>1. (Sending' <=> Sending) /\ audience' = audience
        BY <1>1, <1>8
      <4> QED BY <1>1, <1>3, <1>7, <4>1, OneMoves
    <3>3. /\ Occurrences(sendCases, c) + Occurrences(inbox, c) = Cardinality(Live \cap On(c))
          /\ Occurrences(inbox, c) <= Cardinality(MayBeInInbox(c))
          /\ Occurrences(sendCases, c) \in Nat /\ Occurrences(inbox, c) \in Nat
      BY CountsNow
    <3>4. Occurrences(inbox', c) = Occurrences(inbox, c)
      BY <1>1
    <3>5. Occurrences(cs, c) + Occurrences(inbox', c) = Cardinality(Live \cap On(c))'
      BY <3>1, <3>2, <3>3, <3>4
    <3>6. Occurrences(inbox', c) <= Cardinality(MayBeInInbox(c))'
      BY <3>2, <3>3, <3>4
    <3> QED BY <3>5, <3>6 DEF CountedOn
  <2>2. \A r \in audience' : pc'[r] # "new"
    BY <1>1, <1>3, <1>7, <1>8 DEF FeedInv, Counted
  <2> QED BY <2>1, <2>2 DEF Counted
<1>13. Served'
  <2>1. IsFiniteSet(Deliveries(value)') /\ nsent' = Cardinality(Deliveries(value)')
    <3>1. Deliveries(value)' = Deliveries(value)
      BY <1>1 DEF Deliveries, Places
    <3> QED BY <1>1, <1>3, <3>1 DEF Served
  <2>2. ASSUME NEW c \in Channels PROVE ServedOn(c)'
    <3>1. /\ Count(sendCases, c, 1, cases) + Occurrences(got[c], value) <= Cardinality(audience \cap On(c))
          /\ Count(sendCases, c, cases + 1, l) <= Occurrences(got[c], value)
      BY <1>3 DEF Served, ServedOn, l
    <3>2. /\ \A m \in k..l :
               /\ ChanOf[s] = c => Count(cs, c, 1, m - 1) = Count(sendCases, c, 1, m) - 1
               /\ ChanOf[s] # c => Count(cs, c, 1, m - 1) = Count(sendCases, c, 1, m)
               /\ Count(cs, c, m, l - 1) = Count(sendCases, c, m + 1, l)
          /\ \A m \in 0..(k - 1) :
               /\ Count(cs, c, 1, m) = Count(sendCases, c, 1, m)
               /\ ChanOf[s] = c => Count(cs, c, m + 1, l - 1) = Count(sendCases, c, m + 1, l) - 1
               /\ ChanOf[s] # c => Count(cs, c, m + 1, l - 1) = Count(sendCases, c, m + 1, l)
      <4>1. CountsWithout(sendCases, k, c)
        BY <1>2, <1>3, RemoveAtCounts, Zenon DEF l
      <4> QED BY <1>1, <1>2, <4>1 DEF CountsWithout, l
    <3>3. Count(sendCases, c, 1, cases) \in Nat /\ Count(sendCases, c, cases + 1, l) \in Nat
      <4>1. 1 \in Int /\ cases \in Int /\ cases + 1 \in Int /\ l \in Int
        BY <1>3, <1>4
      <4> QED BY <4>1, CountIsNatural, Zenon
    <3>4. (audience \cap On(c))' = audience \cap On(c) /\ audience \cap On(c) \in SUBSET FeedSubs
      BY <1>1, <1>3 DEF On
    <3>5. Cardinality(audience \cap On(c)) \in Nat
      BY <3>4, SomeSubscriptions
    <3>6. Occurrences(got[c], value) \in Nat
      BY <1>3, OccurrencesCounted
    <3> HIDE DEF cs
    <3>7. Count(cs, c, 1, cases') <= Count(sendCases, c, 1, cases) /\ Count(cs, c, 1, cases') \in Int
      <4>1. CASE k <= cases
        <5>1. cases \in k..l /\ cases' = cases - 1
          BY <1>1, <1>2, <1>3, <1>4, <4>1
        <5> QED BY <3>2, <3>3, <5>1
      <4>2. CASE ~(k <= cases)
        <5>1. cases \in 0..(k - 1) /\ cases' = cases
          BY <1>1, <1>2, <1>3, <1>4, <4>2
        <5> QED BY <3>2, <3>3, <5>1
      <4> QED BY <4>1, <4>2
    <3>8. Count(cs, c, cases' + 1, l - 1) <= Count(sendCases, c, cases + 1, l) /\ Count(cs, c, cases' + 1, l - 1) \in Int
      <4>1. CASE k <= cases
        <5>1. cases \in k..l /\ cases' + 1 = cases
          BY <1>1, <1>2, <1>3, <1>4, <4>1
        <5> QED BY <3>2, <3>3, <5>1
      <4>2. CASE ~(k <= cases)
        <5>1. cases \in 0..(k - 1) /\ cases' = cases
          BY <1>1, <1>2, <1>3, <1>4, <4>2
        <5> QED BY <3>2, <3>3, <5>1
      <4> QED BY <4>1, <4>2
    <3>9. /\ Count(cs, c, 1, cases') + Occurrences(got[c], value) <= Cardinality(audience \cap On(c))
          /\ Count(cs, c, cases' + 1, l - 1) <= Occurrences(got[c], value)
      BY <3>1, <3>3, <3>5, <3>6, <3>7, <3>8
    <3>10. Occurrences(got'[c], value') = Occurrences(got[c], value)
      BY <1>1
    <3> QED BY <1>5, <3>4, <3>9, <3>10 DEF ServedOn, cs
  <2>3. cases' <= Len(sendCases')
    BY <1>1, <1>2, <1>3, <1>4, <1>5
  <2> QED BY <2>1, <2>2, <2>3 DEF Served
<1>14. SendInv'
  BY <1>7, <1>13 DEF SendInv
<1> QED BY <1>9, <1>10, <1>11, <1>12, <1>14 DEF FeedInv

LEMMA FeedStarts == FeedInit => FeedInv
<1> SUFFICES ASSUME FeedInit PROVE FeedInv
  OBVIOUS
<1>1. /\ sendLock = TRUE /\ sendCases = <<>> /\ inbox = <<>> /\ cases = 0 /\ i = 1 /\ nsent = 0 /\ value = 0
      /\ pc = [x \in Senders \cup FeedSubs |-> IF x \in FeedSubs THEN "new" ELSE "idle"]
      /\ got = [c \in Channels |-> <<>>] /\ audience = {}
  BY DEF FeedInit
<1>2. (\A p \in Senders : pc[p] = "idle") /\ (\A s \in FeedSubs : pc[s] = "new")
  BY <1>1, SubscriptionsAreFinite
<1>3. FeedTyped
  <2>1. pc \in [Senders \cup FeedSubs -> SubStates \cup SenderStates]
    BY <1>1 DEF SubStates, SenderStates
  <2>2. (\A p \in Senders : pc[p] \in SenderStates) /\ (\A s \in FeedSubs : pc[s] \in SubStates)
    BY <1>2 DEF SubStates, SenderStates
  <2>3. sendLock \in BOOLEAN
    BY <1>1
  <2>4. got \in [Channels -> Seq(Nat)] /\ sendCases \in Seq(Channels) /\ inbox \in Seq(Channels)
    BY <1>1
  <2>5. cases \in Nat /\ i \in Nat \ {0} /\ nsent \in Nat /\ value \in Nat /\ audience \subseteq FeedSubs
    BY <1>1
  <2> QED BY <2>1, <2>2, <2>3, <2>4, <2>5 DEF FeedTyped
<1>4. OneSender /\ ~Sending
  BY <1>2 DEF OneSender, Sending, Joined
<1>5. ASSUME NEW c \in Channels PROVE CountedOn(c)
  <2>1. Live \cap On(c) = {} /\ MayBeInInbox(c) = {}
    BY <1>2 DEF Live, On, MayBeInInbox
  <2>2. {k \in DOMAIN sendCases : sendCases[k] = c} = {} /\ {k \in DOMAIN inbox : inbox[k] = c} = {}
    BY <1>1
  <2> QED BY <2>1, <2>2, FS_EmptySet DEF CountedOn, Occurrences
<1>6. Counted
  BY <1>4, <1>5 DEF Counted
<1>7. InOrder
  BY <1>1 DEF InOrder
<1>8. SendInv
  BY <1>2 DEF SendInv
<1> QED BY <1>3, <1>4, <1>6, <1>7, <1>8 DEF FeedInv

LEMMA FeedSteps == FeedInv /\ [FeedNext]_feedVars => FeedInv'
<1> SUFFICES ASSUME FeedInv, [FeedNext]_feedVars PROVE FeedInv'
  OBVIOUS
<1>1. ASSUME NEW s \in FeedSubs, FeedSubscribe(s) \/ SubscribePanics(s) \/ FeedUnsubscribe(s) \/ RemoveStep(s)
      PROVE  FeedInv'
  BY <1>1, SubscribeCounts, SubscribePanicsCounts, UnsubscribeCounts, RemoveFromInboxCounts,
     RemoveWithLockCounts, RemoveInSendCounts, Zenon DEF RemoveStep
<1>2. ASSUME NEW p \in Senders, Lock(p) \/ SendStep(p) PROVE FeedInv'
  BY <1>2, LockCounts, JoinCounts, TypecheckCounts, LoopCounts, TrySendCounts, Zenon DEF SendStep
<1>3. ASSUME UNCHANGED <<sendLock, sendCases, inbox, etype, cases, i, pc, nsent, value, got, audience>>
      PROVE  FeedInv'
  <2>1. Deliveries(value)' = Deliveries(value)
    BY <1>3 DEF Deliveries, Places
  <2>2. (Sending' <=> Sending) /\ Live' = Live
    BY <1>3 DEF Sending, Live
  <2>3. FeedTyped' /\ OneSender' /\ InOrder'
    BY <1>3 DEF FeedInv, FeedTyped, OneSender, InOrder
  <2>4. Counted'
    BY <1>3, <2>2, CountedStays
  <2>5. SendInv'
    <3>1. NothingSent' <=> NothingSent
      BY <1>3 DEF NothingSent
    <3>2. Served' <=> Served
      BY <1>3, <2>1 DEF Served, ServedOn, On
    <3>3. \A c \in Channels : (audience \cap On(c))' = audience \cap On(c)
      BY <1>3 DEF On
    <3> QED BY <1>3, <3>1, <3>2, <3>3 DEF FeedInv, SendInv
  <2> QED BY <2>3, <2>4, <2>5 DEF FeedInv
<1>4. ASSUME NEW c \in Channels, Receive(c) PROVE FeedInv'
  BY <1>3, <1>4 DEF Receive
<1>5. UNCHANGED feedVars => FeedInv'
  BY <1>3 DEF feedVars
<1> QED BY <1>1, <1>2, <1>4, <1>5, Zenon DEF FeedNext

LEMMA FeedInvAlways == FeedSpec => []FeedInv
BY FeedStarts, FeedSteps, PTL DEF FeedSpec

\* The two invariants of the feed.
LEMMA FeedInvariants == FeedInv => InOrderOnce /\ CasesMatchSubscriptions
<1> SUFFICES ASSUME FeedInv PROVE InOrderOnce /\ CasesMatchSubscriptions
  OBVIOUS
<1>1. ASSUME NEW c \in Channels, NEW p \in Senders, Running(p), pc[p] # "locked"
      PROVE  Occurrences(got[c], value) <= Cardinality(audience \cap On(c))
  <2>1. audience \cap On(c) \in SUBSET FeedSubs
    BY DEF On
  <2>2. Cardinality(audience \cap On(c)) \in Nat
    BY <2>1, SomeSubscriptions
  <2>3. got \in [Channels -> Seq(Nat)] /\ got[c] \in Seq(Nat) /\ value \in Nat /\ cases \in Nat
    BY DEF FeedInv, FeedTyped
  <2>4. CASE pc[p] \in {"joined", "typing"}
    <3>1. NothingSent
      BY <2>4 DEF FeedInv, SendInv
    <3>2. \A k \in DOMAIN got[c] : got[c][k] # value
      BY <2>3, <3>1, LenProperties, ElementOfSeq DEF NothingSent
    <3>3. {k \in DOMAIN got[c] : got[c][k] = value} = {}
      BY <3>2
    <3> QED BY <2>2, <3>3, FS_EmptySet DEF Occurrences
  <2>5. CASE pc[p] \in {"trying", "selecting"}
    <3>1. Count(sendCases, c, 1, cases) + Occurrences(got[c], value) <= Cardinality(audience \cap On(c))
      BY <2>5 DEF FeedInv, SendInv, Served, ServedOn
    <3>2. Count(sendCases, c, 1, cases) \in Nat
      <4>1. 1 \in Int /\ cases \in Int
        BY <2>3
      <4> QED BY <4>1, CountIsNatural, Zenon
    <3>3. Occurrences(got[c], value) \in Nat
      BY <2>3, OccurrencesCounted
    <3> QED BY <2>2, <3>1, <3>2, <3>3
  <2> QED BY <1>1, <2>4, <2>5 DEF Running
<1>2. InOrderOnce
  BY <1>1 DEF FeedInv, InOrder, InOrderOnce
<1>3. ASSUME NEW c \in Channels
      PROVE  /\ Occurrences(sendCases, c) + Occurrences(inbox, c) = Cardinality(Live \cap On(c))
             /\ Occurrences(sendCases, c) >= Cardinality({s \in On(c) : pc[s] = "waiting"})
  <2> DEFINE W == {s \in On(c) : pc[s] = "waiting"}
  <2>1. W \in SUBSET (Live \cap On(c)) /\ W \cap MayBeInInbox(c) = {}
    BY DEF Live, On, MayBeInInbox
  <2>2. W \in SUBSET FeedSubs
    BY DEF On
  <2> HIDE DEF W
  <2>3. Cardinality(W) <= Occurrences(sendCases, c)
    BY <2>1, CaseIsThere DEF FeedInv
  <2>4. Cardinality(W) \in Nat
    BY <2>2, SomeSubscriptions
  <2>5. /\ Occurrences(sendCases, c) + Occurrences(inbox, c) = Cardinality(Live \cap On(c))
        /\ Occurrences(sendCases, c) \in Nat
    BY CountsNow
  <2> QED BY <2>3, <2>4, <2>5 DEF W
<1>4. CasesMatchSubscriptions
  BY <1>3 DEF CasesMatchSubscriptions
<1> QED BY <1>2, <1>4

\* What a Send has done when it returns.
LEMMA SendReaches ==
  ASSUME FeedInv, [FeedNext]_feedVars, NEW p \in Senders, pc[p] = "trying", pc'[p] = "idle"
  PROVE  /\ \A c \in Channels :
              Occurrences(got[c], value) >= Cardinality({s \in audience \cap On(c) : pc[s] = "subscribed"})
         /\ nsent = Cardinality(Deliveries(value))
<1>1. /\ FeedTyped /\ Served /\ cases \in Nat /\ sendCases \in Seq(Channels) /\ got \in [Channels -> Seq(Nat)]
      /\ pc \in [Senders \cup FeedSubs -> SubStates \cup SenderStates]
  BY DEF FeedInv, SendInv, FeedTyped
<1>2. cases = 0
  <2>1. p \notin FeedSubs
    BY SubscriptionsAreFinite
  <2>2. ASSUME NEW s \in FeedSubs, FeedSubscribe(s) \/ SubscribePanics(s) \/ FeedUnsubscribe(s) \/ RemoveStep(s)
        PROVE  pc'[p] # "idle"
    <3>1. ASSUME NEW v, pc' = [pc EXCEPT ![s] = v] PROVE pc'[p] # "idle"
      BY <1>1, <2>1, <3>1
    <3>2. ASSUME NEW q \in Senders, RemoveInSend(s, q) PROVE pc'[p] # "idle"
      BY <1>1, <2>1, <3>2 DEF RemoveInSend
    <3> QED BY <2>2, <3>1, <3>2
          DEF FeedSubscribe, SubscribePanics, FeedUnsubscribe, RemoveStep, RemoveFromInbox, RemoveWithLock
  <2>3. ASSUME NEW q \in Senders, q # p, Lock(q) \/ SendStep(q) PROVE pc'[p] # "idle"
    <3>1. ASSUME NEW v, pc' = [pc EXCEPT ![q] = v] PROVE pc'[p] # "idle"
      BY <1>1, <2>3, <3>1
    <3>2. ASSUME pc' = pc PROVE pc'[p] # "idle"
      BY <3>2
    <3> QED BY <2>3, <3>1, <3>2
          DEF Lock, SendStep, Join, Typecheck, SetType, SendPanics, TrySend, TrySendPanics, Block, Return, SelectSend
  <2>4. ASSUME Lock(p) \/ SendStep(p) PROVE cases = 0
    BY <1>1, <2>4
       DEF Lock, SendStep, Join, Typecheck, SetType, SendPanics, TrySend, TrySendPanics, Block, Return, SelectSend
  <2>5. ASSUME NEW c \in Channels, Receive(c) PROVE pc'[p] # "idle"
    BY <2>5 DEF Receive
  <2>6. ~UNCHANGED feedVars
    BY DEF feedVars
  <2> QED BY <2>2, <2>3, <2>4, <2>5, <2>6 DEF FeedNext
<1>3. ASSUME NEW c \in Channels
      PROVE  Occurrences(got[c], value) >= Cardinality({s \in audience \cap On(c) : pc[s] = "subscribed"})
  <2> DEFINE T == {s \in audience \cap On(c) : pc[s] = "subscribed"}
  <2>1. Sending
    BY DEF Sending, Joined
  <2>2. T \in SUBSET (Live \cap On(c)) /\ T \cap MayBeInInbox(c) = {} /\ T \in SUBSET FeedSubs
    BY <2>1 DEF Live, On, MayBeInInbox
  <2> HIDE DEF T
  <2>3. Cardinality(T) <= Occurrences(sendCases, c) /\ Cardinality(T) \in Nat
    BY <1>1, <2>2, CaseIsThere, SomeSubscriptions DEF FeedInv
  <2>4. Occurrences(sendCases, c) = Count(sendCases, c, 1, Len(sendCases)) /\ Occurrences(sendCases, c) \in Nat
    BY <1>1, OccurrencesCounted
  <2>5. Count(sendCases, c, cases + 1, Len(sendCases)) <= Occurrences(got[c], value)
    BY <1>1 DEF Served, ServedOn
  <2>6. cases + 1 = 1
    BY <1>2
  <2>7. Occurrences(got[c], value) \in Nat
    BY <1>1, OccurrencesCounted
  <2>8. Occurrences(sendCases, c) <= Occurrences(got[c], value)
    BY <2>4, <2>5, <2>6
  <2> QED BY <2>3, <2>4, <2>7, <2>8 DEF T
<1> QED BY <1>1, <1>3 DEF Served

\* Who gets something is subscribed.
LEMMA ReachesLiveOnly ==
  ASSUME FeedInv, [FeedNext]_feedVars, NEW c \in Channels, got'[c] # got[c]
  PROVE  Live \cap On(c) # {}
<1>1. /\ FeedTyped /\ cases \in Nat /\ i \in Nat \ {0} /\ sendCases \in Seq(Channels) /\ got \in [Channels -> Seq(Nat)]
  BY DEF FeedInv, FeedTyped
<1>2. PICK p \in Senders, k \in 1..cases : pc[p] \in {"trying", "selecting"} /\ DeliverTo(k)
  <2>1. ASSUME got' = got PROVE FALSE
    BY <2>1
  <2>2. ASSUME NEW s \in FeedSubs, FeedSubscribe(s) \/ SubscribePanics(s) \/ FeedUnsubscribe(s) \/ RemoveStep(s)
        PROVE  got' = got
    BY <2>2 DEF FeedSubscribe, SubscribePanics, FeedUnsubscribe, RemoveStep, RemoveFromInbox, RemoveWithLock,
                RemoveInSend, SendVars
  <2>3. ASSUME NEW p \in Senders, Lock(p) \/ Join(p) \/ Typecheck(p) \/ SetType(p) \/ SendPanics(p)
                                    \/ TrySendPanics(p) \/ Block(p) \/ Return(p)
        PROVE  got' = got
    BY <2>3 DEF Lock, Join, Typecheck, SetType, SendPanics, TrySendPanics, Block, Return, SendVars
  <2>4. ASSUME NEW p \in Senders, TrySend(p) PROVE pc[p] = "trying" /\ i \in 1..cases /\ DeliverTo(i)
    BY <1>1, <2>1, <2>4 DEF TrySend
  <2>5. ASSUME NEW p \in Senders, NEW k \in 1..Len(sendCases), SelectSend(p, k)
        PROVE  pc[p] = "selecting" /\ k \in 1..cases /\ DeliverTo(k)
    BY <1>1, <2>5 DEF SelectSend
  <2>6. ASSUME NEW d \in Channels, Receive(d) PROVE got' = got
    BY <2>6 DEF Receive
  <2>7. ~UNCHANGED feedVars
    BY <2>1 DEF feedVars
  <2> QED BY <2>1, <2>2, <2>3, <2>4, <2>5, <2>6, <2>7 DEF FeedNext, SendStep
<1>3. Served
  BY <1>2 DEF FeedInv, SendInv
<1>4. k \in 1..Len(sendCases) /\ Len(sendCases) \in Nat
  BY <1>1, <1>2, <1>3, LenProperties DEF Served
<1>5. sendCases[k] = c
  BY <1>1, <1>2 DEF DeliverTo
<1>6. Occurrences(sendCases, c) # 0
  <2>1. IsFiniteSet({j \in DOMAIN sendCases : sendCases[j] = c}) /\ {j \in DOMAIN sendCases : sendCases[j] = c} # {}
    <3>1. DOMAIN sendCases = 1..Len(sendCases) /\ IsFiniteSet(1..Len(sendCases))
      BY <1>1, <1>4, LenProperties, FS_Interval
    <3>2. {j \in DOMAIN sendCases : sendCases[j] = c} \in SUBSET (1..Len(sendCases))
      BY <3>1
    <3>3. k \in {j \in DOMAIN sendCases : sendCases[j] = c}
      BY <1>4, <1>5, <3>1
    <3> QED BY <3>1, <3>2, <3>3, FS_Subset
  <2> QED BY <2>1, FS_EmptySet DEF Occurrences
<1>7. Cardinality(Live \cap On(c)) # 0
  <2>1. /\ Occurrences(sendCases, c) + Occurrences(inbox, c) = Cardinality(Live \cap On(c))
        /\ Occurrences(sendCases, c) \in Nat /\ Occurrences(inbox, c) \in Nat
    BY CountsNow
  <2> QED BY <1>6, <2>1
<1> QED BY <1>7, FS_EmptySet

\* The feed delivers each value once, in the order of the Sends, to every
\* subscription that stayed and to none that is gone, however many senders,
\* subscriptions and channels there are and whatever the channels' buffers hold.
THEOREM FeedAlwaysDelivers == FeedSpec => FeedDelivers
<1>1. FeedInv => InOrderOnce /\ CasesMatchSubscriptions
  BY FeedInvariants
<1>2. FeedInv /\ [FeedNext]_feedVars =>
        [\A p \in Senders : (pc[p] = "trying" /\ pc'[p] = "idle") =>
           /\ \A c \in Channels : Occurrences(got[c], value)
                >= Cardinality({s \in audience \cap On(c) : pc[s] = "subscribed"})
           /\ nsent = Cardinality(Deliveries(value))]_feedVars
  BY SendReaches, Zenon
<1>3. FeedInv /\ [FeedNext]_feedVars =>
        [\A c \in Channels : got'[c] # got[c] => Live \cap On(c) # {}]_feedVars
  BY ReachesLiveOnly, Zenon
<1> QED BY <1>1, <1>2, <1>3, FeedInvAlways, PTL
         DEF FeedSpec, FeedDelivers, SendReachesEverySubscriber, NothingAfterUnsubscribe
=============================================================================
