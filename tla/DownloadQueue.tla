---------------------------- MODULE DownloadQueue ----------------------------
(***************************************************************************)
(* The queue of block bodies and receipts of a synchronisation              *)
(* (eth/downloader/queue.go) with the loop that hands it to peers           *)
(* (fetchParts in eth/downloader/downloader.go): heights are scheduled,     *)
(* reserved in batches, answered in part, wrongly, late or never, expire,   *)
(* and leave the result cache in order.                                     *)
(*                                                                         *)
(* A block's part is its height.  The headers are in order and linked; the  *)
(* skeleton that fetches them is not part of this module.                   *)
(***************************************************************************)
EXTENDS Integers, Sequences, FiniteSets, SequencesExt, FiniteSetsExt

CONSTANTS
  Sources,                   \* peers that may be asked
  Syncs,                     \* what Prepare is called with: mode, pivot and last height
  Top,                       \* the highest of the last heights
  CacheLimit,                \* len(resultCache)
  Capacity,                  \* items a peer is asked for at once
  ForceVerify,               \* fsHeaderForceVerify
  EmptyBody, EmptyReceipts,  \* heights whose part is known to be empty
  DropLimit,                 \* a peer is dropped if at most so many items expire
  MaxSends, MaxJoins         \* bounds on requests and on registrations

ASSUME QueueConstants ==
  /\ Top \in Nat /\ CacheLimit \in Nat /\ ForceVerify \in Nat /\ IsFiniteSet(Sources)
  /\ Syncs \subseteq [fast : BOOLEAN, pivot : Nat, head : 0..Top]

\* The priority of an item is its height as a float32 (queue.go:324, :523, :843).  Up to
\* 2^24 these are exact and the lowest height comes first; beyond, neighbouring heights
\* have the same priority, the order of items is lost, and this module does not apply.
ASSUME PrioritiesAreExact == Top <= 16777216

VARIABLES
  sync,                \* the synchronisation: [fast, pivot, head]
  scheduled,           \* heights scheduled so far
  pool, tasks, pend, done,   \* per kind: taskPool, taskQueue, peer -> request, donePool
  cache, offset,       \* height -> Pending of its result, and the first height in the cache
  got,                 \* per kind: heights whose right part was stored (history)
  queuePeers, lacks,   \* registered peers, and what each is known to lack
  queueBusy,           \* per kind: peers that are not idle
  queueNet,            \* per kind and peer: requests on their way or being answered
  invalid,             \* errInvalidChain was returned
  sends, joins

queueVars == <<sync, scheduled, pool, tasks, pend, done, cache, offset, got, queuePeers, lacks,
               queueBusy, queueNet, invalid, sends, joins>>

Heights  == 1..Top
Kinds    == {"body", "receipt"}
noop(k)  == IF k = "body" THEN EmptyBody ELSE EmptyReceipts
Needs(h) == IF sync.fast /\ h <= sync.pivot THEN {"body", "receipt"} ELSE {"body"}
nil      == 9                \* an unused slot of the cache

\* newQueue and Prepare
QueueInit ==
  /\ sync \in Syncs /\ scheduled = 0 /\ offset = 1 /\ cache = [h \in Heights |-> nil]
  /\ pool = [k \in Kinds |-> {}] /\ tasks = [k \in Kinds |-> {}] /\ done = [k \in Kinds |-> {}]
  /\ got = [k \in Kinds |-> {}]
  /\ pend = [k \in Kinds |-> [p \in Sources |-> {}]]
  /\ queueNet = [k \in Kinds |-> [p \in Sources |-> <<>>]]
  /\ queuePeers = {} /\ lacks = [p \in Sources |-> {}] /\ queueBusy = [k \in Kinds |-> {}]
  /\ invalid = FALSE /\ sends = 0 /\ joins = 0

\* Schedule of the next header; the receipts only up to the pivot
Schedule ==
  /\ ~invalid /\ scheduled < sync.head /\ scheduled' = scheduled + 1
  /\ LET h == scheduled + 1
     IN  /\ pool' = [k \in Kinds |-> IF k \in Needs(h) THEN pool[k] \cup {h} ELSE pool[k]]
         /\ tasks' = [k \in Kinds |-> IF k \in Needs(h) THEN tasks[k] \cup {h} ELSE tasks[k]]
  /\ UNCHANGED <<sync, pend, done, cache, offset, got, queuePeers, lacks, queueBusy, queueNet, invalid,
                 sends, joins>>

-----------------------------------------------------------------------------
(* reserveHeaders                                                           *)

Below(S, h) == {x \in S : x < h}

InCache == {h \in Heights : offset <= h /\ h < offset + CacheLimit}

\* Items under way: the lengths of the pending requests, added up.
UnderWay(k) == Cardinality({x \in Sources \X Heights : x[2] \in pend[k][x[1]]})

space(k) == CacheLimit - Cardinality(done[k]) - UnderWay(k)

ShouldThrottle(k) == UnderWay(k) >= CacheLimit - Cardinality(done[k])

\* What the loop takes from the queue, lowest height first (PrioritiesAreExact): an item
\* is taken while those before it, empty, lacking or sent, leave some space, and those
\* sent some capacity.
Popped(k, p) ==
  {h \in tasks[k] :
     /\ Cardinality(Below(tasks[k], h)) < space(k)
     /\ Cardinality(Below(tasks[k] \ (noop(k) \cup lacks[p]), h)) < Capacity}

\* The first item that has no place in the cache ends the loop; what was to be sent or
\* skipped is then gone from the queue.
Reserved(k, p) ==
  LET bad  == Popped(k, p) \ InCache
      seen == {h \in Popped(k, p) : \A b \in bad : h < b}
      none == seen \cap noop(k)
      send == seen \ (noop(k) \cup lacks[p])
  IN  [err |-> bad # {}, seen |-> seen, none |-> none, send |-> send,
       rest |-> IF bad = {} THEN tasks[k] \ (none \cup send)
                ELSE {h \in tasks[k] : \E b \in bad : b < h}]

\* An idle peer is asked, unless throttled; the peer is busy from then on.
Reserve(k, p) ==
  /\ ~invalid /\ p \in queuePeers /\ p \notin queueBusy[k] /\ tasks[k] # {} /\ pend[k][p] = {}
  /\ ~ShouldThrottle(k) /\ sends < MaxSends
  /\ LET r == Reserved(k, p)
     IN  /\ invalid' = r.err
         /\ cache' = [h \in Heights |->
                        IF h \notin r.seen THEN cache[h]
                        ELSE (IF cache[h] = nil THEN Cardinality(Needs(h)) ELSE cache[h])
                             - (IF h \in r.none THEN 1 ELSE 0)]
         /\ done' = [done EXCEPT ![k] = @ \cup r.none]
         /\ got' = [got EXCEPT ![k] = @ \cup r.none]
         /\ pool' = [pool EXCEPT ![k] = @ \ r.none]
         /\ tasks' = [tasks EXCEPT ![k] = r.rest]
         /\ IF r.err \/ r.send = {} THEN UNCHANGED <<pend, queueBusy, queueNet, sends>>
            ELSE /\ pend' = [pend EXCEPT ![k][p] = r.send]
                 /\ queueBusy' = [queueBusy EXCEPT ![k] = @ \cup {p}]
                 /\ queueNet' = [queueNet EXCEPT ![k][p] = Append(@, r.send)]
                 /\ sends' = sends + 1
  /\ UNCHANGED <<sync, scheduled, offset, queuePeers, lacks, joins>>

-----------------------------------------------------------------------------
(* Answers                                                                  *)

\* The result of this height has no slot (any more).
NoSlot(h) == h \notin InCache \/ cache[h] = nil

\* The items of a request that an answer serves: both are in the order of the heights
\* and are compared until the first that differs or has no slot.
Accepted(req, reply) ==
  {h \in req : /\ \A x \in req : x <= h => ~NoSlot(x)
               /\ {x \in req : x <= h} = {x \in reply : x <= h}}

\* Slip: parts that were not accepted are forgotten.
ReturnNone(k, S) == tasks[k]

\* Tasks go back to the queue.
Return(k, S) == tasks[k] \cup S

\* A registered peer answers a request that was sent to it, perhaps an older one than
\* the pending, with what it has of it.
Deliver(k, p, i, reply) ==
  LET req   == pend[k][p]
      ok    == Accepted(req, reply)
      stale == req # {} /\ ok = {} /\ reply # {}
  IN  /\ ~invalid /\ p \in queuePeers
      /\ queueNet' = [queueNet EXCEPT ![k][p] = RemoveAt(@, i)]
      /\ pend' = [pend EXCEPT ![k][p] = {}]
      /\ lacks' = IF reply = {} THEN [lacks EXCEPT ![p] = @ \cup req] ELSE lacks
      /\ cache' = [h \in Heights |-> IF h \in ok THEN cache[h] - 1 ELSE cache[h]]
      /\ done' = [done EXCEPT ![k] = @ \cup ok]
      /\ got' = [got EXCEPT ![k] = @ \cup ok]
      /\ pool' = [pool EXCEPT ![k] = @ \ ok]
      /\ tasks' = [tasks EXCEPT ![k] = Return(k, req \ ok)]
      /\ queueBusy' = [queueBusy EXCEPT ![k] = IF stale THEN @ ELSE @ \ {p}]
      /\ invalid' = \E h \in req \ ok : /\ NoSlot(h) /\ Below(req, h) \subseteq ok
                                      /\ Cardinality(Below(req, h)) < Cardinality(reply)
      /\ UNCHANGED <<sync, scheduled, offset, queuePeers, sends, joins>>

\* A message is lost, or its peer is not registered any more.
Lost(k, p, i) ==
  /\ queueNet' = [queueNet EXCEPT ![k][p] = RemoveAt(@, i)]
  /\ UNCHANGED <<sync, scheduled, pool, tasks, pend, done, cache, offset, got, queuePeers, lacks,
                 queueBusy, invalid, sends, joins>>

\* Revoke
Revoked(p) == [k \in Kinds |-> Return(k, pend[k][p])]

\* UnregisterPeer, of a peer that disconnects
UnregisterPeer(p) ==
  /\ p \in queuePeers /\ queuePeers' = queuePeers \ {p}
  /\ tasks' = Revoked(p) /\ pend' = [k \in Kinds |-> [pend[k] EXCEPT ![p] = {}]]
  /\ queueBusy' = [k \in Kinds |-> queueBusy[k] \ {p}]
  /\ UNCHANGED <<sync, scheduled, pool, done, cache, offset, got, lacks, queueNet, invalid, sends, joins>>

RegisterPeer(p) ==
  /\ p \notin queuePeers /\ joins < MaxJoins /\ joins' = joins + 1
  /\ queuePeers' = queuePeers \cup {p}
  /\ lacks' = [lacks EXCEPT ![p] = {}]
  /\ UNCHANGED <<sync, scheduled, pool, tasks, pend, done, cache, offset, got, queueBusy, queueNet,
                 invalid, sends>>

expirePend(k, p) == [pend EXCEPT ![k][p] = {}]

\* A request times out; a peer that had few items to deliver is dropped.
Expire(k, p) ==
  /\ ~invalid /\ pend[k][p] # {}
  /\ IF Cardinality(pend[k][p]) > DropLimit
     THEN /\ tasks' = [tasks EXCEPT ![k] = Return(k, pend[k][p])]
          /\ pend' = expirePend(k, p)
          /\ queueBusy' = [queueBusy EXCEPT ![k] = @ \ {p}] /\ UNCHANGED queuePeers
     ELSE /\ queuePeers' = queuePeers \ {p} /\ tasks' = Revoked(p)
          /\ pend' = [j \in Kinds |-> [pend[j] EXCEPT ![p] = {}]]
          /\ queueBusy' = [j \in Kinds |-> queueBusy[j] \ {p}]
  /\ UNCHANGED <<sync, scheduled, pool, done, cache, offset, got, lacks, queueNet, invalid, sends, joins>>

-----------------------------------------------------------------------------
(* Results                                                                  *)

\* The pivot waits until enough headers after it are in the cache.
waitsForMore(h) ==
  sync.fast /\ h = sync.pivot /\ \E j \in 1..ForceVerify : NoSlot(h + j)

\* countProcessableItems, as the last height they reach
Processable ==
  Max({offset - 1} \cup {n \in InCache : \A h \in offset..n : cache[h] = 0 /\ ~waitsForMore(h)})

WaitResults ==
  /\ ~invalid /\ Processable >= offset
  /\ offset' = Processable + 1
  /\ done' = [k \in Kinds |-> done[k] \ (offset..Processable)]
  /\ cache' = [h \in Heights |-> IF h \in offset..Processable THEN nil ELSE cache[h]]
  /\ UNCHANGED <<sync, scheduled, pool, tasks, pend, got, queuePeers, lacks, queueBusy, queueNet,
                 invalid, sends, joins>>

QueueNext ==
  \/ Schedule \/ WaitResults
  \/ \E p \in Sources : RegisterPeer(p) \/ UnregisterPeer(p)
  \/ \E k \in Kinds, p \in Sources :
       \/ Reserve(k, p) \/ Expire(k, p)
       \/ \E i \in DOMAIN queueNet[k][p] :
            Lost(k, p, i) \/ \E reply \in SUBSET queueNet[k][p][i] : Deliver(k, p, i, reply)

QueueSpec == QueueInit /\ [][QueueNext]_queueVars

-----------------------------------------------------------------------------
(* Properties                                                               *)

\* How often a height is in the task queue or in a request under way.  The queue is a
\* set: as long as there is one copy, nothing is pushed that is in it already.
Copies(k, h) ==
  (IF h \in tasks[k] THEN 1 ELSE 0) + Cardinality({p \in Sources : h \in pend[k][p]})

\* Every part that is scheduled and not imported is in exactly one place: the task queue,
\* one request, or done.
OnePlace ==
  \A k \in Kinds, h \in Heights :
    /\ Copies(k, h) = IF h \in pool[k] THEN 1 ELSE 0
    /\ h \in pool[k] <=> (h <= scheduled /\ k \in Needs(h) /\ h \notin got[k])
    /\ h \in done[k] <=> (h \in got[k] /\ h >= offset)

\* A result leaves the cache once all its parts are there, and the pivot only with
\* the headers that vouch for it.
ImportedIsComplete ==
  /\ \A h \in 1..(offset - 1) : \A k \in Needs(h) : h \in got[k]
  /\ (sync.fast /\ sync.pivot \in 1..(offset - 1)) => scheduled >= sync.pivot + ForceVerify

\* A result counts the parts it still waits for.
PendingIsRight ==
  \A h \in Heights : cache[h] # nil =>
    h >= offset /\ cache[h] = Cardinality({k \in Needs(h) : h \notin got[k]})

\* The throttle keeps every reservation inside the cache, and no answer finds its slot gone.
NeverInvalid == ~invalid

\* Whatever peers answer, leave out, repeat late or never send: each part is in one
\* place, nothing is lost, fetched twice or imported without its parts, results count
\* what they wait for, and none falls outside the cache.
EachPartOnce == OnePlace /\ ImportedIsComplete /\ PendingIsRight /\ NeverInvalid

-----------------------------------------------------------------------------
(* What comments of the code say and the code does not keep: the README has  *)
(* the behaviours.  No run checks these.                                     *)

\* A peer that is busy has a request pending or a message on its way; otherwise nothing
\* would ever make it idle again.
BusyIsServed ==
  \A k \in Kinds : \A p \in queuePeers \cap queueBusy[k] : pend[k][p] # {} \/ queueNet[k][p] # <<>>
=============================================================================
