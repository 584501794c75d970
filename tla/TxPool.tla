------------------------------- MODULE TxPool -------------------------------
(***************************************************************************)
(* The transaction pool of the host client (core/tx_pool.go, tx_list.go    *)
(* and tx_journal.go): executable (pending) and future (queue) transactions *)
(* per account, the price heap behind the limits, the local accounts and   *)
(* their journal on disk, against a chain whose head moves at any time.    *)
(*                                                                         *)
(* A transaction is a record; its hash is the record.  A list is a set of  *)
(* transactions with distinct nonces: the nonce heap and the sort cache    *)
(* are left out.  A nil list is the empty list, for the pool deletes every *)
(* list it empties.  Time is the order of the accounts' heartbeats.        *)
(***************************************************************************)
EXTENDS Integers, Sequences, FiniteSets, FiniteSetsExt, SequencesExt

CONSTANTS
  Addrs,          \* accounts
  Txs,            \* transactions [from, nonce, price, cost, gas]
  Funds,          \* account -> its balance in the genesis state
  GasLimits,      \* block gas limits a new head may have
  PriceLimit,     \* config: initial minimal price
  PriceBump,      \* config: percentage a replacement has to add
  AccountSlots, GlobalSlots, AccountQueue, GlobalQueue,   \* config: limits
  Prices,         \* prices SetGasPrice is called with
  Batches,        \* batches AddRemotes is called with
  Reorgs,         \* whether blocks are replaced
  MaxBlocks,      \* bound on the chain
  MaxOps          \* bound on the calls into the pool

VARIABLES
  p,              \* the pool
  mined,          \* the transactions of the canonical chain, one per block
  gasLimit,       \* of the head block
  headEvent,      \* a ChainHeadEvent waits in chainHeadCh
  removedTxs,     \* RemovedTransactionEvents waiting in rmTxCh
  ops, act        \* calls so far; the last action, for the action properties

vars == <<p, mined, gasLimit, headEvent, removedTxs, ops, act>>

DistinctPrices == \A s, t \in Txs : s.price = t.price => s = t
SlotsArePositive == AccountSlots \in Nat \ {0} /\ GlobalSlots \in Nat

-----------------------------------------------------------------------------
(* The chain state the pool asks for: blockChain.State() and GasLimit().    *)

StateNonce(a) == Len(SelectSeq(mined, LAMBDA t : t.from = a))
Balance(a) == Funds[a] - FoldLeft(LAMBDA s, t : IF t.from = a THEN s + t.cost ELSE s, 0, mined)

-----------------------------------------------------------------------------
(* tx_list.go: lists of one account                                         *)

newTxList == [txs |-> {}, costcap |-> 0, gascap |-> 0]

NoncesOf(S) == {t.nonce : t \in S}
ByNonce(S) == SetToSortSeq(S, LAMBDA s, t : s.nonce < t.nonce)
Overlaps(l, tx) == tx.nonce \in NoncesOf(l.txs)

BumpedPrice(old) == (old.price * (100 + PriceBump)) \div 100

Put(l, tx, old) ==
  [txs     |-> (l.txs \ old) \cup {tx},
   costcap |-> IF l.costcap < tx.cost THEN tx.cost ELSE l.costcap,
   gascap  |-> IF l.gascap < tx.gas THEN tx.gas ELSE l.gascap]

Add(l, tx) ==
  LET old == {t \in l.txs : t.nonce = tx.nonce}
      ok  == \A t \in old : BumpedPrice(t) < tx.price
  IN  [inserted |-> ok, old |-> old, list |-> IF ok THEN Put(l, tx, old) ELSE l]

Forward(l, threshold) == {t \in l.txs : t.nonce < threshold}

Unpayable(l, costLimit, limit) ==
  IF l.costcap <= costLimit /\ l.gascap <= limit THEN {}
  ELSE {t \in l.txs : t.cost > costLimit \/ t.gas > limit}

\* Filter lowers the caps whenever it does not short circuit.
Lowered(l, costLimit, limit) ==
  IF l.costcap <= costLimit /\ l.gascap <= limit THEN l
  ELSE [l EXCEPT !.costcap = costLimit, !.gascap = limit]

\* The followers of removed transactions in a strict list.
Invalids(l, removed) ==
  {t \in l.txs \ removed : \E r \in removed : r.nonce < t.nonce}

\* What Cap drops: the highest nonces over the limit.
Cap(l, threshold) ==
  {t \in l.txs : Cardinality({s \in l.txs : s.nonce < t.nonce}) >= threshold}

\* What Ready hands over: the run from the lowest nonce, if that is not too high.
Ready(l, start) ==
  LET ns == NoncesOf(l.txs)
  IN  {t \in l.txs : Min(ns) <= start /\ \A n \in Min(ns) .. t.nonce : n \in ns}

Without(l, S) == [l EXCEPT !.txs = @ \ S]

\* A list the pool deletes once it is empty.
Kept(l) == IF l.txs = {} THEN newTxList ELSE l

-----------------------------------------------------------------------------
(* tx_list.go: the price heap, kept as a sequence sorted by price           *)

PutPriced(items, tx) ==
  SelectSeq(items, LAMBDA t : t.price <= tx.price) \o <<tx>>
    \o SelectSeq(items, LAMBDA t : t.price > tx.price)

Sorted(S) == SetToSortSeq(S, LAMBDA s, t : s.price < t.price)

\* Removed: one more stale price point; over a quarter of them, reheap.
Removed(q) ==
  IF q.stales + 1 <= Len(q.items) \div 4 THEN [q EXCEPT !.stales = @ + 1]
  ELSE [q EXCEPT !.stales = 0, !.items = Sorted(q.all)]

IsLocal(q, tx) == tx.from \in q.locals

\* Underpriced pops the stale price points in front of the first live one.
PopStale(q) ==
  LET live == {i \in DOMAIN q.items : q.items[i] \in q.all}
      k    == IF live = {} THEN Len(q.items) ELSE Min(live) - 1
  IN  [q EXCEPT !.items = SubSeq(@, k + 1, Len(@)), !.stales = @ - k]

Underpriced(q, tx) ==
  ~IsLocal(q, tx) /\ LET h == PopStale(q).items IN h # <<>> /\ Head(h).price >= tx.price

\* One pop of Cap or Discard: stale entries go, local ones are put back, remote
\* ones are dropped.  more says whether the loop goes on.
Popped(acc, tx) ==
  IF ~acc.more THEN [acc EXCEPT !.rest = Append(@, tx)]
  ELSE IF tx \notin acc.q.all THEN [acc EXCEPT !.q.stales = @ - 1]
  ELSE IF IsLocal(acc.q, tx) THEN [acc EXCEPT !.rest = Append(@, tx)]
  ELSE [acc EXCEPT !.drop = Append(@, tx)]

PopFrom(q) == [q |-> q, drop |-> <<>>, rest |-> <<>>, more |-> TRUE]

\* Discard: the cheapest count remote transactions.
Discard(q, count) ==
  FoldLeft(LAMBDA acc, tx : Popped([acc EXCEPT !.more = Len(acc.drop) < count], tx),
           PopFrom(q), q.items)

\* Slip: local transactions are dropped like the others.
CapPricedLocals(q, threshold) ==
  LET below == SelectSeq(q.items, LAMBDA t : t.price < threshold)
  IN  [PopFrom(q) EXCEPT !.drop = below, !.rest = SelectSeq(q.items, LAMBDA t : t.price >= threshold)]

\* Cap: what is below the threshold.  The first live transaction that is not was
\* popped too, and is not put back.
CapPriced(q, threshold) ==
  FoldLeft(LAMBDA acc, tx :
             IF acc.more /\ tx \in acc.q.all /\ tx.price >= threshold
             THEN [acc EXCEPT !.more = FALSE] ELSE Popped(acc, tx),
           PopFrom(q), q.items)

-----------------------------------------------------------------------------
(* tx_pool.go: moving transactions.  The operators take and return a pool.  *)

Forget(q, tx) == Removed([q EXCEPT !.all = @ \ {tx}])
ForgetAll(q, S) == FoldLeft(Forget, q, ByNonce(S))
Known(q, tx) == [q EXCEPT !.all = @ \cup {tx}, !.items = PutPriced(@, tx)]

EnqueueOk(q, tx) == Add(q.queue[tx.from], tx).inserted

\* enqueueTx, for a transaction the list accepts; the pool is unchanged otherwise.
enqueueTx(q, tx) ==
  LET r == Add(q.queue[tx.from], tx)
  IN  IF r.inserted THEN Known(ForgetAll([q EXCEPT !.queue[tx.from] = r.list], r.old), tx) ELSE q

Beat(q, a) == [q EXCEPT !.beats = Append(SelectSeq(@, LAMBDA b : b # a), a)]
NoBeat(q, a) == [q EXCEPT !.beats = SelectSeq(@, LAMBDA b : b # a)]

KnownOnce(q, tx) == IF tx \in q.all THEN q ELSE Known(q, tx)

promoteTx(q, tx) ==
  LET r == Add(q.pending[tx.from], tx)
      s == ForgetAll([q EXCEPT !.pending[tx.from] = r.list], r.old)
  IN  IF ~r.inserted THEN Forget(q, tx)
      ELSE [Beat(KnownOnce(s, tx), tx.from) EXCEPT !.nonces[tx.from] = tx.nonce + 1]

LowerNonce(q, tx) ==
  [q EXCEPT !.nonces[tx.from] = IF @ > tx.nonce THEN tx.nonce ELSE @]

\* Slip: the account's next nonce stays where it was.
removePendingNonce(q, tx) ==
  LET gone == {t \in q.pending[tx.from].txs : t.nonce >= tx.nonce}
  IN  [q EXCEPT !.pending[tx.from] = Kept(Without(@, gone))]

\* removeTx in the pending list.  The followers are put in the queue only if
\* the list still holds transactions.
removePending(q, tx) ==
  LET a    == tx.from
      gone == {t \in q.pending[a].txs : t.nonce >= tx.nonce}
      left == Without(q.pending[a], gone)
      s    == [q EXCEPT !.pending[a] = Kept(left)]
      foll == {t \in gone : t.nonce > tx.nonce}
  IN  LowerNonce(IF left.txs = {} THEN NoBeat(s, a)
                 ELSE FoldLeft(enqueueTx, s, ByNonce(foll)), tx)

removeTx(q, tx) ==
  LET s    == Forget(q, tx)
      same == {t \in q.queue[tx.from].txs : t.nonce = tx.nonce}
  IN  IF tx \notin q.all THEN q
      ELSE IF Overlaps(q.pending[tx.from], tx) THEN removePending(s, tx)
      ELSE [s EXCEPT !.queue[tx.from] = Kept(Without(@, same))]

-----------------------------------------------------------------------------
(* tx_pool.go: promoteExecutables                                           *)

TakeQueued(q, a, S) == ForgetAll([q EXCEPT !.queue[a] = Without(@, S)], S)

DropOldQueued(q, a) == TakeQueued(q, a, Forward(q.queue[a], StateNonce(a)))

DropUnpayableQueued(q, a) ==
  TakeQueued([q EXCEPT !.queue[a] = Lowered(@, Balance(a), gasLimit)], a,
             Unpayable(q.queue[a], Balance(a), gasLimit))

PromoteReady(q, a) ==
  LET ready == Ready(q.queue[a], q.nonces[a])
  IN  FoldLeft(promoteTx, [q EXCEPT !.queue[a] = Without(@, ready)], ByNonce(ready))

CapAccountQueue(q, a) ==
  IF a \in q.locals THEN q ELSE TakeQueued(q, a, Cap(q.queue[a], AccountQueue))

\* The part for one account, in the order of its comments.
promoteAccount(q, a) ==
  IF q.queue[a].txs = {} THEN q
  ELSE [CapAccountQueue(PromoteReady(DropUnpayableQueued(DropOldQueued(q, a), a), a), a)
          EXCEPT !.queue[a] = Kept(@)]

Size(l) == Cardinality(l.txs)
PendingCount(q) == MapThenSumSet(LAMBDA a : Size(q.pending[a]), Addrs)
QueuedCount(q) == MapThenSumSet(LAMBDA a : Size(q.queue[a]), Addrs)

Position(s, x) == IF \E i \in DOMAIN s : s[i] = x THEN CHOOSE i \in DOMAIN s : s[i] = x ELSE 0

\* One round of the equalisation: every offender loses its last transaction.
DropLast(q, a) ==
  LET tx == Cap(q.pending[a], Size(q.pending[a]) - 1)
      s  == ForgetAll([q EXCEPT !.pending[a] = Without(@, tx)], tx)
  IN  FoldLeft(LowerNonce, s, ByNonce(tx))
Round(q, offenders) == FoldLeft(DropLast, q, offenders)

\* Rounds until the limit is met or the chosen offender is down to the floor.
Rounds(q, offenders, chosen, floor) ==
  FoldLeft(LAMBDA s, i : IF PendingCount(s) > GlobalSlots /\ Size(s.pending[chosen]) > floor
                         THEN Round(s, offenders) ELSE s,
           q, [i \in 1 .. Cardinality(Txs) |-> i])

\* At last all offenders go down to their guaranteed slots.
ToGuaranteed(acc) ==
  IF acc.offenders = <<>> THEN acc.q
  ELSE Rounds(acc.q, acc.offenders, Last(acc.offenders), AccountSlots)

\* The pending limit: the largest accounts are made equal to the next largest,
\* then all of them are reduced to their guaranteed slots.
CapPending(q, order) ==
  LET spammers == SetToSortSeq({a \in Addrs \ q.locals : Size(q.pending[a]) > AccountSlots},
                    LAMBDA a, b : \/ Size(q.pending[a]) > Size(q.pending[b])
                                  \/ /\ Size(q.pending[a]) = Size(q.pending[b])
                                     /\ Position(order, a) < Position(order, b))
      \* the offender popped i-th sets the threshold for those before it
      Popd(acc, a) ==
        IF PendingCount(acc.q) <= GlobalSlots THEN acc
        ELSE [q |-> IF acc.offenders = <<>> THEN acc.q
                    ELSE Rounds(acc.q, acc.offenders, Last(acc.offenders), Size(acc.q.pending[a])),
              offenders |-> Append(acc.offenders, a)]
  IN  ToGuaranteed(FoldLeft(Popd, [q |-> q, offenders |-> <<>>], spammers))

QueueVictims(q) == {a \in Addrs \ q.locals : q.queue[a].txs # {}}

\* The queue limit: whole accounts, then the last transactions of one, starting
\* with the most recent heartbeat.
CapQueue(q, order) ==
  LET victims == SetToSortSeq(QueueVictims(q),
                   LAMBDA a, b : \/ Position(q.beats, a) > Position(q.beats, b)
                                 \/ /\ Position(q.beats, a) = Position(q.beats, b)
                                    /\ Position(order, a) < Position(order, b))
      DropFrom(acc, a) ==
        LET n    == Size(acc.q.queue[a])
            drop == Cap(acc.q.queue[a], IF n <= acc.drop THEN 0 ELSE n - acc.drop)
        IN  [q    |-> FoldLeft(removeTx, acc.q, IF n <= acc.drop THEN ByNonce(drop) ELSE Reverse(ByNonce(drop))),
             drop |-> acc.drop - Cardinality(drop)]
  IN  IF QueuedCount(q) <= GlobalQueue THEN q
      ELSE FoldLeft(DropFrom, [q |-> q, drop |-> QueuedCount(q) - GlobalQueue], victims).q

promoteExecutables(q, accounts, order) ==
  CapQueue(CapPending(FoldLeft(promoteAccount, q, accounts), order), order)

-----------------------------------------------------------------------------
(* tx_pool.go: adding transactions                                          *)

\* The checks that depend on the pool or the chain; Txs are well formed, signed
\* and carry their intrinsic gas.
validateTx(q, tx, local) ==
  /\ tx.gas <= gasLimit
  /\ local \/ IsLocal(q, tx) \/ q.gasPrice <= tx.price
  /\ StateNonce(tx.from) <= tx.nonce
  /\ Balance(tx.from) >= tx.cost

journalTx(q, tx) ==
  IF q.writer /\ IsLocal(q, tx) THEN [q EXCEPT !.disk = Append(@, tx)] ELSE q

Full(q) == Cardinality(q.all) >= GlobalSlots + GlobalQueue

RemoveDropped(d) == FoldLeft(removeTx, [d.q EXCEPT !.items = d.rest], d.drop)

DiscardOver(q) ==
  RemoveDropped(Discard(q, Cardinality(q.all) - (GlobalSlots + GlobalQueue - 1)))

\* Room made in a full pool for a transaction that is not underpriced.
MakeRoom(q, tx) == DiscardOver(IF IsLocal(q, tx) THEN q ELSE PopStale(q))

\* The transaction takes the place of a pending one with its nonce.
ReplacePending(q, tx) ==
  LET r == Add(q.pending[tx.from], tx)
  IN  journalTx(Known(ForgetAll([q EXCEPT !.pending[tx.from] = r.list], r.old), tx), tx)

\* A failed or successful add: [q, ok, replace].
Failed(q) == [q |-> q, ok |-> FALSE, replace |-> FALSE]
Added(q, replace) == [q |-> q, ok |-> TRUE, replace |-> replace]

WhitelistedIf(q, tx, local) == IF local THEN [q EXCEPT !.locals = @ \cup {tx.from}] ELSE q

\* The rest of add, once there is room.
Place(q, tx, local) ==
  IF Overlaps(q.pending[tx.from], tx)
  THEN IF Add(q.pending[tx.from], tx).inserted THEN Added(ReplacePending(q, tx), TRUE) ELSE Failed(q)
  ELSE IF EnqueueOk(q, tx)
  THEN Added(journalTx(WhitelistedIf(enqueueTx(q, tx), tx, local), tx), Overlaps(q.queue[tx.from], tx))
  ELSE Failed(q)

add(q, tx, local) ==
  IF tx \in q.all \/ ~validateTx(q, tx, local) THEN Failed(q)
  ELSE IF Full(q) /\ Underpriced(q, tx) THEN Failed(PopStale(q))
  ELSE Place(IF Full(q) THEN MakeRoom(q, tx) ELSE q, tx, local)

PromoteDirty(acc, order) ==
  IF acc.dirty = {} THEN acc.q
  ELSE promoteExecutables(acc.q, SelectSeq(order, LAMBDA a : a \in acc.dirty), order)

\* addTx, and addTxs for a batch: promote the accounts something new came in for.
addTxs(q, txs, local, order) ==
  LET Noted(acc, tx, r) == [q     |-> r.q,
                            dirty |-> acc.dirty \cup (IF r.ok /\ ~r.replace THEN {tx.from} ELSE {})]
      One(acc, tx) == Noted(acc, tx, add(acc.q, tx, local))
  IN  PromoteDirty(FoldLeft(One, [q |-> q, dirty |-> {}], txs), order)

-----------------------------------------------------------------------------
(* tx_pool.go: following the chain, start and journal                       *)

TakePending(q, a, S) == ForgetAll([q EXCEPT !.pending[a] = Without(@, S)], S)

DropOldPending(q, a) == TakePending(q, a, Forward(q.pending[a], StateNonce(a)))

\* What cannot be paid goes; what follows it is queued.
DropUnpayablePending(q, a) ==
  LET drops == Unpayable(q.pending[a], Balance(a), gasLimit)
      inv   == Invalids(q.pending[a], drops)
      left  == [q EXCEPT !.pending[a] = Without(Lowered(@, Balance(a), gasLimit), drops \cup inv)]
  IN  FoldLeft(enqueueTx, ForgetAll(left, drops), ByNonce(inv))

KeptPending(q, a) ==
  IF q.pending[a].txs = {} THEN NoBeat([q EXCEPT !.pending[a] = Kept(@)], a) ELSE q

demoteAccount(q, a) ==
  IF q.pending[a].txs = {} THEN q
  ELSE KeptPending(DropUnpayablePending(DropOldPending(q, a), a), a)

\* The managed nonces behind the pending transactions
BehindPending(q) ==
  [q EXCEPT !.nonces = [a \in Addrs |->
     IF q.pending[a].txs = {} THEN @[a] ELSE Max(NoncesOf(q.pending[a].txs)) + 1]]

\* reset: a fresh managed state, demotions, the nonces behind the pending
\* transactions, promotions of the accounts with queued transactions.
reset(q, order) ==
  promoteExecutables(
    BehindPending(FoldLeft(demoteAccount, [q EXCEPT !.nonces = [a \in Addrs |-> StateNonce(a)]], order)),
    order, order)

\* local(): per local account the pending, then the queued transactions.
local(q, order) ==
  FoldLeft(LAMBDA s, a : IF a \in q.locals
                         THEN s \o ByNonce(q.pending[a].txs) \o ByNonce(q.queue[a].txs) ELSE s,
           <<>>, order)

\* rotate: the new journal replaces the old one by a rename.
rotate(q, order) == [q EXCEPT !.disk = local(q, order), !.writer = TRUE]

NewPool(disk) ==
  [pending |-> [a \in Addrs |-> newTxList], queue |-> [a \in Addrs |-> newTxList], all |-> {},
   items |-> <<>>, stales |-> 0, locals |-> {}, beats |-> <<>>,
   nonces |-> [a \in Addrs |-> 0], gasPrice |-> PriceLimit, disk |-> disk, writer |-> FALSE]

\* NewTxPool: reset, load the journal (nothing is journalled again, there is no
\* writer yet), rotate.
NewTxPool(disk, order) ==
  rotate(FoldLeft(LAMBDA q, tx : addTxs(q, <<tx>>, TRUE, order), reset(NewPool(disk), order), disk), order)

-----------------------------------------------------------------------------
(* Actions.  order is the order in which maps are iterated and ties broken. *)

Orders == SetToSeqs(Addrs)

Init ==
  /\ mined = <<>> /\ gasLimit \in GasLimits
  /\ headEvent = FALSE /\ removedTxs = <<>> /\ ops = 0 /\ act = "call"
  /\ p = NewTxPool(<<>>, SetToSeq(Addrs))

Called(name) == ops < MaxOps /\ ops' = ops + 1 /\ act' = name
ChainKept == UNCHANGED <<mined, gasLimit, headEvent, removedTxs>>

AddLocal(tx, order) ==
  Called("local") /\ p' = addTxs(p, <<tx>>, TRUE, order) /\ ChainKept
AddRemotes(txs, order) ==
  Called("call") /\ p' = addTxs(p, txs, FALSE, order) /\ ChainKept
\* Remove, RemoveBatch: the worker gives a transaction up.
RemoveBatch(tx) ==
  tx \in p.all /\ Called("remove") /\ p' = removeTx(p, tx) /\ ChainKept

SetGasPrice(price) ==
  /\ Called("price")
  /\ p' = RemoveDropped(CapPriced([p EXCEPT !.gasPrice = price], price))
  /\ ChainKept

\* The ticker: the accounts without a heartbeat and the k with the oldest are
\* idle for longer than Lifetime.
Evict(k) ==
  /\ k \in 0 .. Len(p.beats) /\ Called("call")
  /\ LET idle == {a \in Addrs \ p.locals : Position(p.beats, a) <= k}
         txs  == UNION {p.queue[a].txs : a \in idle}
     IN  txs # {} /\ p' = FoldLeft(removeTx, p, ByNonce(txs))
  /\ ChainKept

RotateJournal(order) == Called("call") /\ p' = rotate(p, order) /\ ChainKept

\* The process stops at any time and starts again on the same chain and disk.
Restart(order) ==
  /\ Called("restart") /\ p' = NewTxPool(p.disk, order)
  /\ headEvent' = FALSE /\ removedTxs' = <<>> /\ UNCHANGED <<mined, gasLimit>>

Executable(chain, tx) ==
  /\ tx.nonce = Len(SelectSeq(chain, LAMBDA t : t.from = tx.from))
  /\ Funds[tx.from] >= tx.cost + FoldLeft(LAMBDA s, t : IF t.from = tx.from THEN s + t.cost ELSE s, 0, chain)

NewHead(tx) ==
  /\ Len(mined) < MaxBlocks /\ Executable(mined, tx)
  /\ mined' = Append(mined, tx) /\ gasLimit' \in GasLimits /\ headEvent' = TRUE
  /\ act' = "call" /\ UNCHANGED <<p, removedTxs, ops>>

Reorg(tx) ==
  /\ Reorgs /\ mined # <<>> /\ tx # Last(mined) /\ Executable(Front(mined), tx)
  /\ Called("call")
  /\ mined' = Append(Front(mined), tx) /\ removedTxs' = Append(removedTxs, Last(mined))
  /\ headEvent' = TRUE /\ UNCHANGED <<p, gasLimit>>

HandleChainHead(order) ==
  /\ headEvent /\ headEvent' = FALSE /\ p' = reset(p, order) /\ act' = "reset"
  /\ UNCHANGED <<mined, gasLimit, removedTxs, ops>>

HandleRemovedTx(order) ==
  /\ removedTxs # <<>> /\ removedTxs' = Tail(removedTxs)
  /\ p' = addTxs(p, <<Head(removedTxs)>>, FALSE, order) /\ act' = "call"
  /\ UNCHANGED <<mined, gasLimit, headEvent, ops>>

Next ==
  \/ \E tx \in Txs : RemoveBatch(tx) \/ NewHead(tx) \/ Reorg(tx)
  \/ \E price \in Prices : SetGasPrice(price)
  \/ \E k \in 0 .. Cardinality(Addrs) : Evict(k)
  \/ \E order \in Orders :
       \/ \E tx \in Txs : AddLocal(tx, order)
       \/ \E txs \in Batches : AddRemotes(txs, order)
       \/ RotateJournal(order)
       \/ Restart(order)
       \/ HandleChainHead(order)
       \/ HandleRemovedTx(order)

Spec == Init /\ [][Next]_vars
-----------------------------------------------------------------------------
(* Properties *)

Pooled(q) == UNION {q.pending[a].txs \cup q.queue[a].txs : a \in Addrs}

\* Whatever is in a list is known by hash, and no nonce of an account is both
\* pending and queued: enqueueTx and promoteTx leave no two versions behind.
OneVersionEach ==
  /\ Pooled(p) \subseteq p.all
  /\ \A a \in Addrs : NoncesOf(p.pending[a].txs) \cap NoncesOf(p.queue[a].txs) = {}

\* As long as no block is replaced, the pending transactions of an account are a
\* gapless run that ends right before the account's managed nonce, and no queued
\* transaction that could continue the run is left waiting (removeTx,
\* promoteExecutables and reset all have to agree on the nonce).
PendingIsRun ==
  \A a \in Addrs :
    LET ns == NoncesOf(p.pending[a].txs)
    IN  /\ ns # {} => ns = Min(ns) .. p.nonces[a] - 1
        /\ p.nonces[a] \notin NoncesOf(p.queue[a].txs)

\* The cached caps cover every transaction of their list, so that Filter may
\* skip a list whose caps are below the limits.
CapsCover ==
  \A a \in Addrs : \A l \in {p.pending[a], p.queue[a]} : \A t \in l.txs :
    t.cost <= l.costcap /\ t.gas <= l.gascap

\* After a reset what is pending is payable on the new head, and remote accounts
\* over their guaranteed slots are kept within the global limits.
ResetSettles ==
  [][act' = "reset" =>
       /\ \A a \in Addrs : \A t \in p'.pending[a].txs :
            t.nonce >= StateNonce(a) /\ t.cost <= Balance(a) /\ t.gas <= gasLimit
       /\ \/ PendingCount(p') <= GlobalSlots
          \/ \A a \in Addrs \ p'.locals : Size(p'.pending[a]) <= AccountSlots
       /\ \/ QueuedCount(p') <= GlobalQueue
          \/ \A a \in Addrs \ p'.locals : p'.queue[a].txs = {}]_vars

\* A transaction of a local account leaves the pool only because the worker
\* removes it, the chain has passed its nonce, it has become unpayable, or a
\* better one took its nonce; never for its price, its age or a limit.
LocalsAreKept ==
  [][act' \notin {"remove", "restart"} =>
       \A t \in Pooled(p) \ Pooled(p') : t.from \in p.locals =>
         \/ t.nonce < StateNonce(t.from) \/ t.cost > Balance(t.from) \/ t.gas > gasLimit
         \/ \E u \in Pooled(p') : u.from = t.from /\ u.nonce = t.nonce /\ u.price > t.price]_vars

\* What is on disk and can still be executed is in the pool again after a
\* restart, or gave way to a better transaction with its nonce.
JournalSurvives ==
  [][act' = "restart" =>
       \A t \in Range(p.disk) :
         \/ \E u \in Pooled(p') : u.from = t.from /\ u.nonce = t.nonce /\ u.price >= t.price
         \/ t.nonce < StateNonce(t.from) \/ t.cost > Balance(t.from) \/ t.gas > gasLimit]_vars

-----------------------------------------------------------------------------
(* What comments of the code say and the code does not keep: the README has  *)
(* the behaviours.  No run checks these.                                     *)

\* Statement of the comment on removeTx: what follows a removed transaction is
\* moved back to the queue, so every known transaction is in a list.
KnownIsPooled == p.all \subseteq Pooled(p)

\* Statement of the field comment of txPricedList.items: the heap holds the
\* prices of all the stored transactions.
PricesAreTracked == p.all \subseteq Range(p.items)

\* Statement of the comment on add: the account of an accepted local transaction
\* is whitelisted.
LocalIsWhitelisted == [][act' = "local" => \A t \in p'.all \ p.all : t.from \in p'.locals]_vars

\* Statement of the comment on Pending: what is pending is processable on the
\* head the pool was last reset to.
PendingIsProcessable ==
  [][act' = "reset" => \A a \in Addrs :
       p'.pending[a].txs # {} => Min(NoncesOf(p'.pending[a].txs)) = StateNonce(a)]_vars
=============================================================================
