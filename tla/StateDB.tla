------------------------------- MODULE StateDB -------------------------------
(***************************************************************************)
(* The state database of the host client (core/state): accounts cached as  *)
(* state objects over a trie, a journal of undo records behind Snapshot    *)
(* and RevertToSnapshot, and the dirty set that decides what Finalise and  *)
(* CommitTo write back.                                                    *)
(*                                                                         *)
(* A hash stands for what it is the hash of: a storage root is the storage *)
(* itself, a code hash the code.  Objects replaced by a reset are kept by  *)
(* value: nothing else refers to them.                                     *)
(***************************************************************************)
EXTENDS Integers, Sequences

CONSTANTS
  Accounts,       \* account addresses
  Ripemd,         \* the address whose touch is never undone
  Keys,           \* storage keys
  Values,         \* non-zero storage values
  Preimages,      \* hashes with a recorded preimage
  DeleteEmpty,    \* EIP158: empty accounts are deleted
  Alloc,          \* the accounts of the trie the state is opened on
  MaxBalance,     \* bound on balances
  MaxOps,         \* bound on the modifications
  MaxSnapshots,   \* bound on snapshots
  MaxEpochs       \* bound on Finalise and CommitTo

VARIABLES
  db,             \* the StateDB
  trie,           \* the account trie: address -> account
  committed,      \* the state was committed and is only read until reopened
  ops, epoch,     \* modifications and epochs so far
  saved,          \* history: what could be observed at each valid revision
  released        \* history: accounts that an undone touch took out of the dirty set

stateVars == <<db, trie, committed, ops, epoch, saved, released>>

Zero == 0
NoStorage == [k \in Keys |-> Zero]
NoAccount == [exists |-> FALSE, nonce |-> 0, balance |-> 0, code |-> 0, storage |-> NoStorage]

NoEntries == [k \in {} |-> Zero]
NoLogs == [t \in {} |-> <<>>]

Stored == Values \cup {Zero}
AccountData ==
  [exists : BOOLEAN, nonce : Nat, balance : Nat, code : Nat, storage : [Keys -> Stored]]

ASSUME AllocIsTyped == Alloc \in [Accounts -> AccountData]

-----------------------------------------------------------------------------
(* state_object.go *)

\* newObject; watched says that onDirty is still set.
newObject(account) ==
  [live |-> TRUE, deleted |-> FALSE, watched |-> TRUE, suicided |-> FALSE, touched |-> FALSE,
   nonce |-> account.nonce, balance |-> account.balance, code |-> account.code,
   root |-> account.storage, cachedStorage |-> NoEntries, dirtyStorage |-> NoEntries]

NoObject == [newObject(NoAccount) EXCEPT !.live = FALSE]

Empty(obj) == obj.nonce = 0 /\ obj.balance = 0 /\ obj.code = 0

\* A value set in a map with some of the keys.
Put(map, k, v) == [x \in DOMAIN map \cup {k} |-> IF x = k THEN v ELSE map[x]]

\* GetState: the cache, else the storage trie.
GetState(obj, k) == IF k \in DOMAIN obj.cachedStorage THEN obj.cachedStorage[k] ELSE obj.root[k]

\* updateTrie: the storage trie with the dirty entries written.
UpdateTrie(obj) ==
  [obj EXCEPT !.root = [k \in Keys |-> IF k \in DOMAIN obj.dirtyStorage
                                       THEN obj.dirtyStorage[k] ELSE @[k]],
              !.dirtyStorage = NoEntries]

AccountOf(obj) ==
  [exists |-> TRUE, nonce |-> obj.nonce, balance |-> obj.balance, code |-> obj.code,
   storage |-> obj.root]

\* Slip: the callback is dropped without being called.
WriteForgetsDirty(s, a, obj) ==
  [s EXCEPT !.objects[a] = [obj EXCEPT !.watched = FALSE]]

\* The common end of setBalance, setNonce, setCode, setState and markSuicided:
\* the object becomes dirty through its callback, once.
Write(s, a, obj) ==
  [s EXCEPT !.objects[a] = [obj EXCEPT !.watched = FALSE],
            !.dirty = IF obj.watched THEN @ \cup {a} ELSE @]

setState(s, a, k, v) ==
  Write(s, a, [s.objects[a] EXCEPT !.cachedStorage = Put(@, k, v), !.dirtyStorage = Put(@, k, v)])

Journaled(s, kind, a, prev) ==
  [s EXCEPT !.journal = Append(@, [kind |-> kind, account |-> a, prev |-> prev])]

touch(s, a) ==
  LET obj == s.objects[a]
      j   == Journaled(s, "touch", a, [touched |-> obj.touched, dirty |-> ~obj.watched])
  IN  Write(j, a, [obj EXCEPT !.touched = TRUE])

-----------------------------------------------------------------------------
(* statedb.go: looking objects up and creating them.  Every operation below *)
(* first loads the object into the live set.                                *)

Load(s, a) ==
  IF ~s.objects[a].live /\ trie[a].exists
    THEN [s EXCEPT !.objects[a] = newObject(trie[a])] ELSE s

Found(s, a) == s.objects[a].live /\ ~s.objects[a].deleted

createObject(s0, a) ==
  LET s     == Load(s0, a)
      fresh == [newObject(NoAccount) EXCEPT !.watched = FALSE]
      j     == IF Found(s, a) THEN Journaled(s, "reset", a, s.objects[a])
               ELSE Journaled(s, "create", a, NoObject)
  IN  [j EXCEPT !.objects[a] = fresh, !.dirty = @ \cup {a}]

GetOrNewStateObject(s0, a) ==
  LET s == Load(s0, a) IN IF Found(s, a) THEN s ELSE createObject(s, a)

CreateAccount(s0, a) ==
  LET s == Load(s0, a)
      n == createObject(s, a)
  IN  IF Found(s, a) THEN Write(n, a, [n.objects[a] EXCEPT !.balance = s.objects[a].balance])
      ELSE n

SetBalance(s, a, amount) ==
  Write(Journaled(s, "balance", a, s.objects[a].balance), a,
        [s.objects[a] EXCEPT !.balance = amount])

AddBalance(s0, a, amount) ==
  LET s == GetOrNewStateObject(s0, a)
  IN  IF amount = 0 THEN (IF Empty(s.objects[a]) THEN touch(s, a) ELSE s)
      ELSE SetBalance(s, a, s.objects[a].balance + amount)

SubBalance(s0, a, amount) ==
  LET s == GetOrNewStateObject(s0, a)
  IN  IF amount = 0 THEN s ELSE SetBalance(s, a, s.objects[a].balance - amount)

SetNonce(s0, a, nonce) ==
  LET s == GetOrNewStateObject(s0, a)
  IN  Write(Journaled(s, "nonce", a, s.objects[a].nonce), a, [s.objects[a] EXCEPT !.nonce = nonce])

SetCode(s0, a, code) ==
  LET s == GetOrNewStateObject(s0, a)
  IN  Write(Journaled(s, "code", a, s.objects[a].code), a, [s.objects[a] EXCEPT !.code = code])

SetState(s0, a, k, v) ==
  LET s == GetOrNewStateObject(s0, a)
  IN  setState(Journaled(s, "storage", a, [key |-> k, value |-> GetState(s.objects[a], k)]),
               a, k, v)

Suicide(s0, a) ==
  LET s   == Load(s0, a)
      obj == s.objects[a]
      j   == Journaled(s, "suicide", a, [suicided |-> obj.suicided, balance |-> obj.balance])
  IN  IF ~Found(s, a) THEN s
      ELSE Write(j, a, [obj EXCEPT !.suicided = TRUE, !.balance = 0])

AddRefund(s, gas) == [Journaled(s, "refund", "none", s.refund) EXCEPT !.refund = @ + gas]

MoreLogs(logs, txhash, index) ==
  IF txhash \in DOMAIN logs THEN [logs EXCEPT ![txhash] = Append(@, index)]
  ELSE Put(logs, txhash, <<index>>)

AddLog(s) ==
  [Journaled(s, "log", "none", s.thash) EXCEPT
     !.logs = MoreLogs(@, s.thash, s.logSize), !.logSize = @ + 1]

AddPreimage(s, hash) ==
  IF hash \in s.preimages THEN s
  ELSE [Journaled(s, "preimage", "none", hash) EXCEPT !.preimages = @ \cup {hash}]

-----------------------------------------------------------------------------
(* journal.go *)

WithoutKey(map, k) == [x \in DOMAIN map \ {k} |-> map[x]]

UndoCreate(s, a) == [s EXCEPT !.objects[a] = NoObject, !.dirty = @ \ {a}]

UndoReset(s, a, prev) == [s EXCEPT !.objects[a] = prev]

\* Slip: the balance that the suicide cleared is not given back.
UndoSuicideKeepsBalance(s, a, prev) ==
  IF Found(s, a) THEN Write(s, a, [s.objects[a] EXCEPT !.suicided = prev.suicided]) ELSE s

UndoSuicide(s, a, prev) ==
  IF Found(s, a)
    THEN Write(s, a, [s.objects[a] EXCEPT !.suicided = prev.suicided, !.balance = prev.balance])
    ELSE s

\* The object leaves the dirty set, its callback is not set again.
UndoTouch(s, a, prev) ==
  IF prev.touched \/ a = Ripemd THEN s
  ELSE [s EXCEPT !.objects[a].touched = FALSE,
                 !.dirty = IF prev.dirty THEN @ ELSE @ \ {a}]

\* The logs of a transaction without the last one.
UndoneLogs(logs, txhash) ==
  IF Len(logs[txhash]) = 1 THEN WithoutKey(logs, txhash)
  ELSE [logs EXCEPT ![txhash] = SubSeq(@, 1, Len(@) - 1)]

UndoLog(s, txhash) == [s EXCEPT !.logs = UndoneLogs(@, txhash)]

Undo(s0, ch) ==
  LET a == ch.account
      s == IF a \in Accounts /\ ch.kind \notin {"create", "reset"} THEN Load(s0, a) ELSE s0
  IN  CASE ch.kind = "create"   -> UndoCreate(s, a)
        [] ch.kind = "reset"    -> UndoReset(s, a, ch.prev)
        [] ch.kind = "suicide"  -> UndoSuicide(s, a, ch.prev)
        [] ch.kind = "touch"    -> UndoTouch(s, a, ch.prev)
        [] ch.kind = "balance"  -> Write(s, a, [s.objects[a] EXCEPT !.balance = ch.prev])
        [] ch.kind = "nonce"    -> Write(s, a, [s.objects[a] EXCEPT !.nonce = ch.prev])
        [] ch.kind = "code"     -> Write(s, a, [s.objects[a] EXCEPT !.code = ch.prev])
        [] ch.kind = "storage"  -> setState(s, a, ch.prev.key, ch.prev.value)
        [] ch.kind = "refund"   -> [s EXCEPT !.refund = ch.prev]
        [] ch.kind = "log"      -> UndoLog(s, ch.prev)
        [] ch.kind = "preimage" -> [s EXCEPT !.preimages = @ \ {ch.prev}]

\* The loop of RevertToSnapshot: the state with n entries of the journal left.
UndoneTo(s) ==
  LET undone[n \in 0 .. Len(s.journal)] ==
        IF n = Len(s.journal) THEN s ELSE Undo(undone[n + 1], s.journal[n + 1])
  IN  undone

\* RevertToSnapshot of the k-th valid revision.
RevertToRevision(s, k) ==
  LET snapshot == s.validRevisions[k].journalIndex
      undone   == UndoneTo(s)[snapshot]
  IN  [undone EXCEPT !.journal = SubSeq(@, 1, snapshot),
                     !.validRevisions = SubSeq(@, 1, k - 1)]

\* The accounts that this takes out of the dirty set by undoing a touch.
Releases(s, k) ==
  LET undone == SubSeq(s.journal, s.validRevisions[k].journalIndex + 1, Len(s.journal))
      Takes(ch) == ch.kind = "touch" /\ ch.account # Ripemd /\ ~ch.prev.touched /\ ~ch.prev.dirty
  IN  {undone[n].account : n \in {m \in DOMAIN undone : Takes(undone[m])}}

-----------------------------------------------------------------------------
(* statedb.go: the end of a transaction and of a block. *)

clearJournalAndRefund(s) == [s EXCEPT !.journal = <<>>, !.validRevisions = <<>>, !.refund = 0]

MustDelete(obj) == obj.suicided \/ (DeleteEmpty /\ Empty(obj))

\* The objects in which are written back: deleted from the trie or updated.
WriteBack(s, which) ==
  [a \in Accounts |-> IF a \notin which THEN s.objects[a]
                   ELSE IF MustDelete(s.objects[a]) THEN [s.objects[a] EXCEPT !.deleted = TRUE]
                   ELSE UpdateTrie(s.objects[a])]

TrieAfter(objects, which) ==
  [a \in Accounts |-> IF a \notin which THEN trie[a]
                   ELSE IF objects[a].deleted THEN NoAccount ELSE AccountOf(objects[a])]

\* What the getters of s return: accounts, refund, logs and preimages.
AccountView(s0, a) ==
  LET s == Load(s0, a) IN
  IF ~Found(s, a) THEN [account |-> NoAccount, suicided |-> FALSE]
  ELSE [account |-> [AccountOf(s.objects[a]) EXCEPT
                       !.storage = [k \in Keys |-> GetState(s.objects[a], k)]],
        suicided |-> s.objects[a].suicided]

View(s) ==
  [accounts |-> [a \in Accounts |-> AccountView(s, a)], refund |-> s.refund,
   logs |-> s.logs, preimages |-> s.preimages]

NewState ==
  [objects |-> [a \in Accounts |-> NoObject], dirty |-> {}, refund |-> 0, thash |-> 0,
   logs |-> NoLogs, logSize |-> 0, preimages |-> {},
   journal |-> <<>>, validRevisions |-> <<>>, nextRevisionId |-> 0]

StateInit ==
  /\ db = NewState /\ trie = Alloc /\ committed = FALSE
  /\ ops = 0 /\ epoch = 0 /\ saved = <<>> /\ released = {}

Modify(s) ==
  /\ ~committed /\ ops < MaxOps
  /\ db' = s /\ ops' = ops + 1
  /\ UNCHANGED <<trie, committed, epoch, saved, released>>

Balance(a) == LET s == Load(db, a) IN IF Found(s, a) THEN s.objects[a].balance ELSE 0

CallCreateAccount == \E a \in Accounts : Modify(CreateAccount(db, a))
CallAddBalance ==
  \E a \in Accounts, amount \in {0, 1} :
    Balance(a) + amount <= MaxBalance /\ Modify(AddBalance(db, a, amount))
\* Callers check the balance first (CanTransfer).
CallSubBalance ==
  \E a \in Accounts, amount \in {0, 1} :
    amount <= Balance(a) /\ Modify(SubBalance(db, a, amount))
CallSetNonce == \E a \in Accounts : Modify(SetNonce(db, a, 1))
CallSetCode == \E a \in Accounts : Modify(SetCode(db, a, 1))
CallSetState ==
  \E a \in Accounts, k \in Keys, v \in Values \cup {Zero} : Modify(SetState(db, a, k, v))
CallSuicide == \E a \in Accounts : Modify(Suicide(db, a))
CallAddRefund == Modify(AddRefund(db, 1))
CallAddLog == Modify(AddLog(db))
CallAddPreimage == \E hash \in Preimages : Modify(AddPreimage(db, hash))

\* The getters: they load the object and, for storage, fill its cache.
Read ==
  \E a \in Accounts :
    LET s == Load(db, a) IN
    /\ ~committed /\ s # db
    /\ db' = s /\ UNCHANGED <<trie, committed, ops, epoch, saved, released>>

Snapshot ==
  /\ ~committed /\ db.nextRevisionId < MaxSnapshots
  /\ db' = [db EXCEPT !.nextRevisionId = @ + 1,
                      !.validRevisions = Append(@, [id |-> db.nextRevisionId,
                                                    journalIndex |-> Len(db.journal)])]
  /\ saved' = Append(saved, [id |-> db.nextRevisionId, world |-> View(db)])
  /\ UNCHANGED <<trie, committed, ops, epoch, released>>

RevertToSnapshot ==
  /\ ~committed
  /\ \E k \in DOMAIN db.validRevisions :
       /\ db' = RevertToRevision(db, k) /\ saved' = SubSeq(saved, 1, k - 1)
       /\ released' = released \cup Releases(db, k)
  /\ UNCHANGED <<trie, committed, ops, epoch>>

\* Finalise at the end of a transaction, and Prepare for the next one.
Finalise ==
  /\ ~committed /\ epoch < MaxEpochs
  /\ LET written == WriteBack(db, db.dirty) IN
     /\ db' = [clearJournalAndRefund(db) EXCEPT !.objects = written, !.thash = @ + 1]
     /\ trie' = TrieAfter(written, db.dirty)
  /\ epoch' = epoch + 1 /\ saved' = <<>>
  /\ UNCHANGED <<committed, ops, released>>

\* CommitTo at the end of a block: every live object that is suicided or dirty.
CommitTo ==
  /\ ~committed /\ epoch < MaxEpochs
  /\ LET which   == {a \in Accounts : db.objects[a].live /\ (db.objects[a].suicided \/ a \in db.dirty)}
         written == WriteBack(db, which)
     IN  /\ db' = [clearJournalAndRefund(db) EXCEPT !.objects = written, !.dirty = {}]
         /\ trie' = TrieAfter(written, which)
  /\ committed' = TRUE /\ epoch' = epoch + 1 /\ saved' = <<>>
  /\ UNCHANGED <<ops, released>>

\* Reset, or New on the committed root for the next block.
Reopen ==
  /\ committed
  /\ db' = [NewState EXCEPT !.nextRevisionId = db.nextRevisionId]
  /\ committed' = FALSE /\ released' = {}
  /\ UNCHANGED <<trie, ops, epoch, saved>>

StateNext ==
  \/ CallCreateAccount \/ CallAddBalance \/ CallSubBalance \/ CallSetNonce \/ CallSetCode
  \/ CallSetState \/ CallSuicide \/ CallAddRefund \/ CallAddLog \/ CallAddPreimage
  \/ Read \/ Snapshot \/ RevertToSnapshot \/ Finalise \/ CommitTo \/ Reopen

StateSpec == StateInit /\ [][StateNext]_stateVars

-----------------------------------------------------------------------------
(* Properties. *)

\* Whatever sequence of modifications follows a snapshot, reverting to it brings
\* back exactly what could be observed when it was taken (journal.go,
\* statedb.go:485-515): the journal implements saved copies of the state.
Copies == INSTANCE SavedStates WITH world <- View(db)

RevertsExactly == Copies!Spec

\* The account that may be in the trie after a step, given what was visible.
Persisted(v, t) ==
  \/ v.suicided /\ ~t.exists
  \/ ~v.suicided /\ t = v.account
  \/ DeleteEmpty /\ v.account.nonce = 0 /\ v.account.balance = 0 /\ v.account.code = 0 /\ ~t.exists

\* CommitTo persists what was visible: no modification is lost because its object was
\* not in the dirty set, suicided accounts are gone and, under EIP158, at most empty ones
\* besides (statedb.go:575-607).  The exception are the accounts that are empty in the
\* trie and whose touch was undone: the object left the dirty set and its callback is
\* spent (journal.go:99-105), so that the trie may keep what it had.
CommitKeepsView ==
  [][committed' /\ ~committed =>
       \A a \in Accounts :
         \/ Persisted(AccountView(db, a), trie'[a])
         \/ a \in released /\ trie'[a] = trie[a]]_stateVars

\* Finalise does not change what the next transaction sees of an account other
\* than by deleting suicided and, under EIP158, empty ones (statedb.go:517-530); one
\* whose touch was undone may stay although it is suicided.
FinaliseKeepsView ==
  [][epoch' # epoch =>
       \A a \in Accounts :
         LET before == AccountView(db, a)
             after  == AccountView(db, a)'
         IN  Persisted(before, after.account) \/ (a \in released /\ after = before)]_stateVars

\* CommitTo persists what was visible, but for accounts whose touch was undone, and
\* Finalise hands it on to the next transaction.
CommitPersistsView == CommitKeepsView /\ FinaliseKeepsView

-----------------------------------------------------------------------------
(* What comments of the code say and the code does not keep: the README has  *)
(* the behaviours.  No run checks these.                                     *)

\* CommitTo persists what was visible of every account: not of one that is empty in the
\* trie, is touched and modified again after the touch was undone.
CommitKeepsEveryView ==
  [][committed' /\ ~committed =>
       \A a \in Accounts : Persisted(AccountView(db, a), trie'[a])]_stateVars

\* The comment of types.Log: "index of the log in the receipt".
LogIndexInReceipt ==
  \A t \in DOMAIN db.logs : t = 0 =>
    \A i \in DOMAIN db.logs[t] : db.logs[t][i] = i - 1
=============================================================================
