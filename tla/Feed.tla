-------------------------------- MODULE Feed --------------------------------
(***************************************************************************)
(* The event feed of the host client (event/feed.go): Send delivers a value *)
(* to every subscribed channel, Subscribe and Unsubscribe run concurrently  *)
(* with it and with each other.                                             *)
(*                                                                         *)
(* sendCases[i] is the channel of select case i; case 0, which receives     *)
(* from removeSub, is implicit, so that indices are those of the code.  The *)
(* slice "cases" of Send shares its array with sendCases and is always a    *)
(* prefix of it: it is represented by its length.  Channels are buffered.   *)
(***************************************************************************)
EXTENDS Integers, Sequences, FiniteSets, SequencesExt, FiniteSetsExt

CONSTANTS
  Senders,      \* goroutines that call Send
  FeedSubs,     \* subscriptions
  Channels,
  ChanOf,       \* the channel of each subscription
  FeedReaders,  \* channels somebody reads from
  TypeOf,       \* element type of each channel and type each sender sends
  Cap,          \* buffer space of a channel
  MaxSends      \* bound on calls of Send

ASSUME SubscriptionsAreFinite == IsFiniteSet(FeedSubs) /\ Senders \cap FeedSubs = {}
ASSUME ChannelsAreKnown == ChanOf \in [FeedSubs -> Channels]

VARIABLES
  sendLock,     \* TRUE: the lock's token is in the channel
  sendCases, inbox, etype,
  cases, i,     \* of the Send that holds the lock: len(cases) - 1 and its loop index
  pc,           \* of each sender and of each subscription's Unsubscribe
  nsent,        \* deliveries the running Send has counted
  value,        \* number of the latest Send that took the lock, the value it sends
  got, taken,   \* per channel: values delivered, and how many of them are read
  audience      \* history: subscriptions the running Send started with

feedVars == <<sendLock, sendCases, inbox, etype, cases, i, pc, nsent, value, got, taken, audience>>

Running(p) == pc[p] \in {"locked", "joined", "typing", "trying", "selecting"}
Live == {s \in FeedSubs : pc[s] \in {"subscribed", "removing", "waiting"}}
On(c) == {s \in FeedSubs : ChanOf[s] = c}
Occurrences(seq, x) == Cardinality({k \in DOMAIN seq : seq[k] = x})
Places == UNION {{c} \X DOMAIN got[c] : c \in Channels}
Deliveries(v) == {d \in Places : got[d[1]][d[2]] = v}
HasRoom(c) == Len(got[c]) - taken[c] < Cap

-----------------------------------------------------------------------------
(* caseList                                                                 *)

findCase(cs, c) == LET at == {k \in DOMAIN cs : cs[k] = c} IN IF at = {} THEN 0 ELSE Min(at)
delete(cs, k) == RemoveAt(cs, k)

deactivate(cs, n, k) == [cs EXCEPT ![k] = cs[n], ![n] = cs[k]]

\* Slip: a case that is served already shortens the prefix too.
CasesAfterAlways(n, k) == n - 1

\* The prefix loses a case only if the removed one was in it.
CasesAfter(n, k) == IF k <= n THEN n - 1 ELSE n

-----------------------------------------------------------------------------
(* Subscribe and Unsubscribe                                                *)

SendVars == <<sendLock, sendCases, cases, i, nsent, value, got, taken, audience>>

FeedSubscribe(s) ==
  /\ pc[s] = "new"
  /\ etype \in {"none", TypeOf[ChanOf[s]]}
  /\ etype' = TypeOf[ChanOf[s]]
  /\ inbox' = Append(inbox, ChanOf[s])
  /\ pc' = [pc EXCEPT ![s] = "subscribed"]
  /\ UNCHANGED SendVars

SubscribePanics(s) ==
  /\ pc[s] = "new"
  /\ etype \notin {"none", TypeOf[ChanOf[s]]}
  /\ pc' = [pc EXCEPT ![s] = "done"]
  /\ UNCHANGED <<SendVars, inbox, etype>>

\* errOnce: only the first call does anything.
FeedUnsubscribe(s) ==
  /\ pc[s] = "subscribed"
  /\ pc' = [pc EXCEPT ![s] = "removing"]
  /\ UNCHANGED <<SendVars, inbox, etype>>

RemoveFromInbox(s) ==
  /\ pc[s] = "removing"
  /\ LET k == findCase(inbox, ChanOf[s])
     IN  /\ inbox' = IF k # 0 THEN delete(inbox, k) ELSE inbox
         /\ pc' = [pc EXCEPT ![s] = IF k # 0 THEN "done" ELSE "waiting"]
  /\ UNCHANGED <<SendVars, etype>>

\* The select of remove, case <-f.sendLock.
RemoveWithLock(s) ==
  /\ pc[s] = "waiting" /\ sendLock
  /\ sendCases' = delete(sendCases, findCase(sendCases, ChanOf[s]))
  /\ pc' = [pc EXCEPT ![s] = "done"]
  /\ UNCHANGED <<sendLock, inbox, etype, cases, i, nsent, value, got, taken, audience>>

\* The select of remove, case f.removeSub <- ch, with the select of Send.
RemoveInSend(s, p) ==
  /\ pc[s] = "waiting" /\ pc[p] = "selecting"
  /\ LET k == findCase(sendCases, ChanOf[s])
     IN  /\ sendCases' = delete(sendCases, k)
         /\ cases' = CasesAfter(cases, k)
  /\ i' = 1
  /\ pc' = [pc EXCEPT ![s] = "done", ![p] = "trying"]
  /\ UNCHANGED <<sendLock, inbox, etype, nsent, value, got, taken, audience>>

-----------------------------------------------------------------------------
(* Send                                                                     *)

Lock(p) ==
  /\ pc[p] = "idle" /\ value < MaxSends
  /\ sendLock /\ sendLock' = FALSE
  /\ value' = value + 1 /\ nsent' = 0
  /\ pc' = [pc EXCEPT ![p] = "locked"]
  /\ UNCHANGED <<sendCases, inbox, etype, cases, i, got, taken, audience>>

\* Under f.mu the new cases move from the inbox to sendCases.
Join(p) ==
  /\ pc[p] = "locked"
  /\ sendCases' = sendCases \o inbox /\ inbox' = <<>>
  /\ audience' = Live
  /\ pc' = [pc EXCEPT ![p] = "joined"]
  /\ UNCHANGED <<sendLock, etype, cases, i, nsent, value, got, taken>>

\* typecheck, here without f.mu: the test of etype and its assignment are two steps.
Typecheck(p) ==
  /\ pc[p] = "joined"
  /\ etype \in {"none", TypeOf[p]}
  /\ IF etype = "none"
     THEN pc' = [pc EXCEPT ![p] = "typing"] /\ UNCHANGED <<cases, i>>
     ELSE pc' = [pc EXCEPT ![p] = "trying"] /\ cases' = Len(sendCases) /\ i' = 1
  /\ UNCHANGED <<sendLock, sendCases, inbox, etype, nsent, value, got, taken, audience>>

SetType(p) ==
  /\ pc[p] = "typing"
  /\ etype' = TypeOf[p]
  /\ pc' = [pc EXCEPT ![p] = "trying"]
  /\ cases' = Len(sendCases) /\ i' = 1
  /\ UNCHANGED <<sendLock, sendCases, inbox, nsent, value, got, taken, audience>>

\* The type does not match: the lock is handed back before the panic.
SendPanics(p) ==
  /\ pc[p] = "joined"
  /\ etype \notin {"none", TypeOf[p]}
  /\ sendLock' = TRUE
  /\ pc' = [pc EXCEPT ![p] = "idle"]
  /\ UNCHANGED <<sendCases, inbox, etype, cases, i, nsent, value, got, taken, audience>>

DeliverTo(k) ==
  /\ got' = [got EXCEPT ![sendCases[k]] = Append(@, value)]
  /\ nsent' = nsent + 1
  /\ sendCases' = deactivate(sendCases, cases, k)
  /\ cases' = cases - 1

Fits(p, k) == TypeOf[sendCases[k]] = TypeOf[p]

\* One turn of the loop that sends without blocking.
TrySend(p) ==
  /\ pc[p] = "trying" /\ i <= cases /\ Fits(p, i)
  /\ IF HasRoom(sendCases[i]) THEN DeliverTo(i) /\ UNCHANGED i
     ELSE i' = i + 1 /\ UNCHANGED <<got, nsent, sendCases, cases>>
  /\ UNCHANGED <<sendLock, inbox, etype, pc, value, taken, audience>>

\* reflect panics on a channel of another type; nobody hands the lock back.
TrySendPanics(p) ==
  /\ pc[p] = "trying" /\ i <= cases /\ ~Fits(p, i)
  /\ pc' = [pc EXCEPT ![p] = "panicked"]
  /\ UNCHANGED <<SendVars, inbox, etype>>

Block(p) ==
  /\ pc[p] = "trying" /\ i > cases /\ cases > 0
  /\ pc' = [pc EXCEPT ![p] = "selecting"]
  /\ UNCHANGED <<SendVars, inbox, etype>>

\* reflect.Select chooses any channel with room.
SelectSend(p, k) ==
  /\ pc[p] = "selecting" /\ k <= cases /\ HasRoom(sendCases[k])
  /\ DeliverTo(k)
  /\ i' = 1
  /\ pc' = [pc EXCEPT ![p] = "trying"]
  /\ UNCHANGED <<sendLock, inbox, etype, value, taken, audience>>

Return(p) ==
  /\ pc[p] = "trying" /\ i > cases /\ cases = 0
  /\ sendLock' = TRUE
  /\ pc' = [pc EXCEPT ![p] = "idle"]
  /\ UNCHANGED <<sendCases, inbox, etype, cases, i, nsent, value, got, taken, audience>>

Receive(c) ==
  /\ c \in FeedReaders /\ taken[c] < Len(got[c])
  /\ taken' = [taken EXCEPT ![c] = @ + 1]
  /\ UNCHANGED <<sendLock, sendCases, inbox, etype, cases, i, pc, nsent, value, got, audience>>

-----------------------------------------------------------------------------

FeedInit ==
  /\ sendLock = TRUE /\ sendCases = <<>> /\ inbox = <<>> /\ etype = "none"
  /\ cases = 0 /\ i = 1 /\ nsent = 0 /\ value = 0
  /\ pc = [x \in Senders \cup FeedSubs |-> IF x \in FeedSubs THEN "new" ELSE "idle"]
  /\ got = [c \in Channels |-> <<>>] /\ taken = [c \in Channels |-> 0]
  /\ audience = {}

SendStep(p) ==
  \/ Join(p) \/ Typecheck(p) \/ SetType(p) \/ SendPanics(p) \/ TrySend(p) \/ TrySendPanics(p)
  \/ Block(p) \/ Return(p)
  \/ \E k \in 1..Len(sendCases) : SelectSend(p, k)

RemoveStep(s) ==
  \/ RemoveFromInbox(s) \/ RemoveWithLock(s)
  \/ \E p \in Senders : RemoveInSend(s, p)

FeedNext ==
  \/ \E s \in FeedSubs : FeedSubscribe(s) \/ SubscribePanics(s) \/ FeedUnsubscribe(s) \/ RemoveStep(s)
  \/ \E p \in Senders : Lock(p) \/ SendStep(p)
  \/ \E c \in Channels : Receive(c)

\* Goroutines keep running and readers keep reading.  A goroutine that waits in a
\* select is queued on both its channels in order of arrival, so that a case that
\* becomes ready again and again is taken (strong fairness).
FeedSpec ==
  /\ FeedInit /\ [][FeedNext]_feedVars
  /\ \A p \in Senders : WF_feedVars(SendStep(p))
  /\ \A s \in FeedSubs : WF_feedVars(RemoveFromInbox(s)) /\ SF_feedVars(RemoveStep(s))
  /\ \A c \in Channels : WF_feedVars(Receive(c))

-----------------------------------------------------------------------------
(* Properties                                                               *)

\* A channel has as many cases, in the inbox and in sendCases together, as it has
\* subscriptions; and a remove that is past the inbox finds its case in sendCases,
\* where delete(-1) would be out of range.
CasesMatchSubscriptions ==
  \A c \in Channels :
    /\ Occurrences(sendCases, c) + Occurrences(inbox, c) = Cardinality(Live \cap On(c))
    /\ Occurrences(sendCases, c) >= Cardinality({s \in On(c) : pc[s] = "waiting"})

\* A value is never sent twice to a subscription, and each channel gets the values
\* in the order of the Sends.
InOrderOnce ==
  \A c \in Channels :
    /\ \A j, k \in DOMAIN got[c] : j < k => got[c][j] <= got[c][k]
    /\ (\E p \in Senders : Running(p) /\ pc[p] # "locked")
       => Occurrences(got[c], value) <= Cardinality(audience \cap On(c))

\* When Send returns, every subscription it started with that nobody has
\* unsubscribed has the value, and nsent is the number of deliveries.
SendReachesEverySubscriber ==
  [][\A p \in Senders : (pc[p] = "trying" /\ pc'[p] = "idle") =>
       /\ \A c \in Channels : Occurrences(got[c], value)
            >= Cardinality({s \in audience \cap On(c) : pc[s] = "subscribed"})
       /\ nsent = Cardinality(Deliveries(value))]_feedVars

\* Nothing is delivered on a channel after its last Unsubscribe has returned.
NothingAfterUnsubscribe ==
  [][\A c \in Channels : got'[c] # got[c] => Live \cap On(c) # {}]_feedVars

\* The feed delivers each value once, in the order of the Sends, to every
\* subscription that stayed and to none that is gone, while subscriptions come and
\* go during a Send.
FeedDelivers ==
  /\ []InOrderOnce /\ []CasesMatchSubscriptions
  /\ SendReachesEverySubscriber /\ NothingAfterUnsubscribe

\* Unsubscribe returns, even while Send is blocked on channels nobody reads; only a
\* Send that panicked with the lock keeps it waiting.
RemoveReturns ==
  \A s \in FeedSubs : pc[s] = "removing" ~> (pc[s] = "done" \/ \E p \in Senders : pc[p] = "panicked")

-----------------------------------------------------------------------------
(* What comments of the code say and the code does not keep: the README has  *)
(* the behaviours.  No run checks these.                                     *)

\* Every channel of the feed has the feed's element type.
TypesAgree == \A c \in ToSet(inbox) \cup ToSet(sendCases) : TypeOf[c] = etype
=============================================================================
