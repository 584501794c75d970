------------------------------- MODULE TypeMux -------------------------------
(***************************************************************************)
(* The event mux of the host client (event/event.go) for one event type:    *)
(* Post hands an event to every subscription over an unbuffered channel     *)
(* while Unsubscribe and Stop close those channels.                         *)
(*                                                                         *)
(* mutex guards the list of subscriptions; it is held over several steps    *)
(* only by Stop.  Each subscription has a closing channel, closed once under *)
(* closeMu, and postMu, which every delivery holds for reading and the close *)
(* of postC for writing.  Whoever waits for postMu keeps new readers out.    *)
(***************************************************************************)
EXTENDS Integers, Sequences, FiniteSets, SequencesExt

CONSTANTS
  Posters, Subs,
  Closers,       \* goroutines that call Unsubscribe; one of them may call Stop instead
  Readers,       \* subscriptions whose channel is read until it is closed
  MaxPosts       \* bound on Posts

ASSUME NoneIsNoCloser == "none" \notin Closers

VARIABLES
  subm,          \* the subscriptions in the mux, in order
  stopped, stopping,   \* mux.stopped; the closer that holds mutex in Stop, or "none"
  created,       \* subscription -> time of its creation, 0 if it does not exist
  clock,         \* number of events and subscriptions so far
  closing, closed, postC,   \* per subscription; postC is "open", "closed" or "nil"
  poster,        \* [pc, time, todo] with todo the subscriptions left, the first in delivery
  closer,        \* [pc, todo]: subscriptions to close, the first is worked on
  heard            \* subscription -> times of the events it received

muxVars == <<subm, stopped, stopping, created, clock, closing, closed, postC, poster, closer, heard>>

MuxVars == <<subm, stopped, stopping, created, clock>>
SubVars == <<closing, closed, postC>>

\* Deliveries that hold s.postMu for reading, and the closer that waits for it.
Delivering(s) == {p \in Posters : poster[p].pc = "select" /\ Head(poster[p].todo) = s}
WantsLock(s) == {c \in Closers : closer[c].pc = "lock" /\ Head(closer[c].todo) = s}
\* The closer inside closewait(s), which holds s.closeMu.
InClosewait(s) == WantsLock(s)

Idle == [pc |-> "idle", time |-> 0, todo |-> <<>>]

MuxInit ==
  /\ subm = <<>> /\ stopped = FALSE /\ stopping = "none"
  /\ created = [s \in Subs |-> 0] /\ clock = 0
  /\ closing = [s \in Subs |-> FALSE] /\ closed = [s \in Subs |-> FALSE]
  /\ postC = [s \in Subs |-> "open"]
  /\ poster = [p \in Posters |-> Idle]
  /\ closer = [c \in Closers |-> [pc |-> "idle", todo |-> <<>>]]
  /\ heard = [s \in Subs |-> <<>>]

\* newsub, then the registration under mutex; a stopped mux hands out a closed channel.
Subscribe(s) ==
  /\ created[s] = 0 /\ stopping = "none"
  /\ clock' = clock + 1
  /\ created' = [created EXCEPT ![s] = clock + 1]
  /\ subm' = IF stopped THEN subm ELSE Append(subm, s)
  /\ closed' = [closed EXCEPT ![s] = stopped]
  /\ postC' = IF stopped THEN [postC EXCEPT ![s] = "closed"] ELSE postC
  /\ UNCHANGED <<stopped, stopping, closing, poster, closer, heard>>

-----------------------------------------------------------------------------
(* Post                                                                     *)

Post(p) ==
  /\ poster[p].pc = "idle" /\ Cardinality({s \in Subs : created[s] # 0}) + MaxPosts > clock
  /\ clock' = clock + 1
  /\ poster' = [poster EXCEPT ![p] = [pc |-> "posting", time |-> clock + 1, todo |-> <<>>]]
  /\ UNCHANGED <<subm, stopped, stopping, created, SubVars, closer, heard>>

\* The list is read under mutex and used after it is released.
ReadSubs(p) ==
  /\ poster[p].pc = "posting" /\ stopping = "none"
  /\ poster' = IF stopped THEN [poster EXCEPT ![p] = Idle]
               ELSE [poster EXCEPT ![p].pc = "deliver", ![p].todo = subm]
  /\ UNCHANGED <<MuxVars, SubVars, closer, heard>>

Stale(p, s) == created[s] > poster[p].time

Advance(p) ==
  poster' = [poster EXCEPT ![p].pc = "deliver", ![p].todo = Tail(@)]

Deliver(p) ==
  /\ poster[p].pc = "deliver" /\ poster[p].todo # <<>>
  /\ LET s == Head(poster[p].todo)
     IN  IF Stale(p, s) THEN Advance(p)
         ELSE /\ WantsLock(s) = {}
              /\ poster' = [poster EXCEPT ![p].pc = "select"]
  /\ UNCHANGED <<MuxVars, SubVars, closer, heard>>

\* case s.postC <- event, with a reader
Sent(p) ==
  /\ poster[p].pc = "select"
  /\ LET s == Head(poster[p].todo)
     IN  /\ s \in Readers /\ postC[s] = "open"
         /\ heard' = [heard EXCEPT ![s] = Append(@, poster[p].time)]
  /\ Advance(p)
  /\ UNCHANGED <<MuxVars, SubVars, closer>>

\* Slip: deliver has no case for a subscription that is closing.
GivenUpNever(p) == FALSE /\ UNCHANGED muxVars

\* case <-s.closing
GivenUp(p) ==
  /\ poster[p].pc = "select" /\ closing[Head(poster[p].todo)]
  /\ Advance(p)
  /\ UNCHANGED <<MuxVars, SubVars, closer, heard>>

Posted(p) ==
  /\ poster[p].pc = "deliver" /\ poster[p].todo = <<>>
  /\ poster' = [poster EXCEPT ![p] = Idle]
  /\ UNCHANGED <<MuxVars, SubVars, closer, heard>>

-----------------------------------------------------------------------------
(* Unsubscribe and Stop                                                     *)

\* Where del finds s in the list, which has it once at most.
find(s) == CHOOSE k \in DOMAIN subm : subm[k] = s

del(s) == IF s \in ToSet(subm) THEN RemoveAt(subm, find(s)) ELSE subm

\* mux.del, then closewait of this subscription
Unsubscribe(c, s) ==
  /\ closer[c].pc = "idle" /\ created[s] # 0 /\ stopping = "none"
  /\ subm' = del(s)
  /\ closer' = [closer EXCEPT ![c] = [pc |-> "close", todo |-> <<s>>]]
  /\ UNCHANGED <<stopped, stopping, created, clock, SubVars, poster, heard>>

\* Stop keeps mutex while it closes every subscription.
Stop(c) ==
  /\ closer[c].pc = "idle" /\ stopping = "none"
  /\ stopping' = c
  /\ closer' = [closer EXCEPT ![c] = [pc |-> "close", todo |-> subm]]
  /\ UNCHANGED <<subm, stopped, created, clock, SubVars, poster, heard>>

\* closewait up to postMu.Lock: nothing to do if the subscription is closed.
Closewait(c) ==
  /\ closer[c].pc = "close" /\ closer[c].todo # <<>>
  /\ LET s == Head(closer[c].todo)
     IN  /\ InClosewait(s) = {}
         /\ IF closed[s]
            THEN closer' = [closer EXCEPT ![c].todo = Tail(@)] /\ UNCHANGED <<closing, closed>>
            ELSE /\ closing' = [closing EXCEPT ![s] = TRUE]
                 /\ closed' = [closed EXCEPT ![s] = TRUE]
                 /\ closer' = [closer EXCEPT ![c].pc = "lock"]
  /\ UNCHANGED <<MuxVars, postC, poster, heard>>

\* Slip: the channel is closed without postMu.
ClosePostAtOnce(c) ==
  /\ closer[c].pc = "lock"
  /\ postC' = [postC EXCEPT ![Head(closer[c].todo)] = "nil"]
  /\ closer' = [closer EXCEPT ![c].pc = "close", ![c].todo = Tail(@)]
  /\ UNCHANGED <<MuxVars, closing, closed, poster, heard>>

ClosePost(c) ==
  /\ closer[c].pc = "lock"
  /\ LET s == Head(closer[c].todo)
     IN  /\ Delivering(s) = {}
         /\ postC' = [postC EXCEPT ![s] = "nil"]
  /\ closer' = [closer EXCEPT ![c].pc = "close", ![c].todo = Tail(@)]
  /\ UNCHANGED <<MuxVars, closing, closed, poster, heard>>

Closed(c) ==
  /\ closer[c].pc = "close" /\ closer[c].todo = <<>>
  /\ closer' = [closer EXCEPT ![c].pc = "returned"]
  /\ IF stopping = c THEN subm' = <<>> /\ stopped' = TRUE /\ stopping' = "none"
     ELSE UNCHANGED <<subm, stopped, stopping>>
  /\ UNCHANGED <<created, clock, SubVars, poster, heard>>

-----------------------------------------------------------------------------

PostStep(p) == ReadSubs(p) \/ Deliver(p) \/ Sent(p) \/ GivenUp(p) \/ Posted(p)
CloseStep(c) == Closewait(c) \/ ClosePost(c) \/ Closed(c)

MuxNext ==
  \/ \E s \in Subs : Subscribe(s)
  \/ \E p \in Posters : Post(p) \/ PostStep(p)
  \/ \E c \in Closers : Stop(c) \/ CloseStep(c) \/ \E s \in Subs : Unsubscribe(c, s)

\* A goroutine that can go on does, and the readers read.
MuxSpec ==
  /\ MuxInit /\ [][MuxNext]_muxVars
  /\ \A p \in Posters : WF_muxVars(PostStep(p))
  /\ \A c \in Closers : WF_muxVars(CloseStep(c))

-----------------------------------------------------------------------------
(* Properties                                                               *)

\* The channel of a subscription is closed exactly once, and only while no delivery
\* holds it.
ClosedBetweenDeliveries ==
  [][\A s \in Subs : postC'[s] # postC[s] => postC[s] = "open" /\ Delivering(s) = {}]_muxVars

\* When a closewait has returned, also one that found the subscription closed by
\* somebody else, the channel is closed.
ClosewaitCloses == \A s \in Subs : closed[s] /\ InClosewait(s) = {} => postC[s] # "open"

\* From then on nothing is delivered.
NothingAfterClose ==
  [][\A s \in Subs : heard'[s] # heard[s] => ~(closed[s] /\ InClosewait(s) = {})]_muxVars

\* A subscription gets no event that is older than itself, and none twice.
OnlyNewEventsOnce ==
  \A s \in Subs : /\ \A k \in DOMAIN heard[s] : heard[s][k] > created[s]
                  /\ IsInjective(heard[s])

\* Whatever the others do, a closed subscription is out of the mux for good.
ClosedIsGone ==
  (stopping = "none") => \A k \in DOMAIN subm : ~closed[subm[k]]

\* Unsubscribe and Stop close each channel once and between deliveries; a closewait
\* that returned, whoever closed, has ended the deliveries; and the mux forgets what is
\* closed, while lists read before are still used by Posts.
MuxClosesCleanly ==
  /\ ClosedBetweenDeliveries /\ NothingAfterClose
  /\ [](ClosewaitCloses /\ OnlyNewEventsOnce /\ ClosedIsGone)

\* Stop and Unsubscribe return, even while Post blocks on channels nobody reads.
CloseReturns == \A c \in Closers : closer[c].pc = "close" ~> closer[c].pc = "returned"

\* Post returns if every subscription left in the mux is read.
PostReturns ==
  \A p \in Posters : poster[p].pc = "posting" ~>
    (poster[p].pc = "idle" \/ \E s \in ToSet(poster[p].todo) : s \notin Readers /\ ~closed[s])
=============================================================================
