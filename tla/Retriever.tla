------------------------------ MODULE Retriever ------------------------------
(***************************************************************************)
(* The retrieval of one object by the light client (les/retrieve.go): a     *)
(* state machine (retrieveLoop) that starts one goroutine (tryRequest) per  *)
(* attempt and hears from them over a buffered channel of events, while     *)
(* peers answer, answer wrongly, late or never.                             *)
(*                                                                         *)
(* The request distributor is represented by what tryRequest sees of it: a  *)
(* queued attempt is sent to a peer that has not been asked, or finds no    *)
(* suitable peer.  Timeouts may fire at any time, the hard one after the    *)
(* soft one.                                                                *)
(***************************************************************************)
EXTENDS Integers, Sequences, FiniteSets

CONSTANTS
  DistPeers,
  EventsCap,     \* capacity of eventsCh
  MaxTries       \* bound on attempts

VARIABLES
  state,         \* of retrieveLoop: "requesting" | "noMorePeers" | "stopped" | "ended"
  reqQueued, reqSent, reqSrtoCount,
  err,           \* "running" until stop is called, then what getError returns
  eventsCh,      \* events on their way to the loop: [event, peer]
  tries,         \* attempts so far
  try,           \* of each attempt: [pc, peer]
  sentTo         \* peer -> "no", "open", "valid" or "invalid" (delivered)

retrieverVars == <<state, reqQueued, reqSent, reqSrtoCount, err, eventsCh, tries, try, sentTo>>

Tries == 1..MaxTries
NoPeer == "nil"
Ev(e, p) == [event |-> e, peer |-> p]
Stopped == err # "running"

Flags == <<reqQueued, reqSent, reqSrtoCount>>
LoopVars == <<state, reqQueued, reqSent, reqSrtoCount, err, tries>>

RetrieverInit ==
  /\ state = "requesting" /\ reqQueued = TRUE /\ reqSent = FALSE /\ reqSrtoCount = 0
  /\ err = "running" /\ eventsCh = <<>> /\ tries = 1
  /\ try = [k \in Tries |-> [pc |-> IF k = 1 THEN "queued" ELSE "none", peer |-> NoPeer]]
  /\ sentTo = [p \in DistPeers |-> "no"]

-----------------------------------------------------------------------------
(* tryRequest                                                               *)

Emit(e, p) == Len(eventsCh) < EventsCap /\ eventsCh' = Append(eventsCh, Ev(e, p))
Goto(k, pc) == try' = [try EXCEPT ![k].pc = pc]

\* Slip: a peer that has the request already is asked again.
CanSendTwice(p) == TRUE

canSend(p) == sentTo[p] = "no"

\* The distributor calls request, which enters the peer into sentTo.
Sent(k, p) ==
  /\ try[k].pc = "queued" /\ canSend(p)
  /\ try' = [try EXCEPT ![k] = [pc |-> "sent", peer |-> p]]
  /\ sentTo' = [sentTo EXCEPT ![p] = "open"]
  /\ UNCHANGED <<LoopVars, eventsCh>>

\* No suitable peer, or the attempt is cancelled before it was sent.
NotSent(k) ==
  /\ try[k].pc = "queued"
  /\ Emit("sent", NoPeer) /\ Goto(k, "done")
  /\ UNCHANGED <<LoopVars, sentTo>>

ReportSent(k) ==
  /\ try[k].pc = "sent"
  /\ Emit("sent", try[k].peer) /\ Goto(k, "waiting")
  /\ UNCHANGED <<LoopVars, sentTo>>

\* The validity of the answer arrives, before or after the soft timeout.
Answered(k) ==
  /\ try[k].pc \in {"waiting", "late"}
  /\ sentTo[try[k].peer] \in {"valid", "invalid"}
  /\ Emit(sentTo[try[k].peer], try[k].peer) /\ Goto(k, "cleanup")
  /\ UNCHANGED <<LoopVars, sentTo>>

SoftTimeout(k) ==
  /\ try[k].pc = "waiting"
  /\ Emit("softTimeout", try[k].peer) /\ Goto(k, "late")
  /\ UNCHANGED <<LoopVars, sentTo>>

HardTimeout(k) ==
  /\ try[k].pc = "late"
  /\ Emit("hardTimeout", try[k].peer) /\ Goto(k, "cleanup")
  /\ UNCHANGED <<LoopVars, sentTo>>

\* The deferred function takes the peer out of sentTo.
Cleanup(k) ==
  /\ try[k].pc = "cleanup"
  /\ sentTo' = [sentTo EXCEPT ![try[k].peer] = "no"]
  /\ Goto(k, "done")
  /\ UNCHANGED <<LoopVars, eventsCh>>

-----------------------------------------------------------------------------
(* The protocol manager delivers the answer of a peer, the caller gives up  *)

\* Only the first answer of a peer that was asked counts.
deliver(p, valid) ==
  /\ state # "ended" /\ sentTo[p] = "open"
  /\ sentTo' = [sentTo EXCEPT ![p] = IF valid THEN "valid" ELSE "invalid"]
  /\ UNCHANGED <<LoopVars, eventsCh, try>>

\* Only the first call of stop counts.
Stop(e) == err' = IF Stopped THEN err ELSE e

\* ctx.Done() in retrieve
CtxDone ==
  /\ ~Stopped /\ Stop("cancelled")
  /\ UNCHANGED <<state, Flags, tries, eventsCh, try, sentTo>>

-----------------------------------------------------------------------------
(* retrieveLoop                                                             *)

update(ev) ==
  /\ reqQueued' = IF ev.event = "sent" THEN FALSE ELSE reqQueued
  /\ reqSent' = CASE ev.event = "sent" /\ ev.peer # NoPeer -> TRUE
                  [] ev.event = "softTimeout" -> FALSE
                  [] OTHER -> reqSent
  /\ reqSrtoCount' = CASE ev.event = "softTimeout" -> reqSrtoCount + 1
                       [] ev.event = "sent" -> reqSrtoCount
                       [] OTHER -> reqSrtoCount - 1

Waiting(queued, sent, count) == queued \/ sent \/ count > 0
waiting == Waiting(reqQueued, reqSent, reqSrtoCount)
waitingNext == Waiting(reqQueued', reqSent', reqSrtoCount')

Take == eventsCh # <<>> /\ eventsCh' = Tail(eventsCh)

\* go r.tryRequest() and r.reqQueued = true
Launch ==
  /\ tries < MaxTries /\ tries' = tries + 1
  /\ try' = [try EXCEPT ![tries + 1].pc = "queued"]

\* stateRequesting, an event that only changes the flags
Note ==
  /\ state = "requesting" /\ Take
  /\ LET ev == Head(eventsCh)
     IN  /\ ev.event \in {"hardTimeout", "invalid"} \/ (ev.event = "sent" /\ ev.peer # NoPeer)
         /\ update(ev)
  /\ UNCHANGED <<state, err, tries, try, sentTo>>

\* stateRequesting, the request could not be sent
NoSuitablePeer ==
  /\ state = "requesting" /\ Take
  /\ Head(eventsCh) = Ev("sent", NoPeer)
  /\ update(Head(eventsCh))
  /\ IF waitingNext THEN state' = "noMorePeers" /\ UNCHANGED err
     ELSE state' = "ended" /\ Stop("noPeers")
  /\ UNCHANGED <<tries, try, sentTo>>

\* stateRequesting, soft timeout: ask another peer
AskAnother ==
  /\ state = "requesting" /\ Take
  /\ Head(eventsCh).event = "softTimeout"
  /\ reqSent' = FALSE /\ reqSrtoCount' = reqSrtoCount + 1
  /\ reqQueued' = TRUE
  /\ Launch
  /\ UNCHANGED <<state, err, sentTo>>

\* stateRequesting and stateNoMorePeers, a valid answer
Succeeded ==
  /\ state \in {"requesting", "noMorePeers"} /\ Take
  /\ Head(eventsCh).event = "valid"
  /\ update(Head(eventsCh))
  /\ state' = "stopped" /\ Stop("nil")
  /\ UNCHANGED <<tries, try, sentTo>>

\* stateNoMorePeers, the retry timer
RetryQueue ==
  /\ state = "noMorePeers"
  /\ state' = "requesting" /\ reqQueued' = TRUE
  /\ Launch
  /\ UNCHANGED <<reqSent, reqSrtoCount, err, eventsCh, sentTo>>

\* stateNoMorePeers, any other event
NoteNoMorePeers ==
  /\ state = "noMorePeers" /\ Take
  /\ Head(eventsCh).event # "valid"
  /\ update(Head(eventsCh))
  /\ UNCHANGED <<state, err, tries, try, sentTo>>

\* <-r.stopCh
StopSeen ==
  /\ state \in {"requesting", "noMorePeers"} /\ Stopped
  /\ state' = "stopped"
  /\ UNCHANGED <<Flags, err, tries, eventsCh, try, sentTo>>

\* stateStopped: wait for the peers that were asked, then end.
Drain ==
  /\ state = "stopped" /\ waiting /\ Take
  /\ update(Head(eventsCh))
  /\ UNCHANGED <<state, err, tries, try, sentTo>>

End ==
  /\ state = "stopped" /\ ~waiting
  /\ state' = "ended"
  /\ UNCHANGED <<Flags, err, tries, eventsCh, try, sentTo>>

-----------------------------------------------------------------------------

LoopStep ==
  \/ Note \/ NoSuitablePeer \/ AskAnother \/ Succeeded \/ RetryQueue \/ NoteNoMorePeers
  \/ StopSeen \/ Drain \/ End

TryStep(k) ==
  \/ \E p \in DistPeers : Sent(k, p)
  \/ NotSent(k) \/ ReportSent(k) \/ Answered(k) \/ SoftTimeout(k) \/ HardTimeout(k) \/ Cleanup(k)

RetrieverNext ==
  \/ LoopStep \/ CtxDone
  \/ \E k \in Tries : TryStep(k)
  \/ \E p \in DistPeers, valid \in BOOLEAN : deliver(p, valid)

\* The goroutines run and the timers fire; no peer has to answer and no caller to
\* give up.
RetrieverSpec == RetrieverInit /\ [][RetrieverNext]_retrieverVars /\ WF_retrieverVars(LoopStep) /\ \A k \in Tries : WF_retrieverVars(TryStep(k))

-----------------------------------------------------------------------------
(* Properties                                                               *)

Pending(k) == try[k].pc \in {"sent", "waiting", "late"}

\* No two attempts wait for the same peer, and each finds its entry in sentTo,
\* where tryRequest panics otherwise.
OneAttemptPerPeer ==
  \A k \in Tries : Pending(k) =>
    /\ sentTo[try[k].peer] # "no"
    /\ \A j \in Tries : Pending(j) /\ try[j].peer = try[k].peer => j = k

\* ErrNoPeers is returned only when no attempt can bring an answer any more.
NoPeersIsFinal ==
  err = "noPeers" => \A k \in Tries : try[k].pc \in {"none", "done", "cleanup"}

\* What retrieve returns never changes.
ResultIsFinal == [][Stopped => err' = err]_retrieverVars

\* A valid answer that is reported to the loop ends the retrieval, whatever the
\* other attempts report before it.
ValidAnswerStops ==
  (\E j \in DOMAIN eventsCh : eventsCh[j].event = "valid") ~> (Stopped \/ tries = MaxTries)

\* A peer that does not answer in time leads to another attempt, or to the end.
TimeoutIsRetried ==
  \A k \in 1..(MaxTries - 1) : try[k].pc = "late" ~> (tries > k \/ Stopped)

-----------------------------------------------------------------------------
(* What comments of the code say and the code does not keep: the README has  *)
(* the behaviours.  No run checks these.                                     *)

\* After the end of the retrieval the loop ends, once the peers that were asked
\* have answered or timed out.
LoopEnds == Stopped ~> state = "ended"

\* An invalid answer leads to another attempt, or to the end.
InvalidAnswerIsRetried ==
  \A k \in 1..(MaxTries - 1) :
    (try[k].pc = "cleanup" /\ sentTo[try[k].peer] = "invalid") ~> (tries > k \/ Stopped)
=============================================================================
