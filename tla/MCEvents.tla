------------------------------ MODULE MCEvents -------------------------------
(***************************************************************************)
(* The three ways in which the goroutines of the host client hear from each *)
(* other, which share no state: the feed (Feed), the mux (TypeMux) and a    *)
(* subscription that is made anew when it fails (Resubscribe).  A behaviour *)
(* takes the steps of one part; the others rest in their initial state.     *)
(***************************************************************************)
EXTENDS Resubscribe, TypeMux, Feed

VARIABLE part

-----------------------------------------------------------------------------
(* The feed has two senders, of which q sends what no channel takes, and     *)
(* three subscriptions, two of them on the same channel; nobody reads the    *)
(* other.                                                                    *)

MCChanOf == [s \in FeedSubs |-> IF s = "s3" THEN "d" ELSE "c"]
MCTypeOf == [x \in Senders \cup Channels |-> IF x = "q" THEN "string" ELSE "int"]

-----------------------------------------------------------------------------
(* Two goroutines that unsubscribe from a renewed subscription, and two that *)
(* close the mux's; the mux has a poster and two subscriptions, of which one *)
(* is read.                                                                  *)

MCCallers == {"a", "b"}
MCClosers == {"a", "b"}

ASSUME ResubscribeConstants

-----------------------------------------------------------------------------

EventsInit ==
  /\ part \in {"feed", "mux", "resubscribe"}
  /\ FeedInit /\ MuxInit /\ Init

EventsNext ==
  /\ UNCHANGED part
  /\ \/ part = "feed" /\ FeedNext /\ UNCHANGED <<muxVars, vars>>
     \/ part = "mux" /\ MuxNext /\ UNCHANGED <<feedVars, vars>>
     \/ part = "resubscribe" /\ Next /\ UNCHANGED <<feedVars, muxVars>>

eventsVars == <<part, feedVars, muxVars, vars>>

\* The fairness of TypeMux and of Feed.
EventsSpec ==
  /\ EventsInit /\ [][EventsNext]_eventsVars
  /\ \A p \in Senders : WF_feedVars(part = "feed" /\ SendStep(p))
  /\ \A s \in FeedSubs : /\ WF_feedVars(part = "feed" /\ RemoveFromInbox(s))
                        /\ SF_feedVars(part = "feed" /\ RemoveStep(s))
  /\ \A c \in Channels : WF_feedVars(part = "feed" /\ Receive(c))
  /\ WF_muxVars(part = "mux" /\ PostStep("p"))
  /\ \A c \in Closers : WF_muxVars(part = "mux" /\ CloseStep(c))

-----------------------------------------------------------------------------
(* Properties of the parts; OneSubscriptionInUse is that of Resubscribe,    *)
(* MuxClosesCleanly that of TypeMux, FeedDelivers that of Feed.             *)

\* Whoever leaves gets away: Unsubscribe of the feed returns while Send is blocked,
\* Stop and Unsubscribe of the mux while Post is, and a Post that is not blocked on a
\* channel nobody reads returns too (Feed, TypeMux).
LeavingReturns == RemoveReturns /\ CloseReturns /\ PostReturns
=============================================================================
