----------------------------- MODULE Resubscribe -----------------------------
(***************************************************************************)
(* event.Resubscribe (event/subscription.go): a loop that calls fn until a  *)
(* subscription is established, waits for it to fail and starts over, with  *)
(* a growing pause between calls; and its Unsubscribe.                      *)
(*                                                                         *)
(* fn runs in a goroutine of its own and hands its result to the loop over  *)
(* an unbuffered channel.  The subscriptions it establishes are numbered by *)
(* the call that made them.  Time is left open: a call may have taken       *)
(* longer than backoffMax or not.                                           *)
(***************************************************************************)
EXTENDS Integers, FiniteSets

CONSTANTS
  backoffMax,
  Callers,       \* goroutines that call Unsubscribe
  MaxCalls       \* bound on calls of fn

VARIABLES
  loop,          \* "calling" | "established" | "backoff" | "ended" (err closed)
  calls,         \* calls of fn so far
  fn,            \* state of each call: "running" | "failed" | "ok" | "handed"
  inner,         \* subscription of each call: "none" | "live" | "failing" | "over" | "unsubscribed"
  waitTime,
  caller         \* "idle" | "once" (in unsubOnce) | "sending" | "waiting" | "returned"

vars == <<loop, calls, fn, inner, waitTime, caller>>

\* Assumed of the constants; fn is called at least once.
ResubscribeConstants == backoffMax \in Nat /\ MaxCalls \in Nat \ {0}

Calls == 1..MaxCalls

Init ==
  /\ loop = "calling" /\ calls = 1
  /\ fn = [n \in Calls |-> IF n = 1 THEN "running" ELSE "none"]
  /\ inner = [n \in Calls |-> "none"]
  /\ waitTime = backoffMax \div 10
  /\ caller = [c \in Callers |-> "idle"]

\* fn returns; its goroutine then blocks on the channel "subscribed".
FnReturns(n, established) ==
  /\ fn[n] = "running"
  /\ fn' = [fn EXCEPT ![n] = IF established THEN "ok" ELSE "failed"]
  /\ inner' = IF established THEN [inner EXCEPT ![n] = "live"] ELSE inner
  /\ UNCHANGED <<loop, calls, waitTime, caller>>

\* The subscription fails with an error, or ends.
InnerEnds(n, how) ==
  /\ inner[n] = "live"
  /\ inner' = [inner EXCEPT ![n] = how]
  /\ UNCHANGED <<loop, calls, fn, waitTime, caller>>

Launch(fns) ==
  /\ calls < MaxCalls
  /\ calls' = calls + 1
  /\ fn' = [fns EXCEPT ![calls + 1] = "running"]
  /\ loop' = "calling"

\* backoffWait: the pause starts over after a call that took long enough, else doubles.
NextWait(slow) ==
  IF slow THEN backoffMax \div 10
  ELSE IF waitTime * 2 > backoffMax THEN backoffMax ELSE waitTime * 2

\* subscribe, case err := <-subscribed
Subscribed ==
  /\ loop = "calling" /\ fn[calls] \in {"ok", "failed"}
  /\ fn' = [fn EXCEPT ![calls] = "handed"]
  /\ IF fn[calls] = "ok"
     THEN loop' = "established" /\ UNCHANGED waitTime
     ELSE loop' = "backoff" /\ \E slow \in BOOLEAN : waitTime' = NextWait(slow)
  /\ UNCHANGED <<calls, inner, caller>>

BackoffOver ==
  /\ loop = "backoff"
  /\ Launch(fn)
  /\ UNCHANGED <<inner, waitTime, caller>>

\* Slip: a failed subscription is not unsubscribed before the next one is made.
FailedLeft ==
  /\ loop = "established" /\ inner[calls] = "failing"
  /\ Launch(fn)
  /\ UNCHANGED <<inner, waitTime, caller>>

\* waitForError and loop, error on sub.Err(): unsubscribe and start over.
Failed ==
  /\ loop = "established" /\ inner[calls] = "failing"
  /\ inner' = [inner EXCEPT ![calls] = "unsubscribed"]
  /\ Launch(fn)
  /\ UNCHANGED <<waitTime, caller>>

\* waitForError and loop, sub.Err() closed: the source of events is done.
Over ==
  /\ loop = "established" /\ inner[calls] = "over"
  /\ inner' = [inner EXCEPT ![calls] = "unsubscribed"]
  /\ loop' = "ended"
  /\ UNCHANGED <<calls, fn, waitTime, caller>>

-----------------------------------------------------------------------------
(* Unsubscribe                                                              *)

\* unsubOnce: the first caller runs the body, the others wait for it.
Enter(c) ==
  /\ caller[c] = "idle"
  /\ caller' = [caller EXCEPT ![c] = IF \E d \in Callers : caller[d] # "idle" THEN "once" ELSE "sending"]
  /\ UNCHANGED <<loop, calls, fn, inner, waitTime>>

OnceDone(c) ==
  /\ caller[c] = "once" /\ \E d \in Callers : caller[d] = "returned"
  /\ caller' = [caller EXCEPT ![c] = "returned"]
  /\ UNCHANGED <<loop, calls, fn, inner, waitTime>>

\* s.unsub <- struct{}{} meets one of the three selects of the loop, which then ends.
Unsub(c) ==
  /\ caller[c] = "sending" /\ loop # "ended"
  /\ inner' = IF loop = "established" THEN [inner EXCEPT ![calls] = "unsubscribed"] ELSE inner
  /\ loop' = "ended"
  /\ caller' = [caller EXCEPT ![c] = "waiting"]
  /\ UNCHANGED <<calls, fn, waitTime>>

\* <-s.err: err is closed when the loop has ended.
UnsubReturns(c) ==
  /\ caller[c] = "waiting" /\ loop = "ended"
  /\ caller' = [caller EXCEPT ![c] = "returned"]
  /\ UNCHANGED <<loop, calls, fn, inner, waitTime>>

-----------------------------------------------------------------------------

LoopStep == Subscribed \/ BackoffOver \/ Failed \/ Over
CallerStep(c) == OnceDone(c) \/ Unsub(c) \/ UnsubReturns(c)

Next ==
  \/ LoopStep
  \/ \E n \in Calls : \/ \E established \in BOOLEAN : FnReturns(n, established)
                      \/ \E how \in {"failing", "over"} : InnerEnds(n, how)
  \/ \E c \in Callers : Enter(c) \/ CallerStep(c)

\* Goroutines that can run do run, and fn returns.
Spec ==
  /\ Init /\ [][Next]_vars
  /\ WF_vars(LoopStep)
  /\ \A n \in Calls : WF_vars(\E established \in BOOLEAN : FnReturns(n, established))
  /\ \A c \in Callers : WF_vars(CallerStep(c))

-----------------------------------------------------------------------------
(* Properties                                                               *)

\* The time between calls never exceeds backoffMax.
BackoffIsBounded == waitTime \in 0..backoffMax

\* Of the subscriptions the loop was handed, only the latest can be in use, and
\* only while the loop waits for its error.
OneSubscriptionInUse ==
  \A n \in Calls : (fn[n] = "handed" /\ inner[n] \in {"live", "failing", "over"})
                     => n = calls /\ loop = "established"

-----------------------------------------------------------------------------
(* What comments of the code say and the code does not keep: the README has  *)
(* the behaviours.  No run checks these.                                     *)

\* Unsubscribe returns, whatever state the subscription is in.
UnsubscribeReturns == \A c \in Callers : caller[c] = "sending" ~> caller[c] = "returned"

\* Once Unsubscribe has returned, nothing that fn established stays subscribed.
NothingStaysSubscribed ==
  (\E c \in Callers : caller[c] = "returned") => \A n \in Calls : inner[n] # "live"
=============================================================================
