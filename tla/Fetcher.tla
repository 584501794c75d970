------------------------------- MODULE Fetcher -------------------------------
(***************************************************************************)
(* The block fetcher of the host client (eth/fetcher/fetcher.go): a loop    *)
(* that turns block announcements of peers into header and body requests   *)
(* and imports the blocks in order, one goroutine per import.              *)
(*                                                                         *)
(* A block is a record; its hash, header and body are the record.  Time is *)
(* left open: any announcement may have become due when its timer fires,   *)
(* any fetch may have expired when the loop starts over.  Peers answer     *)
(* late or never, send what nobody asked for, and announce wrong numbers.  *)
(***************************************************************************)
EXTENDS Integers, Sequences, FiniteSets, FiniteSetsExt, SequencesExt

CONSTANTS
  Origins,        \* connected peers
  Blocks,         \* [number, parent, empty, valid]; parent is a block or Genesis
  Genesis,        \* the block the chain starts with
  Numbers,        \* numbers that are announced
  hashLimit, blockLimit, maxUncleDist, maxQueueDist,   \* the limits of fetcher.go
  MaxAnnounces,   \* bound on announcements
  MaxInjects,     \* bound on blocks received unasked
  MaxAnswers      \* bound on header and body packets

ASSUME NoneIsNoOrigin == "none" \notin Origins
ASSUME BlocksAreFinite == IsFiniteSet(Blocks)

VARIABLES
  f,              \* the fetcher
  chain,          \* the imported blocks
  importing,      \* running import goroutines: sequence of [origin, block]
  doneCh,         \* goroutines blocked on sending their hash to done
  dropped, liars, \* peers dropped; history: peers that sent something wrong
  announcesLeft, injectsLeft, answersLeft

fetcherVars == <<f, chain, importing, doneCh, dropped, liars, announcesLeft, injectsLeft, answersLeft>>

NoAnnounce == [origin |-> "none", number |-> 0, header |-> FALSE]
height == Max({b.number : b \in chain})
getBlock(b) == b \in chain

-----------------------------------------------------------------------------
(* State of the loop: announced and fetched map a hash to a sequence of     *)
(* announces, fetching and completing to one announce.                      *)

New ==
  [announces |-> [p \in Origins |-> 0], announced |-> [b \in Blocks |-> <<>>],
   fetching |-> [b \in Blocks |-> NoAnnounce], fetched |-> [b \in Blocks |-> <<>>],
   completing |-> [b \in Blocks |-> NoAnnounce],
   queue |-> {}, queues |-> [p \in Origins |-> 0], queued |-> [b \in Blocks |-> "none"],
   fetchTimer |-> TRUE, completeTimer |-> TRUE]

Announced(s) == {b \in Blocks : s.announced[b] # <<>>}
Fetched(s) == {b \in Blocks : s.fetched[b] # <<>>}
Fetching(s) == {b \in Blocks : s.fetching[b] # NoAnnounce}
Completing(s) == {b \in Blocks : s.completing[b] # NoAnnounce}

One(a) == IF a = NoAnnounce THEN <<>> ELSE <<a>>
Traces(s, b) == s.announced[b] \o One(s.fetching[b]) \o s.fetched[b] \o One(s.completing[b])
TracesOf(s, b, p) == {i \in DOMAIN Traces(s, b) : Traces(s, b)[i].origin = p}

\* forgetHash for some blocks: every trace of an announcement goes, counted down
\* wherever it is.
forgetHashes(s, bs) ==
  [s EXCEPT !.announces  = [p \in Origins |-> @[p] - Cardinality(UNION {{b} \X TracesOf(s, b, p) : b \in bs})],
            !.announced  = [b \in Blocks |-> IF b \in bs THEN <<>> ELSE @[b]],
            !.fetching   = [b \in Blocks |-> IF b \in bs THEN NoAnnounce ELSE @[b]],
            !.fetched    = [b \in Blocks |-> IF b \in bs THEN <<>> ELSE @[b]],
            !.completing = [b \in Blocks |-> IF b \in bs THEN NoAnnounce ELSE @[b]]]

forgetHash(s, b) == forgetHashes(s, {b})

\* forgetBlock for some blocks; those that are not queued are passed over.
forgetBlocks(s, bs) ==
  [s EXCEPT !.queues = [p \in Origins |-> @[p] - Cardinality({b \in bs : s.queued[b] = p})],
            !.queued = [b \in Blocks |-> IF b \in bs THEN "none" ELSE @[b]]]

forgetBlock(s, b) == forgetBlocks(s, {b})

TooFar(n) == n - height < -maxUncleDist \/ n - height > maxQueueDist

AlreadyQueued(s, b) == s.queued[b] # "none"

enqueue(s, p, b) ==
  IF s.queues[p] + 1 > blockLimit \/ TooFar(b.number) THEN forgetHash(s, b)
  ELSE IF AlreadyQueued(s, b) THEN s
  ELSE [s EXCEPT !.queues[p] = @ + 1, !.queued[b] = p, !.queue = @ \cup {[origin |-> p, block |-> b]}]

rescheduleFetch(s) == [s EXCEPT !.fetchTimer = @ \/ Announced(s) # {}]
rescheduleComplete(s) == [s EXCEPT !.completeTimer = @ \/ Fetched(s) # {}]

-----------------------------------------------------------------------------
(* The top of the loop, run after every event: expired fetches are          *)
(* forgotten, then the queue is worked off from its lowest block number.    *)

\* Blocks that are too high stay queued.
Fits(s) == {op \in s.queue : op.block.number <= height + 1}
Outdated(b) == b.number + maxUncleDist < height \/ getBlock(b)
Started(s) == {op \in Fits(s) : ~Outdated(op.block)}

WorkedOff(s) ==
  forgetBlocks([s EXCEPT !.queue = @ \ Fits(s)], {op.block : op \in Fits(s) \ Started(s)})

Loop(s) ==
  \E expired \in SUBSET Fetching(s) :
    /\ f' = WorkedOff(forgetHashes(s, expired))
    /\ importing' = importing \o SetToSeq(Started(forgetHashes(s, expired)))

Outside == <<chain, doneCh, dropped, liars>>
Budget == <<announcesLeft, injectsLeft, answersLeft>>

-----------------------------------------------------------------------------
(* Events of the loop                                                       *)

\* Slip: the first announcement does not arm the timer.
ScheduledUnarmed(s, p, b, n) ==
  [s EXCEPT !.announces[p] = @ + 1, !.announced[b] = Append(@, [origin |-> p, number |-> n, header |-> FALSE])]

\* An accepted announcement; the first one arms the timer.
Scheduled(s, p, b, n) ==
  LET t == [s EXCEPT !.announces[p] = @ + 1,
                     !.announced[b] = Append(@, [origin |-> p, number |-> n, header |-> FALSE])]
  IN  IF Cardinality(Announced(t)) = 1 THEN rescheduleFetch(t) ELSE t

Notify(p, b, n) ==
  /\ announcesLeft > 0 /\ announcesLeft' = announcesLeft - 1
  /\ LET ignored == \/ f.announces[p] + 1 > hashLimit
                    \/ n > 0 /\ TooFar(n)
                    \/ b \in Fetching(f) \cup Completing(f)
     IN  Loop(IF ignored THEN f ELSE Scheduled(f, p, b, n))
  /\ liars' = IF n # b.number \/ ~b.valid THEN liars \cup {p} ELSE liars
  /\ UNCHANGED <<chain, doneCh, dropped, injectsLeft, answersLeft>>

Enqueue(p, b) ==
  /\ injectsLeft > 0 /\ injectsLeft' = injectsLeft - 1
  /\ Loop(enqueue(f, p, b))
  /\ liars' = IF b.valid THEN liars ELSE liars \cup {p}
  /\ UNCHANGED <<chain, doneCh, dropped, announcesLeft, answersLeft>>

Done(i) ==
  /\ i \in DOMAIN doneCh
  /\ Loop(forgetBlock(forgetHash(f, doneCh[i]), doneCh[i]))
  /\ doneCh' = RemoveAt(doneCh, i)
  /\ UNCHANGED <<chain, dropped, liars, Budget>>

\* The due announcements are forgotten, and one of each block, picked at random,
\* is asked for the header.
FetchTimer(due, pick) ==
  /\ f.fetchTimer /\ due \subseteq Announced(f)
  /\ \A b \in due : pick[b] \in DOMAIN f.announced[b]
  /\ LET asked == {b \in due : ~getBlock(b)}
         s     == forgetHashes([f EXCEPT !.fetchTimer = FALSE], due)
         t     == [s EXCEPT !.fetching = [b \in Blocks |->
                     IF b \in asked THEN f.announced[b][pick[b]] ELSE @[b]]]
     IN  Loop(rescheduleFetch(t))
  /\ UNCHANGED <<Outside, Budget>>

\* Every fetched header is completed, whatever its time.
CompleteTimer(pick) ==
  /\ f.completeTimer
  /\ \A b \in Fetched(f) : pick[b] \in DOMAIN f.fetched[b]
  /\ LET asked == {b \in Fetched(f) : ~getBlock(b)}
         s     == forgetHashes([f EXCEPT !.completeTimer = FALSE], Fetched(f))
         t     == [s EXCEPT !.completing = [b \in Blocks |->
                     IF b \in asked THEN f.fetched[b][pick[b]] ELSE @[b]]]
     IN  Loop(rescheduleComplete(t))
  /\ UNCHANGED <<Outside, Budget>>

Requested(s, b) ==
  /\ b \in Fetching(s) /\ b \notin Fetched(s) \cup Completing(s) /\ s.queued[b] = "none"

WithHeader(a) == [a EXCEPT !.header = TRUE]

\* A header of a requested block with the announced number: import it at once
\* if it is all there is, else schedule the body.
HeaderAccepted(s, b) ==
  LET a == WithHeader(s.fetching[b])
      t == [s EXCEPT !.fetching[b] = a, !.fetched[b] = Append(@, a)]
  IN  IF b.empty THEN enqueue([s EXCEPT !.fetching[b] = a, !.completing[b] = a], a.origin, b)
      ELSE IF Cardinality(Fetched(t)) = 1 THEN rescheduleComplete(t) ELSE t

\* FilterHeaders with one header; what was not requested is handed back.
FilterHeaders(b) ==
  /\ answersLeft > 0 /\ answersLeft' = answersLeft - 1
  /\ LET wrong == Requested(f, b) /\ f.fetching[b].number # b.number
     IN  /\ Loop(IF ~Requested(f, b) THEN f
                 ELSE IF wrong \/ getBlock(b) THEN forgetHash(f, b) ELSE HeaderAccepted(f, b))
         /\ dropped' = IF wrong THEN dropped \cup {f.fetching[b].origin} ELSE dropped
  /\ UNCHANGED <<chain, doneCh, liars, announcesLeft, injectsLeft>>

\* FilterBodies with one body: it is compared with every announce that is being
\* completed and not queued.
FilterBodies(b) ==
  /\ ~b.empty /\ answersLeft > 0 /\ answersLeft' = answersLeft - 1
  /\ LET matched == b \in Completing(f) /\ f.queued[b] = "none"
     IN  Loop(IF ~matched THEN f
              ELSE IF getBlock(b) THEN forgetHash(f, b)
              ELSE enqueue(f, f.completing[b].origin, b))
  /\ UNCHANGED <<Outside, announcesLeft, injectsLeft>>

-----------------------------------------------------------------------------
(* The import goroutine, from its start to its send on done, and the rest   *)
(* of the client                                                            *)

Import(i) ==
  /\ i \in DOMAIN importing
  /\ LET op == importing[i]
         known == op.block.parent = "genesis" \/ \E c \in chain : c.id = op.block.parent
     IN  /\ chain' = IF known /\ op.block.valid THEN chain \cup {op.block} ELSE chain
         /\ dropped' = IF known /\ ~op.block.valid THEN dropped \cup {op.origin} ELSE dropped
         /\ doneCh' = Append(doneCh, op.block)
  /\ importing' = RemoveAt(importing, i)
  /\ UNCHANGED <<f, liars, Budget>>

\* The downloader imports a block.
OtherImport(b) ==
  /\ b \notin chain /\ b.valid /\ injectsLeft > 0 /\ injectsLeft' = injectsLeft - 1
  /\ b.parent = "genesis" \/ \E c \in chain : c.id = b.parent
  /\ chain' = chain \cup {b}
  /\ UNCHANGED <<f, importing, doneCh, dropped, liars, announcesLeft, answersLeft>>

-----------------------------------------------------------------------------

FetcherInit ==
  /\ f = New /\ chain = {Genesis} /\ importing = <<>> /\ doneCh = <<>>
  /\ dropped = {} /\ liars = {}
  /\ announcesLeft = MaxAnnounces /\ injectsLeft = MaxInjects /\ answersLeft = MaxAnswers

Picks == [Blocks -> 1 .. MaxAnnounces]
AnyDone == \E i \in 1 .. Len(doneCh) : Done(i)
AnyImport == \E i \in 1 .. Len(importing) : Import(i)
Due(b) == \E due \in SUBSET Blocks, pick \in Picks : b \in due /\ FetchTimer(due, pick)
Complete == \E pick \in Picks : CompleteTimer(pick)

FetcherNext ==
  \/ \E p \in Origins, b \in Blocks : Enqueue(p, b) \/ \E n \in Numbers : Notify(p, b, n)
  \/ \E due \in SUBSET Blocks, pick \in Picks : FetchTimer(due, pick)
  \/ Complete \/ AnyDone \/ AnyImport
  \/ \E b \in Blocks : FilterHeaders(b) \/ FilterBodies(b) \/ OtherImport(b)

\* The runtime schedules the loop and the import goroutines, and timers fire.
Fairness ==
  /\ \A b \in Blocks : WF_fetcherVars(Due(b))
  /\ WF_fetcherVars(Complete) /\ WF_fetcherVars(AnyDone) /\ WF_fetcherVars(AnyImport)

FetcherSpec == FetcherInit /\ [][FetcherNext]_fetcherVars /\ Fairness

-----------------------------------------------------------------------------
(* Properties *)

\* A timer runs whenever something waits for it: announcements for the fetch
\* timer, fetched headers for the completion timer (rescheduleFetch and
\* rescheduleComplete are called only at some of the places that add entries).
TimersRun ==
  /\ Announced(f) # {} => f.fetchTimer
  /\ Fetched(f) # {} => f.completeTimer

\* No block is imported by two goroutines at a time, and a queued block counts
\* against the peer that sent it until its import is done (enqueue, forgetBlock).
ImportsAreCounted ==
  /\ \A i, j \in DOMAIN importing : importing[i].block = importing[j].block => i = j
  /\ \A p \in Origins : f.queues[p] = Cardinality({b \in Blocks : f.queued[b] = p})
  /\ \A i \in DOMAIN importing : f.queued[importing[i].block] = importing[i].origin

\* The body filter reads the header of everything that is being completed.
CompletingHasHeader == \A b \in Completing(f) : f.completing[b].header

\* A peer is dropped only for a wrong number or an invalid block it sent itself.
DropsOnlyLiars == dropped \subseteq liars

\* A timer runs whenever something waits for it, each queued block counts against the
\* peer that sent it until its one import ends, what is being completed has a header,
\* and only liars are dropped.
FetcherIsConsistent == TimersRun /\ ImportsAreCounted /\ CompletingHasHeader /\ DropsOnlyLiars

-----------------------------------------------------------------------------
(* What comments of the code say and the code does not keep: the README has  *)
(* the behaviours.  No run checks these.                                     *)

\* Statement of the field comment of announces: it counts what a peer has
\* announced and the fetcher still tracks.
AnnouncesAreCounted ==
  \A p \in Origins : f.announces[p] >= Cardinality({b \in Announced(f) : \E i \in DOMAIN f.announced[b] : f.announced[b][i].origin = p})

\* Statement of the comment on fetchTimeout: a request that is not answered is
\* given up after that time.
RequestsExpire == \A b \in Blocks : b \in Completing(f) ~> b \notin Completing(f)
=============================================================================
