----------------------------- MODULE PeerServer ------------------------------
(***************************************************************************)
(* The peer server of the host client (p2p/server.go, p2p/dial.go): the     *)
(* loop of Server.run with its dialer, the dial tasks, the listener with    *)
(* its slots, the goroutines that set connections up in two handshakes and  *)
(* run the peers, and Stop.                                                 *)
(*                                                                         *)
(* A handler of the loop and the scheduleTasks that follows it are one      *)
(* step; the handshake checks answer over an unbuffered channel, which is   *)
(* a step of its own.  The lock of the server is held by Stop alone for     *)
(* longer than a step.  Time is the order in which history entries expire.  *)
(* Resolving an endpoint changes no ID: its throttle and its result decide  *)
(* only whether a dial task connects.  Messages of a peer, metrics, Peers   *)
(* and PeerCount are left out.                                              *)
(***************************************************************************)
EXTENDS Integers, Sequences, FiniteSets, FiniteSetsExt, SequencesExt

CONSTANTS
  Nodes, Self,            \* node IDs; our own
  Allowed,                \* nodes inside NetRestrict
  Static, Trusted,        \* configured nodes
  Bootnodes,              \* sequence of the configured bootnodes
  Lookups,                \* results a lookup may have
  RandomReads,            \* results ReadRandomNodes may have
  maxDynDials, maxActiveDialTasks, MaxPeers, MaxPendingPeers,
  MayStop,                \* whether Stop is called
  Conns,                  \* connections at a time
  MaxCalls                \* bound on AddPeer and RemovePeer

VARIABLES
  dialstate,              \* of the dialer
  running, queued,        \* runningTasks, queuedTasks
  taskdone,               \* running tasks whose end is in the channel
  stale, late, waitOver,  \* expired history entries; fallbackInterval, waitExpireTask over
  conns, peerOf,          \* connections; peers of the loop: node -> connection or 0
  loop,                   \* where run is, and the connection it serves
  slots, listening,       \* of listenLoop
  stop,                   \* Stop: "no", "stopping" (holds the lock, quit is closed), "stopped"
  calls

dialVars == <<dialstate, running, queued, taskdone, stale, late, waitOver>>
connVars == <<conns, peerOf, slots, listening>>
vars == <<dialVars, connVars, loop, stop, calls>>

ServerConstants ==
  /\ IsFiniteSet(Nodes) /\ Self \in Nodes /\ Static \subseteq Nodes
  /\ Bootnodes \in Seq(Nodes) /\ \A ns \in Lookups \cup RandomReads : ns \in Seq(Nodes)
  /\ IsFiniteSet(Conns) /\ Conns \subseteq Nat \ {0}
  /\ {maxDynDials, maxActiveDialTasks, MaxPeers, MaxPendingPeers} \subseteq Nat /\ maxActiveDialTasks > 0

-----------------------------------------------------------------------------
(* Connections.  setup is where setupConn is, run where runPeer is.         *)

Free == [setup |-> "none", run |-> "no", id |-> Self, flag |-> "inbound", trusted |-> FALSE]

Opened(n, flag) == [Free EXCEPT !.setup = "new", !.id = n, !.flag = flag]

\* A connection nobody holds on to is forgotten.
Kept(c) == IF c.setup = "end" /\ c.run \in {"no", "gone"} THEN Free ELSE c

FreeConns == {c \in Conns : conns[c] = Free}

\* The nodes in a map ps of peers
In(ps) == {n \in Nodes : ps[n] # 0}
Connected == In(peerOf)
DynPeers(ps) == {n \in In(ps) : conns[ps[n]].flag = "dyn"}

-----------------------------------------------------------------------------
(* dial.go.  A task is [kind, node]; acc is [d, need, tasks, up], where  *)
(* up are the nodes connected when the loop asks for tasks.                 *)

Task(kind, n) == [kind |-> kind, node |-> n]
IsDial(t) == t.kind \in {"dyn", "static"}

checkDial(acc, n) ==
  CASE acc.d.dialing[n] # "no"    -> "errAlreadyDialing"
    [] n \in acc.up              -> "errAlreadyConnected"
    [] n = Self                  -> "errSelf"
    [] n \notin Allowed          -> "errNotWhitelisted"
    [] n \in Range(acc.d.hist)   -> "errRecentlyDialed"
    [] OTHER                     -> "nil"

Dialed(acc, n, flag) ==
  [acc EXCEPT !.d.dialing[n] = flag, !.tasks = Append(@, Task(flag, n))]

addDial(acc, n) ==
  IF checkDial(acc, n) # "nil" THEN acc ELSE [Dialed(acc, n, "dyn") EXCEPT !.need = @ - 1]

needDynDials(dd, ps) ==
  maxDynDials - Cardinality(DynPeers(ps)) - Cardinality({n \in Nodes : dd.dialing[n] = "dyn"})

DialStatic(acc, n) ==
  CASE checkDial(acc, n) \in {"errNotWhitelisted", "errSelf"} -> [acc EXCEPT !.d.static = @ \ {n}]
    [] checkDial(acc, n) = "nil" -> Dialed(acc, n, "static")
    [] OTHER -> acc

\* Without any peer a bootnode is tried, each in its turn.
DialBootnode(acc) ==
  IF acc.up # {} \/ acc.d.bootnodes = <<>> \/ acc.need <= 0 \/ ~late THEN acc
  ELSE addDial([acc EXCEPT !.d.bootnodes = Append(Tail(@), Head(@))], Head(acc.d.bootnodes))

\* A lookup result that is tried leaves the buffer.
DialLookup(acc, n) ==
  IF acc.need <= 0 THEN acc ELSE addDial([acc EXCEPT !.d.lookupBuf = Tail(@)], n)

\* The loops over the static nodes, what ReadRandomNodes wrote, and the lookup results
Try(what, acc, n) ==
  CASE what = "static" -> DialStatic(acc, n)
    [] what = "random" -> addDial(acc, n)
    [] what = "lookup" -> DialLookup(acc, n)

TryAll(what, acc, ns) ==
  LET after[k \in 0 .. Len(ns)] == IF k = 0 THEN acc ELSE Try(what, after[k - 1], ns[k])
  IN  after[Len(ns)]

\* Random nodes are for half of the dials.
DialRandom(acc, nodes) ==
  LET n == IF acc.need \div 2 > Len(nodes) THEN Len(nodes) ELSE acc.need \div 2
  IN  IF n <= 0 THEN acc ELSE TryAll("random", acc, SubSeq(nodes, 1, n))

Lookup(acc) ==
  IF Len(acc.d.lookupBuf) >= acc.need \/ acc.d.lookupRunning THEN acc
  ELSE [acc EXCEPT !.d.lookupRunning = TRUE, !.tasks = Append(@, Task("discover", Self))]

WaitExpire(acc, nRunning) ==
  IF nRunning # 0 \/ acc.tasks # <<>> \/ acc.d.hist = <<>> THEN acc
  ELSE [acc EXCEPT !.tasks = <<Task("wait", Self)>>]

Expired(dd) == [dd EXCEPT !.hist = SubSeq(@, stale + 1, Len(@))]

\* order is that of the map of static nodes, nodes what ReadRandomNodes wrote.
newTasks(dd, ps, nRunning, order, nodes) ==
  LET start == [d |-> Expired(dd), need |-> needDynDials(dd, ps), tasks |-> <<>>, up |-> In(ps)]
      tried == DialRandom(DialBootnode(TryAll("static", start, order)), nodes)
  IN  WaitExpire(Lookup(TryAll("lookup", tried, tried.d.lookupBuf)), nRunning)

TaskDoneIn(dd, t, results) ==
  CASE IsDial(t) -> [dd EXCEPT !.hist = Append(@, t.node), !.dialing[t.node] = "no"]
    [] t.kind = "discover" -> [dd EXCEPT !.lookupRunning = FALSE, !.lookupBuf = @ \o results]
    [] OTHER -> dd

-----------------------------------------------------------------------------
(* server.go: scheduleTasks                                                 *)

Room(run) == maxActiveDialTasks - Cardinality(run)

\* s is [run, rest]: tasks ts are started while there is room.
startTasks(s, ts) ==
  LET k == IF Room(s.run) > Len(ts) THEN Len(ts) ELSE Room(s.run)
  IN  [run |-> s.run \cup Range(SubSeq(ts, 1, k)), rest |-> s.rest \o SubSeq(ts, k + 1, Len(ts))]

scheduleTasks(dd, run, ps) ==
  \E order \in SetToSeqs(dd.static), nodes \in RandomReads :
    LET s  == startTasks([run |-> run, rest |-> <<>>], queued)
        nt == newTasks(dd, ps, Cardinality(s.run) + Len(s.rest), order, nodes)
        s2 == startTasks(s, nt.tasks)
    IN  IF Room(s.run) <= 0
        THEN dialstate' = dd /\ running' = s.run /\ queued' = s.rest /\ UNCHANGED <<stale, waitOver>>
        ELSE /\ dialstate' = nt.d /\ running' = s2.run /\ queued' = s2.rest /\ stale' = 0
             /\ waitOver' = IF Task("wait", Self) \in Range(nt.tasks) THEN FALSE ELSE waitOver

-----------------------------------------------------------------------------
(* server.go: the checks of the loop                                        *)

encHandshakeChecks(c) ==
  CASE ~c.trusted /\ c.flag # "static" /\ Cardinality(Connected) >= MaxPeers -> "DiscTooManyPeers"
    [] c.id \in Connected -> "DiscAlreadyConnected"
    [] c.id = Self        -> "DiscSelf"
    [] OTHER              -> "nil"

\* The comparison with Self() takes the lock of the server.
TakesLock(c) == encHandshakeChecks(c) \in {"DiscSelf", "nil"}

\* Slip: the second checkpoint does not repeat the first.
ProtoChecksOnly(c, useful) == IF ~useful THEN "DiscUselessPeer" ELSE "nil"

protoHandshakeChecks(c, useful) ==
  IF ~useful THEN "DiscUselessPeer" ELSE encHandshakeChecks(c)

-----------------------------------------------------------------------------
(* The loop of run                                                          *)

Init ==
  /\ dialstate = [static |-> Static, dialing |-> [n \in Nodes |-> "no"], hist |-> <<>>,
                  lookupRunning |-> FALSE, lookupBuf |-> <<>>, bootnodes |-> Bootnodes]
  /\ running = {} /\ queued = <<>> /\ taskdone = {} /\ stale = 0 /\ late = FALSE /\ waitOver = FALSE
  /\ conns = [c \in Conns |-> Free] /\ peerOf = [n \in Nodes |-> 0]
  /\ loop = [at |-> "start", c |-> 0, err |-> "nil"]
  /\ slots = MaxPendingPeers /\ listening = TRUE /\ stop = "no" /\ calls = 0

AtSelect == [at |-> "select", c |-> 0, err |-> "nil"]
Selecting == loop.at = "select"

Start ==
  /\ loop.at = "start" /\ loop' = AtSelect /\ scheduleTasks(dialstate, running, peerOf)
  /\ UNCHANGED <<taskdone, late, connVars, stop, calls>>

AddStatic(n) ==
  /\ Selecting /\ calls < MaxCalls /\ calls' = calls + 1
  /\ scheduleTasks([dialstate EXCEPT !.static = @ \cup {n}], running, peerOf)
  /\ UNCHANGED <<taskdone, late, connVars, loop, stop>>

\* Disconnect makes the peer's goroutines end.
Disconnect(cs, S) == [c \in Conns |-> IF c \in S /\ cs[c].run = "on" THEN [cs[c] EXCEPT !.run = "asked"] ELSE cs[c]]

RemoveStatic(n) ==
  /\ Selecting /\ calls < MaxCalls /\ calls' = calls + 1
  /\ conns' = Disconnect(conns, {peerOf[n]})
  /\ scheduleTasks([dialstate EXCEPT !.static = @ \ {n}], running, peerOf)
  /\ UNCHANGED <<taskdone, late, peerOf, slots, listening, loop, stop>>

TaskDone(t, results) ==
  /\ Selecting /\ t \in taskdone /\ taskdone' = taskdone \ {t}
  /\ scheduleTasks(TaskDoneIn(dialstate, t, results), running \ {t}, peerOf)
  /\ UNCHANGED <<late, connVars, loop, stop, calls>>

\* The loop asks for the lock that Stop holds, or has an answer for connection c.
Answers(c, needsLock, err) ==
  loop' = IF needsLock /\ stop = "stopping" THEN [at |-> "lock", c |-> c, err |-> "nil"]
          ELSE [at |-> "reply", c |-> c, err |-> err]

Posthandshake(c) ==
  LET known == [conns[c] EXCEPT !.trusted = conns[c].id \in Trusted, !.setup = "posted"]
  IN  /\ Selecting /\ conns[c].setup = "post"
      /\ conns' = [conns EXCEPT ![c] = known]
      /\ Answers(c, TakesLock(known), encHandshakeChecks(known))
      /\ UNCHANGED <<dialVars, peerOf, slots, listening, stop, calls>>

Addpeer(c, useful) ==
  LET err   == protoHandshakeChecks(conns[c], useful)
      stuck == useful /\ TakesLock(conns[c]) /\ stop = "stopping"
      add   == err = "nil" /\ ~stuck
  IN  /\ Selecting /\ conns[c].setup = "add"
      /\ conns' = [conns EXCEPT ![c].setup = "added", ![c].run = IF add THEN "on" ELSE @]
      /\ peerOf' = IF add THEN [peerOf EXCEPT ![conns[c].id] = c] ELSE peerOf
      /\ Answers(c, useful /\ TakesLock(conns[c]), err)
      /\ UNCHANGED <<dialVars, slots, listening, stop, calls>>

\* What the loop does with a peerDrop.
Delpeer(c) ==
  /\ conns[c].run = "left" /\ conns' = [conns EXCEPT ![c] = Kept([@ EXCEPT !.run = "gone"])]
  /\ peerOf' = [peerOf EXCEPT ![conns[c].id] = 0]

DropPeer(c) ==
  /\ Selecting /\ Delpeer(c) /\ scheduleTasks(dialstate, running, peerOf')
  /\ UNCHANGED <<taskdone, late, slots, listening, loop, stop, calls>>

\* The loop is left: all peers are asked to go, and waited for.
Quit ==
  /\ Selecting /\ stop # "no" /\ loop' = [AtSelect EXCEPT !.at = "spindown"]
  /\ conns' = Disconnect(conns, Conns)
  /\ UNCHANGED <<dialVars, peerOf, slots, listening, stop, calls>>

SpinDown(c) ==
  /\ loop.at = "spindown" /\ Delpeer(c)
  /\ UNCHANGED <<dialVars, slots, listening, loop, stop, calls>>

RunEnds ==
  /\ loop.at = "spindown" /\ Connected = {} /\ loop' = [AtSelect EXCEPT !.at = "ended"]
  /\ UNCHANGED <<dialVars, connVars, stop, calls>>

-----------------------------------------------------------------------------
(* setupConn, for dial tasks and the listener                               *)

\* setupConn returns: the dial task is done, or the slot is given back.
SetupEnds(c) ==
  /\ conns' = [conns EXCEPT ![c] = Kept([@ EXCEPT !.setup = "end"])]
  /\ taskdone' = IF conns[c].flag = "inbound" THEN taskdone
                 ELSE taskdone \cup {Task(conns[c].flag, conns[c].id)}
  /\ slots' = IF conns[c].flag = "inbound" THEN slots + 1 ELSE slots
  /\ UNCHANGED <<dialstate, running, queued, stale, late, waitOver, peerOf, listening, stop, calls>>

MovesTo(c, stage) ==
  /\ conns' = [conns EXCEPT ![c].setup = stage]
  /\ UNCHANGED <<dialVars, peerOf, slots, listening, stop, calls>>

\* It first takes the lock to see whether the server runs.
EntersSetup(c) ==
  /\ conns[c].setup = "new" /\ stop # "stopping" /\ UNCHANGED loop
  /\ IF stop = "no" THEN MovesTo(c, "enc") ELSE SetupEnds(c)

\* A handshake succeeds, or fails: an error, or another identity than expected.
Handshake(c) ==
  /\ UNCHANGED loop
  /\ \/ conns[c].setup = "enc" /\ MovesTo(c, "post")
     \/ conns[c].setup = "proto" /\ MovesTo(c, "add")
     \/ conns[c].setup \in {"enc", "proto"} /\ SetupEnds(c)

\* The answer of the loop to a checkpoint, which then starts over.
Reply(c) ==
  /\ loop.at = "reply" /\ loop.c = c /\ conns[c].setup \in {"posted", "added"}
  /\ loop' = [loop EXCEPT !.at = "start", !.c = 0, !.err = "nil"]
  /\ IF loop.err = "nil" /\ conns[c].setup = "posted" THEN MovesTo(c, "proto") ELSE SetupEnds(c)

\* A checkpoint gives up when quit is closed.
CheckpointQuits(c) ==
  /\ stop # "no" /\ conns[c].setup \in {"post", "posted", "add", "added"}
  /\ SetupEnds(c) /\ UNCHANGED loop

\* runPeer: the peer's goroutines end for whatever reason.
PeerEnds(c) ==
  /\ conns[c].run \in {"on", "asked"} /\ conns' = [conns EXCEPT ![c].run = "left"]
  /\ UNCHANGED <<dialVars, peerOf, slots, listening, loop, stop, calls>>

-----------------------------------------------------------------------------
(* Tasks, listener, time and Stop                                           *)

Unserved(t) ==
  /\ t \in running \ taskdone
  /\ \A c \in Conns : ~(conns[c].setup \notin {"none", "end"} /\ conns[c].flag = t.kind /\ conns[c].id = t.node)

\* dialTask.Do: a connection at once or after resolving, or none.
Dial(t) ==
  /\ IsDial(t) /\ Unserved(t) /\ FreeConns # {}
  /\ conns' = [conns EXCEPT ![Min(FreeConns)] = Opened(t.node, t.kind)]
  /\ UNCHANGED <<dialVars, peerOf, slots, listening, loop, stop, calls>>

TaskEnds(t) ==
  /\ Unserved(t) /\ (t.kind = "wait" => waitOver) /\ taskdone' = taskdone \cup {t}
  /\ UNCHANGED <<dialstate, running, queued, stale, late, waitOver, connVars, loop, stop, calls>>

\* listenLoop; a connection from outside NetRestrict gives its slot back at once.
Accept(n) ==
  /\ listening /\ slots > 0 /\ stop = "no" /\ FreeConns # {}
  /\ IF n \in Allowed
     THEN conns' = [conns EXCEPT ![Min(FreeConns)] = Opened(n, "inbound")] /\ slots' = slots - 1
     ELSE UNCHANGED <<conns, slots>>
  /\ UNCHANGED <<dialVars, peerOf, listening, loop, stop, calls>>

\* listenLoop gets a slot and finds the listener closed.
ListenEnds ==
  /\ listening /\ slots > 0 /\ stop # "no" /\ listening' = FALSE
  /\ UNCHANGED <<dialVars, conns, peerOf, slots, loop, stop, calls>>

\* The oldest entry of the history expires; a waitExpireTask slept for it.
HistoryExpires ==
  /\ stale < Len(dialstate.hist) /\ stale' = stale + 1 /\ waitOver' = TRUE
  /\ UNCHANGED <<dialstate, running, queued, taskdone, late, connVars, loop, stop, calls>>

FallbackInterval ==
  /\ Bootnodes # <<>> /\ ~late /\ late' = TRUE
  /\ UNCHANGED <<dialstate, running, queued, taskdone, stale, waitOver, connVars, loop, stop, calls>>

Stop ==
  /\ MayStop /\ stop = "no" /\ stop' = "stopping"
  /\ UNCHANGED <<dialVars, connVars, loop, calls>>

StopReturns ==
  /\ stop = "stopping" /\ loop.at = "ended" /\ ~listening /\ stop' = "stopped"
  /\ UNCHANGED <<dialVars, connVars, loop, calls>>

RunLoop ==
  \/ Start
  \/ \E n \in Nodes : AddStatic(n) \/ RemoveStatic(n)
  \/ \E t \in taskdone : \E results \in (IF t.kind = "discover" THEN Lookups ELSE {<<>>}) : TaskDone(t, results)
  \/ \E c \in Conns : Posthandshake(c) \/ DropPeer(c) \/ \E useful \in BOOLEAN : Addpeer(c, useful)

Ending == Quit \/ RunEnds \/ ListenEnds \/ StopReturns \/ \E c \in Conns : SpinDown(c)

Setup == \E c \in Conns : EntersSetup(c) \/ Handshake(c) \/ Reply(c) \/ CheckpointQuits(c) \/ PeerEnds(c)

Surroundings ==
  \/ \E t \in running : Dial(t) \/ TaskEnds(t)
  \/ \E n \in Nodes : Accept(n)
  \/ HistoryExpires \/ FallbackInterval \/ Stop

Next == RunLoop \/ Ending \/ Setup \/ Surroundings

\* What ends the server: its goroutines go on, and a peer that was asked to leave does.
Stopping == Ending \/ \E c \in Conns : conns[c].run = "asked" /\ PeerEnds(c)

Spec == Init /\ [][Next]_vars /\ WF_vars(Stopping)

-----------------------------------------------------------------------------
(* Properties                                                               *)

\* The state of the server is of the expected shape.
TypeOK ==
  /\ running \subseteq [kind : {"dyn", "static", "discover", "wait"}, node : Nodes]
  /\ taskdone \subseteq running /\ Range(queued) \cap running = {}
  /\ peerOf \in [Nodes -> Conns \cup {0}] /\ stale \in 0 .. Len(dialstate.hist)
  /\ loop.at \in {"start", "select", "reply", "lock", "spindown", "ended"}

\* However connections to and from a node race through the two handshakes, each
\* running peer is the one the loop knows under its ID, none runs once the loop has
\* ended, and only static and trusted peers exceed MaxPeers (addpeer, delpeer).
PeersAreKnown ==
  /\ \A c \in Conns : conns[c].run \in {"on", "asked", "left"} => peerOf[conns[c].id] = c
  /\ \A n \in Connected : conns[peerOf[n]].id = n /\ conns[peerOf[n]].run \in {"on", "asked", "left"}
  /\ Cardinality({n \in Connected : conns[peerOf[n]].flag # "static" /\ ~conns[peerOf[n]].trusted}) <= MaxPeers
  /\ loop.at = "ended" => \A c \in Conns : conns[c].run \in {"no", "gone"}

\* The nodes marked as being dialled are those of the tasks that run or wait, each
\* once; at most maxDynDials nodes are dialled or connected dynamically
\* (newTasks, taskDone, startTasks).
DialsAreBounded ==
  /\ \A n \in Nodes : Cardinality({t \in running : IsDial(t) /\ t.node = n})
                         + Cardinality({i \in DOMAIN queued : IsDial(queued[i]) /\ queued[i].node = n})
                       = (IF dialstate.dialing[n] = "no" THEN 0 ELSE 1)
  /\ Cardinality(running) <= maxActiveDialTasks
  /\ Cardinality(DynPeers(peerOf) \cup {n \in Nodes : dialstate.dialing[n] = "dyn"}) <= maxDynDials

\* While the loop waits and a static node is not connected, or dynamic dials are
\* wanted, some task runs whose end makes the loop look again (the comment on the
\* waitExpireTask in newTasks).
KeepsTicking ==
  loop.at = "select" /\ (dialstate.static \ Connected # {} \/ needDynDials(dialstate, peerOf) > 0) => running # {}

\* Every slot for inbound handshakes is free or held by a connection that is being
\* set up (listenLoop).
SlotsAreReturned ==
  slots + Cardinality({c \in Conns : conns[c].flag = "inbound" /\ conns[c].setup \notin {"none", "end"}})
    = MaxPendingPeers

\* If no connection is being set up when Stop is called, it returns: the peers are
\* asked to go and waited for, and the listener finds a slot (Stop, run, listenLoop).
QuietStopReturns ==
  (/\ stop = "stopping" /\ Selecting
   /\ \A c \in Conns : conns[c].setup \in {"none", "end"}) ~> stop = "stopped"

-----------------------------------------------------------------------------
(* What a comment of the code says and the code does not keep: the README    *)
(* has the behaviours.  No run checks this.                                  *)

\* Statement of the comment on Stop: it terminates the server.
StopTerminates == stop = "stopping" ~> stop = "stopped"
=============================================================================
