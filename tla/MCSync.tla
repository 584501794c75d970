------------------------------- MODULE MCSync --------------------------------
(***************************************************************************)
(* How the host client follows the chain, in parts that share no state:     *)
(* single announced blocks (Fetcher), the headers of a long stretch         *)
(* (Skeleton), the bodies that belong to them (DownloadQueue), and the      *)
(* peers to ask for all these (PeerServer).  A behaviour takes the steps of *)
(* one part; the others rest in their initial state.                        *)
(***************************************************************************)
EXTENDS Skeleton, Fetcher, DownloadQueue

VARIABLES part,
  dialstate, running, queued, taskdone, stale, late, waitOver, conns, peerOf, slots,  \* PeerServer
  listening, loop, stop, calls

serverVars == <<dialstate, running, queued, taskdone, stale, late, waitOver, conns, peerOf, slots,
                listening, loop, stop, calls>>

-----------------------------------------------------------------------------
(* A block with a body and its empty child, announced and sent by two peers. *)

Block(id, n, parent, empty) == [id |-> id, number |-> n, parent |-> parent, empty |-> empty, valid |-> TRUE]

MCBlocks == {Block("a", 1, "genesis", FALSE), Block("b", 2, "a", TRUE)}
MCGenesis == Block("genesis", 0, "none", TRUE)

-----------------------------------------------------------------------------
(* Bodies of four blocks, one of them empty, with a cache of three; and      *)
(* bodies and receipts of three up to a pivot, with one block to verify it.  *)

MCSyncs == {[fast |-> FALSE, pivot |-> 0, head |-> 4], [fast |-> TRUE, pivot |-> 2, head |-> 3]}

-----------------------------------------------------------------------------
(* A static and a trusted node with one place for a peer: connections in     *)
(* both directions race, while nodes are added and removed, or Stop is      *)
(* called.  We are not in our own NetRestrict.                              *)

ServerNodes == {"a", "b", "me"}
DialerNodes == {"a", "b", "c", "me"}

Server == INSTANCE PeerServer
  WITH Nodes <- ServerNodes, Self <- "me", Allowed <- {"a", "b"}, Static <- {"a"},
       Trusted <- {"b"}, Bootnodes <- <<>>, Lookups <- {<<>>}, RandomReads <- {<<>>}, maxDynDials <- 0,
       maxActiveDialTasks <- 1, MaxPeers <- 1, MaxPendingPeers <- 1, MayStop <- FALSE,
       Conns <- {1, 2}, MaxCalls <- 1

Ended == INSTANCE PeerServer
  WITH Nodes <- ServerNodes, Self <- "me", Allowed <- {"a", "b"}, Static <- {"a"},
       Trusted <- {"b"}, Bootnodes <- <<>>, Lookups <- {<<>>}, RandomReads <- {<<>>}, maxDynDials <- 0,
       maxActiveDialTasks <- 1, MaxPeers <- 1, MaxPendingPeers <- 1, MayStop <- TRUE,
       Conns <- {1, 2}, MaxCalls <- 0

\* Dynamic dials from a bootnode, random nodes and lookups: three nodes for two places.
Dialer == INSTANCE PeerServer
  WITH Nodes <- DialerNodes, Self <- "me", Allowed <- DialerNodes, Static <- {},
       Trusted <- {}, Bootnodes <- <<"a">>, Lookups <- {<<>>, <<"a", "c">>}, RandomReads <- {<<"b">>},
       maxDynDials <- 2, maxActiveDialTasks <- 2, MaxPeers <- 2, MaxPendingPeers <- 0, MayStop <- FALSE,
       Conns <- {1, 2}, MaxCalls <- 0

ASSUME Server!ServerConstants /\ Ended!ServerConstants /\ Dialer!ServerConstants

-----------------------------------------------------------------------------

Init ==
  /\ part \in {"fetcher", "queue", "skeleton", "server", "ended", "dialer"}
  /\ FetcherInit /\ SkeletonInit /\ QueueInit
  /\ sync.fast => part = "queue"
  /\ IF part = "dialer" THEN Dialer!Init ELSE Server!Init

Next ==
  /\ UNCHANGED part
  /\ \/ part = "fetcher" /\ FetcherNext /\ UNCHANGED <<queueVars, skeletonVars, serverVars>>
     \/ part = "queue" /\ QueueNext /\ UNCHANGED <<fetcherVars, skeletonVars, serverVars>>
     \/ part = "skeleton" /\ SkeletonNext /\ UNCHANGED <<fetcherVars, queueVars, serverVars>>
     \/ /\ \/ part = "server" /\ Server!Next
           \/ part = "ended" /\ Ended!Next
           \/ part = "dialer" /\ Dialer!Next
        /\ UNCHANGED <<fetcherVars, queueVars, skeletonVars>>

vars == <<part, fetcherVars, queueVars, skeletonVars, serverVars>>

\* The fairness of Skeleton and of PeerServer.
Spec ==
  /\ Init /\ [][Next]_vars
  /\ WF_skeletonVars(part = "skeleton" /\ Step)
  /\ WF_serverVars(part = "ended" /\ Ended!Stopping)

-----------------------------------------------------------------------------
(* Properties of the parts; ForwardedInOrder and FillEnds are those of       *)
(* Skeleton, FetcherIsConsistent that of Fetcher, EachPartOnce that of       *)
(* DownloadQueue.                                                           *)

\* Whatever races through the handshakes, each running peer is known under its ID,
\* peers, dials and slots stay within their limits, the loop is woken while it wants
\* to dial, and a Stop that meets no connection being set up returns (PeerServer).
PeersAreKnown ==
  /\ [](part \in {"server", "ended"} =>
          /\ Server!TypeOK /\ Server!PeersAreKnown /\ Server!DialsAreBounded
          /\ Server!KeepsTicking /\ Server!SlotsAreReturned)
  /\ [](part = "dialer" => /\ Dialer!TypeOK /\ Dialer!PeersAreKnown /\ Dialer!DialsAreBounded
                           /\ Dialer!KeepsTicking /\ Dialer!SlotsAreReturned)
  /\ Ended!QuietStopReturns
=============================================================================
