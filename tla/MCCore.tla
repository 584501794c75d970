------------------------------- MODULE MCCore --------------------------------
(***************************************************************************)
(* The core of the host client, in parts that share no state: the account   *)
(* state (StateDB), the transaction pool (TxPool), the chain database       *)
(* (BlockChain) and proof of authority (Clique).  A behaviour takes the      *)
(* steps of one part, or of one instance of a part; the others rest in      *)
(* their initial state.                                                     *)
(***************************************************************************)
EXTENDS Clique, StateDB, BlockChain

VARIABLES part,
  p, mined, gasLimit, headEvent, removedTxs, calls, act                    \* TxPool

poolVars == <<p, mined, gasLimit, headEvent, removedTxs, calls, act>>

-----------------------------------------------------------------------------
(* An ordinary account with a balance and a stored value, or an account that *)
(* is empty in the trie, exempted from the undoing of a touch or not.       *)

MCAlloc == [a \in {"acc"} |->
  [NoAccount EXCEPT !.exists = TRUE, !.balance = 1, !.storage = [k \in {"k"} |-> 1]]]

EmptyAlloc == [a \in {"acc"} |-> [NoAccount EXCEPT !.exists = TRUE]]

Exempted == INSTANCE StateDB
  WITH Ripemd <- "acc", Preimages <- {"h"}, Alloc <- EmptyAlloc,
       MaxOps <- 2, MaxSnapshots <- 1, MaxEpochs <- 1

Touched == INSTANCE StateDB
  WITH Ripemd <- "none", Preimages <- {}, Alloc <- EmptyAlloc,
       MaxOps <- 3, MaxSnapshots <- 1, MaxEpochs <- 1

-----------------------------------------------------------------------------
(* Two versions of the first nonce of a1, a run of three, and two            *)
(* transactions of a2; one is too costly once another was paid for, one     *)
(* needs the higher gas limit.  Blocks are replaced or not.                 *)

Tx(a, n, pr, c, g) == [from |-> a, nonce |-> n, price |-> pr, cost |-> c, gas |-> g]
PoolTxs == {Tx("a1", 0, 10, 1, 1), Tx("a1", 0, 20, 2, 1), Tx("a1", 1, 15, 3, 1), Tx("a1", 2, 30, 1, 2),
            Tx("a2", 0, 12, 1, 1), Tx("a2", 1, 25, 1, 1)}
PoolBatches == {<<t>> : t \in PoolTxs} \cup {<<Tx("a1", 1, 15, 3, 1), Tx("a1", 0, 10, 1, 1)>>}

PoolFunds == [a \in {"a1", "a2"} |-> 4]

Pool == INSTANCE TxPool
  WITH ops <- calls, Addrs <- {"a1", "a2"}, Txs <- PoolTxs, Funds <- PoolFunds, GasLimits <- {1, 2},
       PriceLimit <- 1, PriceBump <- 10, AccountSlots <- 1, GlobalSlots <- 2, AccountQueue <- 2,
       GlobalQueue <- 1, Prices <- {11, 22}, Batches <- PoolBatches, Reorgs <- FALSE,
       MaxBlocks <- 1, MaxOps <- 3

Reorgs == INSTANCE TxPool
  WITH ops <- calls, Addrs <- {"a1", "a2"}, Txs <- PoolTxs, Funds <- PoolFunds, GasLimits <- {1, 2},
       PriceLimit <- 1, PriceBump <- 10, AccountSlots <- 1, GlobalSlots <- 2, AccountQueue <- 2,
       GlobalQueue <- 1, Prices <- {11, 22}, Batches <- PoolBatches, Reorgs <- TRUE,
       MaxBlocks <- 1, MaxOps <- 3

ASSUME Pool!DistinctPrices /\ Pool!SlotsArePositive

-----------------------------------------------------------------------------
(* Two forks from the genesis block, a1 a2 and b1 b2 b3, whose blocks weigh  *)
(* the same; t1 is in both forks, t2 and t3 in one each.                    *)

Tree == {"g", "a1", "a2", "b1", "b2", "b3"}
TreeParent == [b \in Tree |-> CASE b = "a2" -> "a1" [] b = "b2" -> "b1" [] b = "b3" -> "b2" [] OTHER -> "g"]
TreeNumber == [b \in Tree |-> CASE b = "g" -> 0 [] b \in {"a1", "b1"} -> 1 [] b \in {"a2", "b2"} -> 2 [] OTHER -> 3]
Equal == [b \in Tree |-> 1]
TreeTxs == [b \in Tree |-> CASE b = "a1" -> {"t1"} [] b = "a2" -> {"t2"} [] b = "b2" -> {"t1", "t3"} [] OTHER -> {}]

\* BlockChain itself: importer and miner write concurrently and the chain is rewound.

\* Both forks and one rewind, with a crash between any two writes and a restart.
Crashing == INSTANCE BlockChain
  WITH Blocks <- Tree, GenesisBlock <- "g", Parent <- TreeParent, Number <- TreeNumber,
       Difficulty <- Equal, Txs <- TreeTxs, Mined <- {}, FastSync <- FALSE, MaxRewinds <- 1,
       MaxCrashes <- 1

\* Headers and receipts of both forks first, a pivot, full import, and rollbacks before
\* and after the pivot.
Fast == INSTANCE BlockChain
  WITH Blocks <- Tree, GenesisBlock <- "g", Parent <- TreeParent, Number <- TreeNumber, Difficulty <- Equal,
       Txs <- TreeTxs, Mined <- {}, FastSync <- TRUE, MaxRewinds <- 0, MaxCrashes <- 0

ASSUME ChainConstants /\ Crashing!ChainConstants /\ Fast!ChainConstants

-----------------------------------------------------------------------------
(* Proof of authority: three signers, one of whom may be voted out and a     *)
(* fourth in.                                                               *)

Parts == {"state", "ripemd", "touched", "pool", "reorgs", "chain", "crash", "fast", "clique"}

Init ==
  /\ part \in Parts
  /\ CASE part = "ripemd" -> Exempted!StateInit [] part = "touched" -> Touched!StateInit [] OTHER -> StateInit
  /\ Pool!Init /\ (part \notin {"pool", "reorgs"} => gasLimit = 1)
  /\ CliqueInit
  /\ CASE part = "crash" -> Crashing!ChainInit [] part = "fast" -> Fast!ChainInit [] OTHER -> ChainInit

Next ==
  /\ UNCHANGED part
  /\ \/ /\ \/ part = "state" /\ StateNext
           \/ part = "ripemd" /\ Exempted!StateNext
           \/ part = "touched" /\ Touched!StateNext
        /\ UNCHANGED <<poolVars, chainVars, cliqueVars>>
     \/ /\ \/ part = "pool" /\ Pool!Next
           \/ part = "reorgs" /\ Reorgs!Next
        /\ UNCHANGED <<stateVars, chainVars, cliqueVars>>
     \/ /\ \/ part = "chain" /\ ChainNext
           \/ part = "crash" /\ Crashing!ChainNext
           \/ part = "fast" /\ Fast!ChainNext
        /\ UNCHANGED <<stateVars, poolVars, cliqueVars>>
     \/ /\ part = "clique" /\ CliqueNext
        /\ UNCHANGED <<stateVars, poolVars, chainVars>>

vars == <<part, stateVars, poolVars, chainVars, cliqueVars>>

Spec == Init /\ [][Next]_vars

-----------------------------------------------------------------------------
(* Properties of the parts; MajorityRules is that of Clique, RevertsExactly   *)
(* and CommitPersistsView are those of StateDB, CanonicalIsAncestry and      *)
(* HeadIsComplete those of BlockChain.                                      *)

\* Lists, caps and managed nonces stay in step: one version of a nonce, caps that
\* cover their lists and, while no block is replaced, pending transactions that are a
\* gapless run nothing queued could continue.  A local transaction leaves the pool only
\* for the reasons that apply to it, and a restart brings it back; a reset leaves the
\* pool payable and within its limits (TxPool).
PoolIsConsistent ==
  /\ [](part \in {"pool", "reorgs"} => Pool!OneVersionEach /\ Pool!CapsCover)
  /\ [](part = "pool" => Pool!PendingIsRun)
  /\ Pool!LocalsAreKept /\ Pool!JournalSurvives /\ Pool!ResetSettles
=============================================================================
