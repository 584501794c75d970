----------------------------- MODULE BlockChain ------------------------------
(***************************************************************************)
(* The chain database of a node and the heads it keeps in memory            *)
(* (core/blockchain.go, core/headerchain.go): blocks imported and mined     *)
(* concurrently, reorganisations, rewinding, the header and receipt import  *)
(* of a fast sync, and the process dying between two writes.                *)
(*                                                                         *)
(* An operation under the mutex is a list of database writes; they reach    *)
(* the database one by one, and the heads in memory change with the last.   *)
(* Blocks are valid; the caches hold what the database holds.               *)
(***************************************************************************)
EXTENDS Integers, Sequences, FiniteSets, SequencesExt, FiniteSetsExt

CONSTANTS
  Blocks, GenesisBlock, Parent, Number, Difficulty,
  Txs,                 \* block -> its transactions
  Mined,               \* blocks the local miner finds
  FastSync,            \* the node starts with a fast sync
  MaxRewinds, MaxCrashes

Heights == {Number[b] : b \in Blocks}
AllTxs  == UNION {Txs[b] : b \in Blocks}
none    == "none"

\* A finite tree of blocks, numbered from its root
ChainConstants ==
  /\ IsFiniteSet(Blocks) /\ none \notin Blocks
  /\ GenesisBlock \in Blocks /\ Number[GenesisBlock] = 0
  /\ \A b \in Blocks : Number[b] \in Nat /\ IsFiniteSet(Txs[b])
  /\ \A b \in Blocks \ {GenesisBlock} : Parent[b] \in Blocks /\ Number[b] = Number[Parent[b]] + 1

VARIABLES
  chainDb,     \* the database
  mem,         \* currentBlock, currentHeader, currentFastBlock
  todo, next,  \* writes still to come under the mutex, and mem after them
  owner,       \* who holds the mutex
  job,         \* "import", "mine", "fast" -> the block it works on and its stage
  up, phase,   \* "fast"; "pivot", when its pivot is the head and headers still come; "full"
  pivot,       \* the pivot of the fast sync, once it is the head block
  rewinds, crashes

chainVars == <<chainDb, mem, todo, next, owner, job, up, phase, pivot, rewinds, crashes>>

Workers == {"import", "mine", "fast"}
Idle    == [block |-> none, stage |-> "idle"]
Heads(b) == [block |-> b, header |-> b, fast |-> b]

ChainInit ==
  /\ chainDb = [hdr |-> {GenesisBlock}, body |-> {GenesisBlock}, td |-> {GenesisBlock},
                state |-> {GenesisBlock},
                canon |-> [n \in Heights |-> IF n = 0 THEN GenesisBlock ELSE none],
                headBlock |-> GenesisBlock, headHeader |-> GenesisBlock, headFast |-> GenesisBlock,
                lookup |-> [t \in AllTxs |-> none]]
  /\ mem = Heads(GenesisBlock) /\ todo = <<>> /\ next = mem /\ owner = none
  /\ job = [w \in Workers |-> Idle]
  /\ up = TRUE /\ phase = (IF FastSync THEN "fast" ELSE "full") /\ pivot = none /\ rewinds = 0 /\ crashes = 0

-----------------------------------------------------------------------------
(* Database                                                                 *)

Store(kind, b) == [op |-> "put", at |-> kind, v |-> b]
Del(kind, b)   == [op |-> "del", at |-> kind, v |-> b]
Set(kind, b)   == [op |-> "set", at |-> kind, v |-> b]
Canon(n, b)    == [op |-> "canon", at |-> n, v |-> b]
Lookup(ts, b)  == [op |-> "lookup", at |-> ts, v |-> b]

Apply(d, w) ==
  CASE w.op = "put"    -> [d EXCEPT ![w.at] = @ \cup {w.v}]
    [] w.op = "del"    -> [d EXCEPT ![w.at] = @ \ {w.v}]
    [] w.op = "set"    -> [d EXCEPT ![w.at] = w.v]
    [] w.op = "canon"  -> [d EXCEPT !.canon[w.at] = w.v]
    [] w.op = "lookup" -> [d EXCEPT !.lookup = [t \in AllTxs |-> IF t \in w.at THEN w.v ELSE @[t]]]

HasBlock(b)         == b \in chainDb.hdr /\ b \in chainDb.body
HasBlockAndState(b) == HasBlock(b) /\ b \in chainDb.state

\* A block and its ancestors, and the total difficulty they add up to.
Ancestry[b \in Blocks] == IF b = GenesisBlock THEN {b} ELSE {b} \cup Ancestry[Parent[b]]
Td                     == [b \in Blocks |-> MapThenSumSet(LAMBDA x : Difficulty[x], Ancestry[b])]

\* The elements of a set, the one with the highest key first
Sorted(S, key) ==
  CHOOSE s \in SetToSeqs(S) : \A i, j \in DOMAIN s : i < j => key[s[i]] > key[s[j]]

\* Newest first.
Descending(S) == Sorted(S, Number)

\* An operation takes the mutex with its writes and the heads that follow.
Take(who, writes, heads) ==
  /\ up /\ owner = none /\ owner' = who /\ todo' = writes /\ next' = heads

\* One write; the last one releases the mutex.
NextWrite ==
  /\ up /\ owner # none
  /\ IF todo = <<>>
     THEN owner' = none /\ mem' = next /\ UNCHANGED <<chainDb, todo>>
     ELSE chainDb' = Apply(chainDb, Head(todo)) /\ todo' = Tail(todo) /\ UNCHANGED <<owner, mem>>
  /\ UNCHANGED <<next, job, up, phase, pivot, rewinds, crashes>>

-----------------------------------------------------------------------------
(* Full blocks                                                              *)

\* insert; the header and fast heads move too if the block was not canonical.
insert(b, updateHeads) ==
  <<Canon(Number[b], b), Set("headBlock", b)>> \o
  (IF updateHeads THEN <<Set("headHeader", b), Set("headFast", b)>> ELSE <<>>)

Uncanonical(b) == chainDb.canon[Number[b]] # b

\* Transactions of the old chain that the new one does not have
dropped(old, new) == UNION {Txs[x] : x \in old} \ UNION {Txs[x] : x \in new}

\* Slip: only the new head is made canonical.
reorgChainHead(new) == SubSeq(Descending(new), 1, 1)

\* The blocks reorg inserts, in the order in which it does
reorgChain(new) == Descending(new)

\* Where the header and fast heads are left: reorg inserts the lowest block last.
lowest(S) == CHOOSE x \in S : \A y \in S : Number[x] <= Number[y]

\* reorg to b, and insert of b by its caller
reorg(b) ==
  LET new   == Ancestry[b] \ Ancestry[mem.block]
      old   == Ancestry[mem.block] \ Ancestry[b]
      chain == reorgChain(new)
      ins(i) == insert(chain[i], Uncanonical(chain[i])) \o <<Lookup(Txs[chain[i]], chain[i])>>
      moved == {x \in ToSet(chain) : Uncanonical(x)}
      gone  == SetToSeq(dropped(old, new))
  IN  [writes |-> FlattenSeq([i \in DOMAIN chain |-> ins(i)])
                  \o [i \in DOMAIN gone |-> Lookup({gone[i]}, none)]
                  \o insert(b, b \notin new /\ Uncanonical(b)),
       heads  |-> IF moved = {} THEN [mem EXCEPT !.block = b]
                  ELSE [Heads(lowest(moved)) EXCEPT !.block = b]]

\* reorg fails if a block on its way down either chain is missing.
Broken(b) ==
  LET common == Ancestry[b] \cap Ancestry[mem.block]
      way    == (Ancestry[b] \ (common \cup {b})) \cup (Ancestry[mem.block] \ (common \cup {mem.block}))
                \cup {CHOOSE x \in common : \A y \in common : Number[y] <= Number[x]}
  IN  \E x \in way : ~HasBlock(x)

\* Ties are decided at random.
heavier(b, canonical) ==
  /\ Td[b] > Td[mem.block] => canonical
  /\ Td[b] < Td[mem.block] => ~canonical

\* While the headers of a fast sync come, only the blocks behind them are imported, never
\* during the import of headers (chainmu), and the miner rests.
MayImport(w, b) ==
  \/ phase = "full"
  \/ phase = "pivot" /\ w = "import" /\ owner = none /\ b \in Ancestry[mem.header]

\* InsertChain of a block, or the miner's wait: the block is validated against its
\* parent, processed, and its state committed.
Process(w, b) ==
  /\ up /\ MayImport(w, b) /\ job[w] = Idle /\ b # GenesisBlock
  /\ HasBlockAndState(Parent[b])
  /\ IF w = "mine" THEN b \in Mined /\ ~HasBlock(b) ELSE w = "import" /\ ~HasBlockAndState(b)
  /\ chainDb' = [chainDb EXCEPT !.state = @ \cup {b}]
  /\ job' = [job EXCEPT ![w] = [block |-> b, stage |-> "td"]]
  /\ UNCHANGED <<mem, todo, next, owner, up, phase, pivot, rewinds, crashes>>

\* WriteBlock reads the parent's total difficulty before it takes the mutex.
ReadTd(w) ==
  /\ up /\ job[w].stage = "td"
  /\ job' = [job EXCEPT ![w] = IF Parent[@.block] \in chainDb.td THEN [@ EXCEPT !.stage = "write"] ELSE Idle]
  /\ UNCHANGED <<chainDb, mem, todo, next, owner, up, phase, pivot, rewinds, crashes>>

WriteBlock(w, canonical) ==
  LET b    == job[w].block
      base == <<Store("td", b), Store("body", b), Store("hdr", b)>>
  IN  /\ job[w].stage = "write" /\ ~HasBlock(b) /\ heavier(b, canonical)
      /\ \/ /\ ~canonical \/ (Parent[b] # mem.block /\ Broken(b))
            /\ Take(w, base, mem)
            /\ job' = [job EXCEPT ![w] = Idle]
         \/ /\ canonical /\ Parent[b] = mem.block
            /\ Take(w, base \o insert(b, Uncanonical(b)),
                    IF Uncanonical(b) THEN Heads(b) ELSE [mem EXCEPT !.block = b])
            /\ job' = [job EXCEPT ![w].stage = "lookup"]
         \/ /\ canonical /\ Parent[b] # mem.block /\ ~Broken(b)
            /\ Take(w, base \o reorg(b).writes, reorg(b).heads)
            /\ job' = [job EXCEPT ![w].stage = "lookup"]
      /\ UNCHANGED <<chainDb, mem, up, phase, pivot, rewinds, crashes>>

\* The block exists already.
WriteKnown(w) ==
  /\ up /\ owner = none /\ job[w].stage = "write" /\ HasBlock(job[w].block)
  /\ job' = [job EXCEPT ![w] = Idle]
  /\ UNCHANGED <<chainDb, mem, todo, next, owner, up, phase, pivot, rewinds, crashes>>

\* A canonical block's transactions are indexed, without the mutex.
WriteTxLookupEntries(w) ==
  /\ up /\ job[w].stage = "lookup" /\ owner # w
  /\ chainDb' = Apply(chainDb, Lookup(Txs[job[w].block], job[w].block))
  /\ job' = [job EXCEPT ![w] = Idle]
  /\ UNCHANGED <<mem, todo, next, owner, up, phase, pivot, rewinds, crashes>>

-----------------------------------------------------------------------------
(* Rewinding                                                                *)

\* Canonical numbers deleted, highest first
uncanon(from, to) == [i \in 1..(IF from > to THEN from - to ELSE 0) |-> Canon(from + 1 - i, none)]

\* A head block above the new header head moves to it, if the block is there.
down(b, head) ==
  IF b # none /\ Number[head] < Number[b] THEN (IF HasBlock(head) THEN head ELSE none) ELSE b

\* Writes and heads of SetHead(n), with the heads it starts from; block may be none.
Rewound(n, block, header, fast) ==
  LET line  == Ancestry[header]
      reach == {x \in line : \A y \in line : Number[y] >= Number[x] => (y = header \/ y \in chainDb.hdr)}
      gone  == Descending({x \in reach : Number[x] > n})
      head  == IF Number[header] <= n THEN header
               ELSE IF \E x \in reach : Number[x] = n THEN CHOOSE x \in reach : Number[x] = n ELSE GenesisBlock
      newBlock == IF down(block, head) \in chainDb.state THEN down(block, head) ELSE GenesisBlock
      newFast  == IF down(fast, head) = none THEN GenesisBlock ELSE down(fast, head)
  IN  [writes |-> FlattenSeq([i \in DOMAIN gone |->
                     <<Del("body", gone[i]), Del("hdr", gone[i]), Del("td", gone[i])>>])
                  \o uncanon(Number[header], n)
                  \o <<Set("headHeader", head), Set("headBlock", newBlock), Set("headFast", newFast)>>,
       heads  |-> [block |-> newBlock, header |-> head, fast |-> newFast]]

SetHead(n) ==
  LET r == Rewound(n, mem.block, mem.header, mem.fast)
  IN  /\ rewinds < MaxRewinds /\ rewinds' = rewinds + 1 /\ Take("rewind", r.writes, r.heads)
      /\ UNCHANGED <<chainDb, mem, job, up, phase, pivot, crashes>>

-----------------------------------------------------------------------------
(* Fast sync                                                                *)

\* Canonical numbers above n, up to the first gap
above(n) == {i \in Heights : i > n /\ \A j \in (n + 1)..i : chainDb.canon[j] # none}

\* Ancestors of a header that are not canonical, down to the first that is
stale(b) ==
  LET line == Ancestry[Parent[b]]
  IN  {x \in line : \A y \in line : Number[y] >= Number[x] => Uncanonical(y)}

\* Headers come before the pivot is the head, and after it on the line they are on.
MayImportHeader(b) ==
  \/ phase = "fast"
  \/ phase = "pivot" /\ job["import"] = Idle /\ mem.header \in Ancestry[b]

\* WriteHeader, of a header that is not known
WriteHeader(b, canonical) ==
  LET low   == Descending(stale(b))
      high  == Sorted(above(Number[b]), [i \in Heights |-> -i])
      base  == <<Store("td", b), Store("hdr", b)>>
  IN  /\ MayImportHeader(b) /\ b \notin chainDb.hdr /\ Parent[b] \in chainDb.hdr /\ Parent[b] \in chainDb.td
      /\ Td[b] > Td[mem.header] => canonical
      /\ Td[b] < Td[mem.header] => ~canonical
      /\ IF canonical
         THEN Take("headers", base \o [i \in DOMAIN high |-> Canon(high[i], none)]
                \o [i \in DOMAIN low |-> Canon(Number[low[i]], low[i])]
                \o <<Canon(Number[b], b), Set("headHeader", b)>>, [mem EXCEPT !.header = b])
         ELSE Take("headers", base, mem)
      /\ UNCHANGED <<chainDb, mem, job, up, phase, pivot, rewinds, crashes>>

\* InsertReceiptChain: body and index of a block whose header is known, in order
InsertReceipts(b) ==
  /\ up /\ phase = "fast" /\ job["fast"] = Idle
  /\ b \in chainDb.hdr /\ ~HasBlock(b) /\ HasBlock(Parent[b])
  /\ chainDb' = Apply(Apply(chainDb, Store("body", b)), Lookup(Txs[b], b))
  /\ job' = [job EXCEPT !["fast"] = [block |-> b, stage |-> "head"]]
  /\ UNCHANGED <<mem, todo, next, owner, up, phase, pivot, rewinds, crashes>>

\* ... and the fast head, if the block is heavier and was not rewound.
InsertReceiptsHead ==
  LET b == job["fast"].block
      better == b \in chainDb.td /\ Td[mem.fast] < Td[b]
  IN  /\ job["fast"].stage = "head"
      /\ IF better THEN Take("fast", <<Set("headFast", b)>>, [mem EXCEPT !.fast = b]) ELSE Take("fast", <<>>, mem)
      /\ job' = [job EXCEPT !["fast"] = Idle]
      /\ UNCHANGED <<chainDb, mem, up, phase, pivot, rewinds, crashes>>

\* The head h after the headers of a line above height n were taken back
back(h, line, n) == IF h \in line THEN CHOOSE x \in Ancestry[h] : Number[x] = n ELSE h

\* Rollback of the headers down to height n that end in top, the newest of its line, when
\* the header processing fails or is cancelled: newest first, each head on one of them
\* goes to its parent.  After the pivot was committed no headers follow.
Rollback(top, n) ==
  LET line == {x \in Ancestry[top] : Number[x] > n}
      gone == Descending(line)
      step(kind, h, x) == IF h \in line /\ x \in Ancestry[h] THEN <<Set(kind, Parent[x])>> ELSE <<>>
      steps(x) == step("headHeader", mem.header, x) \o step("headFast", mem.fast, x)
                  \o step("headBlock", mem.block, x)
  IN  /\ phase \in {"fast", "pivot"} /\ line \cap {mem.header, mem.fast, mem.block} # {}
      /\ \A x \in chainDb.hdr : top \in Ancestry[x] => x = top
      /\ Take("rollback", FlattenSeq([i \in DOMAIN gone |-> steps(gone[i])]),
              [block |-> back(mem.block, line, n), header |-> back(mem.header, line, n),
               fast |-> back(mem.fast, line, n)])
      /\ phase' = (IF phase = "pivot" THEN "full" ELSE phase)
      /\ UNCHANGED <<chainDb, mem, job, up, pivot, rewinds, crashes>>

\* FastSyncCommitHead of the pivot, whose state was downloaded: in memory only.
FastSyncCommitHead(b) ==
  /\ up /\ phase = "fast" /\ owner = none /\ job["fast"] = Idle
  /\ HasBlock(b) /\ b # GenesisBlock /\ ~Uncanonical(b) /\ b \in Ancestry[mem.header]
  /\ chainDb' = [chainDb EXCEPT !.state = @ \cup {b}]
  /\ mem' = [mem EXCEPT !.block = b] /\ phase' = "pivot" /\ pivot' = b
  /\ UNCHANGED <<todo, next, owner, job, up, rewinds, crashes>>

\* All headers promised have come: nothing is taken back any more.
HeadersDone ==
  /\ up /\ phase = "pivot" /\ phase' = "full"
  /\ UNCHANGED <<chainDb, mem, todo, next, owner, job, up, pivot, rewinds, crashes>>

-----------------------------------------------------------------------------
(* Crash and restart                                                        *)

Crash ==
  /\ up /\ crashes < MaxCrashes /\ crashes' = crashes + 1 /\ up' = FALSE
  /\ todo' = <<>> /\ owner' = none /\ job' = [w \in Workers |-> Idle]
  /\ mem' = Heads(GenesisBlock) /\ next' = Heads(GenesisBlock)
  /\ UNCHANGED <<chainDb, phase, pivot, rewinds>>

\* Slip: the node does not look whether the head block is there.
CompleteAny(b) == TRUE

Complete(b) == HasBlockAndState(b)

\* loadLastState; Reset if the head block is incomplete.
loadLastState ==
  /\ ~up /\ up' = TRUE
  /\ IF Complete(chainDb.headBlock)
     THEN LET header == IF chainDb.headHeader \in chainDb.hdr THEN chainDb.headHeader ELSE chainDb.headBlock
          IN  /\ mem' = [block |-> chainDb.headBlock, header |-> header,
                         fast |-> IF HasBlock(chainDb.headFast) THEN chainDb.headFast ELSE chainDb.headBlock]
              /\ chainDb' = [chainDb EXCEPT !.headHeader = header] /\ UNCHANGED <<todo, next, owner>>
     ELSE LET r == Rewound(0, none, IF chainDb.headBlock \in chainDb.hdr THEN chainDb.headBlock ELSE GenesisBlock, none)
          IN  /\ todo' = r.writes /\ next' = Heads(GenesisBlock) /\ owner' = "reset" /\ UNCHANGED <<chainDb, mem>>
  /\ UNCHANGED <<job, phase, pivot, rewinds, crashes>>

ChainNext ==
  \/ NextWrite \/ Crash \/ loadLastState \/ InsertReceiptsHead \/ HeadersDone
  \/ \E w \in {"import", "mine"}, b \in Blocks : Process(w, b)
  \/ \E w \in {"import", "mine"} : \/ ReadTd(w) \/ WriteKnown(w) \/ WriteTxLookupEntries(w)
                                   \/ \E canonical \in BOOLEAN : WriteBlock(w, canonical)
  \/ \E n \in Heights : SetHead(n)
  \/ \E b \in Blocks \ {GenesisBlock} :
        \/ \E canonical \in BOOLEAN : WriteHeader(b, canonical)
        \/ InsertReceipts(b) \/ FastSyncCommitHead(b)
        \/ \E n \in Heights : Rollback(b, n)

ChainSpec == ChainInit /\ [][ChainNext]_chainVars

-----------------------------------------------------------------------------
(* Properties                                                               *)

Quiet == up /\ owner = none
Line(b) == {chainDb.canon[Number[x]] : x \in Ancestry[b]}

\* GetBlockByNumber finds the ancestors of the heads: until the process dies between two
\* writes, the canonical numbers up to a head name exactly its ancestors whenever the
\* mutex is free.
CanonicalIsAncestry ==
  Quiet /\ crashes = 0 =>
    Line(mem.block) = Ancestry[mem.block] /\ Line(mem.header) = Ancestry[mem.header]

\* The head is usable, also after a crash at any moment and when the pivot of a fast sync
\* is taken over: the block is there, its state is, unless a rollback took the head below
\* the pivot, and all its ancestors are, unless the chain was rewound and has crashed.
HeadIsComplete ==
  Quiet =>
    /\ HasBlock(mem.block)
    /\ mem.block \in chainDb.state \/ (pivot # none /\ mem.block \in Ancestry[pivot])
    /\ crashes = 0 \/ rewinds = 0 => \A b \in Ancestry[mem.block] : HasBlock(b)

-----------------------------------------------------------------------------
(* What comments of the code say and the code does not keep: the README has  *)
(* the behaviours.  No run checks these.                                     *)

\* No canonical number lies above the heads.
NothingAboveHead ==
  Quiet => \A n \in Heights : chainDb.canon[n] # none => n <= Number[mem.block] \/ n <= Number[mem.header]

\* The head block has its state: not below the pivot, where Rollback may leave it.
HeadHasState == Quiet => mem.block \in chainDb.state

\* Its ancestors are there: not when a rewind is cut short that starts from a header head
\* below the head block, where reorg may leave it.
HeadHasAncestors == Quiet => \A b \in Ancestry[mem.block] : HasBlock(b)

\* A full node's header and fast heads follow its head block.
HeadsFollow == (Quiet /\ phase = "full" /\ ~FastSync) => mem = Heads(mem.block)

\* The index names canonical blocks, and every transaction of the canonical chain.
IndexIsCanonical ==
  (Quiet /\ phase = "full" /\ \A w \in Workers : job[w].stage # "lookup") =>
     \A t \in AllTxs : LET has == {b \in Ancestry[mem.block] : t \in Txs[b]}
                       IN  IF has = {} THEN chainDb.lookup[t] = none ELSE chainDb.lookup[t] \in has
=============================================================================
