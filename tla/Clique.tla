------------------------------- MODULE Clique -------------------------------
(***************************************************************************)
(* Proof of authority (consensus/clique): the authorized signers change by *)
(* votes carried in block headers; no signer may sign too often.           *)
(*                                                                         *)
(* The module follows one chain of headers.  An address is a number, in    *)
(* the order of its bytes, and 0 the zero address.  A header carries what  *)
(* the engine looks at: signer (from its seal), coinbase, auth (its nonce  *)
(* is nonceAuthVote), diff and the signer list of its extra data.          *)
(* Timestamps, and fields that are constant in Clique, are left out.       *)
(***************************************************************************)
EXTENDS Integers, Sequences, FiniteSets

CONSTANTS
  Genesis,        \* the signers in the genesis block
  Subjects,       \* addresses that are voted on
  Epoch,          \* config.Epoch: votes are reset every Epoch blocks
  MaxBlocks       \* bound on the chain

ASSUME GenesisIsSigned == Genesis \subseteq Nat \ {0} /\ IsFiniteSet(Genesis) /\ Genesis # {}
ASSUME EpochIsPositive == Epoch \in Nat \ {0}

VARIABLES
  headers,        \* the accepted chain behind the genesis block
  snap,           \* the snapshot at its end: the result of snapshot()
  changed         \* history: address -> block of its last change of authorization

cliqueVars == <<headers, snap, changed>>

diffInTurn == 2
diffNoTurn == 1
Nobody == 0
Addrs == Genesis \cup Subjects \cup {Nobody}
Height == Len(headers)

-----------------------------------------------------------------------------
(* snapshot.go.  Recents is a set of [block, signer]; Votes is a set, for   *)
(* its order matters to no decision; a Tally of 0 votes stands for none.    *)

NoTally == [Authorize |-> FALSE, Votes |-> 0]

newSnapshot(signers) ==
  [ok |-> TRUE, Number |-> 0, Signers |-> signers, Recents |-> {}, Votes |-> {},
   Tally |-> [a \in Addrs |-> NoTally]]

limit(s) == Cardinality(s.Signers) \div 2 + 1

validVote(s, a, authorize) == a \in s.Signers <=> ~authorize

\* The tally of an account that gets a valid vote.
cast(tally, authorize) ==
  IF tally.Votes > 0 THEN [tally EXCEPT !.Votes = @ + 1] ELSE [Authorize |-> authorize, Votes |-> 1]

\* The tally of an account that loses a vote; a vote that was not counted is dropped.
uncast(tally, authorize) ==
  IF tally.Votes = 0 \/ tally.Authorize # authorize THEN tally
  ELSE IF tally.Votes > 1 THEN [tally EXCEPT !.Votes = @ - 1] ELSE NoTally

\* The signer's previous vote on the same account.
DiscardPrevious(s, h) ==
  LET old == {v \in s.Votes : v.Signer = h.signer /\ v.Address = h.coinbase}
  IN  IF old = {} THEN s
      ELSE LET v == CHOOSE v \in old : TRUE
           IN  [s EXCEPT !.Tally[h.coinbase] = uncast(@, v.Authorize), !.Votes = @ \ {v}]

CastVote(s, h, number) ==
  LET vote == [Signer |-> h.signer, Block |-> number, Address |-> h.coinbase, Authorize |-> h.auth]
  IN  IF ~validVote(s, h.coinbase, h.auth) THEN s
      ELSE [s EXCEPT !.Tally[h.coinbase] = cast(@, h.auth), !.Votes = @ \cup {vote}]

ShiftOut(s, number) ==
  [s EXCEPT !.Recents = {r \in @ : ~(number >= limit(s) /\ r.block = number - limit(s))}]

\* The votes a removed signer cast, one on an account at most.
DiscardVotesOf(s, a) ==
  LET of(b) == {v \in s.Votes : v.Signer = a /\ v.Address = b}
  IN  [s EXCEPT !.Tally = [b \in Addrs |-> IF of(b) = {} THEN @[b]
                                           ELSE uncast(@[b], (CHOOSE v \in of(b) : TRUE).Authorize)],
                !.Votes = {v \in @ : v.Signer # a}]

Passed(s, a) == s.Tally[a].Votes > Cardinality(s.Signers) \div 2

\* A passed vote changes the signers and ends all votes on the account.
Change(s, a, number) ==
  LET out == [s EXCEPT !.Signers = @ \ {a}]
      t   == IF s.Tally[a].Authorize THEN [s EXCEPT !.Signers = @ \cup {a}]
             ELSE DiscardVotesOf(ShiftOut(out, number), a)
  IN  [t EXCEPT !.Votes = {v \in @ : v.Address # a}, !.Tally[a] = NoTally]

MayApply(s, h) == h.signer \in s.Signers /\ \A r \in s.Recents : r.signer # h.signer

\* Slip: a checkpoint keeps the votes.
EpochResetNot(s, number) == s

EpochReset(s, number) ==
  IF number % Epoch = 0 THEN [s EXCEPT !.Votes = {}, !.Tally = [a \in Addrs |-> NoTally]] ELSE s

\* apply, for one header; an error leaves a snapshot that is not ok.
apply(s, h) ==
  LET number == s.Number + 1
      s1 == ShiftOut(EpochReset(s, number), number)
      s2 == [s1 EXCEPT !.Recents = @ \cup {[block |-> number, signer |-> h.signer]}]
      s3 == CastVote(DiscardPrevious(s2, h), h, number)
      s4 == IF Passed(s3, h.coinbase) THEN Change(s3, h.coinbase, number) ELSE s3
  IN  IF ~MayApply(s1, h) THEN [s EXCEPT !.ok = FALSE] ELSE [s4 EXCEPT !.Number = number]

\* Position among the sorted signers, and whose turn it is.
Offset(s, a) == Cardinality({b \in s.Signers : b < a})
inturn(s, number, a) == number % Cardinality(s.Signers) = Offset(s, a)

-----------------------------------------------------------------------------
(* clique.go: what a header must satisfy                                    *)

Header(signer, coinbase, auth, diff, list) ==
  [signer |-> signer, coinbase |-> coinbase, auth |-> auth, diff |-> diff, list |-> list]

\* Unsigned 64 bit: number-limit wraps below zero and is then above every block.
Before(number, lim, seen) == number >= lim /\ seen > number - lim

verifySeal(s, h, number) ==
  /\ h.signer \in s.Signers
  /\ \A r \in s.Recents : r.signer = h.signer => ~Before(number, limit(s), r.block)
  /\ h.diff = IF inturn(s, number, h.signer) THEN diffInTurn ELSE diffNoTurn

\* verifyHeader and verifyCascadingFields.
verifyHeader(s, h, number) ==
  LET checkpoint == number % Epoch = 0
  IN  /\ checkpoint => h.coinbase = Nobody /\ ~h.auth /\ h.list = s.Signers
      /\ ~checkpoint => h.list = {}
      /\ verifySeal(s, h, number)

-----------------------------------------------------------------------------
(* clique.go: producing a block                                             *)

\* The votes Prepare may choose from, for a node with the given proposals, a
\* function from addresses to BOOLEAN.
Sensible(s, proposals) == {a \in DOMAIN proposals : validVote(s, a, proposals[a])}

\* Prepare: the headers it may fill in.
Prepared(s, number, signer, proposals) ==
  LET votes == IF number % Epoch = 0 THEN {} ELSE Sensible(s, proposals)
      diff  == IF inturn(s, number, signer) THEN diffInTurn ELSE diffNoTurn
      list  == IF number % Epoch = 0 THEN s.Signers ELSE {}
  IN  IF votes = {} THEN {Header(signer, Nobody, FALSE, diff, list)}
      ELSE {Header(signer, a, proposals[a], diff, list) : a \in votes}

\* Seal signs, or waits for a newer block.
MaySeal(s, number, signer) ==
  /\ signer \in s.Signers
  /\ \A r \in s.Recents : r.signer = signer => number >= limit(s) /\ r.block <= number - limit(s)

-----------------------------------------------------------------------------

CliqueInit ==
  /\ headers = <<>> /\ snap = newSnapshot(Genesis) /\ changed = [a \in Addrs |-> 0]

\* A verified header extends the chain; its snapshot is computed on first use.
Extend(h) ==
  /\ headers' = Append(headers, h)
  /\ snap' = apply(snap, h)
  /\ changed' = [a \in Addrs |-> IF (a \in snap.Signers) # (a \in snap'.Signers)
                                 THEN Height + 1 ELSE changed[a]]

Proposals == UNION {[S -> BOOLEAN] : S \in SUBSET Subjects}

\* A signer of this implementation prepares and seals the next block.
SealBlock(signer, proposals) ==
  /\ Height < MaxBlocks /\ snap.ok /\ snap.Signers # {}
  /\ MaySeal(snap, Height + 1, signer)
  /\ \E h \in Prepared(snap, Height + 1, signer, proposals) : Extend(h)

\* Any header that passes the verification.
ReceiveBlock(h) ==
  /\ Height < MaxBlocks /\ snap.ok /\ snap.Signers # {}
  /\ verifyHeader(snap, h, Height + 1) /\ Extend(h)

CliqueNext ==
  \/ \E signer \in Addrs, proposals \in Proposals : SealBlock(signer, proposals)
  \/ \E signer \in Addrs, coinbase \in Subjects \cup {Nobody}, auth \in BOOLEAN,
        diff \in {diffInTurn, diffNoTurn}, list \in {{}, snap.Signers} :
       ReceiveBlock(Header(signer, coinbase, auth, diff, list))

CliqueSpec == CliqueInit /\ [][CliqueNext]_cliqueVars

-----------------------------------------------------------------------------
(* Properties *)

\* What a signer last said on an account after the votes on it, the signer's own
\* and, at a checkpoint, all votes were last reset, is for its change.
Supports(s, a) ==
  \E n \in 1 .. Height :
     /\ n > changed[a] /\ n > changed[s]
     /\ headers[n].signer = s /\ headers[n].coinbase = a
     /\ headers[n].auth <=> a \notin snap.Signers
     /\ \A k \in n + 1 .. Height : k % Epoch # 0 /\ (headers[k].signer = s => headers[k].coinbase # a)

Supporters(a) == {s \in snap.Signers : Supports(s, a)}

\* The cached tally, maintained by cast, uncast and the resets, is the number of
\* current signers whose last word on the account is for its change.
TallyIsSupport ==
  snap.ok => \A a \in Addrs : /\ snap.Tally[a].Votes = Cardinality(Supporters(a))
                              /\ {v.Signer : v \in {w \in snap.Votes : w.Address = a}} = Supporters(a)

\* An account is added or removed only by a block that names it and with which more
\* than half of the signers want it.  The block itself need not: a signer that left
\* may have lowered what a majority is.
ChangeNeedsMajority ==
  [][\A a \in Addrs : (a \in snap.Signers) # (a \in snap'.Signers) =>
       LET h   == headers'[Height + 1]
           yes == IF h.auth <=> a \notin snap.Signers THEN Supporters(a) \cup {h.signer}
                  ELSE Supporters(a) \ {h.signer}
       IN  h.coinbase = a /\ 2 * Cardinality(yes) > Cardinality(snap.Signers)]_cliqueVars

\* No signer signs two of any limit consecutive blocks, for the limit in force, of a
\* chain that has a snapshot.
NoOneSignsTooOften ==
  [][headers' # headers /\ snap'.ok =>
       \A k \in 1 .. Height :
          k > Height + 1 - limit(snap) => headers[k].signer # headers'[Height + 1].signer]_cliqueVars

\* What Prepare and Seal produce passes the verification of every other node,
\* whatever the signer proposes.
SealedIsAccepted ==
  snap.ok /\ snap.Signers # {} =>
    \A s \in snap.Signers :
      MaySeal(snap, Height + 1, s) =>
        \A h \in UNION {Prepared(snap, Height + 1, s, proposals) : proposals \in Proposals} :
          verifyHeader(snap, h, Height + 1)

\* As long as there are signers, one of them may sign the next block.
SomeoneMaySeal ==
  snap.ok /\ snap.Signers # {} => \E s \in snap.Signers : MaySeal(snap, Height + 1, s)

\* The cached tally is what the signers said, only a majority changes the signers,
\* nobody signs too often, somebody always may sign and what is sealed is accepted.
MajorityRules ==
  [](TallyIsSupport /\ SealedIsAccepted /\ SomeoneMaySeal) /\ ChangeNeedsMajority /\ NoOneSignsTooOften

-----------------------------------------------------------------------------
(* What comments of the code say and the code does not keep: the README has  *)
(* the behaviours.  No run checks these.                                     *)

\* A header that was accepted has a snapshot, so that the chain can go on.
AcceptedIsApplicable == snap.ok
=============================================================================
