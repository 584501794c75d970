----------------------------- MODULE CoreProofs ------------------------------
(***************************************************************************)
(* The host's core, for all values of the constants: proof of authority     *)
(* consensus, for every set of signers in the genesis block, every epoch    *)
(* and chains of any length; the state database, for every set of accounts, *)
(* keys and values and any number of calls; and the chain database, for     *)
(* every finite tree of blocks.                                             *)
(*                                                                         *)
(* apply changes a snapshot in stages: reset, shift, discard, cast, change. *)
(* What each does to the votes on an account is said by the set of their    *)
(* signers (Voters); the tally is its size as long as a signer has one vote *)
(* on an account and all votes on it ask for the same (Consistent).  That   *)
(* the voters are those whose last word is for the change is then a fact    *)
(* about one block.  Nobody signs too often because the recent signers      *)
(* reach back as far as the limit asks for, although the limit grows and    *)
(* shrinks with the signers.                                                *)
(*                                                                         *)
(* The journal of the state database is shown to be a way of keeping copies *)
(* of the world.  UndoWorld says what undoing an entry does to what can be  *)
(* seen, whatever caches, marks and loaded objects are behind it (Undoes);  *)
(* the invariant (Good) is that undoing the entries on paper, from what is  *)
(* seen now, passes through every copy at its journal index (Remembers).    *)
(* A call keeps it because the entry it appends undoes it; a revert because *)
(* the loop of RevertToSnapshot follows that path, by induction down the    *)
(* journal.                                                                 *)
(*                                                                         *)
(* The chain database is between two of its states most of the time: an     *)
(* operation has made some of its writes.  The invariants are about the     *)
(* database with the writes to come: which number names which block then    *)
(* (Lands, LineInv), and which blocks are there then (Stays, WholeInv).  A  *)
(* crash loses the writes to come, so CrashInv asks for more: between any   *)
(* two writes the head the database names is complete.                      *)
(***************************************************************************)
EXTENDS Clique, StateDB, BlockChain, SequenceTheorems, FiniteSetTheorems, WellFoundedInduction, NaturalsInduction,
        TLAPS

-----------------------------------------------------------------------------
(* Snapshots.                                                               *)

Tallies == [Authorize : BOOLEAN, Votes : Nat]
Ballots == [Signer : Addrs, Block : Nat, Address : Addrs, Authorize : BOOLEAN]
Signed  == [block : Nat, signer : Addrs]

Snapshots ==
  [ok : BOOLEAN, Number : Nat, Signers : SUBSET Addrs, Recents : SUBSET Signed,
   Votes : SUBSET Ballots, Tally : [Addrs -> Tallies]]

HeaderSet ==
  [signer : Addrs, coinbase : Addrs, auth : BOOLEAN, diff : {diffInTurn, diffNoTurn}, list : SUBSET Addrs]

Voters(s, a) == {v.Signer : v \in {w \in s.Votes : w.Address = a}}

\* A signer has one vote on an account, votes ask for what is not yet so, and the tally
\* counts them.
OneVoteEach(s) == \A v, w \in s.Votes : v.Signer = w.Signer /\ v.Address = w.Address => v = w
VotesAreSensible(s) ==
  \A v \in s.Votes : v.Signer \in s.Signers /\ (v.Authorize <=> v.Address \notin s.Signers)
TallyCounts(s) ==
  \A a \in Addrs : /\ s.Tally[a].Votes = Cardinality(Voters(s, a))
                   /\ s.Tally[a].Votes > 0 => (s.Tally[a].Authorize <=> a \notin s.Signers)

Consistent(s) ==
  /\ s \in Snapshots /\ IsFiniteSet(s.Signers)
  /\ OneVoteEach(s) /\ VotesAreSensible(s) /\ TallyCounts(s)

LEMMA VotersAreFew ==
  ASSUME NEW s, Consistent(s), NEW a
  PROVE  Voters(s, a) \subseteq s.Signers /\ IsFiniteSet(Voters(s, a)) /\ Cardinality(Voters(s, a)) \in Nat
<1>1. Voters(s, a) \subseteq s.Signers
  BY DEF Voters, Consistent, VotesAreSensible
<1>2. IsFiniteSet(Voters(s, a))
  BY <1>1, FS_Subset DEF Consistent
<1> QED BY <1>1, <1>2, FS_CardinalityType

-----------------------------------------------------------------------------
(* The stages of apply.                                                     *)

\* A stage that touches neither votes nor signers
LEMMA RecentsStage ==
  ASSUME NEW s, Consistent(s), NEW R \in SUBSET Signed, NEW t, t = [s EXCEPT !.Recents = R]
  PROVE  /\ Consistent(t) /\ t.Signers = s.Signers /\ t.Recents = R
         /\ t.Number = s.Number /\ t.ok = s.ok /\ t.Votes = s.Votes /\ t.Tally = s.Tally
         /\ \A a : Voters(t, a) = Voters(s, a)
<1>1. /\ t \in Snapshots /\ t.Signers = s.Signers /\ t.Recents = R /\ t.Votes = s.Votes /\ t.Tally = s.Tally
      /\ t.Number = s.Number /\ t.ok = s.ok
  BY DEF Consistent, Snapshots
<1>2. \A a : Voters(t, a) = Voters(s, a)
  BY <1>1 DEF Voters
<1>3. IsFiniteSet(t.Signers) /\ OneVoteEach(t) /\ VotesAreSensible(t)
  BY <1>1 DEF Consistent, OneVoteEach, VotesAreSensible
<1>4. TallyCounts(t)
  BY <1>1, <1>2 DEF Consistent, TallyCounts
<1> QED BY <1>1, <1>2, <1>3, <1>4 DEF Consistent

\* A checkpoint drops all votes.
LEMMA ResetStage ==
  ASSUME NEW s, Consistent(s), NEW n, NEW t, t = EpochReset(s, n)
  PROVE  /\ Consistent(t) /\ t.Signers = s.Signers /\ t.Recents = s.Recents
         /\ t.Number = s.Number /\ t.ok = s.ok
         /\ n % Epoch = 0 => \A a : Voters(t, a) = {}
         /\ n % Epoch # 0 => \A a : Voters(t, a) = Voters(s, a)
<1>1. CASE n % Epoch # 0
  BY <1>1 DEF EpochReset
<1>2. CASE n % Epoch = 0
  <2>1. NoTally \in Tallies /\ NoTally.Votes = 0
    BY DEF NoTally, Tallies
  <2>2. t = [s EXCEPT !.Votes = {}, !.Tally = [a \in Addrs |-> NoTally]]
    BY <1>2 DEF EpochReset
  <2>3. /\ t \in Snapshots /\ t.Signers = s.Signers /\ t.Recents = s.Recents /\ t.Votes = {}
        /\ t.Number = s.Number /\ t.ok = s.ok
        /\ t.Tally = [a \in Addrs |-> NoTally]
    BY <2>1, <2>2 DEF Consistent, Snapshots
  <2>4. \A a : Voters(t, a) = {}
    BY <2>3 DEF Voters
  <2>5. TallyCounts(t)
    BY <2>1, <2>3, <2>4, FS_EmptySet DEF TallyCounts
  <2> QED BY <1>2, <2>3, <2>4, <2>5 DEF Consistent, OneVoteEach, VotesAreSensible
<1> QED BY <1>1, <1>2

\* What uncast leaves of a tally, if the vote was counted
LEMMA Uncast ==
  ASSUME NEW tally \in Tallies, tally.Votes > 0, NEW authorize, authorize = tally.Authorize
  PROVE  /\ uncast(tally, authorize) \in Tallies
         /\ uncast(tally, authorize).Votes = tally.Votes - 1
         /\ uncast(tally, authorize).Votes > 0 => uncast(tally, authorize).Authorize = tally.Authorize
<1>1. CASE tally.Votes > 1
  <2>1. uncast(tally, authorize) = [tally EXCEPT !.Votes = @ - 1]
    BY <1>1 DEF uncast
  <2> QED BY <1>1, <2>1 DEF Tallies
<1>2. CASE ~(tally.Votes > 1)
  <2>1. uncast(tally, authorize) = NoTally /\ tally.Votes = 1
    BY <1>2 DEF uncast, Tallies
  <2> QED BY <2>1 DEF Tallies, NoTally
<1> QED BY <1>1, <1>2

\* One vote less, counted
WithoutVote(s, v) ==
  [s EXCEPT !.Tally = [s.Tally EXCEPT ![v.Address] = uncast(s.Tally[v.Address], v.Authorize)],
            !.Votes = s.Votes \ {v}]

LEMMA VoteRemoved ==
  ASSUME NEW s, Consistent(s), NEW v \in s.Votes, NEW t, t = WithoutVote(s, v)
  PROVE  /\ Consistent(t) /\ t.Signers = s.Signers /\ t.Recents = s.Recents
         /\ t.Number = s.Number /\ t.ok = s.ok
         /\ t.Votes = s.Votes \ {v}
         /\ Voters(t, v.Address) = Voters(s, v.Address) \ {v.Signer}
         /\ \A a : a # v.Address => Voters(t, a) = Voters(s, a)
<1> DEFINE c == v.Address
           old == s.Tally[c]
           new == uncast(old, v.Authorize)
<1>1. s \in Snapshots /\ v \in Ballots /\ c \in Addrs /\ v.Authorize \in BOOLEAN /\ old \in Tallies
  BY DEF Consistent, Snapshots, Ballots
<1>2. v.Signer \in Voters(s, c)
  BY DEF Voters
<1>3. old.Votes = Cardinality(Voters(s, c)) /\ old.Votes > 0
  <2>1. Cardinality(Voters(s, c)) # 0 /\ Cardinality(Voters(s, c)) \in Nat
    BY <1>2, VotersAreFew, FS_EmptySet
  <2> QED BY <1>1, <2>1 DEF Consistent, TallyCounts
<1>4. (old.Authorize <=> c \notin s.Signers) /\ (v.Authorize <=> c \notin s.Signers)
  BY <1>1, <1>3 DEF Consistent, TallyCounts, VotesAreSensible
<1>5. v.Authorize = old.Authorize
  BY <1>1, <1>4 DEF Tallies
<1>6. new \in Tallies /\ new.Votes = old.Votes - 1 /\ (new.Votes > 0 => new.Authorize = old.Authorize)
  <2> HIDE DEF old
  <2> QED BY <1>1, <1>3, <1>5, Uncast
<1> HIDE DEF new
<1>7. /\ t \in Snapshots /\ t.Signers = s.Signers /\ t.Recents = s.Recents /\ t.Votes = s.Votes \ {v}
      /\ t.Number = s.Number /\ t.ok = s.ok
      /\ t.Tally = [s.Tally EXCEPT ![c] = new]
  <2>1. t = [s EXCEPT !.Tally = [s.Tally EXCEPT ![c] = new], !.Votes = s.Votes \ {v}]
    BY DEF new, WithoutVote
  <2>2. [s.Tally EXCEPT ![c] = new] \in [Addrs -> Tallies] /\ s.Votes \ {v} \in SUBSET Ballots
    BY <1>1, <1>6 DEF Snapshots
  <2> QED BY <1>1, <2>1, <2>2 DEF Snapshots
<1>8. Voters(t, c) = Voters(s, c) \ {v.Signer}
  BY <1>7 DEF Voters, Consistent, OneVoteEach
<1>9. \A a : a # c => Voters(t, a) = Voters(s, a)
  BY <1>7 DEF Voters
<1>10. OneVoteEach(t) /\ VotesAreSensible(t) /\ IsFiniteSet(t.Signers)
  BY <1>7 DEF Consistent, OneVoteEach, VotesAreSensible
<1>11. Cardinality(Voters(t, c)) = new.Votes
  <2>1. Cardinality(Voters(s, c) \ {v.Signer}) = Cardinality(Voters(s, c)) - 1
    BY <1>2, VotersAreFew, FS_RemoveElement
  <2> QED BY <1>3, <1>6, <1>8, <2>1
<1>12. TallyCounts(t)
  <2> SUFFICES ASSUME NEW a \in Addrs
               PROVE  /\ t.Tally[a].Votes = Cardinality(Voters(t, a))
                      /\ t.Tally[a].Votes > 0 => (t.Tally[a].Authorize <=> a \notin t.Signers)
    BY DEF TallyCounts
  <2>1. CASE a = c
    <3>1. t.Tally[a] = new
      BY <1>1, <1>7, <2>1 DEF Snapshots
    <3> QED BY <1>4, <1>6, <1>7, <1>11, <2>1, <3>1
  <2>2. CASE a # c
    <3>1. t.Tally[a] = s.Tally[a]
      BY <1>1, <1>7, <2>2 DEF Snapshots
    <3> QED BY <1>7, <1>9, <2>2, <3>1 DEF Consistent, TallyCounts
  <2> QED BY <2>1, <2>2
<1> QED BY <1>7, <1>8, <1>9, <1>10, <1>12 DEF Consistent

\* The signer of a header has no vote left on its coinbase.
LEMMA DiscardStage ==
  ASSUME NEW s, Consistent(s), NEW h \in HeaderSet, NEW t, t = DiscardPrevious(s, h)
  PROVE  /\ Consistent(t) /\ t.Signers = s.Signers /\ t.Recents = s.Recents
         /\ t.Number = s.Number /\ t.ok = s.ok
         /\ Voters(t, h.coinbase) = Voters(s, h.coinbase) \ {h.signer}
         /\ \A a : a # h.coinbase => Voters(t, a) = Voters(s, a)
<1> DEFINE old == {v \in s.Votes : v.Signer = h.signer /\ v.Address = h.coinbase}
<1>1. CASE old = {}
  <2>1. t = s
    BY <1>1 DEF DiscardPrevious
  <2>2. h.signer \notin Voters(s, h.coinbase)
    BY <1>1 DEF Voters
  <2> QED BY <2>1, <2>2
<1>2. CASE old # {}
  <2> DEFINE v == CHOOSE v \in old : TRUE
  <2>1. v \in s.Votes /\ v.Signer = h.signer /\ v.Address = h.coinbase
    BY <1>2
  <2>2. t = [s EXCEPT !.Tally[h.coinbase] = uncast(@, v.Authorize), !.Votes = @ \ {v}]
    BY <1>2 DEF DiscardPrevious
  <2> HIDE DEF v, old
  <2>3. t = WithoutVote(s, v)
    BY <2>1, <2>2 DEF Consistent, Snapshots, WithoutVote
  <2>4. /\ Consistent(t) /\ t.Signers = s.Signers /\ t.Recents = s.Recents
        /\ t.Number = s.Number /\ t.ok = s.ok
        /\ Voters(t, v.Address) = Voters(s, v.Address) \ {v.Signer}
        /\ \A a : a # v.Address => Voters(t, a) = Voters(s, a)
    BY <2>1, <2>3, VoteRemoved
  <2> QED BY <2>1, <2>4
<1> QED BY <1>1, <1>2

\* A sensible vote is counted.
LEMMA CastStage ==
  ASSUME NEW s, Consistent(s), NEW h \in HeaderSet, h.signer \in s.Signers, NEW n \in Nat,
         h.signer \notin Voters(s, h.coinbase), NEW t, t = CastVote(s, h, n)
  PROVE  /\ Consistent(t) /\ t.Signers = s.Signers /\ t.Recents = s.Recents
         /\ t.Number = s.Number /\ t.ok = s.ok
         /\ (h.auth <=> h.coinbase \notin s.Signers) => Voters(t, h.coinbase) = Voters(s, h.coinbase) \cup {h.signer}
         /\ ~(h.auth <=> h.coinbase \notin s.Signers) => Voters(t, h.coinbase) = Voters(s, h.coinbase)
         /\ \A a : a # h.coinbase => Voters(t, a) = Voters(s, a)
<1> DEFINE c == h.coinbase
           w == [Signer |-> h.signer, Block |-> n, Address |-> c, Authorize |-> h.auth]
           old == s.Tally[c]
           new == IF old.Votes > 0 THEN [old EXCEPT !.Votes = @ + 1] ELSE [Authorize |-> h.auth, Votes |-> 1]
<1>0. /\ s \in Snapshots /\ c \in Addrs /\ h.auth \in BOOLEAN /\ h.signer \in Addrs /\ old \in Tallies
      /\ w \in Ballots /\ w.Signer = h.signer /\ w.Address = c /\ w.Authorize = h.auth
  BY DEF Consistent, Snapshots, HeaderSet, Ballots
<1>1. CASE ~validVote(s, c, h.auth)
  <2>1. t = s
    BY <1>1 DEF CastVote
  <2>2. ~(h.auth <=> c \notin s.Signers)
    BY <1>0, <1>1 DEF validVote
  <2> QED BY <2>1, <2>2
<1>2. CASE validVote(s, c, h.auth)
  <2>1. h.auth <=> c \notin s.Signers
    BY <1>0, <1>2 DEF validVote
  <2>2. /\ old.Votes = Cardinality(Voters(s, c)) /\ old.Votes \in Nat
        /\ old.Votes > 0 => (old.Authorize <=> c \notin s.Signers)
    BY <1>0 DEF Consistent, TallyCounts, Tallies
  <2>3. new \in Tallies /\ new.Votes = old.Votes + 1 /\ (new.Authorize <=> c \notin s.Signers)
    <3>1. CASE old.Votes > 0
      <4>1. new = [old EXCEPT !.Votes = @ + 1]
        BY <3>1
      <4> QED BY <1>0, <2>2, <3>1, <4>1 DEF Tallies
    <3>2. CASE ~(old.Votes > 0)
      <4>1. new = [Authorize |-> h.auth, Votes |-> 1] /\ old.Votes = 0
        BY <2>2, <3>2
      <4> QED BY <1>0, <2>1, <4>1 DEF Tallies
    <3> QED BY <3>1, <3>2
  <2>4. t = [s EXCEPT !.Tally = [s.Tally EXCEPT ![c] = new], !.Votes = s.Votes \cup {w}]
    <3>1. t = [s EXCEPT !.Tally[c] = cast(@, h.auth), !.Votes = @ \cup {w}]
      BY <1>2 DEF CastVote
    <3>2. new = cast(s.Tally[c], h.auth)
      BY DEF cast
    <3> HIDE DEF new, w
    <3> QED BY <1>0, <3>1, <3>2 DEF Snapshots
  <2> HIDE DEF new, w
  <2>5. /\ t \in Snapshots /\ t.Signers = s.Signers /\ t.Recents = s.Recents /\ t.Votes = s.Votes \cup {w}
        /\ t.Number = s.Number /\ t.ok = s.ok
        /\ t.Tally = [s.Tally EXCEPT ![c] = new]
    <3>1. [s.Tally EXCEPT ![c] = new] \in [Addrs -> Tallies] /\ s.Votes \cup {w} \in SUBSET Ballots
      BY <1>0, <2>3 DEF Snapshots
    <3> QED BY <1>0, <2>4, <3>1 DEF Snapshots
  <2>6. Voters(t, c) = Voters(s, c) \cup {h.signer}
    BY <1>0, <2>5 DEF Voters
  <2>7. \A a : a # c => Voters(t, a) = Voters(s, a)
    BY <1>0, <2>5 DEF Voters
  <2>8. OneVoteEach(t)
    <3>1. \A v \in s.Votes : ~(v.Signer = h.signer /\ v.Address = c)
      BY DEF Voters
    <3> QED BY <1>0, <2>5, <3>1 DEF OneVoteEach, Consistent
  <2>9. VotesAreSensible(t) /\ IsFiniteSet(t.Signers)
    BY <1>0, <2>1, <2>5 DEF Consistent, VotesAreSensible
  <2>10. Cardinality(Voters(t, c)) = new.Votes
    <3>1. Cardinality(Voters(s, c) \cup {h.signer}) = Cardinality(Voters(s, c)) + 1
      BY VotersAreFew, FS_AddElement
    <3> QED BY <2>2, <2>3, <2>6, <3>1
  <2>11. TallyCounts(t)
    <3> SUFFICES ASSUME NEW a \in Addrs
                 PROVE  /\ t.Tally[a].Votes = Cardinality(Voters(t, a))
                        /\ t.Tally[a].Votes > 0 => (t.Tally[a].Authorize <=> a \notin t.Signers)
      BY DEF TallyCounts
    <3>1. CASE a = c
      <4>1. t.Tally[a] = new
        BY <1>0, <2>5, <3>1 DEF Snapshots
      <4> QED BY <2>3, <2>5, <2>10, <3>1, <4>1
    <3>2. CASE a # c
      <4>1. t.Tally[a] = s.Tally[a]
        BY <1>0, <2>5, <3>2 DEF Snapshots
      <4> QED BY <2>5, <2>7, <3>2, <4>1 DEF Consistent, TallyCounts
    <3> QED BY <3>1, <3>2
  <2> QED BY <2>1, <2>5, <2>6, <2>7, <2>8, <2>9, <2>11 DEF Consistent
<1> QED BY <1>1, <1>2

\* What a change leaves of the tally of another account, once the votes of c are gone
TallyWithout(s, c, b) ==
  LET of == {v \in s.Votes : v.Signer = c /\ v.Address = b}
  IN  IF of = {} THEN s.Tally[b] ELSE uncast(s.Tally[b], (CHOOSE v \in of : TRUE).Authorize)

LEMMA TallyWithoutCounts ==
  ASSUME NEW s, Consistent(s), NEW c, NEW b \in Addrs, NEW y, y = TallyWithout(s, c, b)
  PROVE  /\ y \in Tallies /\ y.Votes = Cardinality(Voters(s, b) \ {c})
         /\ y.Votes > 0 => (y.Authorize <=> b \notin s.Signers)
<1> DEFINE of == {v \in s.Votes : v.Signer = c /\ v.Address = b}
           x  == s.Tally[b]
<1>1. /\ x \in Tallies /\ x.Votes = Cardinality(Voters(s, b))
      /\ x.Votes > 0 => (x.Authorize <=> b \notin s.Signers)
  BY DEF Consistent, Snapshots, TallyCounts
<1>2. CASE of = {}
  <2>1. y = x
    BY <1>2 DEF TallyWithout
  <2>2. Voters(s, b) \ {c} = Voters(s, b)
    BY <1>2 DEF Voters
  <2> QED BY <1>1, <2>1, <2>2
<1>3. CASE of # {}
  <2> DEFINE v == CHOOSE v \in of : TRUE
  <2>1. v \in s.Votes /\ v.Signer = c /\ v.Address = b
    BY <1>3
  <2>2. y = uncast(x, v.Authorize)
    BY <1>3 DEF TallyWithout
  <2> HIDE DEF v, of, x
  <2>3. c \in Voters(s, b)
    BY <2>1 DEF Voters
  <2>4. x.Votes > 0
    <3>1. Cardinality(Voters(s, b)) # 0 /\ Cardinality(Voters(s, b)) \in Nat
      BY <2>3, VotersAreFew, FS_EmptySet
    <3> QED BY <1>1, <3>1
  <2>5. v.Authorize = x.Authorize
    <3>1. v.Authorize <=> b \notin s.Signers
      BY <2>1 DEF Consistent, VotesAreSensible
    <3>2. v.Authorize \in BOOLEAN /\ x.Authorize \in BOOLEAN
      BY <1>1, <2>1 DEF Consistent, Snapshots, Ballots, Tallies
    <3> QED BY <1>1, <2>4, <3>1, <3>2
  <2>6. y \in Tallies /\ y.Votes = x.Votes - 1 /\ (y.Votes > 0 => y.Authorize = x.Authorize)
    BY <1>1, <2>2, <2>4, <2>5, Uncast
  <2>7. Cardinality(Voters(s, b) \ {c}) = Cardinality(Voters(s, b)) - 1
    BY <2>3, VotersAreFew, FS_RemoveElement
  <2> QED BY <1>1, <2>4, <2>6, <2>7
<1> QED BY <1>2, <1>3

\* A passed vote turns the account around, ends the votes on it and, when it is removed, its own.
LEMMA ChangeStage ==
  ASSUME NEW s, Consistent(s), NEW c \in Addrs, Passed(s, c), NEW n \in Nat, NEW t, t = Change(s, c, n)
  PROVE  /\ Consistent(t) /\ t.Number = s.Number /\ t.ok = s.ok
         /\ c \in s.Signers => t.Signers = s.Signers \ {c}
         /\ c \notin s.Signers => t.Signers = s.Signers \cup {c}
         /\ t.Recents \subseteq s.Recents
         /\ \A r \in s.Recents : r \in t.Recents \/ r.block = n - limit(t)
         /\ Voters(t, c) = {}
         /\ \A a : a # c => Voters(t, a) = Voters(s, a) \ {c}
<1>1. s \in Snapshots /\ s.Tally[c] \in Tallies /\ s.Tally[c].Votes > 0
  <2>1. s \in Snapshots /\ s.Tally[c] \in Tallies
    BY DEF Consistent, Snapshots
  <2>2. Cardinality(s.Signers) \in Nat
    BY FS_CardinalityType DEF Consistent
  <2> QED BY <2>1, <2>2 DEF Passed, Tallies
<1>2. s.Tally[c].Authorize <=> c \notin s.Signers
  BY <1>1 DEF Consistent, TallyCounts
<1>3. NoTally \in Tallies /\ NoTally.Votes = 0
  BY DEF NoTally, Tallies
<1>4. CASE c \notin s.Signers
  <2> DEFINE T == [s.Tally EXCEPT ![c] = NoTally]
             V == {v \in s.Votes : v.Address # c}
  <2>1. t = [s EXCEPT !.Signers = s.Signers \cup {c}, !.Votes = V, !.Tally = T]
    BY <1>1, <1>2, <1>4 DEF Change, Snapshots
  <2>2. T \in [Addrs -> Tallies] /\ T[c] = NoTally /\ \A a \in Addrs : a # c => T[a] = s.Tally[a]
    BY <1>1, <1>3 DEF Snapshots
  <2>3. V \subseteq s.Votes /\ V \subseteq Ballots /\ \A v \in s.Votes : v \in V <=> v.Address # c
    BY <1>1 DEF Snapshots
  <2> HIDE DEF T, V
  <2>4. /\ t \in Snapshots /\ t.Signers = s.Signers \cup {c} /\ t.Recents = s.Recents /\ t.Votes = V
        /\ t.Number = s.Number /\ t.ok = s.ok /\ t.Tally = T
    <3>1. s.Signers \cup {c} \in SUBSET Addrs
      BY <1>1 DEF Snapshots
    <3> QED BY <1>1, <2>1, <2>2, <2>3, <3>1 DEF Snapshots
  <2>5. Voters(t, c) = {}
    BY <2>3, <2>4 DEF Voters
  <2>6. \A a : a # c => Voters(t, a) = Voters(s, a)
    BY <2>3, <2>4 DEF Voters
  <2>7. \A a : c \notin Voters(s, a)
    BY <1>4, VotersAreFew
  <2>8. IsFiniteSet(t.Signers) /\ OneVoteEach(t) /\ VotesAreSensible(t)
    BY <2>3, <2>4, FS_AddElement DEF Consistent, OneVoteEach, VotesAreSensible
  <2>9. TallyCounts(t)
    <3> SUFFICES ASSUME NEW a \in Addrs
                 PROVE  /\ t.Tally[a].Votes = Cardinality(Voters(t, a))
                        /\ t.Tally[a].Votes > 0 => (t.Tally[a].Authorize <=> a \notin t.Signers)
      BY DEF TallyCounts
    <3>1. CASE a = c
      BY <1>3, <2>2, <2>4, <2>5, <3>1, FS_EmptySet
    <3>2. CASE a # c
      BY <2>2, <2>4, <2>6, <3>2 DEF Consistent, TallyCounts
    <3> QED BY <3>1, <3>2
  <2> QED BY <1>4, <2>4, <2>5, <2>6, <2>7, <2>8, <2>9 DEF Consistent
<1>5. CASE c \in s.Signers
  <2> DEFINE T == [b \in Addrs |-> IF b = c THEN NoTally ELSE TallyWithout(s, c, b)]
             V == {v \in s.Votes : v.Address # c /\ v.Signer # c}
             out == [s EXCEPT !.Signers = @ \ {c}]
             R == {r \in s.Recents : ~(n >= limit(out) /\ r.block = n - limit(out))}
  <2>1. t = [s EXCEPT !.Signers = s.Signers \ {c}, !.Recents = R, !.Votes = V, !.Tally = T]
    <3> DEFINE u == ShiftOut(out, n)
               d == DiscardVotesOf(u, c)
               D == [b \in Addrs |-> TallyWithout(s, c, b)]
    <3>1. u = [s EXCEPT !.Signers = s.Signers \ {c}, !.Recents = R]
      <4>1. u = [out EXCEPT !.Recents = {r \in @ : ~(n >= limit(out) /\ r.block = n - limit(out))}]
        BY DEF ShiftOut
      <4>2. out.Recents = s.Recents
        BY <1>1 DEF Snapshots
      <4> QED BY <1>1, <4>1, <4>2 DEF Snapshots
    <3>2. u.Tally = s.Tally /\ u.Votes = s.Votes
      BY <1>1, <3>1 DEF Snapshots
    <3> HIDE DEF u, R
    <3>3. d = [u EXCEPT !.Tally = D, !.Votes = {v \in s.Votes : v.Signer # c}]
      BY <3>2 DEF DiscardVotesOf, TallyWithout
    <3>4. t = [d EXCEPT !.Votes = {v \in @ : v.Address # c}, !.Tally[c] = NoTally]
      BY <1>2, <1>5 DEF Change, u
    <3> HIDE DEF d
    <3>5. d = [s EXCEPT !.Signers = s.Signers \ {c}, !.Recents = R, !.Tally = D,
                        !.Votes = {v \in s.Votes : v.Signer # c}]
      BY <1>1, <3>1, <3>3 DEF Snapshots
    <3>6. d.Tally = D /\ d.Votes = {v \in s.Votes : v.Signer # c}
      BY <1>1, <3>5 DEF Snapshots
    <3>7. T = [D EXCEPT ![c] = NoTally] /\ V = {v \in d.Votes : v.Address # c}
      BY <3>6
    <3> HIDE DEF D, T, V
    <3>8. t = [d EXCEPT !.Votes = V, !.Tally = T]
      BY <1>1, <3>4, <3>5, <3>6, <3>7 DEF Snapshots
    <3> QED BY <1>1, <3>5, <3>8 DEF Snapshots
  <2>2. T \in [Addrs -> Tallies] /\ T[c] = NoTally /\ \A a \in Addrs : a # c => T[a] = TallyWithout(s, c, a)
    BY <1>3, TallyWithoutCounts
  <2>3. /\ V \subseteq s.Votes /\ V \subseteq Ballots
        /\ \A v \in s.Votes : v \in V <=> v.Address # c /\ v.Signer # c
    BY <1>1 DEF Snapshots
  <2>4. R \subseteq s.Recents /\ R \subseteq Signed /\ \A r \in s.Recents : r \in R \/ r.block = n - limit(out)
    BY <1>1 DEF Snapshots
  <2>5. out.Signers = s.Signers \ {c}
    BY <1>1 DEF Snapshots
  <2> HIDE DEF T, V, R, out
  <2>6. /\ t \in Snapshots /\ t.Signers = s.Signers \ {c} /\ t.Recents = R /\ t.Votes = V
        /\ t.Number = s.Number /\ t.ok = s.ok /\ t.Tally = T
    BY <1>1, <2>1, <2>2, <2>3, <2>4 DEF Snapshots
  <2>7. limit(out) = limit(t)
    BY <2>5, <2>6 DEF limit
  <2>8. Voters(t, c) = {}
    BY <2>3, <2>6 DEF Voters
  <2>9. \A a : a # c => Voters(t, a) = Voters(s, a) \ {c}
    BY <2>3, <2>6 DEF Voters
  <2>10. IsFiniteSet(t.Signers) /\ OneVoteEach(t) /\ VotesAreSensible(t)
    BY <2>3, <2>6, FS_Subset DEF Consistent, OneVoteEach, VotesAreSensible
  <2>11. TallyCounts(t)
    <3> SUFFICES ASSUME NEW a \in Addrs
                 PROVE  /\ t.Tally[a].Votes = Cardinality(Voters(t, a))
                        /\ t.Tally[a].Votes > 0 => (t.Tally[a].Authorize <=> a \notin t.Signers)
      BY DEF TallyCounts
    <3>1. CASE a = c
      BY <1>3, <2>2, <2>6, <2>8, <3>1, FS_EmptySet
    <3>2. CASE a # c
      <4>1. t.Tally[a] = TallyWithout(s, c, a) /\ Voters(t, a) = Voters(s, a) \ {c}
        BY <2>2, <2>6, <2>9, <3>2
      <4> QED BY <2>6, <3>2, <4>1, TallyWithoutCounts
    <3> QED BY <3>1, <3>2
  <2> QED BY <1>5, <2>4, <2>6, <2>7, <2>8, <2>9, <2>10, <2>11 DEF Consistent
<1> QED BY <1>4, <1>5

-----------------------------------------------------------------------------
(* apply.                                                                   *)

\* The signers with a vote on an account once the header's own vote is in
Heard(s, h, a) ==
  LET before == IF (s.Number + 1) % Epoch = 0 THEN {} ELSE Voters(s, a)
  IN  IF a # h.coinbase THEN before
      ELSE IF h.auth <=> a \notin s.Signers THEN before \cup {h.signer} ELSE before \ {h.signer}

\* Nothing is decided, or what more than half of the signers want of the coinbase.
Decided(s, h, t) ==
  \/ /\ t.Signers = s.Signers
     /\ \A a : Voters(t, a) = Heard(s, h, a)
  \/ /\ 2 * Cardinality(Heard(s, h, h.coinbase)) > Cardinality(s.Signers)
     /\ h.coinbase \in s.Signers => t.Signers = s.Signers \ {h.coinbase}
     /\ h.coinbase \notin s.Signers => t.Signers = s.Signers \cup {h.coinbase}
     /\ Voters(t, h.coinbase) = {}
     /\ \A a : a # h.coinbase => Voters(t, a) = Heard(s, h, a) \ {h.coinbase}

LEMMA LimitType ==
  ASSUME NEW s, IsFiniteSet(s.Signers)
  PROVE  Cardinality(s.Signers) \in Nat /\ limit(s) \in Nat /\ limit(s) >= 1
         /\ 2 * (limit(s) - 1) <= Cardinality(s.Signers)
<1>1. Cardinality(s.Signers) \in Nat
  BY FS_CardinalityType
<1> QED BY <1>1 DEF limit

\* A vote that is cast adds its signer to the voters.
LEMMA CastAdds ==
  ASSUME NEW s, Consistent(s), NEW h \in HeaderSet, h.signer \in s.Signers, NEW n \in Nat,
         h.signer \notin Voters(s, h.coinbase), NEW t, t = CastVote(s, h, n),
         NEW V, V = Voters(s, h.coinbase) \cup {h.signer}, h.auth <=> h.coinbase \notin s.Signers
  PROVE  Voters(t, h.coinbase) = V
BY CastStage

\* What apply does, when it succeeds; when it fails, the signers stay and the snapshot is not ok.
LEMMA ApplyStep ==
  ASSUME NEW s, Consistent(s), NEW h \in HeaderSet, NEW t, t = apply(s, h), t.ok \/ t.Signers # s.Signers,
         NEW n, n = s.Number + 1
  PROVE  /\ Consistent(t) /\ t.Number = n
         /\ h.signer \in s.Signers
         /\ \A r \in s.Recents : r.signer = h.signer => r.block = n - limit(s)
         /\ \A r \in t.Recents : r \in s.Recents \/ r = [block |-> n, signer |-> h.signer]
         /\ \A r \in s.Recents \cup {[block |-> n, signer |-> h.signer]} :
              r \in t.Recents \/ r.block = n - limit(s) \/ r.block = n - limit(t)
         /\ Decided(s, h, t)
<1> DEFINE me == [block |-> n, signer |-> h.signer]
           c  == h.coinbase
           s0 == EpochReset(s, n)
           R  == {r \in s.Recents : ~(n >= limit(s) /\ r.block = n - limit(s))}
           s1 == ShiftOut(s0, n)
           s2 == [s1 EXCEPT !.Recents = @ \cup {me}]
           d  == DiscardPrevious(s2, h)
           s3 == CastVote(d, h, n)
           s4 == IF Passed(s3, c) THEN Change(s3, c, n) ELSE s3
<1>1. s \in Snapshots /\ n \in Nat /\ me \in Signed /\ c \in Addrs /\ h.signer \in Addrs
  BY DEF Consistent, Snapshots, Signed, HeaderSet
<1>2. MayApply(s1, h) /\ t = [s4 EXCEPT !.Number = n]
  <2>1. t = IF ~MayApply(s1, h) THEN [s EXCEPT !.ok = FALSE] ELSE [s4 EXCEPT !.Number = n]
    BY DEF apply
  <2>2. [s EXCEPT !.ok = FALSE].ok = FALSE /\ [s EXCEPT !.ok = FALSE].Signers = s.Signers
    BY <1>1 DEF Snapshots
  <2> HIDE DEF s1, s4
  <2> QED BY <2>1, <2>2
<1> HIDE DEF s4
<1>3. /\ Consistent(s0) /\ s0.Signers = s.Signers /\ s0.Recents = s.Recents /\ s0.ok = s.ok
      /\ n % Epoch = 0 => \A a : Voters(s0, a) = {}
      /\ n % Epoch # 0 => \A a : Voters(s0, a) = Voters(s, a)
  <2>1. s0 = EpochReset(s, n)
    OBVIOUS
  <2> HIDE DEF s0
  <2> QED BY <2>1, ResetStage
<1> HIDE DEF s0
<1>4. limit(s0) = limit(s)
  BY <1>3 DEF limit
<1>5. R \in SUBSET Signed /\ s1 = [s0 EXCEPT !.Recents = R]
  BY <1>1, <1>3, <1>4 DEF ShiftOut, Snapshots
<1> HIDE DEF s1
<1>6. R \subseteq s.Recents /\ \A r \in s.Recents : r \in R \/ r.block = n - limit(s)
  OBVIOUS
<1> HIDE DEF R
<1>7. Consistent(s1) /\ s1.Signers = s.Signers /\ s1.Recents = R /\ \A a : Voters(s1, a) = Voters(s0, a)
  BY <1>3, <1>5, RecentsStage
<1>8. Consistent(s2) /\ s2.Signers = s.Signers /\ s2.Recents = R \cup {me} /\ \A a : Voters(s2, a) = Voters(s0, a)
  <2>1. R \cup {me} \in SUBSET Signed
    BY <1>1, <1>5
  <2>2. s2 = [s1 EXCEPT !.Recents = R \cup {me}]
    BY <1>7
  <2> HIDE DEF s2, me
  <2> QED BY <1>7, <2>1, <2>2, RecentsStage
<1>9. h.signer \in s.Signers /\ \A r \in s.Recents : r.signer = h.signer => r.block = n - limit(s)
  BY <1>2, <1>6, <1>7 DEF MayApply
<1> HIDE DEF s2
<1>10. /\ Consistent(d) /\ d.Signers = s.Signers /\ d.Recents = R \cup {me}
       /\ Voters(d, c) = Voters(s0, c) \ {h.signer}
       /\ \A a : a # c => Voters(d, a) = Voters(s0, a)
  <2>1. d = DiscardPrevious(s2, h) /\ c = h.coinbase
    OBVIOUS
  <2> HIDE DEF d, c
  <2>2. /\ Consistent(d) /\ d.Signers = s2.Signers /\ d.Recents = s2.Recents
        /\ Voters(d, h.coinbase) = Voters(s2, h.coinbase) \ {h.signer}
        /\ \A a : a # h.coinbase => Voters(d, a) = Voters(s2, a)
    <3>1. Consistent(s2)
      BY <1>8
    <3>2. d = DiscardPrevious(s2, h)
      BY <2>1
    <3>3. Consistent(d)
      BY <3>1, <3>2, DiscardStage
    <3>4. d.Signers = s2.Signers /\ d.Recents = s2.Recents
      BY <3>1, <3>2, DiscardStage
    <3>5. Voters(d, h.coinbase) = Voters(s2, h.coinbase) \ {h.signer}
      BY ONLY <3>1, <3>2, h \in HeaderSet, DiscardStage, ZenonT(60)
    <3>6. \A a : a # h.coinbase => Voters(d, a) = Voters(s2, a)
      BY <3>1, <3>2, DiscardStage
    <3> QED BY <3>3, <3>4, <3>5, <3>6
  <2> QED BY <1>8, <2>1, <2>2
<1> HIDE DEF d
<1>11. /\ Consistent(s3) /\ s3.Signers = s.Signers /\ s3.Recents = R \cup {me}
       /\ Voters(s3, c) = IF h.auth <=> c \notin s.Signers THEN Voters(d, c) \cup {h.signer} ELSE Voters(d, c)
       /\ \A a : a # c => Voters(s3, a) = Voters(d, a)
  <2>1. h.signer \in d.Signers /\ h.signer \notin Voters(d, h.coinbase)
    BY <1>9, <1>10
  <2>2. s3 = CastVote(d, h, n)
    OBVIOUS
  <2> HIDE DEF s3
  <2>3. /\ Consistent(s3) /\ s3.Signers = d.Signers /\ s3.Recents = d.Recents
        /\ (h.auth <=> h.coinbase \notin d.Signers) => Voters(s3, h.coinbase) = Voters(d, h.coinbase) \cup {h.signer}
        /\ ~(h.auth <=> h.coinbase \notin d.Signers) => Voters(s3, h.coinbase) = Voters(d, h.coinbase)
        /\ \A a : a # h.coinbase => Voters(s3, a) = Voters(d, a)
    <3>1. Consistent(d) /\ n \in Nat
      BY <1>1, <1>10
    <3>2. Consistent(s3) /\ s3.Signers = d.Signers /\ s3.Recents = d.Recents
      BY <2>1, <2>2, <3>1, CastStage
    <3>3. (h.auth <=> h.coinbase \notin d.Signers) => Voters(s3, h.coinbase) = Voters(d, h.coinbase) \cup {h.signer}
      <4> DEFINE joined == Voters(d, h.coinbase) \cup {h.signer}
      <4>1. joined = Voters(d, h.coinbase) \cup {h.signer}
        OBVIOUS
      <4> HIDE DEF joined
      <4>2. (h.auth <=> h.coinbase \notin d.Signers) => Voters(s3, h.coinbase) = joined
        BY <2>1, <2>2, <3>1, <4>1, CastAdds
      <4> QED BY <4>2 DEF joined
    <3>4. ~(h.auth <=> h.coinbase \notin d.Signers) => Voters(s3, h.coinbase) = Voters(d, h.coinbase)
      BY <2>1, <2>2, <3>1, CastStage
    <3>5. \A a : a # h.coinbase => Voters(s3, a) = Voters(d, a)
      BY <2>1, <2>2, <3>1, CastStage
    <3> QED BY <3>2, <3>3, <3>4, <3>5
  <2> QED BY <1>10, <2>3
<1> HIDE DEF s3
<1>12. \A a : Voters(s3, a) = Heard(s, h, a)
  <2> SUFFICES ASSUME NEW a PROVE Voters(s3, a) = Heard(s, h, a)
    OBVIOUS
  <2> DEFINE before == IF n % Epoch = 0 THEN {} ELSE Voters(s, a)
  <2>1. before = Voters(s0, a)
    BY <1>3
  <2>2. Heard(s, h, a) = IF a # c THEN before
                         ELSE IF h.auth <=> a \notin s.Signers THEN before \cup {h.signer} ELSE before \ {h.signer}
    BY DEF Heard
  <2> HIDE DEF before, c
  <2>3. CASE a # c
    BY <1>10, <1>11, <2>1, <2>2, <2>3
  <2>4. CASE a = c
    <3>1. Voters(d, a) = before \ {h.signer}
      BY <1>10, <2>1, <2>4
    <3>2. Voters(s3, a) = IF h.auth <=> a \notin s.Signers THEN Voters(d, a) \cup {h.signer} ELSE Voters(d, a)
      BY <1>11, <2>4
    <3> QED BY <2>2, <2>4, <3>1, <3>2
  <2> QED BY <2>3, <2>4
<1>13. /\ Consistent(s4) /\ Decided(s, h, s4) /\ s4.Recents \subseteq R \cup {me}
       /\ \A r \in R \cup {me} : r \in s4.Recents \/ r.block = n - limit(s4)
  <2>1. CASE ~Passed(s3, c)
    <3>1. s4 = s3
      BY <2>1 DEF s4
    <3> QED BY <1>11, <1>12, <3>1 DEF Decided
  <2>2. CASE Passed(s3, c)
    <3>1. s4 = Change(s3, c, n)
      BY <2>2 DEF s4
    <3>2. 2 * Cardinality(Heard(s, h, c)) > Cardinality(s.Signers)
      <4>1. /\ s3.Tally[c].Votes = Cardinality(Heard(s, h, c)) /\ s3.Tally[c].Votes \in Nat
        BY <1>1, <1>11, <1>12 DEF Consistent, TallyCounts, Snapshots, Tallies
      <4>2. Cardinality(s.Signers) \in Nat
        BY FS_CardinalityType DEF Consistent
      <4>3. Cardinality(Heard(s, h, c)) > Cardinality(s.Signers) \div 2
        BY <1>11, <2>2, <4>1 DEF Passed
      <4> QED BY <4>1, <4>2, <4>3
    <3>3. /\ Consistent(s4)
          /\ c \in s.Signers => s4.Signers = s.Signers \ {c}
          /\ c \notin s.Signers => s4.Signers = s.Signers \cup {c}
          /\ s4.Recents \subseteq R \cup {me}
          /\ \A r \in R \cup {me} : r \in s4.Recents \/ r.block = n - limit(s4)
          /\ Voters(s4, c) = {}
          /\ \A a : a # c => Voters(s4, a) = Voters(s3, a) \ {c}
      <4> HIDE DEF c
      <4> QED BY <1>1, <1>11, <2>2, <3>1, ChangeStage
    <3> QED BY <1>12, <3>2, <3>3 DEF Decided
  <2> QED BY <2>1, <2>2
<1>14. /\ t \in Snapshots /\ t.Signers = s4.Signers /\ t.Recents = s4.Recents /\ t.Votes = s4.Votes
       /\ t.Number = n /\ t.Tally = s4.Tally
  BY <1>1, <1>2, <1>13 DEF Consistent, Snapshots
<1>15. (\A a : Voters(t, a) = Voters(s4, a)) /\ limit(t) = limit(s4)
  BY <1>14 DEF Voters, limit
<1>16. Consistent(t)
  BY <1>13, <1>14, <1>15 DEF Consistent, OneVoteEach, VotesAreSensible, TallyCounts
<1>17. Decided(s, h, t)
  BY <1>13, <1>14, <1>15 DEF Decided
<1> HIDE DEF me
<1> QED BY <1>6, <1>9, <1>13, <1>14, <1>15, <1>16, <1>17 DEF me

-----------------------------------------------------------------------------
(* What a block does to the support for an account.                         *)

\* Supports, of a chain H, the changes C and the signers S
SupportIn(H, C, S, s, a) ==
  \E n \in 1 .. Len(H) :
     /\ n > C[a] /\ n > C[s]
     /\ H[n].signer = s /\ H[n].coinbase = a
     /\ H[n].auth <=> a \notin S
     /\ \A k \in n + 1 .. Len(H) : k % Epoch # 0 /\ (H[k].signer = s => H[k].coinbase # a)

\* The header itself is the last word
SaysSo(h, S, s, a) == h.signer = s /\ h.coinbase = a /\ (h.auth <=> a \notin S)

\* One more header h, with which the signers S become T
OneMore(H, C, S, h, G, D, T) ==
  /\ H \in Seq(HeaderSet) /\ C \in [Addrs -> 0 .. Len(H)] /\ h \in HeaderSet /\ G = Append(H, h)
  /\ \A b \in Addrs : /\ ~(b \in S <=> b \in T) => D[b] = Len(H) + 1
                      /\ (b \in S <=> b \in T) => D[b] = C[b]

LEMMA SupportStep ==
  ASSUME NEW H, NEW C, NEW S, NEW h, NEW G, NEW D, NEW T, OneMore(H, C, S, h, G, D, T),
         NEW s \in Addrs, NEW a \in Addrs
  PROVE  /\ ~(a \in S <=> a \in T) => ~SupportIn(G, D, T, s, a)
         /\ ~(s \in S <=> s \in T) => ~SupportIn(G, D, T, s, a)
         /\ (a \in S <=> a \in T) /\ (s \in S <=> s \in T) =>
              (SupportIn(G, D, T, s, a) <=>
                 \/ SaysSo(h, S, s, a)
                 \/ /\ SupportIn(H, C, S, s, a) /\ (Len(H) + 1) % Epoch # 0
                    /\ ~(h.signer = s /\ h.coinbase = a))
<1> DEFINE N == Len(H) + 1
<1>1. /\ Len(H) \in Nat /\ Len(G) = N /\ N \in Nat /\ G[N] = h
      /\ \A k \in 1 .. Len(H) : G[k] = H[k]
  BY DEF OneMore
<1>2. C[a] \in 0 .. Len(H) /\ C[s] \in 0 .. Len(H)
  BY DEF OneMore
<1>3. \A b \in Addrs : /\ ~(b \in S <=> b \in T) => D[b] = N
                       /\ (b \in S <=> b \in T) => D[b] = C[b]
  BY DEF OneMore
<1> HIDE DEF N
<1>4. ASSUME ~(a \in S <=> a \in T) \/ ~(s \in S <=> s \in T) PROVE ~SupportIn(G, D, T, s, a)
  <2>1. D[a] = N \/ D[s] = N
    BY <1>3, <1>4
  <2>2. ASSUME NEW n \in 1 .. Len(G), n > D[a], n > D[s] PROVE FALSE
    <3>1. n \in Nat /\ n <= N
      BY <1>1, <2>2
    <3> QED BY <1>1, <2>1, <2>2, <3>1
  <2> QED BY <2>2 DEF SupportIn
<1>5. ASSUME (a \in S <=> a \in T), (s \in S <=> s \in T), SupportIn(G, D, T, s, a), ~SaysSo(h, S, s, a)
      PROVE  SupportIn(H, C, S, s, a) /\ N % Epoch # 0 /\ ~(h.signer = s /\ h.coinbase = a)
  <2>1. PICK n \in 1 .. Len(G) :
          /\ n > D[a] /\ n > D[s] /\ G[n].signer = s /\ G[n].coinbase = a /\ (G[n].auth <=> a \notin T)
          /\ \A k \in n + 1 .. Len(G) : k % Epoch # 0 /\ (G[k].signer = s => G[k].coinbase # a)
    BY <1>5 DEF SupportIn
  <2>2. n # N
    BY <1>1, <1>5, <2>1 DEF SaysSo
  <2>3. n \in 1 .. Len(H) /\ N \in n + 1 .. Len(G) /\ G[n] = H[n]
    <3>1. n \in 1 .. Len(H) /\ N \in n + 1 .. Len(G)
      BY <1>1, <2>1, <2>2 DEF N
    <3> QED BY <1>1, <3>1
  <2>4. N % Epoch # 0 /\ ~(h.signer = s /\ h.coinbase = a)
    BY <1>1, <2>1, <2>3
  <2>5. \A k \in n + 1 .. Len(H) : k % Epoch # 0 /\ (H[k].signer = s => H[k].coinbase # a)
    <3> SUFFICES ASSUME NEW k \in n + 1 .. Len(H) PROVE k % Epoch # 0 /\ (H[k].signer = s => H[k].coinbase # a)
      OBVIOUS
    <3>1. k \in n + 1 .. Len(G) /\ k \in 1 .. Len(H)
      BY <1>1, <2>3 DEF N
    <3>2. G[k] = H[k]
      BY <1>1, <3>1
    <3> QED BY <2>1, <3>1, <3>2
  <2>6. n > C[a] /\ n > C[s] /\ H[n].signer = s /\ H[n].coinbase = a /\ (H[n].auth <=> a \notin S)
    BY <1>3, <1>5, <2>1, <2>3
  <2>7. SupportIn(H, C, S, s, a)
    BY <2>3, <2>5, <2>6 DEF SupportIn
  <2> QED BY <2>4, <2>7
<1>6. ASSUME (a \in S <=> a \in T), (s \in S <=> s \in T), SaysSo(h, S, s, a) PROVE SupportIn(G, D, T, s, a)
  <2>1. N \in 1 .. Len(G) /\ N > D[a] /\ N > D[s]
    BY <1>1, <1>2, <1>3, <1>6 DEF N
  <2>2. \A k \in N + 1 .. Len(G) : k % Epoch # 0 /\ (G[k].signer = s => G[k].coinbase # a)
    BY <1>1
  <2>3. G[N].signer = s /\ G[N].coinbase = a /\ (G[N].auth <=> a \notin T)
    BY <1>1, <1>6 DEF SaysSo
  <2> QED BY <2>1, <2>2, <2>3 DEF SupportIn
<1>7. ASSUME (a \in S <=> a \in T), (s \in S <=> s \in T), SupportIn(H, C, S, s, a), N % Epoch # 0,
             ~(h.signer = s /\ h.coinbase = a)
      PROVE  SupportIn(G, D, T, s, a)
  <2>1. PICK n \in 1 .. Len(H) :
          /\ n > C[a] /\ n > C[s] /\ H[n].signer = s /\ H[n].coinbase = a /\ (H[n].auth <=> a \notin S)
          /\ \A k \in n + 1 .. Len(H) : k % Epoch # 0 /\ (H[k].signer = s => H[k].coinbase # a)
    BY <1>7 DEF SupportIn
  <2>2. n \in 1 .. Len(G) /\ G[n] = H[n]
    <3>1. n \in 1 .. Len(G)
      BY <1>1 DEF N
    <3> QED BY <1>1, <3>1
  <2>3. \A k \in n + 1 .. Len(G) : k % Epoch # 0 /\ (G[k].signer = s => G[k].coinbase # a)
    <3> SUFFICES ASSUME NEW k \in n + 1 .. Len(G) PROVE k % Epoch # 0 /\ (G[k].signer = s => G[k].coinbase # a)
      OBVIOUS
    <3>1. CASE k = N
      BY <1>1, <1>7, <3>1
    <3>2. CASE k # N
      <4>1. k \in n + 1 .. Len(H) /\ k \in 1 .. Len(H)
        <5>1. n \in Nat /\ n >= 1 /\ k \in Int /\ k >= n + 1 /\ k <= N /\ N = Len(H) + 1 /\ Len(H) \in Nat
          BY <1>1 DEF N
        <5> HIDE DEF N
        <5>2. k <= Len(H) /\ k >= 1
          BY <3>2, <5>1
        <5> QED BY <5>1, <5>2
      <4>2. G[k] = H[k]
        BY <1>1, <4>1
      <4> QED BY <2>1, <4>1, <4>2
    <3> QED BY <3>1, <3>2
  <2>4. n > D[a] /\ n > D[s] /\ G[n].signer = s /\ G[n].coinbase = a /\ (G[n].auth <=> a \notin T)
    BY <1>3, <1>7, <2>1, <2>2
  <2> QED BY <2>2, <2>3, <2>4 DEF SupportIn
<1>8. Len(H) + 1 = N
  BY DEF N
<1>9. (a \in S <=> a \in T) /\ (s \in S <=> s \in T) =>
        (SupportIn(G, D, T, s, a) <=>
           SaysSo(h, S, s, a) \/ (SupportIn(H, C, S, s, a) /\ N % Epoch # 0 /\ ~(h.signer = s /\ h.coinbase = a)))
  BY <1>5, <1>6, <1>7
<1> QED BY <1>4, <1>8, <1>9

-----------------------------------------------------------------------------
(* The inductive invariant.                                                 *)

CliqueTyped == headers \in Seq(HeaderSet) /\ changed \in [Addrs -> 0 .. Height]

\* The recent signers are those of their blocks and reach back as far as a signer of
\* the next block has to wait.
RecentsAreSigners == \A r \in snap.Recents : r.block \in 1 .. Height /\ r.signer = headers[r.block].signer
RecentsReachBack ==
  \A k \in 1 .. Height :
     k > Height + 1 - limit(snap) => [block |-> k, signer |-> headers[k].signer] \in snap.Recents
VotersSupport == \A a \in Addrs : Voters(snap, a) = Supporters(a)

CliqueInv ==
  /\ CliqueTyped
  /\ snap.ok => /\ Consistent(snap) /\ snap.Number = Height
                /\ RecentsAreSigners /\ RecentsReachBack /\ VotersSupport

LEMMA SupportersAre ==
  ASSUME NEW a
  PROVE  Supporters(a) = {s \in snap.Signers : SupportIn(headers, changed, snap.Signers, s, a)}
BY DEF Supporters, Supports, SupportIn, Height

LEMMA CliqueInitInv == CliqueInit => CliqueInv
<1> SUFFICES ASSUME CliqueInit PROVE CliqueInv
  OBVIOUS
<1>1. headers = <<>> /\ Height = 0 /\ changed = [a \in Addrs |-> 0] /\ CliqueTyped
  BY DEF CliqueInit, Height, CliqueTyped
<1>2. /\ snap.ok = TRUE /\ snap.Number = 0 /\ snap.Signers = Genesis /\ snap.Recents = {} /\ snap.Votes = {}
      /\ snap.Tally = [a \in Addrs |-> NoTally] /\ snap \in Snapshots
  <2>1. NoTally \in Tallies /\ Genesis \subseteq Addrs
    BY DEF NoTally, Tallies, Addrs
  <2>2. snap = [ok |-> TRUE, Number |-> 0, Signers |-> Genesis, Recents |-> {}, Votes |-> {},
                Tally |-> [a \in Addrs |-> NoTally]]
    BY DEF CliqueInit, newSnapshot
  <2> QED BY <2>1, <2>2 DEF Snapshots
<1>3. \A a : Voters(snap, a) = {}
  BY <1>2 DEF Voters
<1>4. Consistent(snap)
  <2>1. TallyCounts(snap)
    <3>1. Cardinality({}) = 0
      BY FS_EmptySet
    <3>2. \A a : Cardinality(Voters(snap, a)) = 0
      BY ONLY <1>3, <3>1, Zenon
    <3> QED BY <1>2, <3>2 DEF TallyCounts, NoTally
  <2> QED BY <1>2, <2>1, GenesisIsSigned DEF Consistent, OneVoteEach, VotesAreSensible
<1>5. \A a : Supporters(a) = {}
  BY <1>1 DEF Supporters, Supports
<1>6. RecentsAreSigners /\ RecentsReachBack
  BY <1>1, <1>2 DEF RecentsAreSigners, RecentsReachBack
<1>7. VotersSupport
  BY <1>3, <1>5 DEF VotersSupport
<1> QED BY <1>1, <1>2, <1>4, <1>6, <1>7 DEF CliqueInv

\* Every header of a step is a header, and extends the chain.
LEMMA StepIsExtend ==
  ASSUME CliqueInv, CliqueNext
  PROVE  snap.ok /\ \E h \in HeaderSet : Extend(h)
<1>1. ASSUME snap.ok PROVE snap.Signers \in SUBSET Addrs
  BY <1>1 DEF CliqueInv, Consistent, Snapshots
<1>2. ASSUME NEW signer \in Addrs, NEW proposals \in Proposals, SealBlock(signer, proposals)
      PROVE  snap.ok /\ \E h \in HeaderSet : Extend(h)
  <2>1. snap.ok
    BY <1>2 DEF SealBlock
  <2>2. PICK h \in Prepared(snap, Height + 1, signer, proposals) : Extend(h)
    BY <1>2 DEF SealBlock
  <2>3. h \in HeaderSet
    <3>1. PICK coinbase, auth, diff, list : h = Header(signer, coinbase, auth, diff, list)
            /\ coinbase \in DOMAIN proposals \cup {Nobody} /\ (auth = FALSE \/ (coinbase \in DOMAIN proposals /\ auth = proposals[coinbase]))
            /\ diff \in {diffInTurn, diffNoTurn} /\ list \in {{}, snap.Signers}
      BY <2>2 DEF Prepared, Sensible
    <3>2. PICK X \in SUBSET Subjects : proposals \in [X -> BOOLEAN]
      BY DEF Proposals
    <3>3. coinbase \in Addrs /\ auth \in BOOLEAN
      BY <3>1, <3>2 DEF Addrs
    <3> QED BY <1>1, <2>1, <3>1, <3>3 DEF HeaderSet, Header
  <2> QED BY <2>1, <2>2, <2>3
<1>3. ASSUME NEW signer \in Addrs, NEW coinbase \in Subjects \cup {Nobody}, NEW auth \in BOOLEAN,
             NEW diff \in {diffInTurn, diffNoTurn}, NEW list \in {{}, snap.Signers},
             ReceiveBlock(Header(signer, coinbase, auth, diff, list))
      PROVE  snap.ok /\ \E h \in HeaderSet : Extend(h)
  <2>1. snap.ok /\ Extend(Header(signer, coinbase, auth, diff, list))
    BY <1>3 DEF ReceiveBlock
  <2>2. Header(signer, coinbase, auth, diff, list) \in HeaderSet
    BY <1>1, <2>1 DEF HeaderSet, Header, Addrs
  <2> QED BY <2>1, <2>2
<1> QED BY <1>2, <1>3 DEF CliqueNext

\* The voters stay those whose last word is for a change.
LEMMA VotersStep ==
  ASSUME CliqueInv, snap.ok, NEW h \in HeaderSet, Extend(h), snap'.ok
  PROVE  VotersSupport'
<1> DEFINE N == Height + 1
           c == h.coinbase
           S == snap.Signers
           T == snap'.Signers
           Sup(s, a) == SupportIn(headers, changed, S, s, a)
           New(s, a) == SupportIn(headers', changed', T, s, a)
<1>1. /\ headers \in Seq(HeaderSet) /\ changed \in [Addrs -> 0 .. Len(headers)] /\ Height = Len(headers)
      /\ Consistent(snap) /\ snap.Number = Height /\ S \subseteq Addrs
  BY DEF CliqueInv, CliqueTyped, Consistent, Snapshots, Height
<1>2. headers' = Append(headers, h) /\ snap' = apply(snap, h)
      /\ changed' = [b \in Addrs |-> IF (b \in S) # (b \in T) THEN Len(headers) + 1 ELSE changed[b]]
  BY <1>1 DEF Extend
<1>3. Consistent(snap') /\ h.signer \in S /\ Decided(snap, h, snap') /\ T \subseteq Addrs
  <2>1. Consistent(snap') /\ h.signer \in S /\ Decided(snap, h, snap')
    BY <1>1, <1>2, ApplyStep
  <2> QED BY <2>1 DEF Consistent, Snapshots
<1>4. \A a \in Addrs : Voters(snap, a) = {s \in S : Sup(s, a)}
  BY SupportersAre DEF CliqueInv, VotersSupport
<1>5. \A a : Supporters(a)' = {s \in T : New(s, a)}
  BY DEF Supporters, Supports, SupportIn, Height
<1>6. \A s, a \in Addrs :
        /\ ~(a \in S <=> a \in T) => ~New(s, a)
        /\ ~(s \in S <=> s \in T) => ~New(s, a)
        /\ (a \in S <=> a \in T) /\ (s \in S <=> s \in T) =>
             (New(s, a) <=> SaysSo(h, S, s, a) \/ (Sup(s, a) /\ N % Epoch # 0 /\ ~(h.signer = s /\ c = a)))
  <2> SUFFICES ASSUME NEW s \in Addrs, NEW a \in Addrs
               PROVE  /\ ~(a \in S <=> a \in T) => ~New(s, a)
                      /\ ~(s \in S <=> s \in T) => ~New(s, a)
                      /\ (a \in S <=> a \in T) /\ (s \in S <=> s \in T) =>
                           (New(s, a) <=> SaysSo(h, S, s, a) \/ (Sup(s, a) /\ N % Epoch # 0 /\ ~(h.signer = s /\ c = a)))
    OBVIOUS
  <2>1. N = Len(headers) + 1
    BY <1>1
  <2>2. OneMore(headers, changed, S, h, headers', changed', T)
    BY <1>1, <1>2 DEF OneMore
  <2> HIDE DEF S, T, N
  <2> QED BY <2>1, <2>2, SupportStep
<1> HIDE DEF Sup, New
<1>7. ASSUME NEW a \in Addrs, NEW s \in S
      PROVE  s \in Heard(snap, h, a) <=> SaysSo(h, S, s, a) \/ (Sup(s, a) /\ N % Epoch # 0 /\ ~(h.signer = s /\ c = a))
  <2> DEFINE before == IF N % Epoch = 0 THEN {} ELSE Voters(snap, a)
  <2>1. s \in before <=> Sup(s, a) /\ N % Epoch # 0
    BY <1>4, <1>7
  <2>2. Heard(snap, h, a) = IF a # c THEN before
                            ELSE IF h.auth <=> a \notin S THEN before \cup {h.signer} ELSE before \ {h.signer}
    BY <1>1 DEF Heard
  <2> HIDE DEF before, c, S
  <2>3. SaysSo(h, S, s, a) <=> h.signer = s /\ c = a /\ (h.auth <=> a \notin S)
    BY DEF SaysSo, c
  <2>4. CASE a # c
    BY <2>1, <2>2, <2>3, <2>4
  <2>5. CASE a = c /\ (h.auth <=> a \notin S)
    BY <2>1, <2>2, <2>3, <2>5
  <2>6. CASE a = c /\ ~(h.auth <=> a \notin S)
    BY <2>1, <2>2, <2>3, <2>6
  <2> QED BY <2>4, <2>5, <2>6
<1>8. \A a \in Addrs : Heard(snap, h, a) \subseteq S
  BY <1>1, <1>3, VotersAreFew DEF Heard
<1>9. CASE T = S /\ \A a : Voters(snap', a) = Heard(snap, h, a)
  <2> SUFFICES ASSUME NEW a \in Addrs PROVE Voters(snap', a) = Supporters(a)'
    BY DEF VotersSupport
  <2>1. \A s \in S : s \in Heard(snap, h, a) <=> New(s, a)
    BY <1>1, <1>6, <1>7, <1>9
  <2> HIDE DEF S, T
  <2> QED BY <1>5, <1>8, <1>9, <2>1
<1>10. CASE /\ c \in S => T = S \ {c}
            /\ c \notin S => T = S \cup {c}
            /\ Voters(snap', c) = {}
            /\ \A a : a # c => Voters(snap', a) = Heard(snap, h, a) \ {c}
  <2>1. c \in Addrs /\ ~(c \in S <=> c \in T) /\ \A b : b # c => (b \in S <=> b \in T)
    BY <1>10 DEF HeaderSet
  <2> SUFFICES ASSUME NEW a \in Addrs PROVE Voters(snap', a) = Supporters(a)'
    BY DEF VotersSupport
  <2>2. CASE a = c
    <3>1. \A s \in T : ~New(s, a)
      BY <1>3, <1>6, <2>1, <2>2
    <3> HIDE DEF S, T
    <3> QED BY <1>5, <1>10, <2>2, <3>1
  <2>3. CASE a # c
    <3>1. ~New(c, a)
      BY <1>6, <2>1
    <3>2. \A s \in S : s # c => (s \in Heard(snap, h, a) <=> New(s, a))
      BY <1>1, <1>6, <1>7, <2>1, <2>3
    <3>3. Voters(snap', a) = Heard(snap, h, a) \ {c} /\ Heard(snap, h, a) \subseteq S
      BY <1>8, <1>10, <2>3
    <3> HIDE DEF S, T, c
    <3> QED BY <1>5, <2>1, <3>1, <3>2, <3>3
  <2> QED BY <2>2, <2>3
<1> QED BY <1>3, <1>9, <1>10 DEF Decided

\* The recent signers keep reaching back: the limit grows by one at most in a block.
LEMMA RecentsStep ==
  ASSUME CliqueInv, snap.ok, NEW h \in HeaderSet, Extend(h), snap'.ok
  PROVE  RecentsAreSigners' /\ RecentsReachBack'
<1> DEFINE N  == Height + 1
           me == [block |-> N, signer |-> h.signer]
           L  == limit(snap)
           M  == limit(snap')
<1>1. /\ headers \in Seq(HeaderSet) /\ Consistent(snap) /\ snap.Number = Height
      /\ Height = Len(headers) /\ Height \in Nat
  BY DEF CliqueInv, CliqueTyped, Height
<1>2. /\ headers' = Append(headers, h) /\ snap' = apply(snap, h) /\ Height' = N
      /\ headers'[N] = h /\ \A k \in 1 .. Height : headers'[k] = headers[k]
  BY <1>1 DEF Extend, Height
<1>3. /\ Consistent(snap') /\ Decided(snap, h, snap')
      /\ \A r \in snap'.Recents : r \in snap.Recents \/ r = me
      /\ \A r \in snap.Recents \cup {me} : r \in snap'.Recents \/ r.block = N - L \/ r.block = N - M
  BY <1>1, <1>2, ApplyStep
<1>4. L \in Nat /\ M \in Nat /\ L >= 1 /\ M >= 1
  BY <1>1, <1>3, LimitType DEF Consistent
<1>5. M <= L + 1
  <2> DEFINE x == Cardinality(snap.Signers)
             y == Cardinality(snap'.Signers)
  <2>1. x \in Nat /\ y \in Nat
    BY <1>1, <1>3, FS_CardinalityType DEF Consistent
  <2>2. snap'.Signers \subseteq snap.Signers \cup {h.coinbase}
    BY <1>3 DEF Decided
  <2>3. y <= x + 1
    <3>1. /\ IsFiniteSet(snap.Signers \cup {h.coinbase})
          /\ Cardinality(snap.Signers \cup {h.coinbase}) \in {x, x + 1}
      BY <1>1, FS_AddElement DEF Consistent
    <3>2. y <= Cardinality(snap.Signers \cup {h.coinbase})
      BY <2>2, <3>1, FS_Subset
    <3> HIDE DEF x, y
    <3> QED BY <2>1, <3>1, <3>2
  <2>4. L = x \div 2 + 1 /\ M = y \div 2 + 1
    BY DEF limit
  <2> HIDE DEF x, y, L, M
  <2> QED BY <2>1, <2>3, <2>4
<1> HIDE DEF L, M
<1>6. RecentsAreSigners'
  <2> SUFFICES ASSUME NEW r \in snap'.Recents
               PROVE  r.block \in 1 .. Height' /\ r.signer = headers'[r.block].signer
    BY DEF RecentsAreSigners
  <2>1. CASE r = me
    BY <1>1, <1>2, <2>1
  <2>2. CASE r \in snap.Recents
    <3>1. r.block \in 1 .. Height /\ r.signer = headers[r.block].signer
      BY <2>2 DEF CliqueInv, RecentsAreSigners
    <3>2. r.block \in 1 .. N
      BY <1>1, <3>1
    <3> QED BY <1>2, <3>1, <3>2
  <2> QED BY <1>3, <2>1, <2>2
<1>7. RecentsReachBack'
  <2> SUFFICES ASSUME NEW k \in 1 .. Height', k > Height' + 1 - M
               PROVE  [block |-> k, signer |-> headers'[k].signer] \in snap'.Recents
    BY DEF RecentsReachBack, M
  <2> DEFINE r == [block |-> k, signer |-> headers'[k].signer]
  <2>1. k \in 1 .. N /\ k > N + 1 - M
    BY <1>2
  <2>2. k # N - L /\ k # N - M
    <3> HIDE DEF N
    <3>1. k > N - L /\ k > N - M
      <4>1. N \in Nat
        BY <1>1 DEF N
      <4> QED BY <1>4, <1>5, <2>1, <4>1
    <3> QED BY <1>1, <1>4, <3>1
  <2>3. r \in snap.Recents \cup {me}
    <3>1. CASE k = N
      BY <1>2, <3>1
    <3>2. CASE k # N
      <4>1. k \in 1 .. Height
        BY <1>1, <2>1, <3>2
      <4>2. k > Height + 1 - L
        BY <1>1, <1>4, <1>5, <2>1
      <4>3. [block |-> k, signer |-> headers[k].signer] \in snap.Recents
        BY <4>1, <4>2 DEF CliqueInv, RecentsReachBack, L
      <4> QED BY <1>2, <4>1, <4>3
    <3> QED BY <3>1, <3>2
  <2>4. r.block = k
    OBVIOUS
  <2> HIDE DEF r, me, N
  <2>5. r \in snap'.Recents
    BY <1>3, <2>2, <2>3, <2>4
  <2> QED BY <2>5 DEF r
<1> QED BY <1>6, <1>7

LEMMA CliqueStepInv == CliqueInv /\ [CliqueNext]_cliqueVars => CliqueInv'
<1> SUFFICES ASSUME CliqueInv, [CliqueNext]_cliqueVars PROVE CliqueInv'
  OBVIOUS
<1>1. CASE CliqueNext
  <2>1. snap.ok
    BY <1>1, StepIsExtend
  <2>2. PICK h \in HeaderSet : Extend(h)
    BY <1>1, StepIsExtend
  <2>3. CliqueTyped'
    <3>1. headers \in Seq(HeaderSet) /\ changed \in [Addrs -> 0 .. Height] /\ Height = Len(headers) /\ Height \in Nat
      BY DEF CliqueInv, CliqueTyped, Height
    <3>2. headers' \in Seq(HeaderSet) /\ Height' = Height + 1
      BY <2>2, <3>1 DEF Extend, Height
    <3>3. \A x \in 0 .. Height : x \in 0 .. Height + 1
      BY <3>1
    <3>4. Height + 1 \in 0 .. Height + 1
      BY <3>1
    <3> HIDE DEF Height
    <3>5. changed' \in [Addrs -> 0 .. Height + 1]
      BY <2>2, <3>1, <3>3, <3>4 DEF Extend
    <3> QED BY <3>2, <3>5 DEF CliqueTyped
  <2>4. ASSUME snap'.ok PROVE Consistent(snap') /\ snap'.Number = Height'
    <3>1. headers \in Seq(HeaderSet) /\ Consistent(snap) /\ snap.Number = Height
      BY <2>1 DEF CliqueInv, CliqueTyped
    <3>2. headers' = Append(headers, h) /\ snap' = apply(snap, h)
      BY <2>2 DEF Extend
    <3>3. Height' = Height + 1
      BY <3>1, <3>2 DEF Height
    <3> QED BY <2>4, <3>1, <3>2, <3>3, ApplyStep
  <2> QED BY <2>1, <2>2, <2>3, <2>4, VotersStep, RecentsStep DEF CliqueInv
<1>2. CASE UNCHANGED cliqueVars
  BY <1>2 DEF cliqueVars, CliqueInv, CliqueTyped, Height, RecentsAreSigners, RecentsReachBack, VotersSupport,
              Supporters, Supports
<1> QED BY <1>1, <1>2

-----------------------------------------------------------------------------
(* What the invariant gives.                                                *)

LEMMA InvTally == CliqueInv => TallyIsSupport
BY DEF CliqueInv, TallyIsSupport, Consistent, TallyCounts, VotersSupport, Voters

\* Fewer than half of the signers have to wait.
LEMMA InvSomeone == CliqueInv => SomeoneMaySeal
<1> SUFFICES ASSUME CliqueInv, snap.ok, snap.Signers # {}, \A s \in snap.Signers : ~MaySeal(snap, Height + 1, s)
             PROVE  FALSE
  BY DEF SomeoneMaySeal
<1> DEFINE N == Height + 1
           L == limit(snap)
           I == N - L + 1 .. N - 1
           K == {k \in 1 .. Height : k \in I /\ headers[k].signer \in snap.Signers}
           f == [k \in K |-> headers[k].signer]
<1>1. Height \in Nat /\ IsFiniteSet(snap.Signers) /\ Consistent(snap)
  BY DEF CliqueInv, CliqueTyped, Consistent, Height
<1>2. L \in Nat /\ L >= 1 /\ Cardinality(snap.Signers) \in Nat /\ 2 * (L - 1) <= Cardinality(snap.Signers)
  BY <1>1, LimitType
<1>3. Cardinality(snap.Signers) > 0
  BY <1>1, <1>2, FS_EmptySet
<1> HIDE DEF L
<1>4. \A s \in snap.Signers : \E k \in K : f[k] = s
  <2> SUFFICES ASSUME NEW s \in snap.Signers PROVE \E k \in K : f[k] = s
    OBVIOUS
  <2>1. PICK r \in snap.Recents : r.signer = s /\ ~(N >= L /\ r.block <= N - L)
    BY DEF MaySeal, L
  <2>2. r.block \in 1 .. Height /\ r.signer = headers[r.block].signer
    BY DEF CliqueInv, RecentsAreSigners
  <2>3. r.block \in I
    BY <1>1, <1>2, <2>1, <2>2
  <2>4. r.block \in K
    BY <2>1, <2>2, <2>3
  <2> QED BY <2>1, <2>2, <2>4
<1>5. IsFiniteSet(I) /\ Cardinality(I) = L - 1
  <2>1. N - L + 1 \in Int /\ N - 1 \in Int
    BY <1>1, <1>2
  <2>2. IsFiniteSet(I) /\ Cardinality(I) = IF N - L + 1 > N - 1 THEN 0 ELSE (N - 1) - (N - L + 1) + 1
    BY <2>1, FS_Interval
  <2> QED BY <1>1, <1>2, <2>2
<1> HIDE DEF I
<1>6. IsFiniteSet(K) /\ Cardinality(K) <= Cardinality(I) /\ Cardinality(K) \in Nat
  <2>1. K \subseteq I
    OBVIOUS
  <2> QED BY <1>5, <2>1, FS_Subset, FS_CardinalityType
<1>7. f \in Surjection(K, snap.Signers)
  BY <1>4 DEF Surjection
<1> HIDE DEF K, f
<1>8. Cardinality(snap.Signers) <= Cardinality(K)
  BY <1>6, <1>7, FS_Surjection
<1> QED BY <1>2, <1>3, <1>5, <1>6, <1>8

LEMMA InvSealed == CliqueInv => SealedIsAccepted
<1> SUFFICES ASSUME CliqueInv, snap.ok, NEW s \in snap.Signers, NEW proposals \in Proposals,
                    MaySeal(snap, Height + 1, s), NEW h \in Prepared(snap, Height + 1, s, proposals)
             PROVE  verifyHeader(snap, h, Height + 1)
  BY DEF SealedIsAccepted
<1> DEFINE N == Height + 1
           L == limit(snap)
           diff == IF inturn(snap, N, s) THEN diffInTurn ELSE diffNoTurn
<1>1. Height \in Nat /\ L \in Nat
  BY LimitType DEF CliqueInv, CliqueTyped, Consistent, Height
<1>2. h.signer = s /\ h.diff = diff /\ h.list = IF N % Epoch = 0 THEN snap.Signers ELSE {}
  <2> DEFINE list == IF N % Epoch = 0 THEN snap.Signers ELSE {}
  <2>1. PICK coinbase, auth : h = Header(s, coinbase, auth, diff, list)
    BY DEF Prepared
  <2> HIDE DEF diff, list
  <2>2. h.signer = s /\ h.diff = diff /\ h.list = list
    BY <2>1 DEF Header
  <2> QED BY <2>2 DEF list
<1>3. ASSUME N % Epoch = 0 PROVE h.coinbase = Nobody /\ ~h.auth
  <2>1. h \in {Header(s, Nobody, FALSE, diff, snap.Signers)}
    BY <1>3 DEF Prepared
  <2> QED BY <2>1 DEF Header
<1>4. \A r \in snap.Recents : r.signer = s => ~Before(N, L, r.block)
  <2> SUFFICES ASSUME NEW r \in snap.Recents, r.signer = s, Before(N, L, r.block) PROVE FALSE
    OBVIOUS
  <2>1. r.block \in 1 .. Height
    BY DEF CliqueInv, RecentsAreSigners
  <2>2. N >= L /\ r.block <= N - L
    BY DEF MaySeal
  <2>3. r.block > N - L
    BY DEF Before
  <2> HIDE DEF L
  <2> QED BY <1>1, <2>1, <2>2, <2>3
<1>5. verifySeal(snap, h, N)
  BY <1>2, <1>4 DEF verifySeal
<1> QED BY <1>2, <1>3, <1>5 DEF verifyHeader

\* The step of ChangeNeedsMajority
LEMMA StepMajority ==
  ASSUME CliqueInv, CliqueNext, NEW a \in Addrs, (a \in snap.Signers) # (a \in snap'.Signers)
  PROVE  LET h   == headers'[Height + 1]
             yes == IF h.auth <=> a \notin snap.Signers THEN Supporters(a) \cup {h.signer}
                    ELSE Supporters(a) \ {h.signer}
         IN  h.coinbase = a /\ 2 * Cardinality(yes) > Cardinality(snap.Signers)
<1>1. snap.ok /\ Consistent(snap) /\ headers \in Seq(HeaderSet) /\ Voters(snap, a) = Supporters(a)
  BY StepIsExtend DEF CliqueInv, CliqueTyped, VotersSupport
<1>2. PICK h \in HeaderSet : Extend(h)
  BY StepIsExtend
<1>3. headers'[Height + 1] = h /\ snap' = apply(snap, h)
  BY <1>1, <1>2 DEF Extend, Height
<1>4. Decided(snap, h, snap')
  BY <1>1, <1>3, ApplyStep
<1>5. h.coinbase = a /\ 2 * Cardinality(Heard(snap, h, a)) > Cardinality(snap.Signers)
  BY <1>4 DEF Decided
<1> DEFINE yes == IF h.auth <=> a \notin snap.Signers THEN Supporters(a) \cup {h.signer}
                  ELSE Supporters(a) \ {h.signer}
<1>6. Heard(snap, h, a) \subseteq yes
  BY <1>1, <1>5 DEF Heard
<1>7. IsFiniteSet(yes)
  BY <1>1, VotersAreFew, FS_AddElement, FS_RemoveElement
<1>8. 2 * Cardinality(yes) > Cardinality(snap.Signers)
  <2> HIDE DEF yes
  <2>1. /\ Cardinality(Heard(snap, h, a)) <= Cardinality(yes) /\ Cardinality(Heard(snap, h, a)) \in Nat
        /\ Cardinality(yes) \in Nat /\ Cardinality(snap.Signers) \in Nat
    BY <1>1, <1>6, <1>7, FS_Subset, FS_CardinalityType DEF Consistent
  <2> QED BY <1>5, <2>1
<1> QED BY <1>3, <1>5, <1>8

\* The step of NoOneSignsTooOften
LEMMA StepNotTooOften ==
  ASSUME CliqueInv, CliqueNext, snap'.ok, NEW k \in 1 .. Height, k > Height + 1 - limit(snap)
  PROVE  headers[k].signer # headers'[Height + 1].signer
<1>1. snap.ok /\ Consistent(snap) /\ headers \in Seq(HeaderSet) /\ snap.Number = Height
  BY StepIsExtend DEF CliqueInv, CliqueTyped
<1>2. PICK h \in HeaderSet : Extend(h)
  BY StepIsExtend
<1>3. headers'[Height + 1] = h /\ snap' = apply(snap, h) /\ Height \in Nat
  BY <1>1, <1>2 DEF Extend, Height
<1>4. \A r \in snap.Recents : r.signer = h.signer => r.block = Height + 1 - limit(snap)
  <2>1. \A r \in snap.Recents : r.signer = h.signer => r.block = (snap.Number + 1) - limit(snap)
    BY <1>1, <1>3, ApplyStep
  <2>2. limit(snap) \in Nat
    BY <1>1, LimitType DEF Consistent
  <2> QED BY <1>1, <1>3, <2>1, <2>2
<1>5. [block |-> k, signer |-> headers[k].signer] \in snap.Recents
  BY <1>1 DEF CliqueInv, RecentsReachBack
<1>6. ASSUME headers[k].signer = h.signer PROVE FALSE
  <2>1. k = Height + 1 - limit(snap)
    BY <1>4, <1>5, <1>6
  <2>2. limit(snap) \in Nat
    BY <1>1, LimitType DEF Consistent
  <2> QED BY <1>3, <2>1, <2>2
<1> QED BY <1>3, <1>6

\* The votes cast in headers change the signers by majority, the cached tally is what the
\* signers said, nobody signs too often, somebody may always sign and what a signer seals
\* passes the verification of the others: for any genesis block, epoch and chain.
THEOREM MajorityAlwaysRules == CliqueSpec => MajorityRules
<1>1. CliqueInv /\ [CliqueNext]_cliqueVars =>
        [\A a \in Addrs : (a \in snap.Signers) # (a \in snap'.Signers) =>
           LET h   == headers'[Height + 1]
               yes == IF h.auth <=> a \notin snap.Signers THEN Supporters(a) \cup {h.signer}
                      ELSE Supporters(a) \ {h.signer}
           IN  h.coinbase = a /\ 2 * Cardinality(yes) > Cardinality(snap.Signers)]_cliqueVars
  BY StepMajority
<1>2. CliqueInv /\ [CliqueNext]_cliqueVars =>
        [headers' # headers /\ snap'.ok =>
           \A k \in 1 .. Height :
              k > Height + 1 - limit(snap) => headers[k].signer # headers'[Height + 1].signer]_cliqueVars
  <2>1. CliqueInv /\ CliqueNext /\ snap'.ok =>
          \A k \in 1 .. Height : k > Height + 1 - limit(snap) => headers[k].signer # headers'[Height + 1].signer
    BY StepNotTooOften
  <2> QED BY <2>1
<1> QED BY <1>1, <1>2, CliqueInitInv, CliqueStepInv, InvTally, InvSomeone, InvSealed, PTL
        DEF CliqueSpec, MajorityRules, ChangeNeedsMajority, NoOneSignsTooOften

-----------------------------------------------------------------------------
(* The loop of RevertToSnapshot is a recursion down the journal.            *)

\* A set of numbers that is not empty has a least one: induction by its counterexample.
LEMMA LeastNumber ==
  ASSUME NEW S \in SUBSET Nat, S # {}
  PROVE  \E n \in S : \A m \in Nat : m < n => m \notin S
<1>1. PICK n \in S : \A m \in S : ~(<<m, n>> \in OpToRel(<, Nat))
  BY NatLessThanWellFounded, WFMin, Zenon
<1>2. ASSUME NEW m \in Nat, m < n
      PROVE  m \notin S
  <2>1. <<m, n>> \in OpToRel(<, Nat)
    BY <1>2 DEF OpToRel
  <2> QED BY <1>1, <2>1
<1> QED BY <1>2

\* The recursion that defines UndoneTo has a solution on the last m entries.
Solves(s, m, f) ==
  /\ f = [n \in (Len(s.journal) - m) .. Len(s.journal) |-> f[n]]
  /\ f[Len(s.journal)] = s
  /\ \A n \in (Len(s.journal) - m) .. (Len(s.journal) - 1) : f[n] = Undo(f[n + 1], s.journal[n + 1])

\* One more entry of the journal can be undone.
LEMMA SolutionExtends ==
  ASSUME NEW s, Len(s.journal) \in Nat, NEW m \in Nat, m < Len(s.journal), NEW f, Solves(s, m, f)
  PROVE  \E g : Solves(s, m + 1, g)
<1> DEFINE L == Len(s.journal)
           g == [n \in (L - (m + 1)) .. L |-> IF n = L - (m + 1) THEN Undo(f[n + 1], s.journal[n + 1]) ELSE f[n]]
<1>0. L \in Nat /\ m < L
  OBVIOUS
<1>1. g = [n \in (L - (m + 1)) .. L |-> g[n]]
  OBVIOUS
<1>2. \A n \in (L - m) .. L : n \in (L - (m + 1)) .. L /\ n # L - (m + 1)
  BY <1>0
<1>3. \A n \in (L - m) .. L : g[n] = f[n]
  BY <1>2
<1>4. g[L] = s
  <2>1. L \in (L - m) .. L
    BY <1>0
  <2> QED BY <2>1, <1>3 DEF Solves
<1>5. ASSUME NEW n \in (L - (m + 1)) .. (L - 1)
      PROVE  g[n] = Undo(g[n + 1], s.journal[n + 1])
  <2>0. n \in (L - (m + 1)) .. L /\ n + 1 \in (L - m) .. L
    BY <1>0
  <2>1. g[n + 1] = f[n + 1]
    BY <2>0, <1>3
  <2>2. CASE n = L - (m + 1)
    BY <2>0, <2>1, <2>2
  <2>3. CASE n # L - (m + 1)
    <3>1. n \in (L - m) .. (L - 1) /\ n \in (L - m) .. L
      BY <1>0, <2>3
    <3>2. f[n] = Undo(f[n + 1], s.journal[n + 1])
      BY <3>1 DEF Solves
    <3>3. g[n] = f[n]
      BY <3>1, <1>3
    <3> QED BY <2>1, <3>2, <3>3
  <2> QED BY <2>2, <2>3
<1>6. Solves(s, m + 1, g)
  <2> HIDE DEF g
  <2> QED BY <1>1, <1>4, <1>5 DEF Solves
<1> QED BY <1>6

\* All of them can: the recursion has a solution.
LEMMA SolutionExists ==
  ASSUME NEW s, Len(s.journal) \in Nat
  PROVE  \E f : Solves(s, Len(s.journal), f)
<1> DEFINE L == Len(s.journal)
           Bad == {m \in Nat : m <= L /\ ~ \E f : Solves(s, m, f)}
<1>0. L \in Nat
  OBVIOUS
<1>1. SUFFICES Bad = {}
  <2>1. L \notin Bad
    BY <1>1
  <2> QED BY <1>0, <2>1
<1>2. SUFFICES ASSUME Bad # {}
               PROVE  FALSE
  OBVIOUS
<1>3. PICK m \in Bad : \A k \in Nat : k < m => k \notin Bad
  <2>1. Bad \in SUBSET Nat
    OBVIOUS
  <2> HIDE DEF Bad
  <2> QED BY <1>2, <2>1, LeastNumber
<1>4. m \in Nat /\ m <= L /\ ~ \E f : Solves(s, m, f)
  OBVIOUS
<1>5. m # 0
  <2> DEFINE g == [n \in (L - 0) .. L |-> s]
  <2>1. Solves(s, 0, g)
    <3>1. L \in (L - 0) .. L
      BY <1>0
    <3>2. \A n \in (L - 0) .. (L - 1) : FALSE
      BY <1>0
    <3> QED BY <3>1, <3>2 DEF Solves
  <2> QED BY <1>4, <2>1
<1>6. m - 1 \in Nat /\ m - 1 < m /\ m - 1 <= L /\ m - 1 < L /\ (m - 1) + 1 = m
  BY <1>0, <1>4, <1>5
<1>7. \E f : Solves(s, m - 1, f)
  BY <1>3, <1>6
<1>8. \E g : Solves(s, (m - 1) + 1, g)
  BY <1>6, <1>7, SolutionExtends
<1> QED BY <1>4, <1>6, <1>8

\* The loop starts with the state and undoes one entry after the other.
LEMMA UndoneToUnfolds ==
  ASSUME NEW s, Len(s.journal) \in Nat
  PROVE  /\ UndoneTo(s)[Len(s.journal)] = s
         /\ \A n \in 0 .. (Len(s.journal) - 1) :
              UndoneTo(s)[n] = Undo(UndoneTo(s)[n + 1], s.journal[n + 1])
<1> DEFINE L == Len(s.journal)
           Def(f) == [n \in 0 .. L |-> IF n = L THEN s ELSE Undo(f[n + 1], s.journal[n + 1])]
<1>0. L \in Nat
  OBVIOUS
<1>1. PICK f : Solves(s, L, f)
  BY SolutionExists
<1>2. f = Def(f)
  <2>1. f = [n \in 0 .. L |-> f[n]]
    <3>1. L - L = 0
      BY <1>0
    <3> QED BY <1>1, <3>1 DEF Solves
  <2>2. ASSUME NEW n \in 0 .. L
        PROVE  f[n] = IF n = L THEN s ELSE Undo(f[n + 1], s.journal[n + 1])
    <3>1. CASE n = L
      BY <1>1, <3>1 DEF Solves
    <3>2. CASE n # L
      <4>1. n \in (L - L) .. (L - 1)
        BY <1>0, <3>2
      <4> QED BY <1>1, <3>2, <4>1 DEF Solves
    <3> QED BY <3>1, <3>2
  <2> QED BY <2>1, <2>2
<1>3. UndoneTo(s) = CHOOSE g : g = Def(g)
  BY DEF UndoneTo
<1>4. UndoneTo(s) = Def(UndoneTo(s))
  <2> HIDE DEF Def
  <2> QED BY <1>2, <1>3
<1>5. L \in 0 .. L
  BY <1>0
<1>6. \A n \in 0 .. (L - 1) : n \in 0 .. L /\ n # L
  BY <1>0
<1> QED BY <1>4, <1>5, <1>6
-----------------------------------------------------------------------------
(* Types of the state database.                                             *)

Data == [exists : BOOLEAN, nonce : Int, balance : Int, code : Int, storage : [Keys -> Stored]]
Entered == UNION {[K -> Stored] : K \in SUBSET Keys}
Objects ==
  [live : BOOLEAN, deleted : BOOLEAN, watched : BOOLEAN, suicided : BOOLEAN, touched : BOOLEAN,
   nonce : Int, balance : Int, code : Int,
   root : [Keys -> Stored], cachedStorage : Entered, dirtyStorage : Entered]
Present == {o \in Objects : o.live /\ ~o.deleted}
LogLists == UNION {[T -> Seq(Int) \ {<<>>}] : T \in SUBSET Int}
Revisions == [id : Int, journalIndex : Nat]

NumberKinds == {"balance", "nonce", "code"}

Entries ==
  [kind : {"create"}, account : Accounts, prev : {NoObject}]
  \cup [kind : {"reset"}, account : Accounts, prev : Present]
  \cup [kind : {"suicide"}, account : Accounts, prev : [suicided : BOOLEAN, balance : Int]]
  \cup [kind : {"touch"}, account : Accounts, prev : [touched : BOOLEAN, dirty : BOOLEAN]]
  \cup [kind : NumberKinds, account : Accounts, prev : Int]
  \cup [kind : {"storage"}, account : Accounts, prev : [key : Keys, value : Stored]]
  \cup [kind : {"refund", "log"}, account : {"none"}, prev : Int]
  \cup [kind : {"preimage"}, account : {"none"}, prev : Preimages]

States ==
  [objects : [Accounts -> Objects], dirty : SUBSET Accounts, refund : Int, thash : Int,
   logs : LogLists, logSize : Int, preimages : SUBSET Preimages, journal : Seq(Entries),
   validRevisions : Seq(Revisions), nextRevisionId : Int]

-----------------------------------------------------------------------------
(* What can be seen of an object, of an account over the trie t, and of a    *)
(* state; what undoing an entry of the journal does to it.                  *)

Absent == [account |-> NoAccount, suicided |-> FALSE]
Storage(o) == [k \in Keys |-> GetState(o, k)]
SeenData(o) ==
  [exists |-> TRUE, nonce |-> o.nonce, balance |-> o.balance, code |-> o.code, storage |-> Storage(o)]
Seen(o) ==
  IF o.live /\ ~o.deleted THEN [account |-> SeenData(o), suicided |-> o.suicided] ELSE Absent

Loaded(t, o, a) == IF ~o.live /\ t[a].exists THEN newObject(t[a]) ELSE o
SeenAt(t, s, a) == Seen(Loaded(t, s.objects[a], a))
SeenIn(t, s) ==
  [accounts |-> [a \in Accounts |-> SeenAt(t, s, a)], refund |-> s.refund,
   logs |-> s.logs, preimages |-> s.preimages]

Sights == [account : Data, suicided : BOOLEAN]
Worlds ==
  [accounts : [Accounts -> Sights], refund : Int, logs : LogLists, preimages : SUBSET Preimages]

UndoData(d, e) ==
  CASE e.kind = "balance" -> [d EXCEPT !.balance = e.prev]
    [] e.kind = "nonce"   -> [d EXCEPT !.nonce = e.prev]
    [] e.kind = "code"    -> [d EXCEPT !.code = e.prev]
    [] e.kind = "suicide" -> [d EXCEPT !.balance = e.prev.balance]
    [] e.kind = "storage" -> [d EXCEPT !.storage = [@ EXCEPT ![e.prev.key] = e.prev.value]]
    [] OTHER -> d

UndoSeen(t, v, e) ==
  CASE e.kind = "create" -> Seen(Loaded(t, NoObject, e.account))
    [] e.kind = "reset"  -> Seen(e.prev)
    [] OTHER -> IF v.account.exists
                THEN [account  |-> UndoData(v.account, e),
                      suicided |-> IF e.kind = "suicide" THEN e.prev.suicided ELSE v.suicided]
                ELSE v

UndoWorld(t, w, e) ==
  [accounts  |-> IF e.kind \in {"refund", "log", "preimage"} THEN w.accounts
                 ELSE [w.accounts EXCEPT ![e.account] = UndoSeen(t, @, e)],
   refund    |-> IF e.kind = "refund" THEN e.prev ELSE w.refund,
   logs      |-> IF e.kind = "log" THEN UndoneLogs(w.logs, e.prev) ELSE w.logs,
   preimages |-> IF e.kind = "preimage" THEN w.preimages \ {e.prev} ELSE w.preimages]

-----------------------------------------------------------------------------
(* Objects.                                                                 *)

\* An empty cache is a cache.
LEMMA NoEntriesIsEntered == NoEntries \in Entered
<1>1. NoEntries \in [{} -> Stored]
  BY DEF NoEntries
<1> QED BY <1>1 DEF Entered

\* The missing account is typed.
LEMMA NoAccountIsData == NoAccount \in Data
<1>1. NoStorage \in [Keys -> Stored]
  BY DEF NoStorage, Stored, Zero
<1> QED BY <1>1 DEF NoAccount, Data

\* What newObject makes of an account of the trie.
LEMMA NewIsObject ==
  ASSUME NEW d \in Data
  PROVE  /\ newObject(d) \in Present /\ newObject(d).watched
         /\ newObject(d).nonce = d.nonce /\ newObject(d).balance = d.balance
         /\ newObject(d).code = d.code /\ newObject(d).root = d.storage
         /\ newObject(d).cachedStorage = NoEntries /\ newObject(d).dirtyStorage = NoEntries
         /\ ~newObject(d).suicided
<1>1. newObject(d) \in Objects
  BY NoEntriesIsEntered DEF newObject, Data, Objects
<1> QED BY <1>1 DEF newObject, Present

\* The place of an account without an object.
LEMMA NoObjectIsObject == NoObject \in Objects /\ ~NoObject.live
<1>1. newObject(NoAccount) \in Objects
  BY NoAccountIsData, NewIsObject DEF Present
<1> QED BY <1>1 DEF NoObject, Objects

\* Loading gives an object.
LEMMA LoadedIsObject ==
  ASSUME NEW t \in [Accounts -> Data], NEW a \in Accounts, NEW o \in Objects
  PROVE  Loaded(t, o, a) \in Objects
<1>1. t[a] \in Data
  OBVIOUS
<1>2. newObject(t[a]) \in Objects
  BY <1>1, NewIsObject DEF Present
<1> QED BY <1>2 DEF Loaded

\* What GetState returns for every key.
LEMMA StorageIsTyped ==
  ASSUME NEW o \in Objects
  PROVE  Storage(o) \in [Keys -> Stored]
<1>1. o.root \in [Keys -> Stored] /\ o.cachedStorage \in Entered
  BY DEF Objects
<1>2. PICK K \in SUBSET Keys : o.cachedStorage \in [K -> Stored]
  BY <1>1 DEF Entered
<1>3. ASSUME NEW k \in Keys
      PROVE  GetState(o, k) \in Stored
  BY <1>1, <1>2 DEF GetState
<1> QED BY <1>3 DEF Storage

\* What is seen of an object is typed.
LEMMA SeenIsTyped ==
  ASSUME NEW o \in Objects
  PROVE  Seen(o) \in Sights
<1>1. Storage(o) \in [Keys -> Stored]
  BY StorageIsTyped
<1>2. o.nonce \in Int /\ o.balance \in Int /\ o.code \in Int /\ o.suicided \in BOOLEAN
  BY DEF Objects
<1>3. SeenData(o) \in Data
  BY <1>1, <1>2 DEF SeenData, Data
<1>4. Absent \in Sights
  BY NoAccountIsData DEF Absent, Sights
<1>5. [account |-> SeenData(o), suicided |-> o.suicided] \in Sights
  BY <1>2, <1>3 DEF Sights
<1> QED BY <1>4, <1>5 DEF Seen

\* What a getter finds after it loaded the object.
LEMMA LoadIs ==
  ASSUME NEW s \in States, NEW a \in Accounts, trie \in [Accounts -> Data]
  PROVE  /\ Load(s, a) = [s EXCEPT !.objects = [@ EXCEPT ![a] = Loaded(trie, s.objects[a], a)]]
         /\ Load(s, a) \in States
         /\ Load(s, a).objects[a] = Loaded(trie, s.objects[a], a)
         /\ Loaded(trie, s.objects[a], a) \in Objects
<1>1. s.objects \in [Accounts -> Objects] /\ s.objects[a] \in Objects
  BY DEF States
<1>2. Loaded(trie, s.objects[a], a) \in Objects
  BY <1>1, LoadedIsObject
<1> DEFINE obs == [s.objects EXCEPT ![a] = Loaded(trie, s.objects[a], a)]
<1>3. obs \in [Accounts -> Objects] /\ obs[a] = Loaded(trie, s.objects[a], a)
  BY <1>1, <1>2
<1>4. Load(s, a) = [s EXCEPT !.objects = obs]
  <2>1. CASE ~s.objects[a].live /\ trie[a].exists
    BY <2>1 DEF Load, Loaded
  <2>2. CASE ~(~s.objects[a].live /\ trie[a].exists)
    <3>1. Loaded(trie, s.objects[a], a) = s.objects[a] /\ Load(s, a) = s
      BY <2>2 DEF Load, Loaded
    <3>2. obs = s.objects
      BY <1>1, <3>1
    <3> HIDE DEF obs
    <3>3. [s EXCEPT !.objects = obs] = s
      BY <3>2 DEF States
    <3> QED BY <3>1, <3>3
  <2> QED BY <2>1, <2>2
<1>5. [s EXCEPT !.objects = obs] \in States /\ [s EXCEPT !.objects = obs].objects = obs
  <2> HIDE DEF obs
  <2> QED BY <1>3 DEF States
<1> QED BY <1>2, <1>3, <1>4, <1>5

\* The getters of the model return what is seen over the trie.
LEMMA ViewOfAccount ==
  ASSUME NEW s \in States, NEW a \in Accounts, trie \in [Accounts -> Data]
  PROVE  AccountView(s, a) = SeenAt(trie, s, a)
<1> DEFINE o == Loaded(trie, s.objects[a], a)
           d == AccountOf(o)
<1>1. Load(s, a).objects[a] = o
  BY LoadIs
<1>2. Found(Load(s, a), a) <=> (o.live /\ ~o.deleted)
  BY <1>1 DEF Found
<1>3. [d EXCEPT !.storage = Storage(o)] = SeenData(o)
  <2> DEFINE new == Storage(o)
  <2>1. o \in Objects
    BY LoadedIsObject DEF States
  <2>2. d \in Data /\ d.exists /\ d.nonce = o.nonce /\ d.balance = o.balance /\ d.code = o.code
    BY <2>1 DEF AccountOf, Data, Objects
  <2>3. SeenData(o) \in Data /\ SeenData(o).exists /\ SeenData(o).nonce = o.nonce
          /\ SeenData(o).balance = o.balance /\ SeenData(o).code = o.code /\ SeenData(o).storage = new
    BY <2>1, StorageIsTyped DEF SeenData, Data, Objects
  <2>4. new \in [Keys -> Stored]
    BY <2>1, StorageIsTyped
  <2> HIDE DEF d, new, o
  <2>5. [d EXCEPT !.storage = new] = SeenData(o)
    BY <2>2, <2>3, <2>4 DEF Data
  <2> QED BY <2>5 DEF new
<1>4. AccountView(s, a) = IF ~Found(Load(s, a), a) THEN Absent
                          ELSE [account |-> [d EXCEPT !.storage = Storage(o)], suicided |-> o.suicided]
  BY <1>1, Zenon DEF AccountView, Absent, Storage
<1> QED BY <1>2, <1>3, <1>4 DEF SeenAt, Seen
-----------------------------------------------------------------------------
(* Objects put in place of another, and entries appended to the journal.     *)

SameMarks(s, r) ==
  /\ r.journal = s.journal /\ r.validRevisions = s.validRevisions
  /\ r.nextRevisionId = s.nextRevisionId

SameButObjects(s, r) ==
  /\ r.refund = s.refund /\ r.logs = s.logs /\ r.preimages = s.preimages /\ SameMarks(s, r)

Replaced(s, r, a, o) ==
  /\ r \in States /\ r.objects = [s.objects EXCEPT ![a] = o] /\ SameButObjects(s, r)

Unwatched(o) == [o EXCEPT !.watched = FALSE]

\* Write puts the object back, without its callback.
LEMMA WriteReplaces ==
  ASSUME NEW s \in States, NEW a \in Accounts, NEW o \in Objects
  PROVE  Replaced(s, Write(s, a, o), a, Unwatched(o)) /\ Unwatched(o) \in Objects
<1>1. Unwatched(o) \in Objects
  BY DEF Unwatched, Objects
<1> DEFINE obs == [s.objects EXCEPT ![a] = Unwatched(o)]
           dty == IF o.watched THEN s.dirty \cup {a} ELSE s.dirty
<1>2. obs \in [Accounts -> Objects] /\ dty \in SUBSET Accounts
  BY <1>1 DEF States
<1>3. Write(s, a, o) = [s EXCEPT !.objects = obs, !.dirty = dty]
  BY DEF Write, Unwatched
<1> HIDE DEF obs, dty
<1>4. [s EXCEPT !.objects = obs, !.dirty = dty] \in States
  BY <1>2 DEF States
<1>5. [s EXCEPT !.objects = obs, !.dirty = dty].objects = obs
  BY DEF States
<1>6. SameButObjects(s, [s EXCEPT !.objects = obs, !.dirty = dty])
  BY DEF States, SameButObjects, SameMarks
<1> QED BY <1>1, <1>3, <1>4, <1>5, <1>6 DEF Replaced, obs

\* Loading replaces one object.
LEMMA LoadReplaces ==
  ASSUME NEW s \in States, NEW a \in Accounts, trie \in [Accounts -> Data]
  PROVE  Replaced(s, Load(s, a), a, Loaded(trie, s.objects[a], a))
<1> DEFINE obs == [s.objects EXCEPT ![a] = Loaded(trie, s.objects[a], a)]
<1>1. Load(s, a) = [s EXCEPT !.objects = obs] /\ Load(s, a) \in States
  BY LoadIs
<1> HIDE DEF obs
<1>2. [s EXCEPT !.objects = obs].objects = obs /\ SameButObjects(s, [s EXCEPT !.objects = obs])
  BY DEF States, SameButObjects, SameMarks
<1> QED BY <1>1, <1>2 DEF Replaced, obs

Entry(kind, a, prev) == [kind |-> kind, account |-> a, prev |-> prev]

Appended(s, r, e) ==
  /\ r \in States /\ r.objects = s.objects /\ r.journal = Append(s.journal, e)
  /\ r.refund = s.refund /\ r.logs = s.logs /\ r.preimages = s.preimages /\ r.dirty = s.dirty
  /\ r.validRevisions = s.validRevisions /\ r.nextRevisionId = s.nextRevisionId
  /\ r.thash = s.thash /\ r.logSize = s.logSize

\* Journaled only appends an entry.
LEMMA JournaledAppends ==
  ASSUME NEW s \in States, NEW kind, NEW a, NEW prev, Entry(kind, a, prev) \in Entries
  PROVE  Appended(s, Journaled(s, kind, a, prev), Entry(kind, a, prev))
<1> DEFINE j == Append(s.journal, Entry(kind, a, prev))
<1>1. j \in Seq(Entries)
  BY DEF States
<1>2. Journaled(s, kind, a, prev) = [s EXCEPT !.journal = j]
  BY DEF Journaled, Entry
<1> HIDE DEF j
<1>3. [s EXCEPT !.journal = j] \in States
  BY <1>1 DEF States
<1>4. Appended(s, [s EXCEPT !.journal = j], Entry(kind, a, prev))
  BY <1>3 DEF States, Appended, j
<1> QED BY <1>2, <1>4

-----------------------------------------------------------------------------
(* What is seen of a changed object.                                        *)

\* An object is loaded once.
LEMMA LoadedStays ==
  ASSUME NEW t \in [Accounts -> Data], NEW a \in Accounts, NEW o \in Objects, NEW n \in Objects,
         n.live = Loaded(t, o, a).live
  PROVE  Loaded(t, n, a) = n
<1>1. t[a] \in Data /\ newObject(t[a]).live
  BY NewIsObject DEF Present
<1>2. CASE ~o.live /\ t[a].exists
  BY <1>1, <1>2 DEF Loaded
<1>3. CASE ~(~o.live /\ t[a].exists)
  BY <1>3 DEF Loaded
<1> QED BY <1>2, <1>3

\* What is seen depends on these fields alone.
LEMMA SameSeen ==
  ASSUME NEW o \in Objects, NEW n \in Objects,
         n.live = o.live, n.deleted = o.deleted, n.suicided = o.suicided,
         n.nonce = o.nonce, n.balance = o.balance, n.code = o.code,
         n.root = o.root, n.cachedStorage = o.cachedStorage
  PROVE  Seen(n) = Seen(o)
<1>1. Storage(n) = Storage(o)
  BY DEF Storage, GetState
<1>2. SeenData(n) = SeenData(o)
  BY <1>1 DEF SeenData
<1> QED BY <1>2 DEF Seen

\* The callback cannot be seen.
LEMMA UnwatchedSeen ==
  ASSUME NEW o \in Objects
  PROVE  /\ Seen(Unwatched(o)) = Seen(o) /\ Unwatched(o) \in Objects
         /\ Unwatched(o).live = o.live /\ Unwatched(o).deleted = o.deleted
<1>1. /\ Unwatched(o) \in Objects /\ Unwatched(o).live = o.live /\ Unwatched(o).deleted = o.deleted
      /\ Unwatched(o).suicided = o.suicided /\ Unwatched(o).nonce = o.nonce
      /\ Unwatched(o).balance = o.balance /\ Unwatched(o).code = o.code
      /\ Unwatched(o).root = o.root /\ Unwatched(o).cachedStorage = o.cachedStorage
  BY DEF Unwatched, Objects
<1> QED BY <1>1, SameSeen

\* What is seen of an object that is present, and of one that is not.
LEMMA SeenFields ==
  ASSUME NEW o \in Objects
  PROVE  /\ o \in Present => /\ Seen(o).account \in Data /\ Seen(o).account.exists
                             /\ Seen(o).account.nonce = o.nonce /\ Seen(o).account.balance = o.balance
                             /\ Seen(o).account.code = o.code /\ Seen(o).account.storage = Storage(o)
                             /\ Seen(o).suicided = o.suicided
                             /\ Seen(o) = [account |-> SeenData(o), suicided |-> o.suicided]
         /\ o \notin Present => Seen(o) = Absent /\ ~Seen(o).account.exists
<1>1. CASE o \in Present
  <2>1. Seen(o) = [account |-> SeenData(o), suicided |-> o.suicided]
    BY <1>1 DEF Seen, Present
  <2>2. Storage(o) \in [Keys -> Stored]
    BY StorageIsTyped
  <2>3. SeenData(o) \in Data
    BY <2>2 DEF SeenData, Data, Objects
  <2> QED BY <1>1, <2>1, <2>3 DEF SeenData
<1>2. CASE o \notin Present
  BY <1>2 DEF Seen, Present, Absent, NoAccount
<1> QED BY <1>1, <1>2

\* n is what undoing e leaves of o.
Amends(o, n, e) ==
  /\ n.live = o.live /\ n.deleted = o.deleted
  /\ o.live /\ ~o.deleted =>
       /\ n.suicided = IF e.kind = "suicide" THEN e.prev.suicided ELSE o.suicided
       /\ n.nonce = IF e.kind = "nonce" THEN e.prev ELSE o.nonce
       /\ n.balance = IF e.kind = "balance" THEN e.prev
                      ELSE IF e.kind = "suicide" THEN e.prev.balance ELSE o.balance
       /\ n.code = IF e.kind = "code" THEN e.prev ELSE o.code
       /\ Storage(n) = IF e.kind = "storage" THEN [Storage(o) EXCEPT ![e.prev.key] = e.prev.value]
                       ELSE Storage(o)

AmendKinds == {"suicide", "touch", "storage"} \cup NumberKinds

\* Amending one field of an object is what UndoSeen says of the field.
LEMMA AmendedSeen ==
  ASSUME NEW t, NEW o \in Objects, NEW n \in Objects, NEW e, e.kind \in AmendKinds, Amends(o, n, e)
  PROVE  Seen(n) = UndoSeen(t, Seen(o), e)
<1>0. o \in Present <=> n \in Present
  BY DEF Amends, Present
<1>a. e.kind \notin {"create", "reset"}
  BY DEF AmendKinds, NumberKinds
<1> DEFINE v == Seen(o)
<1>b. UndoSeen(t, v, e) =
        IF v.account.exists THEN [account  |-> UndoData(v.account, e),
                                  suicided |-> IF e.kind = "suicide" THEN e.prev.suicided ELSE v.suicided]
        ELSE v
  BY <1>a DEF UndoSeen
<1>1. CASE o \notin Present
  <2>1. v = Absent /\ ~v.account.exists /\ Seen(n) = Absent
    BY <1>0, <1>1, SeenFields
  <2> QED BY <2>1, <1>b
<1>2. CASE o \in Present
  <2>1. /\ v.account \in Data /\ v.account.exists
        /\ v.account.nonce = o.nonce /\ v.account.balance = o.balance
        /\ v.account.code = o.code /\ v.account.storage = Storage(o)
        /\ v.suicided = o.suicided
    BY <1>2, SeenFields
  <2>2. Seen(n) = [account |-> SeenData(n), suicided |-> n.suicided]
    BY <1>0, <1>2, SeenFields
  <2>3. /\ SeenData(n) \in Data /\ SeenData(n).exists = TRUE
        /\ SeenData(n).nonce = n.nonce /\ SeenData(n).balance = n.balance
        /\ SeenData(n).code = n.code /\ SeenData(n).storage = Storage(n)
    BY StorageIsTyped DEF SeenData, Data, Objects
  <2>4. n.suicided = IF e.kind = "suicide" THEN e.prev.suicided ELSE v.suicided
    BY <1>2, <2>1 DEF Amends, Present
  <2> DEFINE d == v.account
             m == SeenData(n)
  <2>5. /\ m.nonce = IF e.kind = "nonce" THEN e.prev ELSE d.nonce
        /\ m.balance = IF e.kind = "balance" THEN e.prev
                       ELSE IF e.kind = "suicide" THEN e.prev.balance ELSE d.balance
        /\ m.code = IF e.kind = "code" THEN e.prev ELSE d.code
        /\ m.storage = IF e.kind = "storage" THEN [d.storage EXCEPT ![e.prev.key] = e.prev.value]
                       ELSE d.storage
    BY <1>2, <2>1, <2>3 DEF Amends, Present
  <2>6. d \in Data /\ m \in Data /\ m.exists = d.exists
    <3>1. d.exists = TRUE
      BY <2>1 DEF Data
    <3> QED BY <2>1, <2>3, <3>1
  <2>7. m = UndoData(d, e)
    <3> HIDE DEF d, m
    <3> DEFINE st == [d.storage EXCEPT ![e.prev.key] = e.prev.value]
    <3>1. CASE e.kind = "balance"
      <4>1. m = [d EXCEPT !.balance = e.prev]
        BY <2>5, <2>6, <3>1 DEF Data
      <4> QED BY <3>1, <4>1 DEF UndoData
    <3>2. CASE e.kind = "nonce"
      <4>1. m = [d EXCEPT !.nonce = e.prev]
        BY <2>5, <2>6, <3>2 DEF Data
      <4> QED BY <3>2, <4>1 DEF UndoData
    <3>3. CASE e.kind = "code"
      <4>1. m = [d EXCEPT !.code = e.prev]
        BY <2>5, <2>6, <3>3 DEF Data
      <4> QED BY <3>3, <4>1 DEF UndoData
    <3>4. CASE e.kind = "suicide"
      <4>1. m = [d EXCEPT !.balance = e.prev.balance]
        BY <2>5, <2>6, <3>4 DEF Data
      <4> QED BY <3>4, <4>1 DEF UndoData
    <3>5. CASE e.kind = "storage"
      <4>0. m.storage = st
        BY <2>5, <3>5
      <4>1. UndoData(d, e) = [d EXCEPT !.storage = st]
        BY <3>5 DEF UndoData
      <4> HIDE DEF st
      <4>2. m = [d EXCEPT !.storage = st]
        BY <2>5, <2>6, <3>5, <4>0 DEF Data
      <4> QED BY <4>1, <4>2
    <3>6. CASE e.kind = "touch"
      <4>1. m = d
        BY <2>5, <2>6, <3>6 DEF Data
      <4> QED BY <3>6, <4>1 DEF UndoData
    <3> QED BY <3>1, <3>2, <3>3, <3>4, <3>5, <3>6 DEF AmendKinds, NumberKinds
  <2> QED BY <1>b, <2>1, <2>2, <2>4, <2>7
<1> QED BY <1>1, <1>2

PutState(o, k, v) ==
  [o EXCEPT !.cachedStorage = Put(@, k, v), !.dirtyStorage = Put(@, k, v)]

\* A cache with one more entry.
LEMMA PutIsEntered ==
  ASSUME NEW m \in Entered, NEW k \in Keys, NEW v \in Stored
  PROVE  /\ Put(m, k, v) \in Entered
         /\ DOMAIN Put(m, k, v) = DOMAIN m \cup {k} /\ Put(m, k, v)[k] = v
         /\ \A x \in DOMAIN m : x # k => Put(m, k, v)[x] = m[x]
<1>1. PICK K \in SUBSET Keys : m \in [K -> Stored]
  BY DEF Entered
<1>2. Put(m, k, v) \in [K \cup {k} -> Stored]
  BY <1>1 DEF Put
<1>3. K \cup {k} \in SUBSET Keys
  OBVIOUS
<1>4. Put(m, k, v) \in Entered
  BY <1>2, <1>3 DEF Entered
<1> QED BY <1>1, <1>4 DEF Put

\* setState changes what is seen of one key.
LEMMA PutStateSeen ==
  ASSUME NEW o \in Objects, NEW k \in Keys, NEW v \in Stored
  PROVE  /\ PutState(o, k, v) \in Objects
         /\ Storage(PutState(o, k, v)) = [Storage(o) EXCEPT ![k] = v]
         /\ PutState(o, k, v).live = o.live /\ PutState(o, k, v).deleted = o.deleted
         /\ PutState(o, k, v).suicided = o.suicided /\ PutState(o, k, v).nonce = o.nonce
         /\ PutState(o, k, v).balance = o.balance /\ PutState(o, k, v).code = o.code
         /\ PutState(o, k, v).root = o.root /\ PutState(o, k, v).watched = o.watched
<1> DEFINE c == Put(o.cachedStorage, k, v)
           d == Put(o.dirtyStorage, k, v)
           n == [o EXCEPT !.cachedStorage = c, !.dirtyStorage = d]
<1>1. o.cachedStorage \in Entered /\ o.dirtyStorage \in Entered
  BY DEF Objects
<1>2. c \in Entered /\ d \in Entered
  BY <1>1, PutIsEntered
<1>3. DOMAIN c = DOMAIN o.cachedStorage \cup {k} /\ c[k] = v
        /\ \A x \in DOMAIN o.cachedStorage : x # k => c[x] = o.cachedStorage[x]
  BY <1>1, PutIsEntered, ZenonT(60)
<1>4. PutState(o, k, v) = n
  BY DEF PutState
<1> HIDE DEF c, d
<1>5. /\ n \in Objects /\ n.live = o.live /\ n.deleted = o.deleted
      /\ n.suicided = o.suicided /\ n.nonce = o.nonce
      /\ n.balance = o.balance /\ n.code = o.code /\ n.root = o.root /\ n.watched = o.watched
      /\ n.cachedStorage = c
  BY <1>2 DEF Objects
<1> HIDE DEF n
<1>6. Storage(n) = [Storage(o) EXCEPT ![k] = v]
  <2>1. ASSUME NEW x \in Keys
        PROVE  GetState(n, x) = IF x = k THEN v ELSE GetState(o, x)
    BY <1>3, <1>5 DEF GetState
  <2> QED BY <2>1 DEF Storage
<1> QED BY <1>4, <1>5, <1>6

-----------------------------------------------------------------------------
(* Undoing an entry does to what is seen what UndoWorld says.               *)

Plain == {"refund", "log", "preimage"}

\* A deleted object is not in the trie any more.
Gone(t, s) == \A a \in Accounts : s.objects[a].live /\ s.objects[a].deleted => ~t[a].exists

\* Undoing an entry of one account leaves the others alone.
LEMMA UndoneAccount ==
  ASSUME NEW t \in [Accounts -> Data], NEW s \in States, NEW r \in States, NEW a \in Accounts, NEW e,
         e.kind \notin Plain, e.account = a,
         r.refund = s.refund, r.logs = s.logs, r.preimages = s.preimages,
         \A b \in Accounts : b # a => r.objects[b] = s.objects[b],
         SeenAt(t, r, a) = UndoSeen(t, SeenAt(t, s, a), e)
  PROVE  SeenIn(t, r) = UndoWorld(t, SeenIn(t, s), e)
<1> DEFINE seen == [b \in Accounts |-> SeenAt(t, s, b)]
           now == [b \in Accounts |-> SeenAt(t, r, b)]
<1>1. \A b \in Accounts : b # a => SeenAt(t, r, b) = SeenAt(t, s, b)
  BY DEF SeenAt
<1>2. now = [seen EXCEPT ![a] = UndoSeen(t, @, e)]
  BY <1>1
<1>3. SeenIn(t, s) = [accounts |-> seen, refund |-> s.refund, logs |-> s.logs, preimages |-> s.preimages]
  BY DEF SeenIn
<1>4. SeenIn(t, r) = [accounts |-> now, refund |-> s.refund, logs |-> s.logs, preimages |-> s.preimages]
  BY DEF SeenIn
<1>5. e.kind \notin {"refund", "log", "preimage"} /\ e.kind # "refund" /\ e.kind # "log" /\ e.kind # "preimage"
  BY DEF Plain
<1> HIDE DEF seen, now
<1> QED BY <1>2, <1>3, <1>4, <1>5 DEF UndoWorld

\* The entries an undo finds, by kind.
LEMMA EntryFacts ==
  ASSUME NEW e \in Entries
  PROVE  /\ e.kind \in {"create", "reset"} \cup AmendKinds \cup Plain
         /\ e.kind \notin Plain => e.account \in Accounts
         /\ e.kind = "reset" => e.prev \in Present
         /\ e.kind = "suicide" => e.prev.suicided \in BOOLEAN /\ e.prev.balance \in Int
         /\ e.kind \in NumberKinds \cup {"refund", "log"} => e.prev \in Int
         /\ e.kind = "storage" => e.prev.key \in Keys /\ e.prev.value \in Stored
         /\ e.kind = "preimage" => e.prev \in Preimages
<1> USE DEF AmendKinds, NumberKinds, Plain
<1>1. CASE e \in [kind : {"create"}, account : Accounts, prev : {NoObject}]
  BY <1>1
<1>2. CASE e \in [kind : {"reset"}, account : Accounts, prev : Present]
  BY <1>2
<1>3. CASE e \in [kind : {"suicide"}, account : Accounts, prev : [suicided : BOOLEAN, balance : Int]]
  BY <1>3
<1>4. CASE e \in [kind : {"touch"}, account : Accounts, prev : [touched : BOOLEAN, dirty : BOOLEAN]]
  BY <1>4
<1>5. CASE e \in [kind : NumberKinds, account : Accounts, prev : Int]
  BY <1>5
<1>6. CASE e \in [kind : {"storage"}, account : Accounts, prev : [key : Keys, value : Stored]]
  BY <1>6
<1>7. CASE e \in [kind : {"refund", "log"}, account : {"none"}, prev : Int]
  BY <1>7
<1>8. CASE e \in [kind : {"preimage"}, account : {"none"}, prev : Preimages]
  BY <1>8
<1> QED BY <1>1, <1>2, <1>3, <1>4, <1>5, <1>6, <1>7, <1>8 DEF Entries

\* What holds after an entry was undone.
Undoes(t, s, r, e) ==
  /\ r \in States /\ SeenIn(t, r) = UndoWorld(t, SeenIn(t, s), e)
  /\ Gone(t, s) => Gone(t, r)
  /\ SameMarks(s, r)

\* An object amended after it was loaded.
LEMMA AmendedUndoes ==
  ASSUME NEW s \in States, NEW r, NEW e, e.kind \in AmendKinds, e.account \in Accounts,
         trie \in [Accounts -> Data], NEW n \in Objects,
         Amends(Loaded(trie, s.objects[e.account], e.account), n, e),
         Replaced(Load(s, e.account), r, e.account, n)
  PROVE  Undoes(trie, s, r, e)
<1> DEFINE a == e.account
           o == Loaded(trie, s.objects[a], a)
<1>1. s.objects \in [Accounts -> Objects] /\ s.objects[a] \in Objects /\ o \in Objects
  BY LoadedIsObject DEF States
<1>2. Replaced(s, Load(s, a), a, o)
  BY LoadReplaces
<1>3. /\ r \in States /\ r.objects[a] = n
      /\ r.refund = s.refund /\ r.logs = s.logs /\ r.preimages = s.preimages
      /\ \A b \in Accounts : b # a => r.objects[b] = s.objects[b]
  BY <1>1, <1>2, SMTT(60) DEF Replaced, SameButObjects, States
<1>4. Seen(n) = UndoSeen(trie, Seen(o), e)
  BY <1>1, AmendedSeen
<1>5. Loaded(trie, n, a) = n
  BY <1>1, LoadedStays DEF Amends
<1>6. SeenAt(trie, r, a) = UndoSeen(trie, SeenAt(trie, s, a), e)
  BY <1>3, <1>4, <1>5 DEF SeenAt
<1>7. e.kind \notin Plain
  BY DEF AmendKinds, NumberKinds, Plain
<1>8. SeenIn(trie, r) = UndoWorld(trie, SeenIn(trie, s), e)
  BY <1>3, <1>6, <1>7, UndoneAccount
<1>9. ASSUME Gone(trie, s)
      PROVE  Gone(trie, r)
  <2>1. ASSUME n.live, n.deleted
        PROVE  ~trie[a].exists
    <3>1. o.live /\ o.deleted
      BY <2>1 DEF Amends
    <3>2. CASE o = s.objects[a]
      BY <3>1, <3>2, <1>9 DEF Gone
    <3>3. CASE o # s.objects[a]
      <4>1. o = newObject(trie[a]) /\ trie[a] \in Data
        BY <3>3 DEF Loaded
      <4> QED BY <3>1, <4>1, NewIsObject DEF Present
    <3> QED BY <3>2, <3>3
  <2> QED BY <1>3, <1>9, <2>1 DEF Gone
<1>10. SameMarks(s, r)
  BY <1>2 DEF Replaced, SameButObjects, SameMarks
<1> QED BY <1>3, <1>8, <1>9, <1>10 DEF Undoes

\* balanceChange, nonceChange and codeChange (journal.go).
LEMMA UndoNumber ==
  ASSUME NEW s \in States, trie \in [Accounts -> Data], NEW e \in Entries, e.kind \in NumberKinds
  PROVE  Undoes(trie, s, Undo(s, e), e)
<1> DEFINE a == e.account
           l == Load(s, a)
           o == Loaded(trie, s.objects[a], a)
<1>1. a \in Accounts /\ e.prev \in Int /\ e.kind \in AmendKinds
  BY EntryFacts DEF NumberKinds, Plain, AmendKinds
<1>2. l \in States /\ l.objects[a] = o /\ o \in Objects
  BY <1>1, LoadIs
<1> HIDE DEF l, o
<1> DEFINE m == CASE e.kind = "balance" -> [o EXCEPT !.balance = e.prev]
                  [] e.kind = "nonce"   -> [o EXCEPT !.nonce = e.prev]
                  [] e.kind = "code"    -> [o EXCEPT !.code = e.prev]
<1>3. /\ e.kind = "balance" => m = [o EXCEPT !.balance = e.prev]
      /\ e.kind = "nonce" => m = [o EXCEPT !.nonce = e.prev]
      /\ e.kind = "code" => m = [o EXCEPT !.code = e.prev]
  OBVIOUS
<1> HIDE DEF m
<1>4. m \in Objects
  <2>1. CASE e.kind = "balance"
    BY <1>1, <1>2, <1>3, <2>1 DEF Objects
  <2>2. CASE e.kind = "nonce"
    BY <1>1, <1>2, <1>3, <2>2 DEF Objects
  <2>3. CASE e.kind = "code"
    BY <1>1, <1>2, <1>3, <2>3 DEF Objects
  <2> QED BY <2>1, <2>2, <2>3 DEF NumberKinds
<1>5. Undo(s, e) = Write(l, a, m)
  <2>1. CASE e.kind = "balance"
    BY <1>1, <1>2, <1>3, <2>1 DEF Undo, l
  <2>2. CASE e.kind = "nonce"
    BY <1>1, <1>2, <1>3, <2>2 DEF Undo, l
  <2>3. CASE e.kind = "code"
    BY <1>1, <1>2, <1>3, <2>3 DEF Undo, l
  <2> QED BY <2>1, <2>2, <2>3 DEF NumberKinds
<1>6. Amends(o, Unwatched(m), e)
  <2>1. /\ m.live = o.live /\ m.deleted = o.deleted /\ m.suicided = o.suicided
        /\ m.nonce = IF e.kind = "nonce" THEN e.prev ELSE o.nonce
        /\ m.balance = IF e.kind = "balance" THEN e.prev ELSE o.balance
        /\ m.code = IF e.kind = "code" THEN e.prev ELSE o.code
        /\ m.root = o.root /\ m.cachedStorage = o.cachedStorage
    <3>1. CASE e.kind = "balance"
      BY <1>2, <1>3, <3>1 DEF Objects
    <3>2. CASE e.kind = "nonce"
      BY <1>2, <1>3, <3>2 DEF Objects
    <3>3. CASE e.kind = "code"
      BY <1>2, <1>3, <3>3 DEF Objects
    <3> QED BY <3>1, <3>2, <3>3 DEF NumberKinds
  <2>2. /\ Unwatched(m).live = m.live /\ Unwatched(m).deleted = m.deleted
        /\ Unwatched(m).suicided = m.suicided /\ Unwatched(m).nonce = m.nonce
        /\ Unwatched(m).balance = m.balance /\ Unwatched(m).code = m.code
        /\ Unwatched(m).root = m.root /\ Unwatched(m).cachedStorage = m.cachedStorage
    BY <1>4 DEF Unwatched, Objects
  <2>3. Storage(Unwatched(m)) = Storage(o)
    BY <2>1, <2>2 DEF Storage, GetState
  <2>4. e.kind # "suicide" /\ e.kind # "storage"
    BY DEF NumberKinds
  <2> QED BY <2>1, <2>2, <2>3, <2>4 DEF Amends
<1>7. Replaced(l, Write(l, a, m), a, Unwatched(m)) /\ Unwatched(m) \in Objects
  BY <1>1, <1>2, <1>4, WriteReplaces
<1> QED BY <1>1, <1>5, <1>6, <1>7, AmendedUndoes DEF l, o

\* suicideChange (journal.go).
LEMMA UndoesSuicide ==
  ASSUME NEW s \in States, trie \in [Accounts -> Data], NEW e \in Entries, e.kind = "suicide"
  PROVE  Undoes(trie, s, Undo(s, e), e)
<1> DEFINE a == e.account
           l == Load(s, a)
           o == Loaded(trie, s.objects[a], a)
           m == [o EXCEPT !.suicided = e.prev.suicided, !.balance = e.prev.balance]
<1>1. a \in Accounts /\ e.prev.suicided \in BOOLEAN /\ e.prev.balance \in Int /\ e.kind \in AmendKinds
  BY EntryFacts DEF Plain, AmendKinds
<1>2. l \in States /\ l.objects[a] = o /\ o \in Objects
  BY <1>1, LoadIs
<1>3. Replaced(s, l, a, o)
  BY <1>1, LoadReplaces
<1>4. Undo(s, e) = IF o.live /\ ~o.deleted THEN Write(l, a, m) ELSE l
  <2> HIDE DEF o
  <2> QED BY <1>1, <1>2 DEF Undo, UndoSuicide, Found
<1> HIDE DEF l, o
<1>5. CASE o.live /\ ~o.deleted
  <2>1. /\ m \in Objects /\ m.live = o.live /\ m.deleted = o.deleted /\ m.suicided = e.prev.suicided
        /\ m.nonce = o.nonce /\ m.balance = e.prev.balance /\ m.code = o.code
        /\ m.root = o.root /\ m.cachedStorage = o.cachedStorage
    BY <1>1, <1>2 DEF Objects
  <2> HIDE DEF m
  <2>2. /\ Unwatched(m).live = m.live /\ Unwatched(m).deleted = m.deleted
        /\ Unwatched(m).suicided = m.suicided /\ Unwatched(m).nonce = m.nonce
        /\ Unwatched(m).balance = m.balance /\ Unwatched(m).code = m.code
        /\ Unwatched(m).root = m.root /\ Unwatched(m).cachedStorage = m.cachedStorage
    BY <2>1 DEF Unwatched, Objects
  <2>3. Storage(Unwatched(m)) = Storage(o)
    BY <2>1, <2>2 DEF Storage, GetState
  <2>4. Amends(o, Unwatched(m), e)
    BY <2>1, <2>2, <2>3 DEF Amends
  <2>5. Replaced(l, Write(l, a, m), a, Unwatched(m)) /\ Unwatched(m) \in Objects
    BY <1>1, <1>2, <2>1, WriteReplaces
  <2>6. Undo(s, e) = Write(l, a, m)
    BY <1>4, <1>5
  <2> QED BY <1>1, <2>4, <2>5, <2>6, AmendedUndoes DEF l, o
<1>6. CASE ~(o.live /\ ~o.deleted)
  <2>1. Amends(o, o, e)
    BY <1>6 DEF Amends
  <2>2. Replaced(l, l, a, o)
    BY <1>2 DEF Replaced, SameButObjects, SameMarks, States
  <2>3. Undo(s, e) = l
    BY <1>4, <1>6
  <2> QED BY <1>1, <1>2, <2>1, <2>2, <2>3, AmendedUndoes DEF l, o
<1> QED BY <1>5, <1>6

\* touchChange (journal.go): only marks that cannot be seen.
LEMMA UndoesTouch ==
  ASSUME NEW s \in States, trie \in [Accounts -> Data], NEW e \in Entries, e.kind = "touch"
  PROVE  Undoes(trie, s, Undo(s, e), e)
<1> DEFINE a == e.account
           l == Load(s, a)
           o == Loaded(trie, s.objects[a], a)
           m == [o EXCEPT !.touched = FALSE]
           obs == [l.objects EXCEPT ![a] = m]
           dty == IF e.prev.dirty THEN l.dirty ELSE l.dirty \ {a}
           r == [l EXCEPT !.objects = obs, !.dirty = dty]
<1>1. a \in Accounts /\ e.kind \in AmendKinds
  BY EntryFacts DEF Plain, AmendKinds
<1>2. l \in States /\ l.objects[a] = o /\ o \in Objects
  BY <1>1, LoadIs
<1>4. Undo(s, e) = IF e.prev.touched \/ a = Ripemd THEN l ELSE r
  <2>1. Undo(s, e) = UndoTouch(l, a, e.prev)
    BY <1>1 DEF Undo
  <2>2. UndoTouch(l, a, e.prev) = IF e.prev.touched \/ a = Ripemd THEN l ELSE r
    <3> HIDE DEF o, l
    <3> QED BY <1>2 DEF UndoTouch
  <2> QED BY <2>1, <2>2
<1> HIDE DEF l, o
<1>5. /\ m \in Objects /\ m.live = o.live /\ m.deleted = o.deleted /\ m.suicided = o.suicided
      /\ m.nonce = o.nonce /\ m.balance = o.balance /\ m.code = o.code
      /\ m.root = o.root /\ m.cachedStorage = o.cachedStorage
  BY <1>2 DEF Objects
<1> HIDE DEF m
<1>6. Storage(m) = Storage(o)
  BY <1>5 DEF Storage, GetState
<1>7. Amends(o, m, e) /\ Amends(o, o, e)
  BY <1>5, <1>6 DEF Amends
<1>8. obs \in [Accounts -> Objects] /\ dty \in SUBSET Accounts
  BY <1>2, <1>5 DEF States
<1>9. CASE e.prev.touched \/ a = Ripemd
  <2>1. Replaced(l, l, a, o)
    BY <1>2 DEF Replaced, SameButObjects, SameMarks, States
  <2>2. Undo(s, e) = l
    BY <1>4, <1>9
  <2> QED BY <1>1, <1>2, <1>7, <2>1, <2>2, AmendedUndoes DEF l, o
<1>10. CASE ~(e.prev.touched \/ a = Ripemd)
  <2>1. Undo(s, e) = r
    BY <1>4, <1>10
  <2> HIDE DEF obs, dty
  <2>2. r \in States /\ r.objects = obs /\ SameButObjects(l, r)
    BY <1>2, <1>8 DEF States, SameButObjects, SameMarks
  <2>3. Replaced(l, r, a, m)
    BY <2>2 DEF Replaced, obs
  <2> HIDE DEF r
  <2> QED BY <1>1, <1>5, <1>7, <2>1, <2>3, AmendedUndoes DEF l, o
<1> QED BY <1>9, <1>10

\* storageChange (journal.go).
LEMMA UndoesStorage ==
  ASSUME NEW s \in States, trie \in [Accounts -> Data], NEW e \in Entries, e.kind = "storage"
  PROVE  Undoes(trie, s, Undo(s, e), e)
<1> DEFINE a == e.account
           l == Load(s, a)
           o == Loaded(trie, s.objects[a], a)
           m == PutState(o, e.prev.key, e.prev.value)
<1>1. a \in Accounts /\ e.prev.key \in Keys /\ e.prev.value \in Stored /\ e.kind \in AmendKinds
  BY EntryFacts DEF Plain, AmendKinds
<1>2. l \in States /\ l.objects[a] = o /\ o \in Objects
  BY <1>1, LoadIs
<1>4. Undo(s, e) = Write(l, a, m)
  <2> HIDE DEF o
  <2> QED BY <1>1, <1>2 DEF Undo, setState, PutState
<1> HIDE DEF l, o
<1>5. /\ m \in Objects /\ Storage(m) = [Storage(o) EXCEPT ![e.prev.key] = e.prev.value]
      /\ m.live = o.live /\ m.deleted = o.deleted /\ m.suicided = o.suicided
      /\ m.nonce = o.nonce /\ m.balance = o.balance /\ m.code = o.code
  BY <1>1, <1>2, PutStateSeen
<1> HIDE DEF m
<1>6. /\ Unwatched(m).live = m.live /\ Unwatched(m).deleted = m.deleted
      /\ Unwatched(m).suicided = m.suicided /\ Unwatched(m).nonce = m.nonce
      /\ Unwatched(m).balance = m.balance /\ Unwatched(m).code = m.code
      /\ Unwatched(m).root = m.root /\ Unwatched(m).cachedStorage = m.cachedStorage
  BY <1>5 DEF Unwatched, Objects
<1>7. Storage(Unwatched(m)) = Storage(m)
  BY <1>6 DEF Storage, GetState
<1>8. Amends(o, Unwatched(m), e)
  BY <1>5, <1>6, <1>7 DEF Amends
<1>9. Replaced(l, Write(l, a, m), a, Unwatched(m)) /\ Unwatched(m) \in Objects
  BY <1>1, <1>2, <1>5, WriteReplaces
<1> QED BY <1>1, <1>4, <1>8, <1>9, AmendedUndoes DEF l, o

\* Loading an object changes nothing that is seen.
LEMMA LoadSeesSame ==
  ASSUME NEW s \in States, trie \in [Accounts -> Data], NEW a \in Accounts
  PROVE  /\ Load(s, a) \in States /\ SeenIn(trie, Load(s, a)) = SeenIn(trie, s)
         /\ SameButObjects(s, Load(s, a))
         /\ Gone(trie, s) => Gone(trie, Load(s, a))
<1> DEFINE l == Load(s, a)
           o == Loaded(trie, s.objects[a], a)
<1>1. Replaced(s, l, a, o) /\ o \in Objects /\ s.objects \in [Accounts -> Objects] /\ s.objects[a] \in Objects
  BY LoadReplaces, LoadIs DEF States
<1>2. Loaded(trie, o, a) = o
  BY <1>1, LoadedStays
<1>3. trie[a] \in Data
  OBVIOUS
<1>4. o = s.objects[a] \/ o = newObject(trie[a])
  BY DEF Loaded
<1> HIDE DEF l
<1>5. ASSUME NEW b \in Accounts
      PROVE  SeenAt(trie, l, b) = SeenAt(trie, s, b)
  <2>1. CASE b = a
    <3>1. l.objects[a] = o
      BY <1>1 DEF Replaced
    <3> QED BY <1>2, <2>1, <3>1 DEF SeenAt
  <2>2. CASE b # a
    <3>1. l.objects[b] = s.objects[b]
      BY <1>1, <2>2 DEF Replaced
    <3> QED BY <3>1 DEF SeenAt
  <2> QED BY <2>1, <2>2
<1>6. l.refund = s.refund /\ l.logs = s.logs /\ l.preimages = s.preimages
  BY <1>1 DEF Replaced, SameButObjects
<1>7. SeenIn(trie, l) = SeenIn(trie, s)
  BY <1>5, <1>6 DEF SeenIn
<1>8. ASSUME Gone(trie, s)
      PROVE  Gone(trie, l)
  <2>1. ASSUME NEW b \in Accounts, l.objects[b].live, l.objects[b].deleted
        PROVE  ~trie[b].exists
    <3>1. CASE b = a
      <4>1. l.objects[a] = o
        BY <1>1 DEF Replaced
      <4>2. ~newObject(trie[a]).deleted
        BY <1>3, NewIsObject DEF Present
      <4>3. o = s.objects[a]
        BY <1>4, <2>1, <3>1, <4>1, <4>2
      <4> QED BY <1>8, <2>1, <3>1, <4>1, <4>3 DEF Gone
    <3>2. CASE b # a
      <4>1. l.objects[b] = s.objects[b]
        BY <1>1, <3>2 DEF Replaced
      <4> QED BY <1>8, <2>1, <4>1 DEF Gone
    <3> QED BY <3>1, <3>2
  <2> QED BY <2>1 DEF Gone
<1> QED BY <1>1, <1>7, <1>8 DEF Replaced, l

\* createObjectChange (journal.go): the account of the trie, if any, is seen again.
LEMMA UndoesCreate ==
  ASSUME NEW s \in States, trie \in [Accounts -> Data], NEW e \in Entries, e.kind = "create"
  PROVE  Undoes(trie, s, Undo(s, e), e)
<1> DEFINE a == e.account
           obs == [s.objects EXCEPT ![a] = NoObject]
           dty == s.dirty \ {a}
           r == [s EXCEPT !.objects = obs, !.dirty = dty]
<1>1. a \in Accounts /\ e.kind \notin Plain
  BY EntryFacts DEF Plain
<1>2. Undo(s, e) = r
  BY DEF Undo, UndoCreate
<1>3. obs \in [Accounts -> Objects] /\ dty \in SUBSET Accounts /\ obs[a] = NoObject
        /\ \A b \in Accounts : b # a => obs[b] = s.objects[b]
  BY <1>1, NoObjectIsObject DEF States
<1> HIDE DEF obs, dty
<1>4. r \in States /\ r.objects = obs /\ r.refund = s.refund /\ r.logs = s.logs /\ r.preimages = s.preimages
        /\ SameMarks(s, r)
  BY <1>3 DEF States, SameMarks
<1> HIDE DEF r
<1>5. SeenAt(trie, r, a) = UndoSeen(trie, SeenAt(trie, s, a), e)
  BY <1>3, <1>4 DEF SeenAt, UndoSeen
<1>6. SeenIn(trie, r) = UndoWorld(trie, SeenIn(trie, s), e)
  BY <1>1, <1>3, <1>4, <1>5, UndoneAccount
<1>7. Gone(trie, s) => Gone(trie, r)
  BY <1>3, <1>4, NoObjectIsObject DEF Gone
<1> QED BY <1>2, <1>4, <1>6, <1>7 DEF Undoes

\* resetObjectChange (journal.go): the object that was replaced is back.
LEMMA UndoesReset ==
  ASSUME NEW s \in States, trie \in [Accounts -> Data], NEW e \in Entries, e.kind = "reset"
  PROVE  Undoes(trie, s, Undo(s, e), e)
<1> DEFINE a == e.account
           obs == [s.objects EXCEPT ![a] = e.prev]
           r == [s EXCEPT !.objects = obs]
<1>1. a \in Accounts /\ e.kind \notin Plain /\ e.prev \in Present
  BY EntryFacts DEF Plain
<1>2. Undo(s, e) = r
  BY DEF Undo, UndoReset
<1>3. obs \in [Accounts -> Objects] /\ obs[a] = e.prev
        /\ \A b \in Accounts : b # a => obs[b] = s.objects[b]
  BY <1>1 DEF States, Present
<1> HIDE DEF obs
<1>4. r \in States /\ r.objects = obs /\ r.refund = s.refund /\ r.logs = s.logs /\ r.preimages = s.preimages
        /\ SameMarks(s, r)
  BY <1>3 DEF States, SameMarks
<1> HIDE DEF r
<1>5. SeenAt(trie, r, a) = UndoSeen(trie, SeenAt(trie, s, a), e)
  <2>1. Loaded(trie, e.prev, a) = e.prev
    BY <1>1 DEF Loaded, Present
  <2> QED BY <1>3, <1>4, <2>1 DEF SeenAt, UndoSeen
<1>6. SeenIn(trie, r) = UndoWorld(trie, SeenIn(trie, s), e)
  BY <1>1, <1>3, <1>4, <1>5, UndoneAccount
<1>7. Gone(trie, s) => Gone(trie, r)
  BY <1>1, <1>3, <1>4 DEF Gone, Present
<1> QED BY <1>2, <1>4, <1>6, <1>7 DEF Undoes

\* A list without its last element.
LEMMA ShortenedList ==
  ASSUME NEW S, NEW q \in Seq(S), q # <<>>
  PROVE  /\ Len(q) \in Nat /\ Len(q) >= 1
         /\ SubSeq(q, 1, Len(q) - 1) \in Seq(S) /\ Len(SubSeq(q, 1, Len(q) - 1)) = Len(q) - 1
         /\ \A i \in 1 .. Len(q) - 1 : SubSeq(q, 1, Len(q) - 1)[i] = q[i]
<1> DEFINE N == Len(q)
<1>1. N \in Nat /\ N >= 1 /\ \A i \in 1 .. N : q[i] \in S
  <2>1. Len(q) \in Nat /\ (Len(q) = 0 => q = <<>>)
    BY EmptySeq, LenProperties
  <2> QED BY <2>1
<1> HIDE DEF N
<1>2. 1 \in Int /\ N - 1 \in Int /\ \A i \in 1 .. N - 1 : q[i] \in S
  BY <1>1
<1>3. /\ SubSeq(q, 1, N - 1) \in Seq(S)
      /\ Len(SubSeq(q, 1, N - 1)) = IF 1 <= N - 1 THEN N - 1 - 1 + 1 ELSE 0
      /\ \A i \in 1 .. N - 1 - 1 + 1 : SubSeq(q, 1, N - 1)[i] = q[1 + i - 1]
  BY <1>2, SubSeqProperties
<1>4. Len(SubSeq(q, 1, N - 1)) = N - 1
  BY <1>1, <1>3
<1>5. \A i \in 1 .. N - 1 : i \in 1 .. N - 1 - 1 + 1 /\ 1 + i - 1 = i
  BY <1>1
<1> QED BY <1>1, <1>3, <1>4, <1>5 DEF N

\* No list of logs is left empty.
LEMMA UndoneLogsTyped ==
  ASSUME NEW logs \in LogLists, NEW x \in Int
  PROVE  UndoneLogs(logs, x) \in LogLists
<1>1. PICK T \in SUBSET Int : logs \in [T -> Seq(Int) \ {<<>>}]
  BY DEF LogLists
<1>2. CASE Len(logs[x]) = 1
  <2>1. WithoutKey(logs, x) \in [T \ {x} -> Seq(Int) \ {<<>>}]
    BY <1>1 DEF WithoutKey
  <2>2. T \ {x} \in SUBSET Int
    OBVIOUS
  <2>3. WithoutKey(logs, x) \in LogLists
    BY <2>1, <2>2 DEF LogLists
  <2> QED BY <1>2, <2>3 DEF UndoneLogs
<1>3. CASE Len(logs[x]) # 1
  <2> DEFINE m == SubSeq(logs[x], 1, Len(logs[x]) - 1)
  <2>1. UndoneLogs(logs, x) = [logs EXCEPT ![x] = m]
    BY <1>3 DEF UndoneLogs
  <2>2. x \in T => m \in Seq(Int) \ {<<>>}
    <3>1. SUFFICES ASSUME x \in T
                   PROVE  m \in Seq(Int) \ {<<>>}
      OBVIOUS
    <3>2. logs[x] \in Seq(Int) /\ logs[x] # <<>>
      BY <1>1, <3>1
    <3>3. m \in Seq(Int) /\ Len(m) = Len(logs[x]) - 1 /\ Len(logs[x]) \in Nat
      BY <3>2, ShortenedList
    <3> HIDE DEF m
    <3>4. Len(m) # 0
      BY <1>3, <3>3
    <3>5. m # <<>>
      BY <3>4
    <3> QED BY <3>3, <3>5
  <2> HIDE DEF m
  <2>3. [logs EXCEPT ![x] = m] \in [T -> Seq(Int) \ {<<>>}]
    BY <1>1, <2>2
  <2> QED BY <2>1, <2>3 DEF LogLists
<1> QED BY <1>2, <1>3

\* refundChange, addLogChange and addPreimageChange (journal.go).
LEMMA UndoesPlain ==
  ASSUME NEW s \in States, trie \in [Accounts -> Data], NEW e \in Entries, e.kind \in Plain
  PROVE  Undoes(trie, s, Undo(s, e), e)
<1> DEFINE l == IF e.account \in Accounts THEN Load(s, e.account) ELSE s
<1>1. /\ l \in States /\ SeenIn(trie, l) = SeenIn(trie, s)
      /\ Gone(trie, s) => Gone(trie, l)
      /\ l.refund = s.refund /\ l.logs = s.logs /\ l.preimages = s.preimages
      /\ SameMarks(s, l)
  BY LoadSeesSame DEF SameButObjects, SameMarks
<1>2. e.kind \notin {"create", "reset"} /\ e.kind \in {"refund", "log", "preimage"}
  BY DEF Plain
<1>3. l = IF e.account \in Accounts /\ e.kind \notin {"create", "reset"} THEN Load(s, e.account) ELSE s
  BY <1>2
<1> DEFINE seen == [b \in Accounts |-> SeenAt(trie, l, b)]
<1>4. SeenIn(trie, l) = [accounts |-> seen, refund |-> l.refund, logs |-> l.logs, preimages |-> l.preimages]
  BY DEF SeenIn
<1>5. CASE e.kind = "refund"
  <2> DEFINE r == [l EXCEPT !.refund = e.prev]
  <2>1. Undo(s, e) = r
    BY <1>3, <1>5 DEF Undo
  <2> HIDE DEF l
  <2>2. e.prev \in Int
    BY <1>5, EntryFacts
  <2>3. r \in States /\ r.objects = l.objects /\ r.refund = e.prev /\ r.logs = l.logs /\ r.preimages = l.preimages
          /\ SameMarks(l, r)
    BY <1>1, <2>2 DEF States, SameMarks
  <2> HIDE DEF r
  <2>4. SeenIn(trie, r) = [accounts |-> seen, refund |-> e.prev, logs |-> l.logs, preimages |-> l.preimages]
    BY <2>3 DEF SeenIn, SeenAt
  <2> HIDE DEF seen
  <2>5. SeenIn(trie, r) = UndoWorld(trie, SeenIn(trie, s), e)
    BY <1>1, <1>4, <1>5, <2>4 DEF UndoWorld
  <2>6. Gone(trie, l) => Gone(trie, r)
    BY <2>3 DEF Gone
  <2> QED BY <1>1, <2>1, <2>3, <2>5, <2>6 DEF Undoes, SameMarks
<1>6. CASE e.kind = "log"
  <2> DEFINE g == UndoneLogs(l.logs, e.prev)
             r == [l EXCEPT !.logs = g]
  <2>1. Undo(s, e) = r
    <3>1. Undo(s, e) = UndoLog(l, e.prev)
      BY <1>3, <1>6 DEF Undo
    <3> HIDE DEF l
    <3> QED BY <3>1 DEF UndoLog
  <2> HIDE DEF l
  <2>2. e.prev \in Int
    BY <1>6, EntryFacts
  <2>3. g \in LogLists
    BY <1>1, <2>2, UndoneLogsTyped DEF States
  <2> HIDE DEF g
  <2>4. r \in States /\ r.objects = l.objects /\ r.refund = l.refund /\ r.logs = g /\ r.preimages = l.preimages
          /\ SameMarks(l, r)
    BY <1>1, <2>3 DEF States, SameMarks
  <2> HIDE DEF r
  <2>5. SeenIn(trie, r) = [accounts |-> seen, refund |-> l.refund, logs |-> g, preimages |-> l.preimages]
    BY <2>4 DEF SeenIn, SeenAt
  <2> HIDE DEF seen
  <2>6. SeenIn(trie, r) = UndoWorld(trie, SeenIn(trie, s), e)
    BY <1>1, <1>4, <1>6, <2>5 DEF UndoWorld, g
  <2>7. Gone(trie, l) => Gone(trie, r)
    BY <2>4 DEF Gone
  <2> QED BY <1>1, <2>1, <2>4, <2>6, <2>7 DEF Undoes, SameMarks
<1>7. CASE e.kind = "preimage"
  <2> DEFINE g == l.preimages \ {e.prev}
             r == [l EXCEPT !.preimages = g]
  <2>1. Undo(s, e) = r
    BY <1>3, <1>7 DEF Undo
  <2> HIDE DEF l
  <2>3. g \in SUBSET Preimages
    BY <1>1 DEF States
  <2> HIDE DEF g
  <2>4. r \in States /\ r.objects = l.objects /\ r.refund = l.refund /\ r.logs = l.logs /\ r.preimages = g
          /\ SameMarks(l, r)
    BY <1>1, <2>3 DEF States, SameMarks
  <2> HIDE DEF r
  <2>5. SeenIn(trie, r) = [accounts |-> seen, refund |-> l.refund, logs |-> l.logs, preimages |-> g]
    BY <2>4 DEF SeenIn, SeenAt
  <2> HIDE DEF seen
  <2>6. SeenIn(trie, r) = UndoWorld(trie, SeenIn(trie, s), e)
    BY <1>1, <1>4, <1>7, <2>5 DEF UndoWorld, g
  <2>7. Gone(trie, l) => Gone(trie, r)
    BY <2>4 DEF Gone
  <2> QED BY <1>1, <2>1, <2>4, <2>6, <2>7 DEF Undoes, SameMarks
<1> QED BY <1>2, <1>5, <1>6, <1>7

\* Whatever the kind of the entry, undo does what UndoWorld says.
LEMMA UndoUndoes ==
  ASSUME NEW s \in States, trie \in [Accounts -> Data], NEW e \in Entries
  PROVE  Undoes(trie, s, Undo(s, e), e)
<1>1. e.kind \in {"create", "reset", "suicide", "touch", "storage"} \cup NumberKinds \cup Plain
  BY EntryFacts DEF AmendKinds
<1> QED BY <1>1, UndoesCreate, UndoesReset, UndoesSuicide, UndoesTouch, UndoesStorage, UndoNumber,
           UndoesPlain

-----------------------------------------------------------------------------
(* The journal remembers what was seen: w[n] with n entries left.           *)

Remembers(t, s, sv, w) ==
  /\ w[Len(s.journal)] = SeenIn(t, s)
  /\ \A n \in 0 .. (Len(s.journal) - 1) : w[n] = UndoWorld(t, w[n + 1], s.journal[n + 1])
  /\ \A k \in 1 .. Len(sv) : w[s.validRevisions[k].journalIndex] = sv[k].world

Marked(s, sv) ==
  /\ Len(s.validRevisions) = Len(sv)
  /\ \A k \in 1 .. Len(sv) : s.validRevisions[k].journalIndex \in 0 .. Len(s.journal)
  /\ \A j, k \in 1 .. Len(sv) :
       j < k => s.validRevisions[j].journalIndex <= s.validRevisions[k].journalIndex

Good(t, s, sv) ==
  /\ t \in [Accounts -> Data] /\ s \in States /\ Gone(t, s)
  /\ sv \in Seq([id : Int, world : Worlds])
  /\ \A k \in 1 .. Len(sv) : sv[k].id < s.nextRevisionId
  /\ Marked(s, sv)
  /\ \E w : Remembers(t, s, sv, w)

\* A step that changes nothing that is seen, or only adds one entry to the journal.
LEMMA SilentStep ==
  ASSUME NEW t, NEW s, NEW sv, NEW r \in States, Good(t, s, sv),
         SeenIn(t, r) = SeenIn(t, s), Gone(t, r), r.journal = s.journal,
         r.validRevisions = s.validRevisions, r.nextRevisionId = s.nextRevisionId
  PROVE  Good(t, r, sv)
<1>1. PICK w : Remembers(t, s, sv, w)
  BY DEF Good
<1>2. Remembers(t, r, sv, w)
  BY <1>1 DEF Remembers
<1>3. Marked(r, sv)
  BY DEF Marked, Good
<1> QED BY <1>2, <1>3 DEF Good

\* A step that adds the entry that undoes it.
LEMMA LoggedStep ==
  ASSUME NEW t, NEW s, NEW sv, NEW r \in States, NEW e \in Entries, Good(t, s, sv),
         SeenIn(t, s) = UndoWorld(t, SeenIn(t, r), e), Gone(t, r), r.journal = Append(s.journal, e),
         r.validRevisions = s.validRevisions, r.nextRevisionId = s.nextRevisionId
  PROVE  Good(t, r, sv)
<1> DEFINE L == Len(s.journal)
<1>0. s \in States /\ s.journal \in Seq(Entries) /\ L \in Nat
  <2>1. s \in States
    BY DEF Good
  <2>2. s.journal \in Seq(Entries)
    BY <2>1 DEF States
  <2> QED BY <2>1, <2>2
<1>1. /\ Len(r.journal) = L + 1 /\ r.journal[L + 1] = e
      /\ \A n \in 1 .. L : r.journal[n] = s.journal[n]
  BY <1>0
<1> HIDE DEF L
<1>2. PICK w : Remembers(t, s, sv, w)
  BY DEF Good
<1> DEFINE x == [n \in 0 .. (L + 1) |-> IF n = L + 1 THEN SeenIn(t, r) ELSE w[n]]
<1>3. x[L + 1] = SeenIn(t, r) /\ \A n \in 0 .. L : x[n] = w[n]
  BY <1>0
<1> HIDE DEF x
<1>4. ASSUME NEW n \in 0 .. L
      PROVE  x[n] = UndoWorld(t, x[n + 1], r.journal[n + 1])
  <2>1. CASE n = L
    <3>1. x[n] = SeenIn(t, s)
      <4>1. w[L] = SeenIn(t, s)
        BY <1>2 DEF Remembers, L
      <4> QED BY <1>3, <2>1, <4>1
    <3>2. x[n + 1] = SeenIn(t, r) /\ r.journal[n + 1] = e
      BY <1>1, <1>3, <2>1
    <3> QED BY <3>1, <3>2
  <2>2. CASE n # L
    <3>1. n \in 0 .. (L - 1) /\ n + 1 \in 0 .. L /\ n + 1 \in 1 .. L
      BY <1>0, <2>2
    <3>2. w[n] = UndoWorld(t, w[n + 1], s.journal[n + 1])
      BY <1>2, <3>1 DEF Remembers, L
    <3> QED BY <1>1, <1>3, <3>1, <3>2
  <2> QED BY <2>1, <2>2
<1>5. (L + 1) - 1 = L
  BY <1>0
<1>6. ASSUME NEW k \in 1 .. Len(sv)
      PROVE  x[r.validRevisions[k].journalIndex] = sv[k].world
  <2>1. s.validRevisions[k].journalIndex \in 0 .. L
    BY DEF Good, Marked, L
  <2>2. w[s.validRevisions[k].journalIndex] = sv[k].world
    BY <1>2 DEF Remembers
  <2> QED BY <1>3, <2>1, <2>2
<1>7. Remembers(t, r, sv, x)
  BY <1>1, <1>3, <1>4, <1>5, <1>6 DEF Remembers
<1>8. Marked(r, sv)
  <2>1. ASSUME NEW k \in 1 .. Len(sv)
        PROVE  r.validRevisions[k].journalIndex \in 0 .. Len(r.journal)
    <3>1. s.validRevisions[k].journalIndex \in 0 .. L
      BY DEF Good, Marked, L
    <3> QED BY <1>0, <1>1, <3>1
  <2> QED BY <2>1 DEF Good, Marked
<1> QED BY <1>7, <1>8 DEF Good

-----------------------------------------------------------------------------
(* The modifications keep the journal good.                                 *)

\* r is s with n in place of a's object and one more entry in the journal.
Logged(s, r, a, n, e) ==
  /\ r \in States /\ r.objects = [s.objects EXCEPT ![a] = n]
  /\ r.refund = s.refund /\ r.logs = s.logs /\ r.preimages = s.preimages
  /\ r.journal = Append(s.journal, e)
  /\ r.validRevisions = s.validRevisions /\ r.nextRevisionId = s.nextRevisionId

\* The same for a step that replaces one object.
LEMMA AccountStep ==
  ASSUME NEW t, NEW s, NEW sv, NEW r, NEW a \in Accounts, NEW n \in Present, NEW e \in Entries,
         Good(t, s, sv), e.kind \notin Plain, e.account = a, Logged(s, r, a, n, e),
         SeenAt(t, s, a) = UndoSeen(t, Seen(n), e)
  PROVE  Good(t, r, sv)
<1>1. t \in [Accounts -> Data] /\ s \in States /\ Gone(t, s) /\ r \in States
  BY DEF Good, Logged
<1>2. /\ s.objects \in [Accounts -> Objects] /\ r.objects[a] = n
      /\ \A b \in Accounts : b # a => s.objects[b] = r.objects[b]
  BY <1>1 DEF States, Logged
<1>3. Loaded(t, n, a) = n
  BY DEF Loaded, Present
<1>4. SeenAt(t, s, a) = UndoSeen(t, SeenAt(t, r, a), e)
  BY <1>2, <1>3 DEF SeenAt
<1>5. SeenIn(t, s) = UndoWorld(t, SeenIn(t, r), e)
  <2>1. s.refund = r.refund /\ s.logs = r.logs /\ s.preimages = r.preimages
    BY DEF Logged
  <2> QED BY <1>1, <1>2, <1>4, <2>1, UndoneAccount
<1>6. Gone(t, r)
  BY <1>1, <1>2 DEF Gone, Present
<1> QED BY <1>5, <1>6, LoggedStep DEF Logged

\* Loading an object cannot be seen.
LEMMA LoadGood ==
  ASSUME NEW s, NEW sv, NEW a \in Accounts, Good(trie, s, sv)
  PROVE  /\ Good(trie, Load(s, a), sv) /\ Load(s, a) \in States
         /\ Load(s, a).objects[a] \in Objects
         /\ Loaded(trie, Load(s, a).objects[a], a) = Load(s, a).objects[a]
<1>1. trie \in [Accounts -> Data] /\ s \in States /\ Gone(trie, s) /\ s.objects[a] \in Objects
  BY DEF Good, States
<1>2. Good(trie, Load(s, a), sv)
  BY <1>1, LoadSeesSame, SilentStep DEF SameButObjects, SameMarks
<1>3. Load(s, a).objects[a] = Loaded(trie, s.objects[a], a) /\ Load(s, a).objects[a] \in Objects
  BY <1>1, LoadIs
<1>4. Loaded(trie, Load(s, a).objects[a], a) = Load(s, a).objects[a]
  BY <1>1, <1>3, LoadedStays
<1> QED BY <1>1, <1>2, <1>3, <1>4, LoadIs

FoundIn(s, a) == s.objects[a] \in Present

\* An object that is found is present.
LEMMA FoundIsPresent ==
  ASSUME NEW s \in States, NEW a \in Accounts
  PROVE  Found(s, a) <=> FoundIn(s, a)
<1>1. s.objects[a] \in Objects
  BY DEF States
<1> QED BY <1>1 DEF Found, FoundIn, Present

Fresh == [newObject(NoAccount) EXCEPT !.watched = FALSE]

\* The object of a new account.
LEMMA FreshIsPresent == Fresh \in Present
<1>1. newObject(NoAccount) \in Objects /\ newObject(NoAccount).live /\ ~newObject(NoAccount).deleted
  BY NoAccountIsData, NewIsObject DEF Present
<1>2. Fresh = Unwatched(newObject(NoAccount))
  BY DEF Fresh, Unwatched
<1> QED BY <1>1, <1>2, UnwatchedSeen DEF Present

\* Putting an object in place of the one that j has, and marking it dirty
LEMMA ObjectPut ==
  ASSUME NEW s \in States, NEW j, NEW e, Appended(s, j, e), NEW a \in Accounts, NEW n \in Objects
  PROVE  Logged(s, [j EXCEPT !.objects = [j.objects EXCEPT ![a] = n], !.dirty = j.dirty \cup {a}], a, n, e)
<1> DEFINE obs == [j.objects EXCEPT ![a] = n]
           dty == j.dirty \cup {a}
           r == [j EXCEPT !.objects = obs, !.dirty = dty]
<1>1. j \in States /\ j.objects = s.objects
  BY DEF Appended
<1>2. obs \in [Accounts -> Objects] /\ dty \in SUBSET Accounts /\ obs = [s.objects EXCEPT ![a] = n]
  BY <1>1 DEF States
<1> HIDE DEF obs, dty
<1>3. /\ r \in States /\ r.objects = obs /\ r.refund = j.refund /\ r.logs = j.logs
      /\ r.preimages = j.preimages /\ r.journal = j.journal /\ r.validRevisions = j.validRevisions
      /\ r.nextRevisionId = j.nextRevisionId
  BY <1>1, <1>2 DEF States
<1> HIDE DEF r
<1>4. Logged(s, r, a, n, e)
  BY <1>2, <1>3 DEF Logged, Appended
<1> QED BY <1>4 DEF r, obs, dty

\* An entry and then a Write.
LEMMA WriteLogged ==
  ASSUME NEW s \in States, NEW j, NEW e, NEW a \in Accounts, NEW m \in Objects,
         Appended(s, j, e)
  PROVE  Logged(s, Write(j, a, m), a, Unwatched(m), e)
<1>1. j \in States
  BY DEF Appended
<1>2. Replaced(j, Write(j, a, m), a, Unwatched(m))
  BY <1>1, WriteReplaces
<1> QED BY <1>2 DEF Replaced, SameButObjects, SameMarks, Logged, Appended

\* An entry and the write it is for.
LEMMA LoggedWrite ==
  ASSUME NEW s, NEW sv, NEW a \in Accounts, NEW kind, NEW prev, NEW m \in Objects,
         Good(trie, s, sv), FoundIn(s, a), kind \in AmendKinds, Entry(kind, a, prev) \in Entries,
         Amends(Unwatched(m), s.objects[a], Entry(kind, a, prev))
  PROVE  Good(trie, Write(Journaled(s, kind, a, prev), a, m), sv)
<1> DEFINE e == Entry(kind, a, prev)
           j == Journaled(s, kind, a, prev)
           o == s.objects[a]
<1>1. s \in States /\ trie \in [Accounts -> Data]
  BY DEF Good
<1>2. o \in Present /\ o \in Objects /\ Loaded(trie, o, a) = o
  BY DEF FoundIn, Present, Loaded
<1>3. e.kind = kind /\ e.account = a
  BY DEF Entry
<1>4. Appended(s, j, e)
  BY <1>1, JournaledAppends
<1>5. Logged(s, Write(j, a, m), a, Unwatched(m), e)
  BY <1>1, <1>4, WriteLogged
<1>6. Unwatched(m) \in Objects
  BY UnwatchedSeen
<1>7. Unwatched(m) \in Present
  BY <1>2, <1>6 DEF Amends, Present
<1> HIDE DEF e, o
<1>8. Seen(o) = UndoSeen(trie, Seen(Unwatched(m)), e)
  BY <1>2, <1>3, <1>6, AmendedSeen DEF e, o
<1>9. SeenAt(trie, s, a) = Seen(o)
  BY <1>2 DEF SeenAt, o
<1>10. e.kind \notin Plain
  BY <1>3 DEF AmendKinds, NumberKinds, Plain
<1>11. e \in Entries
  BY DEF e
<1> HIDE DEF j
<1> QED BY <1>1, <1>3, <1>5, <1>7, <1>8, <1>9, <1>10, <1>11, AccountStep DEF j

\* The entry of a new account.
LEMMA CreateEntry ==
  ASSUME NEW a \in Accounts
  PROVE  Entry("create", a, NoObject) \in Entries
  BY DEF Entry, Entries

\* The entry of an account that is replaced.
LEMMA ResetEntry ==
  ASSUME NEW a \in Accounts, NEW o \in Present
  PROVE  Entry("reset", a, o) \in Entries
  BY DEF Entry, Entries

\* Whatever replaces a found object, undoing the reset brings the object back.
LEMMA ResetStep ==
  ASSUME NEW s, NEW sv, NEW r, NEW a \in Accounts, NEW n \in Present,
         Good(trie, s, sv), FoundIn(s, a), Logged(s, r, a, n, Entry("reset", a, s.objects[a]))
  PROVE  Good(trie, r, sv)
<1> DEFINE e == Entry("reset", a, s.objects[a])
<1>1. s.objects[a] \in Present /\ Loaded(trie, s.objects[a], a) = s.objects[a]
  BY DEF FoundIn, Present, Loaded
<1>2. e \in Entries
  BY <1>1, ResetEntry
<1>3. e.kind = "reset" /\ e.account = a /\ e.prev = s.objects[a] /\ e.kind \notin Plain
  BY DEF Entry, Plain
<1> HIDE DEF e
<1>4. SeenAt(trie, s, a) = UndoSeen(trie, Seen(n), e)
  BY <1>1, <1>3 DEF SeenAt, UndoSeen
<1> QED BY <1>2, <1>3, <1>4, AccountStep DEF e

\* An account that is not found is not in the trie either.
LEMMA CreateStep ==
  ASSUME NEW s, NEW sv, NEW r, NEW a \in Accounts, NEW n \in Present,
         Good(trie, s, sv), Loaded(trie, s.objects[a], a) = s.objects[a], ~FoundIn(s, a),
         Logged(s, r, a, n, Entry("create", a, NoObject))
  PROVE  Good(trie, r, sv)
<1> DEFINE e == Entry("create", a, NoObject)
           o == s.objects[a]
<1>1. s \in States /\ Gone(trie, s) /\ trie \in [Accounts -> Data] /\ trie[a] \in Data /\ o \in Objects
  BY DEF Good, States
<1>2. e \in Entries
  BY CreateEntry
<1>3. e.kind = "create" /\ e.account = a /\ e.kind \notin Plain
  BY DEF Entry, Plain
<1>4. ~trie[a].exists
  <2>1. CASE o.live
    <3>1. o.deleted
      BY <1>1, <2>1 DEF FoundIn, Present
    <3> QED BY <1>1, <2>1, <3>1 DEF Gone
  <2>2. CASE ~o.live
    <3>1. newObject(trie[a]).live
      BY <1>1, NewIsObject DEF Present
    <3> QED BY <2>2, <3>1 DEF Loaded
  <2> QED BY <2>1, <2>2
<1>5. Seen(o) = Absent
  BY <1>1, SeenFields DEF FoundIn
<1>6. Seen(Loaded(trie, NoObject, a)) = Absent
  <2>1. Loaded(trie, NoObject, a) = NoObject
    BY <1>4 DEF Loaded
  <2> QED BY <2>1, NoObjectIsObject, SeenFields DEF Present
<1> HIDE DEF e
<1>7. SeenAt(trie, s, a) = UndoSeen(trie, Seen(n), e)
  BY <1>3, <1>5, <1>6 DEF SeenAt, UndoSeen
<1> QED BY <1>2, <1>3, <1>7, AccountStep DEF e

\* createObject logs what it replaces.
LEMMA CreateObjectGood ==
  ASSUME NEW s0, NEW sv, NEW a \in Accounts, Good(trie, s0, sv)
  PROVE  /\ Good(trie, createObject(s0, a), sv)
         /\ FoundIn(createObject(s0, a), a)
         /\ FoundIn(Load(s0, a), a) =>
              Logged(Load(s0, a), createObject(s0, a), a, Fresh, Entry("reset", a, Load(s0, a).objects[a]))
         /\ createObject(s0, a).objects[a] = Fresh
<1> DEFINE s == Load(s0, a)
           j == IF FoundIn(s, a) THEN Journaled(s, "reset", a, s.objects[a])
                ELSE Journaled(s, "create", a, NoObject)
           e == IF FoundIn(s, a) THEN Entry("reset", a, s.objects[a]) ELSE Entry("create", a, NoObject)
           r == createObject(s0, a)
<1>1. /\ Good(trie, s, sv) /\ s \in States /\ s.objects[a] \in Objects
      /\ Loaded(trie, s.objects[a], a) = s.objects[a]
  BY LoadGood
<1>2. r = [j EXCEPT !.objects = [j.objects EXCEPT ![a] = Fresh], !.dirty = j.dirty \cup {a}]
  BY <1>1, FoundIsPresent DEF createObject, Fresh
<1> HIDE DEF s
<1>3. Appended(s, j, e)
  BY <1>1, JournaledAppends, CreateEntry, ResetEntry DEF FoundIn
<1> HIDE DEF j, r
<1>4. Logged(s, r, a, Fresh, e)
  <2>1. Fresh \in Objects
    BY FreshIsPresent DEF Present
  <2> QED BY <1>1, <1>2, <1>3, <2>1, ObjectPut
<1>5. Good(trie, r, sv)
  <2>1. CASE FoundIn(s, a)
    BY <1>1, <1>4, <2>1, FreshIsPresent, ResetStep
  <2>2. CASE ~FoundIn(s, a)
    BY <1>1, <1>4, <2>2, FreshIsPresent, CreateStep
  <2> QED BY <2>1, <2>2
<1>6. r.objects[a] = Fresh
  BY <1>1, <1>4 DEF Logged, States
<1> QED BY <1>4, <1>5, <1>6, FreshIsPresent DEF FoundIn, r, s

\* GetOrNewStateObject: the account is there afterwards.
LEMMA GetOrNewGood ==
  ASSUME NEW s0, NEW sv, NEW a \in Accounts, Good(trie, s0, sv)
  PROVE  /\ Good(trie, GetOrNewStateObject(s0, a), sv)
         /\ FoundIn(GetOrNewStateObject(s0, a), a)
<1> DEFINE s == Load(s0, a)
<1>1. Good(trie, s, sv) /\ s \in States
  BY LoadGood
<1>2. GetOrNewStateObject(s0, a) = IF FoundIn(s, a) THEN s ELSE createObject(s, a)
  BY <1>1, FoundIsPresent DEF GetOrNewStateObject
<1> HIDE DEF s
<1>3. Good(trie, createObject(s, a), sv) /\ FoundIn(createObject(s, a), a)
  BY <1>1, CreateObjectGood
<1> QED BY <1>1, <1>2, <1>3

\* CreateAccount: one entry undoes both the reset and the balance carried over.
LEMMA CreateAccountGood ==
  ASSUME NEW s0, NEW sv, NEW a \in Accounts, Good(trie, s0, sv)
  PROVE  Good(trie, CreateAccount(s0, a), sv)
<1> DEFINE s == Load(s0, a)
           n == createObject(s, a)
           m == [Fresh EXCEPT !.balance = s.objects[a].balance]
<1>1. Good(trie, s, sv) /\ s \in States /\ s.objects[a] \in Objects
        /\ Loaded(trie, s.objects[a], a) = s.objects[a]
  BY LoadGood
<1>2. CreateAccount(s0, a) = IF FoundIn(s, a)
                             THEN Write(n, a, [n.objects[a] EXCEPT !.balance = s.objects[a].balance]) ELSE n
  BY <1>1, FoundIsPresent DEF CreateAccount
<1> HIDE DEF s
<1>3. Good(trie, n, sv) /\ n.objects[a] = Fresh
  BY <1>1, CreateObjectGood
<1>4. CASE ~FoundIn(s, a)
  BY <1>2, <1>3, <1>4
<1>5. CASE FoundIn(s, a)
  <2> DEFINE e == Entry("reset", a, s.objects[a])
  <2>1. Load(s, a) = s
    <3>1. s.objects[a].live
      BY <1>5 DEF FoundIn, Present
    <3> QED BY <3>1 DEF Load
  <2>2. Logged(s, n, a, Fresh, e)
    BY <1>1, <1>5, <2>1, CreateObjectGood
  <2> HIDE DEF n, e
  <2>3. Fresh \in Objects /\ Fresh.live /\ ~Fresh.deleted
    BY FreshIsPresent DEF Present
  <2>4. m \in Objects /\ m.live /\ ~m.deleted
    BY <1>1, <2>3 DEF Objects
  <2>5. CreateAccount(s0, a) = Write(n, a, m)
    BY <1>2, <1>3, <1>5
  <2> HIDE DEF m
  <2>6. n \in States
    BY <2>2 DEF Logged
  <2>7. Replaced(n, Write(n, a, m), a, Unwatched(m))
    BY <2>4, <2>6, WriteReplaces
  <2>8. Unwatched(m) \in Present
    BY <2>4, UnwatchedSeen DEF Present
  <2>9. Logged(s, Write(n, a, m), a, Unwatched(m), e)
    <3> DEFINE r == Write(n, a, m)
               x == Unwatched(m)
    <3> HIDE DEF r, x
    <3>1. r.objects = [n.objects EXCEPT ![a] = x] /\ n.objects = [s.objects EXCEPT ![a] = Fresh]
      BY <2>2, <2>7 DEF Replaced, Logged, r, x
    <3>2. s.objects \in [Accounts -> Objects]
      BY <1>1 DEF States
    <3>3. r.objects = [s.objects EXCEPT ![a] = x]
      BY <3>1, <3>2
    <3> QED BY <2>2, <2>7, <3>3 DEF Replaced, SameButObjects, SameMarks, Logged, r, x
  <2>10. Good(trie, Write(n, a, m), sv)
    BY <1>1, <1>5, <2>8, <2>9, ResetStep DEF e
  <2> QED BY <2>5, <2>10
<1> QED BY <1>4, <1>5

\* The entries of balance, nonce and code.
LEMMA NumberEntry ==
  ASSUME NEW a \in Accounts, NEW kind \in NumberKinds, NEW x \in Int
  PROVE  Entry(kind, a, x) \in Entries
  BY DEF Entry, Entries

\* The fields of an object that is found.
LEMMA FoundObject ==
  ASSUME NEW s, NEW sv, NEW a \in Accounts, Good(trie, s, sv), FoundIn(s, a)
  PROVE  /\ s \in States /\ s.objects[a] \in Objects
         /\ s.objects[a].balance \in Int /\ s.objects[a].nonce \in Int /\ s.objects[a].code \in Int
         /\ s.objects[a].suicided \in BOOLEAN /\ s.objects[a].touched \in BOOLEAN
         /\ s.objects[a].watched \in BOOLEAN
<1>1. s \in States /\ s.objects[a] \in Objects
  BY DEF Good, FoundIn, Present
<1> QED BY <1>1 DEF Objects

\* The callback is not part of the data.
LEMMA UnwatchedFields ==
  ASSUME NEW m \in Objects
  PROVE  /\ Unwatched(m).live = m.live /\ Unwatched(m).deleted = m.deleted
         /\ Unwatched(m).suicided = m.suicided /\ Unwatched(m).nonce = m.nonce
         /\ Unwatched(m).balance = m.balance /\ Unwatched(m).code = m.code
         /\ Storage(Unwatched(m)) = Storage(m)
<1>1. /\ Unwatched(m).live = m.live /\ Unwatched(m).deleted = m.deleted
      /\ Unwatched(m).suicided = m.suicided /\ Unwatched(m).nonce = m.nonce
      /\ Unwatched(m).balance = m.balance /\ Unwatched(m).code = m.code
      /\ Unwatched(m).root = m.root /\ Unwatched(m).cachedStorage = m.cachedStorage
  BY DEF Unwatched, Objects
<1>2. Storage(Unwatched(m)) = Storage(m)
  BY <1>1 DEF Storage, GetState
<1> QED BY <1>1, <1>2

\* SetBalance logs the balance it replaces.
LEMMA SetBalanceGood ==
  ASSUME NEW s, NEW sv, NEW a \in Accounts, NEW x \in Int, Good(trie, s, sv), FoundIn(s, a)
  PROVE  Good(trie, SetBalance(s, a, x), sv)
<1> DEFINE o == s.objects[a]
           m == [o EXCEPT !.balance = x]
           e == Entry("balance", a, o.balance)
<1>1. o \in Objects /\ o.balance \in Int
  BY FoundObject
<1>2. e \in Entries /\ e.kind = "balance" /\ e.prev = o.balance
  BY <1>1, NumberEntry DEF NumberKinds, Entry
<1>3. SetBalance(s, a, x) = Write(Journaled(s, "balance", a, o.balance), a, m)
  BY DEF SetBalance
<1> HIDE DEF o, e
<1>4. /\ m \in Objects /\ m.live = o.live /\ m.deleted = o.deleted /\ m.suicided = o.suicided
      /\ m.nonce = o.nonce /\ m.code = o.code /\ m.root = o.root /\ m.cachedStorage = o.cachedStorage
  BY <1>1 DEF Objects
<1> HIDE DEF m
<1>5. Storage(m) = Storage(o)
  BY <1>4 DEF Storage, GetState
<1>6. Amends(Unwatched(m), o, e)
  BY <1>2, <1>4, <1>5, UnwatchedFields DEF Amends
<1>7. "balance" \in AmendKinds
  BY DEF AmendKinds, NumberKinds
<1> QED BY <1>1, <1>2, <1>3, <1>4, <1>6, <1>7, LoggedWrite DEF o, e

\* SetNonce logs the nonce it replaces.
LEMMA SetNonceGood ==
  ASSUME NEW s0, NEW sv, NEW a \in Accounts, NEW x \in Int, Good(trie, s0, sv)
  PROVE  Good(trie, SetNonce(s0, a, x), sv)
<1> DEFINE s == GetOrNewStateObject(s0, a)
           o == s.objects[a]
           m == [o EXCEPT !.nonce = x]
           e == Entry("nonce", a, o.nonce)
<1>0. Good(trie, s, sv) /\ FoundIn(s, a)
  BY GetOrNewGood
<1>3. SetNonce(s0, a, x) = Write(Journaled(s, "nonce", a, o.nonce), a, m)
  BY DEF SetNonce
<1> HIDE DEF s
<1>1. o \in Objects /\ o.nonce \in Int
  BY <1>0, FoundObject
<1>2. e \in Entries /\ e.kind = "nonce" /\ e.prev = o.nonce
  BY <1>1, NumberEntry DEF NumberKinds, Entry
<1> HIDE DEF o, e
<1>4. /\ m \in Objects /\ m.live = o.live /\ m.deleted = o.deleted /\ m.suicided = o.suicided
      /\ m.balance = o.balance /\ m.code = o.code /\ m.root = o.root /\ m.cachedStorage = o.cachedStorage
  BY <1>1 DEF Objects
<1> HIDE DEF m
<1>5. Storage(m) = Storage(o)
  BY <1>4 DEF Storage, GetState
<1>6. Amends(Unwatched(m), o, e)
  BY <1>2, <1>4, <1>5, UnwatchedFields DEF Amends
<1>7. "nonce" \in AmendKinds
  BY DEF AmendKinds, NumberKinds
<1> QED BY <1>0, <1>1, <1>2, <1>3, <1>4, <1>6, <1>7, LoggedWrite DEF o, e

\* SetCode logs the code it replaces.
LEMMA SetCodeGood ==
  ASSUME NEW s0, NEW sv, NEW a \in Accounts, NEW x \in Int, Good(trie, s0, sv)
  PROVE  Good(trie, SetCode(s0, a, x), sv)
<1> DEFINE s == GetOrNewStateObject(s0, a)
           o == s.objects[a]
           m == [o EXCEPT !.code = x]
           e == Entry("code", a, o.code)
<1>0. Good(trie, s, sv) /\ FoundIn(s, a)
  BY GetOrNewGood
<1>3. SetCode(s0, a, x) = Write(Journaled(s, "code", a, o.code), a, m)
  BY DEF SetCode
<1> HIDE DEF s
<1>1. o \in Objects /\ o.code \in Int
  BY <1>0, FoundObject
<1>2. e \in Entries /\ e.kind = "code" /\ e.prev = o.code
  BY <1>1, NumberEntry DEF NumberKinds, Entry
<1> HIDE DEF o, e
<1>4. /\ m \in Objects /\ m.live = o.live /\ m.deleted = o.deleted /\ m.suicided = o.suicided
      /\ m.balance = o.balance /\ m.nonce = o.nonce /\ m.root = o.root /\ m.cachedStorage = o.cachedStorage
  BY <1>1 DEF Objects
<1> HIDE DEF m
<1>5. Storage(m) = Storage(o)
  BY <1>4 DEF Storage, GetState
<1>6. Amends(Unwatched(m), o, e)
  BY <1>2, <1>4, <1>5, UnwatchedFields DEF Amends
<1>7. "code" \in AmendKinds
  BY DEF AmendKinds, NumberKinds
<1> QED BY <1>0, <1>1, <1>2, <1>3, <1>4, <1>6, <1>7, LoggedWrite DEF o, e

\* SetState logs the value it replaces.
LEMMA SetStateGood ==
  ASSUME NEW s0, NEW sv, NEW a \in Accounts, NEW k \in Keys, NEW v \in Stored, Good(trie, s0, sv)
  PROVE  Good(trie, SetState(s0, a, k, v), sv)
<1> DEFINE s == GetOrNewStateObject(s0, a)
           o == s.objects[a]
           m == PutState(o, k, v)
           x == GetState(o, k)
           prev == [key |-> k, value |-> x]
           e == Entry("storage", a, prev)
           j == Journaled(s, "storage", a, prev)
<1>0. Good(trie, s, sv) /\ FoundIn(s, a)
  BY GetOrNewGood
<1>3. SetState(s0, a, k, v) = setState(j, a, k, v)
  BY DEF SetState
<1> HIDE DEF s
<1>1. s \in States /\ o \in Objects
  BY <1>0, FoundObject
<1>2. x \in Stored /\ x = Storage(o)[k] /\ Storage(o) \in [Keys -> Stored]
  BY <1>1, StorageIsTyped DEF Storage
<1> HIDE DEF x
<1>4. prev \in [key : Keys, value : Stored]
  BY <1>2
<1>5. e \in Entries
  BY <1>4 DEF Entry, Entries
<1>6. e.kind = "storage" /\ e.prev.key = k /\ e.prev.value = x
  BY DEF Entry
<1>7. Appended(s, j, e)
  BY <1>1, <1>5, JournaledAppends
<1>8. setState(j, a, k, v) = Write(j, a, m)
  <2>1. j.objects[a] = o
    BY <1>7 DEF Appended
  <2> HIDE DEF j, o
  <2> QED BY <2>1 DEF setState, PutState
<1> HIDE DEF o, e, prev
<1>9. /\ m \in Objects /\ Storage(m) = [Storage(o) EXCEPT ![k] = v]
      /\ m.live = o.live /\ m.deleted = o.deleted /\ m.suicided = o.suicided
      /\ m.nonce = o.nonce /\ m.balance = o.balance /\ m.code = o.code
  BY <1>1, PutStateSeen
<1> HIDE DEF m
<1>10. [Storage(m) EXCEPT ![k] = x] = Storage(o)
  BY <1>2, <1>9
<1>11. Amends(Unwatched(m), o, e)
  BY <1>6, <1>9, <1>10, UnwatchedFields DEF Amends
<1>12. "storage" \in AmendKinds
  BY DEF AmendKinds
<1> QED BY <1>0, <1>3, <1>5, <1>8, <1>9, <1>11, <1>12, LoggedWrite DEF o, e

\* What markSuicided changes.
LEMMA SuicidedObject ==
  ASSUME NEW o \in Objects, NEW b \in BOOLEAN, NEW x \in Int
  PROVE  LET m == [o EXCEPT !.suicided = b, !.balance = x] IN
         /\ m \in Objects /\ m.live = o.live /\ m.deleted = o.deleted /\ m.nonce = o.nonce
         /\ m.code = o.code /\ m.root = o.root /\ m.cachedStorage = o.cachedStorage
  BY DEF Objects

\* Suicide logs the mark and the balance it clears.
LEMMA SuicideGood ==
  ASSUME NEW s0, NEW sv, NEW a \in Accounts, Good(trie, s0, sv)
  PROVE  Good(trie, Suicide(s0, a), sv)
<1> DEFINE s == Load(s0, a)
           o == s.objects[a]
           m == [o EXCEPT !.suicided = TRUE, !.balance = 0]
           prev == [suicided |-> o.suicided, balance |-> o.balance]
           e == Entry("suicide", a, prev)
<1>0. Good(trie, s, sv) /\ s \in States
  BY LoadGood
<1>1. Suicide(s0, a) = IF FoundIn(s, a) THEN Write(Journaled(s, "suicide", a, prev), a, m) ELSE s
  BY <1>0, FoundIsPresent DEF Suicide
<1> HIDE DEF s
<1>2. CASE ~FoundIn(s, a)
  BY <1>0, <1>1, <1>2
<1>3. CASE FoundIn(s, a)
  <2>1. o \in Objects /\ o.suicided \in BOOLEAN /\ o.balance \in Int
    BY <1>0, <1>3, FoundObject
  <2>2. prev \in [suicided : BOOLEAN, balance : Int]
    BY <2>1
  <2>3. e \in Entries
    BY <2>2 DEF Entry, Entries
  <2>4. e.kind = "suicide" /\ e.prev.suicided = o.suicided /\ e.prev.balance = o.balance
    BY DEF Entry
  <2> HIDE DEF o, prev, e
  <2>5. /\ m \in Objects /\ m.live = o.live /\ m.deleted = o.deleted /\ m.nonce = o.nonce
        /\ m.code = o.code /\ m.root = o.root /\ m.cachedStorage = o.cachedStorage
    <3>1. TRUE \in BOOLEAN /\ 0 \in Int
      OBVIOUS
    <3> QED BY <2>1, <3>1, SuicidedObject, Zenon
  <2> HIDE DEF m
  <2>6. Storage(m) = Storage(o)
    BY <2>5 DEF Storage, GetState
  <2>7. Amends(Unwatched(m), o, e)
    BY <2>4, <2>5, <2>6, UnwatchedFields DEF Amends
  <2>8. "suicide" \in AmendKinds
    BY DEF AmendKinds
  <2>9. Good(trie, Write(Journaled(s, "suicide", a, prev), a, m), sv)
    BY <1>0, <1>3, <2>3, <2>5, <2>7, <2>8, LoggedWrite DEF o, e
  <2> QED BY <1>1, <1>3, <2>9
<1> QED BY <1>2, <1>3

\* touch logs its mark.
LEMMA TouchGood ==
  ASSUME NEW s, NEW sv, NEW a \in Accounts, Good(trie, s, sv), FoundIn(s, a)
  PROVE  Good(trie, touch(s, a), sv)
<1> DEFINE o == s.objects[a]
           m == [o EXCEPT !.touched = TRUE]
           prev == [touched |-> o.touched, dirty |-> ~o.watched]
           e == Entry("touch", a, prev)
<1>1. o \in Objects /\ o.touched \in BOOLEAN /\ (~o.watched) \in BOOLEAN
  BY FoundObject
<1>2. prev \in [touched : BOOLEAN, dirty : BOOLEAN]
  BY <1>1
<1>3. e \in Entries /\ e.kind = "touch"
  BY <1>2 DEF Entry, Entries
<1>4. touch(s, a) = Write(Journaled(s, "touch", a, prev), a, m)
  BY DEF touch
<1> HIDE DEF o, prev, e
<1>5. /\ m \in Objects /\ m.live = o.live /\ m.deleted = o.deleted /\ m.suicided = o.suicided
      /\ m.nonce = o.nonce /\ m.balance = o.balance /\ m.code = o.code
      /\ m.root = o.root /\ m.cachedStorage = o.cachedStorage
  BY <1>1 DEF Objects
<1> HIDE DEF m
<1>6. Storage(m) = Storage(o)
  BY <1>5 DEF Storage, GetState
<1>7. Amends(Unwatched(m), o, e)
  BY <1>3, <1>5, <1>6, UnwatchedFields DEF Amends
<1>8. "touch" \in AmendKinds
  BY DEF AmendKinds
<1> QED BY <1>3, <1>4, <1>5, <1>7, <1>8, LoggedWrite DEF o, e

\* AddBalance and SubBalance, amounts of zero included.
LEMMA AddBalanceGood ==
  ASSUME NEW s0, NEW sv, NEW a \in Accounts, NEW x \in Int, Good(trie, s0, sv)
  PROVE  Good(trie, AddBalance(s0, a, x), sv) /\ Good(trie, SubBalance(s0, a, x), sv)
<1> DEFINE s == GetOrNewStateObject(s0, a)
<1>0. Good(trie, s, sv) /\ FoundIn(s, a)
  BY GetOrNewGood
<1>1. s.objects[a].balance \in Int
  BY <1>0, FoundObject
<1>2. /\ AddBalance(s0, a, x) = IF x = 0 THEN (IF Empty(s.objects[a]) THEN touch(s, a) ELSE s)
                                ELSE SetBalance(s, a, s.objects[a].balance + x)
      /\ SubBalance(s0, a, x) = IF x = 0 THEN s ELSE SetBalance(s, a, s.objects[a].balance - x)
  BY DEF AddBalance, SubBalance
<1> HIDE DEF s
<1>3. Good(trie, touch(s, a), sv)
  BY <1>0, TouchGood
<1>4. s.objects[a].balance + x \in Int /\ s.objects[a].balance - x \in Int
  BY <1>1
<1>5. /\ Good(trie, SetBalance(s, a, s.objects[a].balance + x), sv)
      /\ Good(trie, SetBalance(s, a, s.objects[a].balance - x), sv)
  BY <1>0, <1>4, SetBalanceGood
<1> QED BY <1>0, <1>2, <1>3, <1>5

\* r is s but for what is seen besides the accounts, with one more entry in the journal.
LEMMA PlainStep ==
  ASSUME NEW s, NEW sv, NEW r \in States, NEW e \in Entries, Good(trie, s, sv), e.kind \in Plain,
         r.objects = s.objects, r.journal = Append(s.journal, e),
         r.validRevisions = s.validRevisions, r.nextRevisionId = s.nextRevisionId,
         s.refund = IF e.kind = "refund" THEN e.prev ELSE r.refund,
         s.logs = IF e.kind = "log" THEN UndoneLogs(r.logs, e.prev) ELSE r.logs,
         s.preimages = IF e.kind = "preimage" THEN r.preimages \ {e.prev} ELSE r.preimages
  PROVE  Good(trie, r, sv)
<1> DEFINE seen == [b \in Accounts |-> SeenAt(trie, s, b)]
<1>1. SeenIn(trie, s) = [accounts |-> seen, refund |-> s.refund, logs |-> s.logs, preimages |-> s.preimages]
  BY DEF SeenIn
<1>2. SeenIn(trie, r) = [accounts |-> seen, refund |-> r.refund, logs |-> r.logs, preimages |-> r.preimages]
  BY DEF SeenIn, SeenAt
<1>3. e.kind \in {"refund", "log", "preimage"}
  BY DEF Plain
<1> HIDE DEF seen
<1>4. SeenIn(trie, s) = UndoWorld(trie, SeenIn(trie, r), e)
  BY <1>1, <1>2, <1>3 DEF UndoWorld
<1>5. Gone(trie, r)
  BY DEF Gone, Good
<1> QED BY <1>4, <1>5, LoggedStep

\* The entries without an account.
LEMMA PlainEntry ==
  ASSUME NEW x
  PROVE  /\ x \in Int => Entry("refund", "none", x) \in Entries /\ Entry("log", "none", x) \in Entries
         /\ x \in Preimages => Entry("preimage", "none", x) \in Entries
  BY DEF Entry, Entries

\* AddRefund logs the refund before.
LEMMA AddRefundGood ==
  ASSUME NEW s, NEW sv, NEW gas \in Int, Good(trie, s, sv)
  PROVE  Good(trie, AddRefund(s, gas), sv)
<1> DEFINE e == Entry("refund", "none", s.refund)
           j == Journaled(s, "refund", "none", s.refund)
           x == j.refund + gas
           r == [j EXCEPT !.refund = x]
<1>1. s \in States /\ s.refund \in Int
  BY DEF Good, States
<1>2. e \in Entries /\ e.kind = "refund" /\ e.prev = s.refund /\ e.kind \in Plain
  BY <1>1, PlainEntry DEF Entry, Plain
<1>3. Appended(s, j, e)
  BY <1>1, <1>2, JournaledAppends
<1>4. AddRefund(s, gas) = r
  BY DEF AddRefund
<1> HIDE DEF e, j
<1>5. j \in States /\ x \in Int
  BY <1>1, <1>3 DEF Appended
<1> HIDE DEF x
<1>6. /\ r \in States /\ r.objects = j.objects /\ r.journal = j.journal /\ r.logs = j.logs
      /\ r.preimages = j.preimages /\ r.validRevisions = j.validRevisions
      /\ r.nextRevisionId = j.nextRevisionId
  BY <1>5 DEF States
<1> HIDE DEF r
<1>7. Good(trie, r, sv)
  BY <1>2, <1>3, <1>6, PlainStep DEF Appended
<1> QED BY <1>4, <1>7

\* AddPreimage logs a preimage that is new, and only then.
LEMMA AddPreimageGood ==
  ASSUME NEW s, NEW sv, NEW hash \in Preimages, Good(trie, s, sv)
  PROVE  Good(trie, AddPreimage(s, hash), sv)
<1> DEFINE e == Entry("preimage", "none", hash)
           j == Journaled(s, "preimage", "none", hash)
           x == j.preimages \cup {hash}
           r == [j EXCEPT !.preimages = x]
<1>1. s \in States /\ s.preimages \in SUBSET Preimages
  BY DEF Good, States
<1>2. e \in Entries /\ e.kind = "preimage" /\ e.prev = hash /\ e.kind \in Plain
  BY <1>1, PlainEntry DEF Entry, Plain
<1>3. Appended(s, j, e)
  BY <1>1, <1>2, JournaledAppends
<1>4. AddPreimage(s, hash) = IF hash \in s.preimages THEN s ELSE r
  BY DEF AddPreimage
<1> HIDE DEF e, j
<1>a. CASE hash \in s.preimages
  BY <1>4, <1>a
<1>b. CASE hash \notin s.preimages
  <2>5. j \in States /\ x \in SUBSET Preimages /\ s.preimages = x \ {hash}
    BY <1>1, <1>3, <1>b DEF Appended
  <2> HIDE DEF x
  <2>6. /\ r \in States /\ r.objects = j.objects /\ r.journal = j.journal /\ r.logs = j.logs
        /\ r.preimages = x /\ r.refund = j.refund /\ r.validRevisions = j.validRevisions
        /\ r.nextRevisionId = j.nextRevisionId
    BY <2>5 DEF States
  <2> HIDE DEF r
  <2>7. Good(trie, r, sv)
    BY <1>2, <1>3, <2>5, <2>6, PlainStep DEF Appended
  <2> QED BY <1>4, <1>b, <2>7
<1> QED BY <1>a, <1>b

\* Undoing a log takes away exactly the log that was added.
LEMMA MoreLogsUndone ==
  ASSUME NEW logs \in LogLists, NEW h \in Int, NEW i \in Int
  PROVE  MoreLogs(logs, h, i) \in LogLists /\ UndoneLogs(MoreLogs(logs, h, i), h) = logs
<1>1. PICK T \in SUBSET Int : logs \in [T -> Seq(Int) \ {<<>>}]
  BY DEF LogLists
<1> DEFINE new == MoreLogs(logs, h, i)
<1>2. CASE h \in T
  <2> DEFINE q == logs[h]
             p == Append(q, i)
  <2>1. q \in Seq(Int) /\ q # <<>> /\ Len(q) \in Nat /\ Len(q) # 0
    <3>1. q \in Seq(Int) /\ q # <<>>
      BY <1>1, <1>2
    <3> QED BY <3>1
  <2> HIDE DEF q
  <2>2. p \in Seq(Int) /\ Len(p) = Len(q) + 1 /\ p # <<>> /\ \A n \in 1 .. Len(q) : p[n] = q[n]
    BY <2>1
  <2>3. Len(p) # 1 /\ Len(p) - 1 = Len(q)
    BY <2>1, <2>2
  <2> HIDE DEF p
  <2>4. SubSeq(p, 1, Len(p) - 1) = q
    <3> DEFINE z == SubSeq(p, 1, Len(p) - 1)
    <3>1. z \in Seq(Int) /\ Len(z) = Len(p) - 1 /\ \A n \in 1 .. Len(p) - 1 : z[n] = p[n]
      BY <2>2, ShortenedList
    <3> HIDE DEF z
    <3>2. Len(z) = Len(q) /\ \A n \in 1 .. Len(q) : z[n] = q[n]
      BY <2>2, <2>3, <3>1
    <3>3. z = q
      BY <2>1, <3>1, <3>2, SeqEqual
    <3> QED BY <3>3 DEF z
  <2>5. new = [logs EXCEPT ![h] = p]
    BY <1>1, <1>2 DEF MoreLogs, p, q
  <2>6. new \in [T -> Seq(Int) \ {<<>>}] /\ new[h] = p
    BY <1>1, <1>2, <2>2, <2>5
  <2> HIDE DEF new
  <2>7. UndoneLogs(new, h) = [new EXCEPT ![h] = q]
    BY <2>3, <2>4, <2>6 DEF UndoneLogs
  <2>8. [new EXCEPT ![h] = q] = logs
    <3>1. DOMAIN logs = T /\ logs[h] = q
      BY <1>1 DEF q
    <3> QED BY <1>1, <1>2, <2>5, <2>6, <3>1
  <2>9. new \in LogLists
    BY <2>6 DEF LogLists
  <2> QED BY <2>7, <2>8, <2>9 DEF new
<1>3. CASE h \notin T
  <2>1. new = Put(logs, h, <<i>>)
    BY <1>1, <1>3 DEF MoreLogs
  <2>2. <<i>> \in Seq(Int) /\ <<i>> # <<>> /\ Len(<<i>>) = 1
    OBVIOUS
  <2> DEFINE q == <<i>>
  <2> HIDE DEF q
  <2>3. new = [x \in T \cup {h} |-> IF x = h THEN q ELSE logs[x]]
    BY <1>1, <2>1 DEF Put, q
  <2> HIDE DEF new
  <2>4. new \in [T \cup {h} -> Seq(Int) \ {<<>>}] /\ new[h] = q
    BY <1>1, <2>2, <2>3 DEF q
  <2>5. UndoneLogs(new, h) = WithoutKey(new, h)
    BY <2>2, <2>4 DEF UndoneLogs, q
  <2>6. WithoutKey(new, h) = logs
    <3>1. DOMAIN new \ {h} = T
      BY <1>3, <2>4
    <3>2. WithoutKey(new, h) = [x \in T |-> new[x]]
      BY <3>1 DEF WithoutKey
    <3>3. \A x \in T : new[x] = logs[x]
      BY <1>3, <2>3
    <3> QED BY <1>1, <3>2, <3>3
  <2>7. T \cup {h} \in SUBSET Int
    OBVIOUS
  <2>8. new \in LogLists
    BY <2>4, <2>7 DEF LogLists
  <2> QED BY <2>5, <2>6, <2>8 DEF new
<1> QED BY <1>2, <1>3

\* AddLog logs the transaction it adds a log to.
LEMMA AddLogGood ==
  ASSUME NEW s, NEW sv, Good(trie, s, sv)
  PROVE  Good(trie, AddLog(s), sv)
<1> DEFINE e == Entry("log", "none", s.thash)
           j == Journaled(s, "log", "none", s.thash)
           x == MoreLogs(j.logs, s.thash, s.logSize)
           y == j.logSize + 1
           r == [j EXCEPT !.logs = x, !.logSize = y]
<1>1. s \in States /\ s.thash \in Int /\ s.logs \in LogLists /\ s.logSize \in Int
  BY DEF Good, States
<1>2. e \in Entries /\ e.kind = "log" /\ e.prev = s.thash /\ e.kind \in Plain
  BY <1>1, PlainEntry DEF Entry, Plain
<1>3. Appended(s, j, e)
  BY <1>1, <1>2, JournaledAppends
<1>4. AddLog(s) = r
  BY DEF AddLog
<1> HIDE DEF e, j
<1>5. j \in States /\ j.logs = s.logs /\ j.logSize = s.logSize
  BY <1>3 DEF Appended
<1>6. x \in LogLists /\ UndoneLogs(x, s.thash) = s.logs /\ y \in Int
  BY <1>1, <1>5, MoreLogsUndone
<1> HIDE DEF x, y
<1>7. /\ r \in States /\ r.objects = j.objects /\ r.journal = j.journal /\ r.logs = x
      /\ r.preimages = j.preimages /\ r.refund = j.refund /\ r.validRevisions = j.validRevisions
      /\ r.nextRevisionId = j.nextRevisionId
  BY <1>5, <1>6 DEF States
<1> HIDE DEF r
<1>8. Good(trie, r, sv)
  BY <1>2, <1>3, <1>6, <1>7, PlainStep DEF Appended
<1> QED BY <1>4, <1>8
-----------------------------------------------------------------------------
(* Snapshots.                                                               *)

\* What is seen of a state is typed.
LEMMA WorldIsTyped ==
  ASSUME NEW t \in [Accounts -> Data], NEW s \in States
  PROVE  SeenIn(t, s) \in Worlds
<1> DEFINE seen == [a \in Accounts |-> SeenAt(t, s, a)]
<1>1. ASSUME NEW a \in Accounts
      PROVE  SeenAt(t, s, a) \in Sights
  <2>1. s.objects[a] \in Objects
    BY DEF States
  <2>2. Loaded(t, s.objects[a], a) \in Objects
    BY <2>1, LoadedIsObject
  <2> QED BY <2>2, SeenIsTyped DEF SeenAt
<1>2. seen \in [Accounts -> Sights]
  BY <1>1
<1>3. s.refund \in Int /\ s.logs \in LogLists /\ s.preimages \in SUBSET Preimages
  BY DEF States
<1> HIDE DEF seen
<1>4. [accounts |-> seen, refund |-> s.refund, logs |-> s.logs, preimages |-> s.preimages] \in Worlds
  BY <1>2, <1>3 DEF Worlds
<1> QED BY <1>4 DEF SeenIn, seen

\* The first k elements of a sequence.
LEMMA Prefix ==
  ASSUME NEW S, NEW q \in Seq(S), NEW k \in Nat, k <= Len(q)
  PROVE  /\ SubSeq(q, 1, k) \in Seq(S) /\ Len(SubSeq(q, 1, k)) = k
         /\ \A i \in 1 .. k : SubSeq(q, 1, k)[i] = q[i]
<1>1. \A i \in 1 .. k : q[i] \in S
  BY LenProperties
<1>2. /\ SubSeq(q, 1, k) \in Seq(S)
      /\ Len(SubSeq(q, 1, k)) = IF 1 <= k THEN k - 1 + 1 ELSE 0
      /\ \A i \in 1 .. (k - 1 + 1) : SubSeq(q, 1, k)[i] = q[1 + i - 1]
  BY <1>1, SubSeqProperties
<1> QED BY <1>2

\* The state that Snapshot leaves.
Taken(s, id) ==
  [s EXCEPT !.nextRevisionId = id + 1,
            !.validRevisions = Append(@, [id |-> id, journalIndex |-> Len(s.journal)])]

\* What Snapshot changes.
LEMMA TakenState ==
  ASSUME NEW s \in States
  PROVE  LET id == s.nextRevisionId
             rev == [id |-> id, journalIndex |-> Len(s.journal)]
         IN  /\ Taken(s, id) \in States /\ Taken(s, id).objects = s.objects
             /\ Taken(s, id).refund = s.refund /\ Taken(s, id).logs = s.logs
             /\ Taken(s, id).preimages = s.preimages /\ Taken(s, id).journal = s.journal
             /\ Taken(s, id).validRevisions = Append(s.validRevisions, rev)
             /\ Taken(s, id).nextRevisionId = id + 1
<1> DEFINE id == s.nextRevisionId
           rev == [id |-> id, journalIndex |-> Len(s.journal)]
           revs == Append(s.validRevisions, rev)
           succ == id + 1
<1>1. id \in Int /\ s.journal \in Seq(Entries) /\ s.validRevisions \in Seq(Revisions)
  BY DEF States
<1>2. rev \in Revisions
  BY <1>1 DEF Revisions
<1>3. revs \in Seq(Revisions) /\ succ \in Int
  BY <1>1, <1>2, AppendProperties
<1> HIDE DEF revs, succ
<1>4. LET r == [s EXCEPT !.nextRevisionId = succ, !.validRevisions = revs] IN
        /\ r \in States /\ r.objects = s.objects /\ r.refund = s.refund /\ r.logs = s.logs
        /\ r.preimages = s.preimages /\ r.journal = s.journal
        /\ r.validRevisions = revs /\ r.nextRevisionId = succ
  BY <1>3 DEF States
<1> QED BY <1>4 DEF Taken, revs, succ

\* A snapshot remembers what is seen.
LEMMA SnapshotGood ==
  ASSUME NEW s, NEW sv, Good(trie, s, sv)
  PROVE  /\ Good(trie, Taken(s, s.nextRevisionId),
                 Append(sv, [id |-> s.nextRevisionId, world |-> SeenIn(trie, s)]))
         /\ SeenIn(trie, Taken(s, s.nextRevisionId)) = SeenIn(trie, s)
<1> DEFINE id == s.nextRevisionId
           r == Taken(s, id)
           L == Len(s.journal)
           N == Len(sv)
           rev == [id |-> id, journalIndex |-> L]
           copy == [id |-> id, world |-> SeenIn(trie, s)]
           x == Append(sv, copy)
<1>0. s \in States /\ trie \in [Accounts -> Data] /\ sv \in Seq([id : Int, world : Worlds])
  BY DEF Good
<1>1. /\ r \in States /\ r.objects = s.objects /\ r.refund = s.refund /\ r.logs = s.logs
      /\ r.preimages = s.preimages /\ r.journal = s.journal
      /\ r.validRevisions = Append(s.validRevisions, rev) /\ r.nextRevisionId = id + 1
  BY <1>0, TakenState
<1>2. /\ id \in Int /\ s.validRevisions \in Seq(Revisions) /\ L \in Nat /\ N \in Nat
      /\ Len(s.validRevisions) = N
  <2>1. s.journal \in Seq(Entries) /\ id \in Int /\ s.validRevisions \in Seq(Revisions)
    BY <1>0 DEF States
  <2> QED BY <1>0, <2>1 DEF Good, Marked
<1>3. /\ Len(r.validRevisions) = N + 1 /\ r.validRevisions[N + 1] = rev
      /\ \A k \in 1 .. N : r.validRevisions[k] = s.validRevisions[k]
  BY <1>1, <1>2
<1>4. copy \in [id : Int, world : Worlds]
  BY <1>0, <1>2, WorldIsTyped
<1>5. /\ x \in Seq([id : Int, world : Worlds]) /\ Len(x) = N + 1 /\ x[N + 1] = copy
      /\ \A k \in 1 .. N : x[k] = sv[k]
  <2> HIDE DEF copy
  <2> QED BY <1>0, <1>4, AppendProperties
<1>6. SeenIn(trie, r) = SeenIn(trie, s) /\ Gone(trie, r)
  BY <1>1 DEF SeenIn, SeenAt, Gone, Good
<1>7. rev.journalIndex = L /\ copy.id = id /\ copy.world = SeenIn(trie, s)
  OBVIOUS
<1>8. PICK w : Remembers(trie, s, sv, w)
  BY DEF Good
<1> HIDE DEF r, rev, copy, x, L, N, id
<1>9. \A k \in 1 .. (N + 1) : k \in 1 .. N \/ k = N + 1
  BY <1>2
<1>10. ASSUME NEW k \in 1 .. (N + 1)
       PROVE  /\ x[k].id < id + 1 /\ w[r.validRevisions[k].journalIndex] = x[k].world
              /\ r.validRevisions[k].journalIndex \in 0 .. L
              /\ \A j \in 1 .. (N + 1) : j < k => r.validRevisions[j].journalIndex <= r.validRevisions[k].journalIndex
  <2>1. CASE k = N + 1
    <3>1. x[k].id < id + 1 /\ w[r.validRevisions[k].journalIndex] = x[k].world
          /\ r.validRevisions[k].journalIndex = L
      <4>1. w[L] = SeenIn(trie, s)
        BY <1>8 DEF Remembers, L
      <4> QED BY <1>2, <1>3, <1>5, <1>7, <2>1, <4>1
    <3>2. ASSUME NEW j \in 1 .. (N + 1), j < k
          PROVE  r.validRevisions[j].journalIndex <= L
      <4>1. j \in 1 .. N
        BY <1>2, <2>1, <3>2
      <4>2. s.validRevisions[j].journalIndex \in 0 .. L
        BY <4>1 DEF Good, Marked, L, N
      <4> QED BY <1>2, <1>3, <4>1, <4>2
    <3> QED BY <1>2, <3>1, <3>2
  <2>2. CASE k \in 1 .. N
    <3>1. s.validRevisions[k].journalIndex \in 0 .. L /\ sv[k].id < id
      BY <2>2 DEF Good, Marked, L, N, id
    <3>2. w[s.validRevisions[k].journalIndex] = sv[k].world
      BY <1>8, <2>2 DEF Remembers, N
    <3>3. sv[k].id \in Int
      <4>1. sv[k] \in [id : Int, world : Worlds]
        BY <1>0, <2>2, ElementOfSeq DEF N
      <4> QED BY <4>1
    <3>4. ASSUME NEW j \in 1 .. (N + 1), j < k
          PROVE  r.validRevisions[j].journalIndex <= r.validRevisions[k].journalIndex
      <4>1. j \in 1 .. N
        BY <1>2, <2>2, <3>4
      <4>2. s.validRevisions[j].journalIndex <= s.validRevisions[k].journalIndex
        BY <2>2, <3>4, <4>1 DEF Good, Marked, N
      <4> QED BY <1>3, <2>2, <4>1, <4>2
    <3>5. x[k].id < id + 1
      BY <1>2, <1>5, <2>2, <3>1, <3>3
    <3> QED BY <1>3, <1>5, <2>2, <3>1, <3>2, <3>4, <3>5
  <2> QED BY <1>9, <2>1, <2>2
<1>11. Marked(r, x)
  BY <1>1, <1>3, <1>5, <1>10 DEF Marked, L
<1>12. Remembers(trie, r, x, w)
  BY <1>1, <1>5, <1>6, <1>8, <1>10 DEF Remembers
<1>13. \A k \in 1 .. Len(x) : x[k].id < r.nextRevisionId
  BY <1>1, <1>5, <1>10
<1>14. Good(trie, r, x)
  BY <1>0, <1>1, <1>5, <1>6, <1>11, <1>12, <1>13 DEF Good
<1> QED BY <1>6, <1>14 DEF r, x, copy, id
-----------------------------------------------------------------------------
(* Reverting.                                                               *)

\* The loop of RevertToSnapshot passes through what was seen before.
LEMMA UndoneSees ==
  ASSUME NEW s, NEW sv, Good(trie, s, sv), NEW w, Remembers(trie, s, sv, w),
         NEW n \in 0 .. Len(s.journal)
  PROVE  LET u == UndoneTo(s)[n] IN
         u \in States /\ Gone(trie, u) /\ SameMarks(s, u) /\ SeenIn(trie, u) = w[n]
<1> DEFINE L == Len(s.journal)
           u == UndoneTo(s)
           Right(k) == u[k] \in States /\ Gone(trie, u[k]) /\ SameMarks(s, u[k]) /\ SeenIn(trie, u[k]) = w[k]
           Bad == {m \in Nat : m <= L /\ ~Right(L - m)}
<1>0. s \in States /\ trie \in [Accounts -> Data] /\ Gone(trie, s) /\ s.journal \in Seq(Entries) /\ L \in Nat
  <2>1. s \in States /\ trie \in [Accounts -> Data] /\ Gone(trie, s)
    BY DEF Good
  <2>2. s.journal \in Seq(Entries)
    BY <2>1 DEF States
  <2> QED BY <2>1, <2>2
<1>1. u[L] = s /\ \A k \in 0 .. (L - 1) : u[k] = Undo(u[k + 1], s.journal[k + 1])
  BY <1>0, UndoneToUnfolds
<1>2. w[L] = SeenIn(trie, s) /\ \A k \in 0 .. (L - 1) : w[k] = UndoWorld(trie, w[k + 1], s.journal[k + 1])
  BY DEF Remembers
<1> HIDE DEF u, L
<1>3. SUFFICES Bad = {}
  <2>1. L - n \in Nat /\ L - n <= L /\ L - (L - n) = n
    BY <1>0 DEF L
  <2>2. Right(n)
    BY <1>3, <2>1
  <2> QED BY <2>2 DEF u
<1>4. SUFFICES ASSUME Bad # {}
               PROVE  FALSE
  OBVIOUS
<1>5. PICK m \in Bad : \A k \in Nat : k < m => k \notin Bad
  <2>1. Bad \in SUBSET Nat
    OBVIOUS
  <2> HIDE DEF Bad
  <2> QED BY <1>4, <2>1, LeastNumber
<1>6. m \in Nat /\ m <= L /\ ~Right(L - m)
  OBVIOUS
<1>7. m # 0
  <2>1. Right(L)
    BY <1>0, <1>1, <1>2 DEF SameMarks
  <2>2. L - 0 = L
    BY <1>0
  <2> HIDE DEF Right
  <2> QED BY <1>6, <2>1, <2>2
<1> DEFINE k == L - m
<1>8. /\ m - 1 \in Nat /\ m - 1 < m /\ m - 1 <= L /\ L - (m - 1) = k + 1
      /\ k \in 0 .. (L - 1) /\ k + 1 \in 1 .. L
  BY <1>0, <1>6, <1>7
<1>9. Right(k + 1)
  <2> HIDE DEF Right, k
  <2> QED BY <1>5, <1>8
<1>10. s.journal[k + 1] \in Entries
  <2> HIDE DEF k
  <2> QED BY <1>0, <1>8, ElementOfSeq DEF L
<1> HIDE DEF k
<1>11. Undoes(trie, u[k + 1], Undo(u[k + 1], s.journal[k + 1]), s.journal[k + 1])
  BY <1>0, <1>9, <1>10, UndoUndoes
<1>12. Undoes(trie, u[k + 1], u[k], s.journal[k + 1])
  BY <1>1, <1>8, <1>11
<1>13. Right(k)
  <2>1. w[k] = UndoWorld(trie, w[k + 1], s.journal[k + 1])
    BY <1>2, <1>8
  <2> QED BY <1>9, <1>12, <2>1 DEF Undoes, SameMarks
<1> QED BY <1>6, <1>13 DEF k

\* Reverting to a revision shows what was seen when it was taken.
LEMMA RevertGood ==
  ASSUME NEW s, NEW sv, Good(trie, s, sv), NEW k \in 1 .. Len(sv)
  PROVE  /\ Good(trie, RevertToRevision(s, k), SubSeq(sv, 1, k - 1))
         /\ SeenIn(trie, RevertToRevision(s, k)) = sv[k].world
<1> DEFINE i == s.validRevisions[k].journalIndex
           u == UndoneTo(s)[i]
           jou == SubSeq(u.journal, 1, i)
           revs == SubSeq(u.validRevisions, 1, k - 1)
           r == [u EXCEPT !.journal = jou, !.validRevisions = revs]
           x == SubSeq(sv, 1, k - 1)
<1>0. /\ s \in States /\ trie \in [Accounts -> Data] /\ sv \in Seq([id : Int, world : Worlds])
      /\ s.journal \in Seq(Entries) /\ s.validRevisions \in Seq(Revisions)
      /\ Len(s.journal) \in Nat /\ Len(sv) \in Nat /\ Len(s.validRevisions) = Len(sv)
  <2>1. s \in States /\ trie \in [Accounts -> Data] /\ sv \in Seq([id : Int, world : Worlds])
    BY DEF Good
  <2>2. s.journal \in Seq(Entries) /\ s.validRevisions \in Seq(Revisions)
    BY <2>1 DEF States
  <2> QED BY <2>1, <2>2 DEF Good, Marked
<1>1. RevertToRevision(s, k) = r
  BY DEF RevertToRevision
<1>2. PICK w : Remembers(trie, s, sv, w)
  BY DEF Good
<1>3. i \in 0 .. Len(s.journal) /\ w[i] = sv[k].world
  BY <1>2 DEF Good, Marked, Remembers
<1>4. u \in States /\ Gone(trie, u) /\ SameMarks(s, u) /\ SeenIn(trie, u) = w[i]
  BY <1>2, <1>3, UndoneSees
<1>5. i \in Nat /\ i <= Len(s.journal) /\ k - 1 \in Nat /\ k - 1 <= Len(sv)
  BY <1>0, <1>3
<1>6. /\ jou \in Seq(Entries) /\ Len(jou) = i /\ \A n \in 1 .. i : jou[n] = s.journal[n]
      /\ revs \in Seq(Revisions) /\ Len(revs) = k - 1 /\ \A n \in 1 .. (k - 1) : revs[n] = s.validRevisions[n]
  <2>1. u.journal = s.journal /\ u.validRevisions = s.validRevisions
    BY <1>4 DEF SameMarks
  <2> HIDE DEF i, u
  <2> QED BY <1>0, <1>5, <2>1, Prefix
<1>7. x \in Seq([id : Int, world : Worlds]) /\ Len(x) = k - 1 /\ \A n \in 1 .. (k - 1) : x[n] = sv[n]
  BY <1>0, <1>5, Prefix
<1> HIDE DEF i, u, jou, revs, x
<1>8. /\ r \in States /\ r.objects = u.objects /\ r.refund = u.refund /\ r.logs = u.logs
      /\ r.preimages = u.preimages /\ r.journal = jou /\ r.validRevisions = revs
      /\ r.nextRevisionId = u.nextRevisionId
  BY <1>4, <1>6 DEF States
<1> HIDE DEF r
<1>9. r.nextRevisionId = s.nextRevisionId
  BY <1>4, <1>8 DEF SameMarks
<1>10. SeenIn(trie, r) = w[i] /\ Gone(trie, r)
  <2>1. SeenIn(trie, r) = SeenIn(trie, u) /\ Gone(trie, r)
    BY <1>4, <1>8 DEF SeenIn, SeenAt, Gone
  <2> QED BY <1>4, <2>1
<1>11. \A n \in 1 .. (k - 1) : n \in 1 .. Len(sv) /\ n < k
  BY <1>0
<1>12. ASSUME NEW n \in 1 .. (k - 1)
       PROVE  /\ r.validRevisions[n].journalIndex \in 0 .. i
              /\ w[r.validRevisions[n].journalIndex] = x[n].world
              /\ x[n].id < r.nextRevisionId
  <2>1. /\ s.validRevisions[n].journalIndex \in 0 .. Len(s.journal)
        /\ s.validRevisions[n].journalIndex <= i
    BY <1>11 DEF Good, Marked, i
  <2>2. w[s.validRevisions[n].journalIndex] = sv[n].world
    BY <1>2, <1>11 DEF Remembers
  <2>3. sv[n].id < s.nextRevisionId
    BY <1>11 DEF Good
  <2>4. r.validRevisions[n] = s.validRevisions[n] /\ x[n] = sv[n]
    BY <1>6, <1>7, <1>8
  <2>5. s.validRevisions[n].journalIndex \in 0 .. i
    BY <1>5, <2>1
  <2> QED BY <1>9, <2>2, <2>3, <2>4, <2>5
<1>13. Marked(r, x)
  <2>1. ASSUME NEW j \in 1 .. (k - 1), NEW n \in 1 .. (k - 1), j < n
        PROVE  r.validRevisions[j].journalIndex <= r.validRevisions[n].journalIndex
    <3>1. s.validRevisions[j].journalIndex <= s.validRevisions[n].journalIndex
      BY <1>11, <2>1 DEF Good, Marked
    <3> QED BY <1>6, <1>8, <3>1
  <2> QED BY <1>6, <1>7, <1>8, <1>12, <2>1 DEF Marked
<1>14. Remembers(trie, r, x, w)
  <2>1. ASSUME NEW n \in 0 .. (i - 1)
        PROVE  w[n] = UndoWorld(trie, w[n + 1], r.journal[n + 1])
    <3>1. n \in 0 .. (Len(s.journal) - 1) /\ n + 1 \in 1 .. i
      BY <1>0, <1>5
    <3>2. w[n] = UndoWorld(trie, w[n + 1], s.journal[n + 1])
      BY <1>2, <3>1 DEF Remembers
    <3> QED BY <1>6, <1>8, <3>1, <3>2
  <2> QED BY <1>6, <1>7, <1>8, <1>10, <1>12, <2>1 DEF Remembers
<1>15. \A n \in 1 .. Len(x) : x[n].id < r.nextRevisionId
  BY <1>7, <1>12
<1>16. Good(trie, r, x)
  BY <1>0, <1>7, <1>8, <1>10, <1>13, <1>14, <1>15 DEF Good
<1> QED BY <1>1, <1>3, <1>10, <1>16 DEF x
-----------------------------------------------------------------------------
(* The end of a transaction and of a block, and new states.                 *)

\* Nothing to revert to.
LEMMA NothingSaved ==
  ASSUME NEW t \in [Accounts -> Data], NEW s \in States, Gone(t, s),
         s.journal = <<>>, s.validRevisions = <<>>
  PROVE  Good(t, s, <<>>)
<1> DEFINE w == [n \in {0} |-> SeenIn(t, s)]
<1>1. w[0] = SeenIn(t, s)
  OBVIOUS
<1> HIDE DEF w
<1>2. Remembers(t, s, <<>>, w)
  BY <1>1 DEF Remembers
<1>3. Marked(s, <<>>)
  BY DEF Marked
<1>4. <<>> \in Seq([id : Int, world : Worlds])
  OBVIOUS
<1> QED BY <1>2, <1>3, <1>4 DEF Good

\* An object whose storage was written to the trie.
LEMMA UpdatedIsObject ==
  ASSUME NEW o \in Objects
  PROVE  UpdateTrie(o) \in Objects /\ UpdateTrie(o).live = o.live /\ UpdateTrie(o).deleted = o.deleted
<1> DEFINE new == [k \in Keys |-> IF k \in DOMAIN o.dirtyStorage THEN o.dirtyStorage[k] ELSE o.root[k]]
<1>1. o.root \in [Keys -> Stored] /\ o.dirtyStorage \in Entered
  BY DEF Objects
<1>2. PICK K \in SUBSET Keys : o.dirtyStorage \in [K -> Stored]
  BY <1>1 DEF Entered
<1>3. new \in [Keys -> Stored]
  BY <1>1, <1>2
<1>4. UpdateTrie(o) = [o EXCEPT !.root = new, !.dirtyStorage = NoEntries]
  BY DEF UpdateTrie
<1> HIDE DEF new
<1>5. LET u == [o EXCEPT !.root = new, !.dirtyStorage = NoEntries] IN
        u \in Objects /\ u.live = o.live /\ u.deleted = o.deleted
  BY <1>3, NoEntriesIsEntered DEF Objects
<1> QED BY <1>4, <1>5

\* An object marked as deleted.
LEMMA DeletedIsObject ==
  ASSUME NEW o \in Objects
  PROVE  [o EXCEPT !.deleted = TRUE] \in Objects /\ [o EXCEPT !.deleted = TRUE].deleted
BY DEF Objects

\* What is written back is typed, and what it deletes leaves the trie.
LEMMA WrittenBack ==
  ASSUME NEW s \in States, trie \in [Accounts -> Data], Gone(trie, s), NEW which \in SUBSET Accounts
  PROVE  LET written == WriteBack(s, which)
             after == TrieAfter(written, which)
         IN  /\ written \in [Accounts -> Objects] /\ after \in [Accounts -> Data]
             /\ \A a \in Accounts : written[a].live /\ written[a].deleted => ~after[a].exists
<1> DEFINE written == WriteBack(s, which)
           after == TrieAfter(written, which)
<1>1. ASSUME NEW a \in Accounts
      PROVE  /\ written[a] \in Objects
             /\ a \notin which => written[a] = s.objects[a]
  <2>1. s.objects[a] \in Objects
    BY DEF States
  <2>2. /\ UpdateTrie(s.objects[a]) \in Objects
        /\ [s.objects[a] EXCEPT !.deleted = TRUE] \in Objects
    BY <2>1, UpdatedIsObject, DeletedIsObject
  <2> QED BY <2>1, <2>2 DEF WriteBack
<1>2. written \in [Accounts -> Objects]
  BY <1>1 DEF WriteBack
<1> HIDE DEF written
<1>3. ASSUME NEW a \in Accounts
      PROVE  after[a] \in Data /\ (written[a].live /\ written[a].deleted => ~after[a].exists)
  <2>1. AccountOf(written[a]) \in Data
    <3>1. written[a] \in Objects
      BY <1>1
    <3> QED BY <3>1 DEF AccountOf, Data, Objects
  <2>2. trie[a] \in Data /\ NoAccount \in Data /\ ~NoAccount.exists
    BY NoAccountIsData DEF NoAccount
  <2>3. written[a].deleted \in BOOLEAN
    BY <1>1 DEF Objects
  <2>4. CASE a \notin which
    <3>1. after[a] = trie[a] /\ written[a] = s.objects[a]
      BY <1>1, <2>4 DEF TrieAfter
    <3> QED BY <2>2, <3>1 DEF Gone
  <2>5. CASE a \in which /\ written[a].deleted
    <3>1. after[a] = NoAccount
      BY <2>5 DEF TrieAfter
    <3> QED BY <2>2, <3>1
  <2>6. CASE a \in which /\ ~written[a].deleted
    <3>1. after[a] = AccountOf(written[a])
      BY <2>6 DEF TrieAfter
    <3> QED BY <2>1, <2>6, <3>1
  <2> QED BY <2>3, <2>4, <2>5, <2>6
<1>4. after \in [Accounts -> Data]
  BY <1>3 DEF TrieAfter
<1> QED BY <1>2, <1>3, <1>4 DEF written

\* A state database that was just opened.
LEMMA NewStateIsTyped ==
  ASSUME NEW id \in Int, NEW r, r \in {NewState, [NewState EXCEPT !.nextRevisionId = id]}
  PROVE  /\ r \in States /\ r.journal = <<>> /\ r.validRevisions = <<>>
         /\ \A a \in Accounts : ~r.objects[a].live
<1> DEFINE obs == [a \in Accounts |-> NoObject]
<1>1. obs \in [Accounts -> Objects] /\ \A a \in Accounts : ~obs[a].live
  BY NoObjectIsObject
<1>2. NoLogs \in LogLists
  <2>1. NoLogs \in [{} -> Seq(Int) \ {<<>>}]
    BY DEF NoLogs
  <2> QED BY <2>1 DEF LogLists
<1>3. NewState = [objects |-> obs, dirty |-> {}, refund |-> 0, thash |-> 0,
                  logs |-> NoLogs, logSize |-> 0, preimages |-> {},
                  journal |-> <<>>, validRevisions |-> <<>>, nextRevisionId |-> 0]
  BY DEF NewState
<1>4. <<>> \in Seq(Entries) /\ <<>> \in Seq(Revisions)
  OBVIOUS
<1> HIDE DEF obs
<1>5. NewState \in States /\ NewState.journal = <<>> /\ NewState.validRevisions = <<>> /\ NewState.objects = obs
  BY <1>1, <1>2, <1>3, <1>4 DEF States
<1> QED BY <1>1, <1>5 DEF States

-----------------------------------------------------------------------------
(* The invariant and the refinement.                                        *)

StateInv == Good(trie, db, saved) /\ (committed => saved = <<>>)

\* A new or reopened state database has seen nothing yet.
LEMMA OpenedIsGood ==
  ASSUME NEW t \in [Accounts -> Data],
         NEW id \in Int, NEW r, r \in {NewState, [NewState EXCEPT !.nextRevisionId = id]}
  PROVE  Good(t, r, <<>>)
<1>1. r \in States /\ r.journal = <<>> /\ r.validRevisions = <<>> /\ \A a \in Accounts : ~r.objects[a].live
  BY NewStateIsTyped
<1> QED BY <1>1, NothingSaved DEF Gone

\* The invariant holds at the start.
LEMMA StateStartsGood == StateInit => StateInv
<1>1. SUFFICES ASSUME StateInit
               PROVE  StateInv
  OBVIOUS
<1>2. Alloc \in [Accounts -> Data]
  BY AllocIsTyped DEF AccountData, Data
<1>3. Good(Alloc, NewState, <<>>)
  BY <1>2, OpenedIsGood
<1> QED BY <1>1, <1>3 DEF StateInit, StateInv

\* View is what the invariant speaks about.
LEMMA ViewIsSeen == StateInv => View(db) = SeenIn(trie, db)
<1>1. SUFFICES ASSUME StateInv
               PROVE  View(db) = SeenIn(trie, db)
  OBVIOUS
<1>2. db \in States /\ trie \in [Accounts -> Data]
  BY <1>1 DEF StateInv, Good
<1>3. \A a \in Accounts : AccountView(db, a) = SeenAt(trie, db, a)
  BY <1>2, ViewOfAccount
<1> QED BY <1>3 DEF View, SeenIn

\* A modification, as each of the calls makes it.
LEMMA ModifyKeeps ==
  ASSUME StateInv, NEW s, Good(trie, s, saved), Modify(s)
  PROVE  StateInv'
BY DEF Modify, StateInv

\* Every call that modifies the state keeps the invariant and the copies.
LEMMA CallsKeep ==
  ASSUME StateInv,
         \/ CallCreateAccount \/ CallAddBalance \/ CallSubBalance \/ CallSetNonce \/ CallSetCode
         \/ CallSetState \/ CallSuicide \/ CallAddRefund \/ CallAddLog \/ CallAddPreimage
  PROVE  StateInv' /\ UNCHANGED <<saved, epoch>>
<1>0. Good(trie, db, saved)
  BY DEF StateInv
<1>1. ASSUME NEW s, Good(trie, s, saved), Modify(s)
      PROVE  StateInv' /\ UNCHANGED <<saved, epoch>>
  BY <1>1, ModifyKeeps DEF Modify
<1>2. CASE CallCreateAccount
  BY <1>0, <1>1, <1>2, CreateAccountGood DEF CallCreateAccount
<1>3. CASE CallAddBalance
  <2>1. PICK a \in Accounts, amount \in {0, 1} : Modify(AddBalance(db, a, amount))
    BY <1>3 DEF CallAddBalance
  <2> QED BY <1>0, <1>1, <2>1, AddBalanceGood
<1>4. CASE CallSubBalance
  <2>1. PICK a \in Accounts, amount \in {0, 1} : Modify(SubBalance(db, a, amount))
    BY <1>4 DEF CallSubBalance
  <2> QED BY <1>0, <1>1, <2>1, AddBalanceGood
<1>5. CASE CallSetNonce
  BY <1>0, <1>1, <1>5, SetNonceGood DEF CallSetNonce
<1>6. CASE CallSetCode
  BY <1>0, <1>1, <1>6, SetCodeGood DEF CallSetCode
<1>7. CASE CallSetState
  <2>1. PICK a \in Accounts, k \in Keys, v \in Stored : Modify(SetState(db, a, k, v))
    BY <1>7 DEF CallSetState, Stored
  <2> QED BY <1>0, <1>1, <2>1, SetStateGood
<1>8. CASE CallSuicide
  BY <1>0, <1>1, <1>8, SuicideGood DEF CallSuicide
<1>9. CASE CallAddRefund
  BY <1>0, <1>1, <1>9, AddRefundGood DEF CallAddRefund
<1>10. CASE CallAddLog
  BY <1>0, <1>1, <1>10, AddLogGood DEF CallAddLog
<1>11. CASE CallAddPreimage
  BY <1>0, <1>1, <1>11, AddPreimageGood DEF CallAddPreimage
<1> QED BY <1>2, <1>3, <1>4, <1>5, <1>6, <1>7, <1>8, <1>9, <1>10, <1>11

\* Snapshot keeps it and cannot be seen.
LEMMA SnapshotKeeps ==
  ASSUME StateInv, Snapshot
  PROVE  /\ StateInv' /\ SeenIn(trie, db)' = SeenIn(trie, db)
         /\ saved' = Append(saved, [id |-> db.nextRevisionId, world |-> View(db)])
<1>0. Good(trie, db, saved) /\ View(db) = SeenIn(trie, db)
  BY ViewIsSeen DEF StateInv
<1>1. db' = Taken(db, db.nextRevisionId)
  BY DEF Snapshot, Taken
<1>2. saved' = Append(saved, [id |-> db.nextRevisionId, world |-> SeenIn(trie, db)])
  BY <1>0 DEF Snapshot
<1>3. Good(trie, db', saved') /\ SeenIn(trie, db') = SeenIn(trie, db)
  BY <1>0, <1>1, <1>2, SnapshotGood
<1> QED BY <1>0, <1>2, <1>3 DEF Snapshot, StateInv

\* RevertToSnapshot keeps it and brings the copy back.
LEMMA RevertKeeps ==
  ASSUME StateInv, RevertToSnapshot
  PROVE  /\ StateInv'
         /\ \E k \in 1 .. Len(saved) : saved' = SubSeq(saved, 1, k - 1) /\ SeenIn(trie, db)' = saved[k].world
<1>0. Good(trie, db, saved)
  BY DEF StateInv
<1>1. PICK k \in DOMAIN db.validRevisions : db' = RevertToRevision(db, k) /\ saved' = SubSeq(saved, 1, k - 1)
  BY DEF RevertToSnapshot
<1>2. k \in 1 .. Len(saved)
  <2>1. db.validRevisions \in Seq(Revisions)
    BY <1>0 DEF Good, States
  <2> QED BY <1>0, <2>1 DEF Good, Marked
<1>3. Good(trie, db', saved') /\ SeenIn(trie, db') = saved[k].world
  BY <1>0, <1>1, <1>2, RevertGood
<1> QED BY <1>1, <1>2, <1>3 DEF RevertToSnapshot, StateInv

\* What Finalise and CommitTo make of the state.
LEMMA ClearedIsGood ==
  ASSUME NEW s \in States, trie \in [Accounts -> Data], Gone(trie, s), NEW which \in SUBSET Accounts,
         NEW dirt \in SUBSET Accounts, NEW hash \in Int
  PROVE  LET written == WriteBack(s, which) IN
         Good(TrieAfter(written, which),
              [s EXCEPT !.journal = <<>>, !.validRevisions = <<>>, !.refund = 0,
                        !.objects = written, !.dirty = dirt, !.thash = hash], <<>>)
<1> DEFINE written == WriteBack(s, which)
           after == TrieAfter(written, which)
           r == [s EXCEPT !.journal = <<>>, !.validRevisions = <<>>, !.refund = 0,
                          !.objects = written, !.dirty = dirt, !.thash = hash]
<1>1. /\ written \in [Accounts -> Objects] /\ after \in [Accounts -> Data]
      /\ \A a \in Accounts : written[a].live /\ written[a].deleted => ~after[a].exists
  BY WrittenBack
<1> HIDE DEF written, after
<1>2. r \in States /\ r.journal = <<>> /\ r.validRevisions = <<>> /\ r.objects = written
  <2> DEFINE jou == <<>>
             revs == <<>>
             zero == 0
  <2>1. jou \in Seq(Entries) /\ revs \in Seq(Revisions) /\ zero \in Int
    OBVIOUS
  <2> HIDE DEF jou, revs, zero
  <2>2. LET q == [s EXCEPT !.journal = jou, !.validRevisions = revs, !.refund = zero,
                           !.objects = written, !.dirty = dirt, !.thash = hash]
        IN  q \in States /\ q.journal = jou /\ q.validRevisions = revs /\ q.objects = written
    <3>1. written \in [Accounts -> Objects]
      BY <1>1
    <3> QED BY <2>1, <3>1 DEF States
  <2> QED BY <2>2 DEF jou, revs, zero
<1>3. Good(after, r, <<>>)
  BY <1>1, <1>2, NothingSaved DEF Gone
<1> QED BY <1>3 DEF after, r, written

\* Finalise keeps it: nothing is left to revert to.
LEMMA FinaliseKeeps ==
  ASSUME StateInv, Finalise
  PROVE  StateInv'
<1>0. db \in States /\ trie \in [Accounts -> Data] /\ Gone(trie, db)
  BY DEF StateInv, Good
<1> DEFINE written == WriteBack(db, db.dirty)
<1>1. db.dirty \in SUBSET Accounts /\ db.thash + 1 \in Int
  BY <1>0 DEF States
<1>2. Good(TrieAfter(written, db.dirty),
           [db EXCEPT !.journal = <<>>, !.validRevisions = <<>>, !.refund = 0,
                      !.objects = written, !.dirty = db.dirty, !.thash = db.thash + 1], <<>>)
  BY <1>0, <1>1, ClearedIsGood
<1>3. db' = [[db EXCEPT !.journal = <<>>, !.validRevisions = <<>>, !.refund = 0]
              EXCEPT !.objects = written, !.thash = @ + 1]
      /\ trie' = TrieAfter(written, db.dirty) /\ saved' = <<>>
  BY DEF Finalise, clearJournalAndRefund
<1> HIDE DEF written
<1>4. db' = [db EXCEPT !.journal = <<>>, !.validRevisions = <<>>, !.refund = 0,
                       !.objects = written, !.dirty = db.dirty, !.thash = db.thash + 1]
  BY <1>0, <1>3 DEF States
<1> QED BY <1>2, <1>3, <1>4 DEF StateInv

\* So does CommitTo.
LEMMA CommitKeeps ==
  ASSUME StateInv, CommitTo
  PROVE  StateInv'
<1>0. db \in States /\ trie \in [Accounts -> Data] /\ Gone(trie, db)
  BY DEF StateInv, Good
<1> DEFINE which == {a \in Accounts : db.objects[a].live /\ (db.objects[a].suicided \/ a \in db.dirty)}
           written == WriteBack(db, which)
<1>1. which \in SUBSET Accounts /\ {} \in SUBSET Accounts /\ db.thash \in Int
  BY <1>0 DEF States
<1>2. db' = [[db EXCEPT !.journal = <<>>, !.validRevisions = <<>>, !.refund = 0]
              EXCEPT !.objects = written, !.dirty = {}]
      /\ trie' = TrieAfter(written, which) /\ saved' = <<>>
  BY DEF CommitTo, clearJournalAndRefund
<1> HIDE DEF which
<1>3. Good(TrieAfter(written, which),
           [db EXCEPT !.journal = <<>>, !.validRevisions = <<>>, !.refund = 0,
                      !.objects = written, !.dirty = {}, !.thash = db.thash], <<>>)
  BY <1>0, <1>1, ClearedIsGood
<1> HIDE DEF written
<1>4. db' = [db EXCEPT !.journal = <<>>, !.validRevisions = <<>>, !.refund = 0,
                       !.objects = written, !.dirty = {}, !.thash = db.thash]
  BY <1>0, <1>2 DEF States
<1> QED BY <1>2, <1>3, <1>4 DEF StateInv

\* Every step keeps the invariant.
LEMMA StateStepKeeps == StateInv /\ [StateNext]_stateVars => StateInv'
<1>1. SUFFICES ASSUME StateInv, [StateNext]_stateVars
               PROVE  StateInv'
  OBVIOUS
<1>2. CASE Read
  <2>1. PICK a \in Accounts : db' = Load(db, a)
    BY <1>2 DEF Read
  <2>2. Good(trie, Load(db, a), saved)
    BY <1>1, LoadGood DEF StateInv
  <2> QED BY <1>1, <1>2, <2>1, <2>2 DEF Read, StateInv
<1>3. CASE Snapshot
  BY <1>1, <1>3, SnapshotKeeps
<1>4. CASE RevertToSnapshot
  BY <1>1, <1>4, RevertKeeps
<1>5. CASE Finalise
  BY <1>1, <1>5, FinaliseKeeps
<1>6. CASE CommitTo
  BY <1>1, <1>6, CommitKeeps
<1>7. CASE Reopen
  <2>1. saved' = <<>> /\ trie' = trie /\ db' = [NewState EXCEPT !.nextRevisionId = db.nextRevisionId]
    BY <1>1, <1>7 DEF Reopen, StateInv
  <2>2. db.nextRevisionId \in Int /\ trie \in [Accounts -> Data]
    BY <1>1 DEF StateInv, Good, States
  <2>3. Good(trie, db', <<>>)
    BY <2>1, <2>2, OpenedIsGood
  <2> QED BY <2>1, <2>3 DEF StateInv
<1>8. CASE UNCHANGED stateVars
  BY <1>1, <1>8 DEF stateVars, StateInv
<1> QED BY <1>1, <1>2, <1>3, <1>4, <1>5, <1>6, <1>7, <1>8, CallsKeep DEF StateNext

\* The journal always leads back to every saved copy.
LEMMA StateAlwaysGood == StateSpec => []StateInv
<1> QED BY StateStartsGood, StateStepKeeps, PTL DEF StateSpec

ViewRight == View(db) = SeenIn(trie, db)

\* Every step of the state database is a step of the saved copies.
LEMMA StepOfCopies ==
  ASSUME StateInv, ViewRight, ViewRight', [StateNext]_stateVars
  PROVE  [Copies!Next]_<<View(db), saved, epoch>>
<1>0. Good(trie, db, saved)
  BY DEF StateInv
<1>1. CASE Snapshot
  <2> DEFINE copy == [id |-> db.nextRevisionId, world |-> View(db)]
  <2>1. View(db)' = View(db)
    BY <1>1, SnapshotKeeps DEF ViewRight
  <2>2. saved' = Append(saved, copy) /\ epoch' = epoch
    BY <1>1, SnapshotKeeps DEF Snapshot
  <2>3. saved \in Seq([id : Int, world : Worlds]) /\ \A k \in 1 .. Len(saved) : saved[k].id < db.nextRevisionId
    BY <1>0 DEF Good
  <2>4. copy \in [id : Int, world : Worlds]
    BY <1>0, WorldIsTyped DEF Good, States, ViewRight
  <2>5. copy.world = View(db) /\ copy.id = db.nextRevisionId
    OBVIOUS
  <2> HIDE DEF copy
  <2>6. /\ saved' \in Seq([id : Int, world : Worlds]) /\ Len(saved') = Len(saved) + 1
        /\ saved'[Len(saved) + 1] = copy /\ Len(saved) \in Nat
        /\ \A k \in 1 .. Len(saved) : saved'[k] = saved[k]
    BY <2>2, <2>3, <2>4, AppendProperties
  <2>7. SubSeq(saved', 1, Len(saved)) = saved
    <3>1. /\ SubSeq(saved', 1, Len(saved)) \in Seq([id : Int, world : Worlds])
          /\ Len(SubSeq(saved', 1, Len(saved))) = Len(saved)
          /\ \A k \in 1 .. Len(saved) : SubSeq(saved', 1, Len(saved))[k] = saved'[k]
      <4>1. Len(saved) <= Len(saved')
        BY <2>6
      <4> QED BY <2>6, <4>1, Prefix
    <3> QED BY <2>3, <2>6, <3>1, SeqEqual
  <2>8. \A k \in DOMAIN saved : saved[k].id < copy.id
    BY <2>3, <2>5
  <2>9. Copies!Take
    BY <2>1, <2>2, <2>5, <2>6, <2>7, <2>8 DEF Copies!Take
  <2> QED BY <2>9 DEF Copies!Next
<1>2. CASE RevertToSnapshot
  <2>1. PICK k \in 1 .. Len(saved) : saved' = SubSeq(saved, 1, k - 1) /\ SeenIn(trie, db)' = saved[k].world
    BY <1>2, RevertKeeps
  <2>2. k \in DOMAIN saved
    BY <1>0 DEF Good
  <2>3. View(db)' = saved[k].world /\ epoch' = epoch
    BY <1>2, <2>1 DEF ViewRight, RevertToSnapshot
  <2>4. Copies!Revert
    BY <2>1, <2>2, <2>3 DEF Copies!Revert
  <2> QED BY <2>4 DEF Copies!Next
<1>3. CASE Finalise \/ CommitTo
  <2>1. Copies!Forget
    BY <1>3 DEF Finalise, CommitTo, Copies!Forget
  <2> QED BY <2>1 DEF Copies!Next
<1>4. CASE UNCHANGED <<saved, epoch>>
  BY <1>4 DEF Copies!Next, Copies!Change
<1>5. CASE Read \/ Reopen \/ UNCHANGED stateVars
  BY <1>4, <1>5 DEF Read, Reopen, stateVars
<1> QED BY <1>1, <1>2, <1>3, <1>4, <1>5, CallsKeep DEF StateNext

\* Whatever is modified after a snapshot, and however snapshots nest, reverting to
\* it brings back exactly what could be observed when it was taken (journal.go,
\* statedb.go:485-515): the state database implements saved copies of the world.
THEOREM JournalSavesCopies == StateSpec => RevertsExactly
<1>1. StateInit => Copies!Init
  BY DEF StateInit, Copies!Init
<1>2. StateInv => ViewRight
  BY ViewIsSeen DEF ViewRight
<1>3. StateInv /\ ViewRight /\ ViewRight' /\ [StateNext]_stateVars => [Copies!Next]_<<View(db), saved, epoch>>
  BY StepOfCopies
<1> QED BY <1>1, <1>2, <1>3, StateAlwaysGood, PTL DEF StateSpec, RevertsExactly, Copies!Spec

-----------------------------------------------------------------------------
(* The chain database: the tree of blocks.                                  *)

\* A set of blocks with the parents of its members
Upward(S) == \A x \in S : x # GenesisBlock => Parent[x] \in S

\* The ancestry without recursion: what every such set around b has
Around(b) == {x \in Blocks : \A S \in SUBSET Blocks : (b \in S /\ Upward(S)) => x \in S}

\* Around(b) is the least of these sets,
LEMMA AroundIsLeast ==
  ASSUME NEW b \in Blocks, NEW S, b \in S, \A x \in S : x \in Blocks /\ (x # GenesisBlock => Parent[x] \in S)
  PROVE  Around(b) \subseteq S
<1>1. S \in SUBSET Blocks /\ Upward(S)
  BY DEF Upward
<1> QED BY <1>1 DEF Around

\* and b with what is around its parent.
LEMMA AroundUnfolds ==
  ASSUME ChainConstants, NEW b \in Blocks
  PROVE  Around(b) = IF b = GenesisBlock THEN {b} ELSE {b} \cup Around(Parent[b])
<1>1. b \in Around(b) /\ Around(b) \subseteq Blocks
  BY DEF Around
<1>2. CASE b = GenesisBlock
  <2>1. Around(b) \subseteq {b}
    <3>1. \A x \in {b} : x \in Blocks /\ (x # GenesisBlock => Parent[x] \in {b})
      BY <1>2
    <3> QED BY <3>1, AroundIsLeast
  <2> QED BY <1>1, <1>2, <2>1
<1>3. CASE b # GenesisBlock
  <2> DEFINE p == Parent[b]
             T == {b} \cup Around(p)
  <2>1. p \in Blocks
    BY <1>3 DEF ChainConstants
  <2>2. p \in Around(p) /\ Around(p) \subseteq Blocks
    BY <2>1 DEF Around
  <2>3. Around(b) \subseteq T
    <3>1. ASSUME NEW x \in Around(p), x # GenesisBlock PROVE Parent[x] \in Around(p)
      <4>1. x \in Blocks /\ Parent[x] \in Blocks
        BY <3>1, <2>2 DEF ChainConstants
      <4>2. ASSUME NEW S \in SUBSET Blocks, p \in S, Upward(S) PROVE Parent[x] \in S
        BY <3>1, <4>2 DEF Around, Upward
      <4> QED BY <4>1, <4>2 DEF Around
    <3>2. \A x \in T : x \in Blocks /\ (x # GenesisBlock => Parent[x] \in T)
      BY <2>2, <3>1
    <3> HIDE DEF T
    <3>3. b \in T
      BY DEF T
    <3> QED BY <3>2, <3>3, AroundIsLeast
  <2>4. ASSUME NEW x \in Around(p) PROVE x \in Around(b)
    <3>1. ASSUME NEW S \in SUBSET Blocks, b \in S, Upward(S) PROVE x \in S
      <4>1. p \in S
        BY <3>1, <1>3 DEF Upward
      <4> QED BY <4>1, <3>1, <2>4 DEF Around
    <3> QED BY <3>1, <2>4, <2>2 DEF Around
  <2> QED BY <1>1, <1>3, <2>3, <2>4
<1> QED BY <1>2, <1>3

\* Ancestry is that set: the recursion has one solution.
LEMMA AncestryIsAround ==
  ASSUME ChainConstants, NEW b \in Blocks PROVE Ancestry[b] = Around(b)
<1> DEFINE Def(f) == [x \in Blocks |-> IF x = GenesisBlock THEN {x} ELSE {x} \cup f[Parent[x]]]
           s == CHOOSE f : f = Def(f)
           F == [x \in Blocks |-> Around(x)]
<1>1. F = Def(F)
  <2>1. ASSUME NEW x \in Blocks PROVE F[x] = IF x = GenesisBlock THEN {x} ELSE {x} \cup F[Parent[x]]
    <3>1. CASE x = GenesisBlock
      BY <3>1, AroundUnfolds
    <3>2. CASE x # GenesisBlock
      <4>1. Parent[x] \in Blocks
        BY <3>2 DEF ChainConstants
      <4> QED BY <3>2, <4>1, AroundUnfolds
    <3> QED BY <3>1, <3>2
  <2> QED BY <2>1
<1>2. s = Def(s)
  <2> HIDE DEF Def, F
  <2> QED BY <1>1
<1>3. Ancestry = s
  BY DEF Ancestry
<1> HIDE DEF s
<1>4. \A x \in Blocks : s[x] = IF x = GenesisBlock THEN {x} ELSE {x} \cup s[Parent[x]]
  BY <1>2
<1> DEFINE Bad == {n \in Nat : \E x \in Blocks : Number[x] = n /\ s[x] # Around(x)}
<1>5. SUFFICES ASSUME Bad # {} PROVE FALSE
  BY <1>3 DEF ChainConstants
<1>6. PICK n \in Bad : \A m \in Nat : m < n => m \notin Bad
  <2>1. Bad \in SUBSET Nat
    OBVIOUS
  <2> HIDE DEF Bad
  <2> QED BY <1>5, <2>1, LeastNumber
<1>7. PICK x \in Blocks : Number[x] = n /\ s[x] # Around(x)
  OBVIOUS
<1>8. x # GenesisBlock
  BY <1>4, <1>7, AroundUnfolds
<1>9. Parent[x] \in Blocks /\ Number[Parent[x]] \in Nat /\ Number[x] = Number[Parent[x]] + 1
  BY <1>8 DEF ChainConstants
<1>10. s[Parent[x]] = Around(Parent[x])
  BY <1>6, <1>7, <1>9
<1> QED BY <1>4, <1>7, <1>8, <1>10, AroundUnfolds

\* What the parents lead to: a block, its ancestors, of smaller numbers
LEMMA AncestryFacts ==
  ASSUME ChainConstants, NEW b \in Blocks
  PROVE  /\ b \in Ancestry[b] /\ Ancestry[b] \subseteq Blocks
         /\ b = GenesisBlock => Ancestry[b] = {b}
         /\ b # GenesisBlock => Parent[b] \in Blocks /\ Ancestry[b] = {b} \cup Ancestry[Parent[b]]
         /\ \A x \in Ancestry[b] : x # GenesisBlock => Parent[x] \in Ancestry[b]
         /\ \A x \in Ancestry[b] : Ancestry[x] \subseteq Ancestry[b]
         /\ \A x \in Ancestry[b] : Number[x] <= Number[b]
         /\ \A x \in Ancestry[b] : x # b => Number[x] < Number[b]
<1>0. b # GenesisBlock => Parent[b] \in Blocks
  BY DEF ChainConstants
<1>1. b \in Ancestry[b] /\ Ancestry[b] \subseteq Blocks
  BY AncestryIsAround DEF Around
<1>2. /\ b = GenesisBlock => Ancestry[b] = {b}
      /\ b # GenesisBlock => Ancestry[b] = {b} \cup Ancestry[Parent[b]]
  BY <1>0, AncestryIsAround, AroundUnfolds
<1>3. ASSUME NEW x \in Ancestry[b], x # GenesisBlock PROVE Parent[x] \in Ancestry[b]
  <2>0. x \in Around(b)
    BY AncestryIsAround
  <2>1. x \in Blocks /\ Parent[x] \in Blocks
    BY <1>1, <1>3 DEF ChainConstants
  <2>2. ASSUME NEW S \in SUBSET Blocks, b \in S, Upward(S) PROVE Parent[x] \in S
    BY <1>3, <2>0, <2>2 DEF Around, Upward
  <2>3. Parent[x] \in Around(b)
    BY <2>1, <2>2 DEF Around
  <2> QED BY <2>3, AncestryIsAround
<1>4. ASSUME NEW x \in Ancestry[b] PROVE Ancestry[x] \subseteq Ancestry[b]
  <2>1. \A y \in Ancestry[b] : y \in Blocks /\ (y # GenesisBlock => Parent[y] \in Ancestry[b])
    BY <1>1, <1>3
  <2>2. x \in Blocks
    BY <1>1
  <2> QED BY <2>1, <2>2, AroundIsLeast, AncestryIsAround
<1>5. ASSUME NEW x \in Blocks PROVE \A y \in Ancestry[x] : Number[y] <= Number[x]
  <2> DEFINE S == {y \in Blocks : Number[y] <= Number[x]}
  <2>1. \A y \in Blocks : Number[y] \in Nat
    BY DEF ChainConstants
  <2>2. x \in S
    BY <2>1
  <2>3. ASSUME NEW y \in S, y # GenesisBlock PROVE Parent[y] \in S
    <3>1. Parent[y] \in Blocks /\ Number[y] = Number[Parent[y]] + 1
      BY <2>3 DEF ChainConstants
    <3>2. Number[y] \in Nat /\ Number[Parent[y]] \in Nat /\ Number[x] \in Nat /\ Number[y] <= Number[x]
      BY <2>1, <3>1
    <3> QED BY <3>1, <3>2
  <2>4. \A y \in S : y \in Blocks /\ (y # GenesisBlock => Parent[y] \in S)
    BY <2>3
  <2>5. Ancestry[x] \subseteq S
    <3> HIDE DEF S
    <3> QED BY <2>2, <2>4, AroundIsLeast, AncestryIsAround
  <2> QED BY <2>5
<1>6. ASSUME NEW x \in Ancestry[b], x # b PROVE Number[x] < Number[b]
  <2>1. b # GenesisBlock /\ x \in Ancestry[Parent[b]]
    BY <1>2, <1>6
  <2>2. Parent[b] \in Blocks /\ Number[b] = Number[Parent[b]] + 1
    BY <2>1 DEF ChainConstants
  <2>3. Number[x] <= Number[Parent[b]]
    BY <1>5, <2>1, <2>2
  <2>4. Number[x] \in Nat /\ Number[Parent[b]] \in Nat
    BY <1>1, <2>2 DEF ChainConstants
  <2> QED BY <2>2, <2>3, <2>4
<1>7. \A x \in Ancestry[b] : Number[x] <= Number[b]
  BY <1>5
<1> QED BY ONLY <1>0, <1>1, <1>2, <1>3, <1>4, <1>6, <1>7, Zenon

\* A set around a block that has the parents of its members has the ancestry.
LEMMA AncestryIsLeast ==
  ASSUME ChainConstants, NEW b \in Blocks, NEW S, b \in S,
         \A x \in S : x \in Blocks /\ (x # GenesisBlock => Parent[x] \in S)
  PROVE  Ancestry[b] \subseteq S
BY AroundIsLeast, AncestryIsAround

\* Of two ancestors one is an ancestor of the other,
LEMMA AncestryIsLine ==
  ASSUME ChainConstants, NEW b \in Blocks, NEW x \in Ancestry[b], NEW y \in Ancestry[b]
  PROVE  x \in Ancestry[y] \/ y \in Ancestry[x]
<1> DEFINE S == {z \in Ancestry[b] : \A u \in Ancestry[b] : z \in Ancestry[u] \/ u \in Ancestry[z]}
<1>1. b \in S
  BY AncestryFacts
<1>2. ASSUME NEW z \in S, z # GenesisBlock PROVE Parent[z] \in S
  <2>1. z \in Blocks /\ Parent[z] \in Ancestry[b] /\ Ancestry[b] \subseteq Blocks
    BY <1>2, AncestryFacts
  <2>2. Ancestry[z] = {z} \cup Ancestry[Parent[z]] /\ Parent[z] \in Blocks
    BY <1>2, <2>1, AncestryFacts
  <2>3. Parent[z] \in Ancestry[Parent[z]]
    BY <2>2, AncestryFacts
  <2>4. ASSUME NEW u \in Ancestry[b] PROVE Parent[z] \in Ancestry[u] \/ u \in Ancestry[Parent[z]]
    <3>1. CASE z \in Ancestry[u]
      <4>1. u \in Blocks
        BY <2>1
      <4> QED BY <3>1, <4>1, <1>2, AncestryFacts
    <3>2. CASE u \in Ancestry[z]
      <4>1. CASE u = z
        BY <4>1, <2>2, <2>3
      <4> QED BY <3>2, <4>1, <2>2
    <3> QED BY <3>1, <3>2
  <2> QED BY <2>1, <2>4
<1>3. \A z \in S : z \in Blocks /\ (z # GenesisBlock => Parent[z] \in S)
  BY <1>2, AncestryFacts
<1>4. Ancestry[b] \subseteq S
  <2> HIDE DEF S
  <2> QED BY <1>1, <1>3, AncestryIsLeast
<1> QED BY <1>4

\* so that the numbers of ancestors differ.
LEMMA NumbersDiffer ==
  ASSUME ChainConstants, NEW b \in Blocks, NEW x \in Ancestry[b], NEW y \in Ancestry[b], Number[x] = Number[y]
  PROVE  x = y
<1>1. x \in Blocks /\ y \in Blocks /\ Number[x] \in Nat /\ Number[y] \in Nat
  BY AncestryFacts DEF ChainConstants
<1>2. CASE x \in Ancestry[y]
  <2>1. x # y => Number[x] < Number[y]
    BY <1>1, <1>2, AncestryFacts
  <2> QED BY <1>1, <2>1
<1>3. CASE y \in Ancestry[x]
  <2>1. y # x => Number[y] < Number[x]
    BY <1>1, <1>3, AncestryFacts
  <2> QED BY <1>1, <2>1
<1> QED BY <1>2, <1>3, AncestryIsLine

\* A line goes through every number down to the genesis block.
LEMMA LineIsGapless ==
  ASSUME ChainConstants, NEW b \in Blocks
  PROVE  \A n \in Nat : n <= Number[b] => \E x \in Ancestry[b] : Number[x] = n
<1>0. Number[b] \in Nat
  BY DEF ChainConstants
<1> DEFINE Has(k) == \E x \in Ancestry[b] : Number[x] = Number[b] - k
           Bad == {k \in Nat : k <= Number[b] /\ ~Has(k)}
<1>1. SUFFICES ASSUME Bad # {} PROVE FALSE
  <2>1. ASSUME NEW n \in Nat, n <= Number[b], Bad = {} PROVE \E x \in Ancestry[b] : Number[x] = n
    <3>1. Number[b] - n \in Nat /\ Number[b] - n <= Number[b] /\ Number[b] - (Number[b] - n) = n
      BY <1>0, <2>1
    <3>2. Has(Number[b] - n)
      BY <3>1, <2>1
    <3> QED BY <3>1, <3>2
  <2> QED BY <2>1
<1>2. PICK k \in Bad : \A m \in Nat : m < k => m \notin Bad
  <2>1. Bad \in SUBSET Nat
    OBVIOUS
  <2> HIDE DEF Bad
  <2> QED BY <1>1, <2>1, LeastNumber
<1>3. k \in Nat /\ k <= Number[b] /\ ~Has(k)
  OBVIOUS
<1>4. k # 0
  <2>1. b \in Ancestry[b]
    BY AncestryFacts
  <2> QED BY <1>0, <1>3, <2>1
<1>5. k - 1 \in Nat /\ k - 1 < k /\ k - 1 <= Number[b]
  BY <1>0, <1>3, <1>4
<1>6. Has(k - 1)
  BY <1>2, <1>5
<1>7. PICK x \in Ancestry[b] : Number[x] = Number[b] - (k - 1)
  BY <1>6
<1>8. Number[x] # 0 /\ x \in Blocks
  BY <1>0, <1>3, <1>7, AncestryFacts
<1>9. x # GenesisBlock
  BY <1>8 DEF ChainConstants
<1>10. Parent[x] \in Ancestry[b] /\ Number[x] = Number[Parent[x]] + 1 /\ Number[Parent[x]] \in Nat
  BY <1>8, <1>9, AncestryFacts DEF ChainConstants
<1>11. Number[Parent[x]] = Number[b] - k
  BY <1>0, <1>3, <1>7, <1>10
<1> QED BY <1>3, <1>10, <1>11

\* The numbers of blocks start at 0 and have no gaps.
LEMMA HeightsAreGapless ==
  ASSUME ChainConstants
  PROVE  /\ Heights \subseteq Nat /\ 0 \in Heights
         /\ \A n \in Heights, m \in Nat : m <= n => m \in Heights
         /\ \A b \in Blocks : Number[b] \in Heights
<1>1. Heights \subseteq Nat /\ 0 \in Heights /\ \A b \in Blocks : Number[b] \in Heights
  BY DEF ChainConstants, Heights
<1>2. ASSUME NEW n \in Heights, NEW m \in Nat, m <= n PROVE m \in Heights
  <2>1. PICK b \in Blocks : Number[b] = n
    BY DEF Heights
  <2>2. PICK x \in Ancestry[b] : Number[x] = m
    BY <1>2, <2>1, LineIsGapless
  <2> QED BY <2>1, <2>2, <1>1, AncestryFacts
<1> QED BY <1>1, <1>2

\* The genesis block is an ancestor of every block.
LEMMA GenesisIsAncestor ==
  ASSUME ChainConstants, NEW b \in Blocks
  PROVE  GenesisBlock \in Ancestry[b] /\ \A x \in Blocks : Number[x] = 0 => x = GenesisBlock
<1>1. ASSUME NEW x \in Blocks, Number[x] = 0 PROVE x = GenesisBlock
  <2>1. SUFFICES ASSUME x # GenesisBlock PROVE FALSE
    OBVIOUS
  <2>2. Number[x] = Number[Parent[x]] + 1 /\ Number[Parent[x]] \in Nat
    BY <2>1 DEF ChainConstants
  <2> QED BY <1>1, <2>2
<1>2. 0 \in Nat /\ 0 <= Number[b]
  BY DEF ChainConstants
<1>3. PICK x \in Ancestry[b] : Number[x] = 0
  BY <1>2, LineIsGapless
<1> QED BY <1>1, <1>3, AncestryFacts

-----------------------------------------------------------------------------
(* Lists of writes: what they contain.                                      *)

\* s lists the elements of W, which are of type T.
Lists(s, W, T) == s \in Seq(T) /\ ToSet(s) = W

\* A list after another
LEMMA ListsConcat ==
  ASSUME NEW T, NEW s, NEW t, NEW V, NEW W, Lists(s, V, T), Lists(t, W, T)
  PROVE  Lists(s \o t, V \cup W, T)
<1>1. s \in Seq(T) /\ t \in Seq(T) /\ V = {s[i] : i \in DOMAIN s} /\ W = {t[i] : i \in DOMAIN t}
  BY DEF Lists, ToSet
<1>2. /\ Len(s) \in Nat /\ Len(t) \in Nat /\ DOMAIN s = 1 .. Len(s) /\ DOMAIN t = 1 .. Len(t)
  BY <1>1
<1> DEFINE c == s \o t
<1>3. /\ c \in Seq(T) /\ Len(c) = Len(s) + Len(t) /\ DOMAIN c = 1 .. Len(c)
      /\ \A i \in 1 .. Len(s) + Len(t) : c[i] = IF i <= Len(s) THEN s[i] ELSE t[i - Len(s)]
  BY <1>1, ConcatProperties, LenProperties
<1> HIDE DEF c
<1>4. ASSUME NEW w \in V \cup W PROVE \E i \in DOMAIN c : c[i] = w
  <2>1. CASE w \in V
    <3>1. PICK i \in 1 .. Len(s) : s[i] = w
      BY <1>1, <1>2, <2>1
    <3>2. i \in 1 .. Len(s) + Len(t) /\ i <= Len(s)
      BY <1>2, <3>1
    <3> QED BY <1>3, <3>1, <3>2
  <2>2. CASE w \in W
    <3>1. PICK i \in 1 .. Len(t) : t[i] = w
      BY <1>1, <1>2, <2>2
    <3>2. i + Len(s) \in 1 .. Len(s) + Len(t) /\ ~(i + Len(s) <= Len(s)) /\ (i + Len(s)) - Len(s) = i
      BY <1>2, <3>1
    <3> QED BY <1>3, <3>1, <3>2
  <2> QED BY <2>1, <2>2
<1>5. ASSUME NEW i \in DOMAIN c PROVE c[i] \in V \cup W
  <2>1. i \in 1 .. Len(s) + Len(t)
    BY <1>3
  <2>2. CASE i <= Len(s)
    <3>1. i \in 1 .. Len(s)
      BY <1>2, <2>1, <2>2
    <3> QED BY <1>1, <1>2, <1>3, <2>1, <2>2, <3>1
  <2>3. CASE ~(i <= Len(s))
    <3>1. i - Len(s) \in 1 .. Len(t)
      BY <1>2, <2>1, <2>3
    <3> QED BY <1>1, <1>2, <1>3, <2>1, <2>3, <3>1
  <2> QED BY <2>2, <2>3
<1>6. ToSet(c) = V \cup W
  BY <1>4, <1>5 DEF ToSet
<1> QED BY <1>3, <1>6 DEF c, Lists

\* Short lists
LEMMA ListsFew ==
  ASSUME NEW T, NEW a \in T, NEW b \in T, NEW c \in T
  PROVE  /\ Lists(<<>>, {}, T) /\ Lists(<<a>>, {a}, T) /\ Lists(<<a, b>>, {a, b}, T)
         /\ Lists(<<a, b, c>>, {a, b, c}, T)
BY DEF Lists, ToSet

\* A function on 1..n is a list of its values.
LEMMA ListsValues ==
  ASSUME NEW T, NEW n \in Nat, NEW f, f = [i \in 1 .. n |-> f[i]], \A i \in 1 .. n : f[i] \in T
  PROVE  Lists(f, {f[i] : i \in 1 .. n}, T) /\ DOMAIN f = 1 .. n /\ Len(f) = n
<1>1. f \in [1 .. n -> T]
  OBVIOUS
<1>2. f \in Seq(T) /\ DOMAIN f = 1 .. n
  BY <1>1, SeqDef
<1>3. Len(f) = n
  BY <1>2, LenProperties
<1> QED BY <1>2, <1>3 DEF Lists, ToSet

\* The first write is taken away, or it is the last.
LEMMA ListsTail ==
  ASSUME NEW T, NEW s \in Seq(T), s # <<>>
  PROVE  /\ Head(s) \in T /\ Tail(s) \in Seq(T) /\ Len(s) \in Nat \ {0} /\ DOMAIN s = 1 .. Len(s)
         /\ Head(s) = s[1] /\ Len(Tail(s)) = Len(s) - 1 /\ DOMAIN Tail(s) = 1 .. (Len(s) - 1)
         /\ \A i \in 1 .. (Len(s) - 1) : Tail(s)[i] = s[i + 1]
         /\ ToSet(s) = {Head(s)} \cup ToSet(Tail(s))
<1>1. /\ Head(s) \in T /\ Tail(s) \in Seq(T) /\ Len(s) \in Nat \ {0} /\ DOMAIN s = 1 .. Len(s)
      /\ Head(s) = s[1] /\ Len(Tail(s)) = Len(s) - 1
  BY HeadTailProperties, EmptySeq, LenProperties
<1>2. DOMAIN Tail(s) = 1 .. (Len(s) - 1) /\ \A i \in 1 .. (Len(s) - 1) : Tail(s)[i] = s[i + 1]
  BY <1>1, HeadTailProperties, LenProperties
<1> DEFINE r == Tail(s)
           n == Len(s)
<1>3. DOMAIN r = 1 .. (n - 1) /\ (\A i \in 1 .. (n - 1) : r[i] = s[i + 1]) /\ n \in Nat \ {0} /\ DOMAIN s = 1 .. n
  BY <1>1, <1>2
<1> HIDE DEF r, n
<1>4. ASSUME NEW i \in DOMAIN s PROVE s[i] \in {s[1]} \cup ToSet(r)
  <2>1. CASE i = 1
    BY <2>1
  <2>2. CASE i # 1
    <3>1. i - 1 \in 1 .. (n - 1) /\ (i - 1) + 1 = i
      BY <1>3, <2>2
    <3>2. r[i - 1] = s[i] /\ i - 1 \in DOMAIN r
      BY <1>3, <3>1
    <3> QED BY <3>2 DEF ToSet
  <2> QED BY <2>1, <2>2
<1>5. ASSUME NEW i \in DOMAIN r PROVE r[i] \in ToSet(s)
  <2>1. i + 1 \in DOMAIN s /\ r[i] = s[i + 1]
    BY <1>3
  <2> QED BY <2>1 DEF ToSet
<1>6. s[1] \in ToSet(s)
  <2>1. 1 \in DOMAIN s
    BY <1>3
  <2> QED BY <2>1 DEF ToSet
<1>7. ToSet(s) = {s[1]} \cup ToSet(r)
  <2>1. ASSUME NEW x \in ToSet(s) PROVE x \in {s[1]} \cup ToSet(r)
    BY <1>4 DEF ToSet
  <2>2. ASSUME NEW x \in ToSet(r) PROVE x \in ToSet(s)
    BY <1>5 DEF ToSet
  <2> QED BY <2>1, <2>2, <1>6
<1> QED BY <1>1, <1>2, <1>7 DEF r

\* An injective list of as many elements as the set has lists the set.
LEMMA EnumerationLists ==
  ASSUME NEW S, IsFiniteSet(S), NEW f \in [1 .. Cardinality(S) -> S],
         \A i, j \in 1 .. Cardinality(S) : i # j => f[i] # f[j]
  PROVE  /\ Lists(f, S, S) /\ Cardinality(S) \in Nat /\ DOMAIN f = 1 .. Cardinality(S)
         /\ Len(f) = Cardinality(S)
<1> DEFINE n == Cardinality(S)
<1>1. n \in Nat
  BY FS_CardinalityType
<1>2. f \in Injection(1 .. n, S)
  <2>1. DOMAIN f = 1 .. n
    OBVIOUS
  <2> QED BY <2>1 DEF Injection, IsInjective
<1>3. IsFiniteSet(1 .. n) /\ Cardinality(1 .. n) = n
  BY <1>1, FS_Interval
<1>4. f \in Surjection(1 .. n, S)
  BY <1>2, <1>3, FS_Injection
<1>5. S = {f[i] : i \in 1 .. n}
  BY <1>4 DEF Surjection
<1>6. f = [i \in 1 .. n |-> f[i]] /\ \A i \in 1 .. n : f[i] \in S
  OBVIOUS
<1> HIDE DEF n
<1>7. Lists(f, {f[i] : i \in 1 .. n}, S) /\ DOMAIN f = 1 .. n /\ Len(f) = n
  BY <1>1, <1>6, ListsValues
<1> QED BY <1>1, <1>5, <1>7 DEF n

\* SetToSeq lists a finite set.
LEMMA SetToSeqLists ==
  ASSUME NEW S, IsFiniteSet(S)
  PROVE  Lists(SetToSeq(S), S, S)
<1> DEFINE n == Cardinality(S)
<1>1. PICK f \in [1 .. n -> S] : \A i, j \in 1 .. n : i # j => f[i] # f[j]
  <2>1. ExistsBijection(1 .. n, S)
    BY FS_CardinalityType
  <2>2. PICK g \in [1 .. n -> S] : IsInjective(g)
    BY <2>1 DEF ExistsBijection, Bijection, Injection
  <2>3. DOMAIN g = 1 .. n
    OBVIOUS
  <2> QED BY <2>2, <2>3 DEF IsInjective
<1>2. DOMAIN f = 1 .. n
  OBVIOUS
<1>3. \E g \in [1 .. n -> S] : IsInjective(g)
  BY <1>1, <1>2 DEF IsInjective
<1> DEFINE s == SetToSeq(S)
<1>4. s \in [1 .. n -> S] /\ IsInjective(s)
  <2>1. s = CHOOSE g \in [1 .. n -> S] : IsInjective(g)
    BY DEF SetToSeq
  <2> QED BY <1>3, <2>1
<1> HIDE DEF s
<1>5. DOMAIN s = 1 .. n
  BY <1>4
<1>6. \A i, j \in 1 .. n : i # j => s[i] # s[j]
  BY <1>4, <1>5 DEF IsInjective
<1>7. Lists(s, S, S)
  BY <1>4, <1>6, EnumerationLists
<1> QED BY <1>7 DEF s

\* Distinct numbers as keys
Keyed(S, key) ==
  /\ IsFiniteSet(S) /\ \A x \in S : key[x] \in Int
  /\ \A x, y \in S : key[x] = key[y] => x = y

\* A part of a set with different keys has different keys.
LEMMA KeyedSubset ==
  ASSUME NEW S, NEW key, Keyed(S, key), NEW T \in SUBSET S PROVE Keyed(T, key)
BY FS_Subset DEF Keyed

\* Such a set has an element with the least key,
LEMMA LeastKey ==
  ASSUME NEW S, NEW key, Keyed(S, key), S # {}
  PROVE  \E x \in S : \A y \in S : key[x] <= key[y]
<1> DEFINE Has(T) == \E x \in T : \A y \in T : key[x] <= key[y]
           Bad == {n \in Nat : \E T \in SUBSET S : T # {} /\ Cardinality(T) = n /\ ~Has(T)}
<1>1. SUFFICES ASSUME Bad # {} PROVE FALSE
  <2>1. Cardinality(S) \in Nat /\ S \in SUBSET S
    BY FS_CardinalityType DEF Keyed
  <2> QED BY <2>1
<1>2. PICK n \in Bad : \A m \in Nat : m < n => m \notin Bad
  <2>1. Bad \in SUBSET Nat
    OBVIOUS
  <2> HIDE DEF Bad
  <2> QED BY <1>1, <2>1, LeastNumber
<1>3. PICK T \in SUBSET S : T # {} /\ Cardinality(T) = n /\ ~Has(T)
  OBVIOUS
<1>4. PICK x \in T : TRUE
  BY <1>3
<1>5. IsFiniteSet(T) /\ \A y \in T : key[y] \in Int
  BY FS_Subset DEF Keyed
<1> DEFINE U == T \ {x}
<1>6. U \in SUBSET S /\ Cardinality(U) = n - 1 /\ Cardinality(U) \in Nat /\ n \in Nat
  BY <1>3, <1>5, FS_RemoveElement, FS_CardinalityType
<1>7. n - 1 \in Nat /\ n - 1 < n
  BY <1>6
<1>8. n - 1 \notin Bad
  BY <1>2, <1>7
<1>9. U = {} \/ Has(U)
  BY <1>6, <1>7, <1>8
<1>10. CASE U = {}
  <2>1. T = {x}
    BY <1>10
  <2>2. key[x] <= key[x]
    BY <1>5
  <2> QED BY <1>3, <2>1, <2>2
<1>11. CASE Has(U)
  <2>1. PICK u \in U : \A y \in U : key[u] <= key[y]
    BY <1>11
  <2>2. key[u] \in Int /\ key[x] \in Int /\ u \in T
    BY <1>5
  <2>3. CASE key[u] <= key[x]
    <3>1. \A y \in T : key[u] <= key[y]
      BY <2>1, <2>3
    <3> QED BY <1>3, <2>2, <3>1
  <2>4. CASE ~(key[u] <= key[x])
    <3>1. ASSUME NEW y \in T PROVE key[x] <= key[y]
      <4>1. key[y] \in Int /\ (y = x \/ key[u] <= key[y])
        BY <1>5, <2>1
      <4> QED BY <2>2, <2>4, <4>1
    <3> QED BY <1>3, <3>1
  <2> QED BY <2>3, <2>4
<1> QED BY <1>9, <1>10, <1>11

\* f is a list of S with the highest key first.
Falls(S, key, f) ==
  /\ f \in [1 .. Cardinality(S) -> S]
  /\ \A i, j \in 1 .. Cardinality(S) : i < j => key[f[i]] > key[f[j]]

\* and can be listed with the highest key first.
LEMMA FallingExists ==
  ASSUME NEW S, NEW key, Keyed(S, key)
  PROVE  \E f : Falls(S, key, f)
<1> DEFINE Has(T) == \E f : Falls(T, key, f)
           Bad == {n \in Nat : \E T \in SUBSET S : Cardinality(T) = n /\ ~Has(T)}
<1>1. SUFFICES ASSUME Bad # {} PROVE FALSE
  <2>1. Cardinality(S) \in Nat /\ S \in SUBSET S
    BY FS_CardinalityType DEF Keyed
  <2> QED BY <2>1
<1>2. PICK n \in Bad : \A m \in Nat : m < n => m \notin Bad
  <2>1. Bad \in SUBSET Nat
    OBVIOUS
  <2> HIDE DEF Bad
  <2> QED BY <1>1, <2>1, LeastNumber
<1>3. PICK T \in SUBSET S : Cardinality(T) = n /\ ~Has(T)
  OBVIOUS
<1>4. Keyed(T, key) /\ IsFiniteSet(T) /\ n \in Nat
  BY <1>2, KeyedSubset DEF Keyed
<1>5. CASE T = {}
  <2>1. Cardinality(T) = 0
    BY <1>5, FS_EmptySet
  <2>2. 1 .. 0 = {}
    OBVIOUS
  <2>3. Falls(T, key, [i \in {} |-> i])
    BY <2>1, <2>2 DEF Falls
  <2> QED BY <1>3, <2>3
<1>6. CASE T # {}
  <2>1. PICK x \in T : \A y \in T : key[x] <= key[y]
    BY <1>4, <1>6, LeastKey
  <2> DEFINE U == T \ {x}
  <2>2. U \in SUBSET S /\ Cardinality(U) = n - 1 /\ Cardinality(U) \in Nat
    BY <1>3, <1>4, FS_RemoveElement, FS_CardinalityType
  <2>3. n - 1 \in Nat /\ n - 1 < n
    BY <1>4, <2>2
  <2>4. n - 1 \notin Bad
    BY <1>2, <2>3
  <2>5. PICK f : Falls(U, key, f)
    BY <2>2, <2>3, <2>4
  <2>6. f \in [1 .. (n - 1) -> U] /\ \A i, j \in 1 .. (n - 1) : i < j => key[f[i]] > key[f[j]]
    BY <2>2, <2>5 DEF Falls
  <2> DEFINE g == [i \in 1 .. n |-> IF i = n THEN x ELSE f[i]]
  <2>7. g \in [1 .. n -> T] /\ g[n] = x /\ \A i \in 1 .. (n - 1) : g[i] = f[i] /\ f[i] \in U
    <3>1. \A i \in 1 .. n : i # n => i \in 1 .. (n - 1)
      BY <2>3
    <3>2. n \in 1 .. n /\ \A i \in 1 .. (n - 1) : i \in 1 .. n /\ i # n
      BY <2>3
    <3>3. \A i \in 1 .. (n - 1) : f[i] \in U
      BY <2>6
    <3> QED BY <3>1, <3>2, <3>3
  <2> HIDE DEF g
  <2>8. ASSUME NEW i \in 1 .. n, NEW j \in 1 .. n, i < j PROVE key[g[i]] > key[g[j]]
    <3>1. i \in 1 .. (n - 1)
      BY <2>3, <2>8
    <3>2. CASE j # n
      <4>1. j \in 1 .. (n - 1)
        BY <2>3, <3>2
      <4> QED BY <2>6, <2>7, <2>8, <3>1, <4>1
    <3>3. CASE j = n
      <4>1. g[i] \in T /\ g[i] # x /\ g[j] = x
        BY <2>7, <3>1, <3>3
      <4>2. key[g[i]] \in Int /\ key[x] \in Int /\ key[x] <= key[g[i]] /\ key[g[i]] # key[x]
        BY <1>4, <2>1, <4>1 DEF Keyed
      <4> QED BY <4>1, <4>2
    <3> QED BY <3>2, <3>3
  <2>9. Falls(T, key, g)
    BY <1>3, <2>7, <2>8 DEF Falls
  <2> QED BY <1>3, <2>9
<1> QED BY <1>5, <1>6

\* Sorting lists the set, the highest first.
LEMMA SortedLists ==
  ASSUME NEW S, NEW key, Keyed(S, key)
  PROVE  /\ Lists(Sorted(S, key), S, S) /\ Cardinality(S) \in Nat
         /\ DOMAIN Sorted(S, key) = 1 .. Cardinality(S) /\ Len(Sorted(S, key)) = Cardinality(S)
<1> DEFINE n == Cardinality(S)
<1>0. n \in Nat /\ IsFiniteSet(S)
  BY FS_CardinalityType DEF Keyed
<1>1. PICK f : Falls(S, key, f)
  BY FallingExists
<1>2. ASSUME NEW i \in 1 .. n, NEW j \in 1 .. n, i # j PROVE f[i] # f[j]
  <2>1. key[f[i]] \in Int /\ key[f[j]] \in Int
    BY <1>1 DEF Falls, Keyed
  <2>2. CASE i < j
    <3>1. key[f[i]] > key[f[j]]
      BY <1>1, <2>2 DEF Falls
    <3> QED BY <2>1, <3>1
  <2>3. CASE j < i
    <3>1. key[f[j]] > key[f[i]]
      BY <1>1, <2>3 DEF Falls
    <3> QED BY <2>1, <3>1
  <2>4. i < j \/ j < i
    BY <1>0, <1>2
  <2> QED BY <2>2, <2>3, <2>4
<1>3. f \in [1 .. n -> S] /\ DOMAIN f = 1 .. n
  BY <1>1 DEF Falls
<1>4. f \in SetToSeqs(S)
  BY <1>2, <1>3 DEF SetToSeqs
<1>5. \A i, j \in DOMAIN f : i < j => key[f[i]] > key[f[j]]
  BY <1>1, <1>3 DEF Falls
<1> DEFINE s == Sorted(S, key)
<1>6. s \in SetToSeqs(S)
  <2>1. s = CHOOSE g \in SetToSeqs(S) : \A i, j \in DOMAIN g : i < j => key[g[i]] > key[g[j]]
    BY DEF Sorted
  <2> HIDE DEF s
  <2> QED BY <1>4, <1>5, <2>1
<1> HIDE DEF s
<1>7. s \in [1 .. n -> S] /\ \A i, j \in 1 .. n : i # j => s[i] # s[j]
  BY <1>6 DEF SetToSeqs
<1>8. Lists(s, S, S) /\ DOMAIN s = 1 .. n /\ Len(s) = n
  BY <1>0, <1>7, EnumerationLists
<1> QED BY <1>0, <1>8 DEF s

\* FlattenSeq lists what the members list.
LEMMA FlattenLists ==
  ASSUME NEW T, NEW n \in Nat, NEW q, q = [i \in 1 .. n |-> q[i]], NEW W,
         \A i \in 1 .. n : Lists(q[i], W[i], T)
  PROVE  Lists(FlattenSeq(q), UNION {W[i] : i \in 1 .. n}, T)
<1>0. \A i \in 1 .. n : q[i] \in Seq(T)
  BY DEF Lists
<1>1. DOMAIN q = 1 .. n /\ Len(q) = n /\ q \in Seq(Seq(T))
  <2>1. Lists(q, {q[i] : i \in 1 .. n}, Seq(T)) /\ DOMAIN q = 1 .. n /\ Len(q) = n
    BY <1>0, ListsValues
  <2> QED BY <2>1 DEF Lists
<1>2. CASE n = 0
  <2>1. FlattenSeq(q) = q /\ q = <<>>
    BY <1>1, <1>2 DEF FlattenSeq
  <2>2. 1 .. n = {}
    BY <1>2
  <2>3. Lists(<<>>, {}, T)
    BY DEF Lists, ToSet
  <2> QED BY <2>1, <2>2, <2>3
<1>3. CASE n # 0
  <2> DEFINE Def(f) == [i \in 1 .. n |-> IF i = 1 THEN q[i] ELSE f[i - 1] \o q[i]]
             Upto(k) == \E f : \A i \in 1 .. k : f[i] = IF i = 1 THEN q[i] ELSE f[i - 1] \o q[i]
             Bad == {k \in Nat : ~Upto(k)}
  <2>1. Bad = {}
    <3>1. SUFFICES ASSUME Bad # {} PROVE FALSE
      OBVIOUS
    <3>2. PICK k \in Bad : \A m \in Nat : m < k => m \notin Bad
      <4>1. Bad \in SUBSET Nat
        OBVIOUS
      <4> HIDE DEF Bad
      <4> QED BY <3>1, <4>1, LeastNumber
    <3>3. k # 0
      <4>1. \A i : i \notin 1 .. 0
        OBVIOUS
      <4>2. Upto(0)
        BY <4>1
      <4> QED BY <4>2
    <3>4. k - 1 \in Nat /\ k - 1 < k
      BY <3>3
    <3>5. Upto(k - 1)
      BY <3>2, <3>4
    <3>6. PICK f : \A i \in 1 .. (k - 1) : f[i] = IF i = 1 THEN q[i] ELSE f[i - 1] \o q[i]
      BY <3>5
    <3> DEFINE g == [i \in 1 .. k |-> IF i = k THEN (IF i = 1 THEN q[i] ELSE f[i - 1] \o q[i]) ELSE f[i]]
    <3>7. \A i \in 1 .. (k - 1) : g[i] = f[i]
      BY <3>4, SMTT(60)
    <3>8. \A i \in 1 .. k : i # 1 => i - 1 \in 1 .. (k - 1)
      BY <3>4
    <3>9. k \in 1 .. k /\ \A i \in 1 .. k : i # k => i \in 1 .. (k - 1)
      BY <3>4
    <3>10. g[k] = IF k = 1 THEN q[k] ELSE f[k - 1] \o q[k]
      BY <3>9
    <3> HIDE DEF g
    <3>11. ASSUME NEW i \in 1 .. k PROVE g[i] = IF i = 1 THEN q[i] ELSE g[i - 1] \o q[i]
      <4>1. i # 1 => g[i - 1] = f[i - 1]
        BY <3>7, <3>8
      <4>2. g[i] = IF i = 1 THEN q[i] ELSE f[i - 1] \o q[i]
        BY <3>6, <3>7, <3>9, <3>10
      <4> QED BY <4>1, <4>2
    <3> QED BY <3>11
  <2>2. Upto(n)
    BY <2>1
  <2>3. PICK f : \A i \in 1 .. n : f[i] = IF i = 1 THEN q[i] ELSE f[i - 1] \o q[i]
    BY <2>2
  <2> DEFINE h == [i \in 1 .. n |-> f[i]]
  <2>4. h = Def(h)
    <3>1. \A i \in 1 .. n : i # 1 => i - 1 \in 1 .. n
      OBVIOUS
    <3>2. \A i \in 1 .. n : h[i] = IF i = 1 THEN q[i] ELSE h[i - 1] \o q[i]
      BY <2>3, <3>1
    <3> QED BY <3>2
  <2> DEFINE s == CHOOSE g : g = Def(g)
  <2>5. s = Def(s)
    <3> HIDE DEF Def, h
    <3> QED BY <2>4
  <2>6. FlattenSeq(q) = s[n]
    BY <1>1, <1>3 DEF FlattenSeq
  <2> HIDE DEF s
  <2>7. \A i \in 1 .. n : s[i] = IF i = 1 THEN q[i] ELSE s[i - 1] \o q[i]
    BY <2>5
  <2> DEFINE Union(k) == UNION {W[i] : i \in 1 .. k}
             Wrong == {k \in Nat : k \in 1 .. n /\ ~Lists(s[k], Union(k), T)}
  <2>8. Wrong = {}
    <3>1. SUFFICES ASSUME Wrong # {} PROVE FALSE
      OBVIOUS
    <3>2. PICK k \in Wrong : \A m \in Nat : m < k => m \notin Wrong
      <4>1. Wrong \in SUBSET Nat
        OBVIOUS
      <4> HIDE DEF Wrong
      <4> QED BY <3>1, <4>1, LeastNumber
    <3>3. k \in 1 .. n /\ ~Lists(s[k], Union(k), T)
      OBVIOUS
    <3>4. CASE k = 1
      <4>1. 1 .. 1 = {1}
        OBVIOUS
      <4>2. Union(k) = W[k] /\ s[k] = q[k]
        BY <4>1, <3>3, <3>4, <2>7
      <4> QED BY <4>2, <3>3
    <3>5. CASE k # 1
      <4>1. k - 1 \in Nat /\ k - 1 < k /\ k - 1 \in 1 .. n
        BY <3>3, <3>5
      <4>2. Lists(s[k - 1], Union(k - 1), T) /\ Lists(q[k], W[k], T)
        BY <4>1, <3>2, <3>3
      <4>3. s[k] = s[k - 1] \o q[k]
        BY <2>7, <3>3, <3>5
      <4>4. Union(k) = Union(k - 1) \cup W[k]
        <5>1. 1 .. k = (1 .. (k - 1)) \cup {k}
          BY <3>3
        <5> QED BY <5>1
      <4> HIDE DEF Union
      <4> QED BY <4>2, <4>3, <4>4, <3>3, ListsConcat
    <3> QED BY <3>4, <3>5
  <2>9. Lists(s[n], Union(n), T)
    <3>1. n \in 1 .. n
      BY <1>3
    <3> QED BY <2>8, <3>1
  <2> QED BY <2>6, <2>9
<1> QED BY <1>2, <1>3

-----------------------------------------------------------------------------
(* The chain database: types.                                               *)

BlockOrNone    == Blocks \cup {none}
Kinds     == {"hdr", "body", "td"}
HeadKinds == {"headBlock", "headHeader", "headFast"}
Stages    == {"td", "write", "lookup", "head"}

WriteSet ==
  [op : {"put", "del"}, at : Kinds, v : Blocks] \cup [op : {"set"}, at : HeadKinds, v : Blocks]
    \cup [op : {"canon"}, at : Heights, v : BlockOrNone] \cup [op : {"lookup"}, at : SUBSET AllTxs, v : BlockOrNone]

Databases ==
  [hdr : SUBSET Blocks, body : SUBSET Blocks, td : SUBSET Blocks, state : SUBSET Blocks,
   canon : [Heights -> BlockOrNone], headBlock : Blocks, headHeader : Blocks, headFast : Blocks,
   lookup : [AllTxs -> BlockOrNone]]

HeadSet == [block : Blocks, header : Blocks, fast : Blocks]

\* The workers' blocks are not the genesis block.
JobSet == {Idle} \cup [block : Blocks \ {GenesisBlock}, stage : Stages]

ChainTypes ==
  /\ chainDb \in Databases /\ mem \in HeadSet /\ next \in HeadSet /\ todo \in Seq(WriteSet)
  /\ job \in [Workers -> JobSet] /\ phase \in {"fast", "pivot", "full"} /\ pivot \in BlockOrNone
  /\ rewinds \in Nat /\ crashes \in Nat
  /\ owner = none => todo = <<>>

\* What a write is, by its kind
LEMMA WritesAre ==
  /\ \A k \in Kinds, b \in Blocks : Store(k, b) \in WriteSet /\ Del(k, b) \in WriteSet
  /\ \A k \in HeadKinds, b \in Blocks : Set(k, b) \in WriteSet
  /\ \A n \in Heights, v \in BlockOrNone : Canon(n, v) \in WriteSet
  /\ \A ts \in SUBSET AllTxs, v \in BlockOrNone : Lookup(ts, v) \in WriteSet
BY DEF WriteSet, Store, Del, Set, Canon, Lookup

\* What a write is not
LEMMA WritesDiffer ==
  ASSUME NEW x, NEW y, NEW k, NEW l
  PROVE  /\ Store(k, x) # Del(l, y) /\ Store(k, x) # Set(l, y) /\ Store(k, x) # Canon(l, y) /\ Store(k, x) # Lookup(l, y)
         /\ Del(k, x) # Set(l, y) /\ Del(k, x) # Canon(l, y) /\ Del(k, x) # Lookup(l, y)
         /\ Set(k, x) # Canon(l, y) /\ Set(k, x) # Lookup(l, y) /\ Canon(k, x) # Lookup(l, y)
         /\ Store(k, x) = Store(l, y) => k = l /\ x = y
         /\ Del(k, x) = Del(l, y) => k = l /\ x = y
         /\ Set(k, x) = Set(l, y) => k = l /\ x = y
         /\ Canon(k, x) = Canon(l, y) => k = l /\ x = y
BY DEF Store, Del, Set, Canon, Lookup

\* A write is of one of five kinds.
LEMMA WriteKinds ==
  ASSUME NEW w \in WriteSet
  PROVE  \/ \E k \in Kinds, b \in Blocks : w = Store(k, b) \/ w = Del(k, b)
         \/ \E k \in HeadKinds, b \in Blocks : w = Set(k, b)
         \/ \E n \in Heights, v \in BlockOrNone : w = Canon(n, v)
         \/ \E ts \in SUBSET AllTxs, v \in BlockOrNone : w = Lookup(ts, v)
<1>1. CASE w \in [op : {"put", "del"}, at : Kinds, v : Blocks]
  <2>1. w = [op |-> w.op, at |-> w.at, v |-> w.v] /\ w.op \in {"put", "del"} /\ w.at \in Kinds /\ w.v \in Blocks
    BY <1>1
  <2> QED BY <2>1 DEF Store, Del
<1>2. CASE w \in [op : {"set"}, at : HeadKinds, v : Blocks]
  <2>1. w = [op |-> "set", at |-> w.at, v |-> w.v] /\ w.at \in HeadKinds /\ w.v \in Blocks
    BY <1>2
  <2> QED BY <2>1 DEF Set
<1>3. CASE w \in [op : {"canon"}, at : Heights, v : BlockOrNone]
  <2>1. w = [op |-> "canon", at |-> w.at, v |-> w.v] /\ w.at \in Heights /\ w.v \in BlockOrNone
    BY <1>3
  <2> QED BY <2>1 DEF Canon
<1>4. CASE w \in [op : {"lookup"}, at : SUBSET AllTxs, v : BlockOrNone]
  <2>1. w = [op |-> "lookup", at |-> w.at, v |-> w.v] /\ w.at \in SUBSET AllTxs /\ w.v \in BlockOrNone
    BY <1>4
  <2> QED BY <2>1 DEF Lookup
<1> QED BY <1>1, <1>2, <1>3, <1>4 DEF WriteSet

\* What a write does
LEMMA ApplyStore ==
  ASSUME NEW d \in Databases, NEW k \in Kinds, NEW b \in Blocks
  PROVE  /\ Apply(d, Store(k, b)) = [d EXCEPT ![k] = @ \cup {b}] /\ Apply(d, Store(k, b)) \in Databases
         /\ Apply(d, Del(k, b)) = [d EXCEPT ![k] = @ \ {b}] /\ Apply(d, Del(k, b)) \in Databases
<1>1. /\ Apply(d, Store(k, b)) = [d EXCEPT ![k] = @ \cup {b}]
      /\ Apply(d, Del(k, b)) = [d EXCEPT ![k] = @ \ {b}]
  BY DEF Apply, Store, Del
<1>2. [d EXCEPT ![k] = @ \cup {b}] \in Databases /\ [d EXCEPT ![k] = @ \ {b}] \in Databases
  BY DEF Databases, Kinds
<1> QED BY <1>1, <1>2

\* A head is written.
LEMMA ApplySet ==
  ASSUME NEW d \in Databases, NEW k \in HeadKinds, NEW b \in Blocks
  PROVE  Apply(d, Set(k, b)) = [d EXCEPT ![k] = b] /\ Apply(d, Set(k, b)) \in Databases
<1>1. Apply(d, Set(k, b)) = [d EXCEPT ![k] = b]
  BY DEF Apply, Set
<1>2. [d EXCEPT ![k] = b] \in Databases
  BY DEF Databases, HeadKinds
<1> QED BY <1>1, <1>2

\* A canonical number is written or deleted.
LEMMA ApplyCanon ==
  ASSUME NEW d \in Databases, NEW n \in Heights, NEW v \in BlockOrNone
  PROVE  Apply(d, Canon(n, v)) = [d EXCEPT !.canon[n] = v] /\ Apply(d, Canon(n, v)) \in Databases
<1>1. Apply(d, Canon(n, v)) = [d EXCEPT !.canon[n] = v]
  BY DEF Apply, Canon
<1>2. [d EXCEPT !.canon[n] = v] \in Databases
  BY DEF Databases
<1> QED BY <1>1, <1>2

\* The transaction index is written.
LEMMA ApplyLookup ==
  ASSUME NEW d \in Databases, NEW ts \in SUBSET AllTxs, NEW v \in BlockOrNone
  PROVE  /\ Apply(d, Lookup(ts, v)) = [d EXCEPT !.lookup = [t \in AllTxs |-> IF t \in ts THEN v ELSE d.lookup[t]]]
         /\ Apply(d, Lookup(ts, v)) \in Databases
<1>1. Apply(d, Lookup(ts, v)) = [d EXCEPT !.lookup = [t \in AllTxs |-> IF t \in ts THEN v ELSE d.lookup[t]]]
  BY DEF Apply, Lookup, Databases
<1>2. [t \in AllTxs |-> IF t \in ts THEN v ELSE d.lookup[t]] \in [AllTxs -> BlockOrNone]
  BY DEF Databases
<1>3. [d EXCEPT !.lookup = [t \in AllTxs |-> IF t \in ts THEN v ELSE d.lookup[t]]] \in Databases
  BY <1>2 DEF Databases
<1> QED BY <1>1, <1>3

\* All a write does to what the properties are about
LEMMA ApplyFacts ==
  ASSUME NEW d \in Databases, NEW w \in WriteSet
  PROVE  /\ Apply(d, w) \in Databases /\ Apply(d, w).state = d.state
         /\ \A n \in Heights : Apply(d, w).canon[n] = IF w = Canon(n, w.v) THEN w.v ELSE d.canon[n]
         /\ \A k \in {"hdr", "body"}, x \in Blocks :
               x \in Apply(d, w)[k] <=> (w = Store(k, x) \/ (x \in d[k] /\ w # Del(k, x)))
         /\ Apply(d, w).headBlock = IF w = Set("headBlock", w.v) THEN w.v ELSE d.headBlock
<1>1. ASSUME NEW k \in Kinds, NEW b \in Blocks, w = Store(k, b) \/ w = Del(k, b)
      PROVE  /\ Apply(d, w) \in Databases /\ Apply(d, w).state = d.state
             /\ Apply(d, w).canon = d.canon /\ Apply(d, w).headBlock = d.headBlock
             /\ \A l \in {"hdr", "body"}, x \in Blocks :
                   x \in Apply(d, w)[l] <=> (w = Store(l, x) \/ (x \in d[l] /\ w # Del(l, x)))
             /\ w # Set("headBlock", w.v) /\ \A n : w # Canon(n, w.v)
  <2>1. CASE w = Store(k, b)
    <3>1. Apply(d, w) = [d EXCEPT ![k] = @ \cup {b}] /\ Apply(d, w) \in Databases
      BY <2>1, ApplyStore
    <3>2. /\ Apply(d, w).state = d.state /\ Apply(d, w).canon = d.canon /\ Apply(d, w).headBlock = d.headBlock
          /\ \A l \in {"hdr", "body"} : Apply(d, w)[l] = IF l = k THEN d[l] \cup {b} ELSE d[l]
      BY <3>1 DEF Databases, Kinds
    <3>3. w # Set("headBlock", w.v) /\ \A n : w # Canon(n, w.v)
      BY <2>1, WritesDiffer
    <3>4. \A l, x : (w = Store(l, x) <=> k = l /\ b = x) /\ w # Del(l, x)
      BY <2>1, WritesDiffer
    <3> QED BY <3>1, <3>2, <3>3, <3>4
  <2>2. CASE w = Del(k, b)
    <3>1. Apply(d, w) = [d EXCEPT ![k] = @ \ {b}] /\ Apply(d, w) \in Databases
      BY <2>2, ApplyStore
    <3>2. /\ Apply(d, w).state = d.state /\ Apply(d, w).canon = d.canon /\ Apply(d, w).headBlock = d.headBlock
          /\ \A l \in {"hdr", "body"} : Apply(d, w)[l] = IF l = k THEN d[l] \ {b} ELSE d[l]
      BY <3>1 DEF Databases, Kinds
    <3>3. w # Set("headBlock", w.v) /\ \A n : w # Canon(n, w.v)
      BY <2>2, WritesDiffer
    <3>4. \A l, x : (w = Del(l, x) <=> k = l /\ b = x) /\ w # Store(l, x)
      BY <2>2, WritesDiffer
    <3> QED BY <3>1, <3>2, <3>3, <3>4
  <2> QED BY <1>1, <2>1, <2>2
<1>2. ASSUME NEW k \in HeadKinds, NEW b \in Blocks, w = Set(k, b)
      PROVE  /\ Apply(d, w) \in Databases /\ Apply(d, w).state = d.state
             /\ Apply(d, w).canon = d.canon /\ Apply(d, w).hdr = d.hdr /\ Apply(d, w).body = d.body
             /\ Apply(d, w).headBlock = IF w = Set("headBlock", w.v) THEN w.v ELSE d.headBlock
             /\ \A n : w # Canon(n, w.v)
             /\ \A l, x : w # Store(l, x) /\ w # Del(l, x)
  <2>1. Apply(d, w) = [d EXCEPT ![k] = b] /\ Apply(d, w) \in Databases
    BY <1>2, ApplySet
  <2>2. /\ Apply(d, w).state = d.state /\ Apply(d, w).canon = d.canon /\ Apply(d, w).hdr = d.hdr /\ Apply(d, w).body = d.body
        /\ Apply(d, w).headBlock = IF k = "headBlock" THEN b ELSE d.headBlock
    BY <2>1 DEF Databases, HeadKinds
  <2>3. w.v = b /\ (w = Set("headBlock", b) <=> k = "headBlock")
    BY <1>2 DEF Set
  <2>4. (\A n : w # Canon(n, w.v)) /\ (\A l, x : w # Store(l, x) /\ w # Del(l, x))
    BY <1>2, WritesDiffer
  <2> QED BY <2>1, <2>2, <2>3, <2>4
<1>3. ASSUME NEW n \in Heights, NEW v \in BlockOrNone, w = Canon(n, v)
      PROVE  /\ Apply(d, w) \in Databases /\ Apply(d, w).state = d.state
             /\ Apply(d, w).hdr = d.hdr /\ Apply(d, w).body = d.body /\ Apply(d, w).headBlock = d.headBlock
             /\ \A m \in Heights : Apply(d, w).canon[m] = IF w = Canon(m, w.v) THEN w.v ELSE d.canon[m]
             /\ w # Set("headBlock", w.v)
             /\ \A l, x : w # Store(l, x) /\ w # Del(l, x)
  <2>1. Apply(d, w) = [d EXCEPT !.canon[n] = v] /\ Apply(d, w) \in Databases
    BY <1>3, ApplyCanon
  <2>2. /\ Apply(d, w).state = d.state /\ Apply(d, w).hdr = d.hdr /\ Apply(d, w).body = d.body
        /\ Apply(d, w).headBlock = d.headBlock
        /\ \A m \in Heights : Apply(d, w).canon[m] = IF m = n THEN v ELSE d.canon[m]
    BY <2>1 DEF Databases
  <2>3. w.v = v /\ \A m : w = Canon(m, v) <=> m = n
    BY <1>3 DEF Canon
  <2>4. w # Set("headBlock", w.v) /\ (\A l, x : w # Store(l, x) /\ w # Del(l, x))
    BY <1>3, WritesDiffer
  <2> QED BY <2>1, <2>2, <2>3, <2>4
<1>4. ASSUME NEW ts \in SUBSET AllTxs, NEW v \in BlockOrNone, w = Lookup(ts, v)
      PROVE  /\ Apply(d, w) \in Databases /\ Apply(d, w).state = d.state
             /\ Apply(d, w).hdr = d.hdr /\ Apply(d, w).body = d.body /\ Apply(d, w).headBlock = d.headBlock
             /\ Apply(d, w).canon = d.canon
             /\ w # Set("headBlock", w.v) /\ \A n : w # Canon(n, w.v)
             /\ \A l, x : w # Store(l, x) /\ w # Del(l, x)
  <2> DEFINE f == [t \in AllTxs |-> IF t \in ts THEN v ELSE d.lookup[t]]
  <2>1. Apply(d, w) = [d EXCEPT !.lookup = f] /\ Apply(d, w) \in Databases
    BY <1>4, ApplyLookup
  <2> HIDE DEF f
  <2>2. /\ Apply(d, w).state = d.state /\ Apply(d, w).hdr = d.hdr /\ Apply(d, w).body = d.body
        /\ Apply(d, w).headBlock = d.headBlock /\ Apply(d, w).canon = d.canon
    BY <2>1 DEF Databases
  <2>3. w # Set("headBlock", w.v) /\ (\A n : w # Canon(n, w.v)) /\ (\A l, x : w # Store(l, x) /\ w # Del(l, x))
    BY <1>4, WritesDiffer
  <2> QED BY <2>1, <2>2, <2>3
<1>5. CASE \E k \in Kinds, b \in Blocks : w = Store(k, b) \/ w = Del(k, b)
  BY ONLY <1>5, <1>1, Zenon
<1>6. CASE \E k \in HeadKinds, b \in Blocks : w = Set(k, b)
  BY ONLY <1>6, <1>2
<1>7. CASE \E n \in Heights, v \in BlockOrNone : w = Canon(n, v)
  BY ONLY <1>7, <1>3
<1>8. CASE \E ts \in SUBSET AllTxs, v \in BlockOrNone : w = Lookup(ts, v)
  BY ONLY <1>8, <1>4
<1> QED BY <1>5, <1>6, <1>7, <1>8, WriteKinds

-----------------------------------------------------------------------------
(* The writes of the operations, as sets.                                   *)

\* The types of the database and the heads, field by field
LEMMA ChainFields ==
  ASSUME ChainTypes
  PROVE  /\ chainDb.hdr \subseteq Blocks /\ chainDb.body \subseteq Blocks /\ chainDb.state \subseteq Blocks
         /\ chainDb.canon \in [Heights -> BlockOrNone] /\ chainDb.headBlock \in Blocks /\ chainDb.headHeader \in Blocks
         /\ chainDb.headFast \in Blocks
         /\ mem.block \in Blocks /\ mem.header \in Blocks /\ mem.fast \in Blocks
         /\ next.block \in Blocks /\ next.header \in Blocks /\ next.fast \in Blocks
BY DEF ChainTypes, Databases, HeadSet

InsertSet(b, u) ==
  {Canon(Number[b], b), Set("headBlock", b)} \cup (IF u THEN {Set("headHeader", b), Set("headFast", b)} ELSE {})

\* The writes of insert
LEMMA InsertLists ==
  ASSUME ChainConstants, NEW b \in Blocks, NEW u \in BOOLEAN
  PROVE  Lists(insert(b, u), InsertSet(b, u), WriteSet)
<1>1. /\ Canon(Number[b], b) \in WriteSet /\ Set("headBlock", b) \in WriteSet
      /\ Set("headHeader", b) \in WriteSet /\ Set("headFast", b) \in WriteSet
  BY WritesAre, HeightsAreGapless DEF HeadKinds, BlockOrNone
<1>2. Lists(<<Canon(Number[b], b), Set("headBlock", b)>>, {Canon(Number[b], b), Set("headBlock", b)}, WriteSet)
  BY <1>1, ListsFew
<1>3. Lists(IF u THEN <<Set("headHeader", b), Set("headFast", b)>> ELSE <<>>,
            IF u THEN {Set("headHeader", b), Set("headFast", b)} ELSE {}, WriteSet)
  <2>1. CASE u
    <3>1. Lists(<<Set("headHeader", b), Set("headFast", b)>>, {Set("headHeader", b), Set("headFast", b)}, WriteSet)
      BY <1>1, ListsFew
    <3> QED BY <2>1, <3>1
  <2>2. CASE ~u
    <3>1. Lists(<<>>, {}, WriteSet)
      BY <1>1, ListsFew
    <3> QED BY <2>2, <3>1
  <2> QED BY <2>1, <2>2
<1> QED BY <1>2, <1>3, ListsConcat DEF insert, InsertSet

\* What insert has in common with no other write
LEMMA InsertHas ==
  ASSUME NEW b, NEW u \in BOOLEAN
  PROVE  /\ Canon(Number[b], b) \in InsertSet(b, u)
         /\ \A n, v : Canon(n, v) \in InsertSet(b, u) => n = Number[b] /\ v = b
         /\ \A k, x : Store(k, x) \notin InsertSet(b, u) /\ Del(k, x) \notin InsertSet(b, u)
         /\ \A x : Set("headBlock", x) \in InsertSet(b, u) => x = b
BY DEF InsertSet, Canon, Set, Store, Del

\* The database keys of a line of blocks are their numbers.
LEMMA LineIsKeyed ==
  ASSUME ChainConstants, NEW b \in Blocks, NEW S \in SUBSET Ancestry[b]
  PROVE  Keyed(S, Number) /\ S \subseteq Blocks
<1>1. S \subseteq Blocks /\ IsFiniteSet(Blocks)
  BY AncestryFacts DEF ChainConstants
<1>2. IsFiniteSet(S)
  BY <1>1, FS_Subset
<1>3. \A x \in S : Number[x] \in Int
  BY <1>1 DEF ChainConstants
<1>4. \A x, y \in S : Number[x] = Number[y] => x = y
  BY NumbersDiffer
<1> QED BY <1>1, <1>2, <1>3, <1>4 DEF Keyed

\* Finitely many transactions leave the chain.
LEMMA DroppedIsFinite ==
  ASSUME ChainConstants, NEW old \in SUBSET Blocks, NEW new \in SUBSET Blocks
  PROVE  IsFiniteSet(dropped(old, new)) /\ dropped(old, new) \subseteq AllTxs
<1> DEFINE C == {Txs[x] : x \in old}
           f == [x \in old |-> Txs[x]]
<1>1. IsFiniteSet(old)
  BY FS_Subset DEF ChainConstants
<1>2. f \in Surjection(old, C)
  BY DEF Surjection
<1>3. IsFiniteSet(C)
  BY <1>1, <1>2, FS_Surjection
<1>4. \A T \in C : IsFiniteSet(T)
  BY DEF ChainConstants
<1>5. IsFiniteSet(UNION C)
  <2> HIDE DEF C
  <2> QED BY <1>3, <1>4, FS_UNION
<1>6. dropped(old, new) \in SUBSET (UNION C)
  BY DEF dropped
<1>7. IsFiniteSet(dropped(old, new))
  <2> HIDE DEF C
  <2> QED BY <1>5, <1>6, FS_Subset
<1>8. dropped(old, new) \subseteq AllTxs
  BY DEF dropped, AllTxs
<1> QED BY <1>7, <1>8

\* What reorg writes, and the heads it leaves
ReorgOK(b, new, t, h) ==
  /\ t \in Seq(WriteSet) /\ h \in HeadSet
  /\ \A x \in new \cup {b} : Canon(Number[x], x) \in ToSet(t)
  /\ \A n, v : Canon(n, v) \in ToSet(t) => v \in new \cup {b} /\ n = Number[v]
  /\ \A k, x : Store(k, x) \notin ToSet(t) /\ Del(k, x) \notin ToSet(t)
  /\ \A x : Set("headBlock", x) \in ToSet(t) => x \in new \cup {b}
  /\ h.block = b
  /\ \/ h.header = mem.header /\ \A x \in new : ~Uncanonical(x)
     \/ h.header \in new /\ Uncanonical(h.header)

\* reorg writes that: one insert for each new block, newest first, and the index.
LEMMA ReorgFacts ==
  ASSUME ChainConstants, ChainTypes, NEW b \in Blocks, NEW new, new = Ancestry[b] \ Ancestry[mem.block],
         NEW t, t = reorg(b).writes, NEW h, h = reorg(b).heads
  PROVE  ReorgOK(b, new, t, h)
<1> DEFINE old   == Ancestry[mem.block] \ Ancestry[b]
           chain == Descending(new)
           ins(i) == insert(chain[i], Uncanonical(chain[i])) \o <<Lookup(Txs[chain[i]], chain[i])>>
           moved == {x \in ToSet(chain) : Uncanonical(x)}
           gone  == SetToSeq(dropped(old, new))
           q     == [i \in DOMAIN chain |-> ins(i)]
           g     == [i \in DOMAIN gone |-> Lookup({gone[i]}, none)]
           last  == insert(b, b \notin new /\ Uncanonical(b))
<1>1. /\ t = FlattenSeq(q) \o g \o last
      /\ h = IF moved = {} THEN [mem EXCEPT !.block = b] ELSE [Heads(lowest(moved)) EXCEPT !.block = b]
  BY DEF reorg, reorgChain
<1>2. /\ Keyed(new, Number) /\ new \subseteq Blocks /\ mem.block \in Blocks /\ old \subseteq Blocks
  <2>1. mem.block \in Blocks /\ new \in SUBSET Ancestry[b]
    BY ChainFields
  <2> QED BY <2>1, LineIsKeyed, AncestryFacts
<1> DEFINE n == Cardinality(new)
<1>3. Lists(chain, new, new) /\ n \in Nat /\ DOMAIN chain = 1 .. n
  BY <1>2, SortedLists DEF Descending
<1>4. ToSet(chain) = new /\ (\A i \in 1 .. n : chain[i] \in new) /\ new = {chain[i] : i \in 1 .. n}
  BY <1>3 DEF Lists, ToSet
<1> DEFINE I(x) == InsertSet(x, Uncanonical(x)) \cup {Lookup(Txs[x], x)}
           W == [i \in 1 .. n |-> I(chain[i])]
<1> HIDE DEF chain, n
<1>5. ASSUME NEW x \in Blocks
      PROVE  Lists(insert(x, Uncanonical(x)) \o <<Lookup(Txs[x], x)>>, I(x), WriteSet)
  <2>1. Lists(insert(x, Uncanonical(x)), InsertSet(x, Uncanonical(x)), WriteSet)
    <3>1. Uncanonical(x) \in BOOLEAN
      BY DEF Uncanonical
    <3> QED BY <3>1, InsertLists
  <2>2. Lookup(Txs[x], x) \in WriteSet
    BY WritesAre DEF BlockOrNone, AllTxs
  <2>3. Lists(<<Lookup(Txs[x], x)>>, {Lookup(Txs[x], x)}, WriteSet)
    BY <2>2, ListsFew
  <2> QED BY <2>1, <2>3, ListsConcat
<1>6. q = [i \in 1 .. n |-> q[i]] /\ \A i \in 1 .. n : q[i] = ins(i) /\ W[i] = I(chain[i])
  BY <1>3
<1>7. \A i \in 1 .. n : Lists(q[i], W[i], WriteSet)
  <2> HIDE DEF I, W, q
  <2>1. ASSUME NEW i \in 1 .. n PROVE Lists(q[i], W[i], WriteSet)
    <3>1. chain[i] \in Blocks
      BY <1>2, <1>4
    <3>2. Lists(ins(i), I(chain[i]), WriteSet)
      BY <1>5, <3>1
    <3> QED BY <3>2, <1>6
  <2> QED BY <2>1
<1>8. Lists(FlattenSeq(q), UNION {W[i] : i \in 1 .. n}, WriteSet)
  <2> HIDE DEF q, W
  <2>1. n \in Nat /\ q = [i \in 1 .. n |-> q[i]] /\ \A i \in 1 .. n : Lists(q[i], W[i], WriteSet)
    BY <1>3, <1>6, <1>7
  <2> QED BY ONLY <2>1, FlattenLists
<1>9. UNION {W[i] : i \in 1 .. n} = UNION {I(x) : x \in new}
  <2> HIDE DEF I
  <2> QED BY <1>4
<1>10. Lists(g, {Lookup({x}, none) : x \in dropped(old, new)}, WriteSet)
  <2> DEFINE D == dropped(old, new)
  <2>1. Lists(gone, D, D) /\ D \subseteq AllTxs
    BY <1>2, DroppedIsFinite, SetToSeqLists
  <2> HIDE DEF D, gone
  <2>2. gone \in Seq(D) /\ D = {gone[i] : i \in DOMAIN gone}
    BY <2>1 DEF Lists, ToSet
  <2>3. Len(gone) \in Nat /\ DOMAIN gone = 1 .. Len(gone)
    BY <2>2, LenProperties
  <2>4. g = [i \in 1 .. Len(gone) |-> g[i]] /\ \A i \in 1 .. Len(gone) : g[i] = Lookup({gone[i]}, none)
    BY <2>3
  <2>5. ASSUME NEW i \in 1 .. Len(gone) PROVE g[i] \in WriteSet
    <3>1. {gone[i]} \in SUBSET AllTxs
      BY <2>1, <2>2, <2>3
    <3> QED BY <3>1, <2>4, WritesAre DEF BlockOrNone
  <2> HIDE DEF g
  <2>6. Lists(g, {g[i] : i \in 1 .. Len(gone)}, WriteSet)
    BY <2>3, <2>4, <2>5, ListsValues
  <2>7. {g[i] : i \in 1 .. Len(gone)} = {Lookup({x}, none) : x \in D}
    BY <2>2, <2>3, <2>4
  <2> QED BY <2>6, <2>7 DEF D
<1> DEFINE u == b \notin new /\ Uncanonical(b)
           X == UNION {I(x) : x \in new}
           Y == {Lookup({x}, none) : x \in dropped(old, new)}
           Z == InsertSet(b, u)
<1>11. Lists(last, Z, WriteSet)
  <2>1. u \in BOOLEAN
    OBVIOUS
  <2> HIDE DEF u, Z
  <2> QED BY <2>1, InsertLists DEF u, Z
<1>12. Lists(t, (X \cup Y) \cup Z, WriteSet)
  <2> HIDE DEF q, g, last, X, Y, Z
  <2>1. Lists(FlattenSeq(q), X, WriteSet)
    BY <1>8, <1>9 DEF X
  <2>2. Lists(g, Y, WriteSet)
    BY <1>10 DEF Y
  <2>3. Lists(FlattenSeq(q) \o g, X \cup Y, WriteSet)
    BY <2>1, <2>2, ListsConcat
  <2>4. Lists(FlattenSeq(q) \o g \o last, (X \cup Y) \cup Z, WriteSet)
    BY <2>3, <1>11, ListsConcat
  <2> QED BY <2>4, <1>1
<1>13. t \in Seq(WriteSet) /\ ToSet(t) = (X \cup Y) \cup Z
  BY <1>12 DEF Lists
<1>14. \A x : Uncanonical(x) \in BOOLEAN
  BY DEF Uncanonical
<1>15. u \in BOOLEAN
  OBVIOUS
<1> HIDE DEF u
<1>16. ASSUME NEW x \in new \cup {b} PROVE Canon(Number[x], x) \in ToSet(t)
  <2>1. CASE x \in new
    BY <2>1, <1>13, <1>14, InsertHas
  <2>2. CASE x = b
    BY <2>2, <1>13, <1>15, InsertHas
  <2> QED BY <2>1, <2>2
<1>17. ASSUME NEW w \in ToSet(t)
       PROVE  \/ \E x \in new \cup {b}, v \in BOOLEAN : w \in InsertSet(x, v)
              \/ \E ts, v : w = Lookup(ts, v)
  <2>1. CASE w \in X
    BY <2>1, <1>14
  <2>2. CASE w \in Y
    BY <2>2
  <2>3. CASE w \in Z
    BY <2>3, <1>15
  <2> QED BY <1>13, <2>1, <2>2, <2>3
<1>18. ASSUME NEW m, NEW v, Canon(m, v) \in ToSet(t) PROVE v \in new \cup {b} /\ m = Number[v]
  <2>1. Canon(m, v) \in ToSet(t)
    BY <1>18
  <2>2. PICK x \in new \cup {b}, r \in BOOLEAN : Canon(m, v) \in InsertSet(x, r)
    <3>1. \A ts, r : Canon(m, v) # Lookup(ts, r)
      BY WritesDiffer
    <3> QED BY ONLY <1>17, <2>1, <3>1, Zenon
  <2> QED BY <2>2, InsertHas
<1>19. ASSUME NEW k, NEW y PROVE Store(k, y) \notin ToSet(t) /\ Del(k, y) \notin ToSet(t)
  <2>1. \A ts, r : Store(k, y) # Lookup(ts, r) /\ Del(k, y) # Lookup(ts, r)
    BY WritesDiffer
  <2>2. \A x : \A r \in BOOLEAN : Store(k, y) \notin InsertSet(x, r) /\ Del(k, y) \notin InsertSet(x, r)
    BY InsertHas
  <2> QED BY ONLY <1>17, <2>1, <2>2, Zenon
<1>20. ASSUME NEW y, Set("headBlock", y) \in ToSet(t) PROVE y \in new \cup {b}
  <2>1. Set("headBlock", y) \in ToSet(t)
    BY <1>20
  <2>2. PICK x \in new \cup {b}, r \in BOOLEAN : Set("headBlock", y) \in InsertSet(x, r)
    <3>1. \A ts, r : Set("headBlock", y) # Lookup(ts, r)
      BY WritesDiffer
    <3> QED BY ONLY <1>17, <2>1, <3>1, Zenon
  <2> QED BY <2>2, InsertHas
<1>21. /\ h \in HeadSet /\ h.block = b
       /\ \/ h.header = mem.header /\ \A x \in new : ~Uncanonical(x)
          \/ h.header \in new /\ Uncanonical(h.header)
  <2>1. CASE moved = {}
    <3>1. h = [mem EXCEPT !.block = b] /\ mem \in HeadSet
      BY <2>1, <1>1 DEF ChainTypes
    <3>2. \A x \in new : ~Uncanonical(x)
      BY <2>1, <1>4
    <3> QED BY <3>1, <3>2 DEF HeadSet
  <2>2. CASE moved # {}
    <3> DEFINE l == lowest(moved)
    <3>1. Keyed(moved, Number)
      <4>1. moved \in SUBSET new
        BY <1>4
      <4> QED BY <4>1, <1>2, KeyedSubset
    <3>2. \E x \in moved : \A y \in moved : Number[x] <= Number[y]
      <4> HIDE DEF moved
      <4> QED BY <2>2, <3>1, LeastKey
    <3>3. l \in moved
      <4> HIDE DEF moved
      <4> QED BY <3>2 DEF lowest
    <3>4. l \in new /\ l \in Blocks /\ Uncanonical(l)
      BY <3>3, <1>2, <1>4
    <3>5. h = [Heads(l) EXCEPT !.block = b]
      BY <2>2, <1>1
    <3> HIDE DEF l
    <3>6. h \in HeadSet /\ h.block = b /\ h.header = l
      BY <3>4, <3>5 DEF HeadSet, Heads
    <3> QED BY <3>4, <3>6
  <2> QED BY <2>1, <2>2
<1> QED BY ONLY <1>13, <1>16, <1>18, <1>19, <1>20, <1>21, Zenon DEF ReorgOK

\* What SetHead deletes, and the heads it leaves
RewoundOK(n, block, header, t, h) ==
  /\ t \in Seq(WriteSet) /\ h \in HeadSet
  /\ \A m, v : Canon(m, v) \in ToSet(t) => v = none /\ m \in Nat /\ m > n
  /\ \A k, x : Store(k, x) \notin ToSet(t)
  /\ \A k, x : Del(k, x) \in ToSet(t) => x \in Blocks /\ Number[x] > n
  /\ h.header \in Ancestry[header] /\ Number[h.header] <= n
  /\ \/ h.block = block /\ block \in chainDb.state /\ Number[block] <= n
     \/ h.block = h.header /\ h.block \in chainDb.state
     \/ h.block = GenesisBlock

\* SetHead does so from any heads, also from those a restart finds.
LEMMA RewoundFacts ==
  ASSUME ChainConstants, ChainTypes, NEW n \in Heights, NEW block \in BlockOrNone, NEW header \in Blocks, NEW fast \in BlockOrNone,
         NEW t, t = Rewound(n, block, header, fast).writes, NEW h, h = Rewound(n, block, header, fast).heads
  PROVE  RewoundOK(n, block, header, t, h)
<1> DEFINE line  == Ancestry[header]
           reach == {x \in line : \A y \in line : Number[y] >= Number[x] => (y = header \/ y \in chainDb.hdr)}
           dead  == {x \in reach : Number[x] > n}
           gone  == Descending(dead)
           head  == IF Number[header] <= n THEN header
                    ELSE IF \E x \in reach : Number[x] = n THEN CHOOSE x \in reach : Number[x] = n ELSE GenesisBlock
           newBlock == IF down(block, head) \in chainDb.state THEN down(block, head) ELSE GenesisBlock
           newFast  == IF down(fast, head) = none THEN GenesisBlock ELSE down(fast, head)
           dels(i) == <<Del("body", gone[i]), Del("hdr", gone[i]), Del("td", gone[i])>>
           q == [i \in DOMAIN gone |-> dels(i)]
           u == uncanon(Number[header], n)
           l == <<Set("headHeader", head), Set("headBlock", newBlock), Set("headFast", newFast)>>
<1>1. t = FlattenSeq(q) \o u \o l /\ h = [block |-> newBlock, header |-> head, fast |-> newFast]
  BY DEF Rewound
<1>2. n \in Nat /\ Number[header] \in Nat /\ Number[header] \in Heights
  BY HeightsAreGapless DEF ChainConstants
<1>3. GenesisBlock \in Blocks /\ Number[GenesisBlock] = 0 /\ GenesisBlock \in line /\ none \notin Blocks
  BY GenesisIsAncestor DEF ChainConstants
<1>4. head \in line /\ head \in Blocks /\ Number[head] <= n
  <2>1. CASE Number[header] <= n
    BY <2>1, AncestryFacts
  <2>2. CASE ~(Number[header] <= n) /\ \E x \in reach : Number[x] = n
    <3>1. head = CHOOSE x \in reach : Number[x] = n
      BY <2>2
    <3>2. head \in reach /\ Number[head] = n
      <4> HIDE DEF reach
      <4> QED BY <3>1, <2>2
    <3> QED BY <1>2, <3>2, AncestryFacts
  <2>3. CASE ~(Number[header] <= n) /\ ~\E x \in reach : Number[x] = n
    <3>1. head = GenesisBlock
      BY <2>3
    <3> HIDE DEF head, line
    <3>2. 0 <= n
      BY <1>2
    <3> QED BY ONLY <3>1, <3>2, <1>3
  <2> QED BY <2>1, <2>2, <2>3
<1> HIDE DEF head
<1>5. Number[head] \in Nat /\ chainDb.state \subseteq Blocks
  BY <1>4, ChainFields DEF ChainConstants
<1>6. \A x \in BlockOrNone : down(x, head) \in BlockOrNone
  BY <1>4 DEF down, BlockOrNone
<1>7. newBlock \in Blocks /\ newFast \in Blocks
  BY <1>3, <1>5, <1>6 DEF BlockOrNone
<1>8. \/ newBlock = block /\ block \in chainDb.state /\ Number[block] <= n
      \/ newBlock = head /\ newBlock \in chainDb.state
      \/ newBlock = GenesisBlock
  <2>1. CASE down(block, head) \in chainDb.state
    <3>1. newBlock = down(block, head) /\ newBlock \in chainDb.state /\ newBlock # none
      BY <2>1, <1>3, <1>5
    <3>2. CASE block # none /\ Number[head] < Number[block]
      BY <3>1, <3>2 DEF down
    <3>3. CASE ~(block # none /\ Number[head] < Number[block])
      <4>1. newBlock = block /\ block \in Blocks
        BY <3>1, <3>3, <1>5 DEF down
      <4>2. Number[block] \in Nat /\ ~(Number[head] < Number[block])
        BY <4>1, <3>1, <3>3 DEF ChainConstants
      <4> QED BY <4>1, <4>2, <3>1, <1>2, <1>4, <1>5
    <3> QED BY <3>2, <3>3
  <2> QED BY <2>1
<1> HIDE DEF newBlock, newFast
<1> DEFINE c == Cardinality(dead)
<1>9. Keyed(dead, Number) /\ dead \subseteq Blocks
  <2>1. dead \in SUBSET Ancestry[header]
    OBVIOUS
  <2> QED BY <2>1, LineIsKeyed
<1>10. Lists(gone, dead, dead) /\ c \in Nat /\ DOMAIN gone = 1 .. c
  BY <1>9, SortedLists DEF Descending
<1>11. (\A i \in 1 .. c : gone[i] \in dead) /\ dead = {gone[i] : i \in 1 .. c}
  BY <1>10 DEF Lists, ToSet
<1> HIDE DEF gone, c
<1> DEFINE D(x) == {Del("body", x), Del("hdr", x), Del("td", x)}
           W == [i \in 1 .. c |-> D(gone[i])]
<1>12. ASSUME NEW x \in Blocks PROVE Lists(<<Del("body", x), Del("hdr", x), Del("td", x)>>, D(x), WriteSet)
  <2>1. Del("body", x) \in WriteSet /\ Del("hdr", x) \in WriteSet /\ Del("td", x) \in WriteSet
    BY WritesAre DEF Kinds
  <2> QED BY <2>1, ListsFew
<1>13. Lists(FlattenSeq(q), UNION {W[i] : i \in 1 .. c}, WriteSet)
  <2>1. q = [i \in 1 .. c |-> q[i]] /\ \A i \in 1 .. c : q[i] = dels(i) /\ W[i] = D(gone[i])
    BY <1>10
  <2> HIDE DEF q, W, D, dead
  <2>2. ASSUME NEW i \in 1 .. c PROVE Lists(q[i], W[i], WriteSet)
    <3>1. gone[i] \in Blocks
      BY <1>9, <1>11
    <3>2. Lists(dels(i), D(gone[i]), WriteSet)
      BY <1>12, <3>1
    <3> QED BY <3>2, <2>1
  <2>3. c \in Nat /\ q = [i \in 1 .. c |-> q[i]] /\ \A i \in 1 .. c : Lists(q[i], W[i], WriteSet)
    BY <2>1, <2>2, <1>10
  <2> QED BY ONLY <2>3, FlattenLists
<1>14. UNION {W[i] : i \in 1 .. c} = UNION {D(x) : x \in dead}
  <2> HIDE DEF D, dead
  <2> QED BY <1>11
<1> DEFINE e == IF Number[header] > n THEN Number[header] - n ELSE 0
<1>15. e \in Nat /\ \A i \in 1 .. e : Number[header] + 1 - i \in Nat /\ Number[header] + 1 - i > n
                                      /\ Number[header] + 1 - i <= Number[header]
  BY <1>2
<1>16. Lists(u, {u[i] : i \in 1 .. e}, WriteSet) /\ \A i \in 1 .. e : u[i] = Canon(Number[header] + 1 - i, none)
  <2>1. u = [i \in 1 .. e |-> Canon(Number[header] + 1 - i, none)]
    BY DEF uncanon
  <2> HIDE DEF u, e
  <2>2. u = [i \in 1 .. e |-> u[i]] /\ \A i \in 1 .. e : u[i] = Canon(Number[header] + 1 - i, none)
    BY <2>1
  <2>3. ASSUME NEW i \in 1 .. e PROVE u[i] \in WriteSet
    <3>1. Number[header] + 1 - i \in Heights /\ none \in BlockOrNone
      BY <1>2, <1>15, HeightsAreGapless DEF BlockOrNone
    <3>2. Canon(Number[header] + 1 - i, none) \in WriteSet
      BY <3>1, WritesAre
    <3> QED BY <2>2, <3>2
  <2>4. e \in Nat
    BY <1>15
  <2> QED BY <2>2, <2>3, <2>4, ListsValues
<1> HIDE DEF e, u
<1> DEFINE X == UNION {D(x) : x \in dead}
           Y == {u[i] : i \in 1 .. e}
           Z == {Set("headHeader", head), Set("headBlock", newBlock), Set("headFast", newFast)}
<1>17. Lists(l, Z, WriteSet)
  <2>1. Set("headHeader", head) \in WriteSet /\ Set("headBlock", newBlock) \in WriteSet /\ Set("headFast", newFast) \in WriteSet
    BY <1>4, <1>7, WritesAre DEF HeadKinds
  <2> QED BY <2>1, ListsFew
<1>18. t \in Seq(WriteSet) /\ ToSet(t) = (X \cup Y) \cup Z
  <2> HIDE DEF q, l, X, Y, Z
  <2>1. Lists(FlattenSeq(q), X, WriteSet) /\ Lists(u, Y, WriteSet)
    BY <1>13, <1>14, <1>16 DEF X, Y
  <2>2. Lists(FlattenSeq(q) \o u, X \cup Y, WriteSet)
    BY <2>1, ListsConcat
  <2>3. Lists(FlattenSeq(q) \o u \o l, (X \cup Y) \cup Z, WriteSet)
    BY <2>2, <1>17, ListsConcat
  <2> QED BY <2>3, <1>1 DEF Lists
<1>19. ASSUME NEW w \in ToSet(t)
       PROVE  \/ \E x \in dead, k \in Kinds : w = Del(k, x)
              \/ \E m \in Nat : m > n /\ w = Canon(m, none)
              \/ \E k, x : w = Set(k, x)
  <2>1. CASE w \in X
    BY <2>1 DEF Kinds
  <2>2. CASE w \in Y
    <3>1. PICK i \in 1 .. e : w = u[i]
      BY <2>2
    <3>2. w = Canon(Number[header] + 1 - i, none)
      BY <3>1, <1>16
    <3>3. Number[header] + 1 - i \in Nat /\ Number[header] + 1 - i > n
      BY <1>15
    <3> QED BY ONLY <3>2, <3>3, Zenon
  <2>3. CASE w \in Z
    BY <2>3
  <2> QED BY <1>18, <2>1, <2>2, <2>3
<1>20. ASSUME NEW m, NEW v, Canon(m, v) \in ToSet(t) PROVE v = none /\ m \in Nat /\ m > n
  <2>1. \A k, x : Canon(m, v) # Del(k, x) /\ Canon(m, v) # Set(k, x)
    BY WritesDiffer
  <2>2. PICK p \in Nat : p > n /\ Canon(m, v) = Canon(p, none)
    BY ONLY <1>19, <1>20, <2>1, Zenon
  <2>3. m = p /\ v = none
    BY ONLY <2>2, WritesDiffer
  <2> QED BY <2>2, <2>3
<1>21. ASSUME NEW k, NEW x PROVE Store(k, x) \notin ToSet(t)
  <2>1. \A j, y : Store(k, x) # Del(j, y) /\ Store(k, x) # Set(j, y) /\ Store(k, x) # Canon(j, y)
    BY WritesDiffer
  <2> QED BY ONLY <1>19, <2>1, Zenon
<1>22. ASSUME NEW k, NEW x, Del(k, x) \in ToSet(t) PROVE x \in Blocks /\ Number[x] > n
  <2>1. \A j, y : Del(k, x) # Set(j, y) /\ Del(k, x) # Canon(j, y)
    BY WritesDiffer
  <2>2. PICK y \in dead, j \in Kinds : Del(k, x) = Del(j, y)
    BY ONLY <1>19, <1>22, <2>1, Zenon
  <2>3. x = y
    BY ONLY <2>2, WritesDiffer
  <2> QED BY <2>2, <2>3, <1>9
<1>23. h \in HeadSet /\ h.block = newBlock /\ h.header = head
  BY <1>1, <1>4, <1>7 DEF HeadSet
<1>24. h.header \in Ancestry[header] /\ Number[h.header] <= n
  BY <1>4, <1>23
<1>25. \/ h.block = block /\ block \in chainDb.state /\ Number[block] <= n
       \/ h.block = h.header /\ h.block \in chainDb.state
       \/ h.block = GenesisBlock
  BY ONLY <1>8, <1>23, Zenon
<1> QED BY ONLY <1>18, <1>20, <1>21, <1>22, <1>23, <1>24, <1>25, Zenon DEF RewoundOK

\* The numbers above a header are found in ascending order.
LEMMA AboveIsKeyed ==
  ASSUME ChainConstants, NEW n
  PROVE  Keyed(above(n), [i \in Heights |-> -i]) /\ above(n) \subseteq Heights
<1> DEFINE f == [x \in Blocks |-> Number[x]]
<1>1. above(n) \in SUBSET Heights
  BY DEF above
<1>2. f \in Surjection(Blocks, Heights)
  BY DEF Surjection, Heights
<1>3. IsFiniteSet(Blocks)
  BY DEF ChainConstants
<1>4. IsFiniteSet(Heights)
  BY <1>2, <1>3, FS_Surjection
<1>5. IsFiniteSet(above(n))
  BY <1>1, <1>4, FS_Subset
<1>6. Heights \subseteq Nat
  BY HeightsAreGapless
<1>7. \A x \in above(n) : [i \in Heights |-> -i][x] = -x /\ x \in Nat
  BY <1>1, <1>6
<1> QED BY <1>1, <1>5, <1>7 DEF Keyed

\* Nothing is deleted, and no body stored.
Bodiless(t) == \A k, x : Del(k, x) \notin ToSet(t) /\ Store("body", x) \notin ToSet(t)

\* What WriteHeader writes for a canonical header
HeaderOK(b, t) ==
  /\ t \in Seq(WriteSet) /\ Bodiless(t) /\ stale(b) \subseteq Ancestry[b]
  /\ \A n, v : Canon(n, v) \in ToSet(t) <=>
         \/ n \in above(Number[b]) /\ v = none
         \/ v \in stale(b) \cup {b} /\ n = Number[v]

\* WriteHeader writes that: the stale numbers above and below, then the header.
LEMMA HeaderFacts ==
  ASSUME ChainConstants, ChainTypes, NEW b \in Blocks \ {GenesisBlock}, NEW t,
         t = <<Store("td", b), Store("hdr", b)>>
               \o [i \in DOMAIN Sorted(above(Number[b]), [j \in Heights |-> -j])
                     |-> Canon(Sorted(above(Number[b]), [j \in Heights |-> -j])[i], none)]
               \o [i \in DOMAIN Descending(stale(b)) |-> Canon(Number[Descending(stale(b))[i]], Descending(stale(b))[i])]
               \o <<Canon(Number[b], b), Set("headHeader", b)>>
  PROVE  HeaderOK(b, t)
<1> DEFINE A == above(Number[b])
           L == stale(b)
           high == Sorted(A, [j \in Heights |-> -j])
           low  == Descending(L)
           f == [i \in DOMAIN high |-> Canon(high[i], none)]
           g == [i \in DOMAIN low |-> Canon(Number[low[i]], low[i])]
           base == <<Store("td", b), Store("hdr", b)>>
           last == <<Canon(Number[b], b), Set("headHeader", b)>>
<1>1. t = base \o f \o g \o last
  OBVIOUS
<1>2. Parent[b] \in Blocks /\ Ancestry[b] = {b} \cup Ancestry[Parent[b]]
  BY AncestryFacts
<1>3. L \in SUBSET Ancestry[Parent[b]] /\ L \subseteq Ancestry[b]
  BY <1>2 DEF stale
<1>4. Keyed(L, Number) /\ L \subseteq Blocks
  BY <1>2, <1>3, LineIsKeyed
<1>5. Keyed(A, [j \in Heights |-> -j]) /\ A \subseteq Heights
  BY AboveIsKeyed
<1> DEFINE c == Cardinality(A)
           d == Cardinality(L)
<1>6. Lists(high, A, A) /\ c \in Nat /\ DOMAIN high = 1 .. c
  <2> HIDE DEF A
  <2> QED BY <1>5, SortedLists
<1>7. Lists(low, L, L) /\ d \in Nat /\ DOMAIN low = 1 .. d
  <2> HIDE DEF L
  <2> QED BY <1>4, SortedLists DEF Descending
<1> HIDE DEF high, low, A, L, c, d
<1>8. (\A i \in 1 .. c : high[i] \in A) /\ A = {high[i] : i \in 1 .. c}
  BY <1>6 DEF Lists, ToSet
<1>9. (\A i \in 1 .. d : low[i] \in L) /\ L = {low[i] : i \in 1 .. d}
  BY <1>7 DEF Lists, ToSet
<1>10. none \in BlockOrNone /\ Blocks \subseteq BlockOrNone /\ \A x \in Blocks : Number[x] \in Heights
  BY HeightsAreGapless DEF BlockOrNone
<1> DEFINE X == {Canon(n, none) : n \in A}
           Y == {Canon(Number[x], x) : x \in L}
           Z == {Canon(Number[b], b), Set("headHeader", b)}
           S == {Store("td", b), Store("hdr", b)}
<1>11. Lists(f, X, WriteSet)
  <2>1. f = [i \in 1 .. c |-> f[i]] /\ \A i \in 1 .. c : f[i] = Canon(high[i], none)
    BY <1>6
  <2> HIDE DEF f
  <2>2. \A i \in 1 .. c : f[i] \in WriteSet
    BY <2>1, <1>5, <1>8, <1>10, WritesAre
  <2>3. Lists(f, {f[i] : i \in 1 .. c}, WriteSet)
    BY <2>1, <2>2, <1>6, ListsValues
  <2>4. {f[i] : i \in 1 .. c} = X
    BY <2>1, <1>8
  <2> QED BY <2>3, <2>4
<1>12. Lists(g, Y, WriteSet)
  <2>1. g = [i \in 1 .. d |-> g[i]] /\ \A i \in 1 .. d : g[i] = Canon(Number[low[i]], low[i])
    BY <1>7
  <2> HIDE DEF g
  <2>2. \A i \in 1 .. d : g[i] \in WriteSet
    BY <2>1, <1>4, <1>9, <1>10, WritesAre
  <2>3. Lists(g, {g[i] : i \in 1 .. d}, WriteSet)
    BY <2>1, <2>2, <1>7, ListsValues
  <2>4. {g[i] : i \in 1 .. d} = Y
    BY <2>1, <1>9
  <2> QED BY <2>3, <2>4
<1>13. Lists(base, S, WriteSet) /\ Lists(last, Z, WriteSet)
  <2>1. /\ Canon(Number[b], b) \in WriteSet /\ Set("headHeader", b) \in WriteSet
        /\ Store("td", b) \in WriteSet /\ Store("hdr", b) \in WriteSet
    BY <1>10, WritesAre DEF Kinds, HeadKinds
  <2> QED BY <2>1, ListsFew
<1>14. t \in Seq(WriteSet) /\ ToSet(t) = ((S \cup X) \cup Y) \cup Z
  <2> HIDE DEF S, X, Y, Z, f, g, base, last
  <2>1. Lists(base \o f, S \cup X, WriteSet)
    BY <1>11, <1>13, ListsConcat
  <2>2. Lists(base \o f \o g, (S \cup X) \cup Y, WriteSet)
    BY <2>1, <1>12, ListsConcat
  <2>3. Lists(base \o f \o g \o last, ((S \cup X) \cup Y) \cup Z, WriteSet)
    BY <2>2, <1>13, ListsConcat
  <2> QED BY <2>3, <1>1 DEF Lists
<1>15. ASSUME NEW n, NEW v, Canon(n, v) \in ToSet(t)
       PROVE  (n \in A /\ v = none) \/ (v \in L \cup {b} /\ n = Number[v])
  <2>1. Canon(n, v) \notin S /\ Canon(n, v) # Set("headHeader", b)
    BY DEF Canon, Store, Set
  <2>2. CASE Canon(n, v) \in X
    <3>1. PICK m \in A : Canon(n, v) = Canon(m, none)
      BY <2>2
    <3>2. n = m /\ v = none
      BY ONLY <3>1, WritesDiffer
    <3> QED BY <3>2
  <2>3. CASE Canon(n, v) \in Y \cup {Canon(Number[b], b)}
    <3>1. PICK x \in L \cup {b} : Canon(n, v) = Canon(Number[x], x)
      BY <2>3
    <3>2. n = Number[x] /\ v = x
      BY ONLY <3>1, WritesDiffer
    <3> QED BY <3>2
  <2> QED BY <1>14, <1>15, <2>1, <2>2, <2>3
<1>16. ASSUME NEW n, NEW v, (n \in A /\ v = none) \/ (v \in L \cup {b} /\ n = Number[v])
       PROVE  Canon(n, v) \in ToSet(t)
  BY <1>14, <1>16
<1>17. ASSUME NEW w \in ToSet(t), NEW k, NEW x PROVE w # Del(k, x) /\ w # Store("body", x)
  <2>1. CASE w \in S
    <3>1. w = Store("td", b) \/ w = Store("hdr", b)
      BY <2>1
    <3> QED BY ONLY <3>1, WritesDiffer, "td" # "body", "hdr" # "body"
  <2>2. CASE w = Set("headHeader", b)
    BY ONLY <2>2, WritesDiffer
  <2>3. CASE \E n, v : w = Canon(n, v)
    BY ONLY <2>3, WritesDiffer
  <2> QED BY <1>14, <2>1, <2>2, <2>3
<1>18. Bodiless(t)
  BY ONLY <1>17 DEF Bodiless
<1> QED BY ONLY <1>3, <1>14, <1>15, <1>16, <1>18, Zenon DEF A, L, HeaderOK

\* The three stores of a new block, before anything else
BaseOf(b) == <<Store("td", b), Store("body", b), Store("hdr", b)>>

Stores(t, b) ==
  /\ t \in Seq(WriteSet) /\ Store("body", b) \in ToSet(t) /\ Store("hdr", b) \in ToSet(t)
  /\ \A k, x : (Store(k, x) \in ToSet(t) => x = b) /\ Del(k, x) \notin ToSet(t)
  /\ t[2] = Store("body", b) /\ t[3] = Store("hdr", b)
  /\ \A i \in DOMAIN t : \A x : t[i] = Set("headBlock", x) => i \in Nat /\ i > 3

\* Writes that follow the three stores and neither store nor delete
LEMMA BaseFirst ==
  ASSUME NEW b \in Blocks, NEW r \in Seq(WriteSet), NEW t, t = BaseOf(b) \o r,
         \A k, x : Store(k, x) \notin ToSet(r) /\ Del(k, x) \notin ToSet(r)
  PROVE  /\ Stores(t, b)
         /\ \A n, v : Canon(n, v) \in ToSet(t) <=> Canon(n, v) \in ToSet(r)
         /\ \A k, x : Set(k, x) \in ToSet(t) <=> Set(k, x) \in ToSet(r)
<1>1. Store("td", b) \in WriteSet /\ Store("body", b) \in WriteSet /\ Store("hdr", b) \in WriteSet
  BY WritesAre DEF Kinds
<1> DEFINE s == BaseOf(b)
           S == {Store("td", b), Store("body", b), Store("hdr", b)}
<1>2. Lists(s, S, WriteSet) /\ s \in Seq(WriteSet)
  <2>1. Lists(s, S, WriteSet)
    BY ONLY <1>1, ListsFew DEF BaseOf
  <2> QED BY ONLY <2>1 DEF Lists
<1>3. /\ Len(s) = 3 /\ s[1] = Store("td", b) /\ s[2] = Store("body", b) /\ s[3] = Store("hdr", b)
  BY DEF BaseOf
<1>4. Lists(r, ToSet(r), WriteSet)
  BY DEF Lists
<1> HIDE DEF s, S
<1>5. t \in Seq(WriteSet) /\ ToSet(t) = S \cup ToSet(r)
  <2>1. Lists(s \o r, S \cup ToSet(r), WriteSet)
    BY <1>2, <1>4, ListsConcat
  <2> QED BY <2>1 DEF Lists, s
<1>6. \A i \in 1 .. 3 : t[i] = s[i]
  <2>1. \A i \in 1 .. Len(s) + Len(r) : (s \o r)[i] = IF i <= Len(s) THEN s[i] ELSE r[i - Len(s)]
    BY <1>2, ConcatProperties
  <2>2. Len(r) \in Nat
    BY LenProperties
  <2>3. t = s \o r
    BY DEF s
  <2>4. \A i \in 1 .. 3 : i \in 1 .. Len(s) + Len(r) /\ i <= Len(s)
    BY ONLY <2>2, <1>3
  <2> QED BY ONLY <2>1, <2>3, <2>4
<1>7. t[1] = Store("td", b) /\ t[2] = Store("body", b) /\ t[3] = Store("hdr", b)
  <2>1. 1 \in 1 .. 3 /\ 2 \in 1 .. 3 /\ 3 \in 1 .. 3
    OBVIOUS
  <2> QED BY ONLY <1>3, <1>6, <2>1
<1>8. /\ \A k, x : Store(k, x) \in S => x = b
      /\ \A k, x : Del(k, x) \notin S /\ Set(k, x) \notin S /\ Canon(k, x) \notin S
  BY DEF S, Store, Del, Set, Canon
<1>9. ASSUME NEW i \in DOMAIN t, NEW x, t[i] = Set("headBlock", x) PROVE i \in Nat /\ i > 3
  <2>1. i \in Nat /\ i >= 1
    BY <1>5, LenProperties
  <2>2. \A k, y : t[i] # Store(k, y)
    <3>1. t[i].op = "set"
      BY <1>9 DEF Set
    <3>2. \A k, y : Store(k, y).op = "put"
      BY DEF Store
    <3>3. "set" # "put"
      OBVIOUS
    <3> QED BY ONLY <3>1, <3>2, <3>3
  <2>3. i # 1 /\ i # 2 /\ i # 3
    BY <2>2, <1>7
  <2> QED BY <2>1, <2>3
<1>10. Store("body", b) \in S /\ Store("hdr", b) \in S
  BY DEF S
<1> QED BY ONLY <1>5, <1>7, <1>8, <1>9, <1>10,
             \A k, x : Store(k, x) \notin ToSet(r) /\ Del(k, x) \notin ToSet(r), Zenon DEF Stores

\* The node takes up the writes of a block: either it only stores the block, or it
\* makes the block and those of its ancestors canonical that the head does not have.
BlockStored(b) == Stores(todo', b) /\ next' \in HeadSet

OnlyStored ==
  /\ next' = mem
  /\ \A n, v : Canon(n, v) \notin ToSet(todo') /\ Set(n, v) \notin ToSet(todo')

MadeCanonical(b, new) ==
  /\ \A x \in new \cup {b} : Canon(Number[x], x) \in ToSet(todo')
  /\ \A n, v : Canon(n, v) \in ToSet(todo') => v \in new \cup {b} /\ n = Number[v]
  /\ \A x : Set("headBlock", x) \in ToSet(todo') => x \in new \cup {b}
  /\ \A x \in new : x # b => HasBlock(x)
  /\ next'.block = b
  /\ \/ next'.header = mem.header /\ \A x \in new : ~Uncanonical(x)
     \/ next'.header \in new \cup {b} /\ Uncanonical(next'.header)

\* All that WriteBlock does, whichever branch it takes
LEMMA BlockFacts ==
  ASSUME ChainConstants, ChainTypes, NEW w \in Workers, NEW canonical \in BOOLEAN, WriteBlock(w, canonical),
         NEW b, b = job[w].block, NEW new, new = Ancestry[b] \ Ancestry[mem.block]
  PROVE  /\ b \in Blocks \ {GenesisBlock} /\ BlockStored(b) /\ (OnlyStored \/ MadeCanonical(b, new))
         /\ owner = none /\ owner' = w /\ todo = <<>> /\ job[w] # Idle
         /\ job' = [job EXCEPT ![w] = Idle] \/ job' = [job EXCEPT ![w].stage = "lookup"]
         /\ UNCHANGED <<chainDb, mem, up, phase, pivot, rewinds, crashes>>
<1>1. job[w].stage = "write" /\ job[w] \in JobSet
  BY DEF WriteBlock, ChainTypes
<1>2. b \in Blocks \ {GenesisBlock} /\ job[w] # Idle
  BY <1>1 DEF JobSet, Idle
<1>3. /\ owner = none /\ owner' = w
      /\ job' = [job EXCEPT ![w] = Idle] \/ job' = [job EXCEPT ![w].stage = "lookup"]
      /\ UNCHANGED <<chainDb, mem, up, phase, pivot, rewinds, crashes>>
  BY DEF WriteBlock, Take
<1>4. todo = <<>> /\ mem \in HeadSet /\ mem.block \in Blocks
  BY <1>3, ChainFields DEF ChainTypes
<1>5. b \in Ancestry[b] /\ Parent[b] \in Blocks /\ Ancestry[b] = {b} \cup Ancestry[Parent[b]]
  BY <1>2, AncestryFacts
<1>10. b \in Blocks
  BY <1>2
<1>6. CASE todo' = BaseOf(b) /\ next' = mem
  <2>1. <<>> \in Seq(WriteSet) /\ ToSet(<<>>) = {}
    BY DEF ToSet
  <2>2. BaseOf(b) = BaseOf(b) \o <<>>
    BY DEF BaseOf
  <2>3. BlockStored(b) /\ OnlyStored
    <3>1. b \in Blocks /\ todo' = BaseOf(b) \o <<>> /\ \A k, x : Store(k, x) \notin ToSet(<<>>) /\ Del(k, x) \notin ToSet(<<>>)
      BY <1>2, <1>6, <2>1, <2>2
    <3>2. BlockStored(b)
      BY ONLY <1>4, <1>6, <2>1, <3>1, BaseFirst DEF BlockStored
    <3>3. /\ \A n, v : Canon(n, v) \in ToSet(todo') <=> Canon(n, v) \in ToSet(<<>>)
          /\ \A k, x : Set(k, x) \in ToSet(todo') <=> Set(k, x) \in ToSet(<<>>)
      BY ONLY <2>1, <3>1, BaseFirst
    <3> QED BY ONLY <1>6, <2>1, <3>2, <3>3 DEF OnlyStored
  <2> QED BY <2>3, <1>2, <1>3, <1>4
<1>7. CASE /\ todo' = BaseOf(b) \o insert(b, Uncanonical(b)) /\ Parent[b] = mem.block
           /\ next' = IF Uncanonical(b) THEN Heads(b) ELSE [mem EXCEPT !.block = b]
  <2> DEFINE r == insert(b, Uncanonical(b))
  <2>1. Uncanonical(b) \in BOOLEAN
    BY DEF Uncanonical
  <2>2. r \in Seq(WriteSet) /\ ToSet(r) = InsertSet(b, Uncanonical(b))
    BY <1>2, <2>1, InsertLists DEF Lists
  <2> HIDE DEF r
  <2>3. /\ Canon(Number[b], b) \in ToSet(r)
        /\ \A n, v : Canon(n, v) \in ToSet(r) => n = Number[b] /\ v = b
        /\ \A k, x : Store(k, x) \notin ToSet(r) /\ Del(k, x) \notin ToSet(r)
        /\ \A x : Set("headBlock", x) \in ToSet(r) => x = b
    BY <2>1, <2>2, InsertHas
  <2>4. todo' = BaseOf(b) \o r
    BY <1>7 DEF r
  <2>5. next' \in HeadSet /\ next'.block = b
    BY <1>2, <1>4, <1>7 DEF HeadSet, Heads
  <2>6. new \subseteq {b}
    BY <1>5, <1>7
  <2>7. \/ next'.header = mem.header /\ \A x \in new : ~Uncanonical(x)
        \/ next'.header \in new \cup {b} /\ Uncanonical(next'.header)
    <3>1. CASE Uncanonical(b)
      <4>1. next'.header = b
        BY <3>1, <1>7 DEF Heads
      <4> QED BY <3>1, <4>1
    <3>2. CASE ~Uncanonical(b)
      BY <3>2, <1>4, <1>7, <2>6 DEF HeadSet
    <3> QED BY <3>1, <3>2
  <2>8. BlockStored(b)
    BY ONLY <1>10, <2>2, <2>3, <2>4, <2>5, BaseFirst DEF BlockStored
  <2>9. MadeCanonical(b, new)
    <3>1. /\ \A n, v : Canon(n, v) \in ToSet(todo') <=> Canon(n, v) \in ToSet(r)
          /\ \A k, x : Set(k, x) \in ToSet(todo') <=> Set(k, x) \in ToSet(r)
      BY ONLY <1>10, <2>2, <2>3, <2>4, BaseFirst
    <3>2. \A x \in new \cup {b} : x = b
      BY <2>6
    <3> QED BY ONLY <2>3, <2>5, <2>7, <3>1, <3>2, Zenon DEF MadeCanonical
  <2> QED BY <2>8, <2>9, <1>2, <1>3, <1>4
<1>8. CASE todo' = BaseOf(b) \o reorg(b).writes /\ next' = reorg(b).heads /\ ~Broken(b)
  <2> DEFINE r == reorg(b).writes
             h == reorg(b).heads
  <2>0. r = reorg(b).writes /\ h = reorg(b).heads
    OBVIOUS
  <2>2. todo' = BaseOf(b) \o r /\ next' = h
    BY <1>8
  <2> HIDE DEF r, h
  <2>1. ReorgOK(b, new, r, h)
    BY ONLY ChainConstants, ChainTypes, <1>10, new = Ancestry[b] \ Ancestry[mem.block], <2>0, ReorgFacts
  <2>3. BlockStored(b)
    BY ONLY <1>10, <2>1, <2>2, BaseFirst DEF BlockStored, ReorgOK
  <2>4. \A x \in new : x # b => HasBlock(x)
    BY <1>8 DEF Broken
  <2>5. MadeCanonical(b, new)
    <3>1. /\ \A n, v : Canon(n, v) \in ToSet(todo') <=> Canon(n, v) \in ToSet(r)
          /\ \A k, x : Set(k, x) \in ToSet(todo') <=> Set(k, x) \in ToSet(r)
      BY ONLY <1>10, <2>1, <2>2, BaseFirst DEF ReorgOK
    <3>2. /\ next'.block = b
          /\ \/ next'.header = mem.header /\ \A x \in new : ~Uncanonical(x)
             \/ next'.header \in new \cup {b} /\ Uncanonical(next'.header)
      BY <2>1, <2>2 DEF ReorgOK
    <3> QED BY ONLY <2>1, <2>4, <3>1, <3>2, Zenon DEF MadeCanonical, ReorgOK
  <2> QED BY <2>3, <2>5, <1>2, <1>3, <1>4
<1>9. \/ todo' = BaseOf(b) /\ next' = mem
      \/ /\ todo' = BaseOf(b) \o insert(b, Uncanonical(b)) /\ Parent[b] = mem.block
         /\ next' = IF Uncanonical(b) THEN Heads(b) ELSE [mem EXCEPT !.block = b]
      \/ todo' = BaseOf(b) \o reorg(b).writes /\ next' = reorg(b).heads /\ ~Broken(b)
  BY DEF WriteBlock, Take, BaseOf
<1> QED BY <1>6, <1>7, <1>8, <1>9

-----------------------------------------------------------------------------
(* Every step keeps the types.                                              *)

\* A worker takes up a job or drops it.
LEMMA JobTypes ==
  ASSUME NEW w \in Workers, NEW j \in JobSet, job \in [Workers -> JobSet]
  PROVE  [job EXCEPT ![w] = j] \in [Workers -> JobSet] /\ Idle \in JobSet
BY DEF JobSet

\* A step that takes the mutex with typed writes and heads
LEMMA TakeTypes ==
  ASSUME ChainTypes, NEW who, who # none, owner' = who, todo' \in Seq(WriteSet), next' \in HeadSet,
         job' \in [Workers -> JobSet], rewinds' \in Nat, UNCHANGED <<chainDb, mem, phase, pivot, crashes>>
  PROVE  ChainTypes'
BY DEF ChainTypes

\* The heads with one of them moved
LEMMA HeadsAre ==
  ASSUME NEW b \in Blocks, NEW m \in HeadSet
  PROVE  /\ Heads(b) \in HeadSet /\ [m EXCEPT !.header = b] \in HeadSet /\ [m EXCEPT !.block = b] \in HeadSet
         /\ [m EXCEPT !.fast = b] \in HeadSet
         /\ [m EXCEPT !.header = b].block = m.block /\ [m EXCEPT !.header = b].header = b
         /\ [m EXCEPT !.block = b].header = m.header /\ [m EXCEPT !.block = b].block = b
         /\ [m EXCEPT !.fast = b].header = m.header /\ [m EXCEPT !.fast = b].block = m.block
BY DEF Heads, HeadSet

\* The node starts with the genesis block.
LEMMA ChainInitTypes == ASSUME ChainConstants, ChainInit PROVE ChainTypes
<1>1. GenesisBlock \in Blocks /\ 0 \in Heights
  BY HeightsAreGapless DEF ChainConstants
<1>2. [n \in Heights |-> IF n = 0 THEN GenesisBlock ELSE none] \in [Heights -> BlockOrNone]
  BY <1>1 DEF BlockOrNone
<1>3. [t \in AllTxs |-> none] \in [AllTxs -> BlockOrNone]
  BY DEF BlockOrNone
<1>4. chainDb \in Databases
  BY <1>1, <1>2, <1>3 DEF ChainInit, Databases
<1>5. mem \in HeadSet /\ next \in HeadSet
  BY <1>1 DEF ChainInit, HeadSet, Heads
<1>6. todo = <<>> /\ todo \in Seq(WriteSet)
  BY DEF ChainInit
<1>7. job \in [Workers -> JobSet]
  BY DEF ChainInit, JobSet
<1>8. phase \in {"fast", "pivot", "full"} /\ pivot \in BlockOrNone /\ rewinds \in Nat /\ crashes \in Nat
  BY DEF ChainInit, BlockOrNone
<1> QED BY <1>4, <1>5, <1>6, <1>7, <1>8 DEF ChainTypes

\* One write
LEMMA NextWriteTypes == ASSUME ChainTypes, NextWrite PROVE ChainTypes'
<1>1. CASE todo = <<>>
  BY <1>1 DEF NextWrite, ChainTypes
<1>2. CASE todo # <<>>
  <2>1. todo \in Seq(WriteSet) /\ chainDb \in Databases
    BY DEF ChainTypes
  <2>2. Head(todo) \in WriteSet /\ Tail(todo) \in Seq(WriteSet)
    BY <1>2, <2>1, ListsTail
  <2>3. Apply(chainDb, Head(todo)) \in Databases
    BY <2>1, <2>2, ApplyFacts
  <2>4. /\ chainDb' = Apply(chainDb, Head(todo)) /\ todo' = Tail(todo) /\ owner' # none
        /\ UNCHANGED <<mem, next, job, phase, pivot, rewinds, crashes>>
    BY <1>2 DEF NextWrite
  <2> QED BY <2>2, <2>3, <2>4 DEF ChainTypes
<1> QED BY <1>1, <1>2

\* A crash
LEMMA CrashTypes == ASSUME ChainConstants, ChainTypes, Crash PROVE ChainTypes'
<1>1. GenesisBlock \in Blocks
  BY DEF ChainConstants
<1>2. mem' \in HeadSet /\ next' \in HeadSet
  BY <1>1 DEF Crash, Heads, HeadSet
<1>3. job' \in [Workers -> JobSet]
  BY DEF Crash, JobSet
<1>4. crashes' \in Nat
  BY DEF Crash, ChainTypes
<1>5. todo' = <<>> /\ todo' \in Seq(WriteSet) /\ UNCHANGED <<chainDb, phase, pivot, rewinds>>
  BY DEF Crash
<1> QED BY <1>2, <1>3, <1>4, <1>5 DEF ChainTypes

\* A restart, whether or not the head block is complete
LEMMA LoadTypes == ASSUME ChainConstants, ChainTypes, loadLastState PROVE ChainTypes'
<1>1. CASE Complete(chainDb.headBlock)
  <2> DEFINE header == IF chainDb.headHeader \in chainDb.hdr THEN chainDb.headHeader ELSE chainDb.headBlock
             fast   == IF HasBlock(chainDb.headFast) THEN chainDb.headFast ELSE chainDb.headBlock
  <2>1. header \in Blocks /\ fast \in Blocks /\ chainDb.headBlock \in Blocks
    BY ChainFields
  <2>2. /\ mem' = [block |-> chainDb.headBlock, header |-> header, fast |-> fast]
        /\ chainDb' = [chainDb EXCEPT !.headHeader = header] /\ UNCHANGED <<todo, next, owner, job, phase, pivot, rewinds, crashes>>
    BY <1>1 DEF loadLastState
  <2> HIDE DEF header, fast
  <2>3. mem' \in HeadSet
    BY <2>1, <2>2 DEF HeadSet
  <2>4. chainDb' \in Databases
    BY <2>1, <2>2 DEF Databases, ChainTypes
  <2> QED BY <2>2, <2>3, <2>4 DEF ChainTypes
<1>2. CASE ~Complete(chainDb.headBlock)
  <2> DEFINE from == IF chainDb.headBlock \in chainDb.hdr THEN chainDb.headBlock ELSE GenesisBlock
             r == Rewound(0, none, from, none)
  <2>1. from \in Blocks /\ 0 \in Heights /\ none \in BlockOrNone /\ GenesisBlock \in Blocks
    BY ChainFields, HeightsAreGapless DEF ChainConstants, BlockOrNone
  <2>2. /\ todo' = r.writes /\ next' = Heads(GenesisBlock) /\ owner' = "reset"
        /\ UNCHANGED <<chainDb, mem, job, phase, pivot, rewinds, crashes>>
    BY <1>2 DEF loadLastState
  <2> HIDE DEF from
  <2>3. RewoundOK(0, none, from, r.writes, r.heads)
    BY <2>1, RewoundFacts
  <2>4. todo' \in Seq(WriteSet)
    BY <2>2, <2>3 DEF RewoundOK
  <2>5. next' \in HeadSet
    BY <2>1, <2>2 DEF Heads, HeadSet
  <2>6. "reset" # none /\ job' \in [Workers -> JobSet] /\ rewinds' \in Nat
    BY <2>2 DEF none, ChainTypes
  <2> QED BY <2>2, <2>4, <2>5, <2>6, TakeTypes
<1> QED BY <1>1, <1>2

\* The steps of importer and miner without the mutex, and what they change
LEMMA JobStepTypes ==
  ASSUME ChainConstants, ChainTypes, NEW w \in Workers, NEW b \in Blocks,
         Process(w, b) \/ ReadTd(w) \/ WriteKnown(w) \/ WriteTxLookupEntries(w)
  PROVE  /\ ChainTypes' /\ UNCHANGED <<mem, todo, next, owner, up, phase, pivot, rewinds, crashes>>
         /\ UNCHANGED <<chainDb.canon, chainDb.hdr, chainDb.body, chainDb.headBlock>>
         /\ chainDb'.state = chainDb.state \/ (Process(w, b) /\ chainDb'.state = chainDb.state \cup {b})
         /\ \A v \in Workers \ {w} : job'[v] = job[v]
         /\ \/ job'[w] = Idle
            \/ Process(w, b) /\ job'[w].block = b
            \/ job[w] # Idle /\ job'[w].block = job[w].block
<1>1. job \in [Workers -> JobSet] /\ job[w] \in JobSet /\ Idle \in JobSet /\ chainDb \in Databases
  BY JobTypes DEF ChainTypes
<1>2. CASE Process(w, b)
  <2>1. b \in Blocks \ {GenesisBlock}
    BY <1>2 DEF Process
  <2>2. [block |-> b, stage |-> "td"] \in JobSet
    BY <2>1 DEF JobSet, Stages
  <2>3. /\ job' = [job EXCEPT ![w] = [block |-> b, stage |-> "td"]]
        /\ chainDb' = [chainDb EXCEPT !.state = chainDb.state \cup {b}]
        /\ UNCHANGED <<mem, todo, next, owner, up, phase, pivot, rewinds, crashes>>
    BY <1>2 DEF Process
  <2>4. job' \in [Workers -> JobSet] /\ job'[w].block = b /\ \A v \in Workers \ {w} : job'[v] = job[v]
    BY <2>2, <2>3, <1>1
  <2>5. /\ chainDb' \in Databases /\ chainDb'.state = chainDb.state \cup {b}
        /\ UNCHANGED <<chainDb.canon, chainDb.hdr, chainDb.body, chainDb.headBlock>>
    BY <1>1, <2>3 DEF Databases
  <2>6. ChainTypes'
    BY <2>3, <2>4, <2>5 DEF ChainTypes
  <2> QED BY <1>2, <2>3, <2>4, <2>5, <2>6
<1>3. CASE ReadTd(w)
  <2>1. job[w] # Idle /\ UNCHANGED <<chainDb, mem, todo, next, owner, up, phase, pivot, rewinds, crashes>>
    BY <1>3 DEF ReadTd, Idle
  <2>2. /\ job[w] \in [block : Blocks \ {GenesisBlock}, stage : Stages]
        /\ job' = [job EXCEPT ![w] = Idle] \/ job' = [job EXCEPT ![w] = [job[w] EXCEPT !.stage = "write"]]
    BY <1>1, <1>3, <2>1 DEF ReadTd, JobSet
  <2>3. [job[w] EXCEPT !.stage = "write"] \in JobSet /\ [job[w] EXCEPT !.stage = "write"].block = job[w].block
    BY <2>2 DEF JobSet, Stages
  <2>4. /\ job' \in [Workers -> JobSet] /\ \A v \in Workers \ {w} : job'[v] = job[v]
        /\ job'[w] = Idle \/ job'[w].block = job[w].block
    BY <1>1, <2>2, <2>3
  <2>5. ChainTypes'
    BY <2>1, <2>4 DEF ChainTypes
  <2> QED BY <2>1, <2>4, <2>5
<1>4. CASE WriteKnown(w)
  <2>1. UNCHANGED <<chainDb, mem, todo, next, owner, up, phase, pivot, rewinds, crashes>> /\ job' = [job EXCEPT ![w] = Idle]
    BY <1>4 DEF WriteKnown
  <2>2. job' \in [Workers -> JobSet] /\ (\A v \in Workers \ {w} : job'[v] = job[v]) /\ job'[w] = Idle
    BY <1>1, <2>1
  <2>3. ChainTypes'
    BY <2>1, <2>2 DEF ChainTypes
  <2> QED BY <2>1, <2>2, <2>3
<1>5. CASE WriteTxLookupEntries(w)
  <2>1. /\ UNCHANGED <<mem, todo, next, owner, up, phase, pivot, rewinds, crashes>> /\ job' = [job EXCEPT ![w] = Idle]
        /\ chainDb' = Apply(chainDb, Lookup(Txs[job[w].block], job[w].block)) /\ job[w].stage = "lookup"
    BY <1>5 DEF WriteTxLookupEntries
  <2>2. job' \in [Workers -> JobSet] /\ (\A v \in Workers \ {w} : job'[v] = job[v]) /\ job'[w] = Idle
    BY <1>1, <2>1
  <2>3. job[w].block \in Blocks
    BY <1>1, <2>1 DEF JobSet, Idle
  <2> DEFINE ts == Txs[job[w].block]
             x == job[w].block
  <2>4. ts \in SUBSET AllTxs /\ x \in BlockOrNone
    BY <2>3 DEF AllTxs, BlockOrNone
  <2>5. chainDb' \in Databases /\ UNCHANGED <<chainDb.canon, chainDb.hdr, chainDb.body, chainDb.headBlock, chainDb.state>>
    <3>1. chainDb' = Apply(chainDb, Lookup(ts, x))
      BY <2>1
    <3> HIDE DEF ts, x
    <3> DEFINE f == [t \in AllTxs |-> IF t \in ts THEN x ELSE chainDb.lookup[t]]
    <3>2. chainDb' = [chainDb EXCEPT !.lookup = f] /\ chainDb' \in Databases
      BY <1>1, <2>4, <3>1, ApplyLookup
    <3> HIDE DEF f
    <3> QED BY <1>1, <3>2 DEF Databases
  <2>6. ChainTypes'
    BY <2>1, <2>2, <2>5 DEF ChainTypes
  <2> QED BY <2>1, <2>2, <2>5, <2>6
<1> QED BY <1>2, <1>3, <1>4, <1>5

\* WriteBlock
LEMMA BlockTypes ==
  ASSUME ChainConstants, ChainTypes, NEW w \in Workers, NEW canonical \in BOOLEAN, WriteBlock(w, canonical)
  PROVE  /\ ChainTypes' /\ (\A v \in Workers \ {w} : job'[v] = job[v])
         /\ job'[w] = Idle \/ job'[w].block = job[w].block
<1> DEFINE b == job[w].block
<1>1. /\ b \in Blocks \ {GenesisBlock} /\ BlockStored(b)
      /\ owner' = w /\ job[w] # Idle
      /\ job' = [job EXCEPT ![w] = Idle] \/ job' = [job EXCEPT ![w].stage = "lookup"]
      /\ UNCHANGED <<chainDb, mem, up, phase, pivot, rewinds, crashes>>
  BY BlockFacts
<1>2. job \in [Workers -> JobSet] /\ job[w] \in [block : Blocks \ {GenesisBlock}, stage : Stages]
  BY <1>1 DEF ChainTypes, JobSet
<1>3. [job[w] EXCEPT !.stage = "lookup"] \in JobSet /\ [job[w] EXCEPT !.stage = "lookup"].block = b /\ Idle \in JobSet
  BY <1>2 DEF JobSet, Stages
<1>4. job' = [job EXCEPT ![w] = Idle] \/ job' = [job EXCEPT ![w] = [job[w] EXCEPT !.stage = "lookup"]]
  BY <1>1, <1>2
<1>5. /\ job' \in [Workers -> JobSet] /\ \A v \in Workers \ {w} : job'[v] = job[v]
      /\ job'[w] = Idle \/ job'[w].block = b
  BY <1>2, <1>3, <1>4
<1>6. w # none /\ rewinds' \in Nat /\ todo' \in Seq(WriteSet) /\ next' \in HeadSet
  BY <1>1 DEF none, Workers, ChainTypes, BlockStored, Stores
<1>7. ChainTypes'
  BY <1>1, <1>5, <1>6, TakeTypes
<1> QED BY <1>5, <1>7

\* SetHead takes the mutex.
LEMMA SetHeadFacts ==
  ASSUME ChainConstants, ChainTypes, NEW n \in Heights, SetHead(n)
  PROVE  /\ RewoundOK(n, mem.block, mem.header, todo', next') /\ ChainTypes'
         /\ owner = none /\ owner' # none /\ todo = <<>> /\ rewinds < MaxRewinds
         /\ UNCHANGED <<chainDb, mem, job, up, phase, pivot, crashes>>
<1> DEFINE r == Rewound(n, mem.block, mem.header, mem.fast)
<1>1. /\ rewinds < MaxRewinds /\ rewinds' = rewinds + 1 /\ owner = none /\ owner' = "rewind"
      /\ todo' = r.writes /\ next' = r.heads /\ UNCHANGED <<chainDb, mem, job, up, phase, pivot, crashes>>
  BY DEF SetHead, Take
<1>2. mem.block \in BlockOrNone /\ mem.header \in Blocks /\ mem.fast \in BlockOrNone
  BY ChainFields DEF BlockOrNone
<1>3. RewoundOK(n, mem.block, mem.header, r.writes, r.heads)
  BY <1>2, RewoundFacts
<1> HIDE DEF r
<1>4. RewoundOK(n, mem.block, mem.header, todo', next')
  BY <1>1, <1>3
<1>5. todo = <<>> /\ rewinds' \in Nat /\ job' \in [Workers -> JobSet] /\ "rewind" # none
  BY <1>1 DEF ChainTypes, none
<1>6. todo' \in Seq(WriteSet) /\ next' \in HeadSet
  BY <1>4 DEF RewoundOK
<1>7. ChainTypes'
  BY <1>1, <1>5, <1>6, TakeTypes
<1> QED BY <1>1, <1>4, <1>5, <1>7

\* So does WriteHeader,
LEMMA WriteHeaderFacts ==
  ASSUME ChainConstants, ChainTypes, NEW b \in Blocks \ {GenesisBlock}, NEW canonical \in BOOLEAN, WriteHeader(b, canonical)
  PROVE  /\ ChainTypes' /\ owner = none /\ owner' # none /\ todo = <<>> /\ MayImportHeader(b)
         /\ UNCHANGED <<chainDb, mem, job, up, phase, pivot, rewinds, crashes>>
         /\ next'.block = mem.block /\ Bodiless(todo')
         /\ \/ next'.header = b /\ HeaderOK(b, todo')
            \/ next'.header = mem.header /\ \A n, v : Canon(n, v) \notin ToSet(todo')
<1> DEFINE low   == Descending(stale(b))
           high  == Sorted(above(Number[b]), [j \in Heights |-> -j])
           base  == <<Store("td", b), Store("hdr", b)>>
           t == base \o [i \in DOMAIN high |-> Canon(high[i], none)]
                \o [i \in DOMAIN low |-> Canon(Number[low[i]], low[i])]
                \o <<Canon(Number[b], b), Set("headHeader", b)>>
<1>1. /\ owner = none /\ owner' = "headers" /\ MayImportHeader(b)
      /\ UNCHANGED <<chainDb, mem, job, up, phase, pivot, rewinds, crashes>>
      /\ \/ canonical /\ todo' = t /\ next' = [mem EXCEPT !.header = b]
         \/ todo' = base /\ next' = mem
  BY DEF WriteHeader, Take
<1>2. /\ todo = <<>> /\ mem \in HeadSet /\ rewinds' \in Nat /\ job' \in [Workers -> JobSet] /\ "headers" # none
  BY <1>1 DEF ChainTypes, none
<1>3. HeaderOK(b, t)
  BY HeaderFacts
<1> HIDE DEF t
<1>4. CASE todo' = t /\ next' = [mem EXCEPT !.header = b]
  <2>1. HeaderOK(b, todo') /\ todo' \in Seq(WriteSet) /\ Bodiless(todo')
    BY <1>3, <1>4 DEF HeaderOK
  <2>2. next' \in HeadSet /\ next'.block = mem.block /\ next'.header = b
    BY <1>2, <1>4, HeadsAre
  <2>3. ChainTypes'
    BY <1>1, <1>2, <2>1, <2>2, TakeTypes
  <2> QED BY <1>1, <1>2, <2>1, <2>2, <2>3
<1>5. CASE todo' = base /\ next' = mem
  <2>1. Store("td", b) \in WriteSet /\ Store("hdr", b) \in WriteSet
    BY WritesAre DEF Kinds
  <2>2. todo' \in Seq(WriteSet) /\ ToSet(todo') = {Store("td", b), Store("hdr", b)}
    BY <1>5, <2>1, ListsFew DEF Lists
  <2>3. \A n, v : Canon(n, v) \notin ToSet(todo')
    BY <2>2 DEF Canon, Store
  <2>5. Bodiless(todo')
    BY <2>2 DEF Bodiless, Del, Store
  <2>4. ChainTypes'
    BY <1>1, <1>2, <1>5, <2>2, TakeTypes
  <2> QED BY <1>1, <1>2, <1>5, <2>3, <2>4, <2>5
<1> QED BY <1>1, <1>4, <1>5

\* InsertReceiptChain's update of the fast head
LEMMA ReceiptsHeadFacts ==
  ASSUME ChainConstants, ChainTypes, InsertReceiptsHead
  PROVE  /\ ChainTypes' /\ owner = none /\ owner' # none /\ todo = <<>> /\ job["fast"] # Idle
         /\ UNCHANGED <<chainDb, mem, up, phase, pivot, rewinds, crashes>>
         /\ \A v \in Workers \ {"fast"} : job'[v] = job[v]
         /\ next'.block = mem.block /\ next'.header = mem.header
         /\ (\A n, v : Canon(n, v) \notin ToSet(todo')) /\ Bodiless(todo')
<1> DEFINE b == job["fast"].block
<1>1. /\ owner = none /\ owner' = "fast" /\ UNCHANGED <<chainDb, mem, up, phase, pivot, rewinds, crashes>>
      /\ job' = [job EXCEPT !["fast"] = Idle] /\ job["fast"].stage = "head"
      /\ \/ todo' = <<Set("headFast", b)>> /\ next' = [mem EXCEPT !.fast = b]
         \/ todo' = <<>> /\ next' = mem
  BY DEF InsertReceiptsHead, Take
<1>2. /\ todo = <<>> /\ mem \in HeadSet /\ rewinds' \in Nat /\ job \in [Workers -> JobSet] /\ "fast" # none /\ "fast" \in Workers
  BY <1>1 DEF ChainTypes, none, Workers
<1>3. job' \in [Workers -> JobSet] /\ \A v \in Workers \ {"fast"} : job'[v] = job[v]
  BY <1>1, <1>2 DEF JobSet
<1>4. b \in Blocks /\ job["fast"] # Idle
  BY <1>1, <1>2 DEF JobSet, Idle
<1> HIDE DEF b
<1>5. /\ todo' \in Seq(WriteSet) /\ ToSet(todo') \subseteq {Set("headFast", b)}
      /\ next' \in HeadSet /\ next'.block = mem.block /\ next'.header = mem.header
  <2>1. Set("headFast", b) \in WriteSet
    BY <1>4, WritesAre DEF HeadKinds
  <2>2. CASE todo' = <<Set("headFast", b)>> /\ next' = [mem EXCEPT !.fast = b]
    <3>1. todo' \in Seq(WriteSet) /\ ToSet(todo') = {Set("headFast", b)}
      BY <2>1, <2>2, ListsFew DEF Lists
    <3> QED BY <3>1, <2>2, <1>2, <1>4, HeadsAre, ZenonT(60)
  <2>3. CASE todo' = <<>> /\ next' = mem
    <3>1. todo' \in Seq(WriteSet) /\ ToSet(todo') = {}
      BY <2>3 DEF ToSet
    <3> QED BY <3>1, <2>3, <1>2
  <2> QED BY <1>1, <2>2, <2>3
<1>6. (\A n, v : Canon(n, v) \notin ToSet(todo')) /\ Bodiless(todo')
  BY <1>5 DEF Canon, Set, Bodiless, Del, Store
<1>7. ChainTypes'
  BY <1>1, <1>2, <1>3, <1>5, TakeTypes
<1> QED BY <1>1, <1>2, <1>3, <1>4, <1>5, <1>6, <1>7

\* A head that is taken back stays on its line.
LEMMA BackIsAncestor ==
  ASSUME ChainConstants, NEW top \in Blocks, NEW n \in Heights, NEW h \in Blocks,
         NEW line, line = {x \in Ancestry[top] : Number[x] > n}
  PROVE  back(h, line, n) \in Ancestry[h] /\ back(h, line, n) \in Blocks
<1>1. Ancestry[h] \subseteq Blocks /\ h \in Ancestry[h]
  BY AncestryFacts
<1>2. CASE h \in line
  <2>1. Number[h] \in Nat /\ n \in Nat /\ n <= Number[h]
    <3>1. Number[h] > n /\ Number[h] \in Nat /\ n \in Nat
      BY <1>2, HeightsAreGapless DEF ChainConstants
    <3> QED BY <3>1
  <2>2. \E x \in Ancestry[h] : Number[x] = n
    BY <2>1, LineIsGapless
  <2>3. back(h, line, n) = CHOOSE x \in Ancestry[h] : Number[x] = n
    BY <1>2 DEF back
  <2>4. back(h, line, n) \in Ancestry[h]
    BY <2>2, <2>3
  <2> QED BY <1>1, <2>4
<1>3. CASE h \notin line
  BY <1>1, <1>3 DEF back
<1> QED BY <1>2, <1>3

\* and Rollback: it writes heads only.
LEMMA RollbackFacts ==
  ASSUME ChainConstants, ChainTypes, NEW top \in Blocks \ {GenesisBlock}, NEW n \in Heights, Rollback(top, n)
  PROVE  /\ ChainTypes' /\ owner = none /\ owner' # none /\ todo = <<>> /\ phase \in {"fast", "pivot"}
         /\ phase' = IF phase = "pivot" THEN "full" ELSE phase
         /\ UNCHANGED <<chainDb, mem, job, up, pivot, rewinds, crashes>>
         /\ next'.block \in Ancestry[mem.block] /\ next'.header \in Ancestry[mem.header]
         /\ (\A m, v : Canon(m, v) \notin ToSet(todo')) /\ Bodiless(todo')
<1> DEFINE line == {x \in Ancestry[top] : Number[x] > n}
           gone == Descending(line)
           step(kind, h, x) == IF h \in line /\ x \in Ancestry[h] THEN <<Set(kind, Parent[x])>> ELSE <<>>
           steps(x) == step("headHeader", mem.header, x) \o step("headFast", mem.fast, x)
                       \o step("headBlock", mem.block, x)
           q == [i \in DOMAIN gone |-> steps(gone[i])]
           t == [block |-> back(mem.block, line, n), header |-> back(mem.header, line, n),
                 fast |-> back(mem.fast, line, n)]
<1>1. /\ owner = none /\ owner' = "rollback" /\ phase \in {"fast", "pivot"}
      /\ phase' = IF phase = "pivot" THEN "full" ELSE phase
      /\ UNCHANGED <<chainDb, mem, job, up, pivot, rewinds, crashes>>
      /\ todo' = FlattenSeq(q) /\ next' = t
  BY DEF Rollback, Take
<1>2. /\ todo = <<>> /\ mem \in HeadSet /\ rewinds' \in Nat /\ job' \in [Workers -> JobSet] /\ "rollback" # none
      /\ phase' \in {"fast", "pivot", "full"}
  BY <1>1 DEF ChainTypes, none
<1>3. mem.block \in Blocks /\ mem.header \in Blocks /\ mem.fast \in Blocks
  BY <1>2 DEF HeadSet
<1>4. /\ next' \in HeadSet /\ next'.block \in Ancestry[mem.block] /\ next'.header \in Ancestry[mem.header]
  <2>1. \A h \in Blocks : back(h, line, n) \in Ancestry[h] /\ back(h, line, n) \in Blocks
    BY BackIsAncestor
  <2> HIDE DEF line
  <2> QED BY <1>1, <1>3, <2>1 DEF HeadSet
<1> HIDE DEF t
<1>5. Keyed(line, Number) /\ line \subseteq Blocks /\ GenesisBlock \notin line
  <2>1. line \in SUBSET Ancestry[top]
    OBVIOUS
  <2>2. n \in Nat /\ Number[GenesisBlock] = 0
    BY HeightsAreGapless DEF ChainConstants
  <2>3. ~(0 > n)
    BY <2>2
  <2> QED BY <2>1, <2>2, <2>3, LineIsKeyed
<1> DEFINE c == Cardinality(line)
<1>6. Lists(gone, line, line) /\ c \in Nat /\ DOMAIN gone = 1 .. c
  BY <1>5, SortedLists DEF Descending
<1>7. \A i \in 1 .. c : gone[i] \in line
  BY <1>6 DEF Lists, ToSet
<1> HIDE DEF gone, c
<1> DEFINE W == [i \in 1 .. c |-> ToSet(steps(gone[i]))]
<1>8. ASSUME NEW x \in line
      PROVE  Lists(steps(x), ToSet(steps(x)), WriteSet) /\ \A w \in ToSet(steps(x)) : \E k, v : w = Set(k, v)
  <2>1. Parent[x] \in Blocks
    BY <1>5 DEF ChainConstants
  <2>2. ASSUME NEW kind \in HeadKinds, NEW h \in Blocks
        PROVE  /\ Lists(step(kind, h, x), ToSet(step(kind, h, x)), WriteSet)
               /\ ToSet(step(kind, h, x)) \subseteq {Set(kind, Parent[x])}
    <3>1. Set(kind, Parent[x]) \in WriteSet
      BY <2>1, WritesAre
    <3>2. /\ Lists(<<Set(kind, Parent[x])>>, ToSet(<<Set(kind, Parent[x])>>), WriteSet)
          /\ ToSet(<<Set(kind, Parent[x])>>) \subseteq {Set(kind, Parent[x])}
      BY <3>1 DEF Lists, ToSet
    <3>3. Lists(<<>>, ToSet(<<>>), WriteSet) /\ ToSet(<<>>) = {}
      BY DEF Lists, ToSet
    <3>4. CASE h \in line /\ x \in Ancestry[h]
      BY <3>2, <3>4
    <3>5. CASE ~(h \in line /\ x \in Ancestry[h])
      BY <3>3, <3>5
    <3> QED BY <3>4, <3>5
  <2> DEFINE A == step("headHeader", mem.header, x)
             B == step("headFast", mem.fast, x)
             C == step("headBlock", mem.block, x)
  <2>3. /\ Lists(A, ToSet(A), WriteSet) /\ Lists(B, ToSet(B), WriteSet) /\ Lists(C, ToSet(C), WriteSet)
        /\ ToSet(A) \subseteq {Set("headHeader", Parent[x])} /\ ToSet(B) \subseteq {Set("headFast", Parent[x])}
        /\ ToSet(C) \subseteq {Set("headBlock", Parent[x])}
    BY <1>3, <2>2 DEF HeadKinds
  <2>4. steps(x) = A \o B \o C
    OBVIOUS
  <2> HIDE DEF A, B, C, steps
  <2>5. Lists(A \o B, ToSet(A) \cup ToSet(B), WriteSet)
    BY <2>3, ListsConcat
  <2>6. Lists(A \o B \o C, (ToSet(A) \cup ToSet(B)) \cup ToSet(C), WriteSet)
    BY <2>3, <2>5, ListsConcat
  <2>7. Lists(steps(x), (ToSet(A) \cup ToSet(B)) \cup ToSet(C), WriteSet)
    BY <2>4, <2>6
  <2>8. ToSet(steps(x)) = (ToSet(A) \cup ToSet(B)) \cup ToSet(C)
    BY <2>7 DEF Lists
  <2> QED BY <2>3, <2>7, <2>8
<1>9. Lists(FlattenSeq(q), UNION {W[i] : i \in 1 .. c}, WriteSet)
  <2>1. q = [i \in 1 .. c |-> q[i]] /\ \A i \in 1 .. c : q[i] = steps(gone[i]) /\ W[i] = ToSet(steps(gone[i]))
    BY <1>6
  <2> HIDE DEF q, W, line, steps
  <2>2. ASSUME NEW i \in 1 .. c PROVE Lists(q[i], W[i], WriteSet)
    BY <1>7, <1>8, <2>1
  <2>3. c \in Nat /\ q = [i \in 1 .. c |-> q[i]] /\ \A i \in 1 .. c : Lists(q[i], W[i], WriteSet)
    BY <2>1, <2>2, <1>6
  <2> QED BY ONLY <2>3, FlattenLists
<1>10. todo' \in Seq(WriteSet) /\ \A w \in ToSet(todo') : \E k, v : w = Set(k, v)
  <2>1. \A i \in 1 .. c : W[i] = ToSet(steps(gone[i]))
    OBVIOUS
  <2> HIDE DEF q, W, line, steps
  <2>2. todo' \in Seq(WriteSet) /\ ToSet(todo') = UNION {W[i] : i \in 1 .. c}
    BY <1>1, <1>9 DEF Lists
  <2> QED BY <1>7, <1>8, <2>1, <2>2
<1>11. (\A m, v : Canon(m, v) \notin ToSet(todo')) /\ Bodiless(todo')
  <2>1. /\ \A m, v, k, x : Canon(m, v) # Set(k, x)
        /\ \A m, v, k, x : Del(m, v) # Set(k, x) /\ Store(m, v) # Set(k, x)
    BY DEF Canon, Set, Del, Store
  <2> QED BY <1>10, <2>1 DEF Bodiless
<1>12. ChainTypes'
  BY ONLY ChainTypes, <1>1, <1>2, <1>4, <1>10 DEF ChainTypes
<1> QED BY <1>1, <1>2, <1>4, <1>11, <1>12

\* The receipts are written without the mutex.
LEMMA ReceiptsFacts ==
  ASSUME ChainConstants, ChainTypes, NEW b \in Blocks \ {GenesisBlock}, InsertReceipts(b)
  PROVE  /\ ChainTypes' /\ phase = "fast" /\ UNCHANGED <<chainDb.canon, mem, todo, next, owner, up, phase, pivot, rewinds, crashes>>
         /\ chainDb'.body = chainDb.body \cup {b} /\ UNCHANGED <<chainDb.hdr, chainDb.state>>
         /\ \A v \in Workers \ {"fast"} : job'[v] = job[v]
<1> DEFINE d == Apply(chainDb, Store("body", b))
<1>1. /\ phase = "fast" /\ UNCHANGED <<mem, todo, next, owner, up, phase, pivot, rewinds, crashes>>
      /\ job' = [job EXCEPT !["fast"] = [block |-> b, stage |-> "head"]]
      /\ chainDb' = Apply(d, Lookup(Txs[b], b))
  BY DEF InsertReceipts
<1>2. chainDb \in Databases /\ job \in [Workers -> JobSet] /\ "fast" \in Workers
  BY DEF ChainTypes, Workers
<1>3. [block |-> b, stage |-> "head"] \in JobSet
  BY DEF JobSet, Stages
<1>4. job' \in [Workers -> JobSet] /\ \A v \in Workers \ {"fast"} : job'[v] = job[v]
  BY <1>1, <1>2, <1>3
<1>5. /\ d \in Databases /\ d.canon = chainDb.canon
      /\ d.body = chainDb.body \cup {b} /\ d.hdr = chainDb.hdr /\ d.state = chainDb.state
  <2>1. "body" \in Kinds
    BY DEF Kinds
  <2>2. d = [chainDb EXCEPT !["body"] = @ \cup {b}] /\ d \in Databases
    BY <1>2, <2>1, ApplyStore
  <2> QED BY <1>2, <2>2 DEF Databases
<1> HIDE DEF d
<1>6. /\ chainDb' \in Databases /\ chainDb'.canon = d.canon
      /\ chainDb'.body = d.body /\ chainDb'.hdr = d.hdr /\ chainDb'.state = d.state
  <2>1. Txs[b] \in SUBSET AllTxs /\ b \in BlockOrNone
    BY DEF AllTxs, BlockOrNone
  <2> DEFINE f == [t \in AllTxs |-> IF t \in Txs[b] THEN b ELSE d.lookup[t]]
  <2>2. chainDb' = [d EXCEPT !.lookup = f] /\ chainDb' \in Databases
    BY <1>1, <1>5, <2>1, ApplyLookup
  <2> HIDE DEF f
  <2> QED BY <1>5, <2>2 DEF Databases
<1>7. ChainTypes'
  BY <1>1, <1>4, <1>6 DEF ChainTypes
<1> QED BY <1>1, <1>4, <1>5, <1>6, <1>7

\* The pivot becomes the head block.
LEMMA CommitHeadTypes ==
  ASSUME ChainConstants, ChainTypes, NEW b \in Blocks \ {GenesisBlock}, FastSyncCommitHead(b)
  PROVE  /\ ChainTypes' /\ phase = "fast" /\ phase' = "pivot" /\ pivot' = b /\ owner = none
         /\ UNCHANGED <<chainDb.canon, todo, next, owner, job, up, rewinds, crashes>>
         /\ b \in Ancestry[mem.header] /\ mem'.block = b /\ mem'.header = mem.header
         /\ chainDb'.state = chainDb.state \cup {b} /\ UNCHANGED <<chainDb.hdr, chainDb.body>>
         /\ HasBlock(b) /\ job["fast"] = Idle
<1>1. /\ phase = "fast" /\ phase' = "pivot" /\ pivot' = b /\ owner = none /\ UNCHANGED <<todo, next, owner, job, up, rewinds, crashes>>
      /\ b \in Ancestry[mem.header] /\ mem' = [mem EXCEPT !.block = b]
      /\ chainDb' = [chainDb EXCEPT !.state = chainDb.state \cup {b}]
  BY DEF FastSyncCommitHead
<1>2. mem \in HeadSet /\ chainDb \in Databases
  BY DEF ChainTypes
<1>3. mem' \in HeadSet /\ mem'.block = b /\ mem'.header = mem.header
  BY <1>1, <1>2, HeadsAre
<1>4. /\ chainDb' \in Databases /\ chainDb'.canon = chainDb.canon
      /\ chainDb'.state = chainDb.state \cup {b} /\ chainDb'.hdr = chainDb.hdr /\ chainDb'.body = chainDb.body
  BY <1>1, <1>2 DEF Databases
<1>5. ChainTypes'
  BY <1>1, <1>3, <1>4 DEF ChainTypes, BlockOrNone
<1>6. HasBlock(b) /\ job["fast"] = Idle
  BY DEF FastSyncCommitHead
<1> QED BY <1>1, <1>3, <1>4, <1>5, <1>6

-----------------------------------------------------------------------------
(* The canonical numbers.                                                   *)

\* The block that is canonical for a number when the writes t have reached database d
Lands(d, t, n, v) ==
  \/ Canon(n, v) \in ToSet(t)
  \/ d.canon[n] = v /\ \A u \in BlockOrNone : Canon(n, u) \notin ToSet(t)

OneValue(t) == \A n \in Heights, u, v \in BlockOrNone : Canon(n, u) \in ToSet(t) /\ Canon(n, v) \in ToSet(t) => u = v
OnLine(d, t, b) == \A x \in Ancestry[b] : Lands(d, t, Number[x], x)

\* The canonical numbers are a line on their own.
Linked(d, t) ==
  \A n \in Heights, v \in Blocks : Lands(d, t, n, v) => Number[v] = n /\ (n # 0 => Lands(d, t, n - 1, Parent[v]))

\* The heads when the mutex is free again
Coming == IF owner = none THEN mem ELSE next

\* While the headers of a fast sync come, the miner rests and the head block, at first the
\* genesis block, and the blocks imported are on the line of the head header.
HeadersCome ==
  /\ phase # "full" => FastSync /\ job["mine"] = Idle
  /\ phase = "fast" => job["import"] = Idle /\ Coming.block = GenesisBlock
  /\ phase = "pivot" => /\ Coming.block \in Ancestry[Coming.header]
                        /\ job["import"] # Idle => job["import"].block \in Ancestry[Coming.header]

\* Once the writes have been made, the heads are on the canonical line; while the headers
\* of a fast sync come, the canonical numbers form one line from the genesis block.
LineInv ==
  /\ ChainTypes /\ up /\ HeadersCome
  /\ OneValue(todo) /\ OnLine(chainDb, todo, Coming.block) /\ OnLine(chainDb, todo, Coming.header)
  /\ phase # "full" => Linked(chainDb, todo)

SameLanding(d, t, e, s) == \A n \in Heights, v \in BlockOrNone : Lands(d, t, n, v) <=> Lands(e, s, n, v)

\* Lines are about what lands.
LEMMA SameLandingKeeps ==
  ASSUME ChainConstants, NEW d, NEW t, NEW e, NEW s, SameLanding(d, t, e, s)
  PROVE  /\ \A b \in Blocks : OnLine(d, t, b) => OnLine(e, s, b)
         /\ Linked(d, t) => Linked(e, s)
<1>0. \A x \in Blocks : Number[x] \in Heights /\ x \in BlockOrNone
  BY HeightsAreGapless DEF BlockOrNone
<1>1. ASSUME NEW b \in Blocks, OnLine(d, t, b) PROVE OnLine(e, s, b)
  <2>1. Ancestry[b] \subseteq Blocks
    BY AncestryFacts
  <2> QED BY <1>0, <1>1, <2>1 DEF OnLine, SameLanding
<1>2. ASSUME Linked(d, t), NEW n \in Heights, NEW v \in Blocks, Lands(e, s, n, v)
      PROVE  Number[v] = n /\ (n # 0 => Lands(e, s, n - 1, Parent[v]))
  <2>1. v \in BlockOrNone
    BY <1>0
  <2>2. Lands(d, t, n, v)
    BY <1>2, <2>1 DEF SameLanding
  <2>3. Number[v] = n /\ (n # 0 => Lands(d, t, n - 1, Parent[v]))
    BY <1>2, <2>2 DEF Linked
  <2>4. ASSUME n # 0 PROVE n - 1 \in Heights /\ Parent[v] \in BlockOrNone
    <3>1. v # GenesisBlock
      BY <2>3, <2>4 DEF ChainConstants
    <3>2. Parent[v] \in Blocks /\ Number[v] = Number[Parent[v]] + 1 /\ Number[Parent[v]] \in Nat
      BY <3>1 DEF ChainConstants
    <3>3. n - 1 = Number[Parent[v]]
      BY <2>3, <3>2
    <3> QED BY <1>0, <3>2, <3>3
  <2> QED BY <2>3, <2>4 DEF SameLanding
<1> QED BY <1>1, <1>2 DEF Linked

\* Steps that neither write nor plan to write canonical numbers
LEMMA NoCanonWrites ==
  ASSUME NEW d, NEW e, NEW t, NEW s, e.canon = d.canon,
         \A n, v : Canon(n, v) \in ToSet(s) <=> Canon(n, v) \in ToSet(t)
  PROVE  SameLanding(d, t, e, s) /\ (OneValue(t) => OneValue(s))
<1>1. SameLanding(d, t, e, s)
  BY DEF SameLanding, Lands
<1>2. OneValue(t) => OneValue(s)
  BY DEF OneValue
<1> QED BY <1>1, <1>2

\* A write changes nothing that lands.
LEMMA WriteLands ==
  ASSUME NEW d \in Databases, NEW t \in Seq(WriteSet), t # <<>>, OneValue(t)
  PROVE  SameLanding(d, t, Apply(d, Head(t)), Tail(t)) /\ OneValue(Tail(t))
<1> DEFINE w == Head(t)
           s == Tail(t)
           e == Apply(d, w)
<1>1. w \in WriteSet /\ ToSet(t) = {w} \cup ToSet(s)
  BY ListsTail
<1>2. \A n \in Heights : e.canon[n] = IF w = Canon(n, w.v) THEN w.v ELSE d.canon[n]
  BY <1>1, ApplyFacts
<1> HIDE DEF w, s, e
<1>3. OneValue(s)
  BY <1>1 DEF OneValue
<1>4. ASSUME NEW n \in Heights, NEW v \in BlockOrNone PROVE Lands(d, t, n, v) <=> Lands(e, s, n, v)
  <2>1. CASE w = Canon(n, w.v)
    <3>1. w.v \in BlockOrNone
      BY <1>1, <2>1 DEF WriteSet, Canon, BlockOrNone
    <3>2. e.canon[n] = w.v
      BY <1>2, <2>1
    <3>3. Canon(n, w.v) \in ToSet(t)
      BY <1>1, <2>1
    <3>4. \A u \in BlockOrNone : Canon(n, u) \in ToSet(t) => u = w.v
      BY <3>1, <3>3 DEF OneValue
    <3>5. \A u : Canon(n, u) \in ToSet(s) => Canon(n, u) \in ToSet(t)
      BY <1>1
    <3>6. Lands(d, t, n, v) <=> v = w.v
      BY <3>1, <3>3, <3>4 DEF Lands
    <3>7. Lands(e, s, n, v) <=> v = w.v
      <4>1. CASE Canon(n, w.v) \in ToSet(s)
        BY <4>1, <3>1, <3>4, <3>5 DEF Lands
      <4>2. CASE Canon(n, w.v) \notin ToSet(s)
        <5>1. \A u \in BlockOrNone : Canon(n, u) \notin ToSet(s)
          BY <4>2, <3>4, <3>5
        <5> QED BY <5>1, <3>2 DEF Lands
      <4> QED BY <4>1, <4>2
    <3> QED BY <3>6, <3>7
  <2>2. CASE w # Canon(n, w.v)
    <3>1. e.canon[n] = d.canon[n]
      BY <1>2, <2>2
    <3>2. \A u : w # Canon(n, u)
      BY <2>2 DEF Canon
    <3>3. \A u : Canon(n, u) \in ToSet(s) <=> Canon(n, u) \in ToSet(t)
      BY <1>1, <3>2
    <3> QED BY <3>1, <3>3 DEF Lands
  <2> QED BY <2>1, <2>2
<1>5. SameLanding(d, t, e, s)
  BY <1>4 DEF SameLanding
<1> QED BY <1>3, <1>5 DEF w, s, e

\* Without writes
LEMMA NothingToLand ==
  ASSUME NEW d, NEW n, NEW v PROVE Lands(d, <<>>, n, v) <=> d.canon[n] = v
<1>1. ToSet(<<>>) = {}
  BY DEF ToSet
<1> QED BY <1>1 DEF Lands

\* The ancestors of a block on a line are on it.
LEMMA AncestorOnLine ==
  ASSUME ChainConstants, NEW d, NEW t, NEW b \in Blocks, OnLine(d, t, b), NEW x \in Ancestry[b]
  PROVE  OnLine(d, t, x)
BY AncestryFacts DEF OnLine

\* On a line of its own every canonical block has its ancestors below it.
LEMMA LinkedLine ==
  ASSUME ChainConstants, NEW d, NEW t, Linked(d, t), NEW b \in Blocks, Lands(d, t, Number[b], b)
  PROVE  OnLine(d, t, b)
<1> DEFINE S == {x \in Blocks : Lands(d, t, Number[x], x)}
<1>1. b \in S
  OBVIOUS
<1>2. ASSUME NEW x \in S, x # GenesisBlock PROVE Parent[x] \in S
  <2>1. Parent[x] \in Blocks /\ Number[x] = Number[Parent[x]] + 1 /\ Number[Parent[x]] \in Nat /\ Number[x] \in Heights
    BY <1>2, HeightsAreGapless DEF ChainConstants
  <2>2. Number[x] # 0 /\ Number[x] - 1 = Number[Parent[x]]
    BY <2>1
  <2>3. Lands(d, t, Number[x] - 1, Parent[x])
    BY <2>1, <2>2 DEF Linked
  <2> QED BY <2>1, <2>2, <2>3
<1>3. \A x \in S : x \in Blocks /\ (x # GenesisBlock => Parent[x] \in S)
  BY <1>2
<1>4. Ancestry[b] \subseteq S
  <2> HIDE DEF S
  <2> QED BY <1>1, <1>3, AncestryIsLeast
<1> QED BY <1>4 DEF OnLine

-----------------------------------------------------------------------------

\* LineInv holds at the start,
LEMMA LineInit == ASSUME ChainConstants, ChainInit PROVE LineInv
<1>1. ChainTypes
  BY ChainInitTypes
<1>2. up /\ todo = <<>> /\ Coming = Heads(GenesisBlock) /\ job = [w \in Workers |-> Idle]
      /\ phase = (IF FastSync THEN "fast" ELSE "full")
      /\ chainDb.canon = [n \in Heights |-> IF n = 0 THEN GenesisBlock ELSE none]
  BY DEF ChainInit, Coming
<1>3. GenesisBlock \in Blocks /\ Number[GenesisBlock] = 0 /\ 0 \in Heights /\ none \notin Blocks
  BY HeightsAreGapless DEF ChainConstants
<1>4. Ancestry[GenesisBlock] = {GenesisBlock}
  BY <1>3, AncestryFacts
<1>5. chainDb.canon[0] = GenesisBlock /\ \A n \in Heights : n # 0 => chainDb.canon[n] = none
  BY <1>2, <1>3
<1>6. OnLine(chainDb, todo, GenesisBlock)
  BY <1>2, <1>3, <1>4, <1>5, NothingToLand DEF OnLine
<1>7. OneValue(todo)
  <2>1. ToSet(todo) = {}
    BY <1>2 DEF ToSet
  <2> QED BY <2>1 DEF OneValue
<1>8. Linked(chainDb, todo)
  <2>1. ASSUME NEW n \in Heights, NEW v \in Blocks, Lands(chainDb, todo, n, v) PROVE n = 0 /\ v = GenesisBlock
    <3>1. chainDb.canon[n] = v
      BY <2>1, <1>2, NothingToLand
    <3> QED BY <3>1, <1>3, <1>5
  <2> QED BY <2>1, <1>3 DEF Linked
<1>9. Coming.block = GenesisBlock /\ Coming.header = GenesisBlock
  BY <1>2 DEF Heads
<1>10. HeadersCome
  BY <1>2, <1>9 DEF HeadersCome, Workers
<1> QED BY <1>1, <1>2, <1>6, <1>7, <1>8, <1>9, <1>10 DEF LineInv

\* A step that changes nothing that lands, and not the heads to come
LEMMA LineKept ==
  ASSUME ChainConstants, LineInv, ChainTypes', up', SameLanding(chainDb, todo, chainDb', todo'), OneValue(todo'),
         Coming'.block \in Ancestry[Coming.block], Coming'.header \in Ancestry[Coming.header],
         phase' = phase \/ phase' = "full", HeadersCome'
  PROVE  LineInv'
<1>1. Coming.block \in Blocks /\ Coming.header \in Blocks
  BY ChainFields DEF LineInv, Coming
<1>2. OnLine(chainDb', todo', Coming.block) /\ OnLine(chainDb', todo', Coming.header)
  BY <1>1, SameLandingKeeps DEF LineInv
<1>3. phase' # "full" => Linked(chainDb', todo')
  BY SameLandingKeeps DEF LineInv
<1>4. OnLine(chainDb', todo', Coming'.block) /\ OnLine(chainDb', todo', Coming'.header)
  BY <1>1, <1>2, AncestorOnLine
<1> QED BY ONLY <1>3, <1>4, ChainTypes', up', OneValue(todo'), HeadersCome', Zenon DEF LineInv

\* that leaves the heads to come as they are
LEMMA SameHeads ==
  ASSUME ChainConstants, ChainTypes, Coming'.block = Coming.block, Coming'.header = Coming.header
  PROVE  Coming'.block \in Ancestry[Coming.block] /\ Coming'.header \in Ancestry[Coming.header]
<1>1. Coming.block \in Blocks /\ Coming.header \in Blocks
  BY ChainFields DEF Coming
<1> QED BY <1>1, AncestryFacts

\* and the workers too
LEMMA SameHeadersCome ==
  ASSUME HeadersCome, phase' = phase, Coming'.block = Coming.block, Coming'.header = Coming.header,
         job'["import"] = job["import"], job'["mine"] = job["mine"]
  PROVE  HeadersCome'
BY DEF HeadersCome

\* One write, or the release of the mutex, keeps it;
LEMMA LineNextWrite == ASSUME ChainConstants, LineInv, NextWrite PROVE LineInv'
<1>1. ChainTypes /\ ChainTypes' /\ up' /\ phase' = phase /\ job' = job /\ owner # none
  BY NextWriteTypes DEF LineInv, NextWrite
<1>2. HeadersCome
  BY DEF LineInv
<1>3. CASE todo = <<>>
  <2>1. owner' = none /\ mem' = next /\ chainDb' = chainDb /\ todo' = todo
    BY <1>3 DEF NextWrite
  <2>2. Coming' = Coming
    BY <1>1, <2>1 DEF Coming
  <2>3. SameLanding(chainDb, todo, chainDb', todo') /\ OneValue(todo')
    BY <2>1 DEF SameLanding, LineInv
  <2>4. Coming'.block = Coming.block /\ Coming'.header = Coming.header
    BY <2>2
  <2> QED BY <1>1, <1>2, <2>3, <2>4, LineKept, SameHeads, SameHeadersCome
<1>4. CASE todo # <<>>
  <2>1. chainDb' = Apply(chainDb, Head(todo)) /\ todo' = Tail(todo) /\ owner' = owner /\ next' = next
    BY <1>4 DEF NextWrite
  <2>2. Coming'.block = Coming.block /\ Coming'.header = Coming.header
    BY <1>1, <2>1 DEF Coming
  <2>3. chainDb \in Databases /\ todo \in Seq(WriteSet) /\ OneValue(todo)
    BY <1>1 DEF ChainTypes, LineInv
  <2>4. SameLanding(chainDb, todo, chainDb', todo') /\ OneValue(todo')
    BY <1>4, <2>1, <2>3, WriteLands
  <2> QED BY <1>1, <1>2, <2>2, <2>4, LineKept, SameHeads, SameHeadersCome
<1> QED BY <1>3, <1>4

\* so do the steps without the mutex.
LEMMA LineJob ==
  ASSUME ChainConstants, LineInv, NEW w \in {"import", "mine"}, NEW b \in Blocks,
         Process(w, b) \/ ReadTd(w) \/ WriteKnown(w) \/ WriteTxLookupEntries(w)
  PROVE  LineInv'
<1>1. w \in Workers /\ ChainTypes /\ HeadersCome
  BY DEF Workers, LineInv
<1>2. /\ ChainTypes' /\ UNCHANGED <<mem, todo, next, owner, up, phase, pivot>> /\ UNCHANGED chainDb.canon
      /\ \A v \in Workers \ {w} : job'[v] = job[v]
      /\ \/ job'[w] = Idle
         \/ Process(w, b) /\ job'[w].block = b
         \/ job[w] # Idle /\ job'[w].block = job[w].block
  BY <1>1, JobStepTypes
<1>3. job[w] # Idle \/ (Process(w, b) /\ MayImport(w, b))
  BY DEF Process, ReadTd, WriteKnown, WriteTxLookupEntries, Idle
<1>4. SameLanding(chainDb, todo, chainDb', todo') /\ OneValue(todo')
  <2>1. OneValue(todo) /\ chainDb'.canon = chainDb.canon /\ \A n, v : Canon(n, v) \in ToSet(todo') <=> Canon(n, v) \in ToSet(todo)
    BY <1>2 DEF LineInv
  <2> QED BY ONLY <2>1, NoCanonWrites
<1>5. Coming'.block = Coming.block /\ Coming'.header = Coming.header /\ up' /\ phase' = phase
  BY <1>2 DEF Coming, LineInv
<1>6. phase # "fast"
  BY <1>1, <1>3 DEF HeadersCome, MayImport
<1>7. HeadersCome'
  <2>1. CASE phase = "full"
    BY <1>5, <2>1 DEF HeadersCome
  <2>2. CASE phase = "pivot"
    <3>1. w = "import" /\ (Process(w, b) => b \in Ancestry[Coming.header])
      BY <1>1, <1>3, <2>2 DEF HeadersCome, MayImport, Process, Coming
    <3>2. job'["mine"] = job["mine"]
      BY <1>2, <3>1 DEF Workers
    <3>3. job'["import"] # Idle => job'["import"].block \in Ancestry[Coming.header]
      BY <1>1, <1>2, <2>2, <3>1 DEF HeadersCome
    <3> QED BY <1>1, <1>5, <2>2, <3>2, <3>3 DEF HeadersCome
  <2> QED BY <1>1, <1>6, <2>1, <2>2 DEF ChainTypes
<1> QED BY <1>1, <1>2, <1>4, <1>5, <1>7, LineKept, SameHeads

\* WriteBlock: the numbers it writes are those of the new ancestors, and an old number
\* that stays is one of a common ancestor.
LEMMA LineBlock ==
  ASSUME ChainConstants, LineInv, NEW w \in {"import", "mine"}, NEW canonical \in BOOLEAN, WriteBlock(w, canonical)
  PROVE  LineInv'
<1> DEFINE b == job[w].block
           new == Ancestry[b] \ Ancestry[mem.block]
           d == chainDb
           t == todo'
<1>1. w \in Workers /\ ChainTypes /\ up
  BY DEF Workers, LineInv
<1>2. /\ b \in Blocks \ {GenesisBlock} /\ BlockStored(b) /\ (OnlyStored \/ MadeCanonical(b, new))
      /\ owner = none /\ owner' = w /\ todo = <<>> /\ job[w] # Idle
      /\ UNCHANGED <<chainDb, mem, up, phase, pivot, rewinds, crashes>>
  BY <1>1, BlockFacts
<1>3. /\ ChainTypes' /\ w # none /\ phase # "fast" /\ phase' # "fast"
      /\ (\A v \in Workers \ {w} : job'[v] = job[v]) /\ (job'[w] = Idle \/ job'[w].block = b)
  BY <1>1, <1>2, BlockTypes DEF LineInv, HeadersCome, Workers, none
<1>4. Coming = mem /\ Coming' = next' /\ chainDb' = d
  BY <1>2, <1>3 DEF Coming
<1>5. mem.block \in Blocks /\ mem.header \in Blocks
  BY <1>1, ChainFields
<1>6. /\ \A x \in Ancestry[mem.block] : d.canon[Number[x]] = x
      /\ \A x \in Ancestry[mem.header] : d.canon[Number[x]] = x
  BY <1>2, <1>4, NothingToLand DEF LineInv, OnLine
<1>10. ASSUME phase = "pivot", MadeCanonical(b, new) PROVE HeadersCome' /\ Linked(d, t)
  <2>1. w = "import" /\ b \in Ancestry[mem.header] /\ FastSync /\ job["mine"] = Idle /\ Linked(d, <<>>)
    BY <1>2, <1>4, <1>10 DEF LineInv, HeadersCome
  <2>2. Ancestry[b] \subseteq Ancestry[mem.header] /\ b \in Ancestry[b]
    BY <1>2, <1>5, <2>1, AncestryFacts
  <2>3. \A x \in new \cup {b} : d.canon[Number[x]] = x /\ ~Uncanonical(x)
    BY <1>6, <2>2 DEF Uncanonical
  <2>4. next'.block = b /\ next'.header = mem.header
    BY <1>10, <2>3 DEF MadeCanonical
  <2>5. \A n, v : Canon(n, v) \in ToSet(t) => d.canon[n] = v /\ v \in Blocks
    BY <1>10, <2>3, <2>2, <1>5, AncestryFacts DEF MadeCanonical
  <2>6. SameLanding(d, <<>>, d, t)
    <3>1. \A n, v : Lands(d, <<>>, n, v) <=> d.canon[n] = v
      BY NothingToLand
    <3> HIDE DEF d, t
    <3>2. ASSUME NEW n \in Heights, NEW v \in BlockOrNone PROVE d.canon[n] = v <=> Lands(d, t, n, v)
      <4>1. CASE \E u : Canon(n, u) \in ToSet(t)
        <5>1. PICK u : Canon(n, u) \in ToSet(t)
          BY <4>1
        <5>2. u = d.canon[n] /\ u \in BlockOrNone
          BY <2>5, <5>1 DEF BlockOrNone
        <5> QED BY <2>5, <5>1, <5>2 DEF Lands
      <4>2. CASE ~\E u : Canon(n, u) \in ToSet(t)
        BY <4>2 DEF Lands
      <4> QED BY <4>1, <4>2
    <3> QED BY <3>1, <3>2 DEF SameLanding
  <2>7. Linked(d, t)
    BY <2>1, <2>6, SameLandingKeeps
  <2>8. job'["mine"] = Idle /\ (job'["import"] # Idle => job'["import"].block = b)
    BY <1>3, <2>1 DEF Workers
  <2>9. HeadersCome'
    BY <1>2, <1>4, <1>10, <2>1, <2>2, <2>4, <2>8 DEF HeadersCome
  <2> QED BY <2>7, <2>9
<1>11. ASSUME phase = "pivot", OnlyStored PROVE HeadersCome' /\ Linked(d, t)
  <2>1. w = "import" /\ b \in Ancestry[mem.header] /\ FastSync /\ job["mine"] = Idle /\ Linked(d, <<>>)
        /\ mem.block \in Ancestry[mem.header]
    BY <1>2, <1>4, <1>11 DEF LineInv, HeadersCome
  <2>2. (\A n, v : Canon(n, v) \notin ToSet(t)) /\ next' = mem
    BY <1>11 DEF OnlyStored
  <2>3. \A n, v : Lands(d, <<>>, n, v) <=> Lands(d, t, n, v)
    BY <2>2, NothingToLand DEF Lands
  <2>4. Linked(d, t)
    BY <2>1, <2>3 DEF Linked
  <2>5. job'["mine"] = Idle /\ (job'["import"] # Idle => job'["import"].block = b)
    BY <1>3, <2>1 DEF Workers
  <2>6. HeadersCome'
    BY <1>2, <1>4, <1>11, <2>1, <2>2, <2>5 DEF HeadersCome
  <2> QED BY <2>4, <2>6
<1>12. HeadersCome' /\ (phase' # "full" => Linked(d, t))
  <2>1. CASE phase = "full"
    BY <1>2, <2>1 DEF HeadersCome
  <2>2. CASE phase = "pivot"
    BY <1>2, <2>2, <1>10, <1>11
  <2> QED BY <1>1, <1>3, <2>1, <2>2 DEF ChainTypes
<1>7. SUFFICES OneValue(t) /\ OnLine(d, t, next'.block) /\ OnLine(d, t, next'.header)
  BY <1>1, <1>2, <1>3, <1>4, <1>12 DEF LineInv
<1>8. CASE OnlyStored
  <2>1. (\A n, v : Canon(n, v) \notin ToSet(t)) /\ next' = mem
    BY <1>8 DEF OnlyStored
  <2>2. OneValue(t)
    BY <2>1 DEF OneValue
  <2>3. OnLine(d, t, mem.block) /\ OnLine(d, t, mem.header)
    BY <1>6, <2>1 DEF OnLine, Lands
  <2> QED BY <2>1, <2>2, <2>3
<1>9. CASE MadeCanonical(b, new)
  <2>1. /\ \A x \in new \cup {b} : Canon(Number[x], x) \in ToSet(t)
        /\ \A n, v : Canon(n, v) \in ToSet(t) => v \in new \cup {b} /\ n = Number[v]
        /\ next'.block = b
        /\ \/ next'.header = mem.header /\ \A x \in new : ~Uncanonical(x)
           \/ next'.header \in new \cup {b}
    BY <1>9 DEF MadeCanonical
  <2>2. b \in Blocks /\ b \in Ancestry[b] /\ Ancestry[b] \subseteq Blocks /\ new \cup {b} \subseteq Ancestry[b]
    BY <1>2, AncestryFacts
  <2>3. \A x, y \in Ancestry[b] : Number[x] = Number[y] => x = y
    BY <2>2, NumbersDiffer
  <2> HIDE DEF b, t, d
  <2>4. OneValue(t)
    BY <2>1, <2>2, <2>3 DEF OneValue
  <2>5. ASSUME NEW x \in Ancestry[b] PROVE Lands(d, t, Number[x], x)
    <3>1. CASE x \in new
      BY <3>1, <2>1 DEF Lands
    <3>2. CASE x \notin new /\ Canon(Number[x], x) \notin ToSet(t)
      <4>1. d.canon[Number[x]] = x
        BY <3>2, <1>6
      <4>2. ASSUME NEW u, Canon(Number[x], u) \in ToSet(t) PROVE FALSE
        <5>1. u \in Ancestry[b] /\ Number[u] = Number[x]
          BY <4>2, <2>1, <2>2
        <5>2. u = x
          BY <5>1, <2>3
        <5> QED BY <5>2, <4>2, <3>2
      <4> QED BY <4>1, <4>2 DEF Lands
    <3>3. CASE Canon(Number[x], x) \in ToSet(t)
      BY <3>3 DEF Lands
    <3> QED BY <3>1, <3>2, <3>3
  <2>6. OnLine(d, t, b)
    BY <2>5 DEF OnLine
  <2>7. CASE next'.header \in new \cup {b}
    <3>1. next'.header \in Ancestry[b]
      BY <2>2, <2>7
    <3>2. OnLine(d, t, next'.header)
      BY <2>2, <2>6, <3>1, AncestorOnLine
    <3> QED BY <2>1, <2>4, <2>6, <3>2
  <2>8. CASE next'.header = mem.header /\ \A x \in new : ~Uncanonical(x)
    <3>1. \A x \in new \cup {b} : d.canon[Number[x]] = x
      <4>1. \A x \in new : d.canon[Number[x]] = x
        BY <2>8 DEF Uncanonical, d
      <4>2. b \in new \/ b \in Ancestry[mem.block]
        BY <2>2
      <4> QED BY <4>1, <4>2, <1>6
    <3>2. ASSUME NEW x \in Ancestry[mem.header] PROVE Lands(d, t, Number[x], x)
      <4>1. d.canon[Number[x]] = x
        BY <1>6
      <4>2. ASSUME NEW u, Canon(Number[x], u) \in ToSet(t) PROVE u = x
        <5>1. u \in new \cup {b} /\ Number[x] = Number[u]
          BY <4>2, <2>1
        <5> QED BY <5>1, <3>1, <4>1
      <4> QED BY <4>1, <4>2 DEF Lands
    <3>3. OnLine(d, t, next'.header)
      BY <2>8, <3>2 DEF OnLine
    <3> QED BY <2>1, <2>4, <2>6, <3>3
  <2> QED BY <2>1, <2>7, <2>8
<1> QED BY <1>2, <1>8, <1>9

\* SetHead: only numbers above the new heads are deleted.
LEMMA LineSetHead ==
  ASSUME ChainConstants, MaxRewinds \in Nat, FastSync => MaxRewinds = 0, LineInv, NEW n \in Heights, SetHead(n)
  PROVE  LineInv'
<1> DEFINE d == chainDb
           t == todo'
<1>1. ChainTypes /\ up
  BY DEF LineInv
<1>2. /\ RewoundOK(n, mem.block, mem.header, todo', next') /\ ChainTypes'
      /\ owner = none /\ owner' # none /\ todo = <<>> /\ rewinds < MaxRewinds
      /\ UNCHANGED <<chainDb, mem, job, up, phase, pivot, crashes>>
  BY <1>1, SetHeadFacts
<1>3. ~FastSync
  BY <1>1, <1>2 DEF ChainTypes
<1>4. Coming = mem /\ Coming' = next' /\ chainDb' = d /\ phase' = "full"
  BY <1>2, <1>3 DEF Coming, LineInv, HeadersCome
<1>5. mem.block \in Blocks /\ mem.header \in Blocks /\ n \in Nat /\ GenesisBlock \in Blocks
  BY <1>1, ChainFields, HeightsAreGapless DEF ChainConstants
<1>6. OnLine(d, <<>>, mem.block) /\ OnLine(d, <<>>, mem.header)
  BY <1>2, <1>4 DEF LineInv
<1>7. SUFFICES OneValue(t) /\ OnLine(d, t, next'.block) /\ OnLine(d, t, next'.header)
  BY <1>1, <1>2, <1>4 DEF LineInv, HeadersCome
<1>8. /\ \A m, v : Canon(m, v) \in ToSet(t) => v = none /\ m \in Nat /\ m > n
      /\ next'.header \in Ancestry[mem.header] /\ Number[next'.header] <= n
      /\ \/ next'.block = mem.block /\ mem.block \in chainDb.state /\ Number[mem.block] <= n
         \/ next'.block = next'.header /\ next'.block \in chainDb.state
         \/ next'.block = GenesisBlock
  BY <1>2 DEF RewoundOK
<1> HIDE DEF t, d
<1>9. OneValue(t)
  BY <1>8 DEF OneValue
<1>10. ASSUME NEW b \in Blocks, OnLine(d, <<>>, b), Number[b] <= n PROVE OnLine(d, t, b)
  <2>1. ASSUME NEW x \in Ancestry[b] PROVE Lands(d, t, Number[x], x)
    <3>1. d.canon[Number[x]] = x
      BY <1>10, NothingToLand DEF OnLine
    <3>2. x \in Blocks /\ Number[x] <= Number[b]
      BY AncestryFacts
    <3>3. Number[x] \in Nat /\ Number[b] \in Nat
      BY <3>2 DEF ChainConstants
    <3>4. ~(Number[x] > n)
      BY <1>5, <1>10, <3>2, <3>3
    <3>5. \A u : Canon(Number[x], u) \notin ToSet(t)
      BY <1>8, <3>4
    <3> QED BY <3>1, <3>5 DEF Lands
  <2> QED BY <2>1 DEF OnLine
<1>11. next'.header \in Blocks /\ OnLine(d, <<>>, next'.header)
  BY <1>5, <1>6, <1>8, AncestryFacts, AncestorOnLine
<1>12. OnLine(d, t, next'.header)
  BY <1>8, <1>10, <1>11
<1>13. OnLine(d, t, next'.block)
  <2>1. CASE next'.block = mem.block /\ Number[mem.block] <= n
    <3>1. OnLine(d, t, mem.block)
      BY <1>5, <1>6, <1>10, <2>1
    <3> QED BY <2>1, <3>1
  <2>2. CASE next'.block = next'.header
    <3>1. OnLine(d, t, next'.header)
      BY <1>12
    <3> QED BY <2>2, <3>1
  <2>3. CASE next'.block = GenesisBlock
    <3>1. GenesisBlock \in Ancestry[next'.header]
      BY <1>11, GenesisIsAncestor
    <3>2. OnLine(d, t, GenesisBlock)
      BY <1>11, <1>12, <3>1, AncestorOnLine
    <3> QED BY <2>3, <3>2
  <2> QED BY <1>8, <2>1, <2>2, <2>3
<1> QED BY <1>9, <1>12, <1>13

\* A canonical header: the line through it replaces the canonical one.
LEMMA HeaderLine ==
  ASSUME ChainConstants, ChainTypes, NEW b \in Blocks \ {GenesisBlock}, NEW t, HeaderOK(b, t), Linked(chainDb, <<>>)
  PROVE  OneValue(t) /\ OnLine(chainDb, t, b) /\ Linked(chainDb, t)
<1> DEFINE d == chainDb
<1>1. /\ stale(b) \subseteq Ancestry[b]
      /\ \A n, v : Canon(n, v) \in ToSet(t) =>
             (n \in above(Number[b]) /\ v = none) \/ (v \in stale(b) \cup {b} /\ n = Number[v])
      /\ \A n \in above(Number[b]) : Canon(n, none) \in ToSet(t)
      /\ \A v \in stale(b) \cup {b} : Canon(Number[v], v) \in ToSet(t)
  BY DEF HeaderOK
<1>2. /\ b \in Ancestry[b] /\ Ancestry[b] \subseteq Blocks /\ Parent[b] \in Blocks
      /\ Ancestry[b] = {b} \cup Ancestry[Parent[b]] /\ none \notin Blocks
      /\ \A x \in Ancestry[b] : Number[x] <= Number[b]
  BY AncestryFacts DEF ChainConstants
<1>3. \A x, y \in Ancestry[b] : Number[x] = Number[y] => x = y
  BY NumbersDiffer
<1>4. Heights \subseteq Nat /\ \A x \in Blocks : Number[x] \in Heights /\ Number[x] \in Nat
  BY HeightsAreGapless
<1>5. ASSUME NEW n \in above(Number[b]) PROVE n \in Heights /\ n > Number[b]
  BY DEF above
<1>6. ASSUME NEW x \in Ancestry[b], NEW u, Canon(Number[x], u) \in ToSet(t) PROVE u = x /\ u \in stale(b) \cup {b}
  <2>1. Number[x] \notin above(Number[b])
    <3>1. Number[x] \in Nat /\ Number[b] \in Nat /\ Number[x] <= Number[b]
      BY <1>2, <1>4
    <3>2. ~(Number[x] > Number[b])
      BY <3>1
    <3> QED BY <1>5, <3>2
  <2>2. u \in stale(b) \cup {b} /\ Number[u] = Number[x]
    BY <1>1, <1>6, <2>1
  <2> QED BY <1>1, <1>2, <1>3, <2>2
<1>7. OneValue(t)
  <2>1. ASSUME NEW n \in Heights, NEW u \in BlockOrNone, NEW v \in BlockOrNone, Canon(n, u) \in ToSet(t), Canon(n, v) \in ToSet(t)
        PROVE  u = v
    <3>1. CASE u \in stale(b) \cup {b} /\ n = Number[u]
      <4>1. u \in Ancestry[b]
        BY <1>1, <1>2, <3>1
      <4> QED BY <4>1, <3>1, <2>1, <1>6
    <3>2. CASE v \in stale(b) \cup {b} /\ n = Number[v]
      <4>1. v \in Ancestry[b]
        BY <1>1, <1>2, <3>2
      <4> QED BY <4>1, <3>2, <2>1, <1>6
    <3>3. CASE u = none /\ v = none
      BY <3>3
    <3> QED BY <1>1, <2>1, <3>1, <3>2, <3>3
  <2> QED BY <2>1 DEF OneValue
<1>8. ASSUME NEW x \in Ancestry[b] PROVE Lands(d, t, Number[x], x)
  <2>1. CASE x \in stale(b) \cup {b}
    BY <1>1, <2>1 DEF Lands
  <2>2. CASE x \notin stale(b) \cup {b}
    <3>1. x \in Ancestry[Parent[b]] /\ x # b
      BY <1>2, <2>2
    <3>2. PICK y \in Ancestry[Parent[b]] : Number[y] >= Number[x] /\ ~Uncanonical(y)
      BY <2>2, <3>1 DEF stale
    <3>3. y \in Ancestry[b] /\ y \in Blocks /\ x \in Blocks
      BY <1>2, <3>2
    <3>4. d.canon[Number[y]] = y
      BY <3>2 DEF Uncanonical
    <3>5. OnLine(d, <<>>, y)
      BY <3>3, <3>4, NothingToLand, LinkedLine
    <3>6. x \in Ancestry[y]
      <4>1. CASE y \in Ancestry[x]
        <5>1. Number[y] <= Number[x] /\ Number[x] \in Nat /\ Number[y] \in Nat
          BY <3>3, <4>1, <1>4, AncestryFacts
        <5>2. Number[x] = Number[y]
          BY <5>1, <3>2
        <5>3. x = y
          BY <5>2, <3>3, <1>3
        <5> QED BY <5>3, <3>3, AncestryFacts
      <4> QED BY <4>1, <3>3, AncestryIsLine
    <3>7. d.canon[Number[x]] = x
      BY <3>5, <3>6, NothingToLand DEF OnLine
    <3>8. \A u : Canon(Number[x], u) \notin ToSet(t)
      BY <1>6, <2>2
    <3> QED BY <3>7, <3>8 DEF Lands
  <2> QED BY <2>1, <2>2
<1>9. OnLine(d, t, b)
  BY <1>8 DEF OnLine
<1>10. ASSUME NEW n \in Heights, NEW v \in Blocks, Lands(d, t, n, v) PROVE v \in Ancestry[b] /\ Number[v] = n
  <2>1. CASE Canon(n, v) \in ToSet(t)
    BY <1>1, <1>2, <2>1
  <2>2. CASE Canon(n, v) \notin ToSet(t)
    <3>1. d.canon[n] = v /\ \A u \in BlockOrNone : Canon(n, u) \notin ToSet(t)
      BY <1>10, <2>2 DEF Lands
    <3>2. n \in Nat /\ Number[b] \in Nat
      BY <1>4
    <3>3. CASE n <= Number[b]
      <4>1. PICK x \in Ancestry[b] : Number[x] = n
        BY <3>2, <3>3, LineIsGapless
      <4>2. x \in BlockOrNone
        BY <1>2, <4>1 DEF BlockOrNone
      <4>3. d.canon[n] = x
        BY <1>8, <3>1, <4>1, <4>2 DEF Lands
      <4> QED BY <3>1, <4>1, <4>3
    <3>4. CASE ~(n <= Number[b])
      <4>1. Lands(d, <<>>, n, v)
        BY <3>1, NothingToLand
      <4>2. Number[v] = n
        BY <4>1 DEF Linked
      <4>3. OnLine(d, <<>>, v)
        BY <4>1, <4>2, LinkedLine
      <4>4. ASSUME NEW j \in (Number[b] + 1) .. n PROVE chainDb.canon[j] # none
        <5>1. j \in Nat /\ j <= Number[v]
          BY <3>2, <4>2
        <5>2. PICK x \in Ancestry[v] : Number[x] = j
          BY <5>1, LineIsGapless
        <5>3. chainDb.canon[j] = x
          BY <4>3, <5>2, NothingToLand DEF OnLine
        <5>4. x \in Blocks
          BY AncestryFacts
        <5> QED BY <5>3, <5>4, <1>2
      <4>5. n > Number[b]
        BY <3>2, <3>4
      <4>6. n \in above(Number[b])
        BY <4>4, <4>5 DEF above
      <4>7. Canon(n, none) \in ToSet(t) /\ none \in BlockOrNone
        BY <4>6, <1>1 DEF BlockOrNone
      <4> QED BY <4>7, <3>1
    <3> QED BY <3>3, <3>4
  <2> QED BY <2>1, <2>2
<1>11. ASSUME NEW n \in Heights, NEW v \in Blocks, Lands(d, t, n, v), n # 0 PROVE Lands(d, t, n - 1, Parent[v])
  <2>1. v \in Ancestry[b] /\ Number[v] = n
    BY <1>10, <1>11
  <2>2. v # GenesisBlock
    BY <1>11, <2>1 DEF ChainConstants
  <2>3. Parent[v] \in Ancestry[b] /\ Number[v] = Number[Parent[v]] + 1 /\ Number[Parent[v]] \in Nat
    BY <2>1, <2>2, AncestryFacts DEF ChainConstants
  <2>4. n - 1 = Number[Parent[v]]
    BY <2>1, <2>3
  <2> QED BY <2>3, <2>4, <1>8
<1>12. Linked(d, t)
  BY <1>10, <1>11 DEF Linked
<1> QED BY <1>7, <1>9, <1>12

\* WriteHeader of a canonical header: what is stale is replaced, what is above deleted.
LEMMA LineHeader ==
  ASSUME ChainConstants, LineInv, NEW b \in Blocks \ {GenesisBlock}, NEW canonical \in BOOLEAN, WriteHeader(b, canonical)
  PROVE  LineInv'
<1>1. ChainTypes /\ up /\ HeadersCome
  BY DEF LineInv
<1>2. /\ ChainTypes' /\ owner = none /\ owner' # none /\ todo = <<>> /\ MayImportHeader(b)
      /\ UNCHANGED <<chainDb, mem, job, up, phase, pivot, rewinds, crashes>>
      /\ next'.block = mem.block
      /\ \/ next'.header = b /\ HeaderOK(b, todo')
         \/ next'.header = mem.header /\ \A n, v : Canon(n, v) \notin ToSet(todo')
  BY <1>1, WriteHeaderFacts
<1>3. Coming = mem /\ Coming' = next' /\ up' /\ phase' = phase /\ job' = job
  BY <1>1, <1>2 DEF Coming
<1>4. FastSync /\ Linked(chainDb, <<>>) /\ job["mine"] = Idle /\ job["import"] = Idle
  BY <1>1, <1>2, <1>3 DEF LineInv, HeadersCome, MayImportHeader
<1>5. CASE next'.header = b /\ HeaderOK(b, todo')
  <2>1. OneValue(todo') /\ OnLine(chainDb, todo', b) /\ Linked(chainDb, todo')
    BY <1>1, <1>4, <1>5, HeaderLine
  <2>2. mem.block \in Ancestry[b]
    <3>1. CASE phase = "fast"
      BY <1>1, <1>3, <3>1, GenesisIsAncestor DEF HeadersCome
    <3>2. CASE phase = "pivot"
      <4>1. mem.header \in Ancestry[b] /\ mem.block \in Ancestry[mem.header]
        BY <1>1, <1>2, <1>3, <3>2 DEF HeadersCome, MayImportHeader
      <4> QED BY <4>1, AncestryFacts
    <3> QED BY <1>2, <3>1, <3>2 DEF MayImportHeader
  <2>3. OnLine(chainDb, todo', mem.block)
    BY <2>1, <2>2, AncestorOnLine
  <2>4. Coming'.block = mem.block /\ Coming'.header = b
    BY <1>2, <1>3, <1>5
  <2>5. HeadersCome'
    BY <1>1, <1>2, <1>3, <1>4, <2>2, <2>4 DEF HeadersCome
  <2>6. OnLine(chainDb', todo', Coming'.block) /\ OnLine(chainDb', todo', Coming'.header) /\ Linked(chainDb', todo')
    BY <1>2, <2>1, <2>3, <2>4
  <2> QED BY <2>1, <2>5, <2>6, <1>2, <1>3 DEF LineInv
<1>6. CASE next'.header = mem.header /\ \A n, v : Canon(n, v) \notin ToSet(todo')
  <2>1. ToSet(todo) = {}
    BY <1>2 DEF ToSet
  <2>2. OneValue(todo) /\ chainDb'.canon = chainDb.canon /\ \A n, v : Canon(n, v) \in ToSet(todo') <=> Canon(n, v) \in ToSet(todo)
    BY <1>2, <1>6, <2>1 DEF LineInv
  <2>3. SameLanding(chainDb, todo, chainDb', todo') /\ OneValue(todo')
    BY ONLY <2>2, NoCanonWrites
  <2>4. Coming'.block = Coming.block /\ Coming'.header = Coming.header
    BY <1>2, <1>3, <1>6
  <2> QED BY <1>1, <1>2, <1>3, <2>3, <2>4, LineKept, SameHeads, SameHeadersCome
<1> QED BY <1>2, <1>5, <1>6

\* Rollback moves heads to their ancestors.
LEMMA LineRollback ==
  ASSUME ChainConstants, LineInv, NEW b \in Blocks \ {GenesisBlock}, NEW m \in Heights, Rollback(b, m)
  PROVE  LineInv'
<1>1. ChainTypes /\ up /\ HeadersCome
  BY DEF LineInv
<1>2. /\ ChainTypes' /\ owner = none /\ owner' # none /\ todo = <<>> /\ phase \in {"fast", "pivot"}
      /\ phase' = IF phase = "pivot" THEN "full" ELSE phase
      /\ UNCHANGED <<chainDb, mem, job, up, pivot, rewinds, crashes>>
      /\ next'.block \in Ancestry[mem.block] /\ next'.header \in Ancestry[mem.header]
      /\ \A n, v : Canon(n, v) \notin ToSet(todo')
  BY <1>1, RollbackFacts
<1>3. Coming = mem /\ Coming' = next' /\ up' /\ (phase' = phase \/ phase' = "full")
  BY <1>1, <1>2 DEF Coming
<1>4. SameLanding(chainDb, todo, chainDb', todo') /\ OneValue(todo')
  <2>1. ToSet(todo) = {}
    BY <1>2 DEF ToSet
  <2>2. OneValue(todo) /\ chainDb'.canon = chainDb.canon /\ \A n, v : Canon(n, v) \in ToSet(todo') <=> Canon(n, v) \in ToSet(todo)
    BY <1>2, <2>1 DEF LineInv
  <2> QED BY ONLY <2>2, NoCanonWrites
<1>5. HeadersCome'
  <2>1. CASE phase' = "full"
    BY <2>1 DEF HeadersCome
  <2>2. CASE phase = "fast" /\ phase' = "fast"
    <3>1. mem.block = GenesisBlock /\ Ancestry[GenesisBlock] = {GenesisBlock}
      BY <1>1, <1>3, <2>2, AncestryFacts DEF HeadersCome, ChainConstants
    <3>2. Coming'.block = GenesisBlock
      BY <1>2, <1>3, <3>1
    <3> QED BY <1>1, <1>2, <2>2, <3>2 DEF HeadersCome
  <2> QED BY <1>2, <2>1, <2>2
<1>6. Coming'.block \in Ancestry[Coming.block] /\ Coming'.header \in Ancestry[Coming.header]
  BY <1>2, <1>3
<1> QED BY <1>2, <1>3, <1>4, <1>5, <1>6, LineKept

\* The last header changes nothing that is written.
LEMMA LineHeadersDone == ASSUME ChainConstants, LineInv, HeadersDone PROVE LineInv'
<1>1. /\ ChainTypes' /\ up' /\ phase' = "full"
      /\ UNCHANGED <<chainDb, mem, todo, next, owner, job, pivot, rewinds, crashes>>
  BY DEF HeadersDone, LineInv, ChainTypes
<1>2. Coming'.block = Coming.block /\ Coming'.header = Coming.header /\ HeadersCome'
  BY <1>1 DEF Coming, HeadersCome
<1>3. SameLanding(chainDb, todo, chainDb', todo') /\ OneValue(todo')
  BY <1>1 DEF SameLanding, LineInv
<1> QED BY <1>1, <1>2, <1>3, LineKept, SameHeads DEF LineInv

\* The fast head is on no line.
LEMMA LineReceiptsHead == ASSUME ChainConstants, LineInv, InsertReceiptsHead PROVE LineInv'
<1>1. ChainTypes /\ up
  BY DEF LineInv
<1>2. /\ ChainTypes' /\ owner = none /\ owner' # none /\ todo = <<>>
      /\ UNCHANGED <<chainDb, mem, up, phase, pivot, rewinds, crashes>>
      /\ \A v \in Workers \ {"fast"} : job'[v] = job[v]
      /\ next'.block = mem.block /\ next'.header = mem.header
      /\ \A n, v : Canon(n, v) \notin ToSet(todo')
  BY <1>1, ReceiptsHeadFacts
<1>3. SameLanding(chainDb, todo, chainDb', todo') /\ OneValue(todo')
  <2>1. ToSet(todo) = {}
    BY <1>2 DEF ToSet
  <2>2. OneValue(todo) /\ chainDb'.canon = chainDb.canon /\ \A n, v : Canon(n, v) \in ToSet(todo') <=> Canon(n, v) \in ToSet(todo)
    BY <1>2, <2>1 DEF LineInv
  <2> QED BY ONLY <2>2, NoCanonWrites
<1>4. Coming'.block = Coming.block /\ Coming'.header = Coming.header /\ up' /\ phase' = phase
  BY <1>1, <1>2 DEF Coming
<1>5. HeadersCome /\ job'["import"] = job["import"] /\ job'["mine"] = job["mine"]
  BY <1>2 DEF LineInv, Workers
<1> QED BY <1>1, <1>2, <1>3, <1>4, <1>5, LineKept, SameHeads, SameHeadersCome

\* Bodies are not canonical numbers.
LEMMA LineReceipts ==
  ASSUME ChainConstants, LineInv, NEW b \in Blocks \ {GenesisBlock}, InsertReceipts(b) PROVE LineInv'
<1>1. ChainTypes /\ up
  BY DEF LineInv
<1>2. /\ ChainTypes' /\ UNCHANGED <<chainDb.canon, mem, todo, next, owner, up, phase, pivot, rewinds, crashes>>
      /\ \A v \in Workers \ {"fast"} : job'[v] = job[v]
  BY <1>1, ReceiptsFacts
<1>3. SameLanding(chainDb, todo, chainDb', todo') /\ OneValue(todo')
  <2>1. OneValue(todo) /\ chainDb'.canon = chainDb.canon /\ \A n, v : Canon(n, v) \in ToSet(todo') <=> Canon(n, v) \in ToSet(todo)
    BY <1>2 DEF LineInv
  <2> QED BY ONLY <2>1, NoCanonWrites
<1>4. Coming'.block = Coming.block /\ Coming'.header = Coming.header /\ up' /\ phase' = phase
  BY <1>1, <1>2 DEF Coming
<1>5. HeadersCome /\ job'["import"] = job["import"] /\ job'["mine"] = job["mine"]
  BY <1>2 DEF LineInv, Workers
<1> QED BY <1>1, <1>2, <1>3, <1>4, <1>5, LineKept, SameHeads, SameHeadersCome

\* The pivot is an ancestor of the header head.
LEMMA LineCommitHead ==
  ASSUME ChainConstants, LineInv, NEW b \in Blocks \ {GenesisBlock}, FastSyncCommitHead(b) PROVE LineInv'
<1>1. ChainTypes /\ up /\ HeadersCome
  BY DEF LineInv
<1>2. /\ ChainTypes' /\ phase = "fast" /\ phase' = "pivot" /\ owner = none
      /\ UNCHANGED <<chainDb.canon, todo, next, owner, job, up, rewinds, crashes>>
      /\ b \in Ancestry[mem.header] /\ mem'.block = b /\ mem'.header = mem.header
  BY <1>1, CommitHeadTypes
<1>3. Coming = mem /\ Coming' = mem' /\ up'
  BY <1>1, <1>2 DEF Coming
<1>4. SameLanding(chainDb, todo, chainDb', todo') /\ OneValue(todo')
  <2>1. OneValue(todo) /\ chainDb'.canon = chainDb.canon /\ \A n, v : Canon(n, v) \in ToSet(todo') <=> Canon(n, v) \in ToSet(todo)
    BY <1>2 DEF LineInv
  <2> QED BY ONLY <2>1, NoCanonWrites
<1>5. mem.header \in Blocks /\ OnLine(chainDb, todo, mem.header) /\ Linked(chainDb, todo)
  BY <1>1, <1>2, <1>3, ChainFields DEF LineInv
<1>6. OnLine(chainDb', todo', mem.header) /\ Linked(chainDb', todo')
  BY <1>4, <1>5, SameLandingKeeps
<1>7. OnLine(chainDb', todo', b)
  BY <1>2, <1>5, <1>6, AncestorOnLine
<1>8. OnLine(chainDb', todo', Coming'.block) /\ OnLine(chainDb', todo', Coming'.header)
  BY <1>2, <1>3, <1>6, <1>7
<1>9. HeadersCome'
  BY <1>1, <1>2, <1>3 DEF HeadersCome
<1> QED BY <1>2, <1>3, <1>4, <1>6, <1>8, <1>9 DEF LineInv

\* What the runs vary and the theorems keep fixed: a fast sync is not rewound.
LineStays == ChainConstants /\ MaxRewinds \in Nat /\ (FastSync => MaxRewinds = 0)

\* Every step but a crash keeps LineInv.
LEMMA LineStep ==
  ASSUME LineStays, LineInv, [ChainNext]_chainVars, crashes' = crashes PROVE LineInv'
<1>0. ChainConstants /\ MaxRewinds \in Nat /\ (FastSync => MaxRewinds = 0)
  BY DEF LineStays
<1>1. CASE NextWrite
  BY <1>0, <1>1, LineNextWrite
<1>2. CASE Crash
  BY <1>0, <1>2 DEF Crash, LineInv, ChainTypes
<1>3. CASE loadLastState
  BY <1>3 DEF loadLastState, LineInv
<1>4. CASE InsertReceiptsHead
  BY <1>0, <1>4, LineReceiptsHead
<1>5. ASSUME NEW w \in {"import", "mine"}, NEW b \in Blocks, Process(w, b) PROVE LineInv'
  BY <1>0, <1>5, LineJob
<1>6. ASSUME NEW w \in {"import", "mine"}, ReadTd(w) \/ WriteKnown(w) \/ WriteTxLookupEntries(w) PROVE LineInv'
  <2>1. GenesisBlock \in Blocks
    BY <1>0 DEF ChainConstants
  <2> QED BY <1>0, <1>6, <2>1, LineJob
<1>7. ASSUME NEW w \in {"import", "mine"}, NEW canonical \in BOOLEAN, WriteBlock(w, canonical) PROVE LineInv'
  BY <1>0, <1>7, LineBlock
<1>8. ASSUME NEW n \in Heights, SetHead(n) PROVE LineInv'
  BY <1>0, <1>8, LineSetHead
<1>9. ASSUME NEW b \in Blocks \ {GenesisBlock}, NEW canonical \in BOOLEAN, WriteHeader(b, canonical) PROVE LineInv'
  BY <1>0, <1>9, LineHeader
<1>10. ASSUME NEW b \in Blocks \ {GenesisBlock}, InsertReceipts(b) \/ FastSyncCommitHead(b) PROVE LineInv'
  BY <1>0, <1>10, LineReceipts, LineCommitHead
<1>13. ASSUME NEW b \in Blocks \ {GenesisBlock}, NEW n \in Heights, Rollback(b, n) PROVE LineInv'
  BY <1>0, <1>13, LineRollback
<1>14. CASE HeadersDone
  BY <1>0, <1>14, LineHeadersDone
<1>11. CASE UNCHANGED chainVars
  <2>1. UNCHANGED <<chainDb, mem, todo, next, owner, job, up, phase, pivot, rewinds, crashes>>
    BY <1>11 DEF chainVars
  <2> QED BY <2>1 DEF LineInv, ChainTypes, OneValue, OnLine, Lands, Linked, Coming, HeadersCome
<1>12. CASE ChainNext
  BY ONLY <1>12, <1>1, <1>2, <1>3, <1>4, <1>5, <1>6, <1>7, <1>8, <1>9, <1>10, <1>13, <1>14, Zenon DEF ChainNext
<1> QED BY <1>11, <1>12

\* When nothing is to be written, what lands is what is there.
LEMMA LineIsAncestry == ASSUME ChainConstants, crashes = 0 => LineInv PROVE CanonicalIsAncestry
<1>1. SUFFICES ASSUME Quiet, LineInv
               PROVE  Line(mem.block) = Ancestry[mem.block] /\ Line(mem.header) = Ancestry[mem.header]
  BY DEF CanonicalIsAncestry
<1>2. owner = none /\ todo = <<>> /\ Coming = mem
  BY <1>1 DEF Quiet, LineInv, ChainTypes, Coming
<1>3. \A x \in Ancestry[mem.block] : chainDb.canon[Number[x]] = x
  BY <1>1, <1>2, NothingToLand DEF LineInv, OnLine
<1>4. \A x \in Ancestry[mem.header] : chainDb.canon[Number[x]] = x
  BY <1>1, <1>2, NothingToLand DEF LineInv, OnLine
<1> QED BY <1>3, <1>4 DEF Line

\* Only a crash is counted.
LEMMA CrashesAreCounted ==
  ASSUME crashes \in Nat, [ChainNext]_chainVars PROVE crashes' = crashes \/ crashes' = crashes + 1
BY DEF ChainNext, chainVars, NextWrite, Crash, loadLastState, InsertReceiptsHead, Process, ReadTd, WriteKnown,
       WriteTxLookupEntries, WriteBlock, SetHead, WriteHeader, InsertReceipts, Rollback, FastSyncCommitHead, HeadersDone

\* The invariant holds until the first crash.
LineUntilCrash == crashes \in Nat /\ (crashes = 0 => LineInv)

\* Whenever the mutex is free and no crash has cut a list of writes short, the canonical
\* numbers up to the head block and the head header name exactly their ancestors.
THEOREM CanonicalLine == ASSUME LineStays PROVE ChainSpec => []CanonicalIsAncestry
<1>1. ChainConstants
  BY DEF LineStays
<1>2. ChainInit => LineUntilCrash
  BY <1>1, LineInit DEF ChainInit, LineUntilCrash
<1>3. LineUntilCrash /\ [ChainNext]_chainVars => LineUntilCrash'
  <2>1. SUFFICES ASSUME LineUntilCrash, [ChainNext]_chainVars PROVE LineUntilCrash'
    OBVIOUS
  <2>2. crashes \in Nat /\ (crashes' = crashes \/ crashes' = crashes + 1)
    BY <2>1, CrashesAreCounted DEF LineUntilCrash
  <2>3. ASSUME crashes' = 0 PROVE LineInv'
    <3>1. crashes = 0 /\ crashes' = crashes
      BY <2>2, <2>3
    <3> QED BY <2>1, <3>1, LineStep DEF LineUntilCrash
  <2> QED BY <2>2, <2>3 DEF LineUntilCrash
<1>4. LineUntilCrash => CanonicalIsAncestry
  BY <1>1, LineIsAncestry DEF LineUntilCrash
<1> QED BY <1>2, <1>3, <1>4, PTL DEF ChainSpec

-----------------------------------------------------------------------------
(* The head block and its ancestors.                                        *)

Parts == {"hdr", "body"}

\* x is in the database when the writes t have reached it.
Stays(d, t, k, x) == Store(k, x) \in ToSet(t) \/ (x \in d[k] /\ Del(k, x) \notin ToSet(t))

Whole(d, t, b) == \A x \in Ancestry[b], k \in Parts : Stays(d, t, k, x)

NoClash(t) == \A x \in Blocks, k \in Parts : ~(Store(k, x) \in ToSet(t) /\ Del(k, x) \in ToSet(t))

\* During a fast sync bodies arrive in order.
BodiesLinked(d) == \A b \in d.body : b # GenesisBlock => Parent[b] \in d.hdr /\ Parent[b] \in d.body

\* What an importer or the miner works on has its state.
Processed == \A w \in Workers \ {"fast"} : job[w] # Idle => job[w].block \in chainDb.state

\* A block is processed on a parent that was: only the pivot's state came otherwise.
StateLinked(d, p) == \A x \in d.state : x = GenesisBlock \/ x = p \/ Parent[x] \in d.state

\* A block with its state, or below the pivot
Standing(d, p, b) == b \in d.state \/ (p # none /\ b \in Ancestry[p])

FastPart ==
  /\ phase = "fast" => /\ Bodiless(todo) /\ BodiesLinked(chainDb) /\ Coming.block = GenesisBlock /\ pivot = none
                       /\ \A w \in {"import", "mine"} : job[w] = Idle
  /\ phase # "fast" => job["fast"] = Idle
  /\ phase # "full" => FastSync

\* Once the writes have been made the head block, and without a fast sync the head
\* header, are there with all their ancestors.
WholeInv ==
  /\ ChainTypes /\ up /\ Processed /\ NoClash(todo) /\ FastPart
  /\ Whole(chainDb, todo, Coming.block) /\ Standing(chainDb, pivot, Coming.block)
  /\ GenesisBlock \in chainDb.state /\ StateLinked(chainDb, pivot)
  /\ ~FastSync => Whole(chainDb, todo, Coming.header)

\* A write changes nothing that stays.
LEMMA WriteStays ==
  ASSUME NEW d \in Databases, NEW t \in Seq(WriteSet), t # <<>>, NoClash(t)
  PROVE  /\ NoClash(Tail(t))
         /\ \A x \in Blocks, k \in Parts : Stays(d, t, k, x) => Stays(Apply(d, Head(t)), Tail(t), k, x)
<1> DEFINE w == Head(t)
           s == Tail(t)
           e == Apply(d, w)
<1>1. w \in WriteSet /\ ToSet(t) = {w} \cup ToSet(s)
  BY ListsTail
<1>2. \A k \in Parts, x \in Blocks : x \in e[k] <=> (w = Store(k, x) \/ (x \in d[k] /\ w # Del(k, x)))
  BY <1>1, ApplyFacts DEF Parts
<1> HIDE DEF w, s, e
<1>3. NoClash(s)
  BY <1>1 DEF NoClash
<1>4. ASSUME NEW x \in Blocks, NEW k \in Parts, Stays(d, t, k, x) PROVE Stays(e, s, k, x)
  <2>1. CASE Store(k, x) \in ToSet(t)
    <3>1. Del(k, x) \notin ToSet(s)
      BY <1>1, <2>1 DEF NoClash
    <3>2. Store(k, x) \in ToSet(s) \/ x \in e[k]
      BY <1>1, <1>2, <2>1
    <3> QED BY <3>1, <3>2 DEF Stays
  <2>2. CASE x \in d[k] /\ Del(k, x) \notin ToSet(t)
    <3>1. Del(k, x) \notin ToSet(s) /\ w # Del(k, x)
      BY <1>1, <2>2
    <3>2. x \in e[k]
      BY <1>2, <2>2, <3>1
    <3> QED BY <3>1, <3>2 DEF Stays
  <2> QED BY <1>4, <2>1, <2>2 DEF Stays
<1> QED BY <1>3, <1>4 DEF w, s, e

\* Without writes
LEMMA NothingLeaves ==
  ASSUME NEW d, NEW k, NEW x PROVE Stays(d, <<>>, k, x) <=> x \in d[k]
<1>1. ToSet(<<>>) = {}
  BY DEF ToSet
<1> QED BY <1>1 DEF Stays

\* With writes that delete nothing
LEMMA NoDeletion ==
  ASSUME NEW d, NEW t, \A k, x : Del(k, x) \notin ToSet(t)
  PROVE  NoClash(t) /\ \A k, x : x \in d[k] => Stays(d, t, k, x)
BY DEF NoClash, Stays

\* Ancestors of a block that is whole are whole.
LEMMA AncestorIsWhole ==
  ASSUME ChainConstants, NEW d, NEW t, NEW b \in Blocks, Whole(d, t, b), NEW x \in Ancestry[b]
  PROVE  Whole(d, t, x)
BY AncestryFacts DEF Whole

\* A block stays whole when all that stays still does.
LEMMA WholeKept ==
  ASSUME ChainConstants, NEW d, NEW t, NEW e, NEW s, NEW b \in Blocks, Whole(d, t, b),
         \A x \in Blocks, k \in Parts : Stays(d, t, k, x) => Stays(e, s, k, x)
  PROVE  Whole(e, s, b)
<1>1. Ancestry[b] \subseteq Blocks
  BY AncestryFacts
<1> QED BY <1>1 DEF Whole

\* WholeInv holds at the start.
LEMMA WholeInit == ASSUME ChainConstants, ChainInit PROVE WholeInv
<1>1. ChainTypes
  BY ChainInitTypes
<1>2. /\ up /\ todo = <<>> /\ Coming = Heads(GenesisBlock) /\ job = [w \in Workers |-> Idle]
      /\ phase = (IF FastSync THEN "fast" ELSE "full") /\ pivot = none
      /\ chainDb.hdr = {GenesisBlock} /\ chainDb.body = {GenesisBlock} /\ chainDb.state = {GenesisBlock}
  BY DEF ChainInit, Coming
<1>3. GenesisBlock \in Blocks /\ ToSet(todo) = {} /\ Ancestry[GenesisBlock] = {GenesisBlock}
  BY <1>2, AncestryFacts DEF ChainConstants, ToSet
<1>4. Coming.block = GenesisBlock /\ Coming.header = GenesisBlock /\ \A w \in Workers : job[w] = Idle
  BY <1>2 DEF Heads
<1>5. Whole(chainDb, todo, GenesisBlock)
  BY <1>2, <1>3, NothingLeaves DEF Whole, Parts
<1>6. NoClash(todo) /\ Bodiless(todo) /\ Processed /\ BodiesLinked(chainDb)
  BY <1>2, <1>3, <1>4 DEF NoClash, Bodiless, Processed, BodiesLinked
<1>7. FastPart
  BY <1>2, <1>4, <1>6 DEF FastPart, Workers
<1>8. StateLinked(chainDb, pivot) /\ Standing(chainDb, pivot, GenesisBlock) /\ GenesisBlock \in chainDb.state
  BY <1>2 DEF StateLinked, Standing
<1> QED BY <1>1, <1>2, <1>4, <1>5, <1>6, <1>7, <1>8 DEF WholeInv

\* The ancestors of a block with its state have it too, down to the pivot.
LEMMA AncestorIsStanding ==
  ASSUME ChainConstants, NEW d, NEW p \in BlockOrNone, d.state \subseteq Blocks, StateLinked(d, p),
         NEW b \in Blocks, Standing(d, p, b), NEW x \in Ancestry[b]
  PROVE  Standing(d, p, x)
<1> DEFINE S == {y \in Blocks : Standing(d, p, y)}
<1>1. ASSUME NEW y \in S, y # GenesisBlock PROVE Parent[y] \in S
  <2>1. y \in Blocks /\ Parent[y] \in Blocks /\ Standing(d, p, y)
    BY <1>1 DEF ChainConstants
  <2>2. ASSUME p # none, y \in Ancestry[p] PROVE Standing(d, p, Parent[y])
    <3>1. p \in Blocks
      BY <2>2 DEF BlockOrNone
    <3>2. Parent[y] \in Ancestry[p]
      BY <1>1, <2>2, <3>1, AncestryFacts
    <3> QED BY <2>2, <3>2 DEF Standing
  <2>3. CASE y \in d.state
    <3>1. CASE y = p
      <4>1. p # none /\ y \in Ancestry[p]
        BY <2>1, <3>1, AncestryFacts DEF ChainConstants
      <4> QED BY <2>1, <2>2, <4>1
    <3>2. CASE Parent[y] \in d.state
      BY <2>1, <3>2 DEF Standing
    <3> QED BY <1>1, <2>3, <3>1, <3>2 DEF StateLinked
  <2> QED BY <2>1, <2>2, <2>3 DEF Standing
<1>2. b \in S /\ \A y \in S : y \in Blocks /\ (y # GenesisBlock => Parent[y] \in S)
  BY <1>1
<1>3. Ancestry[b] \subseteq S
  <2> HIDE DEF S
  <2> QED BY <1>2, AncestryIsLeast
<1> QED BY <1>3

\* The heads to come are blocks.
LEMMA ComingFields == ASSUME ChainTypes PROVE Coming.block \in Blocks /\ Coming.header \in Blocks
BY ChainFields DEF Coming

\* A step that takes nothing away, and leaves the heads to come as they are
LEMMA WholeStays ==
  ASSUME ChainConstants, WholeInv, ChainTypes', up', Processed', NoClash(todo'), FastPart',
         \A x \in Blocks, k \in Parts : Stays(chainDb, todo, k, x) => Stays(chainDb', todo', k, x),
         chainDb.state \subseteq chainDb'.state, StateLinked(chainDb', pivot'), pivot' = pivot,
         Coming'.block = Coming.block, Coming'.header = Coming.header
  PROVE  WholeInv'
<1>1. Coming.block \in Blocks /\ Coming.header \in Blocks
  BY ComingFields DEF WholeInv
<1>2. Whole(chainDb', todo', Coming.block) /\ (~FastSync => Whole(chainDb', todo', Coming.header))
  BY <1>1, WholeKept DEF WholeInv
<1>3. Whole(chainDb', todo', Coming'.block) /\ (~FastSync => Whole(chainDb', todo', Coming'.header))
  BY <1>2
<1>4. Standing(chainDb', pivot', Coming'.block) /\ GenesisBlock \in chainDb'.state
  BY DEF WholeInv, Standing
<1> QED BY ONLY <1>3, <1>4, ChainTypes', up', Processed', NoClash(todo'), FastPart', StateLinked(chainDb', pivot'), Zenon DEF WholeInv

\* One write, or the release of the mutex
LEMMA WholeNextWrite == ASSUME ChainConstants, WholeInv, NextWrite PROVE WholeInv'
<1>1. ChainTypes /\ ChainTypes' /\ up' /\ phase' = phase /\ pivot' = pivot /\ job' = job /\ owner # none
  BY NextWriteTypes DEF WholeInv, NextWrite
<1>2. CASE todo = <<>>
  <2>1. owner' = none /\ mem' = next /\ chainDb' = chainDb /\ todo' = todo
    BY <1>2 DEF NextWrite
  <2>2. Coming' = Coming
    BY <1>1, <2>1 DEF Coming
  <2>3. Processed' /\ NoClash(todo') /\ StateLinked(chainDb', pivot')
    BY <1>1, <2>1 DEF WholeInv, Processed
  <2>4. FastPart'
    BY <1>1, <2>1, <2>2 DEF WholeInv, FastPart
  <2> QED BY <1>1, <2>1, <2>2, <2>3, <2>4, WholeStays
<1>3. CASE todo # <<>>
  <2>1. chainDb' = Apply(chainDb, Head(todo)) /\ todo' = Tail(todo) /\ owner' = owner /\ next' = next
    BY <1>3 DEF NextWrite
  <2>2. Coming'.block = Coming.block /\ Coming'.header = Coming.header
    BY <1>1, <2>1 DEF Coming
  <2>3. chainDb \in Databases /\ todo \in Seq(WriteSet) /\ NoClash(todo)
    BY <1>1 DEF ChainTypes, WholeInv
  <2>4. /\ NoClash(todo')
        /\ \A x \in Blocks, k \in Parts : Stays(chainDb, todo, k, x) => Stays(chainDb', todo', k, x)
    BY <1>3, <2>1, <2>3, WriteStays
  <2>5. Head(todo) \in WriteSet /\ ToSet(todo) = {Head(todo)} \cup ToSet(Tail(todo))
    BY <1>3, <2>3, ListsTail
  <2>6. chainDb'.state = chainDb.state
    BY <2>1, <2>3, <2>5, ApplyFacts
  <2>7. Processed' /\ StateLinked(chainDb', pivot')
    BY <1>1, <2>6 DEF WholeInv, Processed, StateLinked
  <2>8. ASSUME phase = "fast" PROVE Bodiless(todo') /\ BodiesLinked(chainDb')
    <3>1. Bodiless(todo) /\ BodiesLinked(chainDb)
      BY <2>8 DEF WholeInv, FastPart
    <3>2. Bodiless(todo') /\ \A k, x : Head(todo) # Del(k, x) /\ Head(todo) # Store("body", x)
      BY <2>1, <2>5, <3>1 DEF Bodiless
    <3>3. \A k \in Parts, x \in Blocks :
             x \in chainDb'[k] <=> (Head(todo) = Store(k, x) \/ (x \in chainDb[k] /\ Head(todo) # Del(k, x)))
      BY <2>1, <2>3, <2>5, ApplyFacts DEF Parts
    <3>4. \A x \in Blocks : (x \in chainDb.hdr => x \in chainDb'.hdr) /\ (x \in chainDb'.body <=> x \in chainDb.body)
      BY <3>2, <3>3 DEF Parts
    <3>5. chainDb'.body \subseteq Blocks /\ chainDb.hdr \subseteq Blocks /\ chainDb.body \subseteq Blocks
      BY <1>1, ChainFields DEF ChainTypes, Databases
    <3> QED BY <3>1, <3>2, <3>4, <3>5 DEF BodiesLinked
  <2>9. FastPart'
    BY <1>1, <2>2, <2>8 DEF WholeInv, FastPart
  <2> QED BY <1>1, <2>2, <2>4, <2>6, <2>7, <2>9, WholeStays
<1> QED BY <1>2, <1>3

\* The steps without the mutex: a processed block has its state.
LEMMA WholeJob ==
  ASSUME ChainConstants, WholeInv, NEW w \in {"import", "mine"}, NEW b \in Blocks,
         Process(w, b) \/ ReadTd(w) \/ WriteKnown(w) \/ WriteTxLookupEntries(w)
  PROVE  WholeInv'
<1>1. w \in Workers /\ ChainTypes
  BY DEF Workers, WholeInv
<1>2. /\ ChainTypes' /\ UNCHANGED <<mem, todo, next, owner, up, phase, pivot>>
      /\ UNCHANGED <<chainDb.hdr, chainDb.body>>
      /\ chainDb'.state = chainDb.state \/ (Process(w, b) /\ chainDb'.state = chainDb.state \cup {b})
      /\ \A v \in Workers \ {w} : job'[v] = job[v]
      /\ \/ job'[w] = Idle
         \/ Process(w, b) /\ job'[w].block = b
         \/ job[w] # Idle /\ job'[w].block = job[w].block
  BY <1>1, JobStepTypes
<1>3. phase # "fast"
  <2>1. CASE Process(w, b)
    BY <2>1 DEF Process, MayImport
  <2>2. CASE ReadTd(w) \/ WriteKnown(w) \/ WriteTxLookupEntries(w)
    <3>1. job[w] # Idle
      BY <2>2 DEF ReadTd, WriteKnown, WriteTxLookupEntries, Idle
    <3> QED BY <3>1 DEF WholeInv, FastPart
  <2> QED BY <2>1, <2>2
<1>4. chainDb.state \subseteq chainDb'.state /\ (Process(w, b) => b \in chainDb'.state)
  <2>1. Process(w, b) => chainDb'.state = chainDb.state \cup {b}
    BY <1>1 DEF Process, ChainTypes, Databases
  <2> QED BY <1>2, <2>1
<1>5. Processed'
  <2>1. ASSUME NEW v \in Workers \ {"fast"}, job'[v] # Idle PROVE job'[v].block \in chainDb'.state
    <3>1. CASE v # w
      BY <1>2, <1>4, <2>1, <3>1 DEF WholeInv, Processed
    <3>2. CASE v = w
      BY <1>2, <1>4, <2>1, <3>2 DEF WholeInv, Processed
    <3> QED BY <3>1, <3>2
  <2> QED BY <2>1 DEF Processed
<1>6. \A x \in Blocks, k \in Parts : Stays(chainDb, todo, k, x) => Stays(chainDb', todo', k, x)
  BY <1>2 DEF Stays, Parts
<1>7. Coming'.block = Coming.block /\ Coming'.header = Coming.header /\ up' /\ NoClash(todo')
  BY <1>2 DEF Coming, WholeInv
<1>8. FastPart'
  <2>1. "fast" \in Workers \ {w}
    BY DEF Workers
  <2> QED BY <1>2, <1>3, <2>1 DEF WholeInv, FastPart
<1>9. StateLinked(chainDb', pivot')
  <2>1. StateLinked(chainDb, pivot) /\ pivot' = pivot
    BY <1>2 DEF WholeInv
  <2>2. CASE chainDb'.state = chainDb.state
    BY <2>1, <2>2 DEF StateLinked
  <2>3. CASE Process(w, b) /\ chainDb'.state = chainDb.state \cup {b}
    <3>1. Parent[b] \in chainDb.state
      BY <2>3 DEF Process, HasBlockAndState
    <3> QED BY <2>1, <2>3, <3>1 DEF StateLinked
  <2> QED BY <1>2, <2>2, <2>3
<1> QED BY <1>2, <1>4, <1>5, <1>6, <1>7, <1>8, <1>9, WholeStays

\* WriteBlock: the block is stored, reorg found its new ancestors, the others are below
\* the head already.
LEMMA WholeBlock ==
  ASSUME ChainConstants, WholeInv, NEW w \in {"import", "mine"}, NEW canonical \in BOOLEAN, WriteBlock(w, canonical)
  PROVE  WholeInv'
<1> DEFINE b == job[w].block
           new == Ancestry[b] \ Ancestry[mem.block]
           d == chainDb
           t == todo'
<1>1. w \in Workers /\ w # "fast" /\ ChainTypes /\ up
  BY DEF Workers, WholeInv
<1>2. /\ b \in Blocks \ {GenesisBlock} /\ BlockStored(b) /\ (OnlyStored \/ MadeCanonical(b, new))
      /\ owner = none /\ owner' = w /\ todo = <<>> /\ job[w] # Idle
      /\ UNCHANGED <<chainDb, mem, up, phase, pivot, rewinds, crashes>>
  BY <1>1, BlockFacts
<1>3. /\ ChainTypes' /\ (\A v \in Workers \ {w} : job'[v] = job[v])
      /\ job'[w] = Idle \/ job'[w].block = b
  BY <1>1, BlockTypes
<1>4. w # none /\ phase # "fast" /\ phase' # "fast"
  BY <1>2 DEF WholeInv, FastPart, none
<1>5. Coming = mem /\ Coming' = next' /\ chainDb' = d
  BY <1>2, <1>4 DEF Coming
<1>6. mem.block \in Blocks /\ mem.header \in Blocks
  BY <1>1, ChainFields
<1>7. (\A k, x : Del(k, x) \notin ToSet(t)) /\ \A k \in Parts : Store(k, b) \in ToSet(t)
  BY <1>2 DEF BlockStored, Stores, Parts
<1>8. NoClash(t) /\ \A k, x : x \in d[k] => Stays(d, t, k, x)
  BY <1>7, NoDeletion
<1>9. b \in d.state /\ Processed'
  <2>1. b \in d.state
    BY <1>1, <1>2 DEF WholeInv, Processed
  <2>2. ASSUME NEW v \in Workers \ {"fast"}, job'[v] # Idle PROVE job'[v].block \in chainDb'.state
    BY <1>2, <1>3, <1>5, <2>1, <2>2 DEF WholeInv, Processed
  <2> QED BY <2>1, <2>2 DEF Processed
<1>10. FastPart'
  <2>1. "fast" \in Workers \ {w}
    BY <1>1 DEF Workers
  <2> QED BY <1>2, <1>3, <1>4, <2>1 DEF WholeInv, FastPart
<1>11. /\ Whole(d, <<>>, mem.block) /\ Standing(d, pivot, mem.block) /\ GenesisBlock \in d.state
       /\ StateLinked(d, pivot) /\ pivot' = pivot
       /\ ~FastSync => Whole(d, <<>>, mem.header)
  BY <1>2, <1>5 DEF WholeInv
<1>12. SUFFICES Whole(d, t, next'.block) /\ Standing(d, pivot, next'.block) /\ (~FastSync => Whole(d, t, next'.header))
  BY <1>1, <1>2, <1>3, <1>5, <1>8, <1>9, <1>10, <1>11 DEF WholeInv
<1> HIDE DEF d, t, b
<1>13. \A x, k : Stays(d, <<>>, k, x) => Stays(d, t, k, x)
  BY <1>8, NothingLeaves
<1>14. Whole(d, t, mem.block) /\ (~FastSync => Whole(d, t, mem.header))
  BY <1>11, <1>13 DEF Whole
<1>15. CASE OnlyStored
  BY <1>11, <1>14, <1>15 DEF OnlyStored
<1>16. CASE MadeCanonical(b, new)
  <2>1. /\ \A x \in new : x # b => HasBlock(x)
        /\ next'.block = b
        /\ next'.header = mem.header \/ next'.header \in new \cup {b}
    BY <1>16 DEF MadeCanonical
  <2>2. b \in Blocks /\ b \in Ancestry[b] /\ Standing(d, pivot, b)
    BY <1>2, <1>9, AncestryFacts DEF Standing
  <2>3. ASSUME NEW x \in Ancestry[b], NEW k \in Parts PROVE Stays(d, t, k, x)
    <3>1. CASE x = b
      BY <1>7, <3>1 DEF Stays
    <3>2. CASE x \in new /\ x # b
      <4>1. x \in d[k]
        BY <2>1, <3>2 DEF HasBlock, Parts, d
      <4> QED BY <4>1, <1>8
    <3>3. CASE x \in Ancestry[mem.block]
      BY <1>14, <3>3 DEF Whole
    <3> QED BY <3>1, <3>2, <3>3
  <2>4. Whole(d, t, b)
    BY <2>3 DEF Whole
  <2>5. CASE next'.header \in new \cup {b}
    <3>1. next'.header \in Ancestry[b]
      BY <2>2, <2>5
    <3>2. Whole(d, t, next'.header)
      BY <2>2, <2>4, <3>1, AncestorIsWhole
    <3> QED BY <2>1, <2>2, <2>4, <3>2
  <2>6. CASE next'.header = mem.header
    BY <1>14, <2>1, <2>2, <2>4, <2>6
  <2> QED BY <2>1, <2>5, <2>6
<1> QED BY <1>2, <1>15, <1>16

\* SetHead: only blocks above the new heads are deleted.
LEMMA WholeSetHead ==
  ASSUME ChainConstants, MaxRewinds \in Nat, FastSync => MaxRewinds = 0, WholeInv, NEW n \in Heights, SetHead(n)
  PROVE  WholeInv'
<1> DEFINE d == chainDb
           t == todo'
<1>1. ChainTypes /\ up
  BY DEF WholeInv
<1>2. /\ RewoundOK(n, mem.block, mem.header, todo', next') /\ ChainTypes'
      /\ owner = none /\ owner' # none /\ todo = <<>> /\ rewinds < MaxRewinds
      /\ UNCHANGED <<chainDb, mem, job, up, phase, pivot, crashes>>
  BY <1>1, SetHeadFacts
<1>3. ~FastSync
  BY <1>1, <1>2 DEF ChainTypes
<1>4. Coming = mem /\ Coming' = next' /\ chainDb' = d /\ phase # "fast"
  BY <1>2, <1>3 DEF Coming, WholeInv, FastPart
<1>5. mem.block \in Blocks /\ mem.header \in Blocks /\ n \in Nat /\ GenesisBlock \in Blocks
  BY <1>1, ChainFields, HeightsAreGapless DEF ChainConstants
<1>6. /\ Whole(d, <<>>, mem.block) /\ Whole(d, <<>>, mem.header) /\ Standing(d, pivot, mem.block)
      /\ GenesisBlock \in d.state /\ StateLinked(d, pivot) /\ pivot' = pivot
  BY <1>2, <1>3, <1>4 DEF WholeInv
<1>7. Processed' /\ FastPart'
  BY <1>2, <1>4 DEF WholeInv, Processed, FastPart
<1>8. /\ \A k, x : Store(k, x) \notin ToSet(t)
      /\ \A k, x : Del(k, x) \in ToSet(t) => x \in Blocks /\ Number[x] > n
      /\ next'.header \in Ancestry[mem.header] /\ Number[next'.header] <= n
      /\ \/ next'.block = mem.block /\ Number[mem.block] <= n
         \/ next'.block = next'.header /\ next'.block \in chainDb.state
         \/ next'.block = GenesisBlock
  BY <1>2 DEF RewoundOK
<1>9. NoClash(t)
  BY <1>8 DEF NoClash
<1>10. SUFFICES Whole(d, t, next'.block) /\ Standing(d, pivot, next'.block) /\ Whole(d, t, next'.header)
  BY <1>1, <1>2, <1>4, <1>6, <1>7, <1>9 DEF WholeInv
<1>11. Standing(d, pivot, next'.block)
  BY <1>6, <1>8 DEF Standing
<1> HIDE DEF t, d
<1>12. ASSUME NEW b \in Blocks, Whole(d, <<>>, b), Number[b] <= n PROVE Whole(d, t, b)
  <2>1. ASSUME NEW x \in Ancestry[b], NEW k \in Parts PROVE Stays(d, t, k, x)
    <3>1. x \in d[k]
      BY <1>12, NothingLeaves DEF Whole
    <3>2. x \in Blocks /\ Number[x] <= Number[b]
      BY AncestryFacts
    <3>3. Number[x] \in Nat /\ Number[b] \in Nat
      BY <3>2 DEF ChainConstants
    <3>4. ~(Number[x] > n)
      BY <1>5, <1>12, <3>2, <3>3
    <3> QED BY <1>8, <3>1, <3>4 DEF Stays
  <2> QED BY <2>1 DEF Whole
<1>13. next'.header \in Blocks /\ Whole(d, <<>>, next'.header)
  BY <1>5, <1>6, <1>8, AncestryFacts, AncestorIsWhole
<1>14. Whole(d, t, next'.header)
  BY <1>8, <1>12, <1>13
<1>15. Whole(d, t, next'.block)
  <2>1. CASE next'.block = mem.block /\ Number[mem.block] <= n
    <3>1. Whole(d, t, mem.block)
      BY <1>5, <1>6, <1>12, <2>1
    <3> QED BY <2>1, <3>1
  <2>2. CASE next'.block = next'.header
    <3>1. Whole(d, t, next'.header)
      BY <1>14
    <3> QED BY <2>2, <3>1
  <2>3. CASE next'.block = GenesisBlock
    <3>1. GenesisBlock \in Ancestry[next'.header]
      BY <1>13, GenesisIsAncestor
    <3>2. Whole(d, t, GenesisBlock)
      BY <1>13, <1>14, <3>1, AncestorIsWhole
    <3> QED BY <2>3, <3>2
  <2> QED BY <1>8, <2>1, <2>2, <2>3
<1> QED BY <1>11, <1>14, <1>15

\* The operations of a fast sync that take the mutex
LEMMA WholeFastTake ==
  ASSUME ChainConstants, WholeInv, ChainTypes', owner = none, owner' # none, todo = <<>>,
         UNCHANGED <<chainDb, mem, up, pivot>>, phase # "full",
         phase' = phase \/ (phase = "pivot" /\ phase' = "full"),
         next'.block \in Ancestry[mem.block], Bodiless(todo'),
         \A v \in Workers \ {"fast"} : job'[v] = job[v], job["fast"] = Idle => job'["fast"] = Idle
  PROVE  WholeInv'
<1>1. /\ Coming = mem /\ Coming' = next' /\ up /\ up' /\ FastSync /\ Processed
      /\ Whole(chainDb, <<>>, mem.block) /\ Standing(chainDb, pivot, mem.block)
      /\ GenesisBlock \in chainDb.state /\ StateLinked(chainDb, pivot)
  BY DEF Coming, WholeInv, FastPart
<1>2. \A k, x : Del(k, x) \notin ToSet(todo')
  BY DEF Bodiless
<1>3. NoClash(todo') /\ \A k, x : x \in chainDb[k] => Stays(chainDb, todo', k, x)
  BY <1>2, NoDeletion
<1>4. mem.block \in Blocks /\ chainDb.state \subseteq Blocks /\ pivot \in BlockOrNone
  BY ChainFields DEF WholeInv, ChainTypes
<1>5. Whole(chainDb, todo', next'.block) /\ Standing(chainDb, pivot, next'.block)
  <2>1. Whole(chainDb, todo', mem.block)
    BY <1>1, <1>3, NothingLeaves DEF Whole
  <2> QED BY <1>1, <1>4, <2>1, AncestorIsWhole, AncestorIsStanding
<1>6. /\ Whole(chainDb', todo', Coming'.block) /\ Standing(chainDb', pivot', Coming'.block)
      /\ GenesisBlock \in chainDb'.state /\ StateLinked(chainDb', pivot')
  BY <1>1, <1>5
<1>7. Processed'
  BY <1>1 DEF Processed
<1>8. FastPart'
  <2>1. CASE phase = "fast"
    <3>1. /\ BodiesLinked(chainDb) /\ mem.block = GenesisBlock /\ pivot = none
          /\ \A w \in {"import", "mine"} : job[w] = Idle
      BY <1>1, <2>1 DEF WholeInv, FastPart
    <3>2. Coming'.block = GenesisBlock
      BY <1>1, <3>1, AncestryFacts DEF ChainConstants
    <3>3. \A w \in {"import", "mine"} : job'[w] = Idle
      BY <3>1 DEF Workers
    <3> QED BY <1>1, <2>1, <3>1, <3>2, <3>3 DEF FastPart
  <2>2. CASE phase # "fast"
    BY <1>1, <2>2 DEF WholeInv, FastPart
  <2> QED BY <2>1, <2>2
<1> QED BY <1>1, <1>3, <1>6, <1>7, <1>8 DEF WholeInv

\* A body arrives after that of its parent.
LEMMA WholeReceipts ==
  ASSUME ChainConstants, WholeInv, NEW b \in Blocks \ {GenesisBlock}, InsertReceipts(b) PROVE WholeInv'
<1>1. ChainTypes /\ up
  BY DEF WholeInv
<1>2. /\ ChainTypes' /\ phase = "fast" /\ UNCHANGED <<mem, todo, next, owner, up, phase, pivot>>
      /\ chainDb'.body = chainDb.body \cup {b} /\ UNCHANGED <<chainDb.hdr, chainDb.state>>
      /\ \A v \in Workers \ {"fast"} : job'[v] = job[v]
  BY <1>1, ReceiptsFacts
<1>3. HasBlock(Parent[b])
  BY DEF InsertReceipts
<1>4. Coming' = Coming /\ up' /\ NoClash(todo')
  BY <1>1, <1>2 DEF Coming, WholeInv
<1>5. Processed' /\ StateLinked(chainDb', pivot')
  BY <1>2 DEF Processed, WholeInv, StateLinked
<1>6. BodiesLinked(chainDb')
  BY <1>2, <1>3 DEF BodiesLinked, HasBlock, WholeInv, FastPart
<1>7. \A w \in {"import", "mine"} : job'[w] = Idle
  BY <1>2 DEF WholeInv, FastPart, Workers
<1>8. FastPart'
  BY <1>2, <1>4, <1>6, <1>7 DEF FastPart, WholeInv
<1>9. \A x \in Blocks, k \in Parts : Stays(chainDb, todo, k, x) => Stays(chainDb', todo', k, x)
  BY <1>2 DEF Stays, Parts
<1> QED BY <1>2, <1>4, <1>5, <1>8, <1>9, WholeStays

\* The pivot's ancestors came before it.
LEMMA WholeCommitHead ==
  ASSUME ChainConstants, WholeInv, NEW b \in Blocks \ {GenesisBlock}, FastSyncCommitHead(b) PROVE WholeInv'
<1>1. ChainTypes /\ up
  BY DEF WholeInv
<1>2. /\ ChainTypes' /\ phase = "fast" /\ phase' = "pivot" /\ pivot' = b /\ owner = none
      /\ UNCHANGED <<todo, next, owner, job, up, rewinds, crashes>>
      /\ mem'.block = b /\ mem'.header = mem.header
      /\ chainDb'.state = chainDb.state \cup {b} /\ UNCHANGED <<chainDb.hdr, chainDb.body>>
      /\ HasBlock(b) /\ job["fast"] = Idle
  BY <1>1, CommitHeadTypes
<1>3. /\ FastSync /\ BodiesLinked(chainDb) /\ Processed /\ GenesisBlock \in chainDb.state /\ NoClash(todo)
      /\ pivot = none /\ StateLinked(chainDb, none)
  BY <1>2 DEF WholeInv, FastPart
<1>4. Coming' = mem' /\ todo = <<>> /\ todo' = <<>>
  BY <1>1, <1>2 DEF Coming, ChainTypes
<1> DEFINE S == {x \in Blocks : HasBlock(x)}
<1>5. b \in S /\ \A x \in S : x \in Blocks /\ (x # GenesisBlock => Parent[x] \in S)
  BY <1>2, <1>3 DEF HasBlock, BodiesLinked, ChainConstants
<1>6. Ancestry[b] \subseteq S
  <2> HIDE DEF S
  <2> QED BY <1>5, AncestryIsLeast
<1>7. \A x \in Ancestry[b], k \in Parts : x \in chainDb'[k]
  BY <1>2, <1>6 DEF HasBlock, Parts
<1>8. Whole(chainDb', todo', Coming'.block) /\ Standing(chainDb', pivot', Coming'.block) /\ GenesisBlock \in chainDb'.state
  BY <1>2, <1>3, <1>4, <1>7, NothingLeaves DEF Whole, Standing
<1>9. Processed'
  BY <1>2, <1>3 DEF Processed
<1>10. FastPart'
  BY <1>2, <1>3 DEF FastPart
<1>11. StateLinked(chainDb', pivot')
  <2>1. none \notin chainDb.state
    BY <1>1, ChainFields DEF ChainConstants
  <2> QED BY <1>2, <1>3, <2>1 DEF StateLinked
<1> QED BY <1>1, <1>2, <1>3, <1>8, <1>9, <1>10, <1>11 DEF WholeInv

\* The last header changes nothing that is written.
LEMMA WholeHeadersDone == ASSUME ChainConstants, WholeInv, HeadersDone PROVE WholeInv'
<1>1. /\ ChainTypes' /\ up' /\ phase = "pivot" /\ phase' = "full"
      /\ UNCHANGED <<chainDb, mem, todo, next, owner, job, pivot, rewinds, crashes>>
  BY DEF HeadersDone, WholeInv, ChainTypes
<1>2. Coming' = Coming /\ NoClash(todo') /\ StateLinked(chainDb', pivot')
  BY <1>1 DEF Coming, WholeInv
<1>3. Processed' /\ FastPart'
  BY <1>1 DEF WholeInv, Processed, FastPart
<1> QED BY <1>1, <1>2, <1>3, WholeStays

\* Every step keeps WholeInv.
LEMMA WholeStep == ASSUME LineStays, MaxCrashes = 0, WholeInv, [ChainNext]_chainVars PROVE WholeInv'
<1>0. ChainConstants /\ MaxCrashes = 0 /\ MaxRewinds \in Nat /\ (FastSync => MaxRewinds = 0) /\ ChainTypes
  BY DEF LineStays, WholeInv
<1>1. CASE NextWrite
  BY <1>0, <1>1, WholeNextWrite
<1>2. CASE Crash
  BY <1>0, <1>2 DEF Crash, ChainTypes
<1>3. CASE loadLastState
  BY <1>3 DEF loadLastState, WholeInv
<1>4. CASE InsertReceiptsHead
  <2>1. /\ ChainTypes' /\ owner = none /\ owner' # none /\ todo = <<>> /\ job["fast"] # Idle
        /\ UNCHANGED <<chainDb, mem, up, phase, pivot, rewinds, crashes>>
        /\ (\A v \in Workers \ {"fast"} : job'[v] = job[v]) /\ next'.block = mem.block /\ Bodiless(todo')
    BY <1>0, <1>4, ReceiptsHeadFacts
  <2>2. phase = "fast" /\ next'.block \in Ancestry[mem.block]
    BY <1>0, <2>1, ChainFields, AncestryFacts DEF WholeInv, FastPart
  <2> QED BY <1>0, <2>1, <2>2, WholeFastTake
<1>5. ASSUME NEW w \in {"import", "mine"}, NEW b \in Blocks, Process(w, b) PROVE WholeInv'
  BY <1>0, <1>5, WholeJob
<1>6. ASSUME NEW w \in {"import", "mine"}, ReadTd(w) \/ WriteKnown(w) \/ WriteTxLookupEntries(w) PROVE WholeInv'
  <2>1. GenesisBlock \in Blocks
    BY <1>0 DEF ChainConstants
  <2> QED BY <1>0, <1>6, <2>1, WholeJob
<1>7. ASSUME NEW w \in {"import", "mine"}, NEW canonical \in BOOLEAN, WriteBlock(w, canonical) PROVE WholeInv'
  BY <1>0, <1>7, WholeBlock
<1>8. ASSUME NEW n \in Heights, SetHead(n) PROVE WholeInv'
  BY <1>0, <1>8, WholeSetHead
<1>9. ASSUME NEW b \in Blocks \ {GenesisBlock}, NEW canonical \in BOOLEAN, WriteHeader(b, canonical) PROVE WholeInv'
  <2>1. /\ ChainTypes' /\ owner = none /\ owner' # none /\ todo = <<>> /\ MayImportHeader(b)
        /\ UNCHANGED <<chainDb, mem, job, up, phase, pivot, rewinds, crashes>> /\ next'.block = mem.block /\ Bodiless(todo')
    BY <1>0, <1>9, WriteHeaderFacts
  <2>2. phase # "full" /\ next'.block \in Ancestry[mem.block]
    BY <1>0, <2>1, ChainFields, AncestryFacts DEF MayImportHeader
  <2> QED BY <1>0, <2>1, <2>2, WholeFastTake
<1>10. ASSUME NEW b \in Blocks \ {GenesisBlock}, NEW n \in Heights, Rollback(b, n) PROVE WholeInv'
  <2>1. /\ ChainTypes' /\ owner = none /\ owner' # none /\ todo = <<>> /\ phase \in {"fast", "pivot"}
        /\ phase' = IF phase = "pivot" THEN "full" ELSE phase
        /\ UNCHANGED <<chainDb, mem, job, up, pivot, rewinds, crashes>>
        /\ next'.block \in Ancestry[mem.block] /\ Bodiless(todo')
    BY <1>0, <1>10, RollbackFacts
  <2>2. phase # "full" /\ (phase' = phase \/ (phase = "pivot" /\ phase' = "full"))
    BY <2>1
  <2> QED BY <1>0, <2>1, <2>2, WholeFastTake
<1>14. CASE HeadersDone
  BY <1>0, <1>14, WholeHeadersDone
<1>11. ASSUME NEW b \in Blocks \ {GenesisBlock}, InsertReceipts(b) \/ FastSyncCommitHead(b) PROVE WholeInv'
  BY <1>0, <1>11, WholeReceipts, WholeCommitHead
<1>12. CASE UNCHANGED chainVars
  <2>1. UNCHANGED <<chainDb, mem, todo, next, owner, job, up, phase, pivot, rewinds, crashes>>
    BY <1>12 DEF chainVars
  <2> QED BY <2>1 DEF WholeInv, ChainTypes, Processed, FastPart, Coming, StateLinked, Standing
<1>13. CASE ChainNext
  BY ONLY <1>13, <1>1, <1>2, <1>3, <1>4, <1>5, <1>6, <1>7, <1>8, <1>9, <1>10, <1>11, <1>14, Zenon DEF ChainNext
<1> QED BY <1>12, <1>13

\* When nothing is to be written, what stays is what is there.
LEMMA WholeIsComplete == ASSUME ChainConstants, WholeInv PROVE HeadIsComplete
<1>1. SUFFICES ASSUME Quiet PROVE Standing(chainDb, pivot, mem.block) /\ \A b \in Ancestry[mem.block] : HasBlock(b)
  <2>1. mem.block \in Ancestry[mem.block]
    BY ChainFields, AncestryFacts DEF WholeInv
  <2> QED BY <1>1, <2>1 DEF HeadIsComplete, Standing
<1>2. owner = none /\ todo = <<>> /\ Coming = mem
  BY <1>1 DEF Quiet, WholeInv, ChainTypes, Coming
<1>3. \A x \in Ancestry[mem.block], k \in Parts : x \in chainDb[k]
  BY <1>2, NothingLeaves DEF WholeInv, Whole
<1> QED BY <1>2, <1>3 DEF WholeInv, HasBlock, Parts

\* Without crashes the head block and all its ancestors are there whenever the mutex is
\* free, after imports and mining, reorganisations, rewinding, and a fast sync whose
\* headers are rolled back at any moment, before and after its pivot became the head. So
\* is its state, unless a rollback took the head below the pivot.
THEOREM HeadStaysComplete == ASSUME LineStays, MaxCrashes = 0 PROVE ChainSpec => []HeadIsComplete
<1>1. ChainConstants
  BY DEF LineStays
<1>2. ChainInit => WholeInv
  BY <1>1, WholeInit
<1>3. WholeInv /\ [ChainNext]_chainVars => WholeInv'
  BY WholeStep
<1>4. WholeInv => HeadIsComplete
  BY <1>1, WholeIsComplete
<1> QED BY <1>2, <1>3, <1>4, PTL DEF ChainSpec

-----------------------------------------------------------------------------
(* The head block after a crash.                                            *)

\* What has its state has the states and the blocks of its ancestors.
StateClosed(d) ==
  \A b \in d.state : Ancestry[b] \subseteq d.state /\ \A x \in Ancestry[b] : x # b => \A k \in Parts : x \in d[k]

\* A head block is written after the block itself.
HeadsComeLast(d, t) ==
  \A i \in DOMAIN t, x \in Blocks : t[i] = Set("headBlock", x) =>
     x \in d.state /\ \A k \in Parts : x \in d[k] \/ \E j \in 1 .. (i - 1) : t[j] = Store(k, x)

There(d, b) == b \in d.state /\ \A k \in Parts : b \in d[k]

\* At every moment, also between two writes, the head block the database names is
\* there with its state; the ancestors are, because a block is processed on a parent
\* that is.
CrashInv ==
  /\ ChainTypes /\ phase = "full" /\ job["fast"] = Idle /\ Processed
  /\ \A k, x : Del(k, x) \notin ToSet(todo)
  /\ StateClosed(chainDb) /\ HeadsComeLast(chainDb, todo)
  /\ There(chainDb, GenesisBlock) /\ There(chainDb, chainDb.headBlock) /\ There(chainDb, mem.block)
  /\ next.block \in chainDb.state /\ \A k \in Parts : Stays(chainDb, todo, k, next.block)

\* What a database keeps when blocks are added
Grows(d, e) == d.state = e.state /\ \A k \in Parts, x \in Blocks : x \in d[k] => x \in e[k]

\* Adding blocks breaks nothing.
LEMMA GrowthKeeps ==
  ASSUME ChainConstants, NEW d, NEW e, d.state \subseteq Blocks, Grows(d, e)
  PROVE  /\ StateClosed(d) => StateClosed(e)
         /\ \A b \in Blocks : There(d, b) => There(e, b)
<1>1. ASSUME StateClosed(d) PROVE StateClosed(e)
  <2>1. ASSUME NEW b \in e.state PROVE Ancestry[b] \subseteq e.state /\ \A x \in Ancestry[b] : x # b => \A k \in Parts : x \in e[k]
    <3>1. b \in d.state /\ b \in Blocks
      BY <2>1 DEF Grows
    <3>2. Ancestry[b] \subseteq Blocks
      BY <3>1, AncestryFacts
    <3>3. Ancestry[b] \subseteq d.state /\ \A x \in Ancestry[b] : x # b => \A k \in Parts : x \in d[k]
      BY <1>1, <3>1 DEF StateClosed
    <3> QED BY <3>2, <3>3 DEF Grows
  <2> QED BY <2>1 DEF StateClosed
<1>2. ASSUME NEW b \in Blocks, There(d, b) PROVE There(e, b)
  BY <1>2 DEF There, Grows
<1> QED BY <1>1, <1>2

\* One write of a list without deletions in which heads come last
LEMMA WriteGrows ==
  ASSUME ChainConstants, NEW d \in Databases, NEW t \in Seq(WriteSet), t # <<>>, HeadsComeLast(d, t),
         \A k, x : Del(k, x) \notin ToSet(t), There(d, d.headBlock), NEW e, e = Apply(d, Head(t))
  PROVE  /\ Grows(d, e) /\ HeadsComeLast(e, Tail(t)) /\ There(e, e.headBlock)
         /\ \A k, x : Del(k, x) \notin ToSet(Tail(t))
<1> DEFINE w == Head(t)
           s == Tail(t)
<1>1. w \in WriteSet /\ ToSet(t) = {w} \cup ToSet(s) /\ s \in Seq(WriteSet)
  BY ListsTail
<1>2. /\ e.state = d.state /\ e \in Databases
      /\ \A k \in Parts, x \in Blocks : x \in e[k] <=> (w = Store(k, x) \/ (x \in d[k] /\ w # Del(k, x)))
      /\ e.headBlock = IF w = Set("headBlock", w.v) THEN w.v ELSE d.headBlock
  BY <1>1, ApplyFacts DEF Parts
<1>3. (\A k, x : Del(k, x) \notin ToSet(s)) /\ \A k, x : w # Del(k, x)
  BY <1>1
<1>4. Grows(d, e)
  BY <1>2, <1>3 DEF Grows
<1>5. /\ Len(t) \in Nat /\ Len(t) > 0 /\ Len(s) = Len(t) - 1 /\ w = t[1]
      /\ DOMAIN t = 1 .. Len(t) /\ DOMAIN s = 1 .. Len(s) /\ \A i \in 1 .. Len(s) : s[i] = t[i + 1]
  BY HeadTailProperties, LenProperties, EmptySeq
<1>6. d.headBlock \in Blocks /\ e.headBlock \in Blocks /\ d.state \subseteq Blocks
  BY <1>2 DEF Databases
<1> HIDE DEF w, s
<1>7. HeadsComeLast(e, s)
  <2>1. ASSUME NEW i \in DOMAIN s, NEW x \in Blocks, s[i] = Set("headBlock", x), NEW k \in Parts
        PROVE  x \in e.state /\ (x \in e[k] \/ \E j \in 1 .. (i - 1) : s[j] = Store(k, x))
    <3>1. i \in Nat /\ i >= 1 /\ i <= Len(t) - 1 /\ i + 1 \in DOMAIN t /\ t[i + 1] = Set("headBlock", x)
      BY <1>5, <2>1
    <3>2. x \in d.state /\ (x \in d[k] \/ \E j \in 1 .. ((i + 1) - 1) : t[j] = Store(k, x))
      BY <3>1 DEF HeadsComeLast
    <3>3. CASE x \in d[k]
      BY <1>4, <3>2, <3>3 DEF Grows
    <3>4. CASE \E j \in 1 .. ((i + 1) - 1) : t[j] = Store(k, x)
      <4>1. PICK j \in 1 .. i : t[j] = Store(k, x)
        BY <3>1, <3>4
      <4>2. CASE j = 1
        <5>1. x \in e[k]
          BY <1>2, <1>5, <4>1, <4>2
        <5> QED BY <1>2, <3>2, <5>1
      <4>3. CASE j # 1
        <5>1. j - 1 \in 1 .. (i - 1) /\ j - 1 \in 1 .. Len(s) /\ (j - 1) + 1 = j
          BY <1>5, <3>1, <4>1, <4>3
        <5>2. s[j - 1] = Store(k, x)
          BY <1>5, <4>1, <5>1
        <5> QED BY <1>2, <3>2, <5>1, <5>2
      <4> QED BY <4>2, <4>3
    <3> QED BY <3>2, <3>3, <3>4
  <2>2. "hdr" \in Parts
    BY DEF Parts
  <2> QED BY <2>1, <2>2 DEF HeadsComeLast
<1>8. There(e, e.headBlock)
  <2>1. CASE w = Set("headBlock", w.v)
    <3>1. w.v \in Blocks /\ e.headBlock = w.v /\ 1 \in DOMAIN t /\ t[1] = Set("headBlock", w.v)
      BY <1>2, <1>5, <1>6, <2>1
    <3>2. w.v \in d.state /\ \A k \in Parts : w.v \in d[k] \/ \E j \in 1 .. (1 - 1) : t[j] = Store(k, w.v)
      BY <3>1 DEF HeadsComeLast
    <3>3. There(d, w.v)
      BY <3>2 DEF There
    <3>4. There(e, w.v)
      BY <1>4, <1>6, <3>1, <3>3, GrowthKeeps
    <3> QED BY <3>1, <3>4
  <2>2. CASE w # Set("headBlock", w.v)
    <3>1. There(e, d.headBlock)
      BY <1>4, <1>6, GrowthKeeps
    <3> QED BY <1>2, <2>2, <3>1
  <2> QED BY <2>1, <2>2
<1> QED BY <1>3, <1>4, <1>7, <1>8 DEF s

\* CrashInv holds at the start.
LEMMA CrashInit == ASSUME ChainConstants, ~FastSync, ChainInit PROVE CrashInv
<1>1. ChainTypes
  BY ChainInitTypes
<1>2. /\ todo = <<>> /\ mem = Heads(GenesisBlock) /\ next = mem /\ job = [w \in Workers |-> Idle] /\ phase = "full"
      /\ chainDb.hdr = {GenesisBlock} /\ chainDb.body = {GenesisBlock} /\ chainDb.state = {GenesisBlock}
      /\ chainDb.headBlock = GenesisBlock
  BY DEF ChainInit
<1>3. ToSet(todo) = {} /\ DOMAIN todo = {} /\ Ancestry[GenesisBlock] = {GenesisBlock}
  BY <1>2, AncestryFacts DEF ChainConstants, ToSet
<1>4. mem.block = GenesisBlock /\ next.block = GenesisBlock /\ (\A w \in Workers : job[w] = Idle) /\ job["fast"] = Idle
  BY <1>2 DEF Heads, Workers
<1>5. There(chainDb, GenesisBlock) /\ Processed
  BY <1>2, <1>4 DEF There, Parts, Processed
<1>6. StateClosed(chainDb) /\ HeadsComeLast(chainDb, todo)
  BY <1>2, <1>3 DEF StateClosed, HeadsComeLast
<1>7. \A k \in Parts : Stays(chainDb, todo, k, GenesisBlock)
  BY <1>2, <1>5, NothingLeaves DEF There
<1> QED BY <1>1, <1>2, <1>3, <1>4, <1>5, <1>6, <1>7 DEF CrashInv, There

\* One write, or the release of the mutex
LEMMA CrashNextWrite == ASSUME ChainConstants, CrashInv, NextWrite PROVE CrashInv'
<1>1. ChainTypes /\ ChainTypes' /\ phase' = phase /\ job' = job /\ next' = next
  BY NextWriteTypes DEF CrashInv, NextWrite
<1>2. CASE todo = <<>>
  <2>1. mem' = next /\ chainDb' = chainDb /\ todo' = todo
    BY <1>2 DEF NextWrite
  <2>2. There(chainDb, next.block)
    BY <1>2, NothingLeaves DEF CrashInv, There
  <2> QED BY <1>1, <2>1, <2>2 DEF CrashInv, Processed
<1>3. CASE todo # <<>>
  <2>1. chainDb' = Apply(chainDb, Head(todo)) /\ todo' = Tail(todo) /\ mem' = mem
    BY <1>3 DEF NextWrite
  <2>2. /\ chainDb \in Databases /\ todo \in Seq(WriteSet) /\ HeadsComeLast(chainDb, todo)
        /\ There(chainDb, chainDb.headBlock) /\ \A k, x : Del(k, x) \notin ToSet(todo)
    BY <1>1 DEF ChainTypes, CrashInv
  <2>3. /\ Grows(chainDb, chainDb') /\ HeadsComeLast(chainDb', todo') /\ There(chainDb', chainDb'.headBlock)
        /\ \A k, x : Del(k, x) \notin ToSet(todo')
    BY ONLY ChainConstants, <1>3, <2>1, <2>2, WriteGrows
  <2>4. chainDb.state \subseteq Blocks /\ GenesisBlock \in Blocks /\ mem.block \in Blocks /\ next.block \in Blocks
    BY <1>1, ChainFields DEF ChainConstants
  <2>5. StateClosed(chainDb') /\ There(chainDb', GenesisBlock) /\ There(chainDb', mem'.block)
    BY <2>1, <2>3, <2>4, GrowthKeeps DEF CrashInv
  <2>6. chainDb'.state = chainDb.state
    BY <2>3 DEF Grows
  <2>7. \A k \in Parts : Stays(chainDb', todo', k, next.block)
    <3>1. NoClash(todo)
      BY <2>2, NoDeletion
    <3> QED BY <1>3, <2>1, <2>2, <2>4, <3>1, WriteStays DEF CrashInv
  <2>8. next'.block \in chainDb'.state /\ \A k \in Parts : Stays(chainDb', todo', k, next'.block)
    BY <1>1, <2>6, <2>7 DEF CrashInv
  <2>9. phase' = "full" /\ job'["fast"] = Idle /\ Processed'
    BY <1>1, <2>6 DEF CrashInv, Processed
  <2> QED BY ONLY <1>1, <2>3, <2>5, <2>8, <2>9, Zenon DEF CrashInv
<1> QED BY <1>2, <1>3

\* A crash: only the database is left.
LEMMA CrashCrash == ASSUME ChainConstants, CrashInv, Crash PROVE CrashInv'
<1>1. ChainTypes /\ ChainTypes'
  BY CrashTypes DEF CrashInv
<1>2. /\ todo' = <<>> /\ mem' = Heads(GenesisBlock) /\ next' = Heads(GenesisBlock) /\ job' = [w \in Workers |-> Idle]
      /\ UNCHANGED <<chainDb, phase>>
  BY DEF Crash
<1>3. ToSet(todo') = {} /\ DOMAIN todo' = {} /\ mem'.block = GenesisBlock /\ next'.block = GenesisBlock
  BY <1>2 DEF ToSet, Heads
<1>4. Processed' /\ job'["fast"] = Idle
  BY <1>2 DEF Processed, Workers
<1>5. HeadsComeLast(chainDb', todo') /\ (\A k, x : Del(k, x) \notin ToSet(todo'))
  BY <1>3 DEF HeadsComeLast
<1>6. /\ StateClosed(chainDb') /\ There(chainDb', GenesisBlock) /\ There(chainDb', chainDb'.headBlock)
      /\ There(chainDb', mem'.block) /\ next'.block \in chainDb'.state /\ phase' = "full"
  BY <1>2, <1>3 DEF CrashInv, There
<1>7. \A k \in Parts : Stays(chainDb', todo', k, next'.block)
  BY <1>2, <1>3, <1>6, NothingLeaves DEF There
<1> QED BY ONLY <1>1, <1>4, <1>5, <1>6, <1>7, Zenon DEF CrashInv

\* The node finds the head block complete.
LEMMA CrashLoad == ASSUME ChainConstants, CrashInv, loadLastState PROVE CrashInv'
<1>1. ChainTypes /\ ChainTypes'
  BY LoadTypes DEF CrashInv
<1>2. Complete(chainDb.headBlock)
  BY DEF CrashInv, There, Complete, HasBlockAndState, HasBlock, Parts
<1>3. /\ mem'.block = chainDb.headBlock /\ UNCHANGED <<todo, next, job, phase>>
      /\ \E h : chainDb' = [chainDb EXCEPT !.headHeader = h]
  BY <1>2 DEF loadLastState
<1>4. UNCHANGED <<chainDb.state, chainDb.hdr, chainDb.body, chainDb.headBlock>>
  BY <1>1, <1>3 DEF ChainTypes, Databases
<1>5. \A k \in Parts : chainDb'[k] = chainDb[k]
  BY <1>4 DEF Parts
<1>6. StateClosed(chainDb') /\ HeadsComeLast(chainDb', todo')
  BY <1>3, <1>4, <1>5 DEF CrashInv, StateClosed, HeadsComeLast
<1>7. There(chainDb', GenesisBlock) /\ There(chainDb', chainDb'.headBlock) /\ There(chainDb', mem'.block)
  BY <1>3, <1>4, <1>5 DEF CrashInv, There
<1>8. next'.block \in chainDb'.state /\ \A k \in Parts : Stays(chainDb', todo', k, next'.block)
  BY <1>3, <1>4, <1>5 DEF CrashInv, Stays
<1>9. phase' = "full" /\ job'["fast"] = Idle /\ Processed' /\ \A k, x : Del(k, x) \notin ToSet(todo')
  BY <1>3, <1>4 DEF CrashInv, Processed
<1> QED BY ONLY <1>1, <1>6, <1>7, <1>8, <1>9, Zenon DEF CrashInv

\* The steps without the mutex: a block is processed on a complete parent.
LEMMA CrashJob ==
  ASSUME ChainConstants, CrashInv, NEW w \in {"import", "mine"}, NEW b \in Blocks,
         Process(w, b) \/ ReadTd(w) \/ WriteKnown(w) \/ WriteTxLookupEntries(w)
  PROVE  CrashInv'
<1>1. w \in Workers /\ ChainTypes /\ chainDb.state \subseteq Blocks
  BY ChainFields DEF Workers, CrashInv
<1>2. /\ ChainTypes' /\ UNCHANGED <<mem, todo, next, owner, up, phase, pivot>>
      /\ UNCHANGED <<chainDb.hdr, chainDb.body, chainDb.headBlock>>
      /\ chainDb'.state = chainDb.state \/ (Process(w, b) /\ chainDb'.state = chainDb.state \cup {b})
      /\ \A v \in Workers \ {w} : job'[v] = job[v]
      /\ \/ job'[w] = Idle
         \/ Process(w, b) /\ job'[w].block = b
         \/ job[w] # Idle /\ job'[w].block = job[w].block
  BY <1>1, JobStepTypes
<1>3. chainDb.state \subseteq chainDb'.state /\ (Process(w, b) => b \in chainDb'.state)
  <2>1. Process(w, b) => chainDb'.state = chainDb.state \cup {b}
    BY <1>1 DEF Process, ChainTypes, Databases
  <2> QED BY <1>2, <2>1
<1>4. Processed'
  <2>1. ASSUME NEW v \in Workers \ {"fast"}, job'[v] # Idle PROVE job'[v].block \in chainDb'.state
    <3>1. CASE v # w
      BY <1>2, <1>3, <2>1, <3>1 DEF CrashInv, Processed
    <3>2. CASE v = w
      BY <1>2, <1>3, <2>1, <3>2 DEF CrashInv, Processed
    <3> QED BY <3>1, <3>2
  <2> QED BY <2>1 DEF Processed
<1>5. \A k \in Parts : chainDb'[k] = chainDb[k]
  BY <1>2 DEF Parts
<1>6. StateClosed(chainDb')
  <2>1. StateClosed(chainDb)
    BY DEF CrashInv
  <2>2. CASE chainDb'.state = chainDb.state
    BY <1>5, <2>1, <2>2 DEF StateClosed
  <2>3. CASE Process(w, b) /\ chainDb'.state = chainDb.state \cup {b}
    <3>1. b \in Blocks \ {GenesisBlock} /\ HasBlockAndState(Parent[b])
      BY <2>3 DEF Process
    <3>2. Ancestry[b] = {b} \cup Ancestry[Parent[b]]
      BY <3>1, AncestryFacts
    <3>3. Parent[b] \in chainDb.state /\ \A k \in Parts : Parent[b] \in chainDb[k]
      BY <3>1 DEF HasBlockAndState, HasBlock, Parts
    <3>4. /\ Ancestry[Parent[b]] \subseteq chainDb.state
          /\ \A x \in Ancestry[Parent[b]], k \in Parts : x \in chainDb[k]
      BY <2>1, <3>3 DEF StateClosed
    <3>5. ASSUME NEW c \in chainDb'.state
          PROVE  Ancestry[c] \subseteq chainDb'.state /\ \A x \in Ancestry[c] : x # c => \A k \in Parts : x \in chainDb'[k]
      <4>1. CASE c = b
        BY <1>5, <2>3, <3>2, <3>4, <4>1
      <4>2. CASE c \in chainDb.state
        BY <1>5, <2>1, <2>3, <4>2 DEF StateClosed
      <4> QED BY <2>3, <3>5, <4>1, <4>2
    <3> QED BY <3>5 DEF StateClosed
  <2> QED BY <1>2, <2>2, <2>3
<1>7. HeadsComeLast(chainDb', todo')
  <2>1. HeadsComeLast(chainDb, todo) /\ todo' = todo
    BY <1>2 DEF CrashInv
  <2> QED BY ONLY <1>3, <1>5, <2>1 DEF HeadsComeLast
<1>8. There(chainDb', GenesisBlock) /\ There(chainDb', chainDb'.headBlock) /\ There(chainDb', mem'.block)
  BY <1>2, <1>3, <1>5 DEF CrashInv, There
<1>9. next'.block \in chainDb'.state /\ \A k \in Parts : Stays(chainDb', todo', k, next'.block)
  BY <1>2, <1>3, <1>5 DEF CrashInv, Stays
<1>10. phase' = "full" /\ job'["fast"] = Idle /\ \A k, x : Del(k, x) \notin ToSet(todo')
  <2>1. "fast" \in Workers \ {w}
    BY DEF Workers
  <2> QED BY <1>2, <2>1 DEF CrashInv
<1> QED BY ONLY <1>2, <1>4, <1>6, <1>7, <1>8, <1>9, <1>10, Zenon DEF CrashInv

\* A block that becomes the head was stored before.
LEMMA CrashBlock ==
  ASSUME ChainConstants, CrashInv, NEW w \in {"import", "mine"}, NEW canonical \in BOOLEAN, WriteBlock(w, canonical)
  PROVE  CrashInv'
<1> DEFINE b == job[w].block
           new == Ancestry[b] \ Ancestry[mem.block]
           d == chainDb
           t == todo'
<1>1. w \in Workers /\ w # "fast" /\ ChainTypes
  BY DEF Workers, CrashInv
<1>2. /\ b \in Blocks \ {GenesisBlock} /\ BlockStored(b) /\ (OnlyStored \/ MadeCanonical(b, new))
      /\ job[w] # Idle /\ UNCHANGED <<chainDb, mem, up, phase, pivot, rewinds, crashes>>
  BY <1>1, BlockFacts
<1>3. /\ ChainTypes' /\ (\A v \in Workers \ {w} : job'[v] = job[v])
      /\ job'[w] = Idle \/ job'[w].block = b
  BY <1>1, BlockTypes
<1>4. b \in d.state /\ Processed'
  <2>1. b \in d.state
    BY <1>1, <1>2 DEF CrashInv, Processed
  <2>2. ASSUME NEW v \in Workers \ {"fast"}, job'[v] # Idle PROVE job'[v].block \in chainDb'.state
    BY <1>2, <1>3, <2>1, <2>2 DEF CrashInv, Processed
  <2> QED BY <2>1, <2>2 DEF Processed
<1>5. phase' = "full" /\ job'["fast"] = Idle
  <2>1. "fast" \in Workers \ {w}
    BY <1>1 DEF Workers
  <2> QED BY <1>2, <1>3, <2>1 DEF CrashInv
<1>6. /\ t \in Seq(WriteSet) /\ \A k, x : Del(k, x) \notin ToSet(t)
      /\ \A k \in Parts : Store(k, b) \in ToSet(t)
      /\ t[2] = Store("body", b) /\ t[3] = Store("hdr", b)
      /\ \A i \in DOMAIN t : \A x : t[i] = Set("headBlock", x) => i \in Nat /\ i > 3
  BY <1>2 DEF BlockStored, Stores, Parts
<1>7. /\ StateClosed(d) /\ There(d, GenesisBlock) /\ There(d, d.headBlock) /\ There(d, mem.block)
  BY DEF CrashInv
<1>8. chainDb' = d /\ mem' = mem
  BY <1>2
<1>9. SUFFICES HeadsComeLast(d, t) /\ next'.block \in d.state /\ \A k \in Parts : Stays(d, t, k, next'.block)
  <2>1. /\ StateClosed(chainDb') /\ There(chainDb', GenesisBlock) /\ There(chainDb', chainDb'.headBlock)
        /\ There(chainDb', mem'.block)
    BY <1>7, <1>8
  <2>2. /\ HeadsComeLast(chainDb', todo') /\ next'.block \in chainDb'.state
        /\ \A k \in Parts : Stays(chainDb', todo', k, next'.block)
    BY <1>8, <1>9
  <2> QED BY ONLY <1>3, <1>4, <1>5, <1>6, <2>1, <2>2, Zenon DEF CrashInv
<1>10. next'.block \in d.state /\ \A k \in Parts : Stays(d, t, k, next'.block)
  <2>1. CASE OnlyStored
    <3>1. next' = mem
      BY <2>1 DEF OnlyStored
    <3> QED BY <3>1, <1>6, <1>7 DEF There, Stays
  <2>2. CASE MadeCanonical(b, new)
    <3>1. next'.block = b
      BY <2>2 DEF MadeCanonical
    <3> QED BY <3>1, <1>4, <1>6 DEF Stays
  <2> QED BY <1>2, <2>1, <2>2
<1>11. ASSUME NEW i \in DOMAIN t, NEW x \in Blocks, t[i] = Set("headBlock", x), NEW k \in Parts
       PROVE  x \in d.state /\ (x \in d[k] \/ \E j \in 1 .. (i - 1) : t[j] = Store(k, x))
  <2>1. Set("headBlock", x) \in ToSet(t) /\ i \in Nat /\ i > 3
    BY <1>6, <1>11 DEF ToSet
  <2>2. ~OnlyStored
    BY <2>1 DEF OnlyStored
  <2>3. x \in new \cup {b} /\ \A y \in new : y # b => HasBlock(y)
    BY <1>2, <2>1, <2>2 DEF MadeCanonical
  <2>4. CASE x = b
    <3>1. 2 \in 1 .. (i - 1) /\ 3 \in 1 .. (i - 1)
      BY <2>1
    <3> QED BY <1>4, <1>6, <2>4, <3>1 DEF Parts
  <2>5. CASE x \in new /\ x # b
    <3>1. x \in d.state
      BY <1>4, <1>7, <2>5 DEF StateClosed
    <3>2. x \in d[k]
      BY <2>3, <2>5 DEF HasBlock, Parts
    <3> QED BY <3>1, <3>2
  <2> QED BY <2>3, <2>4, <2>5
<1>12. HeadsComeLast(d, t)
  <2>1. "hdr" \in Parts
    BY DEF Parts
  <2> HIDE DEF d, t
  <2> QED BY ONLY <1>11, <2>1 DEF HeadsComeLast
<1> QED BY <1>10, <1>12

\* A node that does not start with a fast sync and is not rewound; it may crash any
\* number of times.
NeverRewound == ChainConstants /\ ~FastSync /\ MaxRewinds = 0

\* Every step keeps CrashInv.
LEMMA CrashStep == ASSUME NeverRewound, CrashInv, [ChainNext]_chainVars PROVE CrashInv'
<1>0. ChainConstants /\ ~FastSync /\ MaxRewinds = 0 /\ ChainTypes /\ phase = "full" /\ job["fast"] = Idle /\ rewinds \in Nat
  BY DEF NeverRewound, CrashInv, ChainTypes
<1>1. CASE NextWrite
  BY <1>0, <1>1, CrashNextWrite
<1>2. CASE Crash
  BY <1>0, <1>2, CrashCrash
<1>3. CASE loadLastState
  BY <1>0, <1>3, CrashLoad
<1>4. CASE InsertReceiptsHead
  BY <1>0, <1>4 DEF InsertReceiptsHead, Idle
<1>5. ASSUME NEW w \in {"import", "mine"}, NEW b \in Blocks, Process(w, b) PROVE CrashInv'
  BY <1>0, <1>5, CrashJob
<1>6. ASSUME NEW w \in {"import", "mine"}, ReadTd(w) \/ WriteKnown(w) \/ WriteTxLookupEntries(w) PROVE CrashInv'
  <2>1. GenesisBlock \in Blocks
    BY <1>0 DEF ChainConstants
  <2> QED BY <1>0, <1>6, <2>1, CrashJob
<1>7. ASSUME NEW w \in {"import", "mine"}, NEW canonical \in BOOLEAN, WriteBlock(w, canonical) PROVE CrashInv'
  BY <1>0, <1>7, CrashBlock
<1>8. ASSUME NEW n \in Heights, SetHead(n) PROVE CrashInv'
  BY <1>0, <1>8 DEF SetHead
<1>9. ASSUME NEW b \in Blocks \ {GenesisBlock}, NEW canonical \in BOOLEAN, WriteHeader(b, canonical) PROVE CrashInv'
  BY <1>0, <1>9 DEF WriteHeader, MayImportHeader
<1>10. ASSUME NEW b \in Blocks \ {GenesisBlock}, InsertReceipts(b) \/ FastSyncCommitHead(b) PROVE CrashInv'
  BY <1>0, <1>10 DEF InsertReceipts, FastSyncCommitHead
<1>13. ASSUME NEW b \in Blocks \ {GenesisBlock}, NEW n \in Heights, Rollback(b, n) PROVE CrashInv'
  BY <1>0, <1>13 DEF Rollback
<1>14. CASE HeadersDone
  BY <1>0, <1>14 DEF HeadersDone
<1>11. CASE UNCHANGED chainVars
  <2>1. UNCHANGED <<chainDb, mem, todo, next, owner, job, up, phase, pivot, rewinds, crashes>>
    BY <1>11 DEF chainVars
  <2> QED BY <2>1 DEF CrashInv, ChainTypes, Processed
<1>12. CASE ChainNext
  BY ONLY <1>12, <1>1, <1>2, <1>3, <1>4, <1>5, <1>6, <1>7, <1>8, <1>9, <1>10, <1>13, <1>14, Zenon DEF ChainNext
<1> QED BY <1>11, <1>12

\* The head block is there, and so are its ancestors.
LEMMA CrashIsComplete == ASSUME ChainConstants, CrashInv PROVE HeadIsComplete
<1>1. There(chainDb, mem.block) /\ StateClosed(chainDb)
  BY DEF CrashInv
<1>2. ASSUME NEW x \in Ancestry[mem.block], NEW k \in Parts PROVE x \in chainDb[k]
  BY <1>1 DEF There, StateClosed
<1>3. mem.block \in chainDb.state /\ HasBlock(mem.block) /\ \A b \in Ancestry[mem.block] : HasBlock(b)
  BY <1>1, <1>2 DEF There, HasBlock, Parts
<1> QED BY <1>3 DEF HeadIsComplete

\* A full node that is not rewound comes back from any number of crashes, each between
\* any two database writes, with a complete head: the block, its state and all its
\* ancestors are there.
THEOREM HeadSurvivesCrashes == ASSUME NeverRewound PROVE ChainSpec => []HeadIsComplete
<1>1. ChainConstants /\ ~FastSync
  BY DEF NeverRewound
<1>2. ChainInit => CrashInv
  BY <1>1, CrashInit
<1>3. CrashInv /\ [ChainNext]_chainVars => CrashInv'
  BY CrashStep
<1>4. CrashInv => HeadIsComplete
  BY <1>1, CrashIsComplete
<1> QED BY <1>2, <1>3, <1>4, PTL DEF ChainSpec
=============================================================================
