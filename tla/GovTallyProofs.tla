---------------------------- MODULE GovTallyProofs ----------------------------
(***************************************************************************)
(* Proofs about the tally engine of GovTally.tla, for every snapshot of    *)
(* votes and every value of the constants that satisfies TallyConstants.   *)
(*                                                                         *)
(* What is proved is the combinatorial half of CoinsConserved: the         *)
(* identities getTally pushes partition the proposal's votes, and each     *)
(* pushed Tally is the subtally of its identity.  The other half, that a   *)
(* sum over a disjoint union is the sum of the sums, is a fact about the   *)
(* fold MapThenSumSet for every finite set; it needs induction over the    *)
(* set, which the provers cannot instantiate, and stays with TLC.          *)
(***************************************************************************)
EXTENDS GovTally, TLAPS

(* Appending an element to a sequence: the length grows by one, the old   *)
(* positions keep their elements and the new last position holds it.      *)
LEMMA AppendFacts ==
  ASSUME NEW S, NEW s \in Seq(S), NEW e \in S
  PROVE  /\ Append(s, e) \in Seq(S)
         /\ Len(Append(s, e)) = Len(s) + 1
         /\ \A i \in 1..Len(s) : Append(s, e)[i] = s[i]
         /\ Append(s, e)[Len(s) + 1] = e
         /\ 1..Len(Append(s, e)) = 1..Len(s) \cup {Len(s) + 1}
OBVIOUS

(* allUnique only gathers votes of the proposal: the votes of the         *)
(* transaction and the votes sharing a key with one of them.              *)
LEMMA AllUniqueVotes ==
  ASSUME NEW t
  PROVE  /\ AllUnique(t) \subseteq proposalVotes
         /\ TxVotes(t) \subseteq AllUnique(t)
BY DEF AllUnique, TxVotes, KeyVotes

-----------------------------------------------------------------------------
LEMMA InitTInv == Init => TInv
<1> SUFFICES ASSUME Init PROVE TInv
  OBVIOUS
<1>1. identities = << >> /\ Len(identities) = 0 /\ 1..Len(identities) = {}
  BY DEF Init
<1>2. tallies = [i \in 1..Len(identities) |-> SubTally(identities[i])]
  BY <1>1 DEF Init
<1>3. counted = Counted
  BY <1>1 DEF Init, Counted
<1>. QED  BY <1>1, <1>2, <1>3 DEF Init, TInv

(* One iteration that pushes an identity keeps the partition.              *)
LEMMA CountTInv ==
  ASSUME TInv, CountIdentity
  PROVE  TInv'
<1> DEFINE t == NextTx
           fresh == AllUnique(t) \ counted
           n == Len(identities)
<1>1. /\ pc = "loop" /\ fresh # {}
      /\ counted' = counted \cup fresh
      /\ identities' = Append(identities, fresh)
      /\ tallies' = Append(tallies, SubTally(fresh))
      /\ todo' = todo \ {t}
      /\ UNCHANGED <<snapshot, proposalVotes, final, pc>>
  BY DEF CountIdentity
<1>2. fresh \in SUBSET proposalVotes /\ TxVotes(t) \subseteq counted \cup fresh
  BY AllUniqueVotes
<1>3. identities \in Seq(SUBSET proposalVotes) /\ n \in Nat
  BY DEF TInv
<1>4. /\ identities' \in Seq(SUBSET proposalVotes')
      /\ Len(identities') = n + 1
      /\ \A i \in 1..n : identities'[i] = identities[i]
      /\ identities'[n + 1] = fresh
      /\ 1..Len(identities') = 1..n \cup {n + 1}
  BY <1>1, <1>2, <1>3, AppendFacts
<1>5. tallies' = [i \in 1..Len(identities') |-> SubTally(identities'[i])]
  <2> DEFINE X == {SubTally(identities[i]) : i \in 1..n} \cup {SubTally(fresh)}
  <2>1. tallies = [i \in 1..n |-> SubTally(identities[i])]
    BY DEF TInv
  <2>2. tallies \in Seq(X) /\ SubTally(fresh) \in X
    BY <1>3, <2>1
  <2>3. Len(tallies) = n /\ \A i \in 1..n : tallies[i] = SubTally(identities[i])
    BY <2>1, <1>3
  <2>4. /\ Len(tallies') = n + 1
        /\ \A i \in 1..n : tallies'[i] = SubTally(identities[i])
        /\ tallies'[n + 1] = SubTally(fresh)
        /\ tallies' \in Seq(X)
    BY <2>2, <2>3, <1>1, AppendFacts
  <2>5. \A i \in 1..n + 1 : tallies'[i] = SubTally(identities'[i])
    <3> SUFFICES ASSUME NEW i \in 1..n + 1
                 PROVE  tallies'[i] = SubTally(identities'[i])
      OBVIOUS
    <3>1. CASE i \in 1..n
      BY <3>1, <2>4, <1>4
    <3>2. CASE i = n + 1
      BY <3>2, <2>4, <1>4
    <3>. QED  BY <3>1, <3>2, <1>3
  <2>6. DOMAIN tallies' = 1..n + 1
    BY <2>4
  <2>. QED  BY <2>4, <2>5, <2>6, <1>4
<1>6. counted' = Counted'
  <2>1. ASSUME NEW x
        PROVE  x \in counted' <=> \E i \in 1..Len(identities') : x \in identities'[i]
    <3>1. x \in counted <=> \E i \in 1..n : x \in identities[i]
      BY DEF TInv, Counted
    <3>. QED  BY <3>1, <1>1, <1>4
  <2>. QED  BY <2>1 DEF Counted
<1>7. \A i \in 1..Len(identities') : identities'[i] # {}
  BY <1>1, <1>4 DEF TInv
<1>8. \A i, j \in 1..Len(identities') :
        i # j => identities'[i] \cap identities'[j] = {}
  <2>1. \A i \in 1..n : identities[i] \subseteq counted
    BY <1>3 DEF TInv, Counted
  <2>2. \A i \in 1..n : identities'[i] \cap fresh = {}
    BY <2>1, <1>4
  <2>. QED  BY <2>2, <1>4 DEF TInv
<1>9. \A w \in proposalVotes' : w.tx \notin todo' => w \in counted'
  <2> SUFFICES ASSUME NEW w \in proposalVotes, w.tx \notin todo'
               PROVE  w \in counted'
    BY <1>1
  <2>1. CASE w.tx = t
    BY <2>1, <1>1, <1>2 DEF TxVotes
  <2>2. CASE w.tx # t
    BY <2>2, <1>1 DEF TInv
  <2>. QED  BY <2>1, <2>2
<1>. QED  BY <1>1, <1>4, <1>5, <1>6, <1>7, <1>8, <1>9 DEF TInv, Target

(* One iteration whose identity was counted before, and the return.       *)
LEMMA SkipTInv ==
  ASSUME TInv, SkipIdentity \/ SumTallies
  PROVE  TInv'
<1>1. CASE SkipIdentity
  <2>1. \A w \in proposalVotes : w.tx = NextTx => w \in counted
    BY <1>1, AllUniqueVotes DEF SkipIdentity, TxVotes
  <2>2. \A w \in proposalVotes' : w.tx \notin todo' => w \in counted'
    BY <1>1, <2>1 DEF SkipIdentity, TInv
  <2>. QED  BY <1>1, <2>2 DEF SkipIdentity, TInv, Counted, Target
<1>2. CASE SumTallies
  BY <1>2 DEF SumTallies, TInv, Counted, Target
<1>. QED  BY <1>1, <1>2

LEMMA PrepTInv ==
  ASSUME TInv, Prep
  PROVE  TInv'
<1>1. proposalVotes' = Target /\ identities = << >> /\ counted = {}
  BY DEF Prep, TInv, Target
<1>2. \A w \in proposalVotes' : w.tx \in todo'
  BY DEF Prep
<1>3. identities' \in Seq(SUBSET proposalVotes')
  BY <1>1 DEF Prep
<1>. QED  BY <1>1, <1>2, <1>3 DEF Prep, TInv, Counted, Target

LEMMA NextTInv == TInv /\ [Next]_vars => TInv'
<1> SUFFICES ASSUME TInv, [Next]_vars PROVE TInv'
  OBVIOUS
<1>1. CASE Prep  BY <1>1, PrepTInv
<1>2. CASE CountIdentity  BY <1>2, CountTInv
<1>3. CASE SkipIdentity \/ SumTallies  BY <1>3, SkipTInv
<1>4. CASE UNCHANGED vars  BY <1>4 DEF vars, TInv, Counted, Target
<1>. QED  BY <1>1, <1>2, <1>3, <1>4 DEF Next

(* The tally loop's invariant in every state of getTally, for every        *)
(* snapshot: the pushed identities partition the counted set, a vote whose *)
(* transaction the loop has visited is counted, and every pushed Tally is   *)
(* the subtally of its identity.                                           *)
THEOREM TallyInvariant == Spec => []TInv
BY InitTInv, NextTInv, PTL DEF Spec

(* When getTally returns, every vote on the proposal has been counted in   *)
(* exactly one identity (the counted filter of l. 1045-1050 and the visit  *)
(* of every transaction key of l. 1026), for every snapshot of votes.      *)
THEOREM VotesCountedOnceThm == Spec => []VotesCountedOnce
<1>1. TInv => VotesCountedOnce
  <2> SUFFICES ASSUME TInv, pc = "done"
               PROVE  /\ \A i \in 1..Len(identities) : identities[i] # {}
                      /\ \A i, j \in 1..Len(identities) :
                           i # j => identities[i] \cap identities[j] = {}
                      /\ Counted = Target
    BY DEF VotesCountedOnce
  <2>1. proposalVotes = Target /\ todo = {}
    BY DEF TInv
  <2>2. Counted \subseteq proposalVotes
    BY DEF TInv, Counted
  <2>3. proposalVotes \subseteq counted
    BY <2>1 DEF TInv
  <2>. QED  BY <2>1, <2>2, <2>3 DEF TInv
<1>. QED  BY <1>1, TallyInvariant, PTL
==============================================================================
