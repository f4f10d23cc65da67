------------------------------ MODULE GovTally ------------------------------
(***************************************************************************)
(* The tally engine, Governance::getTally (governance.h 992-1082).          *)
(*                                                                         *)
(* getTally is a pure function of a vote snapshot.  Its control is a loop   *)
(* over the std::map userVotes, in ascending order of the hash of the       *)
(* transaction carrying each vote.  Each iteration forms an identity from   *)
(* the votes of one transaction and every vote sharing a key with one of    *)
(* them, drops the votes already counted, and adds a subtally whose integer *)
(* counts are floored per identity.  The loop is modelled step by step, so  *)
(* the `continue' on an empty identity and the counted filter are guards.   *)
(*                                                                         *)
(* A vote is a record: its proposal p; its utxo u, so that <<p, u>> is    *)
(* its hash; tx, the hash of the transaction holding its OP_RETURN         *)
(* (getOutpoint().hash); key, the key id of the utxo (getPubKey().GetID()); *)
(* its type v; and amt, the utxo amount.                                   *)
(***************************************************************************)
EXTENDS Integers, Sequences, FiniteSets, FiniteSetsExt, SequencesExt

CONSTANTS
    Proposal,        \* the proposal being tallied
    OtherProposals,  \* proposals of other votes in the snapshot
    Utxos,           \* utxos that may vote
    VoteTxs,         \* hashes of vote transactions, ordered as uint256
    Keys,            \* key ids of utxos
    UtxoAmount,      \* amount of each utxo
    VoteBalance      \* consensus voteBalance

NO == 0
YES == 1
ABSTAIN == 2
VoteTypes == {NO, YES, ABSTAIN}

ASSUME TallyConstants ==
    /\ Proposal \notin OtherProposals
    /\ VoteTxs \subseteq Nat
    /\ UtxoAmount \in [Utxos -> Nat]
    /\ VoteBalance \in Nat \ {0}

(* What one utxo's vote carries besides its utxo.                           *)
VoteInfo == [p : {Proposal} \cup OtherProposals, tx : VoteTxs, key : Keys,
             v : VoteTypes]

MkVote(u, i) == [p |-> i.p, u |-> u, tx |-> i.tx, key |-> i.key, v |-> i.v,
                 amt |-> UtxoAmount[u]]

(* The votes argument: a vector of distinct votes as getVotes() returns it; *)
(* one vote per utxo is enough, since votes of other proposals are dropped. *)
Snapshots == UNION { { {MkVote(u, f[u]) : u \in DOMAIN f} : f \in [S -> VoteInfo] }
                     : S \in SUBSET Utxos }

(* Fields of struct Tally.                                                  *)
TallyFields == {"yes", "no", "abstain", "cyes", "cno", "cabstain"}
ZeroTally == [f \in TallyFields |-> 0]

VARIABLES
    snapshot,        \* the votes argument
    proposalVotes,   \* votes of Proposal (after the remove_if)
    todo,            \* keys of userVotes not yet visited
    counted,         \* std::set<Vote> counted
    identities,      \* the allUnique set of each pushed tally, in order
    tallies,         \* std::vector<Tally> tallies
    final,           \* finalTally
    pc               \* "prep", "loop", "done"

vars == <<snapshot, proposalVotes, todo, counted, identities, tallies, final, pc>>

(* userVotes[t] and userVotesDest[k].                                      *)
TxVotes(t) == {w \in proposalVotes : w.tx = t}
(* Mutant: userVotesDest filled from the votes argument, not proposalVotes. *)
KeyVotesAll(k) == {w \in snapshot : w.key = k}
KeyVotes(k) == {w \in proposalVotes : w.key = k}

(* allUnique of the iteration over t, before the counted filter.            *)
AllUnique(t) == TxVotes(t) \cup UNION {KeyVotes(w.key) : w \in TxVotes(t)}

(* The next key of userVotes: std::map iterates in ascending order.         *)
NextTx == Min(todo)

Coins(S, vt) == MapThenSumSet(LAMBDA w : w.amt, {w \in S : w.v = vt})

SubTally(S) ==
    LET c == [f \in TallyFields |->
                CASE f \in {"yes", "cyes"} -> Coins(S, YES)
                  [] f \in {"no", "cno"} -> Coins(S, NO)
                  [] OTHER -> Coins(S, ABSTAIN)]
    IN  [f \in TallyFields |->
            IF f \in {"yes", "no", "abstain"} THEN c[f] \div VoteBalance ELSE c[f]]

AddTally(a, b) == [f \in TallyFields |-> a[f] + b[f]]

Init ==
    /\ snapshot \in Snapshots
    /\ proposalVotes = {}
    /\ todo = {}
    /\ counted = {}
    /\ identities = <<>>
    /\ tallies = <<>>
    /\ final = ZeroTally
    /\ pc = "prep"

(* remove_if on the proposal and the filling of userVotes.                  *)
Prep ==
    /\ pc = "prep"
    /\ proposalVotes' = {w \in snapshot : w.p = Proposal}
    /\ todo' = {w.tx : w \in proposalVotes'}
    /\ pc' = "loop"
    /\ UNCHANGED <<snapshot, counted, identities, tallies, final>>

(* Mutant: the loop that drops already-counted votes is missing.           *)
CountIdentityTwice ==
    LET fresh == AllUnique(NextTx) IN
    /\ pc = "loop"
    /\ todo # {}
    /\ AllUnique(NextTx) \ counted # {}
    /\ counted' = counted \cup fresh
    /\ identities' = Append(identities, fresh)
    /\ tallies' = Append(tallies, SubTally(fresh))
    /\ todo' = todo \ {NextTx}
    /\ UNCHANGED <<snapshot, proposalVotes, final, pc>>

(* One iteration whose identity still has uncounted votes.                  *)
CountIdentity ==
    LET fresh == AllUnique(NextTx) \ counted IN
    /\ pc = "loop"
    /\ todo # {}
    /\ fresh # {}
    /\ counted' = counted \cup fresh
    /\ identities' = Append(identities, fresh)
    /\ tallies' = Append(tallies, SubTally(fresh))
    /\ todo' = todo \ {NextTx}
    /\ UNCHANGED <<snapshot, proposalVotes, final, pc>>

(* One iteration whose votes were all counted before: `continue'.           *)
SkipIdentity ==
    /\ pc = "loop"
    /\ todo # {}
    /\ AllUnique(NextTx) \subseteq counted
    /\ todo' = todo \ {NextTx}
    /\ UNCHANGED <<snapshot, proposalVotes, counted, identities, tallies, final, pc>>

(* The summation into finalTally and the return.                           *)
SumTallies ==
    /\ pc = "loop"
    /\ todo = {}
    /\ final' = FoldLeft(AddTally, ZeroTally, tallies)
    /\ pc' = "done"
    /\ UNCHANGED <<snapshot, proposalVotes, todo, counted, identities, tallies>>

Next == Prep \/ CountIdentity \/ SkipIdentity \/ SumTallies

Spec == Init /\ [][Next]_vars

-----------------------------------------------------------------------------
(* Properties, read at the return of getTally.                              *)

TallyTypeOK ==
    /\ proposalVotes \subseteq snapshot
    /\ todo \subseteq VoteTxs
    /\ counted \subseteq proposalVotes
    /\ identities \in Seq(SUBSET proposalVotes)
    /\ tallies \in Seq([TallyFields -> Nat])
    /\ final \in [TallyFields -> Nat]
    /\ pc \in {"prep", "loop", "done"}

(* The votes of the tallied proposal, read from the argument.               *)
Target == {w \in snapshot : w.p = Proposal}

(* Every vote on the proposal adds its coins once: the coin totals returned *)
(* by getTally equal the sums over the proposal's votes by type, whatever   *)
(* the tx hashes and keys, so the counted set and the one-level key         *)
(* expansion neither drop nor double-count a vote.                          *)
CoinsConserved ==
    pc = "done" =>
        /\ final["cyes"] = Coins(Target, YES)
        /\ final["cno"] = Coins(Target, NO)
        /\ final["cabstain"] = Coins(Target, ABSTAIN)

SameIdentity(a, b) == \E i \in 1..Len(identities) : {a, b} \subseteq identities[i]

(* Spec 4.7: overlapping identities collapse.  Two votes that share a vote  *)
(* transaction or a key are counted in one identity.  getTally expands a    *)
(* transaction's votes by key one level, in tx-hash order (l. 1026-1043).   *)
OverlapCollapses ==
    pc = "done" =>
        \A a, b \in Target : (a.tx = b.tx \/ a.key = b.key) => SameIdentity(a, b)

(* The votes of the identities pushed so far, i.e. the counted set.         *)
Counted == UNION {identities[i] : i \in 1..Len(identities)}

(* Every vote on the proposal is counted in exactly one identity: when      *)
(* getTally returns, the identities it pushed are non-empty, pairwise      *)
(* disjoint, and together hold every vote of the proposal.  This is what   *)
(* the counted filter (l. 1045-1050) and the visit of every key of         *)
(* userVotes (l. 1026) must achieve between them; CoinsConserved is this   *)
(* partition summed.                                                       *)
VotesCountedOnce ==
  pc = "done" =>
    /\ \A i \in 1..Len(identities) : identities[i] # {}
    /\ \A i, j \in 1..Len(identities) :
         i # j => identities[i] \cap identities[j] = {}
    /\ Counted = Target

-----------------------------------------------------------------------------
(* The strengthening of VotesCountedOnce that is inductive: in every state *)
(* of the loop the pushed identities partition the counted set, a vote    *)
(* whose transaction was visited is counted, and tallies[i] is the         *)
(* subtally of identities[i].                                              *)
TInv ==
  /\ pc \in {"prep", "loop", "done"}
  /\ identities \in Seq(SUBSET proposalVotes)
  /\ tallies = [i \in 1..Len(identities) |-> SubTally(identities[i])]
  /\ pc = "prep" => proposalVotes = {} /\ identities = <<>> /\ counted = {}
  /\ pc # "prep" => proposalVotes = Target
  /\ pc = "done" => todo = {}
  /\ counted = Counted
  /\ \A i \in 1..Len(identities) : identities[i] # {}
  /\ \A i, j \in 1..Len(identities) :
       i # j => identities[i] \cap identities[j] = {}
  /\ \A w \in proposalVotes : w.tx \notin todo => w \in counted

=============================================================================
