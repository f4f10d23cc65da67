----------------------------- MODULE Governance -----------------------------
(***************************************************************************)
(* The governance state engine of src/governance/governance.h: the store   *)
(* (Governance::proposals and Governance::votes, guarded by mu), the chain *)
(* listener (BlockConnected / BlockDisconnected) and the block extractor   *)
(* (dataFromBlock) with the validity and cutoff checks it applies.         *)
(*                                                                         *)
(* The environment is modelled too, because the handlers read it:          *)
(*   - the active chain, extended and rolled back one tip at a time by     *)
(*     validation;                                                         *)
(*   - the validation-interface queue: validation enqueues a               *)
(*     BlockConnected / BlockDisconnected event when it changes the tip,   *)
(*     and the listener handles the events later, one at a time, in       *)
(*     order, on the scheduler thread;                                     *)
(*   - the mempool, as the set of voting utxos some mempool transaction    *)
(*     spends (IsUTXOSpent consults it).                                   *)
(* A handler reads the UTXO set and the mempool as they are when it runs,  *)
(* not as they were when its block was connected.                          *)
(*                                                                         *)
(* Data is abstracted: a proposal is a model value with a superblock; a    *)
(* vote object names its proposal, its voting utxo and its vote type, and  *)
(* one Boolean "signed" stands for the content-only checks (version, type, *)
(* vote-type range, signature recovering the utxo's key, vin binding).     *)
(* A vote's hash is the pair <<proposal, utxo>>; its sigHash is SigHash.   *)
(***************************************************************************)
EXTENDS Integers, Sequences, FiniteSets

CONSTANTS
  Proposals,          \* proposals (content-addressed: one per hash)
  Utxos,              \* the outpoints that can back votes
  PSuperblock,        \* PSuperblock[p]: the proposal's target superblock
  WellFormed,         \* proposals passing the content checks of isValid
  Superblock,         \* consensus.superblock, the superblock interval
  ProposalCutoff,     \* consensus.proposalCutoff
  VotingCutoff,       \* consensus.votingCutoff
  VoteMinUtxoAmount,  \* consensus.voteMinUtxoAmount
  UtxoAmount,         \* UtxoAmount[u]: value of the voting utxo
  SigHash,            \* SigHash[<<p, u, v>>]: Vote::sigHash() as a number
  Times,              \* possible block times
  Blocks,             \* the block bodies validation may connect
  MaxHeight,          \* bound: height of the active chain
  MaxQueue            \* bound: pending validation-interface events

(* Vote types, enum VoteType. *)
NO == 0
YES == 1
ABSTAIN == 2
VoteTypes == {NO, YES, ABSTAIN}

Hashes == Proposals \X Utxos

ProposalObjs == [kind : {"proposal"}, p : Proposals]
VoteObjs == [kind : {"vote"}, p : Proposals, u : Utxos, v : VoteTypes,
             signed : BOOLEAN]
Block == [objs : Seq(ProposalObjs \cup VoteObjs), spends : SUBSET Utxos,
          time : Times]

(* A stored vote: the vote type and the memory-only time and blockNumber. *)
VoteRec == [v : VoteTypes, time : Times, height : Nat]

ASSUME ConstantsAssumption ==
  /\ PSuperblock \in [Proposals -> Int]
  /\ WellFormed \subseteq Proposals
  /\ Superblock \in Nat \ {0}
  /\ ProposalCutoff \in Nat /\ VotingCutoff \in Nat
  /\ VoteMinUtxoAmount \in Nat
  /\ UtxoAmount \in [Utxos -> Nat]
  /\ SigHash \in [Proposals \X Utxos \X VoteTypes -> Nat]
  /\ Times \subseteq Nat
  /\ Blocks \subseteq Block
  /\ MaxHeight \in Nat /\ MaxQueue \in Nat

Events == [kind : {"connect"}, block : Blocks, height : Nat]
          \cup [kind : {"disconnect"}, block : Blocks]

VARIABLES
  chain,      \* the active chain: chain[i] is the block at height i
  queue,      \* pending validation-interface events, oldest first
  mempool,    \* voting utxos spent by a mempool transaction
  proposals,  \* Governance::proposals: proposal -> blockNumber
  votes       \* Governance::votes: <<proposal, utxo>> -> VoteRec

vars == <<chain, queue, mempool, proposals, votes>>

-----------------------------------------------------------------------------
(* The UTXO view. *)

ChainSpent == UNION {chain[i].spends : i \in 1..Len(chain)}

(* IsUTXOSpent(utxo, mempoolCheck = true): no coin in the mempool view, or *)
(* spent by a mempool transaction.                                         *)
IsUTXOSpent(u) == u \in ChainSpent \/ u \in mempool

-----------------------------------------------------------------------------
(* Validity and cutoffs. *)

(* Proposal::isValid: name, superblock multiple, amount range, address,   *)
(* type, version and size; all but the superblock check are content-only. *)
ProposalIsValid(p) == p \in WellFormed /\ PSuperblock[p] % Superblock = 0

(* Vote::isValid: content checks, amount, keyid match, utxo unspent. *)
VoteIsValid(o) ==
  /\ o.signed
  /\ UtxoAmount[o.u] >= VoteMinUtxoAmount
  /\ ~IsUTXOSpent(o.u)

(* meetsCutoff(Proposal, blockNumber). *)
ProposalMeetsCutoff(p, h) == h <= PSuperblock[p] - ProposalCutoff

(* meetsCutoff(Vote, blockNumber): looks the proposal up in the store.    *)
VoteMeetsCutoff(o, h, store) ==
  /\ o.p \in DOMAIN store
  /\ PSuperblock[o.p] # 0
  /\ h <= PSuperblock[o.p] - VotingCutoff

-----------------------------------------------------------------------------
(* dataFromBlock(block, proposalsRet, votesRet, blockIndex). The height h  *)
(* is the block index's height, or 0 when no index is given (the cutoff    *)
(* checks are then skipped). store is the proposal map meetsCutoff reads.  *)

Objs(b) == {b.objs[i] : i \in 1..Len(b.objs)}

DataFromBlockProposals(b, h) ==
  {o.p : o \in {x \in Objs(b) \cap ProposalObjs :
                  ProposalIsValid(x.p)
                  /\ (h = 0 \/ ProposalMeetsCutoff(x.p, h))}}

VoteAccepted(o, h, store) ==
  VoteIsValid(o) /\ (h = 0 \/ VoteMeetsCutoff(o, h, store))

(* Indices of the vote outputs that pass the checks. *)
AcceptedAt(b, h, store) ==
  {i \in 1..Len(b.objs) : b.objs[i] \in VoteObjs
                          /\ VoteAccepted(b.objs[i], h, store)}

HashOf(o) == <<o.p, o.u>>

(* Inserting into the std::set votesRet is a no-op when a vote with the   *)
(* same hash is already there, so the first accepted vote of a hash wins. *)
DataFromBlockVotes(b, h, store) ==
  LET acc == AcceptedAt(b, h, store)
  IN {b.objs[i] : i \in {j \in acc :
        \A k \in acc : k < j => HashOf(b.objs[k]) # HashOf(b.objs[j])}}

-----------------------------------------------------------------------------
(* Initial state: empty chain above genesis, empty store (Governance()).   *)

Init ==
  /\ chain = << >>
  /\ queue = << >>
  /\ mempool = {}
  /\ proposals = [p \in {} |-> 0]
  /\ votes = [k \in {} |-> [v |-> NO, time |-> 0, height |-> 0]]

-----------------------------------------------------------------------------
(* Validation: connect a block on the tip (it may not spend a spent utxo),  *)
(* which confirms or conflicts the mempool spends of the same utxos.        *)
ConnectTip(b) ==
  /\ Len(chain) < MaxHeight
  /\ Len(queue) < MaxQueue
  /\ b.spends \cap ChainSpent = {}
  /\ chain' = Append(chain, b)
  /\ queue' = Append(queue, [kind |-> "connect", block |-> b,
                             height |-> Len(chain) + 1])
  /\ mempool' = mempool \ b.spends
  /\ UNCHANGED <<proposals, votes>>

(* Validation: disconnect the tip; its spends return to the mempool. *)
DisconnectTip ==
  /\ Len(chain) > 0
  /\ Len(queue) < MaxQueue
  /\ chain' = SubSeq(chain, 1, Len(chain) - 1)
  /\ queue' = Append(queue, [kind |-> "disconnect",
                             block |-> chain[Len(chain)]])
  /\ mempool' = mempool \cup chain[Len(chain)].spends
  /\ UNCHANGED <<proposals, votes>>

(* A transaction spending a voting utxo enters the mempool. *)
MempoolAdd(u) ==
  /\ u \notin ChainSpent \cup mempool
  /\ mempool' = mempool \cup {u}
  /\ UNCHANGED <<chain, queue, proposals, votes>>

(* A mempool transaction is evicted, expires or is replaced. *)
MempoolRemove(u) ==
  /\ u \in mempool
  /\ mempool' = mempool \ {u}
  /\ UNCHANGED <<chain, queue, proposals, votes>>

-----------------------------------------------------------------------------
(* The listener. *)

(* The vote-change rule of BlockConnected: replace a stored vote when the  *)
(* new one is later, else when its sigHash is larger.                      *)
Supersedes(o, time, old) ==
  \/ time > old.time
  \/ SigHash[<<o.p, o.u, o.v>>] > SigHash[<<o.p, o.u, old.v>>]

(* proposals[proposal.getHash()] = proposal for each extracted proposal. *)
InsertProposals(props, ps, h) ==
  [p \in DOMAIN props \cup ps |-> IF p \in ps THEN h ELSE props[p]]

(* Plausible bug: the Vote(outpoint, time, blockNumber) constructor       *)
(* called with time and blockNumber swapped.                               *)
MergeVotesSwapped(vts, vs, t, h, props) ==
  LET take == {o \in vs : o.p \in DOMAIN props
                          /\ (HashOf(o) \in DOMAIN vts =>
                                Supersedes(o, t, vts[HashOf(o)]))}
  IN [k \in DOMAIN vts \cup {HashOf(o) : o \in take} |->
        IF k \in {HashOf(o) : o \in take}
        THEN [v |-> (CHOOSE o \in take : HashOf(o) = k).v, time |-> h,
              height |-> t]
        ELSE vts[k]]

(* The votes map vts after merging the extracted votes vs of a block at    *)
(* height h and time t; props is the proposals map after insertion.        *)
MergeVotes(vts, vs, t, h, props) ==
  LET take == {o \in vs : o.p \in DOMAIN props
                          /\ (HashOf(o) \in DOMAIN vts =>
                                Supersedes(o, t, vts[HashOf(o)]))}
      newRec(k) == CHOOSE o \in take : HashOf(o) = k
  IN [k \in DOMAIN vts \cup {HashOf(o) : o \in take} |->
        IF k \in {HashOf(o) : o \in take}
        THEN [v |-> newRec(k).v, time |-> t, height |-> h]
        ELSE vts[k]]

(* Plausible bug: the loop over the block's prevouts left out. *)
EraseSpentNothing(vts, prevouts) == vts

(* Erase every vote whose utxo is one of the block's prevouts. *)
EraseSpent(vts, prevouts) ==
  [k \in {x \in DOMAIN vts : x[2] \notin prevouts} |-> vts[k]]

(* The part of BlockConnected under mu: insert the extracted proposals ps, *)
(* merge the extracted votes vs, erase every vote whose utxo is a prevout  *)
(* of block b.                                                             *)
ConnectData(props, vts, ps, vs, b, h) ==
  LET props2 == InsertProposals(props, ps, h)
  IN [proposals |-> props2,
      votes |-> EraseSpent(MergeVotes(vts, vs, b.time, h, props2), b.spends)]

(* The body of BlockConnected(block, pindex) on a store: extract with     *)
(* cutoffs (meetsCutoff reads the proposals map before this block's are    *)
(* inserted), then insert the proposals, merge the votes, and erase every  *)
(* vote whose utxo is a prevout of the block.                              *)
ConnectStore(props, vts, b, h) ==
  ConnectData(props, vts, DataFromBlockProposals(b, h),
              DataFromBlockVotes(b, h, props), b, h)

(* BlockConnected: the listener handles the oldest pending event, a       *)
(* connect, under mu.                                                      *)
BlockConnected ==
  /\ queue # << >>
  /\ Head(queue).kind = "connect"
  /\ LET st == ConnectStore(proposals, votes, Head(queue).block,
                            Head(queue).height)
     IN /\ proposals' = st.proposals
        /\ votes' = st.votes
  /\ queue' = Tail(queue)
  /\ UNCHANGED <<chain, mempool>>

(* Plausible bug: BlockDisconnected erases the votes but not the          *)
(* proposals.                                                              *)
BlockDisconnectedVotesOnly ==
  /\ queue # << >>
  /\ Head(queue).kind = "disconnect"
  /\ LET b == Head(queue).block
         vs == {HashOf(o) : o \in DataFromBlockVotes(b, 0, proposals)}
     IN /\ votes' = [k \in DOMAIN votes \ vs |-> votes[k]]
        /\ UNCHANGED proposals
  /\ queue' = Tail(queue)
  /\ UNCHANGED <<chain, mempool>>

(* BlockDisconnected(block): extract without cutoffs, erase by hash. *)
BlockDisconnected ==
  /\ queue # << >>
  /\ Head(queue).kind = "disconnect"
  /\ LET b == Head(queue).block
         ps == DataFromBlockProposals(b, 0)
         vs == {HashOf(o) : o \in DataFromBlockVotes(b, 0, proposals)}
     IN /\ proposals' = [p \in DOMAIN proposals \ ps |-> proposals[p]]
        /\ votes' = [k \in DOMAIN votes \ vs |-> votes[k]]
  /\ queue' = Tail(queue)
  /\ UNCHANGED <<chain, mempool>>

Next ==
  \/ \E b \in Blocks : ConnectTip(b)
  \/ DisconnectTip
  \/ \E u \in Utxos : MempoolAdd(u) \/ MempoolRemove(u)
  \/ BlockConnected
  \/ BlockDisconnected

Spec == Init /\ [][Next]_vars

-----------------------------------------------------------------------------
(* Properties. *)

(* Type correctness of the chain, the queue and the two maps. *)
TypeOK ==
  /\ chain \in Seq(Blocks)
  /\ queue \in Seq(Events)
  /\ mempool \subseteq Utxos
  /\ DOMAIN proposals \subseteq Proposals
  /\ proposals \in [DOMAIN proposals -> Nat]
  /\ DOMAIN votes \subseteq Hashes
  /\ votes \in [DOMAIN votes -> VoteRec]

(* Spec invariants 2 and 5 (the voting utxo is unspent; a vote whose utxo *)
(* a connected block spends is removed): once the listener has handled     *)
(* every pending event, no stored vote is backed by a utxo that a block of *)
(* the active chain spends. The listener runs behind validation and reads  *)
(* the UTXO set of a later tip than the block it handles.                  *)
NoSpentVote ==
  queue = << >> => \A k \in DOMAIN votes : k[2] \notin ChainSpent

(* Reorg removal of proposals (spec 4.5, P7): once the listener is idle,   *)
(* every stored proposal is contained in the block of the active chain at  *)
(* the height the store recorded for it.                                   *)
ProposalsOnChain ==
  queue = << >> =>
    \A p \in DOMAIN proposals :
      /\ proposals[p] \in 1..Len(chain)
      /\ [kind |-> "proposal", p |-> p] \in Objs(chain[proposals[p]])

(* Reorg removal of votes (spec 3, Lifecycle: objects leave the store    *)
(* when their block disconnects): once the listener is idle, every stored  *)
(* vote is a vote output, with the stored vote type, of the block of the   *)
(* active chain at the height the store recorded for it. BlockDisconnected *)
(* re-validates a vote before erasing it, against the mempool of that time. *)
StoredVotesOnChain ==
  queue = << >> =>
    \A k \in DOMAIN votes :
      /\ votes[k].height \in 1..Len(chain)
      /\ \E o \in Objs(chain[votes[k].height]) \cap VoteObjs :
           HashOf(o) = k /\ o.v = votes[k].v

(* The vote-change rule of spec 4.5 step 3: a stored vote is replaced only *)
(* by a vote with a later block time, or with the same block time and a    *)
(* larger sigHash (BlockConnected, the else-if on sigHash).                *)
VoteChangeFollowsTime ==
  [][\A k \in DOMAIN votes \cap DOMAIN votes' :
       votes'[k] # votes[k] =>
         \/ votes'[k].time > votes[k].time
         \/ /\ votes'[k].time = votes[k].time
            /\ SigHash[<<k[1], k[2], votes'[k].v>>]
                 > SigHash[<<k[1], k[2], votes[k].v>>]]_votes

-----------------------------------------------------------------------------
(* The strengthening of NoSpentVote that is inductive: for every block of  *)
(* the active chain, either the event that connected it at its height is   *)
(* still pending (its handler will erase the votes on the utxos it spends) *)
(* or no stored vote is backed by a utxo it spends.                        *)
ConnectPending(i) ==
  \E j \in 1..Len(queue) :
    queue[j] = [kind |-> "connect", block |-> chain[i], height |-> i]

SpendsHandled ==
  \A i \in 1..Len(chain) :
    ConnectPending(i) \/ \A k \in DOMAIN votes : k[2] \notin chain[i].spends

IInv == TypeOK /\ SpendsHandled

-----------------------------------------------------------------------------
(* The strengthening of ProposalsOnChain that is inductive.  The store     *)
(* lags behind validation, so a stored proposal may sit at a height the    *)
(* active chain has since lost; every such proposal has a disconnect event *)
(* queued whose BlockDisconnected will erase it, and every queued connect  *)
(* event either still matches the chain or is followed by the disconnect   *)
(* of its block.                                                           *)

(* The connect event at queue position j is either still on the chain at  *)
(* its height, or a later event disconnects its block.                     *)
ConnectStands(j) ==
  queue[j].kind = "connect" =>
    \/ /\ queue[j].height \in 1..Len(chain)
       /\ chain[queue[j].height] = queue[j].block
    \/ \E k \in j+1..Len(queue) :
         queue[k] = [kind |-> "disconnect", block |-> queue[j].block]

(* A stored proposal is in the chain's block at its recorded height, or a  *)
(* queued disconnect event extracts it (and will erase it).                *)
PropStands(p) ==
  \/ /\ proposals[p] \in 1..Len(chain)
     /\ [kind |-> "proposal", p |-> p] \in Objs(chain[proposals[p]])
  \/ \E k \in 1..Len(queue) :
       /\ queue[k].kind = "disconnect"
       /\ p \in DataFromBlockProposals(queue[k].block, 0)

PropsValid == \A p \in DOMAIN proposals : ProposalIsValid(p)
PropsStand == \A p \in DOMAIN proposals : PropStands(p)
ConnectsStand == \A j \in 1..Len(queue) : ConnectStands(j)

(* The listener's proposal invariant in every state, busy or idle: every  *)
(* stored proposal passed Proposal::isValid and stands (on the chain at    *)
(* its height, or erased by a queued BlockDisconnected), and every queued  *)
(* BlockConnected event stands.                                            *)
PInv == TypeOK /\ PropsValid /\ PropsStand /\ ConnectsStand

=============================================================================
