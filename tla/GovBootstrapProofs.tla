-------------------------- MODULE GovBootstrapProofs --------------------------
(***************************************************************************)
(* Proofs about the bootstrap loader of GovBootstrap.tla, for every value  *)
(* of the constants that satisfies ConstantsAssumption and BootConstants:  *)
(* every number of cores, every governanceBlock and every chain.           *)
(***************************************************************************)
EXTENDS GovBootstrap, GovernanceProofs, TLAPS

-----------------------------------------------------------------------------
(* The slicing of l. 657-666: slice k starts at or after governanceBlock,  *)
(* and every slice but the last ends at or before the tip.  Stated for a   *)
(* natural n standing for blockHeight.                                     *)
LEMMA SliceArith ==
  \A n \in Nat : n >= GovernanceBlock =>
    \A k \in Workers :
      LET s == (n - GovernanceBlock) \div Cores
      IN  /\ s \in Nat
          /\ GovernanceBlock + k * s >= GovernanceBlock
          /\ k # Cores - 1 => GovernanceBlock + k * s + s <= n
<1> SUFFICES ASSUME NEW n \in Nat, n >= GovernanceBlock, NEW k \in Workers
             PROVE  LET s == (n - GovernanceBlock) \div Cores
                    IN  /\ s \in Nat
                        /\ GovernanceBlock + k * s >= GovernanceBlock
                        /\ k # Cores - 1 => GovernanceBlock + k * s + s <= n
  OBVIOUS
<1> DEFINE s == (n - GovernanceBlock) \div Cores
<1>1. Cores \in Nat \ {0} /\ GovernanceBlock \in Nat \ {0} /\ k \in 0..Cores - 1
  BY BootConstants DEF Workers
<1>2. s \in Nat /\ Cores * s <= n - GovernanceBlock
  BY <1>1
<1>3. k * s \in Nat
  BY <1>1, <1>2
<1>4. ASSUME k # Cores - 1 PROVE (k + 1) * s <= Cores * s
  <2>1. k + 1 <= Cores
    BY <1>1, <1>4
  <2>. QED  BY <2>1, <1>1, <1>2
<1>. QED  BY <1>1, <1>2, <1>3, <1>4

(* A worker's slice lies within governanceBlock..tip (+1 for the "<").     *)
LEMMA SliceBounds ==
  ASSUME NEW k \in Workers, Len(chain) \in Nat, BlockHeight >= GovernanceBlock
  PROVE  /\ SliceStart(k) \in Nat /\ SliceStart(k) >= GovernanceBlock
         /\ SliceEnd(k) \in Nat /\ SliceEnd(k) <= BlockHeight + 1
<1>1. LET s == (Len(chain) - GovernanceBlock) \div Cores
      IN  /\ s \in Nat
          /\ GovernanceBlock + k * s >= GovernanceBlock
          /\ k # Cores - 1 => GovernanceBlock + k * s + s <= Len(chain)
  BY SliceArith DEF BlockHeight
<1>2. GovernanceBlock \in Nat /\ k \in Nat
  BY BootConstants DEF Workers
<1>. QED  BY <1>1, <1>2 DEF SliceStart, SliceEnd, Slice, BlockHeight

(* Every entry of the merged votes map is either the old entry or a record *)
(* made from one of the merged votes at the block's time and height.       *)
LEMMA MergeVotesFrom ==
  ASSUME NEW vts, NEW vs, NEW t, NEW h, NEW props,
         NEW key \in DOMAIN MergeVotes(vts, vs, t, h, props)
  PROVE  LET m == MergeVotes(vts, vs, t, h, props)
         IN  \/ key \in DOMAIN vts /\ m[key] = vts[key]
             \/ \E o \in vs : HashOf(o) = key
                              /\ m[key] = [v |-> o.v, time |-> t, height |-> h]
<1> DEFINE take == {o \in vs : o.p \in DOMAIN props
                          /\ (HashOf(o) \in DOMAIN vts =>
                                Supersedes(o, t, vts[HashOf(o)]))}
           newRec(k) == CHOOSE o \in take : HashOf(o) = k
           m == MergeVotes(vts, vs, t, h, props)
<1>1. CASE key \in {HashOf(o) : o \in take}
  <2>1. newRec(key) \in take /\ HashOf(newRec(key)) = key
    BY <1>1
  <2>2. m[key] = [v |-> newRec(key).v, time |-> t, height |-> h]
    BY <1>1 DEF MergeVotes
  <2>. QED  BY <2>1, <2>2
<1>2. CASE key \notin {HashOf(o) : o \in take}
  BY <1>2 DEF MergeVotes
<1>. QED  BY <1>1, <1>2

(* dataFromBlock returns vote outputs of the block it reads. *)
LEMMA VotesOfBlock ==
  ASSUME NEW b, NEW h, NEW store
  PROVE  DataFromBlockVotes(b, h, store) \subseteq Objs(b) \cap VoteObjs
BY DEF DataFromBlockVotes, AcceptedAt, Objs

-----------------------------------------------------------------------------
LEMMA BootChainsSeq == BootChains \subseteq Seq(Blocks)
BY DEF BootChains

LEMMA InitBInv == BootInit => BInv
<1> SUFFICES ASSUME BootInit PROVE BInv
  OBVIOUS
<1>1. chain \in Seq(Blocks)
  BY BootChainsSeq DEF BootInit
<1>2. wdata \in [Workers -> [ps : SUBSET Proposals, vs : SUBSET VoteObjs]]
  BY DEF BootInit, NoData
<1>3. TypeOK
  BY <1>1 DEF BootInit, TypeOK, EmptyStore
<1>4. BootTypeOK
  BY <1>3 DEF BootInit, BootTypeOK
<1>5. \A k \in Workers : WorkerInv(k) /\ MergeReady(k)
  BY DEF BootInit, WorkerInv, MergeReady
<1>6. VotesOnChain
  BY DEF BootInit, EmptyStore, VotesOnChain
<1>. QED
  BY <1>2, <1>4, <1>5, <1>6 DEF BootInit, BInv

(* A step of the control state only: the store, the chain and what the     *)
(* workers hold stay, and a worker is at most sent to its exit.            *)
LEMMA ControlStep ==
  ASSUME BInv, UNCHANGED <<vars, wnext, wdata>>,
         phase' \in {"start", "load", "prune", "done"},
         pruneTodo' \subseteq Hashes, shutdown' \in BOOLEAN, failed' \in BOOLEAN,
         wstage' \in [Workers -> {"top", "merge", "exit"}],
         \A k \in Workers : wstage'[k] = wstage[k] \/ wstage'[k] = "exit"
  PROVE  BInv'
<1>1. TypeOK' /\ queue' = << >> /\ VotesOnChain'
  BY DEF BInv, BootTypeOK, TypeOK, vars, VotesOnChain
<1>2. \A k \in Workers : WorkerInv(k)' /\ MergeReady(k)'
  BY DEF BInv, vars, WorkerInv, MergeReady, BlockHeight
<1>. QED  BY <1>1, <1>2 DEF BInv, BootTypeOK

LEMMA ControlActions ==
  ASSUME BInv,
         \/ BootSkip \/ JoinReturn \/ JoinPrune \/ PruneShutdown \/ PruneJoin
         \/ RequestShutdown
         \/ \E k \in Workers : WorkerShutdown(k) \/ WorkerReadFail(k) \/ WorkerFinish(k)
  PROVE  BInv'
<1>1. DOMAIN votes \subseteq Hashes /\ BootTypeOK
  BY DEF BInv, BootTypeOK, TypeOK
<1>2. CASE BootSkip \/ JoinReturn \/ JoinPrune \/ PruneShutdown \/ PruneJoin
           \/ RequestShutdown
  BY <1>1, <1>2, ControlStep
     DEF BootSkip, JoinReturn, JoinPrune, PruneShutdown, PruneJoin,
         RequestShutdown, BootTypeOK
<1>3. ASSUME NEW k \in Workers,
             WorkerShutdown(k) \/ WorkerReadFail(k) \/ WorkerFinish(k)
      PROVE  BInv'
  <2>1. wstage' = [wstage EXCEPT ![k] = "exit"] /\ UNCHANGED <<vars, wnext, wdata>>
        /\ UNCHANGED <<phase, pruneTodo, shutdown>> /\ failed' \in BOOLEAN
    BY <1>3 DEF WorkerShutdown, WorkerReadFail, WorkerFinish, BootTypeOK, BInv
  <2>. QED  BY <1>1, <2>1, ControlStep DEF BootTypeOK
<1>. QED  BY <1>2, <1>3


(* The threads start at the first height of their slice. *)
LEMMA SpawnBInv == BInv /\ BootSpawn => BInv'
<1> SUFFICES ASSUME BInv, BootSpawn PROVE BInv'
  OBVIOUS
<1>1. /\ BlockHeight >= GovernanceBlock /\ Len(chain) \in Nat
      /\ wnext' = [k \in Workers |-> SliceStart(k)]
      /\ wstage' = [k \in Workers |-> "top"]
      /\ UNCHANGED <<vars, wdata, pruneTodo, shutdown, failed>> /\ phase' = "load"
  BY LenProperties DEF BootSpawn, BInv, BootTypeOK, TypeOK
<1>2. \A k \in Workers : SliceStart(k) \in Nat /\ SliceStart(k) >= GovernanceBlock
  BY <1>1, SliceBounds
<1>3. BootTypeOK'
  BY <1>1, <1>2 DEF BInv, BootTypeOK, TypeOK, vars
<1>4. \A k \in Workers : WorkerInv(k)' /\ MergeReady(k)'
  BY <1>1, <1>2 DEF WorkerInv, MergeReady, BlockHeight, vars
<1>5. queue' = << >> /\ VotesOnChain'
  BY <1>1 DEF BInv, vars, VotesOnChain
<1>. QED  BY <1>1, <1>3, <1>4, <1>5 DEF BInv

(* A prune step erases a vote whose utxo the chain spends, or nothing. *)
LEMMA PruneBInv == BInv /\ PruneVote => BInv'
<1> SUFFICES ASSUME BInv, PruneVote PROVE BInv'
  OBVIOUS
<1>1. PICK key \in pruneTodo :
        /\ votes' = IF key[2] \in ChainSpent
                    THEN [x \in DOMAIN votes \ {key} |-> votes[x]]
                    ELSE votes
        /\ pruneTodo' = pruneTodo \ {key}
  BY DEF PruneVote
<1>2. /\ DOMAIN votes' \subseteq DOMAIN votes
      /\ \A x \in DOMAIN votes' : votes'[x] = votes[x]
  BY <1>1
<1>3. UNCHANGED <<chain, queue, mempool, proposals, phase, wnext, wstage, wdata,
                  shutdown, failed>>
  BY DEF PruneVote
<1>4. BootTypeOK'
  BY <1>1, <1>2, <1>3 DEF BInv, BootTypeOK, TypeOK
<1>5. VotesOnChain'
  BY <1>2, <1>3 DEF BInv, VotesOnChain
<1>6. \A k \in Workers : WorkerInv(k)' /\ MergeReady(k)'
  BY <1>3 DEF BInv, WorkerInv, MergeReady, BlockHeight
<1>. QED  BY <1>3, <1>4, <1>5, <1>6 DEF BInv


(* x \in 1..n from g <= x < e <= n + 1 and 1 <= g, over plain integers.   *)
LEMMA RangeArith ==
  \A n, x, g, e \in Int : g >= 1 /\ x >= g /\ x < e /\ e <= n + 1 => x \in 1..n
OBVIOUS

(* dataFromBlock reads a height of the chain, governanceBlock..tip, and    *)
(* returns outputs of that block.                                          *)
LEMMA ExtractBInv ==
  ASSUME BInv, NEW k \in Workers, WorkerExtract(k) PROVE BInv'
<1> DEFINE h == wnext[k]
<1>1. /\ wstage[k] = "top" /\ h < SliceEnd(k)
      /\ wdata' = [wdata EXCEPT ![k] =
                     [ps |-> DataFromBlockProposals(chain[h], h),
                      vs |-> DataFromBlockVotes(chain[h], h, proposals)]]
      /\ wstage' = [wstage EXCEPT ![k] = "merge"]
      /\ UNCHANGED <<vars, phase, wnext, pruneTodo, shutdown, failed>>
  BY DEF WorkerExtract
<1>2. BlockHeight >= GovernanceBlock /\ h >= GovernanceBlock /\ h \in Nat
      /\ Len(chain) \in Nat /\ chain \in Seq(Blocks)
  BY <1>1, LenProperties DEF BInv, WorkerInv, BootTypeOK, TypeOK
(* The slicing keeps the height on the chain. *)
<1>3. h \in 1..BlockHeight
  <2>1. SliceEnd(k) \in Nat /\ SliceEnd(k) <= BlockHeight + 1
        /\ GovernanceBlock \in Nat /\ GovernanceBlock >= 1
    BY <1>2, SliceBounds, BootConstants
  <2>. QED  BY <1>1, <1>2, <2>1, RangeArith DEF BlockHeight
<1>4. chain[h] \in Block
  BY <1>2, <1>3, ConstantsAssumption DEF BlockHeight
<1>5. /\ DataFromBlockProposals(chain[h], h) \subseteq Proposals
      /\ DataFromBlockVotes(chain[h], h, proposals) \subseteq Objs(chain[h]) \cap VoteObjs
  BY <1>4, ProposalsExtracted, VotesOfBlock
<1>6. wdata' \in [Workers -> [ps : SUBSET Proposals, vs : SUBSET VoteObjs]]
  BY <1>1, <1>5 DEF BInv
<1>7. BootTypeOK'
  BY <1>1 DEF BInv, BootTypeOK, TypeOK, vars
<1>8. \A j \in Workers : WorkerInv(j)' /\ MergeReady(j)'
  <2> SUFFICES ASSUME NEW j \in Workers PROVE WorkerInv(j)' /\ MergeReady(j)'
    OBVIOUS
  <2>1. CASE j = k
    <3>1. wdata'[k].vs = DataFromBlockVotes(chain[h], h, proposals)
          /\ wstage'[k] = "merge" /\ wnext'[k] = h /\ chain' = chain
      BY <1>1 DEF BInv, BootTypeOK, vars
    <3>2. MergeReady(k)'
      BY <3>1, <1>3, <1>5 DEF MergeReady, BlockHeight
    <3>3. WorkerInv(k)'
      BY <3>1, <1>2 DEF WorkerInv, BlockHeight
    <3>. QED  BY <3>2, <3>3, <2>1
  <2>2. CASE j # k
    BY <1>1, <2>2 DEF BInv, WorkerInv, MergeReady, BlockHeight, vars
  <2>. QED  BY <2>1, <2>2
<1>9. queue' = << >> /\ VotesOnChain'
  BY <1>1 DEF BInv, vars, VotesOnChain
<1>. QED  BY <1>6, <1>7, <1>8, <1>9 DEF BInv


(* The merge under mu stores the votes the same worker extracted from the  *)
(* block at its height, whatever other workers merged in between.          *)
LEMMA MergeBInv ==
  ASSUME BInv, NEW k \in Workers, WorkerMerge(k) PROVE BInv'
<1> DEFINE h == wnext[k]
           b == chain[h]
           ps == wdata[k].ps
           vs == wdata[k].vs
           props == InsertProposals(proposals, ps, h)
           merged == MergeVotes(votes, vs, b.time, h, props)
<1>1. /\ wstage[k] = "merge"
      /\ proposals' = props /\ votes' = EraseSpent(merged, b.spends)
      /\ wnext' = [wnext EXCEPT ![k] = h + 1]
      /\ wstage' = [wstage EXCEPT ![k] = "top"]
      /\ UNCHANGED <<chain, queue, mempool, phase, wdata, pruneTodo, shutdown, failed>>
  BY DEF WorkerMerge, ConnectData
<1>2. /\ h \in 1..BlockHeight /\ vs \subseteq Objs(b) \cap VoteObjs
      /\ BlockHeight >= GovernanceBlock /\ h >= GovernanceBlock
      /\ ps \subseteq Proposals
  BY <1>1 DEF BInv, MergeReady, WorkerInv
<1>3. b \in Block /\ b.time \in Times /\ h \in Nat
  BY <1>2, ConstantsAssumption DEF BInv, BootTypeOK, TypeOK, BlockHeight, Block
<1>4. /\ DOMAIN merged \subseteq DOMAIN votes \cup {HashOf(o) : o \in vs}
      /\ \A x \in DOMAIN merged : merged[x] \in VoteRec
  BY <1>2, <1>3, MergeVotesType DEF BInv, BootTypeOK, TypeOK
<1>5. /\ DOMAIN votes' \subseteq DOMAIN merged
      /\ \A x \in DOMAIN votes' : votes'[x] = merged[x]
  BY <1>1 DEF EraseSpent
<1>6. TypeOK'
  <2>1. {HashOf(o) : o \in vs} \subseteq Hashes
    BY <1>2 DEF HashOf, VoteObjs, Hashes
  <2>2. DOMAIN votes' \subseteq Hashes /\ votes' \in [DOMAIN votes' -> VoteRec]
    BY <1>1, <1>4, <1>5, <2>1 DEF BInv, BootTypeOK, TypeOK, EraseSpent
  <2>3. DOMAIN proposals' \subseteq Proposals /\ proposals' \in [DOMAIN proposals' -> Nat]
    BY <1>1, <1>2, <1>3 DEF BInv, BootTypeOK, TypeOK, InsertProposals
  <2>. QED  BY <1>1, <2>2, <2>3 DEF BInv, BootTypeOK, TypeOK
<1>7. VotesOnChain'
  <2> SUFFICES ASSUME NEW key \in DOMAIN votes'
               PROVE  /\ votes'[key].height \in 1..Len(chain)
                      /\ \E o \in Objs(chain[votes'[key].height]) \cap VoteObjs :
                           HashOf(o) = key /\ o.v = votes'[key].v
    BY <1>1 DEF VotesOnChain
  <2>1. key \in DOMAIN merged /\ votes'[key] = merged[key]
    BY <1>5
  <2>2. CASE key \in DOMAIN votes /\ merged[key] = votes[key]
    BY <2>1, <2>2 DEF BInv, VotesOnChain
  <2>3. CASE \E o \in vs : HashOf(o) = key
                           /\ merged[key] = [v |-> o.v, time |-> b.time, height |-> h]
    <3>1. PICK o \in vs : HashOf(o) = key
                         /\ merged[key] = [v |-> o.v, time |-> b.time, height |-> h]
      BY <2>3
    <3>2. votes'[key].height = h /\ votes'[key].v = o.v
      BY <3>1, <2>1
    <3>3. h \in 1..Len(chain) /\ o \in Objs(chain[h]) \cap VoteObjs
      BY <3>1, <1>2 DEF BlockHeight
    <3>4. votes'[key].height \in 1..Len(chain)
      BY <3>2, <3>3
    <3>5. \E o2 \in Objs(chain[h]) \cap VoteObjs : HashOf(o2) = key /\ o2.v = votes'[key].v
      BY <3>1, <3>2, <3>3
    <3>. QED  BY <3>2, <3>4, <3>5
  <2>4. \/ key \in DOMAIN votes /\ merged[key] = votes[key]
        \/ \E o \in vs : HashOf(o) = key
                         /\ merged[key] = [v |-> o.v, time |-> b.time, height |-> h]
    BY <2>1, MergeVotesFrom
  <2>. QED  BY <2>2, <2>3, <2>4
<1>8. \A j \in Workers : WorkerInv(j)' /\ MergeReady(j)'
  <2> SUFFICES ASSUME NEW j \in Workers PROVE WorkerInv(j)' /\ MergeReady(j)'
    OBVIOUS
  <2>1. CASE j = k
    <3>1. wstage'[k] = "top" /\ wnext'[k] = h + 1
      BY <1>1 DEF BInv, BootTypeOK
    <3>2. BlockHeight' >= GovernanceBlock /\ wnext'[k] >= GovernanceBlock
      BY <3>1, <1>1, <1>2, <1>3, BootConstants DEF BlockHeight
    <3>3. WorkerInv(k)'
      BY <3>2 DEF WorkerInv
    <3>4. MergeReady(k)'
      BY <3>1 DEF MergeReady
    <3>. QED  BY <3>3, <3>4, <2>1
  <2>2. CASE j # k
    BY <1>1, <2>2 DEF BInv, WorkerInv, MergeReady, BlockHeight
  <2>. QED  BY <2>1, <2>2
<1>9. wnext' \in [Workers -> Nat]
  BY <1>1, <1>3 DEF BInv, BootTypeOK
<1>. QED  BY <1>1, <1>6, <1>7, <1>8, <1>9 DEF BInv, BootTypeOK


LEMMA NextBInv == BInv /\ [BootNext]_bootVars => BInv'
<1> SUFFICES ASSUME BInv, [BootNext]_bootVars PROVE BInv'
  OBVIOUS
<1>1. CASE BootSkip \/ JoinReturn \/ JoinPrune \/ PruneShutdown \/ PruneJoin
           \/ RequestShutdown
  BY <1>1, ControlActions
<1>2. CASE BootSpawn
  BY <1>2, SpawnBInv
<1>3. CASE PruneVote
  BY <1>3, PruneBInv
<1>4. ASSUME NEW k \in Workers,
             WorkerShutdown(k) \/ WorkerReadFail(k) \/ WorkerExtract(k)
             \/ WorkerMerge(k) \/ WorkerFinish(k)
      PROVE  BInv'
  BY <1>4, ControlActions, ExtractBInv, MergeBInv
<1>5. CASE UNCHANGED bootVars
  BY <1>5 DEF bootVars, vars, BInv, BootTypeOK, TypeOK, WorkerInv, MergeReady,
              VotesOnChain, BlockHeight
<1>. QED  BY <1>1, <1>2, <1>3, <1>4, <1>5 DEF BootNext

(* The loader's invariant holds in every state of loadGovernanceData, for  *)
(* every number of cores, governanceBlock and chain: workers read only     *)
(* heights governanceBlock..tip (the slicing of l. 657-666) and every      *)
(* stored vote is a vote output of the block at its recorded height.       *)
THEOREM BootInvariant == BootSpec => []BInv
BY InitBInv, NextBInv, PTL DEF BootSpec

(* The parallel load keeps the store, the chain and the workers' state     *)
(* typed, whatever the interleaving of the worker threads.                 *)
THEOREM BootTypeCorrect == BootSpec => []BootTypeOK
<1>1. BInv => BootTypeOK
  BY DEF BInv
<1>. QED  BY <1>1, BootInvariant, PTL

(* Every vote the parallel load stores, through any interleaving of the    *)
(* workers' dataFromBlock and merge steps and of the prune threads, is a   *)
(* vote output of the chain's block at the blockNumber stored with it      *)
(* (BlockConnected's merge, l. 1500-1519, run from the loader's threads).  *)
THEOREM BootVotesOnChain == BootSpec => []StoredVotesOnChain
<1>1. BInv => StoredVotesOnChain
  BY DEF BInv, VotesOnChain, StoredVotesOnChain
<1>. QED  BY <1>1, BootInvariant, PTL

=============================================================================
