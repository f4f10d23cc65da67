---------------------------- MODULE GovBootstrap ----------------------------
(***************************************************************************)
(* The bootstrap loader, Governance::loadGovernanceData (governance.h      *)
(* 639-750), on a store that the listener has not touched yet.             *)
(*                                                                         *)
(* The active chain is fixed while the loader runs and the mempool is      *)
(* empty.  The range governanceBlock..tip is cut into Cores slices.  A      *)
(* worker thread per slice calls BlockConnected on each of its heights in   *)
(* turn, and the workers interleave freely.  BlockConnected runs in two     *)
(* steps: dataFromBlock, whose meetsCutoff(Vote) reads the proposals map    *)
(* through getProposal, then the merge under mu.  Another worker's merge    *)
(* may come between them.  After the join, if votes were loaded and         *)
(* nothing failed, the votes are copied and pruned in parallel of those     *)
(* whose utxo is spent.  The shutdown flag is polled at the top of every    *)
(* iteration.  A block read can fail (ReadBlockFromDisk on a pruned or      *)
(* damaged block store).                                                    *)
(***************************************************************************)
EXTENDS GovReplay

CONSTANTS
    Cores,            \* GetNumCores()
    GovernanceBlock   \* consensus.governanceBlock

ASSUME BootConstants ==
    /\ Cores \in Nat \ {0}
    /\ GovernanceBlock \in Nat \ {0}

Workers == 0..(Cores - 1)

VARIABLES
    phase,       \* "start", "load", "prune", "done"
    wnext,       \* blockNumber of each worker's loop
    wstage,      \* "top", "merge" (extracted, merge pending), "exit"
    wdata,       \* ps and vs that dataFromBlock returned to each worker
    pruneTodo,   \* hashes of tmpvotes not yet examined
    shutdown,    \* ShutdownRequested()
    failed       \* the shared flag failed

bootVars == <<vars, phase, wnext, wstage, wdata, pruneTodo, shutdown, failed>>

(* The loader's slicing of heights governanceBlock..blockHeight.           *)
BlockHeight == Len(chain)
Slice == (BlockHeight - GovernanceBlock) \div Cores
SliceStart(k) == GovernanceBlock + k * Slice

(* Plausible bug: the last slice ends at blockHeight, without the +1 of    *)
(* the "<" loop.                                                           *)
SliceEndNoTip(k) == IF k = Cores - 1 THEN BlockHeight ELSE SliceStart(k) + Slice

SliceEnd(k) == IF k = Cores - 1 THEN BlockHeight + 1 ELSE SliceStart(k) + Slice

(* Chains the node can have: no utxo is spent twice.                       *)
BootChains ==
  {c \in UNION {[1..n -> Blocks] : n \in 0..MaxHeight} :
     \A i, j \in DOMAIN c : i # j => c[i].spends \cap c[j].spends = {}}

NoData == [ps |-> {}, vs |-> {}]

BootInit ==
  /\ chain \in BootChains
  /\ queue = << >>
  /\ mempool = {}
  /\ proposals = EmptyStore.proposals
  /\ votes = EmptyStore.votes
  /\ phase = "start"
  /\ wnext = [k \in Workers |-> 0]
  /\ wstage = [k \in Workers |-> "exit"]
  /\ wdata = [k \in Workers |-> NoData]
  /\ pruneTodo = {}
  /\ shutdown = FALSE
  /\ failed = FALSE

(* Nothing to load on the genesis block or before governanceBlock.         *)
BootSkip ==
  /\ phase = "start"
  /\ BlockHeight = 0 \/ BlockHeight < GovernanceBlock
  /\ phase' = "done"
  /\ UNCHANGED <<vars, wnext, wstage, wdata, pruneTodo, shutdown, failed>>

(* One thread per slice.                                                   *)
BootSpawn ==
  /\ phase = "start"
  /\ BlockHeight # 0
  /\ BlockHeight >= GovernanceBlock
  /\ phase' = "load"
  /\ wnext' = [k \in Workers |-> SliceStart(k)]
  /\ wstage' = [k \in Workers |-> "top"]
  /\ UNCHANGED <<vars, wdata, pruneTodo, shutdown, failed>>

(* Plausible bug: the shutdown break leaves failed as it is.               *)
WorkerShutdownNoFail(k) ==
  /\ phase = "load"
  /\ wstage[k] = "top"
  /\ wnext[k] < SliceEnd(k)
  /\ shutdown
  /\ wstage' = [wstage EXCEPT ![k] = "exit"]
  /\ UNCHANGED <<vars, phase, wnext, wdata, pruneTodo, shutdown, failed>>

(* The top of an iteration, a worker having more heights: shutdown seen.   *)
WorkerShutdown(k) ==
  /\ phase = "load"
  /\ wstage[k] = "top"
  /\ wnext[k] < SliceEnd(k)
  /\ shutdown
  /\ failed' = TRUE
  /\ wstage' = [wstage EXCEPT ![k] = "exit"]
  /\ UNCHANGED <<vars, phase, wnext, wdata, pruneTodo, shutdown>>

(* ReadBlockFromDisk fails: failed is set and the worker returns.          *)
WorkerReadFail(k) ==
  /\ phase = "load"
  /\ wstage[k] = "top"
  /\ wnext[k] < SliceEnd(k)
  /\ ~shutdown
  /\ failed' = TRUE
  /\ wstage' = [wstage EXCEPT ![k] = "exit"]
  /\ UNCHANGED <<vars, phase, wnext, wdata, pruneTodo, shutdown>>

(* BlockConnected, first part: dataFromBlock outside mu, reading the       *)
(* proposals map as other workers have left it so far.                    *)
WorkerExtract(k) ==
  LET h == wnext[k] IN
  /\ phase = "load"
  /\ wstage[k] = "top"
  /\ h < SliceEnd(k)
  /\ ~shutdown
  /\ wdata' = [wdata EXCEPT ![k] =
                 [ps |-> DataFromBlockProposals(chain[h], h),
                  vs |-> DataFromBlockVotes(chain[h], h, proposals)]]
  /\ wstage' = [wstage EXCEPT ![k] = "merge"]
  /\ UNCHANGED <<vars, phase, wnext, pruneTodo, shutdown, failed>>

(* Plausible bug: the merge records the block under the next blockNumber. *)
WorkerMergeNextHeight(k) ==
  LET h == wnext[k]
      st == ConnectData(proposals, votes, wdata[k].ps, wdata[k].vs, chain[h], h + 1)
  IN
  /\ phase = "load"
  /\ wstage[k] = "merge"
  /\ proposals' = st.proposals
  /\ votes' = st.votes
  /\ wnext' = [wnext EXCEPT ![k] = h + 1]
  /\ wstage' = [wstage EXCEPT ![k] = "top"]
  /\ UNCHANGED <<chain, queue, mempool, phase, wdata, pruneTodo, shutdown, failed>>

(* BlockConnected, second part, under mu; then the next blockNumber.       *)
WorkerMerge(k) ==
  LET h == wnext[k]
      st == ConnectData(proposals, votes, wdata[k].ps, wdata[k].vs, chain[h], h)
  IN
  /\ phase = "load"
  /\ wstage[k] = "merge"
  /\ proposals' = st.proposals
  /\ votes' = st.votes
  /\ wnext' = [wnext EXCEPT ![k] = h + 1]
  /\ wstage' = [wstage EXCEPT ![k] = "top"]
  /\ UNCHANGED <<chain, queue, mempool, phase, wdata, pruneTodo, shutdown, failed>>

(* The loop condition fails: the thread ends.                              *)
WorkerFinish(k) ==
  /\ phase = "load"
  /\ wstage[k] = "top"
  /\ wnext[k] >= SliceEnd(k)
  /\ wstage' = [wstage EXCEPT ![k] = "exit"]
  /\ UNCHANGED <<vars, phase, wnext, wdata, pruneTodo, shutdown, failed>>

AllJoined == \A k \in Workers : wstage[k] = "exit"

(* join_all, then: if (votes.empty() || failed) return !failed.            *)
JoinReturn ==
  /\ phase = "load"
  /\ AllJoined
  /\ DOMAIN votes = {} \/ failed
  /\ phase' = "done"
  /\ UNCHANGED <<vars, wnext, wstage, wdata, pruneTodo, shutdown, failed>>

(* Plausible bug: the copy into tmpvotes is taken of the proposals map.    *)
JoinPruneProposals ==
  /\ phase = "load"
  /\ AllJoined
  /\ DOMAIN votes # {}
  /\ ~failed
  /\ pruneTodo' = DOMAIN proposals
  /\ phase' = "prune"
  /\ UNCHANGED <<vars, wnext, wstage, wdata, shutdown, failed>>

(* join_all, then the copy of votes into tmpvotes under mu.                *)
JoinPrune ==
  /\ phase = "load"
  /\ AllJoined
  /\ DOMAIN votes # {}
  /\ ~failed
  /\ pruneTodo' = DOMAIN votes
  /\ phase' = "prune"
  /\ UNCHANGED <<vars, wnext, wstage, wdata, shutdown, failed>>

(* Plausible bug: the prune loop does not advance past the vote it has    *)
(* examined (the ++i left out).                                            *)
PruneVoteKeep ==
  /\ phase = "prune"
  /\ ~shutdown
  /\ \E key \in pruneTodo :
       /\ votes' = IF key[2] \in ChainSpent
                   THEN [x \in DOMAIN votes \ {key} |-> votes[x]]
                   ELSE votes
       /\ pruneTodo' = pruneTodo
  /\ UNCHANGED <<chain, queue, mempool, proposals, phase, wnext, wstage, wdata,
                 shutdown, failed>>

(* A prune worker examines one vote of the copy: IsUTXOSpent without the   *)
(* mempool, and erase by hash under mu.  The slices of tmpvotes are         *)
(* disjoint and every step is independent of the others, so which worker   *)
(* takes which vote is left open.                                          *)
PruneVote ==
  /\ phase = "prune"
  /\ ~shutdown
  /\ \E key \in pruneTodo :
       /\ votes' = IF key[2] \in ChainSpent
                   THEN [x \in DOMAIN votes \ {key} |-> votes[x]]
                   ELSE votes
       /\ pruneTodo' = pruneTodo \ {key}
  /\ UNCHANGED <<chain, queue, mempool, proposals, phase, wnext, wstage, wdata,
                 shutdown, failed>>

(* Every prune worker sees the shutdown flag and breaks.                   *)
PruneShutdown ==
  /\ phase = "prune"
  /\ shutdown
  /\ pruneTodo # {}
  /\ failed' = TRUE
  /\ pruneTodo' = {}
  /\ UNCHANGED <<vars, phase, wnext, wstage, wdata, shutdown>>

(* The prune workers are joined: return !failed.                           *)
PruneJoin ==
  /\ phase = "prune"
  /\ pruneTodo = {}
  /\ phase' = "done"
  /\ UNCHANGED <<vars, wnext, wstage, wdata, pruneTodo, shutdown, failed>>

(* A shutdown request from another thread, at any time.                    *)
RequestShutdown ==
  /\ ~shutdown
  /\ phase # "done"
  /\ shutdown' = TRUE
  /\ UNCHANGED <<vars, phase, wnext, wstage, wdata, pruneTodo, failed>>

BootNext ==
  \/ BootSkip \/ BootSpawn
  \/ \E k \in Workers :
       WorkerShutdown(k) \/ WorkerReadFail(k) \/ WorkerExtract(k)
       \/ WorkerMerge(k) \/ WorkerFinish(k)
  \/ JoinReturn \/ JoinPrune \/ PruneVote \/ PruneShutdown \/ PruneJoin
  \/ RequestShutdown

BootSpec == BootInit /\ [][BootNext]_bootVars

(* The steps of the calling thread, of worker thread k and of the prune   *)
(* threads.  Every thread the loader starts is an OS thread that runs      *)
(* until its loop ends, and join_all returns once all have ended, so each  *)
(* is weakly fair.  A shutdown request comes from outside and is never     *)
(* forced; a failed block read is one of a worker's steps, never forced    *)
(* either.                                                                 *)
Loader == BootSkip \/ BootSpawn \/ JoinReturn \/ JoinPrune \/ PruneJoin
Worker(k) ==
  WorkerShutdown(k) \/ WorkerReadFail(k) \/ WorkerExtract(k)
  \/ WorkerMerge(k) \/ WorkerFinish(k)
Pruner == PruneVote \/ PruneShutdown

FairBootSpec ==
  /\ BootSpec
  /\ WF_bootVars(Loader)
  /\ \A k \in Workers : WF_bootVars(Worker(k))
  /\ WF_bootVars(Pruner)

-----------------------------------------------------------------------------
(* The sequential replay of heights governanceBlock..tip through the       *)
(* listener, the state spec 5 says the parallel load reaches.              *)
BootReplay ==
  LET hs == [i \in 1..(BlockHeight - GovernanceBlock + 1) |-> GovernanceBlock + i - 1]
  IN FoldLeft(LAMBDA st, h : ConnectStore(st.proposals, st.votes, chain[h], h),
              EmptyStore, hs)

BootTypeOK ==
  /\ TypeOK
  /\ phase \in {"start", "load", "prune", "done"}
  /\ wnext \in [Workers -> Nat]
  /\ wstage \in [Workers -> {"top", "merge", "exit"}]
  /\ pruneTodo \subseteq Hashes
  /\ shutdown \in BOOLEAN
  /\ failed \in BOOLEAN

(* Spec 5: the merge rules make the final state of the parallel load       *)
(* independent of the order in which the workers deliver blocks, so a      *)
(* successful load holds the votes a sequential replay of the chain would. *)
BootVotesMatchReplay ==
  phase = "done" /\ ~failed => votes = BootReplay.votes

-----------------------------------------------------------------------------
(* The strengthening of BootTypeOK and StoredVotesOnChain that is          *)
(* inductive.  A running worker is past governanceBlock on a chain that    *)
(* reaches it; a worker between dataFromBlock and the merge holds a height *)
(* of the chain and votes of the block at that height; and every stored   *)
(* vote is a vote output of the block at its recorded height.              *)
WorkerInv(k) ==
  wstage[k] # "exit" =>
    /\ BlockHeight >= GovernanceBlock
    /\ wnext[k] >= GovernanceBlock

MergeReady(k) ==
  wstage[k] = "merge" =>
    /\ wnext[k] \in 1..BlockHeight
    /\ wdata[k].vs \subseteq Objs(chain[wnext[k]]) \cap VoteObjs

VotesOnChain ==
  \A h \in DOMAIN votes :
    /\ votes[h].height \in 1..Len(chain)
    /\ \E o \in Objs(chain[votes[h].height]) \cap VoteObjs :
         HashOf(o) = h /\ o.v = votes[h].v

(* The loader's invariant in every state: whatever the interleaving of the *)
(* workers, a worker only reads heights governanceBlock..tip (the slicing  *)
(* of l. 657-666), and what a merge stores under mu comes from the block   *)
(* the same worker extracted at that height.                               *)
BInv ==
  /\ BootTypeOK
  /\ queue = << >>
  /\ wdata \in [Workers -> [ps : SUBSET Proposals, vs : SUBSET VoteObjs]]
  /\ \A k \in Workers : WorkerInv(k) /\ MergeReady(k)
  /\ VotesOnChain

-----------------------------------------------------------------------------
(* The proposals that the blocks at heights hs carry and that pass         *)
(* Proposal::isValid and meetsCutoff at their height.                      *)
ChainProposals(hs) == UNION {DataFromBlockProposals(chain[h], h) : h \in hs}

(* A load that returns success stores exactly the proposals of the blocks  *)
(* governanceBlock..tip that pass the checks at their height: the slices   *)
(* of l. 657-666 together cover every height up to the tip, a worker that  *)
(* leaves its loop early sets failed, and no merge under mu loses another  *)
(* worker's proposals.                                                     *)
SuccessLoadsProposals ==
  phase = "done" /\ ~failed =>
    DOMAIN proposals = ChainProposals(GovernanceBlock..BlockHeight)

(* The heights the workers have merged so far.                             *)
LoadedHeights == UNION {SliceStart(k)..(wnext[k] - 1) : k \in Workers}

(* The strengthening of SuccessLoadsProposals that is inductive: before    *)
(* the spawn and after a skip the store is empty; once the workers run,    *)
(* each is within its slice, the proposals map holds those of the merged   *)
(* heights, a pending merge holds the proposals of the worker's current    *)
(* height, a worker that exited without failure has finished its slice,    *)
(* and the prune and return steps come after the join.                     *)
LoadInv ==
  /\ phase = "start" => DOMAIN proposals = {}
  /\ phase # "start" /\ BlockHeight < GovernanceBlock =>
       phase = "done" /\ DOMAIN proposals = {}
  /\ phase # "start" /\ BlockHeight >= GovernanceBlock =>
       /\ \A k \in Workers : wnext[k] \in SliceStart(k)..SliceEnd(k)
       /\ DOMAIN proposals = ChainProposals(LoadedHeights)
       /\ \A k \in Workers :
            wstage[k] = "merge" =>
              /\ wnext[k] < SliceEnd(k)
              /\ wdata[k].ps = DataFromBlockProposals(chain[wnext[k]], wnext[k])
       /\ ~failed => \A k \in Workers : wstage[k] = "exit" => wnext[k] >= SliceEnd(k)
       /\ phase \in {"prune", "done"} => AllJoined

(* loadGovernanceData returns: whatever the chain, the slicing, failed    *)
(* reads and shutdown requests, every worker's loop ends, join_all returns *)
(* and so does the prune phase (l. 659-749).                                *)
BootTerminates == <>(phase = "done")

=============================================================================
