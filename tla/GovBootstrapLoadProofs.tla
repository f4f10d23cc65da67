------------------------ MODULE GovBootstrapLoadProofs ------------------------
(***************************************************************************)
(* Proof that a successful parallel load stores every proposal of the      *)
(* chain from governanceBlock to the tip (SuccessLoadsProposals), for      *)
(* every number of cores, every governanceBlock and every chain.  It rests *)
(* on the slicing of l. 657-666 covering governanceBlock..tip, proved for  *)
(* every total and every number of cores, and on the inductive invariant   *)
(* LoadInv, proved together with BInv of GovBootstrapProofs.               *)
(***************************************************************************)
EXTENDS GovBootstrapProofs

-----------------------------------------------------------------------------
(* The slicing, over a natural n standing for blockHeight.  Every slice    *)
(* starts no later than it ends, and every height governanceBlock..n lies  *)
(* in the slice of some worker: in slice (h - governanceBlock) \div slice, *)
(* or in the last one, which also takes the remainder.                     *)
LEMMA SliceOrderArith ==
  \A n \in Nat : n >= GovernanceBlock =>
    \A k \in Workers :
      LET s == (n - GovernanceBlock) \div Cores
      IN  GovernanceBlock + k * s <= n + 1
<1> SUFFICES ASSUME NEW n \in Nat, n >= GovernanceBlock, NEW k \in Workers
             PROVE  LET s == (n - GovernanceBlock) \div Cores
                    IN  GovernanceBlock + k * s <= n + 1
  OBVIOUS
<1> DEFINE s == (n - GovernanceBlock) \div Cores
<1>1. Cores \in Nat \ {0} /\ GovernanceBlock \in Nat \ {0} /\ k \in 0..Cores - 1
  BY BootConstants DEF Workers
<1>2. s \in Nat /\ Cores * s <= n - GovernanceBlock
  BY <1>1
<1>3. k * s <= Cores * s
  BY <1>1, <1>2
<1>. QED  BY <1>1, <1>2, <1>3

LEMMA CoverArith ==
  \A n \in Nat : n >= GovernanceBlock =>
    \A h \in GovernanceBlock..n : \E k \in Workers :
      LET s == (n - GovernanceBlock) \div Cores
      IN  /\ GovernanceBlock + k * s <= h
          /\ h < IF k = Cores - 1 THEN n + 1 ELSE GovernanceBlock + k * s + s
<1> SUFFICES ASSUME NEW n \in Nat, n >= GovernanceBlock,
                    NEW h \in GovernanceBlock..n
             PROVE  \E k \in Workers :
                      LET s == (n - GovernanceBlock) \div Cores
                      IN  /\ GovernanceBlock + k * s <= h
                          /\ h < IF k = Cores - 1 THEN n + 1
                                 ELSE GovernanceBlock + k * s + s
  OBVIOUS
<1> DEFINE s == (n - GovernanceBlock) \div Cores
           d == h - GovernanceBlock
<1>1. Cores \in Nat \ {0} /\ GovernanceBlock \in Nat \ {0}
      /\ Cores - 1 \in Workers
  BY BootConstants DEF Workers
<1>2. s \in Nat /\ d \in Nat /\ d <= n - GovernanceBlock
  BY <1>1
<1>3. CASE s = 0
  <2>1. GovernanceBlock + (Cores - 1) * s <= h /\ h < n + 1
    BY <1>1, <1>2, <1>3
  <2>. QED  BY <1>1, <2>1
<1>4. CASE s > 0
  <2> DEFINE q == d \div s
  <2>1. q \in Nat /\ q * s <= d /\ d < q * s + s
    BY <1>2, <1>4
  <2>2. CASE q >= Cores - 1
    <3>1. (Cores - 1) * s <= q * s
      BY <1>1, <1>2, <2>1, <2>2
    <3>2. GovernanceBlock + (Cores - 1) * s <= h /\ h < n + 1
      BY <1>1, <1>2, <2>1, <3>1
    <3>. QED  BY <1>1, <3>2
  <2>3. CASE q < Cores - 1
    <3>1. q \in Workers /\ q # Cores - 1
      BY <1>1, <2>1, <2>3 DEF Workers
    <3>2. GovernanceBlock + q * s <= h /\ h < GovernanceBlock + q * s + s
      BY <1>1, <1>2, <2>1
    <3>. QED  BY <3>1, <3>2
  <2>. QED  BY <2>2, <2>3, <1>1, <2>1
<1>. QED  BY <1>2, <1>3, <1>4

(* A worker's slice starts no later than it ends.                          *)
LEMMA SliceOrdered ==
  ASSUME NEW k \in Workers, Len(chain) \in Nat, BlockHeight >= GovernanceBlock
  PROVE  SliceStart(k) <= SliceEnd(k)
<1>1. LET s == (Len(chain) - GovernanceBlock) \div Cores
      IN  /\ s \in Nat
          /\ GovernanceBlock + k * s <= Len(chain) + 1
  BY SliceOrderArith, SliceArith DEF BlockHeight
<1>2. GovernanceBlock \in Nat /\ k \in Nat
  BY BootConstants DEF Workers
<1>. QED  BY <1>1, <1>2 DEF SliceStart, SliceEnd, Slice, BlockHeight

(* The slices together are exactly the heights governanceBlock..tip.       *)
LEMMA SliceCover ==
  ASSUME Len(chain) \in Nat, BlockHeight >= GovernanceBlock
  PROVE  UNION {SliceStart(k)..(SliceEnd(k) - 1) : k \in Workers}
           = GovernanceBlock..BlockHeight
<1>1. ASSUME NEW k \in Workers, NEW h \in SliceStart(k)..(SliceEnd(k) - 1)
      PROVE  h \in GovernanceBlock..BlockHeight
  <2>1. /\ SliceStart(k) \in Nat /\ SliceStart(k) >= GovernanceBlock
        /\ SliceEnd(k) \in Nat /\ SliceEnd(k) <= BlockHeight + 1
    BY SliceBounds
  <2>. QED  BY <2>1, BootConstants DEF BlockHeight
<1>2. ASSUME NEW h \in GovernanceBlock..BlockHeight
      PROVE  \E k \in Workers : h \in SliceStart(k)..(SliceEnd(k) - 1)
  <2>1. \E k \in Workers :
          LET s == (Len(chain) - GovernanceBlock) \div Cores
          IN  /\ GovernanceBlock + k * s <= h
              /\ h < IF k = Cores - 1 THEN Len(chain) + 1
                     ELSE GovernanceBlock + k * s + s
    BY CoverArith DEF BlockHeight
  <2>2. PICK k \in Workers :
          LET s == (Len(chain) - GovernanceBlock) \div Cores
          IN  /\ GovernanceBlock + k * s <= h
              /\ h < IF k = Cores - 1 THEN Len(chain) + 1
                     ELSE GovernanceBlock + k * s + s
    BY <2>1
  <2>3. SliceStart(k) \in Nat /\ SliceEnd(k) \in Nat /\ h \in Nat
    BY SliceBounds, BootConstants
  <2>4. SliceStart(k) <= h /\ h < SliceEnd(k)
    BY <2>2 DEF SliceStart, SliceEnd, Slice, BlockHeight
  <2>. QED  BY <2>3, <2>4
<1>. QED  BY <1>1, <1>2

-----------------------------------------------------------------------------
(* The proposals of a set of heights, one height added.                   *)
LEMMA ChainProposalsAdd ==
  ASSUME NEW A, NEW h
  PROVE  ChainProposals(A \cup {h})
           = ChainProposals(A) \cup DataFromBlockProposals(chain[h], h)
BY DEF ChainProposals

LEMMA InitLoadInv == BootInit => LoadInv
BY DEF BootInit, LoadInv, EmptyStore

(* The loader's skip, spawn and control steps.                             *)
LEMMA StartLoadInv ==
  ASSUME BInv, LoadInv, BootSkip \/ BootSpawn
  PROVE  LoadInv'
<1>1. Len(chain) \in Nat /\ GovernanceBlock \in Nat \ {0} /\ DOMAIN proposals = {}
  BY LenProperties, BootConstants
     DEF BInv, BootTypeOK, TypeOK, LoadInv, BootSkip, BootSpawn
<1>2. CASE BootSkip
  <2>1. BlockHeight < GovernanceBlock
    BY <1>1, <1>2 DEF BootSkip, BlockHeight
  <2>. QED  BY <1>1, <1>2, <2>1 DEF BootSkip, LoadInv, BlockHeight, vars
<1>3. CASE BootSpawn
  <2>1. /\ BlockHeight >= GovernanceBlock
        /\ wnext' = [k \in Workers |-> SliceStart(k)]
        /\ wstage' = [k \in Workers |-> "top"]
        /\ UNCHANGED <<vars, wdata, pruneTodo, shutdown, failed>> /\ phase' = "load"
    BY <1>3 DEF BootSpawn
  <2>2. \A k \in Workers : wnext'[k] \in SliceStart(k)..SliceEnd(k)
    BY <1>1, <2>1, SliceBounds, SliceOrdered
  <2>3. LoadedHeights' = {}
    <3>1. \A k \in Workers : SliceStart(k) \in Nat
      BY <1>1, <2>1, SliceBounds
    <3>. QED  BY <2>1, <3>1 DEF LoadedHeights, SliceStart, Slice, BlockHeight, vars
  <2>4. (DOMAIN proposals = ChainProposals(LoadedHeights))'
    BY <1>1, <2>1, <2>3 DEF ChainProposals, vars
  <2>5. (\A k \in Workers : wnext[k] \in SliceStart(k)..SliceEnd(k))'
    BY <2>1, <2>2 DEF SliceStart, SliceEnd, Slice, BlockHeight, vars
  <2>6. (BlockHeight >= GovernanceBlock)' /\ BlockHeight' \in Nat /\ phase' = "load"
        /\ \A k \in Workers : wstage'[k] = "top"
    BY <1>1, <2>1 DEF BlockHeight, vars
  <2>. QED  BY <2>4, <2>5, <2>6, <1>1 DEF LoadInv
<1>. QED  BY <1>2, <1>3
(* In every phase after the start, blockHeight >= governanceBlock unless   *)
(* the loader skipped and returned.                                        *)
LEMMA LoadHeight ==
  ASSUME BInv, LoadInv, phase \in {"load", "prune"}
  PROVE  Len(chain) \in Nat /\ BlockHeight >= GovernanceBlock
<1>1. Len(chain) \in Nat /\ GovernanceBlock \in Nat
  BY LenProperties, BootConstants DEF BInv, BootTypeOK, TypeOK
<1>. QED  BY <1>1 DEF LoadInv, BlockHeight

(* A step that leaves the chain, the store's proposals and the workers'    *)
(* positions and data alone, and moves the control only forward: the      *)
(* join (after every worker has exited), the prune steps, a shutdown       *)
(* request.                                                                *)
LEMMA QuietFrame ==
  ASSUME BInv, LoadInv,
         UNCHANGED <<chain, proposals, wnext, wdata, wstage>>,
         failed' = failed \/ failed' = TRUE,
         \/ phase' = phase
         \/ phase = "load" /\ AllJoined /\ phase' \in {"prune", "done"}
         \/ phase = "prune" /\ phase' = "done"
  PROVE  LoadInv'
<1>1. CASE phase' = phase
  BY <1>1 DEF LoadInv, BlockHeight, SliceStart, SliceEnd, Slice, LoadedHeights,
              ChainProposals, AllJoined
<1>2. CASE phase = "load" /\ AllJoined /\ phase' \in {"prune", "done"}
  <2>1. Len(chain) \in Nat /\ BlockHeight >= GovernanceBlock
    BY <1>2, LoadHeight
  <2>. QED  BY <1>2, <2>1 DEF LoadInv, BlockHeight, SliceStart, SliceEnd, Slice,
                              LoadedHeights, ChainProposals, AllJoined
<1>3. CASE phase = "prune" /\ phase' = "done"
  <2>1. Len(chain) \in Nat /\ BlockHeight >= GovernanceBlock
    BY <1>3, LoadHeight
  <2>. QED  BY <1>3, <2>1 DEF LoadInv, BlockHeight, SliceStart, SliceEnd, Slice,
                              LoadedHeights, ChainProposals, AllJoined
<1>. QED  BY <1>1, <1>2, <1>3

LEMMA QuietLoadInv ==
  ASSUME BInv, LoadInv,
         JoinReturn \/ JoinPrune \/ PruneVote \/ PruneShutdown \/ PruneJoin
         \/ RequestShutdown
  PROVE  LoadInv'
<1>1. CASE JoinReturn \/ JoinPrune
  BY <1>1, QuietFrame DEF JoinReturn, JoinPrune, vars
<1>2. CASE PruneVote \/ PruneShutdown \/ PruneJoin \/ RequestShutdown
  BY <1>2, QuietFrame DEF PruneVote, PruneShutdown, PruneJoin, RequestShutdown, vars
<1>. QED  BY <1>1, <1>2

(* A worker leaves its loop: on shutdown or a failed read (failed is set), *)
(* or at the end of its slice.                                             *)
LEMMA StopLoadInv ==
  ASSUME BInv, LoadInv, NEW k \in Workers,
         WorkerShutdown(k) \/ WorkerReadFail(k) \/ WorkerFinish(k)
  PROVE  LoadInv'
<1>1. /\ phase = "load" /\ wstage' = [wstage EXCEPT ![k] = "exit"]
      /\ UNCHANGED <<vars, phase, wnext, wdata>>
      /\ \/ failed' = TRUE
         \/ failed' = failed /\ wnext[k] >= SliceEnd(k)
  BY DEF WorkerShutdown, WorkerReadFail, WorkerFinish
<1>2. Len(chain) \in Nat /\ BlockHeight >= GovernanceBlock
  BY <1>1, LoadHeight
<1>3. wstage \in [Workers -> {"top", "merge", "exit"}]
  BY DEF BInv, BootTypeOK
<1>4. \A j \in Workers : wstage'[j] = "merge" => wstage[j] = "merge"
  BY <1>1, <1>3
<1>5. ~failed' => \A j \in Workers : wstage'[j] = "exit" => wnext[j] >= SliceEnd(j)
  BY <1>1, <1>2, <1>3 DEF LoadInv
<1>. QED  BY <1>1, <1>2, <1>4, <1>5 DEF LoadInv, BlockHeight, SliceStart, SliceEnd,
                                         Slice, LoadedHeights, ChainProposals, vars

(* dataFromBlock returns to worker k the proposals of its current height.  *)
LEMMA ExtractLoadInv ==
  ASSUME BInv, LoadInv, NEW k \in Workers, WorkerExtract(k)
  PROVE  LoadInv'
<1> DEFINE h == wnext[k]
<1>1. /\ phase = "load" /\ wstage[k] = "top" /\ h < SliceEnd(k)
      /\ wdata' = [wdata EXCEPT ![k] =
                     [ps |-> DataFromBlockProposals(chain[h], h),
                      vs |-> DataFromBlockVotes(chain[h], h, proposals)]]
      /\ wstage' = [wstage EXCEPT ![k] = "merge"]
      /\ UNCHANGED <<vars, phase, wnext, pruneTodo, shutdown, failed>>
  BY DEF WorkerExtract
<1>2. Len(chain) \in Nat /\ BlockHeight >= GovernanceBlock
  BY <1>1, LoadHeight
<1>3. wstage \in [Workers -> {"top", "merge", "exit"}]
      /\ wdata \in [Workers -> [ps : SUBSET Proposals, vs : SUBSET VoteObjs]]
  BY DEF BInv, BootTypeOK
<1>4. \A j \in Workers :
        wstage'[j] = "merge" =>
          /\ wnext[j] < SliceEnd(j)
          /\ wdata'[j].ps = DataFromBlockProposals(chain[wnext[j]], wnext[j])
  BY <1>1, <1>2, <1>3 DEF LoadInv
<1>5. ~failed' => \A j \in Workers : wstage'[j] = "exit" => wnext[j] >= SliceEnd(j)
  BY <1>1, <1>2, <1>3 DEF LoadInv
<1>. QED  BY <1>1, <1>2, <1>4, <1>5 DEF LoadInv, BlockHeight, SliceStart, SliceEnd,
                                         Slice, LoadedHeights, ChainProposals, vars
(* The merge under mu adds the proposals of the worker's height, and the   *)
(* worker moves to the next height of its slice.                           *)
LEMMA MergeLoadInv ==
  ASSUME BInv, LoadInv, NEW k \in Workers, WorkerMerge(k)
  PROVE  LoadInv'
<1> DEFINE h == wnext[k]
           ps == wdata[k].ps
<1>1. /\ phase = "load" /\ wstage[k] = "merge"
      /\ proposals' = InsertProposals(proposals, ps, h)
      /\ wnext' = [wnext EXCEPT ![k] = h + 1]
      /\ wstage' = [wstage EXCEPT ![k] = "top"]
      /\ UNCHANGED <<chain, phase, wdata, failed>>
  BY DEF WorkerMerge, ConnectData
<1>2. Len(chain) \in Nat /\ BlockHeight >= GovernanceBlock
  BY <1>1, LoadHeight
<1>3. /\ wstage \in [Workers -> {"top", "merge", "exit"}]
      /\ wnext \in [Workers -> Nat]
  BY DEF BInv, BootTypeOK
<1>4. /\ h \in SliceStart(k)..SliceEnd(k) /\ h < SliceEnd(k)
      /\ ps = DataFromBlockProposals(chain[h], h)
      /\ SliceStart(k) \in Nat /\ SliceEnd(k) \in Nat
  BY <1>1, <1>2, SliceBounds DEF LoadInv
<1>5. DOMAIN proposals' = DOMAIN proposals \cup ps
  BY <1>1 DEF InsertProposals
<1>6. LoadedHeights' = LoadedHeights \cup {h}
  <2>1. LoadedHeights' = UNION {SliceStart(j)..(wnext'[j] - 1) : j \in Workers}
    BY <1>1 DEF LoadedHeights, SliceStart, Slice, BlockHeight
  <2>2. \A j \in Workers \ {k} : wnext'[j] = wnext[j]
    BY <1>1, <1>3
  <2>3. SliceStart(k)..(wnext'[k] - 1) = (SliceStart(k)..(h - 1)) \cup {h}
    BY <1>1, <1>3, <1>4
  <2>. QED  BY <2>1, <2>2, <2>3 DEF LoadedHeights
<1>7. (DOMAIN proposals = ChainProposals(LoadedHeights))'
  <2>1. ChainProposals(LoadedHeights \cup {h})
          = ChainProposals(LoadedHeights) \cup DataFromBlockProposals(chain[h], h)
    BY ChainProposalsAdd
  <2>2. DOMAIN proposals = ChainProposals(LoadedHeights)
    BY <1>1, <1>2 DEF LoadInv
  <2>. QED  BY <1>1, <1>4, <1>5, <1>6, <2>1, <2>2 DEF ChainProposals
<1>8. \A j \in Workers : wnext'[j] \in SliceStart(j)..SliceEnd(j)
  <2>1. \A j \in Workers : wnext[j] \in SliceStart(j)..SliceEnd(j)
    BY <1>1, <1>2 DEF LoadInv
  <2>. QED  BY <2>1, <1>1, <1>3, <1>4
<1>9. \A j \in Workers :
        wstage'[j] = "merge" =>
          /\ wnext'[j] < SliceEnd(j)
          /\ wdata'[j].ps = DataFromBlockProposals(chain[wnext'[j]], wnext'[j])
  BY <1>1, <1>2, <1>3 DEF LoadInv
<1>10. ~failed' => \A j \in Workers : wstage'[j] = "exit" => wnext'[j] >= SliceEnd(j)
  BY <1>1, <1>2, <1>3 DEF LoadInv
<1>. QED  BY <1>1, <1>2, <1>7, <1>8, <1>9, <1>10
          DEF LoadInv, BlockHeight, SliceStart, SliceEnd, Slice

LEMMA NextLoadInv == BInv /\ LoadInv /\ [BootNext]_bootVars => LoadInv'
<1> SUFFICES ASSUME BInv, LoadInv, [BootNext]_bootVars PROVE LoadInv'
  OBVIOUS
<1>1. CASE BootSkip \/ BootSpawn
  BY <1>1, StartLoadInv
<1>2. CASE JoinReturn \/ JoinPrune \/ PruneVote \/ PruneShutdown \/ PruneJoin
           \/ RequestShutdown
  BY <1>2, QuietLoadInv
<1>3. ASSUME NEW k \in Workers,
             WorkerShutdown(k) \/ WorkerReadFail(k) \/ WorkerExtract(k)
             \/ WorkerMerge(k) \/ WorkerFinish(k)
      PROVE  LoadInv'
  BY <1>3, StopLoadInv, ExtractLoadInv, MergeLoadInv
<1>4. CASE UNCHANGED bootVars
  BY <1>4 DEF bootVars, vars, LoadInv, BlockHeight, SliceStart, SliceEnd, Slice,
              LoadedHeights, ChainProposals, AllJoined
<1>. QED  BY <1>1, <1>2, <1>3, <1>4 DEF BootNext

(* The loader's coverage invariant holds in every state, together with     *)
(* BInv, for every number of cores, governanceBlock and chain: each worker *)
(* stays within its slice and the proposals map holds exactly the          *)
(* proposals of the heights merged so far.                                 *)
THEOREM LoadInvariant == BootSpec => [](BInv /\ LoadInv)
BY InitBInv, InitLoadInv, NextBInv, NextLoadInv, PTL DEF BootSpec

(* A load that returns success holds exactly the proposals that the blocks *)
(* governanceBlock..tip carry and that pass Proposal::isValid and          *)
(* meetsCutoff at their height, for every number of cores (the slicing of  *)
(* l. 657-666 with its remainder in the last slice) and every              *)
(* interleaving of the workers' reads and merges.                          *)
THEOREM SuccessLoadsProposalsThm == BootSpec => []SuccessLoadsProposals
<1>1. BInv /\ LoadInv => SuccessLoadsProposals
  <2> SUFFICES ASSUME BInv, LoadInv, phase = "done", ~failed
               PROVE  DOMAIN proposals = ChainProposals(GovernanceBlock..BlockHeight)
    BY DEF SuccessLoadsProposals
  <2>1. Len(chain) \in Nat /\ GovernanceBlock \in Nat
    BY LenProperties, BootConstants DEF BInv, BootTypeOK, TypeOK
  <2>2. CASE BlockHeight < GovernanceBlock
    <3>1. DOMAIN proposals = {} /\ GovernanceBlock..BlockHeight = {}
      BY <2>1, <2>2 DEF LoadInv, BlockHeight
    <3>. QED  BY <3>1 DEF ChainProposals
  <2>3. CASE BlockHeight >= GovernanceBlock
    <3>1. /\ DOMAIN proposals = ChainProposals(LoadedHeights)
          /\ \A k \in Workers : wnext[k] \in SliceStart(k)..SliceEnd(k)
          /\ \A k \in Workers : wnext[k] >= SliceEnd(k)
      BY <2>3 DEF LoadInv, AllJoined
    <3>2. \A k \in Workers : wnext[k] = SliceEnd(k)
      <4> SUFFICES ASSUME NEW k \in Workers PROVE wnext[k] = SliceEnd(k)
        OBVIOUS
      <4>1. SliceStart(k) \in Nat /\ SliceEnd(k) \in Nat
        BY <2>1, <2>3, SliceBounds
      <4>. QED  BY <3>1, <4>1
    <3>3. LoadedHeights = UNION {SliceStart(k)..(SliceEnd(k) - 1) : k \in Workers}
      BY <3>2 DEF LoadedHeights
    <3>4. LoadedHeights = GovernanceBlock..BlockHeight
      BY <3>3, <2>1, <2>3, SliceCover
    <3>. QED  BY <3>1, <3>4
  <2>. QED  BY <2>1, <2>2, <2>3 DEF BlockHeight
<1>. QED  BY <1>1, LoadInvariant, PTL
==============================================================================
