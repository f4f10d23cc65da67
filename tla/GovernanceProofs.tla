-------------------------- MODULE GovernanceProofs --------------------------
(***************************************************************************)
(* Proofs about the governance store and chain listener of Governance.tla, *)
(* for every value of the constants that satisfies ConstantsAssumption.    *)
(***************************************************************************)
EXTENDS Governance, SequenceTheorems, TLAPS

-----------------------------------------------------------------------------
(* Lemmas about the operators of the model. *)

(* dataFromBlock only returns proposals of the block. *)
LEMMA ProposalsExtracted ==
  ASSUME NEW b \in Block, NEW h
  PROVE  DataFromBlockProposals(b, h) \subseteq Proposals
BY DEF DataFromBlockProposals, ProposalObjs

(* dataFromBlock only returns vote outputs, each one accepted. *)
LEMMA VotesExtracted ==
  ASSUME NEW b \in Block, NEW h, NEW store
  PROVE  /\ DataFromBlockVotes(b, h, store) \subseteq VoteObjs
         /\ \A o \in DataFromBlockVotes(b, h, store) : VoteIsValid(o)
BY DEF DataFromBlockVotes, AcceptedAt, VoteAccepted

(* The merged votes map is typed, and every hash it adds is the hash of a  *)
(* vote it merged.                                                         *)
LEMMA MergeVotesType ==
  ASSUME NEW vts, vts \in [DOMAIN vts -> VoteRec],
         NEW vs \in SUBSET VoteObjs, NEW t \in Times, NEW h \in Nat, NEW props
  PROVE  LET m == MergeVotes(vts, vs, t, h, props)
         IN  /\ DOMAIN m \subseteq DOMAIN vts \cup {HashOf(o) : o \in vs}
             /\ \A k \in DOMAIN m : m[k] \in VoteRec
<1> DEFINE take == {o \in vs : o.p \in DOMAIN props
                          /\ (HashOf(o) \in DOMAIN vts =>
                                Supersedes(o, t, vts[HashOf(o)]))}
           newRec(k) == CHOOSE o \in take : HashOf(o) = k
<1>1. ASSUME NEW k \in {HashOf(o) : o \in take}
      PROVE  [v |-> newRec(k).v, time |-> t, height |-> h] \in VoteRec
  <2>1. newRec(k) \in take /\ HashOf(newRec(k)) = k
    BY <1>1
  <2>2. newRec(k).v \in VoteTypes
    BY <2>1 DEF VoteObjs
  <2>. QED  BY <2>2 DEF VoteRec
<1>. QED  BY <1>1 DEF MergeVotes

-----------------------------------------------------------------------------
(* Type correctness. *)

LEMMA InitTypeOK == Init => TypeOK
BY DEF Init, TypeOK

LEMMA NextTypeOK == TypeOK /\ [Next]_vars => TypeOK'
<1> SUFFICES ASSUME TypeOK, [Next]_vars PROVE TypeOK'
  OBVIOUS
<1> USE ConstantsAssumption
<1>1. ASSUME NEW b \in Blocks, ConnectTip(b) PROVE TypeOK'
  <2>1. chain' \in Seq(Blocks)
    BY <1>1, AppendProperties DEF ConnectTip, TypeOK
  <2>2. [kind |-> "connect", block |-> b, height |-> Len(chain) + 1] \in Events
    BY DEF Events, TypeOK
  <2>3. queue' \in Seq(Events)
    BY <1>1, <2>2, AppendProperties DEF ConnectTip, TypeOK
  <2>. QED  BY <1>1, <2>1, <2>3 DEF ConnectTip, TypeOK
<1>2. ASSUME DisconnectTip PROVE TypeOK'
  <2>1. chain[Len(chain)] \in Blocks
    BY <1>2 DEF DisconnectTip, TypeOK
  <2>2. chain' \in Seq(Blocks)
    BY <1>2, SubSeqProperties DEF DisconnectTip, TypeOK
  <2>3. queue' \in Seq(Events)
    BY <1>2, <2>1, AppendProperties DEF DisconnectTip, TypeOK, Events
  <2>4. mempool' \subseteq Utxos
    BY <1>2, <2>1 DEF DisconnectTip, TypeOK, Block
  <2>. QED  BY <1>2, <2>2, <2>3, <2>4 DEF DisconnectTip, TypeOK
<1>3. ASSUME NEW u \in Utxos, MempoolAdd(u) \/ MempoolRemove(u) PROVE TypeOK'
  BY <1>3 DEF MempoolAdd, MempoolRemove, TypeOK
<1>4. ASSUME BlockConnected PROVE TypeOK'
  <2> DEFINE e == Head(queue)
             b == e.block
             h == e.height
             ps == DataFromBlockProposals(b, h)
             vs == DataFromBlockVotes(b, h, proposals)
             props == InsertProposals(proposals, ps, h)
             merged == MergeVotes(votes, vs, b.time, h, props)
  <2>1. e \in Events /\ Tail(queue) \in Seq(Events)
    BY <1>4, HeadTailProperties DEF BlockConnected, TypeOK
  <2>2. b \in Block /\ h \in Nat
    BY <1>4, <2>1 DEF BlockConnected, Events
  <2>3. ps \subseteq Proposals
    BY <2>2, ProposalsExtracted
  <2>4. vs \in SUBSET VoteObjs
    BY <2>2, VotesExtracted
  <2>5. /\ DOMAIN merged \subseteq Hashes
        /\ \A k \in DOMAIN merged : merged[k] \in VoteRec
    <3>1. b.time \in Times
      BY <2>2 DEF Block
    <3>2. {HashOf(o) : o \in vs} \subseteq Hashes
      BY <2>4 DEF HashOf, VoteObjs, Hashes
    <3>. QED  BY <2>2, <2>4, <3>1, <3>2, MergeVotesType DEF TypeOK
  <2>6. proposals' = props /\ queue' = Tail(queue)
        /\ votes' = EraseSpent(merged, b.spends)
    BY <1>4 DEF BlockConnected, ConnectStore, ConnectData
  <2>7. proposals' \in [DOMAIN proposals' -> Nat]
        /\ DOMAIN proposals' \subseteq Proposals
    BY <2>2, <2>3, <2>6 DEF InsertProposals, TypeOK
  <2>8. DOMAIN votes' \subseteq Hashes /\ votes' \in [DOMAIN votes' -> VoteRec]
    BY <2>5, <2>6 DEF EraseSpent
  <2>. QED  BY <1>4, <2>1, <2>6, <2>7, <2>8 DEF BlockConnected, TypeOK
<1>5. ASSUME BlockDisconnected PROVE TypeOK'
  <2>1. Tail(queue) \in Seq(Events)
    BY <1>5, HeadTailProperties DEF BlockDisconnected, TypeOK
  <2>. QED  BY <1>5, <2>1 DEF BlockDisconnected, TypeOK
<1>6. CASE UNCHANGED vars
  BY <1>6 DEF vars, TypeOK
<1>. QED  BY <1>1, <1>2, <1>3, <1>4, <1>5, <1>6 DEF Next

(* The chain, the event queue, the mempool and both maps of the store      *)
(* always have their types.                                                *)
THEOREM TypeCorrect == Spec => []TypeOK
BY InitTypeOK, NextTypeOK, PTL DEF Spec

-----------------------------------------------------------------------------
(* NoSpentVote, through the inductive invariant IInv.                      *)

LEMMA InitIInv == Init => IInv
BY InitTypeOK DEF Init, IInv, SpendsHandled

(* A pending connect event stays pending when the queue grows. *)
LEMMA PendingAppend ==
  ASSUME NEW S, NEW q \in Seq(S), NEW ev \in S, NEW x, NEW j \in 1..Len(q),
         q[j] = x
  PROVE  \E j2 \in 1..Len(Append(q, ev)) : Append(q, ev)[j2] = x
BY AppendProperties

(* A pending event other than the head stays pending when the head is      *)
(* handled.                                                                *)
LEMMA PendingTail ==
  ASSUME NEW S, NEW q \in Seq(S), q # << >>, NEW x, NEW j \in 1..Len(q),
         q[j] = x, j # 1
  PROVE  \E j2 \in 1..Len(Tail(q)) : Tail(q)[j2] = x
<1>1. j - 1 \in 1..Len(Tail(q)) /\ Tail(q)[j - 1] = q[j]
  BY HeadTailProperties
<1>. QED  BY <1>1

LEMMA NextSpendsHandled == IInv /\ [Next]_vars => SpendsHandled'
<1> SUFFICES ASSUME IInv, [Next]_vars PROVE SpendsHandled'
  OBVIOUS
<1> USE ConstantsAssumption
<1>0. TypeOK
  BY DEF IInv
<1>1. ASSUME NEW b \in Blocks, ConnectTip(b) PROVE SpendsHandled'
  <2> DEFINE ev == [kind |-> "connect", block |-> b, height |-> Len(chain) + 1]
  <2>1. ev \in Events
    BY <1>0 DEF Events, TypeOK
  <2> SUFFICES ASSUME NEW i \in 1..Len(chain')
               PROVE  ConnectPending(i)' \/
                      \A k \in DOMAIN votes' : k[2] \notin chain'[i].spends
    BY DEF SpendsHandled
  <2>2. CASE i = Len(chain) + 1
    <3>1. chain'[i] = b /\ queue' = Append(queue, ev)
      BY <1>1, <2>2, <1>0, AppendProperties DEF ConnectTip, TypeOK
    <3>2. Append(queue, ev)[Len(queue) + 1] = ev
          /\ Len(Append(queue, ev)) = Len(queue) + 1
      BY <1>0, <2>1, AppendProperties DEF TypeOK
    <3>. QED  BY <3>1, <3>2, <2>2 DEF ConnectPending
  <2>3. CASE i \in 1..Len(chain)
    <3>1. chain'[i] = chain[i] /\ queue' = Append(queue, ev)
          /\ votes' = votes
      BY <1>1, <2>3, <1>0, AppendProperties DEF ConnectTip, TypeOK
    <3>2. CASE ConnectPending(i)
      BY <3>1, <3>2, <2>1, <1>0, PendingAppend DEF ConnectPending, TypeOK
    <3>3. CASE ~ConnectPending(i)
      BY <3>1, <3>3, <2>3 DEF IInv, SpendsHandled
    <3>. QED  BY <3>2, <3>3
  <2>. QED  BY <2>2, <2>3, <1>1, <1>0, AppendProperties DEF ConnectTip, TypeOK
<1>2. ASSUME DisconnectTip PROVE SpendsHandled'
  <2> DEFINE ev == [kind |-> "disconnect", block |-> chain[Len(chain)]]
  <2>1. ev \in Events
    BY <1>0, <1>2 DEF Events, TypeOK, DisconnectTip
  <2> SUFFICES ASSUME NEW i \in 1..Len(chain')
               PROVE  ConnectPending(i)' \/
                      \A k \in DOMAIN votes' : k[2] \notin chain'[i].spends
    BY DEF SpendsHandled
  <2>2. i \in 1..Len(chain) /\ chain'[i] = chain[i]
        /\ queue' = Append(queue, ev) /\ votes' = votes
    BY <1>2, <1>0, SubSeqProperties DEF DisconnectTip, TypeOK
  <2>3. CASE ConnectPending(i)
    BY <2>1, <2>2, <2>3, <1>0, PendingAppend DEF ConnectPending, TypeOK
  <2>4. CASE ~ConnectPending(i)
    BY <2>2, <2>4 DEF IInv, SpendsHandled
  <2>. QED  BY <2>3, <2>4
<1>3. ASSUME NEW u \in Utxos, MempoolAdd(u) \/ MempoolRemove(u)
      PROVE SpendsHandled'
  BY <1>3 DEF MempoolAdd, MempoolRemove, IInv, SpendsHandled, ConnectPending
<1>4. ASSUME BlockConnected PROVE SpendsHandled'
  <2> DEFINE e == Head(queue)
             b == e.block
             h == e.height
             ps == DataFromBlockProposals(b, h)
             vs == DataFromBlockVotes(b, h, proposals)
             props == InsertProposals(proposals, ps, h)
             merged == MergeVotes(votes, vs, b.time, h, props)
  <2>1. /\ queue # << >> /\ e.kind = "connect"
        /\ queue' = Tail(queue) /\ chain' = chain
        /\ votes' = EraseSpent(merged, b.spends)
    BY <1>4 DEF BlockConnected, ConnectStore, ConnectData
  <2>2. e \in Events /\ b \in Block /\ h \in Nat
    BY <2>1, <1>0, HeadTailProperties DEF TypeOK, Events
  <2>3. vs \in SUBSET VoteObjs /\ \A o \in vs : VoteIsValid(o)
    BY <2>2, VotesExtracted
  <2>4. DOMAIN merged \subseteq DOMAIN votes \cup {HashOf(o) : o \in vs}
    BY <2>2, <2>3, <1>0, MergeVotesType DEF Block, TypeOK
  <2> SUFFICES ASSUME NEW i \in 1..Len(chain)
               PROVE  ConnectPending(i)' \/
                      \A k \in DOMAIN votes' : k[2] \notin chain[i].spends
    BY <2>1 DEF SpendsHandled
  (* The votes the handler adds are backed by utxos no block spends. *)
  <2>5. \A o \in vs : o.u \notin chain[i].spends
    BY <2>3 DEF VoteIsValid, IsUTXOSpent, ChainSpent
  <2>6. CASE \E j \in 1..Len(queue) : j # 1 /\
               queue[j] = [kind |-> "connect", block |-> chain[i], height |-> i]
    <3>1. PICK j \in 1..Len(queue) : j # 1 /\
               queue[j] = [kind |-> "connect", block |-> chain[i], height |-> i]
      BY <2>6
    <3>2. \E j2 \in 1..Len(Tail(queue)) :
            Tail(queue)[j2] = [kind |-> "connect", block |-> chain[i], height |-> i]
      BY <3>1, <2>1, <1>0, PendingTail DEF TypeOK
    <3>. QED  BY <3>2, <2>1 DEF ConnectPending
  <2>7. CASE queue[1] = [kind |-> "connect", block |-> chain[i], height |-> i]
    <3>1. b = chain[i]
      BY <2>7, <2>1
    <3>. QED  BY <3>1, <2>1 DEF EraseSpent
  <2>8. CASE ~ConnectPending(i)
    <3>1. \A k \in DOMAIN votes : k[2] \notin chain[i].spends
      BY <2>8 DEF IInv, SpendsHandled
    <3>2. \A o \in vs : HashOf(o)[2] \notin chain[i].spends
      BY <2>5 DEF HashOf
    <3>. QED  BY <3>1, <3>2, <2>4, <2>1 DEF EraseSpent
  <2>. QED  BY <2>6, <2>7, <2>8, <2>1 DEF ConnectPending
<1>5. ASSUME BlockDisconnected PROVE SpendsHandled'
  <2>1. /\ queue # << >> /\ Head(queue).kind = "disconnect"
        /\ queue' = Tail(queue) /\ chain' = chain
        /\ DOMAIN votes' \subseteq DOMAIN votes
    BY <1>5 DEF BlockDisconnected
  <2> SUFFICES ASSUME NEW i \in 1..Len(chain)
               PROVE  ConnectPending(i)' \/
                      \A k \in DOMAIN votes' : k[2] \notin chain[i].spends
    BY <2>1 DEF SpendsHandled
  <2>2. CASE ConnectPending(i)
    <3>1. PICK j \in 1..Len(queue) :
               queue[j] = [kind |-> "connect", block |-> chain[i], height |-> i]
      BY <2>2 DEF ConnectPending
    <3>2. j # 1
      BY <3>1, <2>1
    <3>3. \E j2 \in 1..Len(Tail(queue)) :
            Tail(queue)[j2] = [kind |-> "connect", block |-> chain[i], height |-> i]
      BY <3>1, <3>2, <2>1, <1>0, PendingTail DEF TypeOK
    <3>. QED  BY <3>3, <2>1 DEF ConnectPending
  <2>3. CASE ~ConnectPending(i)
    BY <2>1, <2>3 DEF IInv, SpendsHandled
  <2>. QED  BY <2>2, <2>3
<1>6. CASE UNCHANGED vars
  BY <1>6 DEF vars, IInv, SpendsHandled, ConnectPending
<1>. QED  BY <1>1, <1>2, <1>3, <1>4, <1>5, <1>6 DEF Next

LEMMA IInvInductive == IInv /\ [Next]_vars => IInv'
BY NextTypeOK, NextSpendsHandled DEF IInv

LEMMA IInvNoSpentVote == IInv => NoSpentVote
BY DEF IInv, SpendsHandled, ConnectPending, NoSpentVote, ChainSpent

(* Spec invariants 2 and 5: once the listener has caught up with           *)
(* validation, no stored vote is backed by a utxo spent on the active      *)
(* chain, whatever the interleaving of tip changes, mempool changes and    *)
(* handler runs.                                                           *)
THEOREM NoSpentVoteThm == Spec => []NoSpentVote
BY InitIInv, IInvInductive, IInvNoSpentVote, PTL DEF Spec

(* The listener's invariant in every state, busy or idle: for every block  *)
(* of the active chain, either its BlockConnected event is still queued    *)
(* (with that block and height), or no stored vote rests on a utxo that    *)
(* block spends; the erase loop of BlockConnected (l. 1520-1534) is what   *)
(* discharges each block's spends.                                         *)
THEOREM SpendsHandledThm == Spec => []IInv
BY InitIInv, IInvInductive, PTL DEF Spec


-----------------------------------------------------------------------------
(* ProposalsOnChain, through the inductive invariant PInv.  The store lags *)
(* behind validation, so a stored proposal may sit at a height the active  *)
(* chain has since lost; what makes the property hold once the queue is    *)
(* empty is that every such proposal has a disconnect event queued whose   *)
(* BlockDisconnected will erase it, and that every queued connect event    *)
(* either still matches the chain or is followed by the disconnect of its  *)
(* block.                                                                  *)

(* What dataFromBlock extracts as a proposal is a valid proposal output of *)
(* the block, and is extracted again without the cutoff.                   *)
LEMMA ProposalExtractedObj ==
  ASSUME NEW b, NEW h, NEW p \in DataFromBlockProposals(b, h)
  PROVE  /\ [kind |-> "proposal", p |-> p] \in Objs(b)
         /\ ProposalIsValid(p)
         /\ p \in DataFromBlockProposals(b, 0)
<1>1. PICK o \in Objs(b) \cap ProposalObjs :
           ProposalIsValid(o.p) /\ (h = 0 \/ ProposalMeetsCutoff(o.p, h))
           /\ o.p = p
  BY DEF DataFromBlockProposals
<1>2. o = [kind |-> "proposal", p |-> p]
  BY <1>1 DEF ProposalObjs
<1>. QED  BY <1>1, <1>2 DEF DataFromBlockProposals

(* A valid proposal output of a block is extracted without the cutoff.     *)
LEMMA ProposalObjExtracted ==
  ASSUME NEW b, NEW p \in Proposals, ProposalIsValid(p),
         [kind |-> "proposal", p |-> p] \in Objs(b)
  PROVE  p \in DataFromBlockProposals(b, 0)
<1>1. [kind |-> "proposal", p |-> p] \in ProposalObjs
  BY DEF ProposalObjs
<1>. QED  BY <1>1 DEF DataFromBlockProposals

(* Positions of the queue after its head is handled. *)
LEMMA TailShift ==
  ASSUME NEW S, NEW q \in Seq(S), q # << >>
  PROVE  /\ Len(Tail(q)) = Len(q) - 1
         /\ \A k \in 2..Len(q) : k - 1 \in 1..Len(Tail(q)) /\ Tail(q)[k - 1] = q[k]
         /\ \A j \in 1..Len(Tail(q)) : j + 1 \in 2..Len(q) /\ Tail(q)[j] = q[j + 1]
BY HeadTailProperties

(* The length arithmetic of SubSeq(s, 1, n - 1), for a positive n. *)
LEMMA DropTipArith ==
  \A n \in Nat : n > 0 =>
     /\ (IF 1 <= n - 1 THEN (n - 1) - 1 + 1 ELSE 0) = n - 1
     /\ \A i \in 1..n - 1 : i \in 1..(n - 1) - 1 + 1 /\ 1 + i - 1 = i
OBVIOUS

(* The chain after DisconnectTip: the tip dropped, the rest in place. *)
LEMMA DropTip ==
  ASSUME NEW S, NEW s \in Seq(S), Len(s) > 0
  PROVE  /\ Len(SubSeq(s, 1, Len(s) - 1)) = Len(s) - 1
         /\ \A i \in 1..Len(s) - 1 : SubSeq(s, 1, Len(s) - 1)[i] = s[i]
<1>1. Len(s) \in Nat /\ \A i \in 1..Len(s) - 1 : s[i] \in S
  BY LenProperties
<1>2. /\ Len(SubSeq(s, 1, Len(s) - 1))
         = IF 1 <= Len(s) - 1 THEN (Len(s) - 1) - 1 + 1 ELSE 0
      /\ \A i \in 1..(Len(s) - 1) - 1 + 1 :
           SubSeq(s, 1, Len(s) - 1)[i] = s[1 + i - 1]
  BY <1>1, SubSeqProperties
<1>3. /\ (IF 1 <= Len(s) - 1 THEN (Len(s) - 1) - 1 + 1 ELSE 0) = Len(s) - 1
      /\ \A i \in 1..Len(s) - 1 : i \in 1..(Len(s) - 1) - 1 + 1 /\ 1 + i - 1 = i
  BY <1>1, DropTipArith
<1>. QED  BY <1>2, <1>3

LEMMA InitPInv == Init => PInv
BY InitTypeOK DEF Init, PInv, PropsValid, PropsStand, ConnectsStand


LEMMA NextPropsValid == PropsValid /\ [Next]_vars => PropsValid'
<1> SUFFICES ASSUME PropsValid, [Next]_vars PROVE PropsValid'
  OBVIOUS
<1>1. ASSUME BlockConnected PROVE PropsValid'
  <2> DEFINE ps == DataFromBlockProposals(Head(queue).block, Head(queue).height)
  <2>1. proposals' = InsertProposals(proposals, ps, Head(queue).height)
    BY <1>1 DEF BlockConnected, ConnectStore, ConnectData
  <2>2. \A p \in ps : ProposalIsValid(p)
    BY ProposalExtractedObj
  <2>. QED  BY <2>1, <2>2 DEF InsertProposals, PropsValid
<1>2. ASSUME BlockDisconnected PROVE PropsValid'
  BY <1>2 DEF BlockDisconnected, PropsValid
<1>. QED
  BY <1>1, <1>2 DEF Next, ConnectTip, DisconnectTip, MempoolAdd,
                    MempoolRemove, vars, PropsValid

LEMMA NextConnectsStand ==
  TypeOK /\ ConnectsStand /\ [Next]_vars => ConnectsStand'
<1> SUFFICES ASSUME TypeOK, ConnectsStand, [Next]_vars PROVE ConnectsStand'
  OBVIOUS
<1> USE ConstantsAssumption
<1>1. ASSUME NEW b \in Blocks, ConnectTip(b) PROVE ConnectsStand'
  <2> DEFINE ev == [kind |-> "connect", block |-> b, height |-> Len(chain) + 1]
  <2>1. /\ chain' = Append(chain, b) /\ queue' = Append(queue, ev)
        /\ ev \in Events
    BY <1>1 DEF ConnectTip, Events
  <2>2. /\ Len(chain') = Len(chain) + 1 /\ Len(queue') = Len(queue) + 1
        /\ \A i \in 1..Len(chain) : chain'[i] = chain[i]
        /\ chain'[Len(chain) + 1] = b
        /\ \A j \in 1..Len(queue) : queue'[j] = queue[j]
        /\ queue'[Len(queue) + 1] = ev
    BY <2>1, AppendProperties DEF TypeOK
  <2> SUFFICES ASSUME NEW j \in 1..Len(queue') PROVE ConnectStands(j)'
    BY DEF ConnectsStand
  <2>3. CASE j = Len(queue) + 1
    BY <2>2, <2>3 DEF ConnectStands, TypeOK
  <2>4. CASE j \in 1..Len(queue) /\ queue[j].kind = "connect"
    <3>1. ConnectStands(j) /\ queue'[j] = queue[j]
      BY <2>2, <2>4 DEF ConnectsStand
    <3>2. CASE queue[j].height \in 1..Len(chain)
               /\ chain[queue[j].height] = queue[j].block
      <4>1. queue[j].height \in 1..Len(chain') /\ chain'[queue[j].height] = chain[queue[j].height]
        BY <3>2, <2>2 DEF TypeOK
      <4>. QED  BY <4>1, <3>1, <3>2 DEF ConnectStands
    <3>3. CASE \E k \in j+1..Len(queue) :
                 queue[k] = [kind |-> "disconnect", block |-> queue[j].block]
      <4>1. PICK k \in j+1..Len(queue) :
                 queue[k] = [kind |-> "disconnect", block |-> queue[j].block]
        BY <3>3
      <4>2. k \in j+1..Len(queue') /\ queue'[k] = queue[k]
        BY <4>1, <2>2, <2>4 DEF TypeOK
      <4>. QED  BY <4>1, <4>2, <3>1 DEF ConnectStands
    <3>. QED  BY <3>1, <3>2, <3>3, <2>4 DEF ConnectStands
  <2>5. CASE j \in 1..Len(queue) /\ queue[j].kind # "connect"
    BY <2>2, <2>5 DEF ConnectStands
  <2>. QED  BY <2>2, <2>3, <2>4, <2>5 DEF TypeOK
<1>2. ASSUME DisconnectTip PROVE ConnectsStand'
  <2> DEFINE ev == [kind |-> "disconnect", block |-> chain[Len(chain)]]
  <2>1. /\ chain' = SubSeq(chain, 1, Len(chain) - 1) /\ queue' = Append(queue, ev)
        /\ Len(chain) > 0 /\ ev \in Events
    BY <1>2 DEF DisconnectTip, Events, TypeOK
  <2>2. /\ Len(chain') = Len(chain) - 1 /\ Len(queue') = Len(queue) + 1
        /\ \A i \in 1..Len(chain) - 1 : chain'[i] = chain[i]
        /\ \A j \in 1..Len(queue) : queue'[j] = queue[j]
        /\ queue'[Len(queue) + 1] = ev
    <3>2. /\ Len(chain') = Len(chain) - 1
          /\ \A i \in 1..Len(chain) - 1 : chain'[i] = chain[i]
      BY <2>1, DropTip DEF TypeOK
    <3>3. /\ Len(queue') = Len(queue) + 1
          /\ \A j \in 1..Len(queue) : queue'[j] = queue[j]
          /\ queue'[Len(queue) + 1] = ev
      BY <2>1, AppendProperties DEF TypeOK
    <3>. QED  BY <2>1, <3>2, <3>3
  <2> SUFFICES ASSUME NEW j \in 1..Len(queue') PROVE ConnectStands(j)'
    BY DEF ConnectsStand
  <2>3. CASE j = Len(queue) + 1
    BY <2>2, <2>3 DEF ConnectStands
  <2>4. CASE j \in 1..Len(queue) /\ queue[j].kind = "connect"
    <3>1. ConnectStands(j)
      BY <2>4 DEF ConnectsStand
    <3>2. CASE queue[j].height = Len(chain) /\ chain[Len(chain)] = queue[j].block
      <4>1. Len(queue) + 1 \in j+1..Len(queue')
        BY <2>2, <2>4 DEF TypeOK
      <4>. QED  BY <4>1, <3>2, <2>2, <2>4 DEF ConnectStands
    <3>3. CASE /\ queue[j].height \in 1..Len(chain)
               /\ chain[queue[j].height] = queue[j].block
               /\ ~(queue[j].height = Len(chain))
      <4>1. queue[j].height \in 1..Len(chain') /\ chain'[queue[j].height] = chain[queue[j].height]
        BY <3>3, <2>2 DEF TypeOK
      <4>. QED  BY <4>1, <3>3, <2>2, <2>4 DEF ConnectStands
    <3>4. CASE \E k \in j+1..Len(queue) :
                 queue[k] = [kind |-> "disconnect", block |-> queue[j].block]
      <4>1. PICK k \in j+1..Len(queue) :
                 queue[k] = [kind |-> "disconnect", block |-> queue[j].block]
        BY <3>4
      <4>2. k \in j+1..Len(queue') /\ queue'[k] = queue[k]
        BY <4>1, <2>2, <2>4 DEF TypeOK
      <4>. QED  BY <4>1, <4>2, <2>2, <2>4 DEF ConnectStands
    <3>. QED  BY <3>1, <3>2, <3>3, <3>4, <2>4 DEF ConnectStands
  <2>5. CASE j \in 1..Len(queue) /\ queue[j].kind # "connect"
    BY <2>2, <2>5 DEF ConnectStands
  <2>. QED  BY <2>2, <2>3, <2>4, <2>5 DEF TypeOK
<1>3. ASSUME BlockConnected \/ BlockDisconnected PROVE ConnectsStand'
  <2>1. queue # << >> /\ queue' = Tail(queue) /\ chain' = chain
    BY <1>3 DEF BlockConnected, BlockDisconnected
  <2>2. /\ Len(queue') = Len(queue) - 1
        /\ \A k \in 2..Len(queue) : k - 1 \in 1..Len(queue') /\ queue'[k - 1] = queue[k]
        /\ \A j \in 1..Len(queue') : j + 1 \in 2..Len(queue) /\ queue'[j] = queue[j + 1]
    BY <2>1, TailShift DEF TypeOK
  <2> SUFFICES ASSUME NEW j \in 1..Len(queue') PROVE ConnectStands(j)'
    BY DEF ConnectsStand
  <2>3. ConnectStands(j + 1)
    BY <2>2 DEF ConnectsStand
  <2>4. ASSUME NEW k \in (j+1)+1..Len(queue),
               queue[k] = [kind |-> "disconnect", block |-> queue[j + 1].block]
        PROVE  \E k2 \in j+1..Len(queue') :
                 queue'[k2] = [kind |-> "disconnect", block |-> queue'[j].block]
    <3>1. k - 1 \in j+1..Len(queue') /\ queue'[k - 1] = queue[k]
      BY <2>2, <2>4 DEF TypeOK
    <3>. QED  BY <3>1, <2>2, <2>4
  <2>. QED  BY <2>1, <2>2, <2>3, <2>4 DEF ConnectStands
<1>. QED
  BY <1>1, <1>2, <1>3 DEF Next, MempoolAdd, MempoolRemove, vars,
                          ConnectsStand, ConnectStands


(* The proposal p stands by a disconnect event at position k of the queue. *)
DisconnectFor(p, k) ==
  queue[k].kind = "disconnect" /\ p \in DataFromBlockProposals(queue[k].block, 0)

LEMMA NextPropsStand == PInv /\ [Next]_vars => PropsStand'
<1> SUFFICES ASSUME PInv, [Next]_vars PROVE PropsStand'
  OBVIOUS
<1> USE ConstantsAssumption
<1>0. TypeOK /\ PropsValid /\ PropsStand /\ ConnectsStand
  BY DEF PInv
<1>1. ASSUME NEW b \in Blocks, ConnectTip(b) PROVE PropsStand'
  <2>1. /\ chain' = Append(chain, b) /\ proposals' = proposals
        /\ queue' = Append(queue, [kind |-> "connect", block |-> b,
                                   height |-> Len(chain) + 1])
    BY <1>1 DEF ConnectTip
  <2>2. /\ Len(chain') = Len(chain) + 1 /\ Len(queue') = Len(queue) + 1
        /\ \A i \in 1..Len(chain) : chain'[i] = chain[i]
        /\ \A j \in 1..Len(queue) : queue'[j] = queue[j]
    BY <2>1, AppendProperties, <1>0 DEF TypeOK
  <2> SUFFICES ASSUME NEW p \in DOMAIN proposals PROVE PropStands(p)'
    BY <2>1 DEF PropsStand
  <2>3. CASE proposals[p] \in 1..Len(chain)
             /\ [kind |-> "proposal", p |-> p] \in Objs(chain[proposals[p]])
    <3>1. proposals[p] \in 1..Len(chain') /\ chain'[proposals[p]] = chain[proposals[p]]
      BY <2>2, <2>3, <1>0 DEF TypeOK
    <3>. QED  BY <3>1, <2>1, <2>3 DEF PropStands
  <2>4. CASE \E k \in 1..Len(queue) : DisconnectFor(p, k)
    <3>1. PICK k \in 1..Len(queue) : DisconnectFor(p, k)
      BY <2>4
    <3>2. k \in 1..Len(queue') /\ queue'[k] = queue[k]
      BY <3>1, <2>2, <1>0 DEF TypeOK
    <3>. QED  BY <3>1, <3>2, <2>1 DEF PropStands, DisconnectFor
  <2>. QED  BY <2>3, <2>4, <1>0 DEF PropsStand, PropStands, DisconnectFor
<1>2. ASSUME DisconnectTip PROVE PropsStand'
  <2> DEFINE ev == [kind |-> "disconnect", block |-> chain[Len(chain)]]
  <2>1. /\ chain' = SubSeq(chain, 1, Len(chain) - 1) /\ Len(chain) > 0
        /\ queue' = Append(queue, ev) /\ proposals' = proposals
    BY <1>2 DEF DisconnectTip
  <2>2. /\ Len(chain') = Len(chain) - 1
        /\ \A i \in 1..Len(chain) - 1 : chain'[i] = chain[i]
        /\ Len(queue') = Len(queue) + 1
        /\ \A j \in 1..Len(queue) : queue'[j] = queue[j]
        /\ queue'[Len(queue) + 1] = ev
    BY <2>1, <1>0, DropTip, AppendProperties DEF TypeOK
  <2> SUFFICES ASSUME NEW p \in DOMAIN proposals PROVE PropStands(p)'
    BY <2>1 DEF PropsStand
  <2>3. CASE proposals[p] \in 1..Len(chain) - 1
             /\ [kind |-> "proposal", p |-> p] \in Objs(chain[proposals[p]])
    <3>1. proposals[p] \in 1..Len(chain') /\ chain'[proposals[p]] = chain[proposals[p]]
      BY <2>2, <2>3
    <3>. QED  BY <3>1, <2>1, <2>3 DEF PropStands
  <2>4. CASE proposals[p] = Len(chain)
             /\ [kind |-> "proposal", p |-> p] \in Objs(chain[proposals[p]])
    <3>1. p \in Proposals /\ ProposalIsValid(p)
      BY <1>0 DEF TypeOK, PropsValid
    <3>2. p \in DataFromBlockProposals(chain[Len(chain)], 0)
      BY <3>1, <2>4, ProposalObjExtracted
    <3>3. Len(queue) + 1 \in 1..Len(queue')
      BY <2>2, <1>0 DEF TypeOK
    <3>. QED  BY <3>2, <3>3, <2>1, <2>2 DEF PropStands
  <2>5. CASE \E k \in 1..Len(queue) : DisconnectFor(p, k)
    <3>1. PICK k \in 1..Len(queue) : DisconnectFor(p, k)
      BY <2>5
    <3>2. k \in 1..Len(queue') /\ queue'[k] = queue[k]
      BY <3>1, <2>2, <1>0 DEF TypeOK
    <3>. QED  BY <3>1, <3>2, <2>1 DEF PropStands, DisconnectFor
  <2>6. PropStands(p)
    BY <1>0 DEF PropsStand
  <2>. QED  BY <2>3, <2>4, <2>5, <2>6, <1>0 DEF PropStands, DisconnectFor, TypeOK
<1>3. ASSUME NEW u \in Utxos, MempoolAdd(u) \/ MempoolRemove(u)
      PROVE PropsStand'
  BY <1>3, <1>0 DEF MempoolAdd, MempoolRemove, PropsStand, PropStands
<1>4. ASSUME BlockConnected PROVE PropsStand'
  <2> DEFINE e == Head(queue)
             b == e.block
             h == e.height
             ps == DataFromBlockProposals(b, h)
  <2>1. /\ queue # << >> /\ e.kind = "connect" /\ e = queue[1]
        /\ queue' = Tail(queue) /\ chain' = chain
        /\ proposals' = InsertProposals(proposals, ps, h)
    BY <1>4 DEF BlockConnected, ConnectStore, ConnectData
  <2>2. /\ Len(queue') = Len(queue) - 1
        /\ \A k \in 2..Len(queue) : k - 1 \in 1..Len(queue') /\ queue'[k - 1] = queue[k]
    BY <2>1, <1>0, TailShift DEF TypeOK
  <2> SUFFICES ASSUME NEW p \in DOMAIN proposals' PROVE PropStands(p)'
    BY DEF PropsStand
  (* A proposal the handler inserts: the connect event at the head stands. *)
  <2>3. CASE p \in ps
    <3>1. proposals'[p] = h
      BY <2>1, <2>3 DEF InsertProposals
    <3>2. [kind |-> "proposal", p |-> p] \in Objs(b) /\ p \in DataFromBlockProposals(b, 0)
      BY <2>3, ProposalExtractedObj
    <3>3. ConnectStands(1) /\ 1 \in 1..Len(queue)
      BY <2>1, <1>0 DEF ConnectsStand, TypeOK
    <3>4. CASE h \in 1..Len(chain) /\ chain[h] = b
      BY <3>1, <3>2, <3>4, <2>1 DEF PropStands
    <3>5. CASE \E k \in 1+1..Len(queue) :
                 queue[k] = [kind |-> "disconnect", block |-> b]
      <4>1. PICK k \in 2..Len(queue) : queue[k] = [kind |-> "disconnect", block |-> b]
        BY <3>5
      <4>2. k - 1 \in 1..Len(queue') /\ queue'[k - 1] = queue[k]
        BY <4>1, <2>2
      <4>3. queue'[k - 1].kind = "disconnect" /\ queue'[k - 1].block = b
        BY <4>1, <4>2
      <4>4. \E k2 \in 1..Len(queue') :
              queue'[k2].kind = "disconnect"
              /\ p \in DataFromBlockProposals(queue'[k2].block, 0)
        BY <4>2, <4>3, <3>2
      <4>. QED  BY <4>4 DEF PropStands
    <3>. QED  BY <3>3, <3>4, <3>5, <2>1 DEF ConnectStands
  (* Any other proposal keeps its height, and the head is no disconnect.   *)
  <2>4. CASE p \notin ps
    <3>1. p \in DOMAIN proposals /\ proposals'[p] = proposals[p]
      BY <2>1, <2>4 DEF InsertProposals
    <3>2. PropStands(p)
      BY <3>1, <1>0 DEF PropsStand
    <3>3. CASE \E k \in 1..Len(queue) : DisconnectFor(p, k)
      <4>1. PICK k \in 1..Len(queue) : DisconnectFor(p, k)
        BY <3>3
      <4>2. k \in 2..Len(queue)
        BY <4>1, <2>1 DEF DisconnectFor
      <4>3. k - 1 \in 1..Len(queue') /\ queue'[k - 1] = queue[k]
        BY <4>2, <2>2
      <4>. QED  BY <4>1, <4>3 DEF PropStands, DisconnectFor
    <3>. QED  BY <3>1, <3>2, <3>3, <2>1 DEF PropStands, DisconnectFor
  <2>. QED  BY <2>3, <2>4
<1>5. ASSUME BlockDisconnected PROVE PropsStand'
  <2> DEFINE ps == DataFromBlockProposals(Head(queue).block, 0)
  <2>1. /\ queue # << >> /\ Head(queue).kind = "disconnect" /\ Head(queue) = queue[1]
        /\ queue' = Tail(queue) /\ chain' = chain
        /\ proposals' = [q \in DOMAIN proposals \ ps |-> proposals[q]]
    BY <1>5 DEF BlockDisconnected
  <2>2. /\ Len(queue') = Len(queue) - 1
        /\ \A k \in 2..Len(queue) : k - 1 \in 1..Len(queue') /\ queue'[k - 1] = queue[k]
    BY <2>1, <1>0, TailShift DEF TypeOK
  <2> SUFFICES ASSUME NEW p \in DOMAIN proposals' PROVE PropStands(p)'
    BY DEF PropsStand
  <2>3. p \in DOMAIN proposals /\ p \notin ps /\ proposals'[p] = proposals[p]
    BY <2>1
  <2>4. PropStands(p)
    BY <2>3, <1>0 DEF PropsStand
  (* The head's disconnect has erased every proposal it extracts. *)
  <2>5. CASE \E k \in 1..Len(queue) : DisconnectFor(p, k)
    <3>1. PICK k \in 1..Len(queue) : DisconnectFor(p, k)
      BY <2>5
    <3>2. k \in 2..Len(queue)
      BY <3>1, <2>1, <2>3 DEF DisconnectFor
    <3>3. k - 1 \in 1..Len(queue') /\ queue'[k - 1] = queue[k]
      BY <3>2, <2>2
    <3>. QED  BY <3>1, <3>3 DEF PropStands, DisconnectFor
  <2>. QED  BY <2>1, <2>3, <2>4, <2>5 DEF PropStands, DisconnectFor
<1>6. CASE UNCHANGED vars
  BY <1>6, <1>0 DEF vars, PropsStand, PropStands
<1>. QED  BY <1>1, <1>2, <1>3, <1>4, <1>5, <1>6 DEF Next


LEMMA PInvInductive == PInv /\ [Next]_vars => PInv'
BY NextTypeOK, NextPropsValid, NextConnectsStand, NextPropsStand DEF PInv

LEMMA PInvProposalsOnChain == PInv => ProposalsOnChain
<1> SUFFICES ASSUME PInv, queue = << >>, NEW p \in DOMAIN proposals
             PROVE  /\ proposals[p] \in 1..Len(chain)
                    /\ [kind |-> "proposal", p |-> p] \in Objs(chain[proposals[p]])
  BY DEF ProposalsOnChain
<1>1. Len(queue) = 0
  OBVIOUS
<1>. QED  BY <1>1 DEF PInv, PropsStand, PropStands

(* Reorg removal of proposals (spec 4.5, P7), for every value of the       *)
(* constants: once the listener has handled every pending event, each      *)
(* stored proposal is in the active chain's block at the height the store   *)
(* recorded for it.  BlockDisconnected erases by hash what dataFromBlock    *)
(* extracts without cutoffs (l. 1538-1550), and that covers every proposal  *)
(* BlockConnected inserted from the same block (l. 1497-1499), whatever     *)
(* tip changes happen while events are pending.                            *)
THEOREM ProposalsOnChainThm == Spec => []ProposalsOnChain
<1>1. Init => PInv
  BY InitPInv
<1>. QED  BY <1>1, PInvInductive, PInvProposalsOnChain, PTL DEF Spec


(* The listener's proposal invariant in every state, busy or idle: each    *)
(* stored proposal passed isValid and is on the chain at its height or     *)
(* extracted by a queued BlockDisconnected, and each queued BlockConnected *)
(* event still matches the chain or is followed by its block's disconnect. *)
THEOREM ProposalsStandThm == Spec => []PInv
BY InitPInv, PInvInductive, PTL DEF Spec

=============================================================================
