----------------------- MODULE GovSubmitVotesProofs -----------------------
(***************************************************************************)
(* Proofs about the vote transaction builder of GovSubmitVotes.tla, for    *)
(* every value of the constants that satisfies SubmitConstants: any        *)
(* wallet, any store, any list of proposals, any fee and batch size.       *)
(***************************************************************************)
EXTENDS GovSubmitVotes, FiniteSetTheorems, SequenceTheorems, TLAPS

-----------------------------------------------------------------------------
(* The sets the builder's state ranges over.                               *)

(* Coin ids: the outpoints the wallet starts with, and the change outputs  *)
(* <<transaction, address>> the call creates.                              *)
Ids == (Nat \X Nat) \cup (Nat \X Addrs)
Coin == [id : Ids, addr : Addrs, val : Int]
PropSet == {Props[k] : k \in 1..NP}
Pair == Ids \X PropSet
TxRec == [ins : SUBSET Ids, votes : SUBSET Pair,
          keys : SUBSET Addrs, voters : SUBSET Addrs]
PendRec == [ins : SUBSET Coin, votes : SUBSET Pair,
            voters : SUBSET Addrs, done : BOOLEAN]

(* The inductive strengthening of SubmitTypeOK.  The wallet stays finite,  *)
(* so the number of inputs of a transaction is a positive natural and the  *)
(* fee share PayFee \div n is an integer; CreateTransaction's check that   *)
(* every change output is positive is remembered until the commit, which   *)
(* is what keeps every coin of the wallet positive.                        *)
TypeInv ==
    /\ wallet \subseteq Coin
    /\ IsFiniteSet(wallet)
    /\ \A c \in wallet : c.val > 0
    /\ used \subseteq Pair
    /\ txs \in Seq(TxRec)
    /\ pend \in PendRec
    /\ pc \in {"start", "pass", "create", "commit", "end", "done"}
    /\ result \in {"none", "ok", "error"}
    /\ pc \in {"create", "commit"} => pend.ins \subseteq wallet /\ pend.ins # {}
    /\ pc = "commit" =>
          \A c \in pend.ins : Change(c, Cardinality(pend.ins), Len(txs) + 1).val > 0

-----------------------------------------------------------------------------
(* Lemmas about the operators of the model.                                *)

(* std::sort yields the wallet's coins: every position of an order holds  *)
(* a coin of the wallet.                                                   *)
LEMMA OrderCoins ==
  ASSUME NEW cs, NEW ord \in SortedOrders(cs)
  PROVE  \A i \in DOMAIN ord : ord[i] \in cs
BY DEF SortedOrders

(* The inputs chosen by a pass are coins of the wallet.                    *)
LEMMA InputsInWallet ==
  ASSUME NEW cs, NEW ord \in SortedOrders(cs)
  PROVE  InputsOf(ord) \subseteq cs
BY OrderCoins DEF InputsOf

(* Every vote a pass makes names a coin of the order and a proposal.      *)
LEMMA TakenPairs ==
  ASSUME NEW cs, NEW ord \in SortedOrders(cs), NEW x \in Taken(ord)
  PROVE  /\ x[1] \in DOMAIN ord
         /\ x[2] \in 1..NP
         /\ PairAt(ord, x) = <<ord[x[1]].id, Props[x[2]]>>
         /\ PairAt(ord, x) \notin used /\ PairAt(ord, x) \notin voted
BY DEF Taken, Slots, VoteIdx, Eligible, PairAt

(* The change outputs of a committed transaction with n >= 1 inputs are    *)
(* coins, and there are finitely many of them.                             *)
LEMMA ChangeCoins ==
  ASSUME NEW ins \in SUBSET Coin, IsFiniteSet(ins),
         NEW n \in Nat \ {0}, NEW t \in Nat
  PROVE  LET ch == {Change(c, n, t) : c \in ins}
         IN  /\ ch \subseteq Coin
             /\ IsFiniteSet(ch)
<1> DEFINE ch == {Change(c, n, t) : c \in ins}
           f == [c \in ins |-> Change(c, n, t)]
<1>1. PayFee \in Nat
  BY SubmitConstants
<1>2. ch \subseteq Coin
  BY <1>1 DEF Change, Coin, Ids
<1>3. f \in Surjection(ins, ch)
  BY DEF Surjection
<1>4. IsFiniteSet(ch)
  BY <1>3, FS_Surjection
<1> QED
  BY <1>2, <1>4

(* A non-empty finite set has a positive number of elements.              *)
LEMMA PositiveCard ==
  ASSUME NEW S, IsFiniteSet(S), S # {}
  PROVE  Cardinality(S) \in Nat \ {0}
BY FS_EmptySet, FS_CardinalityType

-----------------------------------------------------------------------------
(* Type correctness.                                                       *)

LEMMA InitTypeInv == Init => TypeInv
<1> SUFFICES ASSUME Init PROVE TypeInv
  OBVIOUS
<1>1. wallet \subseteq Coin /\ \A c \in wallet : c.val > 0
  BY SubmitConstants DEF Init, Coin, Ids
<1>2. IsFiniteSet(wallet)
  BY SubmitConstants, FS_Subset DEF Init
<1>3. pend \in PendRec
  BY DEF Init, PendRec
<1> QED
  BY <1>1, <1>2, <1>3 DEF Init, TypeInv, Pair

LEMMA NextTypeInv == TypeInv /\ [Next]_vars => TypeInv'
<1> SUFFICES ASSUME TypeInv, [Next]_vars PROVE TypeInv'
  OBVIOUS
<1>1. CASE StartReject
  BY <1>1 DEF StartReject, TypeInv
<1>2. CASE StartOk
  BY <1>2 DEF StartOk, TypeInv
<1>3. CASE PassBreak
  BY <1>3 DEF PassBreak, TypeInv
<1>4. CASE PassBuild
  <2>1. PICK ord \in SortedOrders(wallet) :
            LET pairs == {PairAt(ord, x) : x \in Taken(ord)}
            IN /\ VoteIdx(ord) # {}
               /\ InputsOf(ord) # {}
               /\ pairs # {}
               /\ pend' = [ins |-> InputsOf(ord), votes |-> pairs,
                           voters |-> {ord[x[1]].addr : x \in Taken(ord)},
                           done |-> LastPairTaken(ord)]
               /\ used' = used \cup pairs
    BY <1>4 DEF PassBuild
  <2>2. \A i \in DOMAIN ord : ord[i] \in Coin
    BY OrderCoins DEF TypeInv
  <2>3. InputsOf(ord) \subseteq wallet
    BY InputsInWallet
  <2>4. {PairAt(ord, x) : x \in Taken(ord)} \subseteq Pair
    BY <2>2, TakenPairs DEF Pair, PropSet, Coin
  <2>5. {ord[x[1]].addr : x \in Taken(ord)} \subseteq Addrs
    BY <2>2, TakenPairs DEF Coin
  <2>6. LastPairTaken(ord) \in BOOLEAN
    BY DEF LastPairTaken
  <2>7. InputsOf(ord) \in SUBSET Coin
    BY <2>3 DEF TypeInv
  <2>8. pend' \in PendRec
    BY <2>1, <2>4, <2>5, <2>6, <2>7 DEF PendRec
  <2> QED
    BY <1>4, <2>1, <2>3, <2>4, <2>8 DEF PassBuild, TypeInv
<1>5. CASE CreateOk
  BY <1>5 DEF CreateOk, TypeInv
<1>6. CASE CreateFail
  BY <1>6 DEF CreateFail, TypeInv
<1>7. CASE CommitOk
  <2> DEFINE n == Cardinality(pend.ins)
             t == Len(txs) + 1
             ch == {Change(c, n, t) : c \in pend.ins}
  <2>1. pc = "commit" /\ pend.ins \subseteq wallet /\ pend.ins # {}
    BY <1>7 DEF CommitOk, TypeInv
  <2>2. IsFiniteSet(pend.ins)
    BY <2>1, FS_Subset DEF TypeInv
  <2>3. n \in Nat \ {0}
    BY <2>1, <2>2, PositiveCard
  <2>4. t \in Nat
    BY DEF TypeInv
  <2>5. pend.ins \subseteq Coin
    BY <2>1 DEF TypeInv
  <2>6. ch \subseteq Coin /\ IsFiniteSet(ch)
    BY <2>2, <2>3, <2>4, <2>5, ChangeCoins
  <2>7. \A c \in ch : c.val > 0
    BY <2>1 DEF TypeInv
  <2>8. wallet' = (wallet \ pend.ins) \cup ch
    BY <1>7 DEF CommitOk
  <2>9. IsFiniteSet(wallet')
    BY <2>6, <2>8, FS_Difference, FS_Union DEF TypeInv
  <2>10. [ins |-> {c.id : c \in pend.ins}, votes |-> pend.votes,
          keys |-> {c.addr : c \in pend.ins}, voters |-> pend.voters] \in TxRec
    BY <2>5 DEF TypeInv, PendRec, TxRec, Coin
  <2>11. txs' \in Seq(TxRec)
    BY <1>7, <2>10 DEF CommitOk, TypeInv
  <2>12. pc' \in {"end", "pass"}
    BY <1>7 DEF CommitOk
  <2> QED
    BY <1>7, <2>6, <2>7, <2>8, <2>9, <2>11, <2>12 DEF CommitOk, TypeInv
<1>8. CASE CommitFail
  BY <1>8 DEF CommitFail, TypeInv
<1>9. CASE Finish
  BY <1>9 DEF Finish, TypeInv
<1>10. CASE UNCHANGED vars
  BY <1>10 DEF vars, TypeInv
<1> QED
  BY <1>1, <1>2, <1>3, <1>4, <1>5, <1>6, <1>7, <1>8, <1>9, <1>10 DEF Next

(* Type correctness of submitVotes: every coin of the wallet, the change   *)
(* outputs CommitTransaction adds included, belongs to a wallet address    *)
(* and has a positive value, and the transaction being built spends coins  *)
(* the wallet still holds.  The positivity rests on CreateTransaction's    *)
(* check of the change outputs of l. 1281-1285 (l. 1295).                 *)
THEOREM SubmitTypeCorrect == Spec => []SubmitTypeOK
<1>1. TypeInv => SubmitTypeOK
  BY DEF TypeInv, SubmitTypeOK, Coin, Pair, PropSet
<1> QED
  BY <1>1, InitTypeInv, NextTypeInv, PTL DEF Spec


-----------------------------------------------------------------------------
(* No double vote.                                                         *)

(* The inductive strengthening of NoDoubleVote.  usedUtxos holds every     *)
(* vote committed in the call and every vote of the transaction being      *)
(* built, and none the store holds; the votes being built are new to the   *)
(* call's committed transactions, and those are pairwise disjoint.         *)
VoteInv ==
    /\ TypeInv
    /\ \A i \in 1..Len(txs) : txs[i].votes \subseteq used
    /\ used \cap voted = {}
    /\ pc \in {"create", "commit"} =>
          /\ pend.votes \subseteq used
          /\ \A i \in 1..Len(txs) : pend.votes \cap txs[i].votes = {}
    /\ \A i, j \in 1..Len(txs) : i # j => txs[i].votes \cap txs[j].votes = {}

LEMMA InitVoteInv == Init => VoteInv
BY InitTypeInv DEF Init, VoteInv

LEMMA NextVoteInv == VoteInv /\ [Next]_vars => VoteInv'
<1> SUFFICES ASSUME VoteInv, [Next]_vars PROVE VoteInv'
  OBVIOUS
<1>1. TypeInv'
  BY NextTypeInv DEF VoteInv
<1>2. CASE PassBuild
  <2>1. PICK ord \in SortedOrders(wallet) :
            LET pairs == {PairAt(ord, x) : x \in Taken(ord)}
            IN /\ pend'.votes = pairs
               /\ used' = used \cup pairs
    BY <1>2 DEF PassBuild
  <2> DEFINE pairs == {PairAt(ord, x) : x \in Taken(ord)}
  <2>2. pairs \cap used = {} /\ pairs \cap voted = {}
    BY TakenPairs
  <2>3. UNCHANGED <<txs, voted>> /\ pc' = "create"
    BY <1>2 DEF PassBuild
  <2> QED
    BY <1>1, <2>1, <2>2, <2>3 DEF VoteInv
<1>3. CASE CommitOk
  <2> DEFINE rec == [ins |-> {c.id : c \in pend.ins}, votes |-> pend.votes,
                     keys |-> {c.addr : c \in pend.ins}, voters |-> pend.voters]
  <2>1. txs' = Append(txs, rec) /\ pc = "commit" /\ pc' \in {"end", "pass"}
        /\ UNCHANGED <<used, voted, pend>>
    BY <1>3 DEF CommitOk
  <2>2. /\ Len(txs') = Len(txs) + 1
        /\ \A i \in 1..Len(txs) : txs'[i] = txs[i]
        /\ txs'[Len(txs) + 1].votes = pend.votes
    <3>1. txs \in Seq(TxRec) /\ rec \in TxRec
      BY DEF VoteInv, TypeInv, TxRec, PendRec, Coin
    <3> QED
      BY <2>1, <3>1, AppendProperties
  <2>3. Len(txs) \in Nat
    BY DEF VoteInv, TypeInv
  <2>4. \A i \in 1..Len(txs') : i \in 1..Len(txs) \/ i = Len(txs) + 1
    BY <2>2, <2>3
  <2>5. (\A i \in 1..Len(txs') : txs'[i].votes \subseteq used')
        /\ (\A i, j \in 1..Len(txs') : i # j => txs'[i].votes \cap txs'[j].votes = {})
    BY <2>1, <2>2, <2>4 DEF VoteInv
  <2> QED
    BY <1>1, <2>1, <2>5 DEF VoteInv
<1>4. CASE StartReject \/ StartOk \/ PassBreak \/ CreateOk \/ CreateFail
                \/ CommitFail \/ Finish \/ UNCHANGED vars
  <2>1. UNCHANGED <<txs, used, voted, pend>>
        /\ (pc' \in {"create", "commit"} => pc \in {"create", "commit"})
    BY <1>4 DEF StartReject, StartOk, PassBreak, CreateOk, CreateFail,
                CommitFail, Finish, vars
  <2> QED
    BY <1>1, <2>1 DEF VoteInv
<1> QED
  BY <1>2, <1>3, <1>4 DEF Next

(* usedUtxos and hasVote (l. 1219-1225) keep submitVotes from casting any  *)
(* (utxo, proposal) vote twice, in two of its transactions or again after  *)
(* the store, whatever the wallet, the store and the number of passes.     *)
THEOREM SubmitNoDoubleVote == Spec => []NoDoubleVote
<1>1. VoteInv => NoDoubleVote
  BY DEF VoteInv, NoDoubleVote
<1> QED
  BY <1>1, InitVoteInv, NextVoteInv, PTL DEF Spec


-----------------------------------------------------------------------------
(* Vin binding.                                                            *)

(* Every non-empty set of naturals has a least element.                    *)
LEMMA NatMin ==
  ASSUME NEW T \in SUBSET Nat, T # {}
  PROVE  \E m \in T : \A k \in T : m <= k
<1>1. \E x \in T : \A y \in T : ~(<<y, x>> \in OpToRel(<, Nat))
  BY NatLessThanWellFounded, WFMin
<1>2. \E x \in T : \A y \in T : ~(y < x)
  BY <1>1, Zenon DEF OpToRel
<1> QED
  BY <1>2

(* The positions of an order of a finite set of coins.                     *)
LEMMA OrderDomain ==
  ASSUME NEW cs, IsFiniteSet(cs), NEW ord \in SortedOrders(cs)
  PROVE  DOMAIN ord = 1..Cardinality(cs) /\ Cardinality(cs) \in Nat
BY FS_CardinalityType DEF SortedOrders

(* When the input minimum is at most the voting minimum, the inputCoins    *)
(* loop (l. 1173-1185) picks an input coin of every address that has a     *)
(* voting coin: the first coin of that address of at least InputMin.       *)
LEMMA VoterHasInput ==
  ASSUME InputMin <= VoteMinUtxo,
         NEW cs \in SUBSET Coin, IsFiniteSet(cs), NEW ord \in SortedOrders(cs),
         NEW i \in VoteIdx(ord)
  PROVE  \E c \in InputsOf(ord) : c.addr = ord[i].addr
<1> DEFINE a == ord[i].addr
           J == {j \in DOMAIN ord : ord[j].addr = a /\ ord[j].val >= InputMin}
<1>1. DOMAIN ord = 1..Cardinality(cs) /\ Cardinality(cs) \in Nat
  BY OrderDomain
<1>2. \A j \in DOMAIN ord : ord[j] \in Coin
  BY OrderCoins
<1>3. InputMin \in Nat /\ VoteMinUtxo \in Nat
  BY SubmitConstants
<1>4. i \in J
  BY <1>2, <1>3 DEF VoteIdx, Coin
<1>5. PICK m \in J : \A k \in J : m <= k
  <2>1. J \in SUBSET Nat /\ J # {}
    BY <1>1, <1>4
  <2> QED
    BY <2>1, NatMin
<1>6. IsInput(ord, m)
  <2>1. ord[m].val >= InputMin
    OBVIOUS
  <2>2. ASSUME NEW j \in 1..(m - 1), ord[j].addr = ord[m].addr
        PROVE  ord[j].val < InputMin
    <3>1. j \in DOMAIN ord
      BY <1>1
    <3>2. j \notin J
      BY <1>1, <1>5
    <3> QED
      BY <1>2, <1>3, <2>2, <3>1, <3>2 DEF Coin
  <2> QED
    BY <2>1, <2>2 DEF IsInput
<1> QED
  BY <1>6 DEF InputsOf

(* The strengthening of VotesBoundToInputs: the transaction being built    *)
(* also has an input of every address that votes in it.                    *)
BindInv ==
    /\ TypeInv
    /\ VotesBoundToInputs
    /\ pc \in {"create", "commit"} => pend.voters \subseteq {c.addr : c \in pend.ins}

LEMMA InitBindInv == Init => BindInv
BY InitTypeInv DEF Init, BindInv, VotesBoundToInputs

LEMMA NextBindInv ==
  ASSUME InputMin <= VoteMinUtxo
  PROVE  BindInv /\ [Next]_vars => BindInv'
<1> SUFFICES ASSUME BindInv, [Next]_vars PROVE BindInv'
  OBVIOUS
<1>1. TypeInv'
  BY NextTypeInv DEF BindInv
<1>2. CASE PassBuild
  <2>1. PICK ord \in SortedOrders(wallet) :
            /\ pend' = [ins |-> InputsOf(ord), votes |-> {PairAt(ord, x) : x \in Taken(ord)},
                        voters |-> {ord[x[1]].addr : x \in Taken(ord)},
                        done |-> LastPairTaken(ord)]
    BY <1>2 DEF PassBuild
  <2>2. \A x \in Taken(ord) : x[1] \in VoteIdx(ord)
    BY DEF Taken, Slots
  <2>3. \A x \in Taken(ord) : \E c \in InputsOf(ord) : c.addr = ord[x[1]].addr
    BY <2>2, VoterHasInput DEF BindInv, TypeInv
  <2>4. pend'.voters \subseteq {c.addr : c \in pend'.ins}
    BY <2>1, <2>3
  <2>5. UNCHANGED txs
    BY <1>2 DEF PassBuild
  <2> QED
    BY <1>1, <2>4, <2>5 DEF BindInv, VotesBoundToInputs
<1>3. CASE CommitOk
  <2> DEFINE rec == [ins |-> {c.id : c \in pend.ins}, votes |-> pend.votes,
                     keys |-> {c.addr : c \in pend.ins}, voters |-> pend.voters]
  <2>1. txs' = Append(txs, rec) /\ pc = "commit" /\ pc' \in {"end", "pass"}
    BY <1>3 DEF CommitOk
  <2>2. txs \in Seq(TxRec) /\ rec \in TxRec
    BY DEF BindInv, TypeInv, TxRec, PendRec, Coin
  <2>3. /\ Len(txs') = Len(txs) + 1
        /\ \A i \in 1..Len(txs) : txs'[i] = txs[i]
        /\ txs'[Len(txs) + 1] = rec
    BY <2>1, <2>2, AppendProperties
  <2>4. rec.voters \subseteq rec.keys
    BY <2>1 DEF BindInv
  <2>5. \A i \in 1..Len(txs') : i \in 1..Len(txs) \/ i = Len(txs) + 1
    BY <2>2, <2>3
  <2> QED
    BY <1>1, <2>1, <2>3, <2>4, <2>5 DEF BindInv, VotesBoundToInputs
<1>4. CASE StartReject \/ StartOk \/ PassBreak \/ CreateOk \/ CreateFail
                \/ CommitFail \/ Finish \/ UNCHANGED vars
  <2>1. UNCHANGED <<txs, pend>>
        /\ (pc' \in {"create", "commit"} => pc \in {"create", "commit"})
    BY <1>4 DEF StartReject, StartOk, PassBreak, CreateOk, CreateFail,
                CommitFail, Finish, vars
  <2> QED
    BY <1>1, <2>1 DEF BindInv, VotesBoundToInputs
<1> QED
  BY <1>2, <1>3, <1>4 DEF Next

(* Spec 3 (vin binding) as submitVotes meets it: whenever the input        *)
(* minimum (0.6 * -voteinputamount) is at most voteMinUtxoAmount, every     *)
(* address that votes in a transaction of the call signs one of its inputs *)
(* (the inputCoins loop, l. 1173-1185).  The submit_vin_binding run shows  *)
(* the votes unbound when the input minimum is larger.                     *)
THEOREM SubmitVotesBound ==
  ASSUME InputMin <= VoteMinUtxo
  PROVE  Spec => []VotesBoundToInputs
<1>1. BindInv => VotesBoundToInputs
  BY DEF BindInv
<1> QED
  BY <1>1, InitBindInv, NextBindInv, PTL DEF Spec


-----------------------------------------------------------------------------
(* The batch bound.                                                        *)

(* The iterations of one pass are finitely many pairs of naturals.         *)
LEMMA SlotsFinite ==
  ASSUME NEW cs, IsFiniteSet(cs), NEW ord \in SortedOrders(cs)
  PROVE  IsFiniteSet(Slots(ord)) /\ Slots(ord) \subseteq Nat \X Nat
<1>1. DOMAIN ord = 1..Cardinality(cs) /\ Cardinality(cs) \in Nat
  BY OrderDomain
<1>2. IsFiniteSet(VoteIdx(ord)) /\ VoteIdx(ord) \subseteq Nat
  <2>1. IsFiniteSet(1..Cardinality(cs))
    BY <1>1, FS_Interval
  <2>2. VoteIdx(ord) \in SUBSET (1..Cardinality(cs))
    BY <1>1 DEF VoteIdx
  <2>3. IsFiniteSet(VoteIdx(ord))
    BY <2>1, <2>2, FS_Subset
  <2> QED
    BY <1>1, <2>2, <2>3
<1>3. IsFiniteSet(1..NP) /\ NP \in Nat
  BY SubmitConstants, FS_Interval DEF NP
<1>4. IsFiniteSet(VoteIdx(ord) \X (1..NP))
  BY <1>2, <1>3, FS_Product
<1>5. VoteIdx(ord) \X (1..NP) \subseteq Nat \X Nat
  BY <1>2, <1>3
<1> QED
  BY <1>4, <1>5 DEF Slots

(* The nested loops seal the batch once MaxOpReturn votes are queued: an   *)
(* eligible iteration votes only when fewer than MaxOpReturn eligible ones *)
(* ran before it, and two voting iterations have different such counts,    *)
(* so a pass makes at most MaxOpReturn votes (l. 1249-1262).               *)
LEMMA TakenBound ==
  ASSUME NEW cs, IsFiniteSet(cs), NEW ord \in SortedOrders(cs)
  PROVE  IsFiniteSet(Taken(ord)) /\ Cardinality(Taken(ord)) <= MaxOpReturn
<1> DEFINE el == {x \in Slots(ord) : Eligible(ord, x)}
           L(x) == {y \in el : Before(y, x)}
           T == Taken(ord)
           rk == [x \in T |-> Cardinality(L(x))]
<1>1. IsFiniteSet(el) /\ el \subseteq Nat \X Nat
  BY SlotsFinite, FS_Subset
<1>2. \A x \in el : IsFiniteSet(L(x)) /\ Cardinality(L(x)) \in Nat
  BY <1>1, FS_Subset, FS_CardinalityType
<1>3. T = {x \in el : Cardinality(L(x)) < MaxOpReturn}
  BY DEF Taken
<1>4. MaxOpReturn \in Nat \ {0}
  BY SubmitConstants
<1>5. rk \in [T -> 0..(MaxOpReturn - 1)]
  BY <1>2, <1>3, <1>4
<1>6. ASSUME NEW u \in el, NEW v \in el, Before(u, v)
      PROVE  Cardinality(L(u)) < Cardinality(L(v))
  <2>1. L(u) \subseteq L(v)
    BY <1>1, <1>6 DEF Before
  <2>2. u \in L(v) /\ u \notin L(u)
    BY <1>1, <1>6 DEF Before
  <2>3. Cardinality(L(u)) <= Cardinality(L(v)) /\ L(u) # L(v)
    BY <1>2, <2>1, <2>2, FS_Subset
  <2>4. Cardinality(L(u)) # Cardinality(L(v))
    BY <1>2, <2>1, <2>3, FS_Subset
  <2> QED
    BY <1>2, <2>3, <2>4
<1>7. ASSUME NEW x \in T, NEW y \in T, x # y
      PROVE  rk[x] # rk[y]
  <2>1. x \in el /\ y \in el
    BY <1>3
  <2>2. Before(x, y) \/ Before(y, x)
    BY <1>1, <1>7, <2>1 DEF Before
  <2>3. rk[x] = Cardinality(L(x)) /\ rk[y] = Cardinality(L(y))
    OBVIOUS
  <2>4. CASE Before(x, y)
    <3>1. Cardinality(L(x)) < Cardinality(L(y))
      BY <1>6, <2>1, <2>4
    <3> QED
      BY <1>2, <2>1, <2>3, <3>1
  <2>5. CASE Before(y, x)
    <3>1. Cardinality(L(y)) < Cardinality(L(x))
      BY <1>6, <2>1, <2>5
    <3> QED
      BY <1>2, <2>1, <2>3, <3>1
  <2> QED
    BY <2>2, <2>4, <2>5
<1>8. rk \in Injection(T, 0..(MaxOpReturn - 1))
  <2>1. \A a, b \in T : rk[a] = rk[b] => a = b
    BY <1>7
  <2> QED
    BY <1>5, <2>1 DEF Injection, IsInjective
<1>9. IsFiniteSet(0..(MaxOpReturn - 1))
      /\ Cardinality(0..(MaxOpReturn - 1)) = MaxOpReturn
  BY <1>4, FS_Interval
<1> QED
  BY <1>8, <1>9, FS_Injection

(* The votes of one pass: at most MaxOpReturn of them.                     *)
LEMMA PairsBound ==
  ASSUME NEW cs, IsFiniteSet(cs), NEW ord \in SortedOrders(cs)
  PROVE  LET pairs == {PairAt(ord, x) : x \in Taken(ord)}
         IN  IsFiniteSet(pairs) /\ Cardinality(pairs) <= MaxOpReturn
<1> DEFINE pairs == {PairAt(ord, x) : x \in Taken(ord)}
           g == [x \in Taken(ord) |-> PairAt(ord, x)]
<1>1. IsFiniteSet(Taken(ord)) /\ Cardinality(Taken(ord)) <= MaxOpReturn
  BY TakenBound
<1>2. g \in Surjection(Taken(ord), pairs)
  BY DEF Surjection
<1>3. IsFiniteSet(pairs) /\ Cardinality(pairs) <= Cardinality(Taken(ord))
  BY <1>1, <1>2, FS_Surjection
<1>4. Cardinality(pairs) \in Nat /\ Cardinality(Taken(ord)) \in Nat
  BY <1>1, <1>3, FS_CardinalityType
<1> QED
  BY <1>1, <1>3, <1>4, SubmitConstants


-----------------------------------------------------------------------------
(* Refinement of GovVoteBatches.                                           *)

(* The images of the abstract variables under the refinement mapping.     *)
SentOf(t) == [i \in 1..Len(t) |-> t[i].votes]
SentSeq == SentOf(txs)
Status == IF result = "none" THEN "busy" ELSE result

(* The invariant the refinement rests on: the call's result is unset while *)
(* it runs, "ok" only after a commit, and the transaction being built has  *)
(* 1 to MaxOpReturn votes, besides the disjointness facts of VoteInv.      *)
RefInv ==
    /\ VoteInv
    /\ pc \in {"start", "pass", "create", "commit", "end"} => result = "none"
    /\ result = "ok" => txs # << >>
    /\ pc \in {"create", "commit"} => Cardinality(pend.votes) \in 1..MaxOpReturn

LEMMA InitRefInv == Init => RefInv
BY InitVoteInv DEF Init, RefInv

LEMMA NextRefInv == RefInv /\ [Next]_vars => RefInv'
<1> SUFFICES ASSUME RefInv, [Next]_vars PROVE RefInv'
  OBVIOUS
<1>1. VoteInv'
  BY NextVoteInv DEF RefInv
<1>2. CASE PassBuild
  <2>1. PICK ord \in SortedOrders(wallet) :
            LET pairs == {PairAt(ord, x) : x \in Taken(ord)}
            IN  /\ pairs # {}
                /\ pend'.votes = pairs
    BY <1>2 DEF PassBuild
  <2> DEFINE pairs == {PairAt(ord, x) : x \in Taken(ord)}
  <2>2. IsFiniteSet(pairs) /\ Cardinality(pairs) <= MaxOpReturn
    BY PairsBound DEF RefInv, VoteInv, TypeInv
  <2>3. Cardinality(pairs) \in Nat \ {0}
    BY <2>1, <2>2, PositiveCard
  <2>4. pc = "pass" /\ pc' = "create" /\ UNCHANGED <<txs, result>>
    BY <1>2 DEF PassBuild
  <2>5. Cardinality(pend'.votes) \in 1..MaxOpReturn
    BY <2>1, <2>2, <2>3
  <2> QED
    BY <1>1, <2>4, <2>5 DEF RefInv
<1>3. CASE CommitOk
  BY <1>1, <1>3 DEF CommitOk, RefInv
<1>4. CASE Finish
  BY <1>1, <1>4 DEF Finish, RefInv
<1>5. CASE StartReject \/ CreateFail \/ CommitFail
  BY <1>1, <1>5 DEF StartReject, CreateFail, CommitFail, RefInv
<1>6. CASE StartOk \/ PassBreak \/ CreateOk \/ UNCHANGED vars
  BY <1>1, <1>6 DEF StartOk, PassBreak, CreateOk, vars, RefInv
<1> QED
  BY <1>2, <1>3, <1>4, <1>5, <1>6 DEF Next

(* The sequence of batches is the sequence of committed vote sets.         *)
LEMMA SentSeqLen ==
  ASSUME NEW t \in Seq(TxRec)
  PROVE  /\ Len(SentOf(t)) = Len(t)
         /\ \A i \in 1..Len(t) : SentOf(t)[i] = t[i].votes
         /\ SentOf(t) = << >> <=> t = << >>
<1>1. Len(t) \in Nat
  BY LenProperties
<1>2. SentOf(t) \in [1..Len(t) -> SUBSET Pair]
  <2>1. \A i \in 1..Len(t) : t[i] \in TxRec
    BY ElementOfSeq
  <2> QED
    BY <2>1 DEF SentOf, TxRec
<1>3. SentOf(t) \in Seq(SUBSET Pair)
  BY <1>1, <1>2, SeqDef
<1>4. DOMAIN SentOf(t) = 1..Len(SentOf(t)) /\ Len(SentOf(t)) \in Nat
  BY <1>3, LenProperties
<1>5. Len(SentOf(t)) = Len(t)
  BY <1>1, <1>2, <1>4
<1>6. SentOf(t) = << >> <=> t = << >>
  BY <1>1, <1>5, <1>3, EmptySeq
<1> QED
  BY <1>5, <1>6 DEF SentOf

LEMMA InitRefines == Init => Batches!AInit
BY DEF Init, Batches!AInit

(* A commit sends a batch; a return sets the status; every other step of  *)
(* the builder leaves the abstract state alone.                            *)
LEMMA StepRefines ==
  RefInv /\ [Next]_vars => [Batches!ANext]_Batches!avars
<1> SUFFICES ASSUME RefInv, [Next]_vars PROVE [Batches!ANext]_Batches!avars
  OBVIOUS
<1>0. TypeInv /\ TypeInv'
  BY NextTypeInv DEF RefInv, VoteInv
<1>1. CASE CommitOk
  <2> DEFINE rec == [ins |-> {c.id : c \in pend.ins}, votes |-> pend.votes,
                     keys |-> {c.addr : c \in pend.ins}, voters |-> pend.voters]
  <2>1. txs' = Append(txs, rec) /\ pc = "commit" /\ pc' \in {"end", "pass"}
        /\ UNCHANGED <<voted, used, pend, result>>
    BY <1>1 DEF CommitOk
  <2>2. /\ Len(txs') = Len(txs) + 1
        /\ \A i \in 1..Len(txs) : txs'[i] = txs[i]
        /\ txs'[Len(txs) + 1] = rec
    <3>1. txs \in Seq(TxRec) /\ rec \in TxRec
      BY <1>0 DEF TypeInv, TxRec, PendRec, Coin
    <3> QED
      BY <2>1, <3>1, AppendProperties
  <2>3. /\ Len(SentSeq') = Len(SentSeq) + 1
        /\ \A i \in 1..Len(SentSeq) : SentSeq'[i] = SentSeq[i]
        /\ SentSeq'[Len(SentSeq')] = pend.votes
    <3>1. Len(txs) \in Nat
      BY <1>0 DEF TypeInv
    <3>2. (\A i \in 1..Len(txs) : SentSeq[i] = txs[i].votes)
          /\ (\A i \in 1..Len(txs') : SentSeq'[i] = txs'[i].votes)
          /\ Len(SentSeq) = Len(txs) /\ Len(SentSeq') = Len(txs')
      BY <1>0, SentSeqLen DEF TypeInv, SentSeq
    <3> QED
      BY <2>1, <2>2, <3>1, <3>2
  <2>4. Cardinality(pend.votes) \in 1..MaxOpReturn
    BY <2>1 DEF RefInv
  <2>5. pend.votes \cap ((UNION {SentSeq[i] : i \in 1..Len(SentSeq)}) \cup voted) = {}
    <3>1. Len(SentSeq) = Len(txs) /\ \A i \in 1..Len(txs) : SentSeq[i] = txs[i].votes
      BY <1>0, SentSeqLen DEF TypeInv, SentSeq
    <3>2. \A i \in 1..Len(txs) : pend.votes \cap txs[i].votes = {}
      BY <2>1 DEF RefInv, VoteInv
    <3>3. pend.votes \cap voted = {}
      BY <2>1 DEF RefInv, VoteInv
    <3>4. ASSUME NEW z \in pend.votes
          PROVE  z \notin UNION {SentSeq[i] : i \in 1..Len(SentSeq)} /\ z \notin voted
      BY <3>1, <3>2, <3>3
    <3> QED
      BY <3>4
  <2>6. Status = "busy" /\ UNCHANGED Status /\ UNCHANGED voted
    BY <2>1 DEF RefInv, Status
  <2>7. /\ SentSeq'[Len(SentSeq')] \cap ((UNION {SentSeq[i] : i \in 1..Len(SentSeq)}) \cup voted) = {}
        /\ Cardinality(SentSeq'[Len(SentSeq')]) \in 1..MaxOpReturn
    BY <2>3, <2>4, <2>5
  <2>8. Batches!SendBatch
    <3> DEFINE asent == [i \in 1..Len(txs) |-> txs[i].votes]
               astat == IF result = "none" THEN "busy" ELSE result
    <3>1. asent = SentSeq /\ asent' = SentSeq' /\ astat = Status /\ astat' = Status'
      BY DEF SentSeq, SentOf, Status
    <3>2. astat = "busy" /\ UNCHANGED <<voted, astat>>
      BY <2>6, <3>1
    <3>3. Len(asent') = Len(asent) + 1 /\ \A i \in 1..Len(asent) : asent'[i] = asent[i]
      BY <2>3, <3>1
    <3>4. LET S == asent'[Len(asent')]
          IN  /\ Cardinality(S) \in 1..MaxOpReturn
              /\ S \cap ((UNION {asent[i] : i \in 1..Len(asent)}) \cup voted) = {}
      BY <2>7, <3>1
    <3>5. \A S : Batches!Cardinality(S) = Cardinality(S)
      BY DEF Batches!Cardinality, Cardinality
    <3> QED
      BY <3>2, <3>3, <3>4, <3>5 DEF Batches!SendBatch, Batches!Sent
  <2> QED
    BY <2>8 DEF Batches!ANext
<1>2. CASE Finish \/ StartReject \/ CreateFail \/ CommitFail
  <2>1. UNCHANGED <<txs, voted>> /\ result = "none"
        /\ result' \in IF txs = << >> THEN {"error"} ELSE {"ok", "error"}
    BY <1>2 DEF Finish, StartReject, CreateFail, CommitFail, RefInv
  <2>2. UNCHANGED SentSeq /\ (SentSeq = << >> <=> txs = << >>)
    BY <1>0, <2>1, SentSeqLen DEF SentSeq, TypeInv
  <2>3. Status = "busy" /\ Status' = result'
    BY <2>1 DEF Status
  <2>4. Batches!Return
    BY <2>1, <2>2, <2>3 DEF Batches!Return
  <2> QED
    BY <2>4 DEF Batches!ANext
<1>3. CASE StartOk \/ PassBreak \/ PassBuild \/ CreateOk \/ UNCHANGED vars
  <2>1. UNCHANGED <<txs, voted, result>>
    BY <1>3 DEF StartOk, PassBreak, PassBuild, CreateOk, vars
  <2> QED
    BY <2>1 DEF Batches!avars, SentSeq, SentOf, Status
<1> QED
  BY <1>1, <1>2, <1>3 DEF Next

(* submitVotes keeps the promise GovVoteBatches states (spec 4.8): every   *)
(* committed transaction carries 1 to MAX_OP_RETURN_IN_TRANSACTION votes,  *)
(* none cast before in the call nor held by the store, and the call        *)
(* returns true only after committing one (the txCounter check,            *)
(* l. 1323-1326), for every wallet, store, proposal list and batch size.   *)
THEOREM SubmitRefinesBatches == Spec => ImplementsVoteBatches
<1>1. Spec => []RefInv
  BY InitRefInv, NextRefInv, PTL DEF Spec
<1> QED
  BY <1>1, InitRefines, StepRefines, PTL
     DEF Spec, ImplementsVoteBatches, Batches!ASpec

=============================================================================
