--------------------------- MODULE GovSubmitVotes ---------------------------
(***************************************************************************)
(* The vote builder, Governance::submitVotes (governance.h 1092-1330), for *)
(* one wallet.                                                              *)
(*                                                                         *)
(* Each pass of the do-while reads the wallet's available coins and sorts  *)
(* them by value.  std::sort leaves the order of equal values open, so any  *)
(* sorted order may be used.  The pass picks one input coin per address,    *)
(* the smallest at least InputMin (60% of -voteinputamount), and takes the  *)
(* other coins of at least VoteMinUtxo as voting coins.  It then walks      *)
(* (voting coin, proposal) pairs in order, skipping pairs already used in   *)
(* this call or already in the store (hasVote), and takes at most           *)
(* MaxOpReturn of them into one transaction.  Each input coin is paid back  *)
(* to its address less an equal share of the fee.  The transaction is      *)
(* created and committed; the committed change is a wallet coin in the      *)
(* next pass.  A failed create or commit returns an error at once.          *)
(*                                                                         *)
(* A coin is a record [id, addr, val]; a coin of the wallet as called has  *)
(* id <<0, n>>.  Signing and the per-vote isValid succeed for wallet coins *)
(* of enough value, so they are not modelled.                              *)
(***************************************************************************)
EXTENDS Integers, Sequences, FiniteSets

CONSTANTS
    Props,          \* the proposals argument, in order
    Addrs,          \* key ids of the wallet's coins
    InitialCoins,   \* coins the wallet may hold when called
    StoreVotes,     \* (coin id, proposal) pairs hasVote may report
    InputMin,       \* voteMinAmount * 0.6
    VoteMinUtxo,    \* params.voteMinUtxoAmount
    VoteBalance,    \* params.voteBalance
    PayFee,         \* GetMinimumFee for a vote transaction
    MaxOpReturn     \* MAX_OP_RETURN_IN_TRANSACTION

ASSUME SubmitConstants ==
    /\ Len(Props) \in Nat \ {0}
    /\ InitialCoins \subseteq [id : Nat \X Nat, addr : Addrs, val : Nat \ {0}]
    /\ IsFiniteSet(InitialCoins)
    /\ {InputMin, VoteMinUtxo, VoteBalance, PayFee} \subseteq Nat
    /\ MaxOpReturn \in Nat \ {0}

NP == Len(Props)

VARIABLES
    wallet,     \* the wallet's unspent coins
    voted,      \* pairs hasVote reports (the store during the call)
    used,       \* usedUtxos, as (coin id, proposal) pairs
    txs,        \* txsRet: committed transactions [ins, votes, keys, voters]
    pend,       \* the transaction being built: [ins, votes, voters, done]
    pc,         \* "start", "pass", "create", "commit", "end", "done"
    result      \* "none", "ok", "error"

vars == <<wallet, voted, used, txs, pend, pc, result>>

(* GetBalance of the wallet: the sum of its coins' values.                 *)
Balance(cs) ==
    LET sum[S \in SUBSET cs] ==
          IF S = {} THEN 0
          ELSE LET c == CHOOSE x \in S : TRUE IN c.val + sum[S \ {c}]
    IN  sum[cs]

(* std::sort of AvailableCoins by value: every order it may produce.       *)
SortedOrders(cs) ==
    LET n == Cardinality(cs)
    IN  {s \in [1..n -> cs] : /\ \A i, j \in 1..n : i # j => s[i] # s[j]
                               /\ \A k \in 1..(n - 1) : s[k].val <= s[k + 1].val}

(* inputCoins: the first coin of each address of value at least InputMin.  *)
(* Plausible bug: one input coin for the whole transaction.               *)
IsInputFirstAny(ord, i) ==
    /\ ord[i].val >= InputMin
    /\ \A j \in 1..(i - 1) : ord[j].val < InputMin

IsInput(ord, i) ==
    /\ ord[i].val >= InputMin
    /\ \A j \in 1..(i - 1) : ord[j].addr = ord[i].addr => ord[j].val < InputMin

InputsOf(ord) == {ord[i] : i \in {i \in DOMAIN ord : IsInput(ord, i)}}

(* filtered: the positions of the other coins of value at least            *)
(* voteMinUtxoAmount.                                                       *)
VoteIdx(ord) ==
    {i \in DOMAIN ord : ord[i] \notin InputsOf(ord) /\ ord[i].val >= VoteMinUtxo}

(* The iterations <<i, j>> of the nested loops over filtered and           *)
(* proposals, and the order they run in.                                   *)
Slots(ord) == VoteIdx(ord) \X (1..NP)

Before(x, y) == x[1] < y[1] \/ (x[1] = y[1] /\ x[2] < y[2])

(* The (outpoint, proposal) pair of iteration x.                           *)
PairAt(ord, x) == <<ord[x[1]].id, Props[x[2]]>>

(* Plausible bug: pairs already queued in this call are not skipped.       *)
EligibleUnused(ord, x) == PairAt(ord, x) \notin voted

(* The pair is neither in usedUtxos nor in the store (hasVote).           *)
Eligible(ord, x) == PairAt(ord, x) \notin used /\ PairAt(ord, x) \notin voted

(* Plausible bug: the batch is sealed one vote late.                      *)
TakenOneMore(ord) ==
    LET el == {x \in Slots(ord) : Eligible(ord, x)}
    IN  {x \in el : Cardinality({y \in el : Before(y, x)}) <= MaxOpReturn}

(* The iterations that make a vote: the eligible ones, up to MaxOpReturn   *)
(* of them.                                                                *)
Taken(ord) ==
    LET el == {x \in Slots(ord) : Eligible(ord, x)}
    IN  {x \in el : Cardinality({y \in el : Before(y, x)}) < MaxOpReturn}

(* completelyDone after the loops: the last vote made is the last          *)
(* iteration.                                                              *)
LastPairTaken(ord) ==
    \E x \in Taken(ord) : x[2] = NP /\ \A i \in VoteIdx(ord) : i <= x[1]

(* The change output paid back for input coin c of a transaction with      *)
(* n inputs, committed as transaction number t; a transaction has one      *)
(* input per address, so <<t, address>> names the new coin.                *)
Change(c, n, t) == [id |-> <<t, c.addr>>, addr |-> c.addr, val |-> c.val - PayFee \div n]

Init ==
    /\ wallet \in SUBSET InitialCoins
    /\ voted \in SUBSET StoreVotes
    /\ used = {}
    /\ txs = << >>
    /\ pend = [ins |-> {}, votes |-> {}, voters |-> {}, done |-> FALSE]
    /\ pc = "start"
    /\ result = "none"

(* The checks before the wallet loop that fail: too little coin.  The      *)
(* other early returns (no proposals, an invalid proposal, no wallet, a     *)
(* locked wallet) are left out: Props is a non-empty list of valid          *)
(* proposals and the one wallet is unlocked.                                *)
StartReject ==
    /\ pc = "start"
    /\ Balance(wallet) < VoteBalance
    /\ pc' = "done"
    /\ result' = "error"
    /\ UNCHANGED <<wallet, voted, used, txs, pend>>

StartOk ==
    /\ pc = "start"
    /\ Balance(wallet) >= VoteBalance
    /\ pc' = "pass"
    /\ UNCHANGED <<wallet, voted, used, txs, pend, result>>

(* A pass that breaks out of the do-while: no coins, no voting coins or no *)
(* input coins, or no vote made.                                           *)
PassBreak ==
    /\ pc = "pass"
    /\ \E ord \in SortedOrders(wallet) :
         \/ wallet = {}
         \/ VoteIdx(ord) = {}
         \/ InputsOf(ord) = {}
         \/ Taken(ord) = {}
    /\ pc' = "end"
    /\ UNCHANGED <<wallet, voted, used, txs, pend, result>>

(* A pass that makes votes: usedUtxos records them as they are made.       *)
PassBuild ==
    /\ pc = "pass"
    /\ \E ord \in SortedOrders(wallet) :
         LET pairs == {PairAt(ord, x) : x \in Taken(ord)}
         IN /\ VoteIdx(ord) # {}
            /\ InputsOf(ord) # {}
            /\ pairs # {}
            /\ pend' = [ins |-> InputsOf(ord), votes |-> pairs,
                        voters |-> {ord[x[1]].addr : x \in Taken(ord)},
                        done |-> LastPairTaken(ord)]
            /\ used' = used \cup pairs
    /\ pc' = "create"
    /\ UNCHANGED <<wallet, voted, txs, result>>

(* Plausible bug: a transaction with a non-positive change output is      *)
(* accepted.                                                               *)
CreateOkAnyChange ==
    /\ pc = "create"
    /\ pc' = "commit"
    /\ UNCHANGED <<wallet, voted, used, txs, pend, result>>

(* CreateTransaction succeeds: every change output is positive.            *)
CreateOk ==
    /\ pc = "create"
    /\ \A c \in pend.ins : Change(c, Cardinality(pend.ins), Len(txs) + 1).val > 0
    /\ pc' = "commit"
    /\ UNCHANGED <<wallet, voted, used, txs, pend, result>>

(* CreateTransaction fails (fee, funds, size): return error.               *)
CreateFail ==
    /\ pc = "create"
    /\ pc' = "done"
    /\ result' = "error"
    /\ UNCHANGED <<wallet, voted, used, txs, pend>>

(* CommitTransaction succeeds: the inputs are spent, the change is the     *)
(* wallet's, and the do-while tests completelyDone.                        *)
CommitOk ==
    LET n == Cardinality(pend.ins)
        t == Len(txs) + 1
    IN
    /\ pc = "commit"
    /\ wallet' = (wallet \ pend.ins) \cup {Change(c, n, t) : c \in pend.ins}
    /\ txs' = Append(txs, [ins |-> {c.id : c \in pend.ins}, votes |-> pend.votes,
                           keys |-> {c.addr : c \in pend.ins}, voters |-> pend.voters])
    /\ pc' = IF pend.done THEN "end" ELSE "pass"
    /\ UNCHANGED <<voted, used, pend, result>>

(* No connman, or the commit is rejected: return error.                    *)
CommitFail ==
    /\ pc = "commit"
    /\ pc' = "done"
    /\ result' = "error"
    /\ UNCHANGED <<wallet, voted, used, txs, pend>>

(* Plausible bug: the txCounter check after the wallet loop is missing.    *)
FinishAlwaysOk ==
    /\ pc = "end"
    /\ pc' = "done"
    /\ result' = "ok"
    /\ UNCHANGED <<wallet, voted, used, txs, pend>>

(* After the wallet loop: an error if no transaction was made.             *)
Finish ==
    /\ pc = "end"
    /\ pc' = "done"
    /\ result' = IF txs = << >> THEN "error" ELSE "ok"
    /\ UNCHANGED <<wallet, voted, used, txs, pend>>

Next ==
    \/ StartReject \/ StartOk \/ PassBreak \/ PassBuild
    \/ CreateOk \/ CreateFail \/ CommitOk \/ CommitFail \/ Finish

Spec == Init /\ [][Next]_vars

-----------------------------------------------------------------------------
(* Coins are positive amounts of the wallet's addresses; the transaction  *)
(* being built spends coins the wallet still holds.                        *)
SubmitTypeOK ==
    /\ \A c \in wallet : c.addr \in Addrs /\ c.val \in Nat \ {0}
    /\ \A x \in used : x[2] \in {Props[i] : i \in 1..NP}
    /\ pc \in {"create", "commit"} => pend.ins \subseteq wallet
    /\ pc \in {"start", "pass", "create", "commit", "end", "done"}
    /\ result \in {"none", "ok", "error"}

(* usedUtxos and hasVote: no (utxo, proposal) vote is cast twice by one   *)
(* call, across all its transactions, nor one the store already holds.    *)
NoDoubleVote ==
    \A i, j \in 1..Len(txs) :
        /\ i # j => txs[i].votes \cap txs[j].votes = {}
        /\ txs[i].votes \cap voted = {}

(* Spec 3 (vin binding): a vote is accepted only if an input of its        *)
(* transaction is signed by the vote's key.  The input coins chosen per    *)
(* address (l. 1182) cover the address of every coin that votes in the     *)
(* transaction.                                                            *)
VotesBoundToInputs ==
    \A i \in 1..Len(txs) : txs[i].voters \subseteq txs[i].keys

(* Spec 4.8: the input coin is chosen so that it leaves the larger coins   *)
(* free for voting.  No coin that votes in one of the call's transactions  *)
(* is spent as an input by one of them (which would void its votes).       *)
VotingCoinsNotSpent ==
    \A i, j \in 1..Len(txs) : {x[1] : x \in txs[i].votes} \cap txs[j].ins = {}

(* Spec 4.8: the passes repeat until all votes are placed.  When the call *)
(* succeeds, every coin of the wallet as called, unspent and large enough *)
(* to vote, has voted on every proposal.                                   *)
SuccessCastsAll ==
    result = "ok" =>
        \A c \in wallet \cap InitialCoins :
            c.val >= VoteMinUtxo =>
                \A k \in 1..NP : <<c.id, Props[k]>> \in used \cup voted

-----------------------------------------------------------------------------
(* The refinement mapping: each committed transaction is a batch of its     *)
(* votes, the store's votes are the prior ones, and the call is busy until  *)
(* it sets its result.                                                      *)
Batches == INSTANCE GovVoteBatches
             WITH MaxBatch <- MaxOpReturn,
                  prior <- voted,
                  sent <- [i \in 1..Len(txs) |-> txs[i].votes],
                  status <- IF result = "none" THEN "busy" ELSE result

(* submitVotes keeps the promise of spec 4.8 as GovVoteBatches states it:   *)
(* every committed transaction carries 1 to MAX_OP_RETURN_IN_TRANSACTION    *)
(* votes, none cast before in the call nor held by the store, and the call  *)
(* returns true only after committing one (the txCounter check).           *)
ImplementsVoteBatches == Batches!ASpec

=============================================================================
