---------------------------- MODULE MCGovernance ----------------------------
(***************************************************************************)
(* A small instance of Governance for TLC: one proposal for superblock 4   *)
(* (interval 4, proposal cutoff 2, voting cutoff 1), a voting utxo above    *)
(* the minimum amount and one below it, two block times, and a set of      *)
(* block bodies that contains each kind of governance output alone, a      *)
(* vote together with a spend of its own utxo, spends alone and an empty   *)
(* block.                                                                  *)
(***************************************************************************)
EXTENDS GovReplay

CONSTANTS p1, u1, u2

MCProposals == {p1}
MCUtxos == {u1, u2}
MCPSuperblock == [p \in MCProposals |-> 4]
MCUtxoAmount == [u \in MCUtxos |-> IF u = u1 THEN 250 ELSE 5]
MCSigHash == [x \in MCProposals \X MCUtxos \X VoteTypes |->
                IF x[3] = NO THEN 7 ELSE 3 + x[3]]
MCTimes == {1, 2}

PropObj(p) == [kind |-> "proposal", p |-> p]
VoteObj(p, u, v, s) == [kind |-> "vote", p |-> p, u |-> u, v |-> v, signed |-> s]
Blk(objs, spends, t) == [objs |-> objs, spends |-> spends, time |-> t]

MCBlocks ==
  {Blk(<<PropObj(p1)>>, {}, 1), Blk(<< >>, {}, 1), Blk(<< >>, {u1}, 1),
   Blk(<<VoteObj(p1, u1, YES, TRUE)>>, {u1}, 1),
   Blk(<<VoteObj(p1, u1, YES, FALSE)>>, {}, 1),
   Blk(<<VoteObj(p1, u2, YES, TRUE)>>, {}, 1)}
  \cup {Blk(<<VoteObj(p1, u1, v, TRUE)>>, {}, t) : v \in {YES, NO}, t \in MCTimes}

(* Blocks for the same-block tie: both orders of a YES and a NO vote on    *)
(* the same proposal and utxo, in one block.                               *)
MCBlocksTie ==
  {Blk(<<PropObj(p1)>>, {}, 1)}
  \cup {Blk(<<VoteObj(p1, u1, v, TRUE), VoteObj(p1, u1, w, TRUE)>>, {}, 1) :
         <<v, w>> \in {<<YES, NO>>, <<NO, YES>>}}
=============================================================================
