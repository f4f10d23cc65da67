--------------------------- MODULE MCGovBootstrap ---------------------------
(* The loader on every chain of up to three blocks drawn from: a proposal, *)
(* a YES vote at time 2, a NO vote at time 1 (same utxo), a spend of the   *)
(* voting utxo and an empty block; two workers, governance from height 1.  *)
EXTENDS MCGovernance, GovBootstrap

MCBootBlocks ==
  {Blk(<<PropObj(p1)>>, {}, 1), Blk(<< >>, {}, 1), Blk(<< >>, {u1}, 1),
   Blk(<<VoteObj(p1, u1, YES, TRUE)>>, {}, 2),
   Blk(<<VoteObj(p1, u1, NO, TRUE)>>, {}, 1)}
=============================================================================
