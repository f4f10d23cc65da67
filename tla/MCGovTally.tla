----------------------------- MODULE MCGovTally -----------------------------
(* A model instance of the tally engine: three utxos, two vote             *)
(* transactions, two keys and a voteBalance of 2, so that identities of    *)
(* one coin are floored to zero.                                           *)
EXTENDS GovTally

CONSTANTS P, Q, u1, u2, u3, k1, k2

MCUtxoAmount == [u \in {u1, u2, u3} |-> IF u = u3 THEN 2 ELSE 1]
=============================================================================
