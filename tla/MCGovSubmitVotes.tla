-------------------------- MODULE MCGovSubmitVotes --------------------------
(* The builder on every subset of five coins: three of address A worth   *)
(* 7, 20 and 30 and two of address B worth 6 and 12, two proposals, an    *)
(* input minimum of 6, a voting minimum of 10 and a fee of 6.  An input    *)
(* coin's change can then fall below the input minimum (A's 7 alone), and  *)
(* be zero (B's 6 alone), and B's 12 votes only when B's 6 is its input.   *)
EXTENDS GovSubmitVotes

CONSTANTS A, B, P1, P2

MCCoins ==
  {[id |-> <<0, 1>>, addr |-> A, val |-> 7], [id |-> <<0, 2>>, addr |-> A, val |-> 20],
   [id |-> <<0, 3>>, addr |-> A, val |-> 30], [id |-> <<0, 4>>, addr |-> B, val |-> 6],
   [id |-> <<0, 5>>, addr |-> B, val |-> 12]}

MCStoreVotes == {<<<<0, 3>>, P2>>}

MCProps == <<P1, P2>>
=============================================================================
