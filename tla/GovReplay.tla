------------------------------ MODULE GovReplay ------------------------------
(***************************************************************************)
(* What the store promises (spec 3, Lifecycle: "state is fully            *)
(* reconstructible from the chain"; spec 4.5 on reorgs): the store a node  *)
(* holds equals the store it would build by replaying the active chain    *)
(* block by block from an empty store, with today's UTXO set and mempool,  *)
(* as a restart does. Replay folds the body of BlockConnected over the     *)
(* chain; it is used by TLC only.                                          *)
(***************************************************************************)
EXTENDS Governance, SequencesExt

EmptyStore == [proposals |-> [p \in {} |-> 0],
               votes |-> [k \in {} |-> [v |-> NO, time |-> 0, height |-> 0]]]

(* BlockConnected applied to chain[1], chain[2], ... in height order. *)
Replay ==
  FoldLeftDomain(LAMBDA st, i : ConnectStore(st.proposals, st.votes,
                                             chain[i], i),
                 EmptyStore, chain)

=============================================================================
