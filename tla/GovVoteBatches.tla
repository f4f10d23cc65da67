--------------------------- MODULE GovVoteBatches ---------------------------
(***************************************************************************)
(* What Governance::submitVotes promises its caller (spec 4.8), stated     *)
(* without wallets, coins or passes.  The call sends a sequence of vote    *)
(* batches, one per transaction.  A batch is a non-empty set of at most    *)
(* MaxBatch (utxo, proposal) votes, none of them sent earlier in the call  *)
(* and none already held by the store.  The call returns "ok" only when    *)
(* it sent a batch; it may return "error" at any point.                    *)
(*                                                                         *)
(* The batch a step sends is read off the new state (the last element of  *)
(* sent'), so the specification serves as a property of an implementation *)
(* and is not meant to be run on its own.                                  *)
(***************************************************************************)
EXTENDS Naturals, Sequences, FiniteSets

CONSTANT MaxBatch   \* MAX_OP_RETURN_IN_TRANSACTION

VARIABLES
    prior,    \* votes the store holds (hasVote)
    sent,     \* the batches sent so far, in order
    status    \* "busy", "ok", "error"

avars == <<prior, sent, status>>

Sent == UNION {sent[i] : i \in 1..Len(sent)}

AInit ==
    /\ sent = << >>
    /\ status = "busy"

(* One more transaction's votes are sent.                                  *)
SendBatch ==
    /\ status = "busy"
    /\ Len(sent') = Len(sent) + 1
    /\ \A i \in 1..Len(sent) : sent'[i] = sent[i]
    /\ LET S == sent'[Len(sent')]
       IN  /\ Cardinality(S) \in 1..MaxBatch
           /\ S \cap (Sent \cup prior) = {}
    /\ UNCHANGED <<prior, status>>

(* The call returns.                                                       *)
Return ==
    /\ status = "busy"
    /\ status' \in IF sent = << >> THEN {"error"} ELSE {"ok", "error"}
    /\ UNCHANGED <<prior, sent>>

ANext == SendBatch \/ Return

ASpec == AInit /\ [][ANext]_avars

=============================================================================
