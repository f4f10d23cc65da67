CONSTANTS
    P = P
    Q = Q
    u1 = u1
    u2 = u2
    u3 = u3
    k1 = k1
    k2 = k2
    Proposal = P
    OtherProposals = {Q}
    Utxos = {u1, u2, u3}
    VoteTxs = {1, 2}
    Keys = {k1, k2}
    UtxoAmount <- MCUtxoAmount
    VoteBalance = 2
SPECIFICATION Spec
\* getTally returns: its final state has no successor.
CHECK_DEADLOCK FALSE
INVARIANT
    OverlapCollapses
