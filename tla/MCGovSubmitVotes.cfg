CONSTANTS
  A = A
  B = B
  P1 = P1
  P2 = P2
  Props <- MCProps
  Addrs = {A, B}
  InitialCoins <- MCCoins
  StoreVotes <- MCStoreVotes
  InputMin = 6
  VoteMinUtxo = 10
  VoteBalance = 10
  PayFee = 6
  MaxOpReturn = 2
SPECIFICATION Spec
\* submitVotes returns: its final states have no successor.
CHECK_DEADLOCK FALSE
INVARIANTS
  SubmitTypeOK
  NoDoubleVote
  VotesBoundToInputs
PROPERTY
  ImplementsVoteBatches
