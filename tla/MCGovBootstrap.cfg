CONSTANTS
  p1 = p1
  u1 = u1
  u2 = u2
  Proposals <- MCProposals
  Utxos <- MCUtxos
  PSuperblock <- MCPSuperblock
  WellFormed <- MCProposals
  Superblock = 4
  ProposalCutoff = 2
  VotingCutoff = 1
  VoteMinUtxoAmount = 10
  UtxoAmount <- MCUtxoAmount
  SigHash <- MCSigHash
  Times <- MCTimes
  Blocks <- MCBootBlocks
  MaxHeight = 3
  MaxQueue = 2
  Cores = 2
  GovernanceBlock = 1
SPECIFICATION FairBootSpec
\* loadGovernanceData returns: its final states have no successor.
CHECK_DEADLOCK FALSE
INVARIANTS
  BootTypeOK
  StoredVotesOnChain
  BInv
  SuccessLoadsProposals
  LoadInv
PROPERTY
  BootTerminates
