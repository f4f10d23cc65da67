CONSTANTS
  p1 = p1
  u1 = u1
  u2 = u2
  Proposals <- MCProposals
  Utxos <- MCUtxos
  PSuperblock <- MCPSuperblock
  WellFormed <- MCProposals
  Superblock = 4
  ProposalCutoff = 2
  VotingCutoff = 1
  VoteMinUtxoAmount = 10
  UtxoAmount <- MCUtxoAmount
  SigHash <- MCSigHash
  Times <- MCTimes
  Blocks <- MCBlocks
  MaxHeight = 3
  MaxQueue = 2
SPECIFICATION Spec
INVARIANTS
  TypeOK
  NoSpentVote
  ProposalsOnChain
  IInv
  PInv
