SPECIFICATION Spec
CONSTANTS
  Budget <- MCBudget
  DefaultNodes = 3
  RaftSizes = {4}
  TimeoutMin = 2
  TimeoutMax = 3
  MaxTerm = 2
  MaxLog = 2
  PbftSizes = {5}
  MaxSequence = 2
  MaxView = 2
  StakeOf <- MCStakeOf
  Candidates = 3
  Slots <- MCSlots
  MaxHeight = 2
  Holders = {"alice", "whale"}
  Newcomers = {"sybil"}
  Tokens <- MCTokens
  Gift = 1
  Threshold = 1
  Modes = {"quadratic"}
  Delays = {2}
  Quorums = {1}
  DaoProposals = 1
  Voters = {"alice", "bob", "carol"}
  Owner = "alice"
  Callers = {"alice", "bob", "carol", "eve"}
  MaxProposals = 2
  Nodes = 3
  Keys = {"x"}
  MaxVersion = 3
  Groups <- MCGroups
  Amounts = {5}
  Reward = 1
  MaxEpoch = 3
INVARIANTS OneChoice ValueKept ChainTold
CHECK_DEADLOCK FALSE
