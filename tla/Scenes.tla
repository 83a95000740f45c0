------------------------------- MODULE Scenes -------------------------------
(* The scenes side by side: a run picks one of them, and plays a number of  *)
(* its actions.                                                             *)
EXTENDS Integers, Sequences, FiniteSets, TLC

CONSTANTS
    Budget,                                                             \* bound: actions of each scene
    DefaultNodes, RaftSizes, TimeoutMin, TimeoutMax, MaxTerm, MaxLog,   \* of RaftScene
    PbftSizes, MaxSequence, MaxView,                                    \* of PbftScene
    StakeOf, Candidates, Slots, MaxHeight,                              \* of DposScene
    Holders, Newcomers, Tokens, Gift, Threshold,                        \* of GovernanceScene
    Modes, Delays, Quorums, DaoProposals,
    Voters, Owner, Callers, MaxProposals,                               \* of ContractScene
    Nodes, Keys, MaxVersion,                                            \* of PartitionScene
    Groups, Amounts, Reward, MaxEpoch                                   \* of PosScene

ASSUME RaftAssumption ==
    /\ DefaultNodes \in Nat \ {0} /\ RaftSizes \subseteq Nat \ {0}
    /\ TimeoutMin \in Nat \ {0} /\ TimeoutMax \in Nat /\ TimeoutMin <= TimeoutMax
    /\ MaxTerm \in Nat /\ MaxLog \in Nat \ {0}
ASSUME PbftAssumption == PbftSizes \subseteq Nat \ {0} /\ MaxView \in Nat
ASSUME DposAssumption ==
    /\ IsFiniteSet(DOMAIN StakeOf) /\ StakeOf \in [DOMAIN StakeOf -> Nat]
    /\ Candidates \in Nat /\ Slots \in Seq(Nat) /\ Slots # <<>>
ASSUME GovernanceAssumption ==
    /\ IsFiniteSet(Holders) /\ IsFiniteSet(Newcomers) /\ Tokens \in [Holders -> Nat]
    /\ Gift \in Nat /\ Delays \subseteq Nat /\ Quorums \subseteq Nat
ASSUME ContractAssumption == Owner \in Callers
ASSUME PartitionAssumption == Nodes \in Nat \ {0} /\ Keys # {} /\ IsFiniteSet(Keys)
ASSUME PosAssumption == Groups \in Seq(Seq(Nat)) /\ Groups # <<>> /\ Amounts \subseteq Nat /\ Reward \in Nat

VARIABLES
    scene,   \* the scene of this run
    st,      \* its state
    left     \* actions it may still take

Raft == INSTANCE RaftScene
Pbft == INSTANCE PbftScene
Dpos == INSTANCE DposScene
Governance == INSTANCE GovernanceScene WITH MaxProposals <- DaoProposals
Contract == INSTANCE ContractScene
Partition == INSTANCE PartitionScene
Pos == INSTANCE PosScene
Staking == INSTANCE StakingScene WITH
    Validators <- {"v1", "v2"}, Founders <- {"v1"}, Delegators <- {"a", "b"},
    Stake <- 32, Share <- 32, Waits <- {1, 2}
Bridge == INSTANCE BridgeScene WITH
    Users <- {"alice", "bob"}, Funds <- 3, Amounts <- {1, 2}, Sizes <- <<4, 7>>, MaxMessages <- 3
Lifecycle == INSTANCE LifecycleScene WITH
    Senders <- {"a"}, Gas <- {1, 2}, Intervals <- <<2, 1>>, Thresholds <- <<<<1, 2>>, <<2, 1>>>>,
    Sizes <- <<2, 1>>, MaxTxs <- 3, MaxHeight <- 4
Token == INSTANCE TokenScene WITH Accounts <- {"owner", "alice"}, Amounts <- {1, 2}, MaxSupply <- 3
Reentrancy == INSTANCE ReentrancyScene WITH
    Total <- 6, Share <- 2, Purse <- 2, MaxAttackDepth <- 2, Amounts <- {1}
Channel == INSTANCE ChannelScene WITH
    Funds <- 3, Deposit <- 2, Period <- 2, MaxChannels <- 1, MaxNonce <- 2
Majority == INSTANCE MajorityScene WITH MaxTick <- 5, MaxTxs <- 2
Gossip == INSTANCE GossipScene WITH Nodes <- 3, Fanouts <- <<1, 2>>, MaxMessages <- 1, MaxTick <- 3
Broadcast == INSTANCE BroadcastScene WITH
    Nodes <- 3, Limits <- <<2, 1>>, Gas <- {0, 1}, MaxTxs <- 3
Routing == INSTANCE BalanceScene WITH
    Backends <- 2, Capacities <- <<1, 2>>, Rates <- <<2, 1>>, MaxTick <- 3
Mev == INSTANCE MevScene WITH
    Pools <- <<<<12, 10>>, <<9, 9>>>>, AmountsIn <- {2, 5}, MinOuts <- {0, 2}, Gas <- {1, 2},
    MaxPending <- 3
Call == INSTANCE CallScene WITH
    Contracts <- {"A", "B"}, Balance <- 1, Purse <- 2, Numbers <- {-1, 1}, Values <- {0, 1},
    MaxStored <- 1
Supply == INSTANCE SupplyScene WITH
    Caps <- {6, 9}, Rewards <- {2, 4}, Intervals <- {1, 2}, Amounts <- {2}, MaxHeight <- 4
Fork == INSTANCE ForkScene WITH MaxBlocks <- 6
Mining == INSTANCE MiningScenes WITH MaxLead <- 4, MaxBlockHistory <- 2, MaxMined <- 4

Plays(s) == scene = s /\ left > 0 /\ left' = left - 1 /\ UNCHANGED scene

Init ==
    /\ scene \in DOMAIN Budget /\ left = Budget[scene]
    /\ CASE scene = "raft" -> Raft!Init
         [] scene = "pbft" -> Pbft!Init
         [] scene = "dpos" -> Dpos!Init
         [] scene = "staking" -> Staking!Init
         [] scene = "governance" -> Governance!Init
         [] scene = "bridge" -> Bridge!Init
         [] scene = "lifecycle" -> Lifecycle!Init
         [] scene = "token" -> Token!Init
         [] scene = "reentrancy" -> Reentrancy!Init
         [] scene = "selfish" -> Mining!SelfishInit
         [] scene = "contract" -> Contract!Init
         [] scene = "channel" -> Channel!Init
         [] scene = "partition" -> Partition!Init
         [] scene = "majority" -> Majority!Init
         [] scene = "gossip" -> Gossip!Init
         [] scene = "broadcast" -> Broadcast!Init
         [] scene = "balance" -> Routing!Init
         [] scene = "mev" -> Mev!Init
         [] scene = "call" -> Call!Init
         [] scene = "supply" -> Supply!Init
         [] scene = "fork" -> Fork!Init
         [] scene = "pos" -> Pos!Init
         [] scene = "pow" -> Mining!PowInit

Next ==
    \/ Plays("raft") /\ Raft!Next
    \/ Plays("pbft") /\ Pbft!Next
    \/ Plays("dpos") /\ Dpos!Next
    \/ Plays("staking") /\ Staking!Next
    \/ Plays("governance") /\ Governance!Next
    \/ Plays("bridge") /\ Bridge!Next
    \/ Plays("lifecycle") /\ Lifecycle!Next
    \/ Plays("token") /\ Token!Next
    \/ Plays("reentrancy") /\ Reentrancy!Next
    \/ Plays("selfish") /\ Mining!SelfishNext
    \/ Plays("contract") /\ Contract!Next
    \/ Plays("channel") /\ Channel!Next
    \/ Plays("partition") /\ Partition!Next
    \/ Plays("majority") /\ Majority!Next
    \/ Plays("gossip") /\ Gossip!Next
    \/ Plays("broadcast") /\ Broadcast!Next
    \/ Plays("balance") /\ Routing!Next
    \/ Plays("mev") /\ Mev!Next
    \/ Plays("call") /\ Call!Next
    \/ Plays("supply") /\ Supply!Next
    \/ Plays("fork") /\ Fork!Next
    \/ Plays("pos") /\ Pos!Next
    \/ Plays("pow") /\ Mining!PowNext

Spec == Init /\ [][Next]_<<scene, st, left>>

-----------------------------------------------------------------------------
\* Values for TLC.
MCStakeOf == [v1 |-> 1, v2 |-> 2, v3 |-> 2]
MCSlots == <<2, 1, 3>>
MCTokens == [alice |-> 1, whale |-> 4]
MCGroups == <<<<10, 20, 0>>, <<10>>>>

\* Enough actions for the longest story each property tells: an election won and
\* contested, a request committed in a view, a proposal queued and executed, a channel
\* closed, challenged and settled.
MCBudget ==
    [raft |-> 6, pbft |-> 6, dpos |-> 6, staking |-> 5, governance |-> 7, bridge |-> 6,
     lifecycle |-> 6, token |-> 5, reentrancy |-> 5, selfish |-> 12, contract |-> 7, channel |-> 6,
     partition |-> 6, majority |-> 8, gossip |-> 5, broadcast |-> 5, balance |-> 6, mev |-> 4,
     call |-> 4, supply |-> 6, fork |-> 6, pos |-> 5, pow |-> 6]

-----------------------------------------------------------------------------
\* What the parties of a scene choose is chosen once, by those who may: a leader per term,
\* a request committed by a quorum, delegates for the places there are, what the voters of
\* a contract or of a DAO execute, producers that were not slashed, and in CP mode the one
\* partition that takes writes.
OneChoice ==
    CASE scene = "raft" -> Raft!TypeOK /\ Raft!OneLeaderPerTerm
      [] scene = "pbft" -> Pbft!TypeOK /\ Pbft!CommittedByQuorum
      [] scene = "dpos" -> Dpos!TypeOK /\ Dpos!SeatsRight
      [] scene = "contract" -> Contract!TypeOK /\ Contract!ExecutedByVoters
      [] scene = "governance" -> Governance!TypeOK /\ Governance!ExecutedFairly
      [] scene = "pos" -> Pos!TypeOK /\ Pos!SlashedStaysOut
      [] scene = "partition" -> Partition!TypeOK /\ Partition!Agreement
      [] OTHER -> TRUE

\* Money is neither made nor lost where the scene's contract holds it: in a channel, at
\* stake, across a bridge, in a token, in the vaults that guard against reentry, in a
\* swapping pool, through calls that revert, and under the cap of a coin.
ValueKept ==
    CASE scene = "channel" -> Channel!TypeOK /\ Channel!MoneyKept
      [] scene = "staking" -> Staking!TypeOK /\ Staking!StakeKept
      [] scene = "bridge" -> Bridge!TypeOK /\ Bridge!Backed
      [] scene = "token" -> Token!TypeOK /\ Token!SupplyHeld
      [] scene = "reentrancy" -> Reentrancy!TypeOK /\ Reentrancy!SafeVaultsSolvent
      [] scene = "mev" -> Mev!TypeOK /\ Mev!OnTheCurve
      [] scene = "call" -> Call!TypeOK /\ Call!BalancesConserved
      [] scene = "supply" -> Supply!TypeOK /\ Supply!SupplyCapped
      [] OTHER -> TRUE

\* What a scene says of its chain or network is what is there: one transaction per nonce,
\* rewards for the blocks in the chain, reorganisations to longer chains only, messages
\* that came hop by hop, and transactions and requests that are all accounted for.
ChainTold ==
    CASE scene = "lifecycle" -> Lifecycle!TypeOK /\ Lifecycle!OneTxPerNonce
      [] scene = "selfish" -> Mining!SelfishTypeOK /\ Mining!RewardsInChain
      [] scene = "majority" -> Majority!TypeOK /\ Majority!MarkedAsMined
      [] scene = "fork" -> Fork!TypeOK /\ Fork!HeaviestStays
      [] scene = "pow" -> Mining!PowTypeOK /\ Mining!ReorgDeserved
      [] scene = "gossip" -> Gossip!TypeOK /\ Gossip!OneHopPerTick
      [] scene = "broadcast" -> Broadcast!TypeOK /\ Broadcast!SentIsHeld
      [] scene = "balance" -> Routing!TypeOK /\ Routing!RequestsCounted
      [] OTHER -> TRUE
=============================================================================
