CONSTANTS
    Teams = {a, b}
    NoTeam = NoTeam
    Challenges = {c, d}
    NoChallenge = NoChallenge
    Threads = {s1}
    NRounds = 2
    InitialToken = 10
    Base = 8
    DecayNum = 4
    DecayDen = 5
    BonusPct = 10
    BloodPct = 10
    FirstPatchBonus = 2
    DefenseReward = 1
    EndsEarly = TRUE
    MaxAttacks = 2
    MaxFaults = 0
    MaxSyncs = 1
    Overlap = FALSE
SPECIFICATION Spec
INVARIANT BalancesAgree
 
CHECK_DEADLOCK FALSE
