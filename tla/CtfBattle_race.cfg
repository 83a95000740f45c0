CONSTANTS
    Teams = {a, b}
    NoTeam = NoTeam
    Challenges = {c}
    NoChallenge = NoChallenge
    Threads = {s1}
    NRounds = 2
    InitialToken = 1
    Base = 2
    DecayNum = 4
    DecayDen = 5
    BonusPct = 10
    BloodPct = 10
    FirstPatchBonus = 1
    DefenseReward = 1
    EndsEarly = FALSE
    MaxAttacks = 1
    MaxFaults = 1
    MaxSyncs = 1
    Overlap = TRUE
SPECIFICATION FairSpec
INVARIANTS
    TypeOK
    
PROPERTIES
    RoundsInTurn
    BattleEnds
CHECK_DEADLOCK FALSE
