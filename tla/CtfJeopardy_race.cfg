CONSTANTS
    Teams = {a, b}
    NoTeam = NoTeam
    Challenges = {c}
    NoChallenge = NoChallenge
    Threads = {s1, s2}
    Closers = {}
    Base = 100
    DecayNum = 4
    DecayDen = 5
    MinScore = 60
    BonusPct = 10
    MaxPerMinute = 2
    Threshold = 2
    CoolTicks = 2
    MaxSubs = 3
    MaxCrashes = 1
    Overlap = TRUE
SPECIFICATION Spec
SYMMETRY Symmetry
INVARIANTS
    TotalsAreAwards
    FirstBloodEarned
    SolvedMarkTrue
    CooldownArmed
PROPERTY FirstBloodStands
