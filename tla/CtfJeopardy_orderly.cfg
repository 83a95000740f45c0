CONSTANTS
    Teams = {a, b}
    NoTeam = NoTeam
    Challenges = {c, d}
    NoChallenge = NoChallenge
    Threads = {s1, s2}
    Closers = {k1}
    Base = 100
    DecayNum = 4
    DecayDen = 5
    MinScore = 60
    BonusPct = 10
    MaxPerMinute = 1
    Threshold = 1
    CoolTicks = 1
    MaxSubs = 3
    MaxCrashes = 0
    Overlap = FALSE
SPECIFICATION Spec
SYMMETRY Symmetry
INVARIANTS
    ScoresAgree
    
PROPERTIES
    ImplementsBoard
