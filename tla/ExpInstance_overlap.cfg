CONSTANTS
    Students = {s1}
    NoStudent = NoStudent
    Threads = {t1, t2}
    MaxRows = 1
    MaxJobs = 1
    MaxCrashes = 1
    MaxPerStudent = 2
    CourseCap = 0
    SchoolCap = 0
    HasManual = FALSE
    Overlap = TRUE
    ReadFaults = TRUE
SPECIFICATION Spec
SYMMETRY Symmetry
INVARIANTS
    TypeOK
    CompletedIsScored
    SnapshotBeforeRelease
