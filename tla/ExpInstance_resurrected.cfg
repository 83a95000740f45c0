CONSTANTS
    Students = {s1}
    NoStudent = NoStudent
    Threads = {t1}
    MaxRows = 1
    MaxJobs = 2
    MaxCrashes = 0
    MaxPerStudent = 1
    CourseCap = 0
    SchoolCap = 0
    HasManual = FALSE
    Overlap = TRUE
    ReadFaults = FALSE
SPECIFICATION Spec
PROPERTY DestroyedStays
