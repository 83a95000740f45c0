CONSTANTS
    Students = {s1}
    NoStudent = NoStudent
    Threads = {t1}
    MaxRows = 2
    MaxJobs = 2
    MaxCrashes = 0
    MaxPerStudent = 2
    CourseCap = 1
    SchoolCap = 0
    HasManual = FALSE
    Overlap = FALSE
    ReadFaults = TRUE
SPECIFICATION Spec

    
PROPERTY
    ImplementsLifecycle
