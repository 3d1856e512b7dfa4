SPECIFICATION FairSpec
CONSTANTS
    FailLimit = 3
    MaxSessions = 2
    MaxFrames = 2
    MaxWedges = 2
INVARIANTS TypeOK MarkerCountsFrames RowMeansFinalized StopOkMeansFinalized
PROPERTIES StopReports WedgeEndsRecording
CHECK_DEADLOCK FALSE
