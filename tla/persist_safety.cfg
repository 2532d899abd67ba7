SPECIFICATION FairSpec
CONSTANTS
    MaxChanges = 3
    MaxStarts = 3
    MaxCrashes = 2
    MaxFailures = 2
INVARIANTS TypeOK NothingSavedIsLost RefusedOnlyAfterFault StoppedIsSaved IdentityKept
PROPERTIES EventuallySaved
CHECK_DEADLOCK FALSE
