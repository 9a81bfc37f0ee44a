SPECIFICATION FairSpec
CONSTANTS
    NBench = 2
    MaxRuns = 2
    MaxActivities = 2
PROPERTIES
    ButtonComesBack
    RunIsExportedOrReplaced
CHECK_DEADLOCK FALSE
