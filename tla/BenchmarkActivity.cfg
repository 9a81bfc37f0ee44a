SPECIFICATION Spec
CONSTANTS
    NBench = 2
    MaxRuns = 3
    MaxActivities = 2
INVARIANTS
    TypeOK
    BusyScreenClears
    DrainedScreenIsComplete
    AnnouncedCsvIsComplete
    NoStartAfterFinish
PROPERTIES
    CsvNeverRegresses
    Promise
CHECK_DEADLOCK FALSE
