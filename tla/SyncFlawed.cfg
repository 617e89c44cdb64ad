SPECIFICATION SyncSpec
CONSTANTS
    LastSession = 4
    RefreshDays = 3
    ScaleMinDates = 2
    MaxBases = 2
    MaxSyncs = 2
PROPERTY FlawedFullRefused
CHECK_DEADLOCK FALSE
