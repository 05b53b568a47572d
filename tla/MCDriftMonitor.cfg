SPECIFICATION Spec
CONSTANTS
    RequiredWindows = 2
    Threshold = 50
    Reports <- AnyReports
    NoShare = NoShare
    MaxConsecutive = 4
INVARIANT TypeOK
INVARIANT FlagFollowsCount
INVARIANT AlertsNeedAStreak
INVARIANT StreaksAreAlerted
INVARIANT ReportFollowsTrigger
PROPERTY AlertsAlternate
PROPERTY SustainedDriftAlerts
