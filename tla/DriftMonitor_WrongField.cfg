SPECIFICATION Spec
CONSTANTS
    RequiredWindows = 2
    Threshold = 50
    Reports <- EvidentlyReports
    NoShare = NoShare
    MaxConsecutive = 4
INVARIANT AlertsMeanDriftedColumns
