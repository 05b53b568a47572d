SPECIFICATION Spec
CONSTANTS
    RequiredWindows = 1
    Threshold = 50
    Reports <- AnyReports
    NoShare = NoShare
    MaxConsecutive = 4
INVARIANT PagesOnce
