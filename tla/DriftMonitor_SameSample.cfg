SPECIFICATION Spec
CONSTANTS
    RequiredWindows = 2
    Threshold = 50
    Reports <- AnyReports
    NoShare = NoShare
    MaxConsecutive = 4
INVARIANT PagesNeedSeveralSamples
