SPECIFICATION Spec
CONSTANTS
    search = search
    weather = weather
    Names <- MCNames
    MaxCalls = 2
    MaxSize = 2
    MaxText = 1
    MaxReports = 2
SYMMETRY Symmetry
INVARIANT ToolCallsAreMatched
INVARIANT OutcomeIsReported
INVARIANT LastUsageIsFinal
PROPERTY KeepsToStream
