SPECIFICATION FairSpec
CONSTANTS
    PipeLines = 3
    MaxLines = 2
    MaxOutput = 4
    MaxRuns = 1
    Failures = {}
    PageSizes <- MCPageSizes
PROPERTY
    CommandComesBack
CHECK_DEADLOCK FALSE
