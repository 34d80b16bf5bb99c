SPECIFICATION Spec
CONSTANTS
    PipeLines = 3
    MaxLines = 2
    MaxOutput = 4
    MaxRuns = 2
    Failures <- MCFailures
    PageSizes <- MCPageSizes
INVARIANTS
    TypeOK
    TerminalKept
    ShownIsPrinted
CHECK_DEADLOCK FALSE
