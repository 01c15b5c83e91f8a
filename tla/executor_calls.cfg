\* Two calls, the second with a creation timeout, both with a completion
\* timeout; two failing system calls or signals; a program that may never end.
SPECIFICATION FairSpec
CONSTANTS
    MaxCalls = 2
    MaxFaults = 2
    Timed = {2}
    CompletionPolls = 1
    ExitCodes = {0, 1}
INVARIANTS
    ReturnIsOfProgram
    NothingKeepsRunning
    OrphansAreAccounted
    DescriptorsReturned
PROPERTY CallEnds
