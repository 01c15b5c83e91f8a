\* Three processes, one or all of which lock, with one tool and with two.
SPECIFICATION FairSpec
CONSTANTS
    Procs = {p1, p2, p3}
    Free = Free
    Empty = Empty
    LockingSets <- AllOrSome
    Validating = {p1}
    ToolLists <- MCToolLists
    MaxKills = 1
INVARIANTS
    OnlyBrokenWritesTear
    InputIsTheUsers
 
