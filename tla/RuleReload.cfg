SPECIFICATION Spec
CONSTANTS
    Kinds <- MCKinds
    Files <- MCFiles
    Contents <- MCContents
    Release <- MCRelease
    Absent = Absent
    Broken = Broken
    Failed = Failed
    Nil = Nil
    MaxChanges <- MCMaxChanges
    MaxFaults = 1
INVARIANTS
    TypeOK
    CaughtUp
    InstalledIsComplete
    MergeKeepsRules
CHECK_DEADLOCK FALSE
PROPERTY ComesToRest
