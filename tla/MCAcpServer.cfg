\* Two prompts and one permission wait; three sessions, room for two of them,
\* pages of one and a clock that ticks twice.
CONSTANTS
    s1 = s1
    s2 = s2
    Sessions <- OneSession
    Commands <- SomeCommands
    Capacity = 1
    MaxPrompts = 2
    MaxTools = 1
    MaxOpens = 1
    Ids <- ThreeIds
    WorkspaceOf <- TwoFolders
    PageSize = 1
    ActiveLimit = 2
    MaxTime = 3
SPECIFICATION MCSpec
INVARIANTS
    MCTypeOK
    PagesMakeAList
    GivenSessionsAreActive
PROPERTIES
    CancelEndsPrompt
    ResponseReachesWorker
