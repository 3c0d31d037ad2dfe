\* Two sessions; one approval. A scroll of two frames. A log of four entries,
\* the least with which a task logs a command and its observation, and then a
\* second session of two. Prompts of two characters, and two in the history.
CONSTANTS
    Sessions = {s1, s2}
    MaxRequests = 1
    MaxTicks = 2
    TaskKinds <- TaskEntries
    LongKinds = {"Observation"}
    Restored <- RestoredLogs
    Widths = {1, 2}
    Limits = {3}
    PageSizes = {2}
    MaxAhead = 1
    MaxLogs <- LogLengths
    Unknown = 5
    Characters <- SomeCharacters
    Commands <- SomeCommands
    TakesArgs <- WithArguments
    MaxTyped = 2
    MaxText = 3
    MaxEntries = 2
SPECIFICATION Spec
INVARIANTS
    TypeOK
    LogIsWhole
    PromptIsKept
PROPERTIES
    PromptReachesItsSession
    LastStateIsDrawn
    QuitEnds
    ReaderIsNotMoved
    OnlyMissedWakeupsStall
