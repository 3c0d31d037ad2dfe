\* A step limit of 2: two full turns, and a second prompt.
CONSTANTS
    Commands <- SomeCommands
    ReviewAll = FALSE
    Answers <- AnyReviewer
    StepLimit = 2
    MaxHistory = 6
    MaxReplies = 3
SPECIFICATION FairSpec
INVARIANTS
    TypeOK
    MemoryMatchesStore
    RunsOnceAndDurably
    StepsCountTurns
    StopBoundsWork
PROPERTIES
    ReportIsTrue
    ImplementsLog
    RunEnds
