\* Three requests: two in one task, or one in each of three tasks.
CONSTANTS
    Commands <- SomeCommands
    MaxRequests = 3
SPECIFICATION FairSpec
INVARIANTS
    TypeOK
    DecisionForThisRequest
    RunsOnlyApproved
PROPERTIES
    StatusIsTrue
    DecisionIsTaken
    PressingStopEndsTask
