CONSTANTS
    Commands <- SomeCommands
    MaxRequests = 1
SPECIFICATION FairSpec
PROPERTIES
    StopWakesReview
