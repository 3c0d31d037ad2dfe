\* A shell and a background process; a read can pass the limit of 2 by one,
\* and the pipe fills up after it.
CONSTANTS
    sh = sh
    helper = helper
    Leader = sh
    Helpers <- OneHelper
    MaxBytes = 2
    ReadSize = 2
    PipeSize = 2
    MaxWritten = 5
SPECIFICATION FairSpec
INVARIANTS
    TypeOK
    OutputIsFaithful
    KillReachesAll
PROPERTIES
    StopEndsCall
    ReadsToTheEnd
