\* A shell alone.
CONSTANTS
    sh = sh
    helper = helper
    Leader = sh
    Helpers = {}
    MaxBytes = 2
    ReadSize = 2
    PipeSize = 2
    MaxWritten = 1
SPECIFICATION FairSpec
PROPERTIES
    StopIsHeard
