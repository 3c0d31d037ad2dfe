\* A scroll of one frame after its first step: the exit needs no more.
CONSTANT
    MaxTicks = 1
SPECIFICATION FairAnimatorSpec
PROPERTIES
    ExitJoinsAnimator
