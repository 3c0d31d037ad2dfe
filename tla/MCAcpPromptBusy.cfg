\* Two prompts, one after the other.
CONSTANTS
    s1 = s1
    s2 = s2
    Sessions <- OneSession
    Commands <- SomeCommands
    Capacity = 1
    MaxPrompts = 2
    MaxTools = 1
    MaxOpens = 1
SPECIFICATION Spec
PROPERTIES
    BusyMeansRunning
