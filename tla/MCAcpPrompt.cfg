\* Two sessions and room for one, two prompts, two tool calls in one of them or
\* one in each.
CONSTANTS
    s1 = s1
    s2 = s2
    Sessions <- TwoSessions
    Commands <- SomeCommands
    Capacity = 1
    MaxPrompts = 2
    MaxTools = 2
    MaxOpens = 2
SPECIFICATION Spec
INVARIANTS
    OneResponsePerPrompt
    ToolCallsSettleFirst
    OnlyPermittedRuns
    SessionObjectIsStable
