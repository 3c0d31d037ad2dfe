\* Two processes, three threads, two sessions, room for two messages after the
\* seed.
CONSTANTS
    acp = acp
    tui = tui
    server = server
    worker = worker
    user = user
    Connections <- TwoProcesses
    Threads <- AllThreads
    ConnectionOf <- ProcessOf
    Prompting <- Prompters
    Managing <- Managers
    Servers <- OnlyServer
    MaxSessions = 2
    MaxRows = 3
SPECIFICATION Spec
INVARIANTS
    BeginsAlone
