CONSTANTS
    MaxChunks <- Bounds
    MaxCalls = 2
    MaxBlocks = 3
    Upstreams = {"native", "local", "anthropic", "google", "replay"}
    Clients = {"responses", "chat"}
SPECIFICATION Spec
INVARIANTS AnswerExact ArgumentsNeverMixed ItemsFramed NeverPastItems FinalResponseWhole
CHECK_DEADLOCK FALSE
