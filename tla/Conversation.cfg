CONSTANTS
    Clients = {"responses", "chat"}
    Providers = {"anthropic", "chat", "google"}
    Names = {"f"}
    MaxBlocks <- TwoAnswers
    MaxSaid = 1
    Repeated = FALSE
SPECIFICATION Spec
INVARIANTS SpeechKept ThoughtsKept UpstreamTurns TruncationKept
CHECK_DEADLOCK FALSE
