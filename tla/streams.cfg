SPECIFICATION StreamsSpec
CONSTANTS
    Parts = {"streams", "net", "web", "message", "tls"}
    Plans <- Pipelines
    SocketScenes = {"socket", "server"}
    MaxWrites = 2
    ChunkSize = 2
    HighWater = 2
    MaxChunks = 1
    MaxPeers = 3
    MaxListens = 1
    MaxSinkWrites = 2
    MaxReads = 2
    Ends = {"abort", "error", "terminate", "fails", "cancel"}
    BodyChunks = 2
    Outgoing = {"o"}
    Incoming = {"i", "j"}
    HalfOpen = {"j"}
    PauseOnConnect = FALSE
    MaxTlsCalls = 3
    MaxChunksIn = 1
    Destroyable = {"open", "destroyed"}
    Throwing = {"start", "ended"}
INVARIANTS
    PassedOnInOrder
    
PROPERTIES
    FinishIsWhole
    WaitersAnswered
CHECK_DEADLOCK FALSE
