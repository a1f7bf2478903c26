SPECIFICATION WireSpec
CONSTANTS
    Parts = {"fetch", "sockets", "files", "datagrams", "watchers", "stats", "trees"}
    Fetches = {1}
    Replies <- Answers
    Pooled = 1
    MaxRedirects = 2
    Habits = {"abort", "abortBody", "refuse", "h2", "tunnel", "sync", "idleClose", "cut"}
    WsConns = {1}
    WsMessages = 2
    Reactions = {"none", "echo", "close", "terminate"}
    Outcomes = {"open", "serve", "denied", "silent", "bad"}
    WsHabits = {"kill", "down", "ping"}
    Readers = {"handled", "reader"}
    Writers = {"writer"}
    FileOf <- FilesOfStreams
    Begins <- StartOf
    Ends_ <- EndOf
    OfHandle = {"handled"}
    HandleFile = "h"
    Content <- Disk
    Mark = 2
    Pieces = 2
    Shorts <- NoShorts
    Waiting = 2
    FsHabits = {"close", "pause", "noent", "late", "abort", "destroy"}
    Peers = {"a", "b"}
    Ports = {"p"}
    Targets = {"p"}
    MaxSent = 2
    MaxDgCalls = 2
    Dirs = {"r", "d", "e"}
    Root = "r"
    ParentOf <- Nested
    MaxFsSteps = 3
    MaxNexts = 2
    Again = FALSE
    Listeners = {"l", "m"}
    MaxVersions = 3
    MaxWatches = 3
    Liberties <- NoLiberties
    Paths <- AllPaths
    Disks <- OnDisk
    Actors = {1, 2}
    Jobs <- PairsOfCalls
INVARIANTS
    ResponsesAreOwn
    FramesAreHeard
    FilesAreExact
CHECK_DEADLOCK FALSE
