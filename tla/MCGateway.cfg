SPECIFICATION AllFairSpec
CONSTANTS
    Clients = {c1}
    MaxSequence = 2
    MaxSample = 1
    MaxBrowsers = 2
    TopicCount = 1
    Capacity = 1
    MaxReplies = 3
    MaxConnections = 2
    Slots = {1, 2}
    Meters = {m1}
    MaxGeneration = 2
    MaxTime = 2
    MaxQueued = 2
    MaxAttempts = 1
    MaxCalls = 3
    MaxSockets = 2
    MaxForeign = 1
INVARIANTS
    AllTypeOK
PROPERTIES
    AnswersReachTheirBrowser
    PublishedIsTrue
    NothingWaitsForever
