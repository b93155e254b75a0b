CONSTANTS
    Providers = {1, 2}
    Candidates = {1, 2, 3}
    NoProvider = 0
    MaxMigrations = 1
    MaxFaults = 1
    MaxResv = 2
    Capacity = 2
    MaxDemand = 2
    LatencyShortlistSize = 1
    MaxOwn = 1
    Callers = {c1, c2}
    CacheTTL = 2
    MaxProbe = 1
    Placements = {pa}
    NoPlacement = NoPlacement
    NoEntry = NoEntry
    MaxRetries = 1
    MaxCalls = 1
    MaxBatch = 2
    Interval = 3
    StaleAfter = 9
    MaxCycle = 2
    CarbonTTL = 2
    NodeAllocatable = 3
    ChunkSize = 2
    Tabs = {t1, t2}
    MaxEdits = 2
    deployMaxAttempts = 3
    MaxBedFaults = 3

SPECIFICATION FairSpec

INVARIANTS
    TypeOK
    
    PreferredGrows
    BrainAgrees
    ChosenAnswered
    OneBookingPerCall
    BusyIsReady
    
    OfferIsBacked

PROPERTIES
    DrainsWhenIdle
    ProjectionCatchesUp
    
    PolicyReachesBroker
    WedgedIsSeen
    OtherKeysSurvive
    StopsWhenTold
    ServesOrEnds
    EndsClean

CHECK_DEADLOCK FALSE
