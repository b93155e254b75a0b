CONSTANTS
    Providers = {1, 2}
    Candidates = {1, 2, 3}
    NoProvider = 0
    MaxMigrations = 1
    MaxFaults = 1
    Testers = {u1, u2}
    GroupChunks = 1
    RaceRetries = 1
    Iterations = 2
    Places = 2
    Redraws = 2
    LoadProviders = {1}
    LoadConsumers = {u1, u2}
    RequestTimeout = 1
    DefaultMaxRetries = 1
    DefaultMaxBackoff = 1
    DrainSlack = 1

SPECIFICATION Spec

SYMMETRY Interchangeable

INVARIANTS
    TypeOK
    
    BooksAgree
    ReplayIsExact
    SummaryIsComplete

CHECK_DEADLOCK FALSE
