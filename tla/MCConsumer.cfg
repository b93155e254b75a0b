CONSTANTS
    Providers = {1, 2}
    Candidates = {1, 2, 3}
    NoProvider = 0
    MaxMigrations = 1
    MaxFaults = 1
    Want = 2
    GroupViews <- SmallGroupViews
    Handlers = {h1, h2}
    Prompts = {q1, q2}
    NoPrompt = NoPrompt

SPECIFICATION FairSpec

INVARIANTS
    
    
    ViewIsTheChoice

PROPERTIES
    NoFlap
    RequestSettles
    ChoiceIsServed

CHECK_DEADLOCK FALSE
