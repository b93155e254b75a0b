CONSTANTS
    Resv = {r1, r2}
    NoResv = NoResv
    Expiring = {}
    Deletable = {}
    MaxFaults = 0
SPECIFICATION Spec
INVARIANTS CredentialHeld CredentialAccounted
SYMMETRY Symmetry
CHECK_DEADLOCK FALSE
