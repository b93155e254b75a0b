CONSTANTS
    Resv = {r1}
    NoResv = NoResv
    Expiring = {r1}
    Deletable = {r1}
    MaxFaults = 1
SPECIFICATION FairSpec
PROPERTIES PhasesAdvance WaitersAnswered EndsWhenDue SecretRetired
CHECK_DEADLOCK FALSE
