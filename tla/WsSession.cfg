\* A client that sends three frames on two operations, and one event.
SPECIFICATION FairSpec
CONSTANTS
    Ops = {o1, o2}
    Topics = {tp1}
    ReuseIds = FALSE
    MaxFrames = 3
    MaxEvents = 1
INVARIANTS
    QueueInv
    NoHandlerOutlives
    CompleteEndsOperation
PROPERTIES
    LostSessionGoes
    RevokedSessionGoes
