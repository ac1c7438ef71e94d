SPECIFICATION FairSpec
CONSTANTS
    Threads = {t1, t2, t3}
    NoThread = nobody
    MaxSends = 4
    Errors = {"reset", "other"}
INVARIANTS
    OneSendAtATime
    OwnedWhileInFlight
    NotStranded
PROPERTIES
    ImplementsPipe
    Delivered
