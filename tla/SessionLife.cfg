CONSTANTS
    Sessions = {s1, s2}
    AcceptEvents = {e1}
    Threads = {t1, t2}
    NoSession = NoSession
    Errors = {"reset", "other"}
    MayRefuse = TRUE
SPECIFICATION FairSpec
INVARIANTS InService OneReceive OwnedWhileInFlight Listens
PROPERTIES Released
