SPECIFICATION FairSpec
CONSTANTS
    Tasks = {t1, t2}
    Services = {s1, s2, s3}
INVARIANTS
    OneDriver
    ServicesUpWhileRunning
    ServicesDownWhenStopped
    ReverseShutdown
PROPERTY Settles
