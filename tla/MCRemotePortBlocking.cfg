\* A peer that serves nothing while its own request to us is outstanding.
\* Deadlock is what this run exhibits; it is reported through the liveness
\* property, so TLC's own deadlock check is off here.
CONSTANTS
    Timers = {}
    Quantum = 0
    Threads = {t1, t2}
    NoOwner = NoOwner
    NoPkt = NoPkt
    Lines <- MCLines
    PeerLines <- MCLines
    PeerShapes <- MCShapesPlain
    ClkBase = 0
    MaxId = 2
    MaxIrqs = 0
    MaxPeerReqs = 1
    MaxClk = 0
    PeerBlocking = TRUE
SPECIFICATION Spec
PROPERTY RspMutexReleased
CHECK_DEADLOCK FALSE
