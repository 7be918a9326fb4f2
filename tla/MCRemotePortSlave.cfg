\* The peer sends two bus requests to the memory slave; no vCPU traffic.
CONSTANTS
    Timers = {}
    Quantum = 0
    Threads = {t1}
    NoOwner = NoOwner
    NoPkt = NoPkt
    Lines <- MCLines
    PeerLines <- MCLines
    PeerShapes <- MCShapesPlain
    ClkBase = 0
    MaxId = 0
    MaxIrqs = 0
    MaxPeerReqs = 2
    MaxClk = 0
    PeerBlocking = FALSE
SPECIFICATION Spec
INVARIANT DynPktBounded
