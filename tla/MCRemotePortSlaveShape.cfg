\* The peer sends a bus request with a beat width or a streaming stride.
CONSTANTS
    Timers = {}
    Quantum = 0
    Threads = {t1}
    NoOwner = NoOwner
    NoPkt = NoPkt
    Lines <- MCLines
    PeerLines <- MCLines
    PeerShapes <- MCShapesAll
    ClkBase = 0
    MaxId = 1
    MaxIrqs = 0
    MaxPeerReqs = 1
    MaxClk = 0
    PeerBlocking = FALSE
SPECIFICATION Spec
INVARIANT SlaveAcceptsLegalAccess
