\* Two threads whose clock reconciliations overlap; the peer's clock
\* advances between their transactions.
CONSTANTS
    Timers = {}
    Quantum = 0
    Threads = {t1, t2}
    NoOwner = NoOwner
    NoPkt = NoPkt
    Lines <- MCLines
    PeerLines <- MCLines
    PeerShapes <- MCShapesPlain
    ClkBase = 0
    MaxId = 2
    MaxIrqs = 0
    MaxPeerReqs = 0
    MaxClk = 1
    PeerBlocking = FALSE
SPECIFICATION Spec
PROPERTY PeerClockMonotone
