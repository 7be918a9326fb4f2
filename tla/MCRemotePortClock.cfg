\* Two vCPU threads and the sync timer, three transactions, one GPIO
\* interrupt, clocks that advance to 1 and a quantum of 1, so the timer
\* fires once guest time has moved past the last synchronisation; the
\* peer sends nothing of its own.
CONSTANTS
    Threads = {t1, t2}
    Timers = {tm}
    Quantum = 1
    NoOwner = NoOwner
    NoPkt = NoPkt
    Lines <- MCLines
    PeerLines <- MCLines
    PeerShapes <- MCShapesPlain
    ClkBase = 0
    MaxId = 3
    MaxIrqs = 1
    MaxPeerReqs = 0
    MaxClk = 1
    PeerBlocking = FALSE
SPECIFICATION Spec
INVARIANT SingleOutstanding
PROPERTY PeerSeesClockMonotone
PROPERTY ChannelRefinement
