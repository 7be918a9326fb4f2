\* Three vCPU threads contending for one channel, four transactions,
\* clocks frozen: the interleavings of the transaction engine alone.
CONSTANTS
    Timers = {}
    Quantum = 0
    Threads = {t1, t2, t3}
    NoOwner = NoOwner
    NoPkt = NoPkt
    Lines <- MCLines
    PeerLines <- MCLines
    PeerShapes <- MCShapesPlain
    ClkBase = 0
    MaxId = 4
    MaxIrqs = 0
    MaxPeerReqs = 0
    MaxClk = 0
    PeerBlocking = FALSE
SPECIFICATION Spec
INVARIANT TypeOK
INVARIANT ResponseIdMatches
INVARIANT SingleOutstanding
PROPERTY ChannelRefinement
PROPERTY RspMutexReleased
