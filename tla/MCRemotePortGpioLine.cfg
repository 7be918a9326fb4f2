\* The peer sends an interrupt on a wire line past num_gpios (1 here).
CONSTANTS
    Timers = {}
    Quantum = 0
    Threads = {t1}
    NoOwner = NoOwner
    NoPkt = NoPkt
    Lines <- MCLines
    PeerLines <- MCPeerLinesStray
    PeerShapes <- MCShapesPlain
    ClkBase = 0
    MaxId = 1
    MaxIrqs = 0
    MaxPeerReqs = 1
    MaxClk = 0
    PeerBlocking = FALSE
SPECIFICATION Spec
INVARIANT GpioLineInBounds
