\* Unsolicited traffic: two threads, two transactions, and a peer that
\* sends two requests or interrupts of any shape the wire format allows
\* (a beat width, a line past num_gpios); no outgoing
\* interrupt; clocks stay at 0. A request of such a shape or a stray line
\* aborts the process, which then stops.
CONSTANTS
    Timers = {}
    Quantum = 0
    Threads = {t1, t2}
    NoOwner = NoOwner
    NoPkt = NoPkt
    Lines <- MCLines
    PeerLines <- MCPeerLinesStray
    PeerShapes <- MCShapesBeat
    ClkBase = 0
    MaxId = 2
    MaxIrqs = 0
    MaxPeerReqs = 2
    MaxClk = 0
    PeerBlocking = FALSE
SPECIFICATION Spec
INVARIANT ResponseIdMatches
PROPERTY RspMutexReleased
PROPERTY GpioLevelFollowsPeer
