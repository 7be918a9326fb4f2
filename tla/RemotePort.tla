----------------------------- MODULE RemotePort -----------------------------
(***************************************************************************)
(* One Remote-Port channel of the QEMU side and the peer simulator at the  *)
(* other end of its byte stream.                                           *)
(*                                                                         *)
(*  - vCPU threads issue bus reads and writes through the memory master    *)
(*    (rp_io_read / rp_io_write, remote-port-memory-master.c). They enter  *)
(*    holding the big QEMU lock (BQL), sample the clock and allocate an id *)
(*    before taking the channel's response mutex, send, block in           *)
(*    rp_wait_resp (which gives the BQL up), check the response id,        *)
(*    release the mutex, reconcile clocks and take the BQL back.           *)
(*  - the rx thread of remote-port.c hands responses to the waiter through *)
(*    the single response slot (rspqueue) and queues the peer's own        *)
(*    requests for the iothread.                                           *)
(*  - the iothread, under the BQL, dispatches those requests to the memory *)
(*    slave (rp_cmd_rw) and the GPIO device (rp_gpio_interrupt), and       *)
(*    device models raise GPIO lines that rp_gpio_handler forwards.        *)
(*  - the peer answers our requests in order and sends its own.            *)
(*                                                                         *)
(* Data is abstracted away (RPValue models it); a packet keeps its command,*)
(* id, response flag, timestamp and, for interrupts, line and level.       *)
(***************************************************************************)
EXTENDS Integers, Sequences, FiniteSets

CONSTANTS
    Threads,        \* vCPU threads doing MMIO on the master's regions
    NoOwner,        \* owner of a free lock
    NoPkt,          \* an invalid (consumed) response slot
    Lines,          \* GPIO lines, 0 .. num_gpios - 1
    ClkBase,        \* clk_base of rp_peer_state, fixed at session start
    MaxId,          \* bound on ids handed out by rp_new_id
    MaxIrqs,        \* bound on interrupts rp_gpio_handler sends
    MaxPeerReqs,    \* bound on requests and interrupts the peer sends
    MaxClk,         \* bound on both virtual clocks
    PeerBlocking,   \* TRUE: the peer serves nothing while its own request
                    \* to us is outstanding (a single-threaded peer)
    PeerLines,      \* interrupt lines the peer may name (wire numbers)
    PeerShapes,     \* access shapes the peer's bus requests may have
    Timers,         \* the channel's sync timer, or none
    Quantum         \* local_cfg.quantum: sync timer period, 0 disables it

ASSUME /\ Threads # {} /\ NoOwner \notin Threads \cup Timers
       /\ Threads \cap Timers = {} /\ Quantum \in Nat
       /\ MaxId \in Nat /\ MaxIrqs \in Nat /\ MaxPeerReqs \in Nat
       /\ MaxClk \in Nat /\ ClkBase \in Nat /\ ClkBase <= MaxClk
       /\ PeerBlocking \in BOOLEAN
       /\ Lines \subseteq PeerLines /\ PeerShapes \subseteq {"plain", "beats", "stream"}

VARIABLES
    pc,         \* per thread: where in rp_io_read / rp_io_write it is
    req,        \* per thread: the request it built (locals id, clk, cmd)
    rclk,       \* per thread: timestamp taken from the response
    seen,       \* per thread: tracked peer clock as read by rp_sync_vmclock
    bql,        \* owner of the big QEMU lock
    rspLock,    \* owner of the channel's response mutex
    nextId,     \* rp_new_id's counter
    rspq,       \* rspqueue: the one response slot, or NoPkt
    rxq,        \* peer requests queued by the rx thread for the iothread
    toPeer,     \* byte stream QEMU -> peer, as a sequence of packets
    fromPeer,   \* byte stream peer -> QEMU
    vmclk,      \* local virtual clock
    syncedClk,  \* the synchronizer's tracked peer clock
    lastSync,   \* vmclk when the sync timer was last restarted
    gpioId,     \* RemotePortGPIO.current_id
    gpioOut,    \* levels driven on gpio_out by the peer's interrupts
    peerClk,    \* the peer's virtual clock
    peerPending,\* our requests the peer has read and not answered
    peerOut,    \* the peer has a request to us outstanding
    peerSent,   \* requests and interrupts the peer has sent
    peerSeen,   \* timestamp of the last request of ours the peer read
    peerLevel,  \* per wire line: the level the peer last signalled on it
    lastDone,   \* history: id of the last completed master transaction
    got,        \* history: per thread, id of the response it consumed
    dpkts,      \* RemotePortDynPkt buffers rp_cmd_rw allocated, not freed
    fault       \* "none", or the failed assert / undefined access that
                \* ended the process

vars == <<pc, req, rclk, seen, bql, rspLock, nextId, rspq, rxq, toPeer,
          fromPeer, vmclk, syncedClk, lastSync, gpioId, gpioOut, peerClk,
          peerPending, peerOut, peerSent, peerSeen, peerLevel, lastDone, got, dpkts,
          fault>>
peerVars == <<peerClk, peerPending, peerOut, peerSent, peerSeen, peerLevel,
              dpkts>>
masterVars == <<pc, req, rclk, seen, rspLock, nextId, syncedClk, lastSync,
                lastDone, got>>

-----------------------------------------------------------------------------
(* Packets: enum rp_cmd, the header's id and response flag, and the fields *)
(* of rp_pkt_busaccess / rp_pkt_interrupt the model tells apart.           *)
BusCmds == {"read", "write"}
\* The requests that are answered: bus accesses and RP_CMD_sync.
ReqCmds == BusCmds \cup {"sync"}
Cmds == ReqCmds \cup {"interrupt"}
Ids == 0 .. MaxId
Clks == 0 .. MaxClk

\* The shape of a bus access, from its len, width and stream_width:
\* "plain"  width = 0 and stream_width = len (what the master sends),
\* "beats"  a beat width that divides stream_width = len,
\* "stream" a streaming access, stream_width < len, the address repeating.
\* Spec 3 allows all three (stream_width a positive multiple of width).
Shapes == {"plain", "beats", "stream"}

Packets == [cmd : Cmds, id : Ids, resp : BOOLEAN, ts : Clks,
            line : PeerLines, val : {0, 1}, shape : Shapes]

\* rp_encode_read / _write / _read_resp / _write_resp: the header and the
\* busaccess fields; a response echoes the request's width fields.
\* rp_encode_sync / _sync_resp lay out the same header and timestamp.
BusPkt(c, i, r, t, sh) ==
    [cmd |-> c, id |-> i, resp |-> r, ts |-> t, line |-> 0, val |-> 0,
     shape |-> sh]

\* rp_pkt_interrupt: no response is ever expected for it.
IrqPkt(i, t, l, v) ==
    [cmd |-> "interrupt", id |-> i, resp |-> FALSE, ts |-> t, line |-> l,
     val |-> v, shape |-> "plain"]

\* RP_PKT_FLAGS_response tells a response from a request of the same cmd.
IsResponse(p) == p.resp

\* rp_normalized_vmclk: local virtual time less the session's clk_base.
NormalizedVmclk == vmclk - ClkBase

\* rp_new_id: the channel's next transaction id.
NewId == nextId

\* Everything that runs a transaction on the channel: the vCPU threads
\* and the sync timer's callback.
Callers == Threads \cup Timers

PCs == {"idle", "lock", "send", "wait", "blocked", "syncread",
        "syncwrite", "leave"}

Max2(a, b) == IF a >= b THEN a ELSE b

\* An assert that failed, or an undefined access, ended the process:
\* no thread of it takes another step.
Aborted == fault # "none"

-----------------------------------------------------------------------------
(* Memory master: rp_io_read and rp_io_write.                              *)

\* Entry of rp_io_read / rp_io_write: the MMIO dispatch holds the BQL; the
\* code samples the clock, takes a new id and encodes the request, all
\* before it takes the response mutex.
Begin(t, cmd) ==
    /\ ~Aborted
    /\ pc[t] = "idle"
    /\ bql = NoOwner
    /\ nextId < MaxId
    /\ bql' = t
    /\ req' = [req EXCEPT ![t] = [id |-> NewId, clk |-> NormalizedVmclk,
                                   cmd |-> cmd]]
    /\ nextId' = nextId + 1
    /\ pc' = [pc EXCEPT ![t] = "lock"]
    /\ UNCHANGED <<rclk, seen, rspLock, rspq, rxq, toPeer, fromPeer, vmclk,
                   syncedClk, lastSync, gpioId, gpioOut, peerVars, lastDone, got, fault>>

\* Mutant: the MMIO region dispatched without the BQL.
BeginNoBql(t, cmd) ==
    /\ ~Aborted
    /\ pc[t] = "idle"
    /\ nextId < MaxId
    /\ req' = [req EXCEPT ![t] = [id |-> NewId, clk |-> NormalizedVmclk,
                                   cmd |-> cmd]]
    /\ nextId' = nextId + 1
    /\ pc' = [pc EXCEPT ![t] = "lock"]
    /\ UNCHANGED <<rclk, seen, bql, rspLock, rspq, rxq, toPeer, fromPeer,
                   vmclk, syncedClk, lastSync, gpioId, gpioOut, peerVars,
                   lastDone, got, fault>>

\* Mutant: the read encoded with the wrong command.
IoReadNop(t) == Begin(t, "nop")

\* Mutant: rp_io_read entered without the BQL.
IoReadNoBql(t) == BeginNoBql(t, "read")

IoRead(t) == Begin(t, "read")

IoWrite(t) == Begin(t, "write")

\* rp_ops: a guest load from a region calls rp_io_read, a store rp_io_write.
MmioAccess(t) == IoRead(t) \/ IoWrite(t)

\* Mutant: the timer callback run from a context without the BQL.
SyncTimerHitNoBql(t) ==
    /\ Quantum > 0
    /\ vmclk >= lastSync + Quantum
    /\ BeginNoBql(t, "sync")

\* The sync timer's callback (remote-port.c, spec 4.4): once Quantum of
\* guest time has passed since rp_restart_sync_timer last rolled it, the
\* main loop runs it under the BQL. It sends RP_CMD_sync when no bus
\* traffic has synchronised the clocks, through the same steps as an
\* access: new id, response mutex, wait, reconcile, restart the timer.
SyncTimerHit(t) ==
    /\ Quantum > 0
    /\ vmclk >= lastSync + Quantum
    /\ Begin(t, "sync")

\* Mutant: the response mutex does not exclude a second thread.
RspMutexLockNoExcl(t) ==
    /\ ~Aborted
    /\ pc[t] = "lock"
    /\ rspLock' = t
    /\ pc' = [pc EXCEPT ![t] = "send"]
    /\ UNCHANGED <<req, rclk, seen, bql, nextId, rspq, rxq, toPeer, fromPeer,
                   vmclk, syncedClk, lastSync, gpioId, gpioOut, peerVars,
                   lastDone, got, fault>>

\* rp_rsp_mutex_lock: blocks, still holding the BQL, while another thread
\* owns the channel.
RspMutexLock(t) ==
    /\ ~Aborted
    /\ pc[t] = "lock"
    /\ rspLock = NoOwner
    /\ rspLock' = t
    /\ pc' = [pc EXCEPT ![t] = "send"]
    /\ UNCHANGED <<req, rclk, seen, bql, nextId, rspq, rxq, toPeer, fromPeer,
                   vmclk, syncedClk, lastSync, gpioId, gpioOut, peerVars,
                   lastDone, got, fault>>

\* rp_write of the encoded request (and, for a write, its data).
SendRequest(t) ==
    /\ ~Aborted
    /\ pc[t] = "send"
    /\ toPeer' = Append(toPeer, BusPkt(req[t].cmd, req[t].id, FALSE,
                                       req[t].clk, "plain"))
    /\ pc' = [pc EXCEPT ![t] = "wait"]
    /\ UNCHANGED <<req, rclk, seen, bql, rspLock, nextId, rspq, rxq,
                   fromPeer, vmclk, syncedClk, lastSync, gpioId, gpioOut,
                   peerVars, lastDone, got, fault>>

\* rp_wait_resp: the caller gives the BQL up while it is suspended.
WaitResp(t) ==
    /\ ~Aborted
    /\ pc[t] = "wait"
    /\ bql' = IF bql = t THEN NoOwner ELSE bql
    /\ pc' = [pc EXCEPT ![t] = "blocked"]
    /\ UNCHANGED <<req, rclk, seen, rspLock, nextId, rspq, rxq, toPeer,
                   fromPeer, vmclk, syncedClk, lastSync, gpioId, gpioOut,
                   peerVars, lastDone, got, fault>>

\* Mutant: rp_dpkt_invalidate left out; the slot keeps the old response.
ConsumeResponseNoInvalidate(t) ==
    /\ ~Aborted
    /\ pc[t] = "blocked"
    /\ rspq # NoPkt
    /\ rclk' = [rclk EXCEPT ![t] = rspq.ts]
    /\ rspLock' = NoOwner
    /\ lastDone' = req[t].id
    /\ got' = [got EXCEPT ![t] = rspq.id]
    /\ pc' = [pc EXCEPT ![t] = "syncread"]
    /\ UNCHANGED <<req, seen, bql, nextId, rspq, rxq, toPeer, fromPeer, vmclk,
                   syncedClk, lastSync, gpioId, gpioOut, peerVars, fault>>

\* Mutant: rp_wait_resp takes the BQL back before it returns, while the
\* caller still holds the response mutex.
ConsumeResponseUnderBql(t) ==
    /\ ~Aborted
    /\ pc[t] = "blocked"
    /\ rspq # NoPkt
    /\ bql = NoOwner
    /\ rclk' = [rclk EXCEPT ![t] = rspq.ts]
    /\ rspq' = NoPkt
    /\ rspLock' = NoOwner
    /\ lastDone' = req[t].id
    /\ got' = [got EXCEPT ![t] = rspq.id]
    /\ pc' = [pc EXCEPT ![t] = "syncread"]
    /\ UNCHANGED <<req, seen, bql, nextId, rxq, toPeer, fromPeer, vmclk,
                   syncedClk, lastSync, gpioId, gpioOut, peerVars, fault>>

\* rp_dpkt_invalidate: the response slot no longer holds a packet.
DpktInvalidate == rspq' = NoPkt

\* rp_wait_resp returns once the rx thread has filled the response slot;
\* the caller asserts the id, copies data and timestamp, invalidates the
\* slot and unlocks the response mutex.
ConsumeResponse(t) ==
    /\ ~Aborted
    /\ pc[t] = "blocked"
    /\ rspq # NoPkt
    /\ rclk' = [rclk EXCEPT ![t] = rspq.ts]
    /\ DpktInvalidate
    /\ rspLock' = NoOwner
    /\ lastDone' = req[t].id
    /\ got' = [got EXCEPT ![t] = rspq.id]
    /\ pc' = [pc EXCEPT ![t] = "syncread"]
    /\ UNCHANGED <<req, seen, bql, nextId, rxq, toPeer, fromPeer, vmclk,
                   syncedClk, lastSync, gpioId, gpioOut, peerVars, fault>>

\* rp_sync_vmclock runs after the mutex is released and without the BQL:
\* its read of the tracked peer clock and its write are separate steps.
SyncVmclockRead(t) ==
    /\ ~Aborted
    /\ pc[t] = "syncread"
    /\ seen' = [seen EXCEPT ![t] = syncedClk]
    /\ pc' = [pc EXCEPT ![t] = "syncwrite"]
    /\ UNCHANGED <<req, rclk, bql, rspLock, nextId, rspq, rxq, toPeer,
                   fromPeer, vmclk, syncedClk, lastSync, gpioId, gpioOut,
                   peerVars, lastDone, got, fault>>

\* ... the write advances the tracked peer clock to the response's time,
\* then rp_restart_sync_timer rolls the sync timer.
SyncVmclockWrite(t) ==
    /\ ~Aborted
    /\ pc[t] = "syncwrite"
    /\ syncedClk' = Max2(seen[t], rclk[t])
    /\ lastSync' = vmclk
    /\ pc' = [pc EXCEPT ![t] = "leave"]
    /\ UNCHANGED <<req, rclk, seen, bql, rspLock, nextId, rspq, rxq, toPeer,
                   fromPeer, vmclk, gpioId, gpioOut, peerVars, lastDone, got, fault>>

\* rp_leave_iothread takes the BQL back; the MMIO dispatch then returns
\* to the guest and drops it.
LeaveIothread(t) ==
    /\ ~Aborted
    /\ pc[t] = "leave"
    /\ bql = NoOwner
    /\ pc' = [pc EXCEPT ![t] = "idle"]
    /\ UNCHANGED <<req, rclk, seen, bql, rspLock, nextId, rspq, rxq, toPeer,
                   fromPeer, vmclk, syncedClk, lastSync, gpioId, gpioOut,
                   peerVars, lastDone, got, fault>>

-----------------------------------------------------------------------------
(* The rx thread of remote-port.c.                                         *)

\* Mutant: the rx thread ignores the response flag.
RxResponseAnyPkt ==
    /\ ~Aborted
    /\ fromPeer # <<>>
    /\ rspq = NoPkt
    /\ rspq' = Head(fromPeer)
    /\ fromPeer' = Tail(fromPeer)
    /\ UNCHANGED <<masterVars, bql, rxq, toPeer, vmclk, gpioId, gpioOut,
                   peerVars, fault>>

\* A response goes to the response slot once the previous one is consumed.
RxResponse ==
    /\ ~Aborted
    /\ fromPeer # <<>>
    /\ IsResponse(Head(fromPeer))
    /\ rspq = NoPkt
    /\ rspq' = Head(fromPeer)
    /\ fromPeer' = Tail(fromPeer)
    /\ UNCHANGED <<masterVars, bql, rxq, toPeer, vmclk, gpioId, gpioOut,
                   peerVars, fault>>

\* Mutant: peer requests handed to the iothread last-in first-out.
RxRequestLifo ==
    /\ ~Aborted
    /\ fromPeer # <<>>
    /\ ~IsResponse(Head(fromPeer))
    /\ rxq' = <<Head(fromPeer)>> \o rxq
    /\ fromPeer' = Tail(fromPeer)
    /\ UNCHANGED <<masterVars, bql, rspq, toPeer, vmclk, gpioId, gpioOut,
                   peerVars, fault>>

\* A request from the peer is queued for the iothread.
RxRequest ==
    /\ ~Aborted
    /\ fromPeer # <<>>
    /\ ~IsResponse(Head(fromPeer))
    /\ rxq' = Append(rxq, Head(fromPeer))
    /\ fromPeer' = Tail(fromPeer)
    /\ UNCHANGED <<masterVars, bql, rspq, toPeer, vmclk, gpioId, gpioOut,
                   peerVars, fault>>

-----------------------------------------------------------------------------
(* The iothread, under the BQL: the devices' handlers.                     *)

\* rp_dpkt_alloc on a fresh (zeroed) RemotePortDynPkt: a new buffer.
DpktAlloc == dpkts' = dpkts + 1

\* The handlers the devices register in their class_init: the iothread
\* calls ops[cmd] of the device a peer request is addressed to.
SlaveOps == {"read", "write"}
GpioOps == {"interrupt"}

\* The asserts of rp_cmd_rw on the peer's packet: width == 0 and
\* stream_width == len (the response flag is never set: the rx thread
\* routes responses to the response slot).
SlaveAccepts(p) == p.shape = "plain"

\* rp_cmd_rw of the memory slave: allocate a response buffer, perform the
\* access and answer with the request's id, timestamp and width fields
\* (delay is 0); the buffer is not freed.
SlaveRW ==
    /\ ~Aborted
    /\ bql = NoOwner
    /\ rxq # <<>>
    /\ Head(rxq).cmd \in SlaveOps
    /\ SlaveAccepts(Head(rxq))
    /\ DpktAlloc
    /\ toPeer' = Append(toPeer, BusPkt(Head(rxq).cmd, Head(rxq).id, TRUE,
                                       Head(rxq).ts, Head(rxq).shape))
    /\ rxq' = Tail(rxq)
    /\ UNCHANGED <<masterVars, bql, rspq, fromPeer, vmclk, gpioId, gpioOut,
                   peerClk, peerPending, peerOut, peerSent, peerSeen,
                   peerLevel, fault>>

\* ... and when one of its asserts fails, the process aborts.
SlaveAssertFail ==
    /\ ~Aborted
    /\ bql = NoOwner
    /\ rxq # <<>>
    /\ Head(rxq).cmd \in SlaveOps
    /\ ~SlaveAccepts(Head(rxq))
    /\ fault' = "slave_assert"
    /\ UNCHANGED <<masterVars, bql, rspq, rxq, toPeer, fromPeer, vmclk,
                   gpioId, gpioOut, peerVars>>

\* rp_gpio_interrupt: drive gpio_out[line] to the packet's level.
GpioInterrupt ==
    /\ ~Aborted
    /\ bql = NoOwner
    /\ rxq # <<>>
    /\ Head(rxq).cmd \in GpioOps
    /\ Head(rxq).line \in Lines
    /\ gpioOut' = [gpioOut EXCEPT ![Head(rxq).line] = Head(rxq).val]
    /\ rxq' = Tail(rxq)
    /\ UNCHANGED <<masterVars, bql, rspq, toPeer, fromPeer, vmclk, gpioId,
                   peerVars, fault>>

\* ... with a line of num_gpios or more, gpio_out[line] reads past the
\* array g_new0 allocated in rp_gpio_realize: undefined behaviour, after
\* which the model does not go on.
GpioStrayLine ==
    /\ ~Aborted
    /\ bql = NoOwner
    /\ rxq # <<>>
    /\ Head(rxq).cmd \in GpioOps
    /\ Head(rxq).line \notin Lines
    /\ fault' = "gpio_oob"
    /\ UNCHANGED <<masterVars, bql, rspq, rxq, toPeer, fromPeer, vmclk,
                   gpioId, gpioOut, peerVars>>

\* rp_gpio_handler: a device raised or lowered one of our input lines;
\* send an interrupt with the device's own id counter, no response wanted.
GpioHandler ==
    /\ ~Aborted
    /\ bql = NoOwner
    /\ gpioId < MaxIrqs
    /\ \E irq \in Lines, level \in {0, 1} :
         toPeer' = Append(toPeer, IrqPkt(gpioId, NormalizedVmclk, irq, level))
    /\ gpioId' = gpioId + 1
    /\ UNCHANGED <<masterVars, bql, rspq, rxq, fromPeer, vmclk, gpioOut,
                   peerVars, fault>>

\* The iothread dispatches the request at the head of its queue to the
\* handler the packet's command selects, whatever the handler then does.
IothreadStep == SlaveRW \/ SlaveAssertFail \/ GpioInterrupt \/ GpioStrayLine

\* Guest time passes.
VmclkTick ==
    /\ ~Aborted
    /\ vmclk < MaxClk
    /\ vmclk' = vmclk + 1
    /\ UNCHANGED <<masterVars, bql, rspq, rxq, toPeer, fromPeer, gpioId,
                   gpioOut, peerVars, fault>>

-----------------------------------------------------------------------------
(* The peer simulator: the environment at the other end of the stream.     *)

PeerRecv ==
    /\ ~Aborted
    /\ toPeer # <<>>
    /\ LET p == Head(toPeer) IN
         /\ peerOut' = (peerOut /\ ~p.resp)
         /\ peerPending' = IF ~p.resp /\ p.cmd \in ReqCmds
                             THEN Append(peerPending, p) ELSE peerPending
         /\ peerSeen' = IF p.resp THEN peerSeen ELSE p.ts
    /\ toPeer' = Tail(toPeer)
    /\ UNCHANGED <<masterVars, bql, rspq, rxq, fromPeer, vmclk, gpioId,
                   gpioOut, peerClk, peerSent, peerLevel, dpkts, fault>>

PeerRespond ==
    /\ ~Aborted
    /\ peerPending # <<>>
    /\ ~(PeerBlocking /\ peerOut)
    /\ fromPeer' = Append(fromPeer, BusPkt(Head(peerPending).cmd,
                                           Head(peerPending).id, TRUE, peerClk,
                                           Head(peerPending).shape))
    /\ peerPending' = Tail(peerPending)
    /\ UNCHANGED <<masterVars, bql, rspq, rxq, toPeer, vmclk, gpioId, gpioOut,
                   peerClk, peerOut, peerSent, peerSeen, peerLevel, dpkts,
                   fault>>

PeerRequest ==
    /\ ~Aborted
    /\ ~peerOut
    /\ peerSent < MaxPeerReqs
    /\ \E c \in BusCmds, sh \in PeerShapes :
         fromPeer' = Append(fromPeer, BusPkt(c, peerSent, FALSE, peerClk, sh))
    /\ peerOut' = TRUE
    /\ peerSent' = peerSent + 1
    /\ UNCHANGED <<masterVars, bql, rspq, rxq, toPeer, vmclk, gpioId, gpioOut,
                   peerClk, peerPending, peerSeen, peerLevel, dpkts, fault>>

PeerInterrupt ==
    /\ ~Aborted
    /\ peerSent < MaxPeerReqs
    /\ \E l \in PeerLines, v \in {0, 1} :
         /\ fromPeer' = Append(fromPeer, IrqPkt(peerSent, peerClk, l, v))
         /\ peerLevel' = [peerLevel EXCEPT ![l] = v]
    /\ peerSent' = peerSent + 1
    /\ UNCHANGED <<masterVars, bql, rspq, rxq, toPeer, vmclk, gpioId, gpioOut,
                   peerClk, peerPending, peerOut, peerSeen, dpkts, fault>>

PeerTick ==
    /\ ~Aborted
    /\ peerClk < MaxClk
    /\ peerClk' = peerClk + 1
    /\ UNCHANGED <<masterVars, bql, rspq, rxq, toPeer, fromPeer, vmclk, gpioId,
                   gpioOut, peerPending, peerOut, peerSent, peerSeen,
                   peerLevel, dpkts, fault>>

-----------------------------------------------------------------------------
Init ==
    /\ pc = [t \in Callers |-> "idle"]
    /\ req = [t \in Callers |-> [id |-> 0, clk |-> 0, cmd |-> "read"]]
    /\ rclk = [t \in Callers |-> 0]
    /\ seen = [t \in Callers |-> 0]
    /\ bql = NoOwner
    /\ rspLock = NoOwner
    /\ nextId = 0
    /\ rspq = NoPkt
    /\ rxq = <<>>
    /\ toPeer = <<>>
    /\ fromPeer = <<>>
    /\ vmclk = ClkBase
    /\ syncedClk = 0
    /\ lastSync = ClkBase
    /\ gpioId = 0
    /\ gpioOut = [l \in Lines |-> 0]
    /\ peerClk = 0
    /\ peerPending = <<>>
    /\ peerOut = FALSE
    /\ peerSent = 0
    /\ peerSeen = 0
    /\ peerLevel = [l \in PeerLines |-> 0]
    /\ lastDone = -1
    /\ got = [t \in Callers |-> -1]
    /\ dpkts = 0
    /\ fault = "none"

\* Every bound is used up and nothing is in flight: the system idles.
Quiescent ==
    /\ \A t \in Callers : pc[t] = "idle"
    /\ nextId = MaxId /\ gpioId = MaxIrqs /\ peerSent = MaxPeerReqs
    /\ vmclk = MaxClk /\ peerClk = MaxClk
    /\ toPeer = <<>> /\ fromPeer = <<>> /\ rxq = <<>> /\ rspq = NoPkt
    /\ peerPending = <<>> /\ ~peerOut

Terminated == (Quiescent \/ Aborted) /\ UNCHANGED vars

ThreadStep(t) ==
    \/ RspMutexLock(t) \/ SendRequest(t) \/ WaitResp(t)
    \/ ConsumeResponse(t) \/ SyncVmclockRead(t) \/ SyncVmclockWrite(t)
    \/ LeaveIothread(t)

Step ==
    \/ \E t \in Threads : MmioAccess(t)
    \/ \E t \in Timers : SyncTimerHit(t)
    \/ \E t \in Callers : ThreadStep(t)
    \/ RxResponse \/ RxRequest
    \/ SlaveRW \/ SlaveAssertFail \/ GpioInterrupt \/ GpioStrayLine
    \/ GpioHandler \/ VmclkTick
    \/ PeerRecv \/ PeerRespond \/ PeerRequest \/ PeerInterrupt \/ PeerTick

Next == Step \/ Terminated

\* Threads and the timer callback that have started a transaction keep
\* running; the rx thread, the
\* iothread and a peer that reads and answers are not stopped forever.
\* Nothing forces the guest to issue accesses or the clocks to advance.
Fairness ==
    /\ \A t \in Callers : WF_vars(ThreadStep(t))
    /\ WF_vars(RxResponse) /\ WF_vars(RxRequest)
    /\ WF_vars(IothreadStep)
    /\ WF_vars(PeerRecv) /\ WF_vars(PeerRespond)

Spec == Init /\ [][Next]_vars /\ Fairness

-----------------------------------------------------------------------------
TypeOK ==
    /\ pc \in [Callers -> PCs]
    /\ req \in [Callers -> [id : Ids, clk : Clks, cmd : ReqCmds]]
    /\ rclk \in [Callers -> Clks] /\ seen \in [Callers -> Clks]
    /\ bql \in Callers \cup {NoOwner}
    /\ rspLock \in Callers \cup {NoOwner}
    /\ nextId \in Ids
    /\ rspq \in Packets \cup {NoPkt}
    /\ rxq \in Seq(Packets) /\ toPeer \in Seq(Packets)
    /\ fromPeer \in Seq(Packets) /\ peerPending \in Seq(Packets)
    /\ vmclk \in Clks /\ syncedClk \in Clks /\ lastSync \in Clks
    /\ gpioId \in 0 .. MaxIrqs /\ gpioOut \in [Lines -> {0, 1}]
    /\ peerClk \in Clks /\ peerOut \in BOOLEAN
    /\ peerSent \in 0 .. MaxPeerReqs /\ peerSeen \in Clks
    /\ peerLevel \in [PeerLines -> {0, 1}]
    /\ lastDone \in Ids \cup {-1} /\ got \in [Callers -> Ids \cup {-1}]
    /\ dpkts \in 0 .. MaxPeerReqs
    /\ fault \in {"none", "slave_assert", "gpio_oob"}

\* The peer's view of our bus transactions: requests still on the way to
\* it or unanswered, and answers on the way back.
IsMasterRequest(p) == ~IsResponse(p) /\ p.cmd \in ReqCmds
MasterInFlight ==
    Len(SelectSeq(toPeer, IsMasterRequest)) + Len(peerPending)
      + Len(SelectSeq(fromPeer, IsResponse))

\* The assertion of rp_io_read / rp_io_write (master.c:90, :144): the
\* response a waiting thread is handed carries the id of its own request,
\* whatever the other threads, the rx thread and the peer interleave.
ResponseIdMatches ==
    \A t \in Callers :
        pc[t] = "blocked" /\ rspq # NoPkt => rspq.id = req[t].id

\* Spec 8, single outstanding transaction: the stream never carries two
\* bus transactions of this channel at once, although several vCPU
\* threads issue accesses concurrently.
SingleOutstanding == MasterInFlight <= 1

\* The refinement mapping to RPChannel: a thread queues for the channel
\* once it has its id, owns it from rp_rsp_mutex_lock until the unlock
\* that follows the id check, and is done from then until it returns;
\* the response mutex is the channel's owner.
PhaseOf == [idle |-> "idle", lock |-> "queued", send |-> "owns",
            wait |-> "owns", blocked |-> "owns", syncread |-> "done",
            syncwrite |-> "done", leave |-> "done"]

Channel == INSTANCE RPChannel WITH
    Threads <- Callers,
    phase <- [t \in Callers |-> PhaseOf[pc[t]]],
    owner <- rspLock,
    ticket <- [t \in Callers |-> req[t].id],
    issued <- nextId,
    completed <- lastDone,
    answer <- got

\* Spec 4.3 and 5: rp_io_read / rp_io_write implement the channel's
\* promise. Ids are handed out in issue order though they are taken
\* before the mutex; one thread owns the channel at a time; each thread
\* is handed the answer to its own id (the assert of master.c:90, :144);
\* transactions complete in id order; and, with a peer that answers, a
\* thread waiting for the mutex gets it and its answer comes.
ChannelRefinement == Channel!ASpec

\* Once a thread holds the response mutex it eventually releases it: no
\* cycle of the BQL, the response mutex and the peer leaves a thread
\* blocked forever. A process that has aborted (an assert of rp_cmd_rw,
\* or rp_gpio_interrupt past gpio_out) releases nothing, so it is exempt.
RspMutexReleased == \A t \in Callers : rspLock = t ~> (rspLock # t \/ Aborted)

\* Spec 3 and 9: a channel's packet buffers are reused, grown and freed
\* at teardown, so serving the peer's requests never holds more than one.
DynPktBounded == dpkts <= 1

\* Spec 4.4 and scenario C: the tracked peer clock never regresses.
PeerClockMonotone == [][syncedClk' >= syncedClk]_syncedClk

\* Spec 4.4: the timestamps keep the two simulators causally ordered, so
\* the peer never reads a request of ours stamped earlier than one it read
\* before. rp_io_read / rp_io_write sample the clock before they take the
\* response mutex (master.c:80, :123) and send only once they hold it;
\* the timer callback does the same and rp_gpio_handler sends at once.
PeerSeesClockMonotone == [][peerSeen' >= peerSeen]_peerSeen

\* Spec 6: an interrupt carries a wire line (proto.h numbers them up to
\* WIRE_MAX), and the GPIO device applies the peer's interrupts to its
\* gpio_out lines: rp_gpio_interrupt never indexes gpio_out past the
\* num_gpios entries rp_gpio_realize allocated.
GpioLineInBounds == fault # "gpio_oob"

\* Spec 3 and 4.1: a bus access may have a beat width that divides
\* stream_width, or stream_width < len for streaming; the memory slave
\* serves every request of such a shape and answers it, rather than
\* aborting on the asserts of rp_cmd_rw.
SlaveAcceptsLegalAccess == fault # "slave_assert"

\* Spec 6 (a function to signal an interrupt level change): every GPIO
\* line eventually drives the level the peer last signalled on it. The
\* peer's interrupts pass the rx thread's queue and the iothread, which
\* may wait for the BQL behind vCPU threads, and rp_gpio_interrupt applies
\* each as it comes (gpio.c:55); none may be lost or applied out of order.
GpioLevelFollowsPeer ==
    \A l \in Lines : <>[](gpioOut[l] = peerLevel[l] \/ Aborted)

=============================================================================
