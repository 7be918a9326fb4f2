------------------------------ MODULE RPValue ------------------------------
(***************************************************************************)
(* The data path of a bus access through the memory master and a memory    *)
(* slave: rp_io_write packs the value into the payload byte by byte, the   *)
(* slave's rp_cmd_rw moves len bytes between the payload and its address   *)
(* space, and rp_io_read assembles the value from the response's bytes.    *)
(*                                                                         *)
(* A 64-bit value is kept as its eight bytes, least significant first,     *)
(* because TLC's integers are narrower than 64 bits; every shift, integer  *)
(* promotion and conversion of the C code is modelled on those bytes.      *)
(***************************************************************************)
EXTENDS Integers, Bitwise

CONSTANTS
    Offsets,    \* cfg.mapoffset: the offset of each of the master's regions
    Addrs,      \* addresses inside a region the guest accesses
    Sizes,      \* access sizes, 1 .. 8 (rp_io_write asserts size <= 8)
    ByteVals,   \* byte values memory and written values are made of
    MemSize,    \* bytes of the slave's address space
    WriteVals,  \* the uint64_t values the guest stores, as byte vectors
    NoRead,     \* lastRead before any read
    NoWrite     \* lastWrite before any write

ASSUME /\ Sizes \subseteq 1 .. 8 /\ ByteVals \subseteq 0 .. 255
       /\ WriteVals \subseteq [0 .. 7 -> 0 .. 255]
       /\ \A k \in DOMAIN Offsets, a \in Addrs, s \in Sizes :
              Offsets[k] + a + s <= MemSize

VARIABLES
    mem,        \* the slave's address space, byte per address
    lastRead,   \* the last read: bytes the slave returned, size, result
    lastWrite,  \* history: the last write's region, address, size, value
    frames      \* history: the request and response the last access wrote
                \* to the stream

vars == <<mem, lastRead, lastWrite, frames>>

-----------------------------------------------------------------------------
Byte == 0 .. 255
Word == [0 .. 7 -> Byte]          \* uint64_t, byte j has weight 2^(8j)
Addr == 0 .. MemSize - 1

\* uint64_t >> (8k), then the conversion to uint8_t keeps the low byte.
Shr64(v, k) == [j \in 0 .. 7 |-> IF j + k <= 7 THEN v[j + k] ELSE 0]
ToU8(v) == v[0]

\* Mutant: the payload packed most significant byte first.
PayloadOfBigEndian(value) == [i \in 0 .. 7 |-> ToU8(Shr64(value, 7 - i))]

\* rp_io_write: pay.data[i] = value >> (i * 8), for all eight bytes.
PayloadOf(value) == [i \in 0 .. 7 |-> ToU8(Shr64(value, i))]

\* data[i] << (8k) for k < 4: the uint8_t is promoted to int first.
ShlInt(b, k) == [j \in 0 .. 3 |-> IF j = k THEN b ELSE 0]

\* The shift count i * 8 reaches the width of int from i = 4 on, which is
\* undefined: the builds shift by the count modulo 32 (x86, AArch64) or
\* yield 0 (a 32-bit Arm register shift).
ShiftOutcomes(b, i) ==
    IF i < 4 THEN {ShlInt(b, i)}
    ELSE {ShlInt(b, i - 4), [j \in 0 .. 3 |-> 0]}

\* value |= int: the int is converted to uint64_t, sign-extending.
IntToU64(x) == [j \in 0 .. 7 |-> IF j < 4 THEN x[j]
                                  ELSE IF x[3] >= 128 THEN 255 ELSE 0]

Or64(a, b) == [j \in 0 .. 7 |-> a[j] | b[j]]

\* The loop of rp_io_read from index i on, with value so far: the set of
\* results the builds can produce.
RECURSIVE ReadLoop(_, _, _, _)
ReadLoop(data, size, i, value) ==
    IF i >= size THEN {value}
    ELSE UNION {ReadLoop(data, size, i + 1, Or64(value, IntToU64(x))) :
                  x \in ShiftOutcomes(data[i], i)}

ZeroWord == [j \in 0 .. 7 |-> 0]

ReadValues(data, size) == ReadLoop(data, size, 0, ZeroWord)

\* Reference: size bytes read little-endian into a uint64_t.
LittleEndian(data, size) == [j \in 0 .. 7 |-> IF j < size THEN data[j] ELSE 0]

\* rp_memory_master_realize: region k starts at mapoffset[k]; the master
\* sends addr + map->offset.
BusAddr(k, a) == a + Offsets[k]

-----------------------------------------------------------------------------
(* Framing: what rp_write puts on the stream for each packet.              *)

\* struct rp_pkt_hdr: five packed uint32_t fields.
HdrSize == 5 * 4

\* struct rp_pkt_busaccess: the header, timestamp, attributes and addr
\* (uint64_t), then len, width and stream_width (uint32_t), packed.
BusaccessSize == HdrSize + 3 * 8 + 3 * 4

\* rp_encode_read / _write / _read_resp / _write_resp: the header's len
\* counts the payload after the header, trailing data included (spec 3);
\* the result is what the callers hand to rp_write: the struct alone for
\* a write, whose data the master appends (len + size, master.c:139), the
\* struct and data for a read response (enclen == pktlen, slave.c:98).
EncodeRead(size) ==
    [hlen |-> BusaccessSize - HdrSize, ret |-> BusaccessSize]
EncodeWrite(size) ==
    [hlen |-> BusaccessSize - HdrSize + size, ret |-> BusaccessSize]
EncodeReadResp(size) ==
    [hlen |-> BusaccessSize - HdrSize + size, ret |-> BusaccessSize + size]
EncodeWriteResp(size) ==
    [hlen |-> BusaccessSize - HdrSize, ret |-> BusaccessSize]

\* A packet as rp_write sends it: its header's len, its busaccess len, the
\* bytes sent, and those of them after the struct, which is where
\* rp_busaccess_dataptr ("right after the packet") finds the data.
Frame(enc, size, sent, bytes) ==
    [hlen |-> enc.hlen, blen |-> size, sent |-> sent,
     data |-> [i \in 0 .. sent - BusaccessSize - 1 |-> bytes[i]]]

\* The receiver reads a header and then len more bytes (spec 4.1): the
\* data after the struct are the bytes the sender wrote and, if it wrote
\* fewer than its header announced, the next bytes the stream carries.
Received(f) ==
    {[i \in 0 .. 7 |-> IF i \in DOMAIN f.data THEN f.data[i] ELSE g] :
        g \in ByteVals}

\* Mutant: rp_write(s->rp, &pay, len), the data left off.
WriteRequestNoData(value, size) ==
    LET enc == EncodeWrite(size) IN Frame(enc, size, enc.ret, PayloadOf(value))

\* rp_io_write: pay is the struct followed by data[8]; it sends the
\* encoded struct and size bytes of data.
WriteRequest(value, size) ==
    LET enc == EncodeWrite(size) IN
    Frame(enc, size, enc.ret + size, PayloadOf(value))

\* rp_io_read: the encoded struct alone.
ReadRequest(size) ==
    LET enc == EncodeRead(size) IN Frame(enc, size, enc.ret, ZeroWord)

\* rp_cmd_rw: pktlen is the struct, plus len for a read, whose data the
\* DMA puts at rsp.pkt + 1; the encoder's result must equal it (the
\* assert of slave.c:98), and pktlen bytes are written.
SlavePktLen(cmd, size) ==
    BusaccessSize + (IF cmd = "read" THEN size ELSE 0)
SlaveEnc(cmd, size) ==
    IF cmd = "read" THEN EncodeReadResp(size) ELSE EncodeWriteResp(size)
SlaveResponse(cmd, size, bytes) ==
    Frame(SlaveEnc(cmd, size), size, SlavePktLen(cmd, size), bytes)

-----------------------------------------------------------------------------
\* rp_memory_master_write -> rp_cmd_rw: the payload's first len bytes are
\* written to the slave's address space at the packet's address.
SlaveWrite(pa, data, size) ==
    mem' = [x \in Addr |-> IF pa <= x /\ x < pa + size THEN data[x - pa]
                                                     ELSE mem[x]]

\* rp_memory_master_read -> rp_cmd_rw: len bytes of the address space are
\* read into the response's payload.
SlaveRead(pa, size) == [i \in 0 .. 7 |-> IF i < size THEN mem[pa + i] ELSE 0]

\* rp_io_write through region k: the request crosses the stream and the
\* slave writes len bytes from its data pointer, then answers.
IoWrite(k, a, size, value) ==
    LET req == WriteRequest(value, size) IN
    /\ SlaveEnc("write", size).ret = SlavePktLen("write", size)
    /\ \E data \in Received(req) : SlaveWrite(BusAddr(k, a), data, req.blen)
    /\ frames' = <<req, SlaveResponse("write", size, ZeroWord)>>
    /\ lastWrite' = [region |-> k, addr |-> a, size |-> size, value |-> value]
    /\ UNCHANGED lastRead

\* rp_io_read through region k: the slave answers with the bytes it read,
\* and the loop assembles those the master finds at its data pointer.
IoRead(k, a, size) ==
    LET rsp == SlaveResponse("read", size, SlaveRead(BusAddr(k, a), size)) IN
    /\ SlaveEnc("read", size).ret = SlavePktLen("read", size)
    /\ \E data \in Received(rsp) :
          \E v \in ReadValues(data, size) :
              lastRead' = [data |-> data, size |-> size, value |-> v]
    /\ frames' = <<ReadRequest(size), rsp>>
    /\ UNCHANGED <<mem, lastWrite>>

Init ==
    /\ mem \in [Addr -> ByteVals]
    /\ lastRead = NoRead
    /\ lastWrite = NoWrite
    /\ frames = <<>>

Next ==
    \E k \in DOMAIN Offsets, a \in Addrs, size \in Sizes :
        \/ \E value \in WriteVals : IoWrite(k, a, size, value)
        \/ IoRead(k, a, size)

Spec == Init /\ [][Next]_vars

-----------------------------------------------------------------------------
TypeOK ==
    /\ mem \in [Addr -> Byte]
    /\ lastRead \in {NoRead} \cup [data : Word, size : Sizes, value : Word]
    /\ lastWrite \in {NoWrite} \cup [region : DOMAIN Offsets, addr : Addrs,
                                      size : Sizes, value : WriteVals]
    /\ \A i \in DOMAIN frames :
          /\ frames[i].blen \in Sizes /\ frames[i].sent >= BusaccessSize
          /\ frames[i].data \in [0 .. frames[i].sent - BusaccessSize - 1 -> Byte]

\* Spec 4.3 and scenario A: a read returns the size bytes of the response
\* little-endian (AA BB CC DD reads as 0xDDCCBBAA), the value rp_io_read
\* assembles in its loop over data[i] << (i * 8).
ReadReturnsData ==
    lastRead # NoRead =>
        lastRead.value = LittleEndian(lastRead.data, lastRead.size)


\* Spec 4.3 and scenario B: a store of size bytes through region k puts
\* the value's low size bytes, least significant first, at the slave's
\* address addr + mapoffset[k] (rp_io_write packs the payload, the
\* master adds map->offset, rp_cmd_rw writes len bytes there).
WriteStoresLittleEndian ==
    lastWrite # NoWrite =>
        \A j \in 0 .. lastWrite.size - 1 :
            mem[Offsets[lastWrite.region] + lastWrite.addr + j]
                = lastWrite.value[j]

\* Spec 3 and 8, the header length invariant: every packet of an access
\* is written with exactly the bytes its header announces, so the reader
\* finds the next header where it starts. rp_io_write sends the struct
\* and size bytes of data (len + size, master.c:139); rp_cmd_rw sends
\* pktlen, the struct and, for a read, the data after it (slave.c:52-59).
FramesMatchHeader ==
    \A i \in DOMAIN frames : frames[i].sent = HdrSize + frames[i].hlen

=============================================================================
