\* Reads of every size from memory holding 0x00 and 0xDD bytes, through
\* two regions at different offsets.
CONSTANTS
    Offsets <- MCOffsets
    Addrs = {0}
    Sizes = {1, 2, 4, 8}
    ByteVals = {0, 221}
    MemSize = 10
    WriteVals <- MCNoWrites
    NoRead = NoRead
    NoWrite = NoWrite
SPECIFICATION Spec
INVARIANT ReadReturnsData
