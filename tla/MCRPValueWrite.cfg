\* Stores of every size of two values through two regions,
\* and reads of what they left, from zeroed memory.
CONSTANTS
    Offsets <- MCOffsetsApart
    Addrs = {0}
    Sizes = {2, 8}
    ByteVals = {0}
    MemSize = 16
    WriteVals <- MCWriteVals
    NoRead = NoRead
    NoWrite = NoWrite
SPECIFICATION Spec
INVARIANT WriteStoresLittleEndian
INVARIANT FramesMatchHeader
