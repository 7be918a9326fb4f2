------------------------------ MODULE MCRPValue ------------------------------
(* Two regions of the memory master, at different offsets of the slave.   *)
EXTENDS RPValue

MCOffsets == <<0, 2>>

\* Two regions that do not overlap, at offsets 0 and 8.
MCOffsetsApart == <<0, 8>>

\* No stores: reads of what memory initially holds.
MCNoWrites == {}

\* Scenario B's 0x1234, and 0x88B7A695C4332211: a top bit set in byte 3
\* and in every byte above it.
AsWord(s) == [j \in 0 .. 7 |-> s[j + 1]]

MCWriteVals == {AsWord(<<52, 18, 0, 0, 0, 0, 0, 0>>),
                AsWord(<<17, 34, 51, 196, 149, 166, 183, 136>>)}
=============================================================================
