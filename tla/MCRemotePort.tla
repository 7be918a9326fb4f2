---------------------------- MODULE MCRemotePort ----------------------------
(* Model-checking instance of RemotePort: one GPIO line (num_gpios = 1),   *)
(* and the peer's inputs, either within what the devices accept or past it.*)
EXTENDS RemotePort

MCLines == {0}

\* A wire line past num_gpios (proto.h allows lines up to WIRE_MAX).
MCPeerLinesStray == {0, 1}

MCShapesPlain == {"plain"}

\* Width fields spec 3 allows: a beat width, and a streaming access.
MCShapesAll == {"plain", "beats", "stream"}

\* One shape rp_cmd_rw accepts and one its asserts refuse.
MCShapesBeat == {"plain", "beats"}
=============================================================================
