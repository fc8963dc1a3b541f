-------------------------------- MODULE MCPds --------------------------------
(* Instances of Pds for TLC.                                               *)
EXTENDS Pds

CONSTANTS c1, c2

TwoCPUs == {c1, c2}
IdleToFull == {0, 1, 4}
LowState == {0}
NoState == {}
ThreeMethods == {"ladder", "adaptive", "disable"}
SelectOnly == {"select"}
LadderIpcs == {IPC_LOW, IPC_LOW + 1, IPC_HIGH}
SelectIpcs == {0, 3, 5, 8, 9}
=============================================================================
