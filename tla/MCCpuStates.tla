----------------------------- MODULE MCCpuStates -----------------------------
(* Instances of CpuStates for TLC.                                         *)
EXTENDS CpuStates

CONSTANTS u1, u2

NoUser == {}
OneUser == {u1}
TwoUsers == {u1, u2}

AllMutations == {"static", "ondemand", "conservative", "delta"}
DeltaOnly == {"delta"}
StaticOnly == {"static"}
ButDelta == {"static", "ondemand", "conservative"}
Never == {}
=============================================================================
