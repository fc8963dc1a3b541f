---------------------------- MODULE MCGreedyDelta ----------------------------
(* Instances of the mutators for TLC.                                       *)
EXTENDS DynamicProg

(* A value no bid exceeds, one that loses to every bid, and one between.   *)
SomeGarbage == {-1, NState, 3 * NState}
=============================================================================
