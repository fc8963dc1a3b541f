---------------------------- MODULE MCAccounting ----------------------------
(* Instances of Accounting for TLC.                                        *)
EXTENDS Accounting, TLC

\* Tasks that differ in nothing but their name.
Symm == Permutations(Task)
=============================================================================
