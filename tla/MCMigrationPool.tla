--------------------------- MODULE MCMigrationPool ---------------------------
(* Instances of MigrationPool for TLC.                                     *)
EXTENDS MigrationPool, TLC

CONSTANTS c1, c2, w1, w2, t1, t2, k1, k2

MCCPUs1 == {c1}
MCCPUs == {c1, c2}
MCWorkers1 == {w1}
MCWorkers == {w1, w2}
MCTasks == {t1, t2}
MCMasks == {k1, k2}
MCMasks1 == {k1}
MCOffline == {k2}
MCMortal1 == {t1}
NoOne == {}

Symmetric == Permutations(MCCPUs) \cup Permutations(MCWorkers)
=============================================================================
