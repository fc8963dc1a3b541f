----------------------------- MODULE MCLifecycle -----------------------------
(* Instances of Lifecycle for TLC.                                         *)
EXTENDS Lifecycle

(* Where scheduler_init returns an error.                                  *)
AllRefusals == {"params", "tsc", "counters", "log", "probes"}
=============================================================================
