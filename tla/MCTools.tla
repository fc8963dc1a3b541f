------------------------------- MODULE MCTools -------------------------------
(* The user space tools for TLC, one at a time.                            *)
EXTENDS Launcher, LogDaemon

CONSTANTS
    Word,           \* the words of a command line
    MaxWords        \* bound: words on the launcher's command line

ASSUME ToolsAssumption == MaxWords \in Nat

vars == <<launcher, daemon>>

Lines == {l \in UNION {[1 .. n -> Word] : n \in 0 .. MaxWords} :
             Cardinality({k \in DOMAIN l : l[k] = CORE}) <= MaxApps}

Init == (LauncherInit(Lines) /\ DaemonOff) \/ (LauncherOff /\ DaemonInit)

Next == (LauncherNext /\ UNCHANGED daemon) \/ (DaemonNext /\ UNCHANGED launcher)

Spec == Init /\ [][Next]_vars /\ LauncherFairness /\ DaemonFairness
=============================================================================
