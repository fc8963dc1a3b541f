------------------------------ MODULE MCInputs ------------------------------
(* The tools of user space, the searches and the tables of frequencies for *)
(* TLC, one at a time: nothing of one reaches another.                     *)
EXTENDS MCTools, MCStateSearch

inputs == <<vars, asked>>

ToolsOff == LauncherOff /\ DaemonOff

InputsInit ==
    \/ Init /\ NoQuestion /\ NoTables
    \/ ToolsOff /\ AskInit

InputsNext ==
    \/ Next /\ UNCHANGED asked
    \/ ToolsOff /\ AskNext /\ UNCHANGED vars

InputsSpec == InputsInit /\ [][InputsNext]_inputs /\ LauncherFairness /\ DaemonFairness
=============================================================================
