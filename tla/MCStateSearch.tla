---------------------------- MODULE MCStateSearch ----------------------------
(* The searches and the tables of frequencies over every small input.      *)
EXTENDS Searches, CpufreqInit

CONSTANT MaxRaw     \* bound: entries in the driver's table, and frequencies

asked == <<question, tables>>

(* Driver tables in any order, with holes and with too many entries.       *)
SomeRaws == {<<4, 3, 2, 1>>, <<1, 0, 3, 2>>, <<2, 0, 1>>, <<5, 1, 4, 2, 3>>}
AllRaws == UNION {[1 .. k -> 0 .. MaxRaw] : k \in 0 .. MaxRaw}
SmallLists == UNION {[1 .. k -> -1 .. MaxStates] : k \in 0 .. MaxStates}

NoQuestion == question = [cpus |-> [s \in States |-> 1], tasks |-> [s \in States |-> 0],
                          old |-> 0, req |-> 0]
NoTables == raws = <<>> /\ given = <<>> /\ freq = Start(<<>>) /\ calls = 2

AskInit ==
    \/ SearchInit /\ NoTables
    \/ NoQuestion /\ TableInit([Cpu -> SomeRaws], SmallLists)
    \/ NoQuestion /\ TableInit({[c \in Cpu |-> r] : r \in AllRaws}, {<<>>})

AskNext ==
    \/ raws = <<>> /\ (\E o, r \in States : Ask(o, r)) /\ UNCHANGED tables
    \/ InitFreqs /\ UNCHANGED question

AskSpec == AskInit /\ [][AskNext]_asked
=============================================================================
