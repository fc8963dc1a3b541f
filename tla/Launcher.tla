------------------------------ MODULE Launcher -------------------------------
(***************************************************************************)
(* The launcher of workloads (utils/launch.c): it reads the applications   *)
(* from its command line, forks a child for each, waits for the first one  *)
(* to end, with -k terminates the others, and waits for the rest.          *)
(*                                                                         *)
(* A command line is a sequence of words; the name of an application and   *)
(* its arguments are kept as words.                                        *)
(***************************************************************************)
EXTENDS Integers, Sequences, FiniteSetsExt

CONSTANTS
    CORE,           \* the keyword in front of an application
    MaxApps         \* bound: applications on a command line

ASSUME LauncherAssumption == MaxApps \in Nat

VARIABLES
    argv,           \* the words after the program's name, -k left out
    kill_slow_children,
    apps,           \* get_apps: [core, prog] of each application
    pc,             \* of the parent
    i,              \* its loop variable
    pids,           \* of each application: has its fork succeeded?
    child,          \* "none", "born", "grouped", "running", "ended", "reaped"
    wpid            \* the child the first wait returned; -1 if there was none

launcher == <<argv, kill_slow_children, apps, pc, i, pids, child, wpid>>

Apps == 0 .. MaxApps - 1

-----------------------------------------------------------------------------
count_num_apps == Cardinality({k \in DOMAIN argv : argv[k] = CORE})

NoApp == [core |-> "0", prog |-> <<>>]

(* Mutant: the word after the mask is taken for another mask.              *)
ReadWordLate(r, word) ==
    LET n == Len(r.apps)
        With(app) == [just |-> r.just + 1, apps |-> [r.apps EXCEPT ![n] = app], ok |-> r.ok]
    IN  IF word = CORE
        THEN [just |-> 1, apps |-> Append(r.apps, NoApp), ok |-> r.ok]
        ELSE IF r.just \in {1, 2} THEN With([core |-> word, prog |-> r.apps[n].prog])
        ELSE IF r.just >= 2
        THEN With([core |-> r.apps[n].core, prog |-> Append(r.apps[n].prog, word)])
        ELSE [just |-> r.just, apps |-> r.apps, ok |-> FALSE]

(* One more word.  just: the words seen of the current application; a word *)
(* before the first keyword is an error.                                   *)
ReadWord(r, word) ==
    LET n == Len(r.apps)
        With(app) == [just |-> r.just + 1, apps |-> [r.apps EXCEPT ![n] = app], ok |-> r.ok]
    IN  IF word = CORE
        THEN [just |-> 1, apps |-> Append(r.apps, NoApp), ok |-> r.ok]
        ELSE IF r.just = 1 THEN With([core |-> word, prog |-> r.apps[n].prog])
        ELSE IF r.just >= 2
        THEN With([core |-> r.apps[n].core, prog |-> Append(r.apps[n].prog, word)])
        ELSE [just |-> r.just, apps |-> r.apps, ok |-> FALSE]

(* The words are read one after the other; the choice is from one element, *)
(* so that the words before are read once.                                 *)
get_apps ==
    LET read[k \in 0 .. Len(argv)] ==
            IF k = 0 THEN [just |-> 0, apps |-> <<>>, ok |-> TRUE]
            ELSE CHOOSE s \in {ReadWord(r, argv[k]) : r \in {read[k - 1]}} : TRUE
    IN  read[Len(argv)]

LauncherInit(lines) ==
    /\ argv \in lines /\ kill_slow_children \in BOOLEAN
    /\ apps = <<>> /\ pc = "parse" /\ i = 0 /\ wpid = -1
    /\ pids = [k \in Apps |-> FALSE] /\ child = [k \in Apps |-> "none"]

LauncherOff ==
    /\ argv = <<>> /\ kill_slow_children = FALSE
    /\ apps = <<>> /\ pc = "usage" /\ i = 0 /\ wpid = -1
    /\ pids = [k \in Apps |-> FALSE] /\ child = [k \in Apps |-> "none"]

(* get_options asks for three words, -k among them; -h ends the program    *)
(* with its help.                                                          *)
get_options == Len(argv) + (IF kill_slow_children THEN 1 ELSE 0) >= 3

Parse ==
    /\ pc = "parse"
    /\ \E r \in {get_apps} :
          LET valid == /\ get_options /\ r.ok /\ r.just > 2
                       /\ Len(r.apps) = count_num_apps
          IN  /\ apps' = IF valid THEN r.apps ELSE <<>>
              /\ pc' = IF valid THEN "fork" ELSE "usage"
    /\ UNCHANGED <<argv, kill_slow_children, i, pids, child, wpid>>

-----------------------------------------------------------------------------
(* The parent.  A fork that fails is not noticed.                          *)
Fork(succeeds) ==
    /\ pc = "fork"
    /\ pids' = [pids EXCEPT ![i] = succeeds]
    /\ child' = [child EXCEPT ![i] = IF succeeds THEN "born" ELSE "none"]
    /\ i' = IF i + 1 = Len(apps) THEN 0 ELSE i + 1
    /\ pc' = IF i + 1 = Len(apps) THEN "wait" ELSE "fork"
    /\ UNCHANGED <<argv, kill_slow_children, apps, wpid>>

(* wait returns a child that has ended, or -1 when there is no child left. *)
Waited(k) ==
    \/ k \in Apps /\ child[k] = "ended" /\ child' = [child EXCEPT ![k] = "reaped"]
    \/ k = -1 /\ (\A c \in Apps : child[c] \in {"none", "reaped"}) /\ UNCHANGED child

WaitFirst(k) ==
    /\ pc = "wait" /\ Waited(k)
    /\ wpid' = k
    /\ pc' = IF kill_slow_children THEN "kill" ELSE "rest"
    /\ UNCHANGED <<argv, kill_slow_children, apps, i, pids>>

InGroup(k) == child[k] \in {"grouped", "running"}

(* Mutant: the loop stops at the child that ended first.                   *)
KillBreaks ==
    /\ pc = "kill"
    /\ child' = IF i # wpid /\ InGroup(i) THEN [child EXCEPT ![i] = "ended"] ELSE child
    /\ i' = IF i + 1 = Len(apps) \/ i = wpid THEN 0 ELSE i + 1
    /\ pc' = IF i + 1 = Len(apps) \/ i = wpid THEN "rest" ELSE "kill"
    /\ UNCHANGED <<argv, kill_slow_children, apps, pids, wpid>>

(* killpg reaches a child only once it is in a group of its own.           *)
Kill ==
    /\ pc = "kill"
    /\ child' = IF i # wpid /\ InGroup(i) THEN [child EXCEPT ![i] = "ended"] ELSE child
    /\ i' = IF i + 1 = Len(apps) THEN 0 ELSE i + 1
    /\ pc' = IF i + 1 = Len(apps) THEN "rest" ELSE "kill"
    /\ UNCHANGED <<argv, kill_slow_children, apps, pids, wpid>>

(* Mutant: the first child is counted twice.                               *)
WaitRestShort(k) ==
    /\ pc = "rest"
    /\ IF i < Len(apps) - 2 THEN Waited(k) /\ i' = i + 1 /\ UNCHANGED pc
       ELSE k = -1 /\ pc' = "end" /\ UNCHANGED <<child, i>>
    /\ UNCHANGED <<argv, kill_slow_children, apps, pids, wpid>>

WaitRest(k) ==
    /\ pc = "rest"
    /\ IF i < Len(apps) - 1 THEN Waited(k) /\ i' = i + 1 /\ UNCHANGED pc
       ELSE k = -1 /\ pc' = "end" /\ UNCHANGED <<child, i>>
    /\ UNCHANGED <<argv, kill_slow_children, apps, pids, wpid>>

Parent ==
    \/ Parse
    \/ \E s \in BOOLEAN : Fork(s)
    \/ \E k \in Apps \cup {-1} : WaitFirst(k) \/ WaitRest(k)
    \/ Kill

-----------------------------------------------------------------------------
(* A child sets its group and its affinity and runs its application.       *)
ChildStep(k, from, to) ==
    /\ child[k] = from /\ child' = [child EXCEPT ![k] = to]
    /\ UNCHANGED <<argv, kill_slow_children, apps, pc, i, pids, wpid>>

SetGroup(k) == ChildStep(k, "born", "grouped")
launch(k) == ChildStep(k, "grouped", "running")
Exit(k) == ChildStep(k, "running", "ended")

LauncherNext ==
    \/ Parent
    \/ \E k \in Apps : SetGroup(k) \/ launch(k) \/ Exit(k)

(* Processes run; an application need not end by itself.                   *)
LauncherFairness == WF_launcher(Parent) /\ \A k \in Apps : WF_launcher(SetGroup(k))

-----------------------------------------------------------------------------
(* The command line is split as its author meant it: each keyword begins   *)
(* an application, the word behind it is the mask, the words up to the     *)
(* next keyword are the command.                                           *)
ParsedAsMeant ==
    LET keys == {k \in DOMAIN argv : argv[k] = CORE}
        upto(k) == Min({l \in keys : l > k} \cup {Len(argv) + 1}) - 1
        app(k) == [core |-> IF upto(k) > k THEN argv[k + 1] ELSE "0",
                   prog |-> SubSeq(argv, k + 2, upto(k))]
        rank(k) == Cardinality({l \in keys : l <= k})
    IN  pc \notin {"parse", "usage"} =>
            /\ Len(apps) = Cardinality(keys) /\ 1 \in keys
            /\ \A k \in keys : apps[rank(k)] = app(k)

(* The launcher ends after all the children it forked, in whatever order   *)
(* they end, are killed, or could not be forked.                           *)
AllReaped == pc = "end" => \A k \in Apps : child[k] \in {"none", "reaped"}

(* With -k the launcher ends once one application has, if the others have  *)
(* got as far as a group of their own when it begins to kill them, even if *)
(* they would run forever.                                                 *)
KillEndsAll ==
    (pc = "kill" /\ i = 0 /\ \A k \in Apps : child[k] # "born") ~> pc = "end"
=============================================================================
