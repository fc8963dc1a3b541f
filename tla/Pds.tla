--------------------------------- MODULE Pds ---------------------------------
(***************************************************************************)
(* put_mask_from_stats and initial_mask (seeker-scheduler/pds.c): when a   *)
(* task leaves a cpu or is forked, a performance state is chosen for it    *)
(* from the table of states, read under states_seq_lock, which retries     *)
(* when a writer was at work: the commit of a mutator or the inform        *)
(* callback.  The request then goes to the migration pool.                 *)
(*                                                                         *)
(* One cpu decides; a writer stores the entries of the table one by one,   *)
(* in any order, between the two increments of the sequence number.  The   *)
(* numbers of runnable tasks change all the time and are read anew at each *)
(* search.                                                                 *)
(***************************************************************************)
EXTENDS StateSearch, FiniteSets, Functions

CONSTANTS
    CPUs,           \* the cpus, all of them in total_online_mask
    ThisCPU,        \* the cpu that decides
    Methods,        \* values of scheduling_method
    Ipcs,           \* values of a task's ipc
    Fixed,          \* the states a task may be fixed to (low, mid, high)
    base_state,
    Disabled,       \* disable_scheduling, set for the governors among the mutators
    Loads,          \* numbers of runnable tasks of one state
    MaxWrites,      \* bound: write sections
    MaxDecisions,   \* bound: decisions
    None            \* the task is not fixed to a state

ASSUME PdsAssumption ==
    /\ ThisCPU \in CPUs /\ IsFiniteSet(CPUs)
    /\ NState <= MAX_STATES    \* init_freqs keeps no more than that
    /\ Methods \subseteq {"ladder", "select", "adaptive", "disable"} /\ Ipcs \subseteq Nat
    /\ Fixed \subseteq States /\ base_state \in States /\ Disabled \in BOOLEAN
    /\ Loads \subseteq Nat /\ MaxWrites \in Nat /\ MaxDecisions \in Nat

VARIABLES
    seq,                            \* states_seq_lock
    cpumask, cpus, cur_cpu_state,
    todo, goal, clears,             \* writer: entries left, the table they come from
    demand,                         \* states[].demand
    decisions,                      \* history: decisions made
    pc, seq0, state,                \* reader: step, sequence number, state of this cpu
    ipc, fixed, step,               \* the task: ipc, fixed_state, hist_step
    new_state, state_req, mask,
    cpus_allowed,                   \* the mask last requested for the task
    scheduling_method

table  == <<cpumask, cpus, cur_cpu_state>>
writer == <<todo, goal, clears>>
choice == <<new_state, state_req, mask>>
task   == <<ipc, fixed, step, cpus_allowed, scheduling_method>>
hints  == <<demand, decisions>>
vars == <<seq, table, writer, hints, pc, seq0, state, choice, task>>

NoTable == [cpumask |-> [s \in States |-> {}], cpus |-> [s \in States |-> 0],
            cur |-> [c \in CPUs |-> 0]]

PC == {"idle", "begin", "search", "mask", "retry", "count", "put",
       "fbegin", "fsearch", "fmask", "fretry", "fput"}

TypeOK ==
    /\ seq \in 0 .. 2 * MaxWrites /\ seq0 \in 0 .. 2 * MaxWrites
    /\ cpumask \in [States -> SUBSET CPUs] /\ cpus \in [States -> Int]
    /\ cur_cpu_state \in [CPUs -> States]
    /\ todo \subseteq States /\ clears \in BOOLEAN
    /\ goal \in [cpumask : [States -> SUBSET CPUs], cpus : [States -> Int],
                 cur : [CPUs -> States]]
    /\ demand \in [0 .. MAX_STATES - 1 -> Nat]
    /\ decisions \in 0 .. MaxDecisions
    /\ pc \in PC /\ state \in States
    /\ scheduling_method \in Methods
    /\ ipc \in Ipcs \cup {0} /\ fixed \in Fixed \cup {None}
    /\ step \in -NState .. NState    \* 1 also with a single state
    /\ new_state \in States \cup {-1} /\ state_req \in 0 .. MAX_STATES - 1
    /\ mask \subseteq CPUs /\ cpus_allowed \subseteq CPUs

(* The decisions before have left the task any step.                       *)
Init ==
    /\ seq = 0 /\ seq0 = 0
    /\ cur_cpu_state \in [CPUs -> States]
    /\ cpumask = [s \in States |-> {c \in CPUs : cur_cpu_state[c] = s}]
    /\ cpus = [s \in States |-> Cardinality(cpumask[s])]
    /\ todo = {} /\ clears = FALSE
    /\ goal = NoTable
    /\ demand = [s \in 0 .. MAX_STATES - 1 |-> 0] /\ decisions = 0
    /\ pc = "idle" /\ state = 0
    /\ scheduling_method \in Methods
    /\ step \in IF scheduling_method = "adaptive" THEN -NState .. NState - 1 ELSE {0}
    /\ ipc = 0 /\ fixed = None
    /\ new_state = -1 /\ state_req = 0 /\ mask = {}
    /\ cpus_allowed = CPUs

-----------------------------------------------------------------------------
(* A write section.  A mutator's stores a layout l of the cpus U it uses   *)
(* and clears the demand; the inform callback's moves one cpu.             *)

InSection == seq % 2 = 1

WriteBegin == /\ ~InSection /\ seq + 2 <= 2 * MaxWrites
              /\ seq' = seq + 1

MutatorWrites(U, l) ==
    /\ WriteBegin
    /\ U # {} /\ \A c \in CPUs \ U : l[c] = cur_cpu_state[c]
    /\ LET in(s) == {c \in U : l[c] = s}
       IN  goal' = [cpumask |-> [s \in States |-> in(s)],
                    cpus |-> [s \in States |-> Cardinality(in(s))],
                    cur |-> cur_cpu_state]
    /\ todo' = States /\ clears' = TRUE
    /\ UNCHANGED <<table, hints, pc, seq0, state, choice, task>>

InformWrites(c, s) ==
    /\ WriteBegin
    /\ cur_cpu_state[c] # s
    /\ LET old == cur_cpu_state[c]
           set == [cpumask EXCEPT ![s] = @ \cup {c}]
       IN  /\ goal' = [cpumask |-> [set EXCEPT ![old] = @ \ {c}],
                       cpus |-> [cpus EXCEPT ![s] = @ + 1, ![old] = @ - 1],
                       cur |-> [cur_cpu_state EXCEPT ![c] = s]]
           /\ todo' = {s, old} /\ clears' = FALSE
    /\ UNCHANGED <<table, hints, pc, seq0, state, choice, task>>

WriteState(s) ==
    /\ s \in todo
    /\ cpumask' = [cpumask EXCEPT ![s] = goal.cpumask[s]]
    /\ cpus' = [cpus EXCEPT ![s] = goal.cpus[s]]
    /\ demand' = IF clears THEN [demand EXCEPT ![s] = 0] ELSE demand
    /\ todo' = todo \ {s}
    /\ UNCHANGED <<seq, cur_cpu_state, goal, clears, decisions>>
    /\ UNCHANGED <<pc, seq0, state, choice, task>>

WriteEnd ==
    /\ InSection /\ todo = {}
    /\ seq' = seq + 1
    /\ cur_cpu_state' = goal.cur
    /\ goal' = NoTable
    /\ UNCHANGED <<cpumask, cpus, todo, clears, hints, pc, seq0, state, choice, task>>

-----------------------------------------------------------------------------
(* A task that has executed enough instructions is switched out, or is     *)
(* forked with no history.                                                 *)

SwitchOut(i, f) ==
    /\ pc = "idle" /\ decisions < MaxDecisions
    /\ f # None => i = 0    \* no ipc is computed for a task that is fixed
    /\ ipc' = i /\ fixed' = f
    /\ decisions' = decisions + 1
    /\ pc' = "begin"
    /\ UNCHANGED <<seq, table, writer, demand, seq0, state, choice>>
    /\ UNCHANGED <<step, cpus_allowed, scheduling_method>>

Fork ==
    /\ pc = "idle" /\ decisions < MaxDecisions
    /\ decisions' = decisions + 1
    /\ pc' = "fbegin"
    /\ UNCHANGED <<seq, table, writer, demand, seq0, state, choice, task>>

(* The locals of both functions end with the call.                         *)
Return ==
    /\ pc' = "idle"
    /\ seq0' = 0 /\ state' = 0
    /\ new_state' = -1 /\ state_req' = 0 /\ mask' = {}
    /\ ipc' = 0 /\ fixed' = None
    /\ UNCHANGED <<seq, table, writer, hints, scheduling_method>>

(* read_seqbegin waits for the end of a write section.                     *)
ReadBegin ==
    /\ pc \in {"begin", "fbegin"} /\ ~InSection
    /\ seq0' = seq
    /\ state' = cur_cpu_state[ThisCPU]
    /\ pc' = IF pc = "begin" THEN "search" ELSE "fsearch"
    /\ UNCHANGED <<seq, table, writer, hints, choice, task>>

(* The choice of a state.  A retry comes here again with the step the      *)
(* attempt before has left.                                                *)
SearchFixed(tasks) ==
    /\ pc = "search" /\ fixed # None
    /\ state_req' = fixed
    /\ new_state' = search_state_closest(state, fixed, cpus, tasks)
    /\ pc' = "mask"
    /\ UNCHANGED <<seq, table, writer, hints, seq0, state, mask, task>>

EvaluateIpc(tasks) ==
    /\ pc = "search" /\ fixed = None
    /\ LET chosen == evaluate_ipc(scheduling_method, ipc, state, step, cpus, tasks)
       IN  /\ state_req' = chosen.state_req
           /\ new_state' = chosen.new_state
           /\ step' = chosen.step
    /\ pc' = "mask"
    /\ UNCHANGED <<seq, table, writer, hints, seq0, state, mask>>
    /\ UNCHANGED <<ipc, fixed, cpus_allowed, scheduling_method>>

SearchBase(tasks) ==
    /\ pc = "fsearch"
    /\ new_state' = search_state_closest(state, base_state, cpus, tasks)
    /\ pc' = "fmask"
    /\ UNCHANGED <<seq, table, writer, hints, seq0, state, state_req, mask, task>>

ReadMask ==
    /\ pc \in {"mask", "fmask"}
    /\ mask' = IF new_state \in States THEN cpumask[new_state] ELSE mask
    /\ pc' = IF pc = "mask" THEN "retry" ELSE "fretry"
    /\ UNCHANGED <<seq, table, writer, hints, seq0, state, new_state, state_req, task>>

(* Mutant: what was read is taken without a second look at the sequence.   *)
ReadRetryNever ==
    /\ pc \in {"retry", "fretry"}
    /\ pc' = IF pc = "retry" THEN "count" ELSE "fput"
    /\ UNCHANGED <<seq, table, writer, hints, seq0, state, choice, task>>

(* Mutant: the hint is counted inside the loop.                            *)
ReadRetryCounts ==
    /\ pc \in {"retry", "fretry"}
    /\ demand' = IF pc = "retry" THEN [demand EXCEPT ![state_req] = @ + 1] ELSE demand
    /\ pc' = IF pc = "retry" THEN IF seq = seq0 THEN "put" ELSE "begin"
                             ELSE IF seq = seq0 THEN "fput" ELSE "fbegin"
    /\ UNCHANGED <<seq, table, writer, decisions, seq0, state, choice, task>>

ReadRetry ==
    /\ pc \in {"retry", "fretry"}
    /\ pc' = IF pc = "retry" THEN IF seq = seq0 THEN "count" ELSE "begin"
                             ELSE IF seq = seq0 THEN "fput" ELSE "fbegin"
    /\ UNCHANGED <<seq, table, writer, hints, seq0, state, choice, task>>

DemandInc ==
    /\ pc = "count"
    /\ demand' = [demand EXCEPT ![state_req] = @ + 1]
    /\ pc' = "put"
    /\ UNCHANGED <<seq, table, writer, decisions, seq0, state, choice, task>>

(* A task that finds no cpu keeps the mask it has.                         *)
PutWork ==
    /\ pc = "put"
    /\ cpus_allowed' = IF mask = {} \/ Disabled \/ scheduling_method = "disable"
                      THEN cpus_allowed ELSE mask
    /\ Return /\ UNCHANGED step

(* A new task is put on all cpus if it finds none.                         *)
PutInitialWork ==
    /\ pc = "fput"
    /\ cpus_allowed' = IF mask = {} THEN CPUs ELSE mask
    /\ step' = 0
    /\ Return

-----------------------------------------------------------------------------
Writes ==
    \/ \E U \in SUBSET CPUs, l \in [CPUs -> States] : MutatorWrites(U, l)
    \/ \E c \in CPUs, s \in States : InformWrites(c, s)
    \/ \E s \in States : WriteState(s)
    \/ WriteEnd

Decides ==
    \/ \E i \in Ipcs \cup {0}, f \in Fixed \cup {None} : SwitchOut(i, f)
    \/ Fork \/ ReadBegin
    \/ \E tasks \in [States -> Loads] :
           SearchFixed(tasks) \/ EvaluateIpc(tasks) \/ SearchBase(tasks)
    \/ ReadMask \/ ReadRetry \/ DemandInc \/ PutWork \/ PutInitialWork

Next == Writes \/ Decides

Spec == Init /\ [][Next]_vars

-----------------------------------------------------------------------------
(* When the loop ends, the mask is that of the chosen state in the table   *)
(* as it is at that instant, and the table gives that state cpus: no mask  *)
(* mixes two layouts, and none is left over from an attempt that was       *)
(* retried.                                                                *)
DecisionFromOneTable ==
    [][(pc \in {"retry", "fretry"} /\ pc' \in {"count", "fput"}) =>
           /\ new_state \in States
           /\ mask = cpumask[new_state]
           /\ scheduling_method # "disable" => cpus[new_state] # 0
           /\ ~InSection]_vars

(* Every method but select, whatever steps its retries threw away, asks    *)
(* for a state that exists: the hint is counted for a state some cpu may   *)
(* get.  The select evaluation asks for states beyond the table.           *)
RequestIsAState == pc = "count" => state_req \in States

(* The hints the mutators read are no more than the decisions made, and a  *)
(* decision still being made has left none: an attempt that a writer has   *)
(* spoilt asks for no cpu, however often the loop starts again, and a new  *)
(* task asks for none at all.                                              *)
OneHintPerDecision ==
    SumFunction(demand) + (IF pc \in {"idle", "put"} THEN 0 ELSE 1) <= decisions
=============================================================================
