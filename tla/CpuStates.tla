------------------------------ MODULE CpuStates ------------------------------
(***************************************************************************)
(* The performance states of the cpus: what seeker-scheduler/state.c keeps *)
(* about them, how seeker-cpufreq changes them (freq.c, user.c,            *)
(* interface.c) and reports the change back through the inform callback,   *)
(* and how the mutators (mutate_*.c) drive them.                           *)
(*                                                                         *)
(* A change of frequency made by the mutator takes the policy lock of the  *)
(* cpu only around the call of the driver; one made from user space is     *)
(* called by the cpufreq core with that lock held throughout.  The inform  *)
(* callback tests cur_cpu_state without a lock, updates the states under   *)
(* the write side of states_seq_lock, and stores cur_cpu_state once more   *)
(* without a lock.                                                         *)
(*                                                                         *)
(* Which layout the delta mutator chooses is left open here: any non-empty *)
(* set of cpus and any states for them (module GreedyDelta computes it).   *)
(* External: the cpufreq core and its driver.                              *)
(***************************************************************************)
EXTENDS Integers, FiniteSets

CONSTANTS
    NCpu,         \* total_online_cpus
    NState,       \* total_states
    Users,        \* processes writing scaling_setspeed
    Mutations,    \* values of mutation_method
    DriverFails,  \* the situations in which the driver may refuse a transition
    UsersWrite,   \* the situations in which the users write
    Scheduler,    \* the scheduler's own thread: insmod, then keventd in the mutator
    Nobody        \* a policy lock is free

ASSUME CpuStatesAssumption ==
    /\ NCpu \in Nat \ {0} /\ NState \in Nat \ {0}
    /\ Mutations \subseteq {"static", "ondemand", "conservative", "delta"}
    /\ DriverFails \cup UsersWrite \subseteq Mutations \cup {"init"}
    /\ Scheduler \notin Users /\ Nobody \notin Users \cup {Scheduler}

CPUs == 0 .. NCpu - 1
States == 0 .. NState - 1
Procs == Users \cup {Scheduler}

VARIABLES
    inited, registered,   \* init_cpu_states: cpus done, user registered
    cpumask, cpus,        \* states[s].cpumask and states[s].cpus
    cur_cpu_state,
    hw, policy_cur,       \* the state the driver set; policy->cur, as a state
    policy,               \* who holds the policy lock of each cpu
    pc, on, to,           \* each caller of set_freq: step, cpu, freq_ind
    mpc, mi, sel, new,    \* mutator: step, loop index, used cpus, new_cpu_state
    awake,                \* cpus with info[i].awake = 1
    mutation_method

states  == <<cpumask, cpus, cur_cpu_state>>
driver  == <<hw, policy_cur, policy>>
calls   == <<pc, on, to>>
mutator == <<mpc, mi, sel, new, awake, mutation_method>>
vars == <<inited, registered, states, driver, calls, mutator>>

TypeOK ==
    /\ inited \in 0 .. NCpu /\ registered \in BOOLEAN
    /\ cpumask \in [States -> SUBSET CPUs]
    /\ cpus \in [States -> Int]
    /\ cur_cpu_state \in [CPUs -> States]
    /\ hw \in [CPUs -> States] /\ policy_cur \in [CPUs -> States]
    /\ policy \in [CPUs -> Users \cup {Nobody}]
    /\ pc \in [Procs -> {"idle", "cur", "target", "retry", "check", "update", "store"}]
    /\ on \in [Procs -> CPUs] /\ to \in [Procs -> States]
    /\ mpc \in {"idle", "init", "commit", "loop"} /\ mi \in 0 .. NCpu
    /\ sel \subseteq CPUs /\ new \in [CPUs -> States] /\ awake \subseteq CPUs
    /\ mutation_method \in Mutations

(* Before the scheduler is registered, or under which mutator.             *)
Situation == IF registered THEN mutation_method ELSE "init"

Init ==
    /\ inited = 0 /\ registered = FALSE
    /\ cpumask = [s \in States |-> {}]
    /\ cpus = [s \in States |-> 0]
    /\ cur_cpu_state = [c \in CPUs |-> 0]
    /\ hw \in [CPUs -> States]
    /\ policy_cur = hw
    /\ policy = [c \in CPUs |-> Nobody]
    /\ pc = [q \in Procs |-> "idle"]
    /\ on = [q \in Procs |-> 0]
    /\ to = [q \in Procs |-> 0]
    /\ mpc = "idle" /\ mi = 0 /\ sel = {} /\ awake = CPUs
    /\ new = [c \in CPUs |-> 0]
    /\ mutation_method \in Mutations

-----------------------------------------------------------------------------
CallSetFreq(q, c, s) ==
    /\ pc' = [pc EXCEPT ![q] = "cur"]
    /\ on' = [on EXCEPT ![q] = c]
    /\ to' = [to EXCEPT ![q] = s]

(* init_cpu_states puts each cpu into its state of init_layout, whatever   *)
(* set_freq answers, and registers the inform callback with seeker-cpufreq *)
(* at the end: no callback runs before that.                               *)

InitCpu(s) ==
    /\ inited < NCpu /\ mpc = "idle"
    /\ CallSetFreq(Scheduler, inited, s)
    /\ mpc' = "init"
    /\ UNCHANGED <<inited, registered, states, driver, mi, sel, new, awake, mutation_method>>

InitRecord ==
    /\ mpc = "init" /\ pc[Scheduler] = "idle"
    /\ LET s == to[Scheduler]
       IN  /\ cpumask' = [cpumask EXCEPT ![s] = @ \cup {inited}]
           /\ cpus' = [cpus EXCEPT ![s] = @ + 1]
           /\ cur_cpu_state' = [cur_cpu_state EXCEPT ![inited] = s]
    /\ inited' = inited + 1
    /\ mpc' = "idle"
    /\ UNCHANGED <<registered, driver, calls, mi, sel, new, awake, mutation_method>>

Register ==
    /\ inited = NCpu /\ ~registered
    /\ registered' = TRUE
    /\ UNCHANGED <<inited, states, driver, calls, mutator>>

-----------------------------------------------------------------------------
(* set_freq and __set_freq.  Only a cpu under the governor and a state of   *)
(* the table get past the first two tests of internal_set_freq.            *)

(* cpufreq_seeker_setspeed: the cpufreq core holds the policy lock.        *)
SetSpeed(u, c, s) ==
    /\ Situation \in UsersWrite
    /\ pc[u] = "idle" /\ policy[c] = Nobody
    /\ policy' = [policy EXCEPT ![c] = u]
    /\ CallSetFreq(u, c, s)
    /\ UNCHANGED <<inited, registered, states, hw, policy_cur, mutator>>

SetPolicyCur(q) ==
    /\ pc[q] = "cur"
    /\ policy_cur' = [policy_cur EXCEPT ![on[q]] = to[q]]
    /\ pc' = [pc EXCEPT ![q] = "target"]
    /\ UNCHANGED <<inited, registered, states, hw, policy, on, to, mutator>>

(* The driver is called with the policy lock held: the mutator takes and   *)
(* drops it around the call, a user has it already.                        *)
DriverOpen(q) == policy[on[q]] = IF q = Scheduler THEN Nobody ELSE q

ReturnFrom(q) ==
    /\ pc' = [pc EXCEPT ![q] = "idle"]
    /\ policy' = IF q = Scheduler THEN policy ELSE [policy EXCEPT ![on[q]] = Nobody]

TargetOk(q) ==
    /\ pc[q] = "target" /\ DriverOpen(q)
    /\ hw' = [hw EXCEPT ![on[q]] = to[q]]
    /\ pc' = [pc EXCEPT ![q] = "check"]
    /\ UNCHANGED <<inited, registered, states, policy_cur, policy, on, to, mutator>>

MayFail == Situation \in DriverFails

TargetAgain(q) ==
    /\ MayFail
    /\ pc[q] = "target" /\ DriverOpen(q)
    /\ pc' = [pc EXCEPT ![q] = "retry"]
    /\ UNCHANGED <<inited, registered, states, driver, on, to, mutator>>

(* The second try reads policy->cur again.                                 *)
RetryOk(q) ==
    /\ pc[q] = "retry" /\ DriverOpen(q)
    /\ hw' = [hw EXCEPT ![on[q]] = policy_cur[on[q]]]
    /\ pc' = [pc EXCEPT ![q] = "check"]
    /\ UNCHANGED <<inited, registered, states, policy_cur, policy, on, to, mutator>>

(* Mutant: the error of the driver is printed and the change reported.     *)
TargetFailReported(q) ==
    /\ MayFail
    /\ pc[q] \in {"target", "retry"} /\ DriverOpen(q)
    /\ pc' = [pc EXCEPT ![q] = "check"]
    /\ UNCHANGED <<inited, registered, states, driver, on, to, mutator>>

TargetFail(q) ==
    /\ MayFail
    /\ pc[q] \in {"target", "retry"} /\ DriverOpen(q)
    /\ ReturnFrom(q)
    /\ UNCHANGED <<inited, registered, states, hw, policy_cur, on, to, mutator>>

-----------------------------------------------------------------------------
(* inform_freq_change and seeker_cpufreq_inform.                           *)

InformNobody(q) ==
    /\ pc[q] = "check" /\ ~registered
    /\ ReturnFrom(q)
    /\ UNCHANGED <<inited, registered, states, hw, policy_cur, on, to, mutator>>

InformCheck(q) ==
    /\ pc[q] = "check" /\ registered
    /\ pc' = [pc EXCEPT ![q] = IF cur_cpu_state[on[q]] # to[q] THEN "update" ELSE "store"]
    /\ UNCHANGED <<inited, registered, states, driver, on, to, mutator>>

(* Mutant: the count of the state the cpu leaves is not lowered.           *)
InformUpdateCounts(q) ==
    /\ pc[q] = "update"
    /\ LET c == on[q]
           s == to[q]
           old == cur_cpu_state[c]
           set == [cpumask EXCEPT ![s] = @ \cup {c}]
       IN  /\ cpumask' = [set EXCEPT ![old] = @ \ {c}]
           /\ cpus' = [cpus EXCEPT ![s] = @ + 1]
           /\ cur_cpu_state' = [cur_cpu_state EXCEPT ![c] = s]
    /\ pc' = [pc EXCEPT ![q] = "store"]
    /\ UNCHANGED <<inited, registered, driver, on, to, mutator>>

(* The section under states_seq_lock; cur_cpu_state is read again in it.   *)
InformUpdate(q) ==
    /\ pc[q] = "update"
    /\ LET c == on[q]
           s == to[q]
           old == cur_cpu_state[c]
           set == [cpumask EXCEPT ![s] = @ \cup {c}]
           inc == [cpus EXCEPT ![s] = @ + 1]
       IN  /\ cpumask' = [set EXCEPT ![old] = @ \ {c}]
           /\ cpus' = [inc EXCEPT ![old] = @ - 1]
           /\ cur_cpu_state' = [cur_cpu_state EXCEPT ![c] = s]
    /\ pc' = [pc EXCEPT ![q] = "store"]
    /\ UNCHANGED <<inited, registered, driver, on, to, mutator>>

(* log_cpu_state, then the unlocked store of cur_cpu_state.                *)
InformStore(q) ==
    /\ pc[q] = "store"
    /\ cur_cpu_state' = [cur_cpu_state EXCEPT ![on[q]] = to[q]]
    /\ ReturnFrom(q)
    /\ UNCHANGED <<inited, registered, cpumask, cpus, hw, policy_cur, on, to, mutator>>

SetFreqStep(q) ==
    \/ SetPolicyCur(q)
    \/ TargetOk(q) \/ TargetAgain(q) \/ RetryOk(q) \/ TargetFail(q)
    \/ InformNobody(q) \/ InformCheck(q) \/ InformUpdate(q) \/ InformStore(q)

-----------------------------------------------------------------------------
(* The mutators.  ondemand and conservative go over the cpus and call      *)
(* set_freq where the load asks for another state.                         *)

GovernorBegin ==
    /\ mutation_method \in {"ondemand", "conservative"} /\ registered
    /\ mpc = "idle"
    /\ mpc' = "loop" /\ mi' = 0
    /\ UNCHANGED <<inited, registered, states, driver, calls, sel, new, awake, mutation_method>>

Wanted(c, busy) ==
    CASE mutation_method = "ondemand" -> IF busy THEN NState - 1 ELSE 0
      [] mutation_method = "conservative" ->
            IF busy THEN IF cur_cpu_state[c] = NState - 1 THEN NState - 1
                                                          ELSE cur_cpu_state[c] + 1
                    ELSE IF cur_cpu_state[c] = 0 THEN 0 ELSE cur_cpu_state[c] - 1

GovernorTurn(busy) ==
    /\ mutation_method \in {"ondemand", "conservative"}
    /\ mpc = "loop" /\ pc[Scheduler] = "idle" /\ mi < NCpu
    /\ IF cur_cpu_state[mi] # Wanted(mi, busy)
       THEN CallSetFreq(Scheduler, mi, Wanted(mi, busy))
       ELSE UNCHANGED calls
    /\ mi' = mi + 1
    /\ UNCHANGED <<inited, registered, states, driver, mpc, sel, new, awake, mutation_method>>

(* greedy_delta: from cur_cpu_state a layout is computed, W being the cpus *)
(* wake_up_procs leaves awake, U the cpus that are used; it is published   *)
(* under states_seq_lock, and then the cpus are brought to it one by one.  *)
DeltaBegin(W, U, layout) ==
    /\ mutation_method = "delta" /\ registered
    /\ mpc = "idle"
    /\ awake \subseteq W /\ U # {}
    /\ \A c \in CPUs \ U : layout[c] = cur_cpu_state[c]
    /\ awake' = W /\ sel' = U /\ new' = layout
    /\ mpc' = "commit"
    /\ UNCHANGED <<inited, registered, states, driver, calls, mi, mutation_method>>

DeltaCommit ==
    /\ mpc = "commit"
    /\ cpumask' = [s \in States |-> {c \in sel : new[c] = s}]
    /\ cpus' = [s \in States |-> Cardinality({c \in sel : new[c] = s})]
    /\ mpc' = "loop" /\ mi' = 0
    /\ UNCHANGED <<inited, registered, cur_cpu_state, driver, calls, sel, new, awake, mutation_method>>

(* Mutant: a cpu that sleeps is used without being brought to its state.   *)
DeltaTurnAwakeOnly ==
    /\ mutation_method = "delta"
    /\ mpc = "loop" /\ pc[Scheduler] = "idle" /\ mi < NCpu
    /\ LET goal == IF mi \in sel THEN new[mi] ELSE 0
       IN  IF mi \in awake /\ cur_cpu_state[mi] # goal
           THEN CallSetFreq(Scheduler, mi, goal)
           ELSE UNCHANGED calls
    /\ awake' = IF mi \in sel THEN awake \cup {mi} ELSE awake \ {mi}
    /\ mi' = mi + 1
    /\ UNCHANGED <<inited, registered, states, driver, mpc, sel, new, mutation_method>>

DeltaTurn ==
    /\ mutation_method = "delta"
    /\ mpc = "loop" /\ pc[Scheduler] = "idle" /\ mi < NCpu
    /\ LET goal == IF mi \in sel THEN new[mi] ELSE 0
       IN  IF mi \in sel \cup awake /\ cur_cpu_state[mi] # goal
           THEN CallSetFreq(Scheduler, mi, goal)
           ELSE UNCHANGED calls
    /\ awake' = IF mi \in sel THEN awake \cup {mi} ELSE awake \ {mi}
    /\ mi' = mi + 1
    /\ UNCHANGED <<inited, registered, states, driver, mpc, sel, new, mutation_method>>

MutatorEnd ==
    /\ mpc = "loop" /\ pc[Scheduler] = "idle" /\ mi = NCpu
    /\ mpc' = "idle" /\ mi' = 0 /\ sel' = {}
    /\ new' = [c \in CPUs |-> 0]
    /\ UNCHANGED <<inited, registered, states, driver, calls, awake, mutation_method>>

-----------------------------------------------------------------------------
Next ==
    \/ \E s \in States : InitCpu(s)
    \/ InitRecord
    \/ Register
    \/ \E u \in Users, c \in CPUs, s \in States : SetSpeed(u, c, s)
    \/ \E q \in Procs : SetFreqStep(q)
    \/ GovernorBegin
    \/ \E busy \in BOOLEAN : GovernorTurn(busy)
    \/ \E W, U \in SUBSET CPUs, layout \in [CPUs -> States] : DeltaBegin(W, U, layout)
    \/ DeltaCommit
    \/ DeltaTurn
    \/ MutatorEnd

Spec == Init /\ [][Next]_vars

-----------------------------------------------------------------------------
Quiet(c) == policy[c] = Nobody /\ (pc[Scheduler] = "idle" \/ on[Scheduler] # c)
AllQuiet == mpc = "idle" /\ \A c \in CPUs : Quiet(c)

(* Unless the delta mutator is at work, the books are right at every       *)
(* instant: each cpu is in the mask of its current state and in no other,  *)
(* and states[s].cpus counts that mask.  That is what search_state.c and   *)
(* nrtasks.c rely on.                                                      *)
BooksBalance == mutation_method # "delta" =>
    /\ \A s \in States : cpus[s] = Cardinality(cpumask[s])
    /\ \A s \in States, c \in CPUs :
           c < inited => (c \in cpumask[s] <=> cur_cpu_state[c] = s)

(* cur_cpu_state is the state the hardware is in, for every cpu that       *)
(* nobody is changing: a refused transition is never recorded.             *)
ReflectsHardware ==
    registered => \A c \in CPUs : Quiet(c) => cur_cpu_state[c] = hw[c]

(* With a driver that obeys the delta mutator: when an interval is over,   *)
(* the cpus offered for state s run at s, and a cpu is offered for one     *)
(* state at most.                                                          *)
OfferedAsRun ==
    AllQuiet => \A s \in States : \A c \in cpumask[s] : cur_cpu_state[c] = s

(* What "Changes cur_cpu_state and states field during which the states    *)
(* will be incosistent" says of greedy_delta: afterwards they are          *)
(* consistent, and states[s].cpus counts the cpus in states[s].cpumask.    *)
ConsistentAfterMutation ==
    AllQuiet => \A s \in States : cpus[s] = Cardinality(cpumask[s])
=============================================================================
