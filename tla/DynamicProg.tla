----------------------------- MODULE DynamicProg -----------------------------
(***************************************************************************)
(* The dynamic programming mutator (seeker-scheduler/mutate_dyn.c, with    *)
(* retire_procs of mutate_common.c) beside the delta mutator: both work on *)
(* the same cpus, and mutation_method chooses between them when the module *)
(* is loaded.                                                              *)
(*                                                                         *)
(* The arrays proxy, put_to_sleep and chosen are statics of mutate_dyn.c:  *)
(* they keep what earlier intervals left in them.  One row of the table    *)
(* mck computes is one step.                                               *)
(***************************************************************************)
EXTENDS GreedyDelta, Sequences

CONSTANTS
    Methods,         \* the mutation methods the module may be loaded with
    MaxDynHint       \* bound: the largest hint mem_dynamic_prog reads

VARIABLES
    method,                 \* mutation_method
    stage_dyn,              \* "idle", "mck", "apply"
    proxy,                  \* cpu_awake_proxy
    put_to_sleep,           \* the cpus with put_to_sleep[i] = 1
    chosen,                 \* new_cpu_state
    want,                   \* demand
    total,                  \* total_cpus_req
    dyna                    \* the rows 1 .. k of dyna

statics == <<proxy, put_to_sleep, chosen>>
scratch == <<want, total, dyna>>
dyn_vars == <<vars, method, stage_dyn, statics, scratch>>

DynInit ==
    /\ Init
    /\ method \in Methods /\ stage_dyn = "idle"
    /\ proxy = [i \in CPUs |-> 0] /\ put_to_sleep = {} /\ chosen = [c \in CPUs |-> 0]
    /\ want = Zero /\ total = 0 /\ dyna = <<>>

-----------------------------------------------------------------------------
(* Mutant: the loop stops one cpu too late.                                *)
RetiredOneMore(up, req, busy) ==
    LET idle == up \ busy
    IN  {c \in idle : Cardinality({d \in idle : d < c}) <= Cardinality(up) - req}

(* The idle cpus retire_procs puts to sleep, the lower number first.       *)
Retired(up, req, busy) ==
    LET idle == up \ busy
    IN  {c \in idle : Cardinality({d \in idle : d < c}) < Cardinality(up) - req}

(* Mutant: a single cpu is retired without a mark.                         *)
MarkedMany(up, req, busy) ==
    LET gone == Retired(up, req, busy)
    IN  IF Cardinality(up) <= req + 1 THEN put_to_sleep ELSE gone

(* put_to_sleep is rewritten up to the cpu the loop stops at, and not at   *)
(* all if retire_procs returns early.                                      *)
Marked(up, req, busy) ==
    LET gone == Retired(up, req, busy)
        seen == IF Cardinality(up) - Cardinality(gone) <= req
                THEN {c \in CPUs : \E d \in gone : c <= d} ELSE CPUs
    IN  IF Cardinality(up) <= req THEN put_to_sleep
        ELSE (put_to_sleep \ seen) \cup gone

(* The cpus left awake, in order; entries beyond their number stay.        *)
Proxies(up, req, busy) ==
    LET left == up \ Retired(up, req, busy)
        nth(i) == CHOOSE c \in left : Cardinality({d \in left : d < c}) = i
    IN  IF Cardinality(up) <= req THEN proxy
        ELSE [i \in CPUs |-> IF i < Cardinality(left) THEN nth(i) ELSE proxy[i]]

(* Demand for a state no cpu can reach is added to that of the nearest     *)
(* state one can reach.                                                    *)
delta_based_demand_transform(hinted, named, n) ==
    LET wins == {s \in States : \E i \in 0 .. n - 1 :
                     Dist(cur_cpu_state[named[i]], s) <= Delta}
        friend(d, s) ==
            LET left  == Max({t \in wins : t < s} \cup {-1})
                right == Min({t \in wins : t > s} \cup {NState})
            IN  IF left = -1 THEN right
                ELSE IF right = NState THEN left
                ELSE IF s - left = right - s
                THEN IF d[left] > d[right] THEN left ELSE right
                ELSE IF s - left < right - s THEN left ELSE right
        moved[k \in 0 .. NState] ==
            IF k = 0 THEN hinted
            ELSE LET d == moved[k - 1]
                 IN  IF k - 1 \in wins \/ d[k - 1] = 0 THEN d
                     ELSE [d EXCEPT ![friend(d, k - 1)] = @ + d[k - 1]]
    IN  moved[NState]

(* The head of mem_dynamic_prog.  busy: the cpus get_cpu_tasks reports     *)
(* tasks for, read after the load.                                         *)
DynBegin(hints, tasks_load, busy) ==
    /\ method = "dynamic" /\ stage_dyn = "idle"
    /\ \A c \in CPUs : sleep_time[c] < MaxSleep
    /\ LET req == IF tasks_load = 0 THEN 1 ELSE tasks_load
           up  == awake \cup Woken(req)
           off == Retired(up, req, busy)
       IN  /\ total' = req
           /\ awake' = up \ off
           /\ sleep_time' = [c \in CPUs |-> IF c \in off THEN 1
                                            ELSE IF c \in Woken(req) THEN 0 ELSE sleep_time[c]]
           /\ put_to_sleep' = Marked(up, req, busy)
           /\ proxy' = Proxies(up, req, busy)
           /\ want' = delta_based_demand_transform([s \in States |-> hints[s] + 1], proxy', req)
    /\ dyna' = <<>> /\ stage_dyn' = "mck"
    /\ UNCHANGED <<cur_cpu_state, cpumask, stage, input, auction, method, chosen>>

-----------------------------------------------------------------------------
(* mck: the multiple-choice knapsack.  Moving the k-th cpu to state s      *)
(* costs wt(k, s) of delta.                                                *)
wt(k, s) == Dist(s, cur_cpu_state[proxy[k - 1]])

(* Mutant: what the cpus before cost is not taken from the budget.         *)
RowUnpaid(k) ==
    LET fits(b) == {s \in States : wt(k, s) <= b}
        gain(b, s) == want[s] + IF k = 1 THEN 0 ELSE dyna[k - 1][b].f
    IN  [b \in 0 .. Delta |->
            LET ind == Min({s \in fits(b) : \A t \in fits(b) : gain(b, t) <= gain(b, s)})
            IN  [f |-> gain(b, ind), sol |-> ind]]

(* Row k: for each budget the most demand the first k cpus can serve, and  *)
(* the state of the k-th; -1 where the budget below serves more.           *)
Row(k) ==
    LET below(b, s) == IF k = 1 THEN 0 ELSE dyna[k - 1][b - wt(k, s)].f
        fits(b) == {s \in States : wt(k, s) <= b /\ (k = 1 \/ below(b, s) > 0)}
        gain(b, s) == below(b, s) + want[s]
        ind(b) == Min({s \in fits(b) : \A t \in fits(b) : gain(b, t) <= gain(b, s)})
        row[b \in 0 .. Delta] ==
            IF fits(b) = {} THEN [f |-> IF b = 0 THEN 0 ELSE row[b - 1].f, sol |-> -1]
            ELSE IF b > 0 /\ row[b - 1].f > gain(b, ind(b))
            THEN [f |-> row[b - 1].f, sol |-> IF k = 1 THEN ind(b) ELSE -1]
            ELSE [f |-> gain(b, ind(b)), sol |-> ind(b)]
    IN  [b \in 0 .. Delta |-> row[b]]

MckRow ==
    /\ stage_dyn = "mck" /\ Len(dyna) < total
    /\ dyna' = Append(dyna, Row(Len(dyna) + 1))
    /\ UNCHANGED <<vars, method, stage_dyn, statics, want, total>>

(* From the last cpu to the first, each takes the state recorded for the   *)
(* largest budget left that records one.                                   *)
Backtrack ==
    LET left[k \in 1 .. total + 1] ==
            IF k = total + 1 THEN [b |-> Delta, new |-> chosen]
            ELSE LET after == left[k + 1]
                     solved == {b \in 0 .. after.b : dyna[k][b].sol >= 0}
                     s == dyna[k][Max(solved)].sol
                 IN  IF solved = {} THEN [after EXCEPT !.b = -1]
                     ELSE [b |-> Max(solved) - wt(k, s),
                           new |-> [after.new EXCEPT ![proxy[k - 1]] = s]]
    IN  left[1].new

(* The layout of the awake cpus is published and the hints are cleared.    *)
DynPublish ==
    /\ stage_dyn = "mck" /\ Len(dyna) = total
    /\ chosen' = Backtrack
    /\ cpumask' = [s \in States |-> {c \in awake : chosen'[c] = s}]
    /\ stage_dyn' = "apply"
    /\ UNCHANGED <<cur_cpu_state, awake, sleep_time, stage, input, auction,
                   method, proxy, put_to_sleep, scratch>>

(* The cpus are brought to the layout, then the record is written.  The    *)
(* inform callback of a cpu put to sleep sets it in the mask of state 0; a *)
(* marked cpu that is awake again passes through state 0.                  *)
DynApply ==
    /\ stage_dyn = "apply"
    /\ cur_cpu_state' = [c \in CPUs |-> IF c \in awake THEN chosen[c]
                                        ELSE IF c \in put_to_sleep THEN 0
                                        ELSE cur_cpu_state[c]]
    /\ cpumask' = [cpumask EXCEPT ![0] =
                       @ \cup {c \in put_to_sleep \ awake : cur_cpu_state[c] # 0}]
    /\ sleep_time' = [c \in CPUs |-> IF c \in awake THEN sleep_time[c]
                                     ELSE sleep_time[c] + 1]
    /\ want' = Zero /\ total' = 0 /\ dyna' = <<>>
    /\ stage_dyn' = "idle"
    /\ UNCHANGED <<awake, stage, input, auction, method, statics>>

-----------------------------------------------------------------------------
DynNext ==
    \/ /\ method = "delta" /\ Next
       /\ UNCHANGED <<method, stage_dyn, statics, scratch>>
    \/ \E hints \in [States -> 0 .. MaxDynHint], l \in 0 .. NCpu, busy \in SUBSET CPUs :
           DynBegin(hints, l, busy)
    \/ MckRow
    \/ DynPublish
    \/ DynApply

DynSpec == DynInit /\ [][DynNext]_dyn_vars

-----------------------------------------------------------------------------
Named == 0 .. total - 1

(* As long as the proxies name different cpus, the states mck chooses for  *)
(* them serve as much demand as any layout of those cpus within delta, and *)
(* cost no more than delta: the table, its shortcuts for budgets that add  *)
(* nothing and the walk back agree.                                        *)
BestWithinDelta ==
    LET served(g) == MapThenSumSet(LAMBDA i : want[g[i]], Named)
        cost(g) == MapThenSumSet(LAMBDA i : Dist(g[i], cur_cpu_state[proxy[i]]), Named)
        layout == [i \in Named |-> chosen[proxy[i]]]
    IN  stage_dyn = "apply" /\ (\A i, j \in Named : proxy[i] = proxy[j] => i = j) =>
            /\ cost(layout) <= Delta
            /\ \A g \in [Named -> States] : cost(g) <= Delta => served(g) <= served(layout)

(* Whatever intervals went before, the layout published offers at least    *)
(* the cpus the load asks for, and never none.                             *)
EnoughAwake ==
    stage_dyn = "apply" => Cardinality(UNION {cpumask[s] : s \in States}) >= total

(* Between intervals a cpu that sleeps is in the lowest state: the flags   *)
(* put_to_sleep, stale from earlier intervals or not, reach set_freq.      *)
SleepersSlow ==
    stage = "idle" /\ stage_dyn = "idle" =>
        \A c \in CPUs \ awake : cur_cpu_state[c] = 0
=============================================================================
