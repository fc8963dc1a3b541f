----------------------------- MODULE GreedyDelta -----------------------------
(***************************************************************************)
(* The delta mutator (seeker-scheduler/mutate_gd.c, with wake_up_procs of  *)
(* mutate_common.c).  Once per interval it turns the hints the scheduler   *)
(* collected and the load into a number of cpus for each state, wakes cpus *)
(* up, auctions the cpus among the states while some of delta is left,     *)
(* publishes the layout and brings the cpus to it.                         *)
(*                                                                         *)
(* One round of the auction is one step.  The changes of frequency of an   *)
(* interval are one step too: module CpuStates interleaves them.           *)
(***************************************************************************)
EXTENDS Integers, FiniteSets, FiniteSetsExt, Functions

CONSTANTS
    NCpu,            \* total_online_cpus
    NState,          \* total_states
    Delta,           \* the module parameter delta
    MIN_REQUESTS,
    MaxHint,         \* bound: the largest hint read for a state
    MaxSleep,        \* bound: intervals a cpu sleeps
    Garbage          \* what the row before state_matrix may hold

ASSUME GreedyDeltaAssumption ==
    /\ NCpu \in Nat \ {0} /\ NState \in Nat \ {0} /\ Delta \in Nat
    /\ MIN_REQUESTS \in Nat /\ MaxHint \in Nat /\ MaxSleep \in Nat
    /\ Garbage \subseteq Int

CPUs == 0 .. NCpu - 1
States == 0 .. NState - 1

VARIABLES
    cur_cpu_state,
    awake, sleep_time,      \* info[i]
    cpumask,                \* states[j].cpumask
    stage,                  \* "idle", "auction", "publish", "apply", "log"
    load,                   \* get_tasks_load()
    requested,              \* total >= MIN_REQUESTS
    asked,                  \* demand as computed from the hints
    demand,                 \* what is left of it
    direction, delta,       \* delta: what is left of it
    total_iter, total_demand,
    used,                   \* the cpus with selected_cpus[i] = 0
    new_cpu_state

persistent == <<cur_cpu_state, awake, sleep_time, cpumask>>
input == <<load, requested, asked, direction>>
auction == <<demand, delta, total_iter, total_demand, used, new_cpu_state>>
vars == <<persistent, stage, input, auction>>

TypeOK ==
    /\ cur_cpu_state \in [CPUs -> States] /\ new_cpu_state \in [CPUs -> States]
    /\ awake \subseteq CPUs /\ used \subseteq CPUs
    /\ sleep_time \in [CPUs -> Nat]
    /\ cpumask \in [States -> SUBSET CPUs]
    /\ stage \in {"idle", "auction", "publish", "apply", "log"}
    /\ load \in 0 .. NCpu /\ requested \in BOOLEAN
    /\ asked \in [States -> Nat] /\ demand \in [States -> Int]
    /\ direction \in {-1, 0, 1} /\ delta \in 0 .. Delta
    /\ total_iter \in 0 .. NCpu /\ total_demand \in 0 .. NCpu

Zero == [s \in States |-> 0]

Init ==
    /\ cur_cpu_state \in [CPUs -> States]
    /\ awake = CPUs /\ sleep_time = [c \in CPUs |-> 0]
    /\ cpumask = [s \in States |-> {c \in CPUs : cur_cpu_state[c] = s}]
    /\ stage = "idle"
    /\ load = 0 /\ requested = FALSE /\ asked = Zero /\ demand = Zero
    /\ direction = 0 /\ delta = 0 /\ total_iter = 0 /\ total_demand = 0
    /\ used = {} /\ new_cpu_state = [c \in CPUs |-> 0]

-----------------------------------------------------------------------------
Dist(a, b) == IF a >= b THEN a - b ELSE b - a
RoundDiv(a, b) == IF b = 0 THEN 0 ELSE (2 * a + b) \div (2 * b)

procs(hints, sum, total_load) ==
    IF hints = 0 THEN 0
    ELSE IF hints = sum THEN total_load
    ELSE RoundDiv(hints * total_load, sum)

(* wake_up_procs wakes the cpus that slept least, the lower number first,  *)
(* until req are awake.                                                    *)
Woken(req) ==
    LET asleep == {c \in CPUs : sleep_time[c] > 0}
        before(c) == {d \in asleep : \/ sleep_time[d] < sleep_time[c]
                                     \/ sleep_time[d] = sleep_time[c] /\ d < c}
    IN  IF Cardinality(awake) >= req THEN {}
        ELSE {c \in asleep : Cardinality(before(c)) < req - Cardinality(awake)}

transition_direction(want, sleeping) ==
    LET req == MapThenSumSet(LAMBDA s : want[s] * (s + 1), States)
        pre == SumFunctionOnSet([c \in CPUs |-> cur_cpu_state[c] + 1],
                                {c \in CPUs : sleeping[c] = 0})
    IN  IF req > pre THEN 1 ELSE IF req < pre THEN -1 ELSE 0

(* The head of greedy_delta.  The hints are read twice, and the scheduler  *)
(* may add to them in between: the total is taken from hints, the demand   *)
(* from again.                                                             *)
Begin(hints, again, tasks_load) ==
    /\ stage = "idle" /\ \A c \in CPUs : sleep_time[c] < MaxSleep
    /\ load' = tasks_load
    /\ requested' = (SumFunction(hints) >= MIN_REQUESTS)
    /\ asked' = [s \in States |-> procs(again[s], SumFunction(hints), load')]
    /\ demand' = asked' /\ total_demand' = load'
    /\ awake' = awake \cup Woken(load')
    /\ sleep_time' = [c \in CPUs |-> IF c \in Woken(load') THEN 0 ELSE sleep_time[c]]
    /\ direction' = transition_direction(asked', sleep_time')
    /\ delta' = Delta /\ total_iter' = 0
    /\ used' = {} /\ new_cpu_state' = cur_cpu_state
    /\ stage' = "auction"
    /\ UNCHANGED <<cur_cpu_state, cpumask>>

-----------------------------------------------------------------------------
(* The auction.                                                            *)

(* Mutant: a cpu also bids for the states one beyond delta.                *)
state_matrixPast ==
    [c \in CPUs |-> [s \in States |->
        LET L == new_cpu_state[c]
        IN  IF Dist(s, L) > delta + 1 THEN 0
            ELSE IF s = L THEN 2 * NState
            ELSE (IF (s < L /\ direction = -1) \/ (s > L /\ direction = 1)
                  THEN 2 * NState ELSE NState) - Dist(s, L)]]

(* What a cpu bids for a state: nothing beyond delta, more in the          *)
(* direction of the transition, most for the state it is in.               *)
state_matrix ==
    [c \in CPUs |-> [s \in States |->
        LET L == new_cpu_state[c]
        IN  IF Dist(s, L) > delta THEN 0
            ELSE IF s = L THEN 2 * NState
            ELSE (IF (s < L /\ direction = -1) \/ (s > L /\ direction = 1)
                  THEN 2 * NState ELSE NState) - Dist(s, L)]]

state_weight == [s \in States |-> MapThenSumSet(LAMBDA c : state_matrix[c][s], CPUs)]

(* The first cpu not yet used with the highest bid, -1 if none bids.       *)
winning_procs ==
    [s \in States |->
        LET bidders == {c \in CPUs \ used : state_matrix[c][s] > 0}
            best == {c \in bidders : \A d \in bidders : state_matrix[d][s] <= state_matrix[c][s]}
        IN  IF bidders = {} THEN -1 ELSE Min(best)]

(* A state nobody bids for hands its demand to a neighbour.                *)
Biddable == {s \in States : state_weight[s] # 0}
Orphans == {s \in States \ Biddable : demand[s] # 0}

Friend(s) ==
    LET left  == {t \in Biddable : t < s}
        right == {t \in Biddable : t > s}
        nearer == IF s - Max(left) > Min(right) - s THEN Min(right) ELSE Max(left)
    IN  IF left = {} THEN Min(right)
        ELSE IF right = {} THEN Max(left)
        ELSE CASE direction = 1  -> Max(left)
               [] direction = -1 -> Min(right)
               [] direction = 0  -> nearer

Clients(s) == IF Biddable = {} THEN {} ELSE {o \in Orphans : Friend(o) = s}

demand_field ==
    [s \in States |->
        IF s \in Biddable \/ Biddable = {}
        THEN demand[s] + MapThenSumSet(LAMBDA o : demand[o], Clients(s))
        ELSE 0]

proxy_source == [s \in States |-> IF Clients(s) = {} THEN s ELSE Max(Clients(s))]

(* get_winning_state looks up state_matrix[winning_procs[j]][j] even when  *)
(* winning_procs[j] is -1: row stands for what it then reads.              *)
get_winning_state(row) ==
    LET weight == [s \in States |-> state_weight[s] * demand_field[s]]
        bid == [s \in States |-> IF winning_procs[s] = -1 THEN row[s]
                                 ELSE state_matrix[winning_procs[s]][s]]
        best[n \in 0 .. NState] ==
            IF n = 0 THEN [weight |-> 0, proc |-> 0, state |-> -1]
            ELSE LET b == best[n - 1]
                     j == n - 1
                 IN  IF weight[j] > b.weight \/ (weight[j] = b.weight /\ bid[j] > b.proc)
                     THEN [weight |-> weight[j], proc |-> bid[j], state |-> j]
                     ELSE b
    IN  best[NState].state

(* Without a state lacking a bidder the row before state_matrix is not read.*)
Rows == IF \E s \in States : winning_procs[s] = -1 THEN [States -> Garbage] ELSE {Zero}

AuctionOpen ==
    /\ total_iter < load /\ requested
    /\ delta > 0 /\ total_demand > 0

Winners(row) ==
    LET w == get_winning_state(row)
    IN  {win \in States \X CPUs : win[1] = w /\ win[2] = winning_procs[w]}

Auction(row) ==
    /\ stage = "auction" /\ AuctionOpen
    /\ \E win \in Winners(row) :
        LET winner == win[1]
            winner_proc == win[2]
        IN  /\ used' = used \cup {winner_proc}
            /\ demand' = [demand EXCEPT ![proxy_source[winner]] = @ - 1]
            /\ delta' = delta - Dist(cur_cpu_state[winner_proc], winner)
            /\ new_cpu_state' = [new_cpu_state EXCEPT ![winner_proc] = winner]
    /\ total_demand' = total_demand - 1
    /\ total_iter' = total_iter + 1
    /\ UNCHANGED <<persistent, stage, input>>

(* Nobody wins, or there is nothing left to spend.                         *)
AuctionEnd(row) ==
    /\ stage = "auction"
    /\ AuctionOpen => Winners(row) = {}
    /\ stage' = "publish"
    /\ UNCHANGED <<persistent, input, auction>>

-----------------------------------------------------------------------------
(* Mutant: the cpus that were won are not counted.                         *)
FillerForLoad ==
    LET idle == {c \in CPUs \ used : sleep_time[c] = 0}
    IN  {c \in idle : Cardinality({d \in idle : d < c}) < load}

(* Awake cpus are added, the lower number first, until the load is met.    *)
Filler ==
    LET idle == {c \in CPUs \ used : sleep_time[c] = 0}
    IN  {c \in idle : Cardinality({d \in idle : d < c}) < load - Cardinality(used)}

Publish ==
    /\ stage = "publish"
    /\ LET all == used \cup Filler
       IN  /\ used' = IF all = {} THEN {0} ELSE all
           /\ new_cpu_state' = IF all = {} THEN [new_cpu_state EXCEPT ![0] = 0]
                                           ELSE new_cpu_state
    /\ cpumask' = [s \in States |-> {c \in used' : new_cpu_state'[c] = s}]
    /\ stage' = "apply"
    /\ UNCHANGED <<cur_cpu_state, awake, sleep_time, input,
                   demand, delta, total_iter, total_demand>>

(* Mutant: the sleep_time of a cpu that is used again is not reset.        *)
ApplyKeepsSleep ==
    /\ stage = "apply"
    /\ LET slept == awake \ used
       IN  /\ cur_cpu_state' = [c \in CPUs |-> IF c \in used THEN new_cpu_state[c]
                                               ELSE IF c \in slept THEN 0
                                               ELSE cur_cpu_state[c]]
           /\ cpumask' = [cpumask EXCEPT ![0] =
                              @ \cup {c \in slept : cur_cpu_state[c] # 0}]
           /\ sleep_time' = [c \in CPUs |-> IF c \in used THEN sleep_time[c]
                                            ELSE IF c \in slept THEN 1
                                            ELSE sleep_time[c] + 1]
    /\ awake' = used
    /\ stage' = "log"
    /\ UNCHANGED <<input, auction>>

(* The cpus are brought to the layout: a cpu no longer used is put into    *)
(* state 0 and to sleep, which seeker_cpufreq_inform reports by setting it *)
(* in the mask of state 0.                                                 *)
Apply ==
    /\ stage = "apply"
    /\ LET slept == awake \ used
       IN  /\ cur_cpu_state' = [c \in CPUs |-> IF c \in used THEN new_cpu_state[c]
                                               ELSE IF c \in slept THEN 0
                                               ELSE cur_cpu_state[c]]
           /\ cpumask' = [cpumask EXCEPT ![0] =
                              @ \cup {c \in slept : cur_cpu_state[c] # 0}]
           /\ sleep_time' = [c \in CPUs |-> IF c \in used THEN 0
                                            ELSE IF c \in slept THEN 1
                                            ELSE sleep_time[c] + 1]
    /\ awake' = used
    /\ stage' = "log"
    /\ UNCHANGED <<input, auction>>

(* The LOG_MUT record of the interval.                                     *)
cpus_req == demand
cpus_given == [s \in States |-> Cardinality({c \in CPUs : cur_cpu_state[c] = s})]

(* The record is written, and greedy_delta returns.                        *)
Return ==
    /\ stage = "log"
    /\ stage' = "idle"
    /\ load' = 0 /\ requested' = FALSE /\ asked' = Zero /\ demand' = Zero
    /\ direction' = 0 /\ delta' = 0 /\ total_iter' = 0 /\ total_demand' = 0
    /\ used' = {} /\ new_cpu_state' = [c \in CPUs |-> 0]
    /\ UNCHANGED persistent

-----------------------------------------------------------------------------
Next ==
    \/ \E hints \in [States -> 0 .. MaxHint], late \in SUBSET States, l \in 0 .. NCpu :
           Begin(hints, [s \in States |-> hints[s] + IF s \in late THEN 1 ELSE 0], l)
    \/ \E row \in Rows : Auction(row) \/ AuctionEnd(row)
    \/ Publish
    \/ Apply
    \/ Return

Spec == Init /\ [][Next]_vars

-----------------------------------------------------------------------------
(* The cpus won are moved by no more than the delta constraint in all, and *)
(* what is left of it is what was not spent: although each round bids from *)
(* new_cpu_state, pays from cur_cpu_state and may follow garbage read      *)
(* before state_matrix, no round pays more than is left.                   *)
WithinDelta ==
    stage \in {"auction", "publish"} =>
        LET spent == SumFunction([c \in CPUs |-> Dist(cur_cpu_state[c], new_cpu_state[c])])
        IN  spent <= Delta /\ delta = Delta - spent

(* The layout published offers exactly as many cpus as the load asks for,  *)
(* and one when there is no load: the cpus woken, the cpus won and the     *)
(* cpus filled in add up, whichever sleeping cpus the auction picked.      *)
ProvidesLoad ==
    stage = "apply" =>
        Cardinality(UNION {cpumask[s] : s \in States}) = IF load = 0 THEN 1 ELSE load

(* A cpu is awake exactly if its sleep_time is 0: wake_up_procs counts the *)
(* one and the fill loop and transition_direction test the other.          *)
AwakeIffNoSleep == \A c \in CPUs : c \in awake <=> sleep_time[c] = 0

(* What "The requested number of cpus for performance state X" says of the *)
(* MUT record.                                                             *)
LogsRequested == stage = "log" => cpus_req = asked

(* What "The number of cpus given to performance state X by the mutator"   *)
(* says of it: the cpus of the layout, and no others.                      *)
LogsGiven ==
    stage = "log" =>
        \A s \in States : cpus_given[s] = Cardinality({c \in used : new_cpu_state[c] = s})
=============================================================================
