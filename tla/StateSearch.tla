----------------------------- MODULE StateSearch -----------------------------
(***************************************************************************)
(* Choosing a performance state for a task: the searches of                *)
(* seeker-scheduler/search_state.c and the ladder evaluations of           *)
(* map_ipc.c.  cpus[s] is states[s].cpus, and tasks[s] the number of       *)
(* runnable tasks on the cpus of state s (nrtasks.c).                      *)
(***************************************************************************)
EXTENDS Integers, Sequences, SequencesExt

CONSTANT NState    \* total_states

ASSUME NStateAssumption == NState \in Nat \ {0}

States == 0 .. NState - 1

(* The task itself is one of the tasks of the state it comes from.  The    *)
(* entries of states beyond the table have no cpus.                        *)
is_state_free(old, s, cpus, tasks) ==
    /\ s \in States /\ cpus[s] > 0
    /\ \/ old = s /\ tasks[s] <= cpus[s]
       \/ tasks[s] < cpus[s]

(* The first state with the smallest surplus of tasks; -1 if no state has  *)
(* a cpu.                                                                  *)
lowest_loaded_state(cpus, tasks) ==
    LET staffed == {s \in States : cpus[s] # 0}
        load(s) == tasks[s] - cpus[s]
        least == {s \in staffed : \A t \in staffed : load(s) <= load(t)}
    IN  IF staffed = {} THEN -1 ELSE Min(least)

Upward(s) == [k \in 1 .. NState - s |-> s + k - 1]
Downward(s) == [k \in 1 .. s + 1 |-> s + 1 - k]

(* The first free state in the order given, or else the least loaded one.  *)
FirstFree(order, old, cpus, tasks) ==
    LET k == SelectInSeq(order, LAMBDA s : is_state_free(old, s, cpus, tasks))
    IN  IF k = 0 THEN lowest_loaded_state(cpus, tasks) ELSE order[k]

(* Mutant: the second loop starts from the lowest state.                   *)
search_state_upLowest(old, req, cpus, tasks) ==
    FirstFree(Upward(req) \o Upward(0), old, cpus, tasks)

search_state_up(old, req, cpus, tasks) ==
    FirstFree(Upward(req) \o Downward(req - 1), old, cpus, tasks)

search_state_down(old, req, cpus, tasks) ==
    FirstFree(Downward(req) \o Upward(req + 1), old, cpus, tasks)

Gap(a, b) == IF a >= b THEN a - b ELSE b - a

(* Mutant: the farther of the two is taken.                                *)
search_state_closestFarther(old, req, cpus, tasks) ==
    LET down == search_state_down(old, req, cpus, tasks)
        up   == search_state_up(old, req, cpus, tasks)
    IN  IF is_state_free(old, req, cpus, tasks) THEN req
        ELSE IF Gap(req, down) < Gap(req, up) THEN up ELSE down

(* down and up are -1 together, when no state has a cpu.                   *)
search_state_closest(old, req, cpus, tasks) ==
    LET down == search_state_down(old, req, cpus, tasks)
        up   == search_state_up(old, req, cpus, tasks)
    IN  IF is_state_free(old, req, cpus, tasks) THEN req
        ELSE IF down = -1 THEN up
        ELSE IF Gap(req, down) < Gap(req, up) THEN down ELSE up

-----------------------------------------------------------------------------
(* An ipc is counted in eighths.                                           *)

IPC_LOW == 4
IPC_HIGH == 6

(* Mutant: the exclusive limit is taken for an inclusive one.              *)
BoundedPast(s) == IF s > NState THEN NState ELSE IF s < 0 THEN 0 ELSE s

Bounded(s) == IF s >= NState THEN NState - 1 ELSE IF s < 0 THEN 0 ELSE s

ladder_evaluation(ipc, cur, cpus, tasks) ==
    LET up == Bounded(cur + 1)
        down == Bounded(cur - 1)
    IN  IF ipc >= IPC_HIGH
        THEN [state_req |-> up, new_state |-> search_state_up(cur, up, cpus, tasks)]
        ELSE IF ipc <= IPC_LOW
        THEN [state_req |-> down, new_state |-> search_state_down(cur, down, cpus, tasks)]
        ELSE [state_req |-> cur, new_state |-> search_state_closest(cur, cur, cpus, tasks)]

(* sat_inc and sat_dec of the step, which may be one further down than up. *)
Grown(step, way) ==
    IF way = 1 THEN Min({step + 1, NState - 1}) ELSE Max({step - 1, -NState})

(* A task moves by step states, and only after the ipc has pointed the same*)
(* way before; step grows as long as it does.                              *)
adaptive_ladder_evaluation(ipc, cur, step, cpus, tasks) ==
    LET way == IF ipc >= IPC_HIGH THEN 1 ELSE IF ipc <= IPC_LOW THEN -1 ELSE 0
        req == Bounded(cur + step)
    IN  IF way = 1 /\ step > 0
        THEN [state_req |-> req, new_state |-> search_state_up(cur, req, cpus, tasks),
              step |-> Grown(step, 1)]
        ELSE IF way = -1 /\ step < 0
        THEN [state_req |-> req, new_state |-> search_state_down(cur, req, cpus, tasks),
              step |-> Grown(step, -1)]
        ELSE [state_req |-> cur, new_state |-> search_state_closest(cur, cur, cpus, tasks),
              step |-> IF step = 0 THEN way ELSE 0]

(* min_states has an entry for each of MAX_STATES states, the last three   *)
(* of them 0.                                                              *)
MAX_STATES == 8
min_states == [s \in 0 .. MAX_STATES - 1 |->
                  CASE s = 1 -> 2 [] s = 2 -> 4 [] s = 3 -> 6 [] s = 4 -> 9 [] OTHER -> 0]

(* The loop over the states starts at the highest one and counts upwards.  *)
select_evaluation(ipc, cur, cpus, tasks) ==
    LET req == Min({s \in NState - 1 .. MAX_STATES - 1 : ipc >= min_states[s]})
    IN  [state_req |-> req, new_state |-> search_state_closest(cur, req, cpus, tasks)]

(* An unknown method keeps the state, and 0 as the request.                *)
evaluate_ipc(method, ipc, cur, step, cpus, tasks) ==
    LET kept(e) == [state_req |-> e.state_req, new_state |-> e.new_state, step |-> step]
    IN  CASE method = "ladder"   -> kept(ladder_evaluation(ipc, cur, cpus, tasks))
          [] method = "select"   -> kept(select_evaluation(ipc, cur, cpus, tasks))
          [] method = "adaptive" -> adaptive_ladder_evaluation(ipc, cur, step, cpus, tasks)
          [] method = "disable"  -> kept([state_req |-> 0, new_state |-> cur])
=============================================================================
