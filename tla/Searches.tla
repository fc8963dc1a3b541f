------------------------------ MODULE Searches ------------------------------
(***************************************************************************)
(* Questions asked of the searches of StateSearch, one after the other,    *)
(* and what their callers may rely on.                                     *)
(***************************************************************************)
EXTENDS StateSearch

CONSTANTS MaxCpus, MaxTasks     \* bounds: cpus and tasks of one state

ASSUME SearchesAssumption == MaxCpus \in Nat /\ MaxTasks \in Nat

VARIABLE question       \* cpus, tasks: the table; old, req: the arguments

(* greedy_delta leaves counts that are too low, but some state has a cpu.  *)
StaffedCounts == {c \in [States -> -1 .. MaxCpus] : \E s \in States : c[s] > 0}

SearchInit ==
    question \in [cpus : StaffedCounts, tasks : [States -> 0 .. MaxTasks], old : {0}, req : {0}]

Ask(o, r) == question' = [question EXCEPT !.old = o, !.req = r]

SearchSpec == SearchInit /\ [][\E o, r \in States : Ask(o, r)]_question

-----------------------------------------------------------------------------
IsFree(s) == is_state_free(question.old, s, question.cpus, question.tasks)
Free == {s \in States : IsFree(s)}

Up(r)   == search_state_up(question.old, r, question.cpus, question.tasks)
Down(r) == search_state_down(question.old, r, question.cpus, question.tasks)
Closest == search_state_closest(question.old, question.req, question.cpus, question.tasks)

Surplus(s) == question.tasks[s] - question.cpus[s]
LeastLoaded(s) ==
    /\ s \in States /\ question.cpus[s] # 0
    /\ \A t \in States : question.cpus[t] # 0 => Surplus(s) <= Surplus(t)

(* "Returns 'state' if avaliable, or a state closest to 'state'": no free  *)
(* state is nearer than the one search_state_closest returns; without a    *)
(* free state it returns the one with the smallest surplus of tasks.       *)
ClosestIsNearest ==
    IF Free = {} THEN LeastLoaded(Closest)
    ELSE /\ Closest \in Free
         /\ \A t \in Free : Gap(question.req, Closest) <= Gap(question.req, t)

(* Where the ladders take a task from the state old of its cpu.            *)
LadderTo(ipc) == ladder_evaluation(ipc, question.old, question.cpus, question.tasks).new_state
AdaptiveTo(ipc, step) ==
    adaptive_ladder_evaluation(ipc, question.old, step, question.cpus, question.tasks).new_state

(* A task whose ipc is high gets from the ladder the free state nearest    *)
(* above the one it is in; if none is free there, its own or the nearest   *)
(* below; and if none is free at all, the least loaded.  The same downward *)
(* when it is low.  The adaptive ladder, whatever its step, goes up or     *)
(* down as long as a state that way is free.  The searches start at the    *)
(* state asked for, beyond the one the task is in, and wrap around behind  *)
(* it, and the ends of the table cut the request short.                    *)
NearestThatWay ==
    LET above == {t \in Free : t > question.old}
        below == {t \in Free : t < question.old}
    IN  /\ IF Free = {} THEN LeastLoaded(LadderTo(IPC_HIGH)) /\ LeastLoaded(LadderTo(IPC_LOW))
           ELSE /\ LadderTo(IPC_HIGH) = IF above # {} THEN Min(above) ELSE Max(Free)
                /\ LadderTo(IPC_LOW) = IF below # {} THEN Max(below) ELSE Min(Free)
        /\ above # {} => \A n \in 1 .. NState - 1 : AdaptiveTo(IPC_HIGH, n) \in above
        /\ below # {} => \A n \in -NState .. -1 : AdaptiveTo(IPC_LOW, n) \in below
=============================================================================
