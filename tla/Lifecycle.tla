------------------------------ MODULE Lifecycle ------------------------------
(***************************************************************************)
(* The life of the scheduler module (seeker-scheduler/main.c) in the       *)
(* system it is loaded into: scheduler_init and scheduler_exit item by     *)
(* item, the delayed works that outlive a call, the mutator's timer        *)
(* (mutate_common.c), and the users of seeker-cpufreq.                     *)
(* What an item does inside is the matter of the other modules.            *)
(***************************************************************************)
EXTENDS FreqUsers

CONSTANTS
    Scheduler,      \* the scheduler's struct scpufreq_user
    Mutator,        \* the walker that runs in the mutator's work
    Refusals,       \* the items of scheduler_init that may fail
    MutationMethods \* "static", "known", "unknown": mutation_method

ASSUME LifecycleAssumption == Scheduler \in User /\ Mutator \in Walker

(* The delayed works: state_change and change_cpus.                        *)
Work == {"mutator", "mask"}

VARIABLES
    phase,          \* "out", "init", "up", "exit", "gone"
    todo,           \* the items of scheduler_init or scheduler_exit still to come
    has,            \* the items that are set up
    method,         \* mutation_method
    timer_started,
    cancelling,     \* timer_started is down, the timer still to be cancelled
    pending,        \* of each work: "no", "armed", "queued"
    run             \* of each work: "idle", "body", "walk", "check", "resched", "dead"

module == <<phase, todo, has, method, cancelling>>
works == <<timer_started, pending, run>>
vars == <<users, module, works>>

InitOrder == <<"params", "pool", "idle", "tsc", "counters", "states", "mutator", "log", "probes">>

ExitOrder == <<"states", "mutator", "logger", "probes", "log", "counters", "pool">>

(* A user that left without deregistering.                                 *)
Gone == IF phase = "gone" THEN {Scheduler} ELSE {}

Phases == {"out", "init", "up", "exit", "gone"}

Init ==
    /\ UsersInit
    /\ phase = "out" /\ todo = <<>> /\ has = {} /\ method \in MutationMethods
    /\ timer_started = FALSE /\ cancelling = FALSE
    /\ pending = [w \in Work |-> "no"] /\ run = [w \in Work |-> "idle"]

(* schedule_delayed_work does nothing for a work that is pending, and      *)
(* cancel_delayed_work only stops a timer that has not fired.              *)
Scheduled(w) == [pending EXCEPT ![w] = IF @ = "no" THEN "armed" ELSE @]
Cancelled(w) == [pending EXCEPT ![w] = IF @ = "armed" THEN "no" ELSE @]

NextItem(finished) ==
    /\ todo' = Tail(todo)
    /\ phase' = IF Len(todo) = 1 THEN finished ELSE phase

-----------------------------------------------------------------------------
(* scheduler_init.                                                         *)

Insmod ==
    /\ phase = "out" /\ phase' = "init" /\ todo' = InitOrder
    /\ UNCHANGED <<users, has, method, cancelling, works>>

InitItem ==
    /\ phase = "init" /\ Head(todo) \notin {"states", "mutator"}
    /\ has' = has \cup {Head(todo)}
    /\ NextItem("up")
    /\ UNCHANGED <<users, method, cancelling, works>>

(* An error is returned, and nothing done so far is undone.                *)
InitRefused ==
    /\ phase = "init" /\ Head(todo) \in Refusals
    /\ phase' = "gone" /\ todo' = <<>>
    /\ UNCHANGED <<users, has, method, cancelling, works>>

(* init_cpu_states registers with seeker-cpufreq; its result is ignored.   *)
InitRegister ==
    /\ phase = "init" /\ Head(todo) = "states"
    /\ CreateLock(Scheduler) \/ Create(Scheduler)
    /\ UNCHANGED <<module, works>>

InitRegistered ==
    /\ phase = "init" /\ Head(todo) = "states" /\ upc[Scheduler] \in {"listed", "failed"}
    /\ has' = has \cup {"states"}
    /\ NextItem("up")
    /\ UNCHANGED <<users, method, cancelling, works>>

init_mutator ==
    /\ phase = "init" /\ Head(todo) = "mutator"
    /\ has' = has \cup {"mutator"}
    /\ IF method = "static" THEN UNCHANGED works
       ELSE /\ timer_started' = TRUE
            /\ pending' = Scheduled("mutator")
            /\ UNCHANGED run
    /\ NextItem("up")
    /\ UNCHANGED <<users, method, cancelling>>

-----------------------------------------------------------------------------
(* scheduler_exit.  The log device is closed, as an open one keeps the     *)
(* module in use: stop_state_logger has nothing to do.                     *)

Rmmod ==
    /\ phase = "up" /\ phase' = "exit" /\ todo' = ExitOrder
    /\ UNCHANGED <<users, has, method, cancelling, works>>

exit_cpu_states ==
    /\ phase = "exit" /\ Head(todo) = "states"
    /\ DestroyUnlink(Scheduler, Gone) \/ DestroyFree(Scheduler)
    /\ UNCHANGED <<module, works>>

ExitDeregistered ==
    /\ phase = "exit" /\ Head(todo) = "states" /\ upc[Scheduler] = "out"
    /\ has' = has \ {"states"}
    /\ NextItem("gone")
    /\ UNCHANGED <<users, method, cancelling, works>>

(* exit_mutator: the flag, then the timer.                                 *)
ExitFlag ==
    /\ phase = "exit" /\ Head(todo) = "mutator" /\ ~cancelling
    /\ timer_started' = FALSE
    /\ IF timer_started THEN cancelling' = TRUE /\ UNCHANGED <<todo, phase>>
       ELSE NextItem("gone") /\ UNCHANGED cancelling
    /\ UNCHANGED <<users, has, method, pending, run>>

ExitCancel ==
    /\ cancelling
    /\ pending' = Cancelled("mutator") /\ cancelling' = FALSE
    /\ NextItem("gone")
    /\ UNCHANGED <<users, has, method, timer_started, run>>

ExitItem ==
    /\ phase = "exit" /\ Head(todo) \in {"logger", "probes", "log", "counters", "pool"}
    /\ has' = has \ {Head(todo)}
    /\ pending' = IF Head(todo) = "pool" THEN Cancelled("mask") ELSE pending
    /\ NextItem("gone")
    /\ UNCHANGED <<users, method, cancelling, timer_started, run>>

-----------------------------------------------------------------------------
(* The delayed works.  The probes request changes of masks.                *)

ProbeRequests ==
    /\ {"probes", "pool"} \subseteq has
    /\ pending' = Scheduled("mask")
    /\ UNCHANGED <<users, module, timer_started, run>>

TimerFires(w) ==
    /\ pending[w] = "armed" /\ pending' = [pending EXCEPT ![w] = "queued"]
    /\ UNCHANGED <<users, module, timer_started, run>>

TakeWork(w) ==
    /\ phase # "gone" /\ pending[w] = "queued" /\ run[w] = "idle"
    /\ pending' = [pending EXCEPT ![w] = "no"] /\ run' = [run EXCEPT ![w] = "body"]
    /\ UNCHANGED <<users, module, timer_started>>

(* The code of the work is no longer there.                                *)
RunGone(w) ==
    /\ phase = "gone" /\ (pending[w] = "queued" \/ run[w] \notin {"idle", "dead"})
    /\ run' = [run EXCEPT ![w] = "dead"] /\ pending' = [pending EXCEPT ![w] = "no"]
    /\ UNCHANGED <<users, module, timer_started>>

(* state_change: a known mutator runs and may change frequencies, an       *)
(* unknown one stops the timer.                                            *)
MutatorBody ==
    /\ phase # "gone" /\ run["mutator"] = "body"
    /\ \/ /\ method = "known" /\ WalkStart(Mutator)
          /\ run' = [run EXCEPT !["mutator"] = "walk"] /\ UNCHANGED timer_started
       \/ /\ method = "known"
          /\ run' = [run EXCEPT !["mutator"] = "check"] /\ UNCHANGED <<timer_started, users>>
       \/ /\ method = "unknown"
          /\ timer_started' = FALSE
          /\ run' = [run EXCEPT !["mutator"] = "check"] /\ UNCHANGED users
    /\ UNCHANGED <<module, pending>>

MutatorWalked ==
    /\ phase # "gone" /\ run["mutator"] = "walk" /\ wpc[Mutator] = "idle"
    /\ run' = [run EXCEPT !["mutator"] = "check"]
    /\ UNCHANGED <<users, module, timer_started, pending>>

(* The end of state_change: the flag is read, then the work scheduled.     *)
Check ==
    /\ phase # "gone" /\ run["mutator"] = "check"
    /\ run' = [run EXCEPT !["mutator"] = IF timer_started THEN "resched" ELSE "idle"]
    /\ UNCHANGED <<users, module, timer_started, pending>>

(* Mutant: the work is not scheduled again.                                *)
ReschedNot ==
    /\ phase # "gone" /\ run["mutator"] = "resched"
    /\ run' = [run EXCEPT !["mutator"] = "idle"]
    /\ UNCHANGED <<users, module, timer_started, pending>>

Resched ==
    /\ phase # "gone" /\ run["mutator"] = "resched"
    /\ pending' = Scheduled("mutator") /\ run' = [run EXCEPT !["mutator"] = "idle"]
    /\ UNCHANGED <<users, module, timer_started>>

(* change_cpus.                                                            *)
MaskBody ==
    /\ phase # "gone" /\ run["mask"] = "body"
    /\ run' = [run EXCEPT !["mask"] = "idle"]
    /\ UNCHANGED <<users, module, timer_started, pending>>

-----------------------------------------------------------------------------
(* The rest of the system: another user of seeker-cpufreq, someone writing *)
(* scaling_setspeed, and seeker-cpufreq reloaded.                          *)

Loaded == phase \notin {"out", "gone"}

OtherUser(u) ==
    /\ u # Scheduler
    /\ \/ current_highest_id < MaxId /\ CreateLock(u)
       \/ Create(u)
       \/ upc[u] = "listed" /\ (DestroyUnlink(u, Gone) \/ DestroyDies(u, Gone))
       \/ DestroyFree(u)
    /\ UNCHANGED <<module, works>>

SetSpeed(w) ==
    /\ run["mutator"] # "walk" /\ WalkStart(w)
    /\ UNCHANGED <<module, works>>

(* Whoever writes next where one has died in a walk.                       *)
AnotherWriter(w) ==
    /\ run["mutator"] # "walk" /\ wpc[w] = "dead" /\ WalkOver(w)
    /\ UNCHANGED <<module, works>>

Inform(w) == Walk(w, Gone) /\ UNCHANGED <<module, works>>

ReloadCpufreq ==
    /\ ~Loaded /\ \A w \in Walker : wpc[w] = "idle"
    /\ \A u \in User \ {Scheduler} : upc[u] = "out"
    /\ current_highest_id > 0 /\ ReloadUsers
    /\ UNCHANGED <<module, works>>

-----------------------------------------------------------------------------
Loader ==
    \/ InitItem \/ InitRefused \/ InitRegister \/ InitRegistered \/ init_mutator
    \/ exit_cpu_states \/ ExitDeregistered \/ ExitFlag \/ ExitCancel \/ ExitItem

StateChange == MutatorBody \/ MutatorWalked \/ Check \/ Resched

Next ==
    \/ Insmod \/ Loader \/ Rmmod
    \/ ProbeRequests
    \/ \E w \in Work : TimerFires(w) \/ TakeWork(w) \/ RunGone(w)
    \/ StateChange \/ MaskBody
    \/ \E u \in User : OtherUser(u)
    \/ \E w \in Walker : SetSpeed(w) \/ AnotherWriter(w) \/ Inform(w)
    \/ ReloadCpufreq

(* insmod and rmmod run on, timers fire and keventd runs what is queued,   *)
(* walks run on, and who holds user_lock releases it.                      *)
Fairness ==
    /\ WF_vars(Loader)
    /\ \A w \in Work : WF_vars(TimerFires(w) \/ TakeWork(w))
    /\ WF_vars(StateChange) /\ WF_vars(MaskBody)
    /\ \A w \in Walker : WF_vars(Inform(w))
    /\ \A u \in User \ {Scheduler} :
           WF_vars(Create(u) /\ UNCHANGED <<module, works>>)

Spec == Init /\ [][Next]_vars /\ Fairness

-----------------------------------------------------------------------------
(* As long as the module is up and its method is known the mutator runs    *)
(* again and again, unless its own walk over a freed user kills keventd.   *)
MutatorRuns ==
    (phase = "up" /\ method = "known") ~>
        \/ run["mutator"] = "body" \/ phase # "up"
        \/ run["mutator"] = "walk" /\ wpc[Mutator] = "dead"

(* insmod and rmmod return, whoever else registers, fails to register or   *)
(* deregisters at the same time.                                           *)
LoaderReturns == phase \in {"init", "exit"} ~> phase \in {"up", "gone"}

(* What "stops the mutator work if it has started" and "Cancel all delayed *)
(* work" say of rmmod: nothing of the module is left to run.               *)
NothingOutlivesModule ==
    phase = "gone" =>
        /\ \A w \in Work : pending[w] = "no" /\ run[w] = "idle"
        /\ upc[Scheduler] # "listed" /\ "probes" \notin has
=============================================================================
