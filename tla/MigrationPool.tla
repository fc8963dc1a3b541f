---------------------------- MODULE MigrationPool ----------------------------
(***************************************************************************)
(* The migration pool of the seeker scheduler (seeker-scheduler/migrate.c).*)
(* The probe handlers cannot change a task's cpus_allowed themselves, so   *)
(* put_work claims a slot of a fixed pool and arms a delayed work whose    *)
(* callback, change_cpus, runs later in a keventd thread and calls         *)
(* set_cpus_allowed_ptr.  mig_pool_lock protects the claim of a slot and   *)
(* the two loops that cancel; the filling of a claimed slot and the whole  *)
(* callback run without it, so every shared access there is a step of its  *)
(* own.                                                                    *)
(*                                                                         *)
(* External parts, modelled from the way the code uses them: the delayed   *)
(* works of the kernel (schedule_delayed_work does nothing while the work  *)
(* is pending; cancel_delayed_work only stops a timer that has not fired;  *)
(* a work stops being pending when its callback starts), and the life of a *)
(* task (release_thread, the last __switch_to, the freeing of task_struct).*)
(***************************************************************************)
EXTENDS Naturals

CONSTANTS
    PoolSize,       \* MIG_POOL_SIZE
    Tasks,          \* the task_structs the scheduler manages
    Masks,          \* cpu masks
    OfflineMasks,   \* the masks without an online cpu: set_cpus_allowed_ptr fails
    Mortal,         \* the tasks that may exit in this instance
    CPUs,           \* processors: each runs one probe handler at a time
    Workers,        \* keventd threads
    NoTask,         \* the NULL task pointer
    NoMask,         \* a mask that was never written
    NoCPU           \* mig_pool_lock is free

ASSUME PoolSizeAssumption == PoolSize \in Nat \ {0}
ASSUME NullAssumption == /\ NoTask \notin Tasks
                         /\ NoMask \notin Masks
                         /\ NoCPU \notin CPUs
                         /\ CPUs \cap Workers = {}
ASSUME SubsetAssumption == /\ Mortal \subseteq Tasks
                           /\ OfflineMasks \subseteq Masks

Slots == 1 .. PoolSize

VARIABLES
    phase,          \* module life: "unloaded", "up", "exiting" or "down"
    lock,           \* mig_pool_lock: the holder, or NoCPU
    free,           \* mig_pool[i].free
    task,           \* mig_pool[i].task
    mask,           \* mig_pool[i].mask
    work,           \* mig_pool[i].work: "idle", "timer" (armed) or "queued"
    cpus_allowed,   \* cpus_allowed of each task
    pc, ts, m, i,   \* each cpu: control state, arguments, loop index or slot
    wpc, ws, wts,   \* each keventd thread: control state, slot, the local ts
    gone            \* how far each task is on its way out

pool  == <<free, task, mask, work>>
cpu   == <<pc, ts, m, i>>
keventd == <<wpc, ws, wts>>
vars  == <<phase, lock, pool, cpus_allowed, cpu, keventd, gone>>

PutPC    == {"plock", "pscan", "pmask", "ptask", "psched"}
FillPC   == {"pmask", "ptask", "psched"}
CancelPC == {"clock", "cscan"}
Farewells == {"released", "switched", "freed"}

TypeOK ==
    /\ phase \in {"unloaded", "up", "exiting", "down"}
    /\ lock \in CPUs \cup {NoCPU}
    /\ free \in [Slots -> {0, 1}]
    /\ task \in [Slots -> Tasks \cup {NoTask}]
    /\ mask \in [Slots -> Masks \cup {NoMask}]
    /\ work \in [Slots -> {"idle", "timer", "queued"}]
    /\ cpus_allowed \in [Tasks -> Masks]
    /\ pc \in [CPUs -> {"idle", "xlock", "xscan", "oops"} \cup PutPC \cup CancelPC]
    /\ ts \in [CPUs -> Tasks \cup {NoTask}]
    /\ m \in [CPUs -> Masks \cup {NoMask}]
    /\ i \in [CPUs -> 0 .. PoolSize + 1]
    /\ wpc \in [Workers -> {"idle", "read", "check", "apply", "free"}]
    /\ ws \in [Workers -> Slots \cup {0}]
    /\ wts \in [Workers -> Tasks \cup {NoTask}]
    /\ gone \in [Tasks -> SUBSET Farewells]

Init ==
    /\ phase = "unloaded"
    /\ lock = NoCPU
    /\ free = [s \in Slots |-> 0]
    /\ task = [s \in Slots |-> NoTask]
    /\ mask = [s \in Slots |-> NoMask]
    /\ work = [s \in Slots |-> "idle"]
    /\ cpus_allowed \in [Tasks -> Masks]
    /\ pc = [c \in CPUs |-> "idle"]
    /\ ts = [c \in CPUs |-> NoTask]
    /\ m = [c \in CPUs |-> NoMask]
    /\ i = [c \in CPUs |-> 0]
    /\ wpc = [w \in Workers |-> "idle"]
    /\ ws = [w \in Workers |-> 0]
    /\ wts = [w \in Workers |-> NoTask]
    /\ gone = [t \in Tasks |-> {}]

-----------------------------------------------------------------------------
(* The kernel's delayed works (external).                                  *)

ScheduleDelayedWork(s) ==
    work' = [work EXCEPT ![s] = IF @ = "idle" THEN "timer" ELSE @]

CancelDelayedWork(s) ==
    work' = [work EXCEPT ![s] = IF @ = "timer" THEN "idle" ELSE @]

(* The timer of a delayed work fires and queues the work.                  *)
TimerFires(s) ==
    /\ work[s] = "timer"
    /\ work' = [work EXCEPT ![s] = "queued"]
    /\ UNCHANGED <<phase, lock, free, task, mask, cpus_allowed, cpu, keventd, gone>>

(* A keventd thread takes a queued work and starts its callback.           *)
TakeWork(w, s) ==
    /\ wpc[w] = "idle" /\ work[s] = "queued"
    /\ work' = [work EXCEPT ![s] = "idle"]
    /\ wpc' = [wpc EXCEPT ![w] = "read"]
    /\ ws' = [ws EXCEPT ![w] = s]
    /\ UNCHANGED <<phase, lock, free, task, mask, cpus_allowed, cpu, wts, gone>>

-----------------------------------------------------------------------------
(* init_mig_pool and exit_mig_pool, called by scheduler_init and, once the *)
(* probes are removed, by scheduler_exit.  A module is loaded again only   *)
(* when nothing of the previous one is left.                               *)

InitMigPool ==
    /\ phase \in {"unloaded", "down"}
    /\ \A s \in Slots : work[s] = "idle"
    /\ \A w \in Workers : wpc[w] = "idle"
    /\ phase' = "up"
    /\ lock' = NoCPU
    /\ free' = [s \in Slots |-> 1]
    /\ task' = [s \in Slots |-> NoTask]
    /\ mask' = [s \in Slots |-> NoMask]
    /\ work' = [s \in Slots |-> "idle"]
    /\ UNCHANGED <<cpus_allowed, cpu, keventd, gone>>

ExitCall(c) ==
    /\ phase = "up"
    /\ \A d \in CPUs : pc[d] = "idle"
    /\ phase' = "exiting"
    /\ pc' = [pc EXCEPT ![c] = "xlock"]
    /\ UNCHANGED <<lock, pool, cpus_allowed, ts, m, i, keventd, gone>>

ExitMark(c) ==
    /\ pc[c] = "xscan" /\ i[c] <= PoolSize
    /\ IF free[i[c]] = 1 THEN UNCHANGED work ELSE CancelDelayedWork(i[c])
    /\ free' = [free EXCEPT ![i[c]] = 0]
    /\ i' = [i EXCEPT ![c] = @ + 1]
    /\ UNCHANGED <<phase, lock, task, mask, cpus_allowed, pc, ts, m, keventd, gone>>

ExitEnd(c) ==
    /\ pc[c] = "xscan" /\ i[c] > PoolSize
    /\ phase' = "down"
    /\ lock' = NoCPU
    /\ pc' = [pc EXCEPT ![c] = "idle"]
    /\ i' = [i EXCEPT ![c] = 0]
    /\ UNCHANGED <<pool, cpus_allowed, ts, m, keventd, gone>>

-----------------------------------------------------------------------------
(* put_work(ts, mask).  It is called by put_mask_from_stats when __switch_to*)
(* takes ts off its cpu, and by initial_mask when ts is forked.            *)

Handled(t) == \E c \in CPUs : ts[c] = t /\ pc[c] # "idle"

StartPut(c, t, k) ==
    /\ phase = "up"
    /\ pc[c] = "idle"
    /\ ~ \E d \in CPUs : ts[d] = t /\ pc[d] \in PutPC
    /\ pc' = [pc EXCEPT ![c] = "plock"]
    /\ ts' = [ts EXCEPT ![c] = t]
    /\ m' = [m EXCEPT ![c] = k]
    /\ UNCHANGED <<phase, lock, pool, i, keventd>>

(* A task that goes on living is switched out.                             *)
SwitchOut(c, t, k) ==
    /\ gone[t] \subseteq {"released"}
    /\ StartPut(c, t, k)
    /\ UNCHANGED <<cpus_allowed, gone>>

(* The last __switch_to of an exiting task, before or after release_thread.*)
LastSwitchOut(c, t, k) ==
    /\ t \in Mortal
    /\ gone[t] \subseteq {"released"}
    /\ StartPut(c, t, k)
    /\ gone' = [gone EXCEPT ![t] = @ \cup {"switched"}]
    /\ UNCHANGED cpus_allowed

(* sched_fork of a task in a task_struct that was freed.                   *)
Fork(c, t, k, inherited) ==
    /\ "freed" \in gone[t]
    /\ StartPut(c, t, k)
    /\ gone' = [gone EXCEPT ![t] = {}]
    /\ cpus_allowed' = [cpus_allowed EXCEPT ![t] = inherited]

(* spin_lock(&mig_pool_lock), common to put_work, cancel_task_work and     *)
(* exit_mig_pool.                                                          *)
Lock(c) ==
    /\ pc[c] \in {"plock", "clock", "xlock"}
    /\ lock = NoCPU
    /\ lock' = c
    /\ pc' = [pc EXCEPT ![c] = CASE @ = "plock" -> "pscan"
                                 [] @ = "clock" -> "cscan"
                                 [] @ = "xlock" -> "xscan"]
    /\ i' = [i EXCEPT ![c] = 1]
    /\ UNCHANGED <<phase, pool, cpus_allowed, ts, m, keventd, gone>>

(* What a handler leaves behind when it returns.                           *)
Return(c) ==
    /\ pc' = [pc EXCEPT ![c] = "idle"]
    /\ ts' = [ts EXCEPT ![c] = NoTask]
    /\ m' = [m EXCEPT ![c] = NoMask]
    /\ i' = [i EXCEPT ![c] = 0]

(* The claiming loop: a busy slot, a free one, or none left.  The lock is  *)
(* dropped when the loop ends.                                             *)
PutSkip(c) ==
    /\ pc[c] = "pscan" /\ i[c] <= PoolSize /\ free[i[c]] = 0
    /\ i' = [i EXCEPT ![c] = @ + 1]
    /\ UNCHANGED <<phase, lock, pool, cpus_allowed, pc, ts, m, keventd, gone>>

(* Mutants: the lock is kept when a slot is found; the slot is not marked. *)
PutClaimKeepsLock(c) ==
    /\ pc[c] = "pscan" /\ i[c] <= PoolSize /\ free[i[c]] = 1
    /\ free' = [free EXCEPT ![i[c]] = 0]
    /\ pc' = [pc EXCEPT ![c] = "pmask"]
    /\ UNCHANGED <<phase, lock, task, mask, work, cpus_allowed, ts, m, i, keventd, gone>>

PutClaimUnmarked(c) ==
    /\ pc[c] = "pscan" /\ i[c] <= PoolSize /\ free[i[c]] = 1
    /\ lock' = NoCPU
    /\ pc' = [pc EXCEPT ![c] = "pmask"]
    /\ UNCHANGED <<phase, pool, cpus_allowed, ts, m, i, keventd, gone>>

PutClaim(c) ==
    /\ pc[c] = "pscan" /\ i[c] <= PoolSize /\ free[i[c]] = 1
    /\ free' = [free EXCEPT ![i[c]] = 0]
    /\ lock' = NoCPU
    /\ pc' = [pc EXCEPT ![c] = "pmask"]
    /\ UNCHANGED <<phase, task, mask, work, cpus_allowed, ts, m, i, keventd, gone>>

PutFull(c) ==
    /\ pc[c] = "pscan" /\ i[c] > PoolSize
    /\ lock' = NoCPU
    /\ Return(c)
    /\ UNCHANGED <<phase, pool, cpus_allowed, keventd, gone>>

(* Mutant: the work is armed before the task is stored, and never is.      *)
PutMaskOnly(c) ==
    /\ pc[c] = "pmask"
    /\ mask' = [mask EXCEPT ![i[c]] = m[c]]
    /\ pc' = [pc EXCEPT ![c] = "psched"]
    /\ UNCHANGED <<phase, lock, free, task, work, cpus_allowed, ts, m, i, keventd, gone>>

PutMask(c) ==
    /\ pc[c] = "pmask"
    /\ mask' = [mask EXCEPT ![i[c]] = m[c]]
    /\ pc' = [pc EXCEPT ![c] = "ptask"]
    /\ UNCHANGED <<phase, lock, free, task, work, cpus_allowed, ts, m, i, keventd, gone>>

PutTask(c) ==
    /\ pc[c] = "ptask"
    /\ task' = [task EXCEPT ![i[c]] = ts[c]]
    /\ pc' = [pc EXCEPT ![c] = "psched"]
    /\ UNCHANGED <<phase, lock, free, mask, work, cpus_allowed, ts, m, i, keventd, gone>>

(* Mutant: the work is not scheduled.                                      *)
PutScheduleForgotten(c) ==
    /\ pc[c] = "psched"
    /\ Return(c)
    /\ UNCHANGED <<phase, lock, pool, cpus_allowed, keventd, gone>>

PutSchedule(c) ==
    /\ pc[c] = "psched"
    /\ ScheduleDelayedWork(i[c])
    /\ Return(c)
    /\ UNCHANGED <<phase, lock, free, task, mask, cpus_allowed, keventd, gone>>

-----------------------------------------------------------------------------
(* cancel_task_work(ts), called from the probe on release_thread.  The     *)
(* parent may reap ts while ts is still in its last __switch_to.           *)

Release(c, t) ==
    /\ phase = "up"
    /\ pc[c] = "idle"
    /\ t \in Mortal
    /\ gone[t] \subseteq {"switched"}
    /\ (\E d \in CPUs : ts[d] = t /\ pc[d] \in PutPC) => "switched" \in gone[t]
    /\ gone' = [gone EXCEPT ![t] = @ \cup {"released"}]
    /\ pc' = [pc EXCEPT ![c] = "clock"]
    /\ ts' = [ts EXCEPT ![c] = t]
    /\ UNCHANGED <<phase, lock, pool, cpus_allowed, m, i, keventd>>

(* The cancelling loop.  A claimed slot that was never filled holds a NULL *)
(* task; the pid behind a freed task_struct is garbage.                    *)
CancelOops(c) ==
    /\ pc[c] = "cscan" /\ i[c] <= PoolSize
    /\ free[i[c]] = 0 /\ task[i[c]] = NoTask
    /\ pc' = [pc EXCEPT ![c] = "oops"]
    /\ UNCHANGED <<phase, lock, pool, cpus_allowed, ts, m, i, keventd, gone>>

(* Mutant: the work is cancelled and its slot not given back.              *)
CancelHitKeepsSlot(c) ==
    /\ pc[c] = "cscan" /\ i[c] <= PoolSize
    /\ free[i[c]] = 0 /\ task[i[c]] # NoTask
    /\ task[i[c]] = ts[c] \/ "freed" \in gone[task[i[c]]]
    /\ CancelDelayedWork(i[c])
    /\ i' = [i EXCEPT ![c] = @ + 1]
    /\ UNCHANGED <<phase, lock, free, task, mask, cpus_allowed, pc, ts, m, keventd, gone>>

CancelHit(c) ==
    /\ pc[c] = "cscan" /\ i[c] <= PoolSize
    /\ free[i[c]] = 0 /\ task[i[c]] # NoTask
    /\ task[i[c]] = ts[c] \/ "freed" \in gone[task[i[c]]]
    /\ CancelDelayedWork(i[c])
    /\ free' = [free EXCEPT ![i[c]] = 1]
    /\ i' = [i EXCEPT ![c] = @ + 1]
    /\ UNCHANGED <<phase, lock, task, mask, cpus_allowed, pc, ts, m, keventd, gone>>

CancelMiss(c) ==
    /\ pc[c] = "cscan" /\ i[c] <= PoolSize
    /\ free[i[c]] = 0 => task[i[c]] \notin {ts[c], NoTask}
    /\ i' = [i EXCEPT ![c] = @ + 1]
    /\ UNCHANGED <<phase, lock, pool, cpus_allowed, pc, ts, m, keventd, gone>>

CancelEnd(c) ==
    /\ pc[c] = "cscan" /\ i[c] > PoolSize
    /\ lock' = NoCPU
    /\ Return(c)
    /\ UNCHANGED <<phase, pool, cpus_allowed, keventd, gone>>

(* The kernel frees the task_struct once the task has been released and    *)
(* has left its cpu for the last time.                                     *)
FreeTask(t) ==
    /\ gone[t] = {"released", "switched"}
    /\ ~Handled(t)
    /\ gone' = [gone EXCEPT ![t] = @ \cup {"freed"}]
    /\ UNCHANGED <<phase, lock, pool, cpus_allowed, cpu, keventd>>

(* An exiting task leaves its cpu without a request, having executed too   *)
(* few instructions for one.                                               *)
QuietLastSwitch(t) ==
    /\ t \in Mortal
    /\ gone[t] \subseteq {"released"}
    /\ ~ \E d \in CPUs : ts[d] = t /\ pc[d] \in PutPC
    /\ gone' = [gone EXCEPT ![t] = @ \cup {"switched"}]
    /\ UNCHANGED <<phase, lock, pool, cpus_allowed, cpu, keventd>>

-----------------------------------------------------------------------------
(* change_cpus, the callback, step by step: none of it holds the lock.     *)

CallbackReadTask(w) ==
    /\ wpc[w] = "read"
    /\ wts' = [wts EXCEPT ![w] = task[ws[w]]]
    /\ wpc' = [wpc EXCEPT ![w] = "check"]
    /\ UNCHANGED <<phase, lock, pool, cpus_allowed, cpu, ws, gone>>

CallbackReturn(w) ==
    /\ wpc' = [wpc EXCEPT ![w] = "idle"]
    /\ ws' = [ws EXCEPT ![w] = 0]
    /\ wts' = [wts EXCEPT ![w] = NoTask]

CallbackGiveUp(w) ==
    /\ wpc[w] = "check" /\ free[ws[w]] = 1
    /\ CallbackReturn(w)
    /\ UNCHANGED <<phase, lock, pool, cpus_allowed, cpu, gone>>

CallbackGoOn(w) ==
    /\ wpc[w] = "check" /\ free[ws[w]] # 1
    /\ wpc' = [wpc EXCEPT ![w] = "apply"]
    /\ UNCHANGED <<phase, lock, pool, cpus_allowed, cpu, ws, wts, gone>>

(* set_cpus_allowed_ptr is called only for a mask that differs, and its    *)
(* result is ignored.                                                      *)
CallbackApply(w) ==
    /\ wpc[w] = "apply"
    /\ IF mask[ws[w]] \in OfflineMasks
       THEN UNCHANGED cpus_allowed
       ELSE cpus_allowed' = [cpus_allowed EXCEPT ![wts[w]] = mask[ws[w]]]
    /\ wpc' = [wpc EXCEPT ![w] = "free"]
    /\ UNCHANGED <<phase, lock, pool, cpu, ws, wts, gone>>

(* Mutants: free is counted up instead of set; free is not set.            *)
CallbackFreeCounts(w) ==
    /\ wpc[w] = "free"
    /\ free' = [free EXCEPT ![ws[w]] = @ + 1]
    /\ CallbackReturn(w)
    /\ UNCHANGED <<phase, lock, task, mask, work, cpus_allowed, cpu, gone>>

CallbackFreeForgotten(w) ==
    /\ wpc[w] = "free"
    /\ CallbackReturn(w)
    /\ UNCHANGED <<phase, lock, pool, cpus_allowed, cpu, gone>>

CallbackFree(w) ==
    /\ wpc[w] = "free"
    /\ free' = [free EXCEPT ![ws[w]] = 1]
    /\ CallbackReturn(w)
    /\ UNCHANGED <<phase, lock, task, mask, work, cpus_allowed, cpu, gone>>

-----------------------------------------------------------------------------
PutStep(c) ==
    \/ PutSkip(c) \/ PutClaim(c) \/ PutFull(c)
    \/ PutMask(c) \/ PutTask(c) \/ PutSchedule(c)
CancelStep(c) == CancelOops(c) \/ CancelHit(c) \/ CancelMiss(c) \/ CancelEnd(c)
ExitStep(c)   == ExitMark(c) \/ ExitEnd(c)
HandlerStep(c) == Lock(c) \/ PutStep(c) \/ CancelStep(c) \/ ExitStep(c)

CallbackStep(w) ==
    \/ CallbackReadTask(w)
    \/ CallbackGiveUp(w)
    \/ CallbackGoOn(w)
    \/ CallbackApply(w)
    \/ CallbackFree(w)

Next ==
    \/ InitMigPool
    \/ \E c \in CPUs :
        \/ ExitCall(c)
        \/ HandlerStep(c)
        \/ \E t \in Tasks : Release(c, t)
        \/ \E t \in Tasks, k \in Masks :
            \/ SwitchOut(c, t, k)
            \/ LastSwitchOut(c, t, k)
            \/ \E a \in Masks : Fork(c, t, k, a)
    \/ \E t \in Tasks : FreeTask(t) \/ QuietLastSwitch(t)
    \/ \E s \in Slots : TimerFires(s) \/ \E w \in Workers : TakeWork(w, s)
    \/ \E w \in Workers : CallbackStep(w)

Spec == Init /\ [][Next]_vars

(* A handler and a callback keep running, a timer fires after its jiffy,   *)
(* and a worklist is served in order, so no queued work is passed over for *)
(* ever: strong fairness, because the thread may be busy in between.       *)
Fairness ==
    /\ \A c \in CPUs : WF_vars(PutStep(c)) /\ WF_vars(CancelStep(c)) /\ WF_vars(ExitStep(c))
    /\ \A c \in CPUs : SF_vars(Lock(c))
    /\ \A w \in Workers : WF_vars(CallbackStep(w))
    /\ \A s \in Slots : WF_vars(TimerFires(s))
    /\ \A s \in Slots : SF_vars(\E w \in Workers : TakeWork(w, s))

FairSpec == Spec /\ Fairness

-----------------------------------------------------------------------------
(* Who will give slot s back.                                              *)
Filling(c, s) == pc[c] \in FillPC /\ i[c] = s
Running(w, s) == wpc[w] # "idle" /\ ws[w] = s

Owners(s) == {c \in CPUs : Filling(c, s)} \cup {w \in Workers : Running(w, s)}

Covered(s) ==
    \/ work[s] # "idle"
    \/ \E c \in CPUs : Filling(c, s)
    \/ \E w \in Workers : Running(w, s)

(* No slot is leaked: while the module is up, a busy slot always has a     *)
(* put_work still filling it, an armed or queued work, or a running        *)
(* callback, one of which sets free back to 1.  change_cpus writes free    *)
(* without the lock and the two cancelling loops race with it, yet the     *)
(* pool never shrinks.                                                     *)
NoSlotLeak == phase = "up" => \A s \in Slots : free[s] = 0 => Covered(s)

(* The callback never dereferences a NULL task nor applies a mask that was *)
(* never written: put_work stores both before it arms the work, and        *)
(* nothing resets them while a work is pending or running.                 *)
Filled(s) == task[s] # NoTask /\ mask[s] # NoMask

CallbackHasTask ==
    /\ \A s \in Slots : work[s] # "idle" => Filled(s)
    /\ \A w \in Workers : wpc[w] # "idle" => Filled(ws[w])
    /\ \A w \in Workers : wpc[w] \in {"check", "apply", "free"} => wts[w] # NoTask

(* mig_pool_lock is a lock: exactly the cpu in one of the three loops holds*)
(* it (a cpu that oopsed in cancel_task_work never gives it back).         *)
LockHeldInLoops ==
    \A c \in CPUs : pc[c] \in {"pscan", "cscan", "xscan", "oops"} <=> lock = c

(* When no task exits, nothing is ever cancelled, and a busy slot has      *)
(* exactly one owner: the cpu filling it, its pending work, or one         *)
(* callback.  So nobody overwrites a request that was not yet applied.     *)
OneOwner ==
    (Mortal = {} /\ phase = "up") =>
        \A s \in Slots :
            /\ free[s] = 1 => work[s] = "idle" /\ Owners(s) = {}
            /\ free[s] = 0 => \/ work[s] = "idle" /\ \E x \in Owners(s) : Owners(s) = {x}
                              \/ work[s] # "idle" /\ Owners(s) = {}

(* A busy slot is given back (or the module goes away, or cancel_task_work *)
(* has crashed on an unfilled slot).                                       *)
SlotsReturn ==
    \A s \in Slots :
        (phase = "up" /\ free[s] = 0) ~>
            (free[s] = 1 \/ phase # "up" \/ \E c \in CPUs : pc[c] = "oops")

(* put_work's promise to a task that does not exit: once a slot is claimed *)
(* for ts and mask, ts really gets that mask, unless the module exits or   *)
(* the mask has no online cpu.                                             *)
RequestApplied ==
    \A t \in Tasks \ Mortal, k \in Masks \ OfflineMasks :
        (\E c \in CPUs : pc[c] = "pmask" /\ ts[c] = t /\ m[c] = k) ~>
            (cpus_allowed[t] = k \/ phase # "up")

(* What "Make sure there is no pending work on this task" and "Cancels all *)
(* pending work if any for task ts" say of cancel_task_work: once it has   *)
(* returned, no work of the task is pending or being run.                  *)
NoWorkAfterRelease ==
    \A t \in Tasks :
        ("released" \in gone[t] /\ ~Handled(t)) =>
            /\ \A s \in Slots : free[s] = 0 /\ work[s] # "idle" => task[s] # t
            /\ \A w \in Workers : wpc[w] = "apply" => wts[w] # t

(* What "Perfom a migration if required for mw->task to mask mw->mask" says*)
(* of change_cpus, and "change the current executed cpus for ts to mask" of*)
(* put_work: the callback changes the task of its slot, with the mask      *)
(* stored for that task and not one that is being replaced.                *)
MigratesAsRequested ==
    \A w \in Workers :
        wpc[w] = "apply" =>
            /\ wts[w] = task[ws[w]]
            /\ \A c \in CPUs : ~Filling(c, ws[w])

(* What "Cancel all delayed work" says of exit_mig_pool: once it has       *)
(* returned no callback is left to run.                                    *)
NoWorkAfterExit ==
    phase = "down" =>
        /\ \A s \in Slots : work[s] = "idle"
        /\ \A w \in Workers : wpc[w] = "idle"
=============================================================================
