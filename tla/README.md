# TLA+ models of the seeker scheduler

seeker is a scheduler extension for asymmetric multi-core machines: Linux kernel
modules that give each cpu a performance state (a frequency), watch the
instructions per cycle of every task, and move tasks to cpus whose state suits
them. This directory holds TLA+ models of the parts of it that are hard to test,
the TLC configurations that check them, and TLAPS proofs about all of them.
Paths below are relative to `src/Module/` unless they say otherwise.

## 1. Inventory

| Component | State | Operations | Runs in |
|---|---|---|---|
| migration pool (`seeker-scheduler/migrate.c`) | `mig_pool[]` (free, task, mask, delayed work), `mig_pool_lock` | `init_mig_pool`, `put_work`, `cancel_task_work`, `exit_mig_pool`, the callback `change_cpus` | probe handlers on every cpu, keventd, rmmod |
| log device (`seeker-scheduler/log.c`) | linked list `start_log`..`current_log`, `first_read`, `dev_open`, `log_lock`, slab cache | `get_log`/`put_log`, open, read, close, `log_init`, `log_exit` | every cpu; the daemon `src/Scripts/seekerlogd.c`; insmod, rmmod |
| state logger (`seeker-scheduler/state.c`) | `state_logger_started`, a delayed work | `start_`/`stop_state_logger`, `state_logger` | open and close of the log, keventd |
| cpu states (`seeker-scheduler/state.c`) | `states[]` (cpumask, cpus, demand), `cur_cpu_state[]`, `states_seq_lock` | `init_cpu_states`, the inform callback, `demand_*` | insmod, keventd, writers of `scaling_setspeed` |
| seeker-cpufreq: frequencies (`freq.c`, `interface.c`, `main.c`) | a table of frequencies and a policy per cpu, `allowed_states[]` | `init_freqs` (read, sort, prune), `set_freq`, `__set_freq` | insmod, callers of `set_freq`, the cpufreq core |
| seeker-cpufreq: users (`user.c`) | the linked list at `user_head`, `user_lock`, `current_highest_id` | `register_`/`deregister_scpufreq_user`, `inform_freq_change` | insmod and rmmod of other modules, whoever changes a frequency |
| mutators (`mutate_gd.c`, `mutate_od.c`, `mutate_cv.c`, `mutate_dyn.c`, `mutate_common.c`) | `info[]` (awake, sleep_time), scratch matrices of an auction | `state_change` once per interval | keventd |
| scheduling decisions (`pds.c`, `search_state.c`, `map_ipc.c`, `nrtasks.c`) | per task: counters, `hist_step`, `fixed_state` | `put_mask_from_stats`, `initial_mask`, searches and evaluations | `__switch_to` and `sched_fork` probes |
| probes and counters (`probe.c`, `hwcounters.c`, `tsc_intf.c`) | per task `inst`, `re_cy`, `ref_cy`; per cpu `ts`, `tsc_val`, `sys_counters` | probes on `__switch_to`, `sched_fork`, `release_thread`, `schedule`, `scheduler_tick`; `configure_`/`exit_counters`, `insert_`/`remove_probes` | kernel hot paths, insmod, rmmod |
| life of the module (`main.c`) | what is set up so far, `timer_started` | `scheduler_init`, `scheduler_exit` | insmod, rmmod |
| pmu (`pmu/`) | per cpu: who has which counter, event selects, fixed counters, the registers | enable, disable, read, clear, interrupts | probes, `on_each_cpu`, any user of the module |
| tools (`src/Scripts/seekerlogd.c`, `src/utils/launch.c`, analysis scripts) | files, child processes | log daemon, launcher, plots | user space |

How they interact: a context switch (probe) evaluates the task (decisions), which
reads `states[]` under a seqlock, leaves a hint (`demand_inc`), writes a log
record and asks the migration pool for a new mask. The mutator turns the hints of
an interval into a layout, publishes it in `states[]`, and calls `set_freq` for
each cpu; `set_freq` calls back into `state.c` (the inform callback), as do changes made
from user space. The log device is written from all of these and read by a daemon.

What is hard in it: nearly everything runs concurrently and much of it on purpose
without a lock (the callback of the pool, the reader of the log, the test at the
head of the inform callback); delayed works are cancelled without being waited
for; retries repeat side effects; drivers refuse transitions; a fixed pool runs
full; the auction of the delta mutator is arithmetic over small tables with
out-of-range corner cases; the dynamic program keeps arrays from one interval to the
next; loading may fail half way and undoes nothing; two modules share the
performance counters; tools are interrupted by signals between any two steps.

What makes each part correct:
* pool: no slot is lost, a callback always finds a filled slot, an accepted
  request is applied, nothing is left of a task or of the module that went away;
* log: no use after free, no leak, records delivered once and in order;
* cpu states: `cpumask`, `cpus`, `cur_cpu_state` and the hardware agree;
* frequency tables: ascending, with every state that is allowed (and, says the
  documentation, no other, which the code does not keep);
* users: the list holds who registered, a walk informs each once;
* mutators: stay within delta, find the best layout, offer as many cpus as there is
  load, and put to sleep and wake without losing a cpu; the timer goes on;
* counters: what a task executed is charged to it, once; a counter has one owner;
* life: insmod and rmmod return, and nothing of the module is left to run;
* tools: what was on the command line is started, and waited for; records stay in
  order, and are lost at the end of a file or not at all; the next file is begun;
* decisions: nearest free state, one consistent table and one hint per decision, a
  request for a state that exists.

`PROJECT.json` lists the components with their status and the hazards with the line
where each one bites.

## 2. Modules

| Module | Models | State and steps |
|---|---|---|
| `MigrationPool` | `migrate.c`, called from `probe.c`, `pds.c`, `main.c` | One program counter per cpu and per keventd thread. The loops over the pool are steps under `lock`; storing mask, storing task and scheduling the work in `put_work`, and reading task, testing `free`, applying and releasing in `change_cpus`, are separate steps. Module exit and reload included. |
| `SeekerLog` | `log.c`, the state logger of `state.c` | Blocks are numbered in the order of allocation, so use after free is visible as `start_log \notin live`. The two stores of `put_log` happen in either order. |
| `LogQueue` | what the log promises | a bounded queue of records and the sequence delivered |
| `CpuStates` | `state.c`, `freq.c`, `interface.c`, inform part of `user.c`, the governors and the application of a layout of `mutate_gd.c` | One program counter per caller of `set_freq`. The steps are those between which another caller can act: policy->cur, the driver, its second try, the unlocked test, the section under the seqlock, the unlocked store. |
| `GreedyDelta` | `mutate_gd.c`, `wake_up_procs` | One round of the auction is a step; the matrices are operators over the layout. |
| `DynamicProg` | `mutate_dyn.c`, `retire_procs`; extends `GreedyDelta` | Both mutators on the same cpus; the method is fixed when the module is loaded. One row of the knapsack is a step; `proxy`, `put_to_sleep` and `chosen` are variables because they are statics in C and keep the values of earlier intervals. |
| `StateSearch` | `search_state.c`, `map_ipc.c` | operators only |
| `Searches` | what a caller of `search_state.c` relies on | a table of counts and questions asked of the searches, by a ladder in its current state; extends `StateSearch` |
| `FreqTable` | `init_freqs`, `sort_table`, `prune_states` of `freq.c` | operators; the tables and the corrected parameter are passed from cpu to cpu and from call to call, as in the code |
| `CpufreqInit` | the calls of `init_freqs` in `seeker-cpufreq/main.c`; extends `FreqTable` | the drivers' tables, the parameter as it was given, and what the two calls make of both |
| `Pds` | the decision loops of `pds.c` against the writers of `states[]` | Writers store entries one at a time between the two increments of the sequence number; the reader's begin, search, mask and retry are steps. |
| `Pmu` | `pmu/` | One operator per function, from the state of a cpu (tables and registers) to its next state: every function works on its own cpu with interrupts off. The event and the bits without consequences are left out; a count wraps at `W`. |
| `Accounting` | `probe.c`, `hwcounters.c`, `tsc_intf.c`; extends `Pmu` | A tick, a pass of `schedule()`, a context switch or a fork is one step of its cpu. Beside the scheduler another module takes counters and uses interrupts; modules are loaded, fail and go. `exec` is a ghost: what each task has executed. |
| `FreqUsers` | `user.c` | Nodes are numbers. `create_user` takes the lock, links, then fills; `destroy_user` unlinks under the lock and frees after it; a walk calls and moves on in separate steps and never locks. Memory that was freed keeps its contents until it is reused; reading it may also end the thread. A module that left without deregistering (`Gone`) ends the thread that looks into its structure, which in `destroy_user` holds `user_lock`. |
| `Lifecycle` | `scheduler_init`, `scheduler_exit`, `init_mutator`, `exit_mutator`, `state_change`; extends `FreqUsers` | The items of the two functions in their order, each of which may be refused; registration and deregistration are the steps of `FreqUsers`; the mutator and the mask callback are delayed works. |
| `Launcher` | `src/utils/launch.c` | The parent's loops and each child's way from fork to its end. A command line is a sequence of words. |
| `LogDaemon` | `src/Scripts/seekerlogd.c` | One step per call that reads, writes or changes files; the signal handlers come between any two. `fwrite` adds to what stdio holds (`held`), of which any beginning reaches the file at each call; whatever flushes may fail, noticed or not. `lost` is a ghost: what a file was to get and never will. |
| `...Proofs` | theorems | `MigrationPoolProofs`, `SeekerLogProofs`, `CpuStatesProofs`, `LifecycleProofs` (with `FreqUsers`) and `AccountingProofs` (with `Pmu`) each extend the module of that name; `MutatorProofs` extends `DynamicProg`, so it is about both mutators, `ToolsProofs` `MCTools`, about launcher and daemon, and `StateProofs` `Pds`, `Searches` and `CpufreqInit`, all about the states of the cpus. See section 4. |
| `MC...` | | the constants of the runs; `MCStateSearch` enumerates inputs of `Searches` and `CpufreqInit`; `MCTools` puts the two tools side by side; `MCInputs` puts both together |

External parts are modelled from the way the code uses them: delayed works
(`schedule_delayed_work` does nothing on a pending work; `cancel_delayed_work`
only stops a timer that has not fired; a work stops being pending when its
callback starts), the life of a task (release, last switch, freeing), the cpufreq
core and its driver, spinlocks and seqlocks.

Abstractions: tasks, masks, records and cpus are model values; the ipc is a number
of eighths as in `ipc.h`; the load of a cpu and the numbers of runnable tasks are
free inputs; all cpus have the same number of states (not in `FreqTable`); log records written by
other components are left out of their models. In `CpuStates` the layout of the
delta mutator is any layout; in `GreedyDelta` bringing the cpus to their states is
one step with a driver that obeys. In `Pds` a search is one step, since the
numbers it reads are free inputs anyway and a torn read is caught by the retry.

## 3. Runs

Passing:

| Run | Instance | What it shows |
|---|---|---|
| `pool_release` | 1 slot, 2 cpus, 2 threads, 2 tasks of which one exits, fair | `TypeOK`, `NoSlotLeak`, `CallbackHasTask`, `LockHeldInLoops`; `SlotsReturn`: a busy slot comes back |
| `pool_steady` | 1 slot, 2 cpus, 2 threads, 2 tasks, 2 masks, nobody exits, fair | `OneOwner`; `RequestApplied`: an accepted request reaches its task |
| `log_fifo` | one writer, the state logger and one reader, 4 blocks, 2 records, buffers of 0 to 2 records, fair | `MemorySafe`, `NothingLeaked`, `ImplementsQueue` (refinement of `LogQueue`), `WritersReturn`, `RecordsDelivered` |
| `states_sound` | 2 cpus, 3 states, all mutators, 2 users | `BooksBalance`, `ReflectsHardware`, `OfferedAsRun` |
| `delta_budget` | 3 cpus, 3 states, delta 2, hints up to 2 (1 for the dynamic program), up to 3 intervals of sleep, both mutators | `WithinDelta`, `ProvidesLoad`, `AwakeIffNoSleep`; of the dynamic program `BestWithinDelta` (against all layouts), `EnoughAwake`, `SleepersSlow` |
| `inputs` | 4 states with -1 to 1 cpus and 0 to 2 tasks each; 2 cpus with all pairs of 4 driver tables and every list of allowed states, and with every table up to 4 entries; every command line of up to 7 words and 3 applications; 4 records, 4 files of which the last exists; fair | `NearestThatWay`: where a ladder that asks for the state above or below moves a task; `ClosestIsNearest`; `PrunedAsAllowed` after each of the two calls; `ParsedAsMeant`, `AllReaped`, `KillEndsAll`; `FilesInOrder`, `RotationHappens` |
| `pds_seqlock` | 2 cpus, 2 states, one decision, 2 write sections; ladder, adaptive and disabled | `OneHintPerDecision`: what retries and write sections leave for the mutators; `RequestIsAState`, `DecisionFromOneTable` |
| `counters` | 2 cpus, both architectures, another module on one cpu, loads that fail at every point | `ChargedToRunner`, `CountersOwned`, `NoStrayInterrupt`, `OthersUndisturbed` |
| `life` | the scheduler and one other user, a walker, every item of `scheduler_init` refusing, three kinds of mutation method, fair | `ListIntact`, `InformedOnce`; `MutatorRuns`, `LoaderReturns` |

The `TypeOK` of a module says what its variables hold. That of `MigrationPool` is checked and
proved, those of `SeekerLog` and `Pds` are proved; the others hold in the same instances (add
them to a cfg to see it) and are not properties of the runs.

Why the bounds are enough: one slot makes every pair of requests collide, and two
threads are what it takes for two callbacks of one slot to overlap; four blocks
let the list be empty, have one record and be read while it grows; two users, or
one user and the scheduler, are what an order of reports needs; three states give
a state above, below and out of reach of one unit of delta; four states are the
fewest in which "nearer" differs from "below" and "above"; two write sections allow a
retry that is retried, and a count that is negative when it is read. `MaxSleep`,
`MaxBlocks`, `MaxHint`, `MaxWrites` and `MaxDecisions` only end behaviours early.
One task more than cpus is what a context switch needs, and counters few enough
that the scheduler and one other user take them all bring out the failing
allocation; two units of work are enough for a task to be decided about, or for two cpus
or two tasks to have counted something; registers wider than that (`W`) do not wrap between two
readings, as those of 48 bits do not. Two users are what it takes for one to be unlinked in front of,
and behind, a walk. Walks only read, so the mutator's and a user's cannot disturb each
other, and one walker at a time stands for all: the mutator's thread if the work is in its walk
(`run["mutator"] = "walk"`), else a writer of `scaling_setspeed`, whose death leaves the mutator alone. Three applications allow a child to end
before, between and after the ones the launcher looks at.
`MaxWork`, `MaxId`, `MaxRecords` and `MaxCount` end behaviours early, too.
Deadlock is not checked where such a bound (`delta_budget`, `pds_seqlock`, `counters`), an
end (`inputs`, `allowed_only`, `life*`) or a crash of the code (`pool_release`, `pool_cancel`)
really stops the system.

Expected violations, each a finding in `PROJECT.json`:

| Run | What TLC shows |
|---|---|
| `pool_cancel` | `cancel_task_work` returns while a callback that has started still holds the task, or the task's last switch asks for a migration afterwards. `probe.c:170` wants no pending work left. |
| `life_end` | `exit_mutator` stops a timer that has not fired and nothing else: a `state_change` that is queued or running when rmmod returns runs from memory that is gone. `main.c:198` says `scheduler_exit` stops the mutator work. |
| `allowed_only` | `prune_states` looks at as many entries of the table as states are allowed; the states above stay, so that allowing the two slowest of four leaves all four. `src/README:287` says the module will transition only to the states given. |

Some definitions state further promises of comments that TLC refutes but that
are not runs of their own. To see a trace, make the change to the named cfg:

* `MigratesAsRequested` in `MigrationPool_cancel.cfg`: a callback whose slot was
  cancelled and claimed again gives its task another task's mask;
* `NoWorkAfterExit` in `MigrationPool_steady.cfg`: `exit_mig_pool` waits for nothing;
* `LoggerStopped` and `FlagMeansRunning` in `SeekerLog_fifo.cfg`: the state logger
  outlives the module; a logger that runs before `start_state_logger` raises the
  flag does not reschedule itself, and the flag stays up;
* `NothingLeaked` with `EarlyOpen = TRUE`: a record logged between the registration
  of the device and the end of `log_init` is cut off;
* `MemorySafe` and `OpenMeansLogging` in `SeekerLog_fifo.cfg` with a second reader: the unlocked
  read path frees a block the other one is using; one close switches logging off for all;
* `ConsistentAfterMutation` in `CpuStates_sound.cfg`: `greedy_delta` publishes counts that are
  final and then lets the inform callback move every changed cpu once more; counts end
  too high or negative;
* `BooksBalance` and `ReflectsHardware` when `UsersWrite` contains a mutator: two
  reports of one change, or a late report of an old one; `ReflectsHardware` also when
  `UsersWrite` or `DriverFails` contains `"init"`;
* `LogsRequested` and `LogsGiven` in `GreedyDelta_budget.cfg`: the MUT record holds what the
  auction left of the demand, not the demand (`src/README:479`), and sleeping cpus as given;
* `RequestIsAState` when `Methods` contains `"select"`: `select_evaluation` counts its loop
  upwards and asks for state 5 of a smaller table (`map_ipc.c:146`);
* `BestWithinDelta` without its condition on `proxy`: when `retire_procs` returns early before
  it has ever filled `cpu_awake_proxy`, all entries name cpu 0, and the layout of the awake
  cpus exceeds delta;
* `PrunedAsAllowed` for other lists: unset entries of `allowed_states` stand for state 0, so
  state 0 is always allowed; a list like 2,2,2 never ends
  (`freq.c:288`); with different cpus the parameter corrected for one is used for the next; a driver
  that lists a frequency twice has two states that are one (`ProperList` wants them different,
  the ascent of the states does not);
* the comments of `search_state_down` and `search_state_up` (`search_state.c:110`, `134`), which
  promise the closest state lower or higher than `state` and `state` only if there is none, if
  `state` is taken to be the one asked for: the code takes that one first if it is free. The
  parameter is described as the current state, and a ladder asks for the one next to it, so
  `NearestThatWay` states the promise from the current state on. An adaptive ladder that takes
  several states in one step goes to the free state nearest to where it leads, which may
  not be the one nearest to the current state;
* `FilesInOrder` with `files` in place of `Due`: records stdio could not write at the `fclose` of a
  finished file, whose result is not looked at (`seekerlogd.c:194`), are missing, unnoticed; so
  are those read in the call of `fread` that reports an error (`seekerlogd.c:180`);
* `RotationHappens` without its condition on `dpc`: a SIGUSR1 that comes after the next file is opened
  and before `do_sample = 1` (`seekerlogd.c:205` to `210`) is forgotten, although
  `src/README:401` says it has the daemon start another file;
* the last conjunct of `ChargedToRunner` without `stage # "undo"`: when `insert_probes` fails it
  removes the switch probe before the tick's (`probe.c:323`), which then charges whoever
  ran last;
* `CountersOwned` without `~leaked`, and `OthersUndisturbed` without its exception: a
  `scheduler_init` that fails keeps its counters, and a `configure_counters` without counters
  clears those of somebody else (`hwcounters.c:70`);
* `ListIntact` with the scheduler in `MayFail`: its failed registration leaves `user_id` 0,
  and `exit_cpu_states` removes another user's node (`user.c:107`);
* `NothingOutlivesModule` with `Refusals`: an error return of `scheduler_init` leaves the timer,
  the registration and the counters behind (`main.c:183`);
* `KillEndsAll` without its condition: a child that has not called `setpgid` yet is missed by
  `killpg` (`launch.c:137`).

### Fairness

`pool_*`, `log_fifo`, `life` and `inputs` have liveness properties. A handler runs with
preemption disabled and a callback in a kernel thread: each keeps taking its
next step (weak fairness). A timer fires after its jiffy. Spinlocks are handed
over to every waiter (strong fairness on `Lock` and `GetLogLock`: the lock is
taken and released again and again). A worklist is served in order, so no queued
work is passed over for ever, though the thread may be busy in between (strong
fairness on `TakeWork`). The log daemon polls as long as it has the device open
(`src/Scripts/seekerlogd.c`). insmod and rmmod, once called, go on to their end, and so do
walks and whoever holds `user_lock`, which is held only for a few stores; that others
register only `MaxId` times stands for a spinlock that is handed over. In user space,
processes run (the daemon's loop, the launcher, a child on its way to its application); an
application need never end, and `RotationHappens` owes it to `MaxRecords` that the log runs
dry at last. No fairness is assumed of tasks, users, open, close, signals, insmod or rmmod.

## 4. Proofs

Eight modules hold theorems. Each theorem says of a property that a run checks (of `TypeOK`
in `LogTypeCorrect` and `PdsTypeCorrect`) that it holds for every value of the constants.

| Theorem | States | Under |
|---|---|---|
| `TypeCorrect`, `LoopsExclude`, `CallbackFindsTask`, `SlotsNeverLeak` | `TypeOK`, `LockHeldInLoops`, `CallbackHasTask`, `NoSlotLeak` of the pool | |
| `SlotsHaveOneOwner` | `OneOwner` | (the property itself says: no task exits) |
| `LogTypeCorrect`, `LogMemorySafe` | `TypeOK`, `MemorySafe` of the log | `SingleReader` |
| `LogNothingLeaked`, `LogImplementsQueue` | `NothingLeaked`, the refinement of `LogQueue` | `SingleReader`, `~EarlyOpen` |
| `BooksAlwaysBalance` | `BooksBalance` | `UsersQuiet` |
| `StatesReflectHardware` | `ReflectsHardware` | `UsersQuiet`, `"init" \notin DriverFails` |
| `OfferedRunAsOffered` | `OfferedAsRun` | `UsersQuiet`, neither `"init"` nor `"delta"` in `DriverFails` |
| `AwakeNeverSlept`, `SleepersAreSlow` | `AwakeIffNoSleep`, `SleepersSlow` of both mutators | |
| `AuctionWithinDelta`, `LayoutProvidesLoad` | `WithinDelta`, `ProvidesLoad` of the delta mutator | |
| `LayoutOffersEnough`, `MckIsOptimal` | `EnoughAwake`, `BestWithinDelta` of the dynamic program | |
| `PdsTypeCorrect`, `DecisionsFromOneTable` | `TypeOK`, `DecisionFromOneTable` (a step property) | |
| `RequestsAreStates` | `RequestIsAState` | `"select" \notin Methods` |
| `CountersHaveOwners`, `SchedulerUninterrupted`, `OthersKeepCounting` | `CountersOwned`, `NoStrayInterrupt`, `OthersUndisturbed` (a step property) | |
| `RunnerPays` | `ChargedToRunner` | `NoWrap` |
| `LaddersFindNearest`, `ClosestFindsNearest` | `NearestThatWay`, `ClosestIsNearest` | |
| `TablesPruned` | `PrunedAsAllowed` | (the property itself says for which lists) |
| `ListStaysIntact`, `WalkInformsOnce` | `ListIntact`, `InformedOnce` | `Scheduler \notin MayFail` |
| `LauncherParses`, `LauncherReaps`, `DaemonKeepsOrder` | `ParsedAsMeant`, `AllReaped`, `FilesInOrder` | |

The constants satisfy the assumptions their modules name (a pool that is not empty, null values
that are none of the others, at least one cpu and state, and so on), which TLC evaluates in
the runs. The hypotheses in the last column are not assumptions of the modules: they are the
conditions without which the property is false, as the list in section 3 says of each, and the
instances of the runs satisfy them. `SingleReader`: at most one descriptor is open, as with one
daemon. `~EarlyOpen`: nobody opens the device before `log_init` returns. `UsersQuiet`: users
write frequencies under the static mutator only. `DriverFails`: where a driver may refuse.
`Scheduler \notin MayFail`: the scheduler's own registration does not run out of memory; those of
others may.
`NoWrap` is a condition on behaviours: no work is counted by a counter that would wrap while it
counts for a task (in the run, `MaxWork < W` implies it; registers have 48 bits and are
read whenever a task leaves its cpu). The constants that only end behaviours early
(`MaxBlocks`, `MaxWrites`, `MaxWork`, ...) are arbitrary, so the theorems hold for every length.

### The inductive invariants

*Pool.* `IInv` adds three facts to the four properties: `LocalOK` (the index and arguments of a
handler are in range while it uses them, so that the slot it fills exists), `FillOrder` (how far
`put_work` has filled its slot: when it schedules the work, mask and task are stored, which
gives `CallbackHasTask`), and `ExitAlone` (no handler is inside the pool while
`exit_mig_pool` runs, and no cpu is in its loop while the module is up). The preservation of
`NoSlotLeak` is the heart: the steps that could uncover a slot are `CancelHit`, which sets `free`
itself; `TakeWork`, which hands the slot from the work to a callback; `PutSchedule`, where the
work is pending whether or not it was before; and the ends of a callback, one of which has just
read `free = 1` and the other of which sets it. `OwnerInv`, for `OneOwner`, says that without
exiting tasks nobody cancels and that filling, pending and running exclude each other.

*Log.* `SafeInv` describes the list without walking it: blocks are linked in the order of
allocation (`NextInv`), all from `start_log` on are live (`HeapInv`), and what the reader relies on
without the lock is `ReaderInv`: the block behind the one it takes exists. `PutInv` says how far
the two unordered stores of `put_log` are. It needs one reader. `WholeInv` adds that no other
block is live and that the chain has no gap but the one a writer is about to close; it needs
the device closed until the list exists. The refinement maps the queue to the entries of
the blocks from the first unread one to `current_log`, and goes through every action.

*Cpu states.* `CallInv` says who may be at which step of `set_freq`: a user holds the policy lock of
the cpu it changes, and with `UsersQuiet` user and mutator never meet, so that the unlocked test
at the head of the inform callback is still true when the section is entered (`StepInv`).
`HwInv` relates booked state, target and hardware for every step of a call under way;
`DeltaInv` follows the loop in which the delta mutator brings the cpus, one after the other, to the
layout it has already published.

*Mutators.* `CoreInv` and `SlowInv` are what the intervals preserve about sleeping cpus.
`GreedyInv`: during an auction the cpus won are counted, at most as many as the load, and a cpu
not won has its old state, so that what was paid is what the layout costs; `delta` is never below 0,
as a bid is for a state within what is left of it (`BidWithin`): so the layout costs no more than delta. `DynInv`: every
row of the table of `mck` is good (`RowGood`): its entry for a budget is a state within
it, no other state serves more, and more budget never serves less. That gives optimality by
induction on the number of cpus: the walk back costs and serves what the table says, and no
layout within delta serves more. It also shows that two branches of `mck` are never taken: as every
demand is at least 1 by then, some state always fits, and less budget never served more.

*Decisions.* `TableInv`: the counts are those of some published layout and of the moves reported
since, so they add up to its number of cpus although some may be negative; in a write section
this holds of the table to come, and the entries already written are its. `ReadInv`: what a reader has read is true of the table as long as the sequence number
is the one it began with. That a search finds a state, although counts may be negative, follows
from the sum.

*Searches.* There is no invariant but the type of a question: the theorems are about what a search
computes. Its loops are written as the first (or last) free state on the way (`FirstFreeIs`,
`NoneFree`); the two directions are then the least state above, or the greatest below, and
`search_state_closest` the nearer of the two, whose ties do not matter. A ladder asks for the state next to the
current one (`Climbs`, `Descends`) or, at an end, for the current one (`Limits`), so the least
free state from there on is the nearest above the current one, if there is one. That some state has a cpu,
as in every table that is published, is what gives `lowest_loaded_state` an answer.

*Frequency tables.* `TablesInv`: whatever the list, the tables ascend once `init_freqs` has
ended; a proper list is still in `allowed_states` as it was given. The second conjunct is what
the second call rests on, as the first one corrects the parameter in place. Below it are the
loops. `sort_table`: after `m` passes the last `m` entries are not lower than any before them,
and within the next pass the entry `j` is the highest so far (`Passing`), so that `len - 1` passes
sort. Reading: the entries kept are those with fewer than `MaxStates` valid ones before them
(`UsableIs`). `prune_states` (`Pruning`): when `q` entries have been dealt with, the allowed ones
among them are at the front, each at its rank among the allowed states, the others are gone,
and the entries from `q` on follow; the loop has gone no further than the last allowed one
(`Stage`), which is why the states above it stay, and why it ends.

*Users.* `UsersInv` names the list instead of following pointers: there is a sequence of different nodes
that `user_head` and `next` lead through, ending in NULL, or in the node that is linked and not
yet filled (`Linked`); they belong to the users that are listed, in the order of their ids
(`Holds`); every allocated node is one of them, the pending one, or about to be freed by exactly
one user (`Allocated`), so that a node that is reused was in nobody's hands; and a walk that has not
been disturbed has informed the users up to the node it is at (`Walked`). An operation
appends to the sequence or takes one node out of it. The hypothesis is needed in `DestroyUnlink`: a user
that deregisters is in the list, with an id nobody else has.

*Counters.* `CtrInv` holds for each cpu a predicate `Good` of its registers: tables and registers
agree, the counters given away are the scheduler's two (`Mine`) and the other module's (`Held`), and
the scheduler's have no interrupt. Each function of the pmu has a lemma that says what it does
to the record, and each step of `Accounting` changes a cpu by such functions. `ProbeInv` lists the sets of
probes that occur in each stage of loading and unloading. `TaskInv` is what makes the books of the
tasks balance: no task runs on two cpus; the probes know the task that runs, or none (before its
first switch); a task no probe knows to run has been charged for all it executed (`Rest`),
and one that runs for all but what the two counters of its cpu hold (`Due`).

*Tools.* The loop over the words has, after each word, computed what the words so far mean
(`ReadTo`). `LauncherInv`: at least as many waits are left as children are not reaped.
`DaemonInv`: files after the current one are empty, and so is the buffer except between a read and
its write; stdio holds nothing of a closed file; and nothing is lost of the open one, or what is
written next would leave a gap. With it, every step appends what it moves to the end of
what the files were to hold (`Grows`).

Each action has a lemma, with one step per conjunct it can disturb. Induction over data is
done by hand where it is needed (sums over cpus, the recursive rows of `mck`, the loop of
`pmu_init_msrs`, the words of a command line, the passes of `sort_table`, the turns of
`prune_states`): a set of counterexamples has a least element, by the well-foundedness of the
naturals (`LeastNat`), and what holds one step before it contradicts it. That a loop written as
a recursive function is defined at all is the lemma `Recursion`, shown the same way.

### Model-checked only

All liveness (`SlotsReturn`, `RequestApplied`, `WritersReturn`, `RecordsDelivered`, `MutatorRuns`,
`LoaderReturns`, `KillEndsAll`, `RotationHappens`): fairness and ENABLED are out of the prover's
reach. `OneHintPerDecision`, a sum over the states. All other properties of passing runs are proved. The findings, and the
refuted promises of section 3, are counterexamples and have no proofs.

## 5. The plan, and what is not modelled

Done, in this order: the pool (most concurrent, and on the path of every context
switch) with its proofs; the log; the cpu states; the delta mutator; decisions.
Then the rest of the running system: the life of the module with the users of seeker-cpufreq,
the tables of frequencies, the dynamic program, the counters and who pays for them, and the
two tools.

Then proofs: the pool, the log, the cpu states, the mutators, the decisions, the counters,
the tools, the users of seeker-cpufreq, the searches and the tables of frequencies (section 4):
every safety property that a passing run checks, but `OneHintPerDecision`, has its theorem.

Worth doing next: liveness from the invariants proved here, with a prover that handles fairness,
beginning with `SlotsReturn`, whose measure is the number of steps left of the owner
that `OneOwner` names; the load of a cpu as a model of its own in place of an input.

Not modelled, and why:
* `load.c`: a quotient of kernel statistics, an input of the governors here;
  `sched_debug.c`: a diagnostic buffer the default build leaves out (`SCHED_DEBUG`);
* `get_freq`, `inc_freq`, `dec_freq`: nobody calls them, and `cur_freq`, which they read, stays -1;
  starting and stopping the governor for a cpu stores a pointer to the policy;
* `pmu_configure_interrupt`: returns an error before it does anything; `control_read` and the
  values of registers: pure I/O;
* what SIGTERM does between `fclose` and `fopen` of the daemon, when it closes a closed stream;
* `decodelog.c`, `Array.h` and the analysis scripts: formatting and plots; `src/Scripts/mck.c`: an
  offline copy of the dynamic program; `src/lib`: a table of recommendations for benchmarks.
