----------------------------- MODULE Accounting -----------------------------
(***************************************************************************)
(* Who pays for what a cpu counted: the probes of the scheduler (probe.c)  *)
(* read the counters (hwcounters.c) and the time stamp (tsc_intf.c) of a   *)
(* cpu and charge them to a task.  Beside the scheduler another module     *)
(* uses the pmu through its exported functions.                            *)
(*                                                                         *)
(* A probe runs with interrupts off on the cpu whose scheduler it probes,  *)
(* so a tick, a fork or a pass of schedule() is one step of that cpu.      *)
(* need_resched only makes the kernel call schedule() again, which here it *)
(* may do at any time.                                                     *)
(***************************************************************************)
EXTENDS Pmu

CONSTANTS Task,            \* tasks; at least one more than cpus
          INST_THRESHOLD,  \* instructions between two decisions about a task
          MaxWork,         \* bound: units of work of all the cpus together
          OtherCpu,        \* bound: cpus on which the other module counts
          OtherFix         \* bound: fixed counters whose interrupts it uses

ASSUME AccountingAssumption ==
    /\ Cardinality(Task) >= NCpu
    /\ INST_THRESHOLD \in Nat /\ MaxWork \in Nat /\ OtherCpu \subseteq Cpu

VARIABLES stage,         \* where scheduler_init or scheduler_exit is
          sys_counters,  \* counters of inst and re_cy on each cpu
          tsc, tsc_val,  \* time stamp of each cpu, and at its last reading
          probes,        \* the registered probes
          ts,            \* the task the probes think a cpu runs
          cur,           \* the task it runs
          tk,            \* the seeker members of the tasks
          exec,          \* ghost: what tk and the counters owe each task
          leaked,        \* ghost: a failed scheduler_init left its counters enabled
          xctr           \* the counter the other module has, or -1

sched == <<stage, sys_counters, tsc_val, probes, leaked>>
running == <<tsc, ts, cur, tk, exec>>
vars == <<arch, pmu, loaded, sched, running, xctr>>

NULL == "NULL"
Probe == {"tick", "fork", "switch", "schedule", "release"}
Fresh(born, managed) ==
    [inst |-> 0, re_cy |-> 0, ref_cy |-> 0, born |-> born, managed |-> managed]
Work == MapThenSumSet(LAMBDA c : tsc[c], Cpu)

-----------------------------------------------------------------------------
(* hwcounters.c and tsc_intf.c, on the state p of the cpu.                 *)

Second(p) == counter_enable(p)  \* once inst has its counter, if there is one

\* The counters enable_pmu_counters notes: 0 and 1 for the ones it did not get.
SysCounters(p) ==
    IF Fix # {} THEN <<0, 1>>
    ELSE <<IF FreeCounter(p) < 0 THEN 0 ELSE FreeCounter(p),
           IF FreeCounter(Second(p)) < 0 THEN 1 ELSE FreeCounter(Second(p))>>

clear_counters(p, sys) ==
    IF Fix # {} THEN fcounter_clear(fcounter_clear(p, 0), 1)
                ELSE counter_clear(counter_clear(p, sys[1]), sys[2])

\* Mutant: all counters of the cpu are cleared.
enable_pmu_countersClearsAll(p) ==
    IF Fix # {} THEN fcounters_enable(p)
    ELSE [counter_enable(Second(p)) EXCEPT !.pmc = [i \in Ctr |-> 0]]

enable_pmu_counters(p) ==
    clear_counters(IF Fix # {} THEN fcounters_enable(p)
                               ELSE counter_enable(Second(p)),
                   SysCounters(p))

\* Mutant: the counter of re_cy is forgotten.
disable_pmu_countersInst(p, sys) ==
    IF Fix # {} THEN fcounters_disable(p) ELSE counter_disable(p, sys[1])

disable_pmu_counters(p, sys) ==
    IF Fix # {} THEN fcounters_disable(p)
                ELSE counter_disable(counter_disable(p, sys[1]), sys[2])

read_counters(p, sys) ==
    IF Fix # {}
    THEN <<get_fcounter_data(p, fcounter_read(p), 0), get_fcounter_data(p, fcounter_read(p), 1)>>
    ELSE <<get_counter_data(counter_read(p), sys[1]), get_counter_data(counter_read(p), sys[2])>>

get_tsc_cycles(c) == tsc[c] - tsc_val[c]

-----------------------------------------------------------------------------
(* scheduler_init and scheduler_exit, the part that concerns the counters. *)

\* bound: the other module has no fixed counter configured for interrupts, as
\* get_fcounter_data would go below the value it starts from.
init_tsc_intf ==
    /\ stage = "out" /\ loaded /\ stage' = "tsc"
    /\ \A c \in Cpu, j \in Fix : pmu[c].fcleared[j] = 0
    /\ tsc_val' = tsc
    /\ UNCHANGED <<arch, pmu, loaded, sys_counters, probes, leaked, running, xctr>>

\* The data of a module that is not loaded, or was not loaded for an error.
Forget ==
    /\ sys_counters' = [c \in Cpu |-> <<0, 0>>]
    /\ tsc_val' = [c \in Cpu |-> 0] /\ ts' = [c \in Cpu |-> NULL]

\* enable_pmu_counters raises it on a cpu that has no counter left for re_cy.
ERROR == Fix = {} /\ \E c \in Cpu : FreeCounter(Second(pmu[c])) < 0

\* A failure leaves the counters already enabled to nobody.
configure_counters ==
    /\ stage = "tsc"
    /\ pmu' = [c \in Cpu |-> enable_pmu_counters(pmu[c])]
    /\ \/ /\ ~ERROR /\ stage' = "insert"
          /\ sys_counters' = [c \in Cpu |-> SysCounters(pmu[c])]
          /\ UNCHANGED <<tsc_val, ts, leaked>>
       \/ ERROR /\ stage' = "out" /\ leaked' = TRUE /\ Forget
    /\ UNCHANGED <<arch, loaded, probes, tsc, cur, tk, exec, xctr>>

InsertOrder == <<"tick", "fork", "switch", "schedule", "release">>
\* Mutant: the switch probe goes before the one on schedule.
RemoveOrderSwitchFirst == <<"tick", "fork", "switch", "schedule", "release">>

RemoveOrder == <<"tick", "fork", "schedule", "switch", "release">>

\* insert_probes registers one more probe; charges start from here.
register_probe ==
    /\ stage = "insert" /\ probes # Probe
    /\ LET p == InsertOrder[Cardinality(probes) + 1]
       IN  /\ probes' = probes \cup {p}
           /\ exec' = IF p = "switch" THEN tk ELSE exec
    /\ stage' = IF probes' = Probe THEN "live" ELSE "insert"
    /\ UNCHANGED <<arch, pmu, loaded, sys_counters, tsc_val, leaked, tsc, ts,
                   cur, tk, xctr>>

\* A probe could not be registered: unregister the others, last one first.
register_fails ==
    /\ stage = "insert" /\ stage' = "undo" /\ leaked' = TRUE
    /\ UNCHANGED <<arch, pmu, loaded, sys_counters, tsc_val, probes, running, xctr>>

unwind_probe ==
    /\ stage = "undo"
    /\ probes' = IF probes = {} THEN {}
                 ELSE probes \ {InsertOrder[Cardinality(probes)]}
    /\ \/ probes' # {} /\ UNCHANGED <<stage, sys_counters, tsc_val, ts>>
       \/ probes' = {} /\ stage' = "out" /\ Forget
    /\ exec' = IF "switch" \in probes' THEN exec ELSE tk
    /\ UNCHANGED <<arch, pmu, loaded, leaked, tsc, cur, tk, xctr>>

remove_probe ==
    /\ stage \in {"live", "exit"} /\ probes # {}
    /\ probes' = probes \ {RemoveOrder[6 - Cardinality(probes)]}
    /\ stage' = "exit" /\ exec' = IF "switch" \in probes' THEN exec ELSE tk
    /\ UNCHANGED <<arch, pmu, loaded, sys_counters, tsc_val, leaked, tsc, ts, cur, tk, xctr>>

exit_counters ==
    /\ stage = "exit" /\ probes = {} /\ stage' = "out" /\ Forget
    /\ pmu' = [c \in Cpu |-> disable_pmu_counters(pmu[c], sys_counters[c])]
    /\ UNCHANGED <<arch, loaded, probes, leaked, tsc, cur, tk, exec, xctr>>

-----------------------------------------------------------------------------
(* The probes.                                                             *)

\* The members of t once what cpu c counted is added to them.
Charged(t, c) ==
    LET val == read_counters(pmu[c], sys_counters[c])
    IN  [tk[t] EXCEPT !.inst = @ + val[1], !.re_cy = @ + val[2],
                      !.ref_cy = @ + get_tsc_cycles(c)]

Charge(t, c, members) ==
    /\ tk' = [tk EXCEPT ![t] = members]
    /\ pmu' = [pmu EXCEPT ![c] = clear_counters(@, sys_counters[c])]
    /\ tsc_val' = [tsc_val EXCEPT ![c] = tsc[c]]

\* seeker_scheduled is set, and is_blacklist_task does not know the task.
Managed(t) == tk[t].managed

\* scheduler_tick or schedule is entered.
inst_schedule(c) ==
    /\ probes \cap {"tick", "schedule"} # {}
    /\ ts[c] # NULL /\ Managed(ts[c])
    /\ Charge(ts[c], c, Charged(ts[c], c))
    /\ UNCHANGED <<arch, loaded, stage, sys_counters, probes, leaked,
                   tsc, ts, cur, exec, xctr>>

\* put_mask_from_stats starts a task over once it has run long enough.
Decided(t, c) == Managed(t) /\ Charged(t, c).inst >= INST_THRESHOLD

\* cpu c switches to another task, under the eyes of the probe or not.
inst___switch_to(c, to) ==
    LET from == cur[c]
    IN  /\ tk[to].born /\ \A d \in Cpu : cur[d] # to
        /\ cur' = [cur EXCEPT ![c] = to]
        /\ \/ /\ "switch" \in probes
              /\ ts' = [ts EXCEPT ![c] = to]
              /\ Charge(from, c, IF Decided(from, c) THEN Fresh(TRUE, TRUE)
                                                     ELSE Charged(from, c))
              \* what was counted before the first switch is nobody's
              /\ exec' = [exec EXCEPT ![from] =
                            IF ts[c] = NULL \/ Decided(from, c) THEN tk'[from] ELSE @]
           \/ "switch" \notin probes /\ UNCHANGED <<ts, tk, pmu, tsc_val, exec>>
        /\ UNCHANGED <<arch, loaded, stage, sys_counters, probes, leaked, tsc, xctr>>

\* The task of cpu c forks; a new task starts as a copy of its parent.
inst_sched_fork(c, new) ==
    /\ ~tk[new].born
    /\ \/ /\ "fork" \in probes
          /\ \E known \in BOOLEAN :  \* is_blacklist_task(new)
               tk' = [tk EXCEPT ![new] = Fresh(TRUE, ~known)]
          /\ tsc_val' = [tsc_val EXCEPT ![c] = tsc[c]]
       \/ /\ "fork" \notin probes
          /\ tk' = [tk EXCEPT ![new] = tk[cur[c]]] /\ UNCHANGED tsc_val
    /\ exec' = [exec EXCEPT ![new] = tk'[new]]
    /\ UNCHANGED <<arch, pmu, loaded, stage, sys_counters, probes, leaked,
                   tsc, ts, cur, xctr>>

Ran(m) == [m EXCEPT !.inst = @ + 1, !.re_cy = @ + 1, !.ref_cy = @ + 1]

\* The task of cpu c executes a unit of work.
Execute(c) ==
    /\ Work < MaxWork
    /\ pmu' = [pmu EXCEPT ![c] = Count(@)]
    /\ tsc' = [tsc EXCEPT ![c] = @ + 1]
    /\ exec' = IF "switch" \in probes /\ ts[c] # NULL
               THEN [exec EXCEPT ![cur[c]] = Ran(@)] ELSE exec
    /\ UNCHANGED <<arch, loaded, sched, ts, cur, tk, xctr>>

-----------------------------------------------------------------------------
(* Another module and the pmu module.  A general counter belongs to who    *)
(* got it; the fixed counters have no owner, so the other module uses them *)
(* only while the scheduler is not loaded.                                 *)

OtherSets(c, p) == /\ loaded /\ pmu' = [pmu EXCEPT ![c] = p]
                   /\ UNCHANGED <<arch, loaded, sched, running>>

Other(c) ==
    \/ /\ xctr[c] = -1 /\ OtherSets(c, counter_enable(pmu[c]))
       /\ xctr' = [xctr EXCEPT ![c] = FreeCounter(pmu[c])]
    \/ /\ xctr[c] # -1 /\ OtherSets(c, counter_disable(pmu[c], xctr[c]))
       /\ xctr' = [xctr EXCEPT ![c] = -1]
    \/ /\ xctr[c] # -1 /\ UNCHANGED xctr
       /\ \/ OtherSets(c, pmu_enable_interrupt(pmu[c], xctr[c]))
          \/ OtherSets(c, pmu_disable_interrupt(pmu[c], xctr[c]))
          \/ /\ pmu_is_interrupt(pmu[c], xctr[c])
             /\ OtherSets(c, pmu_clear_ovf_status(pmu[c], xctr[c]))

OtherFixed(c) ==
    /\ stage = "out" /\ UNCHANGED xctr
    /\ \E j \in Fix \cap OtherFix :
         \/ OtherSets(c, fcounters_enable(pmu[c]))
         \/ OtherSets(c, fcounters_disable(pmu[c]))
         \/ OtherSets(c, fpmu_configure_interrupt(pmu[c], j, W - 1))
         \/ OtherSets(c, fpmu_enable_interrupt(pmu[c], j))
         \/ OtherSets(c, fpmu_disable_interrupt(pmu[c], j))
         \/ /\ fpmu_is_interrupt(pmu[c], j)
            /\ OtherSets(c, fpmu_clear_ovf_status(pmu[c], j))

PmuModule ==
    /\ stage = "out" /\ \A c \in Cpu : xctr[c] = -1
    /\ \/ pmu_init /\ leaked' = FALSE
       \/ pmu_exit /\ UNCHANGED leaked
    /\ UNCHANGED <<stage, sys_counters, tsc_val, probes, running, xctr>>

Init ==
    /\ PmuInit
    /\ stage = "out" /\ probes = {} /\ leaked = FALSE
    /\ sys_counters = [c \in Cpu |-> <<0, 0>>] /\ ts = [c \in Cpu |-> NULL]
    /\ tsc = [c \in Cpu |-> 0] /\ tsc_val = tsc /\ xctr = [c \in Cpu |-> -1]
    /\ \E old \in SUBSET Task : tk = [t \in Task |-> Fresh(t \in old, FALSE)]
    /\ exec = tk
    /\ cur \in {f \in [Cpu -> Task] : \A c, d \in Cpu :
                  tk[f[c]].born /\ (c # d => f[c] # f[d])}

Next ==
    \* bound: on a C2D, where the scheduler takes no general counter, the other
    \* module has given its own back by then
    \/ init_tsc_intf /\ (Fix = {} \/ \A c \in Cpu : xctr[c] = -1)
    \/ configure_counters \/ register_probe \/ register_fails
    \/ unwind_probe \/ remove_probe \/ exit_counters \/ PmuModule
    \* bound: the tasks are followed only while the scheduler is loaded, and the
    \* other module waits while the scheduler is being loaded or unloaded
    \/ /\ stage \notin {"out", "tsc"}
       /\ \E c \in Cpu :
            \/ inst_schedule(c) \/ Execute(c)
            \/ \E t \in Task : inst___switch_to(c, t) \/ inst_sched_fork(c, t)
    \/ /\ stage = "out" \/ (stage = "live" /\ Fix = {})
       /\ \E c \in OtherCpu : Other(c) \/ OtherFixed(c)

Spec == Init /\ [][Next]_vars

-----------------------------------------------------------------------------
(* Properties.                                                             *)

Pending(c) == read_counters(pmu[c], sys_counters[c])
Uses == IF stage \in {"insert", "live", "exit", "undo"} /\ Fix = {} THEN {1, 2} ELSE {}

\* Type: the stages of the scheduler, and counts that stay in their registers.
TypeOK ==
    /\ stage \in {"out", "tsc", "insert", "live", "exit", "undo"}
    /\ probes \subseteq Probe /\ (stage = "out" => probes = {})
    /\ \A c \in Cpu :
         /\ \A i \in Ctr : pmu[c].pmc[i] \in 0 .. W - 1
         /\ \A n \in {1, 2} : sys_counters[c][n] \in Nat
         /\ xctr[c] \in Ctr \cup {-1} /\ ts[c] \in Task \cup {NULL}

\* While inst___switch_to is registered every instruction and cycle of a task
\* is in its members or still in the counters of its cpu, once; no task is
\* charged reference cycles it did not run; and a tick or a schedule charges
\* the task that runs (probe.c: what inst_schedule and inst___switch_to add).
ChargedToRunner ==
    /\ "switch" \in probes => \A t \in Task :
         LET on == {c \in Cpu : cur[c] = t /\ ts[c] # NULL}
             Owed(inst, re_cy, ref_cy) == /\ tk[t].inst + inst = exec[t].inst
                                          /\ tk[t].re_cy + re_cy = exec[t].re_cy
                                          /\ tk[t].ref_cy + ref_cy <= exec[t].ref_cy
         IN  IF on = {} THEN Owed(0, 0, 0)
             ELSE \A c \in on : Owed(Pending(c)[1], Pending(c)[2], get_tsc_cycles(c))
    /\ stage # "undo" /\ probes \cap {"tick", "schedule"} # {} =>
         \A c \in Cpu : ts[c] \in {NULL, cur[c]}

\* A loaded pmu counts with exactly the counters it has given away, and those
\* are the other module's and the scheduler's, each its own, unless a load
\* failed (hwcounters.c: enable_pmu_counters, disable_pmu_counters).
CountersOwned ==
    loaded => \A c \in Cpu :
      LET given == pmu[c].enabled
          ours == {sys_counters[c][n] : n \in Uses}
      IN  /\ given = {i \in Ctr : evtsel_read(pmu[c], i).enabled}
          /\ ~leaked => given = ours \cup ({xctr[c]} \ {-1})
          /\ Cardinality(ours) = Cardinality(Uses) /\ xctr[c] \notin ours

\* The scheduler, which handles no interrupt, never counts with a counter
\* that raises one, although the counter's last user may have left its
\* interrupt enabled (msr_pmu.c counter_enable, msr_fpmu.c fcounters_enable).
NoStrayInterrupt ==
    stage \in {"insert", "live", "exit", "undo"} => \A c \in Cpu :
      /\ pmu[c].fctl.pmi = {}
      /\ \A n \in Uses : ~pmu[c].sel[sys_counters[c][n]].int

\* The count of the other module's counter is set back only by itself: loading
\* and unloading the scheduler disturb nobody else, as long as it gets its
\* counters (hwcounters.c clear_counters, disable_pmu_counters).
OthersUndisturbed ==
    [][\A c \in Cpu : xctr[c] # -1 /\ xctr'[c] = xctr[c] /\ ~(stage = "tsc" /\ ERROR) =>
         pmu'[c].pmc[xctr[c]] \in {pmu[c].pmc[xctr[c]], (pmu[c].pmc[xctr[c]] + 1) % W}]_vars
=============================================================================
