-------------------------------- MODULE Pmu --------------------------------
(***************************************************************************)
(* The pmu module (src/Module/pmu): allocation of the general performance  *)
(* counters of a cpu, the fixed counters, and their interrupts.            *)
(*                                                                         *)
(* Every function works on the cpu it runs on, from on_each_cpu or a probe *)
(* with interrupts off, so it is one step, and an operator from the        *)
(* state of a cpu to its next state.  That state is a record:              *)
(*   enabled, evtsel, fcontrol, fcleared                                   *)
(*                          the module's tables, lost when it is unloaded; *)
(*   sel, pmc, fctl, fpmc   the registers: event select, counts, fixed     *)
(*                          control and fixed counts;                      *)
(*   ovf                    MSR_PERF_GLOBAL_STATUS, counter i as           *)
(*                          <<"c", i>>, fixed counter j as <<"f", j>>.     *)
(* Event selects keep the enabled and the interrupt bit; the event and the *)
(* other bits go the same way.  The values counter_read and fcounter_read  *)
(* store are used at once, by the handler that called them, and not kept.  *)
(***************************************************************************)
EXTENDS Integers, FiniteSets, FiniteSetsExt

CONSTANTS NCpu,                \* online cpus
          C2D_COUNTERS,        \* general counters of a Core 2 Duo
          AMD_COUNTERS,        \* general counters of a K8 or a K10
          NUM_FIXED_COUNTERS,  \* fixed counters of a C2D; the AMDs have none
          W                    \* a count register holds 0 .. W - 1

ASSUME PmuAssumption ==
    /\ {NCpu, C2D_COUNTERS, AMD_COUNTERS, W} \subseteq Nat \ {0}
    /\ NUM_FIXED_COUNTERS \in Nat \ {0, 1}

VARIABLES arch,  \* "C2D" or "AMD", fixed when the modules are compiled
          pmu,   \* the state of each cpu
          loaded \* the module is loaded

Cpu == 0 .. NCpu - 1
NUM_COUNTERS == IF arch = "C2D" THEN C2D_COUNTERS ELSE AMD_COUNTERS
Ctr == 0 .. NUM_COUNTERS - 1
Fix == IF arch = "C2D" THEN 0 .. NUM_FIXED_COUNTERS - 1 ELSE {}
Archs == {"C2D", "AMD"}

Select(on, int) == [enabled |-> on, int |-> int]
Off == Select(FALSE, FALSE)
Tables == [enabled |-> {},  \* the counters with counter_t.enabled = 1
           evtsel |-> [i \in Ctr |-> Off],
           fcontrol |-> [usr |-> {}, pmi |-> {}], fcleared |-> [j \in Fix |-> 0]]
Registers ==
    [sel |-> [i \in Ctr |-> Select(TRUE, TRUE)], pmc |-> [i \in Ctr |-> 0],
     fctl |-> [usr |-> Fix, pmi |-> Fix], fpmc |-> [j \in Fix |-> 0],
     ovf |-> IF Fix = {} THEN {} ELSE {<<"c", 0>>, <<"f", 0>>}]
Machine(t, r) ==
    [enabled |-> t.enabled, evtsel |-> t.evtsel, fcontrol |-> t.fcontrol, fcleared |-> t.fcleared,
     sel |-> r.sel, pmc |-> r.pmc, fctl |-> r.fctl, fpmc |-> r.fpmc, ovf |-> r.ovf]

-----------------------------------------------------------------------------
(* General counters, msr_pmu.c.                                            *)

evtsel_read(p, i) == p.sel[i]

evtsel_clear(p, i) == [p EXCEPT !.sel = [@ EXCEPT ![i] = Off]]

evtsel_write(p, i) == [p EXCEPT !.sel = [@ EXCEPT ![i] = p.evtsel[i]]]

\* The count starts from 0 whatever pmu_configure_interrupt was told.
counter_clear(p, i) == IF i \in Ctr THEN [p EXCEPT !.pmc = [@ EXCEPT ![i] = 0]] ELSE p

\* Only the enabled counters are read.
counter_read(p) == [i \in p.enabled |-> p.pmc[i]]

\* What the last counter_read stored.  Nobody asks for a counter that was not
\* enabled then, whose value would be older: TLC would stop on it.
get_counter_data(read, i) == IF i \in Ctr THEN read[i] ELSE 0

counter_disable(p, i) ==
    IF i \notin p.enabled
    THEN p
    ELSE evtsel_write([counter_clear(evtsel_clear(p, i), i)
                         EXCEPT !.evtsel = [@ EXCEPT ![i] = Select(FALSE, p.evtsel[i].int)],
                                !.enabled = @ \ {i}], i)

\* The counter that counter_enable takes, -1 when all are taken.
FreeCounter(p) ==
    LET free == Ctr \ p.enabled
    IN  IF free = {} THEN -1 ELSE Min(free)

\* Mutant: the interrupt flag of the last user stays.
counter_enableKeepsInt(p) ==
    LET i == FreeCounter(p)
    IN  IF i < 0 THEN p
        ELSE evtsel_write([counter_clear(evtsel_clear(p, i), i)
                             EXCEPT !.enabled = @ \cup {i},
                                    !.evtsel = [@ EXCEPT ![i] = Select(TRUE, p.evtsel[i].int)]], i)

counter_enable(p) ==
    LET i == FreeCounter(p)
    IN  IF i < 0 THEN p
        ELSE evtsel_write([counter_clear(evtsel_clear(p, i), i)
                             EXCEPT !.enabled = @ \cup {i},
                                    !.evtsel = [@ EXCEPT ![i] = Select(TRUE, FALSE)]], i)

-----------------------------------------------------------------------------
(* Fixed counters, msr_fpmu.c.                                             *)

control_clear(p) == [p EXCEPT !.fctl = [usr |-> {}, pmi |-> {}]]

control_write(p) == [p EXCEPT !.fctl = p.fcontrol]

fcounter_clear(p, j) == [p EXCEPT !.fpmc = [@ EXCEPT ![j] = p.fcleared[j]]]

ClearAllFixed(p) == [p EXCEPT !.fpmc = p.fcleared]

fcounter_read(p) == p.fpmc

get_fcounter_data(p, read, j) == read[j] - p.fcleared[j]

\* fcontrol keeps its bits: the next control_write turns the counters on.
fcounters_disable(p) == control_clear(ClearAllFixed(p))

fcounters_enable(p) ==
    control_write([ClearAllFixed(p) EXCEPT !.fcontrol = [usr |-> Fix, pmi |-> {}]])

-----------------------------------------------------------------------------
(* Interrupts, intr_pmu.c and intr_fpmu.c.                                 *)

pmu_enable_interrupt(p, i) ==
    IF i \in Ctr
    THEN evtsel_write([p EXCEPT !.evtsel = [@ EXCEPT ![i] = Select(p.evtsel[i].enabled, TRUE)]], i)
    ELSE p

pmu_disable_interrupt(p, i) ==
    IF i \in Ctr
    THEN evtsel_write([p EXCEPT !.evtsel = [@ EXCEPT ![i] = Select(p.evtsel[i].enabled, FALSE)]], i)
    ELSE p

pmu_is_interrupt(p, i) == arch = "C2D" /\ <<"c", i>> \in p.ovf

\* The module reads MSR_PERF_GLOBAL_OVF_CTRL, drops the counter's bit and
\* writes the rest back; the register reads as zero, and the processor clears
\* the status bits that are written as ones.
OvfCtrl == {}
pmu_clear_ovf_status(p, i) ==
    IF arch = "C2D" /\ i \in Ctr THEN [p EXCEPT !.ovf = @ \ (OvfCtrl \ {<<"c", i>>})] ELSE p

fpmu_configure_interrupt(p, j, v) ==
    IF j \in Fix THEN [p EXCEPT !.fcleared = [@ EXCEPT ![j] = v]] ELSE p

fpmu_enable_interrupt(p, j) ==
    IF j \in Fix THEN control_write([p EXCEPT !.fcontrol = [usr |-> @.usr, pmi |-> @.pmi \cup {j}]]) ELSE p

fpmu_disable_interrupt(p, j) ==
    IF j \in Fix
    THEN control_write([p EXCEPT !.fcleared = [@ EXCEPT ![j] = 0],
                                 !.fcontrol = [usr |-> @.usr, pmi |-> @.pmi \ {j}]])
    ELSE p

fpmu_is_interrupt(p, j) == j \in Fix /\ <<"f", j>> \in p.ovf

fpmu_clear_ovf_status(p, j) ==
    IF j \in Fix THEN [p EXCEPT !.ovf = @ \ (OvfCtrl \ {<<"f", j>>})] ELSE p

-----------------------------------------------------------------------------
(* The life of the module, main.c.                                         *)

pmu_init_msrs(p) ==
    LET init[n \in 0 .. NUM_COUNTERS] ==
            IF n = 0 THEN p
            ELSE counter_clear(counter_disable(evtsel_clear(init[n - 1], n - 1), n - 1), n - 1)
    IN  init[NUM_COUNTERS]

fpmu_init_msrs(p) == IF Fix = {} THEN p
                     ELSE fcounters_disable(control_clear(ClearAllFixed(p)))

\* A newly loaded module has its initial tables and finds the registers as
\* whoever used them last left them; the other cpus copy the tables of cpu 0.
pmu_init ==
    /\ ~loaded /\ loaded' = TRUE
    /\ pmu' = [c \in Cpu |-> fpmu_init_msrs(pmu_init_msrs(Machine(Tables, pmu[c])))]
    /\ UNCHANGED arch

\* Forgets the counters and then all its data; the registers stay as they are.
pmu_exit ==
    /\ loaded /\ loaded' = FALSE
    /\ pmu' = [c \in Cpu |-> Machine(Tables, pmu[c])]
    /\ UNCHANGED arch

\* The processor: a unit of work is counted by every counter that is on, and
\* a count that wraps raises its bit.
Count(p) ==
    LET on == {i \in Ctr : p.sel[i].enabled}
        Up(n) == (n + 1) % W
    IN  [p EXCEPT !.pmc = [i \in Ctr |-> IF i \in on THEN Up(@[i]) ELSE @[i]],
                  !.fpmc = [j \in Fix |-> IF j \in p.fctl.usr THEN Up(@[j]) ELSE @[j]],
                  !.ovf = IF Fix = {} THEN {} ELSE
                            @ \cup {<<"c", i>> : i \in {k \in on : p.pmc[k] = W - 1}}
                              \cup {<<"f", j>> : j \in {k \in p.fctl.usr : p.fpmc[k] = W - 1}}]

\* Before the module is first loaded somebody else has used the registers, and
\* left them counting.
PmuInit ==
    /\ arch \in Archs /\ loaded = FALSE
    /\ pmu = [c \in Cpu |-> Machine(Tables, Registers)]
=============================================================================
