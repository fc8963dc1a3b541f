--------------------------- MODULE AccountingProofs ---------------------------
(***************************************************************************)
(* For every number of cpus, counters and tasks, on both processors: the   *)
(* pmu module counts with exactly the counters it has given away, the      *)
(* scheduler shares none of its own, takes no interrupt from them and      *)
(* leaves everyone else's alone; and as long as no counter wraps between   *)
(* two readings, what a cpu counts is charged once, to the task that ran.  *)
(***************************************************************************)
EXTENDS Accounting, FiniteSetTheorems, WellFoundedInduction, TLAPS

(* The state of a cpu, by its members.                                     *)
Selects == [enabled : BOOLEAN, int : BOOLEAN]
Controls == [usr : SUBSET Fix, pmi : SUBSET Fix]
Counts == 0 .. W - 1
Bits == ({"c"} \X Ctr) \cup ({"f"} \X Fix)
CpuPmu == [enabled : SUBSET Ctr, evtsel : [Ctr -> Selects], fcontrol : Controls,
           fcleared : [Fix -> Counts], sel : [Ctr -> Selects], pmc : [Ctr -> Counts],
           fctl : Controls, fpmc : [Fix -> Counts], ovf : SUBSET Bits]

(* What two states of a cpu have in common: the members of the general     *)
(* counters and those of the fixed ones.                                   *)
SameGeneral(p, q) ==
    q.enabled = p.enabled /\ q.evtsel = p.evtsel /\ q.sel = p.sel /\ q.pmc = p.pmc
SameFixed(p, q) ==
    /\ q.fcontrol = p.fcontrol /\ q.fcleared = p.fcleared
    /\ q.fctl = p.fctl /\ q.fpmc = p.fpmc

(* What happens to counter i: its row of the tables and its register are   *)
(* v; and its count starts over.                                           *)
Programmed(p, q, i, v) ==
    q.evtsel = [p.evtsel EXCEPT ![i] = v] /\ q.sel = [p.sel EXCEPT ![i] = v]
Restarted(p, q, i) == q.pmc = [p.pmc EXCEPT ![i] = 0]
Counting == Select(TRUE, FALSE)

-----------------------------------------------------------------------------
(* The operators of the pmu module.                                        *)

(* The numbers of counters are numbers.                                    *)
LEMMA Sizes ==
    /\ NUM_COUNTERS \in Nat \ {0} /\ W \in Nat \ {0} /\ 0 \in Counts /\ Ctr \subseteq Nat
    /\ Fix # {} => 0 \in Fix /\ 1 \in Fix
  BY PmuAssumption DEF NUM_COUNTERS, Counts, Ctr, Fix

(* The values of an event select.                                          *)
LEMMA SelectsType ==
    /\ Off \in Selects /\ \A on, int \in BOOLEAN : Select(on, int) \in Selects
    /\ Counting \in Selects /\ Counting.enabled /\ ~Counting.int
    /\ \A on, int \in BOOLEAN : Select(on, int).enabled = on /\ Select(on, int).int = int
  BY DEF Selects, Off, Counting, Select

(* Every non-empty set of natural numbers has a least element.             *)
LEMMA LeastNat ==
    ASSUME NEW T, T \subseteq Nat, T # {}
    PROVE  \E x \in T : \A y \in T : x <= y
<1> DEFINE R == {ss \in Nat \X Nat : ss[1] < ss[2]}
<1>1. IsWellFoundedOn(R, Nat)
  BY NatLessThanWellFounded DEF OpToRel
<1>2. \A x, y \in Nat : <<x, y>> \in R <=> x < y
  OBVIOUS
<1> HIDE DEF R
<1>3. PICK x \in T : \A y \in T : ~ (<<y, x>> \in R)
  BY <1>1, WFMin
<1>4. \A y \in T : ~ (y < x)
  BY <1>2, <1>3
<1>5. \A y \in T : x <= y
  BY <1>4
<1> QED
  BY <1>5

(* The tables of the general counters, changed together.                   *)
WithTable(p, v, e) == [p EXCEPT !.evtsel = v, !.enabled = e]

(* A change of one member leaves the others.                               *)
LEMMA SetSel ==
    ASSUME NEW p \in CpuPmu, NEW v \in [Ctr -> Selects], NEW q, q = [p EXCEPT !.sel = v]
    PROVE  /\ q \in CpuPmu /\ SameFixed(p, q) /\ q.sel = v
           /\ q.enabled = p.enabled /\ q.evtsel = p.evtsel /\ q.pmc = p.pmc
  BY DEF CpuPmu, SameFixed

(* Writing the count of a counter.                                         *)
LEMMA SetPmc ==
    ASSUME NEW p \in CpuPmu, NEW v \in [Ctr -> Counts], NEW q, q = [p EXCEPT !.pmc = v]
    PROVE  /\ q \in CpuPmu /\ SameFixed(p, q) /\ q.pmc = v
           /\ q.enabled = p.enabled /\ q.evtsel = p.evtsel /\ q.sel = p.sel
  BY DEF CpuPmu, SameFixed

(* Writing the tables of the general counters.                             *)
LEMMA SetTable ==
    ASSUME NEW p \in CpuPmu, NEW v \in [Ctr -> Selects], NEW e \in SUBSET Ctr,
           NEW q, q = WithTable(p, v, e)
    PROVE  /\ q \in CpuPmu /\ SameFixed(p, q) /\ q.evtsel = v /\ q.enabled = e
           /\ q.sel = p.sel /\ q.pmc = p.pmc
  BY DEF CpuPmu, SameFixed, WithTable

(* counter_enable takes a counter that nobody has, if there is one.        *)
LEMMA Free ==
    ASSUME NEW p
    PROVE  FreeCounter(p) \in (Ctr \ p.enabled) \cup {-1}
<1> DEFINE free == Ctr \ p.enabled
<1>1. CASE free = {}
  BY <1>1 DEF FreeCounter
<1>2. CASE free # {}
  <2>1. \E x \in free : \A y \in free : x <= y
    <3>1. free \subseteq Nat
      BY Sizes
    <3> HIDE DEF free
    <3> QED
      BY <1>2, <3>1, LeastNat
  <2>2. Min(free) \in free
    BY <2>1 DEF Min
  <2>3. FreeCounter(p) = Min(free)
    BY <1>2 DEF FreeCounter
  <2> QED
    BY <2>2, <2>3
<1> QED
  BY <1>1, <1>2

(* What counter_enable and counter_disable do to the counter i: clear it,   *)
(* change its row of the tables and write that to the register.            *)
LEMMA Program ==
    ASSUME NEW p \in CpuPmu, NEW i \in Ctr, NEW v \in Selects, NEW e \in SUBSET Ctr, NEW b,
           b = counter_clear(evtsel_clear(p, i), i), NEW q,
           q = evtsel_write(WithTable(b, [b.evtsel EXCEPT ![i] = v], e), i)
    PROVE  /\ q \in CpuPmu /\ SameFixed(p, q) /\ q.enabled = e
           /\ Programmed(p, q, i, v) /\ Restarted(p, q, i)
<1> DEFINE a == evtsel_clear(p, i)
           d == WithTable(b, [b.evtsel EXCEPT ![i] = v], e)
           sel1 == [p.sel EXCEPT ![i] = Off]
           sel2 == [p.sel EXCEPT ![i] = v]
           pmc1 == [p.pmc EXCEPT ![i] = 0]
           evt1 == [p.evtsel EXCEPT ![i] = v]
<1>0. p.sel \in [Ctr -> Selects] /\ p.evtsel \in [Ctr -> Selects] /\ p.pmc \in [Ctr -> Counts]
  BY DEF CpuPmu
<1>1. /\ sel1 \in [Ctr -> Selects] /\ sel2 \in [Ctr -> Selects]
      /\ pmc1 \in [Ctr -> Counts] /\ evt1 \in [Ctr -> Selects]
      /\ evt1[i] = v /\ [sel1 EXCEPT ![i] = v] = sel2
  BY <1>0, SelectsType, Sizes
<1>2. a = [p EXCEPT !.sel = sel1]
  BY DEF evtsel_clear
<1>3. b = [a EXCEPT !.pmc = [a.pmc EXCEPT ![i] = 0]]
  BY DEF counter_clear
<1>4. q = [d EXCEPT !.sel = [d.sel EXCEPT ![i] = d.evtsel[i]]]
  BY DEF evtsel_write
<1> HIDE DEF a, sel1
<1>5. /\ a \in CpuPmu /\ SameFixed(p, a) /\ a.sel = sel1
      /\ a.enabled = p.enabled /\ a.evtsel = p.evtsel /\ a.pmc = p.pmc
  BY <1>1, <1>2, SetSel
<1>6. b = [a EXCEPT !.pmc = pmc1]
  BY <1>3, <1>5
<1> HIDE DEF pmc1
<1>7. /\ b \in CpuPmu /\ SameFixed(a, b) /\ b.pmc = pmc1
      /\ b.enabled = a.enabled /\ b.evtsel = a.evtsel /\ b.sel = a.sel
  BY <1>1, <1>5, <1>6, SetPmc
<1>8. d = WithTable(b, evt1, e)
  BY <1>5, <1>7
<1> HIDE DEF d, evt1
<1>9. /\ d \in CpuPmu /\ SameFixed(b, d) /\ d.evtsel = evt1
      /\ d.enabled = e /\ d.sel = b.sel /\ d.pmc = b.pmc
  BY <1>1, <1>7, <1>8, SetTable
<1>10. q = [d EXCEPT !.sel = sel2]
  BY <1>1, <1>4, <1>5, <1>7, <1>9
<1> HIDE DEF sel2
<1>11. /\ q \in CpuPmu /\ SameFixed(d, q) /\ q.sel = sel2
       /\ q.enabled = d.enabled /\ q.evtsel = d.evtsel /\ q.pmc = d.pmc
  BY <1>1, <1>9, <1>10, SetSel
<1>12. SameFixed(p, q)
  BY <1>5, <1>7, <1>9, <1>11 DEF SameFixed
<1> QED
  BY <1>5, <1>7, <1>9, <1>11, <1>12 DEF Programmed, Restarted, sel2, pmc1, evt1

(* The new counter counts from 0, without interrupts.                      *)
LEMMA Enable ==
    ASSUME NEW p \in CpuPmu, NEW i, i = FreeCounter(p), NEW q, q = counter_enable(p)
    PROVE  /\ q \in CpuPmu /\ SameFixed(p, q)
           /\ i \notin Ctr => q = p
           /\ i \in Ctr => /\ i \notin p.enabled /\ q.enabled = p.enabled \cup {i}
                           /\ Programmed(p, q, i, Counting) /\ Restarted(p, q, i)
<1>1. i \in (Ctr \ p.enabled) \cup {-1}
  BY Free
<1>2. CASE i \notin Ctr
  <2>1. i < 0
    BY <1>1, <1>2
  <2>2. q = p
    BY <2>1 DEF counter_enable
  <2> QED
    BY <1>2, <2>2 DEF SameFixed
<1>3. CASE i \in Ctr
  <2>1. i \notin p.enabled /\ ~(i < 0)
    BY <1>1, <1>3, Sizes
  <2> DEFINE b == counter_clear(evtsel_clear(p, i), i)
             e == p.enabled \cup {i}
  <2>2. q = evtsel_write([b EXCEPT !.enabled = @ \cup {i},
                                   !.evtsel = [@ EXCEPT ![i] = Counting]], i)
    BY <2>1 DEF counter_enable, Counting
  <2>3. b.enabled = p.enabled /\ DOMAIN b = DOMAIN p /\ "enabled" \in DOMAIN b /\ "evtsel" \in DOMAIN b
    BY <1>3 DEF counter_clear, evtsel_clear, CpuPmu
  <2>4. e \in SUBSET Ctr /\ b = counter_clear(evtsel_clear(p, i), i)
    BY <1>3 DEF CpuPmu
  <2> HIDE DEF b
  <2>5. [b EXCEPT !.enabled = @ \cup {i}, !.evtsel = [@ EXCEPT ![i] = Counting]]
          = WithTable(b, [b.evtsel EXCEPT ![i] = Counting], e)
    BY <2>3 DEF WithTable
  <2>6. q = evtsel_write(WithTable(b, [b.evtsel EXCEPT ![i] = Counting], e), i)
    BY <2>2, <2>5
  <2> HIDE DEF e
  <2>7. /\ q \in CpuPmu /\ SameFixed(p, q) /\ q.enabled = e
        /\ Programmed(p, q, i, Counting) /\ Restarted(p, q, i)
    BY <1>3, <2>4, <2>6, Program, SelectsType
  <2> QED
    BY <1>3, <2>1, <2>7 DEF e
<1> QED
  BY <1>2, <1>3

(* A counter that is given back stops; its interrupt flag stays.           *)
LEMMA Disable ==
    ASSUME NEW p \in CpuPmu, NEW i \in Ctr, NEW q, q = counter_disable(p, i)
    PROVE  /\ q \in CpuPmu /\ SameFixed(p, q)
           /\ i \notin p.enabled => q = p
           /\ i \in p.enabled =>
                /\ q.enabled = p.enabled \ {i} /\ Restarted(p, q, i)
                /\ \E v \in Selects : ~v.enabled /\ Programmed(p, q, i, v)
<1>1. CASE i \notin p.enabled
  <2>1. q = p
    BY <1>1 DEF counter_disable
  <2> QED
    BY <1>1, <2>1 DEF SameFixed
<1>2. CASE i \in p.enabled
  <2> DEFINE b == counter_clear(evtsel_clear(p, i), i)
             e == p.enabled \ {i}
             v == Select(FALSE, p.evtsel[i].int)
  <2>1. q = evtsel_write([b EXCEPT !.evtsel = [@ EXCEPT ![i] = v], !.enabled = @ \ {i}], i)
    BY <1>2 DEF counter_disable
  <2>2. b.enabled = p.enabled /\ DOMAIN b = DOMAIN p /\ "enabled" \in DOMAIN b /\ "evtsel" \in DOMAIN b
    BY DEF counter_clear, evtsel_clear, CpuPmu
  <2>3. e \in SUBSET Ctr /\ b = counter_clear(evtsel_clear(p, i), i)
    BY DEF CpuPmu
  <2>4. v \in Selects /\ ~v.enabled
    <3>1. p.evtsel[i].int \in BOOLEAN
      BY DEF CpuPmu, Selects
    <3> QED
      BY <3>1, SelectsType
  <2> HIDE DEF b, v
  <2>5. [b EXCEPT !.evtsel = [@ EXCEPT ![i] = v], !.enabled = @ \ {i}]
          = WithTable(b, [b.evtsel EXCEPT ![i] = v], e)
    BY <2>2 DEF WithTable
  <2>6. q = evtsel_write(WithTable(b, [b.evtsel EXCEPT ![i] = v], e), i)
    BY <2>1, <2>5
  <2> HIDE DEF e
  <2>7. /\ q \in CpuPmu /\ SameFixed(p, q) /\ q.enabled = e
        /\ Programmed(p, q, i, v) /\ Restarted(p, q, i)
    BY <2>3, <2>4, <2>6, Program
  <2> QED
    BY <1>2, <2>4, <2>7 DEF e
<1> QED
  BY <1>1, <1>2

(* Writing the table of event selects only.                                *)
LEMMA SetEvtsel ==
    ASSUME NEW p \in CpuPmu, NEW v \in [Ctr -> Selects], NEW q, q = [p EXCEPT !.evtsel = v]
    PROVE  /\ q \in CpuPmu /\ SameFixed(p, q) /\ q.evtsel = v
           /\ q.enabled = p.enabled /\ q.sel = p.sel /\ q.pmc = p.pmc
  BY DEF CpuPmu, SameFixed

(* The interrupt flag goes to the table and to the register.               *)
LEMMA SetInterrupt ==
    ASSUME NEW p \in CpuPmu, NEW i \in Ctr, NEW v \in Selects, NEW q,
           q = evtsel_write([p EXCEPT !.evtsel = [p.evtsel EXCEPT ![i] = v]], i)
    PROVE  /\ q \in CpuPmu /\ SameFixed(p, q) /\ q.enabled = p.enabled /\ q.pmc = p.pmc
           /\ Programmed(p, q, i, v)
<1> DEFINE evt1 == [p.evtsel EXCEPT ![i] = v]
           sel1 == [p.sel EXCEPT ![i] = v]
           d == [p EXCEPT !.evtsel = evt1]
<1>1. evt1 \in [Ctr -> Selects] /\ sel1 \in [Ctr -> Selects] /\ evt1[i] = v
  BY DEF CpuPmu
<1>2. q = [d EXCEPT !.sel = [d.sel EXCEPT ![i] = d.evtsel[i]]]
  BY DEF evtsel_write
<1> HIDE DEF evt1
<1>3. /\ d \in CpuPmu /\ SameFixed(p, d) /\ d.evtsel = evt1
      /\ d.enabled = p.enabled /\ d.sel = p.sel /\ d.pmc = p.pmc
  BY <1>1, SetEvtsel
<1> HIDE DEF d
<1>4. q = [d EXCEPT !.sel = sel1]
  BY <1>1, <1>2, <1>3
<1> HIDE DEF sel1
<1>5. /\ q \in CpuPmu /\ SameFixed(d, q) /\ q.sel = sel1
      /\ q.enabled = d.enabled /\ q.evtsel = d.evtsel /\ q.pmc = d.pmc
  BY <1>1, <1>3, <1>4, SetSel
<1>6. SameFixed(p, q)
  BY <1>3, <1>5 DEF SameFixed
<1> QED
  BY <1>3, <1>5, <1>6 DEF Programmed, evt1, sel1

(* pmu_enable_interrupt and pmu_disable_interrupt change the interrupt     *)
(* flag of one counter: it goes on counting what it counted.               *)
LEMMA EnableInterrupt ==
    ASSUME NEW p \in CpuPmu, NEW i \in Ctr, NEW q,
           q = pmu_enable_interrupt(p, i) \/ q = pmu_disable_interrupt(p, i)
    PROVE  /\ q \in CpuPmu /\ SameFixed(p, q) /\ q.enabled = p.enabled /\ q.pmc = p.pmc
           /\ \E v \in Selects : (v.enabled <=> p.evtsel[i].enabled) /\ Programmed(p, q, i, v)
<1> DEFINE on == Select(p.evtsel[i].enabled, TRUE)
           off == Select(p.evtsel[i].enabled, FALSE)
<1>1. \/ q = evtsel_write([p EXCEPT !.evtsel = [p.evtsel EXCEPT ![i] = on]], i)
      \/ q = evtsel_write([p EXCEPT !.evtsel = [p.evtsel EXCEPT ![i] = off]], i)
  BY DEF pmu_enable_interrupt, pmu_disable_interrupt
<1>2. /\ on \in Selects /\ (on.enabled <=> p.evtsel[i].enabled)
      /\ off \in Selects /\ (off.enabled <=> p.evtsel[i].enabled)
  BY DEF CpuPmu, Selects, Select
<1> HIDE DEF on, off
<1>3. PICK v \in Selects : /\ v.enabled <=> p.evtsel[i].enabled
                           /\ q = evtsel_write([p EXCEPT !.evtsel = [p.evtsel EXCEPT ![i] = v]], i)
  BY <1>1, <1>2
<1>4. /\ q \in CpuPmu /\ SameFixed(p, q) /\ q.enabled = p.enabled /\ q.pmc = p.pmc
      /\ Programmed(p, q, i, v)
  BY <1>3, SetInterrupt
<1> QED
  BY <1>3, <1>4

(* The overflow bits are no part of the counters.                          *)
LEMMA ClearOverflow ==
    ASSUME NEW p \in CpuPmu, NEW i, NEW q,
           q = pmu_clear_ovf_status(p, i) \/ q = fpmu_clear_ovf_status(p, i)
    PROVE  q \in CpuPmu /\ SameGeneral(p, q) /\ SameFixed(p, q)
<1>1. CASE q = p
  BY <1>1 DEF SameGeneral, SameFixed
<1>2. CASE q = [p EXCEPT !.ovf = @ \ (OvfCtrl \ {<<"c", i>>})]
  BY <1>2 DEF SameGeneral, SameFixed, CpuPmu
<1>3. CASE q = [p EXCEPT !.ovf = @ \ (OvfCtrl \ {<<"f", i>>})]
  BY <1>3 DEF SameGeneral, SameFixed, CpuPmu
<1> QED
  BY <1>1, <1>2, <1>3 DEF pmu_clear_ovf_status, fpmu_clear_ovf_status

(* The fixed counters and the general ones are apart.                      *)
LEMMA FixedCounters ==
    ASSUME NEW p \in CpuPmu
    PROVE  /\ LET q == fcounters_enable(p)
              IN  /\ q \in CpuPmu /\ SameGeneral(p, q) /\ q.fcleared = p.fcleared
                  /\ q.fctl.usr = Fix /\ q.fctl.pmi = {} /\ q.fpmc = p.fcleared
           /\ LET q == fcounters_disable(p)
              IN  /\ q \in CpuPmu /\ SameGeneral(p, q) /\ q.fcleared = p.fcleared
<1>1. [usr |-> Fix, pmi |-> {}] \in Controls /\ [usr |-> {}, pmi |-> {}] \in Controls
  BY DEF Controls
<1> DEFINE all == [usr |-> Fix, pmi |-> {}]
           none == [usr |-> {}, pmi |-> {}]
           on == [p EXCEPT !.fpmc = p.fcleared, !.fcontrol = all, !.fctl = all]
           off == [p EXCEPT !.fpmc = p.fcleared, !.fctl = none]
<1>2. all \in Controls /\ none \in Controls /\ all.usr = Fix /\ all.pmi = {}
  BY <1>1
<1>3. fcounters_enable(p) = on
  <2> DEFINE a == [p EXCEPT !.fpmc = p.fcleared]
             b == [a EXCEPT !.fcontrol = all]
  <2>1. ClearAllFixed(p) = a
    BY DEF ClearAllFixed
  <2>2. fcounters_enable(p) = [b EXCEPT !.fctl = b.fcontrol]
    BY <2>1 DEF fcounters_enable, control_write
  <2>3. b.fcontrol = all
    BY DEF CpuPmu
  <2> HIDE DEF all
  <2> QED
    BY <2>2, <2>3
<1>4. fcounters_disable(p) = off
  BY DEF fcounters_disable, control_clear, ClearAllFixed
<1> HIDE DEF all, none
<1>5. /\ on \in CpuPmu /\ on.fcleared = p.fcleared /\ on.fpmc = p.fcleared
      /\ on.fctl = all /\ SameGeneral(p, on)
  BY <1>2 DEF CpuPmu, SameGeneral
<1>6. off \in CpuPmu /\ off.fcleared = p.fcleared /\ SameGeneral(p, off)
  BY <1>2 DEF CpuPmu, SameGeneral
<1> QED
  BY <1>2, <1>3, <1>4, <1>5, <1>6

(* The interrupt functions of the fixed counters leave the general ones    *)
(* alone.                                                                  *)
LEMMA FixedInterrupts ==
    ASSUME NEW p \in CpuPmu, NEW j \in Fix, NEW q,
           \/ q = fpmu_configure_interrupt(p, j, W - 1)
           \/ q = fpmu_enable_interrupt(p, j) \/ q = fpmu_disable_interrupt(p, j)
    PROVE  q \in CpuPmu /\ SameGeneral(p, q)
<1> DEFINE top == [p.fcleared EXCEPT ![j] = W - 1]
           zero == [p.fcleared EXCEPT ![j] = 0]
           with == [usr |-> p.fcontrol.usr, pmi |-> p.fcontrol.pmi \cup {j}]
           without == [usr |-> p.fcontrol.usr, pmi |-> p.fcontrol.pmi \ {j}]
<1>1. top \in [Fix -> Counts] /\ zero \in [Fix -> Counts]
  BY Sizes DEF CpuPmu, Counts
<1>2. with \in Controls /\ without \in Controls
  BY DEF CpuPmu, Controls
<1>3. CASE q = fpmu_configure_interrupt(p, j, W - 1)
  <2>1. q = [p EXCEPT !.fcleared = top]
    BY <1>3 DEF fpmu_configure_interrupt
  <2> HIDE DEF top
  <2> QED
    BY <1>1, <2>1 DEF CpuPmu, SameGeneral
<1>4. CASE q = fpmu_enable_interrupt(p, j)
  <2> DEFINE d == [p EXCEPT !.fcontrol = with]
  <2>1. q = [d EXCEPT !.fctl = d.fcontrol]
    BY <1>4 DEF fpmu_enable_interrupt, control_write
  <2> HIDE DEF with
  <2> QED
    BY <1>2, <2>1 DEF CpuPmu, SameGeneral
<1>5. CASE q = fpmu_disable_interrupt(p, j)
  <2> DEFINE d == [p EXCEPT !.fcleared = zero, !.fcontrol = without]
  <2>1. q = [d EXCEPT !.fctl = d.fcontrol]
    BY <1>5 DEF fpmu_disable_interrupt, control_write
  <2> HIDE DEF zero, without
  <2>2. d \in CpuPmu /\ SameGeneral(p, d)
    BY <1>1, <1>2 DEF CpuPmu, SameGeneral
  <2> HIDE DEF d
  <2> QED
    BY <2>1, <2>2 DEF CpuPmu, SameGeneral
<1> QED
  BY <1>3, <1>4, <1>5

(* A unit of work moves the counters that are on, and nothing else.        *)
LEMMA CountUnit ==
    ASSUME NEW p \in CpuPmu, NEW q, q = Count(p)
    PROVE  /\ q \in CpuPmu /\ q.enabled = p.enabled /\ q.evtsel = p.evtsel /\ q.sel = p.sel
           /\ q.fcontrol = p.fcontrol /\ q.fcleared = p.fcleared /\ q.fctl = p.fctl
           /\ \A i \in Ctr : q.pmc[i] = IF p.sel[i].enabled THEN (p.pmc[i] + 1) % W ELSE p.pmc[i]
           /\ \A j \in Fix : q.fpmc[j] = IF j \in p.fctl.usr THEN (p.fpmc[j] + 1) % W ELSE p.fpmc[j]
<1> DEFINE on == {i \in Ctr : p.sel[i].enabled}
           pmc1 == [i \in Ctr |-> IF i \in on THEN (p.pmc[i] + 1) % W ELSE p.pmc[i]]
           fpmc1 == [j \in Fix |-> IF j \in p.fctl.usr THEN (p.fpmc[j] + 1) % W ELSE p.fpmc[j]]
           over == {<<"c", i>> : i \in {k \in on : p.pmc[k] = W - 1}}
           fover == {<<"f", j>> : j \in {k \in p.fctl.usr : p.fpmc[k] = W - 1}}
           ovf1 == IF Fix = {} THEN {} ELSE p.ovf \cup over \cup fover
<1>0. /\ p.pmc \in [Ctr -> Counts] /\ p.fpmc \in [Fix -> Counts] /\ p.ovf \in SUBSET Bits
      /\ p.fctl.usr \subseteq Fix
  BY DEF CpuPmu, Controls
<1>1. \A n \in Counts : (n + 1) % W \in Counts
  BY Sizes DEF Counts
<1>2. pmc1 \in [Ctr -> Counts] /\ fpmc1 \in [Fix -> Counts]
  BY <1>0, <1>1
<1>3. over \subseteq Bits /\ fover \subseteq Bits
  BY <1>0 DEF Bits
<1>4. ovf1 \in SUBSET Bits
  <2> HIDE DEF over, fover
  <2> QED
    BY <1>0, <1>3
<1>5. q = [p EXCEPT !.pmc = pmc1, !.fpmc = fpmc1, !.ovf = ovf1]
  BY DEF Count
<1>6. \A i \in Ctr : pmc1[i] = IF p.sel[i].enabled THEN (p.pmc[i] + 1) % W ELSE p.pmc[i]
  OBVIOUS
<1>7. \A j \in Fix : fpmc1[j] = IF j \in p.fctl.usr THEN (p.fpmc[j] + 1) % W ELSE p.fpmc[j]
  OBVIOUS
<1> HIDE DEF pmc1, fpmc1, ovf1
<1>8. /\ q \in CpuPmu /\ q.pmc = pmc1 /\ q.fpmc = fpmc1
      /\ q.enabled = p.enabled /\ q.evtsel = p.evtsel /\ q.sel = p.sel
      /\ q.fcontrol = p.fcontrol /\ q.fcleared = p.fcleared /\ q.fctl = p.fctl
  BY <1>2, <1>4, <1>5 DEF CpuPmu
<1> QED
  BY <1>6, <1>7, <1>8

(* Fresh tables over the registers as they are.                            *)
LEMMA MachineType ==
    ASSUME NEW r \in CpuPmu, NEW q, q = Machine(Tables, r)
    PROVE  /\ q \in CpuPmu /\ q.enabled = {} /\ q.evtsel = [i \in Ctr |-> Off]
           /\ q.sel = r.sel /\ q.pmc = r.pmc /\ q.fcleared = [j \in Fix |-> 0]
<1> DEFINE off == [i \in Ctr |-> Off]
           none == [usr |-> {}, pmi |-> {}]
           zero == [j \in Fix |-> 0]
<1>1. off \in [Ctr -> Selects] /\ none \in Controls /\ zero \in [Fix -> Counts]
  BY SelectsType, Sizes DEF Controls
<1>2. Tables = [enabled |-> {}, evtsel |-> off, fcontrol |-> none, fcleared |-> zero]
  BY DEF Tables
<1> HIDE DEF off, none, zero
<1>3. q = [enabled |-> {}, evtsel |-> off, fcontrol |-> none, fcleared |-> zero,
           sel |-> r.sel, pmc |-> r.pmc, fctl |-> r.fctl, fpmc |-> r.fpmc, ovf |-> r.ovf]
  BY <1>2 DEF Machine
<1> QED
  BY <1>1, <1>3 DEF CpuPmu, off, zero

(* Induction up to n, for a set of numbers: it holds 0, and with m, m + 1. *)
LEMMA UpTo ==
    ASSUME NEW n \in Nat, NEW G, 0 \in G, \A m \in 0 .. n : m \in G /\ m < n => m + 1 \in G
    PROVE  \A m \in 0 .. n : m \in G
<1> SUFFICES ASSUME NEW m \in 0 .. n, m \notin G
             PROVE  FALSE
  OBVIOUS
<1> DEFINE Bad == {k \in 0 .. n : k \notin G}
<1>1. Bad \subseteq Nat /\ Bad # {}
  OBVIOUS
<1>2. PICK b \in Bad : \A x \in Bad : b <= x
  <2> HIDE DEF Bad
  <2> QED
    BY <1>1, LeastNat
<1>3. b \in 0 .. n /\ b \notin G /\ b # 0
  BY <1>2
<1>4. b - 1 \in 0 .. n /\ b - 1 < n /\ (b - 1) + 1 = b /\ ~(b <= b - 1)
  BY <1>3
<1>5. b - 1 \in G
  <2>1. b - 1 \notin Bad
    <3> HIDE DEF Bad
    <3> QED
      BY <1>2, <1>4
  <2> QED
    BY <1>4, <2>1
<1> QED
  BY <1>3, <1>4, <1>5

(* The state of p once its first n general counters are initialised.       *)
Cleared(p, n) ==
    [p EXCEPT !.sel = [i \in Ctr |-> IF i < n THEN Off ELSE p.sel[i]],
              !.pmc = [i \in Ctr |-> IF i < n THEN 0 ELSE p.pmc[i]]]
InitOne(x, k) == counter_clear(counter_disable(evtsel_clear(x, k), k), k)

(* The registers that are cleared so far are event selects and counts.     *)
LEMMA ClearedType ==
    ASSUME NEW p \in CpuPmu, NEW n \in Nat, NEW q, q = Cleared(p, n)
    PROVE  /\ q \in CpuPmu /\ SameFixed(p, q) /\ q.enabled = p.enabled /\ q.evtsel = p.evtsel
           /\ \A i \in Ctr : i < n => q.sel[i] = Off
<1> DEFINE sel1 == [i \in Ctr |-> IF i < n THEN Off ELSE p.sel[i]]
           pmc1 == [i \in Ctr |-> IF i < n THEN 0 ELSE p.pmc[i]]
<1>1. sel1 \in [Ctr -> Selects] /\ pmc1 \in [Ctr -> Counts]
  BY SelectsType, Sizes DEF CpuPmu
<1>2. q = [p EXCEPT !.sel = sel1, !.pmc = pmc1]
  BY DEF Cleared
<1> HIDE DEF sel1, pmc1
<1>3. q \in CpuPmu /\ SameFixed(p, q) /\ q.enabled = p.enabled /\ q.evtsel = p.evtsel
      /\ q.sel = sel1 /\ q.pmc = pmc1
  BY <1>1, <1>2 DEF CpuPmu, SameFixed
<1> QED
  BY <1>3 DEF sel1, pmc1

(* One round of the loop of pmu_init_msrs clears one more counter.         *)
LEMMA ClearOne ==
    ASSUME NEW p \in CpuPmu, p.enabled = {}, NEW n \in Ctr
    PROVE  Cleared(p, n + 1) = InitOne(Cleared(p, n), n)
<1> DEFINE a == Cleared(p, n)
           S(m) == [i \in Ctr |-> IF i < m THEN Off ELSE p.sel[i]]
           C(m) == [i \in Ctr |-> IF i < m THEN 0 ELSE p.pmc[i]]
<1>0. n \in Nat /\ n + 1 \in Nat /\ \A i \in Ctr : i < n + 1 <=> i < n \/ i = n
  BY Sizes
<1>1. S(n + 1) = [S(n) EXCEPT ![n] = Off] /\ C(n + 1) = [C(n) EXCEPT ![n] = 0]
  BY <1>0
<1>2. a = [p EXCEPT !.sel = S(n), !.pmc = C(n)]
  BY DEF Cleared
<1>3. Cleared(p, n + 1) = [p EXCEPT !.sel = S(n + 1), !.pmc = C(n + 1)]
  BY DEF Cleared
<1> DEFINE s0 == S(n)
           s1 == S(n + 1)
           c0 == C(n)
           c1 == C(n + 1)
<1>4. s1 = [s0 EXCEPT ![n] = Off] /\ c1 = [c0 EXCEPT ![n] = 0]
  BY <1>1
<1> HIDE DEF a, s0, s1, c0, c1, S, C
<1>5. a = [p EXCEPT !.sel = s0, !.pmc = c0] /\ Cleared(p, n + 1) = [p EXCEPT !.sel = s1, !.pmc = c1]
  BY <1>2, <1>3 DEF s0, s1, c0, c1
<1>6. a.sel = s0 /\ a.pmc = c0 /\ a.enabled = {}
  BY <1>5 DEF CpuPmu
<1> DEFINE d == [p EXCEPT !.sel = s1, !.pmc = c0]
<1>7. evtsel_clear(a, n) = d
  <2>1. evtsel_clear(a, n) = [a EXCEPT !.sel = [a.sel EXCEPT ![n] = Off]]
    BY DEF evtsel_clear
  <2>2. evtsel_clear(a, n) = [a EXCEPT !.sel = s1]
    BY <1>4, <1>6, <2>1
  <2> QED
    BY <1>5, <2>2 DEF CpuPmu
<1>8. d.enabled = {} /\ d.pmc = c0
  BY DEF CpuPmu
<1>9. counter_disable(d, n) = d
  BY <1>8 DEF counter_disable
<1>10. counter_clear(d, n) = [d EXCEPT !.pmc = c1]
  BY <1>4, <1>8 DEF counter_clear
<1>11. counter_clear(d, n) = Cleared(p, n + 1)
  BY <1>5, <1>10 DEF CpuPmu
<1> QED
  BY <1>7, <1>9, <1>11 DEF InitOne, a

(* pmu_init_msrs turns every counter off.                                  *)
LEMMA InitMsrs ==
    ASSUME NEW p \in CpuPmu, p.enabled = {}
    PROVE  pmu_init_msrs(p) = Cleared(p, NUM_COUNTERS)
<1> DEFINE N == NUM_COUNTERS
           P(g) == g = [n \in 0 .. N |-> IF n = 0 THEN p ELSE InitOne(g[n - 1], n - 1)]
           init == CHOOSE g : P(g)
           f == [n \in 0 .. N |-> Cleared(p, n)]
<1>0. N \in Nat /\ Ctr = 0 .. N - 1
  BY Sizes DEF Ctr
<1>1. pmu_init_msrs(p) = init[N]
  BY DEF pmu_init_msrs, InitOne
<1>2. Cleared(p, 0) = p
  <2> DEFINE sel1 == [i \in Ctr |-> IF i < 0 THEN Off ELSE p.sel[i]]
             pmc1 == [i \in Ctr |-> IF i < 0 THEN 0 ELSE p.pmc[i]]
  <2>1. sel1 = p.sel /\ pmc1 = p.pmc
    BY Sizes DEF CpuPmu
  <2>2. Cleared(p, 0) = [p EXCEPT !.sel = sel1, !.pmc = pmc1]
    BY DEF Cleared
  <2> HIDE DEF sel1, pmc1
  <2> QED
    BY <2>1, <2>2 DEF CpuPmu
<1>3. \A k \in 0 .. N : k # 0 => /\ k - 1 \in 0 .. N /\ k - 1 \in Ctr
                                 /\ Cleared(p, k) = InitOne(Cleared(p, k - 1), k - 1)
  <2> TAKE k \in 0 .. N
  <2> HAVE k # 0
  <2>1. k - 1 \in Ctr /\ (k - 1) + 1 = k /\ k - 1 \in 0 .. N
    BY <1>0
  <2>2. Cleared(p, (k - 1) + 1) = InitOne(Cleared(p, k - 1), k - 1)
    BY <2>1, ClearOne
  <2> QED
    BY <2>1, <2>2
<1> HIDE DEF N
<1>4. P(f)
  <2>1. \A k \in 0 .. N : f[k] = IF k = 0 THEN p ELSE InitOne(f[k - 1], k - 1)
    BY <1>2, <1>3
  <2> HIDE DEF f
  <2>2. DOMAIN f = 0 .. N /\ f = [k \in 0 .. N |-> f[k]]
    BY DEF f
  <2> QED
    BY <2>1, <2>2
<1>5. P(init)
  <2> HIDE DEF P
  <2> QED
    BY <1>4
<1> HIDE DEF init, f
<1>6. \A k \in 0 .. N : init[k] = IF k = 0 THEN p ELSE InitOne(init[k - 1], k - 1)
  BY <1>5
<1> DEFINE G == {m \in 0 .. N : init[m] = Cleared(p, m)}
<1>7. \A m \in 0 .. N : m \in G
  <2>1. 0 \in G
    BY <1>0, <1>2, <1>6
  <2>2. \A m \in 0 .. N : m \in G /\ m < N => m + 1 \in G
    <3> TAKE m \in 0 .. N
    <3> HAVE m \in G /\ m < N
    <3>1. m + 1 \in 0 .. N /\ m + 1 # 0 /\ (m + 1) - 1 = m /\ init[m] = Cleared(p, m)
      BY <1>0
    <3>2. init[m + 1] = InitOne(init[m], m) /\ Cleared(p, m + 1) = InitOne(Cleared(p, m), m)
      BY <1>3, <1>6, <3>1
    <3> QED
      BY <3>1, <3>2
  <2> HIDE DEF G
  <2> QED
    BY <1>0, <2>1, <2>2, UpTo
<1> QED
  BY <1>0, <1>1, <1>7 DEF N

(* A pmu that was just loaded counts nothing.                              *)
LEMMA Loading ==
    ASSUME NEW r \in CpuPmu, NEW q,
           q = fpmu_init_msrs(pmu_init_msrs(Machine(Tables, r)))
    PROVE  /\ q \in CpuPmu /\ q.enabled = {} /\ q.evtsel = q.sel
           /\ \A i \in Ctr : ~q.sel[i].enabled
<1> DEFINE m == Machine(Tables, r)
           x == Cleared(m, NUM_COUNTERS)
<1>1. m \in CpuPmu /\ m.enabled = {} /\ m.evtsel = [i \in Ctr |-> Off]
  BY MachineType
<1> HIDE DEF m
<1>2. pmu_init_msrs(m) = x
  BY <1>1, InitMsrs
<1>3. /\ x \in CpuPmu /\ x.enabled = {} /\ x.evtsel = [i \in Ctr |-> Off]
      /\ \A i \in Ctr : i < NUM_COUNTERS => x.sel[i] = Off
  BY <1>1, Sizes, ClearedType
<1>4. \A i \in Ctr : i < NUM_COUNTERS
  BY Sizes DEF Ctr
<1>5. x.sel = [i \in Ctr |-> Off]
  <2>1. x.sel \in [Ctr -> Selects]
    BY <1>3 DEF CpuPmu
  <2> HIDE DEF x
  <2> QED
    BY <1>3, <1>4, <2>1
<1> HIDE DEF x
<1>6. q = x \/ q = fcounters_disable(control_clear(ClearAllFixed(x)))
  BY <1>2 DEF fpmu_init_msrs, m
<1>7. q \in CpuPmu /\ SameGeneral(x, q)
  <2>1. CASE q = x
    BY <1>3, <2>1 DEF SameGeneral
  <2>2. CASE q = fcounters_disable(control_clear(ClearAllFixed(x)))
    <3> DEFINE none == [usr |-> {}, pmi |-> {}]
               y == control_clear(ClearAllFixed(x))
    <3>1. none \in Controls
      BY DEF Controls
    <3>2. y = [x EXCEPT !.fpmc = x.fcleared, !.fctl = none]
      BY DEF control_clear, ClearAllFixed
    <3> HIDE DEF none
    <3>3. y \in CpuPmu /\ SameGeneral(x, y)
      BY <1>3, <3>1, <3>2 DEF CpuPmu, SameGeneral
    <3> HIDE DEF y
    <3>4. fcounters_disable(y) \in CpuPmu /\ SameGeneral(y, fcounters_disable(y))
      BY <3>3, FixedCounters
    <3>5. q = fcounters_disable(y)
      BY <2>2 DEF y
    <3> QED
      BY <3>3, <3>4, <3>5 DEF SameGeneral
  <2> QED
    BY <1>6, <2>1, <2>2
<1>8. q.enabled = {} /\ q.sel = [i \in Ctr |-> Off] /\ q.evtsel = [i \in Ctr |-> Off]
  BY <1>3, <1>5, <1>7 DEF SameGeneral
<1>9. ~Off.enabled
  BY DEF Off, Select
<1> QED
  BY <1>7, <1>8, <1>9

-----------------------------------------------------------------------------
(* A cpu counts with exactly the counters that were given away, and the     *)
(* registers are as the tables say.                                        *)
SoundOn(C, p) == p.evtsel = p.sel /\ p.enabled = {i \in C : p.sel[i].enabled}
Sound(p) == SoundOn(Ctr, p)

(* That is kept when one counter is reprogrammed.                          *)
LEMMA SoundRow ==
    ASSUME NEW p \in CpuPmu, Sound(p), NEW i \in Ctr, NEW v \in Selects, NEW q \in CpuPmu,
           Programmed(p, q, i, v),
           q.enabled = IF v.enabled THEN p.enabled \cup {i} ELSE p.enabled \ {i}
    PROVE  Sound(q)
<1>1. p.evtsel = p.sel /\ p.enabled = {k \in Ctr : p.sel[k].enabled} /\ p.sel \in [Ctr -> Selects]
  BY DEF Sound, SoundOn, CpuPmu
<1>2. \A k \in Ctr : q.sel[k] = IF k = i THEN v ELSE p.sel[k]
  BY <1>1 DEF Programmed
<1>3. q.evtsel = q.sel
  BY <1>1 DEF Programmed
<1>4. q.enabled = {k \in Ctr : q.sel[k].enabled}
  <2>1. CASE v.enabled
    BY <1>1, <1>2, <2>1
  <2>2. CASE ~v.enabled
    BY <1>1, <1>2, <2>2
  <2> QED
    BY <2>1, <2>2
<1> QED
  BY <1>3, <1>4 DEF Sound, SoundOn

(* Tables and registers still agree when a counter is taken,               *)
LEMMA SoundEnable ==
    ASSUME NEW p \in CpuPmu, Sound(p), NEW q, q = counter_enable(p)
    PROVE  Sound(q)
<1> DEFINE i == FreeCounter(p)
<1>1. /\ q \in CpuPmu
      /\ i \notin Ctr => q = p
      /\ i \in Ctr => q.enabled = p.enabled \cup {i} /\ Programmed(p, q, i, Counting)
  BY Enable
<1> HIDE DEF i
<1>2. CASE i \notin Ctr
  BY <1>1, <1>2
<1>3. CASE i \in Ctr
  BY <1>1, <1>3, SelectsType, SoundRow
<1> QED
  BY <1>2, <1>3

(* when it is given back,                                                  *)
LEMMA SoundDisable ==
    ASSUME NEW p \in CpuPmu, Sound(p), NEW i \in Ctr, NEW q, q = counter_disable(p, i)
    PROVE  Sound(q)
<1>1. CASE i \notin p.enabled
  BY <1>1, Disable
<1>2. CASE i \in p.enabled
  <2>1. q \in CpuPmu /\ q.enabled = p.enabled \ {i}
    BY <1>2, Disable
  <2>2. PICK v \in Selects : ~v.enabled /\ Programmed(p, q, i, v)
    BY <1>2, Disable
  <2> QED
    BY <2>1, <2>2, SoundRow
<1> QED
  BY <1>1, <1>2

(* and when its interrupt is turned on or off.                             *)
LEMMA SoundInterrupt ==
    ASSUME NEW p \in CpuPmu, Sound(p), NEW i \in p.enabled, NEW q,
           q = pmu_enable_interrupt(p, i) \/ q = pmu_disable_interrupt(p, i)
    PROVE  Sound(q)
<1>1. i \in Ctr /\ p.evtsel[i].enabled
  BY DEF CpuPmu, Sound, SoundOn
<1>2. q \in CpuPmu /\ q.enabled = p.enabled
  BY <1>1, EnableInterrupt
<1>3. PICK v \in Selects : (v.enabled <=> p.evtsel[i].enabled) /\ Programmed(p, q, i, v)
  BY <1>1, EnableInterrupt
<1>4. q.enabled = p.enabled \cup {i}
  BY <1>2
<1> QED
  BY <1>1, <1>2, <1>3, <1>4, SoundRow

-----------------------------------------------------------------------------
(* The counters of the scheduler.                                          *)

SameControl(p, q) ==
    /\ q.enabled = p.enabled /\ q.evtsel = p.evtsel /\ q.sel = p.sel
    /\ q.fctl = p.fctl /\ q.fcleared = p.fcleared

(* Clearing one general counter, or none if there is no such counter.      *)
LEMMA ClearGeneral ==
    ASSUME NEW p \in CpuPmu, NEW i, NEW q, q = counter_clear(p, i)
    PROVE  /\ q \in CpuPmu /\ SameControl(p, q)
           /\ i \in Ctr => q.pmc[i] = 0
           /\ \A k \in Ctr : k # i => q.pmc[k] = p.pmc[k]
<1>1. CASE i \notin Ctr
  BY <1>1 DEF counter_clear, SameControl
<1>2. CASE i \in Ctr
  <2> DEFINE v == [p.pmc EXCEPT ![i] = 0]
  <2>1. v \in [Ctr -> Counts] /\ \A k \in Ctr : v[k] = IF k = i THEN 0 ELSE p.pmc[k]
    BY <1>2, Sizes DEF CpuPmu
  <2>2. q = [p EXCEPT !.pmc = v]
    BY <1>2 DEF counter_clear
  <2> HIDE DEF v
  <2>3. q \in CpuPmu /\ SameControl(p, q) /\ q.pmc = v
    BY <2>1, <2>2 DEF CpuPmu, SameControl
  <2> QED
    BY <2>1, <2>3
<1> QED
  BY <1>1, <1>2

(* Clearing one fixed counter sets it to the value it starts from.         *)
LEMMA ClearFixed ==
    ASSUME NEW p \in CpuPmu, NEW j \in Fix, NEW q, q = fcounter_clear(p, j)
    PROVE  /\ q \in CpuPmu /\ SameControl(p, q) /\ q.pmc = p.pmc
           /\ q.fpmc[j] = p.fcleared[j]
           /\ \A k \in Fix : k # j => q.fpmc[k] = p.fpmc[k]
<1> DEFINE v == [p.fpmc EXCEPT ![j] = p.fcleared[j]]
<1>1. v \in [Fix -> Counts] /\ \A k \in Fix : v[k] = IF k = j THEN p.fcleared[k] ELSE p.fpmc[k]
  BY DEF CpuPmu
<1>2. q = [p EXCEPT !.fpmc = v]
  BY DEF fcounter_clear
<1> HIDE DEF v
<1>3. q \in CpuPmu /\ SameControl(p, q) /\ q.pmc = p.pmc /\ q.fpmc = v
  BY <1>1, <1>2 DEF CpuPmu, SameControl
<1> QED
  BY <1>1, <1>3

(* What clear_counters does to the counts, on either processor.            *)
FixedCleared(p, q) ==
    q.pmc = p.pmc /\ q.fpmc[0] = p.fcleared[0] /\ q.fpmc[1] = p.fcleared[1]
GeneralCleared(p, q, s) ==
    \A k \in Ctr : /\ k = s[1] \/ k = s[2] => q.pmc[k] = 0
                   /\ k # s[1] /\ k # s[2] => q.pmc[k] = p.pmc[k]

(* clear_counters sets the two counters back, and nothing else.            *)
LEMMA ClearCounters ==
    ASSUME NEW p \in CpuPmu, NEW s, NEW q, q = clear_counters(p, s)
    PROVE  /\ q \in CpuPmu /\ SameControl(p, q)
           /\ Fix # {} => FixedCleared(p, q)
           /\ Fix = {} => GeneralCleared(p, q, s)
<1>1. CASE Fix # {}
  <2>1. 0 \in Fix /\ 1 \in Fix /\ 0 # 1
    BY <1>1, Sizes
  <2>2. \A j \in Fix, k \in Fix : j # k => LET r == fcounter_clear(fcounter_clear(p, j), k) IN
          /\ r \in CpuPmu /\ SameControl(p, r) /\ r.pmc = p.pmc
          /\ r.fpmc[j] = p.fcleared[j] /\ r.fpmc[k] = p.fcleared[k]
    <3> TAKE j \in Fix, k \in Fix
    <3> HAVE j # k
    <3> DEFINE a == fcounter_clear(p, j)
               r == fcounter_clear(a, k)
    <3>1. /\ a \in CpuPmu /\ SameControl(p, a) /\ a.pmc = p.pmc
          /\ a.fpmc[j] = p.fcleared[j]
      BY ClearFixed
    <3> HIDE DEF a
    <3>2. /\ r \in CpuPmu /\ SameControl(a, r) /\ r.pmc = a.pmc
          /\ r.fpmc[k] = a.fcleared[k] /\ r.fpmc[j] = a.fpmc[j]
      BY <3>1, ClearFixed
    <3> HIDE DEF r
    <3>3. /\ r \in CpuPmu /\ SameControl(p, r) /\ r.pmc = p.pmc
          /\ r.fpmc[j] = p.fcleared[j] /\ r.fpmc[k] = p.fcleared[k]
      BY <3>1, <3>2 DEF SameControl
    <3> QED
      BY <3>3 DEF r, a
  <2>3. q = fcounter_clear(fcounter_clear(p, 0), 1)
    BY <1>1 DEF clear_counters
  <2> QED
    BY <1>1, <2>1, <2>2, <2>3 DEF FixedCleared
<1>2. CASE Fix = {}
  <2> DEFINE a == counter_clear(p, s[1])
  <2> DEFINE t == s[2]
  <2>2. q = counter_clear(a, t)
    BY <1>2 DEF clear_counters
  <2>3. /\ a \in CpuPmu /\ SameControl(p, a)
        /\ s[1] \in Ctr => a.pmc[s[1]] = 0
        /\ \A k \in Ctr : k # s[1] => a.pmc[k] = p.pmc[k]
    BY ClearGeneral
  <2> HIDE DEF a, t
  <2>4. /\ q \in CpuPmu /\ SameControl(a, q)
        /\ t \in Ctr => q.pmc[t] = 0
        /\ \A k \in Ctr : k # t => q.pmc[k] = a.pmc[k]
    BY <2>2, <2>3, ClearGeneral
  <2>5. SameControl(p, q)
    BY <2>3, <2>4 DEF SameControl
  <2>6. \A k \in Ctr : /\ k = s[1] \/ k = s[2] => q.pmc[k] = 0
                       /\ k # s[1] /\ k # s[2] => q.pmc[k] = p.pmc[k]
    BY <2>3, <2>4 DEF t
  <2> QED
    BY <1>2, <2>4, <2>5, <2>6 DEF GeneralCleared
<1> QED
  BY <1>1, <1>2

(* The two counters enable_pmu_counters takes.                             *)
LEMMA TwoCounters ==
    ASSUME NEW p \in CpuPmu, NEW i, i = FreeCounter(p), NEW j, j = FreeCounter(Second(p)),
           NEW q, q = counter_enable(Second(p))
    PROVE  /\ q \in CpuPmu
           /\ p.enabled \subseteq q.enabled
           /\ \A k \in p.enabled : q.pmc[k] = p.pmc[k] /\ q.sel[k] = p.sel[k]
           /\ Sound(p) => Sound(q)
           /\ j \in Ctr => /\ i \in Ctr /\ i # j /\ i \notin p.enabled /\ j \notin p.enabled
                           /\ q.enabled = p.enabled \cup {i, j}
                           /\ q.sel[i] = Counting /\ q.sel[j] = Counting
<1> DEFINE a == Second(p)
<1>0. a = counter_enable(p) /\ j = FreeCounter(a) /\ q = counter_enable(a)
  BY DEF Second
<1> HIDE DEF a
<1>1. /\ a \in CpuPmu
      /\ i \notin Ctr => a = p
      /\ i \in Ctr => /\ i \notin p.enabled /\ a.enabled = p.enabled \cup {i}
                      /\ Programmed(p, a, i, Counting) /\ Restarted(p, a, i)
  BY <1>0, Enable
<1>2. /\ q \in CpuPmu
      /\ j \notin Ctr => q = a
      /\ j \in Ctr => /\ j \notin a.enabled /\ q.enabled = a.enabled \cup {j}
                      /\ Programmed(a, q, j, Counting) /\ Restarted(a, q, j)
  BY <1>0, <1>1, Enable
<1>3. Sound(p) => Sound(q)
  BY <1>0, <1>1, SoundEnable
<1>4. /\ p.enabled \subseteq Ctr /\ a.enabled \subseteq Ctr
      /\ p.sel \in [Ctr -> Selects] /\ a.sel \in [Ctr -> Selects]
      /\ p.pmc \in [Ctr -> Counts] /\ a.pmc \in [Ctr -> Counts]
  BY <1>1 DEF CpuPmu
<1>5. i \in Ctr => /\ a.sel[i] = Counting
                   /\ \A k \in Ctr : k # i => a.sel[k] = p.sel[k] /\ a.pmc[k] = p.pmc[k]
  BY <1>1, <1>4 DEF Programmed, Restarted
<1>6. j \in Ctr => /\ q.sel[j] = Counting
                   /\ \A k \in Ctr : k # j => q.sel[k] = a.sel[k] /\ q.pmc[k] = a.pmc[k]
  BY <1>2, <1>4 DEF Programmed, Restarted
<1>7. p.enabled \subseteq a.enabled /\ a.enabled \subseteq q.enabled
  BY <1>1, <1>2
<1>8. \A k \in p.enabled : a.pmc[k] = p.pmc[k] /\ a.sel[k] = p.sel[k]
  BY <1>1, <1>4, <1>5
<1>9. \A k \in a.enabled : q.pmc[k] = a.pmc[k] /\ q.sel[k] = a.sel[k]
  BY <1>2, <1>4, <1>6
<1>10. j \in Ctr => i \in Ctr
  <2> SUFFICES ASSUME j \in Ctr, i \notin Ctr
               PROVE  FALSE
    OBVIOUS
  <2>1. a = p /\ j = i
    BY <1>0, <1>1
  <2> QED
    BY <2>1
<1>11. j \in Ctr => /\ i # j /\ i \notin p.enabled /\ j \notin p.enabled
                    /\ q.enabled = p.enabled \cup {i, j}
                    /\ q.sel[i] = Counting /\ q.sel[j] = Counting
  <2> SUFFICES ASSUME j \in Ctr
               PROVE  /\ i # j /\ i \notin p.enabled /\ j \notin p.enabled
                      /\ q.enabled = p.enabled \cup {i, j}
                      /\ q.sel[i] = Counting /\ q.sel[j] = Counting
    OBVIOUS
  <2>1. i \in Ctr /\ i \in a.enabled /\ j \notin a.enabled /\ i \notin p.enabled /\ j \notin p.enabled /\ i # j
    BY <1>1, <1>2, <1>10
  <2>2. q.enabled = p.enabled \cup {i, j}
    BY <1>1, <1>2, <2>1
  <2>3. q.sel[i] = Counting /\ q.sel[j] = Counting
    BY <1>5, <1>6, <2>1
  <2> QED
    BY <2>1, <2>2, <2>3
<1> QED
  BY <1>2, <1>3, <1>7, <1>8, <1>9, <1>10, <1>11

(* enable_pmu_counters takes counters nobody has, cleared and without      *)
(* interrupts, and leaves the others as they are.                          *)
LEMMA ConfigureGeneral ==
    ASSUME Fix = {}, NEW p \in CpuPmu, NEW q, q = enable_pmu_counters(p),
           NEW s, s = SysCounters(p)
    PROVE  /\ q \in CpuPmu /\ p.enabled \subseteq q.enabled
           /\ Sound(p) => Sound(q)
           /\ ~(FreeCounter(Second(p)) < 0) =>
                /\ s[1] \in Ctr /\ s[2] \in Ctr /\ s[1] # s[2]
                /\ s[1] \notin p.enabled /\ s[2] \notin p.enabled
                /\ q.enabled = p.enabled \cup {s[1], s[2]}
                /\ q.sel[s[1]] = Counting /\ q.sel[s[2]] = Counting
                /\ q.pmc[s[1]] = 0 /\ q.pmc[s[2]] = 0
                /\ \A k \in p.enabled : q.pmc[k] = p.pmc[k]
<1> DEFINE b == counter_enable(Second(p))
           i == FreeCounter(p)
           j == FreeCounter(Second(p))
<1>1. /\ b \in CpuPmu /\ p.enabled \subseteq b.enabled
      /\ \A k \in p.enabled : b.pmc[k] = p.pmc[k] /\ b.sel[k] = p.sel[k]
      /\ Sound(p) => Sound(b)
      /\ j \in Ctr => /\ i \in Ctr /\ i # j /\ i \notin p.enabled /\ j \notin p.enabled
                      /\ b.enabled = p.enabled \cup {i, j}
                      /\ b.sel[i] = Counting /\ b.sel[j] = Counting
  BY TwoCounters
<1>2. q = clear_counters(b, s)
  BY DEF enable_pmu_counters
<1>3. s = <<IF i < 0 THEN 0 ELSE i, IF j < 0 THEN 1 ELSE j>>
  BY DEF SysCounters
<1>4. j \in (Ctr \ Second(p).enabled) \cup {-1}
  BY Free
<1> HIDE DEF b, i, j
<1>5. q \in CpuPmu /\ SameControl(b, q) /\ GeneralCleared(b, q, s)
  BY <1>1, <1>2, ClearCounters
<1>6. Sound(b) => Sound(q)
  BY <1>5 DEF Sound, SoundOn, SameControl
<1>7. p.enabled \subseteq q.enabled
  BY <1>1, <1>5 DEF SameControl
<1>8. ASSUME ~(j < 0)
      PROVE  /\ s[1] \in Ctr /\ s[2] \in Ctr /\ s[1] # s[2]
             /\ s[1] \notin p.enabled /\ s[2] \notin p.enabled
             /\ q.enabled = p.enabled \cup {s[1], s[2]}
             /\ q.sel[s[1]] = Counting /\ q.sel[s[2]] = Counting
             /\ q.pmc[s[1]] = 0 /\ q.pmc[s[2]] = 0
             /\ \A k \in p.enabled : q.pmc[k] = p.pmc[k]
  <2>1. j \in Ctr
    BY <1>4, <1>8
  <2>2. i \in Ctr
    BY <1>1, <2>1
  <2>3. s[1] = i /\ s[2] = j
    <3>1. ~(i < 0) /\ ~(j < 0)
      BY <2>1, <2>2, Sizes
    <3> QED
      BY <1>3, <3>1
  <2>4. q.enabled = b.enabled /\ q.sel = b.sel /\ p.enabled \subseteq Ctr
    BY <1>5 DEF SameControl, CpuPmu
  <2>5. q.pmc[i] = 0 /\ q.pmc[j] = 0
    BY <1>5, <2>1, <2>2, <2>3 DEF GeneralCleared
  <2>6. \A k \in p.enabled : q.pmc[k] = p.pmc[k]
    BY <1>1, <1>5, <2>1, <2>3, <2>4 DEF GeneralCleared
  <2> QED
    BY <1>1, <2>1, <2>2, <2>3, <2>4, <2>5, <2>6
<1> QED
  BY <1>1, <1>5, <1>6, <1>7, <1>8 DEF j

(* On a processor with fixed counters enable_pmu_counters turns those on,  *)
(* without interrupts, and leaves the general ones alone.                  *)
LEMMA ConfigureFixed ==
    ASSUME Fix # {}, NEW p \in CpuPmu, NEW q, q = enable_pmu_counters(p)
    PROVE  /\ q \in CpuPmu /\ SameGeneral(p, q) /\ q.fcleared = p.fcleared
           /\ q.fctl.usr = Fix /\ q.fctl.pmi = {}
           /\ q.fpmc[0] = p.fcleared[0] /\ q.fpmc[1] = p.fcleared[1]
<1> DEFINE b == fcounters_enable(p)
           s == SysCounters(p)
<1>1. /\ b \in CpuPmu /\ SameGeneral(p, b) /\ b.fcleared = p.fcleared
      /\ b.fctl.usr = Fix /\ b.fctl.pmi = {}
  BY FixedCounters
<1>2. q = clear_counters(b, s)
  BY DEF enable_pmu_counters
<1> HIDE DEF b, s
<1>3. q \in CpuPmu /\ SameControl(b, q) /\ FixedCleared(b, q)
  BY <1>1, <1>2, ClearCounters
<1> QED
  BY <1>1, <1>3 DEF SameControl, SameGeneral, FixedCleared

(* disable_pmu_counters gives back the two counters, and no other.         *)
Taken(p, s) == s[1] \in p.enabled /\ s[2] \in p.enabled /\ s[1] # s[2]
GivenBack(p, q, s) == /\ q.enabled = p.enabled \ {s[1], s[2]}
                      /\ \A k \in q.enabled : q.pmc[k] = p.pmc[k]

(* What is given back is what was taken, and the tables still agree.       *)
LEMMA Deconfigure ==
    ASSUME NEW p \in CpuPmu, NEW s, NEW q, q = disable_pmu_counters(p, s),
           Fix = {} => Taken(p, s)
    PROVE  /\ q \in CpuPmu
           /\ Sound(p) => Sound(q)
           /\ Fix # {} => SameGeneral(p, q)
           /\ Fix = {} => GivenBack(p, q, s)
<1>1. CASE Fix # {}
  <2>1. q = fcounters_disable(p)
    BY <1>1 DEF disable_pmu_counters
  <2>2. q \in CpuPmu /\ SameGeneral(p, q)
    BY <2>1, FixedCounters
  <2> QED
    BY <1>1, <2>2 DEF Sound, SoundOn, SameGeneral
<1>2. CASE Fix = {}
  <2> DEFINE i == s[1]
             j == s[2]
             a == counter_disable(p, i)
  <2>1. i \in p.enabled /\ j \in p.enabled /\ i # j /\ i \in Ctr /\ j \in Ctr
    BY <1>2 DEF CpuPmu, Taken
  <2>2. q = counter_disable(a, j)
    BY <1>2 DEF disable_pmu_counters
  <2> HIDE DEF i, j
  <2>3. a \in CpuPmu /\ a.enabled = p.enabled \ {i} /\ Restarted(p, a, i)
    BY <2>1, Disable
  <2>4. Sound(p) => Sound(a)
    BY <2>1, SoundDisable
  <2> HIDE DEF a
  <2>5. j \in a.enabled
    BY <2>1, <2>3
  <2>6. q \in CpuPmu /\ q.enabled = a.enabled \ {j} /\ Restarted(a, q, j)
    BY <2>1, <2>2, <2>3, <2>5, Disable
  <2>7. Sound(a) => Sound(q)
    BY <2>1, <2>2, <2>3, SoundDisable
  <2>8. p.pmc \in [Ctr -> Counts] /\ a.pmc \in [Ctr -> Counts] /\ p.enabled \subseteq Ctr
    BY <2>3 DEF CpuPmu
  <2>9. \A k \in Ctr : k # i /\ k # j => q.pmc[k] = p.pmc[k]
    BY <2>1, <2>3, <2>6, <2>8 DEF Restarted
  <2>10. q.enabled = p.enabled \ {i, j}
    BY <2>3, <2>6
  <2>11. \A k \in q.enabled : q.pmc[k] = p.pmc[k]
    BY <2>8, <2>9, <2>10
  <2> QED
    BY <1>2, <2>4, <2>6, <2>7, <2>10, <2>11 DEF i, j, GivenBack
<1> QED
  BY <1>1, <1>2

-----------------------------------------------------------------------------
(* The invariant about the counters, for a cpu whose state is p, where the  *)
(* scheduler noted the counters s and the other module has x, while the    *)
(* scheduler is in stage st and the pmu is loaded (ld) and leaks (lk).     *)
Using == {"insert", "live", "exit", "undo"}
Stages == {"out", "tsc"} \cup Using
Mine(p, s, x) ==
    /\ Taken(p, s)
    /\ s[1] # x /\ s[2] # x /\ ~p.sel[s[1]].int /\ ~p.sel[s[2]].int
Held(C, F, s, x, st) ==
    (IF st \in Using /\ F = {} THEN {s[1], s[2]} ELSE {}) \cup (IF x \in C THEN {x} ELSE {})
Good(C, F, p, s, x, st, ld, lk) ==
    /\ x \in C => ld /\ x \in p.enabled
    /\ ld => SoundOn(C, p)
    /\ st \in Using /\ F = {} => Mine(p, s, x)
    /\ st \in Using => p.fctl.pmi = {} /\ p.fctl.usr = F
    /\ st # "out" => \A j \in F : p.fcleared[j] = 0
    /\ st = "undo" => lk
    /\ ld /\ ~lk => p.enabled = Held(C, F, s, x, st)

CtrInv ==
    /\ arch \in Archs /\ stage \in Stages /\ loaded \in BOOLEAN /\ leaked \in BOOLEAN
    /\ stage # "out" => loaded
    /\ pmu \in [Cpu -> CpuPmu] /\ xctr \in [Cpu -> Ctr \cup {-1}]
    /\ \A c \in Cpu :
         Good(Ctr, Fix, pmu[c], sys_counters[c], xctr[c], stage, loaded, leaked)

(* The members that the invariant looks at.                                *)
LEMMA GoodControl ==
    ASSUME NEW p \in CpuPmu, NEW q \in CpuPmu, SameControl(p, q),
           NEW s, NEW x, loaded \in BOOLEAN, leaked \in BOOLEAN,
           Good(Ctr, Fix, p, s, x, stage, loaded, leaked)
    PROVE  Good(Ctr, Fix, q, s, x, stage, loaded, leaked)
  BY DEF Good, SameControl, SoundOn, Mine, Taken

(* The scheduler gets its counters.                                        *)
LEMMA GoodConfigure ==
    ASSUME NEW p \in CpuPmu, NEW s0, NEW x, NEW lk \in BOOLEAN, NEW ld \in BOOLEAN, ld,
           Good(Ctr, Fix, p, s0, x, "tsc", ld, lk),
           Fix = {} => ~(FreeCounter(Second(p)) < 0), NEW q, q = enable_pmu_counters(p),
           NEW s, s = SysCounters(p)
    PROVE  q \in CpuPmu /\ Good(Ctr, Fix, q, s, x, "insert", ld, lk)
<1>1. CASE Fix # {}
  <2>1. /\ q \in CpuPmu /\ SameGeneral(p, q) /\ q.fcleared = p.fcleared
        /\ q.fctl.usr = Fix /\ q.fctl.pmi = {}
    BY <1>1, ConfigureFixed
  <2> QED
    BY <1>1, <2>1 DEF Good, SameGeneral, SoundOn, Mine, Held, Using
<1>2. CASE Fix = {}
  <2>1. /\ q \in CpuPmu /\ p.enabled \subseteq q.enabled
        /\ Sound(p) => Sound(q)
        /\ s[1] \in Ctr /\ s[2] \in Ctr /\ s[1] # s[2]
        /\ s[1] \notin p.enabled /\ s[2] \notin p.enabled
        /\ q.enabled = p.enabled \cup {s[1], s[2]}
        /\ q.sel[s[1]] = Counting /\ q.sel[s[2]] = Counting
    BY <1>2, ConfigureGeneral
  <2>2. q.fctl.pmi = {} /\ q.fctl.usr = Fix
    BY <1>2, <2>1 DEF CpuPmu, Controls
  <2>3. x \in Ctr => x \in p.enabled
    BY DEF Good
  <2>4. x \in Ctr \/ x \notin p.enabled
    BY DEF CpuPmu
  <2>5. Mine(q, s, x)
    BY <2>1, <2>3, SelectsType DEF Mine, Taken
  <2>6. ~lk => q.enabled = Held(Ctr, Fix, s, x, "insert")
    <3> SUFFICES ASSUME ~lk
                 PROVE  q.enabled = Held(Ctr, Fix, s, x, "insert")
      OBVIOUS
    <3>1. p.enabled = IF x \in Ctr THEN {x} ELSE {}
      BY DEF Good, Held, Using
    <3> QED
      BY <1>2, <2>1, <3>1 DEF Held, Using
  <2>7. SoundOn(Ctr, q)
    BY <2>1 DEF Good, Sound
  <2> QED
    BY <1>2, <2>1, <2>2, <2>3, <2>5, <2>6, <2>7 DEF Good
<1> QED
  BY <1>1, <1>2

(* It does not, somewhere: what it got is left to nobody.                  *)
LEMMA GoodConfigureFails ==
    ASSUME Fix = {}, NEW p \in CpuPmu, NEW s0, NEW x, NEW lk \in BOOLEAN, NEW ld \in BOOLEAN, ld,
           NEW ln \in BOOLEAN, ln,
           Good(Ctr, Fix, p, s0, x, "tsc", ld, lk), NEW q, q = enable_pmu_counters(p), NEW s
    PROVE  q \in CpuPmu /\ Good(Ctr, Fix, q, s, x, "out", ld, ln)
<1>1. q \in CpuPmu /\ p.enabled \subseteq q.enabled /\ (Sound(p) => Sound(q))
  BY ConfigureGeneral
<1>2. x \in Ctr => x \in p.enabled
  BY DEF Good
<1>3. SoundOn(Ctr, q)
  BY <1>1 DEF Good, Sound
<1> QED
  BY <1>1, <1>2, <1>3 DEF Good, Using

(* The scheduler gives its counters back.                                  *)
LEMMA GoodDeconfigure ==
    ASSUME NEW p \in CpuPmu, NEW s, NEW t, NEW x, NEW lk \in BOOLEAN, NEW ld \in BOOLEAN, ld,
           Good(Ctr, Fix, p, s, x, "exit", ld, lk), NEW q, q = disable_pmu_counters(p, s)
    PROVE  q \in CpuPmu /\ Good(Ctr, Fix, q, t, x, "out", ld, lk)
<1>1. Fix = {} => Mine(p, s, x)
  BY DEF Good, Using
<1>2. /\ q \in CpuPmu
      /\ Sound(p) => Sound(q)
      /\ Fix # {} => SameGeneral(p, q)
      /\ Fix = {} => GivenBack(p, q, s)
  BY <1>1, Deconfigure DEF Mine
<1>3. SoundOn(Ctr, q)
  BY <1>2 DEF Good, Sound
<1>4. x \in Ctr => x \in q.enabled
  BY <1>1, <1>2 DEF Good, Mine, SameGeneral, GivenBack
<1>5. ~lk => q.enabled = Held(Ctr, Fix, t, x, "out")
  <2> SUFFICES ASSUME ~lk
               PROVE  q.enabled = Held(Ctr, Fix, t, x, "out")
    OBVIOUS
  <2>1. p.enabled = Held(Ctr, Fix, s, x, "exit")
    BY DEF Good
  <2>2. CASE Fix # {}
    BY <1>2, <2>1, <2>2 DEF Held, Using, SameGeneral
  <2>3. CASE Fix = {}
    <3>1. q.enabled = p.enabled \ {s[1], s[2]} /\ s[1] # x /\ s[2] # x
      BY <1>1, <1>2, <2>3 DEF Mine, GivenBack
    <3>2. p.enabled = {s[1], s[2]} \cup (IF x \in Ctr THEN {x} ELSE {})
      BY <2>1, <2>3 DEF Held, Using
    <3> QED
      BY <3>1, <3>2 DEF Held, Using
  <2> QED
    BY <2>2, <2>3
<1> QED
  BY <1>2, <1>3, <1>4, <1>5 DEF Good, Using

(* A unit of work.                                                         *)
LEMMA GoodCount ==
    ASSUME NEW p \in CpuPmu, NEW s, NEW x, loaded \in BOOLEAN, leaked \in BOOLEAN,
           Good(Ctr, Fix, p, s, x, stage, loaded, leaked), NEW q, q = Count(p)
    PROVE  q \in CpuPmu /\ Good(Ctr, Fix, q, s, x, stage, loaded, leaked)
<1>1. q \in CpuPmu /\ SameControl(p, q)
  BY CountUnit DEF SameControl
<1> QED
  BY <1>1, GoodControl

(* The other module takes a counter.                                       *)
LEMMA GoodOtherEnable ==
    ASSUME NEW p \in CpuPmu, NEW s, NEW x, x \notin Ctr, loaded, leaked \in BOOLEAN,
           Good(Ctr, Fix, p, s, x, stage, loaded, leaked), NEW q, q = counter_enable(p),
           NEW y, y = FreeCounter(p)
    PROVE  q \in CpuPmu /\ Good(Ctr, Fix, q, s, y, stage, loaded, leaked)
<1>1. /\ q \in CpuPmu /\ SameFixed(p, q)
      /\ y \notin Ctr => q = p
      /\ y \in Ctr => /\ y \notin p.enabled /\ q.enabled = p.enabled \cup {y}
                      /\ Programmed(p, q, y, Counting)
  BY Enable
<1>2. Sound(p) => Sound(q)
  BY SoundEnable
<1>3. SoundOn(Ctr, q)
  BY <1>2 DEF Good, Sound
<1>4. p.enabled \subseteq Ctr /\ p.sel \in [Ctr -> Selects]
  BY DEF CpuPmu
<1>5. stage \in Using /\ Fix = {} => Mine(q, s, y)
  <2> SUFFICES ASSUME stage \in Using, Fix = {}
               PROVE  Mine(q, s, y)
    OBVIOUS
  <2>1. Mine(p, s, x)
    BY DEF Good
  <2>2. s[1] \in p.enabled /\ s[2] \in p.enabled /\ s[1] \in Ctr /\ s[2] \in Ctr
    BY <1>4, <2>1 DEF Mine, Taken
  <2>3. CASE y \notin Ctr
    BY <1>1, <2>1, <2>2, <2>3 DEF Mine
  <2>4. CASE y \in Ctr
    <3>1. y # s[1] /\ y # s[2] /\ p.enabled \subseteq q.enabled
      BY <1>1, <2>2, <2>4
    <3>2. q.sel[s[1]] = p.sel[s[1]] /\ q.sel[s[2]] = p.sel[s[2]]
      BY <1>1, <1>4, <2>2, <2>4, <3>1 DEF Programmed
    <3> QED
      BY <2>1, <2>2, <3>1, <3>2 DEF Mine, Taken
  <2> QED
    BY <2>3, <2>4
<1>6. ~leaked => q.enabled = Held(Ctr, Fix, s, y, stage)
  <2> SUFFICES ASSUME ~leaked
               PROVE  q.enabled = Held(Ctr, Fix, s, y, stage)
    OBVIOUS
  <2>1. p.enabled = Held(Ctr, Fix, s, x, stage)
    BY DEF Good
  <2>2. CASE y \notin Ctr
    BY <1>1, <2>1, <2>2 DEF Held
  <2>3. CASE y \in Ctr
    BY <1>1, <2>1, <2>3 DEF Held
  <2> QED
    BY <2>2, <2>3
<1>7. q.fctl = p.fctl /\ q.fcleared = p.fcleared
  BY <1>1 DEF SameFixed
<1> QED
  BY <1>1, <1>3, <1>5, <1>6, <1>7 DEF Good

(* The other module gives its counter back.                                *)
LEMMA GoodOtherDisable ==
    ASSUME NEW p \in CpuPmu, NEW s, NEW x \in Ctr, loaded, leaked \in BOOLEAN,
           Good(Ctr, Fix, p, s, x, stage, loaded, leaked), NEW q, q = counter_disable(p, x),
           NEW y, y \notin Ctr
    PROVE  q \in CpuPmu /\ Good(Ctr, Fix, q, s, y, stage, loaded, leaked)
<1>0. x \in p.enabled
  BY DEF Good
<1>1. /\ q \in CpuPmu /\ SameFixed(p, q) /\ q.enabled = p.enabled \ {x}
      /\ \E v \in Selects : Programmed(p, q, x, v)
  BY <1>0, Disable
<1>2. Sound(p) => Sound(q)
  BY SoundDisable
<1>3. SoundOn(Ctr, q)
  BY <1>2 DEF Good, Sound
<1>4. p.enabled \subseteq Ctr /\ p.sel \in [Ctr -> Selects]
  BY DEF CpuPmu
<1>5. stage \in Using /\ Fix = {} => Mine(q, s, y)
  <2> SUFFICES ASSUME stage \in Using, Fix = {}
               PROVE  Mine(q, s, y)
    OBVIOUS
  <2>1. Mine(p, s, x)
    BY DEF Good
  <2>2. s[1] \in p.enabled /\ s[2] \in p.enabled /\ s[1] \in Ctr /\ s[2] \in Ctr /\ s[1] # x /\ s[2] # x
    BY <1>4, <2>1 DEF Mine, Taken
  <2>3. q.sel[s[1]] = p.sel[s[1]] /\ q.sel[s[2]] = p.sel[s[2]]
    BY <1>1, <1>4, <2>2 DEF Programmed
  <2> QED
    BY <1>1, <2>1, <2>2, <2>3 DEF Mine, Taken
<1>6. ~leaked => q.enabled = Held(Ctr, Fix, s, y, stage)
  <2> SUFFICES ASSUME ~leaked
               PROVE  q.enabled = Held(Ctr, Fix, s, y, stage)
    OBVIOUS
  <2>1. p.enabled = Held(Ctr, Fix, s, x, stage)
    BY DEF Good
  <2>2. stage \in Using /\ Fix = {} => s[1] # x /\ s[2] # x
    BY DEF Good, Mine
  <2> QED
    BY <1>1, <2>1, <2>2 DEF Held
<1>7. q.fctl = p.fctl /\ q.fcleared = p.fcleared
  BY <1>1 DEF SameFixed
<1> QED
  BY <1>1, <1>3, <1>5, <1>6, <1>7 DEF Good

(* The other module turns the interrupt of its counter on or off.          *)
LEMMA GoodOtherInterrupt ==
    ASSUME NEW p \in CpuPmu, NEW s, NEW x \in Ctr, loaded, leaked \in BOOLEAN,
           Good(Ctr, Fix, p, s, x, stage, loaded, leaked), NEW q,
           q = pmu_enable_interrupt(p, x) \/ q = pmu_disable_interrupt(p, x)
    PROVE  q \in CpuPmu /\ Good(Ctr, Fix, q, s, x, stage, loaded, leaked) /\ q.pmc = p.pmc
<1>0. x \in p.enabled
  BY DEF Good
<1>1. /\ q \in CpuPmu /\ SameFixed(p, q) /\ q.enabled = p.enabled /\ q.pmc = p.pmc
      /\ \E v \in Selects : Programmed(p, q, x, v)
  BY EnableInterrupt
<1>2. Sound(p) => Sound(q)
  BY <1>0, SoundInterrupt
<1>3. SoundOn(Ctr, q)
  BY <1>2 DEF Good, Sound
<1>4. p.enabled \subseteq Ctr /\ p.sel \in [Ctr -> Selects]
  BY DEF CpuPmu
<1>5. stage \in Using /\ Fix = {} => Mine(q, s, x)
  <2> SUFFICES ASSUME stage \in Using, Fix = {}
               PROVE  Mine(q, s, x)
    OBVIOUS
  <2>1. Mine(p, s, x)
    BY DEF Good
  <2>2. s[1] \in Ctr /\ s[2] \in Ctr /\ s[1] # x /\ s[2] # x
    BY <1>4, <2>1 DEF Mine, Taken
  <2>3. q.sel[s[1]] = p.sel[s[1]] /\ q.sel[s[2]] = p.sel[s[2]]
    BY <1>1, <1>4, <2>2 DEF Programmed
  <2> QED
    BY <1>1, <2>1, <2>2, <2>3 DEF Mine, Taken
<1>7. q.fctl = p.fctl /\ q.fcleared = p.fcleared
  BY <1>1 DEF SameFixed
<1> QED
  BY <1>0, <1>1, <1>3, <1>5, <1>7 DEF Good

(* The other module and the fixed counters, while the scheduler is out.    *)
LEMMA GoodOtherFixed ==
    ASSUME NEW p \in CpuPmu, NEW q \in CpuPmu, SameGeneral(p, q), NEW s, NEW x, stage = "out", loaded, leaked \in BOOLEAN,
           Good(Ctr, Fix, p, s, x, stage, loaded, leaked)
    PROVE  Good(Ctr, Fix, q, s, x, stage, loaded, leaked)
  BY DEF Good, SameGeneral, SoundOn, Using

(* The processor does not change.                                          *)
LEMMA SameArch ==
    ASSUME arch' = arch
    PROVE  Ctr' = Ctr /\ Fix' = Fix /\ CpuPmu' = CpuPmu
<1>1. Ctr' = Ctr /\ Fix' = Fix
  BY DEF Ctr, NUM_COUNTERS, Fix
<1> QED
  BY <1>1 DEF CpuPmu, Controls, Bits

(* Every step keeps the invariant if it keeps it on every cpu.             *)
LEMMA CtrInvFrom ==
    ASSUME arch' = arch, arch \in Archs,
           stage' \in Stages, loaded' \in BOOLEAN, leaked' \in BOOLEAN, stage' # "out" => loaded',
           pmu' \in [Cpu -> CpuPmu], xctr' \in [Cpu -> Ctr \cup {-1}],
           \A c \in Cpu : Good(Ctr, Fix, pmu'[c], sys_counters'[c], xctr'[c], stage', loaded', leaked')
    PROVE  CtrInv'
  BY SameArch DEF CtrInv

(* Before the pmu module is loaded nobody has a counter.                   *)
LEMMA CtrInvInit == Init => CtrInv
<1> SUFFICES ASSUME Init
             PROVE  CtrInv
  OBVIOUS
<1> DEFINE r == Registers
           sel1 == [i \in Ctr |-> Select(TRUE, TRUE)]
           pmc1 == [i \in Ctr |-> 0]
           fctl1 == [usr |-> Fix, pmi |-> Fix]
           fpmc1 == [j \in Fix |-> 0]
           ovf1 == IF Fix = {} THEN {} ELSE {<<"c", 0>>, <<"f", 0>>}
           off == [i \in Ctr |-> Off]
           none == [usr |-> {}, pmi |-> {}]
           m == Machine(Tables, r)
<1>1. /\ sel1 \in [Ctr -> Selects] /\ pmc1 \in [Ctr -> Counts] /\ fctl1 \in Controls
      /\ fpmc1 \in [Fix -> Counts] /\ off \in [Ctr -> Selects] /\ none \in Controls
  BY SelectsType, Sizes DEF Controls
<1>2. ovf1 \in SUBSET Bits
  BY Sizes DEF Bits, Ctr
<1>3. m = [enabled |-> {}, evtsel |-> off, fcontrol |-> none, fcleared |-> fpmc1,
           sel |-> sel1, pmc |-> pmc1, fctl |-> fctl1, fpmc |-> fpmc1, ovf |-> ovf1]
  BY DEF Machine, Tables, Registers
<1> HIDE DEF sel1, pmc1, fctl1, fpmc1, ovf1, off, none, m
<1>4. m \in CpuPmu
  BY <1>1, <1>2, <1>3 DEF CpuPmu
<1>5. /\ arch \in Archs /\ stage = "out" /\ loaded = FALSE /\ leaked = FALSE
      /\ pmu = [c \in Cpu |-> m] /\ xctr = [c \in Cpu |-> -1]
  BY DEF Init, PmuInit, m
<1>6. -1 \notin Ctr
  BY Sizes
<1>7. \A c \in Cpu : Good(Ctr, Fix, pmu[c], sys_counters[c], xctr[c], stage, loaded, leaked)
  BY <1>5, <1>6 DEF Good, Using
<1> QED
  BY <1>4, <1>5, <1>7 DEF CtrInv, Stages

(* What the invariant says of a cpu.                                       *)
LEMMA CtrInvOf ==
    ASSUME CtrInv, NEW c \in Cpu
    PROVE  /\ pmu[c] \in CpuPmu /\ xctr[c] \in Ctr \cup {-1}
           /\ Good(Ctr, Fix, pmu[c], sys_counters[c], xctr[c], stage, loaded, leaked)
  BY DEF CtrInv

(* A step that changes the state of one cpu at most.                       *)
LEMMA OneCpu ==
    ASSUME CtrInv, arch' = arch, loaded' = loaded, UNCHANGED <<stage, sys_counters, leaked>>,
           NEW c \in Cpu, NEW p \in CpuPmu, pmu' = [pmu EXCEPT ![c] = p],
           NEW x \in Ctr \cup {-1}, xctr' = [xctr EXCEPT ![c] = x],
           Good(Ctr, Fix, p, sys_counters[c], x, stage, loaded, leaked)
    PROVE  CtrInv'
<1>1. pmu \in [Cpu -> CpuPmu] /\ xctr \in [Cpu -> Ctr \cup {-1}]
  BY DEF CtrInv
<1>2. pmu' \in [Cpu -> CpuPmu] /\ xctr' \in [Cpu -> Ctr \cup {-1}]
  BY <1>1
<1>3. ASSUME NEW d \in Cpu
      PROVE  Good(Ctr, Fix, pmu'[d], sys_counters'[d], xctr'[d], stage', loaded', leaked')
  <2>1. CASE d = c
    BY <1>1, <2>1
  <2>2. CASE d # c
    BY <1>1, <2>2 DEF CtrInv
  <2> QED
    BY <2>1, <2>2
<1> QED
  BY <1>2, <1>3, CtrInvFrom DEF CtrInv

(* The steps that leave the counters alone.                                *)
LEMMA CtrStill ==
    ASSUME CtrInv, UNCHANGED <<arch, pmu, loaded, sys_counters, xctr>>,
           stage' \in Stages, leaked' \in BOOLEAN,
           \/ stage' = stage /\ leaked' = leaked
           \/ stage = "out" /\ loaded /\ stage' = "tsc" /\ leaked' = leaked
              /\ \A c \in Cpu, j \in Fix : pmu[c].fcleared[j] = 0
           \/ stage \in Using /\ stage' \in Using /\ (stage' = "undo" => leaked') /\ (leaked => leaked')
    PROVE  CtrInv'
<1>1. /\ pmu \in [Cpu -> CpuPmu] /\ xctr \in [Cpu -> Ctr \cup {-1}] /\ arch \in Archs
      /\ loaded \in BOOLEAN /\ leaked \in BOOLEAN
  BY DEF CtrInv
<1>2. stage' # "out" => loaded
  BY DEF CtrInv, Using
<1>3. ASSUME NEW c \in Cpu
      PROVE  Good(Ctr, Fix, pmu[c], sys_counters[c], xctr[c], stage', loaded, leaked')
  <2>0. Good(Ctr, Fix, pmu[c], sys_counters[c], xctr[c], stage, loaded, leaked)
    BY CtrInvOf
  <2>1. CASE stage' = stage /\ leaked' = leaked
    BY <2>0, <2>1
  <2>2. CASE stage = "out" /\ stage' = "tsc" /\ leaked' = leaked /\ \A d \in Cpu, j \in Fix : pmu[d].fcleared[j] = 0
    BY <2>0, <2>2 DEF Good, Held, Using
  <2>3. CASE stage \in Using /\ stage' \in Using /\ (stage' = "undo" => leaked') /\ (leaked => leaked')
    <3>1. loaded
      BY <1>1, <1>2, <2>3 DEF CtrInv, Using
    <3> QED
      BY <1>1, <2>0, <2>3, <3>1 DEF Good, Held, Using
  <2> QED
    BY <2>1, <2>2, <2>3
<1> QED
  BY <1>1, <1>2, <1>3, CtrInvFrom

(* The scheduler is loaded, and gets its counters or fails.                *)
LEMMA CtrConfigure ==
    ASSUME CtrInv, configure_counters
    PROVE  CtrInv'
<1>1. /\ pmu \in [Cpu -> CpuPmu] /\ xctr \in [Cpu -> Ctr \cup {-1}] /\ arch \in Archs
      /\ loaded \in BOOLEAN /\ leaked \in BOOLEAN /\ stage = "tsc" /\ loaded
  BY DEF CtrInv, configure_counters
<1>2. /\ arch' = arch /\ loaded' = loaded /\ xctr' = xctr
      /\ pmu' = [c \in Cpu |-> enable_pmu_counters(pmu[c])]
  BY DEF configure_counters
<1>3. CASE ~ERROR /\ stage' = "insert" /\ sys_counters' = [c \in Cpu |-> SysCounters(pmu[c])]
           /\ leaked' = leaked
  <2>1. ASSUME NEW c \in Cpu
        PROVE  /\ pmu'[c] \in CpuPmu
               /\ Good(Ctr, Fix, pmu'[c], sys_counters'[c], xctr'[c], stage', loaded', leaked')
    <3> DEFINE p == pmu[c]
               q == pmu'[c]
               s == sys_counters'[c]
               x == xctr[c]
    <3>1. p \in CpuPmu /\ Good(Ctr, Fix, p, sys_counters[c], x, stage, loaded, leaked)
      BY CtrInvOf
    <3>2. q = enable_pmu_counters(p) /\ s = SysCounters(p)
      BY <1>2, <1>3
    <3>3. Fix = {} => ~(FreeCounter(Second(p)) < 0)
      BY <1>3 DEF ERROR
    <3> HIDE DEF p, q, s, x
    <3>4. Good(Ctr, Fix, p, sys_counters[c], x, "tsc", loaded, leaked)
      BY <1>1, <3>1
    <3>5. q \in CpuPmu /\ Good(Ctr, Fix, q, s, x, "insert", loaded, leaked)
      BY <1>1, <3>1, <3>2, <3>3, <3>4, GoodConfigure
    <3> QED
      BY <1>2, <1>3, <3>5 DEF q, s, x
  <2>2. pmu' \in [Cpu -> CpuPmu]
    BY <1>2, <2>1
  <2> QED
    BY <1>1, <1>2, <1>3, <2>1, <2>2, CtrInvFrom DEF Stages, Using
<1>4. CASE ERROR /\ stage' = "out" /\ leaked' = TRUE
  <2>1. ASSUME NEW c \in Cpu
        PROVE  /\ pmu'[c] \in CpuPmu
               /\ Good(Ctr, Fix, pmu'[c], sys_counters'[c], xctr'[c], stage', loaded', leaked')
    <3> DEFINE p == pmu[c]
               q == pmu'[c]
               s == sys_counters'[c]
               x == xctr[c]
    <3>1. p \in CpuPmu /\ Good(Ctr, Fix, p, sys_counters[c], x, stage, loaded, leaked)
      BY CtrInvOf
    <3>2. q = enable_pmu_counters(p)
      BY <1>2
    <3>3. Fix = {}
      BY <1>4 DEF ERROR
    <3> HIDE DEF p, q, s, x
    <3>4. Good(Ctr, Fix, p, sys_counters[c], x, "tsc", loaded, leaked)
      BY <1>1, <3>1
    <3>5. leaked' \in BOOLEAN /\ leaked'
      BY <1>4
    <3>6. q \in CpuPmu /\ Good(Ctr, Fix, q, s, x, "out", loaded, leaked')
      BY <1>1, <3>1, <3>2, <3>3, <3>4, <3>5, GoodConfigureFails
    <3> QED
      BY <1>2, <1>4, <3>6 DEF q, s, x
  <2>2. pmu' \in [Cpu -> CpuPmu]
    BY <1>2, <2>1
  <2> QED
    BY <1>1, <1>2, <1>4, <2>1, <2>2, CtrInvFrom DEF Stages
<1> QED
  BY <1>3, <1>4 DEF configure_counters

(* A failed load leaves its counters enabled.                              *)
LEMMA CtrUnwind ==
    ASSUME CtrInv, unwind_probe
    PROVE  CtrInv'
<1>1. /\ pmu \in [Cpu -> CpuPmu] /\ xctr \in [Cpu -> Ctr \cup {-1}] /\ arch \in Archs
      /\ loaded \in BOOLEAN /\ leaked \in BOOLEAN /\ stage = "undo" /\ loaded
  BY DEF CtrInv, unwind_probe
<1>2. UNCHANGED <<arch, pmu, loaded, leaked, xctr>>
  BY DEF unwind_probe
<1>3. CASE UNCHANGED <<stage, sys_counters>>
  BY <1>1, <1>2, <1>3, CtrStill DEF Stages, Using
<1>4. CASE stage' = "out"
  <2>1. ASSUME NEW c \in Cpu
        PROVE  Good(Ctr, Fix, pmu'[c], sys_counters'[c], xctr'[c], stage', loaded', leaked')
    <3>1. Good(Ctr, Fix, pmu[c], sys_counters[c], xctr[c], "undo", loaded, leaked)
      BY <1>1, CtrInvOf
    <3>2. Good(Ctr, Fix, pmu[c], sys_counters'[c], xctr[c], "out", loaded, leaked)
      BY <1>1, <3>1 DEF Good, Using
    <3> QED
      BY <1>2, <1>4, <3>2
  <2> QED
    BY <1>1, <1>2, <1>4, <2>1, CtrInvFrom DEF Stages
<1> QED
  BY <1>3, <1>4 DEF unwind_probe

(* The scheduler gives its counters back.                                  *)
LEMMA CtrExit ==
    ASSUME CtrInv, exit_counters
    PROVE  CtrInv'
<1>1. /\ pmu \in [Cpu -> CpuPmu] /\ xctr \in [Cpu -> Ctr \cup {-1}] /\ arch \in Archs
      /\ loaded \in BOOLEAN /\ leaked \in BOOLEAN /\ stage = "exit" /\ loaded
  BY DEF CtrInv, exit_counters
<1>2. /\ arch' = arch /\ loaded' = loaded /\ xctr' = xctr /\ leaked' = leaked /\ stage' = "out"
      /\ pmu' = [c \in Cpu |-> disable_pmu_counters(pmu[c], sys_counters[c])]
  BY DEF exit_counters
<1>3. ASSUME NEW c \in Cpu
      PROVE  /\ pmu'[c] \in CpuPmu
             /\ Good(Ctr, Fix, pmu'[c], sys_counters'[c], xctr'[c], stage', loaded', leaked')
  <2> DEFINE p == pmu[c]
             q == pmu'[c]
             s == sys_counters[c]
             t == sys_counters'[c]
             x == xctr[c]
  <2>1. p \in CpuPmu /\ Good(Ctr, Fix, p, s, x, "exit", loaded, leaked)
    BY <1>1, CtrInvOf
  <2>2. q = disable_pmu_counters(p, s)
    BY <1>2
  <2> HIDE DEF p, q, s, t, x
  <2>3. q \in CpuPmu /\ Good(Ctr, Fix, q, t, x, "out", loaded, leaked)
    BY <1>1, <2>1, <2>2, GoodDeconfigure
  <2> QED
    BY <1>2, <2>3 DEF q, t, x
<1>4. pmu' \in [Cpu -> CpuPmu]
  BY <1>2, <1>3
<1> QED
  BY <1>1, <1>2, <1>3, <1>4, CtrInvFrom DEF Stages

(* A probe reads the counters of its cpu and sets them back.               *)
LEMMA CtrCharge ==
    ASSUME CtrInv, NEW c \in Cpu, arch' = arch, loaded' = loaded,
           UNCHANGED <<stage, sys_counters, leaked, xctr>>,
           pmu' = [pmu EXCEPT ![c] = clear_counters(@, sys_counters[c])]
    PROVE  CtrInv'
<1> DEFINE p == pmu[c]
           q == clear_counters(p, sys_counters[c])
           s == sys_counters[c]
           x == xctr[c]
<1>1. /\ p \in CpuPmu /\ x \in Ctr \cup {-1} /\ Good(Ctr, Fix, p, s, x, stage, loaded, leaked)
      /\ loaded \in BOOLEAN /\ leaked \in BOOLEAN /\ xctr \in [Cpu -> Ctr \cup {-1}]
  BY CtrInvOf DEF CtrInv
<1>2. q \in CpuPmu /\ SameControl(p, q)
  <2> HIDE DEF p
  <2> QED
    BY <1>1, ClearCounters
<1>3. pmu' = [pmu EXCEPT ![c] = q] /\ xctr' = [xctr EXCEPT ![c] = x]
  BY <1>1
<1> HIDE DEF p, q, x
<1>4. Good(Ctr, Fix, q, s, x, stage, loaded, leaked)
  <2> HIDE DEF s
  <2> QED
    BY <1>1, <1>2, GoodControl
<1> QED
  BY <1>1, <1>2, <1>3, <1>4, OneCpu

(* A unit of work on a cpu.                                                *)
LEMMA CtrExecute ==
    ASSUME CtrInv, NEW c \in Cpu, Execute(c)
    PROVE  CtrInv'
<1> DEFINE p == pmu[c]
           q == Count(p)
           s == sys_counters[c]
           x == xctr[c]
<1>1. /\ p \in CpuPmu /\ x \in Ctr \cup {-1} /\ Good(Ctr, Fix, p, s, x, stage, loaded, leaked)
      /\ loaded \in BOOLEAN /\ leaked \in BOOLEAN /\ xctr \in [Cpu -> Ctr \cup {-1}]
  BY CtrInvOf DEF CtrInv
<1>2. /\ pmu' = [pmu EXCEPT ![c] = q] /\ xctr' = [xctr EXCEPT ![c] = x]
      /\ arch' = arch /\ loaded' = loaded /\ UNCHANGED <<stage, sys_counters, leaked>>
  BY <1>1 DEF Execute, sched
<1> HIDE DEF p, x
<1>3. q \in CpuPmu /\ Good(Ctr, Fix, q, s, x, stage, loaded, leaked)
  <2> HIDE DEF s
  <2> QED
    BY <1>1, GoodCount
<1> HIDE DEF q
<1> QED
  BY <1>1, <1>2, <1>3, OneCpu

(* The other module takes, uses and gives back a general counter.          *)
LEMMA CtrOther ==
    ASSUME CtrInv, NEW c \in Cpu, Other(c)
    PROVE  CtrInv'
<1> DEFINE p == pmu[c]
           s == sys_counters[c]
           x == xctr[c]
<1>1. /\ p \in CpuPmu /\ x \in Ctr \cup {-1} /\ Good(Ctr, Fix, p, s, x, stage, loaded, leaked)
      /\ loaded \in BOOLEAN /\ leaked \in BOOLEAN /\ xctr \in [Cpu -> Ctr \cup {-1}]
  BY CtrInvOf DEF CtrInv
<1>2. -1 \notin Ctr
  BY Sizes
<1>3. ASSUME NEW q \in CpuPmu, OtherSets(c, q), NEW y \in Ctr \cup {-1}, xctr' = [xctr EXCEPT ![c] = y],
             loaded => Good(Ctr, Fix, q, s, y, stage, loaded, leaked)
      PROVE  CtrInv'
  <2>1. /\ loaded /\ pmu' = [pmu EXCEPT ![c] = q]
        /\ arch' = arch /\ loaded' = loaded /\ UNCHANGED <<stage, sys_counters, leaked>>
    BY <1>3 DEF OtherSets, sched
  <2> QED
    BY <1>3, <2>1, OneCpu
<1>4. CASE x = -1 /\ OtherSets(c, counter_enable(p)) /\ xctr' = [xctr EXCEPT ![c] = FreeCounter(p)]
  <2> DEFINE q == counter_enable(p)
             y == FreeCounter(p)
  <2>1. y \in Ctr \cup {-1}
    BY Free
  <2>2. loaded
    BY <1>4 DEF OtherSets
  <2>3. x \notin Ctr /\ q = counter_enable(p) /\ y = FreeCounter(p)
    BY <1>2, <1>4
  <2> HIDE DEF p, x, q, y, s
  <2>4. q \in CpuPmu /\ Good(Ctr, Fix, q, s, y, stage, loaded, leaked)
    <3>1. p \in CpuPmu /\ Good(Ctr, Fix, p, s, x, stage, loaded, leaked)
      BY <1>1
    <3>2. loaded \in BOOLEAN /\ leaked \in BOOLEAN
      BY <1>1
    <3> QED
      BY <2>2, <2>3, <3>1, <3>2, GoodOtherEnable
  <2> QED
    BY <1>3, <1>4, <2>1, <2>4 DEF q, y
<1>5. CASE x # -1 /\ OtherSets(c, counter_disable(p, x)) /\ xctr' = [xctr EXCEPT ![c] = -1]
  <2> DEFINE q == counter_disable(p, x)
             y == -1
  <2>1. y \in Ctr \cup {-1} /\ y \notin Ctr
    BY <1>2
  <2>2. loaded
    BY <1>5 DEF OtherSets
  <2>3. x \in Ctr /\ q = counter_disable(p, x)
    BY <1>1, <1>5
  <2> HIDE DEF p, x, q, y, s
  <2>4. q \in CpuPmu /\ Good(Ctr, Fix, q, s, y, stage, loaded, leaked)
    BY <1>1, <2>1, <2>2, <2>3, GoodOtherDisable
  <2> QED
    BY <1>3, <1>5, <2>1, <2>4 DEF q, y
<1>6. CASE /\ x # -1 /\ UNCHANGED xctr
           /\ \/ OtherSets(c, pmu_enable_interrupt(p, x)) \/ OtherSets(c, pmu_disable_interrupt(p, x))
              \/ OtherSets(c, pmu_clear_ovf_status(p, x))
  <2>1. x \in Ctr /\ xctr' = [xctr EXCEPT ![c] = x] /\ loaded
    BY <1>1, <1>6 DEF OtherSets
  <2>2. PICK q : /\ OtherSets(c, q)
                 /\ \/ q = pmu_enable_interrupt(p, x) \/ q = pmu_disable_interrupt(p, x)
                    \/ q = pmu_clear_ovf_status(p, x)
    BY <1>6
  <2> HIDE DEF p, x, s
  <2>3. q \in CpuPmu /\ Good(Ctr, Fix, q, s, x, stage, loaded, leaked)
    <3>1. CASE q = pmu_enable_interrupt(p, x) \/ q = pmu_disable_interrupt(p, x)
      <4>1. p \in CpuPmu /\ Good(Ctr, Fix, p, s, x, stage, loaded, leaked)
        BY <1>1
      <4>2. loaded \in BOOLEAN /\ leaked \in BOOLEAN /\ loaded /\ x \in Ctr
        BY <1>1, <2>1
      <4> QED
        BY <3>1, <4>1, <4>2, GoodOtherInterrupt
    <3>2. CASE q = pmu_clear_ovf_status(p, x)
      <4>1. q \in CpuPmu /\ SameGeneral(p, q) /\ SameFixed(p, q)
        BY <1>1, <3>2, ClearOverflow
      <4>2. SameControl(p, q)
        BY <4>1 DEF SameGeneral, SameFixed, SameControl
      <4> QED
        BY <1>1, <4>1, <4>2, GoodControl
    <3> QED
      BY <2>2, <3>1, <3>2
  <2> QED
    BY <1>1, <1>3, <2>1, <2>2, <2>3
<1> QED
  BY <1>4, <1>5, <1>6 DEF Other

(* What the other module does to the fixed counters.                       *)
LEMMA FixedByOther ==
    ASSUME CtrInv, NEW c \in Cpu, OtherFixed(c)
    PROVE  \E q \in CpuPmu : OtherSets(c, q) /\ SameGeneral(pmu[c], q)
<1> DEFINE p == pmu[c]
<1>0. p \in CpuPmu
  BY CtrInvOf
<1>1. PICK j \in Fix :
         \/ OtherSets(c, fcounters_enable(p))
         \/ OtherSets(c, fcounters_disable(p))
         \/ OtherSets(c, fpmu_configure_interrupt(p, j, W - 1))
         \/ OtherSets(c, fpmu_enable_interrupt(p, j))
         \/ OtherSets(c, fpmu_disable_interrupt(p, j))
         \/ OtherSets(c, fpmu_clear_ovf_status(p, j))
  BY DEF OtherFixed
<1> HIDE DEF p
<1>2. CASE OtherSets(c, fcounters_enable(p)) \/ OtherSets(c, fcounters_disable(p))
  BY <1>0, <1>2, FixedCounters DEF p
<1>3. CASE \/ OtherSets(c, fpmu_configure_interrupt(p, j, W - 1))
           \/ OtherSets(c, fpmu_enable_interrupt(p, j))
           \/ OtherSets(c, fpmu_disable_interrupt(p, j))
  <2>1. PICK q : /\ OtherSets(c, q)
                 /\ \/ q = fpmu_configure_interrupt(p, j, W - 1)
                    \/ q = fpmu_enable_interrupt(p, j) \/ q = fpmu_disable_interrupt(p, j)
    BY <1>3
  <2>2. q \in CpuPmu /\ SameGeneral(p, q)
    BY <1>0, <2>1, FixedInterrupts
  <2> QED
    BY <2>1, <2>2 DEF p
<1>4. CASE OtherSets(c, fpmu_clear_ovf_status(p, j))
  BY <1>0, <1>4, ClearOverflow DEF p
<1> QED
  BY <1>1, <1>2, <1>3, <1>4

(* The other module uses the fixed counters while the scheduler is out.    *)
LEMMA CtrOtherFixed ==
    ASSUME CtrInv, NEW c \in Cpu, OtherFixed(c)
    PROVE  CtrInv'
<1> DEFINE p == pmu[c]
           s == sys_counters[c]
           x == xctr[c]
<1>1. /\ p \in CpuPmu /\ x \in Ctr \cup {-1} /\ Good(Ctr, Fix, p, s, x, stage, loaded, leaked)
      /\ loaded \in BOOLEAN /\ leaked \in BOOLEAN /\ xctr \in [Cpu -> Ctr \cup {-1}]
  BY CtrInvOf DEF CtrInv
<1>2. stage = "out" /\ xctr' = xctr
  BY DEF OtherFixed
<1>3. PICK q \in CpuPmu : OtherSets(c, q) /\ SameGeneral(p, q)
  BY FixedByOther
<1>4. /\ loaded /\ pmu' = [pmu EXCEPT ![c] = q] /\ xctr' = [xctr EXCEPT ![c] = x]
      /\ arch' = arch /\ loaded' = loaded /\ UNCHANGED <<stage, sys_counters, leaked>>
  BY <1>1, <1>2, <1>3 DEF OtherSets, sched
<1>5. Good(Ctr, Fix, q, s, x, stage, loaded, leaked)
  <2> HIDE DEF p, s, x
  <2>1. Good(Ctr, Fix, p, s, x, stage, loaded, leaked)
    BY <1>1, <1>2
  <2>2. Good(Ctr, Fix, q, s, x, stage, loaded, leaked)
    <3>1. loaded \in BOOLEAN /\ leaked \in BOOLEAN /\ loaded /\ p \in CpuPmu
      BY <1>1, <1>4
    <3>2. SameGeneral(p, q)
      BY <1>3
    <3> QED
      BY <1>2, <2>1, <3>1, <3>2, GoodOtherFixed
  <2> QED
    BY <1>2, <2>2
<1> HIDE DEF p, x
<1> QED
  BY <1>1, <1>3, <1>4, <1>5, OneCpu

(* The pmu module is loaded or unloaded.                                   *)
LEMMA CtrModule ==
    ASSUME CtrInv, PmuModule
    PROVE  CtrInv'
<1>1. /\ pmu \in [Cpu -> CpuPmu] /\ xctr \in [Cpu -> Ctr \cup {-1}] /\ arch \in Archs
      /\ loaded \in BOOLEAN /\ leaked \in BOOLEAN /\ stage = "out"
      /\ \A c \in Cpu : xctr[c] = -1
  BY DEF CtrInv, PmuModule
<1>2. stage' = stage /\ xctr' = xctr /\ arch' = arch
  BY DEF PmuModule, pmu_init, pmu_exit
<1>3. -1 \notin Ctr
  BY Sizes
<1>4. CASE pmu_init /\ leaked' = FALSE
  <2>1. loaded' = TRUE /\ pmu' = [c \in Cpu |-> fpmu_init_msrs(pmu_init_msrs(Machine(Tables, pmu[c])))]
    BY <1>4 DEF pmu_init
  <2>2. ASSUME NEW c \in Cpu
        PROVE  /\ pmu'[c] \in CpuPmu
               /\ Good(Ctr, Fix, pmu'[c], sys_counters'[c], xctr'[c], stage', loaded', leaked')
    <3> DEFINE q == pmu'[c]
               p == pmu[c]
    <3>1. q = fpmu_init_msrs(pmu_init_msrs(Machine(Tables, p))) /\ p \in CpuPmu
      BY <1>1, <2>1
    <3> HIDE DEF p, q
    <3>2. q \in CpuPmu /\ q.enabled = {} /\ q.evtsel = q.sel /\ \A i \in Ctr : ~q.sel[i].enabled
      BY <3>1, Loading
    <3>3. SoundOn(Ctr, q)
      BY <3>2 DEF SoundOn
    <3>4. Good(Ctr, Fix, q, sys_counters'[c], -1, "out", loaded', leaked')
      BY <1>3, <1>4, <2>1, <3>2, <3>3 DEF Good, Held, Using
    <3> QED
      BY <1>1, <1>2, <3>2, <3>4 DEF q
  <2>3. pmu' \in [Cpu -> CpuPmu]
    BY <2>1, <2>2
  <2> QED
    BY <1>1, <1>2, <1>4, <2>1, <2>2, <2>3, CtrInvFrom DEF Stages
<1>5. CASE pmu_exit /\ UNCHANGED leaked
  <2>1. loaded' = FALSE /\ pmu' = [c \in Cpu |-> Machine(Tables, pmu[c])]
    BY <1>5 DEF pmu_exit
  <2>2. ASSUME NEW c \in Cpu
        PROVE  /\ pmu'[c] \in CpuPmu
               /\ Good(Ctr, Fix, pmu'[c], sys_counters'[c], xctr'[c], stage', loaded', leaked')
    <3> DEFINE q == pmu'[c]
               p == pmu[c]
    <3>1. q = Machine(Tables, p) /\ p \in CpuPmu
      BY <1>1, <2>1
    <3> HIDE DEF p, q
    <3>2. q \in CpuPmu
      BY <3>1, MachineType
    <3>3. Good(Ctr, Fix, q, sys_counters'[c], -1, "out", loaded', leaked')
      BY <1>3, <2>1 DEF Good, Using
    <3> QED
      BY <1>1, <1>2, <3>2, <3>3 DEF q
  <2>3. pmu' \in [Cpu -> CpuPmu]
    BY <2>1, <2>2
  <2> QED
    BY <1>1, <1>2, <1>5, <2>1, <2>2, <2>3, CtrInvFrom DEF Stages
<1> QED
  BY <1>4, <1>5 DEF PmuModule

(* Every step keeps the invariant about the counters.                      *)
LEMMA CtrNext ==
    ASSUME CtrInv, [Next]_vars
    PROVE  CtrInv'
<1>0. loaded \in BOOLEAN /\ leaked \in BOOLEAN /\ stage \in Stages
  BY DEF CtrInv
<1>1. CASE init_tsc_intf
  BY <1>0, <1>1, CtrStill DEF init_tsc_intf, Stages
<1>2. CASE configure_counters
  BY <1>2, CtrConfigure
<1>3. CASE register_probe
  <2>1. /\ UNCHANGED <<arch, pmu, loaded, sys_counters, xctr>>
        /\ stage \in Using /\ stage' \in {"live", "insert"} /\ leaked' = leaked
    BY <1>3 DEF register_probe, Using
  <2> QED
    BY <1>0, <2>1, CtrStill DEF Stages, Using
<1>4. CASE register_fails
  BY <1>0, <1>4, CtrStill DEF register_fails, Stages, Using
<1>5. CASE unwind_probe
  BY <1>5, CtrUnwind
<1>6. CASE remove_probe
  <2>1. /\ UNCHANGED <<arch, pmu, loaded, sys_counters, xctr>>
        /\ stage \in Using /\ stage' = "exit" /\ leaked' = leaked
    BY <1>6 DEF remove_probe, Using
  <2> QED
    BY <1>0, <2>1, CtrStill DEF Stages, Using
<1>7. CASE exit_counters
  BY <1>7, CtrExit
<1>8. CASE PmuModule
  BY <1>8, CtrModule
<1>9. ASSUME NEW c \in Cpu, inst_schedule(c)
      PROVE  CtrInv'
  BY <1>9, CtrCharge DEF inst_schedule, Charge
<1>10. ASSUME NEW c \in Cpu, Execute(c)
       PROVE  CtrInv'
  BY <1>10, CtrExecute
<1>11. ASSUME NEW c \in Cpu, NEW t \in Task, inst___switch_to(c, t)
       PROVE  CtrInv'
  <2>1. UNCHANGED <<arch, loaded, stage, sys_counters, leaked, xctr>>
    BY <1>11 DEF inst___switch_to
  <2>2. CASE pmu' = [pmu EXCEPT ![c] = clear_counters(@, sys_counters[c])]
    BY <2>1, <2>2, CtrCharge
  <2>3. CASE pmu' = pmu
    BY <1>0, <2>1, <2>3, CtrStill
  <2> QED
    BY <1>11, <2>2, <2>3 DEF inst___switch_to, Charge
<1>12. ASSUME NEW c \in Cpu, NEW t \in Task, inst_sched_fork(c, t)
       PROVE  CtrInv'
  <2>1. UNCHANGED <<arch, pmu, loaded, stage, sys_counters, leaked, xctr>>
    BY <1>12 DEF inst_sched_fork
  <2> QED
    BY <1>0, <2>1, CtrStill
<1>13. ASSUME NEW c \in Cpu, Other(c) \/ OtherFixed(c)
       PROVE  CtrInv'
  BY <1>13, CtrOther, CtrOtherFixed
<1>14. CASE UNCHANGED vars
  <2>1. UNCHANGED <<arch, pmu, loaded, stage, sys_counters, leaked, xctr>>
    BY <1>14 DEF vars, sched
  <2> QED
    BY <1>0, <2>1, CtrStill
<1>15. OtherCpu \subseteq Cpu
  BY AccountingAssumption
<1> QED
  BY <1>1, <1>2, <1>3, <1>4, <1>5, <1>6, <1>7, <1>8, <1>9, <1>10, <1>11, <1>12, <1>13, <1>14, <1>15
     DEF Next

(* The invariant about the counters holds.                                 *)
LEMMA CtrInvHolds == Spec => []CtrInv
<1>1. Init => CtrInv
  BY CtrInvInit
<1>2. CtrInv /\ [Next]_vars => CtrInv'
  BY CtrNext
<1> QED
  BY <1>1, <1>2, PTL DEF Spec

-----------------------------------------------------------------------------
(* The scheduler never counts with a counter that raises an interrupt,     *)
(* whoever used the counter before (msr_pmu.c counter_enable, msr_fpmu.c   *)
(* fcounters_enable).                                                      *)
THEOREM SchedulerUninterrupted == Spec => []NoStrayInterrupt
<1>1. CtrInv => NoStrayInterrupt
  <2> SUFFICES ASSUME CtrInv, stage \in Using, NEW c \in Cpu
               PROVE  /\ pmu[c].fctl.pmi = {}
                      /\ \A n \in Uses : ~pmu[c].sel[sys_counters[c][n]].int
    BY DEF NoStrayInterrupt, Using
  <2>1. Good(Ctr, Fix, pmu[c], sys_counters[c], xctr[c], stage, loaded, leaked)
    BY CtrInvOf
  <2>2. pmu[c].fctl.pmi = {}
    BY <2>1 DEF Good
  <2>3. CASE Fix # {}
    BY <2>2, <2>3 DEF Uses
  <2>4. CASE Fix = {}
    <3>1. Mine(pmu[c], sys_counters[c], xctr[c])
      BY <2>1, <2>4 DEF Good
    <3>2. Uses \subseteq {1, 2}
      BY DEF Uses
    <3> QED
      BY <2>2, <3>1, <3>2 DEF Mine
  <2> QED
    BY <2>3, <2>4
<1> QED
  BY <1>1, CtrInvHolds, PTL

(* The pmu counts with exactly the counters it has given away; they are    *)
(* the other module's and the scheduler's, each its own (hwcounters.c      *)
(* enable_pmu_counters, disable_pmu_counters).                             *)
THEOREM CountersHaveOwners == Spec => []CountersOwned
<1>1. CtrInv => CountersOwned
  <2> SUFFICES ASSUME CtrInv, loaded, NEW c \in Cpu
               PROVE  LET given == pmu[c].enabled
                          ours == {sys_counters[c][n] : n \in Uses}
                      IN  /\ given = {i \in Ctr : evtsel_read(pmu[c], i).enabled}
                          /\ ~leaked => given = ours \cup ({xctr[c]} \ {-1})
                          /\ Cardinality(ours) = Cardinality(Uses) /\ xctr[c] \notin ours
    BY DEF CountersOwned
  <2> DEFINE s == sys_counters[c]
             x == xctr[c]
             p == pmu[c]
             ours == {s[n] : n \in Uses}
  <2>1. Good(Ctr, Fix, p, s, x, stage, loaded, leaked) /\ x \in Ctr \cup {-1}
    BY CtrInvOf
  <2>2. p.enabled = {i \in Ctr : evtsel_read(p, i).enabled}
    BY <2>1 DEF Good, SoundOn, evtsel_read
  <2>3. -1 \notin Ctr
    BY Sizes
  <2> HIDE DEF p, s, x
  <2>4. (IF x \in Ctr THEN {x} ELSE {}) = {x} \ {-1}
    BY <2>1, <2>3
  <2>5. CASE stage \in Using /\ Fix = {}
    <3>1. Uses = {1, 2} /\ ours = {s[1], s[2]}
      BY <2>5 DEF Uses, Using
    <3>2. s[1] # s[2] /\ s[1] # x /\ s[2] # x
      BY <2>1, <2>5 DEF Good, Mine, Taken
    <3>3. Cardinality({1, 2}) = 2
      <4>1. IsFiniteSet({1}) /\ Cardinality({1}) = 1
        BY FS_Singleton
      <4>2. {1, 2} = {1} \cup {2} /\ 2 \notin {1}
        OBVIOUS
      <4> QED
        BY <4>1, <4>2, FS_AddElement
    <3>4. Cardinality({s[1], s[2]}) = 2
      <4>1. IsFiniteSet({s[1]}) /\ Cardinality({s[1]}) = 1
        BY FS_Singleton
      <4>2. {s[1], s[2]} = {s[1]} \cup {s[2]} /\ s[2] \notin {s[1]}
        BY <3>2
      <4> QED
        BY <4>1, <4>2, FS_AddElement
    <3>5. ~leaked => p.enabled = {s[1], s[2]} \cup (IF x \in Ctr THEN {x} ELSE {})
      BY <2>1, <2>5 DEF Good, Held
    <3>6. Cardinality(ours) = Cardinality(Uses)
      BY <3>1, <3>3, <3>4
    <3>7. ~leaked => p.enabled = ours \cup ({x} \ {-1})
      BY <2>4, <3>1, <3>5
    <3>8. x \notin ours
      BY <3>1, <3>2
    <3> QED
      BY <2>2, <3>6, <3>7, <3>8 DEF p, s, x
  <2>6. CASE ~(stage \in Using /\ Fix = {})
    <3>1. Uses = {} /\ ours = {}
      BY <2>6 DEF Uses, Using
    <3>2. ~leaked => p.enabled = IF x \in Ctr THEN {x} ELSE {}
      BY <2>1, <2>6 DEF Good, Held
    <3>3. ~leaked => p.enabled = ours \cup ({x} \ {-1})
      BY <2>4, <3>1, <3>2
    <3>4. x \notin ours /\ Cardinality(ours) = Cardinality(Uses)
      BY <3>1
    <3> QED
      BY <2>2, <3>3, <3>4 DEF p, s, x
  <2> QED
    BY <2>5, <2>6
<1> QED
  BY <1>1, CtrInvHolds, PTL

(* What a step may do to the count of the counter the other module has.    *)
Kept(p, q, x) == q.pmc[x] \in {p.pmc[x], (p.pmc[x] + 1) % W}

(* A count that does not move.                                             *)
LEMMA KeptSame ==
    ASSUME NEW p, NEW q, NEW x, q.pmc[x] = p.pmc[x]
    PROVE  Kept(p, q, x)
  BY DEF Kept

(* A probe clears its own two counters only.                               *)
LEMMA KeptCharge ==
    ASSUME CtrInv, NEW c \in Cpu, stage \in Using, NEW d \in Cpu, xctr[d] # -1,
           pmu' = [pmu EXCEPT ![c] = clear_counters(@, sys_counters[c])]
    PROVE  Kept(pmu[d], pmu'[d], xctr[d])
<1> DEFINE p == pmu[c]
           s == sys_counters[c]
           q == clear_counters(p, s)
<1>1. /\ pmu \in [Cpu -> CpuPmu] /\ p \in CpuPmu /\ xctr[d] \in Ctr
      /\ Good(Ctr, Fix, p, s, xctr[c], stage, loaded, leaked)
  BY CtrInvOf DEF CtrInv
<1>2. CASE d # c
  BY <1>1, <1>2, KeptSame
<1>3. CASE d = c
  <2>1. pmu'[d] = q
    BY <1>1, <1>3
  <2> HIDE DEF p, s
  <2>2. (Fix # {} => FixedCleared(p, q)) /\ (Fix = {} => GeneralCleared(p, q, s))
    BY <1>1, ClearCounters
  <2> HIDE DEF q
  <2>3. q.pmc[xctr[d]] = p.pmc[xctr[d]]
    <3>1. CASE Fix # {}
      BY <2>2, <3>1 DEF FixedCleared
    <3>2. CASE Fix = {}
      BY <1>1, <1>3, <2>2, <3>2 DEF GeneralCleared, Good, Mine
    <3> QED
      BY <3>1, <3>2
  <2> QED
    BY <1>3, <2>1, <2>3, KeptSame DEF p
<1> QED
  BY <1>2, <1>3

(* Every step leaves the count of the other module where it is, or adds    *)
(* one.                                                                    *)
LEMMA KeptNext ==
    ASSUME CtrInv, [Next]_vars, NEW d \in Cpu, xctr[d] # -1, xctr'[d] = xctr[d],
           ~(stage = "tsc" /\ ERROR)
    PROVE  Kept(pmu[d], pmu'[d], xctr[d])
<1> DEFINE p == pmu[d]
           q == pmu'[d]
           x == xctr[d]
           s == sys_counters[d]
<1>0. /\ pmu \in [Cpu -> CpuPmu] /\ p \in CpuPmu /\ x \in Ctr /\ x \in p.enabled /\ stage \in Stages
      /\ Good(Ctr, Fix, p, s, x, stage, loaded, leaked)
  <2>1. p \in CpuPmu /\ x \in Ctr \cup {-1} /\ Good(Ctr, Fix, p, s, x, stage, loaded, leaked)
    BY CtrInvOf
  <2> QED
    BY <2>1 DEF CtrInv, Good
<1>1. CASE pmu' = pmu
  BY <1>1, KeptSame
<1>2. CASE configure_counters
  <2>1. q = enable_pmu_counters(p) /\ ~ERROR
    BY <1>2 DEF configure_counters
  <2>2. q.pmc[x] = p.pmc[x]
    <3>1. CASE Fix # {}
      <4> HIDE DEF p, q, x
      <4>1. SameGeneral(p, q)
        BY <1>0, <2>1, <3>1, ConfigureFixed
      <4> QED
        BY <4>1 DEF SameGeneral
    <3>2. CASE Fix = {}
      <4>1. ~(FreeCounter(Second(p)) < 0)
        BY <2>1, <3>2 DEF ERROR
      <4> HIDE DEF p, q, x
      <4>2. \A k \in p.enabled : q.pmc[k] = p.pmc[k]
        BY <1>0, <2>1, <3>2, <4>1, ConfigureGeneral
      <4> QED
        BY <1>0, <4>2
    <3> QED
      BY <3>1, <3>2
  <2> QED
    BY <2>2, KeptSame
<1>3. CASE exit_counters
  <2>1. q = disable_pmu_counters(p, s) /\ stage = "exit"
    BY <1>3 DEF exit_counters
  <2>2. Fix = {} => Mine(p, s, x)
    BY <1>0, <2>1 DEF Good, Using
  <2>3. q.pmc[x] = p.pmc[x]
    <3> HIDE DEF p, q, x, s
    <3>1. Fix = {} => Taken(p, s)
      BY <2>2 DEF Mine
    <3>2. (Fix # {} => SameGeneral(p, q)) /\ (Fix = {} => GivenBack(p, q, s))
      BY <1>0, <2>1, <3>1, Deconfigure
    <3>3. CASE Fix # {}
      BY <3>2, <3>3 DEF SameGeneral
    <3>4. CASE Fix = {}
      <4>1. x \in q.enabled
        BY <1>0, <2>2, <3>2, <3>4 DEF Mine, GivenBack
      <4> QED
        BY <3>2, <3>4, <4>1 DEF GivenBack
    <3> QED
      BY <3>3, <3>4
  <2> QED
    BY <2>3, KeptSame
<1>4. CASE PmuModule
  BY <1>4 DEF PmuModule
<1>5. ASSUME stage \in Using, NEW c \in Cpu, pmu' = [pmu EXCEPT ![c] = clear_counters(@, sys_counters[c])]
      PROVE  Kept(p, q, x)
  BY <1>5, KeptCharge
<1>6. ASSUME NEW c \in Cpu, Execute(c)
      PROVE  Kept(p, q, x)
  <2>1. pmu' = [pmu EXCEPT ![c] = Count(pmu[c])]
    BY <1>6 DEF Execute
  <2>2. CASE c # d
    BY <1>0, <2>1, <2>2, KeptSame
  <2>3. CASE c = d
    <3>1. q = Count(p)
      BY <1>0, <2>1, <2>3
    <3> HIDE DEF p, q, x
    <3>2. q.pmc[x] = IF p.sel[x].enabled THEN (p.pmc[x] + 1) % W ELSE p.pmc[x]
      BY <1>0, <3>1, CountUnit
    <3> QED
      BY <3>2 DEF Kept
  <2> QED
    BY <2>2, <2>3
<1>7. ASSUME NEW c \in Cpu, Other(c)
      PROVE  Kept(p, q, x)
  <2>1. CASE c # d
    <3>1. \E r : pmu' = [pmu EXCEPT ![c] = r]
      BY <1>7 DEF Other, OtherSets
    <3> QED
      BY <1>0, <2>1, <3>1, KeptSame
  <2>2. CASE c = d
    <3>0. xctr \in [Cpu -> Ctr \cup {-1}]
      BY DEF CtrInv
    <3>1. \/ OtherSets(d, pmu_enable_interrupt(p, x)) \/ OtherSets(d, pmu_disable_interrupt(p, x))
          \/ OtherSets(d, pmu_clear_ovf_status(p, x))
      BY <1>7, <2>2, <3>0 DEF Other
    <3>2. \/ q = pmu_enable_interrupt(p, x) \/ q = pmu_disable_interrupt(p, x)
          \/ q = pmu_clear_ovf_status(p, x)
      BY <1>0, <3>1 DEF OtherSets
    <3> HIDE DEF p, q, x
    <3>3. q.pmc = p.pmc
      <4>1. CASE q = pmu_enable_interrupt(p, x) \/ q = pmu_disable_interrupt(p, x)
        BY <1>0, <4>1, EnableInterrupt
      <4>2. CASE q = pmu_clear_ovf_status(p, x)
        <5>1. SameGeneral(p, q)
          BY <1>0, <4>2, ClearOverflow
        <5> QED
          BY <5>1 DEF SameGeneral
      <4> QED
        BY <3>2, <4>1, <4>2
    <3> QED
      BY <3>3, KeptSame
  <2> QED
    BY <2>1, <2>2
<1>8. ASSUME NEW c \in Cpu, OtherFixed(c)
      PROVE  Kept(p, q, x)
  <2>1. PICK r \in CpuPmu : OtherSets(c, r) /\ SameGeneral(pmu[c], r)
    BY <1>8, FixedByOther
  <2>2. pmu' = [pmu EXCEPT ![c] = r]
    BY <2>1 DEF OtherSets
  <2>3. q.pmc[x] = p.pmc[x]
    BY <1>0, <2>1, <2>2 DEF SameGeneral
  <2> QED
    BY <2>3, KeptSame
<1>9. CASE UNCHANGED vars
  BY <1>1, <1>9 DEF vars
<1>10. OtherCpu \subseteq Cpu
  BY AccountingAssumption
<1>11. CASE init_tsc_intf \/ register_probe \/ register_fails \/ unwind_probe \/ remove_probe
  BY <1>1, <1>11 DEF init_tsc_intf, register_probe, register_fails, unwind_probe, remove_probe
<1>12. ASSUME stage \notin {"out", "tsc"}, NEW c \in Cpu,
              \/ inst_schedule(c)
              \/ \E t \in Task : inst___switch_to(c, t) \/ inst_sched_fork(c, t)
       PROVE  Kept(p, q, x)
  <2>1. stage \in Using
    BY <1>0, <1>12 DEF Stages
  <2>2. pmu' = pmu \/ pmu' = [pmu EXCEPT ![c] = clear_counters(@, sys_counters[c])]
    BY <1>12 DEF inst_schedule, inst___switch_to, inst_sched_fork, Charge
  <2> QED
    BY <1>1, <1>5, <2>1, <2>2
<1> QED
  BY <1>2, <1>3, <1>4, <1>6, <1>7, <1>8, <1>9, <1>10, <1>11, <1>12 DEF Next

(* Nobody but its owner sets back the count of the other module's counter, *)
(* whatever the scheduler loads, unloads, reads and clears on that cpu, as *)
(* long as it gets its counters (hwcounters.c clear_counters and           *)
(* disable_pmu_counters).                                                  *)
THEOREM OthersKeepCounting == Spec => OthersUndisturbed
<1>1. CtrInv /\ [Next]_vars =>
        [\A c \in Cpu : xctr[c] # -1 /\ xctr'[c] = xctr[c] /\ ~(stage = "tsc" /\ ERROR) =>
           pmu'[c].pmc[xctr[c]] \in {pmu[c].pmc[xctr[c]], (pmu[c].pmc[xctr[c]] + 1) % W}]_vars
  BY KeptNext DEF Kept
<1> QED
  BY <1>1, CtrInvHolds, PTL DEF Spec, OthersUndisturbed

-----------------------------------------------------------------------------
(* The probes that are registered, in every stage.                         *)
In1 == {"tick"}
In2 == In1 \cup {"fork"}
In3 == In2 \cup {"switch"}
In4 == In3 \cup {"schedule"}
Out1 == {"release"}
Out2 == Out1 \cup {"switch"}
Out3 == Out2 \cup {"schedule"}
Out4 == Out3 \cup {"fork"}
ProbeInv ==
    /\ stage \in Stages
    /\ stage \in {"out", "tsc"} => probes = {}
    /\ stage \in {"insert", "undo"} => probes \in {{}, In1, In2, In3, In4}
    /\ stage = "live" => probes = Probe
    /\ stage = "exit" => probes \in {Out4, Out3, Out2, Out1, {}}

(* One element more.                                                       *)
LEMMA AddOne ==
    ASSUME NEW S, IsFiniteSet(S), NEW n \in Nat, Cardinality(S) = n, NEW x, x \notin S
    PROVE  IsFiniteSet(S \cup {x}) /\ Cardinality(S \cup {x}) = n + 1
  BY FS_AddElement

(* insert_probes and remove_probes find the next probe by how many are     *)
(* registered.                                                             *)
LEMMA ProbeSizes ==
    /\ Cardinality({}) = 0 /\ Cardinality(In1) = 1 /\ Cardinality(In2) = 2
    /\ Cardinality(In3) = 3 /\ Cardinality(In4) = 4 /\ Cardinality(Out1) = 1
    /\ Cardinality(Out2) = 2 /\ Cardinality(Out3) = 3 /\ Cardinality(Out4) = 4
    /\ Cardinality(Probe) = 5
<1>1. IsFiniteSet({}) /\ Cardinality({}) = 0
  BY FS_EmptySet
<1>2. IsFiniteSet(In1) /\ Cardinality(In1) = 1 /\ IsFiniteSet(Out1) /\ Cardinality(Out1) = 1
  BY FS_Singleton DEF In1, Out1
<1>3. /\ "fork" \notin In1 /\ "switch" \notin In2 /\ "schedule" \notin In3 /\ "release" \notin In4
      /\ "switch" \notin Out1 /\ "schedule" \notin Out2 /\ "fork" \notin Out3
      /\ Probe = In4 \cup {"release"}
  BY DEF In1, In2, In3, In4, Out1, Out2, Out3, Probe
<1>4. IsFiniteSet(In2) /\ Cardinality(In2) = 1 + 1
  BY <1>2, <1>3, AddOne DEF In2
<1>5. IsFiniteSet(In3) /\ Cardinality(In3) = 2 + 1
  BY <1>3, <1>4, AddOne DEF In3
<1>6. IsFiniteSet(In4) /\ Cardinality(In4) = 3 + 1
  BY <1>3, <1>5, AddOne DEF In4
<1>7. Cardinality(Probe) = 4 + 1
  BY <1>3, <1>6, AddOne
<1>8. IsFiniteSet(Out2) /\ Cardinality(Out2) = 1 + 1
  BY <1>2, <1>3, AddOne DEF Out2
<1>9. IsFiniteSet(Out3) /\ Cardinality(Out3) = 2 + 1
  BY <1>3, <1>8, AddOne DEF Out3
<1>10. IsFiniteSet(Out4) /\ Cardinality(Out4) = 3 + 1
  BY <1>3, <1>9, AddOne DEF Out4
<1> QED
  BY <1>1, <1>2, <1>4, <1>5, <1>6, <1>7, <1>8, <1>9, <1>10

(* insert_probes and its way back, and remove_probes.                      *)
LEMMA ProbeRegister ==
    ASSUME ProbeInv, register_probe
    PROVE  /\ ProbeInv'
           /\ \E p \in Probe : /\ p \notin probes /\ probes' = probes \cup {p}
                               /\ exec' = IF p = "switch" THEN tk ELSE exec
<1> DEFINE p == InsertOrder[Cardinality(probes) + 1]
<1>1. /\ stage = "insert" /\ probes \in {{}, In1, In2, In3, In4} /\ probes' = probes \cup {p}
      /\ stage' = (IF probes' = Probe THEN "live" ELSE "insert")
      /\ exec' = IF p = "switch" THEN tk ELSE exec
  BY DEF register_probe, ProbeInv
<1>2. CASE probes = {}
  <2>1. p = "tick"
    BY <1>2, ProbeSizes DEF InsertOrder
  <2>2. probes' = In1 /\ In1 # Probe
    BY <1>1, <1>2, <2>1 DEF In1, Probe
  <2> QED
    BY <1>1, <1>2, <2>1, <2>2 DEF ProbeInv, Stages, Using, Probe
<1>3. CASE probes = In1
  <2>1. p = "fork"
    BY <1>3, ProbeSizes DEF InsertOrder
  <2>2. probes' = In2 /\ In2 # Probe /\ "fork" \notin In1
    BY <1>1, <1>3, <2>1 DEF In1, In2, Probe
  <2> QED
    BY <1>1, <1>3, <2>1, <2>2 DEF ProbeInv, Stages, Using, Probe
<1>4. CASE probes = In2
  <2>1. p = "switch"
    BY <1>4, ProbeSizes DEF InsertOrder
  <2>2. probes' = In3 /\ In3 # Probe /\ "switch" \notin In2
    BY <1>1, <1>4, <2>1 DEF In1, In2, In3, Probe
  <2> QED
    BY <1>1, <1>4, <2>1, <2>2 DEF ProbeInv, Stages, Using, Probe
<1>5. CASE probes = In3
  <2>1. p = "schedule"
    BY <1>5, ProbeSizes DEF InsertOrder
  <2>2. probes' = In4 /\ In4 # Probe /\ "schedule" \notin In3
    BY <1>1, <1>5, <2>1 DEF In1, In2, In3, In4, Probe
  <2> QED
    BY <1>1, <1>5, <2>1, <2>2 DEF ProbeInv, Stages, Using, Probe
<1>6. CASE probes = In4
  <2>1. p = "release"
    BY <1>6, ProbeSizes DEF InsertOrder
  <2>2. probes' = Probe /\ "release" \notin In4
    BY <1>1, <1>6, <2>1 DEF In1, In2, In3, In4, Probe
  <2> QED
    BY <1>1, <1>6, <2>1, <2>2 DEF ProbeInv, Stages, Using, Probe
<1> QED
  BY <1>1, <1>2, <1>3, <1>4, <1>5, <1>6

(* The way back of a failed insert_probes.                                 *)
LEMMA ProbeUnwind ==
    ASSUME ProbeInv, unwind_probe
    PROVE  ProbeInv' /\ probes' \subseteq probes
<1> DEFINE p == InsertOrder[Cardinality(probes)]
<1>1. /\ stage = "undo" /\ probes \in {{}, In1, In2, In3, In4}
      /\ probes' = IF probes = {} THEN {} ELSE probes \ {p}
      /\ probes' # {} => stage' = stage
      /\ stage' = "undo" \/ (stage' = "out" /\ probes' = {})
  BY DEF unwind_probe, ProbeInv
<1>2. CASE probes = {}
  BY <1>1, <1>2 DEF ProbeInv, Stages, Using
<1>3. CASE probes = In1
  <2>1. p = "tick"
    BY <1>3, ProbeSizes DEF InsertOrder
  <2>2. probes' = {}
    BY <1>1, <1>3, <2>1 DEF In1
  <2> QED
    BY <1>1, <2>2 DEF ProbeInv, Stages, Using
<1>4. CASE probes = In2
  <2>1. p = "fork"
    BY <1>4, ProbeSizes DEF InsertOrder
  <2>2. probes' = In1 /\ In1 \subseteq In2
    BY <1>1, <1>4, <2>1 DEF In1, In2
  <2> QED
    BY <1>1, <1>4, <2>2 DEF ProbeInv, Stages, Using, In1
<1>5. CASE probes = In3
  <2>1. p = "switch"
    BY <1>5, ProbeSizes DEF InsertOrder
  <2>2. probes' = In2 /\ In2 \subseteq In3 /\ In2 # {}
    BY <1>1, <1>5, <2>1 DEF In1, In2, In3
  <2> QED
    BY <1>1, <1>5, <2>2 DEF ProbeInv, Stages, Using
<1>6. CASE probes = In4
  <2>1. p = "schedule"
    BY <1>6, ProbeSizes DEF InsertOrder
  <2>2. probes' = In3 /\ In3 \subseteq In4 /\ In3 # {}
    BY <1>1, <1>6, <2>1 DEF In1, In2, In3, In4
  <2> QED
    BY <1>1, <1>6, <2>2 DEF ProbeInv, Stages, Using
<1> QED
  BY <1>1, <1>2, <1>3, <1>4, <1>5, <1>6

(* remove_probes, in its own order.                                        *)
LEMMA ProbeRemove ==
    ASSUME ProbeInv, remove_probe
    PROVE  ProbeInv' /\ probes' \subseteq probes
<1> DEFINE p == RemoveOrder[6 - Cardinality(probes)]
<1>1. /\ probes \in {Probe, Out4, Out3, Out2, Out1}
      /\ probes' = probes \ {p} /\ stage' = "exit"
  BY DEF remove_probe, ProbeInv
<1>2. CASE probes = Probe
  <2>1. p = "tick"
    BY <1>2, ProbeSizes DEF RemoveOrder
  <2>2. probes' = Out4
    BY <1>1, <1>2, <2>1 DEF Probe, Out1, Out2, Out3, Out4
  <2> QED
    BY <1>1, <2>2 DEF ProbeInv, Stages, Using
<1>3. CASE probes = Out4
  <2>1. p = "fork"
    BY <1>3, ProbeSizes DEF RemoveOrder
  <2>2. probes' = Out3
    BY <1>1, <1>3, <2>1 DEF Out1, Out2, Out3, Out4
  <2> QED
    BY <1>1, <2>2 DEF ProbeInv, Stages, Using
<1>4. CASE probes = Out3
  <2>1. p = "schedule"
    BY <1>4, ProbeSizes DEF RemoveOrder
  <2>2. probes' = Out2
    BY <1>1, <1>4, <2>1 DEF Out1, Out2, Out3
  <2> QED
    BY <1>1, <2>2 DEF ProbeInv, Stages, Using
<1>5. CASE probes = Out2
  <2>1. p = "switch"
    BY <1>5, ProbeSizes DEF RemoveOrder
  <2>2. probes' = Out1
    BY <1>1, <1>5, <2>1 DEF Out1, Out2
  <2> QED
    BY <1>1, <2>2 DEF ProbeInv, Stages, Using
<1>6. CASE probes = Out1
  <2>1. p = "release"
    BY <1>6, ProbeSizes DEF RemoveOrder
  <2>2. probes' = {}
    BY <1>1, <1>6, <2>1 DEF Out1
  <2> QED
    BY <1>1, <2>2 DEF ProbeInv, Stages, Using
<1> QED
  BY <1>1, <1>2, <1>3, <1>4, <1>5, <1>6

(* While the probe on the switch is registered the counters are in use,    *)
(* and while the one on the tick or on schedule is, so is that one, unless *)
(* probes are still being inserted or a load is unwound.                   *)
LEMMA ProbeFacts ==
    ASSUME ProbeInv
    PROVE  /\ "switch" \in probes => stage \in Using
           /\ probes \cap {"tick", "schedule"} # {} =>
                "switch" \in probes \/ stage = "undo" \/ stage = "insert"
<1>1. "switch" \in Probe /\ {"tick", "schedule"} \cap (Out2 \cup Out1) = {}
      /\ "switch" \in Out4 /\ "switch" \in Out3
  BY DEF Probe, Out1, Out2, Out3, Out4
<1>2. "switch" \in probes => stage \in Using
  BY DEF ProbeInv, Stages
<1>3. ASSUME probes \cap {"tick", "schedule"} # {}, "switch" \notin probes
      PROVE  stage = "undo" \/ stage = "insert"
  BY <1>1, <1>3 DEF ProbeInv, Stages, Using
<1> QED
  BY <1>2, <1>3

-----------------------------------------------------------------------------
(* What the probes read: the two counts of the scheduler's counters.       *)
One(F, p, s) == IF F # {} THEN p.fpmc[0] ELSE p.pmc[s[1]]
Two(F, p, s) == IF F # {} THEN p.fpmc[1] ELSE p.pmc[s[2]]
Inst(c) == Pending(c)[1]
Recy(c) == Pending(c)[2]
Reading(c) ==
    /\ Inst(c) = One(Fix, pmu[c], sys_counters[c]) /\ Inst(c) \in Counts
    /\ Recy(c) = Two(Fix, pmu[c], sys_counters[c]) /\ Recy(c) \in Counts

(* While the counters are in use, read_counters returns their counts.      *)
LEMMA Reads == CtrInv /\ stage \in Using => \A c \in Cpu : Reading(c)
<1> SUFFICES ASSUME CtrInv, stage \in Using, NEW c \in Cpu
             PROVE  Reading(c)
  OBVIOUS
<1> DEFINE p == pmu[c]
           s == sys_counters[c]
<1>1. p \in CpuPmu /\ Good(Ctr, Fix, p, s, xctr[c], stage, loaded, leaked)
  BY CtrInvOf
<1>2. Pending(c) = read_counters(p, s)
  BY DEF Pending
<1> HIDE DEF p, s
<1>3. CASE Fix # {}
  <2>1. 0 \in Fix /\ 1 \in Fix
    BY <1>3, Sizes
  <2>2. p.fcleared[0] = 0 /\ p.fcleared[1] = 0 /\ p.fpmc[0] \in Counts /\ p.fpmc[1] \in Counts
    BY <1>1, <2>1 DEF Good, CpuPmu, Using
  <2>3. \A n \in Counts : n - 0 = n
    BY DEF Counts
  <2>4. Inst(c) = p.fpmc[0] - p.fcleared[0] /\ Recy(c) = p.fpmc[1] - p.fcleared[1]
    BY <1>2, <1>3 DEF Inst, Recy, read_counters, get_fcounter_data, fcounter_read
  <2>5. Inst(c) = p.fpmc[0] /\ Recy(c) = p.fpmc[1]
    BY <2>2, <2>3, <2>4
  <2> QED
    BY <1>3, <2>2, <2>5 DEF Reading, One, Two, p, s
<1>4. CASE Fix = {}
  <2>1. s[1] \in p.enabled /\ s[2] \in p.enabled /\ p.enabled \subseteq Ctr /\ p.pmc \in [Ctr -> Counts]
    BY <1>1, <1>4 DEF Good, Mine, Taken, CpuPmu
  <2>2. Inst(c) = p.pmc[s[1]] /\ Recy(c) = p.pmc[s[2]]
    BY <1>2, <1>4, <2>1 DEF Inst, Recy, read_counters, get_counter_data, counter_read
  <2> QED
    BY <1>4, <2>1, <2>2 DEF Reading, One, Two, p, s
<1> QED
  BY <1>3, <1>4

(* The same in the next state.                                             *)
LEMMA ReadsNext == CtrInv' /\ stage' \in Using => \A c \in Cpu : Reading(c)'
<1>1. (CtrInv /\ stage \in Using => \A c \in Cpu : Reading(c))'
  BY Reads, PTL
<1> QED
  BY <1>1

(* Clearing the counters sets the readings to 0.                           *)
LEMMA ReadCleared ==
    ASSUME NEW p \in CpuPmu, NEW s, NEW x, stage \in Using,
           Good(Ctr, Fix, p, s, x, stage, loaded, leaked), NEW q, q = clear_counters(p, s)
    PROVE  One(Fix, q, s) = 0 /\ Two(Fix, q, s) = 0
<1>1. (Fix # {} => FixedCleared(p, q)) /\ (Fix = {} => GeneralCleared(p, q, s))
  BY ClearCounters
<1>2. CASE Fix # {}
  <2>1. 0 \in Fix /\ 1 \in Fix
    BY <1>2, Sizes
  <2>2. p.fcleared[0] = 0 /\ p.fcleared[1] = 0
    BY <2>1 DEF Good, Using
  <2> QED
    BY <1>1, <1>2, <2>2 DEF FixedCleared, One, Two
<1>3. CASE Fix = {}
  <2>1. s[1] \in Ctr /\ s[2] \in Ctr
    BY <1>3 DEF Good, Mine, Taken, CpuPmu
  <2> QED
    BY <1>1, <1>3, <2>1 DEF GeneralCleared, One, Two
<1> QED
  BY <1>2, <1>3

(* A count that is not full goes up by one.                                *)
LEMMA NoWrapUp ==
    ASSUME NEW n \in Counts, n < W - 1
    PROVE  (n + 1) % W = n + 1
  BY Sizes DEF Counts

(* A unit of work adds one to both readings.                               *)
LEMMA ReadCount ==
    ASSUME NEW p \in CpuPmu, NEW s, NEW x, stage \in Using, loaded,
           Good(Ctr, Fix, p, s, x, stage, loaded, leaked), NEW q, q = Count(p),
           One(Fix, p, s) < W - 1, Two(Fix, p, s) < W - 1
    PROVE  One(Fix, q, s) = One(Fix, p, s) + 1 /\ Two(Fix, q, s) = Two(Fix, p, s) + 1
<1>1. /\ \A i \in Ctr : q.pmc[i] = IF p.sel[i].enabled THEN (p.pmc[i] + 1) % W ELSE p.pmc[i]
      /\ \A j \in Fix : q.fpmc[j] = IF j \in p.fctl.usr THEN (p.fpmc[j] + 1) % W ELSE p.fpmc[j]
  BY CountUnit
<1>2. p.pmc \in [Ctr -> Counts] /\ p.fpmc \in [Fix -> Counts] /\ p.enabled \subseteq Ctr
  BY DEF CpuPmu
<1>3. CASE Fix # {}
  <2>1. 0 \in Fix /\ 1 \in Fix
    BY <1>3, Sizes
  <2>2. p.fctl.usr = Fix
    BY DEF Good
  <2>3. q.fpmc[0] = (p.fpmc[0] + 1) % W /\ q.fpmc[1] = (p.fpmc[1] + 1) % W
    BY <1>1, <2>1, <2>2
  <2>4. p.fpmc[0] \in Counts /\ p.fpmc[1] \in Counts /\ p.fpmc[0] < W - 1 /\ p.fpmc[1] < W - 1
    BY <1>2, <1>3, <2>1 DEF One, Two
  <2>5. q.fpmc[0] = p.fpmc[0] + 1 /\ q.fpmc[1] = p.fpmc[1] + 1
    BY <2>3, <2>4, NoWrapUp
  <2> QED
    BY <1>3, <2>5 DEF One, Two
<1>4. CASE Fix = {}
  <2> DEFINE i == s[1]
             j == s[2]
  <2>1. i \in p.enabled /\ j \in p.enabled
    BY <1>4 DEF Good, Mine, Taken
  <2>2. p.enabled = {k \in Ctr : p.sel[k].enabled}
    BY DEF Good, SoundOn
  <2>3. p.pmc[i] < W - 1 /\ p.pmc[j] < W - 1
    BY <1>4 DEF One, Two
  <2> HIDE DEF i, j
  <2>4. q.pmc[i] = (p.pmc[i] + 1) % W /\ q.pmc[j] = (p.pmc[j] + 1) % W
    BY <1>1, <2>1, <2>2
  <2>5. p.pmc[i] \in Counts /\ p.pmc[j] \in Counts
    BY <1>2, <2>1
  <2>6. q.pmc[i] = p.pmc[i] + 1 /\ q.pmc[j] = p.pmc[j] + 1
    BY <2>3, <2>4, <2>5, NoWrapUp
  <2> QED
    BY <1>4, <2>6 DEF One, Two, i, j
<1> QED
  BY <1>3, <1>4

(* The readings of the next state, while the scheduler keeps its counters. *)
LEMMA NextReading ==
    ASSUME CtrInv', stage' \in Using, arch' = arch, sys_counters' = sys_counters, NEW d \in Cpu
    PROVE  /\ Inst(d)' = One(Fix, pmu'[d], sys_counters[d])
           /\ Recy(d)' = Two(Fix, pmu'[d], sys_counters[d])
<1>1. Reading(d)'
  BY ReadsNext
<1>2. Fix' = Fix
  BY SameArch
<1> QED
  BY <1>1, <1>2 DEF Reading

(* A step that leaves the counters of a cpu alone leaves its readings.     *)
LEMMA SameReading ==
    ASSUME CtrInv, CtrInv', stage \in Using, stage' \in Using, arch' = arch,
           sys_counters' = sys_counters, NEW d \in Cpu, pmu'[d] = pmu[d]
    PROVE  Inst(d)' = Inst(d) /\ Recy(d)' = Recy(d)
<1>1. Reading(d)
  BY Reads
<1> QED
  BY <1>1, NextReading DEF Reading

(* A probe that charges cpu c starts its readings over, and no others.     *)
LEMMA ChargeReading ==
    ASSUME CtrInv, CtrInv', stage \in Using, stage' = stage, arch' = arch,
           sys_counters' = sys_counters, NEW c \in Cpu,
           pmu' = [pmu EXCEPT ![c] = clear_counters(@, sys_counters[c])]
    PROVE  /\ Inst(c)' = 0 /\ Recy(c)' = 0
           /\ \A d \in Cpu : d # c => Inst(d)' = Inst(d) /\ Recy(d)' = Recy(d)
<1> DEFINE p == pmu[c]
           s == sys_counters[c]
           q == clear_counters(p, s)
<1>1. /\ p \in CpuPmu /\ Good(Ctr, Fix, p, s, xctr[c], stage, loaded, leaked)
      /\ pmu \in [Cpu -> CpuPmu]
  BY CtrInvOf DEF CtrInv
<1>2. pmu'[c] = q
  BY <1>1
<1>3. One(Fix, q, s) = 0 /\ Two(Fix, q, s) = 0
  <2> HIDE DEF p, s
  <2> QED
    BY <1>1, ReadCleared
<1>4. Inst(c)' = One(Fix, pmu'[c], s) /\ Recy(c)' = Two(Fix, pmu'[c], s)
  BY NextReading
<1>5. Inst(c)' = 0 /\ Recy(c)' = 0
  BY <1>2, <1>3, <1>4
<1>6. ASSUME NEW d \in Cpu, d # c
      PROVE  Inst(d)' = Inst(d) /\ Recy(d)' = Recy(d)
  <2>1. pmu'[d] = pmu[d]
    BY <1>1, <1>6
  <2> QED
    BY <2>1, SameReading
<1> QED
  BY <1>5, <1>6

(* A unit of work on cpu c that wraps no counter.                          *)
LEMMA ExecuteReading ==
    ASSUME CtrInv, CtrInv', stage \in Using, NEW c \in Cpu, Execute(c)
    PROVE  /\ Inst(c) < W - 1 /\ Recy(c) < W - 1 =>
                Inst(c)' = Inst(c) + 1 /\ Recy(c)' = Recy(c) + 1
           /\ \A d \in Cpu : d # c => Inst(d)' = Inst(d) /\ Recy(d)' = Recy(d)
<1> DEFINE p == pmu[c]
           s == sys_counters[c]
           q == Count(p)
<1>1. /\ p \in CpuPmu /\ Good(Ctr, Fix, p, s, xctr[c], stage, loaded, leaked)
      /\ pmu \in [Cpu -> CpuPmu] /\ loaded
  BY CtrInvOf DEF CtrInv, Using
<1>2. /\ pmu' = [pmu EXCEPT ![c] = q] /\ arch' = arch /\ stage' = stage
      /\ sys_counters' = sys_counters
  BY DEF Execute, sched
<1>3. pmu'[c] = q /\ \A d \in Cpu : d # c => pmu'[d] = pmu[d]
  BY <1>1, <1>2
<1>4. ASSUME Inst(c) < W - 1, Recy(c) < W - 1
      PROVE  Inst(c)' = Inst(c) + 1 /\ Recy(c)' = Recy(c) + 1
  <2>1. Inst(c) = One(Fix, p, s) /\ Recy(c) = Two(Fix, p, s)
    BY Reads DEF Reading
  <2>2. One(Fix, q, s) = One(Fix, p, s) + 1 /\ Two(Fix, q, s) = Two(Fix, p, s) + 1
    <3> HIDE DEF p, s
    <3> QED
      BY <1>1, <1>4, <2>1, ReadCount
  <2>3. Inst(c)' = One(Fix, pmu'[c], s) /\ Recy(c)' = Two(Fix, pmu'[c], s)
    BY <1>2, NextReading
  <2> QED
    BY <1>3, <2>1, <2>2, <2>3
<1> QED
  BY <1>2, <1>3, <1>4, SameReading

(* What the other module does to a counter of its own.                     *)
LEMMA OtherReading ==
    ASSUME CtrInv, CtrInv', stage = "live", Fix = {}, NEW c \in Cpu, Other(c), NEW d \in Cpu
    PROVE  Inst(d)' = Inst(d) /\ Recy(d)' = Recy(d)
<1> DEFINE p == pmu[c]
           s == sys_counters[c]
           x == xctr[c]
           q == pmu'[c]
<1>0. stage \in Using
  BY DEF Using
<1>1. /\ p \in CpuPmu /\ Good(Ctr, Fix, p, s, x, stage, loaded, leaked) /\ x \in Ctr \cup {-1}
      /\ pmu \in [Cpu -> CpuPmu]
  BY CtrInvOf DEF CtrInv
<1>2. /\ \E r : pmu' = [pmu EXCEPT ![c] = r]
      /\ arch' = arch /\ stage' = stage /\ sys_counters' = sys_counters
  BY DEF Other, OtherSets, sched
<1>3. CASE d # c
  <2>1. pmu'[d] = pmu[d]
    BY <1>1, <1>2, <1>3
  <2> QED
    BY <1>0, <1>2, <2>1, SameReading
<1>4. CASE d = c
  <2>1. /\ s[1] \in p.enabled /\ s[2] \in p.enabled /\ s[1] # x /\ s[2] # x
        /\ p.enabled \subseteq Ctr /\ p.pmc \in [Ctr -> Counts]
    BY <1>0, <1>1 DEF Good, Mine, Taken, CpuPmu
  <2>2. \/ q = counter_enable(p)
        \/ x \in Ctr /\ q = counter_disable(p, x)
        \/ x \in Ctr /\ q = pmu_enable_interrupt(p, x)
        \/ x \in Ctr /\ q = pmu_disable_interrupt(p, x)
        \/ q = pmu_clear_ovf_status(p, x)
    BY <1>1 DEF Other, OtherSets
  <2> HIDE DEF p, s, x, q
  <2>3. \A k \in p.enabled : k # x => q.pmc[k] = p.pmc[k]
    <3>1. CASE q = counter_enable(p)
      <4> DEFINE y == FreeCounter(p)
      <4>1. /\ y \notin Ctr => q = p
            /\ y \in Ctr => y \notin p.enabled /\ Restarted(p, q, y)
        BY <1>1, <3>1, Enable
      <4> HIDE DEF y
      <4> QED
        BY <2>1, <4>1 DEF Restarted
    <3>2. CASE x \in Ctr /\ q = counter_disable(p, x)
      <4>1. x \notin p.enabled => q = p
        BY <3>2 DEF counter_disable
      <4>2. x \in p.enabled => Restarted(p, q, x)
        BY <1>1, <3>2, Disable
      <4> QED
        BY <2>1, <4>1, <4>2 DEF Restarted
    <3>3. CASE x \in Ctr /\ (q = pmu_enable_interrupt(p, x) \/ q = pmu_disable_interrupt(p, x))
      <4>1. q.pmc = p.pmc
        BY <1>1, <3>3, EnableInterrupt
      <4> QED
        BY <4>1
    <3>4. CASE q = pmu_clear_ovf_status(p, x)
      <4>1. q.pmc = p.pmc
        BY <1>1, <3>4, ClearOverflow DEF SameGeneral
      <4> QED
        BY <4>1
    <3> QED
      BY <2>2, <3>1, <3>2, <3>3, <3>4
  <2>4. q.pmc[s[1]] = p.pmc[s[1]] /\ q.pmc[s[2]] = p.pmc[s[2]]
    BY <2>1, <2>3
  <2>5. Inst(c)' = One(Fix, q, s) /\ Recy(c)' = Two(Fix, q, s)
    BY <1>0, <1>2, NextReading DEF q, s
  <2>6. Inst(c) = One(Fix, p, s) /\ Recy(c) = Two(Fix, p, s)
    BY <1>0, Reads DEF Reading, p, s
  <2> QED
    BY <1>4, <2>4, <2>5, <2>6 DEF One, Two
<1> QED
  BY <1>3, <1>4

-----------------------------------------------------------------------------
(* What the members of a task owe it: m and the counts i, r and f that are *)
(* still in the counters of its cpu make up what it executed, e.           *)
Members == [inst : Int, re_cy : Int, ref_cy : Int, born : BOOLEAN, managed : BOOLEAN]
Settled(m, e, i, r, f) ==
    /\ m.inst + i = e.inst /\ m.re_cy + r = e.re_cy
    /\ m.ref_cy + f <= e.ref_cy

(* Nobody's counters hold anything of task t.                              *)
Idle(t) == \A c \in Cpu : cur[c] = t => ts[c] = NULL

TaskType ==
    /\ tk \in [Task -> Members] /\ exec \in [Task -> Members] /\ cur \in [Cpu -> Task]
    /\ tsc \in [Cpu -> Nat] /\ tsc_val \in [Cpu -> Nat] /\ ts \in [Cpu -> Task \cup {NULL}]
    /\ \A c \in Cpu : tsc_val[c] <= tsc[c]
(* A task runs on one cpu at a time, and only once it is forked.           *)
TaskCur ==
    /\ \A c \in Cpu : tk[cur[c]].born
    /\ \A c, d \in Cpu : c # d => cur[c] # cur[d]
(* The probes know the task that runs, or none.                            *)
TaskSeen ==
    /\ stage \in {"out", "tsc"} \/ (stage = "insert" /\ "switch" \notin probes) =>
         \A c \in Cpu : ts[c] = NULL
    /\ "switch" \in probes => \A c \in Cpu : ts[c] = NULL \/ ts[c] = cur[c]
Rest == \A t \in Task : Idle(t) => Settled(tk[t], exec[t], 0, 0, 0)
Due(c) == Settled(tk[cur[c]], exec[cur[c]], Inst(c), Recy(c), get_tsc_cycles(c))
TaskDue == "switch" \in probes => Rest /\ \A c \in Cpu : ts[c] # NULL => Due(c)
TaskInv == TaskType /\ TaskCur /\ TaskSeen /\ TaskDue

WithCounts(m, a, b, d) == [m EXCEPT !.inst = a, !.re_cy = b, !.ref_cy = d]

(* The counts of a task are set.                                           *)
LEMMA SetMembers ==
    ASSUME NEW m \in Members, NEW a \in Int, NEW b \in Int, NEW d \in Int,
           NEW n, n = WithCounts(m, a, b, d)
    PROVE  n \in Members /\ n.born = m.born /\ n.inst = a /\ n.re_cy = b /\ n.ref_cy = d
<1>1. n.inst = a /\ n.re_cy = b /\ n.ref_cy = d
  BY DEF Members, WithCounts
<1>2. n.born = m.born
  BY DEF Members, WithCounts
<1>3. n \in Members
  BY DEF Members, WithCounts
<1> QED
  BY <1>1, <1>2, <1>3

(* A task that is charged for all it executed, and what becomes of it when *)
(* it runs on or its reference cycles are dropped.                         *)
LEMMA SettledFresh ==
    ASSUME NEW m \in Members
    PROVE  Settled(m, m, 0, 0, 0)
  BY DEF Settled, Members

(* It runs on,                                                             *)
LEMMA SettledRan ==
    ASSUME NEW m \in Members, NEW e \in Members, NEW i \in Int, NEW r \in Int, NEW f \in Int,
           Settled(m, e, i, r, f)
    PROVE  Settled(m, Ran(e), i + 1, r + 1, f + 1)
  BY DEF Settled, Members, Ran

(* and it loses reference cycles.                                          *)
LEMMA SettledLess ==
    ASSUME NEW m \in Members, NEW e \in Members, NEW i \in Int, NEW r \in Int, NEW f \in Int,
           NEW g \in Int, g <= f, Settled(m, e, i, r, f)
    PROVE  Settled(m, e, i, r, g)
  BY DEF Settled, Members

(* Members stay members.                                                   *)
LEMMA RanType ==
    ASSUME NEW e \in Members
    PROVE  Ran(e) \in Members /\ Ran(e).born = e.born
<1> DEFINE a == e.inst + 1
           b == e.re_cy + 1
           d == e.ref_cy + 1
<1>1. a \in Int /\ b \in Int /\ d \in Int
  BY DEF Members
<1>2. Ran(e) = WithCounts(e, a, b, d)
  BY DEF Ran, WithCounts
<1> HIDE DEF a, b, d
<1> QED
  BY <1>1, <1>2, SetMembers

(* A new task, or one that starts over, is forked.                         *)
LEMMA FreshType ==
    ASSUME NEW b \in BOOLEAN
    PROVE  Fresh(TRUE, b) \in Members /\ Fresh(TRUE, b).born
  BY DEF Members, Fresh

(* Charging a task settles it.                                             *)
LEMMA ChargedIs ==
    ASSUME TaskType, NEW c \in Cpu, NEW t \in Task, Inst(c) \in Int, Recy(c) \in Int
    PROVE  /\ Charged(t, c) \in Members /\ Charged(t, c).born = tk[t].born
           /\ \A e : Settled(tk[t], e, Inst(c), Recy(c), get_tsc_cycles(c)) =>
                       Settled(Charged(t, c), e, 0, 0, 0)
<1> DEFINE m == tk[t]
           f == get_tsc_cycles(c)
           i == Inst(c)
           r == Recy(c)
           a == m.inst + i
           b == m.re_cy + r
           d == m.ref_cy + f
           n == Charged(t, c)
<1>1. m \in Members /\ f \in Int /\ i \in Int /\ r \in Int
  BY DEF TaskType, get_tsc_cycles
<1>2. n = WithCounts(m, a, b, d)
  BY DEF WithCounts, Charged, Inst, Recy, Pending
<1> HIDE DEF m, f, i, r
<1>4. a \in Int /\ b \in Int /\ d \in Int
  BY <1>1 DEF Members
<1> HIDE DEF n
<1>3. n \in Members /\ n.born = m.born /\ n.inst = a /\ n.re_cy = b /\ n.ref_cy = d
  <2> HIDE DEF a, b, d
  <2> QED
    BY <1>1, <1>2, <1>4, SetMembers
<1>5. ASSUME NEW e, Settled(m, e, i, r, f)
      PROVE  Settled(n, e, 0, 0, 0)
  BY <1>3, <1>4, <1>5 DEF Settled
<1> QED
  BY <1>3, <1>5 DEF m, i, r, f, n

(* Before the scheduler is loaded nobody owes anything.                    *)
LEMMA TaskInit == Init => TaskInv
<1> SUFFICES ASSUME Init
             PROVE  TaskInv
  OBVIOUS
<1>1. PICK old \in SUBSET Task : tk = [t \in Task |-> Fresh(t \in old, FALSE)]
  BY DEF Init
<1>2. \A t \in Task : Fresh(t \in old, FALSE) \in Members
  BY DEF Fresh, Members
<1>3. tk \in [Task -> Members]
  BY <1>1, <1>2
<1>4. /\ cur \in [Cpu -> Task] /\ \A c, d \in Cpu : tk[cur[c]].born /\ (c # d => cur[c] # cur[d])
  BY DEF Init
<1>5. /\ tsc = [c \in Cpu |-> 0] /\ tsc_val = tsc /\ ts = [c \in Cpu |-> NULL] /\ exec = tk
      /\ probes = {} /\ stage = "out"
  BY DEF Init
<1>6. TaskType
  BY <1>3, <1>4, <1>5 DEF TaskType
<1> QED
  BY <1>4, <1>5, <1>6 DEF TaskInv, TaskCur, TaskSeen, TaskDue

-----------------------------------------------------------------------------
(* Steps without the probe on the switch: nothing is owed yet, or any more. *)
LEMMA TaskQuiet ==
    ASSUME TaskInv, UNCHANGED <<cur, tk, tsc>>, exec' = exec \/ exec' = tk,
           tsc_val' = tsc_val \/ tsc_val' = tsc \/ tsc_val' = [c \in Cpu |-> 0],
           ts' = ts \/ ts' = [c \in Cpu |-> NULL], "switch" \notin probes',
           stage' \in {"out", "tsc", "insert"} => \A c \in Cpu : ts'[c] = NULL
    PROVE  TaskInv'
<1>1. TaskType
  BY DEF TaskInv
<1>2. /\ tsc_val' \in [Cpu -> Nat] /\ \A c \in Cpu : tsc_val'[c] <= tsc[c]
  <2>1. CASE tsc_val' = tsc_val
    BY <1>1, <2>1 DEF TaskType
  <2>2. CASE tsc_val' = tsc
    BY <1>1, <2>2 DEF TaskType
  <2>3. CASE tsc_val' = [c \in Cpu |-> 0]
    BY <1>1, <2>3 DEF TaskType
  <2> QED
    BY <2>1, <2>2, <2>3
<1>3. ts' \in [Cpu -> Task \cup {NULL}]
  BY <1>1 DEF TaskType
<1>4. exec' \in [Task -> Members]
  BY <1>1 DEF TaskType
<1>5. TaskType'
  BY <1>1, <1>2, <1>3, <1>4 DEF TaskType
<1>6. TaskCur'
  BY DEF TaskInv, TaskCur
<1> QED
  BY <1>5, <1>6 DEF TaskInv, TaskSeen, TaskDue

(* Steps that touch no task and no counter of the scheduler.               *)
LEMMA TaskSame ==
    ASSUME TaskInv, UNCHANGED <<cur, tk, tsc, exec, tsc_val, ts>>,
           "switch" \in probes' <=> "switch" \in probes,
           \/ stage' = stage
           \/ stage' \notin {"out", "tsc", "insert"}
           \/ stage = "insert" /\ stage' = "insert",
           "switch" \in probes => \A c \in Cpu : Inst(c)' = Inst(c) /\ Recy(c)' = Recy(c)
    PROVE  TaskInv'
<1>1. TaskType' /\ TaskCur'
  BY DEF TaskInv, TaskType, TaskCur
<1>2. TaskSeen'
  BY DEF TaskInv, TaskSeen
<1>3. Rest => Rest'
  BY DEF Rest, Idle
<1>4. ASSUME "switch" \in probes, NEW c \in Cpu
      PROVE  Due(c) => Due(c)'
  <2>1. get_tsc_cycles(c)' = get_tsc_cycles(c)
    BY DEF get_tsc_cycles
  <2> QED
    BY <1>4, <2>1 DEF Due
<1>5. TaskDue'
  BY <1>3, <1>4 DEF TaskInv, TaskDue
<1> QED
  BY <1>1, <1>2, <1>5 DEF TaskInv

(* The steps of loading and unloading the scheduler.                       *)
LEMMA TaskStages ==
    ASSUME TaskInv, ProbeInv, CtrInv, CtrInv',
           \/ init_tsc_intf \/ configure_counters \/ register_probe \/ register_fails
           \/ unwind_probe \/ remove_probe \/ exit_counters \/ PmuModule
    PROVE  TaskInv'
<1>0. TaskType
  BY DEF TaskInv
<1>1. CASE init_tsc_intf
  <2>1. /\ UNCHANGED <<cur, tk, tsc, exec, ts>> /\ tsc_val' = tsc
        /\ probes' = {} /\ \A c \in Cpu : ts'[c] = NULL
    BY <1>1 DEF init_tsc_intf, running, ProbeInv, TaskInv, TaskSeen
  <2> QED
    BY <2>1, TaskQuiet
<1>2. CASE configure_counters
  <2>1. /\ UNCHANGED <<cur, tk, tsc, exec>> /\ probes' = {}
        /\ \A c \in Cpu : ts[c] = NULL
        /\ \/ UNCHANGED <<tsc_val, ts>>
           \/ tsc_val' = [c \in Cpu |-> 0] /\ ts' = [c \in Cpu |-> NULL]
    BY <1>2 DEF configure_counters, Forget, ProbeInv, TaskInv, TaskSeen
  <2>2. \A c \in Cpu : ts'[c] = NULL
    BY <2>1
  <2> QED
    BY <2>1, <2>2, TaskQuiet
<1>3. CASE register_probe
  <2>1. PICK p \in Probe : /\ p \notin probes /\ probes' = probes \cup {p}
                           /\ exec' = IF p = "switch" THEN tk ELSE exec
    BY <1>3, ProbeRegister
  <2>2. /\ UNCHANGED <<arch, pmu, sys_counters, cur, tk, tsc, tsc_val, ts>>
        /\ stage = "insert" /\ stage' \in {"insert", "live"} /\ stage \in Using /\ stage' \in Using
    BY <1>3 DEF register_probe, Using
  <2>3. CASE p # "switch"
    <3>1. "switch" \in probes' <=> "switch" \in probes
      BY <2>1, <2>3
    <3>2. \A c \in Cpu : Inst(c)' = Inst(c) /\ Recy(c)' = Recy(c)
      BY <2>2, SameReading
    <3> QED
      BY <2>1, <2>2, <2>3, <3>1, <3>2, TaskSame
  <2>4. CASE p = "switch"
    <3>1. \A c \in Cpu : ts[c] = NULL
      BY <2>1, <2>2, <2>4 DEF TaskInv, TaskSeen
    <3>2. TaskType' /\ TaskCur'
      BY <2>1, <2>2, <2>4 DEF TaskInv, TaskType, TaskCur
    <3>3. TaskSeen'
      BY <2>2, <3>1 DEF TaskSeen
    <3>4. \A t \in Task : Settled(tk'[t], exec'[t], 0, 0, 0)
      BY <1>0, <2>1, <2>2, <2>4, SettledFresh DEF TaskType
    <3>5. TaskDue'
      BY <2>2, <3>1, <3>4 DEF TaskDue, Rest
    <3> QED
      BY <3>2, <3>3, <3>5 DEF TaskInv
  <2> QED
    BY <2>3, <2>4
<1>4. CASE register_fails
  <2>1. /\ UNCHANGED <<arch, pmu, sys_counters, cur, tk, tsc, exec, tsc_val, ts, probes>>
        /\ stage \in Using /\ stage' = "undo" /\ stage' \in Using
    BY <1>4 DEF register_fails, running, Using
  <2>2. \A c \in Cpu : Inst(c)' = Inst(c) /\ Recy(c)' = Recy(c)
    BY <2>1, SameReading
  <2> QED
    BY <2>1, <2>2, TaskSame
<1>5. CASE unwind_probe \/ remove_probe
  <2>1. probes' \subseteq probes
    BY <1>5, ProbeUnwind, ProbeRemove
  <2>2. /\ UNCHANGED <<arch, pmu, cur, tk, tsc>>
        /\ exec' = IF "switch" \in probes' THEN exec ELSE tk
        /\ stage \in Using
        /\ \/ UNCHANGED <<sys_counters, tsc_val, ts>> /\ stage' \in {"undo", "exit"}
           \/ /\ probes' = {} /\ stage' = "out"
              /\ tsc_val' = [c \in Cpu |-> 0] /\ ts' = [c \in Cpu |-> NULL]
    BY <1>5 DEF unwind_probe, remove_probe, Forget, Using
  <2>3. CASE "switch" \notin probes'
    <3>1. stage' \in {"out", "tsc", "insert"} => \A c \in Cpu : ts'[c] = NULL
      BY <2>2
    <3>2. exec' = tk
      BY <2>2, <2>3
    <3> QED
      BY <2>2, <2>3, <3>1, <3>2, TaskQuiet
  <2>4. CASE "switch" \in probes'
    <3>1. /\ "switch" \in probes /\ UNCHANGED <<sys_counters, tsc_val, ts, exec>>
          /\ stage' \in {"undo", "exit"} /\ stage' \in Using
      BY <2>1, <2>2, <2>4 DEF Using
    <3>2. \A c \in Cpu : Inst(c)' = Inst(c) /\ Recy(c)' = Recy(c)
      BY <2>2, <3>1, SameReading
    <3> QED
      BY <2>2, <2>4, <3>1, <3>2, TaskSame
  <2> QED
    BY <2>3, <2>4
<1>6. CASE exit_counters
  <2>1. /\ UNCHANGED <<cur, tk, tsc, exec>> /\ probes' = {}
        /\ tsc_val' = [c \in Cpu |-> 0] /\ ts' = [c \in Cpu |-> NULL]
    BY <1>6 DEF exit_counters, Forget
  <2> QED
    BY <2>1, TaskQuiet
<1>7. CASE PmuModule
  <2>1. /\ UNCHANGED <<cur, tk, tsc, exec, tsc_val, ts, probes, stage>> /\ probes = {}
    BY <1>7 DEF PmuModule, running, ProbeInv
  <2> QED
    BY <2>1, TaskSame
<1> QED
  BY <1>1, <1>2, <1>3, <1>4, <1>5, <1>6, <1>7

-----------------------------------------------------------------------------
(* The probes and the tasks.                                               *)
(* What the members of one task become keeps the types and who is forked.  *)
LEMMA SetTask ==
    ASSUME TaskType, TaskCur, NEW t \in Task, NEW m \in Members, tk' = [tk EXCEPT ![t] = m],
           tk[t].born => m.born
    PROVE  /\ tk' \in [Task -> Members] /\ tk'[t] = m /\ \A u \in Task : u # t => tk'[u] = tk[u]
           /\ \A u \in Task : tk[u].born => tk'[u].born
  BY DEF TaskType

(* The time stamp of cpu c is read.                                        *)
LEMMA SetTsc ==
    ASSUME TaskType, NEW c \in Cpu, tsc_val' = [tsc_val EXCEPT ![c] = tsc[c]], tsc' = tsc
    PROVE  /\ tsc_val' \in [Cpu -> Nat] /\ \A d \in Cpu : tsc_val'[d] <= tsc[d]
           /\ get_tsc_cycles(c)' = 0
           /\ \A d \in Cpu : d # c => get_tsc_cycles(d)' = get_tsc_cycles(d)
<1>1. tsc \in [Cpu -> Nat] /\ tsc_val \in [Cpu -> Nat] /\ \A d \in Cpu : tsc_val[d] <= tsc[d]
  BY DEF TaskType
<1>2. \A d \in Cpu : tsc_val'[d] = IF d = c THEN tsc[d] ELSE tsc_val[d]
  BY <1>1
<1>3. tsc_val' \in [Cpu -> Nat]
  BY <1>1
<1>4. tsc[c] - tsc[c] = 0
  BY <1>1
<1>5. get_tsc_cycles(c)' = 0
  BY <1>2, <1>4 DEF get_tsc_cycles
<1>6. \A d \in Cpu : d # c => get_tsc_cycles(d)' = get_tsc_cycles(d)
  BY <1>2 DEF get_tsc_cycles
<1>7. \A d \in Cpu : tsc_val'[d] <= tsc[d]
  BY <1>1, <1>2
<1> QED
  BY <1>3, <1>5, <1>6, <1>7

(* A tick, or a pass of schedule, charges the task that runs.              *)
LEMMA TaskSchedule ==
    ASSUME TaskInv, ProbeInv, CtrInv, CtrInv', stage \in Using, NEW c \in Cpu, inst_schedule(c)
    PROVE  TaskInv'
<1> DEFINE t == ts[c]
           m == Charged(t, c)
<1>0. TaskType /\ TaskCur /\ TaskSeen /\ TaskDue
  BY DEF TaskInv
<1>1. /\ t \in Task /\ t # NULL /\ UNCHANGED <<arch, stage, sys_counters, probes, tsc, ts, cur, exec>>
      /\ tk' = [tk EXCEPT ![t] = m]
      /\ pmu' = [pmu EXCEPT ![c] = clear_counters(@, sys_counters[c])]
      /\ tsc_val' = [tsc_val EXCEPT ![c] = tsc[c]]
  BY <1>0 DEF inst_schedule, Charge, TaskType
<1>2. Inst(c) \in Int /\ Recy(c) \in Int
  BY Reads DEF Reading, Counts
<1>3. /\ m \in Members /\ m.born = tk[t].born
      /\ \A e : Settled(tk[t], e, Inst(c), Recy(c), get_tsc_cycles(c)) => Settled(m, e, 0, 0, 0)
  BY <1>0, <1>1, <1>2, ChargedIs
<1>4. /\ Inst(c)' = 0 /\ Recy(c)' = 0
      /\ \A d \in Cpu : d # c => Inst(d)' = Inst(d) /\ Recy(d)' = Recy(d)
  BY <1>1, ChargeReading
<1> HIDE DEF m
<1>5. /\ tk' \in [Task -> Members] /\ tk'[t] = m /\ \A u \in Task : u # t => tk'[u] = tk[u]
      /\ \A u \in Task : tk[u].born => tk'[u].born
  <2> HIDE DEF t
  <2> QED
    BY <1>0, <1>1, <1>3, SetTask
<1>6. /\ tsc_val' \in [Cpu -> Nat] /\ \A d \in Cpu : tsc_val'[d] <= tsc[d]
      /\ get_tsc_cycles(c)' = 0
      /\ \A d \in Cpu : d # c => get_tsc_cycles(d)' = get_tsc_cycles(d)
  BY <1>0, <1>1, SetTsc
<1> HIDE DEF t
<1>7. TaskType'
  BY <1>0, <1>1, <1>5, <1>6 DEF TaskType
<1>8. TaskCur'
  BY <1>0, <1>1, <1>5 DEF TaskCur, TaskType
<1>9. TaskSeen'
  BY <1>0, <1>1 DEF TaskSeen
<1>10. TaskDue'
  <2> SUFFICES ASSUME "switch" \in probes
               PROVE  Rest' /\ \A d \in Cpu : ts'[d] # NULL => Due(d)'
    BY <1>1 DEF TaskDue
  <2>1. Rest /\ \A d \in Cpu : ts[d] # NULL => Due(d)
    BY <1>0 DEF TaskDue
  <2>2. cur[c] = t
    BY <1>0, <1>1 DEF TaskSeen, t
  <2>3. ~Idle(t)
    BY <1>1, <2>2 DEF Idle, t
  <2>4. ASSUME NEW u \in Task, Idle(u)'
        PROVE  Settled(tk'[u], exec'[u], 0, 0, 0)
    <3>1. Idle(u)
      BY <1>1, <2>4 DEF Idle
    <3>2. u # t
      BY <2>3, <3>1
    <3> QED
      BY <1>1, <1>5, <2>1, <2>4, <3>1, <3>2 DEF Rest
  <2>5. ASSUME NEW d \in Cpu, ts'[d] # NULL
        PROVE  Due(d)'
    <3>0. Due(d)
      BY <1>1, <2>1, <2>5
    <3>1. CASE d = c
      <4>1. Settled(m, exec[t], 0, 0, 0)
        BY <1>3, <2>2, <3>0, <3>1 DEF Due
      <4> QED
        BY <1>1, <1>4, <1>5, <1>6, <2>2, <3>1, <4>1 DEF Due
    <3>2. CASE d # c
      <4>1. cur[d] # t /\ cur[d] \in Task
        BY <1>0, <2>2, <3>2 DEF TaskCur, TaskType
      <4> QED
        BY <1>1, <1>4, <1>5, <1>6, <3>0, <3>2, <4>1 DEF Due
    <3> QED
      BY <3>1, <3>2
  <2> QED
    BY <2>4, <2>5 DEF Rest
<1> QED
  BY <1>7, <1>8, <1>9, <1>10 DEF TaskInv

(* A switch charges the task that leaves the cpu; the one that comes has   *)
(* nothing in its counters yet.                                            *)
LEMMA TaskSwitch ==
    ASSUME TaskInv, ProbeInv, CtrInv, CtrInv', stage \in Using, NEW c \in Cpu, NEW to \in Task,
           inst___switch_to(c, to)
    PROVE  TaskInv'
<1> DEFINE t == cur[c]
<1>0. TaskType /\ TaskCur /\ TaskSeen /\ TaskDue
  BY DEF TaskInv
<1>1. /\ tk[to].born /\ \A d \in Cpu : cur[d] # to
      /\ cur' = [cur EXCEPT ![c] = to] /\ UNCHANGED <<arch, stage, sys_counters, probes, tsc>>
  BY DEF inst___switch_to
<1>2. /\ t \in Task /\ t # to /\ cur'[c] = to /\ cur' \in [Cpu -> Task]
      /\ \A d \in Cpu : d # c => cur'[d] = cur[d] /\ cur[d] # t /\ cur[d] \in Task
  BY <1>0, <1>1 DEF TaskType, TaskCur
<1>3. stage \notin {"out", "tsc"}
  BY DEF Using
<1>4. \A c1, d1 \in Cpu : c1 # d1 => cur'[c1] # cur'[d1]
  BY <1>0, <1>1, <1>2 DEF TaskCur
<1>5. CASE "switch" \notin probes
  <2>1. UNCHANGED <<ts, tk, tsc_val, exec>>
    BY <1>5 DEF inst___switch_to
  <2>2. TaskType'
    BY <1>0, <1>1, <1>2, <2>1 DEF TaskType
  <2>3. TaskCur'
    BY <1>0, <1>1, <1>2, <1>4, <2>1 DEF TaskCur
  <2> QED
    BY <1>0, <1>1, <1>5, <2>1, <2>2, <2>3 DEF TaskInv, TaskSeen, TaskDue
<1>6. CASE "switch" \in probes
  <2> DEFINE m == IF Decided(t, c) THEN Fresh(TRUE, TRUE) ELSE Charged(t, c)
             e == IF ts[c] = NULL \/ Decided(t, c) THEN m ELSE exec[t]
  <2>1. /\ ts' = [ts EXCEPT ![c] = to] /\ tk' = [tk EXCEPT ![t] = m]
        /\ pmu' = [pmu EXCEPT ![c] = clear_counters(@, sys_counters[c])]
        /\ tsc_val' = [tsc_val EXCEPT ![c] = tsc[c]]
    BY <1>6 DEF inst___switch_to, Charge
  <2>2. Inst(c) \in Int /\ Recy(c) \in Int
    BY Reads DEF Reading, Counts
  <2>3. /\ Charged(t, c) \in Members /\ Charged(t, c).born = tk[t].born
        /\ \A x : Settled(tk[t], x, Inst(c), Recy(c), get_tsc_cycles(c)) =>
                    Settled(Charged(t, c), x, 0, 0, 0)
    BY <1>0, <1>2, <2>2, ChargedIs
  <2>4. tk[t].born
    BY <1>0 DEF TaskCur
  <2>5. m \in Members /\ m.born
    <3>1. Fresh(TRUE, TRUE) \in Members /\ Fresh(TRUE, TRUE).born
      BY FreshType
    <3> QED
      BY <2>3, <2>4, <3>1
  <2>6. /\ tk' \in [Task -> Members] /\ tk'[t] = m /\ \A u \in Task : u # t => tk'[u] = tk[u]
        /\ \A u \in Task : tk[u].born => tk'[u].born
    <3> HIDE DEF t, m
    <3> QED
      BY <1>0, <1>2, <2>1, <2>5, SetTask
  <2>7. exec' = [exec EXCEPT ![t] = e]
    BY <1>6, <2>6 DEF inst___switch_to
  <2>8. Rest /\ \A d \in Cpu : ts[d] # NULL => Due(d)
    BY <1>0, <1>6 DEF TaskDue
  <2>9. e \in Members /\ Settled(m, e, 0, 0, 0)
    <3>1. CASE ts[c] = NULL \/ Decided(t, c)
      <4> HIDE DEF m
      <4> QED
        BY <2>5, <3>1, SettledFresh
    <3>2. CASE ~(ts[c] = NULL \/ Decided(t, c))
      <4>1. m = Charged(t, c) /\ e = exec[t] /\ e \in Members
        BY <1>0, <1>2, <3>2 DEF TaskType
      <4>2. Settled(tk[t], exec[t], Inst(c), Recy(c), get_tsc_cycles(c))
        BY <2>8, <3>2 DEF Due
      <4> HIDE DEF m, e
      <4> QED
        BY <2>3, <4>1, <4>2
    <3> QED
      BY <3>1, <3>2
  <2> HIDE DEF m, e
  <2>10. /\ exec' \in [Task -> Members] /\ exec'[t] = e
         /\ \A u \in Task : u # t => exec'[u] = exec[u]
    <3>1. exec \in [Task -> Members]
      BY <1>0 DEF TaskType
    <3> HIDE DEF t
    <3> QED
      BY <1>2, <2>7, <2>9, <3>1
  <2>11. /\ Inst(c)' = 0 /\ Recy(c)' = 0
         /\ \A d \in Cpu : d # c => Inst(d)' = Inst(d) /\ Recy(d)' = Recy(d)
    BY <1>1, <2>1, ChargeReading
  <2>12. /\ tsc_val' \in [Cpu -> Nat] /\ \A d \in Cpu : tsc_val'[d] <= tsc[d]
         /\ get_tsc_cycles(c)' = 0
         /\ \A d \in Cpu : d # c => get_tsc_cycles(d)' = get_tsc_cycles(d)
    BY <1>0, <1>1, <2>1, SetTsc
  <2>13. /\ ts' \in [Cpu -> Task \cup {NULL}] /\ ts'[c] = to
         /\ \A d \in Cpu : d # c => ts'[d] = ts[d]
    BY <1>0, <2>1 DEF TaskType
  <2>14. TaskType'
    BY <1>0, <1>1, <1>2, <2>6, <2>10, <2>12, <2>13 DEF TaskType
  <2>15. TaskCur'
    <3>1. ASSUME NEW d \in Cpu
          PROVE  tk'[cur'[d]].born
      <4>1. CASE d = c
        BY <1>1, <1>2, <2>6, <4>1
      <4>2. CASE d # c
        BY <1>0, <1>2, <2>6, <4>2 DEF TaskCur
      <4> QED
        BY <4>1, <4>2
    <3> QED
      BY <1>4, <3>1 DEF TaskCur
  <2>16. TaskSeen'
    BY <1>0, <1>1, <1>2, <1>3, <1>6, <2>13 DEF TaskSeen
  <2>17. ASSUME NEW u \in Task, Idle(u)'
         PROVE  Settled(tk'[u], exec'[u], 0, 0, 0)
    <3>1. CASE u = t
      BY <2>6, <2>9, <2>10, <3>1
    <3>2. CASE u # t
      <4>1. Idle(u)
        BY <1>2, <2>13, <2>17, <3>2 DEF Idle
      <4> QED
        BY <2>6, <2>8, <2>10, <2>17, <3>2, <4>1 DEF Rest
    <3> QED
      BY <3>1, <3>2
  <2>18. ASSUME NEW d \in Cpu, ts'[d] # NULL
         PROVE  Due(d)'
    <3>1. CASE d = c
      <4>1. Idle(to)
        BY <1>1 DEF Idle
      <4>2. Settled(tk[to], exec[to], 0, 0, 0)
        BY <2>8, <4>1 DEF Rest
      <4>3. tk'[to] = tk[to] /\ exec'[to] = exec[to]
        BY <1>2, <2>6, <2>10
      <4> QED
        BY <1>2, <2>11, <2>12, <3>1, <4>2, <4>3 DEF Due
    <3>2. CASE d # c
      <4>1. Due(d)
        BY <2>8, <2>13, <2>18, <3>2
      <4>2. tk'[cur[d]] = tk[cur[d]] /\ exec'[cur[d]] = exec[cur[d]]
        BY <1>2, <2>6, <2>10, <3>2
      <4> QED
        BY <1>2, <2>11, <2>12, <3>2, <4>1, <4>2 DEF Due
    <3> QED
      BY <3>1, <3>2
  <2>19. TaskDue'
    BY <2>17, <2>18 DEF TaskDue, Rest
  <2> QED
    BY <2>14, <2>15, <2>16, <2>19 DEF TaskInv
<1> QED
  BY <1>5, <1>6

(* A new task owes and is owed nothing; its parent loses the reference     *)
(* cycles the probe drops.                                                 *)
LEMMA TaskFork ==
    ASSUME TaskInv, ProbeInv, CtrInv, CtrInv', stage \in Using, NEW c \in Cpu, NEW new \in Task,
           inst_sched_fork(c, new)
    PROVE  TaskInv'
<1>0. TaskType /\ TaskCur /\ TaskSeen /\ TaskDue
  BY DEF TaskInv
<1>1. ~tk[new].born /\ UNCHANGED <<arch, pmu, stage, sys_counters, probes, tsc, ts, cur>>
  BY DEF inst_sched_fork
<1>2. PICK m \in Members : m.born /\ tk' = [tk EXCEPT ![new] = m]
  <2>1. ASSUME NEW known \in BOOLEAN
        PROVE  Fresh(TRUE, ~known) \in Members /\ Fresh(TRUE, ~known).born
    BY FreshType
  <2>2. tk[cur[c]] \in Members /\ tk[cur[c]].born
    BY <1>0 DEF TaskType, TaskCur
  <2> QED
    BY <2>1, <2>2 DEF inst_sched_fork
<1>3. /\ tk' \in [Task -> Members] /\ tk'[new] = m /\ \A u \in Task : u # new => tk'[u] = tk[u]
      /\ \A u \in Task : tk[u].born => tk'[u].born
  BY <1>0, <1>2, SetTask
<1>4. exec' = [exec EXCEPT ![new] = m]
  BY <1>3 DEF inst_sched_fork
<1>5. exec' \in [Task -> Members] /\ exec'[new] = m /\ \A u \in Task : u # new => exec'[u] = exec[u]
  <2>1. exec \in [Task -> Members]
    BY <1>0 DEF TaskType
  <2> QED
    BY <1>4, <2>1
<1>6. /\ tsc_val' \in [Cpu -> Nat] /\ \A d \in Cpu : tsc_val'[d] <= tsc[d]
      /\ \A d \in Cpu : get_tsc_cycles(d)' \in Int /\ get_tsc_cycles(d) \in Int
                        /\ get_tsc_cycles(d)' <= get_tsc_cycles(d)
  <2>0. tsc \in [Cpu -> Nat] /\ tsc_val \in [Cpu -> Nat] /\ \A d \in Cpu : tsc_val[d] <= tsc[d]
    BY <1>0 DEF TaskType
  <2>1. CASE tsc_val' = tsc_val
    <3>1. \A d \in Cpu : get_tsc_cycles(d)' = get_tsc_cycles(d) /\ get_tsc_cycles(d) \in Int
      BY <1>1, <2>0, <2>1 DEF get_tsc_cycles
    <3> QED
      BY <2>0, <2>1, <3>1
  <2>2. CASE tsc_val' = [tsc_val EXCEPT ![c] = tsc[c]]
    <3>1. \A d \in Cpu : get_tsc_cycles(d) \in Int /\ 0 <= get_tsc_cycles(d)
      BY <2>0 DEF get_tsc_cycles
    <3>2. /\ tsc_val' \in [Cpu -> Nat] /\ \A d \in Cpu : tsc_val'[d] <= tsc[d]
          /\ get_tsc_cycles(c)' = 0
          /\ \A d \in Cpu : d # c => get_tsc_cycles(d)' = get_tsc_cycles(d)
      BY <1>0, <1>1, <2>2, SetTsc
    <3>3. ASSUME NEW d \in Cpu
          PROVE  get_tsc_cycles(d)' \in Int /\ get_tsc_cycles(d)' <= get_tsc_cycles(d)
      <4>1. CASE d = c
        BY <3>1, <3>2, <4>1
      <4>2. CASE d # c
        BY <3>1, <3>2, <4>2
      <4> QED
        BY <4>1, <4>2
    <3> QED
      BY <3>1, <3>2, <3>3
  <2> QED
    BY <2>1, <2>2 DEF inst_sched_fork
<1>7. \A d \in Cpu : cur[d] # new /\ cur[d] \in Task
  BY <1>0, <1>1 DEF TaskCur, TaskType
<1>8. TaskType'
  BY <1>0, <1>1, <1>3, <1>5, <1>6 DEF TaskType
<1>9. TaskCur'
  BY <1>0, <1>1, <1>3, <1>7 DEF TaskCur
<1>10. TaskSeen'
  BY <1>0, <1>1 DEF TaskSeen
<1>11. ASSUME "switch" \in probes
       PROVE  Rest' /\ \A d \in Cpu : ts'[d] # NULL => Due(d)'
  <2>1. Rest /\ \A d \in Cpu : ts[d] # NULL => Due(d)
    BY <1>0, <1>11 DEF TaskDue
  <2>2. ASSUME NEW u \in Task, Idle(u)'
        PROVE  Settled(tk'[u], exec'[u], 0, 0, 0)
    <3>1. CASE u = new
      BY <1>3, <1>5, <3>1, SettledFresh
    <3>2. CASE u # new
      <4>1. Idle(u)
        BY <1>1, <2>2 DEF Idle
      <4> QED
        BY <1>3, <1>5, <2>1, <2>2, <3>2, <4>1 DEF Rest
    <3> QED
      BY <3>1, <3>2
  <2>3. ASSUME NEW d \in Cpu, ts'[d] # NULL
        PROVE  Due(d)'
    <3> DEFINE n == tk[cur[d]]
               e == exec[cur[d]]
               f == get_tsc_cycles(d)
               g == get_tsc_cycles(d)'
               i == Inst(d)
               r == Recy(d)
    <3>1. Settled(n, e, i, r, f)
      BY <1>1, <2>1, <2>3 DEF Due
    <3>2. /\ n \in Members /\ e \in Members /\ i \in Int /\ r \in Int
          /\ f \in Int /\ g \in Int /\ g <= f
      BY <1>0, <1>6, <1>7, Reads DEF TaskType, Reading, Counts
    <3>3. Inst(d)' = i /\ Recy(d)' = r
      BY <1>1, SameReading
    <3>4. tk'[cur'[d]] = n /\ exec'[cur'[d]] = e
      BY <1>1, <1>3, <1>5, <1>7
    <3> HIDE DEF n, e, f, g, i, r
    <3>5. Settled(n, e, i, r, g)
      BY <3>1, <3>2, SettledLess
    <3> QED
      BY <3>3, <3>4, <3>5 DEF Due, g
  <2> QED
    BY <2>2, <2>3 DEF Rest
<1>12. TaskDue'
  BY <1>1, <1>11 DEF TaskDue
<1> QED
  BY <1>8, <1>9, <1>10, <1>12 DEF TaskInv

(* What a task executes goes into the counters of its cpu, as long as none *)
(* of them wraps.                                                          *)
LEMMA TaskExecute ==
    ASSUME TaskInv, ProbeInv, CtrInv, CtrInv', stage \in Using, NEW c \in Cpu, Execute(c),
           "switch" \in probes /\ ts[c] # NULL => Inst(c) < W - 1 /\ Recy(c) < W - 1
    PROVE  TaskInv'
<1> DEFINE t == cur[c]
<1>0. TaskType /\ TaskCur /\ TaskSeen /\ TaskDue
  BY DEF TaskInv
<1>1. /\ UNCHANGED <<stage, probes, tsc_val, ts, cur, tk>> /\ tsc' = [tsc EXCEPT ![c] = tsc[c] + 1]
      /\ exec' = IF "switch" \in probes /\ ts[c] # NULL
                 THEN [exec EXCEPT ![t] = Ran(exec[t])] ELSE exec
  BY DEF Execute, sched
<1>2. /\ Inst(c) < W - 1 /\ Recy(c) < W - 1 => Inst(c)' = Inst(c) + 1 /\ Recy(c)' = Recy(c) + 1
      /\ \A d \in Cpu : d # c => Inst(d)' = Inst(d) /\ Recy(d)' = Recy(d)
  BY ExecuteReading
<1>3. tsc \in [Cpu -> Nat] /\ tsc_val \in [Cpu -> Nat] /\ \A d \in Cpu : tsc_val[d] <= tsc[d]
  BY <1>0 DEF TaskType
<1>4. tsc' \in [Cpu -> Nat] /\ \A d \in Cpu : tsc'[d] = IF d = c THEN tsc[d] + 1 ELSE tsc[d]
  BY <1>1, <1>3
<1>5. \A d \in Cpu : tsc_val'[d] <= tsc'[d]
  BY <1>1, <1>3, <1>4
<1>6. /\ get_tsc_cycles(c)' = get_tsc_cycles(c) + 1 /\ get_tsc_cycles(c) \in Int
      /\ \A d \in Cpu : d # c => get_tsc_cycles(d)' = get_tsc_cycles(d)
  BY <1>1, <1>3, <1>4 DEF get_tsc_cycles
<1>7. exec[t] \in Members /\ Ran(exec[t]) \in Members /\ t \in Task
  BY <1>0, RanType DEF TaskType
<1>8. exec' \in [Task -> Members]
  <2>1. exec \in [Task -> Members]
    BY <1>0 DEF TaskType
  <2> HIDE DEF t
  <2> QED
    BY <1>1, <1>7, <2>1
<1>9. TaskType'
  BY <1>0, <1>1, <1>4, <1>5, <1>8 DEF TaskType
<1>10. TaskCur' /\ TaskSeen'
  BY <1>0, <1>1 DEF TaskCur, TaskSeen
<1>11. ASSUME "switch" \in probes
       PROVE  Rest' /\ \A d \in Cpu : ts'[d] # NULL => Due(d)'
  <2>0. Rest /\ \A d \in Cpu : ts[d] # NULL => Due(d)
    BY <1>0, <1>11 DEF TaskDue
  <2>1. /\ \A u \in Task : u # t => exec'[u] = exec[u]
        /\ ts[c] = NULL => exec' = exec
        /\ ts[c] # NULL => exec'[t] = Ran(exec[t])
    <3>1. exec \in [Task -> Members]
      BY <1>0 DEF TaskType
    <3> HIDE DEF t
    <3> QED
      BY <1>1, <1>7, <1>11, <3>1
  <2>2. ASSUME NEW u \in Task, Idle(u)'
        PROVE  Settled(tk'[u], exec'[u], 0, 0, 0)
    <3>1. Idle(u)
      BY <1>1, <2>2 DEF Idle
    <3>2. exec'[u] = exec[u]
      BY <2>1, <3>1 DEF Idle
    <3> QED
      BY <1>1, <2>0, <2>2, <3>1, <3>2 DEF Rest
  <2>3. ASSUME NEW d \in Cpu, ts'[d] # NULL
        PROVE  Due(d)'
    <3>0. Due(d)
      BY <1>1, <2>0, <2>3
    <3>1. CASE d # c
      <4>1. cur[d] # t /\ cur[d] \in Task
        BY <1>0, <3>1 DEF TaskCur, TaskType
      <4>2. exec'[cur[d]] = exec[cur[d]]
        BY <2>1, <4>1
      <4> QED
        BY <1>1, <1>2, <1>6, <3>0, <3>1, <4>2 DEF Due
    <3>2. CASE d = c
      <4> DEFINE n == tk[t]
                 e == exec[t]
                 f == get_tsc_cycles(c)
                 i == Inst(c)
                 r == Recy(c)
      <4>1. Settled(n, e, i, r, f)
        BY <3>0, <3>2 DEF Due
      <4>2. n \in Members /\ e \in Members /\ i \in Int /\ r \in Int /\ f \in Int
        BY <1>0, <1>6, <1>7, Reads DEF TaskType, Reading, Counts
      <4>3. ts[c] # NULL
        BY <1>1, <2>3, <3>2
      <4>4. Inst(c)' = i + 1 /\ Recy(c)' = r + 1 /\ get_tsc_cycles(c)' = f + 1
        BY <1>2, <1>6, <1>11, <4>3
      <4>5. exec'[t] = Ran(e) /\ tk'[t] = n /\ cur'[c] = t
        BY <1>1, <2>1, <4>3
      <4> HIDE DEF n, e, f, i, r, t
      <4>6. Settled(n, Ran(e), i + 1, r + 1, f + 1)
        BY <4>1, <4>2, SettledRan
      <4> QED
        BY <3>2, <4>4, <4>5, <4>6 DEF Due
    <3> QED
      BY <3>1, <3>2
  <2> QED
    BY <2>2, <2>3 DEF Rest
<1>12. TaskDue'
  BY <1>1, <1>11 DEF TaskDue
<1> QED
  BY <1>9, <1>10, <1>12 DEF TaskInv

-----------------------------------------------------------------------------
(* Every step keeps the order in which the probes come and go.             *)
LEMMA ProbeNext ==
    ASSUME ProbeInv, [Next]_vars
    PROVE  ProbeInv'
<1>1. CASE init_tsc_intf \/ configure_counters \/ register_fails \/ exit_counters
  <2>1. /\ probes' = probes
        /\ \/ stage \in {"out", "tsc"} /\ stage' \in {"out", "tsc", "insert"}
           \/ stage = "insert" /\ stage' = "undo"
           \/ probes = {} /\ stage' = "out"
    BY <1>1 DEF init_tsc_intf, configure_counters, register_fails, exit_counters
  <2> QED
    BY <2>1 DEF ProbeInv, Stages, Using
<1>2. CASE register_probe
  BY <1>2, ProbeRegister
<1>3. CASE unwind_probe \/ remove_probe
  BY <1>3, ProbeUnwind, ProbeRemove
<1>4. CASE UNCHANGED <<stage, probes>>
  BY <1>4 DEF ProbeInv
<1>5. ASSUME NEW c \in Cpu,
             \/ inst_schedule(c) \/ Execute(c)
             \/ \E t \in Task : inst___switch_to(c, t) \/ inst_sched_fork(c, t)
      PROVE  UNCHANGED <<stage, probes>>
  BY <1>5 DEF inst_schedule, Execute, inst___switch_to, inst_sched_fork, sched
<1>6. ASSUME NEW c \in Cpu, Other(c) \/ OtherFixed(c)
      PROVE  UNCHANGED <<stage, probes>>
  BY <1>6 DEF Other, OtherFixed, OtherSets, sched
<1>7. CASE PmuModule
  BY <1>4, <1>7 DEF PmuModule
<1>8. CASE UNCHANGED vars
  BY <1>4, <1>8 DEF vars, sched
<1>9. OtherCpu \subseteq Cpu
  BY AccountingAssumption
<1> QED
  BY <1>1, <1>2, <1>3, <1>4, <1>5, <1>6, <1>7, <1>8, <1>9 DEF Next

(* A unit of work that a task is owed wraps neither of the two counters.   *)
Fits(c) == "switch" \in probes /\ ts[c] # NULL => Inst(c) < W - 1 /\ Recy(c) < W - 1

(* Every step keeps the books of the tasks.                                *)
LEMMA TaskNext ==
    ASSUME TaskInv, ProbeInv, CtrInv, CtrInv', [Next]_vars,
           [\A c \in Cpu : Execute(c) => Fits(c)]_vars
    PROVE  TaskInv'
<1>0. stage \in Stages
  BY DEF CtrInv
<1>1. CASE \/ init_tsc_intf \/ configure_counters \/ register_probe \/ register_fails
           \/ unwind_probe \/ remove_probe \/ exit_counters \/ PmuModule
  BY <1>1, TaskStages
<1>2. ASSUME stage \notin {"out", "tsc"}, NEW c \in Cpu, inst_schedule(c)
      PROVE  TaskInv'
  BY <1>0, <1>2, TaskSchedule DEF Stages
<1>3. CASE UNCHANGED vars
  <2>1. UNCHANGED <<arch, pmu, sys_counters, stage, probes, cur, tk, tsc, exec, tsc_val, ts>>
    BY <1>3 DEF vars, sched, running
  <2>2. \A c \in Cpu : Inst(c)' = Inst(c) /\ Recy(c)' = Recy(c)
    <3>1. Fix' = Fix /\ Ctr' = Ctr
      BY <2>1, SameArch
    <3> QED
      BY <2>1, <3>1 DEF Inst, Recy, Pending, read_counters, get_fcounter_data, fcounter_read,
                        get_counter_data, counter_read
  <2> QED
    BY <2>1, <2>2, TaskSame
<1>4. ASSUME stage \notin {"out", "tsc"}, NEW c \in Cpu, Execute(c)
      PROVE  TaskInv'
  <2>1. stage \in Using
    BY <1>0, <1>4 DEF Stages
  <2>2. CASE ~UNCHANGED vars
    <3>1. Fits(c)
      BY <1>4, <2>2
    <3> QED
      BY <1>4, <2>1, <3>1, TaskExecute DEF Fits
  <2> QED
    BY <1>3, <2>2
<1>5. ASSUME stage \notin {"out", "tsc"}, NEW c \in Cpu, NEW t \in Task, inst___switch_to(c, t)
      PROVE  TaskInv'
  BY <1>0, <1>5, TaskSwitch DEF Stages
<1>6. ASSUME stage \notin {"out", "tsc"}, NEW c \in Cpu, NEW t \in Task, inst_sched_fork(c, t)
      PROVE  TaskInv'
  BY <1>0, <1>6, TaskFork DEF Stages
<1>7. ASSUME stage = "out" \/ (stage = "live" /\ Fix = {}), NEW c \in Cpu, Other(c) \/ OtherFixed(c)
      PROVE  TaskInv'
  <2>1. UNCHANGED <<stage, probes, cur, tk, tsc, exec, tsc_val, ts>>
    BY <1>7 DEF Other, OtherFixed, OtherSets, sched, running
  <2>2. CASE stage = "out"
    <3>1. "switch" \notin probes
      BY <2>2 DEF ProbeInv
    <3> QED
      BY <2>1, <3>1, TaskSame
  <2>3. CASE stage = "live" /\ Fix = {}
    <3>1. Other(c)
      BY <1>7, <2>3 DEF OtherFixed
    <3>2. \A d \in Cpu : Inst(d)' = Inst(d) /\ Recy(d)' = Recy(d)
      BY <2>3, <3>1, OtherReading
    <3> QED
      BY <2>1, <3>2, TaskSame
  <2> QED
    BY <1>7, <2>2, <2>3
<1>8. OtherCpu \subseteq Cpu
  BY AccountingAssumption
<1> QED
  BY <1>1, <1>2, <1>3, <1>4, <1>5, <1>6, <1>7, <1>8 DEF Next

(* What the invariants say of the charges.                                 *)
LEMMA TaskCharged ==
    ASSUME TaskInv, ProbeInv
    PROVE  ChargedToRunner
<1>1. ASSUME "switch" \in probes, NEW t \in Task,
             NEW on, on = {c \in Cpu : cur[c] = t /\ ts[c] # NULL}
      PROVE  IF on = {} THEN Settled(tk[t], exec[t], 0, 0, 0)
             ELSE \A c \in on : Settled(tk[t], exec[t], Pending(c)[1], Pending(c)[2], get_tsc_cycles(c))
  <2>1. Rest /\ \A c \in Cpu : ts[c] # NULL => Due(c)
    BY <1>1 DEF TaskInv, TaskDue
  <2>2. CASE on = {}
    <3>1. Idle(t)
      BY <1>1, <2>2 DEF Idle
    <3> QED
      BY <2>1, <2>2, <3>1 DEF Rest
  <2>3. CASE on # {}
    BY <1>1, <2>1, <2>3 DEF Due, Inst, Recy
  <2> QED
    BY <2>2, <2>3
<1>2. ASSUME stage # "undo", probes \cap {"tick", "schedule"} # {}, NEW c \in Cpu
      PROVE  ts[c] \in {NULL, cur[c]}
  <2>1. "switch" \in probes \/ stage = "insert"
    BY <1>2, ProbeFacts
  <2> QED
    BY <2>1 DEF TaskInv, TaskSeen
<1> QED
  BY <1>1, <1>2 DEF ChargedToRunner, Settled

(* No counter wraps while what it counts is owed to a task: each is read  *)
(* whenever the task leaves its cpu, and holds 48 bits.                   *)
NoWrap == [][\A c \in Cpu : Execute(c) => Fits(c)]_vars

(* As long as no counter wraps between two readings, every instruction and *)
(* cycle a task executes is charged to it once, or still in the counters   *)
(* of its cpu, through ticks, switches, forks, the loading, unloading and  *)
(* failed loading of the scheduler (probe.c inst_schedule and              *)
(* inst___switch_to, hwcounters.c read_counters and clear_counters).       *)
THEOREM RunnerPays == Spec /\ NoWrap => []ChargedToRunner
<1>1. Init => TaskInv /\ ProbeInv
  <2>1. Init => ProbeInv
    BY DEF Init, ProbeInv, Stages
  <2> QED
    BY <2>1, TaskInit
<1>2. /\ TaskInv /\ ProbeInv /\ CtrInv /\ CtrInv' /\ [Next]_vars
      /\ [\A c \in Cpu : Execute(c) => Fits(c)]_vars
      => TaskInv' /\ ProbeInv'
  BY ProbeNext, TaskNext
<1>3. TaskInv /\ ProbeInv => ChargedToRunner
  BY TaskCharged
<1> QED
  BY <1>1, <1>2, <1>3, CtrInvHolds, PTL DEF Spec, NoWrap
=============================================================================
