--------------------------- MODULE CpuStatesProofs ---------------------------
(***************************************************************************)
(* For every number of cpus, states and users: what state.c keeps about    *)
(* the cpus is right, as long as users write frequencies only while no     *)
(* mutator runs (UsersQuiet).                                              *)
(***************************************************************************)
EXTENDS CpuStates, FiniteSetTheorems, TLAPS

(* Frequencies are written from user space under the static mutator only.  *)
UsersQuiet == UsersWrite \subseteq {"static"}

Busy(q) == pc[q] # "idle"

(* A user holds the policy lock of the cpu it changes, throughout, and     *)
(* writes under the static mutator only.                                   *)
UserInv ==
    /\ \A u \in Users, c \in CPUs : policy[c] = u <=> Busy(u) /\ on[u] = c
    /\ \A u \in Users : Busy(u) => registered /\ mutation_method = "static"

(* When the scheduler's own thread changes a cpu.                          *)
PhaseInv ==
    /\ Busy(Scheduler) => mpc \in {"init", "loop"}
    /\ mpc = "init" => ~registered /\ inited < NCpu /\ on[Scheduler] = inited
    /\ mpc \in {"commit", "loop"} => registered /\ mutation_method # "static"
    /\ mpc = "commit" => mutation_method = "delta"
    /\ registered => inited = NCpu

(* How far each set_freq is.                                               *)
StepInv ==
    \A q \in Procs :
        /\ pc[q] \in {"target", "retry"} => policy_cur[on[q]] = to[q]
        /\ pc[q] \in {"update", "store"} => registered
        /\ pc[q] = "update" => cur_cpu_state[on[q]] # to[q]
        /\ pc[q] = "store" => cur_cpu_state[on[q]] = to[q]

(* A cpu that is not initialised is offered nowhere.                       *)
MaskInv == \A s \in States : \A c \in cpumask[s] : c < inited

CallInv == TypeOK /\ UserInv /\ PhaseInv /\ StepInv /\ MaskInv

(* What the hardware is in, cpu by cpu.                                    *)
HwInv ==
    /\ \A c \in CPUs :
           c < inited /\ (\A q \in Procs : Busy(q) => on[q] # c) => cur_cpu_state[c] = hw[c]
    /\ \A q \in Procs :
           /\ pc[q] \in {"cur", "target", "retry"} /\ registered =>
                  cur_cpu_state[on[q]] = hw[on[q]]
           /\ pc[q] \in {"check", "update", "store"} => hw[on[q]] = to[q]
    /\ mpc = "init" /\ ~Busy(Scheduler) => hw[inited] = to[Scheduler]

(* While the delta mutator brings the cpus to the layout it has published, *)
(* the cpus before mi are there, and the one it is at is on its way.       *)
DeltaInv == mutation_method = "delta" =>
    /\ pc[Scheduler] # "retry"
    /\ mpc # "loop" => \A s \in States : \A c \in cpumask[s] : cur_cpu_state[c] = s
    /\ mpc = "loop" =>
           /\ Busy(Scheduler) => on[Scheduler] < mi
           /\ \A s \in States : \A c \in cpumask[s] :
                  /\ c >= mi => c \in sel /\ new[c] = s
                  /\ c < mi => IF Busy(Scheduler) /\ on[Scheduler] = c
                               THEN to[Scheduler] = s
                               ELSE cur_cpu_state[c] = s

-----------------------------------------------------------------------------
(* The cpus and the states are finite, non-empty sets of numbers.          *)
LEMMA Basics ==
    /\ NCpu \in Nat /\ NState \in Nat
    /\ CPUs \subseteq Nat /\ IsFiniteSet(CPUs) /\ 0 \in CPUs
    /\ \A i \in 0 .. NCpu : i < NCpu <=> i \in CPUs
    /\ 0 \in States /\ NState - 1 \in States
    /\ Scheduler \in Procs /\ Scheduler \notin Users /\ Users \subseteq Procs
    /\ \A q \in Procs : q = Scheduler \/ q \in Users
    /\ Nobody \notin Users
<1>1. IsFiniteSet(CPUs)
  BY CpuStatesAssumption, FS_Interval DEF CPUs
<1> QED
  BY <1>1, CpuStatesAssumption DEF CPUs, States, Procs

(* No two callers of set_freq work on one cpu.                             *)
LEMMA Exclusive ==
    ASSUME CallInv, NEW q \in Procs, NEW r \in Procs, Busy(q), Busy(r), on[q] = on[r]
    PROVE  q = r
<1>1. \A u \in Users : Busy(u) => registered /\ mutation_method = "static"
  BY DEF CallInv, UserInv
<1>2. Busy(Scheduler) => ~registered \/ mutation_method # "static"
  BY DEF CallInv, PhaseInv
<1>3. CASE q \in Users /\ r \in Users
  <2>1. on[q] \in CPUs
    BY DEF CallInv, TypeOK
  <2> QED
    BY <1>3, <2>1 DEF CallInv, UserInv
<1> QED
  BY <1>1, <1>2, <1>3, Basics

(* What a step of set_freq leaves alone, and what it does to its caller.   *)
LEMMA StepFrame ==
    ASSUME NEW q \in Procs, SetFreqStep(q)
    PROVE  /\ UNCHANGED <<inited, registered, on, to, mpc, mi, sel, new, mutation_method>>
           /\ Busy(q)
           /\ \/ /\ UNCHANGED policy
                 /\ \E x \in {"target", "retry", "check", "update", "store"} :
                        pc' = [pc EXCEPT ![q] = x]
              \/ ReturnFrom(q)
<1> USE DEF Busy, mutator, driver
<1>1. CASE SetPolicyCur(q)
  BY <1>1 DEF SetPolicyCur
<1>2. CASE TargetOk(q)
  BY <1>2 DEF TargetOk
<1>3. CASE TargetAgain(q)
  BY <1>3 DEF TargetAgain
<1>4. CASE RetryOk(q)
  BY <1>4 DEF RetryOk
<1>5. CASE TargetFail(q)
  BY <1>5 DEF TargetFail
<1>6. CASE InformNobody(q)
  BY <1>6 DEF InformNobody
<1>7. CASE InformCheck(q)
  BY <1>7 DEF InformCheck
<1>8. CASE InformUpdate(q)
  BY <1>8 DEF InformUpdate
<1>9. CASE InformStore(q)
  BY <1>9 DEF InformStore
<1> QED
  BY <1>1, <1>2, <1>3, <1>4, <1>5, <1>6, <1>7, <1>8, <1>9 DEF SetFreqStep

(* A step of set_freq keeps the policy locks and the phases in order.      *)
LEMMA StepOwn ==
    ASSUME CallInv, NEW q \in Procs, SetFreqStep(q)
    PROVE  UserInv' /\ PhaseInv'
<1> USE Basics DEF Busy
<1>1. /\ UNCHANGED <<inited, registered, on, to, mpc, mi, sel, new, mutation_method>>
      /\ pc[q] # "idle"
  BY StepFrame
<1>2. /\ pc \in [Procs -> {"idle", "cur", "target", "retry", "check", "update", "store"}]
      /\ on \in [Procs -> CPUs] /\ policy \in [CPUs -> Users \cup {Nobody}]
  BY DEF CallInv, TypeOK
<1>3. ASSUME UNCHANGED policy,
             NEW x \in {"target", "retry", "check", "update", "store"},
             pc' = [pc EXCEPT ![q] = x]
      PROVE  UserInv' /\ PhaseInv'
  <2>1. \A r \in Procs : pc'[r] # "idle" <=> pc[r] # "idle"
    BY <1>1, <1>2, <1>3
  <2> QED
    BY <1>1, <1>3, <2>1 DEF CallInv, UserInv, PhaseInv
<1>4. CASE ReturnFrom(q)
  <2>1. \A r \in Procs : pc'[r] = IF r = q THEN "idle" ELSE pc[r]
    BY <1>2, <1>4 DEF ReturnFrom
  <2>2. PhaseInv'
    BY <1>1, <2>1 DEF CallInv, PhaseInv
  <2>3. CASE q = Scheduler
    <3>1. UNCHANGED policy /\ \A u \in Users : pc'[u] = pc[u]
      BY <1>4, <2>1, <2>3 DEF ReturnFrom
    <3> QED
      BY <1>1, <2>2, <3>1 DEF CallInv, UserInv
  <2>4. CASE q \in Users
    <3>1. policy' = [policy EXCEPT ![on[q]] = Nobody] /\ on[q] \in CPUs
      BY <1>2, <1>4, <2>4 DEF ReturnFrom
    <3>2. policy[on[q]] = q
      BY <1>1, <2>4, <3>1 DEF CallInv, UserInv
    <3>3. \A u \in Users, c \in CPUs : policy'[c] = u <=> pc'[u] # "idle" /\ on'[u] = c
      BY <1>1, <1>2, <2>1, <2>4, <3>1, <3>2 DEF CallInv, UserInv
    <3>4. \A u \in Users : pc'[u] # "idle" => registered' /\ mutation_method' = "static"
      BY <1>1, <2>1 DEF CallInv, UserInv
    <3> QED
      BY <2>2, <3>3, <3>4 DEF UserInv
  <2> QED
    BY <2>2, <2>3, <2>4
<1> QED
  BY <1>3, <1>4, StepFrame

(* How the section under states_seq_lock changes the books.                *)
LEMMA UpdateBooks ==
    ASSUME CallInv, NEW q \in Procs, InformUpdate(q)
    PROVE  LET c == on[q]
               s == to[q]
               old == cur_cpu_state[on[q]]
           IN  /\ c \in CPUs /\ s \in States /\ old \in States /\ old # s
               /\ cpumask' \in [States -> SUBSET CPUs] /\ cpus' \in [States -> Int]
               /\ cpumask'[s] = cpumask[s] \cup {c} /\ cpus'[s] = cpus[s] + 1
               /\ cpumask'[old] = cpumask[old] \ {c} /\ cpus'[old] = cpus[old] - 1
               /\ \A t \in States \ {s, old} : cpumask'[t] = cpumask[t] /\ cpus'[t] = cpus[t]
               /\ cur_cpu_state' = [cur_cpu_state EXCEPT ![c] = s]
<1> DEFINE c == on[q]
           s == to[q]
           old == cur_cpu_state[on[q]]
           set == [cpumask EXCEPT ![s] = @ \cup {c}]
           inc == [cpus EXCEPT ![s] = @ + 1]
<1>1. c \in CPUs /\ s \in States /\ old \in States
  BY DEF CallInv, TypeOK
<1>2. old # s
  BY DEF CallInv, StepInv, InformUpdate
<1>3. cpumask \in [States -> SUBSET CPUs] /\ cpus \in [States -> Int]
  BY DEF CallInv, TypeOK
<1>4. /\ cpumask' = [set EXCEPT ![old] = @ \ {c}]
      /\ cpus' = [inc EXCEPT ![old] = @ - 1]
      /\ cur_cpu_state' = [cur_cpu_state EXCEPT ![c] = s]
  BY DEF InformUpdate
<1> HIDE DEF c, s, old
<1>5. set \in [States -> SUBSET CPUs] /\ inc \in [States -> Int]
  BY <1>1, <1>3
<1>6. cpumask' \in [States -> SUBSET CPUs] /\ cpus' \in [States -> Int]
  <2> HIDE DEF set, inc
  <2> QED
    BY <1>1, <1>4, <1>5
<1>7. /\ cpumask'[s] = cpumask[s] \cup {c}
      /\ cpumask'[old] = cpumask[old] \ {c}
      /\ \A t \in States \ {s, old} : cpumask'[t] = cpumask[t]
  BY <1>1, <1>2, <1>3, <1>4
<1>8. /\ cpus'[s] = cpus[s] + 1 /\ cpus'[old] = cpus[old] - 1
      /\ \A t \in States \ {s, old} : cpus'[t] = cpus[t]
  BY <1>1, <1>2, <1>3, <1>4
<1> QED
  BY <1>1, <1>2, <1>4, <1>6, <1>7, <1>8 DEF c, s, old

(* A step of set_freq keeps the types.                                     *)
LEMMA StepType ==
    ASSUME CallInv, NEW q \in Procs, SetFreqStep(q)
    PROVE  TypeOK'
<1> USE Basics
<1>1. UNCHANGED <<inited, registered, on, to, mpc, mi, sel, new, mutation_method>>
  BY StepFrame
<1>2. TypeOK
  BY DEF CallInv
<1>3. /\ on[q] \in CPUs /\ to[q] \in States /\ policy_cur[on[q]] \in States
  BY <1>2 DEF TypeOK
<1>4. pc' \in [Procs -> {"idle", "cur", "target", "retry", "check", "update", "store"}]
  BY <1>2, StepFrame DEF TypeOK, ReturnFrom
<1>5. policy' \in [CPUs -> Users \cup {Nobody}]
  <2>1. policy' = policy \/ policy' = [policy EXCEPT ![on[q]] = Nobody]
    BY StepFrame DEF ReturnFrom
  <2> QED
    BY <1>2, <2>1 DEF TypeOK
<1>6. awake' = awake
  BY DEF SetFreqStep, SetPolicyCur, TargetOk, TargetAgain, RetryOk, TargetFail, InformNobody,
     InformCheck, InformUpdate, InformStore, mutator
<1>7. CASE UNCHANGED <<states, hw, policy_cur>>
  BY <1>1, <1>2, <1>4, <1>5, <1>6, <1>7 DEF TypeOK, states
<1>8. CASE SetPolicyCur(q)
  <2>1. policy_cur' \in [CPUs -> States] /\ UNCHANGED <<states, hw>>
    BY <1>2, <1>3, <1>8 DEF TypeOK, SetPolicyCur
  <2> QED
    BY <1>1, <1>2, <1>4, <1>5, <1>6, <2>1 DEF TypeOK, states
<1>9. CASE TargetOk(q) \/ RetryOk(q)
  <2>1. hw' \in [CPUs -> States] /\ UNCHANGED <<states, policy_cur>>
    BY <1>2, <1>3, <1>9 DEF TypeOK, TargetOk, RetryOk
  <2> QED
    BY <1>1, <1>2, <1>4, <1>5, <1>6, <2>1 DEF TypeOK, states
<1>10. CASE InformUpdate(q)
  <2>1. /\ cpumask' \in [States -> SUBSET CPUs] /\ cpus' \in [States -> Int]
        /\ cur_cpu_state' = [cur_cpu_state EXCEPT ![on[q]] = to[q]]
    BY <1>10, UpdateBooks
  <2>2. cur_cpu_state' \in [CPUs -> States] /\ UNCHANGED <<hw, policy_cur>>
    BY <1>2, <1>3, <1>10, <2>1 DEF TypeOK, InformUpdate, driver
  <2> QED
    BY <1>1, <1>2, <1>4, <1>5, <1>6, <2>1, <2>2 DEF TypeOK
<1>11. CASE InformStore(q)
  <2>1. cur_cpu_state' \in [CPUs -> States] /\ UNCHANGED <<cpumask, cpus, hw, policy_cur>>
    BY <1>2, <1>3, <1>11 DEF TypeOK, InformStore
  <2> QED
    BY <1>1, <1>2, <1>4, <1>5, <1>6, <2>1 DEF TypeOK
<1> QED
  BY <1>7, <1>8, <1>9, <1>10, <1>11
     DEF SetFreqStep, TargetAgain, TargetFail, InformNobody, InformCheck, driver

(* A step of one caller does not disturb what another relies on: they work *)
(* on different cpus.                                                      *)
LEMMA OthersKeep ==
    ASSUME CallInv, NEW q \in Procs, SetFreqStep(q), NEW r \in Procs, r # q, Busy(r)
    PROVE  /\ pc'[r] = pc[r] /\ on'[r] = on[r] /\ to'[r] = to[r]
           /\ cur_cpu_state'[on[r]] = cur_cpu_state[on[r]]
           /\ policy_cur'[on[r]] = policy_cur[on[r]]
           /\ hw'[on[r]] = hw[on[r]]
<1>1. Busy(q) /\ on[q] # on[r]
  BY StepFrame, Exclusive
<1>2. on[q] \in CPUs /\ on[r] \in CPUs
  BY DEF CallInv, TypeOK
<1>3. pc'[r] = pc[r] /\ on'[r] = on[r] /\ to'[r] = to[r]
  BY StepFrame DEF CallInv, TypeOK, ReturnFrom
<1>4. \/ cur_cpu_state' = cur_cpu_state
      \/ cur_cpu_state' = [cur_cpu_state EXCEPT ![on[q]] = to[q]]
  BY DEF SetFreqStep, SetPolicyCur, TargetOk, TargetAgain, RetryOk, TargetFail, InformNobody,
     InformCheck, InformUpdate, InformStore, states
<1>5. policy_cur' = policy_cur \/ policy_cur' = [policy_cur EXCEPT ![on[q]] = to[q]]
  BY DEF SetFreqStep, SetPolicyCur, TargetOk, TargetAgain, RetryOk, TargetFail, InformNobody,
     InformCheck, InformUpdate, InformStore, driver
<1>6. hw' = hw \/ \E s : hw' = [hw EXCEPT ![on[q]] = s]
  BY DEF SetFreqStep, SetPolicyCur, TargetOk, TargetAgain, RetryOk, TargetFail, InformNobody,
     InformCheck, InformUpdate, InformStore, driver
<1>7. cur_cpu_state'[on[r]] = cur_cpu_state[on[r]]
  BY <1>1, <1>2, <1>4 DEF CallInv, TypeOK
<1>8. policy_cur'[on[r]] = policy_cur[on[r]]
  BY <1>1, <1>2, <1>5 DEF CallInv, TypeOK
<1>9. hw'[on[r]] = hw[on[r]]
  BY <1>1, <1>2, <1>6 DEF CallInv, TypeOK
<1> QED
  BY <1>3, <1>7, <1>8, <1>9

(* A step of set_freq leaves every caller where StepInv says.              *)
LEMMA StepStep ==
    ASSUME CallInv, NEW q \in Procs, SetFreqStep(q)
    PROVE  StepInv'
<1> DEFINE Ok(r) == /\ pc[r] \in {"target", "retry"} => policy_cur[on[r]] = to[r]
                    /\ pc[r] \in {"update", "store"} => registered
                    /\ pc[r] = "update" => cur_cpu_state[on[r]] # to[r]
                    /\ pc[r] = "store" => cur_cpu_state[on[r]] = to[r]
<1>1. UNCHANGED <<registered, on, to>>
  BY StepFrame
<1>2. \A r \in Procs : Ok(r)
  BY DEF CallInv, StepInv
<1>3. ASSUME NEW r \in Procs, r # q
      PROVE  Ok(r)'
  <2>1. CASE Busy(r)
    BY <1>1, <1>2, <1>3, <2>1, OthersKeep
  <2>2. CASE ~Busy(r)
    <3>1. pc'[r] = "idle"
      BY <1>3, <2>2, StepFrame DEF CallInv, TypeOK, ReturnFrom, Busy
    <3> QED
      BY <3>1
  <2> QED
    BY <2>1, <2>2
<1>4. Ok(q)'
  <2>0. /\ on[q] \in CPUs /\ to[q] \in States
        /\ pc \in [Procs -> {"idle", "cur", "target", "retry", "check", "update", "store"}]
        /\ policy_cur \in [CPUs -> States] /\ cur_cpu_state \in [CPUs -> States]
    BY DEF CallInv, TypeOK
  <2>1. CASE SetPolicyCur(q)
    BY <2>0, <2>1 DEF SetPolicyCur
  <2>2. CASE TargetOk(q) \/ RetryOk(q)
    BY <2>0, <2>2 DEF TargetOk, RetryOk
  <2>3. CASE TargetAgain(q)
    BY <1>2, <2>0, <2>3 DEF TargetAgain, driver
  <2>4. CASE TargetFail(q) \/ InformNobody(q) \/ InformStore(q)
    BY <2>0, <2>4 DEF TargetFail, InformNobody, InformStore, ReturnFrom
  <2>5. CASE InformCheck(q)
    BY <2>0, <2>5 DEF InformCheck, states
  <2>6. CASE InformUpdate(q)
    <3>1. pc'[q] = "store" /\ cur_cpu_state'[on[q]] = to[q]
      BY <2>0, <2>6 DEF InformUpdate
    <3> QED
      BY <1>1, <1>2, <2>6, <3>1 DEF InformUpdate
  <2> QED
    BY <2>1, <2>2, <2>3, <2>4, <2>5, <2>6 DEF SetFreqStep
<1> QED
  BY <1>3, <1>4 DEF StepInv

(* A step of set_freq offers no cpu that is not initialised.               *)
LEMMA StepMask ==
    ASSUME CallInv, NEW q \in Procs, SetFreqStep(q)
    PROVE  MaskInv'
<1> USE Basics
<1>1. CASE InformUpdate(q)
  <2>1. registered /\ inited = NCpu /\ inited' = inited
    BY <1>1 DEF CallInv, StepInv, PhaseInv, InformUpdate
  <2>2. cpumask' \in [States -> SUBSET CPUs]
    BY <1>1, UpdateBooks
  <2>3. \A c \in CPUs : c < inited
    BY <2>1, CpuStatesAssumption DEF CPUs
  <2> QED
    BY <2>1, <2>2, <2>3 DEF MaskInv
<1>2. CASE UNCHANGED <<cpumask, inited>>
  BY <1>2 DEF CallInv, MaskInv
<1> QED
  BY <1>1, <1>2 DEF SetFreqStep, SetPolicyCur, TargetOk, TargetAgain, RetryOk, TargetFail,
     InformNobody, InformCheck, InformStore, states

(* A call of set_freq by the scheduler's thread, which was idle.           *)
LEMMA SchedulerCalls ==
    ASSUME CallInv, NEW c \in CPUs, NEW s \in States, ~Busy(Scheduler),
           ~registered \/ mutation_method # "static",
           CallSetFreq(Scheduler, c, s),
           UNCHANGED <<registered, states, driver, mutation_method>>
    PROVE  /\ pc' \in [Procs -> {"idle", "cur", "target", "retry", "check", "update", "store"}]
           /\ on' \in [Procs -> CPUs] /\ to' \in [Procs -> States]
           /\ pc'[Scheduler] = "cur" /\ on'[Scheduler] = c /\ to'[Scheduler] = s
           /\ \A u \in Users : pc'[u] = "idle" /\ pc[u] = "idle"
           /\ UserInv' /\ StepInv'
<1> USE Basics
<1>1. /\ pc \in [Procs -> {"idle", "cur", "target", "retry", "check", "update", "store"}]
      /\ on \in [Procs -> CPUs] /\ to \in [Procs -> States]
  BY DEF CallInv, TypeOK
<1>2. /\ pc' \in [Procs -> {"idle", "cur", "target", "retry", "check", "update", "store"}]
      /\ on' \in [Procs -> CPUs] /\ to' \in [Procs -> States]
  BY <1>1 DEF CallSetFreq
<1>3. pc'[Scheduler] = "cur" /\ on'[Scheduler] = c /\ to'[Scheduler] = s
  BY <1>1 DEF CallSetFreq
<1>4. \A u \in Users : pc'[u] = "idle" /\ pc[u] = "idle" /\ on'[u] = on[u]
  BY <1>1 DEF CallSetFreq, CallInv, UserInv, Busy
<1>5. UserInv'
  BY <1>4 DEF CallInv, UserInv, Busy, driver
<1>6. StepInv'
  BY <1>3, <1>4 DEF StepInv
<1> QED
  BY <1>2, <1>3, <1>4, <1>5, <1>6

(* init_cpu_states asks for the frequency of the next cpu.                 *)
LEMMA InitCpuCalls ==
    ASSUME CallInv, NEW s \in States, InitCpu(s)
    PROVE  CallInv'
<1> USE Basics
<1>1. inited \in CPUs /\ ~registered /\ ~Busy(Scheduler)
  BY DEF InitCpu, CallInv, TypeOK, PhaseInv
<1>2. /\ pc' \in [Procs -> {"idle", "cur", "target", "retry", "check", "update", "store"}]
      /\ on' \in [Procs -> CPUs] /\ to' \in [Procs -> States]
      /\ pc'[Scheduler] = "cur" /\ on'[Scheduler] = inited
      /\ UserInv' /\ StepInv'
  BY <1>1, SchedulerCalls DEF InitCpu
<1>3. TypeOK'
  BY <1>2 DEF InitCpu, CallInv, TypeOK, states, driver
<1>4. PhaseInv'
  BY <1>1, <1>2 DEF InitCpu, CallInv, TypeOK, PhaseInv, Busy
<1>5. MaskInv'
  BY DEF InitCpu, CallInv, MaskInv, states
<1> QED
  BY <1>2, <1>3, <1>4, <1>5 DEF CallInv

(* init_cpu_states records the cpu it has just set.                        *)
LEMMA InitRecordCalls ==
    ASSUME CallInv, InitRecord
    PROVE  CallInv'
<1> USE Basics
<1>1. /\ to[Scheduler] \in States /\ inited \in CPUs /\ inited \in 0 .. NCpu /\ inited < NCpu
      /\ ~registered /\ pc[Scheduler] = "idle" /\ inited' = inited + 1
      /\ UNCHANGED <<registered, hw, policy_cur, policy, pc, on, to, mi, sel, new, awake,
                     mutation_method>>
  BY DEF InitRecord, CallInv, TypeOK, PhaseInv, driver, calls
<1>2. \A q \in Procs : pc[q] = "idle"
  BY <1>1 DEF CallInv, UserInv, Busy
<1>3. /\ cpumask' = [cpumask EXCEPT ![to[Scheduler]] = @ \cup {inited}]
      /\ cpus' = [cpus EXCEPT ![to[Scheduler]] = @ + 1]
      /\ cur_cpu_state' = [cur_cpu_state EXCEPT ![inited] = to[Scheduler]]
      /\ mpc' = "idle"
  BY DEF InitRecord
<1>4. /\ cpumask \in [States -> SUBSET CPUs] /\ cpus \in [States -> Int]
      /\ cur_cpu_state \in [CPUs -> States]
  BY DEF CallInv, TypeOK
<1>5. cpumask' \in [States -> SUBSET CPUs]
  BY <1>1, <1>3, <1>4
<1>6. cpus' \in [States -> Int] /\ cur_cpu_state' \in [CPUs -> States]
  BY <1>1, <1>3, <1>4
<1>7. TypeOK'
  <2>1. inited' \in 0 .. NCpu /\ mpc' \in {"idle", "init", "commit", "loop"}
    BY <1>1, <1>3
  <2> QED
    BY <1>1, <1>5, <1>6, <2>1 DEF CallInv, TypeOK
<1>8. UserInv' /\ PhaseInv' /\ StepInv'
  BY <1>1, <1>2, <1>3 DEF CallInv, UserInv, PhaseInv, StepInv, Busy
<1>9. MaskInv'
  <2>1. \A s \in States : cpumask'[s] \subseteq cpumask[s] \cup {inited}
    BY <1>1, <1>3, <1>4
  <2>2. \A s \in States : \A c \in cpumask[s] : c < inited /\ c \in Nat
    BY <1>4 DEF CallInv, MaskInv
  <2> QED
    BY <1>1, <2>1, <2>2 DEF MaskInv
<1> QED
  BY <1>7, <1>8, <1>9 DEF CallInv

(* With all cpus recorded, the scheduler registers with seeker-cpufreq.    *)
LEMMA RegisterCalls ==
    ASSUME CallInv, Register
    PROVE  CallInv'
<1>1. /\ UNCHANGED <<inited, states, driver, calls, mutator>>
      /\ registered' = TRUE /\ ~registered /\ inited = NCpu /\ NCpu \in Nat
  BY Basics DEF Register
<1>2. TypeOK' /\ MaskInv'
  BY <1>1 DEF CallInv, TypeOK, MaskInv, states, driver, calls, mutator
<1>3. PhaseInv'
  BY <1>1 DEF CallInv, PhaseInv, Busy, calls, mutator
<1>4. UserInv' /\ StepInv'
  BY <1>1 DEF CallInv, UserInv, StepInv, Busy, states, driver, calls, mutator
<1> QED
  BY <1>2, <1>3, <1>4 DEF CallInv

(* A user takes the policy lock of a cpu and starts to change it.          *)
LEMMA SetSpeedCalls ==
    ASSUME UsersQuiet, CallInv, NEW u \in Users, NEW c \in CPUs, NEW s \in States,
           SetSpeed(u, c, s)
    PROVE  CallInv'
<1> USE Basics
<1>1. /\ registered /\ mutation_method = "static" /\ pc[u] = "idle" /\ policy[c] = Nobody
      /\ policy' = [policy EXCEPT ![c] = u]
      /\ pc' = [pc EXCEPT ![u] = "cur"] /\ on' = [on EXCEPT ![u] = c]
      /\ to' = [to EXCEPT ![u] = s]
      /\ UNCHANGED <<inited, registered, states, hw, policy_cur, mutator>>
  BY DEF SetSpeed, CallSetFreq, Situation, UsersQuiet
<1>2. /\ pc \in [Procs -> {"idle", "cur", "target", "retry", "check", "update", "store"}]
      /\ on \in [Procs -> CPUs] /\ to \in [Procs -> States]
      /\ policy \in [CPUs -> Users \cup {Nobody}]
  BY DEF CallInv, TypeOK
<1>3. TypeOK'
  <2>1. /\ pc' \in [Procs -> {"idle", "cur", "target", "retry", "check", "update", "store"}]
        /\ on' \in [Procs -> CPUs] /\ to' \in [Procs -> States]
        /\ policy' \in [CPUs -> Users \cup {Nobody}]
    BY <1>1, <1>2
  <2> QED
    BY <1>1, <2>1 DEF CallInv, TypeOK, states, mutator
<1>4. \A q \in Procs : q # u => pc'[q] = pc[q] /\ on'[q] = on[q] /\ to'[q] = to[q]
  BY <1>1, <1>2
<1>5. pc'[u] = "cur" /\ on'[u] = c /\ to'[u] = s
  BY <1>1, <1>2
<1>6. UserInv'
  <2>1. \A v \in Users, d \in CPUs : policy'[d] = v <=> pc'[v] # "idle" /\ on'[v] = d
    <3>1. \A v \in Users, d \in CPUs : policy[d] = v <=> pc[v] # "idle" /\ on[v] = d
      BY DEF CallInv, UserInv, Busy
    <3> QED
      BY <1>1, <1>2, <1>4, <1>5, <3>1
  <2> QED
    BY <1>1, <2>1 DEF UserInv, Busy, mutator
<1>7. PhaseInv'
  BY <1>1, <1>4 DEF CallInv, PhaseInv, Busy, mutator
<1>8. StepInv' /\ MaskInv'
  BY <1>1, <1>4, <1>5 DEF CallInv, StepInv, MaskInv, states
<1> QED
  BY <1>3, <1>6, <1>7, <1>8 DEF CallInv

(* The turn of a governor or of the delta mutator at cpu mi: set_freq is   *)
(* called, or nothing but the loop goes on.                                *)
LEMMA TurnCalls ==
    ASSUME CallInv, mpc = "loop", pc[Scheduler] = "idle", mi < NCpu, mi' = mi + 1,
           NEW s \in States, CallSetFreq(Scheduler, mi, s) \/ UNCHANGED calls,
           awake' \subseteq CPUs,
           UNCHANGED <<inited, registered, states, driver, mpc, sel, new, mutation_method>>
    PROVE  CallInv'
<1> USE Basics
<1>1. mi \in CPUs /\ registered /\ mutation_method # "static" /\ mi \in 0 .. NCpu
  BY DEF CallInv, TypeOK, PhaseInv
<1>2. /\ pc' \in [Procs -> {"idle", "cur", "target", "retry", "check", "update", "store"}]
      /\ on' \in [Procs -> CPUs] /\ to' \in [Procs -> States]
      /\ UserInv' /\ StepInv'
  <2>1. CASE CallSetFreq(Scheduler, mi, s)
    BY <1>1, <2>1, SchedulerCalls DEF Busy
  <2>2. CASE UNCHANGED calls
    BY <2>2 DEF CallInv, TypeOK, UserInv, StepInv, Busy, calls, states, driver
  <2> QED
    BY <2>1, <2>2
<1>3. TypeOK'
  <2>1. mi' \in 0 .. NCpu
    BY <1>1
  <2> QED
    BY <1>2, <2>1 DEF CallInv, TypeOK, states, driver
<1>4. PhaseInv' /\ MaskInv'
  BY <1>1 DEF CallInv, PhaseInv, MaskInv, states
<1> QED
  BY <1>2, <1>3, <1>4 DEF CallInv

(* One cpu in the loop of the ondemand and conservative mutators.          *)
LEMMA GovernorTurnCalls ==
    ASSUME CallInv, NEW busy \in BOOLEAN, GovernorTurn(busy)
    PROVE  CallInv'
<1> USE Basics
<1>1. mi \in CPUs /\ cur_cpu_state[mi] \in States
  BY DEF CallInv, TypeOK, GovernorTurn
<1>2. Wanted(mi, busy) \in States
  BY <1>1, CpuStatesAssumption DEF Wanted, GovernorTurn, States
<1>3. awake' \subseteq CPUs
  BY DEF CallInv, TypeOK, GovernorTurn
<1> QED
  BY <1>2, <1>3, TurnCalls DEF GovernorTurn

(* One cpu in the loop of the delta mutator.                               *)
LEMMA DeltaTurnCalls ==
    ASSUME CallInv, DeltaTurn
    PROVE  CallInv'
<1> USE Basics
<1>1. mi \in CPUs /\ awake \subseteq CPUs /\ new \in [CPUs -> States]
  BY DEF CallInv, TypeOK, DeltaTurn
<1> DEFINE goal == IF mi \in sel THEN new[mi] ELSE 0
<1>2. goal \in States
  BY <1>1
<1>3. CallSetFreq(Scheduler, mi, goal) \/ UNCHANGED calls
  BY DEF DeltaTurn
<1>4. awake' \subseteq CPUs
  BY <1>1 DEF DeltaTurn
<1> HIDE DEF goal
<1> QED
  BY <1>2, <1>3, <1>4, TurnCalls DEF DeltaTurn

(* The other steps of the mutators change no cpu.                          *)
LEMMA MutatorCalls ==
    ASSUME CallInv,
           \/ GovernorBegin \/ DeltaCommit \/ MutatorEnd
           \/ \E W, U \in SUBSET CPUs, layout \in [CPUs -> States] : DeltaBegin(W, U, layout)
    PROVE  CallInv'
<1> USE Basics
<1>1. UNCHANGED <<inited, registered, cur_cpu_state, driver, calls, mutation_method>>
  BY DEF GovernorBegin, DeltaCommit, MutatorEnd, DeltaBegin, states
<1>2. UserInv' /\ StepInv'
  BY <1>1 DEF CallInv, UserInv, StepInv, Busy, driver, calls
<1>3. CASE GovernorBegin
  <2>1. mpc' = "loop" /\ mi' = 0 /\ UNCHANGED <<cpumask, cpus, sel, new, awake>>
    BY <1>3 DEF GovernorBegin, states
  <2>2. TypeOK'
    BY <1>1, <2>1 DEF CallInv, TypeOK, driver, calls
  <2>3. PhaseInv' /\ MaskInv'
    BY <1>1, <1>3, <2>1 DEF CallInv, PhaseInv, MaskInv, GovernorBegin, calls, Busy
  <2> QED
    BY <1>2, <2>2, <2>3 DEF CallInv
<1>4. CASE MutatorEnd
  <2>1. /\ mpc' = "idle" /\ mi' = 0 /\ sel' = {} /\ new' \in [CPUs -> States]
        /\ UNCHANGED <<cpumask, cpus, awake>>
    BY <1>4 DEF MutatorEnd, states
  <2>2. TypeOK'
    BY <1>1, <2>1 DEF CallInv, TypeOK, driver, calls
  <2>3. PhaseInv' /\ MaskInv'
    BY <1>1, <1>4, <2>1 DEF CallInv, PhaseInv, MaskInv, MutatorEnd, calls, Busy
  <2> QED
    BY <1>2, <2>2, <2>3 DEF CallInv
<1>5. ASSUME NEW W \in SUBSET CPUs, NEW U \in SUBSET CPUs, NEW layout \in [CPUs -> States],
             DeltaBegin(W, U, layout)
      PROVE  CallInv'
  <2>1. /\ mpc' = "commit" /\ sel' \subseteq CPUs /\ new' \in [CPUs -> States]
        /\ awake' \subseteq CPUs /\ UNCHANGED <<cpumask, cpus, mi>>
    BY <1>5 DEF DeltaBegin, states
  <2>2. TypeOK'
    BY <1>1, <2>1 DEF CallInv, TypeOK, driver, calls
  <2>3. PhaseInv' /\ MaskInv'
    BY <1>1, <1>5, <2>1 DEF CallInv, PhaseInv, MaskInv, DeltaBegin, calls, Busy
  <2> QED
    BY <1>2, <2>2, <2>3 DEF CallInv
<1>6. CASE DeltaCommit
  <2>1. /\ mpc' = "loop" /\ mi' = 0 /\ UNCHANGED <<sel, new, awake>>
        /\ cpumask' = [s \in States |-> {c \in sel : new[c] = s}]
        /\ cpus' = [s \in States |-> Cardinality({c \in sel : new[c] = s})]
    BY <1>6 DEF DeltaCommit
  <2>2. sel \subseteq CPUs
    BY DEF CallInv, TypeOK
  <2>3. cpumask' \in [States -> SUBSET CPUs]
    BY <2>1, <2>2
  <2>4. \A s \in States : Cardinality({c \in sel : new[c] = s}) \in Nat
    <3> TAKE s \in States
    <3>1. {c \in sel : new[c] = s} \subseteq CPUs
      BY <2>2
    <3> QED
      BY <3>1, FS_Subset, FS_CardinalityType
  <2>5. cpus' \in [States -> Int]
    BY <2>1, <2>4
  <2>6. TypeOK'
    BY <1>1, <2>1, <2>3, <2>5 DEF CallInv, TypeOK, driver, calls
  <2>7. PhaseInv'
    BY <1>1, <1>6, <2>1 DEF CallInv, PhaseInv, DeltaCommit, calls, Busy
  <2>8. MaskInv'
    <3>1. inited' = NCpu
      BY <1>1, <1>6 DEF CallInv, PhaseInv, DeltaCommit
    <3>2. \A c \in CPUs : c < NCpu
      BY CpuStatesAssumption DEF CPUs
    <3> QED
      BY <2>3, <3>1, <3>2 DEF MaskInv
  <2> QED
    BY <1>2, <2>6, <2>7, <2>8 DEF CallInv
<1> QED
  BY <1>3, <1>4, <1>5, <1>6

(* The facts about the callers hold before the scheduler is loaded.        *)
LEMMA CallsInit ==
    ASSUME Init
    PROVE  CallInv
<1> USE Basics
<1>1. TypeOK
  <2>1. /\ cpumask \in [States -> SUBSET CPUs] /\ cpus \in [States -> Int]
        /\ cur_cpu_state \in [CPUs -> States] /\ new \in [CPUs -> States]
        /\ hw \in [CPUs -> States] /\ policy_cur \in [CPUs -> States]
    BY DEF Init
  <2>2. /\ pc \in [Procs -> {"idle", "cur", "target", "retry", "check", "update", "store"}]
        /\ on \in [Procs -> CPUs] /\ to \in [Procs -> States]
        /\ policy \in [CPUs -> Users \cup {Nobody}]
    BY DEF Init
  <2>3. inited \in 0 .. NCpu /\ mi \in 0 .. NCpu
    <3>1. NCpu \in Nat
      OBVIOUS
    <3>2. inited = 0 /\ mi = 0
      BY DEF Init
    <3> QED
      BY <3>1, <3>2
  <2>4. sel \subseteq CPUs /\ awake \subseteq CPUs
    BY DEF Init
  <2> QED
    BY <2>1, <2>2, <2>3, <2>4 DEF Init, TypeOK
<1>2. UserInv /\ PhaseInv /\ StepInv /\ MaskInv
  BY DEF Init, UserInv, PhaseInv, StepInv, MaskInv, Busy
<1> QED
  BY <1>1, <1>2 DEF CallInv

(* Every step keeps the facts about the callers.                           *)
LEMMA CallsNext ==
    ASSUME UsersQuiet, CallInv, [Next]_vars
    PROVE  CallInv'
<1>1. ASSUME NEW q \in Procs, SetFreqStep(q)
      PROVE  CallInv'
  BY <1>1, StepOwn, StepType, StepStep, StepMask DEF CallInv
<1>2. CASE UNCHANGED vars
  BY <1>2 DEF vars, states, driver, calls, mutator, CallInv, TypeOK, UserInv, PhaseInv, StepInv,
     MaskInv, Busy
<1> QED
  BY <1>1, <1>2, InitCpuCalls, InitRecordCalls, RegisterCalls, SetSpeedCalls,
     GovernorTurnCalls, DeltaTurnCalls, MutatorCalls DEF Next

(* So they always hold.                                                    *)
LEMMA AlwaysCalls ==
    ASSUME UsersQuiet
    PROVE  Spec => []CallInv
<1>1. Init => CallInv
  BY CallsInit
<1>2. CallInv /\ [Next]_vars => CallInv'
  BY CallsNext
<1> QED
  BY <1>1, <1>2, PTL DEF Spec

-----------------------------------------------------------------------------

(* The books: only init_cpu_states, the section under states_seq_lock and  *)
(* the commit of the delta mutator write them.                             *)
LEMMA BooksNext ==
    ASSUME CallInv, BooksBalance, [Next]_vars
    PROVE  BooksBalance'
<1> USE Basics
<1>1. CASE UNCHANGED <<mutation_method, cpus, cpumask, inited, cur_cpu_state>>
  BY <1>1 DEF BooksBalance
<1>2. CASE mutation_method = "delta" /\ UNCHANGED mutation_method
  BY <1>2 DEF BooksBalance
<1> DEFINE Sound == /\ \A s \in States : cpus[s] = Cardinality(cpumask[s])
                    /\ \A s \in States, c \in CPUs :
                           c < inited => (c \in cpumask[s] <=> cur_cpu_state[c] = s)
<1>3. \A s \in States : IsFiniteSet(cpumask[s]) /\ cpumask[s] \subseteq CPUs
  <2>1. \A s \in States : cpumask[s] \subseteq CPUs
    BY DEF CallInv, TypeOK
  <2> QED
    BY <2>1, FS_Subset
<1>4. ASSUME InitRecord, Sound
      PROVE  Sound'
  <2> DEFINE s == to[Scheduler]
  <2>1. s \in States /\ inited \in CPUs /\ inited' = inited + 1
    BY <1>4 DEF InitRecord, CallInv, TypeOK, PhaseInv
  <2>2. \A t \in States : inited \notin cpumask[t]
    BY <2>1 DEF CallInv, MaskInv
  <2>3. /\ \A t \in States : /\ cpumask'[t] = IF t = s THEN cpumask[s] \cup {inited} ELSE cpumask[t]
                             /\ cpus'[t] = IF t = s THEN cpus[s] + 1 ELSE cpus[t]
        /\ \A c \in CPUs : cur_cpu_state'[c] = IF c = inited THEN s ELSE cur_cpu_state[c]
    BY <1>4, <2>1 DEF InitRecord, CallInv, TypeOK
  <2> HIDE DEF s
  <2>4. Cardinality(cpumask[s] \cup {inited}) = Cardinality(cpumask[s]) + 1
    BY <1>3, <2>1, <2>2, FS_AddElement
  <2>5. \A t \in States : cpus'[t] = Cardinality(cpumask'[t])
    BY <1>4, <2>3, <2>4
  <2>6. \A t \in States, c \in CPUs :
            c < inited' => (c \in cpumask'[t] <=> cur_cpu_state'[c] = t)
    <3> TAKE t \in States, c \in CPUs
    <3>1. CASE c = inited
      BY <2>1, <2>2, <2>3, <3>1
    <3>2. CASE c < inited
      <4>1. c # inited /\ (c \in cpumask[t] <=> cur_cpu_state[c] = t)
        BY <1>4, <2>1, <3>2
      <4>2. c \in cpumask'[t] <=> c \in cpumask[t]
        BY <2>3, <4>1
      <4>3. cur_cpu_state'[c] = cur_cpu_state[c]
        BY <2>3, <4>1
      <4> QED
        BY <4>1, <4>2, <4>3
    <3> QED
      BY <2>1, <3>1, <3>2 DEF CallInv, TypeOK
  <2> QED
    BY <2>5, <2>6
<1>5. ASSUME NEW q \in Procs, InformUpdate(q), Sound
      PROVE  Sound'
  <2> DEFINE c == on[q]
             s == to[q]
             old == cur_cpu_state[on[q]]
  <2>1. /\ c \in CPUs /\ s \in States /\ old \in States /\ old # s
        /\ cpumask'[s] = cpumask[s] \cup {c} /\ cpus'[s] = cpus[s] + 1
        /\ cpumask'[old] = cpumask[old] \ {c} /\ cpus'[old] = cpus[old] - 1
        /\ \A t \in States \ {s, old} : cpumask'[t] = cpumask[t] /\ cpus'[t] = cpus[t]
        /\ cur_cpu_state' = [cur_cpu_state EXCEPT ![c] = s]
    BY <1>5, UpdateBooks
  <2>2. cur_cpu_state[c] = old
    OBVIOUS
  <2>3. inited = NCpu /\ inited' = NCpu
    BY <1>5 DEF CallInv, StepInv, PhaseInv, InformUpdate
  <2> HIDE DEF c, s, old
  <2>4. c < inited
    BY <2>1, <2>3, CpuStatesAssumption DEF CPUs
  <2>5. c \in cpumask[old] /\ c \notin cpumask[s]
    BY <1>5, <2>1, <2>2, <2>4
  <2>6. Cardinality(cpumask[s] \cup {c}) = Cardinality(cpumask[s]) + 1
    BY <1>3, <2>1, <2>5, FS_AddElement
  <2>7. Cardinality(cpumask[old] \ {c}) = Cardinality(cpumask[old]) - 1
    BY <1>3, <2>1, <2>5, FS_RemoveElement
  <2>8. \A t \in States : cpus'[t] = Cardinality(cpumask'[t])
    BY <1>5, <2>1, <2>6, <2>7
  <2>9. \A t \in States, d \in CPUs : d \in cpumask'[t] <=> cur_cpu_state'[d] = t
    <3>1. \A t \in States, d \in CPUs : d \in cpumask[t] <=> cur_cpu_state[d] = t
      BY <1>5, <2>3, CpuStatesAssumption DEF CPUs
    <3>2. cur_cpu_state \in [CPUs -> States]
      BY DEF CallInv, TypeOK
    <3> QED
      BY <2>1, <2>2, <3>1, <3>2
  <2> QED
    BY <2>8, <2>9
<1>6. ASSUME NEW q \in Procs, InformStore(q)
      PROVE  UNCHANGED <<mutation_method, cpus, cpumask, inited, cur_cpu_state>>
  <2>1. cur_cpu_state[on[q]] = to[q] /\ cur_cpu_state \in [CPUs -> States] /\ on[q] \in CPUs
    BY <1>6 DEF InformStore, CallInv, StepInv, TypeOK
  <2> QED
    BY <1>6, <2>1 DEF InformStore, mutator
<1>7. CASE InitRecord
  BY <1>4, <1>7 DEF BooksBalance, InitRecord
<1>8. CASE \E q \in Procs : SetFreqStep(q)
  <2> PICK q \in Procs : SetFreqStep(q)
    BY <1>8
  <2>1. CASE InformUpdate(q)
    BY <1>5, <2>1 DEF BooksBalance, InformUpdate, mutator
  <2>2. CASE InformStore(q)
    BY <1>1, <1>6, <2>2
  <2>3. CASE UNCHANGED <<mutation_method, cpus, cpumask, inited, cur_cpu_state>>
    BY <1>1, <2>3
  <2> QED
    BY <2>1, <2>2, <2>3 DEF SetFreqStep, SetPolicyCur, TargetOk, TargetAgain, RetryOk,
       TargetFail, InformNobody, InformCheck, states, mutator
<1>9. CASE DeltaCommit
  BY <1>2, <1>9 DEF DeltaCommit, CallInv, PhaseInv
<1> QED
  BY <1>1, <1>7, <1>8, <1>9 DEF Next, InitCpu, Register, SetSpeed, GovernorBegin, GovernorTurn,
     DeltaBegin, DeltaTurn, MutatorEnd, vars, states, mutator

(* Unless the delta mutator is at work, each cpu is at every instant in the*)
(* mask of its current state and in no other, and states[s].cpus counts    *)
(* that mask: through init_cpu_states, every set_freq of a governor or of  *)
(* concurrent users, and every refusal of the driver.                      *)
THEOREM BooksAlwaysBalance ==
    ASSUME UsersQuiet
    PROVE  Spec => []BooksBalance
<1>1. Init => BooksBalance
  BY Basics, FS_EmptySet DEF Init, BooksBalance
<1>2. CallInv /\ BooksBalance /\ [Next]_vars => BooksBalance'
  BY BooksNext
<1> QED
  BY <1>1, <1>2, AlwaysCalls, PTL DEF Spec

-----------------------------------------------------------------------------

(* The hardware: a set_freq brings its cpu, and only that, from the state  *)
(* on record to the one it was asked for, or leaves it when it is refused. *)
LEMMA StepHw ==
    ASSUME "init" \notin DriverFails, CallInv, HwInv, NEW q \in Procs, SetFreqStep(q)
    PROVE  HwInv'
<1> USE Basics
<1>1. /\ UNCHANGED <<inited, registered, on, to, mpc, mi, sel, new, mutation_method>>
      /\ Busy(q)
  BY StepFrame
<1>2. /\ on[q] \in CPUs /\ to[q] \in States
      /\ pc \in [Procs -> {"idle", "cur", "target", "retry", "check", "update", "store"}]
      /\ cur_cpu_state \in [CPUs -> States] /\ hw \in [CPUs -> States]
  BY DEF CallInv, TypeOK
<1> DEFINE c == on[q]
           Early(r) == pc[r] \in {"cur", "target", "retry"} /\ registered =>
                           cur_cpu_state[on[r]] = hw[on[r]]
           Late(r) == pc[r] \in {"check", "update", "store"} => hw[on[r]] = to[r]
<1>3. Early(q) /\ Late(q)
  BY DEF HwInv
(* Where the cpu is after the step.                                        *)
<1>4. /\ Early(q)' /\ Late(q)'
      /\ pc'[q] = "idle" /\ registered => cur_cpu_state'[c] = hw'[c]
      /\ pc'[q] = "idle" /\ ~registered => hw'[c] = to[q]
  <2>1. CASE SetPolicyCur(q)
    BY <1>1, <1>2, <1>3, <2>1 DEF SetPolicyCur, states
  <2>2. CASE TargetOk(q)
    BY <1>1, <1>2, <2>2 DEF TargetOk
  <2>3. CASE TargetAgain(q)
    BY <1>1, <1>2, <1>3, <2>3 DEF TargetAgain, states, driver
  <2>4. CASE RetryOk(q)
    <3>1. policy_cur[on[q]] = to[q]
      BY <2>4 DEF CallInv, StepInv, RetryOk
    <3> QED
      BY <1>1, <1>2, <2>4, <3>1 DEF RetryOk
  <2>5. CASE TargetFail(q)
    <3>1. registered
      BY <2>5 DEF TargetFail, MayFail, Situation
    <3> QED
      BY <1>1, <1>2, <1>3, <2>5, <3>1 DEF TargetFail, ReturnFrom, states
  <2>6. CASE InformNobody(q)
    BY <1>1, <1>2, <1>3, <2>6 DEF InformNobody, ReturnFrom
  <2>7. CASE InformCheck(q)
    BY <1>1, <1>2, <1>3, <2>7 DEF InformCheck, driver
  <2>8. CASE InformUpdate(q)
    BY <1>1, <1>2, <1>3, <2>8 DEF InformUpdate, driver
  <2>9. CASE InformStore(q)
    <3>1. registered
      BY <2>9 DEF InformStore, CallInv, StepInv
    <3> QED
      BY <1>1, <1>2, <1>3, <2>9, <3>1 DEF InformStore, ReturnFrom
  <2> QED
    BY <2>1, <2>2, <2>3, <2>4, <2>5, <2>6, <2>7, <2>8, <2>9 DEF SetFreqStep
<1>5. \A d \in CPUs : d # c => cur_cpu_state'[d] = cur_cpu_state[d] /\ hw'[d] = hw[d]
  <2>1. \/ cur_cpu_state' = cur_cpu_state
        \/ cur_cpu_state' = [cur_cpu_state EXCEPT ![on[q]] = to[q]]
    BY DEF SetFreqStep, SetPolicyCur, TargetOk, TargetAgain, RetryOk, TargetFail, InformNobody,
       InformCheck, InformUpdate, InformStore, states
  <2>2. hw' = hw \/ \E s : hw' = [hw EXCEPT ![on[q]] = s]
    BY DEF SetFreqStep, SetPolicyCur, TargetOk, TargetAgain, RetryOk, TargetFail, InformNobody,
       InformCheck, InformUpdate, InformStore, driver
  <2>3. \A d \in CPUs : d # c => cur_cpu_state'[d] = cur_cpu_state[d]
    BY <1>2, <2>1
  <2>4. \A d \in CPUs : d # c => hw'[d] = hw[d]
    BY <1>2, <2>2
  <2> QED
    BY <2>3, <2>4
<1>6. \A r \in Procs : r # q => pc'[r] = pc[r]
  BY <1>2, StepFrame DEF ReturnFrom
<1>7. \A r \in Procs : Early(r)' /\ Late(r)'
  <2> TAKE r \in Procs
  <2>1. CASE r # q /\ Busy(r)
    <3>1. /\ pc'[r] = pc[r] /\ on'[r] = on[r] /\ to'[r] = to[r]
          /\ cur_cpu_state'[on[r]] = cur_cpu_state[on[r]] /\ hw'[on[r]] = hw[on[r]]
      BY <2>1, OthersKeep
    <3>2. Early(r) /\ Late(r)
      BY DEF HwInv
    <3> QED
      BY <1>1, <3>1, <3>2
  <2>2. CASE r # q /\ ~Busy(r)
    BY <1>6, <2>2 DEF Busy
  <2> QED
    BY <1>4, <2>1, <2>2
<1>8. ASSUME NEW d \in CPUs, d < inited', \A r \in Procs : Busy(r)' => on'[r] # d
      PROVE  cur_cpu_state'[d] = hw'[d]
  <2>1. CASE d = c
    <3>1. pc'[q] = "idle"
      BY <1>1, <1>8, <2>1 DEF Busy
    <3>2. CASE registered
      BY <1>4, <2>1, <3>1, <3>2
    <3>3. CASE ~registered
      <4>1. q = Scheduler /\ on[q] = inited
        BY <1>1, <3>3 DEF CallInv, UserInv, PhaseInv
      <4>2. d \in Nat /\ d < d
        BY <1>1, <1>8, <2>1, <4>1
      <4> QED
        BY <4>2
    <3> QED
      BY <3>2, <3>3
  <2>2. CASE d # c
    <3>1. \A r \in Procs : Busy(r) => on[r] # d
      BY <1>1, <1>6, <1>8, <2>2 DEF Busy
    <3> QED
      BY <1>1, <1>5, <1>8, <2>2, <3>1 DEF HwInv
  <2> QED
    BY <2>1, <2>2
<1>9. mpc' = "init" /\ ~Busy(Scheduler)' => hw'[inited'] = to'[Scheduler]
  <2> SUFFICES ASSUME mpc' = "init", pc'[Scheduler] = "idle"
               PROVE  hw'[inited'] = to'[Scheduler]
    BY DEF Busy
  <2>1. ~registered /\ on[Scheduler] = inited
    BY <1>1 DEF CallInv, PhaseInv
  <2>2. q = Scheduler
    BY <1>1, <2>1 DEF CallInv, UserInv
  <2> QED
    BY <1>1, <1>4, <2>1, <2>2
<1> QED
  BY <1>7, <1>8, <1>9 DEF HwInv

(* Every step keeps what is known about the hardware.                      *)
LEMMA HwNext ==
    ASSUME UsersQuiet, "init" \notin DriverFails, CallInv, HwInv, [Next]_vars
    PROVE  HwInv'
<1> USE Basics
<1>0. /\ pc \in [Procs -> {"idle", "cur", "target", "retry", "check", "update", "store"}]
      /\ on \in [Procs -> CPUs] /\ to \in [Procs -> States] /\ inited \in 0 .. NCpu
      /\ cur_cpu_state \in [CPUs -> States] /\ hw \in [CPUs -> States]
  BY DEF CallInv, TypeOK
(* A call begins on a cpu that nobody works on.                            *)
<1>1. ASSUME NEW q \in Procs, NEW c \in CPUs, NEW s \in States, CallSetFreq(q, c, s), ~Busy(q),
             registered => \A r \in Procs : Busy(r) => on[r] # c,
             UNCHANGED <<inited, registered, states, hw>>, mpc' = "init" => q = Scheduler
      PROVE  HwInv'
  <2>1. /\ pc'[q] = "cur" /\ on'[q] = c
        /\ \A r \in Procs : r # q => pc'[r] = pc[r] /\ on'[r] = on[r] /\ to'[r] = to[r]
    BY <1>0, <1>1 DEF CallSetFreq
  <2>2. \A r \in Procs : Busy(r) => r # q
    BY <1>1
  <2>3. \A d \in CPUs :
            d < inited' /\ (\A r \in Procs : Busy(r)' => on'[r] # d) => cur_cpu_state'[d] = hw'[d]
    <3> SUFFICES ASSUME NEW d \in CPUs, d < inited', \A r \in Procs : Busy(r)' => on'[r] # d
                 PROVE  cur_cpu_state'[d] = hw'[d]
      OBVIOUS
    <3>1. \A r \in Procs : Busy(r) => on[r] # d
      BY <2>1, <2>2 DEF Busy
    <3> QED
      BY <1>1, <3>1 DEF HwInv, states
  <2>4. registered => cur_cpu_state[c] = hw[c]
    <3>1. registered => c < inited
      BY CpuStatesAssumption DEF CallInv, PhaseInv, CPUs
    <3> QED
      BY <1>1, <3>1 DEF HwInv
  <2>5. \A r \in Procs :
            /\ pc'[r] \in {"cur", "target", "retry"} /\ registered' =>
                   cur_cpu_state'[on'[r]] = hw'[on'[r]]
            /\ pc'[r] \in {"check", "update", "store"} => hw'[on'[r]] = to'[r]
    BY <1>1, <2>1, <2>4 DEF HwInv, states
  <2>6. mpc' = "init" => Busy(Scheduler)'
    BY <1>1, <2>1 DEF Busy
  <2> QED
    BY <2>3, <2>5, <2>6 DEF HwInv
<1>2. CASE \E s \in States : InitCpu(s)
  <2> PICK s \in States : InitCpu(s)
    BY <1>2
  <2>1. inited \in CPUs /\ ~Busy(Scheduler) /\ ~registered
    BY <1>0 DEF InitCpu, CallInv, PhaseInv
  <2> QED
    BY <1>1, <2>1 DEF InitCpu, driver
<1>3. CASE InitRecord
  <2>1. /\ inited \in CPUs /\ inited' = inited + 1 /\ ~registered /\ ~Busy(Scheduler)
        /\ UNCHANGED <<hw, registered, pc, on, to>> /\ mpc' = "idle"
        /\ hw[inited] = to[Scheduler]
        /\ cur_cpu_state' = [cur_cpu_state EXCEPT ![inited] = to[Scheduler]]
    BY <1>0, <1>3 DEF InitRecord, CallInv, PhaseInv, HwInv, Busy, driver, calls
  <2>2. \A r \in Procs : ~Busy(r)
    BY <2>1 DEF CallInv, UserInv
  <2>3. \A d \in CPUs : d < inited' => cur_cpu_state'[d] = hw'[d]
    <3> SUFFICES ASSUME NEW d \in CPUs, d < inited'
                 PROVE  cur_cpu_state'[d] = hw'[d]
      OBVIOUS
    <3>1. CASE d = inited
      BY <1>0, <2>1, <3>1
    <3>2. CASE d # inited
      <4>1. d < inited
        BY <1>0, <2>1, <3>2
      <4>2. cur_cpu_state[d] = hw[d]
        BY <2>2, <4>1 DEF HwInv
      <4> QED
        BY <1>0, <2>1, <3>2, <4>2
    <3> QED
      BY <3>1, <3>2
  <2>4. \A r \in Procs : pc'[r] = "idle"
    BY <2>1, <2>2 DEF Busy
  <2> QED
    BY <2>1, <2>3, <2>4 DEF HwInv
<1>4. CASE Register
  <2>1. UNCHANGED <<inited, cur_cpu_state, hw, pc, on, to, mpc>> /\ ~registered /\ inited = NCpu
    BY <1>4 DEF Register, states, driver, calls, mutator
  <2>2. mpc # "init" /\ \A r \in Procs : pc[r] = "idle"
    BY <2>1 DEF CallInv, UserInv, PhaseInv, Busy
  <2> QED
    BY <2>1, <2>2 DEF HwInv, Busy
<1>5. CASE \E u \in Users, c \in CPUs, s \in States : SetSpeed(u, c, s)
  <2> PICK u \in Users, c \in CPUs, s \in States : SetSpeed(u, c, s)
    BY <1>5
  <2>1. /\ registered /\ mutation_method = "static" /\ ~Busy(u) /\ policy[c] = Nobody
        /\ CallSetFreq(u, c, s)
        /\ UNCHANGED <<inited, registered, states, hw, mpc>>
    BY DEF SetSpeed, Situation, UsersQuiet, Busy, mutator
  <2>2. mpc # "init" /\ ~Busy(Scheduler)
    BY <2>1 DEF CallInv, PhaseInv
  <2>3. \A r \in Procs : Busy(r) => on[r] # c
    BY <2>1, <2>2 DEF CallInv, UserInv
  <2> QED
    BY <1>1, <2>1, <2>2, <2>3
<1>6. CASE \E q \in Procs : SetFreqStep(q)
  BY <1>6, StepHw
(* A turn of a governor or of the delta mutator.                           *)
<1>7. ASSUME mpc = "loop", pc[Scheduler] = "idle", mi \in CPUs,
             NEW s \in States, CallSetFreq(Scheduler, mi, s) \/ UNCHANGED calls,
             UNCHANGED <<inited, registered, states, driver, mpc>>
      PROVE  HwInv'
  <2>1. \A r \in Procs : ~Busy(r)
    BY <1>7 DEF CallInv, UserInv, PhaseInv, Busy
  <2>2. CASE CallSetFreq(Scheduler, mi, s)
    BY <1>1, <1>7, <2>1, <2>2 DEF driver
  <2>3. CASE UNCHANGED calls
    BY <1>7, <2>3 DEF HwInv, Busy, calls, states, driver
  <2> QED
    BY <1>7, <2>2, <2>3
<1>8. CASE \E busy \in BOOLEAN : GovernorTurn(busy)
  <2> PICK busy \in BOOLEAN : GovernorTurn(busy)
    BY <1>8
  <2>1. mi \in CPUs
    BY DEF CallInv, TypeOK, GovernorTurn
  <2>2. Wanted(mi, busy) \in States
    BY <1>0, <2>1, CpuStatesAssumption DEF Wanted, GovernorTurn, States
  <2> QED
    BY <1>7, <2>1, <2>2 DEF GovernorTurn
<1>9. CASE DeltaTurn
  <2> DEFINE goal == IF mi \in sel THEN new[mi] ELSE 0
  <2>1. mi \in CPUs /\ goal \in States
    BY <1>9 DEF CallInv, TypeOK, DeltaTurn
  <2>2. CallSetFreq(Scheduler, mi, goal) \/ UNCHANGED calls
    BY <1>9 DEF DeltaTurn
  <2> HIDE DEF goal
  <2> QED
    BY <1>7, <1>9, <2>1, <2>2 DEF DeltaTurn
<1>10. CASE /\ UNCHANGED <<inited, registered, cur_cpu_state, driver, calls>>
            /\ mpc' = "init" => mpc = "init"
  BY <1>10 DEF HwInv, Busy, driver, calls
<1> QED
  BY <1>2, <1>3, <1>4, <1>5, <1>6, <1>8, <1>9, <1>10
     DEF Next, GovernorBegin, DeltaBegin, DeltaCommit, MutatorEnd, vars, states, mutator

(* cur_cpu_state is the state the hardware is in, for every cpu that nobody*)
(* is changing, if the driver obeys init_cpu_states (which does not look at*)
(* the answer): later refusals are never recorded, and set_freq calls of   *)
(* different users do not mix.                                             *)
THEOREM StatesReflectHardware ==
    ASSUME UsersQuiet, "init" \notin DriverFails
    PROVE  Spec => []ReflectsHardware
<1>1. Init => HwInv
  BY Basics DEF Init, HwInv, Busy
<1>2. CallInv /\ HwInv /\ [Next]_vars => HwInv'
  BY HwNext
<1>3. CallInv /\ HwInv => ReflectsHardware
  <2> SUFFICES ASSUME CallInv, HwInv, registered, NEW c \in CPUs, Quiet(c)
               PROVE  cur_cpu_state[c] = hw[c]
    BY DEF ReflectsHardware
  <2>1. c < inited
    BY CpuStatesAssumption DEF CallInv, PhaseInv, CPUs
  <2>2. \A q \in Procs : Busy(q) => on[q] # c
    BY Basics DEF Quiet, CallInv, UserInv, Busy
  <2> QED
    BY <2>1, <2>2 DEF HwInv
<1> QED
  BY <1>1, <1>2, <1>3, AlwaysCalls, PTL DEF Spec

-----------------------------------------------------------------------------

(* A step of set_freq keeps the promise of the delta mutator.              *)
LEMMA StepDelta ==
    ASSUME DriverFails \cap {"init", "delta"} = {}, CallInv, DeltaInv,
           NEW q \in Procs, SetFreqStep(q)
    PROVE  DeltaInv'
<1> USE Basics
<1>1. /\ UNCHANGED <<inited, registered, on, to, mpc, mi, sel, new, mutation_method>>
      /\ Busy(q)
  BY StepFrame
<1> SUFFICES ASSUME mutation_method = "delta"
             PROVE  DeltaInv'
  BY <1>1 DEF DeltaInv
<1>2. q = Scheduler /\ mpc \in {"init", "loop"}
  BY <1>1 DEF CallInv, UserInv, PhaseInv
<1>3. /\ on[q] \in CPUs /\ to[q] \in States /\ cur_cpu_state \in [CPUs -> States]
      /\ pc \in [Procs -> {"idle", "cur", "target", "retry", "check", "update", "store"}]
      /\ cpumask \in [States -> SUBSET CPUs]
  BY DEF CallInv, TypeOK
<1>4. ~MayFail
  BY DEF MayFail, Situation
<1>5. pc'[Scheduler] # "retry"
  <2>1. ~TargetAgain(q)
    BY <1>4 DEF TargetAgain
  <2> QED
    BY <1>2, <1>3, <2>1 DEF SetFreqStep, SetPolicyCur, TargetOk, RetryOk, TargetFail,
       InformNobody, InformCheck, InformUpdate, InformStore, ReturnFrom
<1>6. CASE mpc = "init"
  <2>1. ~registered
    BY <1>6 DEF CallInv, PhaseInv
  <2>2. UNCHANGED <<cpumask, cur_cpu_state>>
    BY <2>1 DEF SetFreqStep, SetPolicyCur, TargetOk, TargetAgain, RetryOk, TargetFail,
       InformNobody, InformCheck, InformUpdate, InformStore, states, CallInv, StepInv
  <2> QED
    BY <1>1, <1>5, <1>6, <2>2 DEF DeltaInv
<1>7. CASE mpc = "loop"
  <2> DEFINE c == on[Scheduler]
             s == to[Scheduler]
  <2>1. /\ c < mi
        /\ \A t \in States : \A d \in cpumask[t] :
               /\ d >= mi => d \in sel /\ new[d] = t
               /\ d < mi => IF d = c THEN s = t ELSE cur_cpu_state[d] = t
    BY <1>1, <1>2, <1>7 DEF DeltaInv
  <2>2. registered
    BY <1>7 DEF CallInv, PhaseInv
(* The masks only gain the cpu, at the state it is being brought to.       *)
  <2>3. \A t \in States : \A d \in cpumask'[t] : d \in cpumask[t] \/ (d = c /\ t = s)
    <3>1. CASE InformUpdate(q)
      <4>1. /\ cpumask'[s] = cpumask[s] \cup {c}
            /\ cpumask'[cur_cpu_state[c]] = cpumask[cur_cpu_state[c]] \ {c}
            /\ \A t \in States \ {s, cur_cpu_state[c]} : cpumask'[t] = cpumask[t]
        BY <1>2, <3>1, UpdateBooks
      <4> QED
        BY <4>1
    <3>2. CASE UNCHANGED cpumask
      BY <3>2
    <3> QED
      BY <3>1, <3>2 DEF SetFreqStep, SetPolicyCur, TargetOk, TargetAgain, RetryOk, TargetFail,
         InformNobody, InformCheck, InformStore, states
  <2>4. \A d \in CPUs : d # c => cur_cpu_state'[d] = cur_cpu_state[d]
    <3>1. \/ cur_cpu_state' = cur_cpu_state
          \/ cur_cpu_state' = [cur_cpu_state EXCEPT ![c] = s]
      BY <1>2 DEF SetFreqStep, SetPolicyCur, TargetOk, TargetAgain, RetryOk, TargetFail,
         InformNobody, InformCheck, InformUpdate, InformStore, states
    <3> QED
      BY <1>2, <1>3, <3>1
  <2>5. pc'[Scheduler] = "idle" => cur_cpu_state'[c] = s
    <3>1. CASE InformStore(q)
      BY <1>2, <1>3, <3>1 DEF InformStore
    <3>2. ~TargetFail(q) /\ ~InformNobody(q)
      BY <1>4, <2>2 DEF TargetFail, InformNobody
    <3> QED
      BY <1>2, <1>3, <3>1, <3>2 DEF SetFreqStep, SetPolicyCur, TargetOk, TargetAgain, RetryOk,
         InformCheck, InformUpdate
  <2>6. \A t \in States : \A d \in cpumask'[t] :
            /\ d >= mi => d \in sel /\ new[d] = t
            /\ d < mi => IF d = c THEN s = t ELSE cur_cpu_state'[d] = t
    <3> TAKE t \in States
    <3> TAKE d \in cpumask'[t]
    <3>1. CASE d \in cpumask[t]
      <4>1. d \in CPUs
        BY <1>3, <3>1
      <4> HIDE DEF c, s
      <4> QED
        BY <2>1, <2>4, <3>1, <4>1
    <3>2. CASE d = c /\ t = s
      <4>0. mi \in 0 .. NCpu /\ on \in [Procs -> CPUs]
        BY DEF CallInv, TypeOK
      <4>1. on[Scheduler] \in CPUs
        BY <4>0
      <4>2. c \in Nat
        BY <4>1
      <4>3. mi \in Nat
        BY <4>0
      <4> HIDE DEF c, s
      <4> QED
        BY <2>1, <3>2, <4>2, <4>3
    <3> QED
      BY <2>3, <3>1, <3>2
  <2>7. \A t \in States : \A d \in cpumask'[t] :
            d < mi => IF Busy(Scheduler)' /\ d = c THEN s = t ELSE cur_cpu_state'[d] = t
    BY <2>5, <2>6 DEF Busy
  <2> QED
    BY <1>1, <1>5, <1>7, <2>1, <2>6, <2>7 DEF DeltaInv
<1> QED
  BY <1>2, <1>6, <1>7

(* Every step keeps the promise of the delta mutator.                      *)
LEMMA DeltaNext ==
    ASSUME UsersQuiet, DriverFails \cap {"init", "delta"} = {}, CallInv, DeltaInv, [Next]_vars
    PROVE  DeltaInv'
<1> USE Basics
<1>0. /\ pc \in [Procs -> {"idle", "cur", "target", "retry", "check", "update", "store"}]
      /\ on \in [Procs -> CPUs] /\ to \in [Procs -> States]
      /\ cpumask \in [States -> SUBSET CPUs] /\ cur_cpu_state \in [CPUs -> States]
      /\ mi \in 0 .. NCpu
  BY DEF CallInv, TypeOK
<1>1. UNCHANGED mutation_method
  BY DEF Next, InitCpu, InitRecord, Register, SetSpeed, SetFreqStep, SetPolicyCur, TargetOk,
     TargetAgain, RetryOk, TargetFail, InformNobody, InformCheck, InformUpdate, InformStore,
     GovernorBegin, GovernorTurn, DeltaBegin, DeltaCommit, DeltaTurn, MutatorEnd, vars, mutator
<1> SUFFICES ASSUME mutation_method = "delta"
             PROVE  DeltaInv'
  BY <1>1 DEF DeltaInv
<1>2. CASE \E s \in States : InitCpu(s)
  <2>1. /\ mpc = "idle" /\ mpc' = "init" /\ UNCHANGED <<cpumask, cur_cpu_state>>
        /\ pc'[Scheduler] = "cur"
    BY <1>0, <1>2 DEF InitCpu, CallSetFreq, states
  <2> QED
    BY <2>1 DEF DeltaInv
<1>3. CASE InitRecord
  <2> DEFINE s == to[Scheduler]
  <2>1. /\ mpc = "init" /\ mpc' = "idle" /\ inited \in CPUs /\ s \in States
        /\ pc'[Scheduler] = "idle"
        /\ cpumask' = [cpumask EXCEPT ![s] = @ \cup {inited}]
        /\ cur_cpu_state' = [cur_cpu_state EXCEPT ![inited] = s]
    BY <1>0, <1>3 DEF InitRecord, CallInv, TypeOK, PhaseInv, calls
  <2> HIDE DEF s
  <2>2. \A t \in States : \A c \in cpumask[t] : c # inited /\ cur_cpu_state[c] = t
    BY <1>0, <2>1 DEF CallInv, MaskInv, DeltaInv
  <2>3. \A t \in States : \A c \in cpumask'[t] : c \in cpumask[t] \/ (c = inited /\ t = s)
    BY <1>0, <2>1
  <2>4. \A t \in States : \A c \in cpumask'[t] : cur_cpu_state'[c] = t
    <3> TAKE t \in States
    <3> TAKE c \in cpumask'[t]
    <3>1. CASE c \in cpumask[t]
      <4>1. c \in CPUs /\ c # inited /\ cur_cpu_state[c] = t
        BY <1>0, <2>2, <3>1
      <4> QED
        BY <1>0, <2>1, <4>1
    <3>2. CASE c = inited /\ t = s
      BY <1>0, <2>1, <3>2
    <3> QED
      BY <2>3, <3>1, <3>2
  <2> QED
    BY <2>1, <2>4 DEF DeltaInv
<1>4. CASE Register
  BY <1>4 DEF Register, DeltaInv, Busy, states, calls, mutator
<1>5. CASE \E u \in Users, c \in CPUs, s \in States : SetSpeed(u, c, s)
  BY <1>5 DEF SetSpeed, Situation, UsersQuiet, CallInv, UserInv, PhaseInv
<1>6. CASE \E q \in Procs : SetFreqStep(q)
  BY <1>6, StepDelta
<1>7. CASE GovernorBegin \/ \E busy \in BOOLEAN : GovernorTurn(busy)
  BY <1>7 DEF GovernorBegin, GovernorTurn
<1>8. CASE \E W, U \in SUBSET CPUs, layout \in [CPUs -> States] : DeltaBegin(W, U, layout)
  BY <1>8 DEF DeltaBegin, DeltaInv, states, calls
<1>9. CASE DeltaCommit
  <2>1. /\ mpc' = "loop" /\ mi' = 0 /\ UNCHANGED <<sel, new, pc>> /\ ~Busy(Scheduler)
        /\ cpumask' = [s \in States |-> {c \in sel : new[c] = s}]
    BY <1>9 DEF DeltaCommit, CallInv, PhaseInv, calls
  <2>2. \A s \in States : \A c \in cpumask'[s] : c \in sel' /\ new'[c] = s /\ c \in Nat
    BY <2>1 DEF CallInv, TypeOK
  <2> QED
    BY <1>0, <2>1, <2>2 DEF DeltaInv, Busy
<1>10. CASE DeltaTurn
  <2> DEFINE goal == IF mi \in sel THEN new[mi] ELSE 0
  <2>1. /\ mpc = "loop" /\ ~Busy(Scheduler) /\ mi \in CPUs /\ mi' = mi + 1
        /\ UNCHANGED <<cpumask, cur_cpu_state, sel, new, mpc>>
    BY <1>10 DEF DeltaTurn, CallInv, TypeOK, Busy, states
  <2>2. \A s \in States : \A c \in cpumask[s] :
            /\ c >= mi => c \in sel /\ new[c] = s
            /\ c < mi => cur_cpu_state[c] = s
    BY <2>1 DEF DeltaInv
  <2>3. \A s \in States : mi \in cpumask[s] => mi \in sel /\ goal = s
    BY <2>1, <2>2
  <2>4. \A s \in States : \A c \in cpumask[s] : c \in Nat /\ (c < mi + 1 <=> c < mi \/ c = mi)
    BY <1>0
  <2>5. CASE CallSetFreq(Scheduler, mi, goal)
    <3>1. pc'[Scheduler] = "cur" /\ on'[Scheduler] = mi /\ to'[Scheduler] = goal
      BY <1>0, <2>5 DEF CallSetFreq
    <3>2. on'[Scheduler] < mi'
      BY <1>0, <2>1, <3>1
    <3>3. \A s \in States : \A c \in cpumask[s] :
              /\ c >= mi + 1 => c \in sel /\ new[c] = s
              /\ c < mi + 1 => IF mi = c THEN goal = s ELSE cur_cpu_state[c] = s
      BY <1>0, <2>2, <2>3, <2>4
    <3> HIDE DEF goal
    <3>4. Busy(Scheduler)' /\ pc'[Scheduler] # "retry"
      BY <3>1 DEF Busy
    <3>5. \A s \in States : \A c \in cpumask'[s] :
              /\ c >= mi' => c \in sel' /\ new'[c] = s
              /\ c < mi' => IF Busy(Scheduler)' /\ on'[Scheduler] = c
                            THEN to'[Scheduler] = s
                            ELSE cur_cpu_state'[c] = s
      BY <2>1, <3>1, <3>3, <3>4
    <3> QED
      BY <2>1, <3>2, <3>4, <3>5 DEF DeltaInv
  <2>6. CASE UNCHANGED calls /\ (mi \in sel => cur_cpu_state[mi] = goal)
    <3>1. ~Busy(Scheduler)' /\ pc'[Scheduler] # "retry"
      BY <2>1, <2>6 DEF Busy, calls
    <3>2. \A s \in States : \A c \in cpumask[s] :
              /\ c >= mi + 1 => c \in sel /\ new[c] = s
              /\ c < mi + 1 => cur_cpu_state[c] = s
      BY <1>0, <2>2, <2>3, <2>4, <2>6
    <3> QED
      BY <2>1, <3>1, <3>2 DEF DeltaInv
  <2> QED
    BY <1>10, <2>5, <2>6 DEF DeltaTurn
<1>11. CASE MutatorEnd
  <2>1. /\ mpc = "loop" /\ mpc' = "idle" /\ mi = NCpu /\ ~Busy(Scheduler)
        /\ UNCHANGED <<cpumask, cur_cpu_state, pc>>
    BY <1>11 DEF MutatorEnd, Busy, states, calls
  <2>2. \A s \in States : \A c \in cpumask[s] : c < mi
    BY <1>0, <2>1, CpuStatesAssumption DEF CPUs
  <2> QED
    BY <2>1, <2>2 DEF DeltaInv, Busy
<1>12. CASE UNCHANGED vars
  BY <1>12 DEF vars, states, calls, mutator, DeltaInv, Busy
<1> QED
  BY <1>2, <1>3, <1>4, <1>5, <1>6, <1>7, <1>8, <1>9, <1>10, <1>11, <1>12 DEF Next

(* When an interval is over and no user is writing, a cpu that the masks   *)
(* offer for state s runs at s: the layout the delta mutator published is  *)
(* the one it brought the cpus to.                                         *)
THEOREM OfferedRunAsOffered ==
    ASSUME UsersQuiet, DriverFails \cap {"init", "delta"} = {}
    PROVE  Spec => []OfferedAsRun
<1>1. Init => DeltaInv
  BY Basics DEF Init, DeltaInv, Busy
<1>2. CallInv /\ DeltaInv /\ [Next]_vars => DeltaInv'
  BY DeltaNext
<1>3. CallInv /\ BooksBalance /\ DeltaInv => OfferedAsRun
  <2> SUFFICES ASSUME CallInv, BooksBalance, DeltaInv, mpc = "idle",
                      NEW s \in States, NEW c \in cpumask[s]
               PROVE  cur_cpu_state[c] = s
    BY DEF OfferedAsRun, AllQuiet
  <2>1. c \in CPUs /\ c < inited
    BY DEF CallInv, TypeOK, MaskInv
  <2>2. CASE mutation_method = "delta"
    BY <2>2 DEF DeltaInv
  <2>3. CASE mutation_method # "delta"
    BY <2>1, <2>3 DEF BooksBalance
  <2> QED
    BY <2>2, <2>3
<1> QED
  BY <1>1, <1>2, <1>3, AlwaysCalls, BooksAlwaysBalance, PTL DEF Spec
=============================================================================
