------------------------- MODULE MigrationPoolProofs -------------------------
(***************************************************************************)
(* For every pool size and every number of tasks, cpus and keventd threads:*)
(* the types, the lock discipline, that a callback always finds a filled   *)
(* slot, that no slot is ever leaked and, when no task exits, that a busy  *)
(* slot has one owner.                                                     *)
(***************************************************************************)
EXTENDS MigrationPool, TLAPS

ScanPC == {"pscan", "cscan", "xscan"}

(* The locals of a handler or callback are in range where it uses them.    *)
LocalOK ==
    /\ \A c \in CPUs : pc[c] \in ScanPC => i[c] \in 1 .. PoolSize + 1
    /\ \A c \in CPUs : pc[c] \in FillPC => i[c] \in Slots
    /\ \A c \in CPUs : pc[c] \in PutPC => ts[c] \in Tasks /\ m[c] \in Masks
    /\ \A w \in Workers : wpc[w] # "idle" => ws[w] \in Slots

(* How far put_work has filled the slot it claimed.                        *)
FillOrder ==
    \A c \in CPUs :
        /\ pc[c] = "ptask" => mask[i[c]] # NoMask
        /\ pc[c] = "psched" => Filled(i[c])

(* exit_mig_pool runs alone, and no handler runs without the module.       *)
ExitAlone ==
    /\ phase \in {"unloaded", "down"} => \A c \in CPUs : pc[c] = "idle"
    /\ phase = "up" => \A c \in CPUs : pc[c] \notin {"xlock", "xscan"}
    /\ phase = "exiting" => \A c \in CPUs : pc[c] \in {"idle", "xlock", "xscan"}
    /\ phase = "exiting" => \E c \in CPUs : \A d \in CPUs \ {c} : pc[d] = "idle"

IInv ==
    /\ TypeOK
    /\ LocalOK
    /\ FillOrder
    /\ ExitAlone
    /\ CallbackHasTask
    /\ LockHeldInLoops
    /\ NoSlotLeak

-----------------------------------------------------------------------------
USE PoolSizeAssumption, NullAssumption DEF Slots, PutPC, FillPC, CancelPC, ScanPC

(* A task goes one step further on its way out, or is born again.          *)
LEMMA GoneType ==
    ASSUME gone \in [Tasks -> SUBSET Farewells], NEW t \in Tasks
    PROVE  /\ [gone EXCEPT ![t] = {}] \in [Tasks -> SUBSET Farewells]
           /\ [gone EXCEPT ![t] = @ \cup {"released"}] \in [Tasks -> SUBSET Farewells]
           /\ [gone EXCEPT ![t] = @ \cup {"switched"}] \in [Tasks -> SUBSET Farewells]
           /\ [gone EXCEPT ![t] = @ \cup {"freed"}] \in [Tasks -> SUBSET Farewells]
<1>1. gone[t] \cup {"released"} \in SUBSET Farewells
  BY DEF Farewells
<1>2. gone[t] \cup {"switched"} \in SUBSET Farewells
  BY DEF Farewells
<1>3. gone[t] \cup {"freed"} \in SUBSET Farewells
  BY DEF Farewells
<1> QED
  BY <1>1, <1>2, <1>3

(* The invariant holds before the module is loaded.                        *)
LEMMA InitIInv == Init => IInv
BY DEF Init, IInv, TypeOK, LocalOK, FillOrder, ExitAlone, CallbackHasTask, Filled,
   LockHeldInLoops, NoSlotLeak, Covered

(* Loading the module starts from an empty pool.                           *)
LEMMA InitMigPoolInv ==
    ASSUME IInv, InitMigPool
    PROVE  IInv'
<1>1. TypeOK'
  BY DEF IInv, InitMigPool, pool, cpu, keventd, TypeOK, LocalOK, Filled, CallbackHasTask
<1>2. LocalOK'
  BY DEF IInv, InitMigPool, pool, cpu, keventd, TypeOK, LocalOK
<1>3. FillOrder'
  BY DEF IInv, InitMigPool, pool, cpu, keventd, TypeOK, LocalOK, FillOrder, ExitAlone,
     Filled
<1>4. ExitAlone'
  BY DEF IInv, InitMigPool, pool, cpu, keventd, TypeOK, ExitAlone
<1>5. CallbackHasTask'
  BY DEF IInv, InitMigPool, pool, cpu, keventd, TypeOK, LocalOK, FillOrder, ExitAlone,
     CallbackHasTask, Filled
<1>6. LockHeldInLoops'
  BY DEF IInv, InitMigPool, pool, cpu, keventd, TypeOK, ExitAlone, LockHeldInLoops
<1>7. NoSlotLeak'
  BY DEF IInv, InitMigPool, pool, cpu, keventd, TypeOK, LocalOK, ExitAlone, NoSlotLeak,
     Covered, Filling, Running
<1> QED
  BY <1>1, <1>2, <1>3, <1>4, <1>5, <1>6, <1>7 DEF IInv

(* exit_mig_pool starts when no handler runs.                              *)
LEMMA ExitCallInv ==
    ASSUME NEW c \in CPUs, IInv, ExitCall(c)
    PROVE  IInv'
<1>1. TypeOK'
  BY DEF IInv, ExitCall, pool, cpu, keventd, TypeOK, LocalOK, Filled, CallbackHasTask
<1>2. LocalOK'
  BY DEF IInv, ExitCall, pool, cpu, keventd, TypeOK, LocalOK
<1>3. FillOrder'
  BY DEF IInv, ExitCall, pool, cpu, keventd, TypeOK, LocalOK, FillOrder, Filled
<1>4. ExitAlone'
  BY DEF IInv, ExitCall, pool, cpu, keventd, TypeOK, ExitAlone
<1>5. CallbackHasTask'
  BY DEF IInv, ExitCall, pool, cpu, keventd, TypeOK, LocalOK, FillOrder, CallbackHasTask,
     Filled
<1>6. LockHeldInLoops'
  BY DEF IInv, ExitCall, pool, cpu, keventd, TypeOK, ExitAlone, LockHeldInLoops
<1>7. NoSlotLeak'
  BY DEF IInv, ExitCall, pool, cpu, keventd, TypeOK, LocalOK, ExitAlone, NoSlotLeak,
     Covered, Filling, Running
<1> QED
  BY <1>1, <1>2, <1>3, <1>4, <1>5, <1>6, <1>7 DEF IInv

(* exit_mig_pool marks slots busy, but only once the module is exiting.    *)
LEMMA ExitMarkInv ==
    ASSUME NEW c \in CPUs, IInv, ExitMark(c)
    PROVE  IInv'
<1>0. i[c] \in Slots /\ i[c] + 1 \in 1 .. PoolSize + 1
  BY DEF IInv, ExitMark, CancelDelayedWork, TypeOK, LocalOK
<1>1. TypeOK'
  <2>1. work' \in [Slots -> {"idle", "timer", "queued"}]
    BY DEF ExitMark, CancelDelayedWork, IInv, TypeOK
  <2>2. i' \in [CPUs -> 0 .. PoolSize + 1]
    BY <1>0 DEF ExitMark, IInv, TypeOK
  <2> QED
    BY <2>1, <2>2 DEF ExitMark, IInv, TypeOK, keventd
<1>2. LocalOK'
  BY <1>0 DEF IInv, ExitMark, CancelDelayedWork, pool, cpu, keventd, TypeOK, LocalOK
<1>3. FillOrder'
  BY <1>0 DEF IInv, ExitMark, CancelDelayedWork, pool, cpu, keventd, TypeOK, LocalOK,
     FillOrder, Filled
<1>4. ExitAlone'
  BY <1>0 DEF IInv, ExitMark, CancelDelayedWork, pool, cpu, keventd, TypeOK, ExitAlone
<1>5. CallbackHasTask'
  BY <1>0 DEF IInv, ExitMark, CancelDelayedWork, pool, cpu, keventd, TypeOK, LocalOK,
     FillOrder, CallbackHasTask, Filled
<1>6. LockHeldInLoops'
  BY <1>0 DEF IInv, ExitMark, CancelDelayedWork, pool, cpu, keventd, TypeOK, ExitAlone,
     LockHeldInLoops
<1>7. NoSlotLeak'
  BY <1>0 DEF IInv, ExitMark, CancelDelayedWork, pool, cpu, keventd, TypeOK, LocalOK,
     ExitAlone, NoSlotLeak, Covered, Filling, Running
<1> QED
  BY <1>1, <1>2, <1>3, <1>4, <1>5, <1>6, <1>7 DEF IInv

(* exit_mig_pool ends.                                                     *)
LEMMA ExitEndInv ==
    ASSUME NEW c \in CPUs, IInv, ExitEnd(c)
    PROVE  IInv'
<1>1. TypeOK'
  BY DEF IInv, ExitEnd, pool, cpu, keventd, TypeOK, LocalOK, Filled, CallbackHasTask
<1>2. LocalOK'
  BY DEF IInv, ExitEnd, pool, cpu, keventd, TypeOK, LocalOK
<1>3. FillOrder'
  BY DEF IInv, ExitEnd, pool, cpu, keventd, TypeOK, LocalOK, FillOrder, Filled
<1>4. ExitAlone'
  BY DEF IInv, ExitEnd, pool, cpu, keventd, TypeOK, ExitAlone
<1>5. CallbackHasTask'
  BY DEF IInv, ExitEnd, pool, cpu, keventd, TypeOK, LocalOK, FillOrder, CallbackHasTask,
     Filled
<1>6. LockHeldInLoops'
  BY DEF IInv, ExitEnd, pool, cpu, keventd, TypeOK, ExitAlone, LockHeldInLoops
<1>7. NoSlotLeak'
  BY DEF IInv, ExitEnd, pool, cpu, keventd, TypeOK, LocalOK, ExitAlone, NoSlotLeak,
     Covered, Filling, Running
<1> QED
  BY <1>1, <1>2, <1>3, <1>4, <1>5, <1>6, <1>7 DEF IInv

(* Taking mig_pool_lock.                                                   *)
LEMMA LockInv ==
    ASSUME NEW c \in CPUs, IInv, Lock(c)
    PROVE  IInv'
<1>1. TypeOK'
  BY DEF IInv, Lock, pool, cpu, keventd, TypeOK, LocalOK, Filled, CallbackHasTask
<1>2. LocalOK'
  BY DEF IInv, Lock, pool, cpu, keventd, TypeOK, LocalOK
<1>3. FillOrder'
  BY DEF IInv, Lock, pool, cpu, keventd, TypeOK, LocalOK, FillOrder, Filled
<1>4. ExitAlone'
  BY DEF IInv, Lock, pool, cpu, keventd, TypeOK, ExitAlone
<1>5. CallbackHasTask'
  BY DEF IInv, Lock, pool, cpu, keventd, TypeOK, LocalOK, FillOrder, CallbackHasTask, Filled
<1>6. LockHeldInLoops'
  BY DEF IInv, Lock, pool, cpu, keventd, TypeOK, ExitAlone, LockHeldInLoops
<1>7. NoSlotLeak'
  BY DEF IInv, Lock, pool, cpu, keventd, TypeOK, LocalOK, ExitAlone, NoSlotLeak, Covered,
     Filling, Running
<1> QED
  BY <1>1, <1>2, <1>3, <1>4, <1>5, <1>6, <1>7 DEF IInv

(* put_work passes over a busy slot.                                       *)
LEMMA PutSkipInv ==
    ASSUME NEW c \in CPUs, IInv, PutSkip(c)
    PROVE  IInv'
<1>0. i[c] \in Slots /\ i[c] + 1 \in 1 .. PoolSize + 1
  BY DEF IInv, PutSkip, TypeOK, LocalOK
<1>1. TypeOK'
  BY <1>0 DEF IInv, PutSkip, pool, cpu, keventd, TypeOK, LocalOK, Filled, CallbackHasTask
<1>2. LocalOK'
  BY <1>0 DEF IInv, PutSkip, pool, cpu, keventd, TypeOK, LocalOK
<1>3. FillOrder'
  BY <1>0 DEF IInv, PutSkip, pool, cpu, keventd, TypeOK, LocalOK, FillOrder, Filled
<1>4. ExitAlone'
  BY <1>0 DEF IInv, PutSkip, pool, cpu, keventd, TypeOK, ExitAlone
<1>5. CallbackHasTask'
  BY <1>0 DEF IInv, PutSkip, pool, cpu, keventd, TypeOK, LocalOK, FillOrder,
     CallbackHasTask, Filled
<1>6. LockHeldInLoops'
  BY <1>0 DEF IInv, PutSkip, pool, cpu, keventd, TypeOK, ExitAlone, LockHeldInLoops
<1>7. NoSlotLeak'
  BY <1>0 DEF IInv, PutSkip, pool, cpu, keventd, TypeOK, LocalOK, ExitAlone, NoSlotLeak,
     Covered, Filling, Running
<1> QED
  BY <1>1, <1>2, <1>3, <1>4, <1>5, <1>6, <1>7 DEF IInv

(* A claimed slot is one its claimer fills.                                *)
LEMMA PutClaimInv ==
    ASSUME NEW c \in CPUs, IInv, PutClaim(c)
    PROVE  IInv'
<1>0. i[c] \in Slots /\ i[c] + 1 \in 1 .. PoolSize + 1
  BY DEF IInv, PutClaim, TypeOK, LocalOK
<1>1. TypeOK'
  BY <1>0 DEF IInv, PutClaim, pool, cpu, keventd, TypeOK, LocalOK, Filled, CallbackHasTask
<1>2. LocalOK'
  BY <1>0 DEF IInv, PutClaim, pool, cpu, keventd, TypeOK, LocalOK
<1>3. FillOrder'
  BY <1>0 DEF IInv, PutClaim, pool, cpu, keventd, TypeOK, LocalOK, FillOrder, Filled
<1>4. ExitAlone'
  BY <1>0 DEF IInv, PutClaim, pool, cpu, keventd, TypeOK, ExitAlone
<1>5. CallbackHasTask'
  BY <1>0 DEF IInv, PutClaim, pool, cpu, keventd, TypeOK, LocalOK, FillOrder,
     CallbackHasTask, Filled
<1>6. LockHeldInLoops'
  BY <1>0 DEF IInv, PutClaim, pool, cpu, keventd, TypeOK, ExitAlone, LockHeldInLoops
<1>7. NoSlotLeak'
  BY ZenonT(60), <1>0 DEF IInv, PutClaim, pool, cpu, keventd, TypeOK, LocalOK, ExitAlone, NoSlotLeak,
     Covered, Filling, Running
<1> QED
  BY <1>1, <1>2, <1>3, <1>4, <1>5, <1>6, <1>7 DEF IInv

(* put_work finds no slot.                                                 *)
LEMMA PutFullInv ==
    ASSUME NEW c \in CPUs, IInv, PutFull(c)
    PROVE  IInv'
<1>1. TypeOK'
  BY DEF IInv, PutFull, Return, pool, cpu, keventd, TypeOK, LocalOK, Filled, CallbackHasTask
<1>2. LocalOK'
  BY DEF IInv, PutFull, Return, pool, cpu, keventd, TypeOK, LocalOK
<1>3. FillOrder'
  BY DEF IInv, PutFull, Return, pool, cpu, keventd, TypeOK, LocalOK, FillOrder, Filled
<1>4. ExitAlone'
  BY DEF IInv, PutFull, Return, pool, cpu, keventd, TypeOK, ExitAlone
<1>5. CallbackHasTask'
  BY DEF IInv, PutFull, Return, pool, cpu, keventd, TypeOK, LocalOK, FillOrder,
     CallbackHasTask, Filled
<1>6. LockHeldInLoops'
  BY DEF IInv, PutFull, Return, pool, cpu, keventd, TypeOK, ExitAlone, LockHeldInLoops
<1>7. NoSlotLeak'
  BY DEF IInv, PutFull, Return, pool, cpu, keventd, TypeOK, LocalOK, ExitAlone,
     NoSlotLeak, Covered, Filling, Running
<1> QED
  BY <1>1, <1>2, <1>3, <1>4, <1>5, <1>6, <1>7 DEF IInv

(* put_work writes the mask.                                               *)
LEMMA PutMaskInv ==
    ASSUME NEW c \in CPUs, IInv, PutMask(c)
    PROVE  IInv'
<1>1. TypeOK'
  BY DEF IInv, PutMask, pool, cpu, keventd, TypeOK, LocalOK, Filled, CallbackHasTask
<1>2. LocalOK'
  BY DEF IInv, PutMask, pool, cpu, keventd, TypeOK, LocalOK
<1>3. FillOrder'
  BY DEF IInv, PutMask, pool, cpu, keventd, TypeOK, LocalOK, FillOrder, Filled
<1>4. ExitAlone'
  BY DEF IInv, PutMask, pool, cpu, keventd, TypeOK, ExitAlone
<1>5. CallbackHasTask'
  BY DEF IInv, PutMask, pool, cpu, keventd, TypeOK, LocalOK, FillOrder, CallbackHasTask,
     Filled
<1>6. LockHeldInLoops'
  BY DEF IInv, PutMask, pool, cpu, keventd, TypeOK, ExitAlone, LockHeldInLoops
<1>7. NoSlotLeak'
  BY DEF IInv, PutMask, pool, cpu, keventd, TypeOK, LocalOK, ExitAlone, NoSlotLeak,
     Covered, Filling, Running
<1> QED
  BY <1>1, <1>2, <1>3, <1>4, <1>5, <1>6, <1>7 DEF IInv

(* put_work writes the task.                                               *)
LEMMA PutTaskInv ==
    ASSUME NEW c \in CPUs, IInv, PutTask(c)
    PROVE  IInv'
<1>1. TypeOK'
  BY DEF IInv, PutTask, pool, cpu, keventd, TypeOK, LocalOK, Filled, CallbackHasTask
<1>2. LocalOK'
  BY DEF IInv, PutTask, pool, cpu, keventd, TypeOK, LocalOK
<1>3. FillOrder'
  BY DEF IInv, PutTask, pool, cpu, keventd, TypeOK, LocalOK, FillOrder, Filled
<1>4. ExitAlone'
  BY DEF IInv, PutTask, pool, cpu, keventd, TypeOK, ExitAlone
<1>5. CallbackHasTask'
  BY DEF IInv, PutTask, pool, cpu, keventd, TypeOK, LocalOK, FillOrder, CallbackHasTask,
     Filled
<1>6. LockHeldInLoops'
  BY DEF IInv, PutTask, pool, cpu, keventd, TypeOK, ExitAlone, LockHeldInLoops
<1>7. NoSlotLeak'
  BY DEF IInv, PutTask, pool, cpu, keventd, TypeOK, LocalOK, ExitAlone, NoSlotLeak,
     Covered, Filling, Running
<1> QED
  BY <1>1, <1>2, <1>3, <1>4, <1>5, <1>6, <1>7 DEF IInv

(* put_work hands the slot over to the pending work.                       *)
LEMMA PutScheduleInv ==
    ASSUME NEW c \in CPUs, IInv, PutSchedule(c)
    PROVE  IInv'
<1>1. TypeOK'
  BY DEF IInv, PutSchedule, ScheduleDelayedWork, Return, pool, cpu, keventd, TypeOK,
     LocalOK, Filled, CallbackHasTask
<1>2. LocalOK'
  BY DEF IInv, PutSchedule, ScheduleDelayedWork, Return, pool, cpu, keventd, TypeOK, LocalOK
<1>3. FillOrder'
  BY DEF IInv, PutSchedule, ScheduleDelayedWork, Return, pool, cpu, keventd, TypeOK,
     LocalOK, FillOrder, Filled
<1>4. ExitAlone'
  BY DEF IInv, PutSchedule, ScheduleDelayedWork, Return, pool, cpu, keventd, TypeOK,
     ExitAlone
<1>5. CallbackHasTask'
  BY DEF IInv, PutSchedule, ScheduleDelayedWork, Return, pool, cpu, keventd, TypeOK,
     LocalOK, FillOrder, CallbackHasTask, Filled
<1>6. LockHeldInLoops'
  BY DEF IInv, PutSchedule, ScheduleDelayedWork, Return, pool, cpu, keventd, TypeOK,
     ExitAlone, LockHeldInLoops
<1>7. NoSlotLeak'
  BY DEF IInv, PutSchedule, ScheduleDelayedWork, Return, pool, cpu, keventd, TypeOK,
     LocalOK, ExitAlone, NoSlotLeak, Covered, Filling, Running
<1> QED
  BY <1>1, <1>2, <1>3, <1>4, <1>5, <1>6, <1>7 DEF IInv

(* cancel_task_work stops for good on an unfilled slot.                    *)
LEMMA CancelOopsInv ==
    ASSUME NEW c \in CPUs, IInv, CancelOops(c)
    PROVE  IInv'
<1>1. TypeOK'
  BY DEF IInv, CancelOops, pool, cpu, keventd, TypeOK, LocalOK, Filled, CallbackHasTask
<1>2. LocalOK'
  BY DEF IInv, CancelOops, pool, cpu, keventd, TypeOK, LocalOK
<1>3. FillOrder'
  BY DEF IInv, CancelOops, pool, cpu, keventd, TypeOK, LocalOK, FillOrder, Filled
<1>4. ExitAlone'
  BY DEF IInv, CancelOops, pool, cpu, keventd, TypeOK, ExitAlone
<1>5. CallbackHasTask'
  BY DEF IInv, CancelOops, pool, cpu, keventd, TypeOK, LocalOK, FillOrder,
     CallbackHasTask, Filled
<1>6. LockHeldInLoops'
  BY DEF IInv, CancelOops, pool, cpu, keventd, TypeOK, ExitAlone, LockHeldInLoops
<1>7. NoSlotLeak'
  BY DEF IInv, CancelOops, pool, cpu, keventd, TypeOK, LocalOK, ExitAlone, NoSlotLeak,
     Covered, Filling, Running
<1> QED
  BY <1>1, <1>2, <1>3, <1>4, <1>5, <1>6, <1>7 DEF IInv

(* Every slot cancel_task_work takes from its work it marks free.          *)
LEMMA CancelHitInv ==
    ASSUME NEW c \in CPUs, IInv, CancelHit(c)
    PROVE  IInv'
<1>0. i[c] \in Slots /\ i[c] + 1 \in 1 .. PoolSize + 1
  BY DEF IInv, CancelHit, CancelDelayedWork, TypeOK, LocalOK
<1>1. TypeOK'
  BY <1>0 DEF IInv, CancelHit, CancelDelayedWork, pool, cpu, keventd, TypeOK, LocalOK,
     Filled, CallbackHasTask
<1>2. LocalOK'
  BY <1>0 DEF IInv, CancelHit, CancelDelayedWork, pool, cpu, keventd, TypeOK, LocalOK
<1>3. FillOrder'
  BY <1>0 DEF IInv, CancelHit, CancelDelayedWork, pool, cpu, keventd, TypeOK, LocalOK,
     FillOrder, Filled
<1>4. ExitAlone'
  BY <1>0 DEF IInv, CancelHit, CancelDelayedWork, pool, cpu, keventd, TypeOK, ExitAlone
<1>5. CallbackHasTask'
  BY <1>0 DEF IInv, CancelHit, CancelDelayedWork, pool, cpu, keventd, TypeOK, LocalOK,
     FillOrder, CallbackHasTask, Filled
<1>6. LockHeldInLoops'
  BY <1>0 DEF IInv, CancelHit, CancelDelayedWork, pool, cpu, keventd, TypeOK, ExitAlone,
     LockHeldInLoops
<1>7. NoSlotLeak'
  <2> SUFFICES ASSUME phase' = "up", NEW z \in Slots, free'[z] = 0 PROVE Covered(z)'
    BY DEF NoSlotLeak
  <2>1. z # i[c] /\ free[z] = 0
    BY <1>0 DEF CancelHit, IInv, TypeOK
  <2>2. Covered(z)
    BY <2>1 DEF CancelHit, IInv, NoSlotLeak
  <2>3. work'[z] = work[z]
    BY <2>1 DEF CancelHit, CancelDelayedWork, IInv, TypeOK
  <2>4. \A d \in CPUs : Filling(d, z) => Filling(d, z)'
    BY DEF CancelHit, IInv, TypeOK, Filling
  <2> QED
    BY <2>2, <2>3, <2>4 DEF CancelHit, Covered, Running, keventd
<1> QED
  BY <1>1, <1>2, <1>3, <1>4, <1>5, <1>6, <1>7 DEF IInv

(* cancel_task_work passes over a slot of another task.                    *)
LEMMA CancelMissInv ==
    ASSUME NEW c \in CPUs, IInv, CancelMiss(c)
    PROVE  IInv'
<1>0. i[c] \in Slots /\ i[c] + 1 \in 1 .. PoolSize + 1
  BY DEF IInv, CancelMiss, TypeOK, LocalOK
<1>1. TypeOK'
  BY <1>0 DEF IInv, CancelMiss, pool, cpu, keventd, TypeOK, LocalOK, Filled, CallbackHasTask
<1>2. LocalOK'
  BY <1>0 DEF IInv, CancelMiss, pool, cpu, keventd, TypeOK, LocalOK
<1>3. FillOrder'
  BY <1>0 DEF IInv, CancelMiss, pool, cpu, keventd, TypeOK, LocalOK, FillOrder, Filled
<1>4. ExitAlone'
  BY <1>0 DEF IInv, CancelMiss, pool, cpu, keventd, TypeOK, ExitAlone
<1>5. CallbackHasTask'
  BY <1>0 DEF IInv, CancelMiss, pool, cpu, keventd, TypeOK, LocalOK, FillOrder,
     CallbackHasTask, Filled
<1>6. LockHeldInLoops'
  BY <1>0 DEF IInv, CancelMiss, pool, cpu, keventd, TypeOK, ExitAlone, LockHeldInLoops
<1>7. NoSlotLeak'
  BY <1>0 DEF IInv, CancelMiss, pool, cpu, keventd, TypeOK, LocalOK, ExitAlone,
     NoSlotLeak, Covered, Filling, Running
<1> QED
  BY <1>1, <1>2, <1>3, <1>4, <1>5, <1>6, <1>7 DEF IInv

(* cancel_task_work ends.                                                  *)
LEMMA CancelEndInv ==
    ASSUME NEW c \in CPUs, IInv, CancelEnd(c)
    PROVE  IInv'
<1>1. TypeOK'
  BY DEF IInv, CancelEnd, Return, pool, cpu, keventd, TypeOK, LocalOK, Filled,
     CallbackHasTask
<1>2. LocalOK'
  BY DEF IInv, CancelEnd, Return, pool, cpu, keventd, TypeOK, LocalOK
<1>3. FillOrder'
  BY DEF IInv, CancelEnd, Return, pool, cpu, keventd, TypeOK, LocalOK, FillOrder, Filled
<1>4. ExitAlone'
  BY DEF IInv, CancelEnd, Return, pool, cpu, keventd, TypeOK, ExitAlone
<1>5. CallbackHasTask'
  BY DEF IInv, CancelEnd, Return, pool, cpu, keventd, TypeOK, LocalOK, FillOrder,
     CallbackHasTask, Filled
<1>6. LockHeldInLoops'
  BY DEF IInv, CancelEnd, Return, pool, cpu, keventd, TypeOK, ExitAlone, LockHeldInLoops
<1>7. NoSlotLeak'
  BY DEF IInv, CancelEnd, Return, pool, cpu, keventd, TypeOK, LocalOK, ExitAlone,
     NoSlotLeak, Covered, Filling, Running
<1> QED
  BY <1>1, <1>2, <1>3, <1>4, <1>5, <1>6, <1>7 DEF IInv

(* release_thread is entered.                                              *)
LEMMA ReleaseInv ==
    ASSUME NEW c \in CPUs, NEW t \in Tasks, IInv, Release(c, t)
    PROVE  IInv'
<1>1. TypeOK'
  BY GoneType DEF IInv, Release, pool, cpu, keventd, TypeOK, LocalOK, Filled, CallbackHasTask
<1>2. LocalOK'
  BY DEF IInv, Release, pool, cpu, keventd, TypeOK, LocalOK
<1>3. FillOrder'
  BY DEF IInv, Release, pool, cpu, keventd, TypeOK, LocalOK, FillOrder, Filled
<1>4. ExitAlone'
  BY DEF IInv, Release, pool, cpu, keventd, TypeOK, ExitAlone
<1>5. CallbackHasTask'
  BY DEF IInv, Release, pool, cpu, keventd, TypeOK, LocalOK, FillOrder, CallbackHasTask,
     Filled
<1>6. LockHeldInLoops'
  BY DEF IInv, Release, pool, cpu, keventd, TypeOK, ExitAlone, LockHeldInLoops
<1>7. NoSlotLeak'
  BY DEF IInv, Release, pool, cpu, keventd, TypeOK, LocalOK, ExitAlone, NoSlotLeak,
     Covered, Filling, Running
<1> QED
  BY <1>1, <1>2, <1>3, <1>4, <1>5, <1>6, <1>7 DEF IInv

(* put_work is entered, whatever the reason.                               *)
LEMMA StartPutInv ==
    ASSUME NEW c \in CPUs, NEW t \in Tasks, NEW k \in Masks,
           cpus_allowed' \in [Tasks -> Masks],
           gone' \in [Tasks -> SUBSET Farewells],
           IInv, StartPut(c, t, k)
    PROVE  IInv'
<1>1. TypeOK'
  BY DEF IInv, StartPut, pool, cpu, keventd, TypeOK, LocalOK, Filled, CallbackHasTask
<1>2. LocalOK'
  BY DEF IInv, StartPut, pool, cpu, keventd, TypeOK, LocalOK
<1>3. FillOrder'
  BY DEF IInv, StartPut, pool, cpu, keventd, TypeOK, LocalOK, FillOrder, Filled
<1>4. ExitAlone'
  BY DEF IInv, StartPut, pool, cpu, keventd, TypeOK, ExitAlone
<1>5. CallbackHasTask'
  BY DEF IInv, StartPut, pool, cpu, keventd, TypeOK, LocalOK, FillOrder, CallbackHasTask,
     Filled
<1>6. LockHeldInLoops'
  BY DEF IInv, StartPut, pool, cpu, keventd, TypeOK, ExitAlone, LockHeldInLoops
<1>7. NoSlotLeak'
  BY DEF IInv, StartPut, pool, cpu, keventd, TypeOK, LocalOK, ExitAlone, NoSlotLeak,
     Covered, Filling, Running
<1> QED
  BY <1>1, <1>2, <1>3, <1>4, <1>5, <1>6, <1>7 DEF IInv

(* A timer fires.                                                          *)
LEMMA TimerInv ==
    ASSUME NEW s \in Slots, IInv, TimerFires(s)
    PROVE  IInv'
<1>1. TypeOK'
  BY DEF IInv, TimerFires, pool, cpu, keventd, TypeOK, LocalOK, Filled, CallbackHasTask
<1>2. LocalOK'
  BY DEF IInv, TimerFires, pool, cpu, keventd, TypeOK, LocalOK
<1>3. FillOrder'
  BY DEF IInv, TimerFires, pool, cpu, keventd, TypeOK, LocalOK, FillOrder, Filled
<1>4. ExitAlone'
  BY DEF IInv, TimerFires, pool, cpu, keventd, TypeOK, ExitAlone
<1>5. CallbackHasTask'
  BY DEF IInv, TimerFires, pool, cpu, keventd, TypeOK, LocalOK, FillOrder,
     CallbackHasTask, Filled
<1>6. LockHeldInLoops'
  BY DEF IInv, TimerFires, pool, cpu, keventd, TypeOK, ExitAlone, LockHeldInLoops
<1>7. NoSlotLeak'
  <2> SUFFICES ASSUME phase' = "up", NEW z \in Slots, free'[z] = 0 PROVE Covered(z)'
    BY DEF NoSlotLeak
  <2>1. Covered(z)
    BY DEF TimerFires, IInv, NoSlotLeak
  <2>2. work[z] # "idle" => work'[z] # "idle"
    BY DEF TimerFires, IInv, TypeOK
  <2> QED
    BY <2>1, <2>2 DEF TimerFires, Covered, Filling, Running, cpu, keventd
<1> QED
  BY <1>1, <1>2, <1>3, <1>4, <1>5, <1>6, <1>7 DEF IInv

(* The work becomes a running callback.                                    *)
LEMMA TakeWorkInv ==
    ASSUME NEW w \in Workers, NEW s \in Slots, IInv, TakeWork(w, s)
    PROVE  IInv'
<1>1. TypeOK'
  BY DEF IInv, TakeWork, pool, cpu, keventd, TypeOK, LocalOK, Filled, CallbackHasTask
<1>2. LocalOK'
  BY DEF IInv, TakeWork, pool, cpu, keventd, TypeOK, LocalOK
<1>3. FillOrder'
  BY DEF IInv, TakeWork, pool, cpu, keventd, TypeOK, LocalOK, FillOrder, Filled
<1>4. ExitAlone'
  BY DEF IInv, TakeWork, pool, cpu, keventd, TypeOK, ExitAlone
<1>5. CallbackHasTask'
  BY DEF IInv, TakeWork, pool, cpu, keventd, TypeOK, LocalOK, FillOrder, CallbackHasTask,
     Filled
<1>6. LockHeldInLoops'
  BY DEF IInv, TakeWork, pool, cpu, keventd, TypeOK, ExitAlone, LockHeldInLoops
<1>7. NoSlotLeak'
  <2> SUFFICES ASSUME phase' = "up", NEW z \in Slots, free'[z] = 0 PROVE Covered(z)'
    BY DEF NoSlotLeak
  <2>1. Covered(z)
    BY DEF TakeWork, IInv, NoSlotLeak
  <2>2. CASE z = s
    BY <2>2 DEF TakeWork, IInv, TypeOK, Covered, Running
  <2>3. CASE z # s
    <3>1. work'[z] = work[z]
      BY <2>3 DEF TakeWork, IInv, TypeOK
    <3>2. \A v \in Workers : Running(v, z) => Running(v, z)'
      BY DEF TakeWork, IInv, TypeOK, Running
    <3> QED
      BY <2>1, <3>1, <3>2 DEF TakeWork, Covered, Filling, cpu
  <2> QED
    BY <2>2, <2>3
<1> QED
  BY <1>1, <1>2, <1>3, <1>4, <1>5, <1>6, <1>7 DEF IInv

(* The callback reads its task.                                            *)
LEMMA ReadTaskInv ==
    ASSUME NEW w \in Workers, IInv, CallbackReadTask(w)
    PROVE  IInv'
<1>1. TypeOK'
  BY DEF IInv, CallbackReadTask, pool, cpu, keventd, TypeOK, LocalOK, Filled,
     CallbackHasTask
<1>2. LocalOK'
  BY DEF IInv, CallbackReadTask, pool, cpu, keventd, TypeOK, LocalOK
<1>3. FillOrder'
  BY DEF IInv, CallbackReadTask, pool, cpu, keventd, TypeOK, LocalOK, FillOrder, Filled
<1>4. ExitAlone'
  BY DEF IInv, CallbackReadTask, pool, cpu, keventd, TypeOK, ExitAlone
<1>5. CallbackHasTask'
  BY DEF IInv, CallbackReadTask, pool, cpu, keventd, TypeOK, LocalOK, FillOrder,
     CallbackHasTask, Filled
<1>6. LockHeldInLoops'
  BY DEF IInv, CallbackReadTask, pool, cpu, keventd, TypeOK, ExitAlone, LockHeldInLoops
<1>7. NoSlotLeak'
  BY DEF IInv, CallbackReadTask, pool, cpu, keventd, TypeOK, LocalOK, ExitAlone,
     NoSlotLeak, Covered, Filling, Running
<1> QED
  BY <1>1, <1>2, <1>3, <1>4, <1>5, <1>6, <1>7 DEF IInv

(* A callback that gives up does so on a free slot.                        *)
LEMMA GiveUpInv ==
    ASSUME NEW w \in Workers, IInv, CallbackGiveUp(w)
    PROVE  IInv'
<1>1. TypeOK'
  BY DEF IInv, CallbackGiveUp, CallbackReturn, pool, cpu, keventd, TypeOK, LocalOK,
     Filled, CallbackHasTask
<1>2. LocalOK'
  BY DEF IInv, CallbackGiveUp, CallbackReturn, pool, cpu, keventd, TypeOK, LocalOK
<1>3. FillOrder'
  BY DEF IInv, CallbackGiveUp, CallbackReturn, pool, cpu, keventd, TypeOK, LocalOK,
     FillOrder, Filled
<1>4. ExitAlone'
  BY DEF IInv, CallbackGiveUp, CallbackReturn, pool, cpu, keventd, TypeOK, ExitAlone
<1>5. CallbackHasTask'
  BY DEF IInv, CallbackGiveUp, CallbackReturn, pool, cpu, keventd, TypeOK, LocalOK,
     FillOrder, CallbackHasTask, Filled
<1>6. LockHeldInLoops'
  BY DEF IInv, CallbackGiveUp, CallbackReturn, pool, cpu, keventd, TypeOK, ExitAlone,
     LockHeldInLoops
<1>7. NoSlotLeak'
  BY SMTT(40) DEF IInv, CallbackGiveUp, CallbackReturn, pool, cpu, keventd, TypeOK, LocalOK,
     ExitAlone, NoSlotLeak, Covered, Filling, Running
<1> QED
  BY <1>1, <1>2, <1>3, <1>4, <1>5, <1>6, <1>7 DEF IInv

(* A callback finds its slot busy.                                         *)
LEMMA GoOnInv ==
    ASSUME NEW w \in Workers, IInv, CallbackGoOn(w)
    PROVE  IInv'
<1>1. TypeOK'
  BY DEF IInv, CallbackGoOn, pool, cpu, keventd, TypeOK, LocalOK, Filled, CallbackHasTask
<1>2. LocalOK'
  BY DEF IInv, CallbackGoOn, pool, cpu, keventd, TypeOK, LocalOK
<1>3. FillOrder'
  BY DEF IInv, CallbackGoOn, pool, cpu, keventd, TypeOK, LocalOK, FillOrder, Filled
<1>4. ExitAlone'
  BY DEF IInv, CallbackGoOn, pool, cpu, keventd, TypeOK, ExitAlone
<1>5. CallbackHasTask'
  BY DEF IInv, CallbackGoOn, pool, cpu, keventd, TypeOK, LocalOK, FillOrder,
     CallbackHasTask, Filled
<1>6. LockHeldInLoops'
  BY DEF IInv, CallbackGoOn, pool, cpu, keventd, TypeOK, ExitAlone, LockHeldInLoops
<1>7. NoSlotLeak'
  BY SMTT(40) DEF IInv, CallbackGoOn, pool, cpu, keventd, TypeOK, LocalOK, ExitAlone, NoSlotLeak,
     Covered, Filling, Running
<1> QED
  BY <1>1, <1>2, <1>3, <1>4, <1>5, <1>6, <1>7 DEF IInv

(* The callback migrates the task.                                         *)
LEMMA ApplyInv ==
    ASSUME NEW w \in Workers, IInv, CallbackApply(w)
    PROVE  IInv'
<1>1. TypeOK'
  <2>1. mask[ws[w]] \in Masks
    BY DEF IInv, CallbackApply, TypeOK, LocalOK, CallbackHasTask, Filled
  <2>2. cpus_allowed' \in [Tasks -> Masks]
    BY <2>1 DEF IInv, CallbackApply, TypeOK
  <2> QED
    BY <2>2 DEF IInv, CallbackApply, pool, cpu, TypeOK
<1>2. LocalOK'
  BY DEF IInv, CallbackApply, pool, cpu, keventd, TypeOK, LocalOK
<1>3. FillOrder'
  BY DEF IInv, CallbackApply, pool, cpu, keventd, TypeOK, LocalOK, FillOrder, Filled
<1>4. ExitAlone'
  BY DEF IInv, CallbackApply, pool, cpu, keventd, TypeOK, ExitAlone
<1>5. CallbackHasTask'
  BY DEF IInv, CallbackApply, pool, cpu, keventd, TypeOK, LocalOK, FillOrder,
     CallbackHasTask, Filled
<1>6. LockHeldInLoops'
  BY DEF IInv, CallbackApply, pool, cpu, keventd, TypeOK, ExitAlone, LockHeldInLoops
<1>7. NoSlotLeak'
  BY DEF IInv, CallbackApply, pool, cpu, keventd, TypeOK, LocalOK, ExitAlone, NoSlotLeak,
     Covered, Filling, Running
<1> QED
  BY <1>1, <1>2, <1>3, <1>4, <1>5, <1>6, <1>7 DEF IInv

(* A callback that ends gives its slot back.                               *)
LEMMA CbFreeInv ==
    ASSUME NEW w \in Workers, IInv, CallbackFree(w)
    PROVE  IInv'
<1>1. TypeOK'
  BY DEF IInv, CallbackFree, CallbackReturn, pool, cpu, keventd, TypeOK, LocalOK, Filled,
     CallbackHasTask
<1>2. LocalOK'
  BY DEF IInv, CallbackFree, CallbackReturn, pool, cpu, keventd, TypeOK, LocalOK
<1>3. FillOrder'
  BY DEF IInv, CallbackFree, CallbackReturn, pool, cpu, keventd, TypeOK, LocalOK,
     FillOrder, Filled
<1>4. ExitAlone'
  BY DEF IInv, CallbackFree, CallbackReturn, pool, cpu, keventd, TypeOK, ExitAlone
<1>5. CallbackHasTask'
  BY DEF IInv, CallbackFree, CallbackReturn, pool, cpu, keventd, TypeOK, LocalOK,
     FillOrder, CallbackHasTask, Filled
<1>6. LockHeldInLoops'
  BY DEF IInv, CallbackFree, CallbackReturn, pool, cpu, keventd, TypeOK, ExitAlone,
     LockHeldInLoops
<1>7. NoSlotLeak'
  <2> SUFFICES ASSUME phase' = "up", NEW z \in Slots, free'[z] = 0 PROVE Covered(z)'
    BY DEF NoSlotLeak
  <2>1. z # ws[w] /\ free[z] = 0
    BY DEF CallbackFree, IInv, TypeOK, LocalOK
  <2>2. Covered(z)
    BY <2>1 DEF CallbackFree, IInv, NoSlotLeak
  <2>3. \A v \in Workers : Running(v, z) => Running(v, z)'
    BY <2>1 DEF CallbackFree, CallbackReturn, IInv, TypeOK, Running
  <2> QED
    BY <2>2, <2>3 DEF CallbackFree, Covered, Filling, cpu
<1> QED
  BY <1>1, <1>2, <1>3, <1>4, <1>5, <1>6, <1>7 DEF IInv

(* Every step, and every stuttering step, preserves the invariant.        *)
LEMMA NextIInv == IInv /\ [Next]_vars => IInv'
<1> SUFFICES ASSUME IInv, [Next]_vars PROVE IInv'
  OBVIOUS
<1>1. CASE InitMigPool
  BY <1>1, InitMigPoolInv
<1>2. CASE \E c \in CPUs : ExitCall(c) \/ HandlerStep(c)
  <2>1. PICK c \in CPUs : ExitCall(c) \/ HandlerStep(c)
    BY <1>2
  <2>2. CASE ExitCall(c) \/ Lock(c) \/ ExitStep(c)
    BY <2>2, ExitCallInv, LockInv, ExitMarkInv, ExitEndInv DEF ExitStep
  <2>3. CASE PutStep(c)
    BY <2>3, PutSkipInv, PutClaimInv, PutFullInv, PutMaskInv, PutTaskInv, PutScheduleInv
       DEF PutStep
  <2>4. CASE CancelStep(c)
    BY <2>4, CancelOopsInv, CancelHitInv, CancelMissInv, CancelEndInv DEF CancelStep
  <2> QED
    BY <2>1, <2>2, <2>3, <2>4 DEF HandlerStep
<1>3. CASE \E c \in CPUs, t \in Tasks : Release(c, t)
  BY <1>3, ReleaseInv
<1>4. CASE \E c \in CPUs, t \in Tasks, k \in Masks :
             SwitchOut(c, t, k) \/ LastSwitchOut(c, t, k) \/ \E a \in Masks : Fork(c, t, k, a)
  <2>1. PICK c \in CPUs, t \in Tasks, k \in Masks :
             SwitchOut(c, t, k) \/ LastSwitchOut(c, t, k) \/ \E a \in Masks : Fork(c, t, k, a)
    BY <1>4
  <2>2. StartPut(c, t, k)
    BY <2>1 DEF SwitchOut, LastSwitchOut, Fork
  <2>3. cpus_allowed' \in [Tasks -> Masks]
    BY <2>1 DEF SwitchOut, LastSwitchOut, Fork, IInv, TypeOK
  <2>4. gone' \in [Tasks -> SUBSET Farewells]
    <3>1. \/ gone' = gone
          \/ gone' = [gone EXCEPT ![t] = @ \cup {"switched"}]
          \/ gone' = [gone EXCEPT ![t] = {}]
      BY <2>1 DEF SwitchOut, LastSwitchOut, Fork
    <3>2. gone \in [Tasks -> SUBSET Farewells]
      BY DEF IInv, TypeOK
    <3>3. /\ [gone EXCEPT ![t] = @ \cup {"switched"}] \in [Tasks -> SUBSET Farewells]
          /\ [gone EXCEPT ![t] = {}] \in [Tasks -> SUBSET Farewells]
      BY <3>2, GoneType
    <3> QED
      BY <3>1, <3>2, <3>3, Zenon
  <2> QED
    BY <2>2, <2>3, <2>4, StartPutInv
<1>5. CASE (\E t \in Tasks : FreeTask(t) \/ QuietLastSwitch(t)) \/ UNCHANGED vars
  <2>1. gone' \in [Tasks -> SUBSET Farewells]
    BY SMTT(40), <1>5, GoneType DEF FreeTask, QuietLastSwitch, IInv, TypeOK, vars
  <2>2. UNCHANGED <<phase, lock, pool, cpus_allowed, cpu, keventd>>
    BY <1>5 DEF FreeTask, QuietLastSwitch, vars
  <2> QED
    BY <2>1, <2>2 DEF IInv, TypeOK, LocalOK, FillOrder, ExitAlone, CallbackHasTask,
       Filled, LockHeldInLoops, NoSlotLeak, Covered, Filling, Running, pool, cpu, keventd
<1>6. CASE \E s \in Slots : TimerFires(s) \/ \E w \in Workers : TakeWork(w, s)
  BY <1>6, TimerInv, TakeWorkInv
<1>7. CASE \E w \in Workers : CallbackStep(w)
  BY <1>7, ReadTaskInv, GiveUpInv, GoOnInv, ApplyInv, CbFreeInv DEF CallbackStep
<1> QED
  BY <1>1, <1>2, <1>3, <1>4, <1>5, <1>6, <1>7, Zenon DEF Next

(* The inductive invariant holds in every reachable state.                *)
LEMMA AlwaysIInv == Spec => []IInv
BY InitIInv, NextIInv, PTL DEF Spec

(* The types of the pool, the handlers and the callbacks are preserved.   *)
THEOREM TypeCorrect == Spec => []TypeOK
<1>1. IInv => TypeOK
  BY DEF IInv
<1> QED
  BY <1>1, AlwaysIInv, PTL

(* put_work, cancel_task_work and change_cpus race for the slots without  *)
(* a common lock, and still no slot of a loaded module is ever lost.      *)
THEOREM SlotsNeverLeak == Spec => []NoSlotLeak
<1>1. IInv => NoSlotLeak
  BY DEF IInv
<1> QED
  BY <1>1, AlwaysIInv, PTL

(* change_cpus never runs on a slot that was not filled.                  *)
THEOREM CallbackFindsTask == Spec => []CallbackHasTask
<1>1. IInv => CallbackHasTask
  BY DEF IInv
<1> QED
  BY <1>1, AlwaysIInv, PTL

(* The claiming and the cancelling loops exclude each other.              *)
THEOREM LoopsExclude == Spec => []LockHeldInLoops
<1>1. IInv => LockHeldInLoops
  BY DEF IInv
<1> QED
  BY <1>1, AlwaysIInv, PTL

-----------------------------------------------------------------------------
(* When no task exits nothing is cancelled, and the three owners a busy    *)
(* slot can have exclude one another.                                      *)
NothingCancelled == \A c \in CPUs : pc[c] \notin CancelPC \cup {"oops"}

SoleOwner ==
    phase = "up" =>
        /\ \A s \in Slots, c \in CPUs : Filling(c, s) => free[s] = 0 /\ work[s] = "idle"
        /\ \A s \in Slots, w \in Workers : Running(w, s) => free[s] = 0 /\ work[s] = "idle"
        /\ \A s \in Slots : work[s] # "idle" => free[s] = 0
        /\ \A s \in Slots, c, d \in CPUs : Filling(c, s) /\ Filling(d, s) => c = d
        /\ \A s \in Slots, v, w \in Workers : Running(v, s) /\ Running(w, s) => v = w
        /\ \A s \in Slots, c \in CPUs, w \in Workers : ~ (Filling(c, s) /\ Running(w, s))

OwnerInv == Mortal = {} => NothingCancelled /\ SoleOwner

(* No handler of cancel_task_work starts, so none of its steps is taken.   *)
LEMMA NothingCancelledNext ==
    ASSUME Mortal = {}, IInv, NothingCancelled, [Next]_vars
    PROVE  NothingCancelled'
<1> USE DEF IInv, TypeOK, NothingCancelled
<1>1. CASE UNCHANGED pc
  BY <1>1
<1>2. CASE \E c \in CPUs : \E q \in {"xlock", "xscan", "idle"} \cup PutPC :
             pc' = [pc EXCEPT ![c] = q]
  BY <1>2
<1>3. UNCHANGED pc \/ \E c \in CPUs : \E q \in {"xlock", "xscan", "idle"} \cup PutPC :
             pc' = [pc EXCEPT ![c] = q]
  <2>1. CASE \E c \in CPUs : ExitCall(c) \/ ExitStep(c) \/ PutStep(c)
    BY <2>1 DEF ExitCall, ExitStep, ExitMark, ExitEnd, PutStep, PutSkip, PutClaim, PutFull,
       PutMask, PutTask, PutSchedule, Return
  <2>2. CASE \E c \in CPUs : Lock(c)
    BY <2>2 DEF Lock
  <2>3. CASE \E c \in CPUs : CancelStep(c)
    BY <2>3 DEF CancelStep, CancelOops, CancelHit, CancelMiss, CancelEnd
  <2>4. CASE \E c \in CPUs, t \in Tasks, k \in Masks : StartPut(c, t, k)
    BY <2>4 DEF StartPut
  <2>5. CASE InitMigPool \/ (\E t \in Tasks : FreeTask(t) \/ QuietLastSwitch(t))
          \/ (\E s \in Slots : TimerFires(s) \/ \E w \in Workers : TakeWork(w, s))
          \/ (\E w \in Workers : CallbackStep(w)) \/ UNCHANGED vars
    BY <2>5 DEF InitMigPool, FreeTask, QuietLastSwitch, TimerFires, TakeWork, CallbackStep,
       CallbackReadTask, CallbackGiveUp, CallbackGoOn, CallbackApply, CallbackFree,
       CallbackReturn, cpu, vars
  <2> QED
    BY <2>1, <2>2, <2>3, <2>4, <2>5 DEF Next, HandlerStep, Release, SwitchOut, LastSwitchOut,
       Fork
<1> QED
  BY <1>1, <1>2, <1>3

(* What keeps the owners apart: a slot is claimed when nobody owns it, and *)
(* goes from the handler to the work to the callback.                      *)
LEMMA SoleOwnerNext ==
    ASSUME Mortal = {}, IInv, NothingCancelled, SoleOwner, [Next]_vars
    PROVE  SoleOwner'
<1> USE DEF IInv, TypeOK, SoleOwner, Filling, Running
<1>1. CASE InitMigPool
  BY <1>1 DEF InitMigPool, ExitAlone, cpu, keventd
<1>2. CASE \E c \in CPUs : ExitCall(c) \/ ExitStep(c)
  BY <1>2 DEF ExitCall, ExitStep, ExitMark, ExitEnd, ExitAlone
<1>3. CASE \E c \in CPUs : Lock(c)
  BY <1>3 DEF Lock, pool, keventd
<1>4. CASE \E c \in CPUs : PutStep(c)
  <2>1. PICK c \in CPUs : PutStep(c)
    BY <1>4
  <2>2. CASE PutClaim(c)
    BY <2>2 DEF PutClaim, LocalOK, keventd
  <2>3. CASE PutSchedule(c)
    BY <2>3 DEF PutSchedule, ScheduleDelayedWork, Return, LocalOK, keventd
  <2>4. CASE PutSkip(c) \/ PutFull(c) \/ PutMask(c) \/ PutTask(c)
    BY SMTT(40), <2>4 DEF PutSkip, PutFull, PutMask, PutTask, Return, pool, keventd
  <2> QED
    BY <2>1, <2>2, <2>3, <2>4 DEF PutStep
<1>5. CASE \E c \in CPUs : CancelStep(c)
  BY <1>5 DEF CancelStep, CancelOops, CancelHit, CancelMiss, CancelEnd, NothingCancelled
<1>6. CASE \E c \in CPUs, t \in Tasks, k \in Masks : StartPut(c, t, k)
  BY <1>6 DEF StartPut, pool, keventd
<1>7. CASE \E s \in Slots : TimerFires(s) \/ \E w \in Workers : TakeWork(w, s)
  <2>1. PICK s \in Slots : TimerFires(s) \/ \E w \in Workers : TakeWork(w, s)
    BY <1>7
  <2>2. CASE TimerFires(s)
    BY <2>2 DEF TimerFires, cpu, keventd
  <2>3. CASE \E w \in Workers : TakeWork(w, s)
    BY <2>3 DEF TakeWork, cpu
  <2> QED
    BY <2>1, <2>2, <2>3
<1>8. CASE \E w \in Workers : CallbackStep(w)
  <2>1. PICK w \in Workers : CallbackStep(w)
    BY <1>8
  <2>2. CASE CallbackFree(w)
    BY <2>2 DEF CallbackFree, CallbackReturn, LocalOK, cpu
  <2>3. CASE CallbackReadTask(w) \/ CallbackGoOn(w) \/ CallbackApply(w)
    <3>1. UNCHANGED <<phase, pool, cpu, ws>>
      BY <2>3 DEF CallbackReadTask, CallbackGoOn, CallbackApply
    <3>2. wpc[w] # "idle" /\ \E q \in {"check", "apply", "free"} : wpc' = [wpc EXCEPT ![w] = q]
      BY <2>3 DEF CallbackReadTask, CallbackGoOn, CallbackApply
    <3> QED
      BY <3>1, <3>2 DEF pool, cpu
  <2>4. CASE CallbackGiveUp(w)
    BY <2>4 DEF CallbackGiveUp, CallbackReturn, pool, cpu, LocalOK
  <2> QED
    BY <2>1, <2>2, <2>3, <2>4 DEF CallbackStep
<1>9. CASE (\E t \in Tasks : FreeTask(t) \/ QuietLastSwitch(t)) \/ UNCHANGED vars
  BY <1>9 DEF FreeTask, QuietLastSwitch, vars, pool, cpu, keventd
<1> QED
  BY <1>1, <1>2, <1>3, <1>4, <1>5, <1>6, <1>7, <1>8, <1>9 DEF Next, HandlerStep, Release,
     SwitchOut, LastSwitchOut, Fork

LEMMA AlwaysOwnerInv == Spec => []OwnerInv
<1>1. Init => OwnerInv
  BY DEF Init, OwnerInv, NothingCancelled, SoleOwner
<1>2. IInv /\ OwnerInv /\ [Next]_vars => OwnerInv'
  BY NothingCancelledNext, SoleOwnerNext DEF OwnerInv
<1> QED
  BY <1>1, <1>2, AlwaysIInv, PTL DEF Spec

(* Without exiting tasks, a busy slot has exactly one owner, however many  *)
(* cpus put work and however many callbacks run: a request that was stored *)
(* is not overwritten before it is applied.                                *)
THEOREM SlotsHaveOneOwner == Spec => []OneOwner
<1>1. IInv /\ OwnerInv => OneOwner
  <2> SUFFICES ASSUME IInv, OwnerInv, Mortal = {}, phase = "up", NEW s \in Slots
               PROVE  /\ free[s] = 1 => work[s] = "idle" /\ Owners(s) = {}
                      /\ free[s] = 0 => \/ /\ work[s] = "idle"
                                           /\ \E x \in Owners(s) : Owners(s) = {x}
                                        \/ work[s] # "idle" /\ Owners(s) = {}
    BY DEF OneOwner
  <2>1. SoleOwner /\ (free[s] = 0 => Covered(s))
    BY DEF OwnerInv, IInv, NoSlotLeak
  <2>2. free[s] \in {0, 1}
    BY DEF IInv, TypeOK
  <2>3. CASE free[s] = 1
    BY <2>1, <2>3 DEF SoleOwner, Owners
  <2>4. CASE free[s] = 0 /\ work[s] # "idle"
    BY <2>1, <2>4 DEF SoleOwner, Owners
  <2>5. CASE free[s] = 0 /\ work[s] = "idle"
    <3>1. CASE \E c \in CPUs : Filling(c, s)
      BY <2>1, <2>5, <3>1 DEF SoleOwner, Owners
    <3>2. CASE \E w \in Workers : Running(w, s)
      BY <2>1, <2>5, <3>2 DEF SoleOwner, Owners
    <3> QED
      BY <2>1, <2>5, <3>1, <3>2 DEF Covered
  <2> QED
    BY <2>2, <2>3, <2>4, <2>5
<1> QED
  BY <1>1, AlwaysIInv, AlwaysOwnerInv, PTL
=============================================================================
