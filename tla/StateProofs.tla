----------------------------- MODULE StateProofs -----------------------------
(***************************************************************************)
(* The states of the cpus.  For every number of cpus, states, write        *)
(* sections and decisions: a decision of put_mask_from_stats or            *)
(* initial_mask rests on one table, and the hint it leaves is for a state  *)
(* that exists.  For every table of counts: the searches answer with the   *)
(* nearest free state.  For every driver's table and list of allowed       *)
(* states: what init_freqs leaves of the table.                            *)
(***************************************************************************)
EXTENDS Pds, Searches, CpufreqInit, FiniteSetTheorems, WellFoundedInduction, TLAPS

(* What a search returns: a state that has cpus, or -1 when none has.      *)
Found(r, c) == \/ r \in States /\ c[r] # 0
               \/ r = -1 /\ \A s \in States : c[s] = 0

(* The cpus whose entry in l is s, and is less than s.                     *)
At(U, l, s) == {x \in U : l[x] = s}
Below(U, l, s) == {x \in U : l[x] < s}

(* The counts c are those of a layout l a mutator has published for the    *)
(* cpus U, when the cpus were in the states before, and of the moves the   *)
(* inform callback has reported since, which brought them to cur.  A count *)
(* may be negative meanwhile, but they add up to the number of cpus in U.  *)
Counts(c, cur) ==
    \E U \in SUBSET CPUs : \E l, before \in [CPUs -> States] :
        /\ U # {}
        /\ \A s \in States :
               c[s] = Cardinality(At(U, l, s)) + Cardinality(At(CPUs, cur, s))
                                               - Cardinality(At(CPUs, before, s))

(* The counts of the table outside of a write section; in a section, those *)
(* of the table being written, of which the entries not in todo are there. *)
TableInv ==
    IF InSection THEN /\ Counts(goal.cpus, goal.cur)
                      /\ \A s \in States \ todo : cpus[s] = goal.cpus[s]
                 ELSE todo = {} /\ Counts(cpus, cur_cpu_state)

(* What an attempt has read is true as long as the sequence number is the  *)
(* one it began with.                                                      *)
ReadInv ==
    /\ pc \in PC \ {"idle", "begin", "fbegin"} => seq0 <= seq /\ seq0 % 2 = 0
    /\ pc \in {"mask", "fmask", "retry", "fretry"} /\ seq = seq0 =>
           /\ new_state \in States
           /\ scheduling_method # "disable" => cpus[new_state] # 0
    /\ pc \in {"retry", "fretry"} /\ seq = seq0 => mask = cpumask[new_state]

PdsInv == TypeOK /\ TableInv /\ ReadInv

-----------------------------------------------------------------------------

(* Every non-empty set of natural numbers has a least element.             *)
LEMMA LeastNat ==
    ASSUME NEW T, T \subseteq Nat, T # {}
    PROVE  \E x \in T : \A y \in T : x <= y
<1> DEFINE R == {ss \in Nat \X Nat : ss[1] < ss[2]}
<1>1. IsWellFoundedOn(R, Nat)
  BY NatLessThanWellFounded DEF OpToRel
<1>2. \A x, y \in Nat : <<x, y>> \in R <=> x < y
  OBVIOUS
<1> HIDE DEF R
<1>3. PICK x \in T : \A y \in T : ~ (<<y, x>> \in R)
  BY <1>1, WFMin
<1>4. \A y \in T : ~ (y < x)
  BY <1>2, <1>3
<1>5. \A y \in T : x <= y
  BY <1>4
<1> QED
  BY <1>5

(* A non-empty set of states has a least one.                              *)
LEMMA MinState ==
    ASSUME NEW T, T \subseteq Nat, T # {}
    PROVE  Min(T) \in T /\ \A y \in T : Min(T) <= y
<1>1. \E x \in T : \A y \in T : x <= y
  BY LeastNat
<1> QED
  BY <1>1 DEF Min

(* Among some states, one is least by any measure.                         *)
LEMMA LeastArg ==
    ASSUME NEW S, S \subseteq States, S # {}, NEW f \in [States -> Int]
    PROVE  \E s \in S : \A t \in S : f[s] <= f[t]
<1> USE NStateAssumption
<1> DEFINE Upto(n) == {s \in S : s < n}
           Good(n) == Upto(n) # {} => \E s \in Upto(n) : \A t \in Upto(n) : f[s] <= f[t]
           Bad == {n \in Nat : ~Good(n)}
<1>1. ASSUME Bad # {}
      PROVE  FALSE
  <2>1. PICK n \in Bad : \A m \in Bad : n <= m
    <3>1. Bad \subseteq Nat
      OBVIOUS
    <3> HIDE DEF Bad
    <3> QED
      BY <1>1, <3>1, LeastNat
  <2>2. n \in Nat /\ ~Good(n)
    BY <2>1
  <2>3. n # 0
    <3>1. \A s \in S : ~(s < 0)
      BY DEF States
    <3>2. Upto(0) = {}
      BY <3>1
    <3> QED
      BY <2>2, <3>2
  <2>4. n - 1 \in Nat
    BY <2>2, <2>3
  <2>5. Good(n - 1)
    <3>1. n - 1 \notin Bad
      BY <2>1, <2>2, <2>4
    <3> QED
      BY <2>4, <3>1
  <2>6. \A s \in Upto(n) : s \in Upto(n - 1) \/ s = n - 1
    BY <2>2 DEF States
  <2>7. \A s \in Upto(n - 1) : s \in Upto(n)
    BY <2>2 DEF States
  <2>8. \A s \in S : f[s] \in Int
    OBVIOUS
  <2>9. \A s \in Upto(n) : s \in S
    OBVIOUS
  <2> HIDE DEF Upto, Bad
  <2>10. CASE Upto(n - 1) = {}
    <3>1. \A s, t \in Upto(n) : s = t
      BY <2>6, <2>10
    <3> QED
      BY <2>2, <2>8, <2>9, <3>1
  <2>11. CASE Upto(n - 1) # {}
    <3>1. PICK m \in Upto(n - 1) : \A t \in Upto(n - 1) : f[m] <= f[t]
      BY <2>5, <2>11
    <3>2. m \in Upto(n) /\ f[m] \in Int
      BY <2>7, <2>8, <2>9
    <3>3. CASE n - 1 \in Upto(n) /\ f[n - 1] < f[m]
      <4>1. f[n - 1] \in Int
        BY <2>8, <2>9, <3>3
      <4>2. \A t \in Upto(n) : f[n - 1] <= f[t]
        <5> TAKE t \in Upto(n)
        <5>1. CASE t = n - 1
          BY <4>1, <5>1
        <5>2. CASE t \in Upto(n - 1)
          <6>1. f[t] \in Int /\ f[m] <= f[t]
            BY <2>8, <2>9, <3>1, <5>2
          <6> QED
            BY <3>2, <3>3, <4>1, <6>1
        <5> QED
          BY <2>6, <5>1, <5>2
      <4> QED
        BY <2>2, <3>3, <4>2
    <3>4. CASE ~(n - 1 \in Upto(n) /\ f[n - 1] < f[m])
      <4>1. \A t \in Upto(n) : f[m] <= f[t]
        <5> TAKE t \in Upto(n)
        <5>1. CASE t = n - 1
          <6>1. f[t] \in Int
            BY <2>8, <2>9
          <6> QED
            BY <3>2, <3>4, <5>1, <6>1
        <5>2. CASE t \in Upto(n - 1)
          BY <3>1, <5>2
        <5> QED
          BY <2>6, <5>1, <5>2
      <4> QED
        BY <2>2, <3>2, <4>1
    <3> QED
      BY <3>3, <3>4
  <2> QED
    BY <2>10, <2>11
<1>2. Good(NState)
  BY <1>1
<1>3. \A s \in S : s < NState
  BY DEF States
<1>4. Upto(NState) = S
  BY <1>3
<1> QED
  BY <1>2, <1>4

-----------------------------------------------------------------------------
(* The least loaded state has cpus.                                        *)
LEMMA LowestLoaded ==
    ASSUME NEW c \in [States -> Int], NEW t \in [States -> Nat]
    PROVE  Found(lowest_loaded_state(c, t), c)
<1> DEFINE staffed == {s \in States : c[s] # 0}
           load == [s \in States |-> t[s] - c[s]]
           least == {s \in staffed : \A u \in staffed : load[s] <= load[u]}
<1>1. lowest_loaded_state(c, t) = IF staffed = {} THEN -1 ELSE Min(least)
  <2>1. least = {s \in staffed : \A u \in staffed : t[s] - c[s] <= t[u] - c[u]}
    OBVIOUS
  <2> QED
    BY <2>1 DEF lowest_loaded_state
<1>2. load \in [States -> Int]
  OBVIOUS
<1>3. staffed # {} => least # {}
  <2> HIDE DEF load
  <2> QED
    BY <1>2, LeastArg
<1>4. least \subseteq Nat
  BY NStateAssumption DEF States
<1>5. least # {} => Min(least) \in least
  <2> HIDE DEF least
  <2> QED
    BY <1>4, MinState
<1> QED
  BY <1>1, <1>3, <1>5 DEF Found

(* The first free state of an order, or else the least loaded one.         *)
LEMMA FirstFreeFound ==
    ASSUME NEW c \in [States -> Int], NEW t \in [States -> Nat], NEW order, NEW old
    PROVE  Found(FirstFree(order, old, c, t), c)
<1> DEFINE free == {k \in 1 .. Len(order) : is_state_free(old, order[k], c, t)}
<1>1. FirstFree(order, old, c, t) =
          LET k == IF free # {} THEN Min(free) ELSE 0
          IN  IF k = 0 THEN lowest_loaded_state(c, t) ELSE order[k]
  BY DEF FirstFree, SelectInSeq
<1>2. free \subseteq Nat
  OBVIOUS
<1>3. free # {} => Min(free) \in free
  <2> HIDE DEF free
  <2> QED
    BY <1>2, MinState
<1>4. \A k \in free : order[k] \in States /\ c[order[k]] # 0
  BY DEF is_state_free
<1> HIDE DEF free
<1> QED
  BY <1>1, <1>3, <1>4, LowestLoaded DEF Found

(* So do the searches that start from the state asked for.                 *)
LEMMA SearchFound ==
    ASSUME NEW c \in [States -> Int], NEW t \in [States -> Nat], NEW old, NEW req
    PROVE  /\ Found(search_state_up(old, req, c, t), c)
           /\ Found(search_state_down(old, req, c, t), c)
           /\ Found(search_state_closest(old, req, c, t), c)
<1>1. Found(search_state_up(old, req, c, t), c)
  BY FirstFreeFound DEF search_state_up
<1>2. Found(search_state_down(old, req, c, t), c)
  BY FirstFreeFound DEF search_state_down
<1>3. is_state_free(old, req, c, t) => Found(req, c)
  BY DEF is_state_free, Found
<1> QED
  BY <1>1, <1>2, <1>3 DEF search_state_closest

(* Counting the entries below n + 1.                                       *)
LEMMA BelowNext ==
    ASSUME NEW U, IsFiniteSet(U), NEW l \in [U -> States], NEW n \in Nat
    PROVE  /\ Cardinality(Below(U, l, n)) \in Nat
           /\ Cardinality(At(U, l, n)) \in Nat
           /\ Cardinality(Below(U, l, n + 1)) =
                  Cardinality(Below(U, l, n)) + Cardinality(At(U, l, n))
<1> DEFINE A == Below(U, l, n)
           B == At(U, l, n)
           C == Below(U, l, n + 1)
<1>1. IsFiniteSet(A) /\ IsFiniteSet(B)
  BY FS_Subset DEF At, Below
<1>2. \A x \in U : l[x] \in Int
  BY NStateAssumption DEF States
<1>3. \A x \in U : l[x] < n + 1 <=> l[x] < n \/ l[x] = n
  BY <1>2
<1>4. C = A \cup B
  BY <1>3 DEF At, Below
<1>5. \A x \in U : ~(l[x] < n /\ l[x] = n)
  BY <1>2
<1>6. A \cap B = {}
  BY <1>5 DEF At, Below
<1> HIDE DEF A, B, C
<1>7. Cardinality(A \cup B) = Cardinality(A) + Cardinality(B) - Cardinality(A \cap B)
  BY <1>1, FS_Union
<1>8. Cardinality(A) \in Nat /\ Cardinality(B) \in Nat
  BY <1>1, FS_CardinalityType
<1>9. Cardinality(C) = Cardinality(A) + Cardinality(B)
  BY <1>4, <1>6, <1>7, <1>8, FS_EmptySet
<1> QED
  BY <1>8, <1>9 DEF A, B, C

(* The counts of a table add up to a positive number: some state is        *)
(* staffed.                                                                *)
LEMMA SomeStaffed ==
    ASSUME NEW c, NEW cur \in [CPUs -> States], Counts(c, cur)
    PROVE  \E s \in States : c[s] # 0
<1> SUFFICES ASSUME \A s \in States : c[s] = 0
             PROVE  FALSE
  OBVIOUS
<1>1. PICK U \in SUBSET CPUs : \E l, before \in [CPUs -> States] :
        /\ U # {}
        /\ \A s \in States :
               c[s] = Cardinality(At(U, l, s)) + Cardinality(At(CPUs, cur, s))
                                               - Cardinality(At(CPUs, before, s))
  BY DEF Counts
<1>2. PICK l \in [CPUs -> States], before \in [CPUs -> States] :
        /\ U # {}
        /\ \A s \in States :
               c[s] = Cardinality(At(U, l, s)) + Cardinality(At(CPUs, cur, s))
                                               - Cardinality(At(CPUs, before, s))
  BY <1>1
<1> DEFINE k == [x \in U |-> l[x]]
           M(n) == Cardinality(Below(U, k, n))
           N(n) == Cardinality(Below(CPUs, cur, n))
           O(n) == Cardinality(Below(CPUs, before, n))
           Same(n) == M(n) + N(n) = O(n)
           Bad == {n \in 0 .. NState : ~Same(n)}
<1>3. IsFiniteSet(CPUs) /\ IsFiniteSet(U) /\ k \in [U -> States]
  BY PdsAssumption, FS_Subset
<1>4. \A s : At(U, k, s) = At(U, l, s)
  BY DEF At
<1>5. \A s \in States :
          0 = Cardinality(At(U, k, s)) + Cardinality(At(CPUs, cur, s))
                                       - Cardinality(At(CPUs, before, s))
  BY <1>2, <1>4
<1>6. \A n \in Nat :
          /\ M(n) \in Nat /\ M(n + 1) = M(n) + Cardinality(At(U, k, n))
          /\ N(n) \in Nat /\ N(n + 1) = N(n) + Cardinality(At(CPUs, cur, n))
          /\ O(n) \in Nat /\ O(n + 1) = O(n) + Cardinality(At(CPUs, before, n))
          /\ Cardinality(At(U, k, n)) \in Nat /\ Cardinality(At(CPUs, cur, n)) \in Nat
          /\ Cardinality(At(CPUs, before, n)) \in Nat
  <2> HIDE DEF k
  <2> TAKE n \in Nat
  <2>1. M(n) \in Nat /\ M(n + 1) = M(n) + Cardinality(At(U, k, n))
        /\ Cardinality(At(U, k, n)) \in Nat
    BY <1>3, BelowNext
  <2>2. N(n) \in Nat /\ N(n + 1) = N(n) + Cardinality(At(CPUs, cur, n))
        /\ Cardinality(At(CPUs, cur, n)) \in Nat
    BY <1>3, BelowNext
  <2>3. O(n) \in Nat /\ O(n + 1) = O(n) + Cardinality(At(CPUs, before, n))
        /\ Cardinality(At(CPUs, before, n)) \in Nat
    BY <1>3, BelowNext
  <2> QED
    BY <2>1, <2>2, <2>3
<1>7. Same(0)
  <2> HIDE DEF k
  <2>1. \A x \in U : ~(k[x] < 0)
    BY <1>3 DEF States
  <2>2. \A x \in CPUs : ~(cur[x] < 0) /\ ~(before[x] < 0)
    BY <1>2 DEF States
  <2>3. Below(U, k, 0) = {} /\ Below(CPUs, cur, 0) = {} /\ Below(CPUs, before, 0) = {}
    BY <2>1, <2>2 DEF Below
  <2> QED
    BY <2>3, FS_EmptySet
<1>8. \A x \in U : k[x] < NState
  BY <1>3, NStateAssumption DEF States
<1>9. \A x \in CPUs : cur[x] < NState /\ before[x] < NState
  BY <1>2, NStateAssumption DEF States
<1>10. Below(U, k, NState) = U /\ Below(CPUs, cur, NState) = CPUs
       /\ Below(CPUs, before, NState) = CPUs
  BY <1>8, <1>9 DEF Below
<1> HIDE DEF k
<1>11. ~Same(NState)
  <2>1. Cardinality(U) \in Nat /\ Cardinality(U) # 0 /\ Cardinality(CPUs) \in Nat
    BY <1>2, <1>3, FS_CardinalityType, FS_EmptySet
  <2> QED
    BY <1>10, <2>1
<1> HIDE DEF M, N, O
<1>12. PICK n \in Bad : \A m \in Bad : n <= m
  <2>1. NState \in Bad
    BY <1>11, NStateAssumption
  <2>2. Bad \subseteq Nat
    BY NStateAssumption
  <2> HIDE DEF Bad
  <2> QED
    BY <2>1, <2>2, LeastNat
<1>13. n \in 0 .. NState /\ ~Same(n)
  BY <1>12
<1>14. n # 0
  BY <1>7, <1>13
<1>15. n - 1 \in Nat /\ n - 1 \in States /\ n - 1 \in 0 .. NState /\ (n - 1) + 1 = n
  BY <1>13, <1>14, NStateAssumption DEF States
<1>16. Same(n - 1)
  <2>1. n - 1 \notin Bad
    BY <1>12, <1>13, <1>15
  <2> QED
    BY <1>15, <2>1
<1>17. Same(n)
  <2> DEFINE m == n - 1
  <2>1. /\ M(m) \in Nat /\ M(n) = M(m) + Cardinality(At(U, k, m))
        /\ N(m) \in Nat /\ N(n) = N(m) + Cardinality(At(CPUs, cur, m))
        /\ O(m) \in Nat /\ O(n) = O(m) + Cardinality(At(CPUs, before, m))
        /\ Cardinality(At(U, k, m)) \in Nat /\ Cardinality(At(CPUs, cur, m)) \in Nat
        /\ Cardinality(At(CPUs, before, m)) \in Nat
    BY <1>6, <1>15
  <2>2. 0 = Cardinality(At(U, k, m)) + Cardinality(At(CPUs, cur, m))
                                     - Cardinality(At(CPUs, before, m))
    BY <1>5, <1>15
  <2>3. M(m) + N(m) = O(m)
    BY <1>16
  <2> HIDE DEF m
  <2> QED
    BY <2>1, <2>2, <2>3
<1> QED
  BY <1>13, <1>17

(* What the evaluations of a task's ipc ask for and get.                   *)
LEMMA Evaluated ==
    ASSUME NEW m \in Methods, NEW i \in Nat, NEW s \in States,
           NEW p \in -NState .. NState,
           NEW c \in [States -> Int], NEW t \in [States -> Nat]
    PROVE  LET chosen == evaluate_ipc(m, i, s, p, c, t)
           IN  /\ chosen.state_req \in 0 .. MAX_STATES - 1
               /\ m # "select" => chosen.state_req \in States
               /\ IF m = "disable" THEN chosen.new_state = s ELSE Found(chosen.new_state, c)
               /\ chosen.step \in -NState .. NState
<1> DEFINE chosen == evaluate_ipc(m, i, s, p, c, t)
<1>0. /\ NState \in Nat \ {0} /\ NState <= 8 /\ States = 0 .. NState - 1 /\ MAX_STATES = 8
      /\ States \subseteq 0 .. MAX_STATES - 1
  BY NStateAssumption, PdsAssumption DEF States, MAX_STATES
<1>1. \A x \in Int : Bounded(x) \in States
  BY <1>0 DEF Bounded
<1>2. s \in Int /\ p \in Int /\ s + 1 \in Int /\ s - 1 \in Int /\ s + p \in Int
  BY <1>0
<1>3. \A o, r : /\ Found(search_state_up(o, r, c, t), c)
                /\ Found(search_state_down(o, r, c, t), c)
                /\ Found(search_state_closest(o, r, c, t), c)
  BY SearchFound
<1>4. m \in {"ladder", "select", "adaptive", "disable"}
  BY PdsAssumption
<1>5. CASE m = "ladder"
  <2> DEFINE e == ladder_evaluation(i, s, c, t)
  <2>1. e.state_req \in States /\ Found(e.new_state, c)
    BY <1>1, <1>2, <1>3 DEF ladder_evaluation
  <2>2. chosen = [state_req |-> e.state_req, new_state |-> e.new_state, step |-> p]
    BY <1>5 DEF evaluate_ipc
  <2> HIDE DEF e, chosen
  <2>3. chosen.state_req = e.state_req /\ chosen.new_state = e.new_state /\ chosen.step = p
    BY <2>2
  <2>4. chosen.state_req \in 0 .. MAX_STATES - 1
    <3>1. States \subseteq 0 .. MAX_STATES - 1
      BY <1>0
    <3> QED
      BY <2>1, <2>3, <3>1
  <2> QED
    BY <1>5, <2>1, <2>3, <2>4 DEF chosen
<1>6. CASE m = "select"
  <2> DEFINE e == select_evaluation(i, s, c, t)
             R == {x \in NState - 1 .. MAX_STATES - 1 : i >= min_states[x]}
  <2>1. Min(R) \in R
    <3>1. R \subseteq Nat
      BY <1>0
    <3>2. 7 \in NState - 1 .. MAX_STATES - 1 /\ min_states[7] = 0
      BY <1>0 DEF min_states, MAX_STATES
    <3>3. R # {}
      BY <3>2
    <3> HIDE DEF R
    <3> QED
      BY <3>1, <3>3, MinState
  <2>2. Min(R) \in 0 .. MAX_STATES - 1
    <3>1. R \subseteq 0 .. MAX_STATES - 1
      BY <1>0
    <3> HIDE DEF R
    <3> QED
      BY <2>1, <3>1
  <2>3. e = [state_req |-> Min(R), new_state |-> search_state_closest(s, Min(R), c, t)]
    BY DEF select_evaluation
  <2> HIDE DEF R
  <2>4. e.state_req \in 0 .. MAX_STATES - 1 /\ Found(e.new_state, c)
    BY <1>3, <2>2, <2>3
  <2>5. chosen = [state_req |-> e.state_req, new_state |-> e.new_state, step |-> p]
    BY <1>6 DEF evaluate_ipc
  <2> HIDE DEF e, chosen
  <2>6. chosen.state_req = e.state_req /\ chosen.new_state = e.new_state /\ chosen.step = p
    BY <2>5
  <2> QED
    BY <1>6, <2>4, <2>6 DEF chosen
<1>7. CASE m = "adaptive"
  <2> DEFINE e == adaptive_ladder_evaluation(i, s, p, c, t)
  <2>1. \A way \in {1, -1} : Grown(p, way) \in -NState .. NState
    <3>1. \A a, b \in Int : Min({a, b}) \in {a, b} /\ Min({a, b}) <= a /\ Min({a, b}) <= b
      BY DEF Min
    <3>2. \A a, b \in Int : Max({a, b}) \in {a, b} /\ Max({a, b}) >= a /\ Max({a, b}) >= b
      <4> TAKE a, b \in Int
      <4>1. \E x \in {a, b} : \A y \in {a, b} : x >= y
        OBVIOUS
      <4> QED
        BY <4>1 DEF Max
    <3>3. p + 1 \in Int /\ p - 1 \in Int /\ NState - 1 \in Int /\ -NState \in Int
      BY <1>0
    <3>4. /\ Min({p + 1, NState - 1}) \in {p + 1, NState - 1}
          /\ Min({p + 1, NState - 1}) <= NState - 1
          /\ Max({p - 1, -NState}) \in {p - 1, -NState}
          /\ Max({p - 1, -NState}) >= -NState
      BY <3>1, <3>2, <3>3
    <3>5. Min({p + 1, NState - 1}) \in -NState .. NState
      BY <1>0, <3>4
    <3>6. Max({p - 1, -NState}) \in -NState .. NState
      BY <1>0, <3>4
    <3> QED
      BY <3>5, <3>6 DEF Grown
  <2>2. 0 \in -NState .. NState /\ -1 \in -NState .. NState
    BY <1>0
  <2>3. 1 \in -NState .. NState
    BY <1>0
  <2>4. /\ e.state_req \in States /\ Found(e.new_state, c)
    BY <1>1, <1>2, <1>3 DEF adaptive_ladder_evaluation
  <2>5. e.step \in -NState .. NState
    BY <2>1, <2>2, <2>3 DEF adaptive_ladder_evaluation
  <2> QED
    BY <1>0, <1>7, <2>4, <2>5 DEF evaluate_ipc
<1>8. CASE m = "disable"
  <2>1. chosen = [state_req |-> 0, new_state |-> s, step |-> p]
    BY <1>8 DEF evaluate_ipc
  <2> HIDE DEF chosen
  <2>2. chosen.state_req = 0 /\ chosen.new_state = s /\ chosen.step = p
    BY <2>1
  <2>3. 0 \in 0 .. MAX_STATES - 1 /\ 0 \in States
    BY <1>0
  <2> QED
    BY <1>8, <2>2, <2>3 DEF chosen
<1> QED
  BY <1>4, <1>5, <1>6, <1>7, <1>8

-----------------------------------------------------------------------------
(* A sequence number is odd in a write section and even outside.           *)
LEMMA Parity ==
    ASSUME NEW n \in Nat
    PROVE  n % 2 \in {0, 1} /\ (n + 1) % 2 = 1 - (n % 2)
OBVIOUS

(* The types the other steps need of a state.                              *)
LEMMA Types ==
    ASSUME TypeOK
    PROVE  /\ seq \in Nat /\ seq0 \in Nat /\ MaxWrites \in Nat
           /\ cpumask \in [States -> SUBSET CPUs] /\ cpus \in [States -> Int]
           /\ cur_cpu_state \in [CPUs -> States] /\ state \in States
           /\ todo \subseteq States
           /\ goal \in [cpumask : [States -> SUBSET CPUs], cpus : [States -> Int],
                        cur : [CPUs -> States]]
           /\ ipc \in Nat /\ step \in -NState .. NState /\ scheduling_method \in Methods
           /\ fixed \in Fixed \cup {None} /\ pc \in PC
<1>1. MaxWrites \in Nat /\ Ipcs \subseteq Nat
  BY PdsAssumption
<1> QED
  BY <1>1 DEF TypeOK

(* The table before anything is written.                                   *)
LEMMA PdsInit ==
    ASSUME Init
    PROVE  PdsInv
<1>1. IsFiniteSet(CPUs) /\ CPUs # {} /\ ThisCPU \in CPUs
  BY PdsAssumption
<1>2. cur_cpu_state \in [CPUs -> States]
  BY DEF Init
<1>3. \A s \in States : cpus[s] = Cardinality(At(CPUs, cur_cpu_state, s))
  BY DEF Init, At
<1>4. \A s \in States : Cardinality(At(CPUs, cur_cpu_state, s)) \in Nat
  <2> TAKE s \in States
  <2>1. At(CPUs, cur_cpu_state, s) \subseteq CPUs
    BY DEF At
  <2> QED
    BY <1>1, <2>1, FS_Subset, FS_CardinalityType
<1>5. TypeOK
  <2>1. 0 \in 0 .. 2 * MaxWrites /\ 0 \in 0 .. MaxDecisions /\ 0 \in 0 .. MAX_STATES - 1
    BY PdsAssumption DEF MAX_STATES
  <2>2. 0 \in States /\ step \in -NState .. NState
    BY NStateAssumption DEF Init, States
  <2>3. cpus \in [States -> Int] /\ cpumask \in [States -> SUBSET CPUs]
    <3>1. cpus = [s \in States |-> Cardinality(At(CPUs, cur_cpu_state, s))]
      BY DEF Init, At
    <3> QED
      BY <1>4, <3>1 DEF Init
  <2>4. goal \in [cpumask : [States -> SUBSET CPUs], cpus : [States -> Int],
                  cur : [CPUs -> States]]
    BY <2>2 DEF Init, NoTable
  <2>5. demand \in [0 .. MAX_STATES - 1 -> Nat]
    BY DEF Init
  <2> QED
    BY <1>2, <2>1, <2>2, <2>3, <2>4, <2>5 DEF Init, TypeOK, PC
<1>6. TableInv
  <2>1. ~InSection
    BY DEF Init, InSection
  <2>2. \A s \in States :
            cpus[s] = Cardinality(At(CPUs, cur_cpu_state, s))
                      + Cardinality(At(CPUs, cur_cpu_state, s))
                      - Cardinality(At(CPUs, cur_cpu_state, s))
    BY <1>3, <1>4
  <2>3. Counts(cpus, cur_cpu_state)
    BY <1>1, <1>2, <2>2 DEF Counts
  <2> QED
    BY <2>1, <2>3 DEF TableInv, Init
<1>7. ReadInv
  BY DEF ReadInv, Init
<1> QED
  BY <1>5, <1>6, <1>7 DEF PdsInv

(* The begin and the end of a section make what was read worthless.        *)
LEMMA SequenceMoves ==
    ASSUME ReadInv, seq \in Nat, seq0 \in Nat, seq' = seq + 1, UNCHANGED <<pc, seq0>>
    PROVE  ReadInv'
<1>1. pc \in PC \ {"idle", "begin", "fbegin"} => seq0 <= seq /\ seq0 % 2 = 0
  BY DEF ReadInv
<1>2. pc \in PC \ {"idle", "begin", "fbegin"} => seq0' <= seq' /\ seq0' % 2 = 0 /\ seq' # seq0'
  BY <1>1
<1> QED
  BY <1>2 DEF ReadInv, PC

(* The counts a mutator is about to store are those of its layout.         *)
LEMMA MutatorWritesPds ==
    ASSUME PdsInv, NEW U \in SUBSET CPUs, NEW l \in [CPUs -> States], MutatorWrites(U, l)
    PROVE  PdsInv'
<1>0. TypeOK /\ TableInv /\ ReadInv
  BY DEF PdsInv
<1>1. /\ seq \in Nat /\ seq0 \in Nat /\ cur_cpu_state \in [CPUs -> States]
      /\ IsFiniteSet(CPUs)
  BY <1>0, Types, PdsAssumption
<1>2. /\ ~InSection /\ seq' = seq + 1 /\ seq + 2 <= 2 * MaxWrites /\ U # {}
      /\ todo' = States /\ clears' = TRUE
      /\ UNCHANGED <<table, hints, pc, seq0, state, choice, task>>
      /\ goal' = [cpumask |-> [s \in States |-> At(U, l, s)],
                  cpus |-> [s \in States |-> Cardinality(At(U, l, s))],
                  cur |-> cur_cpu_state]
  BY DEF MutatorWrites, WriteBegin, At
<1>3. \A s \in States : /\ Cardinality(At(U, l, s)) \in Nat
                        /\ Cardinality(At(CPUs, cur_cpu_state, s)) \in Nat
  <2> TAKE s \in States
  <2>1. At(U, l, s) \subseteq CPUs /\ At(CPUs, cur_cpu_state, s) \subseteq CPUs
    BY DEF At
  <2> QED
    BY <1>1, <2>1, FS_Subset, FS_CardinalityType
<1>4. goal' \in [cpumask : [States -> SUBSET CPUs], cpus : [States -> Int],
                 cur : [CPUs -> States]]
  <2>1. \A s \in States : At(U, l, s) \in SUBSET CPUs
    BY DEF At
  <2>2. \A s \in States : Cardinality(At(U, l, s)) \in Int
    BY <1>3
  <2> QED
    BY <1>1, <1>2, <2>1, <2>2
<1>5. TypeOK'
  <2>1. seq' \in 0 .. 2 * MaxWrites
    BY <1>1, <1>2, PdsAssumption
  <2> QED
    BY <1>0, <1>2, <1>4, <2>1 DEF TypeOK, table, hints, choice, task
<1>6. TableInv'
  <2>1. InSection'
    BY <1>1, <1>2, Parity DEF InSection
  <2>2. Counts(goal'.cpus, goal'.cur)
    <3>1. goal'.cur = cur_cpu_state
          /\ \A s \in States : goal'.cpus[s] = Cardinality(At(U, l, s))
      BY <1>2
    <3>2. \A s \in States :
              goal'.cpus[s] = Cardinality(At(U, l, s)) + Cardinality(At(CPUs, goal'.cur, s))
                              - Cardinality(At(CPUs, cur_cpu_state, s))
      BY <1>3, <3>1
    <3> QED
      BY <1>1, <1>2, <3>2 DEF Counts
  <2> QED
    BY <1>2, <2>1, <2>2 DEF TableInv
<1>7. ReadInv'
  <2>1. UNCHANGED <<pc, seq0>> /\ seq' = seq + 1
    BY <1>2
  <2> QED
    BY <1>0, <1>1, <2>1, SequenceMoves
<1> QED
  BY <1>5, <1>6, <1>7 DEF PdsInv

(* So are those the inform callback is about to store, when it moves a cpu.*)
LEMMA InformWritesPds ==
    ASSUME PdsInv, NEW c \in CPUs, NEW s \in States, InformWrites(c, s)
    PROVE  PdsInv'
<1> DEFINE old == cur_cpu_state[c]
           moved == [cur_cpu_state EXCEPT ![c] = s]
           n == [cpus EXCEPT ![s] = @ + 1, ![old] = @ - 1]
<1>0. TypeOK /\ TableInv /\ ReadInv
  BY DEF PdsInv
<1>1. /\ seq \in Nat /\ seq0 \in Nat /\ cur_cpu_state \in [CPUs -> States]
      /\ cpus \in [States -> Int] /\ cpumask \in [States -> SUBSET CPUs]
      /\ IsFiniteSet(CPUs)
  BY <1>0, Types, PdsAssumption
<1>2. /\ ~InSection /\ seq' = seq + 1 /\ seq + 2 <= 2 * MaxWrites /\ old # s
      /\ todo' = {s, old} /\ clears' = FALSE
      /\ UNCHANGED <<table, hints, pc, seq0, state, choice, task>>
      /\ goal' = [cpumask |-> [[cpumask EXCEPT ![s] = @ \cup {c}] EXCEPT ![old] = @ \ {c}],
                  cpus |-> n, cur |-> moved]
  BY DEF InformWrites, WriteBegin
<1>3. old \in States /\ moved \in [CPUs -> States] /\ n \in [States -> Int]
  BY <1>1
<1>4. goal' \in [cpumask : [States -> SUBSET CPUs], cpus : [States -> Int],
                 cur : [CPUs -> States]]
  <2>1. [[cpumask EXCEPT ![s] = @ \cup {c}] EXCEPT ![old] = @ \ {c}] \in [States -> SUBSET CPUs]
    BY <1>1, <1>3
  <2> HIDE DEF old, moved, n
  <2> QED
    BY <1>2, <1>3, <2>1
<1>5. TypeOK'
  <2>1. seq' \in 0 .. 2 * MaxWrites
    BY <1>1, <1>2, PdsAssumption
  <2> QED
    BY ZenonT(60), <1>0, <1>2, <1>3, <1>4, <2>1 DEF TypeOK, table, hints, choice, task
<1>6. TableInv'
  <2>1. InSection'
    BY <1>1, <1>2, Parity DEF InSection
  <2>2. Counts(n, moved)
    <3>1. Counts(cpus, cur_cpu_state)
      BY <1>0, <1>2 DEF TableInv
    <3>2. PICK U \in SUBSET CPUs : \E l, before \in [CPUs -> States] :
            /\ U # {}
            /\ \A t \in States :
                   cpus[t] = Cardinality(At(U, l, t)) + Cardinality(At(CPUs, cur_cpu_state, t))
                                                      - Cardinality(At(CPUs, before, t))
      BY <3>1 DEF Counts
    <3>3. PICK l \in [CPUs -> States], before \in [CPUs -> States] :
            /\ U # {}
            /\ \A t \in States :
                   cpus[t] = Cardinality(At(U, l, t)) + Cardinality(At(CPUs, cur_cpu_state, t))
                                                      - Cardinality(At(CPUs, before, t))
      BY <3>2
    <3>4. \A t \in States :
              n[t] = Cardinality(At(U, l, t)) + Cardinality(At(CPUs, moved, t))
                                              - Cardinality(At(CPUs, before, t))
      <4> TAKE t \in States
      <4> DEFINE A == At(CPUs, cur_cpu_state, t)
      <4>1. /\ A \subseteq CPUs /\ At(U, l, t) \subseteq CPUs /\ At(CPUs, before, t) \subseteq CPUs
        BY DEF At
      <4>2. /\ IsFiniteSet(A) /\ Cardinality(A) \in Nat
            /\ Cardinality(At(U, l, t)) \in Nat /\ Cardinality(At(CPUs, before, t)) \in Nat
        BY <1>1, <4>1, FS_Subset, FS_CardinalityType
      <4>3. cpus[t] = Cardinality(At(U, l, t)) + Cardinality(A) - Cardinality(At(CPUs, before, t))
        BY <3>3
      <4>4. CASE t = s
        <5>1. At(CPUs, moved, t) = A \cup {c} /\ c \notin A
          BY <1>1, <1>2, <4>4 DEF At
        <5>2. n[t] = cpus[t] + 1
          BY <1>1, <1>2, <1>3, <4>4
        <5> HIDE DEF A, n, moved
        <5>3. Cardinality(A \cup {c}) = Cardinality(A) + 1
          BY <4>2, <5>1, FS_AddElement
        <5> QED
          BY <4>2, <4>3, <5>1, <5>2, <5>3
      <4>5. CASE t = old
        <5>1. At(CPUs, moved, t) = A \ {c} /\ c \in A
          BY <1>1, <1>2, <4>5 DEF At
        <5>2. n[t] = cpus[t] - 1
          BY <1>1, <1>2, <1>3, <4>5
        <5> HIDE DEF A, n, moved
        <5>3. Cardinality(A \ {c}) = Cardinality(A) - 1
          BY <4>2, <5>1, FS_RemoveElement
        <5> QED
          BY <4>2, <4>3, <5>1, <5>2, <5>3
      <4>6. CASE t # s /\ t # old
        <5>1. At(CPUs, moved, t) = A
          BY <1>1, <4>6 DEF At
        <5>2. n[t] = cpus[t]
          BY <1>1, <1>3, <4>6
        <5> HIDE DEF A, n, moved
        <5> QED
          BY <4>3, <5>1, <5>2
      <4> QED
        BY <4>4, <4>5, <4>6
    <3> HIDE DEF n, moved
    <3> QED
      BY <3>3, <3>4 DEF Counts
  <2>3. \A t \in States \ {s, old} : cpus[t] = n[t]
    BY <1>1, <1>3
  <2>4. goal'.cpus = n /\ goal'.cur = moved /\ todo' = {s, old} /\ cpus' = cpus
    BY <1>2 DEF table
  <2> HIDE DEF n, moved, old
  <2>5. Counts(goal'.cpus, goal'.cur)
    BY <2>2, <2>4
  <2> QED
    BY <2>1, <2>3, <2>4, <2>5 DEF TableInv
<1>7. ReadInv'
  <2>1. UNCHANGED <<pc, seq0>> /\ seq' = seq + 1
    BY <1>2
  <2> QED
    BY <1>0, <1>1, <2>1, SequenceMoves
<1> QED
  BY <1>5, <1>6, <1>7 DEF PdsInv

(* The entries are stored one by one, in a section.                        *)
LEMMA WriteStatePds ==
    ASSUME PdsInv, NEW s \in States, WriteState(s)
    PROVE  PdsInv'
<1>0. TypeOK /\ TableInv /\ ReadInv
  BY DEF PdsInv
<1>1. /\ seq \in Nat /\ cpus \in [States -> Int] /\ cpumask \in [States -> SUBSET CPUs]
      /\ goal \in [cpumask : [States -> SUBSET CPUs], cpus : [States -> Int],
                   cur : [CPUs -> States]]
  BY <1>0, Types
<1>2. /\ s \in todo /\ todo' = todo \ {s}
      /\ cpumask' = [cpumask EXCEPT ![s] = goal.cpumask[s]]
      /\ cpus' = [cpus EXCEPT ![s] = goal.cpus[s]]
      /\ demand' \in {demand, [demand EXCEPT ![s] = 0]}
      /\ UNCHANGED <<seq, cur_cpu_state, goal, clears, decisions, pc, seq0, state, choice, task>>
  BY DEF WriteState
<1>3. InSection
  BY <1>0, <1>2 DEF TableInv
<1>4. TypeOK'
  <2>1. cpumask' \in [States -> SUBSET CPUs] /\ cpus' \in [States -> Int]
    BY <1>1, <1>2
  <2>2. demand' \in [0 .. MAX_STATES - 1 -> Nat]
    <3>1. demand \in [0 .. MAX_STATES - 1 -> Nat]
      BY <1>0 DEF TypeOK
    <3> QED
      BY <1>2, <3>1
  <2> QED
    BY <1>0, <1>2, <2>1, <2>2 DEF TypeOK, choice, task
<1>5. TableInv'
  <2>1. \A t \in States \ todo' : cpus'[t] = goal.cpus[t]
    BY <1>0, <1>1, <1>2, <1>3 DEF TableInv
  <2> QED
    BY <1>0, <1>2, <1>3, <2>1 DEF TableInv, InSection
<1>6. ReadInv'
  <2>1. seq % 2 = 1 /\ UNCHANGED <<seq, seq0, pc>>
    BY <1>2, <1>3 DEF InSection
  <2>2. pc \in PC \ {"idle", "begin", "fbegin"} => seq0 <= seq /\ seq0 % 2 = 0 /\ seq # seq0
    BY <1>0, <2>1 DEF ReadInv
  <2> QED
    BY <2>1, <2>2 DEF ReadInv, PC
<1> QED
  BY <1>4, <1>5, <1>6 DEF PdsInv

(* At the end of a section the table is the one that was to be written.    *)
LEMMA WriteEndPds ==
    ASSUME PdsInv, WriteEnd
    PROVE  PdsInv'
<1>0. TypeOK /\ TableInv /\ ReadInv
  BY DEF PdsInv
<1>1. /\ seq \in Nat /\ seq0 \in Nat /\ cpus \in [States -> Int]
      /\ goal \in [cpumask : [States -> SUBSET CPUs], cpus : [States -> Int],
                   cur : [CPUs -> States]]
  BY <1>0, Types
<1>2. /\ InSection /\ todo = {} /\ seq' = seq + 1 /\ cur_cpu_state' = goal.cur
      /\ goal' = NoTable
      /\ UNCHANGED <<cpumask, cpus, todo, clears, hints, pc, seq0, state, choice, task>>
  BY DEF WriteEnd
<1>3. TypeOK'
  <2>1. seq' \in 0 .. 2 * MaxWrites
    <3>1. seq \in 0 .. 2 * MaxWrites /\ seq % 2 = 1 /\ MaxWrites \in Nat
      BY <1>0, <1>2, PdsAssumption DEF TypeOK, InSection
    <3>2. seq # 2 * MaxWrites
      BY <3>1
    <3> QED
      BY <1>2, <3>1, <3>2
  <2>2. 0 \in States
    BY NStateAssumption DEF States
  <2>3. NoTable \in [cpumask : [States -> SUBSET CPUs], cpus : [States -> Int],
                     cur : [CPUs -> States]]
    BY <2>2 DEF NoTable
  <2> QED
    BY <1>0, <1>1, <1>2, <2>1, <2>3 DEF TypeOK, hints, choice, task
<1>4. TableInv'
  <2>1. ~InSection'
    BY <1>1, <1>2, Parity DEF InSection
  <2>2. Counts(goal.cpus, goal.cur) /\ \A t \in States : cpus[t] = goal.cpus[t]
    BY <1>0, <1>2 DEF TableInv
  <2>3. Counts(cpus, goal.cur)
    BY <2>2 DEF Counts
  <2>4. Counts(cpus', cur_cpu_state')
    BY <1>2, <2>3
  <2> QED
    BY <1>2, <2>1, <2>4 DEF TableInv
<1>5. ReadInv'
  <2>1. UNCHANGED <<pc, seq0>> /\ seq' = seq + 1
    BY <1>2
  <2> QED
    BY <1>0, <1>1, <2>1, SequenceMoves
<1> QED
  BY <1>3, <1>4, <1>5 DEF PdsInv

-----------------------------------------------------------------------------
(* The writer's variables decide about the table alone.                    *)
LEMMA TableKept ==
    ASSUME TableInv, UNCHANGED <<seq, table, writer>>
    PROVE  TableInv'
BY DEF TableInv, InSection, table, writer

(* An attempt that began with this sequence number finds a staffed state.  *)
LEMMA StaffedNow ==
    ASSUME PdsInv, seq = seq0, seq0 % 2 = 0
    PROVE  \E s \in States : cpus[s] # 0
<1>1. Counts(cpus, cur_cpu_state) /\ cur_cpu_state \in [CPUs -> States]
  BY Types DEF PdsInv, TableInv, InSection
<1> QED
  BY <1>1, SomeStaffed

(* The begin of a decision, and of an attempt.                             *)
LEMMA BeginPds ==
    ASSUME PdsInv,
           \/ \E i \in Ipcs \cup {0}, f \in Fixed \cup {None} : SwitchOut(i, f)
           \/ Fork \/ ReadBegin
    PROVE  PdsInv'
<1>0. TypeOK /\ TableInv /\ ReadInv
  BY DEF PdsInv
<1>1. CASE \E i \in Ipcs \cup {0}, f \in Fixed \cup {None} : SwitchOut(i, f)
  <2>1. PICK i \in Ipcs \cup {0}, f \in Fixed \cup {None} : SwitchOut(i, f)
    BY <1>1
  <2>2. decisions' \in 0 .. MaxDecisions
    BY <1>0, <2>1, PdsAssumption DEF TypeOK, SwitchOut
  <2>3. TypeOK'
    BY <1>0, <2>1, <2>2 DEF SwitchOut, TypeOK, table, writer, choice, PC
  <2>4. TableInv' /\ ReadInv'
    BY <1>0, <2>1, TableKept DEF SwitchOut, ReadInv
  <2> QED
    BY <2>3, <2>4 DEF PdsInv
<1>2. CASE Fork
  <2>1. decisions' \in 0 .. MaxDecisions
    BY <1>0, <1>2, PdsAssumption DEF TypeOK, Fork
  <2>2. TypeOK'
    BY <1>0, <1>2, <2>1 DEF Fork, TypeOK, table, writer, choice, task, PC
  <2>3. TableInv' /\ ReadInv'
    BY <1>0, <1>2, TableKept DEF Fork, ReadInv
  <2> QED
    BY <2>2, <2>3 DEF PdsInv
<1>3. CASE ReadBegin
  <2>1. cur_cpu_state[ThisCPU] \in States
    BY <1>0, PdsAssumption DEF TypeOK
  <2>2. TypeOK'
    BY <1>0, <1>3, <2>1 DEF ReadBegin, TypeOK, table, writer, choice, task, hints, PC
  <2>3. seq0' <= seq' /\ seq0' % 2 = 0
    <3>1. seq \in Nat
      BY <1>0, Types
    <3> QED
      BY <1>3, <3>1, Parity DEF ReadBegin, InSection
  <2>4. pc' \in {"search", "fsearch"}
    BY <1>3 DEF ReadBegin
  <2>5. TableInv' /\ ReadInv'
    BY <1>0, <1>3, <2>3, <2>4, TableKept DEF ReadBegin, ReadInv
  <2> QED
    BY <2>2, <2>5 DEF PdsInv
<1> QED
  BY <1>1, <1>2, <1>3

(* The search for a state.                                                 *)
LEMMA SearchPds ==
    ASSUME PdsInv, NEW tasks \in [States -> Loads],
           SearchFixed(tasks) \/ EvaluateIpc(tasks) \/ SearchBase(tasks)
    PROVE  PdsInv'
<1>0. TypeOK /\ TableInv /\ ReadInv
  BY DEF PdsInv
<1>1. /\ cpus \in [States -> Int] /\ state \in States /\ ipc \in Nat
      /\ step \in -NState .. NState /\ scheduling_method \in Methods
      /\ fixed \in Fixed \cup {None}
  BY <1>0, Types
<1>2. tasks \in [States -> Nat]
  BY PdsAssumption
<1>3. /\ UNCHANGED <<seq, table, writer, hints, seq0, state, mask>>
      /\ UNCHANGED <<ipc, fixed, cpus_allowed, scheduling_method>>
      /\ pc \in {"search", "fsearch"} /\ pc' \in {"mask", "fmask"}
  BY DEF SearchFixed, EvaluateIpc, SearchBase, task, choice
<1>4. /\ state_req' \in 0 .. MAX_STATES - 1 /\ step' \in -NState .. NState
      /\ \/ Found(new_state', cpus)
         \/ scheduling_method = "disable" /\ new_state' \in States
  <2>1. CASE SearchFixed(tasks)
    <3>1. fixed \in States
      BY <1>1, <2>1, PdsAssumption DEF SearchFixed
    <3>2. fixed \in 0 .. MAX_STATES - 1
      BY <3>1, NStateAssumption, PdsAssumption DEF States, MAX_STATES
    <3>3. Found(search_state_closest(state, fixed, cpus, tasks), cpus)
      BY <1>1, <1>2, SearchFound
    <3> QED
      BY <1>1, <2>1, <3>2, <3>3 DEF SearchFixed, task
  <2>2. CASE EvaluateIpc(tasks)
    <3> DEFINE chosen == evaluate_ipc(scheduling_method, ipc, state, step, cpus, tasks)
    <3>1. /\ chosen.state_req \in 0 .. MAX_STATES - 1 /\ chosen.step \in -NState .. NState
          /\ IF scheduling_method = "disable" THEN chosen.new_state = state
                                              ELSE Found(chosen.new_state, cpus)
      BY <1>1, <1>2, Evaluated
    <3>2. /\ state_req' = chosen.state_req /\ step' = chosen.step
          /\ new_state' = chosen.new_state
      BY <2>2 DEF EvaluateIpc
    <3> HIDE DEF chosen
    <3> QED
      BY <1>1, <3>1, <3>2
  <2>3. CASE SearchBase(tasks)
    <3>1. Found(search_state_closest(state, base_state, cpus, tasks), cpus)
      BY <1>1, <1>2, SearchFound
    <3>2. state_req' = state_req /\ step' = step
          /\ new_state' = search_state_closest(state, base_state, cpus, tasks)
      BY <2>3 DEF SearchBase, task
    <3>3. state_req \in 0 .. MAX_STATES - 1
      BY <1>0 DEF TypeOK
    <3> QED
      BY <1>1, <3>1, <3>2, <3>3
  <2> QED
    BY <2>1, <2>2, <2>3
<1>5. TypeOK'
  <2>1. new_state' \in States \cup {-1}
    BY <1>4 DEF Found
  <2> QED
    BY <1>0, <1>3, <1>4, <2>1 DEF TypeOK, table, writer, hints, PC
<1>6. ReadInv'
  <2>1. seq0' <= seq' /\ seq0' % 2 = 0 /\ seq0 % 2 = 0
    BY <1>0, <1>3 DEF ReadInv, PC
  <2>2. ASSUME seq' = seq0'
        PROVE  /\ new_state' \in States
               /\ scheduling_method' # "disable" => cpus'[new_state'] # 0
    <3>1. \E s \in States : cpus[s] # 0
      BY <1>3, <2>1, <2>2, StaffedNow
    <3> QED
      BY <1>3, <1>4, <3>1 DEF Found, table
  <2> QED
    BY <1>3, <2>1, <2>2 DEF ReadInv
<1>7. TableInv'
  BY <1>0, <1>3, TableKept
<1> QED
  BY <1>5, <1>6, <1>7 DEF PdsInv

(* The mask of the state found, and the look at the sequence number.       *)
LEMMA MaskPds ==
    ASSUME PdsInv, ReadMask \/ ReadRetry
    PROVE  PdsInv'
<1>0. TypeOK /\ TableInv /\ ReadInv
  BY DEF PdsInv
<1>1. UNCHANGED <<seq, table, writer, hints, seq0, state, new_state, state_req, task>>
  BY DEF ReadMask, ReadRetry, choice
<1>2. TypeOK'
  <2>1. mask' \subseteq CPUs
    <3>1. cpumask \in [States -> SUBSET CPUs] /\ mask \subseteq CPUs
      BY <1>0 DEF TypeOK
    <3> QED
      BY <3>1 DEF ReadMask, ReadRetry, choice
  <2>2. pc' \in PC
    BY DEF ReadMask, ReadRetry, PC
  <2> QED
    BY <1>0, <1>1, <2>1, <2>2 DEF TypeOK, table, writer, hints, task
<1>3. TableInv'
  BY <1>0, <1>1, TableKept
<1>4. ReadInv'
  <2>1. CASE ReadMask
    BY <1>0, <1>1, <2>1 DEF ReadMask, ReadInv, PC, table, task
  <2>2. CASE ReadRetry
    BY <1>0, <1>1, <2>2 DEF ReadRetry, ReadInv, PC
  <2> QED
    BY <2>1, <2>2
<1> QED
  BY <1>2, <1>3, <1>4 DEF PdsInv

(* The hint is counted, the request is made.                               *)
LEMMA PutPds ==
    ASSUME PdsInv, DemandInc \/ PutWork \/ PutInitialWork
    PROVE  PdsInv'
<1>0. TypeOK /\ TableInv /\ ReadInv
  BY DEF PdsInv
<1>1. CASE DemandInc
  <2>1. demand' \in [0 .. MAX_STATES - 1 -> Nat]
    <3>1. demand \in [0 .. MAX_STATES - 1 -> Nat] /\ state_req \in 0 .. MAX_STATES - 1
      BY <1>0 DEF TypeOK
    <3>2. demand' = [demand EXCEPT ![state_req] = @ + 1]
      BY <1>1 DEF DemandInc
    <3> QED
      BY <3>1, <3>2
  <2>2. TypeOK'
    BY <1>0, <1>1, <2>1 DEF DemandInc, TypeOK, table, writer, choice, task, PC
  <2>3. TableInv' /\ ReadInv'
    BY <1>0, <1>1, TableKept DEF DemandInc, ReadInv, PC
  <2> QED
    BY <2>2, <2>3 DEF PdsInv
<1>2. CASE PutWork \/ PutInitialWork
  <2>1. /\ Return /\ cpus_allowed' \in {cpus_allowed, mask, CPUs} /\ step' \in {step, 0}
    BY <1>2 DEF PutWork, PutInitialWork
  <2>2. 0 \in 0 .. 2 * MaxWrites /\ 0 \in States /\ 0 \in 0 .. MAX_STATES - 1
        /\ 0 \in -NState .. NState
    BY NStateAssumption, PdsAssumption DEF States, MAX_STATES
  <2>3. step' \in -NState .. NState /\ cpus_allowed' \subseteq CPUs
    <3>1. step \in -NState .. NState /\ cpus_allowed \subseteq CPUs /\ mask \subseteq CPUs
      BY <1>0 DEF TypeOK
    <3> QED
      BY <2>1, <2>2, <3>1
  <2>4. TypeOK'
    BY <1>0, <2>1, <2>2, <2>3 DEF Return, TypeOK, table, writer, hints, PC
  <2>5. TableInv' /\ ReadInv'
    BY <1>0, <2>1, TableKept DEF Return, ReadInv
  <2> QED
    BY <2>4, <2>5 DEF PdsInv
<1> QED
  BY <1>1, <1>2

(* The invariant holds always.                                             *)
LEMMA AlwaysPds == Spec => []PdsInv
<1>1. Init => PdsInv
  BY PdsInit
<1>2. PdsInv /\ [Next]_vars => PdsInv'
  <2> SUFFICES ASSUME PdsInv, [Next]_vars
               PROVE  PdsInv'
    OBVIOUS
  <2>1. CASE \E U \in SUBSET CPUs, l \in [CPUs -> States] : MutatorWrites(U, l)
    BY <2>1, MutatorWritesPds
  <2>2. CASE \E c \in CPUs, s \in States : InformWrites(c, s)
    BY <2>2, InformWritesPds
  <2>3. CASE (\E s \in States : WriteState(s)) \/ WriteEnd
    BY <2>3, WriteStatePds, WriteEndPds
  <2>4. CASE \/ \E i \in Ipcs \cup {0}, f \in Fixed \cup {None} : SwitchOut(i, f)
             \/ Fork \/ ReadBegin
    BY <2>4, BeginPds
  <2>5. CASE \E tasks \in [States -> Loads] :
                 SearchFixed(tasks) \/ EvaluateIpc(tasks) \/ SearchBase(tasks)
    BY <2>5, SearchPds
  <2>6. CASE ReadMask \/ ReadRetry \/ DemandInc \/ PutWork \/ PutInitialWork
    BY <2>6, MaskPds, PutPds
  <2>7. CASE UNCHANGED vars
    <3>1. UNCHANGED <<seq, table, writer>> /\ TableInv
      BY <2>7 DEF vars, PdsInv
    <3>2. TableInv'
      BY <3>1, TableKept
    <3>3. TypeOK' /\ ReadInv'
      BY <2>7 DEF vars, PdsInv, TypeOK, ReadInv, table, writer, hints, choice, task
    <3> QED
      BY <3>2, <3>3 DEF PdsInv
  <2> QED
    BY <2>1, <2>2, <2>3, <2>4, <2>5, <2>6, <2>7 DEF Next, Writes, Decides
<1> QED
  BY <1>1, <1>2, PTL DEF Spec

(* Every variable of a decision keeps its type: the step of the adaptive   *)
(* ladder stays within the states, and a request within the array.         *)
THEOREM PdsTypeCorrect == Spec => []TypeOK
<1>1. PdsInv => TypeOK
  BY DEF PdsInv
<1> QED
  BY <1>1, AlwaysPds, PTL

(* For every number of cpus, states and writers' sections: a decision that *)
(* is not retried has its mask from one table, and that table gives the    *)
(* state chosen cpus, although the counts the mutator and the inform       *)
(* callback keep may be negative between intervals.                        *)
THEOREM DecisionsFromOneTable == Spec => DecisionFromOneTable
<1>1. PdsInv /\ [Next]_vars =>
        [(pc \in {"retry", "fretry"} /\ pc' \in {"count", "fput"}) =>
           /\ new_state \in States
           /\ mask = cpumask[new_state]
           /\ scheduling_method # "disable" => cpus[new_state] # 0
           /\ ~InSection]_vars
  <2> SUFFICES ASSUME PdsInv, Next, pc \in {"retry", "fretry"}, pc' \in {"count", "fput"}
               PROVE  /\ new_state \in States
                      /\ mask = cpumask[new_state]
                      /\ scheduling_method # "disable" => cpus[new_state] # 0
                      /\ ~InSection
    OBVIOUS
  <2>1. ReadRetry
    <3>1. pc # pc' /\ pc \notin {"idle", "begin", "fbegin", "search", "fsearch", "mask", "fmask",
                                 "count", "put", "fput"}
      OBVIOUS
    <3>2. ~Writes
      BY <3>1 DEF Writes, MutatorWrites, InformWrites, WriteState, WriteEnd
    <3> QED
      BY <3>1, <3>2 DEF Next, Decides, SwitchOut, Fork, ReadBegin, SearchFixed, EvaluateIpc,
         SearchBase, ReadMask, DemandInc, PutWork, PutInitialWork
  <2>2. seq = seq0
    BY <2>1 DEF ReadRetry
  <2>3. ReadInv /\ pc \in PC \ {"idle", "begin", "fbegin"}
    BY DEF PdsInv, PC
  <2> QED
    BY <2>2, <2>3 DEF ReadInv, InSection
<1> QED
  BY <1>1, AlwaysPds, PTL DEF Spec, DecisionFromOneTable

(* For every number of states, a ladder method counts its hint for a state *)
(* that exists, whatever step earlier decisions and retries have left.     *)
THEOREM RequestsAreStates ==
    ASSUME "select" \notin Methods
    PROVE  Spec => []RequestIsAState
<1> DEFINE Inv == state_req \in States
<1>1. Init => Inv
  BY NStateAssumption DEF Init, States
<1>2. PdsInv /\ Inv /\ [Next]_vars => Inv'
  <2> SUFFICES ASSUME PdsInv, Inv, [Next]_vars, state_req' # state_req
               PROVE  Inv'
    OBVIOUS
  <2>1. /\ cpus \in [States -> Int] /\ state \in States /\ ipc \in Nat
        /\ step \in -NState .. NState /\ scheduling_method \in Methods
        /\ fixed \in Fixed \cup {None}
    BY Types DEF PdsInv
  <2>2. ~Writes /\ ~UNCHANGED vars
    BY DEF Writes, MutatorWrites, InformWrites, WriteState, WriteEnd, choice, vars
  <2>3. \/ \E tasks \in [States -> Loads] : SearchFixed(tasks) \/ EvaluateIpc(tasks)
        \/ Return
    BY <2>2 DEF Next, Decides, SwitchOut, Fork, ReadBegin, SearchBase, ReadMask, ReadRetry,
       DemandInc, PutWork, PutInitialWork, choice
  <2>4. CASE Return
    BY <2>4, NStateAssumption DEF Return, States
  <2>5. ASSUME NEW tasks \in [States -> Loads], SearchFixed(tasks)
        PROVE  Inv'
    BY <2>1, <2>5, PdsAssumption DEF SearchFixed
  <2>6. ASSUME NEW tasks \in [States -> Loads], EvaluateIpc(tasks)
        PROVE  Inv'
    <3>1. tasks \in [States -> Nat]
      BY PdsAssumption
    <3>2. evaluate_ipc(scheduling_method, ipc, state, step, cpus, tasks).state_req \in States
      BY <2>1, <3>1, Evaluated
    <3> QED
      BY <2>6, <3>2 DEF EvaluateIpc
  <2> QED
    BY <2>3, <2>4, <2>5, <2>6
<1>3. Inv => RequestIsAState
  BY DEF RequestIsAState
<1> QED
  BY <1>1, <1>2, <1>3, AlwaysPds, PTL DEF Spec

-----------------------------------------------------------------------------
(* The searches.                                                           *)

(* A non-empty set of states has a greatest one.                           *)
LEMMA MaxState ==
    ASSUME NEW T, T \subseteq States, T # {}
    PROVE  Max(T) \in T /\ \A y \in T : y <= Max(T)
<1> USE NStateAssumption
<1> DEFINE f == [s \in States |-> 0 - s]
<1>1. f \in [States -> Int] /\ \A s \in T : s \in Int /\ f[s] = 0 - s
  BY DEF States
<1>2. PICK x \in T : \A y \in T : f[x] <= f[y]
  <2> HIDE DEF f
  <2> QED
    BY <1>1, LeastArg
<1>3. \A y \in T : y <= x
  <2> TAKE y \in T
  <2>1. x \in Int /\ y \in Int /\ 0 - x <= 0 - y
    BY <1>1, <1>2
  <2> QED
    BY <2>1
<1>4. \E z \in T : \A y \in T : z >= y
  BY <1>1, <1>3
<1>5. Max(T) \in T /\ \A y \in T : Max(T) >= y
  BY <1>4 DEF Max
<1> QED
  BY <1>1, <1>5

(* The least loaded state, when some state has a cpu.                      *)
LEMMA LowestLoadedIs ==
    ASSUME NEW c \in [States -> Int], NEW t \in [States -> Int],
           NEW x \in States, c[x] # 0
    PROVE  LET r == lowest_loaded_state(c, t)
           IN  /\ r \in States /\ c[r] # 0
               /\ \A s \in States : c[s] # 0 => t[r] - c[r] <= t[s] - c[s]
<1> DEFINE staffed == {s \in States : c[s] # 0}
           load == [s \in States |-> t[s] - c[s]]
           least == {s \in staffed : \A u \in staffed : load[s] <= load[u]}
<1>1. lowest_loaded_state(c, t) = Min(least)
  <2>1. least = {s \in staffed : \A u \in staffed : t[s] - c[s] <= t[u] - c[u]}
    OBVIOUS
  <2>2. x \in staffed
    OBVIOUS
  <2> QED
    BY <2>1, <2>2 DEF lowest_loaded_state
<1>2. load \in [States -> Int] /\ staffed # {} /\ staffed \subseteq States
  OBVIOUS
<1>3. least # {}
  <2> HIDE DEF load, staffed
  <2> QED
    BY <1>2, LeastArg
<1>4. least \subseteq Nat
  BY NStateAssumption DEF States
<1>5. Min(least) \in least
  <2> HIDE DEF least
  <2> QED
    BY <1>3, <1>4, MinState
<1> QED
  BY <1>1, <1>5

(* The first free state of an order is the answer.                         *)
LEMMA FirstFreeIs ==
    ASSUME NEW c, NEW t, NEW old, NEW order, NEW k \in 1 .. Len(order), Len(order) \in Nat,
           is_state_free(old, order[k], c, t),
           \A j \in 1 .. k - 1 : ~is_state_free(old, order[j], c, t)
    PROVE  FirstFree(order, old, c, t) = order[k]
<1> DEFINE free == {j \in 1 .. Len(order) : is_state_free(old, order[j], c, t)}
<1>1. FirstFree(order, old, c, t) =
          LET j == IF free # {} THEN Min(free) ELSE 0
          IN  IF j = 0 THEN lowest_loaded_state(c, t) ELSE order[j]
  BY DEF FirstFree, SelectInSeq
<1>2. free \subseteq Nat /\ k \in free /\ \A j \in free : k <= j
  <2>1. free \subseteq Nat /\ k \in free
    OBVIOUS
  <2>2. ASSUME NEW j \in free, ~(k <= j)
        PROVE  FALSE
    <3>1. j \in 1 .. k - 1 /\ is_state_free(old, order[j], c, t)
      BY <2>2
    <3> QED
      BY <3>1
  <2> HIDE DEF free
  <2> QED
    BY <2>1, <2>2
<1> HIDE DEF free
<1>3. Min(free) \in free /\ \A y \in free : Min(free) <= y
  BY <1>2, MinState
<1>4. Min(free) = k /\ k # 0
  <2>1. PICK m \in free : m = Min(free) /\ \A y \in free : m <= y
    BY <1>3
  <2>2. k <= m /\ m <= k
    BY <1>2, <2>1
  <2>3. k \in Nat /\ k # 0 /\ m \in Nat
    BY <1>2
  <2> QED
    BY <2>1, <2>2, <2>3
<1> QED
  BY <1>1, <1>2, <1>4

(* Without a free state in it the least loaded one is.                     *)
LEMMA NoneFree ==
    ASSUME NEW c, NEW t, NEW old, NEW order,
           \A j \in 1 .. Len(order) : ~is_state_free(old, order[j], c, t)
    PROVE  FirstFree(order, old, c, t) = lowest_loaded_state(c, t)
<1>1. {j \in 1 .. Len(order) : is_state_free(old, order[j], c, t)} = {}
  OBVIOUS
<1> QED
  BY <1>1 DEF FirstFree, SelectInSeq

(* The orders of the two searches: every state, from the one asked for.    *)
LEMMA Orders ==
    ASSUME NEW r \in States
    PROVE  /\ Len(Upward(r) \o Downward(r - 1)) = NState
           /\ \A k \in 1 .. NState : (Upward(r) \o Downward(r - 1))[k] =
                  IF k <= NState - r THEN r + k - 1 ELSE NState - k
           /\ Len(Downward(r) \o Upward(r + 1)) = NState
           /\ \A k \in 1 .. NState : (Downward(r) \o Upward(r + 1))[k] =
                  IF k <= r + 1 THEN r + 1 - k ELSE k - 1
<1> USE NStateAssumption
<1>0. r \in Nat /\ r < NState
  BY DEF States
<1>1. Upward(r) \in Seq(Int) /\ Len(Upward(r)) = NState - r
  BY <1>0 DEF Upward
<1>2. Downward(r - 1) \in Seq(Int) /\ Len(Downward(r - 1)) = r
  BY <1>0 DEF Downward
<1>3. Downward(r) \in Seq(Int) /\ Len(Downward(r)) = r + 1
  BY <1>0 DEF Downward
<1>4. Upward(r + 1) \in Seq(Int) /\ Len(Upward(r + 1)) = NState - (r + 1)
  BY <1>0 DEF Upward
<1>5. Len(Upward(r) \o Downward(r - 1)) = NState
  BY <1>0, <1>1, <1>2
<1>6. Len(Downward(r) \o Upward(r + 1)) = NState
  BY <1>0, <1>3, <1>4
<1>7. ASSUME NEW k \in 1 .. NState
      PROVE  (Upward(r) \o Downward(r - 1))[k] = IF k <= NState - r THEN r + k - 1 ELSE NState - k
  <2>1. CASE k <= NState - r
    <3>1. (Upward(r) \o Downward(r - 1))[k] = Upward(r)[k]
      BY <1>0, <1>1, <1>2, <2>1
    <3> QED
      BY <1>0, <2>1, <3>1 DEF Upward
  <2>2. CASE ~(k <= NState - r)
    <3>1. (Upward(r) \o Downward(r - 1))[k] = Downward(r - 1)[k - (NState - r)]
      BY <1>0, <1>1, <1>2, <2>2
    <3>2. k - (NState - r) \in 1 .. (r - 1) + 1
      BY <1>0, <2>2
    <3>3. Downward(r - 1)[k - (NState - r)] = (r - 1) + 1 - (k - (NState - r))
      BY <3>2 DEF Downward
    <3>4. (r - 1) + 1 - (k - (NState - r)) = NState - k
      BY <1>0
    <3> QED
      BY <2>2, <3>1, <3>3, <3>4
  <2> QED
    BY <2>1, <2>2
<1>8. ASSUME NEW k \in 1 .. NState
      PROVE  (Downward(r) \o Upward(r + 1))[k] = IF k <= r + 1 THEN r + 1 - k ELSE k - 1
  <2>1. CASE k <= r + 1
    <3>1. (Downward(r) \o Upward(r + 1))[k] = Downward(r)[k]
      BY <1>0, <1>3, <1>4, <2>1
    <3> QED
      BY <1>0, <2>1, <3>1 DEF Downward
  <2>2. CASE ~(k <= r + 1)
    <3>1. (Downward(r) \o Upward(r + 1))[k] = Upward(r + 1)[k - (r + 1)]
      BY <1>0, <1>3, <1>4, <2>2
    <3>2. k - (r + 1) \in 1 .. NState - (r + 1)
      BY <1>0, <2>2
    <3>3. Upward(r + 1)[k - (r + 1)] = (r + 1) + (k - (r + 1)) - 1
      BY <3>2 DEF Upward
    <3>4. (r + 1) + (k - (r + 1)) - 1 = k - 1
      BY <1>0
    <3> QED
      BY <2>2, <3>1, <3>3, <3>4
  <2> QED
    BY <2>1, <2>2
<1> QED
  BY <1>5, <1>6, <1>7, <1>8

-----------------------------------------------------------------------------
(* A question in the range of SearchSpec.                                  *)
SearchTypeOK ==
    question \in [cpus : StaffedCounts, tasks : [States -> 0 .. MaxTasks], old : States, req : States]

(* search_state_up finds the lowest free state from the one asked for on,  *)
(* or else the highest below it.                                           *)
LEMMA UpIs ==
    ASSUME SearchTypeOK, Free # {}, NEW r \in States
    PROVE  Up(r) = IF {t \in Free : t >= r} # {}
                   THEN Min({t \in Free : t >= r}) ELSE Max(Free)
<1> USE NStateAssumption
<1>1. PICK order : order = Upward(r) \o Downward(r - 1)
  OBVIOUS
<1>2. Up(r) = FirstFree(order, question.old, question.cpus, question.tasks)
  BY <1>1 DEF Up, search_state_up
<1>3. /\ Len(order) = NState
      /\ \A k \in 1 .. NState : order[k] = IF k <= NState - r THEN r + k - 1 ELSE NState - k
  BY <1>1, Orders
<1>4. \A s : IsFree(s) <=> s \in Free
  BY DEF Free, IsFree, is_state_free
<1>5. Free \subseteq States /\ States \subseteq Nat /\ r \in Nat /\ r < NState
  BY DEF Free, States
<1>6. ASSUME NEW k \in 1 .. NState, order[k] \in Free, \A j \in 1 .. k - 1 : order[j] \notin Free
      PROVE  Up(r) = order[k]
  BY <1>2, <1>3, <1>4, <1>6, FirstFreeIs DEF IsFree
<1> DEFINE above == {t \in Free : t >= r}
<1>7. CASE above # {}
  <2>1. PICK m \in above : m = Min(above) /\ \A y \in above : m <= y
    <3>1. above \subseteq Nat
      BY <1>5
    <3> HIDE DEF above
    <3> QED
      BY <1>7, <3>1, MinState
  <2>2. m \in Free /\ m >= r /\ m \in Nat /\ m < NState
    BY <1>5, <2>1 DEF States
  <2>3. PICK k \in 1 .. NState : k = m - r + 1
    BY <1>5, <2>2
  <2>4. order[k] = m
    BY <1>3, <1>5, <2>2, <2>3
  <2>5. ASSUME NEW j \in 1 .. k - 1
        PROVE  order[j] \notin Free
    <3>1. j \in 1 .. NState /\ j <= NState - r /\ r + j - 1 < m /\ r + j - 1 >= r
      BY <1>5, <2>2, <2>3
    <3>2. order[j] = r + j - 1
      BY <1>3, <3>1
    <3> QED
      BY <1>5, <2>1, <2>2, <3>1, <3>2
  <2>6. Up(r) = m
    BY <1>6, <2>2, <2>4, <2>5
  <2> QED
    BY <1>7, <2>1, <2>6
<1>8. CASE above = {}
  <2>1. PICK m \in Free : m = Max(Free) /\ \A y \in Free : y <= m
    BY <1>5, MaxState
  <2>2. m < r /\ m \in Nat
    BY <1>5, <1>8
  <2>3. PICK k \in 1 .. NState : k = NState - m
    BY <1>5, <2>2
  <2>4. order[k] = m
    BY <1>3, <1>5, <2>2, <2>3
  <2>5. ASSUME NEW j \in 1 .. k - 1
        PROVE  order[j] \notin Free
    <3>1. j \in 1 .. NState
      BY <1>5, <2>2, <2>3
    <3>2. order[j] \in Int /\ order[j] > m
      BY <1>3, <1>5, <2>2, <2>3, <3>1
    <3> QED
      BY <1>5, <2>1, <2>2, <3>2
  <2>6. Up(r) = m
    BY <1>6, <2>1, <2>4, <2>5
  <2> QED
    BY <1>8, <2>1, <2>6
<1> QED
  BY <1>7, <1>8

(* search_state_down, the other way.                                       *)
LEMMA DownIs ==
    ASSUME SearchTypeOK, Free # {}, NEW r \in States
    PROVE  Down(r) = IF {t \in Free : t <= r} # {}
                     THEN Max({t \in Free : t <= r}) ELSE Min(Free)
<1> USE NStateAssumption
<1>1. PICK order : order = Downward(r) \o Upward(r + 1)
  OBVIOUS
<1>2. Down(r) = FirstFree(order, question.old, question.cpus, question.tasks)
  BY <1>1 DEF Down, search_state_down
<1>3. /\ Len(order) = NState
      /\ \A k \in 1 .. NState : order[k] = IF k <= r + 1 THEN r + 1 - k ELSE k - 1
  BY <1>1, Orders
<1>4. \A s : IsFree(s) <=> s \in Free
  BY DEF Free, IsFree, is_state_free
<1>5. Free \subseteq States /\ States \subseteq Nat /\ r \in Nat /\ r < NState
  BY DEF Free, States
<1>6. ASSUME NEW k \in 1 .. NState, order[k] \in Free, \A j \in 1 .. k - 1 : order[j] \notin Free
      PROVE  Down(r) = order[k]
  BY <1>2, <1>3, <1>4, <1>6, FirstFreeIs DEF IsFree
<1> DEFINE below == {t \in Free : t <= r}
<1>7. CASE below # {}
  <2>1. PICK m \in below : m = Max(below) /\ \A y \in below : y <= m
    <3>1. below \subseteq States
      BY <1>5
    <3> HIDE DEF below
    <3> QED
      BY <1>7, <3>1, MaxState
  <2>2. m \in Free /\ m <= r /\ m \in Nat /\ m < NState
    BY <1>5, <2>1 DEF States
  <2>3. PICK k \in 1 .. NState : k = r + 1 - m
    BY <1>5, <2>2
  <2>4. order[k] = m
    BY <1>3, <1>5, <2>2, <2>3
  <2>5. ASSUME NEW j \in 1 .. k - 1
        PROVE  order[j] \notin Free
    <3>1. j \in 1 .. NState /\ j <= r + 1 /\ r + 1 - j > m /\ r + 1 - j <= r
      BY <1>5, <2>2, <2>3
    <3>2. order[j] = r + 1 - j
      BY <1>3, <3>1
    <3> QED
      BY <1>5, <2>1, <2>2, <3>1, <3>2
  <2>6. Down(r) = m
    BY <1>6, <2>2, <2>4, <2>5
  <2> QED
    BY <1>7, <2>1, <2>6
<1>8. CASE below = {}
  <2>1. PICK m \in Free : m = Min(Free) /\ \A y \in Free : m <= y
    <3>1. Free \subseteq Nat
      BY <1>5
    <3> QED
      BY <3>1, MinState
  <2>2. m > r /\ m \in Nat /\ m < NState
    BY <1>5, <1>8 DEF States
  <2>3. PICK k \in 1 .. NState : k = m + 1
    BY <1>5, <2>2
  <2>4. order[k] = m
    BY <1>3, <1>5, <2>2, <2>3
  <2>5. ASSUME NEW j \in 1 .. k - 1
        PROVE  order[j] \notin Free
    <3>1. j \in 1 .. NState
      BY <1>5, <2>2, <2>3
    <3>2. order[j] \in Int /\ order[j] < m
      BY <1>3, <1>5, <2>2, <2>3, <3>1
    <3> QED
      BY <1>5, <2>1, <2>2, <3>2
  <2>6. Down(r) = m
    BY <1>6, <2>1, <2>4, <2>5
  <2> QED
    BY <1>8, <2>1, <2>6
<1> QED
  BY <1>7, <1>8

(* Without a free state both return the least loaded one.                  *)
LEMMA NeitherFree ==
    ASSUME SearchTypeOK, Free = {}, NEW r
    PROVE  /\ LeastLoaded(lowest_loaded_state(question.cpus, question.tasks))
           /\ Up(r) = lowest_loaded_state(question.cpus, question.tasks)
           /\ Down(r) = lowest_loaded_state(question.cpus, question.tasks)
<1>1. \A s : ~is_state_free(question.old, s, question.cpus, question.tasks)
  BY DEF Free, IsFree, is_state_free
<1>2. /\ Up(r) = lowest_loaded_state(question.cpus, question.tasks)
      /\ Down(r) = lowest_loaded_state(question.cpus, question.tasks)
  BY <1>1, NoneFree DEF Up, Down, search_state_up, search_state_down
<1>3. question.cpus \in [States -> Int] /\ question.tasks \in [States -> Int]
  BY SearchesAssumption DEF SearchTypeOK, StaffedCounts
<1>4. PICK x \in States : question.cpus[x] # 0
  BY <1>3 DEF SearchTypeOK, StaffedCounts
<1>5. PICK c \in [States -> Int], t \in [States -> Int] : c = question.cpus /\ t = question.tasks
  BY <1>3
<1>6. PICK q : q = lowest_loaded_state(c, t)
  OBVIOUS
<1>7. /\ q \in States /\ c[q] # 0
      /\ \A s \in States : c[s] # 0 => t[q] - c[q] <= t[s] - c[s]
  BY <1>4, <1>5, <1>6, LowestLoadedIs
<1>8. LeastLoaded(q)
  BY <1>5, <1>7 DEF LeastLoaded, Surplus
<1> QED
  BY <1>2, <1>5, <1>6, <1>8

(* The requests of the ladders stay inside the table.                      *)
LEMMA Limits ==
    ASSUME NEW n \in Int
    PROVE  /\ Bounded(n) \in States
           /\ n \in States => Bounded(n) = n
           /\ n >= NState => Bounded(n) = NState - 1
           /\ n < 0 => Bounded(n) = 0
BY NStateAssumption DEF Bounded, States

(* A ladder that climbs asks for a state above its own, or for the highest *)
(* state: what is free from there on is above it, or its own.              *)
LEMMA Climbs ==
    ASSUME SearchTypeOK, NEW n \in Nat \ {0}, NEW r \in States, r = Bounded(question.old + n),
           {t \in Free : t > question.old} # {}
    PROVE  Up(r) \in {t \in Free : t > question.old}
<1> USE NStateAssumption
<1>1. PICK o \in States : o = question.old
  BY DEF SearchTypeOK
<1>2. /\ Free \subseteq States /\ States \subseteq Nat /\ o \in Nat /\ r \in Nat
      /\ \A s \in States : s < NState
  BY DEF Free, States
<1>3. PICK x \in Free : x > o
  BY <1>1
<1>4. r > o
  <2>1. o < NState - 1
    BY <1>2, <1>3
  <2> QED
    BY <1>1, <1>2, <2>1 DEF Bounded
<1> DEFINE from == {t \in Free : t >= r}
<1>5. Up(r) = IF from # {} THEN Min(from) ELSE Max(Free)
  BY <1>3, UpIs
<1>6. CASE from # {}
  <2>1. from \subseteq Nat
    BY <1>2
  <2>2. PICK m \in from : m = Min(from)
    <3> HIDE DEF from
    <3> QED
      BY <1>6, <2>1, MinState
  <2>3. Up(r) = m
    BY <1>5, <1>6, <2>2
  <2>4. m \in Free /\ m > o
    BY <1>2, <1>4
  <2> QED
    BY <1>1, <2>3, <2>4
<1>7. CASE from = {}
  <2>1. PICK m \in Free : m = Max(Free) /\ \A y \in Free : y <= m
    BY <1>2, <1>3, MaxState
  <2>2. m > o
    BY <1>2, <1>3, <2>1
  <2>3. Up(r) = m
    BY <1>5, <1>7, <2>1
  <2> QED
    BY <1>1, <2>2, <2>3
<1> QED
  BY <1>6, <1>7

(* The same downwards.                                                     *)
LEMMA Descends ==
    ASSUME SearchTypeOK, NEW n \in Nat \ {0}, NEW r \in States, r = Bounded(question.old - n),
           {t \in Free : t < question.old} # {}
    PROVE  Down(r) \in {t \in Free : t < question.old}
<1> USE NStateAssumption
<1>1. PICK o \in States : o = question.old
  BY DEF SearchTypeOK
<1>2. /\ Free \subseteq States /\ States \subseteq Nat /\ o \in Nat /\ r \in Nat
      /\ \A s \in States : s < NState
  BY DEF Free, States
<1>3. PICK x \in Free : x < o
  BY <1>1
<1>4. r < o
  <2>1. o > 0
    BY <1>2, <1>3
  <2> QED
    BY <1>1, <1>2, <2>1 DEF Bounded
<1> DEFINE upto == {t \in Free : t <= r}
<1>5. Down(r) = IF upto # {} THEN Max(upto) ELSE Min(Free)
  BY <1>3, DownIs
<1>6. CASE upto # {}
  <2>1. upto \subseteq States
    BY <1>2
  <2>2. PICK m \in upto : m = Max(upto)
    <3> HIDE DEF upto
    <3> QED
      BY <1>6, <2>1, MaxState
  <2>3. Down(r) = m
    BY <1>5, <1>6, <2>2
  <2>4. m \in Free /\ m < o
    BY <1>2, <1>4
  <2> QED
    BY <1>1, <2>3, <2>4
<1>7. CASE upto = {}
  <2>1. Free \subseteq Nat
    BY <1>2
  <2>2. PICK m \in Free : m = Min(Free) /\ \A y \in Free : m <= y
    BY <1>3, <2>1, MinState
  <2>3. m < o
    BY <1>2, <1>3, <2>2
  <2>4. Down(r) = m
    BY <1>5, <1>7, <2>2
  <2> QED
    BY <1>1, <2>3, <2>4
<1> QED
  BY <1>6, <1>7

(* One step up the ladder: the states from there on are those above.       *)
LEMMA LadderUp ==
    ASSUME SearchTypeOK, Free # {}, NEW r \in States, r = Bounded(question.old + 1)
    PROVE  Up(r) = IF {t \in Free : t > question.old} # {}
                   THEN Min({t \in Free : t > question.old}) ELSE Max(Free)
<1> USE NStateAssumption
<1>1. PICK o \in States : o = question.old
  BY DEF SearchTypeOK
<1>2. /\ Free \subseteq States /\ States \subseteq Nat /\ o \in Nat /\ o <= NState - 1
      /\ \A s \in States : s <= NState - 1
  BY DEF Free, States
<1> DEFINE from == {t \in Free : t >= r}
           above == {t \in Free : t > o}
<1>3. Up(r) = IF from # {} THEN Min(from) ELSE Max(Free)
  BY UpIs
<1>4. CASE o < NState - 1
  <2>1. r = o + 1
    BY <1>1, <1>2, <1>4 DEF Bounded
  <2>2. from = above
    <3>1. \A t \in Free : t \in Int /\ o \in Int /\ r = o + 1
      BY <1>2, <2>1
    <3>2. \A t \in Free : t >= r <=> t > o
      BY <3>1
    <3> QED
      BY ONLY <3>2, Zenon
  <2>3. above = {t \in Free : t > question.old}
    BY <1>1
  <2> HIDE DEF from, above
  <2> QED
    BY <1>3, <2>2, <2>3
<1>5. CASE o = NState - 1
  <2>1. r = o /\ above = {}
    BY <1>1, <1>2, <1>5 DEF Bounded
  <2>2. PICK m \in Free : m = Max(Free) /\ \A y \in Free : y <= m
    BY <1>2, MaxState
  <2>3. from # {} => Min(from) = Max(Free)
    <3> SUFFICES ASSUME from # {} PROVE Min(from) = Max(Free)
      OBVIOUS
    <3>1. from \subseteq Nat
      BY <1>2
    <3>2. PICK k \in from : k = Min(from)
      <4> HIDE DEF from
      <4> QED
        BY <3>1, MinState
    <3>3. k = m
      BY <1>2, <1>5, <2>1, <2>2
    <3> QED
      BY <2>2, <3>2, <3>3
  <2> QED
    BY <1>1, <1>3, <2>1, <2>3
<1> QED
  BY <1>2, <1>4, <1>5

(* One step down.                                                          *)
LEMMA LadderDown ==
    ASSUME SearchTypeOK, Free # {}, NEW r \in States, r = Bounded(question.old - 1)
    PROVE  Down(r) = IF {t \in Free : t < question.old} # {}
                     THEN Max({t \in Free : t < question.old}) ELSE Min(Free)
<1> USE NStateAssumption
<1>1. PICK o \in States : o = question.old
  BY DEF SearchTypeOK
<1>2. /\ Free \subseteq States /\ States \subseteq Nat /\ o \in Nat /\ o <= NState - 1
  BY DEF Free, States
<1> DEFINE upto == {t \in Free : t <= r}
           below == {t \in Free : t < o}
<1>3. Down(r) = IF upto # {} THEN Max(upto) ELSE Min(Free)
  BY DownIs
<1>4. CASE o > 0
  <2>1. r = o - 1
    BY <1>1, <1>2, <1>4 DEF Bounded
  <2>2. upto = below
    <3>1. \A t \in Free : t \in Int /\ o \in Int /\ r = o - 1
      BY <1>2, <2>1
    <3>2. \A t \in Free : t <= r <=> t < o
      BY <3>1
    <3> QED
      BY ONLY <3>2, Zenon
  <2>3. below = {t \in Free : t < question.old}
    BY <1>1
  <2> HIDE DEF upto, below
  <2> QED
    BY <1>3, <2>2, <2>3
<1>5. CASE o = 0
  <2>1. r = o /\ below = {}
    BY <1>1, <1>2, <1>5 DEF Bounded
  <2>2. Free \subseteq Nat
    BY <1>2
  <2>3. PICK m \in Free : m = Min(Free) /\ \A y \in Free : m <= y
    BY <2>2, MinState
  <2>4. upto # {} => Max(upto) = Min(Free)
    <3> SUFFICES ASSUME upto # {} PROVE Max(upto) = Min(Free)
      OBVIOUS
    <3>1. upto \subseteq States
      BY <1>2
    <3>2. PICK k \in upto : k = Max(upto)
      <4> HIDE DEF upto
      <4> QED
        BY <3>1, MaxState
    <3>3. k = m
      BY <1>2, <1>5, <2>1, <2>3
    <3> QED
      BY <2>3, <3>2, <3>3
  <2> QED
    BY <1>1, <1>3, <2>1, <2>4
<1> QED
  BY <1>2, <1>4, <1>5

(* The ladders go the way the ipc points.                                  *)
LEMMA NearestNow ==
    ASSUME SearchTypeOK
    PROVE  NearestThatWay
<1> USE NStateAssumption
<1>1. question.old \in Nat /\ IPC_LOW = 4 /\ IPC_HIGH = 6
  BY DEF SearchTypeOK, States, IPC_LOW, IPC_HIGH
<1>2. PICK u \in States, d \in States :
          u = Bounded(question.old + 1) /\ d = Bounded(question.old - 1)
  BY <1>1, Limits
<1>3. LadderTo(IPC_HIGH) = Up(u) /\ LadderTo(IPC_LOW) = Down(d)
  BY <1>1, <1>2 DEF LadderTo, ladder_evaluation, Up, Down
<1>4. Free = {} => LeastLoaded(LadderTo(IPC_HIGH)) /\ LeastLoaded(LadderTo(IPC_LOW))
  BY <1>3, NeitherFree
<1> DEFINE above == {t \in Free : t > question.old}
           below == {t \in Free : t < question.old}
<1>5. Free # {} => LadderTo(IPC_HIGH) = IF above # {} THEN Min(above) ELSE Max(Free)
  BY <1>2, <1>3, LadderUp
<1>6. Free # {} => LadderTo(IPC_LOW) = IF below # {} THEN Max(below) ELSE Min(Free)
  BY <1>2, <1>3, LadderDown
<1>7. ASSUME above # {}, NEW n \in 1 .. NState - 1
      PROVE  AdaptiveTo(IPC_HIGH, n) \in above
  <2>1. PICK r \in States : r = Bounded(question.old + n)
    BY <1>1, Limits
  <2>2. AdaptiveTo(IPC_HIGH, n) = Up(r)
    BY <1>1, <2>1 DEF AdaptiveTo, adaptive_ladder_evaluation, Up
  <2> QED
    BY <1>7, <2>1, <2>2, Climbs
<1>8. ASSUME below # {}, NEW n \in -NState .. -1
      PROVE  AdaptiveTo(IPC_LOW, n) \in below
  <2>1. PICK m \in Nat \ {0} : m = 0 - n /\ question.old + n = question.old - m
    BY <1>1
  <2>2. PICK r \in States : r = Bounded(question.old - m)
    BY <1>1, <2>1, Limits
  <2>3. AdaptiveTo(IPC_LOW, n) = Down(r)
    BY <1>1, <2>1, <2>2 DEF AdaptiveTo, adaptive_ladder_evaluation, Down
  <2> QED
    BY <1>8, <2>1, <2>2, <2>3, Descends
<1> QED
  BY <1>4, <1>5, <1>6, <1>7, <1>8 DEF NearestThatWay

(* The nearer of the two answers is the nearest free state.                *)
LEMMA ClosestNow ==
    ASSUME SearchTypeOK
    PROVE  ClosestIsNearest
<1> USE NStateAssumption
<1>1. PICK r \in States : r = question.req
  BY DEF SearchTypeOK
<1>2. Closest = IF IsFree(r) THEN r
                ELSE IF Down(r) = -1 THEN Up(r)
                ELSE IF Gap(r, Down(r)) < Gap(r, Up(r)) THEN Down(r) ELSE Up(r)
  BY <1>1 DEF Closest, search_state_closest, Up, Down, IsFree
<1>3. Free \subseteq States /\ States \subseteq Nat /\ r \in Nat
  BY DEF Free, States
<1>4. CASE Free = {}
  <2>1. LeastLoaded(Up(r)) /\ LeastLoaded(Down(r)) /\ Up(r) = Down(r)
    BY <1>4, NeitherFree
  <2>2. ~IsFree(r)
    BY <1>4 DEF Free
  <2>3. Closest = Up(r)
    BY <1>2, <2>1, <2>2
  <2> QED
    BY <1>4, <2>1, <2>3 DEF ClosestIsNearest
<1>5. CASE IsFree(r)
  <2>1. r \in Free /\ Closest = r /\ Gap(r, r) = 0
    BY <1>2, <1>3, <1>5 DEF Free, Gap
  <2>2. \A t \in Free : 0 <= Gap(r, t)
    BY <1>3 DEF Gap
  <2> QED
    BY <1>1, <2>1, <2>2 DEF ClosestIsNearest
<1>6. CASE Free # {} /\ ~IsFree(r)
  <2> DEFINE above == {t \in Free : t >= r}
             below == {t \in Free : t <= r}
  <2>1. Up(r) = (IF above # {} THEN Min(above) ELSE Max(Free))
    BY <1>1, <1>6, UpIs
  <2>2. Down(r) = (IF below # {} THEN Max(below) ELSE Min(Free))
    BY <1>1, <1>6, DownIs
  <2>3. above \subseteq Nat /\ below \subseteq States /\ Free \subseteq Nat
    BY <1>3
  <2>4. above # {} => Min(above) \in above /\ \A y \in above : Min(above) <= y
    <3> HIDE DEF above
    <3> QED
      BY <2>3, MinState
  <2>5. below # {} => Max(below) \in below /\ \A y \in below : y <= Max(below)
    <3> HIDE DEF below
    <3> QED
      BY <2>3, MaxState
  <2>6. Max(Free) \in Free /\ Min(Free) \in Free
    BY <1>3, <1>6, <2>3, MaxState, MinState
  <2>7. Up(r) \in Free /\ Down(r) \in Free
    <3>1. above \subseteq Free /\ below \subseteq Free
      OBVIOUS
    <3> HIDE DEF above, below
    <3> QED
      BY <2>1, <2>2, <2>4, <2>5, <2>6, <3>1
  <2>8. Up(r) \in Nat /\ Down(r) \in Nat
    BY <2>3, <2>7
  <2>9. /\ Closest \in Free /\ Closest \in Nat
        /\ Gap(r, Closest) <= Gap(r, Up(r)) /\ Gap(r, Closest) <= Gap(r, Down(r))
    BY <1>2, <1>3, <1>6, <2>7, <2>8 DEF Gap
  <2>10. ASSUME NEW t \in Free
         PROVE  Gap(r, Closest) <= Gap(r, t)
    <3>1. CASE t >= r
      <4>1. t \in above
        BY <3>1
      <4>2. Up(r) <= t /\ Up(r) >= r
        <5>1. Up(r) \in above /\ \A y \in above : Up(r) <= y
          <6> HIDE DEF above
          <6> QED
            BY <2>1, <2>4, <4>1
        <5> QED
          BY <4>1, <5>1
      <4> QED
        BY <1>3, <2>8, <2>9, <3>1, <4>2 DEF Gap
    <3>2. CASE ~(t >= r)
      <4>1. t \in below
        BY <1>3, <3>2
      <4>2. t <= Down(r) /\ Down(r) <= r
        <5>1. Down(r) \in below /\ \A y \in below : y <= Down(r)
          <6> HIDE DEF below
          <6> QED
            BY <2>2, <2>5, <4>1
        <5> QED
          BY <4>1, <5>1
      <4> QED
        BY <1>3, <2>8, <2>9, <3>2, <4>2 DEF Gap
    <3> QED
      BY <3>1, <3>2
  <2> QED
    BY <1>1, <1>6, <2>9, <2>10 DEF ClosestIsNearest
<1> QED
  BY <1>4, <1>5, <1>6

(* Questions stay questions.                                               *)
LEMMA AlwaysAsked == SearchSpec => []SearchTypeOK
<1>1. SearchInit => SearchTypeOK
  BY NStateAssumption DEF SearchInit, SearchTypeOK, States
<1>2. ASSUME SearchTypeOK, [\E o, r \in States : Ask(o, r)]_question
      PROVE  SearchTypeOK'
  <2>1. CASE UNCHANGED question
    BY <1>2, <2>1 DEF SearchTypeOK
  <2>2. ASSUME NEW o \in States, NEW r \in States, Ask(o, r)
        PROVE  SearchTypeOK'
    BY <1>2, <2>2 DEF SearchTypeOK, Ask
  <2> QED
    BY <1>2, <2>1, <2>2
<1> QED
  BY <1>1, <1>2, PTL DEF SearchSpec

(* The ladders and the searches they call: for every table of states in    *)
(* which some state has a cpu, negative counts included, any numbers of    *)
(* tasks and any step, a task goes to the nearest free state the way its   *)
(* ipc points, else to the nearest the other way, else to the state with   *)
(* the least surplus.                                                      *)
THEOREM LaddersFindNearest == SearchSpec => []NearestThatWay
<1>1. SearchTypeOK => NearestThatWay
  BY NearestNow
<1> QED
  BY <1>1, AlwaysAsked, PTL

(* search_state_closest: no free state is nearer to the one asked for than *)
(* the answer.                                                             *)
THEOREM ClosestFindsNearest == SearchSpec => []ClosestIsNearest
<1>1. SearchTypeOK => ClosestIsNearest
  BY ClosestNow
<1> QED
  BY <1>1, AlwaysAsked, PTL

-----------------------------------------------------------------------------
(* Loops.                                                                  *)

(* Induction up to n, for a set of numbers: it holds 0, and with m, m + 1. *)
LEMMA UpTo ==
    ASSUME NEW n \in Nat, NEW G, 0 \in G, \A m \in 0 .. n : m \in G /\ m < n => m + 1 \in G
    PROVE  \A m \in 0 .. n : m \in G
<1> SUFFICES ASSUME NEW m \in 0 .. n, m \notin G
             PROVE  FALSE
  OBVIOUS
<1> DEFINE Bad == {k \in 0 .. n : k \notin G}
<1>1. Bad \subseteq Nat /\ Bad # {}
  OBVIOUS
<1>2. PICK b \in Bad : \A x \in Bad : b <= x
  <2> HIDE DEF Bad
  <2> QED
    BY <1>1, LeastNat
<1>3. b \in 0 .. n /\ b \notin G /\ b # 0
  BY <1>2
<1>4. b - 1 \in 0 .. n /\ b - 1 < n /\ (b - 1) + 1 = b /\ ~(b <= b - 1)
  BY <1>3
<1>5. b - 1 \in G
  <2>1. b - 1 \notin Bad
    <3> HIDE DEF Bad
    <3> QED
      BY <1>2, <1>4
  <2> QED
    BY <1>4, <2>1
<1> QED
  BY <1>3, <1>4, <1>5

Recurses(g, n, base, go) ==
    g[0] = base /\ \A k \in 1 .. n : g[k] = go[<<k, g[k - 1]>>]

(* A function defined by recursion on the numbers up to n exists.          *)
LEMMA Recursion ==
    ASSUME NEW n \in Nat, NEW T, NEW base \in T, NEW go \in [(1 .. n) \X T -> T]
    PROVE  \E g \in [0 .. n -> T] : Recurses(g, n, base, go)
<1> DEFINE Upto(g, m) == g[0] = base /\ \A k \in 1 .. m : g[k] = go[<<k, g[k - 1]>>]
           Good(m) == \E g \in [0 .. m -> T] : Upto(g, m)
           G == {m \in 0 .. n : Good(m)}
<1>1. Good(0)
  <2> DEFINE g == [k \in 0 .. 0 |-> base]
  <2>1. g \in [0 .. 0 -> T] /\ Upto(g, 0)
    OBVIOUS
  <2> QED
    BY <2>1
<1>2. ASSUME NEW m \in Nat, m + 1 <= n, Good(m)
      PROVE  Good(m + 1)
  <2>1. PICK g \in [0 .. m -> T] : Upto(g, m)
    BY <1>2
  <2> DEFINE top == go[<<m + 1, g[m]>>]
             h == [k \in 0 .. m + 1 |-> IF k = m + 1 THEN top ELSE g[k]]
  <2>2. top \in T
    <3>1. g[m] \in T /\ m + 1 \in 1 .. n
      BY <1>2
    <3> QED
      BY <3>1
  <2>3. h \in [0 .. m + 1 -> T]
    BY <2>2
  <2>4. h[0] = base
    BY <2>1
  <2>5. ASSUME NEW k \in 1 .. m + 1
        PROVE  h[k] = go[<<k, h[k - 1]>>]
    <3>1. k - 1 \in 0 .. m /\ h[k - 1] = g[k - 1]
      OBVIOUS
    <3>2. CASE k = m + 1
      <4>1. k - 1 = m /\ h[k] = top
        BY <3>2
      <4> QED
        BY <3>1, <3>2, <4>1
    <3>3. CASE k # m + 1
      <4>1. k \in 1 .. m /\ h[k] = g[k]
        BY <3>3
      <4> QED
        BY <2>1, <3>1, <4>1
    <3> QED
      BY <3>2, <3>3
  <2> HIDE DEF h
  <2> QED
    BY <2>3, <2>4, <2>5
<1> HIDE DEF Good
<1>3. \A m \in 0 .. n : m \in G
  <2>1. 0 \in G
    BY <1>1
  <2>2. \A m \in 0 .. n : m \in G /\ m < n => m + 1 \in G
    BY <1>2
  <2> HIDE DEF G
  <2> QED
    BY <2>1, <2>2, UpTo
<1> QED
  BY <1>3 DEF Good, Recurses

-----------------------------------------------------------------------------
(* Counting the elements of a set of numbers that are below one.           *)
LEMMA CountNext ==
    ASSUME NEW S, S \subseteq Nat, NEW q \in Nat
    PROVE  /\ CountBelow(S, q) \in Nat /\ CountBelow(S, q) <= q
           /\ CountBelow(S, q + 1) = CountBelow(S, q) + (IF q \in S THEN 1 ELSE 0)
<1> DEFINE B == {y \in S : y < q}
           C == {y \in S : y < q + 1}
<1>0. \A y \in S : /\ (y < q => y \in 0 .. q - 1 /\ y # q)
                   /\ (y < q + 1 <=> y < q \/ y = q)
  OBVIOUS
<1>1. B \subseteq 0 .. q - 1
  BY <1>0
<1>2. IsFiniteSet(0 .. q - 1) /\ Cardinality(0 .. q - 1) = q
  <2>1. 0 \in Int /\ q - 1 \in Int
    OBVIOUS
  <2>2. IsFiniteSet(0 .. q - 1) /\ Cardinality(0 .. q - 1) = IF 0 > q - 1 THEN 0 ELSE (q - 1) - 0 + 1
    BY <2>1, FS_Interval
  <2> QED
    BY <2>2
<1>3. IsFiniteSet(B) /\ Cardinality(B) <= q
  <2> HIDE DEF B
  <2> QED
    BY <1>1, <1>2, FS_Subset
<1>4. Cardinality(B) \in Nat
  BY <1>3, FS_CardinalityType
<1>5. CASE q \in S
  <2>1. C = B \cup {q} /\ q \notin B
    BY <1>0, <1>5
  <2> HIDE DEF B, C
  <2>2. Cardinality(B \cup {q}) = Cardinality(B) + 1
    BY <1>3, <2>1, FS_AddElement
  <2>3. Cardinality(C) = Cardinality(B) + 1
    BY <2>1, <2>2
  <2> QED
    BY <1>3, <1>4, <1>5, <2>3 DEF CountBelow, B, C
<1>6. CASE q \notin S
  <2>1. C = B
    BY <1>0, <1>6
  <2> HIDE DEF B, C
  <2> QED
    BY <1>3, <1>4, <1>6, <2>1 DEF CountBelow, B, C
<1> QED
  BY <1>5, <1>6

(* None is below 0.                                                        *)
LEMMA CountZero ==
    ASSUME NEW S, S \subseteq Nat
    PROVE  CountBelow(S, 0) = 0
<1>0. \A y \in S : ~(y < 0)
  OBVIOUS
<1>1. {y \in S : y < 0} = {}
  BY <1>0
<1> QED
  BY <1>1, FS_EmptySet DEF CountBelow

(* The higher the number, the more are below it, and more still when it    *)
(* has passed an element.                                                  *)
LEMMA CountGrows ==
    ASSUME NEW S, S \subseteq Nat, NEW a \in Nat, NEW b \in Nat
    PROVE  /\ a <= b => CountBelow(S, a) <= CountBelow(S, b)
           /\ a < b /\ a \in S => CountBelow(S, a) < CountBelow(S, b)
<1>1. ASSUME NEW x \in Nat, x <= b
      PROVE  CountBelow(S, x) <= CountBelow(S, b)
  <2> DEFINE B == {y \in S : y < x}
             C == {y \in S : y < b}
  <2>0. \A y \in S : (y < x => y < b) /\ (y < b => y \in 0 .. b - 1)
    BY <1>1
  <2>1. B \subseteq C /\ C \subseteq 0 .. b - 1
    BY <2>0
  <2>2. IsFiniteSet(0 .. b - 1)
    BY FS_Interval
  <2> HIDE DEF B, C
  <2>3. IsFiniteSet(C)
    BY <2>1, <2>2, FS_Subset
  <2>4. Cardinality(B) <= Cardinality(C)
    BY <2>1, <2>3, FS_Subset
  <2> QED
    BY <2>4 DEF CountBelow, B, C
<1>2. CountBelow(S, a) \in Nat /\ CountBelow(S, a + 1) = CountBelow(S, a) + (IF a \in S THEN 1 ELSE 0)
  BY CountNext
<1>3. CountBelow(S, b) \in Nat
  BY CountNext
<1>4. a < b => a + 1 \in Nat /\ a + 1 <= b
  OBVIOUS
<1>5. a < b => CountBelow(S, a + 1) <= CountBelow(S, b)
  BY <1>1, <1>4
<1> QED
  BY <1>1, <1>2, <1>3, <1>5

(* All of them are below a bound.                                          *)
LEMMA CountAll ==
    ASSUME NEW S, NEW q \in Nat, S \subseteq 0 .. q - 1
    PROVE  CountBelow(S, q) = Cardinality(S) /\ IsFiniteSet(S)
<1>0. \A y \in S : y < q
  OBVIOUS
<1>1. {y \in S : y < q} = S
  BY <1>0
<1>2. IsFiniteSet(0 .. q - 1)
  BY FS_Interval
<1> QED
  BY <1>1, <1>2, FS_Subset DEF CountBelow

-----------------------------------------------------------------------------
(* sort_table.                                                             *)

(* No entry before b is higher than the entry b.                           *)
Top(t, b) == \A a \in 0 .. b - 1 : t[a] <= t[b]

(* u holds the first len entries of t in another order.                    *)
Entries(t, len) == {t[i] : i \in 0 .. len - 1}
Apart(t, len) == \A i, j \in 0 .. len - 1 : t[i] = t[j] => i = j
Reordered(t, u, len) == Entries(u, len) = Entries(t, len) /\ (Apart(t, len) => Apart(u, len))

(* Bubble swaps two neighbours that are in the wrong order, and nothing    *)
(* else.                                                                   *)
LEMMA Bubbles ==
    ASSUME NEW len \in 2 .. MaxStates, NEW t \in [Slots -> Nat], NEW j \in 0 .. len - 2
    PROVE  /\ Bubble(t, j) \in [Slots -> Nat] /\ Reordered(t, Bubble(t, j), len)
           /\ \/ t[j] <= t[j + 1] /\ Bubble(t, j) = t
              \/ /\ t[j + 1] < t[j]
                 /\ Bubble(t, j)[j] = t[j + 1] /\ Bubble(t, j)[j + 1] = t[j]
                 /\ \A a \in Slots : a # j /\ a # j + 1 => Bubble(t, j)[a] = t[a]
<1> USE FreqTableAssumption
<1>1. j \in Slots /\ j + 1 \in Slots /\ \A a \in 0 .. len - 1 : a \in Slots
  BY DEF Slots
<1>2. t[j] \in Nat /\ t[j + 1] \in Nat
  BY <1>1
<1>3. CASE t[j] <= t[j + 1]
  BY <1>3 DEF Bubble, Reordered
<1>4. CASE ~(t[j] <= t[j + 1])
  <2>1. PICK u : u = Bubble(t, j)
    OBVIOUS
  <2>2. u = [t EXCEPT ![j] = t[j + 1], ![j + 1] = t[j]]
    BY <1>4, <2>1 DEF Bubble
  <2>3. /\ u \in [Slots -> Nat] /\ u[j] = t[j + 1] /\ u[j + 1] = t[j]
        /\ \A a \in Slots : a # j /\ a # j + 1 => u[a] = t[a]
    BY <1>1, <1>2, <2>2
  <2>4. j \in 0 .. len - 1 /\ j + 1 \in 0 .. len - 1
    OBVIOUS
  <2>5. Entries(u, len) = Entries(t, len)
    <3>1. ASSUME NEW a \in 0 .. len - 1
          PROVE  u[a] \in Entries(t, len)
      BY <1>1, <2>3, <2>4 DEF Entries
    <3>2. ASSUME NEW a \in 0 .. len - 1
          PROVE  t[a] \in Entries(u, len)
      <4>1. CASE a = j
        BY <2>3, <2>4, <4>1 DEF Entries
      <4>2. CASE a = j + 1
        BY <2>3, <2>4, <4>2 DEF Entries
      <4>3. CASE a # j /\ a # j + 1
        BY <1>1, <2>3, <4>3 DEF Entries
      <4> QED
        BY <4>1, <4>2, <4>3
    <3> QED
      BY <3>1, <3>2 DEF Entries
  <2>6. Apart(t, len) => Apart(u, len)
    <3> SUFFICES ASSUME Apart(t, len), NEW a \in 0 .. len - 1, NEW b \in 0 .. len - 1, u[a] = u[b]
                 PROVE  a = b
      BY DEF Apart
    <3> DEFINE from(x) == IF x = j THEN j + 1 ELSE IF x = j + 1 THEN j ELSE x
    <3>1. \A x \in 0 .. len - 1 : from(x) \in 0 .. len - 1 /\ u[x] = t[from(x)]
      BY <1>1, <2>3, <2>4
    <3>2. from(a) \in 0 .. len - 1 /\ from(b) \in 0 .. len - 1 /\ t[from(a)] = t[from(b)]
      BY <3>1
    <3>3. from(a) = from(b)
      <4> HIDE DEF from
      <4> QED
        BY <3>2 DEF Apart
    <3> QED
      BY <3>3
  <2>7. t[j + 1] < t[j]
    BY <1>2, <1>4
  <2> QED
    BY <2>1, <2>3, <2>5, <2>6, <2>7 DEF Reordered
<1> QED
  BY <1>3, <1>4

(* Reordering twice is reordering.                                         *)
LEMMA ReorderedTwice ==
    ASSUME NEW t, NEW u, NEW v, NEW len, Reordered(t, u, len), Reordered(u, v, len)
    PROVE  Reordered(t, v, len)
BY DEF Reordered

(* After m passes the last m entries are in place; in the next pass, after *)
(* j comparisons, the entry j is the highest so far.                       *)
Settled(t, len, m) == \A b \in 0 .. len - 1 : b >= len - m => Top(t, b)
Passing(t, len, m, j) ==
    /\ t \in [Slots -> Nat] /\ Settled(t, len, m) /\ Top(t, j)
    /\ j >= len - 1 - m => Top(t, len - 1 - m)

(* One comparison of a pass.                                               *)
LEMMA PassStep ==
    ASSUME NEW len \in 2 .. MaxStates, NEW t, NEW m \in 0 .. len - 2, NEW j \in 0 .. len - 2,
           Passing(t, len, m, j)
    PROVE  Passing(Bubble(t, j), len, m, j + 1)
<1> USE FreqTableAssumption
<1>1. t \in [Slots -> Nat] /\ Settled(t, len, m) /\ Top(t, j)
  BY DEF Passing
<1>2. PICK u \in [Slots -> Nat] : /\ u = Bubble(t, j)
         /\ \/ t[j] <= t[j + 1] /\ u = t
            \/ /\ t[j + 1] < t[j] /\ u[j] = t[j + 1] /\ u[j + 1] = t[j]
               /\ \A a \in Slots : a # j /\ a # j + 1 => u[a] = t[a]
  BY <1>1, Bubbles
<1>3. /\ j \in Slots /\ j + 1 \in Slots /\ \A a \in 0 .. len - 1 : a \in Slots /\ t[a] \in Nat /\ u[a] \in Nat
      /\ j \in 0 .. len - 1 /\ j + 1 \in 0 .. len - 1
  BY <1>1 DEF Slots
<1>4. Top(u, j + 1)
  <2>1. ASSUME NEW a \in 0 .. j
        PROVE  u[a] <= u[j + 1]
    <3>1. a # j => t[a] <= t[j]
      BY <1>1 DEF Top
    <3>2. a \in 0 .. len - 1
      OBVIOUS
    <3> QED
      BY <1>2, <1>3, <3>1, <3>2
  <2> QED
    BY <2>1 DEF Top
<1>5. ASSUME NEW b \in 0 .. len - 1, b > j + 1, Top(t, b)
      PROVE  Top(u, b)
  <2>1. \A a \in 0 .. b - 1 : t[a] <= t[b]
    BY <1>5 DEF Top
  <2>2. u[b] = t[b]
    BY <1>2, <1>3, <1>5
  <2>3. ASSUME NEW a \in 0 .. b - 1
        PROVE  u[a] <= u[b]
    <3>1. a \in Slots /\ j \in 0 .. b - 1 /\ j + 1 \in 0 .. b - 1
      BY <1>3, <1>5
    <3>2. u[a] = t[a] \/ u[a] = t[j] \/ u[a] = t[j + 1]
      BY <1>2, <3>1
    <3> QED
      BY <2>1, <2>2, <3>1, <3>2
  <2> QED
    BY <2>3 DEF Top
<1>6. ASSUME NEW b \in 0 .. len - 1, b < j, Top(t, b)
      PROVE  Top(u, b)
  <2>1. u[b] = t[b] /\ \A a \in 0 .. b - 1 : u[a] = t[a]
    BY <1>2, <1>3, <1>6
  <2> QED
    BY <1>6, <2>1 DEF Top
<1>7. j >= len - 1 - m => u = t
  <2> SUFFICES ASSUME j >= len - 1 - m
               PROVE  u = t
    OBVIOUS
  <2>1. Top(t, j + 1)
    BY <1>1, <1>3 DEF Settled
  <2>2. t[j] <= t[j + 1]
    BY <2>1 DEF Top
  <2> QED
    BY <1>2, <1>3, <2>2
<1>8. ASSUME NEW b \in 0 .. len - 1, b >= len - 1 - m, Top(t, b)
      PROVE  Top(u, b)
  <2>1. CASE b = j
    BY <1>7, <1>8, <2>1
  <2>2. CASE b = j + 1
    BY <1>4, <2>2
  <2> QED
    BY <1>5, <1>6, <1>8, <2>1, <2>2
<1>9. Settled(u, len, m)
  BY <1>1, <1>8 DEF Settled
<1>10. j + 1 >= len - 1 - m => Top(u, len - 1 - m)
  <2> SUFFICES ASSUME j + 1 >= len - 1 - m
               PROVE  Top(u, len - 1 - m)
    OBVIOUS
  <2>1. CASE j + 1 = len - 1 - m
    BY <1>4, <2>1
  <2>2. CASE j >= len - 1 - m
    <3>1. Top(t, len - 1 - m) /\ len - 1 - m \in 0 .. len - 1
      BY <2>2 DEF Passing
    <3> QED
      BY <1>7, <2>2, <3>1
  <2> QED
    BY <2>1, <2>2
<1> QED
  BY <1>2, <1>4, <1>9, <1>10 DEF Passing

(* A pass is len - 1 comparisons.                                          *)
LEMMA PassRuns ==
    ASSUME NEW len \in 2 .. MaxStates, NEW t \in [Slots -> Nat]
    PROVE  \E at : /\ at[0] = t /\ Pass(t, len) = at[len - 1]
                   /\ \A j \in 1 .. len - 1 : at[j] = Bubble(at[j - 1], j - 1)
<1> DEFINE n == len - 1
           T == [Slots -> Nat]
           P(f) == f = [j \in 0 .. n |-> IF j = 0 THEN t ELSE Bubble(f[j - 1], j - 1)]
           at == CHOOSE f : P(f)
           go == [x \in (1 .. n) \X T |-> Bubble(x[2], x[1] - 1)]
<1>1. Pass(t, len) = at[n]
  BY DEF Pass
<1>2. n \in Nat /\ t \in T
  OBVIOUS
<1>3. go \in [(1 .. n) \X T -> T]
  <2>1. ASSUME NEW x \in (1 .. n) \X T
        PROVE  Bubble(x[2], x[1] - 1) \in T
    <3>1. x[2] \in [Slots -> Nat] /\ x[1] - 1 \in 0 .. len - 2
      OBVIOUS
    <3> QED
      BY <3>1, Bubbles
  <2> HIDE DEF T
  <2> QED
    BY <2>1
<1>4. PICK g \in [0 .. n -> T] : Recurses(g, n, t, go)
  <2> HIDE DEF n, T, go
  <2> QED
    BY <1>2, <1>3, Recursion
<1>5. P(g)
  <2>1. ASSUME NEW j \in 1 .. n
        PROVE  g[j] = Bubble(g[j - 1], j - 1)
    <3>1. g[j] = go[<<j, g[j - 1]>>]
      BY <1>4 DEF Recurses
    <3>2. <<j, g[j - 1]>> \in (1 .. n) \X T
      OBVIOUS
    <3> QED
      BY <3>1, <3>2
  <2>2. g[0] = t
    BY <1>4 DEF Recurses
  <2>3. \A j \in 0 .. n : g[j] = IF j = 0 THEN t ELSE Bubble(g[j - 1], j - 1)
    BY <2>1, <2>2
  <2> HIDE DEF T
  <2> QED
    BY <2>3
<1>6. P(at)
  <2> HIDE DEF P
  <2> QED
    BY <1>5
<1> HIDE DEF at
<1>7. at[0] = t /\ \A j \in 1 .. n : at[j] = Bubble(at[j - 1], j - 1)
  BY <1>6
<1> QED
  BY <1>1, <1>7

(* A pass settles one more entry.                                          *)
LEMMA PassSettles ==
    ASSUME NEW len \in 2 .. MaxStates, NEW t \in [Slots -> Nat], NEW m \in 0 .. len - 2,
           Settled(t, len, m)
    PROVE  /\ Pass(t, len) \in [Slots -> Nat] /\ Settled(Pass(t, len), len, m + 1)
           /\ Reordered(t, Pass(t, len), len)
<1> USE FreqTableAssumption
<1>1. PICK at : /\ at[0] = t /\ Pass(t, len) = at[len - 1]
                /\ \A j \in 1 .. len - 1 : at[j] = Bubble(at[j - 1], j - 1)
  BY PassRuns
<1> DEFINE G == {j \in 0 .. len - 1 : Passing(at[j], len, m, j) /\ Reordered(t, at[j], len)}
<1>2. 0 \in G
  <2>1. Top(t, 0) /\ ~(0 >= len - 1 - m)
    BY DEF Top
  <2>2. Reordered(t, t, len)
    BY DEF Reordered
  <2> QED
    BY <1>1, <2>1, <2>2 DEF Passing
<1>3. ASSUME NEW j \in 0 .. len - 1, j \in G, j < len - 1
      PROVE  j + 1 \in G
  <2>1. j \in 0 .. len - 2 /\ j + 1 \in 1 .. len - 1 /\ (j + 1) - 1 = j
    BY <1>3
  <2>2. at[j + 1] = Bubble(at[j], j)
    BY <1>1, <2>1
  <2>3. Passing(at[j], len, m, j) /\ Reordered(t, at[j], len)
    BY <1>3
  <2>4. Passing(at[j + 1], len, m, j + 1)
    BY <2>1, <2>2, <2>3, PassStep
  <2>5. at[j] \in [Slots -> Nat]
    BY <2>3 DEF Passing
  <2>6. Reordered(at[j], at[j + 1], len)
    BY <2>1, <2>2, <2>5, Bubbles
  <2>7. Reordered(t, at[j + 1], len)
    BY <2>3, <2>6, ReorderedTwice
  <2> QED
    BY <2>1, <2>4, <2>7
<1>4. len - 1 \in G
  <2>1. len - 1 \in Nat /\ len - 1 \in 0 .. len - 1
    OBVIOUS
  <2> HIDE DEF G
  <2> QED
    BY <1>2, <1>3, <2>1, UpTo
<1>5. PICK u : u = Pass(t, len)
  OBVIOUS
<1>6. Passing(u, len, m, len - 1) /\ Reordered(t, u, len)
  BY <1>1, <1>4, <1>5
<1>7. Settled(u, len, m) /\ Top(u, len - 1 - m) /\ u \in [Slots -> Nat]
  BY <1>6 DEF Passing
<1>8. Settled(u, len, m + 1)
  <2> SUFFICES ASSUME NEW b \in 0 .. len - 1, b >= len - (m + 1)
               PROVE  Top(u, b)
    BY DEF Settled
  <2>1. b = len - 1 - m \/ b >= len - m
    OBVIOUS
  <2> QED
    BY <1>7, <2>1 DEF Settled
<1> QED
  BY <1>5, <1>6, <1>7, <1>8

(* sort_table is len - 1 passes.                                           *)
LEMMA SortRuns ==
    ASSUME NEW len \in 2 .. MaxStates, NEW t \in [Slots -> Nat]
    PROVE  \E after : /\ after[0] = t /\ sort_table(t, len) = after[len - 1]
                      /\ \A i \in 1 .. len - 1 : after[i] = Pass(after[i - 1], len)
<1> USE FreqTableAssumption
<1> DEFINE n == len - 1
           T == [Slots -> Nat]
           P(f) == f = [i \in 0 .. n |-> IF i = 0 THEN t ELSE Pass(f[i - 1], len)]
           after == CHOOSE f : P(f)
           go == [x \in (1 .. n) \X T |-> Pass(x[2], len)]
<1>1. sort_table(t, len) = after[n]
  BY DEF sort_table
<1>2. n \in Nat /\ t \in T
  OBVIOUS
<1>3. go \in [(1 .. n) \X T -> T]
  <2>1. ASSUME NEW x \in (1 .. n) \X T
        PROVE  Pass(x[2], len) \in T
    <3>1. x[2] \in [Slots -> Nat] /\ 0 \in 0 .. len - 2
      OBVIOUS
    <3>2. Settled(x[2], len, 0)
      BY DEF Settled
    <3> QED
      BY <3>1, <3>2, PassSettles
  <2> HIDE DEF T
  <2> QED
    BY <2>1
<1>4. PICK g \in [0 .. n -> T] : Recurses(g, n, t, go)
  <2> HIDE DEF n, T, go
  <2> QED
    BY <1>2, <1>3, Recursion
<1>5. P(g)
  <2>1. ASSUME NEW i \in 1 .. n
        PROVE  g[i] = Pass(g[i - 1], len)
    <3>1. g[i] = go[<<i, g[i - 1]>>]
      BY <1>4 DEF Recurses
    <3>2. <<i, g[i - 1]>> \in (1 .. n) \X T
      OBVIOUS
    <3> QED
      BY <3>1, <3>2
  <2>2. g[0] = t
    BY <1>4 DEF Recurses
  <2>3. \A i \in 0 .. n : g[i] = IF i = 0 THEN t ELSE Pass(g[i - 1], len)
    BY <2>1, <2>2
  <2> HIDE DEF T
  <2> QED
    BY <2>3
<1>6. P(after)
  <2> HIDE DEF P
  <2> QED
    BY <1>5
<1> HIDE DEF after
<1>7. after[0] = t /\ \A i \in 1 .. n : after[i] = Pass(after[i - 1], len)
  BY <1>6
<1> QED
  BY <1>1, <1>7

(* sort_table sorts: the entries are the same, and none before another is  *)
(* higher.                                                                 *)
LEMMA Sorts ==
    ASSUME NEW len \in 0 .. MaxStates, NEW t \in [Slots -> Nat]
    PROVE  /\ sort_table(t, len) \in [Slots -> Nat] /\ Reordered(t, sort_table(t, len), len)
           /\ \A b \in 0 .. len - 1 : Top(sort_table(t, len), b)
<1> USE FreqTableAssumption
<1>0. Reordered(t, t, len)
  BY DEF Reordered
<1>1. CASE len <= 1
  <2>1. sort_table(t, len) = t
    BY <1>1 DEF sort_table
  <2>2. \A b \in 0 .. len - 1 : Top(t, b)
    BY <1>1 DEF Top
  <2> QED
    BY <1>0, <2>1, <2>2
<1>2. CASE ~(len <= 1)
  <2>1. len \in 2 .. MaxStates
    BY <1>2
  <2>2. PICK after : /\ after[0] = t /\ sort_table(t, len) = after[len - 1]
                     /\ \A i \in 1 .. len - 1 : after[i] = Pass(after[i - 1], len)
    BY <2>1, SortRuns
  <2> DEFINE G == {i \in 0 .. len - 1 : /\ after[i] \in [Slots -> Nat] /\ Settled(after[i], len, i)
                                        /\ Reordered(t, after[i], len)}
  <2>3. 0 \in G
    <3>1. Settled(t, len, 0)
      BY DEF Settled
    <3> QED
      BY <1>0, <2>1, <2>2, <3>1
  <2>4. ASSUME NEW i \in 0 .. len - 1, i \in G, i < len - 1
        PROVE  i + 1 \in G
    <3>1. i \in 0 .. len - 2 /\ i + 1 \in 1 .. len - 1 /\ (i + 1) - 1 = i
      BY <2>4
    <3>2. after[i + 1] = Pass(after[i], len)
      BY <2>2, <3>1
    <3>3. after[i] \in [Slots -> Nat] /\ Settled(after[i], len, i) /\ Reordered(t, after[i], len)
      BY <2>4
    <3>4. /\ after[i + 1] \in [Slots -> Nat] /\ Settled(after[i + 1], len, i + 1)
          /\ Reordered(after[i], after[i + 1], len)
      BY <2>1, <3>1, <3>2, <3>3, PassSettles
    <3>5. Reordered(t, after[i + 1], len)
      BY <3>3, <3>4, ReorderedTwice
    <3> QED
      BY <3>1, <3>4, <3>5
  <2>5. len - 1 \in G
    <3>1. len - 1 \in Nat /\ len - 1 \in 0 .. len - 1
      BY <2>1
    <3> HIDE DEF G
    <3> QED
      BY <2>3, <2>4, <3>1, UpTo
  <2>6. PICK u : u = sort_table(t, len)
    OBVIOUS
  <2>7. u \in [Slots -> Nat] /\ Settled(u, len, len - 1) /\ Reordered(t, u, len)
    BY <2>2, <2>5, <2>6
  <2>8. Top(u, 0)
    BY DEF Top
  <2>9. \A b \in 0 .. len - 1 : Top(u, b)
    <3> TAKE b \in 0 .. len - 1
    <3>1. b = 0 \/ b >= len - (len - 1)
      OBVIOUS
    <3> QED
      BY <2>7, <2>8, <3>1 DEF Settled
  <2> QED
    BY <2>6, <2>7, <2>9
<1> QED
  BY <1>1, <1>2

-----------------------------------------------------------------------------
(* Reading the driver's table.                                             *)

(* The loop of Usable, entry by entry.                                     *)
LEMMA UsableRuns ==
    ASSUME NEW raw \in Seq(Nat)
    PROVE  \E upto \in [0 .. Len(raw) -> Seq(Nat)] :
               /\ upto[0] = <<>> /\ Usable(raw) = upto[Len(raw)]
               /\ \A j \in 1 .. Len(raw) :
                      upto[j] = IF raw[j] = Invalid \/ Len(upto[j - 1]) = MaxStates THEN upto[j - 1]
                                ELSE Append(upto[j - 1], raw[j])
<1> DEFINE n == Len(raw)
           T == Seq(Nat)
           More(s, j) == IF raw[j] = Invalid \/ Len(s) = MaxStates THEN s ELSE Append(s, raw[j])
           P(f) == f = [j \in 0 .. n |-> IF j = 0 THEN <<>> ELSE More(f[j - 1], j)]
           upto == CHOOSE f : P(f)
           go == [x \in (1 .. n) \X T |-> More(x[2], x[1])]
<1>1. Usable(raw) = upto[n]
  <2>1. \A f : P(f) <=> f = [j \in 0 .. Len(raw) |->
                                IF j = 0 THEN <<>>
                                ELSE IF raw[j] = Invalid \/ Len(f[j - 1]) = MaxStates THEN f[j - 1]
                                ELSE Append(f[j - 1], raw[j])]
    OBVIOUS
  <2> QED
    BY DEF Usable
<1>2. n \in Nat /\ <<>> \in T
  OBVIOUS
<1>3. go \in [(1 .. n) \X T -> T]
  <2>1. ASSUME NEW x \in (1 .. n) \X T
        PROVE  More(x[2], x[1]) \in T
    <3>1. x[2] \in Seq(Nat) /\ raw[x[1]] \in Nat
      OBVIOUS
    <3>2. Append(x[2], raw[x[1]]) \in Seq(Nat)
      BY <3>1
    <3> QED
      BY <3>1, <3>2
  <2> HIDE DEF T, More
  <2> QED
    BY <2>1
<1>4. PICK g \in [0 .. n -> T] : Recurses(g, n, <<>>, go)
  <2> HIDE DEF n, T, go
  <2> QED
    BY <1>2, <1>3, Recursion
<1>5. P(g)
  <2> HIDE DEF More
  <2>1. ASSUME NEW j \in 1 .. n
        PROVE  g[j] = More(g[j - 1], j)
    <3>1. g[j] = go[<<j, g[j - 1]>>]
      BY <1>4 DEF Recurses
    <3>2. <<j, g[j - 1]>> \in (1 .. n) \X T
      <4>1. j - 1 \in 0 .. n
        BY <1>2
      <4> HIDE DEF T, n
      <4> QED
        BY <4>1
    <3> QED
      BY <3>1, <3>2
  <2>2. g[0] = <<>>
    BY <1>4 DEF Recurses
  <2>3. \A j \in 0 .. n : g[j] = IF j = 0 THEN <<>> ELSE More(g[j - 1], j)
    BY <1>2, <2>1, <2>2
  <2> HIDE DEF T, n
  <2> QED
    BY <2>3
<1>6. P(upto)
  <2> HIDE DEF P
  <2> QED
    BY <1>5
<1> HIDE DEF upto
<1>7. upto[0] = <<>> /\ \A j \in 1 .. n : upto[j] = More(upto[j - 1], j)
  <2> HIDE DEF More
  <2> QED
    BY <1>2, <1>6
<1> DEFINE G == {j \in 0 .. n : upto[j] \in T}
<1>8. \A j \in 0 .. n : j \in G
  <2>1. 0 \in G
    <3>1. upto[0] \in T
      BY <1>2, <1>7
    <3>2. 0 \in 0 .. n
      BY <1>2
    <3> HIDE DEF T, n
    <3> QED
      BY <3>1, <3>2
  <2>2. ASSUME NEW j \in 0 .. n, j \in G, j < n
        PROVE  j + 1 \in G
    <3>1. j + 1 \in 1 .. n /\ (j + 1) - 1 = j
      BY <1>2, <2>2
    <3>2. upto[j + 1] = More(upto[j], j + 1)
      BY <1>7, <3>1
    <3>3. upto[j] \in Seq(Nat) /\ raw[j + 1] \in Nat
      BY <2>2, <3>1
    <3>4. Append(upto[j], raw[j + 1]) \in Seq(Nat)
      BY <3>3
    <3>5. upto[j + 1] \in Seq(Nat)
      BY <3>2, <3>3, <3>4
    <3> QED
      BY <1>2, <3>1, <3>5
  <2> HIDE DEF G
  <2> QED
    BY <1>2, <2>1, <2>2, UpTo
<1>9. upto \in [0 .. n -> T]
  <2> HIDE DEF T, More
  <2> QED
    BY <1>6, <1>8
<1> QED
  BY <1>1, <1>7, <1>9

(* A driver's table with no frequency twice.                               *)
Different(raw) == \A i, j \in Valid(raw) : raw[i] = raw[j] => i = j

(* What is read are the first MaxStates entries that are valid, one place  *)
(* each.                                                                   *)
LEMMA UsableIs ==
    ASSUME NEW raw \in Seq(Nat)
    PROVE  /\ Usable(raw) \in Seq(Nat) /\ Len(Usable(raw)) <= MaxStates
           /\ Range(Usable(raw)) = Kept(raw) /\ (Different(raw) => IsInjective(Usable(raw)))
<1> USE FreqTableAssumption
<1>1. PICK upto \in [0 .. Len(raw) -> Seq(Nat)] :
          /\ upto[0] = <<>> /\ Usable(raw) = upto[Len(raw)]
          /\ \A j \in 1 .. Len(raw) :
                 upto[j] = IF raw[j] = Invalid \/ Len(upto[j - 1]) = MaxStates THEN upto[j - 1]
                           ELSE Append(upto[j - 1], raw[j])
  BY UsableRuns
<1> DEFINE V == Valid(raw)
           N(j) == CountBelow(V, j)
           F == Fits(raw)
           \* the entries up to j: each comes from a place, and each place that fits is among them
           From(j) == \A k \in 1 .. Len(upto[j]) : \E i \in F : /\ i <= j /\ upto[j][k] = raw[i]
                                                               /\ N(i) = k - 1
           Has(j) == \A i \in F : i <= j => \E k \in 1 .. Len(upto[j]) : upto[j][k] = raw[i]
           Full(j) == Len(upto[j]) = IF N(j + 1) <= MaxStates THEN N(j + 1) ELSE MaxStates
           G == {j \in 0 .. Len(raw) : From(j) /\ Has(j) /\ Full(j)}
<1>2. Len(raw) \in Nat /\ DOMAIN raw = 1 .. Len(raw)
  OBVIOUS
<1>3. V \subseteq Nat /\ \A i : i \in V <=> i \in 1 .. Len(raw) /\ raw[i] # Invalid
  BY <1>2 DEF Valid
<1>4. F \subseteq V /\ \A i : i \in F <=> i \in V /\ N(i) < MaxStates
  BY DEF Fits
<1>5. \A j \in Nat : N(j) \in Nat /\ N(j + 1) = N(j) + (IF j \in V THEN 1 ELSE 0)
  <2> HIDE DEF V
  <2> QED
    BY <1>3, CountNext
<1>6. N(0) = 0
  <2> HIDE DEF V
  <2> QED
    BY <1>3, CountZero
<1> HIDE DEF V, F, N
<1>7. 0 \in G
  <2>1. 0 \notin V
    BY <1>3
  <2>2. N(0 + 1) = 0
    BY <1>5, <1>6, <2>1
  <2>3. Len(upto[0]) = 0
    BY <1>1
  <2>4. \A i \in F : ~(i <= 0)
    BY <1>3, <1>4
  <2> QED
    BY <1>2, <2>2, <2>3, <2>4
<1>8. ASSUME NEW j \in 0 .. Len(raw), j \in G, j < Len(raw)
      PROVE  j + 1 \in G
  <2>1. j \in Nat /\ j + 1 \in 1 .. Len(raw) /\ (j + 1) - 1 = j /\ j + 1 \in 0 .. Len(raw)
    BY <1>2, <1>8
  <2>2. PICK i \in 1 .. Len(raw) : i = j + 1
    BY <2>1
  <2>3. From(j) /\ Has(j) /\ Full(j)
    BY <1>8
  <2>4. N(i) \in Nat /\ N(i + 1) = N(i) + (IF i \in V THEN 1 ELSE 0)
    <3>1. i \in Nat
      BY <1>2
    <3> QED
      BY <1>5, <3>1
  <2>5. Len(upto[j]) = IF N(i) <= MaxStates THEN N(i) ELSE MaxStates
    BY <2>2, <2>3
  <2>6. PICK s \in Seq(Nat) : s = upto[j]
    BY <1>1
  <2>7. /\ raw[i] \in Nat
        /\ upto[i] = IF raw[i] = Invalid \/ Len(s) = MaxStates THEN s ELSE Append(s, raw[i])
    <3>1. i - 1 = j /\ raw[i] \in Nat
      BY <2>1, <2>2
    <3>2. upto[i] = IF raw[i] = Invalid \/ Len(upto[i - 1]) = MaxStates THEN upto[i - 1]
                    ELSE Append(upto[i - 1], raw[i])
      BY <1>1
    <3> QED
      BY <2>6, <3>1, <3>2
  <2>8. i \in V <=> raw[i] # Invalid
    BY <1>3, <2>2
  <2>9. i \in F <=> i \in V /\ N(i) < MaxStates
    BY <1>4
  <2>10. \A k \in F : k <= i => k <= j \/ k = i
    BY <1>3, <1>4, <2>1, <2>2
  <2>11. ASSUME NEW k \in F, k <= j
         PROVE  k <= i
    BY <1>3, <1>4, <2>1, <2>2, <2>11
  <2>12. CASE i \in F
    <3>1. N(i) < MaxStates /\ Len(s) = N(i) /\ N(i) + 1 <= MaxStates /\ N(i + 1) = N(i) + 1
      BY <2>4, <2>5, <2>6, <2>9, <2>12
    <3>2. upto[i] = Append(s, raw[i])
      <4>1. raw[i] # Invalid /\ Len(s) # MaxStates
        BY <2>4, <2>8, <2>9, <2>12, <3>1
      <4> QED
        BY <2>7, <4>1
    <3>3. PICK u \in Seq(Nat) : u = Append(s, raw[i])
      <4>1. Append(s, raw[i]) \in Seq(Nat)
        BY <2>7
      <4> QED
        BY <4>1
    <3>4. /\ Len(u) = Len(s) + 1 /\ u[Len(s) + 1] = raw[i]
          /\ \A k \in 1 .. Len(s) : u[k] = s[k]
      BY <2>6, <2>7, <3>3
    <3>5. Len(s) \in Nat
      BY <2>6
    <3>6. From(i)
      <4> SUFFICES ASSUME NEW k \in 1 .. Len(u)
                   PROVE  \E x \in F : x <= i /\ u[k] = raw[x] /\ N(x) = k - 1
        BY <3>2, <3>3
      <4>1. CASE k = Len(s) + 1
        <5>1. N(i) = k - 1 /\ u[k] = raw[i] /\ i <= i
          BY <3>1, <3>4, <4>1
        <5> QED
          BY <2>12, <5>1
      <4>2. CASE k \in 1 .. Len(s)
        <5>1. PICK x \in F : x <= j /\ s[k] = raw[x] /\ N(x) = k - 1
          BY <2>3, <2>6, <4>2
        <5> QED
          BY <2>11, <3>4, <4>2, <5>1
      <4> QED
        BY <3>4, <3>5, <4>1, <4>2
    <3>7. Has(i)
      <4> SUFFICES ASSUME NEW x \in F, x <= i
                   PROVE  \E k \in 1 .. Len(u) : u[k] = raw[x]
        BY <3>2, <3>3
      <4>1. CASE x = i
        <5>1. Len(s) + 1 \in 1 .. Len(u)
          BY <3>4, <3>5
        <5> QED
          BY <3>4, <4>1, <5>1
      <4>2. CASE x <= j
        <5>1. PICK k \in 1 .. Len(s) : s[k] = raw[x]
          BY <2>3, <2>6, <4>2
        <5>2. k \in 1 .. Len(u)
          BY <3>4, <3>5
        <5> QED
          BY <3>4, <5>1, <5>2
      <4> QED
        BY <2>10, <4>1, <4>2
    <3>8. Full(i)
      BY <3>1, <3>2, <3>3, <3>4
    <3> QED
      BY <2>1, <2>2, <3>6, <3>7, <3>8
  <2>13. CASE i \notin F
    <3>1. raw[i] = Invalid \/ Len(s) = MaxStates
      BY <2>4, <2>5, <2>6, <2>8, <2>9, <2>13
    <3>2. upto[i] = s
      BY <2>7, <3>1
    <3>3. From(i)
      <4> SUFFICES ASSUME NEW k \in 1 .. Len(s)
                   PROVE  \E x \in F : x <= i /\ s[k] = raw[x] /\ N(x) = k - 1
        BY <3>2
      <4>1. PICK x \in F : x <= j /\ s[k] = raw[x] /\ N(x) = k - 1
        BY <2>3, <2>6
      <4> QED
        BY <2>11, <4>1
    <3>4. Has(i)
      <4> SUFFICES ASSUME NEW x \in F, x <= i
                   PROVE  \E k \in 1 .. Len(s) : s[k] = raw[x]
        BY <3>2
      <4>1. x <= j
        BY <2>10, <2>13
      <4> QED
        BY <2>3, <2>6, <4>1
    <3>5. Full(i)
      BY <2>4, <2>5, <2>6, <2>9, <2>13, <3>2
    <3> QED
      BY <2>1, <2>2, <3>3, <3>4, <3>5
  <2> QED
    BY <2>12, <2>13
<1>9. Len(raw) \in G
  <2>1. \A j \in 0 .. Len(raw) : j \in G
    <3> HIDE DEF G
    <3> QED
      BY <1>2, <1>7, <1>8, UpTo
  <2> HIDE DEF G
  <2> QED
    BY <1>2, <2>1
<1>10. PICK u \in Seq(Nat) : u = Usable(raw) /\ u = upto[Len(raw)]
  BY <1>1, <1>2
<1>11. /\ \A k \in 1 .. Len(u) : \E i \in F : u[k] = raw[i] /\ N(i) = k - 1
       /\ \A i \in F : \E k \in 1 .. Len(u) : u[k] = raw[i]
       /\ Len(u) <= MaxStates
  <2>1. From(Len(raw)) /\ Has(Len(raw)) /\ Full(Len(raw))
    BY <1>9
  <2>2. \A i \in F : i <= Len(raw)
    BY <1>3, <1>4
  <2>3. N(Len(raw) + 1) \in Nat
    BY <1>2, <1>5
  <2>4. \A k \in 1 .. Len(u) : \E i \in F : u[k] = raw[i] /\ N(i) = k - 1
    BY <1>10, <2>1
  <2>5. \A i \in F : \E k \in 1 .. Len(u) : u[k] = raw[i]
    BY <1>10, <2>1, <2>2
  <2>6. Len(u) = IF N(Len(raw) + 1) <= MaxStates THEN N(Len(raw) + 1) ELSE MaxStates
    BY <1>10, <2>1
  <2>7. Len(u) <= MaxStates
    BY <2>3, <2>6
  <2> QED
    BY <2>4, <2>5, <2>7
<1>12. {u[k] : k \in 1 .. Len(u)} = Kept(raw)
  <2>1. Kept(raw) = {raw[i] : i \in F}
    BY DEF Kept, F
  <2> QED
    BY <1>11, <2>1
<1>13. ASSUME \A i, j \in Valid(raw) : raw[i] = raw[j] => i = j,
              NEW k \in 1 .. Len(u), NEW l \in 1 .. Len(u), u[k] = u[l]
       PROVE  k = l
  <2>1. PICK i \in F : u[k] = raw[i] /\ N(i) = k - 1
    BY <1>11
  <2>2. PICK j \in F : u[l] = raw[j] /\ N(j) = l - 1
    BY <1>11
  <2>3. i = j
    BY <1>4, <1>13, <2>1, <2>2 DEF V
  <2>4. k - 1 = l - 1 /\ k \in Int /\ l \in Int
    BY <2>1, <2>2, <2>3
  <2> QED
    BY <2>4
<1>14. DOMAIN u = 1 .. Len(u)
  OBVIOUS
<1>15. Range(u) = Kept(raw)
  BY <1>12, <1>14 DEF Range
<1>16. Different(raw) => IsInjective(u)
  BY <1>13, <1>14 DEF Different, IsInjective
<1> QED
  BY <1>10, <1>11, <1>15, <1>16

(* The entries up to len, each higher than the ones before.                *)
Rising(t, len) == \A i, j \in 0 .. len - 1 : i < j => t[i] < t[j]

(* There are as many entries as places.                                    *)
LEMMA EntriesCount ==
    ASSUME NEW t \in [Slots -> Nat], NEW len \in 0 .. MaxStates, Rising(t, len)
    PROVE  Cardinality(Entries(t, len)) = len
<1> USE FreqTableAssumption
<1> DEFINE I == 0 .. len - 1
           E == Entries(t, len)
           f == [i \in I |-> t[i]]
<1>1. IsFiniteSet(I) /\ Cardinality(I) = len
  <2>1. 0 \in Int /\ len - 1 \in Int
    OBVIOUS
  <2>2. IsFiniteSet(I) /\ Cardinality(I) = IF 0 > len - 1 THEN 0 ELSE (len - 1) - 0 + 1
    BY <2>1, FS_Interval
  <2> QED
    BY <2>2
<1>2. \A i \in I : i \in Slots /\ t[i] \in Nat
  BY DEF Slots
<1>3. ASSUME NEW i \in I, NEW j \in I, t[i] = t[j]
      PROVE  i = j
  <2>1. i < j \/ j < i \/ i = j
    OBVIOUS
  <2>2. ~(t[i] < t[j]) /\ ~(t[j] < t[i])
    BY <1>2, <1>3
  <2> QED
    BY <2>1, <2>2 DEF Rising
<1>4. f \in [I -> E]
  BY DEF Entries
<1>5. IsInjective(f)
  BY <1>3 DEF IsInjective
<1>6. \A e \in E : \E i \in I : f[i] = e
  BY DEF Entries
<1> HIDE DEF I, E, f
<1>7. f \in Bijection(I, E)
  BY <1>4, <1>5, <1>6 DEF Bijection, Injection, Surjection
<1>8. Cardinality(E) = Cardinality(I)
  BY <1>1, <1>7, FS_Bijection DEF ExistsBijection
<1> QED
  BY <1>1, <1>8 DEF E

(* The entry i of a rising table has i entries below it.                   *)
LEMMA RankIs ==
    ASSUME NEW t \in [Slots -> Nat], NEW len \in 0 .. MaxStates, Rising(t, len),
           NEW i \in 0 .. len - 1
    PROVE  CountBelow(Entries(t, len), t[i]) = i
<1> USE FreqTableAssumption
<1>1. \A j \in 0 .. len - 1 : j \in Slots /\ t[j] \in Nat
  BY DEF Slots
<1>2. \A j \in 0 .. len - 1 : t[j] < t[i] <=> j \in 0 .. i - 1
  <2> TAKE j \in 0 .. len - 1
  <2>1. (j < i => t[j] < t[i]) /\ (i < j => t[i] < t[j])
    BY DEF Rising
  <2>2. t[j] \in Nat /\ t[i] \in Nat
    BY <1>1
  <2>3. j < i \/ i < j \/ i = j
    OBVIOUS
  <2> QED
    BY <2>1, <2>2, <2>3
<1>3. {y \in Entries(t, len) : y < t[i]} = Entries(t, i)
  <2>1. \A j \in 0 .. i - 1 : j \in 0 .. len - 1
    OBVIOUS
  <2> QED
    BY <1>2, <2>1 DEF Entries
<1>4. Rising(t, i) /\ i \in 0 .. MaxStates
  BY DEF Rising
<1> QED
  BY <1>3, <1>4, EntriesCount DEF CountBelow

(* A table in which no entry is lower than one before it, and no two are   *)
(* the same, rises.                                                        *)
LEMMA Rises ==
    ASSUME NEW t \in [Slots -> Nat], NEW len \in 0 .. MaxStates, Apart(t, len),
           \A b \in 0 .. len - 1 : Top(t, b)
    PROVE  Rising(t, len)
<1> USE FreqTableAssumption
<1> SUFFICES ASSUME NEW i \in 0 .. len - 1, NEW j \in 0 .. len - 1, i < j
             PROVE  t[i] < t[j]
  BY DEF Rising
<1>1. i \in Slots /\ j \in Slots /\ i \in 0 .. j - 1 /\ i # j
  BY DEF Slots
<1>2. t[i] \in Nat /\ t[j] \in Nat
  BY <1>1
<1>3. t[i] <= t[j]
  BY <1>1 DEF Top
<1>4. t[i] # t[j]
  BY <1>1 DEF Apart
<1> QED
  BY <1>2, <1>3, <1>4

-----------------------------------------------------------------------------
(* prune_states.                                                           *)

(* A turn of the second loop.                                              *)
Turns == [i : 0 .. MaxStates, table : [Slots -> Nat], valid : [Slots -> Int], num : Int]
Turn(p, length) == IF p.i < length THEN Step(p) ELSE p

(* What the removal of an entry leaves where.                              *)
LEMMA Shifts ==
    ASSUME NEW S, NEW f \in [Slots -> S], NEW i \in Nat
    PROVE  /\ Shifted(f, i) \in [Slots -> S]
           /\ \A j \in Slots : j < i => Shifted(f, i)[j] = f[j]
           /\ \A j \in Slots : i <= j /\ j < MaxStates - 1 => Shifted(f, i)[j] = f[j + 1]
<1> USE FreqTableAssumption
<1>1. \A j \in Slots : j < MaxStates - 1 => j + 1 \in Slots
  BY DEF Slots
<1>2. \A j \in Slots : j < i => ~(i <= j)
  BY DEF Slots
<1> QED
  BY <1>1, <1>2 DEF Shifted

(* The two kinds of a turn.                                                *)
LEMMA StepIs ==
    ASSUME NEW p \in Turns, NEW length \in 0 .. MaxStates, p.i < length
    PROVE  /\ p.i \in Slots
           /\ Step(p) \in Turns
           /\ p.valid[p.i] = 2 => Step(p) = [i |-> p.i + 1, table |-> p.table, valid |-> p.valid, num |-> p.num]
           /\ p.valid[p.i] # 2 => Step(p) = [i |-> p.i, table |-> Shifted(p.table, p.i),
                                             valid |-> Shifted(p.valid, p.i), num |-> p.num - 1]
<1> USE FreqTableAssumption
<1>1. p.i \in 0 .. MaxStates /\ p.table \in [Slots -> Nat] /\ p.valid \in [Slots -> Int] /\ p.num \in Int
  BY DEF Turns
<1>2. p.i \in Slots /\ p.i \in Nat /\ p.i + 1 \in 0 .. MaxStates
  BY <1>1 DEF Slots
<1>3. Shifted(p.table, p.i) \in [Slots -> Nat] /\ Shifted(p.valid, p.i) \in [Slots -> Int]
  BY <1>1, <1>2, Shifts
<1>4. p = [i |-> p.i, table |-> p.table, valid |-> p.valid, num |-> p.num]
  BY DEF Turns
<1>5. CASE p.valid[p.i] = 2
  <2>1. Step(p) = [i |-> p.i + 1, table |-> p.table, valid |-> p.valid, num |-> p.num]
    BY <1>4, <1>5 DEF Step
  <2> QED
    BY <1>1, <1>2, <1>5, <2>1 DEF Turns
<1>6. CASE p.valid[p.i] # 2
  <2>1. Step(p) = [i |-> p.i, table |-> Shifted(p.table, p.i), valid |-> Shifted(p.valid, p.i),
                   num |-> p.num - 1]
    BY <1>4, <1>6 DEF Step
  <2> QED
    BY <1>1, <1>2, <1>3, <1>6, <2>1 DEF Turns
<1> QED
  BY <1>5, <1>6

(* The turns of the second loop, and what they leave.                      *)
PruneRun(turn, start, length, result) ==
    /\ turn \in [0 .. 2 * MaxStates -> Turns] /\ turn[0] = start
    /\ \A k \in 1 .. 2 * MaxStates : turn[k] = Turn(turn[k - 1], length)
    /\ result = [hung |-> turn[2 * MaxStates].i < length,
                 info |-> [table |-> turn[2 * MaxStates].table, valid |-> turn[2 * MaxStates].valid,
                           num |-> turn[2 * MaxStates].num]]

(* prune_states is such a run of turns.                                    *)
LEMMA PruneRuns ==
    ASSUME NEW info, NEW allowed, NEW length \in 0 .. MaxStates, NEW start \in Turns,
           start = [i |-> 0, table |-> info.table, valid |-> mark_valid(info, allowed), num |-> info.num]
    PROVE  \E turn : PruneRun(turn, start, length, prune_states(info, allowed, length))
<1> USE FreqTableAssumption
<1> DEFINE n == 2 * MaxStates
           P(f) == f = [k \in 0 .. n |-> IF k = 0 THEN start ELSE Turn(f[k - 1], length)]
           turn == CHOOSE f : P(f)
           go == [x \in (1 .. n) \X Turns |-> Turn(x[2], length)]
<1>1. prune_states(info, allowed, length) =
          [hung |-> turn[n].i < length,
           info |-> [table |-> turn[n].table, valid |-> turn[n].valid, num |-> turn[n].num]]
  BY DEF prune_states, Turn
<1>2. n \in Nat
  OBVIOUS
<1>3. go \in [(1 .. n) \X Turns -> Turns]
  <2>1. ASSUME NEW x \in (1 .. n) \X Turns
        PROVE  Turn(x[2], length) \in Turns
    <3>1. x[2] \in Turns
      OBVIOUS
    <3>2. x[2].i < length => Step(x[2]) \in Turns
      BY <3>1, StepIs
    <3> QED
      BY <3>1, <3>2 DEF Turn
  <2> QED
    BY <2>1
<1>4. PICK g \in [0 .. n -> Turns] : Recurses(g, n, start, go)
  <2> HIDE DEF n, go
  <2> QED
    BY <1>2, <1>3, Recursion
<1>5. P(g)
  <2>1. ASSUME NEW k \in 1 .. n
        PROVE  g[k] = Turn(g[k - 1], length)
    <3>1. g[k] = go[<<k, g[k - 1]>>]
      BY <1>4 DEF Recurses
    <3>2. <<k, g[k - 1]>> \in (1 .. n) \X Turns
      OBVIOUS
    <3> QED
      BY <3>1, <3>2
  <2>2. g[0] = start
    BY <1>4 DEF Recurses
  <2>3. \A k \in 0 .. n : g[k] = IF k = 0 THEN start ELSE Turn(g[k - 1], length)
    BY <2>1, <2>2
  <2> QED
    BY <2>3
<1>6. P(turn)
  <2> HIDE DEF P
  <2> QED
    BY <1>5
<1> HIDE DEF turn
<1>7. turn[0] = start /\ \A k \in 1 .. n : turn[k] = Turn(turn[k - 1], length)
  BY <1>6
<1>8. \A k \in 0 .. n : turn[k] \in Turns
  <2> DEFINE G == {k \in 0 .. n : turn[k] \in Turns}
  <2>1. 0 \in G
    BY <1>7
  <2>2. ASSUME NEW k \in 0 .. n, k \in G, k < n
        PROVE  k + 1 \in G
    <3>1. k + 1 \in 1 .. n /\ (k + 1) - 1 = k
      BY <2>2
    <3>2. turn[k + 1] = Turn(turn[k], length)
      BY <1>7, <3>1
    <3>3. turn[k] \in Turns
      BY <2>2
    <3>4. turn[k].i < length => Step(turn[k]) \in Turns
      BY <3>3, StepIs
    <3>5. turn[k + 1] \in Turns
      BY <3>2, <3>3, <3>4 DEF Turn
    <3> QED
      BY <3>1, <3>5
  <2>3. \A k \in 0 .. n : k \in G
    <3> HIDE DEF G, n
    <3> QED
      BY <1>2, <2>1, <2>2, UpTo
  <2> QED
    BY <2>3
<1>9. turn \in [0 .. n -> Turns]
  BY <1>6, <1>8
<1> QED
  BY <1>1, <1>7, <1>9 DEF PruneRun

Infos == [table : [Slots -> Nat], valid : [Slots -> Int], num : Int]
Sorted(t, len) == \A b \in 0 .. len - 1 : Top(t, b)

(* The second loop begins in a state of Turns.                             *)
LEMMA PruneStarts ==
    ASSUME NEW info \in Infos, NEW allowed
    PROVE  /\ mark_valid(info, allowed) \in [Slots -> Int]
           /\ [i |-> 0, table |-> info.table, valid |-> mark_valid(info, allowed), num |-> info.num] \in Turns
<1> USE FreqTableAssumption
<1>1. info.table \in [Slots -> Nat] /\ info.valid \in [Slots -> Int] /\ info.num \in Int
  BY DEF Infos
<1>2. mark_valid(info, allowed) \in [Slots -> Int]
  BY <1>1 DEF mark_valid
<1> QED
  BY <1>1, <1>2 DEF Turns

(* Without one of its entries a sorted table is sorted.                    *)
LEMMA ShiftSorted ==
    ASSUME NEW t \in [Slots -> Nat], NEW len \in Int, len <= MaxStates, NEW i \in Nat, Sorted(t, len)
    PROVE  Sorted(Shifted(t, i), len - 1)
<1> USE FreqTableAssumption
<1> SUFFICES ASSUME NEW b \in 0 .. (len - 1) - 1, NEW a \in 0 .. b - 1
             PROVE  Shifted(t, i)[a] <= Shifted(t, i)[b]
  BY DEF Sorted, Top
<1>1. PICK u : u = Shifted(t, i)
  OBVIOUS
<1>2. /\ a \in Slots /\ b \in Slots /\ a < MaxStates - 1 /\ b < MaxStates - 1
      /\ b \in 0 .. len - 1 /\ b + 1 \in 0 .. len - 1
      /\ a \in 0 .. b - 1 /\ a \in 0 .. (b + 1) - 1 /\ a + 1 \in 0 .. (b + 1) - 1
  BY DEF Slots
<1>3. /\ (a < i => u[a] = t[a]) /\ (i <= a => u[a] = t[a + 1])
      /\ (b < i => u[b] = t[b]) /\ (i <= b => u[b] = t[b + 1])
  <2>1. /\ \A j \in Slots : j < i => Shifted(t, i)[j] = t[j]
        /\ \A j \in Slots : i <= j /\ j < MaxStates - 1 => Shifted(t, i)[j] = t[j + 1]
    BY Shifts
  <2> QED
    BY <1>1, <1>2, <2>1
<1>4. t[a] <= t[b] /\ t[a] <= t[b + 1] /\ t[a + 1] <= t[b + 1]
  BY <1>2 DEF Sorted, Top
<1>5. a < i \/ i <= a
  OBVIOUS
<1>6. b < i \/ i <= b
  OBVIOUS
<1>7. i <= a => i <= b
  OBVIOUS
<1> QED
  BY <1>1, <1>3, <1>4, <1>5, <1>6, <1>7

(* Whatever is pruned, a sorted table stays sorted.                        *)
LEMMA PruneSorted ==
    ASSUME NEW info \in Infos, info.num <= MaxStates, Sorted(info.table, info.num),
           NEW allowed, NEW length \in 0 .. MaxStates
    PROVE  LET r == prune_states(info, allowed, length)
           IN  r.hung \in BOOLEAN /\ r.info \in Infos /\ Sorted(r.info.table, r.info.num)
<1> USE FreqTableAssumption
<1> DEFINE n == 2 * MaxStates
<1>1. PICK start \in Turns :
          start = [i |-> 0, table |-> info.table, valid |-> mark_valid(info, allowed), num |-> info.num]
  BY PruneStarts
<1>2. PICK turn \in [0 .. n -> Turns] :
          /\ turn[0] = start
          /\ \A k \in 1 .. n : turn[k] = Turn(turn[k - 1], length)
          /\ prune_states(info, allowed, length) =
                 [hung |-> turn[n].i < length,
                  info |-> [table |-> turn[n].table, valid |-> turn[n].valid, num |-> turn[n].num]]
  <2>1. PICK turn : PruneRun(turn, start, length, prune_states(info, allowed, length))
    BY <1>1, PruneRuns
  <2> QED
    BY <2>1 DEF PruneRun
<1> DEFINE G == {k \in 0 .. n : turn[k].num <= MaxStates /\ Sorted(turn[k].table, turn[k].num)}
<1>3. 0 \in G
  BY <1>1, <1>2
<1>4. ASSUME NEW k \in 0 .. n, k \in G, k < n
      PROVE  k + 1 \in G
  <2>1. k + 1 \in 1 .. n /\ (k + 1) - 1 = k /\ k + 1 \in 0 .. n
    BY <1>4
  <2>2. PICK p \in Turns : p = turn[k]
    BY <1>2
  <2>3. turn[k + 1] = Turn(p, length)
    BY <1>2, <2>1, <2>2
  <2>4. p.num <= MaxStates /\ Sorted(p.table, p.num)
    BY <1>4, <2>2
  <2>5. CASE ~(p.i < length)
    BY <2>1, <2>3, <2>4, <2>5 DEF Turn
  <2>6. CASE p.i < length /\ p.valid[p.i] = 2
    <3>1. turn[k + 1].table = p.table /\ turn[k + 1].num = p.num
      BY <2>3, <2>6, StepIs DEF Turn
    <3> QED
      BY <2>1, <2>4, <3>1
  <2>7. CASE p.i < length /\ p.valid[p.i] # 2
    <3>1. turn[k + 1].table = Shifted(p.table, p.i) /\ turn[k + 1].num = p.num - 1
      BY <2>3, <2>7, StepIs DEF Turn
    <3>2. p.i \in Nat /\ p.table \in [Slots -> Nat] /\ p.num \in Int
      BY DEF Turns
    <3>3. Sorted(Shifted(p.table, p.i), p.num - 1)
      BY <2>4, <3>2, ShiftSorted
    <3>4. p.num - 1 <= MaxStates
      BY <2>4, <3>2
    <3> QED
      BY <2>1, <3>1, <3>3, <3>4
  <2> QED
    BY <2>5, <2>6, <2>7
<1>5. n \in Nat
  OBVIOUS
<1>6. n \in G
  <2>1. \A k \in 0 .. n : k \in G
    <3> HIDE DEF G, n
    <3> QED
      BY <1>3, <1>4, <1>5, UpTo
  <2> QED
    BY <2>1
<1>7. PICK e \in Turns : e = turn[n]
  BY <1>2
<1>8. [table |-> e.table, valid |-> e.valid, num |-> e.num] \in Infos
  BY DEF Turns, Infos
<1>9. Sorted(e.table, e.num)
  BY <1>6, <1>7
<1>10. prune_states(info, allowed, length) =
           [hung |-> e.i < length, info |-> [table |-> e.table, valid |-> e.valid, num |-> e.num]]
  BY <1>2, <1>7
<1> QED
  BY <1>8, <1>9, <1>10

(* The entries before q of the table s, of which those of A are allowed,   *)
(* have been dealt with: the allowed ones are at the front, each at its    *)
(* rank among the allowed ones, and those from q on follow.                *)
Pruning(p, q, s, v, n, A) ==
    LET N(x) == CountBelow(A, x)
        d == q - N(q)
    IN  /\ p.i = N(q) /\ p.num = n - d
        /\ \A j \in Slots : N(q) <= j /\ j + d < n => p.table[j] = s[j + d] /\ p.valid[j] = v[j + d]
        /\ \A a \in A : a < q => p.table[N(a)] = s[a]
        /\ \A j \in 0 .. N(q) - 1 : \E a \in A : a < q /\ N(a) = j

(* A turn deals with the entry q: an allowed one stays, any other goes.    *)
LEMMA PruningStep ==
    ASSUME NEW p \in Turns, NEW n \in 0 .. MaxStates, NEW A \in SUBSET (0 .. n - 1),
           NEW s \in [Slots -> Nat], NEW v, \A x \in 0 .. n - 1 : v[x] = 2 <=> x \in A,
           NEW q \in 0 .. n, Pruning(p, q, s, v, n, A), p.i < Cardinality(A)
    PROVE  q < n /\ Pruning(Step(p), q + 1, s, v, n, A)
<1> USE FreqTableAssumption
<1> DEFINE N(x) == CountBelow(A, x)
<1>1. A \subseteq Nat /\ q \in Nat /\ n \in Nat
  OBVIOUS
<1>2. N(q) \in Nat /\ N(q) <= q /\ N(q + 1) = N(q) + (IF q \in A THEN 1 ELSE 0)
  BY <1>1, CountNext
<1>3. N(n) = Cardinality(A) /\ IsFiniteSet(A)
  BY <1>1, CountAll
<1>4. \A a \in A : a < q => N(a) < N(q) /\ N(a) \in Nat
  <2> TAKE a \in A
  <2>1. a \in Nat
    BY <1>1
  <2> QED
    BY <1>1, <2>1, CountGrows, CountNext
<1> HIDE DEF N
<1>5. PICK d \in Nat : d = q - N(q)
  BY <1>1, <1>2
<1>6. /\ p.i = N(q) /\ p.num = n - d
      /\ \A j \in Slots : N(q) <= j /\ j + d < n => p.table[j] = s[j + d] /\ p.valid[j] = v[j + d]
      /\ \A a \in A : a < q => p.table[N(a)] = s[a]
      /\ \A j \in 0 .. N(q) - 1 : \E a \in A : a < q /\ N(a) = j
  BY <1>5 DEF Pruning, N
<1>7. q < n
  BY <1>1, <1>2, <1>3, <1>6
<1>8. /\ N(q) \in Slots /\ N(q) + d = q /\ N(q) + d < n
      /\ \A x \in Nat : x + d < n => x \in Slots
  <2>1. PICK c \in Nat : c = N(q)
    BY <1>2
  <2>2. /\ c \in 0 .. MaxStates - 1 /\ c + d = q /\ c + d < n
        /\ \A x \in Nat : x + d < n => x \in 0 .. MaxStates - 1
    BY <1>1, <1>2, <1>5, <1>7, <2>1
  <2> QED
    BY <2>1, <2>2 DEF Slots
<1>9. p.valid[p.i] = v[q] /\ p.table[p.i] = s[q]
  BY <1>2, <1>6, <1>8
<1>10. p.valid[p.i] = 2 <=> q \in A
  BY <1>1, <1>7, <1>9
<1>11. p.i < MaxStates /\ p.i \in Nat
  BY <1>6, <1>8 DEF Slots
<1>12. ASSUME NEW a \in A
       PROVE  a < q + 1 <=> a < q \/ a = q
  BY <1>1
<1>13. CASE q \in A
  <2>1. PICK r : r = Step(p)
    OBVIOUS
  <2>2. r.i = p.i + 1 /\ r.table = p.table /\ r.valid = p.valid /\ r.num = p.num
    BY <1>10, <1>11, <1>13, <2>1, StepIs
  <2>3. N(q + 1) = N(q) + 1 /\ (q + 1) - N(q + 1) = d
    BY <1>1, <1>2, <1>5, <1>13
  <2>4. \A j \in Slots : N(q + 1) <= j /\ j + d < n => r.table[j] = s[j + d] /\ r.valid[j] = v[j + d]
    <3> SUFFICES ASSUME NEW j \in Slots, N(q + 1) <= j, j + d < n
                 PROVE  r.table[j] = s[j + d] /\ r.valid[j] = v[j + d]
      OBVIOUS
    <3>1. N(q) <= j
      BY <1>2, <2>3 DEF Slots
    <3> QED
      BY <1>6, <2>2, <3>1
  <2>5. \A a \in A : a < q + 1 => r.table[N(a)] = s[a]
    <3> SUFFICES ASSUME NEW a \in A, a < q + 1
                 PROVE  r.table[N(a)] = s[a]
      OBVIOUS
    <3> QED
      BY <1>6, <1>9, <1>12, <2>2
  <2>6. \A j \in 0 .. N(q + 1) - 1 : \E a \in A : a < q + 1 /\ N(a) = j
    <3> TAKE j \in 0 .. N(q + 1) - 1
    <3>1. j \in 0 .. N(q) - 1 \/ j = N(q)
      BY <1>2, <2>3
    <3>2. CASE j = N(q)
      BY <1>12, <1>13, <3>2
    <3>3. CASE j \in 0 .. N(q) - 1
      <4>1. PICK a \in A : a < q /\ N(a) = j
        BY <1>6, <3>3
      <4> QED
        BY <1>12, <4>1
    <3> QED
      BY <3>1, <3>2, <3>3
  <2>7. r.i = N(q + 1) /\ r.num = n - d
    BY <1>6, <2>2, <2>3
  <2>8. Pruning(r, q + 1, s, v, n, A)
    BY <2>3, <2>4, <2>5, <2>6, <2>7 DEF Pruning, N
  <2> QED
    BY <1>7, <2>1, <2>8
<1>14. CASE q \notin A
  <2>1. PICK r : r = Step(p)
    OBVIOUS
  <2>2. /\ r.i = p.i /\ r.table = Shifted(p.table, p.i) /\ r.valid = Shifted(p.valid, p.i)
        /\ r.num = p.num - 1
    BY <1>10, <1>11, <1>14, <2>1, StepIs
  <2>3. N(q + 1) = N(q) /\ (q + 1) - N(q + 1) = d + 1 /\ d + 1 \in Nat
    BY <1>1, <1>2, <1>5, <1>14
  <2>4. /\ p.table \in [Slots -> Nat] /\ p.valid \in [Slots -> Int] /\ p.num \in Int
    BY DEF Turns
  <2>5. \A j \in Slots : N(q) <= j /\ j + (d + 1) < n =>
            r.table[j] = s[j + (d + 1)] /\ r.valid[j] = v[j + (d + 1)]
    <3> SUFFICES ASSUME NEW j \in Slots, N(q) <= j, j + (d + 1) < n
                 PROVE  r.table[j] = s[j + (d + 1)] /\ r.valid[j] = v[j + (d + 1)]
      OBVIOUS
    <3>1. /\ j \in Nat /\ j + 1 \in Slots /\ N(q) <= j + 1 /\ (j + 1) + d < n /\ (j + 1) + d = j + (d + 1)
          /\ j < MaxStates - 1 /\ p.i <= j
      BY <1>1, <1>2, <1>6 DEF Slots
    <3>2. r.table[j] = p.table[j + 1] /\ r.valid[j] = p.valid[j + 1]
      BY <2>2, <3>1 DEF Shifted
    <3>3. p.table[j + 1] = s[(j + 1) + d] /\ p.valid[j + 1] = v[(j + 1) + d]
      BY <1>6, <3>1
    <3> QED
      BY <3>1, <3>2, <3>3
  <2>6. \A a \in A : a < q + 1 => r.table[N(a)] = s[a]
    <3> SUFFICES ASSUME NEW a \in A, a < q + 1
                 PROVE  r.table[N(a)] = s[a]
      OBVIOUS
    <3>1. a < q
      BY <1>12, <1>14
    <3>2. N(a) \in Slots /\ N(a) < p.i
      BY <1>4, <1>6, <1>8, <3>1 DEF Slots
    <3>3. r.table[N(a)] = p.table[N(a)]
      BY <1>11, <2>2, <2>4, <3>2, Shifts
    <3> QED
      BY <1>6, <3>1, <3>3
  <2>7. \A j \in 0 .. N(q + 1) - 1 : \E a \in A : a < q + 1 /\ N(a) = j
    <3> TAKE j \in 0 .. N(q + 1) - 1
    <3>1. PICK a \in A : a < q /\ N(a) = j
      BY <1>6, <2>3
    <3> QED
      BY <1>12, <3>1
  <2>8. r.i = N(q + 1) /\ r.num = n - (d + 1)
    BY <1>1, <1>6, <2>2, <2>3
  <2>9. Pruning(r, q + 1, s, v, n, A)
    BY <2>3, <2>5, <2>6, <2>7, <2>8 DEF Pruning, N
  <2> QED
    BY <1>7, <2>1, <2>9
<1> QED
  BY <1>13, <1>14

(* The loop goes no further than the last allowed entry.                   *)
Stage(p, k, s, v, n, A) ==
    \E q \in 0 .. n : /\ Pruning(p, q, s, v, n, A)
                      /\ q = k \/ CountBelow(A, q) = Cardinality(A)
                      /\ q = 0 \/ CountBelow(A, q - 1) < Cardinality(A)

(* A turn deals with one more entry, or all allowed ones are at the front. *)
LEMMA StageStep ==
    ASSUME NEW p \in Turns, NEW n \in 0 .. MaxStates, NEW A \in SUBSET (0 .. n - 1),
           NEW s \in [Slots -> Nat], NEW v, \A x \in 0 .. n - 1 : v[x] = 2 <=> x \in A,
           NEW k \in Nat, Stage(p, k, s, v, n, A)
    PROVE  Stage(Turn(p, Cardinality(A)), k + 1, s, v, n, A)
<1> USE FreqTableAssumption
<1> DEFINE N(x) == CountBelow(A, x)
           L == Cardinality(A)
<1>1. PICK q \in 0 .. n : /\ Pruning(p, q, s, v, n, A)
                          /\ q = k \/ N(q) = L
                          /\ q = 0 \/ N(q - 1) < L
  BY DEF Stage
<1>2. p.i = N(q)
  BY <1>1 DEF Pruning
<1>3. L \in Nat /\ N(q) \in Nat
  <2>1. A \subseteq Nat /\ q \in Nat /\ n \in Nat
    OBVIOUS
  <2> QED
    BY <2>1, CountAll, CountNext, FS_CardinalityType
<1> HIDE DEF N, L
<1>4. CASE p.i < L
  <2>1. q < n /\ Pruning(Step(p), q + 1, s, v, n, A)
    BY <1>1, <1>4, PruningStep DEF L
  <2>2. q = k
    BY <1>1, <1>2, <1>3, <1>4
  <2>3. Turn(p, L) = Step(p)
    BY <1>4 DEF Turn
  <2>4. q + 1 \in 0 .. n /\ q + 1 = k + 1 /\ N((q + 1) - 1) < L
    <3>1. (q + 1) - 1 = q /\ q + 1 \in 0 .. n
      BY <2>1
    <3> QED
      BY <1>2, <1>4, <2>2, <3>1
  <2>5. \E x \in 0 .. n : /\ Pruning(Turn(p, L), x, s, v, n, A)
                          /\ x = k + 1 \/ N(x) = L
                          /\ x = 0 \/ N(x - 1) < L
    BY <2>1, <2>3, <2>4
  <2> QED
    BY <2>5 DEF Stage, N, L
<1>5. CASE ~(p.i < L)
  <2>1. Turn(p, L) = p
    BY <1>5 DEF Turn
  <2>2. N(q) = L
    <3>1. N(q) <= L
      <4>1. A \subseteq Nat /\ q \in Nat /\ n \in Nat /\ q <= n /\ A \subseteq 0 .. n - 1
        OBVIOUS
      <4>2. N(q) <= CountBelow(A, n)
        BY <4>1, CountGrows DEF N
      <4>3. CountBelow(A, n) = L
        BY <4>1, CountAll DEF L
      <4> QED
        BY <4>2, <4>3
    <3> QED
      BY <1>2, <1>3, <1>5, <3>1
  <2>3. \E x \in 0 .. n : /\ Pruning(Turn(p, L), x, s, v, n, A)
                          /\ x = k + 1 \/ N(x) = L
                          /\ x = 0 \/ N(x - 1) < L
    BY <1>1, <2>1, <2>2
  <2> QED
    BY <2>3 DEF Stage, N, L
<1> QED
  BY <1>4, <1>5

(* Where the entries of the pruned table come from: those that are allowed *)
(* and those beyond all of them, in their order.                           *)
Stays(x, A) == x \in A \/ \A a \in A : a < x
StaysOf(n, A) == {x \in 0 .. n - 1 : Stays(x, A)}
AtAll(s, I) == {s[x] : x \in I}

(* When the loop ends the entries left are those that should stay.         *)
LEMMA PruneEnds ==
    ASSUME NEW p \in Turns, NEW n \in 0 .. MaxStates, NEW A \in SUBSET (0 .. n - 1), A # {},
           NEW s \in [Slots -> Nat], Rising(s, n), NEW v, Stage(p, 2 * MaxStates, s, v, n, A)
    PROVE  /\ p.i = Cardinality(A) /\ Rising(p.table, p.num)
           /\ Entries(p.table, p.num) = AtAll(s, StaysOf(n, A))
<1> USE FreqTableAssumption
<1> DEFINE N(x) == CountBelow(A, x)
           L == Cardinality(A)
<1>1. PICK q \in 0 .. n : /\ Pruning(p, q, s, v, n, A)
                          /\ q = 2 * MaxStates \/ N(q) = L
                          /\ q = 0 \/ N(q - 1) < L
  BY DEF Stage
<1>2. A \subseteq Nat /\ q \in Nat /\ n \in Nat /\ A \subseteq 0 .. n - 1 /\ q <= n
  OBVIOUS
<1>3. N(q) = L
  <2>1. q # 2 * MaxStates
    OBVIOUS
  <2> QED
    BY <1>1, <2>1
<1>4. L \in Nat /\ L <= q /\ N(n) = L /\ L # 0 /\ N(0) = 0
  <2>1. N(q) \in Nat /\ N(q) <= q
    BY <1>2, CountNext
  <2>2. N(n) = L /\ IsFiniteSet(A)
    BY <1>2, CountAll
  <2>3. L # 0
    BY <2>2, FS_EmptySet
  <2>4. N(0) = 0
    BY <1>2, CountZero
  <2> QED
    BY <1>3, <2>1, <2>2, <2>3, <2>4
<1>5. \A a, b \in A : a < b => N(a) < N(b)
  BY <1>2, CountGrows
<1>6. \A a \in A : N(a) \in Nat /\ a \in Nat
  BY <1>2, CountNext
<1>7. \A a \in A : a < q
  <2> SUFFICES ASSUME NEW a \in A, q <= a
               PROVE  FALSE
    BY <1>2
  <2>1. N(q) <= N(a)
    BY <1>2, CountGrows
  <2>2. N(a) < N(n)
    <3>1. a < n /\ a \in Nat
      BY <1>2
    <3> QED
      BY <1>2, <3>1, CountGrows
  <2> QED
    BY <1>3, <1>4, <1>6, <2>1, <2>2
<1>8. q # 0 /\ N(q - 1) < L
  BY <1>1, <1>3, <1>4
<1>9. q - 1 \in A
  <2>1. q - 1 \in Nat
    BY <1>2, <1>8
  <2> SUFFICES ASSUME q - 1 \notin A
               PROVE  FALSE
    OBVIOUS
  <2>2. A \subseteq 0 .. (q - 1) - 1
    BY <1>2, <1>7, <2>1
  <2>3. N(q - 1) = L
    BY <2>1, <2>2, CountAll
  <2> QED
    BY <1>4, <1>8, <2>3
<1> HIDE DEF N, L
<1>10. PICK d \in Nat : d = q - L
  BY <1>2, <1>4
<1>11. /\ p.i = L /\ p.num = n - d
       /\ \A j \in Slots : L <= j /\ j + d < n => p.table[j] = s[j + d]
       /\ \A a \in A : p.table[N(a)] = s[a]
       /\ \A j \in 0 .. L - 1 : \E a \in A : N(a) = j
  BY <1>1, <1>3, <1>7, <1>10 DEF Pruning, N
<1>12. PICK t \in [Slots -> Nat], m \in Int : t = p.table /\ m = p.num
  BY DEF Turns
<1>13. m = n - d
  BY <1>11, <1>12
<1> DEFINE From(j, x) == /\ x \in 0 .. n - 1 /\ t[j] = s[x]
                         /\ \/ x \in A /\ N(x) = j
                            \/ x >= q /\ x = j + d
<1>14. ASSUME NEW j \in 0 .. m - 1
       PROVE  \E x \in StaysOf(n, A) : From(j, x)
  <2>1. CASE j < L
    <3>1. j \in 0 .. L - 1
      BY <1>4, <2>1
    <3>2. PICK a \in A : N(a) = j
      BY <1>11, <3>1
    <3>3. a \in 0 .. n - 1 /\ t[j] = s[a]
      BY <1>2, <1>11, <1>12, <3>2
    <3> QED
      BY <3>2, <3>3 DEF StaysOf, Stays
  <2>2. CASE L <= j
    <3>1. j \in Slots /\ j + d < n /\ j + d >= q /\ j + d \in 0 .. n - 1
      BY <1>2, <1>4, <1>10, <1>13, <2>2 DEF Slots
    <3>2. t[j] = s[j + d]
      BY <1>11, <1>12, <2>2, <3>1
    <3>3. \A a \in A : a < j + d
      BY <1>6, <1>7, <3>1
    <3> QED
      BY <3>1, <3>2, <3>3 DEF StaysOf, Stays
  <2> QED
    BY <1>4, <2>1, <2>2
<1>15. ASSUME NEW x \in StaysOf(n, A)
       PROVE  \E j \in 0 .. m - 1 : From(j, x)
  <2>1. x \in 0 .. n - 1 /\ Stays(x, A)
    BY DEF StaysOf
  <2>2. CASE x \in A
    <3>1. N(x) \in Nat /\ N(x) < L
      BY <1>2, <1>3, <1>6, <1>7, <2>2, CountGrows DEF N
    <3>2. N(x) \in 0 .. m - 1
      BY <1>2, <1>4, <1>10, <1>13, <3>1
    <3> QED
      BY <1>11, <1>12, <2>1, <2>2, <3>2
  <2>3. CASE x \notin A
    <3>1. q - 1 < x
      BY <1>9, <2>1, <2>3 DEF Stays
    <3>2. x >= q /\ x - d \in 0 .. m - 1 /\ L <= x - d /\ (x - d) + d = x /\ x - d \in Slots
      BY <1>2, <1>4, <1>10, <1>13, <2>1, <3>1 DEF Slots
    <3>3. t[x - d] = s[x]
      <4>1. PICK j \in Slots : j = x - d
        BY <3>2
      <4>2. L <= j /\ j + d = x /\ j + d < n
        BY <1>2, <2>1, <3>2, <4>1
      <4> QED
        BY <1>11, <1>12, <4>1, <4>2
    <3> QED
      BY <2>1, <3>2, <3>3
  <2> QED
    BY <2>2, <2>3
<1>16. Rising(t, m)
  <2> SUFFICES ASSUME NEW i \in 0 .. m - 1, NEW j \in 0 .. m - 1, i < j
               PROVE  t[i] < t[j]
    BY DEF Rising
  <2>1. PICK x \in StaysOf(n, A) : From(i, x)
    BY <1>14
  <2>2. PICK y \in StaysOf(n, A) : From(j, y)
    BY <1>14
  <2>3. x < y
    <3>1. CASE x \in A /\ y \in A /\ N(x) = i /\ N(y) = j
      <4>1. y < x \/ x = y \/ x < y
        BY <1>6, <3>1
      <4>2. ~(y < x) /\ x # y
        BY <1>5, <1>6, <3>1
      <4> QED
        BY <4>1, <4>2
    <3>2. CASE x \in A /\ y >= q
      BY <1>2, <1>6, <1>7, <2>2, <3>2
    <3>3. CASE x >= q /\ x = i + d /\ y \in A /\ N(y) = j
      <4>1. N(y) < L
        BY <1>2, <1>3, <1>6, <1>7, <3>3, CountGrows DEF N
      <4>2. i + d >= q /\ j < L
        BY <3>3, <4>1
      <4> QED
        BY <1>2, <1>4, <1>10, <4>2
    <3>4. CASE x = i + d /\ y = j + d
      BY <1>10, <3>4
    <3> QED
      BY <2>1, <2>2, <3>1, <3>2, <3>3, <3>4
  <2> QED
    BY <2>1, <2>2, <2>3 DEF Rising
<1>17. Entries(t, m) = AtAll(s, StaysOf(n, A))
  <2>1. \A j \in 0 .. m - 1 : \E x \in StaysOf(n, A) : t[j] = s[x]
    BY <1>14
  <2>2. \A x \in StaysOf(n, A) : \E j \in 0 .. m - 1 : t[j] = s[x]
    BY <1>15
  <2> QED
    BY <2>1, <2>2 DEF Entries, AtAll
<1> QED
  BY <1>11, <1>12, <1>16, <1>17 DEF L

(* Of the first n entries those of A are marked as allowed.                *)
Marks(info, allowed, n, A) == \A x \in 0 .. n - 1 : mark_valid(info, allowed)[x] = 2 <=> x \in A

(* What prune_states does to a table that rises.                           *)
PruneDone(r, info, n, A) ==
    /\ ~r.hung /\ Rising(r.info.table, r.info.num)
    /\ Entries(r.info.table, r.info.num) = AtAll(info.table, StaysOf(n, A))

(* prune_states ends, and leaves the entries that should stay.             *)
LEMMA Prunes ==
    ASSUME NEW info \in Infos, NEW n \in 0 .. MaxStates, n = info.num, Rising(info.table, n),
           NEW A \in SUBSET (0 .. n - 1), A # {}, NEW allowed,
           Marks(info, allowed, n, A),
           NEW r, r = prune_states(info, allowed, Cardinality(A))
    PROVE  PruneDone(r, info, n, A)
<1> USE FreqTableAssumption
<1> DEFINE k2 == 2 * MaxStates
           L == Cardinality(A)
<1>1. PICK v : v = mark_valid(info, allowed)
  OBVIOUS
<1>2. PICK s \in [Slots -> Nat] : s = info.table
  BY DEF Infos
<1>3. L \in 0 .. MaxStates
  <2>1. A \subseteq Nat /\ A \subseteq 0 .. n - 1 /\ n \in Nat
    OBVIOUS
  <2>2. CountBelow(A, n) = L
    BY <2>1, CountAll
  <2>3. CountBelow(A, n) \in Nat /\ CountBelow(A, n) <= n
    BY <2>1, CountNext
  <2> QED
    BY <2>1, <2>2, <2>3
<1> HIDE DEF L
<1>4. PICK start \in Turns : start = [i |-> 0, table |-> s, valid |-> v, num |-> n]
  BY <1>1, <1>2, PruneStarts
<1>5. PICK turn \in [0 .. k2 -> Turns] :
          /\ turn[0] = start
          /\ \A k \in 1 .. k2 : turn[k] = Turn(turn[k - 1], L)
          /\ r = [hung |-> turn[k2].i < L,
                  info |-> [table |-> turn[k2].table, valid |-> turn[k2].valid, num |-> turn[k2].num]]
  <2>1. start = [i |-> 0, table |-> info.table, valid |-> mark_valid(info, allowed), num |-> info.num]
    BY <1>1, <1>2, <1>4
  <2>2. PICK turn : PruneRun(turn, start, L, prune_states(info, allowed, L))
    BY <1>3, <2>1, PruneRuns
  <2>3. r = prune_states(info, allowed, L)
    BY DEF L
  <2> QED
    BY <2>2, <2>3 DEF PruneRun
<1> DEFINE G == {k \in 0 .. k2 : Stage(turn[k], k, s, v, n, A)}
<1>6. 0 \in G
  <2>1. CountBelow(A, 0) = 0
    <3>1. A \subseteq Nat
      OBVIOUS
    <3> QED
      BY <3>1, CountZero
  <2>2. Pruning(start, 0, s, v, n, A)
    <3>1. start.i = 0 /\ start.table = s /\ start.valid = v /\ start.num = n
      BY <1>4
    <3>2. 0 - 0 = 0 /\ n - 0 = n /\ (\A j \in Slots : j + 0 = j) /\ \A a \in A : ~(a < 0)
      BY DEF Slots
    <3> QED
      BY <2>1, <3>1, <3>2 DEF Pruning
  <2>3. Stage(start, 0, s, v, n, A)
    BY <2>2 DEF Stage
  <2> QED
    BY <1>5, <2>3
<1>7. ASSUME NEW k \in 0 .. k2, k \in G, k < k2
      PROVE  k + 1 \in G
  <2>1. k + 1 \in 1 .. k2 /\ (k + 1) - 1 = k /\ k + 1 \in 0 .. k2 /\ k \in Nat
    BY <1>7
  <2>2. PICK p \in Turns : p = turn[k]
    BY <1>5
  <2>3. turn[k + 1] = Turn(p, L)
    BY <1>5, <2>1, <2>2
  <2>4. Stage(p, k, s, v, n, A)
    BY <1>7, <2>2
  <2>5. \A x \in 0 .. n - 1 : v[x] = 2 <=> x \in A
    BY <1>1 DEF Marks
  <2>6. Stage(Turn(p, L), k + 1, s, v, n, A)
    BY <2>1, <2>4, <2>5, StageStep DEF L
  <2> QED
    BY <2>1, <2>3, <2>6
<1>8. k2 \in G
  <2>1. k2 \in Nat
    OBVIOUS
  <2>2. \A k \in 0 .. k2 : k \in G
    <3> HIDE DEF G, k2
    <3> QED
      BY <1>6, <1>7, <2>1, UpTo
  <2> QED
    BY <2>1, <2>2
<1>9. PICK e \in Turns : e = turn[k2]
  BY <1>5
<1>10. Stage(e, k2, s, v, n, A)
  BY <1>8, <1>9
<1>11. Rising(s, n)
  BY <1>2
<1>12. /\ e.i = L /\ Rising(e.table, e.num)
       /\ Entries(e.table, e.num) = AtAll(s, StaysOf(n, A))
  BY <1>10, <1>11, PruneEnds DEF L
<1>13. r = [hung |-> e.i < L, info |-> [table |-> e.table, valid |-> e.valid, num |-> e.num]]
  BY <1>5, <1>9
<1>14. ~(L < L)
  BY <1>3
<1>15. r.hung = (e.i < L) /\ r.info.table = e.table /\ r.info.num = e.num
  BY <1>13
<1> QED
  BY <1>2, <1>12, <1>14, <1>15 DEF PruneDone

-----------------------------------------------------------------------------
(* init_freqs for one cpu.                                                 *)

(* The table a cpu has before prune_states.                                *)
ReadSorted(raw, info) ==
    LET read == read_table(raw, info) IN [read EXCEPT !.table = sort_table(@, read.num)]

(* read_table and sort_table together: the driver's valid frequencies, as  *)
(* many as there is room for, in order and unmarked.                       *)
LEMMA Reads ==
    ASSUME NEW raw \in Seq(Nat), NEW info \in Infos, NEW r, r = ReadSorted(raw, info)
    PROVE  /\ r \in Infos /\ r.num \in 0 .. MaxStates /\ r.num = read_table(raw, info).num
           /\ Sorted(r.table, r.num) /\ Entries(r.table, r.num) = Kept(raw)
           /\ \A x \in Slots : r.valid[x] # 2
           /\ Different(raw) => Rising(r.table, r.num)
<1> USE FreqTableAssumption
<1>1. PICK u \in Seq(Nat) : u = Usable(raw)
  BY UsableIs
<1>2. /\ Len(u) <= MaxStates /\ Range(u) = Kept(raw) /\ (Different(raw) => IsInjective(u))
      /\ DOMAIN u = 1 .. Len(u)
  BY <1>1, UsableIs
<1>3. PICK n \in 0 .. MaxStates : n = Len(u)
  <2>1. Len(u) \in Nat /\ Len(u) <= MaxStates
    BY <1>2
  <2> QED
    BY <2>1
<1>4. info.table \in [Slots -> Nat]
  BY DEF Infos
<1>5. \A i \in Slots : i < n => i + 1 \in 1 .. Len(u) /\ u[i + 1] \in Nat
  BY <1>3 DEF Slots
<1>6. PICK t \in [Slots -> Nat], v \in [Slots -> Int] :
          /\ t = [i \in Slots |-> IF i < n THEN u[i + 1] ELSE info.table[i]]
          /\ v = [i \in Slots |-> IF i < n THEN 1 ELSE 0]
  <2>1. [i \in Slots |-> IF i < n THEN u[i + 1] ELSE info.table[i]] \in [Slots -> Nat]
    BY <1>4, <1>5
  <2>2. [i \in Slots |-> IF i < n THEN 1 ELSE 0] \in [Slots -> Int]
    OBVIOUS
  <2> QED
    BY <2>1, <2>2
<1>7. read_table(raw, info) = [table |-> t, valid |-> v, num |-> n]
  BY <1>1, <1>3, <1>6 DEF read_table
<1>8. r = [table |-> sort_table(t, n), valid |-> v, num |-> n]
  BY <1>7 DEF ReadSorted
<1>9. PICK s \in [Slots -> Nat] : s = sort_table(t, n) /\ Reordered(t, s, n) /\ Sorted(s, n)
  <2>1. /\ sort_table(t, n) \in [Slots -> Nat] /\ Reordered(t, sort_table(t, n), n)
        /\ \A b \in 0 .. n - 1 : Top(sort_table(t, n), b)
    BY Sorts
  <2> QED
    BY <2>1 DEF Sorted
<1>10. \A i \in 0 .. n - 1 : i \in Slots /\ i + 1 \in 1 .. Len(u) /\ t[i] = u[i + 1]
  BY <1>3, <1>6 DEF Slots
<1>11. Entries(t, n) = Range(u)
  <2>1. \A k \in 1 .. Len(u) : k - 1 \in 0 .. n - 1 /\ (k - 1) + 1 = k
    BY <1>3
  <2>2. \A k \in 1 .. Len(u) : t[k - 1] = u[k]
    BY <1>10, <2>1
  <2> QED
    <3>1. \A i \in 0 .. n - 1 : \E k \in 1 .. Len(u) : t[i] = u[k]
      BY <1>10
    <3>2. \A k \in 1 .. Len(u) : \E i \in 0 .. n - 1 : t[i] = u[k]
      BY <2>1, <2>2
    <3>3. DOMAIN u = 1 .. Len(u)
      BY <1>2
    <3>4. Entries(t, n) \subseteq Range(u)
      BY <3>1, <3>3 DEF Entries, Range
    <3>5. Range(u) \subseteq Entries(t, n)
      BY <3>2, <3>3 DEF Entries, Range
    <3> QED
      BY <3>4, <3>5
<1>12. ASSUME Different(raw)
       PROVE  Rising(s, n)
  <2>1. \A k, l \in 1 .. Len(u) : u[k] = u[l] => k = l
    BY <1>2, <1>12 DEF IsInjective
  <2>2. Apart(t, n)
    <3> SUFFICES ASSUME NEW i \in 0 .. n - 1, NEW j \in 0 .. n - 1, t[i] = t[j]
                 PROVE  i = j
      BY DEF Apart
    <3>1. i + 1 = j + 1
      BY <1>10, <2>1
    <3> QED
      BY <3>1
  <2> QED
    BY <1>9, <2>2, Rises DEF Reordered, Sorted
<1>13. r.table = s /\ r.valid = v /\ r.num = n
  BY <1>8, <1>9
<1>14. r \in Infos
  BY <1>8, <1>9 DEF Infos
<1>15. Entries(s, n) = Kept(raw)
  BY <1>2, <1>9, <1>11 DEF Reordered
<1>16. \A x \in Slots : v[x] # 2
  BY <1>6
<1>17. n = read_table(raw, info).num
  BY <1>7
<1> QED
  BY <1>9, <1>12, <1>13, <1>14, <1>15, <1>16, <1>17

(* What the loop over the cpus carries along.                              *)
Freqs == [info : [Cpu -> Infos], allowed : [Slots -> Int], length : 0 .. MaxStates, hung : BOOLEAN]

(* min(a, b) of the code.                                                  *)
LEMMA MinTwo ==
    ASSUME NEW a \in Nat, NEW b \in Nat
    PROVE  Min({a, b}) \in {a, b} /\ Min({a, b}) <= a /\ Min({a, b}) <= b
<1>1. {a, b} \subseteq Nat /\ {a, b} # {}
  OBVIOUS
<1> QED
  BY <1>1, MinState

(* The parts of init_freq.                                                 *)
Length(st, n) == Min({st.length, n})
Allowed(st, n) == IF Length(st, n) > 0 THEN Corrected(st.allowed, n) ELSE st.allowed
Pruned(st, sorted) ==
    IF Length(st, sorted.num) > 0
    THEN prune_states(sorted, Allowed(st, sorted.num), Length(st, sorted.num))
    ELSE [hung |-> FALSE, info |-> sorted]
After(cpu, st, sorted) ==
    [info |-> [st.info EXCEPT ![cpu] = Pruned(st, sorted).info], allowed |-> Allowed(st, sorted.num),
     length |-> Length(st, sorted.num), hung |-> FALSE]

(* init_freq in terms of those parts.                                      *)
LEMMA InitFreqIs ==
    ASSUME NEW cpu, NEW raw \in Seq(Nat), NEW st, st.info[cpu] \in Infos,
           NEW sorted, sorted = ReadSorted(raw, st.info[cpu])
    PROVE  init_freq(cpu, raw, st) = IF Pruned(st, sorted).hung THEN [st EXCEPT !.hung = TRUE]
                                     ELSE After(cpu, st, sorted)
<1>1. sorted.num = read_table(raw, st.info[cpu]).num
  BY Reads
<1>2. PICK read : read = read_table(raw, st.info[cpu])
  OBVIOUS
<1>3. sorted = [read EXCEPT !.table = sort_table(@, read.num)] /\ sorted.num = read.num
  BY <1>1, <1>2 DEF ReadSorted
<1> QED
  BY <1>2, <1>3 DEF init_freq, Pruned, Allowed, Length, After

(* Whatever the list: the cpu's states ascend, unless the loop never ends. *)
LEMMA InitFreqSorts ==
    ASSUME NEW cpu \in Cpu, NEW raw \in Seq(Nat), NEW st \in Freqs, ~st.hung,
           NEW r, r = init_freq(cpu, raw, st)
    PROVE  /\ r \in Freqs
           /\ ~r.hung => /\ Sorted(r.info[cpu].table, r.info[cpu].num)
                         /\ \A c \in Cpu : c # cpu => r.info[c] = st.info[c]
<1> USE FreqTableAssumption
<1>1. /\ st.info \in [Cpu -> Infos] /\ st.allowed \in [Slots -> Int] /\ st.length \in 0 .. MaxStates
      /\ st = [info |-> st.info, allowed |-> st.allowed, length |-> st.length, hung |-> st.hung]
  BY DEF Freqs
<1>2. PICK sorted : sorted = ReadSorted(raw, st.info[cpu])
  OBVIOUS
<1>3. /\ sorted \in Infos /\ sorted.num \in 0 .. MaxStates /\ Sorted(sorted.table, sorted.num)
  BY <1>1, <1>2, Reads
<1>4. Length(st, sorted.num) \in 0 .. MaxStates
  <2>1. st.length \in Nat /\ sorted.num \in Nat
    BY <1>1, <1>3
  <2>2. Length(st, sorted.num) \in {st.length, sorted.num}
    BY <2>1, MinTwo DEF Length
  <2> QED
    BY <1>1, <1>3, <2>2
<1>5. Allowed(st, sorted.num) \in [Slots -> Int]
  <2>1. sorted.num \in Int
    BY <1>3
  <2>2. \A x \in Int : Clamped(x, sorted.num) \in Int
    BY <2>1 DEF Clamped
  <2>3. Corrected(st.allowed, sorted.num) \in [Slots -> Int]
    BY <1>1, <2>2 DEF Corrected
  <2> QED
    BY <1>1, <2>3 DEF Allowed
<1>6. PICK p : p = Pruned(st, sorted)
  OBVIOUS
<1>7. p.hung \in BOOLEAN /\ p.info \in Infos /\ Sorted(p.info.table, p.info.num)
  <2>1. CASE Length(st, sorted.num) > 0
    <3>1. p = prune_states(sorted, Allowed(st, sorted.num), Length(st, sorted.num))
      BY <1>6, <2>1 DEF Pruned
    <3>2. sorted.num <= MaxStates
      BY <1>3
    <3> QED
      BY <1>3, <1>4, <3>1, <3>2, PruneSorted
  <2>2. CASE ~(Length(st, sorted.num) > 0)
    <3>1. p = [hung |-> FALSE, info |-> sorted]
      BY <1>6, <2>2 DEF Pruned
    <3>2. p.hung = FALSE /\ p.info = sorted
      BY <3>1
    <3> QED
      BY <1>3, <3>2
  <2> QED
    BY <2>1, <2>2
<1>8. r = IF p.hung THEN [st EXCEPT !.hung = TRUE] ELSE After(cpu, st, sorted)
  BY <1>1, <1>2, <1>6, InitFreqIs
<1>9. CASE p.hung
  <2>1. r = [st EXCEPT !.hung = TRUE]
    BY <1>8, <1>9
  <2>2. r.hung /\ r \in Freqs
    BY <1>1, <2>1 DEF Freqs
  <2> QED
    BY <2>2
<1>10. CASE ~p.hung
  <2>1. r = [info |-> [st.info EXCEPT ![cpu] = p.info], allowed |-> Allowed(st, sorted.num),
             length |-> Length(st, sorted.num), hung |-> FALSE]
    BY <1>6, <1>8, <1>10 DEF After
  <2>2. PICK f : f = [st.info EXCEPT ![cpu] = p.info]
    OBVIOUS
  <2>3. f \in [Cpu -> Infos] /\ f[cpu] = p.info /\ \A c \in Cpu : c # cpu => f[c] = st.info[c]
    BY <1>1, <1>7, <2>2
  <2>4. r.info = f
    BY <2>1, <2>2
  <2>5. r \in Freqs
    BY <1>4, <1>5, <2>1, <2>2, <2>3 DEF Freqs
  <2> QED
    BY <1>7, <2>3, <2>4, <2>5
<1> QED
  BY <1>9, <1>10

-----------------------------------------------------------------------------
(* A list of different states of a cpu whose frequencies are different.    *)
Suits(raw, list) ==
    /\ 0 \in Range(list) /\ IsInjective(list) /\ Different(raw)
    /\ \A v \in Range(list) : 0 <= v /\ v < Cardinality(Kept(raw))

(* What is left of the states, A allowed, and a cpu with those left.       *)
LeftOf(raw, A) ==
    {f \in Kept(raw) : LET s == CountBelow(Kept(raw), f) IN s \in A \/ \A v \in A : v < s}
PrunedTo(info, raw, A) == Rising(info.table, info.num) /\ Entries(info.table, info.num) = LeftOf(raw, A)

(* A list without repetition is as long as the set of its entries.         *)
LEMMA ListCount ==
    ASSUME NEW list \in Lists, IsInjective(list)
    PROVE  /\ Cardinality(Range(list)) = Len(list) /\ Len(list) \in Nat
           /\ \A v \in Range(list) : \E k \in 1 .. Len(list) : list[k] = v
           /\ \A k \in 1 .. Len(list) : list[k] \in Range(list)
<1> DEFINE I == 1 .. Len(list)
           E == Range(list)
<1>1. list \in Seq(Int) /\ DOMAIN list = I /\ Len(list) \in Nat
  BY DEF Lists
<1>2. IsFiniteSet(I) /\ Cardinality(I) = Len(list)
  <2>1. 1 \in Int /\ Len(list) \in Int
    BY <1>1
  <2>2. IsFiniteSet(I) /\ Cardinality(I) = IF 1 > Len(list) THEN 0 ELSE Len(list) - 1 + 1
    BY <2>1, FS_Interval
  <2> QED
    BY <1>1, <2>2
<1>3. \A k \in I : list[k] \in E
  BY <1>1 DEF Range
<1>4. \A v \in E : \E k \in I : list[k] = v
  BY <1>1 DEF Range
<1>5. list \in [I -> E]
  <2>1. list = [k \in I |-> list[k]]
    BY <1>1
  <2> HIDE DEF I, E
  <2> QED
    BY <1>3, <2>1
<1> HIDE DEF I, E
<1>6. list \in Bijection(I, E)
  BY <1>4, <1>5 DEF Bijection, Injection, Surjection
<1>7. Cardinality(E) = Cardinality(I)
  BY <1>2, <1>6, FS_Bijection DEF ExistsBijection
<1> QED
  BY <1>1, <1>2, <1>3, <1>4, <1>7 DEF I, E

(* The entries of the table left by prune_states are those of LeftOf.      *)
LEMMA StaysLeft ==
    ASSUME NEW raw, NEW t \in [Slots -> Nat], NEW n \in 0 .. MaxStates, Rising(t, n),
           Entries(t, n) = Kept(raw), NEW A
    PROVE  AtAll(t, StaysOf(n, A)) = LeftOf(raw, A)
<1>1. \A i \in 0 .. n - 1 : CountBelow(Kept(raw), t[i]) = i
  BY RankIs
<1>2. \A i \in 0 .. n - 1 : t[i] \in Kept(raw)
  BY DEF Entries
<1>3. \A f \in Kept(raw) : \E i \in 0 .. n - 1 : f = t[i]
  BY DEF Entries
<1>4. \A i \in 0 .. n - 1 : t[i] \in LeftOf(raw, A) <=> i \in StaysOf(n, A)
  BY <1>1, <1>2 DEF LeftOf, StaysOf, Stays
<1>5. StaysOf(n, A) \subseteq 0 .. n - 1 /\ LeftOf(raw, A) \subseteq Kept(raw)
  BY DEF StaysOf, LeftOf
<1> QED
  BY <1>3, <1>4, <1>5 DEF AtAll

(* The parameter needs no correction and marks exactly the states of the   *)
(* list.                                                                   *)
LEMMA ListMarks ==
    ASSUME NEW list \in Lists, NEW n \in 0 .. MaxStates, 0 \in Range(list), IsInjective(list),
           \A v \in Range(list) : 0 <= v /\ v < n,
           NEW allowed, allowed = Start(list).allowed,
           NEW info, info.num = n, \A x \in Slots : info.valid[x] # 2
    PROVE  /\ Corrected(allowed, n) = allowed
           /\ Range(list) \subseteq 0 .. n - 1 /\ Len(list) <= n /\ Len(list) > 0
           /\ \A x \in 0 .. n - 1 : mark_valid(info, allowed)[x] = 2 <=> x \in Range(list)
<1> USE FreqTableAssumption
<1> DEFINE A == Range(list)
<1>1. /\ Cardinality(A) = Len(list) /\ Len(list) \in Nat
      /\ \A v \in A : \E k \in 1 .. Len(list) : list[k] = v
      /\ \A k \in 1 .. Len(list) : list[k] \in A
  BY ListCount
<1>2. A \subseteq 0 .. n - 1
  <2>1. \A v \in A : v \in Int
    <3>1. list \in Seq(Int)
      BY DEF Lists
    <3>2. \A k \in 1 .. Len(list) : list[k] \in Int
      BY <3>1
    <3> QED
      BY <1>1, <3>2
  <2> QED
    BY <2>1
<1>3. Len(list) <= n
  <2>1. A \subseteq Nat /\ n \in Nat
    BY <1>2
  <2>2. CountBelow(A, n) = Cardinality(A) /\ CountBelow(A, n) <= n
    BY <1>2, <2>1, CountAll, CountNext
  <2> QED
    BY <1>1, <2>2
<1>4. Len(list) > 0
  <2>1. PICK k \in 1 .. Len(list) : list[k] = 0
    BY <1>1
  <2> QED
    BY <1>1
<1>5. /\ allowed = [i \in Slots |-> IF i < Len(list) THEN list[i + 1] ELSE 0]
  BY DEF Start
<1>6. \A i \in Slots : i < Len(list) => i + 1 \in 1 .. Len(list)
  BY <1>1 DEF Slots
<1>7. \A i \in Slots : allowed[i] \in A
  BY <1>1, <1>5, <1>6
<1>8. Corrected(allowed, n) = allowed
  <2>1. \A x \in A : Clamped(x, n) = x
    BY <1>2 DEF Clamped
  <2>2. \A i \in Slots : (IF i < n THEN Clamped(allowed[i], n) ELSE allowed[i]) = allowed[i]
    BY <1>7, <2>1
  <2>3. allowed = [i \in Slots |-> allowed[i]]
    BY <1>5
  <2> QED
    BY <2>2, <2>3 DEF Corrected
<1>9. ASSUME NEW x \in 0 .. n - 1
      PROVE  mark_valid(info, allowed)[x] = 2 <=> x \in A
  <2>1. x \in Slots
    BY DEF Slots
  <2>2. mark_valid(info, allowed)[x] = IF \E i \in 0 .. n - 1 : allowed[i] = x THEN 2 ELSE info.valid[x]
    BY <2>1 DEF mark_valid
  <2>3. (\E i \in 0 .. n - 1 : allowed[i] = x) <=> x \in A
    <3>1. \A i \in 0 .. n - 1 : i \in Slots
      BY DEF Slots
    <3>2. ASSUME x \in A
          PROVE  \E i \in 0 .. n - 1 : allowed[i] = x
      <4>1. PICK k \in 1 .. Len(list) : list[k] = x
        BY <1>1, <3>2
      <4>2. k - 1 \in 0 .. n - 1 /\ k - 1 < Len(list) /\ (k - 1) + 1 = k
        BY <1>1, <1>3
      <4>3. allowed[k - 1] = list[k]
        BY <1>5, <3>1, <4>2
      <4> QED
        BY <4>1, <4>2, <4>3
    <3> QED
      BY <1>7, <3>1, <3>2
  <2>4. info.valid[x] # 2
    BY <2>1
  <2> QED
    BY <2>2, <2>3, <2>4
<1> QED
  BY <1>2, <1>3, <1>4, <1>8, <1>9

(* With a proper list the loop ends, the parameter stays as it was, and    *)
(* the cpu has the states of the list and those beyond.                    *)
LEMMA InitFreqPrunes ==
    ASSUME NEW cpu \in Cpu, NEW raw \in Seq(Nat), NEW list \in Lists, Suits(raw, list),
           NEW st \in Freqs, st.allowed = Start(list).allowed, st.length = Len(list),
           NEW r, r = init_freq(cpu, raw, st)
    PROVE  /\ ~r.hung /\ r.allowed = st.allowed /\ r.length = st.length
           /\ PrunedTo(r.info[cpu], raw, Range(list))
<1> USE FreqTableAssumption
<1> DEFINE A == Range(list)
<1>1. st.info \in [Cpu -> Infos]
  BY DEF Freqs
<1>2. PICK sorted : sorted = ReadSorted(raw, st.info[cpu])
  OBVIOUS
<1>3. Different(raw) /\ IsInjective(list) /\ 0 \in A
  BY DEF Suits
<1>4. /\ sorted \in Infos /\ sorted.num \in 0 .. MaxStates /\ Rising(sorted.table, sorted.num)
      /\ Entries(sorted.table, sorted.num) = Kept(raw) /\ \A x \in Slots : sorted.valid[x] # 2
  BY <1>1, <1>2, <1>3, Reads
<1>5. PICK n \in 0 .. MaxStates : n = sorted.num
  BY <1>4
<1>6. PICK t \in [Slots -> Nat] : t = sorted.table
  BY <1>4 DEF Infos
<1>7. Cardinality(Kept(raw)) = n
  BY <1>4, <1>5, <1>6, EntriesCount
<1>8. \A v \in A : 0 <= v /\ v < n
  BY <1>7 DEF Suits
<1>9. /\ Corrected(st.allowed, n) = st.allowed
      /\ A \subseteq 0 .. n - 1 /\ Len(list) <= n /\ Len(list) > 0
      /\ \A x \in 0 .. n - 1 : mark_valid(sorted, st.allowed)[x] = 2 <=> x \in A
  BY <1>3, <1>4, <1>5, <1>8, ListMarks
<1>10. Cardinality(A) = Len(list) /\ Len(list) \in Nat
  BY <1>3, ListCount
<1>11. Length(st, n) = Len(list)
  <2>1. PICK l \in Nat : l = Len(list)
    BY <1>10
  <2>2. n \in Nat
    OBVIOUS
  <2>3. Min({l, n}) \in {l, n} /\ Min({l, n}) <= l
    BY <2>2, MinTwo
  <2>4. l <= n
    BY <1>9, <2>1
  <2>5. Min({l, n}) = l
    BY <2>2, <2>3, <2>4
  <2> QED
    BY <2>1, <2>5 DEF Length
<1>12. Allowed(st, n) = st.allowed
  BY <1>9 DEF Allowed
<1>13. PICK p : p = Pruned(st, sorted)
  OBVIOUS
<1>14. p = prune_states(sorted, st.allowed, Cardinality(A))
  BY <1>5, <1>9, <1>10, <1>11, <1>12, <1>13 DEF Pruned
<1>15. A # {}
  BY <1>3
<1>16. /\ ~p.hung /\ Rising(p.info.table, p.info.num)
       /\ Entries(p.info.table, p.info.num) = AtAll(t, StaysOf(n, A))
  <2> HIDE DEF A
  <2>1. Rising(sorted.table, n) /\ sorted \in Infos /\ n = sorted.num
    BY <1>4, <1>5
  <2>2. A \in SUBSET (0 .. n - 1) /\ A # {}
    BY <1>9, <1>15
  <2>3. Marks(sorted, st.allowed, n, A)
    BY <1>9 DEF Marks
  <2>4. PruneDone(p, sorted, n, A)
    BY <1>14, <2>1, <2>2, <2>3, Prunes
  <2> QED
    BY <1>6, <2>4 DEF PruneDone
<1>17. AtAll(t, StaysOf(n, A)) = LeftOf(raw, A)
  BY <1>4, <1>5, <1>6, StaysLeft
<1>18. r = [info |-> [st.info EXCEPT ![cpu] = p.info], allowed |-> st.allowed,
            length |-> Len(list), hung |-> FALSE]
  <2>1. r = IF p.hung THEN [st EXCEPT !.hung = TRUE] ELSE After(cpu, st, sorted)
    BY <1>1, <1>2, <1>13, InitFreqIs
  <2> QED
    BY <1>5, <1>11, <1>12, <1>13, <1>16, <2>1 DEF After
<1>19. /\ r.info[cpu] = p.info /\ r.allowed = st.allowed /\ r.length = Len(list) /\ r.hung = FALSE
  <2>1. r.info = [st.info EXCEPT ![cpu] = p.info] /\ r.allowed = st.allowed
        /\ r.length = Len(list) /\ r.hung = FALSE
    BY <1>18
  <2> QED
    BY <1>1, <2>1
<1>20. PrunedTo(p.info, raw, A)
  BY <1>16, <1>17 DEF PrunedTo
<1> QED
  BY <1>19, <1>20

-----------------------------------------------------------------------------
(* Both calls of init_freqs.                                               *)

(* The loop of init_freqs over the cpus.                                   *)
LEMMA InitFreqsRuns ==
    ASSUME NEW rs \in Raws, NEW st \in Freqs, ~st.hung
    PROVE  \E upto \in [0 .. OnlineCpus -> Freqs] :
               /\ upto[0] = st /\ init_freqs(rs, st) = upto[OnlineCpus]
               /\ \A c \in 1 .. OnlineCpus :
                      upto[c] = IF upto[c - 1].hung THEN upto[c - 1]
                                ELSE init_freq(c - 1, rs[c - 1], upto[c - 1])
<1> USE FreqTableAssumption
<1> DEFINE n == OnlineCpus
           One(f, c) == IF f.hung THEN f ELSE init_freq(c - 1, rs[c - 1], f)
           P(f) == f = [c \in 0 .. n |-> IF c = 0 \/ st.hung THEN st ELSE One(f[c - 1], c)]
           upto == CHOOSE f : P(f)
           go == [x \in (1 .. n) \X Freqs |-> One(x[2], x[1])]
<1>1. init_freqs(rs, st) = upto[n]
  <2>1. \A f : P(f) <=> f = [c \in 0 .. OnlineCpus |->
                                IF c = 0 \/ st.hung THEN st
                                ELSE IF f[c - 1].hung THEN f[c - 1]
                                ELSE init_freq(c - 1, rs[c - 1], f[c - 1])]
    OBVIOUS
  <2> QED
    BY DEF init_freqs
<1>2. n \in Nat
  OBVIOUS
<1>3. ASSUME NEW f \in Freqs, NEW c \in 1 .. n
      PROVE  One(f, c) \in Freqs
  <2>1. c - 1 \in Cpu /\ rs[c - 1] \in Seq(Nat)
    BY DEF Cpu, Raws
  <2>2. ~f.hung => init_freq(c - 1, rs[c - 1], f) \in Freqs
    BY <2>1, InitFreqSorts
  <2> QED
    BY <2>2
<1> HIDE DEF One
<1>4. go \in [(1 .. n) \X Freqs -> Freqs]
  BY <1>3
<1>5. PICK g \in [0 .. n -> Freqs] : Recurses(g, n, st, go)
  <2> HIDE DEF n, go
  <2> QED
    BY <1>2, <1>4, Recursion
<1>6. P(g)
  <2>1. ASSUME NEW c \in 1 .. n
        PROVE  g[c] = One(g[c - 1], c)
    <3>1. g[c] = go[<<c, g[c - 1]>>]
      BY <1>5 DEF Recurses
    <3>2. <<c, g[c - 1]>> \in (1 .. n) \X Freqs
      OBVIOUS
    <3> QED
      BY <3>1, <3>2
  <2>2. g[0] = st
    BY <1>5 DEF Recurses
  <2>3. \A c \in 0 .. n : g[c] = IF c = 0 \/ st.hung THEN st ELSE One(g[c - 1], c)
    BY <2>1, <2>2
  <2> QED
    BY <2>3
<1>7. P(upto)
  <2> HIDE DEF P
  <2> QED
    BY <1>6
<1> HIDE DEF upto
<1>8. upto[0] = st /\ \A c \in 1 .. n : upto[c] = One(upto[c - 1], c)
  BY <1>7
<1>9. \A c \in 0 .. n : upto[c] \in Freqs
  <2> DEFINE G == {c \in 0 .. n : upto[c] \in Freqs}
  <2>1. 0 \in G
    BY <1>8
  <2>2. ASSUME NEW c \in 0 .. n, c \in G, c < n
        PROVE  c + 1 \in G
    <3>1. c + 1 \in 1 .. n /\ (c + 1) - 1 = c
      BY <2>2
    <3>2. upto[c + 1] = One(upto[c], c + 1)
      BY <1>8, <3>1
    <3>3. upto[c] \in Freqs
      BY <2>2
    <3>4. upto[c + 1] \in Freqs
      BY <1>3, <3>1, <3>2, <3>3
    <3> QED
      BY <3>1, <3>4
  <2>3. \A c \in 0 .. n : c \in G
    <3> HIDE DEF G, n
    <3> QED
      BY <1>2, <2>1, <2>2, UpTo
  <2> QED
    BY <2>3
<1>10. upto \in [0 .. n -> Freqs]
  BY <1>7, <1>9
<1> QED
  BY <1>1, <1>8, <1>10 DEF One

(* ProperList, and what follows from it for the state between the calls.   *)
Proper(rs, list) ==
    0 \in Range(list) /\ IsInjective(list) /\ \A c \in Cpu : Suits(rs[c], list)
Kind(st, list) == ~st.hung /\ st.allowed = Start(list).allowed /\ st.length = Len(list)

(* The first k cpus are as they should be.                                 *)
AllSorted(st, k) == \A c \in Cpu : c < k => Sorted(st.info[c].table, st.info[c].num)
AllPruned(st, k, rs, list) == \A c \in Cpu : c < k => PrunedTo(st.info[c], rs[c], Range(list))

(* One call of init_freqs, whatever the tables hold before.                *)
LEMMA InitFreqsDoes ==
    ASSUME NEW rs \in Raws, NEW list \in Lists, NEW st \in Freqs, ~st.hung,
           Proper(rs, list) => Kind(st, list), NEW r, r = init_freqs(rs, st)
    PROVE  /\ r \in Freqs
           /\ ~r.hung => AllSorted(r, OnlineCpus)
           /\ Proper(rs, list) => Kind(r, list) /\ AllPruned(r, OnlineCpus, rs, list)
<1> USE FreqTableAssumption
<1> DEFINE n == OnlineCpus
<1>1. PICK upto \in [0 .. n -> Freqs] :
          /\ upto[0] = st /\ init_freqs(rs, st) = upto[n]
          /\ \A c \in 1 .. n : upto[c] = IF upto[c - 1].hung THEN upto[c - 1]
                                         ELSE init_freq(c - 1, rs[c - 1], upto[c - 1])
  BY InitFreqsRuns
<1> DEFINE Good(f, k) == /\ ~f.hung => AllSorted(f, k)
                         /\ Proper(rs, list) => Kind(f, list) /\ AllPruned(f, k, rs, list)
           G == {c \in 0 .. n : Good(upto[c], c)}
<1>2. 0 \in G
  <2>1. \A c \in Cpu : ~(c < 0)
    BY DEF Cpu
  <2>2. AllSorted(st, 0) /\ AllPruned(st, 0, rs, list)
    BY <2>1 DEF AllSorted, AllPruned
  <2> QED
    BY <1>1, <2>2
<1>3. ASSUME NEW k \in 0 .. n, k \in G, k < n
      PROVE  k + 1 \in G
  <2>1. k + 1 \in 1 .. n /\ (k + 1) - 1 = k /\ k + 1 \in 0 .. n /\ k \in Cpu
    BY <1>3 DEF Cpu
  <2>2. PICK f \in Freqs : f = upto[k]
    BY <1>1
  <2>3. PICK e : e = upto[k + 1]
    OBVIOUS
  <2>4. e = IF f.hung THEN f ELSE init_freq(k, rs[k], f)
    BY <1>1, <2>1, <2>2, <2>3
  <2>5. Good(f, k)
    BY <1>3, <2>2
  <2>6. rs[k] \in Seq(Nat)
    BY <2>1 DEF Raws
  <2>7. \A c \in Cpu : c < k + 1 => c < k \/ c = k
    BY <2>1 DEF Cpu
  <2>8. CASE f.hung
    <3>1. ~Proper(rs, list)
      BY <2>5, <2>8 DEF Kind
    <3>2. e.hung
      BY <2>4, <2>8
    <3>3. Good(e, k + 1)
      BY <3>1, <3>2
    <3> QED
      BY <2>1, <2>3, <3>3
  <2>9. CASE ~f.hung
    <3>1. e = init_freq(k, rs[k], f)
      BY <2>4, <2>9
    <3>2. ~e.hung => /\ Sorted(e.info[k].table, e.info[k].num)
                     /\ \A c \in Cpu : c # k => e.info[c] = f.info[c]
      BY <2>1, <2>6, <2>9, <3>1, InitFreqSorts
    <3>3. \A c \in Cpu : c < k => c # k
      BY <2>1 DEF Cpu
    <3>4. ~e.hung => AllSorted(e, k + 1)
      BY <2>5, <2>7, <2>9, <3>2, <3>3 DEF AllSorted
    <3>5. ASSUME Proper(rs, list)
          PROVE  Kind(e, list) /\ AllPruned(e, k + 1, rs, list)
      <4>1. Suits(rs[k], list) /\ f.allowed = Start(list).allowed /\ f.length = Len(list)
        BY <2>1, <2>5, <3>5 DEF Proper, Kind
      <4>2. /\ ~e.hung /\ e.allowed = f.allowed /\ e.length = f.length
            /\ PrunedTo(e.info[k], rs[k], Range(list))
        BY <2>1, <2>6, <3>1, <4>1, InitFreqPrunes
      <4>3. AllPruned(f, k, rs, list)
        BY <2>5, <3>5
      <4>4. AllPruned(e, k + 1, rs, list)
        BY <2>7, <3>2, <3>3, <4>2, <4>3 DEF AllPruned
      <4> QED
        BY <4>1, <4>2, <4>4 DEF Kind
    <3>6. Good(e, k + 1)
      BY <3>4, <3>5
    <3> QED
      BY <2>1, <2>3, <3>6
  <2> QED
    BY <2>8, <2>9
<1>4. n \in G
  <2>1. n \in Nat
    OBVIOUS
  <2>2. \A k \in 0 .. n : k \in G
    <3> HIDE DEF G, n
    <3> QED
      BY <1>2, <1>3, <2>1, UpTo
  <2> QED
    BY <2>1, <2>2
<1>5. r = upto[n] /\ r \in Freqs
  BY <1>1
<1> QED
  BY <1>4, <1>5

(* The tables between the calls: types, and both promises.  The parameter  *)
(* is changed in place, but a proper list is left as it was, so that the   *)
(* second call prunes as the first did.                                    *)
TablesInv ==
    /\ raws \in Raws /\ given \in Lists /\ calls \in Nat /\ freq \in Freqs
    /\ calls > 0 /\ ~freq.hung => AllSorted(freq, OnlineCpus)
    /\ Proper(raws, given) => Kind(freq, given)
    /\ Proper(raws, given) /\ calls > 0 => AllPruned(freq, OnlineCpus, raws, given)

(* TablesInv holds at first.                                               *)
LEMMA TablesStart ==
    TableInit(Raws, Lists) => TablesInv
<1> USE FreqTableAssumption
<1> SUFFICES ASSUME TableInit(Raws, Lists)
             PROVE  TablesInv
  OBVIOUS
<1>1. raws \in Raws /\ given \in Lists /\ freq = Start(given) /\ calls = 0
  BY DEF TableInit
<1>2. given \in Seq(Int) /\ Len(given) \in 0 .. MaxStates
  BY <1>1 DEF Lists
<1>3. Blank \in Infos
  BY DEF Blank, Infos
<1>4. \A i \in Slots : i < Len(given) => given[i + 1] \in Int
  BY <1>2 DEF Slots
<1>5. Start(given) \in Freqs /\ Start(given).hung = FALSE /\ Start(given).length = Len(given)
  BY <1>2, <1>3, <1>4 DEF Start, Freqs
<1> QED
  BY <1>1, <1>5 DEF TablesInv, Kind

(* A call of init_freqs keeps TablesInv.                                   *)
LEMMA TablesStep ==
    TablesInv /\ [InitFreqs]_tables => TablesInv'
<1> SUFFICES ASSUME TablesInv, [InitFreqs]_tables
             PROVE  TablesInv'
  OBVIOUS
<1>1. CASE UNCHANGED tables
  BY <1>1 DEF TablesInv, tables
<1>2. CASE InitFreqs
  <2>1. PICK rs, list, st, r : rs = raws /\ list = given /\ st = freq /\ r = freq'
    OBVIOUS
  <2>2. rs \in Raws /\ list \in Lists /\ st \in Freqs /\ (Proper(rs, list) => Kind(st, list))
    BY <2>1 DEF TablesInv
  <2>3. ~st.hung /\ r = init_freqs(rs, st) /\ raws' = rs /\ given' = list /\ calls' = calls + 1
    BY <1>2, <2>1 DEF InitFreqs
  <2>4. /\ r \in Freqs
        /\ ~r.hung => AllSorted(r, OnlineCpus)
        /\ Proper(rs, list) => Kind(r, list) /\ AllPruned(r, OnlineCpus, rs, list)
    BY <2>2, <2>3, InitFreqsDoes
  <2>5. calls' \in Nat
    BY <2>3 DEF TablesInv
  <2>6. freq' = r
    BY <2>1
  <2> QED
    BY <2>2, <2>3, <2>4, <2>5, <2>6 DEF TablesInv
<1> QED
  BY <1>1, <1>2

(* TablesInv is enough.                                                    *)
LEMMA TablesShow ==
    TablesInv => PrunedAsAllowed
<1> USE FreqTableAssumption
<1> SUFFICES ASSUME TablesInv
             PROVE  PrunedAsAllowed
  OBVIOUS
<1>1. DOMAIN raws = Cpu /\ \A c \in Cpu : c < OnlineCpus
  BY DEF TablesInv, Raws, Cpu
<1>2. freq.info \in [Cpu -> Infos]
  BY DEF TablesInv, Freqs
<1>3. Ascending
  <2> SUFFICES ASSUME calls > 0, ~freq.hung, NEW c \in Cpu, NEW i \in 1 .. freq.info[c].num - 1
               PROVE  freq.info[c].table[i - 1] <= freq.info[c].table[i]
    BY <1>1 DEF Ascending
  <2>1. Sorted(freq.info[c].table, freq.info[c].num)
    BY <1>1 DEF TablesInv, AllSorted
  <2>2. freq.info[c].num \in Int
    BY <1>2 DEF Infos
  <2>3. i \in 0 .. freq.info[c].num - 1 /\ i - 1 \in 0 .. i - 1
    BY <2>2
  <2> QED
    BY <2>1, <2>3 DEF Sorted, Top
<1>4. ASSUME ProperList, calls > 0
      PROVE  /\ ~freq.hung /\ freq.length = Len(given)
             /\ \A c \in Cpu :
                    /\ \A i, j \in 0 .. freq.info[c].num - 1 :
                           i < j => freq.info[c].table[i] < freq.info[c].table[j]
                    /\ Used(c) = Asked(raws[c]) \cup Above(raws[c])
  <2>1. Proper(raws, given)
    BY <1>1, <1>4 DEF ProperList, Proper, Suits, Different
  <2>2. Kind(freq, given) /\ AllPruned(freq, OnlineCpus, raws, given)
    BY <1>4, <2>1 DEF TablesInv
  <2>3. ASSUME NEW c \in Cpu
        PROVE  PrunedTo(freq.info[c], raws[c], Range(given))
    BY <1>1, <2>2 DEF AllPruned
  <2>4. \A raw : LeftOf(raw, Range(given)) = Asked(raw) \cup Above(raw)
    BY Zenon DEF LeftOf, Asked, Above, StateOf
  <2> QED
    BY <2>2, <2>3, <2>4 DEF Kind, PrunedTo, Rising, Entries, Used
<1> QED
  BY <1>1, <1>3, <1>4 DEF PrunedAsAllowed

(* init_freqs, called twice on the same parameter and tables, ends and     *)
(* leaves each cpu the allowed states and those above all of them, in      *)
(* order, when the list is one of different states of every cpu that       *)
(* includes state 0; whatever the list, the states of a cpu ascend.        *)
THEOREM TablesPruned == TableSpec => []PrunedAsAllowed
<1>1. TableSpec => []TablesInv
  BY TablesStart, TablesStep, PTL DEF TableSpec
<1> QED
  BY <1>1, TablesShow, PTL
=============================================================================
