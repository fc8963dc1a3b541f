---------------------------- MODULE MutatorProofs ----------------------------
(***************************************************************************)
(* For every number of cpus and states, every delta and every demand: the  *)
(* delta mutator stays within its delta constraint and offers the cpus the *)
(* load asks for; the dynamic programming mutator offers enough of them    *)
(* and chooses a layout no other layout within delta improves on; and both *)
(* keep track of the cpus that sleep.                                      *)
(*                                                                         *)
(* The sums and the recursive functions of the model are reasoned about by *)
(* a least counterexample: a number, or the size of a subset.              *)
(***************************************************************************)
EXTENDS DynamicProg, FiniteSetTheorems, WellFoundedInduction, TLAPS

(* The function by which FoldFunctionOnSet adds up the values of f.        *)
Pick(s) == CHOOSE x \in s : TRUE
IsSum(g, f, S) == g = [s \in SUBSET S |->
                          IF s = {} THEN 0 ELSE f[Pick(s)] + g[s \ {Pick(s)}]]

-----------------------------------------------------------------------------

(* A sum is a number, and may be taken in any order.                       *)
SumsUp(g, f, S) ==
    \A s \in SUBSET S : g[s] \in Int /\ \A y \in s : g[s] = f[y] + g[s \ {y}]

(* Every non-empty set of natural numbers has a least element.             *)
LEMMA LeastNat ==
    ASSUME NEW T, T \subseteq Nat, T # {}
    PROVE  \E x \in T : \A y \in T : x <= y
<1> DEFINE R == {ss \in Nat \X Nat : ss[1] < ss[2]}
<1>1. IsWellFoundedOn(R, Nat)
  BY NatLessThanWellFounded DEF OpToRel
<1>2. \A x, y \in Nat : <<x, y>> \in R <=> x < y
  OBVIOUS
<1> HIDE DEF R
<1>3. PICK x \in T : \A y \in T : ~ (<<y, x>> \in R)
  BY <1>1, WFMin
<1>4. \A y \in T : ~ (y < x)
  BY <1>2, <1>3
<1>5. \A y \in T : x <= y
  BY <1>4
<1> QED
  BY <1>5

(* The size of the subsets of a finite set.                                *)
LEMMA SubsetSize ==
    ASSUME NEW S, IsFiniteSet(S), NEW s \in SUBSET S
    PROVE  /\ IsFiniteSet(s) /\ Cardinality(s) \in Nat /\ Cardinality(s) <= Cardinality(S)
           /\ Cardinality(s) = 0 <=> s = {}
           /\ \A x \in s : s \ {x} \in SUBSET S /\ Cardinality(s \ {x}) = Cardinality(s) - 1
           /\ s # {} => Pick(s) \in s
<1>1. IsFiniteSet(s) /\ Cardinality(s) <= Cardinality(S)
  BY FS_Subset
<1>2. Cardinality(s) \in Nat /\ (Cardinality(s) = 0 <=> s = {})
  BY <1>1, FS_CardinalityType, FS_EmptySet
<1>3. \A x \in s : Cardinality(s \ {x}) = Cardinality(s) - 1
  BY <1>1, FS_RemoveElement
<1> QED
  BY <1>1, <1>2, <1>3 DEF Pick

(* Among some subsets of a finite set one is smallest.                     *)
LEMMA SmallestSubset ==
    ASSUME NEW S, IsFiniteSet(S), NEW B, B \subseteq SUBSET S, B # {}
    PROVE  \E s \in B : \A t \in B : Cardinality(s) <= Cardinality(t)
<1> DEFINE N == {Cardinality(t) : t \in B}
<1>1. \A t \in B : Cardinality(t) \in Nat
  BY SubsetSize
<1>2. N \subseteq Nat /\ N # {}
  BY <1>1
<1>3. PICK n \in N : \A m \in N : n <= m
  <2> HIDE DEF N
  <2> QED
    BY <1>2, LeastNat
<1> QED
  BY <1>3

(* There is such a function, however many values are added.                *)
LEMMA SumExists ==
    ASSUME NEW S, IsFiniteSet(S), NEW f \in [S -> Int]
    PROVE  \E g : IsSum(g, f, S)
<1> DEFINE Upto(g, n) == \A s \in SUBSET S : Cardinality(s) <= n =>
                             g[s] = IF s = {} THEN 0 ELSE f[Pick(s)] + g[s \ {Pick(s)}]
           Good(n) == \E g \in [SUBSET S -> Int] : Upto(g, n)
           Bad == {n \in Nat : ~Good(n)}
<1>1. \A s \in SUBSET S :
          /\ Cardinality(s) \in Nat /\ Cardinality(s) <= Cardinality(S)
          /\ Cardinality(s) = 0 <=> s = {}
          /\ s # {} => /\ Pick(s) \in s /\ f[Pick(s)] \in Int /\ s \ {Pick(s)} \in SUBSET S
                       /\ Cardinality(s \ {Pick(s)}) = Cardinality(s) - 1
  BY SubsetSize
<1>2. Good(0)
  <2> DEFINE z == [s \in SUBSET S |-> 0]
  <2>1. z \in [SUBSET S -> Int]
    OBVIOUS
  <2>2. Upto(z, 0)
    <3> TAKE s \in SUBSET S
    <3> HAVE Cardinality(s) <= 0
    <3>1. Cardinality(s) \in Nat /\ (Cardinality(s) = 0 <=> s = {})
      BY <1>1
    <3>2. s = {}
      BY <3>1
    <3> QED
      BY <3>2
  <2> QED
    BY <2>1, <2>2
<1>3. ASSUME NEW n \in Nat, Good(n)
      PROVE  Good(n + 1)
  <2>1. PICK g \in [SUBSET S -> Int] : Upto(g, n)
    BY <1>3
  <2> DEFINE next(s) == IF s = {} THEN 0 ELSE f[Pick(s)] + g[s \ {Pick(s)}]
             h == [s \in SUBSET S |-> IF Cardinality(s) <= n THEN g[s] ELSE next(s)]
  <2>2. \A s \in SUBSET S : next(s) \in Int
    <3> TAKE s \in SUBSET S
    <3>1. CASE s = {}
      BY <3>1
    <3>2. CASE s # {}
      <4>1. f[Pick(s)] \in Int /\ s \ {Pick(s)} \in SUBSET S
        BY <1>1, <3>2
      <4>2. g[s \ {Pick(s)}] \in Int
        BY <4>1
      <4> QED
        BY <3>2, <4>1, <4>2
    <3> QED
      BY <3>1, <3>2
  <2>3. h \in [SUBSET S -> Int]
    BY <2>2
  <2>4. \A s \in SUBSET S : Cardinality(s) <= n + 1 => h[s] = next(s)
    BY <1>1, <2>1
  <2>5. \A s \in SUBSET S : Cardinality(s) <= n + 1 /\ s # {} =>
            h[s \ {Pick(s)}] = g[s \ {Pick(s)}]
    <3> TAKE s \in SUBSET S
    <3> HAVE Cardinality(s) <= n + 1 /\ s # {}
    <3> DEFINE r == s \ {Pick(s)}
    <3>1. r \in SUBSET S /\ Cardinality(r) = Cardinality(s) - 1 /\ Cardinality(s) \in Nat
      BY <1>1
    <3>2. Cardinality(r) <= n
      <4> HIDE DEF r
      <4> QED
        BY <3>1
    <3> HIDE DEF r
    <3>3. h[r] = g[r]
      BY <3>1, <3>2
    <3> QED
      BY <3>3 DEF r
  <2>6. Upto(h, n + 1)
    <3> HIDE DEF h
    <3> QED
      BY <2>4, <2>5
  <2> HIDE DEF h
  <2> QED
    BY <2>3, <2>6
<1>4. Bad = {}
  <2> SUFFICES ASSUME Bad # {}
               PROVE  FALSE
    OBVIOUS
  <2>1. PICK n \in Bad : \A m \in Bad : n <= m
    <3>1. Bad \subseteq Nat
      OBVIOUS
    <3> HIDE DEF Bad
    <3> QED
      BY <3>1, LeastNat
  <2>2. n \in Nat /\ ~Good(n)
    BY <2>1
  <2> HIDE DEF Good
  <2>3. n # 0
    BY <1>2, <2>2
  <2>4. n - 1 \in Nat /\ (n - 1) + 1 = n
    BY <2>2, <2>3
  <2>5. Good(n - 1)
    BY <2>1, <2>2, <2>4
  <2> QED
    BY <1>3, <2>2, <2>4, <2>5
<1>5. Good(Cardinality(S))
  <2>1. Cardinality(S) \in Nat
    BY FS_CardinalityType
  <2> HIDE DEF Good
  <2> QED
    BY <1>4, <2>1
<1>6. PICK g \in [SUBSET S -> Int] : Upto(g, Cardinality(S))
  BY <1>5
<1>7. \A s \in SUBSET S : g[s] = IF s = {} THEN 0 ELSE f[Pick(s)] + g[s \ {Pick(s)}]
  BY <1>1, <1>6
<1>8. IsSum(g, f, S)
  BY <1>7 DEF IsSum
<1> QED
  BY <1>8

(* SumFunctionOnSet computes it.                                           *)
LEMMA SumIs ==
    ASSUME NEW S, IsFiniteSet(S), NEW f \in [S -> Int]
    PROVE  \E g : IsSum(g, f, S) /\ SumFunctionOnSet(f, S) = g[S]
<1> DEFINE g == CHOOSE iter : IsSum(iter, f, S)
<1>1. SumFunctionOnSet(f, S) = g[S]
  BY DEF SumFunctionOnSet, FoldFunctionOnSet, MapThenFoldSet, IsSum, Pick
<1>2. IsSum(g, f, S)
  BY SumExists
<1> QED
  BY <1>1, <1>2

(* The sum does not depend on the element one starts from.                 *)
LEMMA SumAny ==
    ASSUME NEW S, IsFiniteSet(S), NEW f \in [S -> Int], NEW g, IsSum(g, f, S)
    PROVE  SumsUp(g, f, S)
<1> DEFINE Good(s) == g[s] \in Int /\ \A y \in s : g[s] = f[y] + g[s \ {y}]
           Bad == {s \in SUBSET S : ~Good(s)}
<1>1. \A s \in SUBSET S :
          /\ Cardinality(s) \in Nat
          /\ s # {} => Pick(s) \in s
          /\ \A x \in s : s \ {x} \in SUBSET S /\ Cardinality(s \ {x}) = Cardinality(s) - 1
                          /\ f[x] \in Int
          /\ g[s] = IF s = {} THEN 0 ELSE f[Pick(s)] + g[s \ {Pick(s)}]
  BY SubsetSize DEF IsSum
<1> SUFFICES ASSUME Bad # {}
             PROVE  FALSE
  BY DEF SumsUp
<1>2. PICK s \in Bad : \A t \in Bad : Cardinality(s) <= Cardinality(t)
  <2>1. Bad \subseteq SUBSET S
    OBVIOUS
  <2> HIDE DEF Bad
  <2> QED
    BY <2>1, SmallestSubset
<1>3. s \in SUBSET S /\ ~Good(s)
  BY <1>2
<1>4. s # {}
  <2>1. {} \in SUBSET S
    OBVIOUS
  <2>2. g[{}] = 0
    BY <1>1, <2>1
  <2> SUFFICES ASSUME s = {}
               PROVE  FALSE
    OBVIOUS
  <2>3. g[s] \in Int
    BY <2>2
  <2> HIDE DEF Bad
  <2> QED
    BY <1>3, <2>3
<1>5. \A t \in SUBSET S : Cardinality(t) < Cardinality(s) => Good(t)
  <2> TAKE t \in SUBSET S
  <2> HAVE Cardinality(t) < Cardinality(s)
  <2>1. t \notin Bad
    <3>1. Cardinality(t) \in Nat /\ Cardinality(s) \in Nat
      BY <1>1, <1>3
    <3> HIDE DEF Bad
    <3> QED
      BY <1>2, <3>1
  <2> QED
    BY <2>1
<1> DEFINE x == Pick(s)
<1>6. x \in s /\ f[x] \in Int /\ s \ {x} \in SUBSET S /\ g[s] = f[x] + g[s \ {x}]
      /\ Cardinality(s \ {x}) = Cardinality(s) - 1 /\ Cardinality(s) \in Nat
  BY <1>1, <1>3, <1>4
<1> HIDE DEF x, Bad
<1>7. Good(s \ {x})
  <2>1. Cardinality(s \ {x}) < Cardinality(s)
    BY <1>6
  <2> QED
    BY <1>5, <1>6, <2>1
<1>8. g[s] \in Int
  BY <1>6, <1>7
<1>9. ASSUME NEW y \in s
      PROVE  g[s] = f[y] + g[s \ {y}]
  <2>1. CASE y = x
    BY <1>6, <2>1
  <2>2. CASE y # x
    <3> DEFINE r == (s \ {x}) \ {y}
    <3>1. g[s \ {x}] = f[y] + g[r]
      BY <1>7, <2>2
    <3>2. s \ {y} \in SUBSET S /\ Cardinality(s \ {y}) < Cardinality(s) /\ f[y] \in Int
      <4>1. s \ {y} \in SUBSET S /\ f[y] \in Int
        BY <1>1, <1>3
      <4>2. Cardinality(s \ {y}) = Cardinality(s) - 1
        BY <1>1, <1>3
      <4> QED
        BY <1>6, <4>1, <4>2
    <3>3. Good(s \ {y})
      BY <1>5, <3>2
    <3>4. (s \ {y}) \ {x} = r /\ x \in s \ {y}
      BY <1>6, <2>2
    <3>5. g[s \ {y}] = f[x] + g[r]
      <4> HIDE DEF r
      <4> QED
        BY <3>3, <3>4
    <3>6. g[r] \in Int
      <4>1. r \in SUBSET S /\ Cardinality(r) = Cardinality(s \ {x}) - 1
        BY <1>1, <1>6, <2>2
      <4>2. Cardinality(r) < Cardinality(s)
        BY <1>6, <4>1
      <4> HIDE DEF r
      <4> QED
        BY <1>5, <4>1, <4>2
    <3> HIDE DEF r
    <3> QED
      BY <1>6, <3>1, <3>2, <3>5, <3>6
  <2> QED
    BY <2>1, <2>2
<1> QED
  BY <1>3, <1>8, <1>9

(* Two functions that agree have the same sum.                             *)
LEMMA SumAgree ==
    ASSUME NEW S, IsFiniteSet(S), NEW f \in [S -> Int], NEW e \in [S -> Int],
           NEW g, IsSum(g, f, S), NEW h, IsSum(h, e, S),
           NEW T \in SUBSET S, \A x \in T : e[x] = f[x]
    PROVE  g[T] = h[T]
<1> DEFINE Bad == {s \in SUBSET T : g[s] # h[s]}
<1>1. \A s \in SUBSET S :
          /\ Cardinality(s) \in Nat
          /\ s # {} => Pick(s) \in s
          /\ \A x \in s : s \ {x} \in SUBSET S /\ Cardinality(s \ {x}) = Cardinality(s) - 1
          /\ g[s] = IF s = {} THEN 0 ELSE f[Pick(s)] + g[s \ {Pick(s)}]
          /\ h[s] = IF s = {} THEN 0 ELSE e[Pick(s)] + h[s \ {Pick(s)}]
  BY SubsetSize DEF IsSum
<1> SUFFICES ASSUME Bad # {}
             PROVE  FALSE
  OBVIOUS
<1>2. PICK s \in Bad : \A t \in Bad : Cardinality(s) <= Cardinality(t)
  <2>1. Bad \subseteq SUBSET S
    OBVIOUS
  <2> HIDE DEF Bad
  <2> QED
    BY <2>1, SmallestSubset
<1>3. s \in SUBSET S /\ s \in SUBSET T /\ g[s] # h[s]
  BY <1>2
<1>4. s # {}
  BY <1>1, <1>3
<1> DEFINE x == Pick(s)
<1>5. x \in s /\ s \ {x} \in SUBSET S /\ Cardinality(s \ {x}) = Cardinality(s) - 1
      /\ Cardinality(s) \in Nat
      /\ g[s] = f[x] + g[s \ {x}] /\ h[s] = e[x] + h[s \ {x}]
  BY <1>1, <1>3, <1>4
<1> HIDE DEF x
<1>6. s \ {x} \notin Bad
  <2> HIDE DEF Bad
  <2>1. ~(Cardinality(s) <= Cardinality(s \ {x}))
    BY <1>5
  <2> QED
    BY <1>2, <2>1
<1>7. g[s \ {x}] = h[s \ {x}]
  BY <1>3, <1>6
<1>8. f[x] = e[x]
  BY <1>3, <1>5
<1> QED
  BY <1>3, <1>5, <1>7, <1>8

(* A sum is a number, and changes by what one of its terms changes.        *)
LEMMA SumUpdate ==
    ASSUME NEW S, IsFiniteSet(S), NEW f \in [S -> Int], NEW e \in [S -> Int],
           NEW y \in S, \A x \in S \ {y} : e[x] = f[x]
    PROVE  /\ SumFunctionOnSet(f, S) \in Int
           /\ SumFunctionOnSet(e, S) = SumFunctionOnSet(f, S) - f[y] + e[y]
<1>1. PICK g : IsSum(g, f, S) /\ SumFunctionOnSet(f, S) = g[S]
  BY SumIs
<1>2. PICK h : IsSum(h, e, S) /\ SumFunctionOnSet(e, S) = h[S]
  BY SumIs
<1>3. g[S] \in Int /\ g[S] = f[y] + g[S \ {y}] /\ g[S \ {y}] \in Int
  <2>1. S \in SUBSET S /\ S \ {y} \in SUBSET S
    OBVIOUS
  <2>2. SumsUp(g, f, S)
    BY <1>1, SumAny
  <2> QED
    BY <2>1, <2>2 DEF SumsUp
<1>4. h[S] = e[y] + h[S \ {y}]
  <2>1. S \in SUBSET S
    OBVIOUS
  <2>2. SumsUp(h, e, S)
    BY <1>2, SumAny
  <2> QED
    BY <2>1, <2>2 DEF SumsUp
<1>5. g[S \ {y}] = h[S \ {y}]
  BY <1>1, <1>2, SumAgree
<1>6. f[y] \in Int /\ e[y] \in Int
  OBVIOUS
<1> QED
  BY <1>1, <1>2, <1>3, <1>4, <1>5, <1>6

(* A sum of zeros is zero.                                                 *)
LEMMA SumZero ==
    ASSUME NEW S, IsFiniteSet(S), NEW f \in [S -> Int], \A x \in S : f[x] = 0
    PROVE  SumFunctionOnSet(f, S) = 0
<1>1. PICK g : IsSum(g, f, S) /\ SumFunctionOnSet(f, S) = g[S]
  BY SumIs
<1> DEFINE z == [s \in SUBSET S |-> 0]
<1>2. IsSum(z, f, S)
  <2>1. \A s \in SUBSET S : s # {} => Pick(s) \in S /\ s \ {Pick(s)} \in SUBSET S
    BY SubsetSize
  <2>2. \A s \in SUBSET S : 0 = IF s = {} THEN 0 ELSE f[Pick(s)] + z[s \ {Pick(s)}]
    BY <2>1
  <2> QED
    BY <2>2 DEF IsSum
<1>3. g[S] = z[S]
  <2>1. S \in SUBSET S
    OBVIOUS
  <2> HIDE DEF z
  <2> QED
    BY <1>1, <1>2, <2>1, SumAgree
<1> QED
  BY <1>1, <1>3


-----------------------------------------------------------------------------
(* Only the mutator the module was loaded with is under way, and the cpus  *)
(* awake are those that have not slept.                                    *)
ModeInv ==
    /\ stage # "idle" => method = "delta"
    /\ stage_dyn # "idle" => method = "dynamic"

SetsInv ==
    /\ awake \subseteq CPUs /\ used \subseteq CPUs
    /\ sleep_time \in [CPUs -> Nat]
    /\ AwakeIffNoSleep

CoreInv == ModeInv /\ SetsInv

(* The cpus wake_up_procs wakes slept, and are cpus.                       *)
LEMMA WokenAsleep ==
    ASSUME NEW req
    PROVE  \A c \in Woken(req) : c \in CPUs /\ sleep_time[c] > 0
BY DEF Woken

(* Only awake cpus are retired.                                            *)
LEMMA RetiredAwake ==
    ASSUME NEW up, NEW req, NEW busy
    PROVE  Retired(up, req, busy) \subseteq up
BY DEF Retired

(* greedy_delta keeps the two in step: it wakes a cpu and clears its       *)
(* sleep_time, and adds to the sleep_time of the cpus it does not use.     *)
LEMMA NextCore ==
    ASSUME SetsInv, Next
    PROVE  SetsInv'
<1> USE GreedyDeltaAssumption
<1>1. ASSUME NEW hints, NEW again, NEW l, Begin(hints, again, l)
      PROVE  SetsInv'
  <2>1. /\ awake' = awake \cup Woken(load') /\ used' = {}
        /\ sleep_time' = [c \in CPUs |-> IF c \in Woken(load') THEN 0 ELSE sleep_time[c]]
    BY <1>1 DEF Begin
  <2>2. \A c \in Woken(load') : c \in CPUs
    BY WokenAsleep
  <2> QED
    BY <2>1, <2>2 DEF SetsInv, AwakeIffNoSleep
<1>2. ASSUME NEW row, Auction(row)
      PROVE  SetsInv'
  <2>1. PICK win \in Winners(row) : used' = used \cup {win[2]}
    BY <1>2 DEF Auction
  <2>2. win[2] \in CPUs
    BY <2>1 DEF Winners
  <2>3. awake' = awake /\ sleep_time' = sleep_time
    BY <1>2 DEF Auction, persistent
  <2> QED
    BY <2>1, <2>2, <2>3 DEF SetsInv, AwakeIffNoSleep
<1>3. ASSUME NEW row, AuctionEnd(row)
      PROVE  SetsInv'
  BY <1>3 DEF AuctionEnd, persistent, auction, SetsInv, AwakeIffNoSleep
<1>4. ASSUME Publish
      PROVE  SetsInv'
  <2>1. used' = (IF used \cup Filler = {} THEN {0} ELSE used \cup Filler)
    BY <1>4 DEF Publish
  <2>2. Filler \subseteq CPUs /\ 0 \in CPUs
    BY DEF Filler, CPUs
  <2>3. awake' = awake /\ sleep_time' = sleep_time
    BY <1>4 DEF Publish
  <2>4. used' \subseteq CPUs
    BY <2>1, <2>2 DEF SetsInv
  <2> QED
    BY <2>3, <2>4 DEF SetsInv, AwakeIffNoSleep
<1>5. ASSUME Apply
      PROVE  SetsInv'
  <2>1. /\ awake' = used /\ used' = used
        /\ sleep_time' = [c \in CPUs |-> IF c \in used THEN 0
                                         ELSE IF c \in awake \ used THEN 1
                                         ELSE sleep_time[c] + 1]
    BY <1>5 DEF Apply, auction
  <2>2. sleep_time' \in [CPUs -> Nat]
    BY <2>1 DEF SetsInv
  <2>3. AwakeIffNoSleep'
    BY <2>1 DEF SetsInv, AwakeIffNoSleep
  <2> QED
    BY <2>1, <2>2, <2>3 DEF SetsInv
<1>6. ASSUME Return
      PROVE  SetsInv'
  BY <1>6 DEF Return, persistent, SetsInv, AwakeIffNoSleep
<1> QED
  BY <1>1, <1>2, <1>3, <1>4, <1>5, <1>6 DEF Next

(* mem_dynamic_prog does so too.                                           *)
LEMMA DynNextCore ==
    ASSUME CoreInv, [DynNext]_dyn_vars
    PROVE  CoreInv'
<1>1. CASE UNCHANGED dyn_vars
  BY <1>1 DEF dyn_vars, vars, persistent, auction, CoreInv, ModeInv, SetsInv, AwakeIffNoSleep
<1>2. CASE method = "delta" /\ Next /\ UNCHANGED <<method, stage_dyn, statics, scratch>>
  <2>1. SetsInv'
    BY <1>2, NextCore DEF CoreInv
  <2>2. ModeInv'
    BY <1>2 DEF CoreInv, ModeInv
  <2> QED
    BY <2>1, <2>2 DEF CoreInv
<1>3. ASSUME NEW hints, NEW l, NEW busy, DynBegin(hints, l, busy)
      PROVE  CoreInv'
  <2> DEFINE req == IF l = 0 THEN 1 ELSE l
             up == awake \cup Woken(req)
             off == Retired(up, req, busy)
  <2>1. /\ awake' = up \ off
        /\ sleep_time' = [c \in CPUs |-> IF c \in off THEN 1
                                         ELSE IF c \in Woken(req) THEN 0 ELSE sleep_time[c]]
        /\ used' = used /\ stage' = stage /\ method' = method /\ method = "dynamic"
    BY <1>3 DEF DynBegin, auction
  <2> HIDE DEF req
  <2>2. Woken(req) \subseteq CPUs
    BY WokenAsleep
  <2>3. off \subseteq up
    BY RetiredAwake
  <2> HIDE DEF off
  <2>4. SetsInv'
    BY <2>1, <2>2, <2>3 DEF CoreInv, SetsInv, AwakeIffNoSleep
  <2>5. ModeInv'
    BY <2>1 DEF CoreInv, ModeInv
  <2> QED
    BY <2>4, <2>5 DEF CoreInv
<1>4. CASE MckRow
  BY <1>4 DEF MckRow, vars, persistent, auction, CoreInv, ModeInv, SetsInv, AwakeIffNoSleep
<1>5. CASE DynPublish
  BY <1>5 DEF DynPublish, auction, CoreInv, ModeInv, SetsInv, AwakeIffNoSleep
<1>6. CASE DynApply
  <2>1. /\ awake' = awake /\ used' = used /\ stage' = stage /\ method' = method
        /\ stage_dyn' = "idle"
        /\ sleep_time' = [c \in CPUs |-> IF c \in awake THEN sleep_time[c]
                                         ELSE sleep_time[c] + 1]
    BY <1>6 DEF DynApply, auction
  <2>2. SetsInv'
    BY <2>1 DEF CoreInv, SetsInv, AwakeIffNoSleep
  <2> QED
    BY <2>1, <2>2 DEF CoreInv, ModeInv
<1> QED
  BY <1>1, <1>2, <1>3, <1>4, <1>5, <1>6 DEF DynNext

(* All cpus are awake when the module is loaded.                           *)
LEMMA InitCore ==
    ASSUME DynInit
    PROVE  CoreInv
BY DEF DynInit, Init, CoreInv, ModeInv, SetsInv, AwakeIffNoSleep

(* A cpu is awake exactly if its sleep_time is 0, whichever mutator runs   *)
(* and however its intervals wake, retire and use the cpus.                *)
THEOREM AwakeNeverSlept == DynSpec => []AwakeIffNoSleep
<1>1. CoreInv => AwakeIffNoSleep
  BY DEF CoreInv, SetsInv
<1> QED
  BY InitCore, DynNextCore, <1>1, PTL DEF DynSpec

-----------------------------------------------------------------------------
(* A sleeping cpu is in the lowest state, or marked to be brought there by *)
(* the interval under way.                                                 *)
SlowInv ==
    \A c \in CPUs \ awake :
        \/ cur_cpu_state[c] = 0
        \/ stage_dyn \in {"mck", "apply"} /\ c \in put_to_sleep

(* A cpu is retired only with a mark: when retire_procs returns early it   *)
(* retires none.                                                           *)
LEMMA RetiredMarked ==
    ASSUME NEW up, IsFiniteSet(up), NEW req \in Nat, NEW busy
    PROVE  /\ Retired(up, req, busy) \subseteq Marked(up, req, busy)
           /\ Cardinality(up) <= req => Marked(up, req, busy) = put_to_sleep
           /\ Retired(up, req, busy) # {} => Cardinality(up) > req
<1> DEFINE gone == Retired(up, req, busy)
<1>1. gone # {} => Cardinality(up) > req
  <2> SUFFICES ASSUME NEW c \in gone
               PROVE  Cardinality(up) > req
    OBVIOUS
  <2> DEFINE low == {d \in up \ busy : d < c}
  <2>1. Cardinality(low) < Cardinality(up) - req
    BY DEF Retired
  <2>2. IsFiniteSet(low)
    <3>1. low \subseteq up
      OBVIOUS
    <3> HIDE DEF low
    <3> QED
      BY <3>1, FS_Subset
  <2>3. Cardinality(low) \in Nat /\ Cardinality(up) \in Nat
    <3> HIDE DEF low
    <3> QED
      BY <2>2, FS_CardinalityType
  <2> HIDE DEF low
  <2> QED
    BY <2>1, <2>3
<1>2. Cardinality(up) <= req => Marked(up, req, busy) = put_to_sleep
  BY DEF Marked
<1>3. Cardinality(up) \in Nat
  BY FS_CardinalityType
<1>4. Cardinality(up) > req => gone \subseteq Marked(up, req, busy)
  <2> HIDE DEF gone
  <2> QED
    BY <1>3 DEF Marked, gone
<1> HIDE DEF gone
<1> QED
  BY <1>1, <1>2, <1>4 DEF gone

(* The cpus are finitely many.                                             *)
LEMMA CpusFinite ==
    IsFiniteSet(CPUs) /\ Cardinality(CPUs) = NCpu
<1>1. NCpu \in Nat \ {0}
  BY GreedyDeltaAssumption
<1> QED
  BY <1>1, FS_Interval DEF CPUs

(* Every step of a mutator leaves the sleeping cpus slow, or marked.       *)
LEMMA DynNextSlow ==
    ASSUME CoreInv, SlowInv, [DynNext]_dyn_vars
    PROVE  SlowInv'
<1>1. CASE UNCHANGED dyn_vars
  BY <1>1 DEF dyn_vars, vars, persistent, statics, SlowInv
<1>2. CASE method = "delta" /\ Next /\ UNCHANGED <<method, stage_dyn, statics, scratch>>
  <2>0. put_to_sleep' = put_to_sleep /\ stage_dyn' = stage_dyn
    BY <1>2 DEF statics
  <2>1. ASSUME NEW hints, NEW again, NEW l, Begin(hints, again, l)
        PROVE  SlowInv'
    <3>1. awake' = awake \cup Woken(load') /\ cur_cpu_state' = cur_cpu_state
      BY <2>1 DEF Begin
    <3> QED
      BY <2>0, <3>1 DEF SlowInv
  <2>2. ASSUME NEW row, Auction(row) \/ AuctionEnd(row)
        PROVE  SlowInv'
    <3>1. awake' = awake /\ cur_cpu_state' = cur_cpu_state
      BY <2>2 DEF Auction, AuctionEnd, persistent
    <3> QED
      BY <2>0, <3>1 DEF SlowInv
  <2>3. ASSUME Publish \/ Return
        PROVE  SlowInv'
    <3>1. awake' = awake /\ cur_cpu_state' = cur_cpu_state
      BY <2>3 DEF Publish, Return, persistent
    <3> QED
      BY <2>0, <3>1 DEF SlowInv
  <2>4. ASSUME Apply
        PROVE  SlowInv'
    <3>1. /\ awake' = used
          /\ cur_cpu_state' = [c \in CPUs |-> IF c \in used THEN new_cpu_state[c]
                                              ELSE IF c \in awake \ used THEN 0
                                              ELSE cur_cpu_state[c]]
      BY <2>4 DEF Apply
    <3> QED
      BY <2>0, <3>1 DEF SlowInv
  <2> QED
    BY <1>2, <2>1, <2>2, <2>3, <2>4 DEF Next
<1>3. ASSUME NEW hints, NEW l \in 0 .. NCpu, NEW busy, DynBegin(hints, l, busy)
      PROVE  SlowInv'
  <2> DEFINE req == IF l = 0 THEN 1 ELSE l
             up == awake \cup Woken(req)
             off == Retired(up, req, busy)
  <2>1. /\ awake' = up \ off /\ put_to_sleep' = Marked(up, req, busy)
        /\ cur_cpu_state' = cur_cpu_state /\ stage_dyn' = "mck" /\ stage_dyn = "idle"
    BY <1>3 DEF DynBegin
  <2>2. req \in Nat
    BY GreedyDeltaAssumption
  <2>3. IsFiniteSet(up)
    <3>1. up \subseteq CPUs
      BY WokenAsleep DEF CoreInv, SetsInv
    <3> HIDE DEF up
    <3> QED
      BY <3>1, CpusFinite, FS_Subset
  <2> HIDE DEF req, up
  <2>4. off \subseteq Marked(up, req, busy)
    BY <2>2, <2>3, RetiredMarked
  <2> HIDE DEF off
  <2>5. \A c \in CPUs \ awake : cur_cpu_state[c] = 0
    BY <2>1 DEF SlowInv
  <2> QED
    BY <2>1, <2>4, <2>5 DEF SlowInv, up
<1>4. CASE MckRow
  BY <1>4 DEF MckRow, vars, persistent, statics, SlowInv
<1>5. CASE DynPublish
  BY <1>5 DEF DynPublish, SlowInv
<1>6. CASE DynApply
  <2>1. /\ awake' = awake
        /\ cur_cpu_state' = [c \in CPUs |-> IF c \in awake THEN chosen[c]
                                            ELSE IF c \in put_to_sleep THEN 0
                                            ELSE cur_cpu_state[c]]
    BY <1>6 DEF DynApply
  <2> QED
    BY <2>1 DEF SlowInv
<1> QED
  BY <1>1, <1>2, <1>3, <1>4, <1>5, <1>6 DEF DynNext

(* Between intervals every sleeping cpu is in the lowest state: a flag of  *)
(* put_to_sleep left by an earlier interval never keeps set_freq from one. *)
THEOREM SleepersAreSlow == DynSpec => []SleepersSlow
<1>1. DynInit => SlowInv
  BY DEF DynInit, Init, SlowInv
<1>2. SlowInv => SleepersSlow
  BY DEF SlowInv, SleepersSlow
<1> QED
  BY <1>1, <1>2, InitCore, DynNextCore, DynNextSlow, PTL DEF DynSpec

-----------------------------------------------------------------------------
(* The elements with fewer than k elements before them, B[c] being the     *)
(* elements before c.                                                      *)
First(S, B, k) == {c \in S : Cardinality(B[c]) < k}

(* B orders S.                                                             *)
Orders(B, S) ==
    /\ B \in [S -> SUBSET S]
    /\ \A c \in S : c \notin B[c]
    /\ \A c, d \in S : c # d => d \in B[c] \/ c \in B[d]
    /\ \A c, d \in S : d \in B[c] => B[d] \subseteq B[c]

(* In a finite ordered set the numbers of elements before the elements are *)
(* 0, 1, 2, ... and each occurs once.                                      *)
LEMMA Ranks ==
    ASSUME NEW S, IsFiniteSet(S), NEW B, Orders(B, S)
    PROVE  /\ Cardinality(S) \in Nat
           /\ [c \in S |-> Cardinality(B[c])] \in Bijection(S, 0 .. Cardinality(S) - 1)
<1> DEFINE n == Cardinality(S)
           T == 0 .. n - 1
           r == [c \in S |-> Cardinality(B[c])]
<1>1. n \in Nat
  BY FS_CardinalityType
<1>2. \A c \in S : B[c] \in SUBSET S /\ IsFiniteSet(B[c]) /\ Cardinality(B[c]) \in Nat
  BY FS_Subset, FS_CardinalityType DEF Orders
<1>3. \A c \in S : Cardinality(B[c]) < n
  <2> TAKE c \in S
  <2>1. B[c] \in SUBSET (S \ {c})
    BY DEF Orders
  <2>2. IsFiniteSet(S \ {c}) /\ Cardinality(S \ {c}) = n - 1
    BY FS_RemoveElement
  <2>3. Cardinality(B[c]) <= Cardinality(S \ {c})
    BY <2>1, <2>2, FS_Subset
  <2> HIDE DEF n
  <2> QED
    BY <1>1, <1>2, <2>2, <2>3
<1>4. \A c, d \in S : d \in B[c] => Cardinality(B[d]) # Cardinality(B[c])
  <2> TAKE c, d \in S
  <2> HAVE d \in B[c]
  <2>1. B[d] \in SUBSET B[c] /\ B[d] # B[c]
    BY DEF Orders
  <2> QED
    BY <1>2, <2>1, FS_Subset
<1>5. r \in [S -> T]
  <2> HIDE DEF n
  <2> QED
    BY <1>1, <1>2, <1>3
<1>6. \A c, d \in S : r[c] = r[d] => c = d
  BY <1>4 DEF Orders
<1>7. r \in Injection(S, T)
  <2> HIDE DEF r, T
  <2> QED
    BY <1>5, <1>6 DEF Injection, IsInjective
<1>8. IsFiniteSet(T) /\ Cardinality(T) = n
  <2> HIDE DEF n
  <2> QED
    BY <1>1, FS_Interval
<1>9. r \in Surjection(S, T)
  <2> HIDE DEF r, T
  <2> QED
    BY <1>7, <1>8, FS_Injection
<1> HIDE DEF r, T
<1>10. r \in Bijection(S, T)
  BY <1>7, <1>9 DEF Bijection
<1> QED
  BY <1>1, <1>10 DEF r, T

(* The first k of at least k elements are k.                               *)
LEMMA FirstSize ==
    ASSUME NEW S, IsFiniteSet(S), NEW B, Orders(B, S), NEW k \in 0 .. Cardinality(S)
    PROVE  IsFiniteSet(First(S, B, k)) /\ Cardinality(First(S, B, k)) = k
<1> DEFINE n == Cardinality(S)
           r == [c \in S |-> Cardinality(B[c])]
           F == First(S, B, k)
           q == [c \in F |-> r[c]]
<1>1. n \in Nat /\ r \in Bijection(S, 0 .. n - 1)
  BY Ranks
<1>2. F \subseteq S /\ \A c \in S : c \in F <=> r[c] < k
  BY DEF First
<1> HIDE DEF r, F
<1>3. /\ r \in [S -> 0 .. n - 1]
      /\ \A c, d \in S : r[c] = r[d] => c = d
      /\ \A i \in 0 .. n - 1 : \E c \in S : r[c] = i
  BY <1>1 DEF Bijection, Injection, Surjection, IsInjective
<1>4. k \in Nat /\ k <= n
  BY <1>1
<1>5. q \in [F -> 0 .. k - 1]
  <2>1. \A c \in F : r[c] \in 0 .. k - 1
    <3> TAKE c \in F
    <3>1. r[c] \in 0 .. n - 1 /\ r[c] < k
      BY <1>2, <1>3
    <3> HIDE DEF n
    <3> QED
      BY <1>1, <1>4, <3>1
  <2> QED
    BY <2>1
<1>6. \A c, d \in F : q[c] = q[d] => c = d
  BY <1>2, <1>3
<1>7. \A i \in 0 .. k - 1 : \E c \in F : q[c] = i
  <2> TAKE i \in 0 .. k - 1
  <2>1. i \in 0 .. n - 1 /\ i < k
    <3> HIDE DEF n
    <3> QED
      BY <1>1, <1>4
  <2>2. PICK c \in S : r[c] = i
    BY <1>3, <2>1
  <2> QED
    BY <1>2, <2>1, <2>2
<1> HIDE DEF q
<1>8. q \in Bijection(F, 0 .. k - 1)
  BY <1>5, <1>6, <1>7 DEF Bijection, Injection, Surjection, IsInjective
<1>9. IsFiniteSet(0 .. k - 1) /\ Cardinality(0 .. k - 1) = k
  BY <1>4, FS_Interval
<1>10. ExistsBijection(F, 0 .. k - 1)
  BY <1>8 DEF ExistsBijection
<1>11. IsFiniteSet(F)
  BY <1>2, FS_Subset
<1> QED
  BY <1>9, <1>10, <1>11, FS_Bijection DEF F

(* Of finitely many values one is the largest.                             *)
LEMMA ArgMax ==
    ASSUME NEW S, IsFiniteSet(S), S # {}, NEW v, \A x \in S : v[x] \in Int
    PROVE  \E x \in S : \A y \in S : v[y] <= v[x]
<1> DEFINE Top(t) == \E x \in t : \A y \in t : v[y] <= v[x]
           Bad == {t \in SUBSET S : t # {} /\ ~Top(t)}
<1>1. Bad = {}
  <2> SUFFICES ASSUME Bad # {}
               PROVE  FALSE
    OBVIOUS
  <2>1. PICK t \in Bad : \A u \in Bad : Cardinality(t) <= Cardinality(u)
    <3>1. Bad \subseteq SUBSET S
      OBVIOUS
    <3> HIDE DEF Bad
    <3> QED
      BY <3>1, SmallestSubset
  <2>2. t \in SUBSET S /\ t # {} /\ ~Top(t)
    BY <2>1
  <2>3. PICK x \in t : TRUE
    BY <2>2
  <2> DEFINE u == t \ {x}
  <2>4. u \in SUBSET S /\ Cardinality(u) = Cardinality(t) - 1 /\ Cardinality(t) \in Nat
    BY <2>2, SubsetSize
  <2>5. u \notin Bad
    <3>1. ~(Cardinality(t) <= Cardinality(u))
      <4> HIDE DEF u
      <4> QED
        BY <2>4
    <3> HIDE DEF Bad, u
    <3> QED
      BY <2>1, <3>1
  <2>6. CASE u = {}
    <3>1. t = {x}
      BY <2>6
    <3> QED
      BY <2>2, <3>1
  <2>7. CASE u # {}
    <3>1. PICK z \in u : \A y \in u : v[y] <= v[z]
      <4>1. Top(u)
        BY <2>4, <2>5, <2>7
      <4> QED
        BY <4>1
    <3>2. v[x] \in Int /\ \A y \in u : v[y] \in Int
      BY <2>2
    <3>3. CASE v[z] <= v[x]
      <4>1. \A y \in t : v[y] <= v[x]
        BY <3>1, <3>2, <3>3
      <4> QED
        BY <2>2, <4>1
    <3>4. CASE v[x] <= v[z]
      <4>1. z \in t /\ \A y \in t : v[y] <= v[z]
        BY <3>1, <3>2, <3>4
      <4> QED
        BY <2>2, <4>1
    <3> QED
      BY <3>1, <3>2, <3>3, <3>4
  <2> QED
    BY <2>6, <2>7
<1>2. Top(S)
  BY <1>1
<1> QED
  BY <1>2

(* The minimum of a set of natural numbers is one of them.                 *)
LEMMA MinIn ==
    ASSUME NEW S, S \subseteq Nat, S # {}
    PROVE  Min(S) \in S /\ \A y \in S : Min(S) <= y
BY LeastNat DEF Min

-----------------------------------------------------------------------------
(* While the auction runs and until its outcome is published: the cpus won *)
(* are counted, no more than the load, enough cpus are awake for it, a cpu *)
(* not won keeps its state, and no more was paid than there was.           *)
AuctionInv ==
    /\ load \in 0 .. NCpu /\ delta \in Nat
    /\ Cardinality(used) = total_iter /\ total_iter <= load
    /\ load <= Cardinality(awake)
    /\ \A c \in CPUs \ used : new_cpu_state[c] = cur_cpu_state[c]

GreedyInv ==
    /\ method = "delta" => /\ cur_cpu_state \in [CPUs -> States]
                           /\ new_cpu_state \in [CPUs -> States]
    /\ stage \in {"auction", "publish"} => AuctionInv
    /\ WithinDelta
    /\ ProvidesLoad

(* Sets of cpus are finite.                                                *)
LEMMA CpuSets ==
    ASSUME NEW s \in SUBSET CPUs
    PROVE  /\ IsFiniteSet(s) /\ Cardinality(s) \in Nat /\ Cardinality(s) <= NCpu
           /\ s = {} <=> Cardinality(s) = 0
BY CpusFinite, FS_Subset, FS_CardinalityType, FS_EmptySet

(* wake_up_procs leaves enough cpus awake.                                 *)
LEMMA WokenEnough ==
    ASSUME SetsInv, NEW req \in 0 .. NCpu
    PROVE  /\ awake \cup Woken(req) \in SUBSET CPUs
           /\ req <= Cardinality(awake \cup Woken(req))
<1> DEFINE asleep == {c \in CPUs : sleep_time[c] > 0}
           before(c) == {d \in asleep : \/ sleep_time[d] < sleep_time[c]
                                        \/ sleep_time[d] = sleep_time[c] /\ d < c}
           B == [c \in asleep |-> before(c)]
           k == req - Cardinality(awake)
<1>1. awake \in SUBSET CPUs /\ awake \cup Woken(req) \in SUBSET CPUs
  BY WokenAsleep DEF SetsInv
<1>2. Cardinality(awake) \in Nat /\ IsFiniteSet(awake)
  BY <1>1, CpuSets
<1>3. CASE Cardinality(awake) >= req
  <2>1. Woken(req) = {}
    BY <1>3 DEF Woken
  <2>2. awake \cup Woken(req) = awake
    BY <2>1
  <2> QED
    BY <1>1, <1>2, <1>3, <2>2, GreedyDeltaAssumption
<1>4. CASE ~(Cardinality(awake) >= req)
  <2>1. asleep = CPUs \ awake
    <3>1. \A c \in CPUs : sleep_time[c] \in Nat /\ (c \in awake <=> sleep_time[c] = 0)
      BY DEF SetsInv, AwakeIffNoSleep
    <3> QED
      BY <3>1
  <2>2. Orders(B, asleep)
    <3>1. \A c \in asleep : c \in Int /\ sleep_time[c] \in Int
      BY DEF SetsInv, CPUs
    <3>2. B \in [asleep -> SUBSET asleep]
      OBVIOUS
    <3>3. \A c, d \in asleep : d \in B[c] <=> \/ sleep_time[d] < sleep_time[c]
                                              \/ sleep_time[d] = sleep_time[c] /\ d < c
      OBVIOUS
    <3> HIDE DEF B, asleep
    <3>4. \A c \in asleep : c \notin B[c]
      BY <3>1, <3>3
    <3>5. \A c, d \in asleep : c # d => d \in B[c] \/ c \in B[d]
      BY <3>1, <3>3
    <3>6. \A c, d, e \in asleep : d \in B[c] /\ e \in B[d] => e \in B[c]
      BY <3>1, <3>3
    <3>7. \A c, d \in asleep : d \in B[c] => B[d] \subseteq B[c]
      BY <3>2, <3>6
    <3> QED
      BY <3>2, <3>4, <3>5, <3>7 DEF Orders
  <2>3. Woken(req) = First(asleep, B, k)
    <3>1. Woken(req) = {c \in asleep : Cardinality(before(c)) < k}
      BY <1>4 DEF Woken
    <3> HIDE DEF before, asleep, k
    <3> QED
      BY <3>1 DEF First
  <2> HIDE DEF B, asleep
  <2>4. IsFiniteSet(asleep) /\ Cardinality(asleep) = NCpu - Cardinality(awake)
    <3>1. CPUs \cap awake = awake
      BY <1>1
    <3> QED
      BY <2>1, <3>1, CpusFinite, FS_Difference
  <2>5. k \in 0 .. Cardinality(asleep)
    BY <1>2, <1>4, <2>4, GreedyDeltaAssumption
  <2>6. IsFiniteSet(Woken(req)) /\ Cardinality(Woken(req)) = k
    <3> HIDE DEF k
    <3> QED
      BY <2>2, <2>3, <2>4, <2>5, FirstSize
  <2>7. awake \cap Woken(req) = {}
    <3>1. Woken(req) \subseteq asleep
      BY <2>3 DEF First
    <3> QED
      BY <2>1, <3>1
  <2>8. Cardinality(awake \cup Woken(req)) = Cardinality(awake) + Cardinality(Woken(req)) - 0
    <3> HIDE DEF k
    <3> QED
      BY <1>2, <2>6, <2>7, FS_Union, FS_EmptySet
  <2>9. Cardinality(awake \cup Woken(req)) = req
    BY <1>2, <2>6, <2>8, GreedyDeltaAssumption
  <2> QED
    BY <1>1, <2>9, GreedyDeltaAssumption
<1> QED
  BY <1>3, <1>4

(* Numbers order the cpus.                                                 *)
LEMMA NumbersOrder ==
    ASSUME NEW s \in SUBSET CPUs
    PROVE  Orders([c \in s |-> {d \in s : d < c}], s)
<1> DEFINE B == [c \in s |-> {d \in s : d < c}]
<1>1. \A c \in s : c \in Int
  BY DEF CPUs
<1>2. B \in [s -> SUBSET s] /\ \A c, d \in s : d \in B[c] <=> d < c
  OBVIOUS
<1> HIDE DEF B
<1>3. \A c \in s : c \notin B[c]
  BY <1>1, <1>2
<1>4. \A c, d \in s : c # d => d \in B[c] \/ c \in B[d]
  BY <1>1, <1>2
<1>5. \A c, d, e \in s : d \in B[c] /\ e \in B[d] => e \in B[c]
  BY <1>1, <1>2
<1>6. \A c, d \in s : d \in B[c] => B[d] \subseteq B[c]
  BY <1>2, <1>5
<1>7. Orders(B, s)
  BY <1>2, <1>3, <1>4, <1>6 DEF Orders
<1> QED
  BY <1>7 DEF B

(* The fill loop adds what the load still lacks, of the cpus awake and not *)
(* won.                                                                    *)
LEMMA FillerSize ==
    ASSUME SetsInv, AuctionInv
    PROVE  /\ Filler \in SUBSET (CPUs \ used)
           /\ Cardinality(used \cup Filler) = load
<1> DEFINE idle == {c \in CPUs \ used : sleep_time[c] = 0}
           B == [c \in idle |-> {d \in idle : d < c}]
           k == load - Cardinality(used)
<1>1. /\ awake \in SUBSET CPUs /\ used \in SUBSET CPUs /\ load \in 0 .. NCpu
      /\ Cardinality(used) <= load /\ load <= Cardinality(awake)
  BY DEF SetsInv, AuctionInv
<1>2. /\ Cardinality(used) \in Nat /\ IsFiniteSet(used)
      /\ Cardinality(awake) \in Nat /\ IsFiniteSet(awake)
  BY <1>1, CpuSets
<1>3. idle = awake \ used
  BY DEF SetsInv, AwakeIffNoSleep
<1>4. Filler = First(idle, B, k)
  <2>1. Filler = {c \in idle : Cardinality({d \in idle : d < c}) < k}
    BY DEF Filler
  <2> HIDE DEF idle, k
  <2> QED
    BY <2>1 DEF First
<1>5. Orders(B, idle)
  <2>1. idle \in SUBSET CPUs
    OBVIOUS
  <2> HIDE DEF idle
  <2> QED
    BY <2>1, NumbersOrder
<1>6. Filler \in SUBSET (CPUs \ used)
  BY DEF Filler
<1> HIDE DEF idle, B
<1>7. IsFiniteSet(idle) /\ Cardinality(idle) = Cardinality(awake) - Cardinality(awake \cap used)
  BY <1>2, <1>3, FS_Difference
<1>8. Cardinality(awake \cap used) \in Nat /\ Cardinality(awake \cap used) <= Cardinality(used)
  <2>1. awake \cap used \in SUBSET used
    OBVIOUS
  <2> QED
    BY <1>2, <2>1, FS_Subset, FS_CardinalityType
<1>9. k \in 0 .. Cardinality(idle)
  BY <1>1, <1>2, <1>7, <1>8, GreedyDeltaAssumption
<1>10. IsFiniteSet(Filler) /\ Cardinality(Filler) = k
  <2> HIDE DEF k
  <2> QED
    BY <1>4, <1>5, <1>7, <1>9, FirstSize
<1>11. used \cap Filler = {}
  BY <1>6
<1>12. Cardinality(used \cup Filler) = Cardinality(used) + k - 0
  BY <1>2, <1>10, <1>11, FS_Union, FS_EmptySet
<1>13. Cardinality(used \cup Filler) = load
  BY <1>1, <1>2, <1>12, GreedyDeltaAssumption
<1> QED
  BY <1>6, <1>13

(* Bids are numbers.                                                       *)
LEMMA Bids ==
    ASSUME new_cpu_state \in [CPUs -> States], delta \in Int,
           NEW c \in CPUs, NEW s \in States
    PROVE  state_matrix[c][s] \in Int
<1> DEFINE L == new_cpu_state[c]
<1>1. L \in Nat /\ s \in Nat /\ NState \in Nat
  BY GreedyDeltaAssumption DEF States
<1>2. Dist(s, L) \in Nat
  <2> HIDE DEF L
  <2> QED
    BY <1>1 DEF Dist
<1>3. \/ state_matrix[c][s] = 0
      \/ state_matrix[c][s] = 2 * NState
      \/ state_matrix[c][s] = 2 * NState - Dist(s, L)
      \/ state_matrix[c][s] = NState - Dist(s, L)
  BY DEF state_matrix
<1> HIDE DEF L
<1> QED
  BY <1>1, <1>2, <1>3

(* A cpu that wins a round was not used yet, and has bid for the state.    *)
LEMMA WinnerUnused ==
    ASSUME new_cpu_state \in [CPUs -> States], delta \in Int,
           NEW row, NEW win \in Winners(row)
    PROVE  win[1] \in States /\ win[2] \in CPUs \ used /\ state_matrix[win[2]][win[1]] > 0
<1>1. win[1] \in States /\ win[2] \in CPUs /\ win[2] = winning_procs[win[1]]
  BY DEF Winners
<1> DEFINE s == win[1]
           bidders == {c \in CPUs \ used : state_matrix[c][s] > 0}
           best == {c \in bidders : \A d \in bidders : state_matrix[d][s] <= state_matrix[c][s]}
<1>2. winning_procs[s] = IF bidders = {} THEN -1 ELSE Min(best)
  BY <1>1 DEF winning_procs
<1> HIDE DEF s
<1>3. CASE bidders = {}
  <2>1. win[2] = -1
    BY <1>1, <1>2, <1>3 DEF s
  <2> QED
    BY <1>1, <2>1 DEF CPUs
<1>4. CASE bidders # {}
  <2> DEFINE v == [c \in bidders |-> state_matrix[c][s]]
  <2>1. \A c \in bidders : v[c] \in Int
    BY <1>1, Bids DEF s
  <2>2. IsFiniteSet(bidders)
    <3>1. bidders \in SUBSET CPUs
      OBVIOUS
    <3> HIDE DEF bidders
    <3> QED
      BY <3>1, CpuSets
  <2>3. \E c \in bidders : \A d \in bidders : v[d] <= v[c]
    <3> HIDE DEF v, bidders
    <3> QED
      BY <1>4, <2>1, <2>2, ArgMax
  <2>4. best # {}
    BY <2>3
  <2>5. /\ best \subseteq CPUs \ used /\ best \subseteq Nat
        /\ \A c \in best : state_matrix[c][s] > 0
    BY DEF CPUs
  <2>6. Min(best) \in best
    <3> HIDE DEF best
    <3> QED
      BY <2>4, <2>5, MinIn
  <2>7. win[2] = Min(best)
    <3> HIDE DEF best, bidders
    <3> QED
      BY <1>1, <1>2, <1>4 DEF s
  <2> HIDE DEF best
  <2>8. win[2] \in CPUs \ used /\ state_matrix[win[2]][s] > 0
    BY <2>5, <2>6, <2>7
  <2> QED
    BY <1>1, <2>8 DEF s
<1> QED
  BY <1>3, <1>4

(* Nobody bids for a state further away than delta.                        *)
LEMMA BidWithin ==
    ASSUME new_cpu_state \in [CPUs -> States], delta \in Int,
           NEW c \in CPUs, NEW s \in States, state_matrix[c][s] > 0
    PROVE  Dist(new_cpu_state[c], s) <= delta
<1> DEFINE L == new_cpu_state[c]
<1>1. L \in Int /\ s \in Int
  BY GreedyDeltaAssumption DEF States
<1>2. Dist(s, L) > delta => state_matrix[c][s] = 0
  BY DEF state_matrix
<1> HIDE DEF L
<1>3. Dist(s, L) \in Int /\ Dist(s, L) = Dist(L, s)
  BY <1>1 DEF Dist
<1>4. Dist(L, s) <= delta
  BY <1>2, <1>3
<1> QED
  BY <1>4 DEF L

(* The cost of a layout: the sum WithinDelta is about.                     *)
Cost(f) == SumFunction(f)
Costs == [c \in CPUs |-> Dist(cur_cpu_state[c], new_cpu_state[c])]

(* Distances between states are integers.                                  *)
LEMMA DistType ==
    ASSUME NEW a \in States, NEW b \in States
    PROVE  Dist(a, b) \in Nat /\ Dist(a, a) = 0
<1>1. a \in Int /\ b \in Int
  BY GreedyDeltaAssumption DEF States
<1> QED
  BY <1>1 DEF Dist

(* A layout that moves no cpu costs nothing.                               *)
LEMMA CostNone ==
    ASSUME NEW f \in [CPUs -> Int], \A c \in CPUs : f[c] = 0
    PROVE  Cost(f) = 0
<1>1. SumFunctionOnSet(f, CPUs) = 0
  BY CpusFinite, SumZero
<1> QED
  BY <1>1 DEF Cost, SumFunction

(* Moving one cpu changes the cost by what that cpu costs.                 *)
LEMMA CostMove ==
    ASSUME NEW f \in [CPUs -> Int], NEW e \in [CPUs -> Int],
           NEW y \in CPUs, \A x \in CPUs \ {y} : e[x] = f[x]
    PROVE  /\ Cost(f) \in Int
           /\ Cost(e) = Cost(f) - f[y] + e[y]
<1>1. /\ SumFunctionOnSet(f, CPUs) \in Int
      /\ SumFunctionOnSet(e, CPUs) = SumFunctionOnSet(f, CPUs) - f[y] + e[y]
  BY CpusFinite, SumUpdate
<1> QED
  BY <1>1 DEF Cost, SumFunction

(* greedy_delta starts with delta unspent and enough cpus awake.           *)
LEMMA BeginGreedy ==
    ASSUME CoreInv, GreedyInv, method = "delta", UNCHANGED method,
           NEW hints, NEW again, NEW l \in 0 .. NCpu, Begin(hints, again, l)
    PROVE  GreedyInv'
<1>1. /\ load' = l /\ delta' = Delta /\ total_iter' = 0 /\ used' = {}
      /\ awake' = awake \cup Woken(l) /\ new_cpu_state' = cur_cpu_state
      /\ cur_cpu_state' = cur_cpu_state /\ stage' = "auction" /\ method' = method
  BY DEF Begin
<1>2. cur_cpu_state \in [CPUs -> States]
  BY DEF GreedyInv
<1>3. l <= Cardinality(awake \cup Woken(l))
  BY WokenEnough DEF CoreInv
<1>4. AuctionInv'
  BY <1>1, <1>3, FS_EmptySet, GreedyDeltaAssumption DEF AuctionInv
<1>5. Costs' \in [CPUs -> Int] /\ \A c \in CPUs : Costs'[c] = 0
  BY <1>1, <1>2, DistType DEF Costs
<1>6. Cost(Costs') = 0
  BY <1>5, CostNone
<1>7. Cost(Costs') <= Delta /\ delta' = Delta - Cost(Costs')
  BY <1>1, <1>6, GreedyDeltaAssumption
<1>8. WithinDelta'
  BY <1>7 DEF WithinDelta, Cost, Costs
<1> QED
  BY <1>1, <1>2, <1>4, <1>8 DEF GreedyInv, ProvidesLoad

(* A round pays what it adds to the cost of the layout.                    *)
LEMMA AuctionGreedy ==
    ASSUME CoreInv, GreedyInv, method = "delta", UNCHANGED method,
           NEW row, Auction(row)
    PROVE  GreedyInv'
<1>0. PICK win \in Winners(row) :
          /\ used' = used \cup {win[2]}
          /\ delta' = delta - Dist(cur_cpu_state[win[2]], win[1])
          /\ new_cpu_state' = [new_cpu_state EXCEPT ![win[2]] = win[1]]
  BY DEF Auction
<1> DEFINE w == win[1]
           y == win[2]
<1>1. /\ stage = "auction" /\ stage' = stage /\ method' = method /\ total_iter < load
      /\ total_iter' = total_iter + 1 /\ load' = load /\ awake' = awake
      /\ cur_cpu_state' = cur_cpu_state
  BY DEF Auction, AuctionOpen, persistent, input
<1>2. /\ cur_cpu_state \in [CPUs -> States] /\ new_cpu_state \in [CPUs -> States]
      /\ AuctionInv /\ delta = Delta - Cost(Costs)
  BY <1>1 DEF GreedyInv, WithinDelta, Cost, Costs
<1>3. w \in States /\ y \in CPUs /\ y \notin used /\ state_matrix[y][w] > 0
  BY <1>2, WinnerUnused DEF AuctionInv
<1>4. /\ used' = used \cup {y} /\ delta' = delta - Dist(cur_cpu_state[y], w)
      /\ new_cpu_state' = [new_cpu_state EXCEPT ![y] = w]
  BY <1>0
<1> HIDE DEF w, y
<1>5. new_cpu_state' \in [CPUs -> States]
  BY <1>2, <1>3, <1>4
<1>6. Costs \in [CPUs -> Int] /\ Costs' \in [CPUs -> Int]
  BY <1>1, <1>2, <1>5, DistType DEF Costs
<1>7. \A x \in CPUs \ {y} : Costs'[x] = Costs[x]
  BY <1>1, <1>2, <1>4 DEF Costs
<1>8. Costs[y] = 0 /\ Costs'[y] = Dist(cur_cpu_state[y], w) /\ Costs'[y] \in Int
  <2>1. new_cpu_state[y] = cur_cpu_state[y] /\ new_cpu_state'[y] = w
    BY <1>2, <1>3, <1>4 DEF AuctionInv
  <2>2. Costs[y] = Dist(cur_cpu_state[y], cur_cpu_state[y])
        /\ Costs'[y] = Dist(cur_cpu_state[y], w)
    BY <1>1, <1>3, <2>1 DEF Costs
  <2> QED
    BY <1>2, <1>3, <1>6, <2>2, DistType
<1>9. Cost(Costs) \in Int /\ Cost(Costs') = Cost(Costs) - Costs[y] + Costs'[y]
  BY <1>3, <1>6, <1>7, CostMove
<1>10. delta' \in Nat /\ Cost(Costs') <= Delta /\ delta' = Delta - Cost(Costs')
  <2>1. delta \in Nat /\ Delta \in Nat
    BY <1>2, GreedyDeltaAssumption DEF AuctionInv
  <2>2. Dist(new_cpu_state[y], w) <= delta /\ new_cpu_state[y] = cur_cpu_state[y]
    BY <1>2, <1>3, <2>1, BidWithin DEF AuctionInv
  <2>3. Costs'[y] <= delta
    BY <1>8, <2>2
  <2> QED
    BY <1>2, <1>4, <1>8, <1>9, <2>1, <2>3
<1>11. Cardinality(used') = total_iter' /\ total_iter' <= load'
  <2>1. used \in SUBSET CPUs /\ Cardinality(used) = total_iter /\ load \in 0 .. NCpu
    BY <1>2 DEF CoreInv, SetsInv, AuctionInv
  <2>2. IsFiniteSet(used) /\ Cardinality(used) \in Nat
    BY <2>1, CpuSets
  <2>3. Cardinality(used \cup {y}) = Cardinality(used) + 1
    BY <1>3, <2>2, FS_AddElement
  <2> QED
    BY <1>1, <1>4, <2>1, <2>2, <2>3, GreedyDeltaAssumption
<1>12. AuctionInv'
  BY <1>1, <1>2, <1>4, <1>10, <1>11 DEF AuctionInv
<1>13. WithinDelta'
  BY <1>10 DEF WithinDelta, Cost, Costs
<1> QED
  BY <1>1, <1>2, <1>5, <1>12, <1>13 DEF GreedyInv, ProvidesLoad

(* The masks of a layout offer the cpus it is a layout of.                 *)
LEMMA MasksOffer ==
    ASSUME NEW f \in [CPUs -> States], NEW u \in SUBSET CPUs,
           NEW m, m = [s \in States |-> {c \in u : f[c] = s}]
    PROVE  UNION {m[s] : s \in States} = u
<1>1. \A s \in States : \A c : c \in m[s] <=> c \in u /\ f[c] = s
  OBVIOUS
<1>2. ASSUME NEW c \in u
      PROVE  c \in UNION {m[s] : s \in States}
  <2>1. f[c] \in States
    OBVIOUS
  <2>2. c \in m[f[c]]
    BY <1>1, <2>1
  <2> QED
    BY <2>1, <2>2
<1>3. ASSUME NEW c \in UNION {m[s] : s \in States}
      PROVE  c \in u
  <2>1. PICK s \in States : c \in m[s]
    BY <1>3
  <2> QED
    BY <1>1, <2>1
<1> QED
  BY <1>2, <1>3

(* The layout published offers the cpus won and the cpus filled in.        *)
LEMMA PublishGreedy ==
    ASSUME CoreInv, GreedyInv, method = "delta", UNCHANGED method, Publish
    PROVE  GreedyInv'
<1> DEFINE all == used \cup Filler
<1>1. /\ stage = "publish" /\ stage' = "apply" /\ method' = method /\ load' = load
      /\ cur_cpu_state' = cur_cpu_state
      /\ used' = (IF all = {} THEN {0} ELSE all)
      /\ new_cpu_state' = (IF all = {} THEN [new_cpu_state EXCEPT ![0] = 0] ELSE new_cpu_state)
      /\ cpumask' = [s \in States |-> {c \in used' : new_cpu_state'[c] = s}]
  BY DEF Publish, input
<1>2. /\ cur_cpu_state \in [CPUs -> States] /\ new_cpu_state \in [CPUs -> States]
      /\ AuctionInv
  BY <1>1 DEF GreedyInv
<1>3. 0 \in CPUs /\ 0 \in States
  BY GreedyDeltaAssumption DEF CPUs, States
<1>4. Filler \in SUBSET (CPUs \ used) /\ Cardinality(all) = load
  BY <1>2, FillerSize DEF CoreInv
<1>5. all \in SUBSET CPUs
  BY <1>4 DEF CoreInv, SetsInv
<1> HIDE DEF all
<1>6. new_cpu_state' \in [CPUs -> States] /\ used' \in SUBSET CPUs
  BY <1>1, <1>2, <1>3, <1>5
<1>7. UNION {cpumask'[s] : s \in States} = used'
  BY <1>1, <1>6, MasksOffer
<1>8. Cardinality(used') = IF load = 0 THEN 1 ELSE load
  <2>1. all = {} <=> load = 0
    BY <1>4, <1>5, CpuSets
  <2>2. Cardinality({0}) = 1
    BY FS_Singleton
  <2> QED
    BY <1>1, <1>4, <2>1, <2>2
<1>9. ProvidesLoad'
  BY <1>1, <1>7, <1>8 DEF ProvidesLoad
<1> QED
  BY <1>1, <1>2, <1>6, <1>9 DEF GreedyInv, WithinDelta

(* The layout is applied and the interval ends.                            *)
LEMMA ApplyReturnGreedy ==
    ASSUME GreedyInv, method = "delta", UNCHANGED method, Apply \/ Return
    PROVE  GreedyInv'
<1>1. stage' \in {"log", "idle"} /\ method' = method
  BY DEF Apply, Return
<1>2. cur_cpu_state \in [CPUs -> States] /\ new_cpu_state \in [CPUs -> States]
  BY DEF GreedyInv
<1>3. 0 \in States
  BY GreedyDeltaAssumption DEF States
<1>4. cur_cpu_state' \in [CPUs -> States] /\ new_cpu_state' \in [CPUs -> States]
  <2>1. CASE Apply
    BY <1>2, <1>3, <2>1 DEF Apply, auction
  <2>2. CASE Return
    BY <1>2, <1>3, <2>2 DEF Return, persistent
  <2> QED
    BY <2>1, <2>2
<1> QED
  BY <1>1, <1>4 DEF GreedyInv, WithinDelta, ProvidesLoad

(* A step that leaves the variables of greedy_delta alone, and one of the  *)
(* other mutator.                                                          *)
LEMMA StutterGreedy ==
    ASSUME GreedyInv, UNCHANGED <<stage, input, auction, method>>,
           \/ UNCHANGED <<cur_cpu_state, awake, cpumask>>
           \/ stage = "idle" /\ method # "delta"
    PROVE  GreedyInv'
<1>1. /\ stage' = stage /\ method' = method /\ load' = load /\ delta' = delta /\ used' = used
      /\ total_iter' = total_iter /\ new_cpu_state' = new_cpu_state
  BY DEF input, auction
<1>2. CASE UNCHANGED <<cur_cpu_state, awake, cpumask>>
  BY <1>1, <1>2 DEF GreedyInv, WithinDelta, ProvidesLoad, AuctionInv
<1>3. CASE stage = "idle" /\ method # "delta"
  BY <1>1, <1>3 DEF GreedyInv, WithinDelta, ProvidesLoad
<1> QED
  BY <1>2, <1>3

(* Every step of a mutator keeps GreedyInv.                                *)
LEMMA DynNextGreedy ==
    ASSUME CoreInv, GreedyInv, [DynNext]_dyn_vars
    PROVE  GreedyInv'
<1>1. CASE UNCHANGED dyn_vars
  BY <1>1, StutterGreedy DEF dyn_vars, vars, persistent
<1>2. CASE method = "delta" /\ Next /\ UNCHANGED <<method, stage_dyn, statics, scratch>>
  <2>1. ASSUME NEW hints \in [States -> 0 .. MaxHint], NEW late \in SUBSET States,
               NEW l \in 0 .. NCpu,
               Begin(hints, [s \in States |-> hints[s] + IF s \in late THEN 1 ELSE 0], l)
        PROVE  GreedyInv'
    <3> DEFINE again == [s \in States |-> hints[s] + IF s \in late THEN 1 ELSE 0]
    <3>1. Begin(hints, again, l)
      BY <2>1
    <3> HIDE DEF again
    <3> QED
      BY <1>2, <3>1, BeginGreedy
  <2>2. ASSUME NEW row, Auction(row)
        PROVE  GreedyInv'
    BY <1>2, <2>2, AuctionGreedy
  <2>3. ASSUME NEW row, AuctionEnd(row)
        PROVE  GreedyInv'
    <3>1. /\ stage = "auction" /\ stage' = "publish" /\ method' = method /\ load' = load
          /\ delta' = delta /\ used' = used /\ total_iter' = total_iter
          /\ new_cpu_state' = new_cpu_state /\ cur_cpu_state' = cur_cpu_state
          /\ awake' = awake
      BY <1>2, <2>3 DEF AuctionEnd, persistent, input, auction
    <3> QED
      BY <3>1 DEF GreedyInv, WithinDelta, ProvidesLoad, AuctionInv
  <2>4. CASE Publish
    BY <1>2, <2>4, PublishGreedy
  <2>5. CASE Apply \/ Return
    BY <1>2, <2>5, ApplyReturnGreedy
  <2> QED
    BY <1>2, <2>1, <2>2, <2>3, <2>4, <2>5 DEF Next
<1>3. ASSUME NEW hints, NEW l, NEW busy, DynBegin(hints, l, busy)
      PROVE  GreedyInv'
  <2>1. stage = "idle" /\ method # "delta" /\ UNCHANGED <<stage, input, auction, method>>
    BY <1>3 DEF DynBegin, CoreInv, ModeInv
  <2> QED
    BY <2>1, StutterGreedy
<1>4. CASE MckRow
  BY <1>4, StutterGreedy DEF MckRow, vars, persistent
<1>5. CASE DynPublish \/ DynApply
  <2>1. stage = "idle" /\ method # "delta" /\ UNCHANGED <<stage, input, auction, method>>
    BY <1>5 DEF DynPublish, DynApply, CoreInv, ModeInv
  <2> QED
    BY <2>1, StutterGreedy
<1> QED
  BY <1>1, <1>2, <1>3, <1>4, <1>5 DEF DynNext

(* The initial state has no interval under way.                            *)
LEMMA InitGreedy ==
    ASSUME DynInit
    PROVE  GreedyInv
<1>1. 0 \in States
  BY GreedyDeltaAssumption DEF States
<1> QED
  BY <1>1 DEF DynInit, Init, GreedyInv, WithinDelta, ProvidesLoad

(* The cpus greedy_delta's auction wins are moved by no more than the      *)
(* delta constraint in all, and delta is what is left of it: for any       *)
(* number of cpus and states, and whatever is read before state_matrix.    *)
THEOREM AuctionWithinDelta == DynSpec => []WithinDelta
<1>1. GreedyInv => WithinDelta
  BY DEF GreedyInv
<1> QED
  BY <1>1, InitCore, InitGreedy, DynNextCore, DynNextGreedy, PTL DEF DynSpec

(* The layout greedy_delta publishes offers as many cpus as the load asks  *)
(* for, and one without a load.                                            *)
THEOREM LayoutProvidesLoad == DynSpec => []ProvidesLoad
<1>1. GreedyInv => ProvidesLoad
  BY DEF GreedyInv
<1> QED
  BY <1>1, InitCore, InitGreedy, DynNextCore, DynNextGreedy, PTL DEF DynSpec

-----------------------------------------------------------------------------
Recurses(g, n, base, step) ==
    g[0] = base /\ \A k \in 1 .. n : g[k] = step[<<k, g[k - 1]>>]

(* A function defined by recursion on the numbers up to n exists.          *)
LEMMA Recursion ==
    ASSUME NEW n \in Nat, NEW T, NEW base \in T, NEW step \in [(1 .. n) \X T -> T]
    PROVE  \E g \in [0 .. n -> T] : Recurses(g, n, base, step)
<1> DEFINE Upto(g, m) == g[0] = base /\ \A k \in 1 .. m : g[k] = step[<<k, g[k - 1]>>]
           Good(m) == \E g \in [0 .. m -> T] : Upto(g, m)
           Bad == {m \in 0 .. n : ~Good(m)}
<1>1. Good(0)
  <2> DEFINE g == [k \in 0 .. 0 |-> base]
  <2>1. g \in [0 .. 0 -> T] /\ Upto(g, 0)
    OBVIOUS
  <2> QED
    BY <2>1
<1>2. ASSUME NEW m \in Nat, m + 1 <= n, Good(m)
      PROVE  Good(m + 1)
  <2>1. PICK g \in [0 .. m -> T] : Upto(g, m)
    BY <1>2
  <2> DEFINE top == step[<<m + 1, g[m]>>]
             h == [k \in 0 .. m + 1 |-> IF k = m + 1 THEN top ELSE g[k]]
  <2>2. top \in T
    <3>1. g[m] \in T /\ m + 1 \in 1 .. n
      BY <1>2
    <3> QED
      BY <3>1
  <2>3. h \in [0 .. m + 1 -> T]
    BY <2>2
  <2>4. h[0] = base
    BY <2>1
  <2>5. ASSUME NEW k \in 1 .. m + 1
        PROVE  h[k] = step[<<k, h[k - 1]>>]
    <3>1. k - 1 \in 0 .. m /\ h[k - 1] = g[k - 1]
      OBVIOUS
    <3>2. CASE k = m + 1
      <4>1. k - 1 = m /\ h[k] = top
        BY <3>2
      <4> QED
        BY <3>1, <3>2, <4>1
    <3>3. CASE k # m + 1
      <4>1. k \in 1 .. m /\ h[k] = g[k]
        BY <3>3
      <4> QED
        BY <2>1, <3>1, <4>1
    <3> QED
      BY <3>2, <3>3
  <2> HIDE DEF h
  <2> QED
    BY <2>3, <2>4, <2>5
<1> HIDE DEF Good
<1>3. Bad = {}
  <2> SUFFICES ASSUME Bad # {}
               PROVE  FALSE
    OBVIOUS
  <2>1. PICK m \in Bad : \A x \in Bad : m <= x
    <3>1. Bad \subseteq Nat
      OBVIOUS
    <3> HIDE DEF Bad
    <3> QED
      BY <3>1, LeastNat
  <2>2. m \in 0 .. n /\ ~Good(m)
    BY <2>1
  <2>3. m # 0
    BY <1>1, <2>2
  <2>4. m - 1 \in Nat /\ (m - 1) + 1 = m /\ m - 1 \in 0 .. n /\ (m - 1) + 1 <= n
    BY <2>2, <2>3
  <2>5. Good(m - 1)
    <3>1. ~(m <= m - 1)
      BY <2>2
    <3>2. m - 1 \notin Bad
      <4> HIDE DEF Bad
      <4> QED
        BY <2>1, <3>1
    <3> QED
      BY <2>4, <3>2
  <2> QED
    BY <1>2, <2>2, <2>4, <2>5
<1>4. Good(n)
  BY <1>3
<1> QED
  BY <1>4 DEF Good, Recurses

(* Demand stays demand: whatever neighbour takes over the demand for a     *)
(* state out of reach, every state keeps a demand of at least one.         *)
LEMMA TransformType ==
    ASSUME NEW hinted \in [States -> Nat \ {0}], NEW named, NEW n
    PROVE  delta_based_demand_transform(hinted, named, n) \in [States -> Nat \ {0}]
<1> DEFINE wins == {s \in States : \E i \in 0 .. n - 1 :
                        Dist(cur_cpu_state[named[i]], s) <= Delta}
           friend(d, s) ==
               LET left  == Max({t \in wins : t < s} \cup {-1})
                   right == Min({t \in wins : t > s} \cup {NState})
               IN  IF left = -1 THEN right
                   ELSE IF right = NState THEN left
                   ELSE IF s - left = right - s
                   THEN IF d[left] > d[right] THEN left ELSE right
                   ELSE IF s - left < right - s THEN left ELSE right
           Step(k, d) == IF k - 1 \in wins \/ d[k - 1] = 0 THEN d
                         ELSE [d EXCEPT ![friend(d, k - 1)] = @ + d[k - 1]]
           D == [States -> Nat \ {0}]
           P(g) == g = [k \in 0 .. NState |-> IF k = 0 THEN hinted ELSE Step(k, g[k - 1])]
           moved == CHOOSE g : P(g)
<1>1. delta_based_demand_transform(hinted, named, n) = moved[NState]
  BY DEF delta_based_demand_transform
<1>2. NState \in Nat
  BY GreedyDeltaAssumption
<1>3. ASSUME NEW k \in 1 .. NState, NEW d \in D
      PROVE  Step(k, d) \in D
  <2> HIDE DEF friend, wins
  <2>1. k - 1 \in States
    BY <1>2 DEF States
  <2> DEFINE x == friend(d, k - 1)
             v == d[k - 1]
             e == [d EXCEPT ![x] = @ + v]
  <2>2. v \in Nat
    BY <2>1
  <2>3. e \in D
    <3> HIDE DEF x, v
    <3>1. \A s \in States : e[s] = (IF s = x THEN d[s] + v ELSE d[s]) /\ d[s] \in Nat \ {0}
      OBVIOUS
    <3>2. \A s \in States : e[s] \in Nat \ {0}
      <4> HIDE DEF e
      <4> QED
        BY <2>2, <3>1
    <3>3. e = [s \in States |-> e[s]]
      OBVIOUS
    <3> HIDE DEF e
    <3> QED
      BY <3>2, <3>3
  <2>4. Step(k, d) = d \/ Step(k, d) = e
    BY DEF friend
  <2> HIDE DEF e, D, Step
  <2> QED
    BY <2>3, <2>4
<1> HIDE DEF Step, D
<1> DEFINE step == [x \in (1 .. NState) \X D |-> Step(x[1], x[2])]
<1>4. step \in [(1 .. NState) \X D -> D]
  BY <1>3
<1>5. hinted \in D
  BY DEF D
<1>6. \A k \in 1 .. NState : \A d \in D : step[<<k, d>>] = Step(k, d)
  OBVIOUS
<1> HIDE DEF step
<1>7. PICK g \in [0 .. NState -> D] : Recurses(g, NState, hinted, step)
  BY <1>2, <1>4, <1>5, Recursion
<1>8. P(g)
  <2>1. \A k \in 0 .. NState : g[k] = IF k = 0 THEN hinted ELSE Step(k, g[k - 1])
    <3> TAKE k \in 0 .. NState
    <3>1. CASE k = 0
      BY <1>7, <3>1 DEF Recurses
    <3>2. CASE k # 0
      <4>1. k \in 1 .. NState /\ k - 1 \in 0 .. NState
        BY <1>2, <3>2
      <4>2. g[k - 1] \in D
        BY <4>1
      <4> QED
        BY <1>6, <1>7, <3>2, <4>1, <4>2 DEF Recurses
    <3> QED
      BY <3>1, <3>2
  <2> QED
    BY <2>1
<1>9. P(moved)
  <2> HIDE DEF P
  <2> QED
    BY <1>8
<1>10. moved[NState] \in D
  <2> DEFINE Bad == {k \in 0 .. NState : moved[k] \notin D}
  <2> HIDE DEF moved
  <2>1. moved[0] = hinted /\ \A k \in 1 .. NState : moved[k] = Step(k, moved[k - 1])
    BY <1>2, <1>9
  <2>2. Bad = {}
    <3> SUFFICES ASSUME Bad # {}
                 PROVE  FALSE
      OBVIOUS
    <3>1. PICK m \in Bad : \A x \in Bad : m <= x
      <4>1. Bad \subseteq Nat
        OBVIOUS
      <4> HIDE DEF Bad
      <4> QED
        BY <4>1, LeastNat
    <3>2. m \in 0 .. NState /\ moved[m] \notin D
      BY <3>1
    <3>3. m # 0
      BY <1>5, <2>1, <3>2
    <3>4. m \in 1 .. NState /\ m - 1 \in 0 .. NState /\ ~(m <= m - 1)
      BY <1>2, <3>2, <3>3
    <3>5. moved[m - 1] \in D
      <4>1. m - 1 \notin Bad
        <5> HIDE DEF Bad
        <5> QED
          BY <3>1, <3>4
      <4> QED
        BY <3>4, <4>1
    <3> QED
      BY <1>3, <2>1, <3>2, <3>4, <3>5
  <2> QED
    BY <1>2, <2>2
<1> QED
  BY <1>1, <1>10 DEF D

-----------------------------------------------------------------------------
(* What the cpus before the k-th serve within b, and what putting the k-th *)
(* into state s adds to it.                                                *)
Prev(k, b) == IF k = 1 THEN 0 ELSE dyna[k - 1][b].f
Gain(k, b, s) == Prev(k, b - wt(k, s)) + want[s]

Cells == [f : Nat \ {0}, sol : States]

(* The row r of the k-th cpu: a state within each budget, what it serves,  *)
(* and no state that serves more.                                          *)
RowGood(k, r) ==
    /\ r \in [0 .. Delta -> Cells]
    /\ \A b \in 0 .. Delta : wt(k, r[b].sol) <= b /\ r[b].f = Gain(k, b, r[b].sol)
    /\ \A b \in 0 .. Delta : \A s \in States : wt(k, s) <= b => Gain(k, b, s) <= r[b].f
    /\ \A b, c \in 0 .. Delta : c <= b => r[c].f <= r[b].f

(* The layouts are layouts, and the proxies cpus.                          *)
LayInv ==
    /\ method # "delta" => cur_cpu_state \in [CPUs -> States]
    /\ chosen \in [CPUs -> States] /\ proxy \in [CPUs -> CPUs]

(* While the table is computed enough cpus are awake and its rows are good.*)
MckInv ==
    stage_dyn = "mck" =>
        /\ want \in [States -> Nat \ {0}]
        /\ total \in 1 .. NCpu /\ total <= Cardinality(awake)
        /\ dyna \in Seq([0 .. Delta -> Cells]) /\ Len(dyna) <= total
        /\ \A k \in 1 .. Len(dyna) : RowGood(k, dyna[k])

(* What a state costs the k-th cpu; its own costs nothing.                 *)
LEMMA WeightType ==
    ASSUME LayInv, method # "delta", NEW k \in 1 .. NCpu
    PROVE  /\ \A s \in States : wt(k, s) \in Nat
           /\ \E s \in States : wt(k, s) = 0
<1>1. proxy[k - 1] \in CPUs
  <2>1. k - 1 \in CPUs
    BY GreedyDeltaAssumption DEF CPUs
  <2> QED
    BY <2>1 DEF LayInv
<1>2. cur_cpu_state[proxy[k - 1]] \in States
  BY <1>1 DEF LayInv
<1>3. \A s \in States : wt(k, s) = Dist(s, cur_cpu_state[proxy[k - 1]])
  BY DEF wt
<1> QED
  BY <1>2, <1>3, DistType

(* States are numbers, and finitely many.                                  *)
LEMMA StatesFinite ==
    IsFiniteSet(States) /\ States \subseteq Nat
<1>1. NState \in Nat
  BY GreedyDeltaAssumption
<1> QED
  BY <1>1, FS_Interval DEF States

(* Within a larger budget the same state serves no less.                   *)
LEMMA GainFacts ==
    ASSUME LayInv, method # "delta", NEW k \in 1 .. NCpu,
           want \in [States -> Nat \ {0}],
           k # 1 => RowGood(k - 1, dyna[k - 1]),
           NEW b \in 0 .. Delta, NEW s \in States, wt(k, s) <= b
    PROVE  /\ Gain(k, b, s) \in Nat \ {0}
           /\ k # 1 => Prev(k, b - wt(k, s)) \in Nat \ {0}
           /\ \A d \in 0 .. Delta : b <= d => Gain(k, b, s) <= Gain(k, d, s)
<1> DEFINE w == wt(k, s)
<1>0. Delta \in Nat
  BY GreedyDeltaAssumption
<1>1. w \in Nat /\ want[s] \in Nat \ {0} /\ w <= b
  BY WeightType
<1>2. CASE k = 1
  <2>1. \A d \in 0 .. Delta : Gain(k, d, s) = 0 + want[s]
    BY <1>2 DEF Gain, Prev
  <2> QED
    BY <1>1, <1>2, <2>1
<1>3. CASE k # 1
  <2> DEFINE r == dyna[k - 1]
  <2>1. RowGood(k - 1, r)
    BY <1>3
  <2>2. \A d \in 0 .. Delta : Gain(k, d, s) = r[d - w].f + want[s] /\ Prev(k, d - w) = r[d - w].f
    BY <1>3 DEF Gain, Prev
  <2> HIDE DEF r, w
  <2>3. \A d \in 0 .. Delta : r[d] \in Cells
    BY <2>1 DEF RowGood
  <2>4. \A d \in 0 .. Delta : r[d].f \in Nat \ {0}
    BY <2>3 DEF Cells
  <2>5. b - w \in 0 .. Delta
    BY <1>0, <1>1
  <2>6. ASSUME NEW d \in 0 .. Delta, b <= d
        PROVE  Gain(k, b, s) <= Gain(k, d, s)
    <3>1. d - w \in 0 .. Delta /\ b - w <= d - w
      BY <1>0, <1>1, <2>6
    <3>2. r[b - w].f <= r[d - w].f
      BY <2>1, <2>5, <3>1 DEF RowGood
    <3>3. r[b - w].f \in Nat /\ r[d - w].f \in Nat
      BY <2>4, <2>5, <3>1
    <3> QED
      BY <1>1, <2>2, <3>2, <3>3
  <2>7. r[b - w].f \in Nat \ {0}
    BY <2>4, <2>5
  <2>8. Gain(k, b, s) \in Nat \ {0} /\ Prev(k, b - w) \in Nat \ {0}
    BY <1>1, <2>2, <2>7
  <2> QED
    BY <2>6, <2>8 DEF w
<1> QED
  BY <1>2, <1>3

(* mck computes good rows.  Within every budget the k-th cpu has a state   *)
(* to take, the cpus before it serve something, and what they serve grows  *)
(* with the budget: neither shortcut of the loop is taken.                 *)
LEMMA RowIsGood ==
    ASSUME LayInv, method # "delta", NEW k \in 1 .. NCpu,
           want \in [States -> Nat \ {0}],
           k # 1 => RowGood(k - 1, dyna[k - 1])
    PROVE  RowGood(k, Row(k))
<1> DEFINE below(b, s) == IF k = 1 THEN 0 ELSE dyna[k - 1][b - wt(k, s)].f
           fits(b) == {s \in States : wt(k, s) <= b /\ (k = 1 \/ below(b, s) > 0)}
           gain(b, s) == below(b, s) + want[s]
           tops(b) == {s \in fits(b) : \A t \in fits(b) : gain(b, t) <= gain(b, s)}
           ind(b) == Min(tops(b))
           cell(g, b) ==
               IF fits(b) = {} THEN [f |-> IF b = 0 THEN 0 ELSE g[b - 1].f, sol |-> -1]
               ELSE IF b > 0 /\ g[b - 1].f > gain(b, ind(b))
               THEN [f |-> g[b - 1].f, sol |-> IF k = 1 THEN ind(b) ELSE -1]
               ELSE [f |-> gain(b, ind(b)), sol |-> ind(b)]
           P(g) == g = [b \in 0 .. Delta |-> cell(g, b)]
           row == CHOOSE g : P(g)
           best(b) == [f |-> gain(b, ind(b)), sol |-> ind(b)]
           W == [b \in 0 .. Delta |-> best(b)]
<1>1. Row(k) = [b \in 0 .. Delta |-> row[b]]
  BY DEF Row
<1>2. Delta \in Nat
  BY GreedyDeltaAssumption
<1>3. \A b, s : gain(b, s) = Gain(k, b, s) /\ below(b, s) = Prev(k, b - wt(k, s))
  BY DEF Gain, Prev
<1> HIDE DEF gain, below
<1>4. \A b \in 0 .. Delta : \A s \in States : wt(k, s) <= b =>
          /\ gain(b, s) \in Nat \ {0}
          /\ k # 1 => below(b, s) > 0
          /\ \A d \in 0 .. Delta : b <= d => gain(b, s) <= gain(d, s)
  <2> TAKE b \in 0 .. Delta
  <2> TAKE s \in States
  <2> HAVE wt(k, s) <= b
  <2>1. /\ Gain(k, b, s) \in Nat \ {0}
        /\ k # 1 => Prev(k, b - wt(k, s)) \in Nat \ {0}
        /\ \A d \in 0 .. Delta : b <= d => Gain(k, b, s) <= Gain(k, d, s)
    BY GainFacts
  <2>2. k # 1 => below(b, s) > 0
    BY <1>3, <2>1
  <2> QED
    BY <1>3, <2>1, <2>2
<1>5. \A b \in 0 .. Delta : \A s \in States : s \in fits(b) <=> wt(k, s) <= b
  BY <1>4
<1>6. ASSUME NEW b \in 0 .. Delta
      PROVE  /\ fits(b) # {} /\ ind(b) \in States /\ wt(k, ind(b)) <= b
             /\ gain(b, ind(b)) \in Nat \ {0}
             /\ \A s \in States : wt(k, s) <= b => gain(b, s) <= gain(b, ind(b))
  <2>1. fits(b) # {}
    <3>1. PICK s \in States : wt(k, s) = 0
      BY WeightType
    <3>2. wt(k, s) <= b
      BY <1>2, <3>1
    <3> QED
      BY <1>5, <3>2
  <2>2. IsFiniteSet(fits(b)) /\ fits(b) \subseteq States
    <3>1. fits(b) \in SUBSET States
      OBVIOUS
    <3> HIDE DEF fits
    <3> QED
      BY <3>1, StatesFinite, FS_Subset
  <2> DEFINE v == [s \in fits(b) |-> gain(b, s)]
  <2>3. \A s \in fits(b) : v[s] \in Int
    BY <1>4, <1>5, <2>2
  <2>4. \E s \in fits(b) : \A t \in fits(b) : v[t] <= v[s]
    <3> HIDE DEF fits, v
    <3> QED
      BY <2>1, <2>2, <2>3, ArgMax
  <2>5. tops(b) # {}
    <3> HIDE DEF fits
    <3> QED
      BY <2>4
  <2>6. tops(b) \subseteq Nat
    BY StatesFinite
  <2>7. ind(b) \in tops(b)
    <3> HIDE DEF tops
    <3> QED
      BY <2>5, <2>6, MinIn
  <2>8. ind(b) \in fits(b) /\ \A t \in fits(b) : gain(b, t) <= gain(b, ind(b))
    <3> HIDE DEF fits, ind
    <3> QED
      BY <2>7
  <2> HIDE DEF ind, tops
  <2>9. ind(b) \in States /\ wt(k, ind(b)) <= b
    BY <2>8
  <2> HIDE DEF fits
  <2> QED
    BY <1>4, <1>5, <2>1, <2>8, <2>9
<1> HIDE DEF ind, fits, tops
<1>7. \A b, c \in 0 .. Delta : c <= b => gain(c, ind(c)) <= gain(b, ind(b))
  <2> TAKE b, c \in 0 .. Delta
  <2> HAVE c <= b
  <2>1. ind(c) \in States /\ wt(k, ind(c)) <= c /\ gain(c, ind(c)) \in Nat
    BY <1>6
  <2>2. wt(k, ind(c)) \in Nat /\ wt(k, ind(c)) <= b
    BY <1>2, <2>1, WeightType
  <2>3. gain(c, ind(c)) <= gain(b, ind(c)) /\ gain(b, ind(c)) \in Nat
    BY <1>4, <2>1, <2>2
  <2>4. gain(b, ind(c)) <= gain(b, ind(b)) /\ gain(b, ind(b)) \in Nat
    BY <1>6, <2>1, <2>2
  <2> QED
    BY <2>1, <2>3, <2>4
<1>8. ASSUME NEW g, NEW b \in 0 .. Delta, b # 0 => g[b - 1] = best(b - 1)
      PROVE  cell(g, b) = best(b)
  <2>1. ~(b > 0 /\ g[b - 1].f > gain(b, ind(b)))
    <3> SUFFICES ASSUME b > 0
                 PROVE  ~(g[b - 1].f > gain(b, ind(b)))
      OBVIOUS
    <3>1. b - 1 \in 0 .. Delta /\ b - 1 <= b
      BY <1>2
    <3>2. g[b - 1].f = gain(b - 1, ind(b - 1))
      BY <1>8
    <3>3. gain(b - 1, ind(b - 1)) \in Nat /\ gain(b, ind(b)) \in Nat
      BY <1>6, <3>1
    <3> QED
      BY <1>7, <3>1, <3>2, <3>3
  <2> QED
    BY <1>6, <2>1
<1> HIDE DEF cell, best
<1>9. P(W)
  <2>1. \A b \in 0 .. Delta : cell(W, b) = best(b)
    <3> TAKE b \in 0 .. Delta
    <3>1. b # 0 => b - 1 \in 0 .. Delta
      BY <1>2
    <3>2. b # 0 => W[b - 1] = best(b - 1)
      BY <3>1
    <3> HIDE DEF W
    <3> QED
      BY <1>8, <3>2
  <2>2. [b \in 0 .. Delta |-> cell(W, b)] = [b \in 0 .. Delta |-> best(b)]
    <3> HIDE DEF W
    <3> QED
      BY <2>1
  <2> QED
    BY <2>2
<1>10. P(row)
  <2> HIDE DEF P
  <2> QED
    BY <1>9
<1>11. \A b \in 0 .. Delta : row[b] = best(b)
  <2> HIDE DEF row
  <2>1. \A b \in 0 .. Delta : row[b] = cell(row, b)
    BY <1>10
  <2> DEFINE Bad == {b \in 0 .. Delta : row[b] # best(b)}
  <2> SUFFICES ASSUME Bad # {}
               PROVE  FALSE
    OBVIOUS
  <2>2. PICK m \in Bad : \A x \in Bad : m <= x
    <3>1. Bad \subseteq Nat
      BY <1>2
    <3> HIDE DEF Bad
    <3> QED
      BY <3>1, LeastNat
  <2>3. m \in 0 .. Delta /\ row[m] # best(m)
    BY <2>2
  <2>4. m # 0 => row[m - 1] = best(m - 1)
    <3> SUFFICES ASSUME m # 0
                 PROVE  row[m - 1] = best(m - 1)
      OBVIOUS
    <3>1. m - 1 \in 0 .. Delta /\ ~(m <= m - 1)
      BY <1>2, <2>3
    <3>2. m - 1 \notin Bad
      <4> HIDE DEF Bad
      <4> QED
        BY <2>2, <3>1
    <3> QED
      BY <3>1, <3>2
  <2>5. cell(row, m) = best(m)
    BY <1>8, <2>3, <2>4
  <2> QED
    BY <2>1, <2>3, <2>5
<1> HIDE DEF row
<1> DEFINE r == Row(k)
<1>12. r \in [0 .. Delta -> Cells] /\ \A b \in 0 .. Delta : r[b] = best(b)
  <2>1. \A b \in 0 .. Delta : best(b) \in Cells
    <3> TAKE b \in 0 .. Delta
    <3>1. ind(b) \in States /\ gain(b, ind(b)) \in Nat \ {0}
      BY <1>6
    <3> QED
      BY <3>1 DEF best, Cells
  <2> QED
    BY <1>1, <1>11, <2>1
<1>13. \A b \in 0 .. Delta : r[b].f = gain(b, ind(b)) /\ r[b].sol = ind(b)
  BY <1>12 DEF best
<1> HIDE DEF r
<1>14. \A b \in 0 .. Delta : wt(k, r[b].sol) <= b /\ r[b].f = Gain(k, b, r[b].sol)
  BY <1>3, <1>6, <1>13
<1>15. \A b \in 0 .. Delta : \A s \in States : wt(k, s) <= b => Gain(k, b, s) <= r[b].f
  BY <1>3, <1>6, <1>13
<1>16. \A b, c \in 0 .. Delta : c <= b => r[c].f <= r[b].f
  BY <1>7, <1>13
<1> QED
  BY <1>12, <1>14, <1>15, <1>16 DEF RowGood, r


(* retire_procs leaves as many cpus awake as are required.                 *)
LEMMA RetiredFew ==
    ASSUME NEW up \in SUBSET CPUs, NEW req \in Nat, req <= Cardinality(up), NEW busy
    PROVE  req <= Cardinality(up \ Retired(up, req, busy))
<1> DEFINE idle == up \ busy
           B == [c \in idle |-> {d \in idle : d < c}]
           k == Cardinality(up) - req
           off == Retired(up, req, busy)
<1>1. IsFiniteSet(up) /\ Cardinality(up) \in Nat
  BY CpuSets
<1>2. idle \in SUBSET CPUs /\ off \in SUBSET idle /\ off \in SUBSET up
  BY DEF Retired
<1>3. off = First(idle, B, k)
  <2>1. off = {c \in idle : Cardinality({d \in idle : d < c}) < k}
    BY DEF Retired
  <2> HIDE DEF idle, k, off
  <2> QED
    BY <2>1 DEF First
<1> HIDE DEF idle, off
<1>4. Orders(B, idle)
  BY <1>2, NumbersOrder
<1>5. IsFiniteSet(idle) /\ Cardinality(idle) \in Nat
  BY <1>2, CpuSets
<1>6. Cardinality(off) \in Nat /\ Cardinality(off) <= Cardinality(idle)
  BY <1>2, <1>5, FS_Subset, FS_CardinalityType
<1>7. k \in Nat
  BY <1>1
<1>8. Cardinality(off) <= k
  <2> HIDE DEF k, B
  <2>1. CASE k <= Cardinality(idle)
    <3>1. k \in 0 .. Cardinality(idle)
      BY <1>5, <1>7, <2>1
    <3>2. Cardinality(off) = k
      BY <1>3, <1>4, <1>5, <3>1, FirstSize
    <3> QED
      BY <1>7, <3>2
  <2>2. CASE ~(k <= Cardinality(idle))
    BY <1>5, <1>6, <1>7, <2>2
  <2> QED
    BY <2>1, <2>2
<1>9. Cardinality(up \ off) = Cardinality(up) - Cardinality(off)
  <2>1. up \cap off = off
    BY <1>2
  <2> QED
    BY <1>1, <2>1, FS_Difference
<1>10. req <= Cardinality(up \ off)
  BY <1>1, <1>6, <1>8, <1>9
<1> QED
  BY <1>10 DEF off

(* The proxies are cpus: those left awake are as many as are numbered.     *)
LEMMA ProxiesType ==
    ASSUME proxy \in [CPUs -> CPUs], NEW up \in SUBSET CPUs, NEW req, NEW busy
    PROVE  Proxies(up, req, busy) \in [CPUs -> CPUs]
<1> DEFINE left == up \ Retired(up, req, busy)
           B == [c \in left |-> {d \in left : d < c}]
           nth(i) == CHOOSE c \in left : Cardinality({d \in left : d < c}) = i
<1>1. Proxies(up, req, busy) = proxy \/
      Proxies(up, req, busy) =
          [i \in CPUs |-> IF i < Cardinality(left) THEN nth(i) ELSE proxy[i]]
  BY DEF Proxies
<1>2. left \in SUBSET CPUs
  OBVIOUS
<1> HIDE DEF left
<1>3. Orders(B, left) /\ IsFiniteSet(left)
  BY <1>2, NumbersOrder, CpuSets
<1>4. /\ Cardinality(left) \in Nat
      /\ [c \in left |-> Cardinality(B[c])] \in Bijection(left, 0 .. Cardinality(left) - 1)
  <2> HIDE DEF B
  <2> QED
    BY <1>3, Ranks
<1>5. \A i \in CPUs : i < Cardinality(left) => nth(i) \in CPUs
  <2> TAKE i \in CPUs
  <2> HAVE i < Cardinality(left)
  <2>1. i \in 0 .. Cardinality(left) - 1
    BY <1>4 DEF CPUs
  <2> DEFINE r == [c \in left |-> Cardinality(B[c])]
  <2>2. PICK c \in left : r[c] = i
    <3> HIDE DEF r
    <3>1. r \in Surjection(left, 0 .. Cardinality(left) - 1)
      BY <1>4 DEF Bijection, r
    <3> QED
      BY <2>1, <3>1 DEF Surjection
  <2>3. Cardinality({d \in left : d < c}) = i
    BY <2>2
  <2>4. nth(i) \in left
    BY <2>3
  <2> QED
    BY <1>2, <2>4
<1> HIDE DEF nth
<1> QED
  BY <1>1, <1>5

(* The head of mem_dynamic_prog: enough cpus are awake, every state is in  *)
(* demand and the table is empty.                                          *)
LEMMA DynBeginMck ==
    ASSUME CoreInv, LayInv, NEW hints \in [States -> 0 .. MaxDynHint], NEW l \in 0 .. NCpu,
           NEW busy, DynBegin(hints, l, busy)
    PROVE  LayInv' /\ MckInv'
<1> DEFINE req == IF l = 0 THEN 1 ELSE l
           up == awake \cup Woken(req)
           hinted == [s \in States |-> hints[s] + 1]
<1>1. /\ total' = req /\ awake' = up \ Retired(up, req, busy)
      /\ proxy' = Proxies(up, req, busy)
      /\ want' = delta_based_demand_transform(hinted, proxy', req)
      /\ dyna' = <<>> /\ method' = method /\ chosen' = chosen
      /\ cur_cpu_state' = cur_cpu_state
  BY DEF DynBegin
<1>2. req \in 0 .. NCpu /\ req \in Nat /\ req \in 1 .. NCpu
  BY GreedyDeltaAssumption
<1>3. hinted \in [States -> Nat \ {0}]
  <2>1. \A s \in States : hints[s] \in Nat
    <3> TAKE s \in States
    <3>1. hints[s] \in 0 .. MaxDynHint
      OBVIOUS
    <3> QED
      BY <3>1
  <2> QED
    BY <2>1
<1> HIDE DEF req, up, hinted
<1>4. up \in SUBSET CPUs /\ req <= Cardinality(up)
  BY <1>2, WokenEnough DEF CoreInv, up
<1>5. req <= Cardinality(awake')
  BY <1>1, <1>2, <1>4, RetiredFew
<1>6. proxy' \in [CPUs -> CPUs]
  BY <1>1, <1>4, ProxiesType DEF LayInv
<1>7. want' \in [States -> Nat \ {0}]
  BY <1>1, <1>3, TransformType
<1>8. LayInv'
  BY <1>1, <1>6 DEF LayInv
<1>9. dyna' \in Seq([0 .. Delta -> Cells]) /\ Len(dyna') = 0
  BY <1>1
<1>10. MckInv'
  BY <1>1, <1>2, <1>5, <1>7, <1>9 DEF MckInv
<1> QED
  BY <1>8, <1>10

(* The next row of the table is good, and the rows before stay so.         *)
LEMMA MckRowMck ==
    ASSUME CoreInv, LayInv, MckInv, MckRow
    PROVE  LayInv' /\ MckInv'
<1> DEFINE n == Len(dyna) + 1
           Table == [0 .. Delta -> Cells]
<1>1. /\ stage_dyn = "mck" /\ Len(dyna) < total
      /\ dyna' = Append(dyna, Row(n))
      /\ want' = want /\ total' = total /\ awake' = awake /\ method' = method
      /\ cur_cpu_state' = cur_cpu_state /\ proxy' = proxy /\ chosen' = chosen
  BY DEF MckRow, vars, persistent, statics
<1>2. /\ want \in [States -> Nat \ {0}]
      /\ total \in 1 .. NCpu /\ total <= Cardinality(awake)
      /\ dyna \in Seq(Table) /\ Len(dyna) <= total
      /\ \A k \in 1 .. Len(dyna) : RowGood(k, dyna[k])
  BY <1>1 DEF MckInv
<1>3. method # "delta"
  BY <1>1 DEF CoreInv, ModeInv
<1>4. Len(dyna) \in Nat /\ n \in 1 .. NCpu /\ n <= total
  BY <1>1, <1>2, GreedyDeltaAssumption
<1>5. n # 1 => RowGood(n - 1, dyna[n - 1])
  <2>1. n # 1 => n - 1 \in 1 .. Len(dyna)
    BY <1>4
  <2> QED
    BY <1>2, <2>1
<1> HIDE DEF n
<1>6. RowGood(n, Row(n))
  BY <1>2, <1>3, <1>4, <1>5, RowIsGood
<1>7. Row(n) \in Table
  BY <1>6 DEF RowGood
<1> HIDE DEF Table
<1>8. /\ dyna' \in Seq(Table) /\ Len(dyna') = n /\ dyna'[n] = Row(n)
      /\ \A k \in 1 .. n - 1 : dyna'[k] = dyna[k]
  BY <1>1, <1>2, <1>4, <1>7 DEF n
<1>9. ASSUME NEW k \in 1 .. n
      PROVE  RowGood(k, dyna[k])'
  <2> DEFINE r == dyna'[k]
  <2>1. RowGood(k, r)
    <3>1. CASE k = n
      BY <1>6, <1>8, <3>1
    <3>2. CASE k # n
      <4>1. k \in 1 .. n - 1 /\ k \in 1 .. Len(dyna)
        BY <1>4, <3>2 DEF n
      <4> QED
        BY <1>2, <1>8, <4>1
    <3> QED
      BY <3>1, <3>2
  <2>2. k # 1 => dyna'[k - 1] = dyna[k - 1]
    <3>1. k # 1 => k - 1 \in 1 .. n - 1
      BY <1>4
    <3> QED
      BY <1>8, <3>1
  <2>3. /\ r \in [0 .. Delta -> Cells]
        /\ \A b \in 0 .. Delta : wt(k, r[b].sol) <= b /\ r[b].f = Gain(k, b, r[b].sol)
        /\ \A b \in 0 .. Delta : \A s \in States : wt(k, s) <= b => Gain(k, b, s) <= r[b].f
        /\ \A b, c \in 0 .. Delta : c <= b => r[c].f <= r[b].f
    <3> HIDE DEF r
    <3> QED
      BY <2>1 DEF RowGood
  <2>4. (\A b \in 0 .. Delta :
             wt(k, dyna[k][b].sol) <= b /\ dyna[k][b].f = Gain(k, b, dyna[k][b].sol))'
    BY <1>1, <2>2, <2>3 DEF Gain, Prev, wt, Dist
  <2>5. (\A b \in 0 .. Delta : \A s \in States :
             wt(k, s) <= b => Gain(k, b, s) <= dyna[k][b].f)'
    BY <1>1, <2>2, <2>3 DEF Gain, Prev, wt, Dist
  <2> QED
    BY <2>3, <2>4, <2>5 DEF RowGood
<1>10. MckInv'
  BY <1>1, <1>2, <1>4, <1>8, <1>9 DEF MckInv, Table
<1>11. LayInv'
  BY <1>1 DEF LayInv
<1> QED
  BY <1>10, <1>11

-----------------------------------------------------------------------------
(* The table is complete.                                                  *)
TableReady ==
    /\ LayInv /\ method # "delta"
    /\ want \in [States -> Nat \ {0}] /\ total \in 1 .. NCpu
    /\ \A k \in 1 .. total : RowGood(k, dyna[k])

(* The walk back: the budget left and the states chosen so far, and what   *)
(* one step of it does.                                                    *)
Walks == [b : 0 .. Delta, new : [CPUs -> States]]

Took(k, a) == [b |-> a.b - wt(k, dyna[k][a.b].sol),
               new |-> [a.new EXCEPT ![proxy[k - 1]] = dyna[k][a.b].sol]]

Walk(z) ==
    /\ z \in [0 .. total -> Walks]
    /\ z[0] = [b |-> Delta, new |-> chosen]
    /\ \A m \in 1 .. total : z[m] = Took(total + 1 - m, z[m - 1])

(* The largest number of an interval.                                      *)
LEMMA MaxInterval ==
    ASSUME NEW n \in Nat
    PROVE  Max(0 .. n) = n
BY DEF Max

(* A step of the walk stays within the budget.                             *)
LEMMA TookType ==
    ASSUME TableReady, NEW k \in 1 .. total, NEW a \in Walks
    PROVE  Took(k, a) \in Walks
<1> DEFINE s == dyna[k][a.b].sol
           w == wt(k, s)
<1>1. a.b \in 0 .. Delta /\ a.new \in [CPUs -> States]
  BY DEF Walks
<1>2. RowGood(k, dyna[k])
  BY DEF TableReady
<1>3. dyna[k][a.b] \in Cells /\ w <= a.b
  BY <1>1, <1>2 DEF RowGood
<1>4. s \in States
  BY <1>3 DEF Cells
<1>5. k \in 1 .. NCpu
  BY GreedyDeltaAssumption DEF TableReady
<1>6. w \in Nat
  BY <1>4, <1>5, WeightType DEF TableReady
<1>7. Took(k, a) = [b |-> a.b - w, new |-> [a.new EXCEPT ![proxy[k - 1]] = s]]
  BY DEF Took
<1> HIDE DEF s, w
<1>8. a.b - w \in 0 .. Delta
  BY <1>1, <1>3, <1>6, GreedyDeltaAssumption
<1>9. [a.new EXCEPT ![proxy[k - 1]] = s] \in [CPUs -> States]
  BY <1>1, <1>4
<1> QED
  BY <1>7, <1>8, <1>9 DEF Walks

(* Backtrack is where a walk back ends.                                    *)
LEMMA BacktrackWalks ==
    ASSUME TableReady
    PROVE  \E z : Walk(z) /\ Backtrack = z[total].new
<1> DEFINE Solved(k, a) == {b \in 0 .. a.b : dyna[k][b].sol >= 0}
           S(k, a) == dyna[k][Max(Solved(k, a))].sol
           Step(k, a) == IF Solved(k, a) = {} THEN [a EXCEPT !.b = -1]
                         ELSE [b |-> Max(Solved(k, a)) - wt(k, S(k, a)),
                               new |-> [a.new EXCEPT ![proxy[k - 1]] = S(k, a)]]
           base == [b |-> Delta, new |-> chosen]
           P(l) == l = [k \in 1 .. total + 1 |->
                           IF k = total + 1 THEN base ELSE Step(k, l[k + 1])]
           left == CHOOSE l : P(l)
<1>1. Backtrack = left[1].new
  BY DEF Backtrack
<1>2. total \in Nat /\ total >= 1 /\ Delta \in Nat
  BY GreedyDeltaAssumption DEF TableReady
<1>3. ASSUME NEW k \in 1 .. total, NEW a \in Walks
      PROVE  Step(k, a) = Took(k, a)
  <2>1. a.b \in 0 .. Delta
    BY DEF Walks
  <2>2. \A b \in 0 .. Delta : dyna[k][b].sol >= 0
    <3> TAKE b \in 0 .. Delta
    <3>1. dyna[k][b] \in Cells
      BY <1>3 DEF TableReady, RowGood
    <3>2. dyna[k][b].sol \in Nat
      BY <3>1, StatesFinite DEF Cells
    <3> QED
      BY <3>2
  <2>3. Solved(k, a) = 0 .. a.b
    BY <1>2, <2>1, <2>2
  <2> HIDE DEF Solved
  <2>4. Max(Solved(k, a)) = a.b /\ Solved(k, a) # {}
    <3>1. a.b \in Nat /\ 0 \in 0 .. a.b
      BY <1>2, <2>1
    <3>2. Max(0 .. a.b) = a.b
      BY <3>1, MaxInterval
    <3> QED
      BY <2>3, <3>1, <3>2
  <2> QED
    BY <2>4 DEF Took
<1> HIDE DEF Step
<1>4. base \in Walks
  BY <1>2 DEF TableReady, LayInv, Walks
<1> HIDE DEF base
<1> DEFINE step == [x \in (1 .. total) \X Walks |-> Took(total + 1 - x[1], x[2])]
<1>5. step \in [(1 .. total) \X Walks -> Walks]
  <2>1. \A m \in 1 .. total : total + 1 - m \in 1 .. total
    BY <1>2
  <2>2. \A m \in 1 .. total : \A a \in Walks : Took(total + 1 - m, a) \in Walks
    BY <2>1, TookType
  <2> QED
    BY <2>2
<1>6. \A m \in 1 .. total : \A a \in Walks : step[<<m, a>>] = Took(total + 1 - m, a)
  OBVIOUS
<1> HIDE DEF step
<1>7. PICK h \in [0 .. total -> Walks] : Recurses(h, total, base, step)
  BY <1>2, <1>4, <1>5, Recursion
<1> DEFINE l == [k \in 1 .. total + 1 |-> h[total + 1 - k]]
<1>8. P(l)
  <2>1. ASSUME NEW k \in 1 .. total + 1
        PROVE  l[k] = IF k = total + 1 THEN base ELSE Step(k, l[k + 1])
    <3>1. CASE k = total + 1
      <4>1. total + 1 - k = 0 /\ l[k] = h[total + 1 - k]
        BY <1>2, <3>1
      <4> QED
        BY <1>7, <3>1, <4>1 DEF Recurses
    <3>2. CASE k # total + 1
      <4> DEFINE m == total + 1 - k
      <4>1. /\ m \in 1 .. total /\ m - 1 \in 0 .. total /\ k \in 1 .. total
            /\ k + 1 \in 1 .. total + 1
            /\ total + 1 - (k + 1) = m - 1 /\ total + 1 - m = k
        BY <1>2, <3>2
      <4>2. l[k] = h[m] /\ l[k + 1] = h[m - 1]
        BY <4>1
      <4> HIDE DEF l, m
      <4>3. h[m - 1] \in Walks
        BY <4>1
      <4>4. h[m] = Took(k, h[m - 1])
        BY <1>6, <1>7, <4>1, <4>3 DEF Recurses
      <4> QED
        BY <1>3, <3>2, <4>1, <4>2, <4>3, <4>4
    <3> QED
      BY <3>1, <3>2
  <2>2. l = [k \in 1 .. total + 1 |-> l[k]]
    OBVIOUS
  <2> HIDE DEF l
  <2> QED
    BY <2>1, <2>2
<1>9. P(left)
  <2> HIDE DEF P, l
  <2> QED
    BY <1>8
<1> HIDE DEF left, l
<1>10. left[total + 1] = base /\ \A k \in 1 .. total : left[k] = Step(k, left[k + 1])
  <2>1. \A k \in 1 .. total + 1 : left[k] = IF k = total + 1 THEN base ELSE Step(k, left[k + 1])
    BY <1>9
  <2>2. total + 1 \in 1 .. total + 1
        /\ \A k \in 1 .. total : k \in 1 .. total + 1 /\ k # total + 1
    BY <1>2
  <2> QED
    BY <2>1, <2>2
<1> HIDE DEF P
<1> DEFINE z == [m \in 0 .. total |-> left[total + 1 - m]]
<1>11. z[0] = base /\ z[total] = left[1]
  <2>1. total + 1 - 0 = total + 1 /\ total + 1 - total = 1 /\ 0 \in 0 .. total
        /\ total \in 0 .. total
    BY <1>2
  <2> QED
    BY <1>10, <2>1
<1>12. \A m \in 1 .. total : /\ total + 1 - m \in 1 .. total /\ m - 1 \in 0 .. total
                             /\ z[m] = Step(total + 1 - m, z[m - 1])
  <2> TAKE m \in 1 .. total
  <2> DEFINE k == total + 1 - m
  <2>1. k \in 1 .. total /\ k + 1 = total + 1 - (m - 1) /\ m - 1 \in 0 .. total
        /\ m \in 0 .. total
    BY <1>2
  <2>2. z[m] = left[k] /\ z[m - 1] = left[k + 1]
    BY <2>1
  <2> HIDE DEF z
  <2> QED
    BY <1>10, <2>1, <2>2
<1> HIDE DEF z
<1>13. \A m \in 0 .. total : z[m] \in Walks
  <2> DEFINE Bad == {m \in 0 .. total : z[m] \notin Walks}
  <2> SUFFICES ASSUME Bad # {}
               PROVE  FALSE
    OBVIOUS
  <2>1. PICK m \in Bad : \A x \in Bad : m <= x
    <3>1. Bad \subseteq Nat
      BY <1>2
    <3> HIDE DEF Bad
    <3> QED
      BY <3>1, LeastNat
  <2>2. m \in 0 .. total /\ z[m] \notin Walks
    BY <2>1
  <2>3. m # 0
    BY <1>4, <1>11, <2>2
  <2>4. m \in 1 .. total /\ m - 1 \in 0 .. total /\ ~(m <= m - 1)
    BY <1>2, <2>2, <2>3
  <2>5. z[m - 1] \in Walks
    <3>1. m - 1 \notin Bad
      <4> HIDE DEF Bad
      <4> QED
        BY <2>1, <2>4
    <3> QED
      BY <2>4, <3>1
  <2>6. z[m] = Took(total + 1 - m, z[m - 1]) /\ total + 1 - m \in 1 .. total
    BY <1>3, <1>12, <2>4, <2>5
  <2> QED
    BY <2>2, <2>5, <2>6, TookType
<1>14. z \in [0 .. total -> Walks]
  BY <1>13 DEF z
<1>15. \A m \in 1 .. total : z[m] = Took(total + 1 - m, z[m - 1])
  BY <1>3, <1>12, <1>13
<1>16. Walk(z)
  BY <1>11, <1>14, <1>15 DEF Walk, base
<1> QED
  BY <1>1, <1>11, <1>16


(* The states of a layout found along the budgets bud.                     *)
Follows(y, bud) ==
    /\ bud \in [0 .. total -> 0 .. Delta] /\ bud[total] = Delta
    /\ \A k \in 1 .. total : /\ y[k - 1] = dyna[k][bud[k]].sol
                             /\ bud[k - 1] = bud[k] - wt(k, y[k - 1])

(* As long as the proxies differ, a step of the walk does not undo an      *)
(* earlier one.                                                            *)
LEMMA WalkFollows ==
    ASSUME TableReady, \A i, j \in Named : proxy[i] = proxy[j] => i = j,
           NEW z, Walk(z), NEW new, new = z[total].new
    PROVE  \E bud : Follows([i \in Named |-> new[proxy[i]]], bud)
<1>1. total \in Nat /\ total >= 1 /\ Delta \in Nat
  BY GreedyDeltaAssumption DEF TableReady
<1>2. \A m \in 0 .. total : z[m] \in Walks /\ z[m].b \in 0 .. Delta /\ z[m].new \in [CPUs -> States]
  BY DEF Walk, Walks
<1> DEFINE K(m) == total + 1 - m
           sol(m) == dyna[K(m)][z[m - 1].b].sol
<1>3. \A m \in 1 .. total : /\ z[m].b = z[m - 1].b - wt(K(m), sol(m))
                            /\ z[m].new = [z[m - 1].new EXCEPT ![proxy[K(m) - 1]] = sol(m)]
  <2> TAKE m \in 1 .. total
  <2> DEFINE a == z[m - 1]
             k == K(m)
  <2>1. z[m] = Took(k, a)
    BY DEF Walk
  <2> HIDE DEF a, k
  <2>2. /\ z[m].b = a.b - wt(k, dyna[k][a.b].sol)
        /\ z[m].new = [a.new EXCEPT ![proxy[k - 1]] = dyna[k][a.b].sol]
    BY <2>1 DEF Took
  <2> QED
    BY <2>2 DEF a, k
<1>4. \A m \in 1 .. total : K(m) \in 1 .. total /\ K(m) - 1 \in Named /\ proxy[K(m) - 1] \in CPUs
  <2> TAKE m \in 1 .. total
  <2>1. K(m) \in 1 .. total /\ K(m) - 1 \in Named /\ K(m) - 1 \in CPUs
    BY <1>1, GreedyDeltaAssumption DEF Named, CPUs, TableReady
  <2> QED
    BY <2>1 DEF TableReady, LayInv
<1>5. \A m, n \in 1 .. total : m # n => proxy[K(m) - 1] # proxy[K(n) - 1]
  <2> TAKE m, n \in 1 .. total
  <2> HAVE m # n
  <2>1. K(m) - 1 # K(n) - 1
    BY <1>1
  <2> HIDE DEF K
  <2> QED
    BY <1>4, <2>1
<1> HIDE DEF K, sol
<1>6. ASSUME NEW m \in 1 .. total
      PROVE  \A n \in m .. total : z[n].new[proxy[K(m) - 1]] = sol(m)
  <2> DEFINE p == proxy[K(m) - 1]
             Bad == {n \in m .. total : z[n].new[p] # sol(m)}
  <2>1. p \in CPUs
    BY <1>4
  <2> HIDE DEF p
  <2> SUFFICES ASSUME Bad # {}
               PROVE  FALSE
    BY DEF p
  <2>2. PICK n \in Bad : \A x \in Bad : n <= x
    <3>1. Bad \subseteq Nat
      BY <1>1
    <3> HIDE DEF Bad
    <3> QED
      BY <3>1, LeastNat
  <2>3. n \in m .. total /\ z[n].new[p] # sol(m)
    BY <2>2
  <2>4. n \in 1 .. total /\ n - 1 \in 0 .. total
    BY <1>1, <2>3
  <2>5. z[n].new = [z[n - 1].new EXCEPT ![proxy[K(n) - 1]] = sol(n)]
        /\ z[n - 1].new \in [CPUs -> States]
    BY <1>2, <1>3, <2>4
  <2>6. CASE n = m
    BY <2>1, <2>3, <2>5, <2>6 DEF p
  <2>7. CASE n # m
    <3>1. n - 1 \in m .. total /\ ~(n <= n - 1)
      BY <1>1, <2>3, <2>7
    <3>2. n - 1 \notin Bad
      <4> HIDE DEF Bad
      <4> QED
        BY <2>2, <3>1
    <3>3. z[n - 1].new[p] = sol(m)
      BY <3>1, <3>2
    <3>4. p # proxy[K(n) - 1]
      BY <1>5, <2>4, <2>7 DEF p
    <3> QED
      BY <2>1, <2>3, <2>5, <3>3, <3>4
  <2> QED
    BY <2>6, <2>7
<1> DEFINE y == [i \in Named |-> new[proxy[i]]]
           bud == [k \in 0 .. total |-> z[total - k].b]
<1>7. bud \in [0 .. total -> 0 .. Delta] /\ bud[total] = Delta
  <2>1. \A k \in 0 .. total : total - k \in 0 .. total
    BY <1>1
  <2>2. bud \in [0 .. total -> 0 .. Delta]
    BY <1>2, <2>1
  <2>3. bud[total] = z[0].b
    BY <1>1
  <2>4. z[0].b = Delta
    BY DEF Walk
  <2> QED
    BY <2>2, <2>3, <2>4
<1>8. ASSUME NEW k \in 1 .. total
      PROVE  y[k - 1] = dyna[k][bud[k]].sol /\ bud[k - 1] = bud[k] - wt(k, y[k - 1])
  <2> DEFINE m == total + 1 - k
  <2>1. /\ m \in 1 .. total /\ total \in m .. total /\ k - 1 \in Named /\ k - 1 \in 0 .. total
        /\ k \in 0 .. total /\ total - k = m - 1 /\ total - (k - 1) = m
    BY <1>1 DEF Named
  <2>2. K(m) = k
    BY <1>1 DEF K
  <2>3. bud[k] = z[m - 1].b /\ bud[k - 1] = z[m].b
    BY <2>1
  <2> HIDE DEF m, bud
  <2>4. y[k - 1] = sol(m)
    BY <1>6, <2>1, <2>2
  <2>5. sol(m) = dyna[k][bud[k]].sol
    BY <2>2, <2>3 DEF sol
  <2>6. z[m].b = z[m - 1].b - wt(k, sol(m))
    BY <1>3, <2>1, <2>2
  <2> QED
    BY <2>3, <2>4, <2>5, <2>6
<1> HIDE DEF y, bud
<1>9. Follows(y, bud)
  BY <1>7, <1>8 DEF Follows
<1> QED
  BY <1>9 DEF y

-----------------------------------------------------------------------------
(* The sums of the first k values of f.                                    *)
PartialSums(v, n, f) ==
    /\ v \in [0 .. n -> Int] /\ v[0] = 0
    /\ \A k \in 1 .. n : v[k] = v[k - 1] + f[k - 1]

(* The sum of all values is the last of them.                              *)
LEMMA Partial ==
    ASSUME NEW n \in Nat, NEW f \in [0 .. n - 1 -> Int], NEW g, IsSum(g, f, 0 .. n - 1)
    PROVE  \E v : PartialSums(v, n, f) /\ v[n] = g[0 .. n - 1]
<1> DEFINE S == 0 .. n - 1
           v == [k \in 0 .. n |-> g[0 .. k - 1]]
<1>1. IsFiniteSet(S)
  BY FS_Interval
<1>2. \A s \in SUBSET S : g[s] \in Int /\ \A y \in s : g[s] = f[y] + g[s \ {y}]
  <2>1. f \in [S -> Int] /\ IsSum(g, f, S)
    OBVIOUS
  <2>2. SumsUp(g, f, S)
    <3> HIDE DEF S
    <3> QED
      BY <1>1, <2>1, SumAny
  <2> QED
    BY <2>2 DEF SumsUp
<1>3. \A k \in 0 .. n : 0 .. k - 1 \in SUBSET S
  OBVIOUS
<1>4. v \in [0 .. n -> Int]
  BY <1>2, <1>3
<1>5. v[0] = 0
  <2>1. 0 .. 0 - 1 = {} /\ {} \in SUBSET S
    OBVIOUS
  <2>2. v[0] = g[0 .. 0 - 1]
    OBVIOUS
  <2>3. g[{}] = 0
    BY <2>1 DEF IsSum
  <2> QED
    BY <2>1, <2>2, <2>3
<1>6. ASSUME NEW k \in 1 .. n
      PROVE  v[k] = v[k - 1] + f[k - 1]
  <2>1. /\ k \in 0 .. n /\ k - 1 \in 0 .. n /\ k - 1 \in 0 .. k - 1 /\ k - 1 \in S
        /\ (0 .. k - 1) \ {k - 1} = 0 .. (k - 1) - 1
    OBVIOUS
  <2>2. g[0 .. k - 1] = f[k - 1] + g[(0 .. k - 1) \ {k - 1}]
    BY <1>2, <1>3, <2>1
  <2>3. v[k] = g[0 .. k - 1] /\ v[k - 1] = g[0 .. (k - 1) - 1]
    BY <2>1
  <2> HIDE DEF v
  <2>4. v[k - 1] \in Int /\ f[k - 1] \in Int
    BY <1>4, <2>1
  <2>5. v[k] = f[k - 1] + v[k - 1]
    <3> DEFINE t == 0 .. k - 1
               r == 0 .. (k - 1) - 1
               i == k - 1
    <3>1. t \ {i} = r /\ g[t] = f[i] + g[t \ {i}] /\ v[k] = g[t] /\ v[i] = g[r]
      BY <2>1, <2>2, <2>3
    <3> HIDE DEF t, r, i
    <3>2. v[k] = f[i] + v[i]
      BY <3>1
    <3> QED
      BY <3>2 DEF i
  <2> QED
    BY <2>4, <2>5
<1>7. v[n] = g[0 .. n - 1]
  OBVIOUS
<1> HIDE DEF v
<1>8. PartialSums(v, n, f)
  BY <1>4, <1>5, <1>6 DEF PartialSums
<1> QED
  BY <1>7, <1>8

(* No layout within a budget serves more than the table says.              *)
LEMMA NoneServesMore ==
    ASSUME TableReady, NEW g \in [Named -> States],
           NEW sv, PartialSums(sv, total, [i \in Named |-> want[g[i]]]),
           NEW cv, PartialSums(cv, total, [i \in Named |-> wt(i + 1, g[i])])
    PROVE  \A b \in 0 .. Delta : cv[total] <= b => sv[total] <= dyna[total][b].f
<1> DEFINE Good(k) == cv[k] \in Nat /\ \A b \in 0 .. Delta : cv[k] <= b => sv[k] <= dyna[k][b].f
           Bad == {k \in 1 .. total : ~Good(k)}
<1>1. total \in Nat /\ total >= 1 /\ Delta \in Nat /\ total \in 1 .. NCpu
  BY GreedyDeltaAssumption DEF TableReady
<1>2. ASSUME NEW k \in 1 .. total
      PROVE  /\ g[k - 1] \in States /\ want[g[k - 1]] \in Nat /\ wt(k, g[k - 1]) \in Nat
             /\ sv[k] = sv[k - 1] + want[g[k - 1]] /\ cv[k] = cv[k - 1] + wt(k, g[k - 1])
             /\ sv[k] \in Int /\ sv[k - 1] \in Int /\ cv[k - 1] \in Int
  <2>1. /\ k - 1 \in Named /\ (k - 1) + 1 = k /\ k - 1 \in 0 .. total /\ k \in 0 .. total
        /\ k \in 1 .. NCpu
    BY <1>1, GreedyDeltaAssumption DEF Named
  <2>2. g[k - 1] \in States
    BY <2>1
  <2>3. want[g[k - 1]] \in Nat
    BY <2>2 DEF TableReady
  <2>4. wt(k, g[k - 1]) \in Nat
    BY <2>1, <2>2, WeightType DEF TableReady
  <2>5. sv[k] = sv[k - 1] + want[g[k - 1]] /\ cv[k] = cv[k - 1] + wt(k, g[k - 1])
    BY <2>1 DEF PartialSums
  <2>6. sv[k] \in Int /\ sv[k - 1] \in Int /\ cv[k - 1] \in Int
    BY <2>1 DEF PartialSums
  <2> QED
    BY <2>2, <2>3, <2>4, <2>5, <2>6
<1>3. sv[0] = 0 /\ cv[0] = 0
  BY DEF PartialSums
<1>4. ASSUME NEW k \in 1 .. total, k # 1 => Good(k - 1)
      PROVE  Good(k)
  <2> DEFINE s == g[k - 1]
             w == wt(k, s)
  <2>1. /\ s \in States /\ want[s] \in Nat /\ w \in Nat
        /\ sv[k] = sv[k - 1] + want[s] /\ cv[k] = cv[k - 1] + w
        /\ sv[k] \in Int /\ sv[k - 1] \in Int
    BY <1>2
  <2>2. RowGood(k, dyna[k])
    BY DEF TableReady
  <2> HIDE DEF s, w
  <2>3. cv[k - 1] \in Nat
    <3>1. CASE k = 1
      BY <1>3, <3>1
    <3>2. CASE k # 1
      BY <1>4, <3>2
    <3> QED
      BY <3>1, <3>2
  <2>4. cv[k] \in Nat
    BY <2>1, <2>3
  <2>5. ASSUME NEW b \in 0 .. Delta, cv[k] <= b
        PROVE  sv[k] <= dyna[k][b].f
    <3>1. w <= b /\ b - w \in 0 .. Delta /\ cv[k - 1] <= b - w
      BY <1>1, <2>1, <2>3, <2>5
    <3>2. Gain(k, b, s) <= dyna[k][b].f
      BY <2>1, <2>2, <3>1 DEF RowGood, w
    <3>3. dyna[k][b].f \in Nat
      <4>1. dyna[k][b] \in Cells
        BY <2>2 DEF RowGood
      <4> QED
        BY <4>1 DEF Cells
    <3>4. CASE k = 1
      <4>1. Gain(k, b, s) = 0 + want[s]
        BY <3>4 DEF Gain, Prev
      <4>2. sv[k] = 0 + want[s]
        BY <1>3, <2>1, <3>4
      <4> QED
        BY <3>2, <4>1, <4>2
    <3>5. CASE k # 1
      <4>1. Gain(k, b, s) = dyna[k - 1][b - w].f + want[s]
        BY <3>5 DEF Gain, Prev, w
      <4>2. sv[k - 1] <= dyna[k - 1][b - w].f
        BY <1>4, <3>1, <3>5
      <4>3. dyna[k - 1][b - w].f \in Nat
        <5>1. k - 1 \in 1 .. total
          BY <1>1, <3>5
        <5>2. dyna[k - 1][b - w] \in Cells
          BY <3>1, <5>1 DEF TableReady, RowGood
        <5> QED
          BY <5>2 DEF Cells
      <4> QED
        BY <2>1, <3>2, <3>3, <4>1, <4>2, <4>3
    <3> QED
      BY <3>4, <3>5
  <2> QED
    BY <2>4, <2>5
<1> HIDE DEF Good
<1>5. Bad = {}
  <2> SUFFICES ASSUME Bad # {}
               PROVE  FALSE
    OBVIOUS
  <2>1. PICK k \in Bad : \A x \in Bad : k <= x
    <3>1. Bad \subseteq Nat
      BY <1>1
    <3> HIDE DEF Bad
    <3> QED
      BY <3>1, LeastNat
  <2>2. k \in 1 .. total /\ ~Good(k)
    BY <2>1
  <2>3. k # 1 => Good(k - 1)
    <3> SUFFICES ASSUME k # 1
                 PROVE  Good(k - 1)
      OBVIOUS
    <3>1. k - 1 \in 1 .. total /\ ~(k <= k - 1)
      BY <1>1, <2>2
    <3>2. k - 1 \notin Bad
      <4> HIDE DEF Bad
      <4> QED
        BY <2>1, <3>1
    <3> QED
      BY <3>1, <3>2
  <2> QED
    BY <1>4, <2>2, <2>3
<1>6. Good(total)
  BY <1>1, <1>5
<1> QED
  BY <1>6 DEF Good

(* The layout found along the budgets serves that much and stays within.   *)
LEMMA LayoutServes ==
    ASSUME TableReady, NEW y \in [Named -> States], NEW bud, Follows(y, bud),
           NEW sv, PartialSums(sv, total, [i \in Named |-> want[y[i]]]),
           NEW cv, PartialSums(cv, total, [i \in Named |-> wt(i + 1, y[i])])
    PROVE  cv[total] <= Delta /\ sv[total] = dyna[total][Delta].f
<1> DEFINE Good(k) == cv[k] <= bud[k] /\ sv[k] = dyna[k][bud[k]].f
           Bad == {k \in 1 .. total : ~Good(k)}
<1>1. total \in Nat /\ total >= 1 /\ Delta \in Nat /\ total \in 1 .. NCpu
  BY GreedyDeltaAssumption DEF TableReady
<1>2. ASSUME NEW k \in 1 .. total
      PROVE  /\ y[k - 1] \in States /\ want[y[k - 1]] \in Nat /\ wt(k, y[k - 1]) \in Nat
             /\ sv[k] = sv[k - 1] + want[y[k - 1]] /\ cv[k] = cv[k - 1] + wt(k, y[k - 1])
             /\ sv[k] \in Int /\ sv[k - 1] \in Int /\ cv[k - 1] \in Int
  <2>1. /\ k - 1 \in Named /\ (k - 1) + 1 = k /\ k - 1 \in 0 .. total /\ k \in 0 .. total
        /\ k \in 1 .. NCpu
    BY <1>1, GreedyDeltaAssumption DEF Named
  <2>2. y[k - 1] \in States
    BY <2>1
  <2>3. want[y[k - 1]] \in Nat
    BY <2>2 DEF TableReady
  <2>4. wt(k, y[k - 1]) \in Nat
    BY <2>1, <2>2, WeightType DEF TableReady
  <2>5. sv[k] = sv[k - 1] + want[y[k - 1]] /\ cv[k] = cv[k - 1] + wt(k, y[k - 1])
    BY <2>1 DEF PartialSums
  <2>6. sv[k] \in Int /\ sv[k - 1] \in Int /\ cv[k - 1] \in Int
    BY <2>1 DEF PartialSums
  <2> QED
    BY <2>2, <2>3, <2>4, <2>5, <2>6
<1>3. sv[0] = 0 /\ cv[0] = 0
  BY DEF PartialSums
<1>4. ASSUME NEW k \in 1 .. total, k # 1 => Good(k - 1)
      PROVE  Good(k)
  <2> DEFINE s == y[k - 1]
             w == wt(k, s)
  <2>1. /\ s \in States /\ want[s] \in Nat /\ w \in Nat
        /\ sv[k] = sv[k - 1] + want[s] /\ cv[k] = cv[k - 1] + w
        /\ sv[k - 1] \in Int /\ cv[k - 1] \in Int
    BY <1>2
  <2>2. s = dyna[k][bud[k]].sol /\ bud[k - 1] = bud[k] - w
    BY DEF Follows
  <2>3. bud[k] \in 0 .. Delta /\ bud[k - 1] \in 0 .. Delta
    <3>1. k \in 0 .. total /\ k - 1 \in 0 .. total
      BY <1>1
    <3> QED
      BY <3>1 DEF Follows
  <2>4. dyna[k][bud[k]].f = Gain(k, bud[k], s)
    BY <2>2, <2>3 DEF TableReady, RowGood
  <2> HIDE DEF s
  <2>5. Gain(k, bud[k], s) = Prev(k, bud[k - 1]) + want[s]
    BY <2>2 DEF Gain
  <2> HIDE DEF w
  <2>6. cv[k - 1] <= bud[k - 1] /\ sv[k - 1] = Prev(k, bud[k - 1])
    <3>1. CASE k = 1
      <4>1. cv[k - 1] = 0 /\ sv[k - 1] = 0
        BY <1>3, <3>1
      <4> QED
        BY <1>1, <2>3, <3>1, <4>1 DEF Prev
    <3>2. CASE k # 1
      BY <1>4, <3>2 DEF Prev
    <3> QED
      BY <3>1, <3>2
  <2>7. cv[k] <= bud[k]
    BY <1>1, <2>1, <2>2, <2>3, <2>6
  <2> QED
    BY <2>1, <2>4, <2>5, <2>6, <2>7
<1> HIDE DEF Good
<1>5. Bad = {}
  <2> SUFFICES ASSUME Bad # {}
               PROVE  FALSE
    OBVIOUS
  <2>1. PICK k \in Bad : \A x \in Bad : k <= x
    <3>1. Bad \subseteq Nat
      BY <1>1
    <3> HIDE DEF Bad
    <3> QED
      BY <3>1, LeastNat
  <2>2. k \in 1 .. total /\ ~Good(k)
    BY <2>1
  <2>3. k # 1 => Good(k - 1)
    <3> SUFFICES ASSUME k # 1
                 PROVE  Good(k - 1)
      OBVIOUS
    <3>1. k - 1 \in 1 .. total /\ ~(k <= k - 1)
      BY <1>1, <2>2
    <3>2. k - 1 \notin Bad
      <4> HIDE DEF Bad
      <4> QED
        BY <2>1, <3>1
    <3> QED
      BY <3>1, <3>2
  <2> QED
    BY <1>4, <2>2, <2>3
<1>6. Good(total)
  BY <1>1, <1>5
<1>7. bud[total] = Delta
  BY DEF Follows
<1> QED
  BY <1>6, <1>7 DEF Good


(* What the layout g of the cpus p[i] serves and costs, and that new is    *)
(* one that serves the most within delta.                                  *)
Served(v, g, S) == MapThenSumSet(LAMBDA i : v[g[i]], S)
Spent(cur, p, g, S) == MapThenSumSet(LAMBDA i : Dist(g[i], cur[p[i]]), S)

IsBest(v, cur, p, S, new) ==
    LET layout == [i \in S |-> new[p[i]]]
    IN  /\ Spent(cur, p, layout, S) <= Delta
        /\ \A g \in [S -> States] :
               Spent(cur, p, g, S) <= Delta => Served(v, g, S) <= Served(v, layout, S)

(* What a layout serves and costs, as sums of the values of a function.    *)
LEMMA ServedIs ==
    ASSUME TableReady, NEW g \in [Named -> States]
    PROVE  \E v : /\ PartialSums(v, total, [i \in Named |-> want[g[i]]])
                  /\ Served(want, g, Named) = v[total]
<1> DEFINE f == [i \in Named |-> want[g[i]]]
           P(h) == h = [s \in SUBSET Named |->
                           IF s = {} THEN 0
                           ELSE want[g[Pick(s)]] + h[s \ {Pick(s)}]]
           h0 == CHOOSE h : P(h)
<1>1. Served(want, g, Named) = h0[Named]
  BY DEF Served, Spent, MapThenSumSet, MapThenFoldSet, Pick
<1>2. total \in Nat /\ Named = 0 .. total - 1 /\ IsFiniteSet(Named)
  BY FS_Interval, GreedyDeltaAssumption DEF Named, TableReady
<1>3. f \in [Named -> Int]
  BY DEF TableReady
<1>4. \A s \in SUBSET Named : s # {} => Pick(s) \in Named
  <2>1. IsFiniteSet(Named)
    BY <1>2
  <2> QED
    BY <2>1, SubsetSize
<1>5. \A h : P(h) <=> IsSum(h, f, Named)
  <2> TAKE h
  <2>1. [s \in SUBSET Named |-> IF s = {} THEN 0 ELSE want[g[Pick(s)]] + h[s \ {Pick(s)}]]
        = [s \in SUBSET Named |-> IF s = {} THEN 0 ELSE f[Pick(s)] + h[s \ {Pick(s)}]]
    BY <1>4
  <2> HIDE DEF f
  <2> QED
    BY <2>1 DEF IsSum
<1> HIDE DEF P, f
<1>6. IsSum(h0, f, Named)
  <2>1. \E h : P(h)
    BY <1>2, <1>3, <1>5, SumExists
  <2>2. P(h0)
    BY <2>1
  <2> QED
    BY <1>5, <2>2
<1> HIDE DEF h0
<1>7. PICK v : PartialSums(v, total, f) /\ v[total] = h0[Named]
  BY <1>2, <1>3, <1>6, Partial
<1> QED
  BY <1>1, <1>7 DEF f

(* What it costs.                                                          *)
LEMMA CostIs ==
    ASSUME TableReady, NEW g \in [Named -> States]
    PROVE  \E v : /\ PartialSums(v, total, [i \in Named |-> wt(i + 1, g[i])])
                  /\ Spent(cur_cpu_state, proxy, g, Named)
                     = v[total]
<1> DEFINE f == [i \in Named |-> wt(i + 1, g[i])]
           P(h) == h = [s \in SUBSET Named |->
                           IF s = {} THEN 0
                           ELSE Dist(g[Pick(s)], cur_cpu_state[proxy[Pick(s)]])
                                + h[s \ {Pick(s)}]]
           h0 == CHOOSE h : P(h)
<1>1. Spent(cur_cpu_state, proxy, g, Named) = h0[Named]
  BY DEF Served, Spent, MapThenSumSet, MapThenFoldSet, Pick
<1>2. /\ total \in Nat /\ total \in 1 .. NCpu /\ Named = 0 .. total - 1
      /\ IsFiniteSet(Named) /\ Named \subseteq Int
  BY FS_Interval, GreedyDeltaAssumption DEF Named, TableReady
<1>3. f \in [Named -> Int]
  <2>1. \A i \in Named : i + 1 \in 1 .. NCpu
    BY <1>2, GreedyDeltaAssumption
  <2>2. \A i \in Named : wt(i + 1, g[i]) \in Nat
    BY <2>1, WeightType DEF TableReady
  <2> QED
    BY <2>2
<1>4. \A s \in SUBSET Named : s # {} => Pick(s) \in Named
  <2>1. IsFiniteSet(Named)
    BY <1>2
  <2> QED
    BY <2>1, SubsetSize
<1>5. \A i \in Named : f[i] = Dist(g[i], cur_cpu_state[proxy[i]])
  <2> TAKE i \in Named
  <2>1. (i + 1) - 1 = i
    BY <1>2
  <2> QED
    BY <2>1 DEF wt
<1>6. \A h : P(h) <=> IsSum(h, f, Named)
  <2> TAKE h
  <2> HIDE DEF f
  <2>1. [s \in SUBSET Named |-> IF s = {} THEN 0
                                ELSE Dist(g[Pick(s)], cur_cpu_state[proxy[Pick(s)]])
                                     + h[s \ {Pick(s)}]]
        = [s \in SUBSET Named |-> IF s = {} THEN 0 ELSE f[Pick(s)] + h[s \ {Pick(s)}]]
    BY <1>4, <1>5
  <2> QED
    BY <2>1 DEF IsSum
<1> HIDE DEF P, f
<1>7. IsSum(h0, f, Named)
  <2>1. \E h : P(h)
    BY <1>2, <1>3, <1>6, SumExists
  <2>2. P(h0)
    BY <2>1
  <2> QED
    BY <1>6, <2>2
<1> HIDE DEF h0
<1>8. PICK v : PartialSums(v, total, f) /\ v[total] = h0[Named]
  BY <1>2, <1>3, <1>7, Partial
<1> QED
  BY <1>1, <1>8 DEF f

(* What mck chooses serves the most within delta.                          *)
LEMMA WalkIsBest ==
    ASSUME TableReady, \A i, j \in Named : proxy[i] = proxy[j] => i = j,
           NEW z, Walk(z), NEW new, new = z[total].new
    PROVE  IsBest(want, cur_cpu_state, proxy, Named, new)
<1> DEFINE served(g) == Served(want, g, Named)
           cost(g) == Spent(cur_cpu_state, proxy, g, Named)
           layout == [i \in Named |-> new[proxy[i]]]
           top == dyna[total][Delta].f
<1>1. layout \in [Named -> States]
  <2>1. \A i \in Named : proxy[i] \in CPUs
    <3>1. \A i \in Named : i \in CPUs
      BY GreedyDeltaAssumption DEF Named, CPUs, TableReady
    <3> QED
      BY <3>1 DEF TableReady, LayInv
  <2>2. total \in 0 .. total
    BY GreedyDeltaAssumption DEF TableReady
  <2>3. new \in [CPUs -> States]
    BY <2>2 DEF Walk, Walks
  <2> QED
    BY <2>1, <2>3
<1>2. PICK bud : Follows(layout, bud)
  BY WalkFollows
<1> HIDE DEF layout
<1>3. cost(layout) <= Delta /\ served(layout) = top
  <2>1. PICK sv : /\ PartialSums(sv, total, [i \in Named |-> want[layout[i]]])
                  /\ served(layout) = sv[total]
    BY <1>1, ServedIs
  <2>2. PICK cv : /\ PartialSums(cv, total, [i \in Named |-> wt(i + 1, layout[i])])
                  /\ cost(layout) = cv[total]
    BY <1>1, CostIs
  <2>3. cv[total] <= Delta /\ sv[total] = top
    BY <1>1, <1>2, <2>1, <2>2, LayoutServes
  <2> HIDE DEF served, cost
  <2> QED
    BY <2>1, <2>2, <2>3
<1>4. ASSUME NEW g \in [Named -> States], cost(g) <= Delta
      PROVE  served(g) <= top
  <2>1. PICK sv : /\ PartialSums(sv, total, [i \in Named |-> want[g[i]]])
                  /\ served(g) = sv[total]
    BY ServedIs
  <2>2. PICK cv : /\ PartialSums(cv, total, [i \in Named |-> wt(i + 1, g[i])])
                  /\ cost(g) = cv[total]
    BY CostIs
  <2>3. \A b \in 0 .. Delta : cv[total] <= b => sv[total] <= dyna[total][b].f
    BY <2>1, <2>2, NoneServesMore
  <2>4. Delta \in 0 .. Delta
    BY GreedyDeltaAssumption
  <2> HIDE DEF served, cost
  <2> QED
    BY <1>4, <2>1, <2>2, <2>3, <2>4
<1> HIDE DEF served, cost
<1>5. /\ cost(layout) <= Delta
      /\ \A g \in [Named -> States] : cost(g) <= Delta => served(g) <= served(layout)
  BY <1>3, <1>4
<1> QED
  BY <1>5 DEF served, cost, layout, IsBest

-----------------------------------------------------------------------------
(* What holds of mem_dynamic_prog between its steps.                       *)
DynInv == LayInv /\ MckInv /\ EnoughAwake /\ BestWithinDelta

(* BestWithinDelta says that chosen is such a layout.                      *)
BestNow ==
    stage_dyn = "apply" /\ (\A i, j \in Named : proxy[i] = proxy[j] => i = j) =>
        IsBest(want, cur_cpu_state, proxy, Named, chosen)

(* The sums of BestWithinDelta are those of IsBest.                        *)
LEMMA BestIs ==
    BestWithinDelta <=> BestNow
BY DEF BestWithinDelta, BestNow, IsBest, Served, Spent

(* The layout is published: the walk back ends in a layout of the cpus     *)
(* that are awake, and no layout within delta serves more.                 *)
LEMMA DynPublishDyn ==
    ASSUME CoreInv, LayInv, MckInv, DynPublish
    PROVE  DynInv'
<1>1. /\ stage_dyn = "mck" /\ stage_dyn' = "apply" /\ Len(dyna) = total
      /\ chosen' = Backtrack
      /\ cpumask' = [s \in States |-> {c \in awake : chosen'[c] = s}]
      /\ want' = want /\ total' = total /\ awake' = awake /\ method' = method
      /\ cur_cpu_state' = cur_cpu_state /\ proxy' = proxy
  BY DEF DynPublish, scratch
<1>2. TableReady /\ total <= Cardinality(awake) /\ awake \in SUBSET CPUs
  BY <1>1 DEF TableReady, MckInv, CoreInv, ModeInv, SetsInv
<1>3. PICK z : Walk(z) /\ Backtrack = z[total].new
  BY <1>2, BacktrackWalks
<1>4. chosen' \in [CPUs -> States]
  <2>1. total \in 0 .. total
    BY <1>2, GreedyDeltaAssumption DEF TableReady
  <2> QED
    BY <1>1, <1>3, <2>1 DEF Walk, Walks
<1>5. LayInv'
  BY <1>1, <1>4 DEF LayInv
<1>6. EnoughAwake'
  <2>1. UNION {cpumask'[s] : s \in States} = awake
    BY <1>1, <1>2, <1>4, MasksOffer
  <2> QED
    BY <1>1, <1>2, <2>1 DEF EnoughAwake
<1>7. BestWithinDelta'
  <2> DEFINE Differ == \A i, j \in Named : proxy[i] = proxy[j] => i = j
             new == chosen'
  <2>1. Differ => IsBest(want, cur_cpu_state, proxy, Named, new)
    <3>1. new = z[total].new
      BY <1>1, <1>3
    <3> HIDE DEF new
    <3> QED
      BY <1>2, <1>3, <3>1, WalkIsBest
  <2>2. Named' = Named
    BY <1>1 DEF Named
  <2>3. Differ' <=> Differ
    BY <1>1, <2>2
  <2>4. IsBest(want', cur_cpu_state', proxy', Named', new) <=>
        IsBest(want, cur_cpu_state, proxy, Named, new)
    BY <1>1, <2>2
  <2>5. (BestWithinDelta <=> BestNow)'
    BY BestIs, PTL
  <2>6. BestNow' <=>
        (stage_dyn' = "apply" /\ Differ' => IsBest(want', cur_cpu_state', proxy', Named', new))
    BY DEF BestNow
  <2> HIDE DEF Differ, new
  <2> QED
    BY <1>1, <2>1, <2>3, <2>4, <2>5, <2>6
<1>8. MckInv'
  BY <1>1 DEF MckInv
<1> QED
  BY <1>5, <1>6, <1>7, <1>8 DEF DynInv


(* Outside the interval, and while the layout is applied, the invariant    *)
(* rests on variables nobody else writes.                                  *)
LEMMA StutterDyn ==
    ASSUME DynInv, UNCHANGED <<method, stage_dyn, statics, scratch>>,
           \/ UNCHANGED <<cur_cpu_state, awake, cpumask>>
           \/ method = "delta" /\ stage_dyn = "idle"
    PROVE  DynInv'
<1>1. /\ method' = method /\ stage_dyn' = stage_dyn /\ proxy' = proxy /\ chosen' = chosen
      /\ want' = want /\ total' = total /\ dyna' = dyna
  BY DEF statics, scratch
<1>2. CASE UNCHANGED <<cur_cpu_state, awake, cpumask>>
  <2>1. LayInv' /\ EnoughAwake'
    BY <1>1, <1>2 DEF DynInv, LayInv, EnoughAwake
  <2>2. MckInv'
    BY <1>1, <1>2 DEF DynInv, MckInv, RowGood, Gain, Prev, wt, Dist
  <2>3. BestWithinDelta'
    <3>1. (BestWithinDelta <=> BestNow)'
      BY BestIs, PTL
    <3>2. BestNow
      BY BestIs DEF DynInv
    <3>3. Named' = Named
      BY <1>1 DEF Named
    <3>4. BestNow'
      BY <1>1, <1>2, <3>2, <3>3 DEF BestNow
    <3> QED
      BY <3>1, <3>4
  <2> QED
    BY <2>1, <2>2, <2>3 DEF DynInv
<1>3. CASE method = "delta" /\ stage_dyn = "idle"
  BY <1>1, <1>3 DEF DynInv, LayInv, MckInv, EnoughAwake, BestWithinDelta
<1> QED
  BY <1>2, <1>3

(* The layout is applied.                                                  *)
LEMMA DynApplyDyn ==
    ASSUME CoreInv, DynInv, DynApply
    PROVE  DynInv'
<1>1. /\ stage_dyn' = "idle" /\ method' = method /\ proxy' = proxy /\ chosen' = chosen
      /\ method = "dynamic"
      /\ cur_cpu_state' = [c \in CPUs |-> IF c \in awake THEN chosen[c]
                                          ELSE IF c \in put_to_sleep THEN 0
                                          ELSE cur_cpu_state[c]]
  BY DEF DynApply, statics, CoreInv, ModeInv
<1>2. 0 \in States
  BY GreedyDeltaAssumption DEF States
<1>3. cur_cpu_state' \in [CPUs -> States]
  BY <1>1, <1>2 DEF DynInv, LayInv
<1> QED
  BY <1>1, <1>3 DEF DynInv, LayInv, MckInv, EnoughAwake, BestWithinDelta

(* Every step of a mutator keeps DynInv.                                   *)
LEMMA DynNextDyn ==
    ASSUME CoreInv, DynInv, [DynNext]_dyn_vars
    PROVE  DynInv'
<1>1. CASE UNCHANGED dyn_vars
  BY <1>1, StutterDyn DEF dyn_vars, vars, persistent
<1>2. CASE method = "delta" /\ Next /\ UNCHANGED <<method, stage_dyn, statics, scratch>>
  <2>1. stage_dyn = "idle"
    BY <1>2 DEF CoreInv, ModeInv
  <2> QED
    BY <1>2, <2>1, StutterDyn
<1>3. ASSUME NEW hints \in [States -> 0 .. MaxDynHint], NEW l \in 0 .. NCpu,
             NEW busy \in SUBSET CPUs, DynBegin(hints, l, busy)
      PROVE  DynInv'
  <2>1. LayInv' /\ MckInv'
    BY <1>3, DynBeginMck DEF DynInv
  <2>2. stage_dyn' = "mck"
    BY <1>3 DEF DynBegin
  <2> QED
    BY <2>1, <2>2 DEF DynInv, EnoughAwake, BestWithinDelta
<1>4. CASE MckRow
  <2>1. LayInv' /\ MckInv'
    BY <1>4, MckRowMck DEF DynInv
  <2>2. stage_dyn' = "mck"
    BY <1>4 DEF MckRow
  <2> QED
    BY <2>1, <2>2 DEF DynInv, EnoughAwake, BestWithinDelta
<1>5. CASE DynPublish
  BY <1>5, DynPublishDyn DEF DynInv
<1>6. CASE DynApply
  BY <1>6, DynApplyDyn
<1> QED
  BY <1>1, <1>2, <1>3, <1>4, <1>5, <1>6 DEF DynNext

(* When the module is loaded no layout is chosen yet.                      *)
LEMMA InitDyn ==
    ASSUME DynInit
    PROVE  DynInv
<1>1. 0 \in States /\ 0 \in CPUs
  BY GreedyDeltaAssumption DEF States, CPUs
<1> QED
  BY <1>1 DEF DynInit, Init, DynInv, LayInv, MckInv, EnoughAwake, BestWithinDelta

(* The layout mem_dynamic_prog publishes offers at least the cpus the load *)
(* asks for: wake_up_procs and retire_procs leave them awake, and the walk *)
(* back through the table gives each of them a state.                      *)
THEOREM LayoutOffersEnough == DynSpec => []EnoughAwake
<1>1. DynInv => EnoughAwake
  BY DEF DynInv
<1> QED
  BY <1>1, InitCore, InitDyn, DynNextCore, DynNextDyn, PTL DEF DynSpec

(* mck is right: for any number of cpus, any states, demands and delta, as *)
(* long as the proxies differ, the layout it chooses costs no more than    *)
(* delta and serves as much demand as any layout that does.                *)
THEOREM MckIsOptimal == DynSpec => []BestWithinDelta
<1>1. DynInv => BestWithinDelta
  BY DEF DynInv
<1> QED
  BY <1>1, InitCore, InitDyn, DynNextCore, DynNextDyn, PTL DEF DynSpec
=============================================================================
