--------------------------- MODULE LifecycleProofs ---------------------------
(***************************************************************************)
(* For every number of users, walkers and nodes: the list of the users of  *)
(* seeker-cpufreq holds who registered whenever user_lock is free, and a   *)
(* walk during which it is left alone informs each of them once.           *)
(*                                                                         *)
(* The scheduler's registration does not fail here: one that fails is      *)
(* followed by a deregistration with an id that is another's.              *)
(***************************************************************************)
EXTENDS Lifecycle, FiniteSetTheorems, WellFoundedInduction, TLAPS

UPC == {"out", "create", "fill", "listed", "failed", "kfree"}
WPC == {"idle", "call", "next", "end", "dead"}

UsersTypeOK ==
    /\ user_head \in Node \cup {NULL} /\ live \subseteq Node
    /\ next \in [Node -> Node \cup {NULL}] /\ user \in [Node -> User \cup {None}]
    /\ user_lock \in User \cup {None, Dead}
    /\ user_id \in [User -> Nat] /\ current_highest_id \in Nat
    /\ upc \in [User -> UPC] /\ node \in [User -> Node \cup {NULL}]
    /\ wpc \in [Walker -> WPC] /\ at \in [Walker -> Node \cup {NULL}]
    /\ told \in [Walker -> Seq(User)] /\ quiet \in [Walker -> BOOLEAN]
    /\ \A w \in Walker : wpc[w] \in {"call", "next"} => at[w] \in Node

(* Who is inside of create_user holds the lock; only a call that may fail  *)
(* has failed.                                                             *)
LockInv ==
    \A u \in User : /\ upc[u] \in {"create", "fill"} <=> user_lock = u
                    /\ upc[u] = "failed" => u \in MayFail

(* The node that is linked and not filled yet.                             *)
Pending == IF user_lock \in User /\ upc[user_lock] = "fill" THEN node[user_lock] ELSE NULL

(* The nodes reached from head are f[1] .. f[n], and then end.             *)
Linked(n, f, head, nx, end) ==
    /\ \A j, k \in 1 .. n : f[j] = f[k] => j = k
    /\ head = IF n = 0 THEN end ELSE f[1]
    /\ \A k \in 1 .. n : nx[f[k]] = IF k = n THEN end ELSE f[k + 1]

(* The nodes f[1] .. f[n] belong to the users that are listed, one each,   *)
(* in the order of their ids.                                              *)
Holds(n, f) ==
    /\ \A k \in 1 .. n : user[f[k]] \in User /\ upc[user[f[k]]] = "listed"
    /\ \A u \in User : upc[u] = "listed" => \E k \in 1 .. n : user[f[k]] = u
    /\ \A j, k \in 1 .. n : j < k => user_id[user[f[j]]] < user_id[user[f[k]]]
    /\ \A k \in 1 .. n : user_id[user[f[k]]] < current_highest_id

(* Every node allocated is listed, pending or about to be freed by one     *)
(* user, and only one of these.                                            *)
Doomed == {u \in User : upc[u] = "kfree"}
Allocated(n, f) ==
    /\ live = {f[k] : k \in 1 .. n} \cup ({Pending} \ {NULL}) \cup {node[u] : u \in Doomed}
    /\ Pending # NULL => \A k \in 1 .. n : f[k] # Pending
    /\ \A u \in User : upc[u] = "fill" => node[u] \in Node
    /\ \A u \in Doomed : /\ node[u] \in Node /\ node[u] # Pending
                         /\ \A k \in 1 .. n : f[k] # node[u]
                         /\ \A v \in Doomed : node[u] = node[v] => u = v

(* A walk that has not been disturbed has informed the users up to the     *)
(* node it is at.                                                          *)
Told(w, f, k) == told[w] = [j \in 1 .. k |-> user[f[j]]]
Walked(n, f) ==
    \A w \in Walker : quiet[w] /\ wpc[w] \in {"call", "next", "end"} =>
        /\ Pending = NULL
        /\ wpc[w] = "call" => \E k \in 1 .. n : at[w] = f[k] /\ Told(w, f, k - 1)
        /\ wpc[w] = "next" => \E k \in 1 .. n : at[w] = f[k] /\ Told(w, f, k)
        /\ wpc[w] = "end" => Told(w, f, n)

IsTheList(n, f) ==
    /\ Linked(n, f, user_head, next, Pending)
    /\ Holds(n, f) /\ Allocated(n, f) /\ Walked(n, f)

ListInv == \E n \in 0 .. NNode : \E f \in [1 .. n -> Node] : IsTheList(n, f)

UsersInv == UsersTypeOK /\ LockInv /\ ListInv

-----------------------------------------------------------------------------
(* Every non-empty set of natural numbers has a least element.             *)
LEMMA LeastNat ==
    ASSUME NEW T, T \subseteq Nat, T # {}
    PROVE  \E x \in T : \A y \in T : x <= y
<1> DEFINE R == {ss \in Nat \X Nat : ss[1] < ss[2]}
<1>1. IsWellFoundedOn(R, Nat)
  BY NatLessThanWellFounded DEF OpToRel
<1>2. \A x, y \in Nat : <<x, y>> \in R <=> x < y
  OBVIOUS
<1> HIDE DEF R
<1>3. PICK x \in T : \A y \in T : ~ (<<y, x>> \in R)
  BY <1>1, WFMin
<1>4. \A y \in T : ~ (y < x)
  BY <1>2, <1>3
<1>5. \A y \in T : x <= y
  BY <1>4
<1> QED
  BY <1>5

(* Induction up to n, for a set of numbers: it holds 0, and with m, m + 1. *)
LEMMA UpTo ==
    ASSUME NEW n \in Nat, NEW G, 0 \in G, \A m \in 0 .. n : m \in G /\ m < n => m + 1 \in G
    PROVE  \A m \in 0 .. n : m \in G
<1> SUFFICES ASSUME NEW m \in 0 .. n, m \notin G
             PROVE  FALSE
  OBVIOUS
<1> DEFINE Bad == {k \in 0 .. n : k \notin G}
<1>1. Bad \subseteq Nat /\ Bad # {}
  OBVIOUS
<1>2. PICK b \in Bad : \A x \in Bad : b <= x
  <2> HIDE DEF Bad
  <2> QED
    BY <1>1, LeastNat
<1>3. b \in 0 .. n /\ b \notin G /\ b # 0
  BY <1>2
<1>4. b - 1 \in 0 .. n /\ b - 1 < n /\ (b - 1) + 1 = b /\ ~(b <= b - 1)
  BY <1>3
<1>5. b - 1 \in G
  <2>1. b - 1 \notin Bad
    <3> HIDE DEF Bad
    <3> QED
      BY <1>2, <1>4
  <2> QED
    BY <1>4, <2>1
<1> QED
  BY <1>3, <1>4, <1>5

(* A list has no more nodes than there are, and as many as are reached.    *)
LEMMA ListLength ==
    ASSUME NEW n \in Nat, NEW f \in [1 .. n -> Node], \A j, k \in 1 .. n : f[j] = f[k] => j = k
    PROVE  n <= NNode /\ Cardinality({f[k] : k \in 1 .. n}) = n
<1> USE UsersAssumption
<1> DEFINE S == {f[k] : k \in 1 .. n}
<1>1. IsFiniteSet(1 .. n) /\ Cardinality(1 .. n) = n
  BY FS_Interval
<1>2. IsFiniteSet(Node) /\ Cardinality(Node) = NNode
  BY FS_Interval DEF Node
<1>3. f \in Injection(1 .. n, Node)
  BY DEF Injection, IsInjective
<1>4. n <= NNode
  BY <1>1, <1>2, <1>3, FS_Injection
<1>5. f \in Bijection(1 .. n, S)
  <2>1. f \in [1 .. n -> S] /\ \A t \in S : \E s \in 1 .. n : f[s] = t
    OBVIOUS
  <2> HIDE DEF S
  <2> QED
    BY <2>1 DEF Bijection, Injection, Surjection, IsInjective
<1>6. ExistsBijection(1 .. n, S)
  BY <1>5 DEF ExistsBijection
<1>7. Cardinality(S) = n
  <2> HIDE DEF S
  <2> QED
    BY <1>1, <1>6, FS_Bijection
<1> QED
  BY <1>4, <1>7

(* Following next from user_head passes through the nodes of the list and  *)
(* ends behind the last one.                                               *)
LEMMA ChainFollows ==
    ASSUME NEW n \in 0 .. NNode, NEW f \in [1 .. n -> Node],
           Linked(n, f, user_head, next, NULL)
    PROVE  /\ Chain = [k \in 0 .. NNode |-> IF k < n THEN f[k + 1] ELSE NULL]
           /\ Listed = {f[k] : k \in 1 .. n}
           /\ Chain[NNode] = NULL
<1> USE UsersAssumption
<1> DEFINE nodes == [k \in 0 .. NNode |-> IF k < n THEN f[k + 1] ELSE NULL]
           After(g, j) == IF g[j - 1] = NULL THEN NULL ELSE next[g[j - 1]]
           P(g) == g = [j \in 0 .. NNode |-> IF j = 0 THEN user_head ELSE After(g, j)]
           nth == CHOOSE g : P(g)
<1>1. Chain = [k \in 0 .. NNode |-> nth[k]]
  BY DEF Chain
<1>2. \A k \in 1 .. n : f[k] \in Node /\ f[k] # NULL
  BY DEF Node, NULL
<1>3. nodes[0] = user_head
  BY DEF Linked
<1>4. ASSUME NEW j \in 1 .. NNode
      PROVE  nodes[j] = After(nodes, j)
  <2>1. CASE j - 1 < n
    <3>1. j \in 1 .. n /\ nodes[j - 1] = f[j] /\ f[j] # NULL
      BY <1>2, <2>1
    <3>2. next[f[j]] = IF j = n THEN NULL ELSE f[j + 1]
      BY <3>1 DEF Linked
    <3>3. nodes[j] = IF j = n THEN NULL ELSE f[j + 1]
      BY <3>1
    <3> QED
      BY <3>1, <3>2, <3>3
  <2>2. CASE ~(j - 1 < n)
    BY <2>2
  <2> QED
    BY <2>1, <2>2
<1>5. P(nodes)
  <2>1. \A j \in 0 .. NNode : nodes[j] = IF j = 0 THEN user_head ELSE After(nodes, j)
    <3> HIDE DEF nodes, After
    <3> TAKE j \in 0 .. NNode
    <3>1. j = 0 \/ j \in 1 .. NNode
      OBVIOUS
    <3> QED
      BY <1>3, <1>4, <3>1
  <2> QED
    BY <2>1
<1>6. P(nth)
  <2> HIDE DEF P
  <2> QED
    BY <1>5
<1> HIDE DEF nth
<1>7. nth[0] = user_head /\ \A j \in 1 .. NNode : nth[j] = After(nth, j)
  BY <1>6
<1> DEFINE G == {j \in 0 .. NNode : nth[j] = nodes[j]}
<1>8. 0 \in G
  BY <1>3, <1>7
<1>9. \A j \in 0 .. NNode : j \in G /\ j < NNode => j + 1 \in G
  <2> SUFFICES ASSUME NEW j \in 0 .. NNode, j \in G, j < NNode
               PROVE  j + 1 \in G
    OBVIOUS
  <2>1. j + 1 \in 1 .. NNode /\ (j + 1) - 1 = j /\ nth[j] = nodes[j]
    OBVIOUS
  <2>2. nth[j + 1] = After(nth, j + 1) /\ nodes[j + 1] = After(nodes, j + 1)
    BY <1>4, <1>7, <2>1
  <2> HIDE DEF nodes
  <2> QED
    BY <2>1, <2>2
<1>10. \A j \in 0 .. NNode : j \in G
  <2> HIDE DEF G
  <2> QED
    BY <1>8, <1>9, UpTo
<1>11. Chain = nodes
  BY <1>1, <1>10
<1>12. Listed = {f[k] : k \in 1 .. n}
  <2>1. Listed = {nodes[k] : k \in 0 .. NNode} \ {NULL}
    BY <1>11 DEF Listed
  <2>2. \A k \in 1 .. n : k - 1 \in 0 .. NNode /\ nodes[k - 1] = f[k]
    OBVIOUS
  <2>3. \A k \in 0 .. NNode : nodes[k] # NULL => k + 1 \in 1 .. n /\ nodes[k] = f[k + 1]
    OBVIOUS
  <2> HIDE DEF nodes
  <2> QED
    BY <1>2, <2>1, <2>2, <2>3
<1> QED
  BY <1>11, <1>12

-----------------------------------------------------------------------------
(* What a step of the system does to the users of seeker-cpufreq.          *)
UsersStep ==
    \/ \E u \in User : \/ CreateLock(u) \/ CreateLink(u) \/ CreateFail(u) \/ CreateFill(u)
                       \/ upc[u] = "listed" /\ DestroyUnlink(u, Gone)
                       \/ DestroyDies(u, Gone) \/ DestroyFree(u)
    \/ \E w \in Walker : WalkStart(w) \/ WalkCall(w, Gone) \/ WalkNext(w) \/ WalkCrash(w) \/ WalkOver(w)
    \/ (\A w \in Walker : wpc[w] = "idle") /\ ReloadUsers

(* Only the scheduler deregisters after a registration that has failed.    *)
LEMMA StepOfUsers ==
    ASSUME Scheduler \notin MayFail, LockInv, [Next]_vars
    PROVE  UsersStep \/ UNCHANGED users
<1> USE LifecycleAssumption
<1>1. CASE UNCHANGED vars
  BY <1>1 DEF vars
<1>2. CASE Insmod \/ Rmmod \/ ProbeRequests \/ MaskBody \/ MutatorWalked \/ Check \/ Resched
  BY <1>2 DEF Insmod, Rmmod, ProbeRequests, MaskBody, MutatorWalked, Check, Resched
<1>3. CASE InitItem \/ InitRefused \/ InitRegistered \/ init_mutator
  BY <1>3 DEF InitItem, InitRefused, InitRegistered, init_mutator
<1>4. CASE ExitDeregistered \/ ExitFlag \/ ExitCancel \/ ExitItem
  BY <1>4 DEF ExitDeregistered, ExitFlag, ExitCancel, ExitItem
<1>5. CASE InitRegister
  BY <1>5 DEF InitRegister, Create, UsersStep
<1>6. CASE exit_cpu_states
  <2>1. upc[Scheduler] # "failed"
    BY DEF LockInv
  <2>2. DestroyUnlink(Scheduler, Gone) => upc[Scheduler] = "listed"
    BY <2>1 DEF DestroyUnlink
  <2> QED
    BY <1>6, <2>2 DEF exit_cpu_states, UsersStep
<1>7. CASE \E w \in Work : TimerFires(w) \/ TakeWork(w) \/ RunGone(w)
  BY <1>7 DEF TimerFires, TakeWork, RunGone
<1>8. CASE MutatorBody
  BY <1>8 DEF MutatorBody, UsersStep
<1>9. CASE \E u \in User : OtherUser(u)
  BY <1>9 DEF OtherUser, Create, UsersStep
<1>10. CASE \E w \in Walker : SetSpeed(w) \/ AnotherWriter(w) \/ Inform(w)
  BY <1>10 DEF SetSpeed, AnotherWriter, Inform, Walk, WalkEnd, UsersStep
<1>11. CASE ReloadCpufreq
  BY <1>11 DEF ReloadCpufreq, UsersStep
<1> QED
  BY <1>1, <1>2, <1>3, <1>4, <1>5, <1>6, <1>7, <1>8, <1>9, <1>10, <1>11
     DEF Next, Loader, StateChange

(* The list after a step is the one to show.                               *)
LEMMA ListAfter ==
    ASSUME NEW n \in 0 .. NNode, NEW f \in [1 .. n -> Node], IsTheList(n, f)'
    PROVE  ListInv'
BY DEF ListInv

(* A walk goes on as it did when neither the list nor the walk changes.    *)
LEMMA WalkKept ==
    ASSUME NEW n \in 0 .. NNode, NEW f \in [1 .. n -> Node], Walked(n, f),
           wpc' = wpc, at' = at, told' = told, quiet' = quiet, user' = user, Pending' = Pending
    PROVE  Walked(n, f)'
<1>1. ASSUME NEW w \in Walker, NEW k
      PROVE  Told(w, f, k)' <=> Told(w, f, k)
  BY DEF Told
<1> QED
  BY <1>1 DEF Walked

(* The list does not change when nothing of it does.                       *)
LEMMA UsersStutter ==
    ASSUME UsersInv, UNCHANGED users
    PROVE  UsersInv'
<1>1. /\ user_head' = user_head /\ next' = next /\ user' = user /\ live' = live
      /\ user_lock' = user_lock /\ user_id' = user_id /\ current_highest_id' = current_highest_id
      /\ upc' = upc /\ node' = node /\ wpc' = wpc /\ at' = at /\ told' = told /\ quiet' = quiet
  BY DEF users, list, ids, calls, walks
<1>2. UsersTypeOK' /\ LockInv'
  BY <1>1 DEF UsersInv, UsersTypeOK, LockInv
<1>3. Pending' = Pending /\ Doomed' = Doomed
  BY <1>1 DEF Pending, Doomed
<1>4. PICK n \in 0 .. NNode : \E f \in [1 .. n -> Node] : IsTheList(n, f)
  BY DEF UsersInv, ListInv
<1>5. PICK f \in [1 .. n -> Node] : IsTheList(n, f)
  BY <1>4
<1>6. Linked(n, f, user_head, next, Pending)'
  BY <1>1, <1>3, <1>5 DEF IsTheList, Linked
<1>7. Holds(n, f)'
  BY <1>1, <1>5 DEF IsTheList, Holds
<1>8. Allocated(n, f)'
  BY <1>1, <1>3, <1>5 DEF IsTheList, Allocated
<1>9. Walked(n, f)'
  BY <1>1, <1>3, <1>5, WalkKept DEF IsTheList
<1>10. IsTheList(n, f)'
  BY <1>6, <1>7, <1>8, <1>9 DEF IsTheList
<1> QED
  BY <1>2, <1>10, ListAfter DEF UsersInv

(* At the start the list is empty.                                         *)
LEMMA UsersStart == Init => UsersInv
<1> SUFFICES ASSUME Init
             PROVE  UsersInv
  OBVIOUS
<1> USE UsersAssumption DEF Init, UsersInit
<1>1. UsersTypeOK
  <2>1. <<>> \in Seq(User)
    OBVIOUS
  <2> QED
    BY <2>1 DEF UsersTypeOK, UPC, WPC, NULL
<1>2. LockInv
  BY DEF LockInv
<1>3. Pending = NULL /\ Doomed = {}
  BY DEF Pending, Doomed
<1> DEFINE f == [k \in 1 .. 0 |-> NULL]
<1>4. f \in [1 .. 0 -> Node] /\ 0 \in 0 .. NNode
  OBVIOUS
<1>5. IsTheList(0, f)
  BY <1>3 DEF IsTheList, Linked, Holds, Allocated, Walked
<1> HIDE DEF f
<1>6. ListInv
  BY <1>4, <1>5 DEF ListInv
<1> QED
  BY <1>1, <1>2, <1>6 DEF UsersInv

-----------------------------------------------------------------------------
(* Who takes the lock has no node yet.                                     *)
LEMMA CreateLockInv ==
    ASSUME UsersInv, NEW u \in User, CreateLock(u)
    PROVE  UsersInv'
<1> USE UsersAssumption
<1>1. UsersTypeOK /\ LockInv
  BY DEF UsersInv
<1>2. /\ upc[u] = "out" /\ user_lock = None /\ user_lock' = u
      /\ upc' = [upc EXCEPT ![u] = "create"]
      /\ user_head' = user_head /\ next' = next /\ user' = user /\ live' = live
      /\ user_id' = user_id /\ current_highest_id' = current_highest_id
      /\ node' = node /\ wpc' = wpc /\ at' = at /\ told' = told /\ quiet' = quiet
  BY DEF CreateLock, list, ids, walks
<1>3. upc'[u] = "create" /\ \A v \in User : v # u => upc'[v] = upc[v]
  BY <1>1, <1>2 DEF UsersTypeOK
<1>4. UsersTypeOK'
  BY <1>1, <1>2 DEF UsersTypeOK, UPC
<1>5. LockInv'
  BY <1>1, <1>2, <1>3 DEF LockInv
<1>6. Pending = NULL /\ Pending' = NULL /\ Doomed' = Doomed
  BY <1>2, <1>3 DEF Pending, Doomed
<1>7. PICK n \in 0 .. NNode : \E f \in [1 .. n -> Node] : IsTheList(n, f)
  BY DEF UsersInv, ListInv
<1>8. PICK f \in [1 .. n -> Node] : IsTheList(n, f)
  BY <1>7
<1>9. Linked(n, f, user_head, next, Pending)'
  BY <1>2, <1>6, <1>8 DEF IsTheList, Linked
<1>10. Holds(n, f)'
  BY <1>2, <1>3, <1>8 DEF IsTheList, Holds
<1>11. Allocated(n, f)'
  BY <1>2, <1>3, <1>6, <1>8 DEF IsTheList, Allocated
<1>12. Walked(n, f)'
  BY <1>2, <1>6, <1>8, WalkKept DEF IsTheList
<1>13. IsTheList(n, f)'
  BY <1>9, <1>10, <1>11, <1>12 DEF IsTheList
<1> QED
  BY <1>4, <1>5, <1>13, ListAfter DEF UsersInv

(* A call that fails gives the lock back and has linked nothing.           *)
LEMMA CreateFailInv ==
    ASSUME UsersInv, NEW u \in User, CreateFail(u)
    PROVE  UsersInv'
<1> USE UsersAssumption
<1>1. UsersTypeOK /\ LockInv
  BY DEF UsersInv
<1>2. /\ upc[u] = "create" /\ u \in MayFail /\ user_lock' = None
      /\ upc' = [upc EXCEPT ![u] = "failed"]
      /\ user_head' = user_head /\ next' = next /\ user' = user /\ live' = live
      /\ user_id' = user_id /\ current_highest_id' = current_highest_id
      /\ node' = node /\ wpc' = wpc /\ at' = at /\ told' = told /\ quiet' = quiet
  BY DEF CreateFail, list, ids, walks
<1>3. upc'[u] = "failed" /\ \A v \in User : v # u => upc'[v] = upc[v]
  BY <1>1, <1>2 DEF UsersTypeOK
<1>4. UsersTypeOK'
  BY <1>1, <1>2 DEF UsersTypeOK, UPC
<1>5. user_lock = u /\ \A v \in User : v # u => upc[v] \notin {"create", "fill"}
  BY <1>1, <1>2 DEF LockInv
<1>6. LockInv'
  BY <1>1, <1>2, <1>3, <1>5 DEF LockInv
<1>7. Pending = NULL /\ Pending' = NULL /\ Doomed' = Doomed
  BY <1>2, <1>3, <1>5 DEF Pending, Doomed
<1>8. PICK n \in 0 .. NNode : \E f \in [1 .. n -> Node] : IsTheList(n, f)
  BY DEF UsersInv, ListInv
<1>9. PICK f \in [1 .. n -> Node] : IsTheList(n, f)
  BY <1>8
<1>10. Linked(n, f, user_head, next, Pending)'
  BY <1>2, <1>7, <1>9 DEF IsTheList, Linked
<1>11. Holds(n, f)'
  BY <1>2, <1>3, <1>9 DEF IsTheList, Holds
<1>12. Allocated(n, f)'
  BY <1>2, <1>3, <1>7, <1>9 DEF IsTheList, Allocated
<1>13. Walked(n, f)'
  BY <1>2, <1>7, <1>9, WalkKept DEF IsTheList
<1>14. IsTheList(n, f)'
  BY <1>10, <1>11, <1>12, <1>13 DEF IsTheList
<1> QED
  BY <1>4, <1>6, <1>14, ListAfter DEF UsersInv

(* The last node of the list is the one without a successor.               *)
LEMMA LastNode ==
    ASSUME NEW n \in 1 .. NNode, NEW f \in [1 .. n -> Node],
           Linked(n, f, user_head, next, NULL)
    PROVE  Last = f[n]
<1> USE UsersAssumption
<1>1. Listed = {f[k] : k \in 1 .. n}
  BY ChainFollows
<1>2. \A k \in 1 .. n : f[k] # NULL
  BY DEF Node, NULL
<1>3. next[f[n]] = NULL
  BY DEF Linked
<1>4. ASSUME NEW x \in Listed, next[x] = NULL
      PROVE  x = f[n]
  <2>1. PICK k \in 1 .. n : x = f[k]
    BY <1>1
  <2>2. k # n => next[f[k]] = f[k + 1] /\ k + 1 \in 1 .. n
    BY DEF Linked
  <2> QED
    BY <1>2, <1>4, <2>1, <2>2
<1>5. f[n] \in Listed
  BY <1>1
<1> QED
  BY <1>3, <1>4, <1>5 DEF Last

(* A new node is linked behind the last one; the list up to it stays as it *)
(* is, and no walk is undisturbed.                                         *)
LEMMA CreateLinkInv ==
    ASSUME UsersInv, NEW u \in User, CreateLink(u)
    PROVE  UsersInv'
<1> USE UsersAssumption
<1> DEFINE i == Min(Node \ live)
<1>1. UsersTypeOK /\ LockInv
  BY DEF UsersInv
<1>2. /\ upc[u] = "create" /\ live # Node
      /\ user_head' = (IF user_head = NULL THEN i ELSE user_head)
      /\ next' = (IF user_head = NULL THEN next ELSE [next EXCEPT ![Last] = i])
      /\ live' = live \cup {i} /\ node' = [node EXCEPT ![u] = i]
      /\ upc' = [upc EXCEPT ![u] = "fill"] /\ quiet' = [w \in Walker |-> FALSE]
      /\ user' = user /\ user_lock' = user_lock
      /\ user_id' = user_id /\ current_highest_id' = current_highest_id
      /\ wpc' = wpc /\ at' = at /\ told' = told
  BY DEF CreateLink, ids, walks
<1>3. i \in Node /\ i \notin live /\ i # NULL
  <2>1. Node \ live \subseteq Nat /\ Node \ live # {}
    <3>1. live \subseteq Node /\ live # Node
      BY <1>1, <1>2 DEF UsersTypeOK
    <3>2. Node \ live # {}
      <4> HIDE DEF i
      <4> QED
        BY <3>1
    <3>3. Node \subseteq Nat
      BY DEF Node
    <3> QED
      BY <3>2, <3>3
  <2>2. \E x \in Node \ live : \A y \in Node \ live : x <= y
    <3> DEFINE T == Node \ live
    <3> HIDE DEF T
    <3>1. T \subseteq Nat /\ T # {} => \E x \in T : \A y \in T : x <= y
      BY LeastNat
    <3> QED
      BY <2>1, <3>1 DEF T
  <2>3. i \in Node \ live
    BY <2>2 DEF Min
  <2> HIDE DEF i
  <2> QED
    BY <2>3 DEF Node, NULL
<1> HIDE DEF i
<1>4. /\ upc'[u] = "fill" /\ \A v \in User : v # u => upc'[v] = upc[v]
      /\ node'[u] = i /\ \A v \in User : v # u => node'[v] = node[v]
  BY <1>1, <1>2 DEF UsersTypeOK
<1>5. user_lock = u /\ u # None /\ \A v \in User : v # u => upc[v] \notin {"create", "fill"}
  BY <1>1, <1>2 DEF LockInv
<1>6. LockInv'
  BY <1>1, <1>2, <1>4, <1>5 DEF LockInv
<1>7. Pending = NULL /\ Pending' = i /\ Doomed' = Doomed
  BY <1>2, <1>4, <1>5 DEF Pending, Doomed
<1>8. PICK n \in 0 .. NNode : \E f \in [1 .. n -> Node] : IsTheList(n, f)
  BY DEF UsersInv, ListInv
<1>9. PICK f \in [1 .. n -> Node] : IsTheList(n, f)
  BY <1>8
<1>10. Linked(n, f, user_head, next, NULL)
  BY <1>7, <1>9 DEF IsTheList
<1>11. \A k \in 1 .. n : f[k] \in Node /\ f[k] # NULL
  BY DEF Node, NULL
<1>12. user_head = NULL <=> n = 0
  BY <1>10, <1>11 DEF Linked
<1>13. n # 0 => Last = f[n]
  BY <1>10, LastNode
<1>14. next' \in [Node -> Node \cup {NULL}]
  BY <1>1, <1>2, <1>3 DEF UsersTypeOK
<1>15. UsersTypeOK'
  <2>1. quiet' \in [Walker -> BOOLEAN] /\ upc' \in [User -> UPC]
    BY <1>1, <1>2 DEF UsersTypeOK, UPC
  <2>2. node' \in [User -> Node \cup {NULL}] /\ live' \subseteq Node /\ user_head' \in Node \cup {NULL}
    BY <1>1, <1>2, <1>3 DEF UsersTypeOK
  <2> QED
    BY <1>1, <1>2, <1>14, <2>1, <2>2 DEF UsersTypeOK
<1>16. Linked(n, f, user_head, next, Pending)'
  <2>1. CASE n = 0
    BY <1>2, <1>7, <1>12, <2>1 DEF Linked
  <2>2. CASE n # 0
    <3>0. user_head # NULL /\ Last = f[n] /\ n \in 1 .. n
      BY <1>12, <1>13, <2>2
    <3>1. next' = [next EXCEPT ![f[n]] = i] /\ user_head' = user_head /\ n \in 1 .. n
      BY <1>2, <3>0
    <3>2. \A k \in 1 .. n : next'[f[k]] = IF f[k] = f[n] THEN i ELSE next[f[k]]
      BY <1>1, <1>11, <3>1 DEF UsersTypeOK
    <3>3. \A j, k \in 1 .. n : f[j] = f[k] => j = k
      BY <1>10 DEF Linked
    <3>4. \A k \in 1 .. n : next'[f[k]] = IF k = n THEN i ELSE f[k + 1]
      BY <1>10, <3>1, <3>2, <3>3 DEF Linked
    <3> QED
      BY <1>7, <1>10, <2>2, <3>1, <3>3, <3>4 DEF Linked
  <2> QED
    BY <2>1, <2>2
<1>17. Holds(n, f)'
  BY <1>2, <1>4, <1>9 DEF IsTheList, Holds
<1>18. Allocated(n, f)'
  <2>1. \A v \in Doomed : v \in User /\ v # u /\ node'[v] = node[v]
    BY <1>2, <1>4 DEF Doomed
  <2>2. live = {f[k] : k \in 1 .. n} \cup {node[v] : v \in Doomed}
    BY <1>7, <1>9 DEF IsTheList, Allocated
  <2>3. live' = {f[k] : k \in 1 .. n} \cup ({i} \ {NULL}) \cup {node'[v] : v \in Doomed}
    BY <1>2, <1>3, <2>1, <2>2
  <2>4. (\A k \in 1 .. n : f[k] # i) /\ \A v \in Doomed : node[v] # i
    BY <1>3, <2>2
  <2>5. \A v \in User : upc'[v] = "fill" => node'[v] \in Node
    BY <1>3, <1>4, <1>5
  <2>6. \A v \in Doomed : /\ node[v] \in Node /\ \A k \in 1 .. n : f[k] # node[v]
                          /\ \A x \in Doomed : node[v] = node[x] => v = x
    BY <1>9 DEF IsTheList, Allocated
  <2> QED
    BY <1>7, <2>1, <2>3, <2>4, <2>5, <2>6 DEF Allocated
<1>19. Walked(n, f)'
  BY <1>2 DEF Walked
<1>20. IsTheList(n, f)'
  BY <1>16, <1>17, <1>18, <1>19 DEF IsTheList
<1> QED
  BY <1>6, <1>15, <1>20, ListAfter DEF UsersInv

(* The node that was linked becomes the last of the list, with the highest *)
(* id; no walk that is undisturbed began while it was pending.             *)
LEMMA CreateFillInv ==
    ASSUME UsersInv, NEW u \in User, CreateFill(u)
    PROVE  UsersInv'
<1> USE UsersAssumption
<1>0. PICK i : i = node[u]
  OBVIOUS
<1>1. UsersTypeOK /\ LockInv
  BY DEF UsersInv
<1>2. /\ upc[u] = "fill" /\ user_lock' = None
      /\ next' = [next EXCEPT ![i] = NULL] /\ user' = [user EXCEPT ![i] = u]
      /\ user_id' = [user_id EXCEPT ![u] = current_highest_id]
      /\ current_highest_id' = current_highest_id + 1
      /\ upc' = [upc EXCEPT ![u] = "listed"]
      /\ user_head' = user_head /\ live' = live /\ node' = node
      /\ wpc' = wpc /\ at' = at /\ told' = told /\ quiet' = quiet
  BY <1>0 DEF CreateFill, walks
<1>3. /\ upc'[u] = "listed" /\ \A v \in User : v # u => upc'[v] = upc[v]
      /\ user_id'[u] = current_highest_id /\ \A v \in User : v # u => user_id'[v] = user_id[v]
      /\ current_highest_id \in Nat /\ user_id \in [User -> Nat]
  BY <1>1, <1>2 DEF UsersTypeOK
<1>4. user_lock = u /\ u # None /\ \A v \in User : v # u => upc[v] \notin {"create", "fill"}
  BY <1>1, <1>2 DEF LockInv
<1>5. LockInv'
  BY <1>1, <1>2, <1>3, <1>4 DEF LockInv
<1>6. Pending = i /\ Pending' = NULL /\ Doomed' = Doomed
  BY <1>0, <1>2, <1>3, <1>4 DEF Pending, Doomed
<1>7. PICK n \in 0 .. NNode : \E f \in [1 .. n -> Node] : IsTheList(n, f)
  BY DEF UsersInv, ListInv
<1>8. PICK f \in [1 .. n -> Node] : IsTheList(n, f)
  BY <1>7
<1>9. i \in Node /\ i # NULL
  <2>1. i \in Node
    BY <1>0, <1>2, <1>8 DEF IsTheList, Allocated
  <2> QED
    BY <2>1 DEF Node, NULL
<1>10. Linked(n, f, user_head, next, i)
  BY <1>6, <1>8 DEF IsTheList
<1>11. \A k \in 1 .. n : f[k] \in Node /\ f[k] # i
  BY <1>6, <1>8, <1>9 DEF IsTheList, Allocated
<1>12. UsersTypeOK'
  BY <1>1, <1>2, <1>9 DEF UsersTypeOK, UPC
<1>13a. PICK m \in Nat : m = n + 1
  OBVIOUS
<1>13b. /\ m \in 1 .. m /\ n \in Nat /\ (\A k \in 1 .. m : k # m => k \in 1 .. n)
        /\ \A k \in 1 .. n : k \in 1 .. m /\ k # m /\ k + 1 \in 1 .. m
  BY <1>13a
<1>13. PICK g \in [1 .. m -> Node] : g[m] = i /\ \A k \in 1 .. n : g[k] = f[k]
  <2> DEFINE h == [k \in 1 .. m |-> IF k = m THEN i ELSE f[k]]
  <2>1. h \in [1 .. m -> Node] /\ h[m] = i /\ \A k \in 1 .. n : h[k] = f[k]
    BY <1>9, <1>11, <1>13b
  <2> HIDE DEF h
  <2> QED
    BY <2>1
<1>14. \A j, k \in 1 .. m : g[j] = g[k] => j = k
  BY <1>10, <1>11, <1>13, <1>13a, <1>13b, <1>13b DEF Linked
<1>15. m \in 0 .. NNode
  <2>1. m <= NNode /\ Cardinality({g[k] : k \in 1 .. m}) = m
    BY <1>14, ListLength
  <2> QED
    BY <2>1
<1>16. /\ next'[i] = NULL /\ user'[i] = u
       /\ \A k \in 1 .. n : next'[f[k]] = next[f[k]] /\ user'[f[k]] = user[f[k]]
  BY <1>1, <1>2, <1>9, <1>11 DEF UsersTypeOK
<1>17. Linked(m, g, user_head, next, Pending)'
  <2>1. user_head' = g[1]
    BY <1>2, <1>10, <1>13, <1>13a, <1>13b DEF Linked
  <2>2. ASSUME NEW k \in 1 .. m
        PROVE  next'[g[k]] = IF k = m THEN NULL ELSE g[k + 1]
    <3>1. CASE k = m
      BY <1>13, <1>13a, <1>13b, <1>16, <3>1
    <3>2. CASE k # m
      <4>1. k \in 1 .. n /\ g[k] = f[k] /\ next'[g[k]] = next[f[k]]
        BY <1>13, <1>13a, <1>13b, <1>16, <3>2
      <4>2. next[f[k]] = IF k = n THEN i ELSE f[k + 1]
        BY <1>10, <4>1 DEF Linked
      <4>3. k # n => k + 1 \in 1 .. n
        BY <4>1
      <4> QED
        BY <1>13, <1>13a, <1>13b, <3>2, <4>1, <4>2, <4>3
    <3> QED
      BY <3>1, <3>2
  <2> QED
    BY <1>6, <1>13b, <1>14, <2>1, <2>2 DEF Linked
<1>18. /\ \A k \in 1 .. n : /\ user[f[k]] \in User /\ user[f[k]] # u /\ upc[user[f[k]]] = "listed"
                            /\ user_id[user[f[k]]] < current_highest_id
       /\ \A v \in User : upc[v] = "listed" => \E k \in 1 .. n : user[f[k]] = v
       /\ \A j, k \in 1 .. n : j < k => user_id[user[f[j]]] < user_id[user[f[k]]]
  BY <1>2, <1>8 DEF IsTheList, Holds
<1>19. Holds(m, g)'
  <2>1. user'[g[m]] = u /\ \A k \in 1 .. n : user'[g[k]] = user[f[k]]
    BY <1>13, <1>13a, <1>13b, <1>16
  <2>2. \A k \in 1 .. m : user'[g[k]] \in User /\ upc'[user'[g[k]]] = "listed"
    <3>1. user'[g[m]] \in User /\ upc'[user'[g[m]]] = "listed"
      BY <1>3, <2>1
    <3>2. ASSUME NEW k \in 1 .. n
          PROVE  user'[g[k]] \in User /\ upc'[user'[g[k]]] = "listed"
      <4>1. user'[g[k]] = user[f[k]] /\ user[f[k]] \in User /\ user[f[k]] # u
            /\ upc[user[f[k]]] = "listed"
        BY <1>18, <2>1, Zenon
      <4> QED
        BY <1>3, <4>1, Zenon
    <3> QED
      BY <1>13b, <3>1, <3>2, Zenon
  <2>3. \A v \in User : upc'[v] = "listed" => \E k \in 1 .. m : user'[g[k]] = v
    <3> SUFFICES ASSUME NEW v \in User, upc'[v] = "listed"
                 PROVE  \E k \in 1 .. m : user'[g[k]] = v
      OBVIOUS
    <3>1. CASE v = u
      BY <1>13b, <2>1, <3>1
    <3>2. CASE v # u
      <4>1. PICK k \in 1 .. n : user[f[k]] = v
        BY <1>3, <1>18, <3>2
      <4> QED
        BY <1>13b, <2>1, <4>1
    <3> QED
      BY <3>1, <3>2
  <2>4. \A k \in 1 .. n : user_id'[user'[g[k]]] = user_id[user[f[k]]]
    BY <1>3, <1>18, <2>1
  <2>5. user_id'[user'[g[m]]] = current_highest_id
    BY <1>3, <2>1
  <2>6. \A k \in 1 .. n : user_id[user[f[k]]] \in Nat
    BY <1>3, <1>18
  <2>7. \A j, k \in 1 .. m : j < k => user_id'[user'[g[j]]] < user_id'[user'[g[k]]]
    <3> SUFFICES ASSUME NEW j \in 1 .. m, NEW k \in 1 .. m, j < k
                 PROVE  user_id'[user'[g[j]]] < user_id'[user'[g[k]]]
      OBVIOUS
    <3>1. j \in 1 .. n
      BY <1>13a
    <3>2. CASE k = m
      BY <1>18, <2>4, <2>5, <3>1, <3>2
    <3>3. CASE k \in 1 .. n
      BY <1>18, <2>4, <3>1, <3>3
    <3> QED
      BY <1>13, <1>13a, <1>13b, <3>2, <3>3
  <2>8. \A k \in 1 .. m : user_id'[user'[g[k]]] < current_highest_id'
    <3> TAKE k \in 1 .. m
    <3>1. CASE k = m
      BY <1>2, <1>3, <2>5, <3>1
    <3>2. CASE k \in 1 .. n
      BY <1>2, <1>3, <1>18, <2>4, <2>6, <3>2
    <3> QED
      BY <1>13, <1>13a, <1>13b, <3>1, <3>2
  <2> QED
    BY <2>2, <2>3, <2>7, <2>8 DEF Holds
<1>20. Allocated(m, g)'
  <2>1. {g[k] : k \in 1 .. m} = {f[k] : k \in 1 .. n} \cup {i}
    BY <1>13, <1>13b
  <2>2. live = {f[k] : k \in 1 .. n} \cup ({i} \ {NULL}) \cup {node[v] : v \in Doomed}
    BY <1>6, <1>8 DEF IsTheList, Allocated
  <2>3. live' = {g[k] : k \in 1 .. m} \cup ({NULL} \ {NULL}) \cup {node'[v] : v \in Doomed}
    <3> DEFINE A == {f[k] : k \in 1 .. n}
               B == {node[v] : v \in Doomed}
               C == {g[k] : k \in 1 .. m}
    <3>1. live = A \cup ({i} \ {NULL}) \cup B /\ C = A \cup {i}
      BY <2>1, <2>2
    <3>2. live' = live /\ {node'[v] : v \in Doomed} = B
      BY <1>2
    <3> HIDE DEF A, B, C
    <3>3. live' = C \cup ({NULL} \ {NULL}) \cup B
      BY <1>9, <3>1, <3>2
    <3> QED
      BY <3>2, <3>3 DEF C
  <2>4. \A v \in User : upc'[v] = "fill" => node'[v] \in Node
    BY <1>3, <1>4
  <2>5. ASSUME NEW v \in Doomed
        PROVE  /\ node[v] \in Node /\ node[v] # NULL
               /\ \A k \in 1 .. m : g[k] # node[v]
               /\ \A x \in Doomed : node[v] = node[x] => v = x
    <3>1. /\ node[v] \in Node /\ node[v] # i /\ \A k \in 1 .. n : f[k] # node[v]
          /\ \A x \in Doomed : node[v] = node[x] => v = x
      BY <1>6, <1>8 DEF IsTheList, Allocated
    <3>2. node[v] # NULL
      BY <3>1 DEF Node, NULL
    <3> QED
      BY <1>13, <1>13a, <1>13b, <3>1, <3>2
  <2> QED
    BY <1>2, <1>6, <2>3, <2>4, <2>5 DEF Allocated
<1>21. Walked(m, g)'
  <2>1. \A w \in Walker : ~(quiet[w] /\ wpc[w] \in {"call", "next", "end"})
    BY <1>6, <1>8, <1>9 DEF IsTheList, Walked
  <2> QED
    BY <1>2, <2>1 DEF Walked
<1>22. IsTheList(m, g)'
  BY <1>17, <1>19, <1>20, <1>21 DEF IsTheList
<1> QED
  BY <1>5, <1>12, <1>13, <1>13a, <1>13b, <1>15, <1>22, ListAfter DEF UsersInv

(* The node that was unlinked is freed.                                    *)
LEMMA DestroyFreeInv ==
    ASSUME UsersInv, NEW u \in User, DestroyFree(u)
    PROVE  UsersInv'
<1> USE UsersAssumption
<1>1. UsersTypeOK /\ LockInv
  BY DEF UsersInv
<1>2. /\ upc[u] = "kfree" /\ live' = live \ {node[u]} /\ upc' = [upc EXCEPT ![u] = "out"]
      /\ user_head' = user_head /\ next' = next /\ user' = user /\ user_lock' = user_lock
      /\ user_id' = user_id /\ current_highest_id' = current_highest_id
      /\ node' = node /\ wpc' = wpc /\ at' = at /\ told' = told /\ quiet' = quiet
  BY DEF DestroyFree, ids, walks
<1>3. upc'[u] = "out" /\ \A v \in User : v # u => upc'[v] = upc[v]
  BY <1>1, <1>2 DEF UsersTypeOK
<1>4. UsersTypeOK'
  BY <1>1, <1>2 DEF UsersTypeOK, UPC
<1>5. LockInv'
  BY <1>1, <1>2, <1>3 DEF LockInv
<1>6. Pending' = Pending
  <2>1. user_lock # u
    BY <1>1, <1>2 DEF LockInv
  <2>2. user_lock \in User => upc'[user_lock] = upc[user_lock]
    BY <1>3, <2>1
  <2> QED
    BY <1>2, <2>2 DEF Pending
<1>7. Doomed' = Doomed \ {u} /\ u \in Doomed
  BY <1>2, <1>3 DEF Doomed
<1>8. PICK n \in 0 .. NNode : \E f \in [1 .. n -> Node] : IsTheList(n, f)
  BY DEF UsersInv, ListInv
<1>9. PICK f \in [1 .. n -> Node] : IsTheList(n, f)
  BY <1>8
<1>10. Linked(n, f, user_head, next, Pending)'
  BY <1>2, <1>6, <1>9 DEF IsTheList, Linked
<1>11. Holds(n, f)'
  BY <1>2, <1>3, <1>9 DEF IsTheList, Holds
<1>12. Allocated(n, f)'
  <2>1. /\ live = {f[k] : k \in 1 .. n} \cup ({Pending} \ {NULL}) \cup {node[v] : v \in Doomed}
        /\ Pending # NULL => \A k \in 1 .. n : f[k] # Pending
        /\ \A v \in User : upc[v] = "fill" => node[v] \in Node
        /\ \A v \in Doomed : /\ node[v] \in Node /\ node[v] # Pending
                             /\ \A k \in 1 .. n : f[k] # node[v]
                             /\ \A x \in Doomed : node[v] = node[x] => v = x
    BY <1>9 DEF IsTheList, Allocated
  <2>2. {node[v] : v \in Doomed} \ {node[u]} = {node[v] : v \in Doomed \ {u}}
    BY <1>7, <2>1
  <2>3. live' = {f[k] : k \in 1 .. n} \cup ({Pending} \ {NULL}) \cup {node'[v] : v \in Doomed'}
    BY <1>2, <1>7, <2>1, <2>2
  <2> QED
    BY <1>2, <1>3, <1>6, <1>7, <2>1, <2>3 DEF Allocated
<1>13. Walked(n, f)'
  BY <1>2, <1>6, <1>9, WalkKept DEF IsTheList
<1>14. IsTheList(n, f)'
  BY <1>10, <1>11, <1>12, <1>13 DEF IsTheList
<1> QED
  BY <1>4, <1>5, <1>14, ListAfter DEF UsersInv

(* The node with the id of a user that is listed is the user's own.        *)
LEMMA FoundById ==
    ASSUME UsersTypeOK, NEW n \in 0 .. NNode, NEW f \in [1 .. n -> Node],
           Linked(n, f, user_head, next, NULL), Holds(n, f),
           NEW p \in 1 .. n
    PROVE  /\ WithId(user[f[p]]) = {p - 1} /\ Min(WithId(user[f[p]])) = p - 1
           /\ Chain[p - 1] = f[p] /\ (p > 1 => Chain[p - 2] = f[p - 1])
           /\ \A k \in 1 .. n : k # p => user[f[k]] # user[f[p]]
<1> USE UsersAssumption
<1>1. Chain = [k \in 0 .. NNode |-> IF k < n THEN f[k + 1] ELSE NULL]
  BY ChainFollows
<1>2. \A k \in 1 .. n : f[k] \in Node /\ f[k] # NULL /\ user[f[k]] \in User
  BY DEF Node, NULL, Holds
<1>3. \A k \in 1 .. n : user_id[user[f[k]]] \in Nat
  BY <1>2 DEF UsersTypeOK
<1>4. \A k \in 1 .. n : k # p => user_id[user[f[k]]] # user_id[user[f[p]]]
  <2> TAKE k \in 1 .. n
  <2>1. k < p => user_id[user[f[k]]] < user_id[user[f[p]]]
    BY DEF Holds
  <2>2. p < k => user_id[user[f[p]]] < user_id[user[f[k]]]
    BY DEF Holds
  <2> QED
    BY <1>3, <2>1, <2>2
<1>5. \A k \in 0 .. NNode : Chain[k] # NULL => k + 1 \in 1 .. n /\ Chain[k] = f[k + 1]
  BY <1>1
<1>6. \A k \in 1 .. n : k - 1 \in 0 .. NNode /\ Chain[k - 1] = f[k]
  BY <1>1
<1>7. WithId(user[f[p]]) = {p - 1}
  <2>1. p - 1 \in WithId(user[f[p]])
    BY <1>2, <1>6 DEF WithId
  <2>2. ASSUME NEW k \in WithId(user[f[p]])
        PROVE  k = p - 1
    <3>1. k \in 0 .. NNode /\ Chain[k] # NULL /\ user_id[user[Chain[k]]] = user_id[user[f[p]]]
      BY DEF WithId
    <3>2. k + 1 \in 1 .. n /\ Chain[k] = f[k + 1]
      BY <1>5, <3>1
    <3>3. k + 1 = p
      BY <1>4, <3>1, <3>2
    <3> QED
      BY <3>1, <3>3
  <2> QED
    BY <2>1, <2>2
<1>8. Min({p - 1}) = p - 1
  BY DEF Min
<1>9. p > 1 => Chain[p - 2] = f[p - 1]
  <2> SUFFICES ASSUME p > 1
               PROVE  Chain[p - 2] = f[p - 1]
    OBVIOUS
  <2>1. p - 1 \in 1 .. n /\ (p - 1) - 1 = p - 2
    OBVIOUS
  <2> QED
    BY <1>6, <2>1
<1> QED
  BY <1>4, <1>6, <1>7, <1>8, <1>9

(* Taking the node p out of the list.                                      *)
LEMMA Unlinked ==
    ASSUME NEW n \in 0 .. NNode, NEW f \in [1 .. n -> Node], NEW p \in 1 .. n,
           NEW head, NEW nx \in [Node -> Node \cup {NULL}], Linked(n, f, head, nx, NULL),
           NEW m \in Nat, m = n - 1, NEW g \in [1 .. m -> Node],
           \A k \in 1 .. m : g[k] = IF k < p THEN f[k] ELSE f[k + 1]
    PROVE  Linked(m, g, IF p = 1 THEN nx[f[p]] ELSE head,
                  IF p = 1 THEN nx ELSE [nx EXCEPT ![f[p - 1]] = nx[f[p]]], NULL)
<1> DEFINE ny == IF p = 1 THEN nx ELSE [nx EXCEPT ![f[p - 1]] = nx[f[p]]]
<1>1. /\ \A j, k \in 1 .. n : f[j] = f[k] => j = k
      /\ head = f[1] /\ \A k \in 1 .. n : nx[f[k]] = IF k = n THEN NULL ELSE f[k + 1]
  BY DEF Linked
<1>2. \A k \in 1 .. m : k \in 1 .. n /\ k + 1 \in 1 .. n
  OBVIOUS
<1>3. \A j, k \in 1 .. m : g[j] = g[k] => j = k
  BY <1>1, <1>2
<1>4. (IF p = 1 THEN nx[f[p]] ELSE head) = IF m = 0 THEN NULL ELSE g[1]
  <2>1. CASE p = 1
    BY <1>1, <2>1
  <2>2. CASE p # 1
    BY <1>1, <2>2
  <2> QED
    BY <2>1, <2>2
<1>5. \A k \in 1 .. n : ny[f[k]] = IF k = p - 1 THEN nx[f[p]] ELSE nx[f[k]]
  <2> TAKE k \in 1 .. n
  <2>1. CASE p = 1
    BY <2>1
  <2>2. CASE p # 1
    <3>1. p - 1 \in 1 .. n /\ f[k] \in Node /\ f[p - 1] \in Node
      BY <2>2
    <3>2. f[k] = f[p - 1] <=> k = p - 1
      BY <1>1, <3>1
    <3>3. ny = [nx EXCEPT ![f[p - 1]] = nx[f[p]]]
      BY <2>2
    <3> HIDE DEF ny
    <3> QED
      BY <3>1, <3>2, <3>3
  <2> QED
    BY <2>1, <2>2
<1> HIDE DEF ny
<1>6. ASSUME NEW k \in 1 .. m
      PROVE  ny[g[k]] = IF k = m THEN NULL ELSE g[k + 1]
  <2>1. CASE k < p - 1
    <3>1. g[k] = f[k] /\ g[k + 1] = f[k + 1] /\ k # m /\ k # n
      BY <1>2, <2>1
    <3> QED
      BY <1>1, <1>2, <1>5, <2>1, <3>1
  <2>2. CASE k = p - 1
    <3>1. g[k] = f[k] /\ ny[f[k]] = nx[f[p]]
      BY <1>2, <1>5, <2>2
    <3>2. nx[f[p]] = IF p = n THEN NULL ELSE f[p + 1]
      BY <1>1
    <3>3. k # m => k + 1 \in 1 .. m /\ g[k + 1] = f[p + 1]
      BY <2>2
    <3> QED
      BY <2>2, <3>1, <3>2, <3>3
  <2>3. CASE k > p - 1
    <3>1. g[k] = f[k + 1] /\ k + 1 # p - 1
      BY <1>2, <2>3
    <3>2. ny[f[k + 1]] = IF k + 1 = n THEN NULL ELSE f[k + 2]
      BY <1>1, <1>2, <1>5, <3>1
    <3>3. k # m => g[k + 1] = f[k + 2]
      BY <1>2, <2>3
    <3> QED
      BY <3>1, <3>2, <3>3
  <2> QED
    BY <2>1, <2>2, <2>3
<1> QED
  BY <1>3, <1>4, <1>6 DEF Linked, ny

(* One that dies in the search for its node leaves the list alone.         *)
LEMMA DestroyDiesInv ==
    ASSUME UsersInv, NEW u \in User, NEW G, DestroyDies(u, G)
    PROVE  UsersInv'
<1> USE UsersAssumption
<1>1. UsersTypeOK /\ LockInv
  BY DEF UsersInv
<1>2. /\ user_lock = None /\ user_lock' = Dead /\ upc' = upc
      /\ user_head' = user_head /\ next' = next /\ user' = user /\ live' = live
      /\ user_id' = user_id /\ current_highest_id' = current_highest_id
      /\ node' = node /\ wpc' = wpc /\ at' = at /\ told' = told /\ quiet' = quiet
  BY DEF DestroyDies, list, ids, calls, walks
<1>3. Dead \notin User /\ None \notin User
  OBVIOUS
<1>4. UsersTypeOK' /\ LockInv'
  BY <1>1, <1>2, <1>3 DEF UsersTypeOK, LockInv
<1>5. Pending = NULL /\ Pending' = NULL /\ Doomed' = Doomed
  BY <1>2, <1>3 DEF Pending, Doomed
<1>6. PICK n \in 0 .. NNode : \E f \in [1 .. n -> Node] : IsTheList(n, f)
  BY DEF UsersInv, ListInv
<1>7. PICK f \in [1 .. n -> Node] : IsTheList(n, f)
  BY <1>6
<1>8. Linked(n, f, user_head, next, Pending)' /\ Holds(n, f)' /\ Allocated(n, f)'
  BY <1>2, <1>5, <1>7 DEF IsTheList, Linked, Holds, Allocated
<1>9. Walked(n, f)'
  BY <1>2, <1>5, <1>7, WalkKept DEF IsTheList
<1>10. IsTheList(n, f)'
  BY <1>8, <1>9 DEF IsTheList
<1> QED
  BY <1>4, <1>10, ListAfter DEF UsersInv

(* A user that deregisters takes its own node out of the list.             *)
LEMMA DestroyUnlinkInv ==
    ASSUME UsersInv, NEW u \in User, upc[u] = "listed", NEW G, DestroyUnlink(u, G)
    PROVE  UsersInv'
<1> USE UsersAssumption
<1>1. UsersTypeOK /\ LockInv
  BY DEF UsersInv
<1>2. PICK n \in 0 .. NNode : \E f \in [1 .. n -> Node] : IsTheList(n, f)
  BY DEF UsersInv, ListInv
<1>3. PICK f \in [1 .. n -> Node] : IsTheList(n, f)
  BY <1>2
<1>4. user_lock = None /\ user_lock' = None
  BY DEF DestroyUnlink
<1>5. Pending = NULL /\ Pending' = NULL
  BY <1>4 DEF Pending
<1>6. Linked(n, f, user_head, next, NULL) /\ Holds(n, f) /\ Allocated(n, f)
  BY <1>3, <1>5 DEF IsTheList
<1>7. PICK p \in 1 .. n : user[f[p]] = u
  BY <1>6 DEF Holds
<1>8. /\ WithId(u) = {p - 1} /\ Min(WithId(u)) = p - 1
      /\ Chain[p - 1] = f[p] /\ (p > 1 => Chain[p - 2] = f[p - 1])
      /\ \A k \in 1 .. n : k # p => user[f[k]] # u
  <2> DEFINE v == user[f[p]]
  <2>1. /\ WithId(v) = {p - 1} /\ Min(WithId(v)) = p - 1
        /\ Chain[p - 1] = f[p] /\ (p > 1 => Chain[p - 2] = f[p - 1])
        /\ \A k \in 1 .. n : k # p => user[f[k]] # v
    <3>1. UsersTypeOK /\ Linked(n, f, user_head, next, NULL) /\ Holds(n, f)
      BY <1>1, <1>6
    <3> QED
      BY ONLY <3>1, FoundById, p \in 1 .. n, n \in 0 .. NNode, f \in [1 .. n -> Node], Zenon
  <2>2. v = u
    BY <1>7
  <2> HIDE DEF v
  <2> QED
    BY <2>1, <2>2
<1>9. WithId(u) # {}
  BY <1>8
<1>10. /\ user_head' = (IF p = 1 THEN next[f[p]] ELSE user_head)
       /\ next' = (IF p = 1 THEN next ELSE [next EXCEPT ![f[p - 1]] = next[f[p]]])
       /\ node' = [node EXCEPT ![u] = f[p]] /\ upc' = [upc EXCEPT ![u] = "kfree"]
       /\ quiet' = [w \in Walker |-> FALSE]
       /\ user' = user /\ live' = live
       /\ user_id' = user_id /\ current_highest_id' = current_highest_id
       /\ wpc' = wpc /\ at' = at /\ told' = told
  <2>1. /\ user_head' = (IF p - 1 = 0 THEN next[Chain[p - 1]] ELSE user_head)
        /\ next' = (IF p - 1 = 0 THEN next ELSE [next EXCEPT ![Chain[p - 1 - 1]] = next[Chain[p - 1]]])
        /\ node' = [node EXCEPT ![u] = Chain[p - 1]] /\ upc' = [upc EXCEPT ![u] = "kfree"]
        /\ quiet' = [w \in Walker |-> FALSE]
        /\ user' = user /\ live' = live
        /\ user_id' = user_id /\ current_highest_id' = current_highest_id
        /\ wpc' = wpc /\ at' = at /\ told' = told
    BY <1>8, <1>9 DEF DestroyUnlink, ids, walks
  <2>2. p - 1 = 0 <=> p = 1
    OBVIOUS
  <2>3. p # 1 => Chain[p - 1 - 1] = f[p - 1]
    <3>1. p - 1 - 1 = p - 2 /\ (p # 1 => p > 1)
      OBVIOUS
    <3> QED
      BY <1>8, <3>1
  <2>4. Chain[p - 1] = f[p]
    BY <1>8
  <2>5. next' = IF p = 1 THEN next ELSE [next EXCEPT ![f[p - 1]] = next[f[p]]]
    <3>1. CASE p = 1
      BY <2>1, <2>2, <3>1
    <3>2. CASE p # 1
      <4>1. next' = [next EXCEPT ![Chain[p - 1 - 1]] = next[Chain[p - 1]]]
        BY <2>1, <2>2, <3>2
      <4>2. Chain[p - 1 - 1] = f[p - 1]
        BY <2>3, <3>2
      <4> QED
        BY <2>4, <3>2, <4>1, <4>2
    <3> QED
      BY <3>1, <3>2
  <2> QED
    BY <2>1, <2>2, <2>4, <2>5
<1>11. /\ upc'[u] = "kfree" /\ \A v \in User : v # u => upc'[v] = upc[v]
       /\ node'[u] = f[p] /\ \A v \in User : v # u => node'[v] = node[v]
  BY <1>1, <1>10 DEF UsersTypeOK
<1>12. LockInv'
  BY <1>1, <1>4, <1>10, <1>11 DEF LockInv
<1>13. f[p] \in Node /\ f[p] # NULL /\ next[f[p]] \in Node \cup {NULL}
  BY <1>1 DEF UsersTypeOK, Node, NULL
<1>14. UsersTypeOK'
  <2>1. user_head' \in Node \cup {NULL} /\ next' \in [Node -> Node \cup {NULL}]
    BY <1>1, <1>10, <1>13 DEF UsersTypeOK
  <2>2. /\ upc' \in [User -> UPC] /\ node' \in [User -> Node \cup {NULL}]
        /\ quiet' \in [Walker -> BOOLEAN]
    BY <1>1, <1>10, <1>13 DEF UsersTypeOK, UPC
  <2> QED
    BY <1>1, <1>4, <1>10, <2>1, <2>2 DEF UsersTypeOK
<1>15. PICK m \in Nat : m = n - 1
  OBVIOUS
<1>16. m \in 0 .. NNode /\ \A k \in 1 .. m : k \in 1 .. n /\ k + 1 \in 1 .. n
  BY <1>15
<1>17. PICK g \in [1 .. m -> Node] : \A k \in 1 .. m : g[k] = IF k < p THEN f[k] ELSE f[k + 1]
  <2> DEFINE h == [k \in 1 .. m |-> IF k < p THEN f[k] ELSE f[k + 1]]
  <2>1. h \in [1 .. m -> Node] /\ \A k \in 1 .. m : h[k] = IF k < p THEN f[k] ELSE f[k + 1]
    BY <1>16
  <2> HIDE DEF h
  <2> QED
    BY <2>1
<1>18. Linked(m, g, user_head, next, Pending)'
  <2>1. next \in [Node -> Node \cup {NULL}]
    BY <1>1 DEF UsersTypeOK
  <2>2. Linked(m, g, user_head', next', NULL)
    BY <1>6, <1>10, <1>15, <1>17, <2>1, Unlinked
  <2> QED
    BY <1>5, <2>2 DEF Linked
<1>19. /\ \A k \in 1 .. m : \E j \in 1 .. n : j # p /\ g[k] = f[j] /\ (k < p <=> j < p)
       /\ \A j \in 1 .. n : j # p => \E k \in 1 .. m : g[k] = f[j]
  <2>1. ASSUME NEW k \in 1 .. m
        PROVE  \E j \in 1 .. n : j # p /\ g[k] = f[j] /\ (k < p <=> j < p)
    BY <1>16, <1>17
  <2>2. ASSUME NEW j \in 1 .. n, j # p
        PROVE  \E k \in 1 .. m : g[k] = f[j]
    <3>1. CASE j < p
      <4>1. j \in 1 .. m /\ g[j] = f[j]
        BY <1>15, <1>17, <3>1
      <4> QED
        BY <4>1
    <3>2. CASE j > p
      <4>1. j - 1 \in 1 .. m /\ g[j - 1] = f[j]
        BY <1>15, <1>17, <3>2
      <4> QED
        BY <4>1
    <3> QED
      BY <2>2, <3>1, <3>2
  <2> QED
    BY <2>1, <2>2
<1>20. Holds(m, g)'
  <2>1. /\ \A k \in 1 .. n : /\ user[f[k]] \in User /\ upc[user[f[k]]] = "listed"
                             /\ user_id[user[f[k]]] < current_highest_id
        /\ \A v \in User : upc[v] = "listed" => \E k \in 1 .. n : user[f[k]] = v
        /\ \A j, k \in 1 .. n : j < k => user_id[user[f[j]]] < user_id[user[f[k]]]
    BY <1>6 DEF Holds
  <2>2. \A k \in 1 .. m : /\ user[g[k]] \in User /\ upc'[user[g[k]]] = "listed"
                          /\ user_id[user[g[k]]] < current_highest_id
    <3> TAKE k \in 1 .. m
    <3>1. PICK j \in 1 .. n : j # p /\ g[k] = f[j]
      BY <1>19
    <3>2. user[f[j]] \in User /\ user[f[j]] # u
      BY <1>8, <2>1, <3>1
    <3>3. upc'[user[f[j]]] = "listed" /\ user_id[user[f[j]]] < current_highest_id
      BY <1>11, <2>1, <3>2
    <3> QED
      BY <3>1, <3>2, <3>3
  <2>3. \A v \in User : upc'[v] = "listed" => \E k \in 1 .. m : user[g[k]] = v
    <3> SUFFICES ASSUME NEW v \in User, upc'[v] = "listed"
                 PROVE  \E k \in 1 .. m : user[g[k]] = v
      OBVIOUS
    <3>1. v # u /\ upc[v] = "listed"
      BY <1>11
    <3>2. PICK j \in 1 .. n : user[f[j]] = v
      BY <2>1, <3>1
    <3>3. j # p
      BY <1>7, <3>1, <3>2
    <3> QED
      BY <1>19, <3>2, <3>3
  <2>4. \A j, k \in 1 .. m : j < k => user_id[user[g[j]]] < user_id[user[g[k]]]
    <3> SUFFICES ASSUME NEW j \in 1 .. m, NEW k \in 1 .. m, j < k
                 PROVE  user_id[user[g[j]]] < user_id[user[g[k]]]
      OBVIOUS
    <3>1. PICK x \in 1 .. n : g[j] = f[x] /\ x = IF j < p THEN j ELSE j + 1
      BY <1>16, <1>17
    <3>2. PICK y \in 1 .. n : g[k] = f[y] /\ y = IF k < p THEN k ELSE k + 1
      BY <1>16, <1>17
    <3>3. x < y
      BY <3>1, <3>2
    <3> QED
      BY <2>1, <3>1, <3>2, <3>3
  <2> QED
    BY <1>10, <2>2, <2>3, <2>4 DEF Holds
<1>21. Allocated(m, g)'
  <2>1. /\ live = {f[k] : k \in 1 .. n} \cup ({NULL} \ {NULL}) \cup {node[v] : v \in Doomed}
        /\ \A v \in User : upc[v] = "fill" => node[v] \in Node
        /\ \A v \in Doomed : /\ node[v] \in Node
                             /\ \A k \in 1 .. n : f[k] # node[v]
                             /\ \A x \in Doomed : node[v] = node[x] => v = x
    BY <1>5, <1>6 DEF Allocated
  <2>2. Doomed' = Doomed \cup {u} /\ u \notin Doomed /\ Doomed \subseteq User
    BY <1>11 DEF Doomed
  <2>3. \A v \in Doomed : node'[v] = node[v]
    BY <1>11, <2>2
  <2>4. {f[k] : k \in 1 .. n} = {g[k] : k \in 1 .. m} \cup {f[p]}
    <3>1. ASSUME NEW k \in 1 .. n
          PROVE  f[k] \in {g[j] : j \in 1 .. m} \cup {f[p]}
      <4>1. CASE k = p
        BY <4>1
      <4>2. CASE k # p
        BY <1>19, <4>2
      <4> QED
        BY <4>1, <4>2
    <3>2. ASSUME NEW k \in 1 .. m
          PROVE  g[k] \in {f[j] : j \in 1 .. n}
      BY <1>19
    <3> QED
      BY <3>1, <3>2
  <2>5. {node'[v] : v \in Doomed'} = {node[v] : v \in Doomed} \cup {f[p]}
    BY <1>11, <2>2, <2>3
  <2>6. live' = {g[k] : k \in 1 .. m} \cup ({NULL} \ {NULL}) \cup {node'[v] : v \in Doomed'}
    <3> DEFINE A == {f[k] : k \in 1 .. n}
               B == {node[v] : v \in Doomed}
               C == {g[k] : k \in 1 .. m}
               D == {node'[v] : v \in Doomed'}
    <3>1. live = A \cup ({NULL} \ {NULL}) \cup B /\ A = C \cup {f[p]} /\ D = B \cup {f[p]} /\ live' = live
      BY <1>10, <2>1, <2>4, <2>5
    <3> HIDE DEF A, B, C, D
    <3>2. live' = C \cup ({NULL} \ {NULL}) \cup D
      BY <3>1
    <3> QED
      BY <3>2 DEF C, D
  <2>7. \A k \in 1 .. m : g[k] # f[p]
    BY <1>6, <1>19 DEF Linked
  <2>8. \A v \in User : upc'[v] = "fill" => node'[v] \in Node
    BY <1>11, <2>1
  <2>9. ASSUME NEW v \in Doomed'
        PROVE  /\ node'[v] \in Node /\ node'[v] # NULL
               /\ \A k \in 1 .. m : g[k] # node'[v]
               /\ \A x \in Doomed' : node'[v] = node'[x] => v = x
    <3>1. \A x \in Doomed : node'[x] = node[x] /\ node[x] # f[p]
      BY <2>1, <2>3
    <3>2. CASE v = u
      BY <1>11, <1>13, <2>2, <2>7, <3>1, <3>2
    <3>3. CASE v \in Doomed
      <4>1. node[v] \in Node /\ node[v] # NULL /\ node'[v] = node[v]
        <5>1. node[v] \in Node /\ node'[v] = node[v]
          BY <2>1, <3>1, <3>3
        <5> QED
          BY <5>1 DEF Node, NULL
      <4>2. \A k \in 1 .. m : g[k] # node[v]
        BY <1>19, <2>1, <3>3
      <4>3. \A x \in Doomed' : node'[v] = node'[x] => v = x
        BY <1>11, <2>1, <2>2, <3>1, <3>3
      <4> QED
        BY <4>1, <4>2, <4>3
    <3> QED
      BY <2>2, <3>2, <3>3
  <2> QED
    BY <1>5, <2>6, <2>8, <2>9 DEF Allocated
<1>22. Walked(m, g)'
  BY <1>10 DEF Walked
<1>23. IsTheList(m, g)'
  BY <1>18, <1>20, <1>21, <1>22 DEF IsTheList
<1> QED
  BY <1>12, <1>14, <1>16, <1>23, ListAfter DEF UsersInv

(* When the module is loaded again the list is empty; the users that were  *)
(* listed are out, and their nodes freed.                                  *)
LEMMA ReloadUsersInv ==
    ASSUME UsersInv, \A w \in Walker : wpc[w] = "idle", ReloadUsers
    PROVE  UsersInv'
<1> USE UsersAssumption
<1>1. UsersTypeOK /\ LockInv
  BY DEF UsersInv
<1>2. /\ user_lock = None /\ user_lock' = None /\ user_head' = NULL
      /\ live' = live \ Listed /\ current_highest_id' = 0
      /\ upc' = [u \in User |-> IF upc[u] = "listed" THEN "out" ELSE upc[u]]
      /\ next' = next /\ user' = user /\ user_id' = user_id /\ node' = node
      /\ wpc' = wpc /\ at' = at /\ told' = told /\ quiet' = quiet
  BY DEF ReloadUsers, walks
<1>3. \A u \in User : /\ upc'[u] # "listed" /\ (upc'[u] = "kfree" <=> upc[u] = "kfree")
                      /\ (upc'[u] = "fill" <=> upc[u] = "fill")
                      /\ (upc'[u] = "create" <=> upc[u] = "create")
                      /\ (upc'[u] = "failed" <=> upc[u] = "failed")
  BY <1>2
<1>4. UsersTypeOK'
  <2>1. upc' \in [User -> UPC]
    BY <1>1, <1>2 DEF UsersTypeOK, UPC
  <2> QED
    BY <1>1, <1>2, <2>1 DEF UsersTypeOK
<1>5. LockInv'
  BY <1>1, <1>2, <1>3 DEF LockInv
<1>6. Pending = NULL /\ Pending' = NULL /\ Doomed' = Doomed
  BY <1>2, <1>3 DEF Pending, Doomed
<1>7. PICK n \in 0 .. NNode : \E f \in [1 .. n -> Node] : IsTheList(n, f)
  BY DEF UsersInv, ListInv
<1>8. PICK f \in [1 .. n -> Node] : IsTheList(n, f)
  BY <1>7
<1>9. Listed = {f[k] : k \in 1 .. n}
  <2>1. Linked(n, f, user_head, next, NULL)
    BY <1>6, <1>8 DEF IsTheList
  <2> QED
    BY <2>1, ChainFollows
<1>10. PICK g \in [1 .. 0 -> Node] : TRUE
  <2> DEFINE h == [k \in 1 .. 0 |-> NULL]
  <2>1. h \in [1 .. 0 -> Node]
    OBVIOUS
  <2> QED
    BY <2>1
<1>11. Linked(0, g, user_head, next, Pending)' /\ Holds(0, g)'
  BY <1>2, <1>3, <1>6 DEF Linked, Holds
<1>12. Allocated(0, g)'
  <2>1. /\ live = {f[k] : k \in 1 .. n} \cup ({NULL} \ {NULL}) \cup {node[v] : v \in Doomed}
        /\ \A v \in User : upc[v] = "fill" => node[v] \in Node
        /\ \A v \in Doomed : /\ node[v] \in Node /\ node[v] # NULL
                             /\ \A k \in 1 .. n : f[k] # node[v]
                             /\ \A x \in Doomed : node[v] = node[x] => v = x
    BY <1>6, <1>8 DEF IsTheList, Allocated
  <2>2. live' = {node[v] : v \in Doomed}
    <3> DEFINE A == {f[k] : k \in 1 .. n}
               B == {node[v] : v \in Doomed}
    <3>1. \A x \in B : x \notin A
      BY <2>1
    <3>2. live = A \cup ({NULL} \ {NULL}) \cup B /\ live' = live \ A
      BY <1>2, <1>9, <2>1
    <3> HIDE DEF A, B
    <3>3. live' = B
      BY <3>1, <3>2
    <3> QED
      BY <3>3 DEF B
  <2>3. {g[k] : k \in 1 .. 0} = {}
    OBVIOUS
  <2> QED
    BY <1>2, <1>3, <1>6, <2>1, <2>2, <2>3 DEF Allocated
<1>13. Walked(0, g)'
  BY <1>2 DEF Walked
<1>14. IsTheList(0, g)' /\ 0 \in 0 .. NNode
  BY <1>11, <1>12, <1>13 DEF IsTheList
<1> QED
  BY <1>4, <1>5, <1>14, ListAfter DEF UsersInv

-----------------------------------------------------------------------------
(* What a walk that has not been disturbed has done by the time it is at   *)
(* pc, with the node i, having informed t.                                 *)
Reached(n, f, pc, i, t) ==
    /\ Pending = NULL
    /\ pc = "call" => \E k \in 1 .. n : i = f[k] /\ t = [j \in 1 .. k - 1 |-> user[f[j]]]
    /\ pc = "next" => \E k \in 1 .. n : i = f[k] /\ t = [j \in 1 .. k |-> user[f[j]]]
    /\ pc = "end" => t = [j \in 1 .. n |-> user[f[j]]]

(* A step of a walk leaves the list and the other walks as they are.       *)
LEMMA WalkStep ==
    ASSUME UsersInv, NEW n \in 0 .. NNode, NEW f \in [1 .. n -> Node], IsTheList(n, f),
           NEW w \in Walker, UNCHANGED <<list, user_lock, ids, calls>>,
           wpc' \in [Walker -> WPC], at' \in [Walker -> Node \cup {NULL}],
           told' \in [Walker -> Seq(User)], quiet' \in [Walker -> BOOLEAN],
           wpc'[w] \in {"call", "next"} => at'[w] \in Node,
           \A v \in Walker : v # w => /\ wpc'[v] = wpc[v] /\ at'[v] = at[v]
                                      /\ told'[v] = told[v] /\ quiet'[v] = quiet[v],
           quiet'[w] /\ wpc'[w] \in {"call", "next", "end"} =>
               Reached(n, f, wpc'[w], at'[w], told'[w])
    PROVE  UsersInv'
<1>1. UsersTypeOK /\ LockInv
  BY DEF UsersInv
<1>2. /\ user_head' = user_head /\ next' = next /\ user' = user /\ live' = live
      /\ user_lock' = user_lock /\ user_id' = user_id /\ current_highest_id' = current_highest_id
      /\ upc' = upc /\ node' = node
  BY DEF list, ids, calls
<1>3. UsersTypeOK'
  BY <1>1, <1>2 DEF UsersTypeOK
<1>4. LockInv'
  BY <1>1, <1>2 DEF LockInv
<1>5. Pending' = Pending /\ Doomed' = Doomed
  BY <1>2 DEF Pending, Doomed
<1>6. Linked(n, f, user_head, next, Pending)'
  BY <1>2, <1>5 DEF IsTheList, Linked
<1>7. Holds(n, f)'
  BY <1>2 DEF IsTheList, Holds
<1>8. Allocated(n, f)'
  BY <1>2, <1>5 DEF IsTheList, Allocated
<1>9. Walked(n, f)'
  <2>1. ASSUME NEW v \in Walker, v # w, NEW k
        PROVE  Told(v, f, k)' <=> Told(v, f, k)
    BY <1>2, <2>1 DEF Told
  <2>2. ASSUME NEW k
        PROVE  Told(w, f, k)' <=> told'[w] = [j \in 1 .. k |-> user[f[j]]]
    BY <1>2 DEF Told
  <2>3. Walked(n, f)
    BY DEF IsTheList
  <2> SUFFICES ASSUME NEW v \in Walker, quiet'[v], wpc'[v] \in {"call", "next", "end"}
               PROVE  /\ Pending' = NULL
                      /\ wpc'[v] = "call" => \E k \in 1 .. n : at'[v] = f[k] /\ Told(v, f, k - 1)'
                      /\ wpc'[v] = "next" => \E k \in 1 .. n : at'[v] = f[k] /\ Told(v, f, k)'
                      /\ wpc'[v] = "end" => Told(v, f, n)'
    BY DEF Walked
  <2>4. CASE v = w
    BY <1>5, <2>2, <2>4 DEF Reached
  <2>5. CASE v # w
    <3>1. wpc'[v] = wpc[v] /\ at'[v] = at[v] /\ quiet'[v] = quiet[v]
      BY <2>5
    <3> QED
      BY <1>5, <2>1, <2>3, <2>5, <3>1 DEF Walked
  <2> QED
    BY <2>4, <2>5
<1>10. IsTheList(n, f)'
  BY <1>6, <1>7, <1>8, <1>9 DEF IsTheList
<1> QED
  BY <1>3, <1>4, <1>10, ListAfter DEF UsersInv

(* A walk that starts while the lock is free starts at the first node.     *)
LEMMA WalkStartInv ==
    ASSUME UsersInv, NEW w \in Walker, WalkStart(w)
    PROVE  UsersInv'
<1> USE UsersAssumption
<1>1. UsersTypeOK
  BY DEF UsersInv
<1>2. PICK n \in 0 .. NNode : \E f \in [1 .. n -> Node] : IsTheList(n, f)
  BY DEF UsersInv, ListInv
<1>3. PICK f \in [1 .. n -> Node] : IsTheList(n, f)
  BY <1>2
<1>4. /\ at' = [at EXCEPT ![w] = user_head]
      /\ wpc' = [wpc EXCEPT ![w] = IF user_head = NULL THEN "end" ELSE "call"]
      /\ told' = [told EXCEPT ![w] = <<>>] /\ quiet' = [quiet EXCEPT ![w] = (user_lock = None)]
      /\ UNCHANGED <<list, user_lock, ids, calls>>
  BY DEF WalkStart
<1>5. /\ at'[w] = user_head /\ wpc'[w] = (IF user_head = NULL THEN "end" ELSE "call")
      /\ told'[w] = <<>> /\ quiet'[w] = (user_lock = None)
  BY <1>1, <1>4 DEF UsersTypeOK
<1>6. \A v \in Walker : v # w => /\ wpc'[v] = wpc[v] /\ at'[v] = at[v]
                                 /\ told'[v] = told[v] /\ quiet'[v] = quiet[v]
  BY <1>1, <1>4 DEF UsersTypeOK
<1>7. /\ wpc' \in [Walker -> WPC] /\ at' \in [Walker -> Node \cup {NULL}]
      /\ told' \in [Walker -> Seq(User)]
  <2>1. <<>> \in Seq(User)
    OBVIOUS
  <2> QED
    BY <1>1, <1>4, <2>1 DEF UsersTypeOK, WPC
<1>8. quiet' \in [Walker -> BOOLEAN]
  BY <1>1, <1>4 DEF UsersTypeOK
<1>9. wpc'[w] \in {"call", "next"} => at'[w] \in Node
  BY <1>1, <1>5 DEF UsersTypeOK
<1>10. quiet'[w] /\ wpc'[w] \in {"call", "next", "end"} =>
           Reached(n, f, wpc'[w], at'[w], told'[w])
  <2> SUFFICES ASSUME user_lock = None
               PROVE  /\ Pending = NULL
                      /\ wpc'[w] = "call" => \E k \in 1 .. n : /\ at'[w] = f[k]
                                                               /\ told'[w] = [j \in 1 .. k - 1 |-> user[f[j]]]
                      /\ wpc'[w] # "next"
                      /\ wpc'[w] = "end" => told'[w] = [j \in 1 .. n |-> user[f[j]]]
    BY <1>5 DEF Reached
  <2>1. Pending = NULL
    BY DEF Pending
  <2>2. user_head = IF n = 0 THEN NULL ELSE f[1]
    BY <1>3, <2>1 DEF IsTheList, Linked
  <2>3. \A k \in 1 .. n : f[k] # NULL
    BY DEF Node, NULL
  <2>4. [j \in 1 .. 0 |-> user[f[j]]] = <<>>
    OBVIOUS
  <2>5. CASE n = 0
    BY <1>5, <2>1, <2>2, <2>4, <2>5
  <2>6. CASE n # 0
    <3>1. 1 \in 1 .. n /\ 1 - 1 = 0
      BY <2>6
    <3>2. wpc'[w] = "call" /\ at'[w] = f[1]
      BY <1>5, <2>2, <2>3, <2>6, <3>1
    <3> QED
      BY <1>5, <2>1, <2>4, <3>1, <3>2
  <2> QED
    BY <2>5, <2>6
<1> QED
  BY <1>3, <1>4, <1>6, <1>7, <1>8, <1>9, <1>10, WalkStep

(* A list of values with one more behind them.                             *)
LEMMA AppendNext ==
    ASSUME NEW S, NEW k \in Nat \ {0}, NEW h \in [1 .. k -> S]
    PROVE  Append([j \in 1 .. k - 1 |-> h[j]], h[k]) = [j \in 1 .. k |-> h[j]]
<1> DEFINE s == [j \in 1 .. k - 1 |-> h[j]]
<1>1. s \in Seq(S) /\ Len(s) = k - 1
  BY DEF s
<1>2. h[k] \in S
  OBVIOUS
<1>3. Append(s, h[k]) \in Seq(S) /\ Len(Append(s, h[k])) = k
  BY <1>1, <1>2
<1>4. \A j \in 1 .. k : Append(s, h[k])[j] = h[j]
  BY <1>1, <1>2
<1> HIDE DEF s
<1>5. Append(s, h[k]) = [j \in 1 .. k |-> h[j]]
  BY <1>3, <1>4
<1> QED
  BY <1>5 DEF s

(* The user of the node is informed.                                       *)
LEMMA WalkCallInv ==
    ASSUME UsersInv, NEW w \in Walker, NEW G, WalkCall(w, G)
    PROVE  UsersInv'
<1> USE UsersAssumption
<1>1. UsersTypeOK
  BY DEF UsersInv
<1>2. PICK n \in 0 .. NNode : \E f \in [1 .. n -> Node] : IsTheList(n, f)
  BY DEF UsersInv, ListInv
<1>3. PICK f \in [1 .. n -> Node] : IsTheList(n, f)
  BY <1>2
<1>4. PICK u \in User \cup {None} : u = user[at[w]]
  BY <1>1 DEF UsersTypeOK, WalkCall
<1>5. /\ wpc[w] = "call" /\ at' = at /\ quiet' = quiet
      /\ UNCHANGED <<list, user_lock, ids, calls>>
      /\ \/ wpc' = [wpc EXCEPT ![w] = "dead"] /\ told' = told
         \/ /\ u # None /\ told' = [told EXCEPT ![w] = Append(@, u)]
            /\ wpc' = [wpc EXCEPT ![w] = "next"]
  BY <1>4 DEF WalkCall
<1>6. CASE wpc' = [wpc EXCEPT ![w] = "dead"] /\ told' = told
  <2>1. wpc'[w] = "dead" /\ wpc' \in [Walker -> WPC] /\ \A v \in Walker : v # w => wpc'[v] = wpc[v]
    BY <1>1, <1>6 DEF UsersTypeOK, WPC
  <2>2. /\ at' \in [Walker -> Node \cup {NULL}] /\ told' \in [Walker -> Seq(User)]
        /\ quiet' \in [Walker -> BOOLEAN]
    BY <1>1, <1>5, <1>6 DEF UsersTypeOK
  <2> QED
    BY <1>3, <1>5, <1>6, <2>1, <2>2, WalkStep
<1>7. CASE /\ u # None /\ told' = [told EXCEPT ![w] = Append(@, u)]
           /\ wpc' = [wpc EXCEPT ![w] = "next"]
  <2>1. wpc'[w] = "next" /\ wpc' \in [Walker -> WPC] /\ \A v \in Walker : v # w => wpc'[v] = wpc[v]
    BY <1>1, <1>7 DEF UsersTypeOK, WPC
  <2>2. told[w] \in Seq(User) /\ u \in User
    BY <1>1, <1>4, <1>7 DEF UsersTypeOK
  <2>3. Append(told[w], u) \in Seq(User)
    BY <2>2
  <2>4. /\ told'[w] = Append(told[w], u) /\ told' \in [Walker -> Seq(User)]
        /\ \A v \in Walker : v # w => told'[v] = told[v]
    BY <1>1, <1>7, <2>3 DEF UsersTypeOK
  <2>5. at' \in [Walker -> Node \cup {NULL}] /\ quiet' \in [Walker -> BOOLEAN] /\ at'[w] \in Node
    BY <1>1, <1>5 DEF UsersTypeOK
  <2>6. quiet[w] => Pending = NULL /\ \E k \in 1 .. n : /\ at'[w] = f[k]
                                                        /\ told'[w] = [j \in 1 .. k |-> user[f[j]]]
    <3> SUFFICES ASSUME quiet[w]
                 PROVE  Pending = NULL /\ \E k \in 1 .. n : /\ at'[w] = f[k]
                                                            /\ told'[w] = [j \in 1 .. k |-> user[f[j]]]
      OBVIOUS
    <3>1. Pending = NULL /\ \E k \in 1 .. n : at[w] = f[k] /\ Told(w, f, k - 1)
      BY <1>3, <1>5 DEF IsTheList, Walked
    <3>2. PICK k \in 1 .. n : at[w] = f[k] /\ Told(w, f, k - 1)
      BY <3>1
    <3>3. told[w] = [j \in 1 .. k - 1 |-> user[f[j]]] /\ u = user[f[k]]
      BY <1>4, <3>2 DEF Told
    <3>4. PICK h \in [1 .. k -> User] : h = [j \in 1 .. k |-> user[f[j]]]
      <4>1. \A j \in 1 .. k : user[f[j]] \in User
        BY <1>3 DEF IsTheList, Holds
      <4> QED
        BY <4>1
    <3>5. Append([j \in 1 .. k - 1 |-> h[j]], h[k]) = [j \in 1 .. k |-> h[j]]
      <4>1. k \in Nat \ {0}
        OBVIOUS
      <4> QED
        BY <4>1, AppendNext
    <3>6. /\ h[k] = u /\ [j \in 1 .. k - 1 |-> h[j]] = told[w]
          /\ [j \in 1 .. k |-> h[j]] = [j \in 1 .. k |-> user[f[j]]]
      BY <3>3, <3>4
    <3>7. told'[w] = [j \in 1 .. k |-> user[f[j]]]
      BY <2>4, <3>5, <3>6
    <3> QED
      BY <1>5, <3>1, <3>2, <3>7
  <2>7. quiet'[w] /\ wpc'[w] \in {"call", "next", "end"} =>
            Reached(n, f, wpc'[w], at'[w], told'[w])
    BY <1>5, <2>1, <2>6 DEF Reached
  <2>8. \A v \in Walker : v # w => /\ wpc'[v] = wpc[v] /\ at'[v] = at[v]
                                   /\ told'[v] = told[v] /\ quiet'[v] = quiet[v]
    BY <1>5, <2>1, <2>4
  <2> QED
    BY <1>3, <1>5, <2>1, <2>4, <2>5, <2>7, <2>8, WalkStep
<1> QED
  BY <1>5, <1>6, <1>7

(* The walk goes on to the next node, or ends behind the last one.         *)
LEMMA WalkNextInv ==
    ASSUME UsersInv, NEW w \in Walker, WalkNext(w)
    PROVE  UsersInv'
<1> USE UsersAssumption
<1>1. UsersTypeOK
  BY DEF UsersInv
<1>2. PICK n \in 0 .. NNode : \E f \in [1 .. n -> Node] : IsTheList(n, f)
  BY DEF UsersInv, ListInv
<1>3. PICK f \in [1 .. n -> Node] : IsTheList(n, f)
  BY <1>2
<1>4. PICK i \in Node \cup {NULL} : i = next[at[w]]
  BY <1>1 DEF UsersTypeOK, WalkNext
<1>5. /\ wpc[w] = "next" /\ at' = [at EXCEPT ![w] = i] /\ told' = told /\ quiet' = quiet
      /\ wpc' = [wpc EXCEPT ![w] = IF i = NULL THEN "end" ELSE "call"]
      /\ UNCHANGED <<list, user_lock, ids, calls>>
  BY <1>4 DEF WalkNext
<1>6. /\ wpc'[w] = (IF i = NULL THEN "end" ELSE "call") /\ at'[w] = i
      /\ \A v \in Walker : v # w => wpc'[v] = wpc[v] /\ at'[v] = at[v]
  BY <1>1, <1>5 DEF UsersTypeOK
<1>7. /\ wpc' \in [Walker -> WPC] /\ at' \in [Walker -> Node \cup {NULL}]
      /\ told' \in [Walker -> Seq(User)] /\ quiet' \in [Walker -> BOOLEAN]
  BY <1>1, <1>5 DEF UsersTypeOK, WPC
<1>8. quiet[w] => /\ Pending = NULL
                  /\ i # NULL => \E k \in 1 .. n : /\ at'[w] = f[k]
                                                   /\ told'[w] = [j \in 1 .. k - 1 |-> user[f[j]]]
                  /\ i = NULL => told'[w] = [j \in 1 .. n |-> user[f[j]]]
  <2> SUFFICES ASSUME quiet[w]
               PROVE  /\ Pending = NULL
                      /\ i # NULL => \E k \in 1 .. n : /\ at'[w] = f[k]
                                                       /\ told'[w] = [j \in 1 .. k - 1 |-> user[f[j]]]
                      /\ i = NULL => told'[w] = [j \in 1 .. n |-> user[f[j]]]
    OBVIOUS
  <2>1. Pending = NULL /\ \E k \in 1 .. n : at[w] = f[k] /\ Told(w, f, k)
    BY <1>3, <1>5 DEF IsTheList, Walked
  <2>2. PICK k \in 1 .. n : at[w] = f[k] /\ Told(w, f, k)
    BY <2>1
  <2>3. told'[w] = [j \in 1 .. k |-> user[f[j]]]
    BY <1>5, <2>2 DEF Told
  <2>4. i = IF k = n THEN NULL ELSE f[k + 1]
    BY <1>3, <1>4, <2>1, <2>2 DEF IsTheList, Linked
  <2>5. CASE k = n
    BY <2>1, <2>3, <2>4, <2>5
  <2>6. CASE k # n
    <3>1. k + 1 \in 1 .. n /\ (k + 1) - 1 = k
      BY <2>6
    <3>2. i = f[k + 1] /\ f[k + 1] # NULL
      BY <2>4, <2>6, <3>1 DEF Node, NULL
    <3> QED
      BY <1>6, <2>1, <2>3, <3>1, <3>2
  <2> QED
    BY <2>5, <2>6
<1>9. quiet'[w] /\ wpc'[w] \in {"call", "next", "end"} =>
          Reached(n, f, wpc'[w], at'[w], told'[w])
  <2>1. CASE i = NULL
    <3>1. wpc'[w] = "end" /\ quiet'[w] = quiet[w]
      BY <1>5, <1>6, <2>1
    <3> QED
      BY <1>8, <2>1, <3>1 DEF Reached
  <2>2. CASE i # NULL
    <3>1. wpc'[w] = "call" /\ quiet'[w] = quiet[w]
      BY <1>5, <1>6, <2>2
    <3> QED
      BY <1>8, <2>2, <3>1 DEF Reached
  <2> QED
    BY <2>1, <2>2
<1>10. wpc'[w] \in {"call", "next"} => at'[w] \in Node
  BY <1>6
<1>11. \A v \in Walker : v # w => /\ wpc'[v] = wpc[v] /\ at'[v] = at[v]
                                  /\ told'[v] = told[v] /\ quiet'[v] = quiet[v]
  BY <1>5, <1>6
<1> QED
  BY <1>3, <1>5, <1>7, <1>9, <1>10, <1>11, WalkStep

(* A thread that dies on a freed node walks no more.                       *)
LEMMA WalkCrashInv ==
    ASSUME UsersInv, NEW w \in Walker, WalkCrash(w)
    PROVE  UsersInv'
<1>1. UsersTypeOK
  BY DEF UsersInv
<1>2. PICK n \in 0 .. NNode : \E f \in [1 .. n -> Node] : IsTheList(n, f)
  BY DEF UsersInv, ListInv
<1>3. PICK f \in [1 .. n -> Node] : IsTheList(n, f)
  BY <1>2
<1>4. /\ wpc' = [wpc EXCEPT ![w] = "dead"] /\ at' = at /\ told' = told /\ quiet' = quiet
      /\ UNCHANGED <<list, user_lock, ids, calls>>
  BY DEF WalkCrash
<1>5. wpc'[w] = "dead" /\ wpc' \in [Walker -> WPC] /\ \A v \in Walker : v # w => wpc'[v] = wpc[v]
  BY <1>1, <1>4 DEF UsersTypeOK, WPC
<1>6. /\ at' \in [Walker -> Node \cup {NULL}] /\ told' \in [Walker -> Seq(User)]
      /\ quiet' \in [Walker -> BOOLEAN]
  BY <1>1, <1>4 DEF UsersTypeOK
<1> QED
  BY <1>3, <1>4, <1>5, <1>6, WalkStep

(* A walk that is over forgets whom it informed.                           *)
LEMMA WalkOverInv ==
    ASSUME UsersInv, NEW w \in Walker, WalkOver(w)
    PROVE  UsersInv'
<1>1. UsersTypeOK
  BY DEF UsersInv
<1>2. PICK n \in 0 .. NNode : \E f \in [1 .. n -> Node] : IsTheList(n, f)
  BY DEF UsersInv, ListInv
<1>3. PICK f \in [1 .. n -> Node] : IsTheList(n, f)
  BY <1>2
<1>4. /\ wpc' = [wpc EXCEPT ![w] = "idle"] /\ at' = [at EXCEPT ![w] = NULL]
      /\ told' = [told EXCEPT ![w] = <<>>] /\ quiet' = [quiet EXCEPT ![w] = TRUE]
      /\ UNCHANGED <<list, user_lock, ids, calls>>
  BY DEF WalkOver
<1>5. wpc'[w] = "idle" /\ wpc' \in [Walker -> WPC]
  BY <1>1, <1>4 DEF UsersTypeOK, WPC
<1>6. /\ at' \in [Walker -> Node \cup {NULL}] /\ told' \in [Walker -> Seq(User)]
      /\ quiet' \in [Walker -> BOOLEAN]
  <2>1. <<>> \in Seq(User)
    OBVIOUS
  <2> QED
    BY <1>1, <1>4, <2>1 DEF UsersTypeOK
<1>7. \A v \in Walker : v # w => /\ wpc'[v] = wpc[v] /\ at'[v] = at[v]
                                 /\ told'[v] = told[v] /\ quiet'[v] = quiet[v]
  BY <1>1, <1>4 DEF UsersTypeOK
<1> QED
  BY <1>3, <1>4, <1>5, <1>6, <1>7, WalkStep

-----------------------------------------------------------------------------
(* The invariant is kept by every step of the system, as long as the       *)
(* registration of the scheduler does not fail.                            *)
LEMMA UsersKept ==
    ASSUME Scheduler \notin MayFail, UsersInv, [Next]_vars
    PROVE  UsersInv'
<1>1. UsersStep \/ UNCHANGED users
  BY StepOfUsers DEF UsersInv
<1>2. ASSUME NEW u \in User, \/ CreateLock(u) \/ CreateLink(u) \/ CreateFail(u) \/ CreateFill(u)
                             \/ upc[u] = "listed" /\ DestroyUnlink(u, Gone)
                             \/ DestroyDies(u, Gone) \/ DestroyFree(u)
      PROVE  UsersInv'
  BY <1>2, CreateLockInv, CreateLinkInv, CreateFailInv, CreateFillInv, DestroyUnlinkInv,
     DestroyDiesInv, DestroyFreeInv
<1>3. ASSUME NEW w \in Walker,
             WalkStart(w) \/ WalkCall(w, Gone) \/ WalkNext(w) \/ WalkCrash(w) \/ WalkOver(w)
      PROVE  UsersInv'
  BY <1>3, WalkStartInv, WalkCallInv, WalkNextInv, WalkCrashInv, WalkOverInv
<1>4. (\A w \in Walker : wpc[w] = "idle") /\ ReloadUsers => UsersInv'
  BY ReloadUsersInv
<1> QED
  BY <1>1, <1>2, <1>3, <1>4, UsersStutter DEF UsersStep

(* So the invariant holds always.                                          *)
LEMMA AlwaysUsers ==
    ASSUME Scheduler \notin MayFail
    PROVE  Spec => []UsersInv
<1>1. UsersInv /\ [Next]_vars => UsersInv'
  BY UsersKept
<1> QED
  BY <1>1, UsersStart, PTL DEF Spec

(* The list behind the invariant is the one that following next finds.     *)
LEMMA InvOfList ==
    ASSUME UsersInv, user_lock = None
    PROVE  ListIntact
<1> USE UsersAssumption
<1>1. UsersTypeOK
  BY DEF UsersInv
<1>2. PICK n \in 0 .. NNode : \E f \in [1 .. n -> Node] : IsTheList(n, f)
  BY DEF UsersInv, ListInv
<1>3. PICK f \in [1 .. n -> Node] : IsTheList(n, f)
  BY <1>2
<1>4. Pending = NULL
  BY DEF Pending
<1>5. Linked(n, f, user_head, next, NULL) /\ Holds(n, f) /\ Allocated(n, f)
  BY <1>3, <1>4 DEF IsTheList
<1>6. /\ Chain = [k \in 0 .. NNode |-> IF k < n THEN f[k + 1] ELSE NULL]
      /\ Listed = {f[k] : k \in 1 .. n}
      /\ Chain[NNode] = NULL
  BY <1>5, ChainFollows
<1>7. live = Listed \cup {node[u] : u \in {v \in User : upc[v] = "kfree"}}
  BY <1>4, <1>5, <1>6 DEF Allocated, Doomed
<1>8. {user[x] : x \in Listed} = {u \in User : upc[u] = "listed"}
  BY <1>5, <1>6 DEF Holds
<1>9. ASSUME NEW j \in 0 .. NNode, NEW k \in 0 .. NNode, j < k, Chain[k] # NULL
      PROVE  user_id[user[Chain[j]]] < user_id[user[Chain[k]]]
  <2>1. k < n /\ Chain[k] = f[k + 1] /\ Chain[j] = f[j + 1]
    BY <1>6, <1>9
  <2>2. j + 1 \in 1 .. n /\ k + 1 \in 1 .. n /\ j + 1 < k + 1
    BY <1>9, <2>1
  <2> QED
    BY <1>5, <2>1, <2>2 DEF Holds
<1> QED
  BY <1>6, <1>7, <1>8, <1>9 DEF ListIntact

(* A walk that ends undisturbed has informed the whole list.               *)
LEMMA InvOfWalk ==
    ASSUME UsersInv
    PROVE  InformedOnce
<1> USE UsersAssumption
<1> SUFFICES ASSUME NEW w \in Walker, wpc[w] = "end", quiet[w]
             PROVE  told[w] = [k \in 1 .. Cardinality(Listed) |-> user[Chain[k - 1]]]
  BY DEF InformedOnce
<1>1. PICK n \in 0 .. NNode : \E f \in [1 .. n -> Node] : IsTheList(n, f)
  BY DEF UsersInv, ListInv
<1>2. PICK f \in [1 .. n -> Node] : IsTheList(n, f)
  BY <1>1
<1>3. Pending = NULL /\ Told(w, f, n)
  BY <1>2 DEF IsTheList, Walked
<1>4. Linked(n, f, user_head, next, NULL)
  BY <1>2, <1>3 DEF IsTheList
<1>5. /\ Chain = [k \in 0 .. NNode |-> IF k < n THEN f[k + 1] ELSE NULL]
      /\ Listed = {f[k] : k \in 1 .. n}
  BY <1>4, ChainFollows
<1>6. Cardinality(Listed) = n
  <2>1. n \in Nat /\ \A j, k \in 1 .. n : f[j] = f[k] => j = k
    BY <1>4 DEF Linked
  <2> QED
    BY <1>5, <2>1, ListLength
<1>7. \A k \in 1 .. n : Chain[k - 1] = f[k]
  BY <1>5
<1>8. told[w] = [k \in 1 .. n |-> user[f[k]]]
  BY <1>3 DEF Told
<1> QED
  BY <1>6, <1>7, <1>8

(* create_user and destroy_user keep the list: whenever user_lock is free  *)
(* it ends, its nodes are allocated, and it holds exactly the users that   *)
(* registered and have not deregistered, in the order of different ids, no *)
(* matter who registers, deregisters, fails or walks meanwhile.            *)
THEOREM ListStaysIntact ==
    ASSUME Scheduler \notin MayFail
    PROVE  Spec => []ListIntact
<1>1. UsersInv => ListIntact
  BY InvOfList DEF ListIntact
<1>2. Spec => []UsersInv
  BY AlwaysUsers
<1> QED
  BY <1>1, <1>2, PTL

(* inform_freq_change, which walks the list without its lock: when nobody  *)
(* registered or deregistered meanwhile, each user has been informed once, *)
(* in the order they registered.                                           *)
THEOREM WalkInformsOnce ==
    ASSUME Scheduler \notin MayFail
    PROVE  Spec => []InformedOnce
<1>1. UsersInv => InformedOnce
  BY InvOfWalk
<1>2. Spec => []UsersInv
  BY AlwaysUsers
<1> QED
  BY <1>1, <1>2, PTL
=============================================================================
