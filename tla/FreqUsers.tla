------------------------------ MODULE FreqUsers ------------------------------
(***************************************************************************)
(* The users of seeker-cpufreq (user.c): a linked list changed under       *)
(* user_lock and walked without it whenever a frequency changes.           *)
(*                                                                         *)
(* Nodes are numbered from 1, 0 is NULL.  A node keeps its contents when   *)
(* it is freed, and a new one holds what was last stored there, until they *)
(* are overwritten: a walk may read either, or its thread dies on it.      *)
(***************************************************************************)
EXTENDS Integers, Sequences, FiniteSetsExt

CONSTANTS
    User,           \* the struct scpufreq_user of each module that registers
    Walker,         \* the threads that change frequencies
    NNode,          \* bound: list nodes in memory
    MaxId,          \* bound: ids given out
    MayFail         \* the users whose kmalloc may fail

NULL == 0
Node == 1 .. NNode
None == "none"
Dead == "dead"      \* who holds user_lock when its holder has died

ASSUME UsersAssumption == NNode \in Nat /\ {None, Dead} \cap User = {}

VARIABLES
    user_head, next, user,      \* the list
    live,                       \* the nodes allocated
    user_lock, user_id, current_highest_id,
    upc, node,                  \* per user: where its call is, its local i
    wpc, at,                    \* per walker: where it is, its local i
    told, quiet                 \* whom the walk informed, has the list been left alone?

list == <<user_head, next, user, live>>
ids == <<user_id, current_highest_id>>
calls == <<upc, node>>
walks == <<wpc, at, told>>
users == <<list, user_lock, ids, calls, walks, quiet>>

UsersInit ==
    /\ user_head = NULL /\ live = {}
    /\ next = [n \in Node |-> NULL] /\ user = [n \in Node |-> None]
    /\ user_lock = None /\ user_id = [u \in User |-> 0] /\ current_highest_id = 0
    /\ upc = [u \in User |-> "out"] /\ node = [u \in User |-> NULL]
    /\ wpc = [w \in Walker |-> "idle"] /\ at = [w \in Walker |-> NULL]
    /\ told = [w \in Walker |-> <<>>] /\ quiet = [w \in Walker |-> TRUE]

(* The k-th node of the list, counted from 0; NULL beyond its end.         *)
Chain ==
    [k \in 0 .. NNode |->
        LET nth[j \in 0 .. NNode] ==
                IF j = 0 THEN user_head
                ELSE LET n == nth[j - 1] IN IF n = NULL THEN NULL ELSE next[n]
        IN  nth[k]]

Listed == {Chain[k] : k \in 0 .. NNode} \ {NULL}
Last == CHOOSE n \in Listed : next[n] = NULL

-----------------------------------------------------------------------------
(* create_user.                                                            *)

CreateLock(u) ==
    /\ upc[u] = "out" /\ user_lock = None
    /\ user_lock' = u /\ upc' = [upc EXCEPT ![u] = "create"]
    /\ UNCHANGED <<list, ids, node, walks, quiet>>

(* The node is linked before its fields are set.                           *)
CreateLink(u) ==
    /\ upc[u] = "create" /\ live # Node
    /\ LET i == Min(Node \ live)
       IN  /\ user_head' = IF user_head = NULL THEN i ELSE user_head
           /\ next' = IF user_head = NULL THEN next ELSE [next EXCEPT ![Last] = i]
           /\ live' = live \cup {i} /\ node' = [node EXCEPT ![u] = i]
    /\ upc' = [upc EXCEPT ![u] = "fill"] /\ quiet' = [w \in Walker |-> FALSE]
    /\ UNCHANGED <<user, user_lock, ids, walks>>

(* Mutant: the failure path keeps the lock.                                *)
CreateFailLocked(u) ==
    /\ upc[u] = "create" /\ u \in MayFail
    /\ upc' = [upc EXCEPT ![u] = "failed"]
    /\ UNCHANGED <<list, user_lock, ids, node, walks, quiet>>

CreateFail(u) ==
    /\ upc[u] = "create" /\ u \in MayFail
    /\ user_lock' = None /\ upc' = [upc EXCEPT ![u] = "failed"]
    /\ UNCHANGED <<list, ids, node, walks, quiet>>

CreateFill(u) ==
    /\ upc[u] = "fill"
    /\ next' = [next EXCEPT ![node[u]] = NULL] /\ user' = [user EXCEPT ![node[u]] = u]
    /\ user_id' = [user_id EXCEPT ![u] = current_highest_id]
    /\ current_highest_id' = current_highest_id + 1
    /\ user_lock' = None /\ upc' = [upc EXCEPT ![u] = "listed"]
    /\ UNCHANGED <<user_head, live, node, walks, quiet>>

Create(u) == CreateLink(u) \/ CreateFail(u) \/ CreateFill(u)

-----------------------------------------------------------------------------
(* destroy_user: the first node with the id of u is unlinked under the     *)
(* lock and freed after it.                                                *)
WithId(u) == {k \in 0 .. NNode : Chain[k] # NULL /\ user_id[user[Chain[k]]] = user_id[u]}

(* The search looks into a struct scpufreq_user that is no longer there.   *)
(* Gone: the users whose module is no longer in memory.                    *)
Meets(u, Gone) == \E k \in 0 .. NNode : /\ Chain[k] # NULL /\ user[Chain[k]] \in Gone
                                        /\ \A j \in WithId(u) : k <= j

(* Mutant: the nodes behind the one unlinked are lost.                     *)
DestroyUnlinkTail(u, Gone) ==
    /\ upc[u] \in {"listed", "failed"} /\ user_lock = None /\ ~Meets(u, Gone)
    /\ IF WithId(u) = {}
       THEN /\ upc' = [upc EXCEPT ![u] = "out"]
            /\ UNCHANGED <<list, node, quiet>>
       ELSE LET k == Min(WithId(u))
                i == Chain[k]
            IN  /\ user_head' = IF k = 0 THEN NULL ELSE user_head
                /\ next' = IF k = 0 THEN next ELSE [next EXCEPT ![Chain[k - 1]] = next[i]]
                /\ node' = [node EXCEPT ![u] = i] /\ upc' = [upc EXCEPT ![u] = "kfree"]
                /\ quiet' = [w \in Walker |-> FALSE]
                /\ UNCHANGED <<user, live>>
    /\ UNCHANGED <<user_lock, ids, walks>>

DestroyUnlink(u, Gone) ==
    /\ upc[u] \in {"listed", "failed"} /\ user_lock = None /\ ~Meets(u, Gone)
    /\ IF WithId(u) = {}
       THEN /\ upc' = [upc EXCEPT ![u] = "out"]
            /\ UNCHANGED <<list, node, quiet>>
       ELSE LET k == Min(WithId(u))
                i == Chain[k]
            IN  /\ user_head' = IF k = 0 THEN next[i] ELSE user_head
                /\ next' = IF k = 0 THEN next ELSE [next EXCEPT ![Chain[k - 1]] = next[i]]
                /\ node' = [node EXCEPT ![u] = i] /\ upc' = [upc EXCEPT ![u] = "kfree"]
                /\ quiet' = [w \in Walker |-> FALSE]
                /\ UNCHANGED <<user, live>>
    /\ UNCHANGED <<user_lock, ids, walks>>

(* The thread dies in the search, with the lock.                           *)
DestroyDies(u, Gone) ==
    /\ upc[u] \in {"listed", "failed"} /\ user_lock = None /\ Meets(u, Gone)
    /\ user_lock' = Dead
    /\ UNCHANGED <<list, ids, calls, walks, quiet>>

DestroyFree(u) ==
    /\ upc[u] = "kfree"
    /\ live' = live \ {node[u]} /\ upc' = [upc EXCEPT ![u] = "out"]
    /\ UNCHANGED <<user_head, next, user, user_lock, ids, node, walks, quiet>>

(* exit_user_interface, and init_user_interface when the module is loaded  *)
(* again.  A user still listed has left without deregistering.             *)
ReloadUsers ==
    /\ user_lock = None
    /\ user_head' = NULL /\ live' = live \ Listed /\ current_highest_id' = 0
    /\ upc' = [u \in User |-> IF upc[u] = "listed" THEN "out" ELSE upc[u]]
    /\ UNCHANGED <<next, user, user_lock, user_id, node, walks, quiet>>

-----------------------------------------------------------------------------
(* inform_freq_change.                                                     *)

WalkStart(w) ==
    /\ wpc[w] = "idle"
    /\ at' = [at EXCEPT ![w] = user_head]
    /\ wpc' = [wpc EXCEPT ![w] = IF user_head = NULL THEN "end" ELSE "call"]
    /\ told' = [told EXCEPT ![w] = <<>>] /\ quiet' = [quiet EXCEPT ![w] = user_lock = None]
    /\ UNCHANGED <<list, user_lock, ids, calls>>

WalkCall(w, Gone) ==
    /\ wpc[w] = "call"
    /\ LET u == user[at[w]]
       IN  IF u = None \/ u \in Gone
           THEN wpc' = [wpc EXCEPT ![w] = "dead"] /\ UNCHANGED told
           ELSE /\ told' = [told EXCEPT ![w] = Append(@, u)]
                /\ wpc' = [wpc EXCEPT ![w] = "next"]
    /\ UNCHANGED <<list, user_lock, ids, calls, at, quiet>>

(* Mutant: the walk stops before the last node.                            *)
WalkNextEarly(w) ==
    /\ wpc[w] = "next"
    /\ LET i == next[at[w]]
           done == i = NULL \/ next[i] = NULL
       IN  /\ at' = [at EXCEPT ![w] = i]
           /\ wpc' = [wpc EXCEPT ![w] = IF done THEN "end" ELSE "call"]
    /\ UNCHANGED <<list, user_lock, ids, calls, told, quiet>>

WalkNext(w) ==
    /\ wpc[w] = "next"
    /\ at' = [at EXCEPT ![w] = next[at[w]]]
    /\ wpc' = [wpc EXCEPT ![w] = IF next[at[w]] = NULL THEN "end" ELSE "call"]
    /\ UNCHANGED <<list, user_lock, ids, calls, told, quiet>>

(* A node that was freed may have been unmapped or poisoned.               *)
WalkCrash(w) ==
    /\ wpc[w] \in {"call", "next"} /\ at[w] \notin live
    /\ wpc' = [wpc EXCEPT ![w] = "dead"]
    /\ UNCHANGED <<list, user_lock, ids, calls, at, told, quiet>>

WalkOver(w) ==
    /\ wpc' = [wpc EXCEPT ![w] = "idle"] /\ at' = [at EXCEPT ![w] = NULL]
    /\ told' = [told EXCEPT ![w] = <<>>] /\ quiet' = [quiet EXCEPT ![w] = TRUE]
    /\ UNCHANGED <<list, user_lock, ids, calls>>

WalkEnd(w) == wpc[w] = "end" /\ WalkOver(w)

Walk(w, Gone) == WalkCall(w, Gone) \/ WalkNext(w) \/ WalkCrash(w) \/ WalkEnd(w)

-----------------------------------------------------------------------------
(* Whenever the lock is free the list ends, its nodes are allocated, it    *)
(* holds exactly the users that registered and have not deregistered, in   *)
(* the order of different ids, and no other node is allocated but one      *)
(* about to be freed.                                                      *)
ListIntact ==
    user_lock = None =>
        /\ Chain[NNode] = NULL
        /\ live = Listed \cup {node[u] : u \in {v \in User : upc[v] = "kfree"}}
        /\ {user[n] : n \in Listed} = {u \in User : upc[u] = "listed"}
        /\ \A j, k \in 0 .. NNode : j < k /\ Chain[k] # NULL =>
               user_id[user[Chain[j]]] < user_id[user[Chain[k]]]

(* A walk during which nobody registered or deregistered has informed each *)
(* registered user once, in the order they registered.                     *)
InformedOnce ==
    \A w \in Walker : wpc[w] = "end" /\ quiet[w] =>
        told[w] = [k \in 1 .. Cardinality(Listed) |-> user[Chain[k - 1]]]
=============================================================================
