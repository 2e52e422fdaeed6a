------------------------------ MODULE Endpoints -------------------------------
(***************************************************************************)
(* The endpoints of an rpmsg_lite instance: rpmsg_lite_create_ept,         *)
(* rpmsg_lite_destroy_ept, and rpmsg_ns_bind, rpmsg_ns_unbind that use     *)
(* them, over the doubly linked list of lib/common/llist.c.                *)
(*                                                                         *)
(* Tasks change the list under the instance's lock.  The receive callback  *)
(* walks it without the lock, from an interrupt that may come between any  *)
(* two stores; the interrupt runs to completion and changes nothing here,  *)
(* so what it would meet is stated of every reachable state.  The stores   *)
(* to the head and to next are steps of their own, prev is only read under *)
(* the lock.                                                               *)
(*                                                                         *)
(* A node stands for a list node with the endpoint it points to.  Nodes    *)
(* come from the heap, or with RL_USE_STATIC_API from the caller; their    *)
(* content is whatever was there, the links of an earlier use included.    *)
(***************************************************************************)
EXTENDS Naturals, FiniteSets

CONSTANTS
    Node,           \* memory for endpoints
    Tasks,
    Addr,           \* addresses the application asks for
    RL_ADDR_ANY,    \* the request for any address
    RL_NS_EPT_ADDR, \* the address of the name service
    NULL, Garbage,  \* the null pointer, and what uninitialised memory holds
    Free            \* value of the lock besides the tasks

ASSUME EndpointsAssumption ==
    /\ Addr \subseteq Nat \ {0} /\ RL_NS_EPT_ADDR \in Nat \ {0}
    /\ RL_ADDR_ANY \notin Nat
    /\ NULL \notin Node /\ Garbage \notin Node /\ NULL # Garbage
    /\ Free \notin Tasks
    /\ IsFiniteSet(Node)

VARIABLES
    head,       \* rpmsg_lite_dev->rl_endpoints
    next, prev, \* the links of the nodes
    addr,       \* Node -> address of the endpoint
    pool,       \* memory that is not in use
    lock,       \* holder of rpmsg_lite_dev->lock
    task,       \* Tasks -> progress through a call
    open,       \* endpoints the application has and is not destroying
    ns_ept      \* the endpoints of the handles rpmsg_ns_bind has returned

vars == <<head, next, prev, addr, pool, lock, task, open, ns_ept>>

Idle == [pc |-> "idle", addr |-> 0, node |-> NULL, ns |-> FALSE]

(* rpmsg_lite_master_init and rpmsg_lite_remote_init leave an empty list.   *)
Init ==
    /\ head = NULL
    /\ next = [n \in Node |-> Garbage]
    /\ prev = [n \in Node |-> Garbage]
    /\ addr = [n \in Node |-> 0]
    /\ pool = Node
    /\ lock = Free
    /\ task = [t \in Tasks |-> Idle]
    /\ open = {}
    /\ ns_ept = {}

-----------------------------------------------------------------------------
(* rpmsg_lite_get_endpoint_from_addr.  visited[k] is where the walk is      *)
(* after k steps; it stops at the first node with the address.              *)
visited == LET w[k \in 0..Cardinality(Node)] ==
                 IF k = 0 THEN head
                 ELSE IF w[k - 1] \in Node THEN next[w[k - 1]] ELSE w[k - 1]
           IN  w

lookup(a) ==
    LET hits == {k \in DOMAIN visited : visited[k] \in Node /\ addr[visited[k]] = a}
    IN  IF hits = {} THEN NULL
        ELSE visited[CHOOSE k \in hits : \A j \in hits : k <= j]

(* RL_ADDR_ANY: the lowest address, from 1, at which there is no endpoint.  *)
lowest_free ==
    LET free == {a \in 1..(Cardinality(Node) + 1) : lookup(a) = NULL}
    IN  CHOOSE a \in free : \A b \in free : a <= b

InUseUnchecked(a) == FALSE                                          \* mutant
(* "Already exists!" *)
InUse(a) == lookup(a) # NULL

At(t, pc) == task[t].pc = pc
Return(t) == task' = [task EXCEPT ![t] = Idle]

-----------------------------------------------------------------------------
(* rpmsg_lite_create_ept, and rpmsg_ns_bind (ns) which calls it with the    *)
(* name service's address.                                                  *)

(* The lock is taken and the address chosen or found free.                  *)
CreateLock(t, a, ns) ==
    /\ At(t, "idle") /\ lock = Free
    /\ IF ns THEN a = RL_NS_EPT_ADDR ELSE a \in Addr \union {RL_ADDR_ANY}
    /\ a # RL_ADDR_ANY => ~InUse(a)
    /\ lock' = t
    /\ task' = [task EXCEPT ![t] =
                  [Idle EXCEPT !.pc = "alloc", !.ns = ns,
                               !.addr = IF a = RL_ADDR_ANY THEN lowest_free ELSE a]]
    /\ UNCHANGED <<head, next, prev, addr, pool, open, ns_ept>>

(* rpmsg_ns_bind returns its handle also when the endpoint was not created. *)
NsBindFailed(t) ==
    /\ At(t, "idle") /\ lock = Free
    /\ InUse(RL_NS_EPT_ADDR)
    /\ ns_ept' = ns_ept \union {NULL}
    /\ UNCHANGED <<head, next, prev, addr, pool, lock, task, open>>

(* env_allocate_memory fails, or the caller gave no memory: RL_NULL.        *)
CreateNoMemory(t) ==
    /\ At(t, "alloc")
    /\ lock' = Free
    /\ ns_ept' = IF task[t].ns THEN ns_ept \union {NULL} ELSE ns_ept
    /\ Return(t)
    /\ UNCHANGED <<head, next, prev, addr, pool, open>>

(* A node is allocated, or the caller's is used, and the endpoint filled.   *)
CreateAlloc(t, n) ==
    /\ At(t, "alloc")
    /\ n \in pool
    /\ pool' = pool \ {n}
    /\ addr' = [addr EXCEPT ![n] = task[t].addr]
    /\ task' = [task EXCEPT ![t].node = n,
                            ![t].pc = IF head = NULL THEN "add_first" ELSE "add"]
    /\ UNCHANGED <<head, next, prev, lock, open, ns_ept>>

(* add_to_list of a list that is not empty: the links, then the head.       *)
PublishThenLink(t) ==                                               \* mutant
    /\ At(t, "add")
    /\ head' = task[t].node
    /\ task' = [task EXCEPT ![t].pc = "add_head"]
    /\ UNCHANGED <<next, prev, addr, pool, lock, open, ns_ept>>
AddLinks(t) ==
    /\ At(t, "add")
    /\ next' = [next EXCEPT ![task[t].node] = head]
    /\ prev' = [prev EXCEPT ![task[t].node] = NULL, ![head] = task[t].node]
    /\ task' = [task EXCEPT ![t].pc = "add_head"]
    /\ UNCHANGED <<head, addr, pool, lock, open, ns_ept>>

(* The end of create_ept: the lock is released, the endpoint returned.      *)
Created(t) ==
    /\ lock' = Free
    /\ open' = open \union {task[t].node}
    /\ ns_ept' = IF task[t].ns THEN ns_ept \union {task[t].node} ELSE ns_ept
    /\ Return(t)

AddHead(t) ==
    /\ At(t, "add_head")
    /\ head' = task[t].node
    /\ Created(t)
    /\ UNCHANGED <<next, prev, addr, pool>>

(* add_to_list of an empty list: the head, then the links.                  *)
AddFirst(t) ==
    /\ At(t, "add_first")
    /\ head' = task[t].node
    /\ task' = [task EXCEPT ![t].pc = "add_null"]
    /\ UNCHANGED <<next, prev, addr, pool, lock, open, ns_ept>>

AddNull(t) ==
    /\ At(t, "add_null")
    /\ next' = [next EXCEPT ![head] = NULL]
    /\ prev' = [prev EXCEPT ![head] = NULL]
    /\ Created(t)
    /\ UNCHANGED <<head, addr, pool>>

-----------------------------------------------------------------------------
(* rpmsg_lite_destroy_ept, and rpmsg_ns_unbind of the handle that has the   *)
(* endpoint.                                                                *)

(* The lock is taken and the node of the endpoint's address found.          *)
DestroyLock(t, n) ==
    /\ At(t, "idle") /\ lock = Free
    /\ n \in open
    /\ lookup(addr[n]) # NULL
    /\ lock' = t
    /\ open' = open \ {n}
    /\ ns_ept' = ns_ept \ {n}
    /\ task' = [task EXCEPT ![t] = [Idle EXCEPT !.pc = "remove", !.node = lookup(addr[n])]]
    /\ UNCHANGED <<head, next, prev, addr, pool>>

(* rpmsg_ns_unbind of a handle without an endpoint: RL_ERR_PARAM. *)
NsUnbindFailed(t) ==
    /\ At(t, "idle") /\ NULL \in ns_ept
    /\ ns_ept' = ns_ept \ {NULL}
    /\ UNCHANGED <<head, next, prev, addr, pool, lock, task, open>>

(* remove_from_list: the first, the last or a node in between.              *)
Unlink(t) ==
    LET n == task[t].node
    IN  /\ At(t, "remove")
        /\ head' = IF n = head THEN next[n] ELSE head
        /\ next' = IF n = head THEN next ELSE [next EXCEPT ![prev[n]] = next[n]]
        /\ task' = [task EXCEPT ![t].pc =
                      IF n = head \/ next[n] = NULL THEN "unlock" ELSE "remove_prev"]
        /\ UNCHANGED <<prev, addr, pool, lock, open, ns_ept>>

UnlinkForwardOnly(t) ==                                             \* mutant
    /\ At(t, "remove_prev")
    /\ task' = [task EXCEPT ![t].pc = "unlock"]
    /\ UNCHANGED <<head, next, prev, addr, pool, lock, open, ns_ept>>
UnlinkPrev(t) ==
    LET n == task[t].node
    IN  /\ At(t, "remove_prev")
        /\ prev' = [prev EXCEPT ![next[n]] = prev[n]]
        /\ task' = [task EXCEPT ![t].pc = "unlock"]
        /\ UNCHANGED <<head, next, addr, pool, lock, open, ns_ept>>

DestroyUnlock(t) ==
    /\ At(t, "unlock")
    /\ lock' = Free
    /\ task' = [task EXCEPT ![t].pc = "free"]
    /\ UNCHANGED <<head, next, prev, addr, pool, open, ns_ept>>

(* env_free_memory, or the caller's memory is the caller's again: its       *)
(* content stays or is overwritten.                                         *)
DestroyFree(t, overwritten) ==
    LET n == task[t].node
    IN  /\ At(t, "free")
        /\ pool' = pool \union {n}
        /\ next' = IF overwritten THEN [next EXCEPT ![n] = Garbage] ELSE next
        /\ prev' = IF overwritten THEN [prev EXCEPT ![n] = Garbage] ELSE prev
        /\ Return(t)
        /\ UNCHANGED <<head, addr, lock, open, ns_ept>>

-----------------------------------------------------------------------------
Create(t) ==
    \/ \E a \in Addr \union {RL_ADDR_ANY, RL_NS_EPT_ADDR}, ns \in BOOLEAN : CreateLock(t, a, ns)
    \/ NsBindFailed(t) \/ CreateNoMemory(t)
    \/ \E n \in Node : CreateAlloc(t, n)
    \/ AddLinks(t) \/ AddHead(t) \/ AddFirst(t) \/ AddNull(t)
Destroy(t) ==
    \/ \E n \in Node : DestroyLock(t, n)
    \/ NsUnbindFailed(t) \/ Unlink(t) \/ UnlinkPrev(t) \/ DestroyUnlock(t)
    \/ \E overwritten \in BOOLEAN : DestroyFree(t, overwritten)

Next == \E t \in Tasks : Create(t) \/ Destroy(t)

Spec == Init /\ [][Next]_vars

-----------------------------------------------------------------------------
(* Every variable has its type; the head and the nodes a task works on are  *)
(* never taken from uninitialised memory.                                   *)
TypeOK ==
    /\ head \in Node \union {NULL}
    /\ next \in [Node -> Node \union {NULL, Garbage}]
    /\ prev \in [Node -> Node \union {NULL, Garbage}]
    /\ addr \in [Node -> Nat]
    /\ pool \subseteq Node /\ open \subseteq Node
    /\ lock \in Tasks \union {Free}
    /\ \A t \in Tasks : task[t].node \in Node \union {NULL}
    /\ ns_ept \subseteq Node \union {NULL}

(* Whatever the interrupt comes between, the walk of the receive callback   *)
(* meets only endpoints that exist, each once, and reaches the end of the   *)
(* list.                                                                    *)
WalkSafe ==
    /\ \A k \in DOMAIN visited : visited[k] \in (Node \ pool) \union {NULL}
    /\ visited[Cardinality(Node)] = NULL

(* The same except between the two stores of add_to_list to an empty list.  *)
WalkSafeOnceLinked == (\A t \in Tasks : ~At(t, "add_null")) => WalkSafe

(* A message for an endpoint the application has is given to that endpoint, *)
(* also while other endpoints are added and removed around it; so no two    *)
(* endpoints have one address, whether chosen by RL_ADDR_ANY or given.      *)
OpenFound == \A n \in open : lookup(addr[n]) = n

(* When nobody holds the lock the links back are right wherever             *)
(* remove_from_list uses them, which is not at the head: the removal of the *)
(* first node leaves its successor's prev as it was.                        *)
BackLinks ==
    lock = Free =>
      \A k \in DOMAIN visited :
        k > 0 /\ visited[k] \in Node => prev[visited[k]] = visited[k - 1]
===============================================================================
