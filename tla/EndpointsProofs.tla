---------------------------- MODULE EndpointsProofs ----------------------------
EXTENDS Endpoints, FiniteSetTheorems, WellFoundedInduction, TLAPS

(***************************************************************************)
(* Proofs about Endpoints, for any memory, any tasks and any addresses.    *)
(*                                                                         *)
(* The inductive invariant names the list: f[0], ..., f[m - 1] are its     *)
(* nodes in order and f[m] is NULL.  It says how far the task that holds   *)
(* the lock has come with the links, and that the memory of the others is  *)
(* not in the list.  What the walk of the receive callback meets is then   *)
(* computed from f.                                                        *)
(***************************************************************************)

N      == Cardinality(Node)
Idx(m) == 0..(m - 1)

PCs == {"idle", "alloc", "add", "add_head", "add_first", "add_null", "remove", "remove_prev",
        "unlock", "free"}

(* The tasks that hold the lock, and those that have a node.                *)
Holding(t) == task[t].pc \notin {"idle", "free"}
Has(t)     == task[t].pc \notin {"idle", "alloc"}

-----------------------------------------------------------------------------
(* The inductive invariant.                                                 *)

FullType ==
    /\ TypeOK
    /\ task \in [Tasks -> [pc : PCs, addr : Nat, node : Node \cup {NULL}, ns : BOOLEAN]]

Owner == \A t \in Tasks : Holding(t) <=> lock = t

Nodes ==
    \A t \in Tasks : Has(t) =>
        /\ task[t].node \in Node \ pool
        /\ \A u \in Tasks : Has(u) /\ task[u].node = task[t].node => u = t

(* f has m different nodes and ends with NULL.                              *)
Chain(m, f) ==
    /\ m \in Nat /\ f \in [0..m -> Node \cup {NULL}] /\ f[m] = NULL
    /\ \A k \in Idx(m) : f[k] \in Node
    /\ \A j, k \in Idx(m) : f[j] = f[k] => j = k

(* The links follow f, except that the first node of a list is its head     *)
(* before it is linked.                                                     *)
Links(m, f) ==
    /\ (\A t \in Tasks : ~At(t, "add_null")) =>
          head = f[0] /\ \A k \in Idx(m) : next[f[k]] = f[k + 1]
    /\ \A t \in Tasks : At(t, "add_null") => m = 0 /\ head = task[t].node

(* The list holds what the application has, what is being removed until it  *)
(* is unlinked, and nothing that is free or in the hands of a task.         *)
Members(m, f) ==
    /\ \A k \in Idx(m) : f[k] \notin pool
    /\ \A n \in open : \E k \in Idx(m) : f[k] = n
    /\ \A t \in Tasks : At(t, "remove") =>
          task[t].node \notin open /\ \E k \in Idx(m) : f[k] = task[t].node
    /\ \A t \in Tasks : Has(t) /\ ~At(t, "remove") => \A k \in Idx(m) : f[k] # task[t].node

(* No two nodes of the list have an address, and none has the address of    *)
(* the endpoint that is being created.                                      *)
Addresses(m, f) ==
    /\ \A j, k \in Idx(m) : addr[f[j]] = addr[f[k]] => j = k
    /\ \A t \in Tasks : At(t, "alloc") => \A k \in Idx(m) : addr[f[k]] # task[t].addr
    /\ \A t \in Tasks : task[t].pc \in {"add", "add_head"} =>
          \A k \in Idx(m) : addr[f[k]] # addr[task[t].node]

(* What a task has done of add_to_list.                                     *)
Adding(m, f) ==
    \A t \in Tasks :
        /\ At(t, "add") => m > 0
        /\ At(t, "add_first") => m = 0
        /\ At(t, "add_head") => m > 0 /\ next[task[t].node] = f[0] /\ prev[f[0]] = task[t].node

(* The links back are right but at the head, and where remove_from_list has *)
(* yet to set one.                                                          *)
Back(m, f) ==
    /\ \A k \in 1..(m - 1) :
          \/ prev[f[k]] = f[k - 1]
          \/ \E t \in Tasks : At(t, "remove_prev") /\ next[task[t].node] = f[k]
    /\ \A t \in Tasks : At(t, "remove_prev") =>
          \E k \in 1..(m - 1) : next[task[t].node] = f[k] /\ prev[task[t].node] = f[k - 1]

List(m, f) ==
    /\ Chain(m, f) /\ Links(m, f) /\ Members(m, f) /\ Addresses(m, f) /\ Adding(m, f)
    /\ Back(m, f)

IInv ==
    /\ FullType /\ Owner /\ Nodes
    /\ \E m \in Nat : \E f \in [0..m -> Node \cup {NULL}] : List(m, f)

-----------------------------------------------------------------------------
(* Operators.                                                               *)

(* A set of numbers that is not empty has a least one.                      *)
LEMMA Smallest ==
    ASSUME NEW S \in SUBSET Nat, S # {}
    PROVE  \E k \in S : \A j \in S : k <= j
  <1> DEFINE R == OpToRel(<, Nat)
  <1>1. IsWellFoundedOn(R, Nat)
    BY NatLessThanWellFounded
  <1> HIDE DEF R
  <1>2. PICK k \in S : \A j \in S : ~(<<j, k>> \in R)
    BY <1>1, WFMin
  <1>3. \A j \in S : j < k => <<j, k>> \in R
    BY DEF R, OpToRel
  <1>4. \A j \in S : ~(j < k) /\ j \in Nat
    BY <1>2, <1>3
  <1>5. \A j \in S : k <= j
    BY <1>4
  <1> QED
    BY <1>5

(* What the assumption says of the memory.                                  *)
LEMMA MemoryFacts ==
    /\ IsFiniteSet(Node) /\ N \in Nat /\ NULL \notin Node /\ Garbage \notin Node
    /\ NULL # Garbage /\ Free \notin Tasks /\ RL_ADDR_ANY \notin Nat
  BY EndpointsAssumption, FS_CardinalityType DEF N

(* A chain is no longer than the memory.                                    *)
LEMMA ChainBound ==
    ASSUME NEW m, NEW f, Chain(m, f)
    PROVE  m <= N
  <1> DEFINE g == [k \in Idx(m) |-> f[k]]
  <1>1. g \in Injection(Idx(m), Node)
    BY DEF Chain, Injection, IsInjective
  <1>2. Cardinality(Idx(m)) <= N
    BY <1>1, MemoryFacts, FS_Injection DEF N
  <1>3. m \in Nat /\ 0 \in Int /\ m - 1 \in Int
    BY DEF Chain
  <1>4. Cardinality(Idx(m)) = IF 0 > m - 1 THEN 0 ELSE m - 1 - 0 + 1
    BY <1>3, FS_Interval DEF Idx
  <1> QED
    BY <1>2, <1>3, <1>4, MemoryFacts

(* The links follow f; g is a walk along the links.                         *)
Followed(m, f) == head = f[0] /\ \A k \in Idx(m) : next[f[k]] = f[k + 1]
Stepwise(g) ==
    g = [k \in 0..N |-> IF k = 0 THEN head
                        ELSE IF g[k - 1] \in Node THEN next[g[k - 1]] ELSE g[k - 1]]

(* The walk along the links meets f and stays at its end: a chain is one    *)
(* solution of the recursion, and the least step at which two solutions     *)
(* differ would be a contradiction.                                         *)
LEMMA Walk ==
    ASSUME NEW m, NEW f, Chain(m, f), Followed(m, f)
    PROVE  visited = [k \in 0..N |-> IF k <= m THEN f[k] ELSE NULL]
  <1> DEFINE g == [k \in 0..N |-> IF k <= m THEN f[k] ELSE NULL]
  <1>1. m \in Nat /\ m <= N /\ N \in Nat /\ NULL \notin Node
    BY ChainBound, MemoryFacts DEF Chain
  <1>2. Stepwise(g)
    <2>1. ASSUME NEW k \in 0..N
          PROVE  g[k] = IF k = 0 THEN head
                        ELSE IF g[k - 1] \in Node THEN next[g[k - 1]] ELSE g[k - 1]
      <3>1. CASE k = 0
        BY <1>1, <3>1 DEF Followed
      <3>2. CASE k > 0 /\ k <= m
        <4>1. k - 1 \in Idx(m) /\ k - 1 \in 0..N /\ (k - 1) + 1 = k
          BY <1>1, <3>2 DEF Idx
        <4>2. g[k - 1] = f[k - 1] /\ f[k - 1] \in Node /\ next[f[k - 1]] = f[k]
          BY <1>1, <3>2, <4>1 DEF Chain, Followed
        <4> QED
          BY <1>1, <3>2, <4>2
      <3>3. CASE k > m
        <4>1. g[k] = NULL /\ g[k - 1] = NULL
          BY <1>1, <3>3 DEF Chain
        <4> QED
          BY <1>1, <3>3, <4>1
      <3> QED
        BY <1>1, <3>1, <3>2, <3>3
    <2> HIDE DEF g
    <2>2. g = [k \in 0..N |-> g[k]]
      BY DEF g
    <2> QED
      BY <2>1, <2>2 DEF Stepwise
  <1> HIDE DEF g
  <1>3. Stepwise(visited)
    BY <1>2 DEF visited, N, Stepwise
  <1>4. \A k \in 0..N : visited[k] = g[k]
    <2> DEFINE D == {k \in 0..N : visited[k] # g[k]}
    <2>1. SUFFICES ASSUME D # {} PROVE FALSE
      OBVIOUS
    <2>2. PICK k \in D : \A j \in D : k <= j
      <3>1. D \in SUBSET Nat
        BY <1>1
      <3> HIDE DEF D
      <3> QED
        BY <2>1, <3>1, Smallest
    <2>3. k \in 0..N /\ visited[k] # g[k]
      OBVIOUS
    <2>4. k # 0
      BY <1>2, <1>3, <2>3 DEF Stepwise
    <2>5. k - 1 \in 0..N /\ k - 1 \notin D
      BY <1>1, <2>2, <2>3, <2>4
    <2>6. visited[k - 1] = g[k - 1]
      BY <2>5
    <2>7. visited[k] = IF visited[k - 1] \in Node THEN next[visited[k - 1]] ELSE visited[k - 1]
      BY <1>3, <2>3, <2>4 DEF Stepwise
    <2>8. g[k] = IF g[k - 1] \in Node THEN next[g[k - 1]] ELSE g[k - 1]
      BY <1>2, <2>3, <2>4 DEF Stepwise
    <2> QED
      BY <2>3, <2>6, <2>7, <2>8
  <1>5. visited = [k \in 0..N |-> visited[k]] /\ g = [k \in 0..N |-> g[k]]
    BY <1>2, <1>3 DEF Stepwise
  <1>6. visited = g
    BY <1>4, <1>5
  <1> QED
    BY <1>6 DEF g

(* What rpmsg_lite_get_endpoint_from_addr finds in a list without equal     *)
(* addresses.                                                               *)
LEMMA Lookup ==
    ASSUME NEW m, NEW f, Chain(m, f), Followed(m, f), NEW a,
           \A j, k \in Idx(m) : addr[f[j]] = addr[f[k]] => j = k
    PROVE  /\ \A j \in Idx(m) : addr[f[j]] = a => lookup(a) = f[j]
           /\ (\A j \in Idx(m) : addr[f[j]] # a) => lookup(a) = NULL
  <1> DEFINE hits == {k \in DOMAIN visited : visited[k] \in Node /\ addr[visited[k]] = a}
  <1>1. m \in Nat /\ m <= N /\ N \in Nat /\ NULL \notin Node
    BY ChainBound, MemoryFacts DEF Chain
  <1>2. /\ DOMAIN visited = 0..N
        /\ \A k \in 0..N : visited[k] = IF k <= m THEN f[k] ELSE NULL
    BY Walk
  <1>3. hits = {k \in Idx(m) : addr[f[k]] = a}
    <2>1. \A k \in 0..N : visited[k] \in Node <=> k \in Idx(m)
      BY <1>1, <1>2 DEF Chain, Idx
    <2>2. \A k \in Idx(m) : k \in 0..N /\ visited[k] = f[k]
      BY <1>1, <1>2 DEF Idx
    <2> QED
      BY <1>2, <2>1, <2>2
  <1>4. lookup(a) = IF hits = {} THEN NULL
                    ELSE visited[CHOOSE k \in hits : \A j \in hits : k <= j]
    BY DEF lookup
  <1> HIDE DEF hits
  <1>5. ASSUME NEW j \in Idx(m), addr[f[j]] = a
        PROVE  lookup(a) = f[j]
    <2>1. hits = {j}
      BY <1>3, <1>5
    <2>2. j <= j
      BY DEF Idx
    <2>3. (CHOOSE k \in hits : \A i \in hits : k <= i) = j
      BY <2>1, <2>2
    <2>4. visited[j] = f[j]
      BY <1>1, <1>2 DEF Idx
    <2> QED
      BY <1>4, <2>1, <2>3, <2>4
  <1>6. (\A j \in Idx(m) : addr[f[j]] # a) => lookup(a) = NULL
    BY <1>3, <1>4
  <1> QED
    BY <1>5, <1>6

(* RL_ADDR_ANY finds an address: there are more of them than nodes.         *)
LEMMA LowestFree ==
    ASSUME NEW m, NEW f, Chain(m, f), Followed(m, f), addr \in [Node -> Nat],
           \A j, k \in Idx(m) : addr[f[j]] = addr[f[k]] => j = k
    PROVE  lowest_free \in Nat /\ \A k \in Idx(m) : addr[f[k]] # lowest_free
  <1> DEFINE S == 1..(N + 1)
             free == {a \in S : lookup(a) = NULL}
  <1>1. m \in Nat /\ m <= N /\ N \in Nat /\ NULL \notin Node /\ IsFiniteSet(Node)
    BY ChainBound, MemoryFacts DEF Chain
  <1>2. \A a : lookup(a) = NULL \/ \E j \in Idx(m) : addr[f[j]] = a /\ lookup(a) = f[j]
    BY Lookup
  <1>3. free # {}
    <2> SUFFICES ASSUME free = {} PROVE FALSE
      OBVIOUS
    <2> DEFINE h == [a \in S |-> lookup(a)]
    <2>1. \A a \in S : lookup(a) \in Node /\ addr[lookup(a)] = a
      BY <1>2 DEF Chain
    <2>2. h \in [S -> Node]
      BY <2>1
    <2>3. IsFiniteSet(S) /\ Cardinality(S) = N + 1
      <3>1. 1 \in Int /\ N + 1 \in Int
        BY <1>1
      <3>2. \A b \in Int : /\ IsFiniteSet(1..b)
                            /\ Cardinality(1..b) = IF 1 > b THEN 0 ELSE b - 1 + 1
        BY <3>1, FS_Interval
      <3> QED
        BY <1>1, <3>2
    <2>4. N < Cardinality(S)
      BY <1>1, <2>3
    <2> HIDE DEF S
    <2>5. \E x, y \in S : x # y /\ h[x] = h[y]
      <3> HIDE DEF h
      <3> QED
        BY <1>1, <2>2, <2>3, <2>4, FS_PigeonHole DEF N
    <2>6. PICK x \in S, y \in S : x # y /\ h[x] = h[y]
      BY <2>5
    <2>7. lookup(x) = lookup(y)
      BY <2>6
    <2> QED
      BY <2>1, <2>6, <2>7
  <1>4. \E a \in free : \A b \in free : a <= b
    <2>1. free \in SUBSET Nat
      OBVIOUS
    <2> HIDE DEF free
    <2> QED
      BY <1>3, <2>1, Smallest
  <1>5. lowest_free = CHOOSE a \in free : \A b \in free : a <= b
    BY DEF lowest_free, N
  <1>6. lowest_free \in free
    <2> HIDE DEF free
    <2> QED
      BY <1>4, <1>5
  <1>7. lookup(lowest_free) = NULL /\ lowest_free \in Nat
    BY <1>6
  <1>8. ASSUME NEW k \in Idx(m), addr[f[k]] = lowest_free
        PROVE  FALSE
    <2>1. lookup(lowest_free) = f[k]
      BY <1>8, Lookup
    <2> QED
      BY <1>1, <1>7, <2>1 DEF Chain
  <1> QED
    BY <1>7, <1>8

-----------------------------------------------------------------------------
(* Steps.                                                                   *)

(* The state, with its list.                                                *)
State(m, f) ==
    /\ FullType /\ Owner /\ Nodes
    /\ m \in Nat /\ f \in [0..m -> Node \cup {NULL}] /\ List(m, f)

(* The invariant says that there is such a list.                            *)
LEMMA StateOf ==
    /\ IInv => \E m, f : State(m, f)
    /\ \A m, f : State(m, f)' => IInv'
  BY DEF IInv, State

(* The types, as the steps use them.                                        *)
LEMMA Types ==
    ASSUME FullType
    PROVE  /\ head \in Node \cup {NULL} /\ lock \in Tasks \cup {Free}
           /\ next \in [Node -> Node \cup {NULL, Garbage}]
           /\ prev \in [Node -> Node \cup {NULL, Garbage}]
           /\ addr \in [Node -> Nat] /\ pool \subseteq Node /\ open \subseteq Node
           /\ ns_ept \subseteq Node \cup {NULL}
           /\ task \in [Tasks -> [pc : PCs, addr : Nat, node : Node \cup {NULL}, ns : BOOLEAN]]
  BY DEF FullType, TypeOK

(* While one task holds the lock the others are outside or about to free;   *)
(* while nobody does they all are.                                          *)
LEMMA Alone ==
    ASSUME FullType, Owner
    PROVE  /\ \A t \in Tasks : Holding(t) =>
                 lock = t /\ \A u \in Tasks : u # t => task[u].pc \in {"idle", "free"}
           /\ lock = Free => \A u \in Tasks : task[u].pc \in {"idle", "free"}
  BY MemoryFacts DEF Owner, Holding

(* A task that moves on: the type of its new record.                        *)
LEMMA TaskMoves ==
    ASSUME FullType, NEW t \in Tasks,
           NEW r \in [pc : PCs, addr : Nat, node : Node \cup {NULL}, ns : BOOLEAN],
           task' = [task EXCEPT ![t] = r]
    PROVE  /\ task' \in [Tasks -> [pc : PCs, addr : Nat, node : Node \cup {NULL}, ns : BOOLEAN]]
           /\ task'[t] = r /\ \A u \in Tasks : u # t => task'[u] = task[u]
  BY DEF FullType

(* The record of an idle task.                                              *)
LEMMA IdleType ==
    /\ Idle \in [pc : PCs, addr : Nat, node : Node \cup {NULL}, ns : BOOLEAN]
    /\ Idle.pc = "idle"
  BY DEF Idle, PCs

(* FullType of the next state, from its parts.                              *)
LEMMA TypesAfter ==
    ASSUME head' \in Node \cup {NULL}, lock' \in Tasks \cup {Free},
           next' \in [Node -> Node \cup {NULL, Garbage}],
           prev' \in [Node -> Node \cup {NULL, Garbage}],
           addr' \in [Node -> Nat], pool' \subseteq Node, open' \subseteq Node,
           ns_ept' \subseteq Node \cup {NULL},
           task' \in [Tasks -> [pc : PCs, addr : Nat, node : Node \cup {NULL}, ns : BOOLEAN]]
    PROVE  FullType'
  <1>1. \A t \in Tasks : task'[t].node \in Node \cup {NULL}
    OBVIOUS
  <1> QED
    BY <1>1 DEF FullType, TypeOK

(* rpmsg_ns_bind and rpmsg_ns_unbind of a handle without an endpoint.       *)
LEMMA NsInv ==
    ASSUME NEW m, NEW f, State(m, f), NEW t \in Tasks, NsBindFailed(t) \/ NsUnbindFailed(t)
    PROVE  IInv'
  <1>1. /\ UNCHANGED <<head, next, prev, addr, pool, lock, task, open>>
        /\ ns_ept' \in {ns_ept \cup {NULL}, ns_ept \ {NULL}}
    BY DEF NsBindFailed, NsUnbindFailed
  <1>2. FullType'
    BY <1>1, Types, TypesAfter DEF State
  <1>3. Owner' /\ Nodes'
    BY <1>1 DEF State, Owner, Holding, Nodes, Has
  <1>4. List(m, f)'
    BY <1>1 DEF State, List, Chain, Links, Members, Addresses, Adding, Back, At, Has
  <1> QED
    BY <1>2, <1>3, <1>4, StateOf DEF State

(* No memory: a task that holds the lock gives it back and changes no link. *)
LEMMA CreateNoMemoryInv ==
    ASSUME NEW m, NEW f, State(m, f), NEW t \in Tasks, CreateNoMemory(t)
    PROVE  IInv'
  <1>1. /\ task[t].pc = "alloc" /\ lock' = Free
        /\ UNCHANGED <<head, next, prev, addr, pool, open>>
        /\ ns_ept' \in {ns_ept, ns_ept \cup {NULL}}
        /\ task' = [task EXCEPT ![t] = Idle]
    BY DEF CreateNoMemory, At, Return
  <1>2. /\ task' \in [Tasks -> [pc : PCs, addr : Nat, node : Node \cup {NULL}, ns : BOOLEAN]]
        /\ task'[t].pc = "idle" /\ \A u \in Tasks : u # t => task'[u] = task[u]
    BY <1>1, TaskMoves, IdleType DEF State
  <1>3. lock = t /\ \A u \in Tasks : u # t => task[u].pc \in {"idle", "free"}
    BY <1>1, Alone DEF State, Holding
  <1>4. FullType'
    BY <1>1, <1>2, Types, TypesAfter DEF State
  <1>5. Owner'
    BY <1>1, <1>2, <1>3, MemoryFacts DEF Owner, Holding
  <1>6. Nodes'
    BY <1>1, <1>2 DEF State, Nodes, Has
  <1>7. Chain(m, f)' /\ Links(m, f)' /\ Members(m, f)'
    BY <1>1, <1>2, <1>3 DEF State, List, Chain, Links, Members, At, Has
  <1>8. Addresses(m, f)' /\ Adding(m, f)' /\ Back(m, f)'
    BY <1>1, <1>2, <1>3 DEF State, List, Addresses, Adding, Back, At
  <1> QED
    BY <1>4, <1>5, <1>6, <1>7, <1>8, StateOf DEF State, List

(* The same at the end of the removal; the task keeps the node to free it.  *)
LEMMA DestroyUnlockInv ==
    ASSUME NEW m, NEW f, State(m, f), NEW t \in Tasks, DestroyUnlock(t)
    PROVE  IInv'
  <1>1. /\ task[t].pc = "unlock" /\ lock' = Free
        /\ UNCHANGED <<head, next, prev, addr, pool, open, ns_ept>>
        /\ task' = [task EXCEPT ![t].pc = "free"]
    BY DEF DestroyUnlock, At
  <1>2. /\ task' \in [Tasks -> [pc : PCs, addr : Nat, node : Node \cup {NULL}, ns : BOOLEAN]]
        /\ task'[t].pc = "free" /\ task'[t].node = task[t].node
        /\ \A u \in Tasks : u # t => task'[u] = task[u]
    BY <1>1, Types DEF State, PCs
  <1>3. lock = t /\ \A u \in Tasks : u # t => task[u].pc \in {"idle", "free"}
    BY <1>1, Alone DEF State, Holding
  <1>4. FullType'
    BY <1>1, <1>2, Types, TypesAfter DEF State
  <1>5. Owner'
    BY <1>1, <1>2, <1>3, MemoryFacts DEF Owner, Holding
  <1>6. Nodes'
    BY <1>1, <1>2 DEF State, Nodes, Has
  <1>7. Chain(m, f)' /\ Links(m, f)' /\ Members(m, f)'
    BY <1>1, <1>2, <1>3 DEF State, List, Chain, Links, Members, At, Has
  <1>8. Addresses(m, f)' /\ Adding(m, f)' /\ Back(m, f)'
    BY <1>1, <1>2, <1>3 DEF State, List, Addresses, Adding, Back, At
  <1> QED
    BY <1>4, <1>5, <1>6, <1>7, <1>8, StateOf DEF State, List

(* With the lock free the links follow the list, and the lookups are those  *)
(* of Lookup.                                                               *)
LEMMA FreeList ==
    ASSUME NEW m, NEW f, State(m, f), lock = Free
    PROVE  /\ Chain(m, f) /\ Followed(m, f)
           /\ \A j, k \in Idx(m) : addr[f[j]] = addr[f[k]] => j = k
           /\ \A u \in Tasks : task[u].pc \in {"idle", "free"}
  <1>1. \A u \in Tasks : task[u].pc \in {"idle", "free"}
    BY Alone DEF State
  <1> QED
    BY <1>1 DEF State, List, Links, Addresses, Followed, At

(* The address that is chosen or asked for is not in the list.              *)
LEMMA CreateLockInv ==
    ASSUME NEW m, NEW f, State(m, f), NEW t \in Tasks,
           NEW a \in Addr \cup {RL_ADDR_ANY, RL_NS_EPT_ADDR}, NEW ns \in BOOLEAN,
           CreateLock(t, a, ns)
    PROVE  IInv'
  <1> DEFINE b == IF a = RL_ADDR_ANY THEN lowest_free ELSE a
             r == [Idle EXCEPT !.pc = "alloc", !.ns = ns, !.addr = b]
  <1>1. /\ task[t].pc = "idle" /\ lock = Free /\ lock' = t
        /\ a # RL_ADDR_ANY => lookup(a) = NULL
        /\ UNCHANGED <<head, next, prev, addr, pool, open, ns_ept>>
        /\ task' = [task EXCEPT ![t] = r]
    BY DEF CreateLock, At, InUse
  <1>2. /\ Chain(m, f) /\ Followed(m, f)
        /\ \A j, k \in Idx(m) : addr[f[j]] = addr[f[k]] => j = k
        /\ \A u \in Tasks : task[u].pc \in {"idle", "free"}
    BY <1>1, FreeList
  <1>3. b \in Nat /\ \A k \in Idx(m) : addr[f[k]] # b
    <2>1. CASE a = RL_ADDR_ANY
      <3>1. addr \in [Node -> Nat]
        BY Types DEF State
      <3>2. lowest_free \in Nat /\ \A k \in Idx(m) : addr[f[k]] # lowest_free
        BY <1>2, <3>1, LowestFree
      <3> QED
        BY <2>1, <3>2
    <2>2. CASE a # RL_ADDR_ANY
      <3>1. a \in Nat
        BY <2>2, EndpointsAssumption
      <3>2. \A k \in Idx(m) : addr[f[k]] = a => lookup(a) = f[k]
        BY <1>2, Lookup
      <3>3. \A k \in Idx(m) : f[k] # NULL
        BY <1>2, MemoryFacts DEF Chain
      <3> QED
        BY <1>1, <2>2, <3>1, <3>2, <3>3
    <2> QED
      BY <2>1, <2>2
  <1> HIDE DEF b
  <1>4. /\ r \in [pc : PCs, addr : Nat, node : Node \cup {NULL}, ns : BOOLEAN]
        /\ r.pc = "alloc" /\ r.addr = b
    BY <1>3 DEF Idle, PCs
  <1> HIDE DEF r
  <1>5. /\ task' \in [Tasks -> [pc : PCs, addr : Nat, node : Node \cup {NULL}, ns : BOOLEAN]]
        /\ task'[t].pc = "alloc" /\ task'[t].addr = b
        /\ \A u \in Tasks : u # t => task'[u] = task[u]
    BY <1>1, <1>4, TaskMoves DEF State
  <1>6. FullType'
    BY <1>1, <1>5, Types, TypesAfter DEF State
  <1>7. Owner'
    BY <1>1, <1>2, <1>5, MemoryFacts DEF Owner, Holding
  <1>8. Nodes'
    BY <1>1, <1>5 DEF State, Nodes, Has
  <1>9. Chain(m, f)' /\ Links(m, f)' /\ Members(m, f)'
    BY <1>1, <1>2, <1>5 DEF State, List, Chain, Links, Members, At, Has
  <1>10. Addresses(m, f)' /\ Adding(m, f)' /\ Back(m, f)'
    BY <1>1, <1>2, <1>3, <1>5 DEF State, List, Addresses, Adding, Back, At
  <1> QED
    BY <1>6, <1>7, <1>8, <1>9, <1>10, StateOf DEF State, List

(* The memory that is taken is not in the list, nor in another task's hands.*)
LEMMA CreateAllocInv ==
    ASSUME NEW m, NEW f, State(m, f), NEW t \in Tasks, NEW n \in Node, CreateAlloc(t, n)
    PROVE  IInv'
  <1> DEFINE s == IF head = NULL THEN "add_first" ELSE "add"
  <1>1. /\ task[t].pc = "alloc" /\ n \in pool /\ pool' = pool \ {n}
        /\ addr' = [addr EXCEPT ![n] = task[t].addr]
        /\ UNCHANGED <<head, next, prev, lock, open, ns_ept>>
        /\ task' = [task EXCEPT ![t].node = n, ![t].pc = s]
    BY DEF CreateAlloc, At
  <1>2. /\ task' \in [Tasks -> [pc : PCs, addr : Nat, node : Node \cup {NULL}, ns : BOOLEAN]]
        /\ task'[t].pc = s /\ task'[t].node = n /\ \A u \in Tasks : u # t => task'[u] = task[u]
    BY <1>1, Types DEF State, PCs
  <1>3. lock = t /\ \A u \in Tasks : u # t => task[u].pc \in {"idle", "free"}
    BY <1>1, Alone DEF State, Holding
  <1>4. head = f[0] /\ m \in Nat /\ (m = 0 <=> f[0] = NULL)
    <2>1. head = f[0]
      BY <1>1, <1>3 DEF State, List, Links, At
    <2>2. m > 0 => 0 \in Idx(m)
      BY DEF State, Idx
    <2> QED
      BY <2>1, <2>2, MemoryFacts DEF State, List, Chain
  <1>5. \A k \in Idx(m) : f[k] # n /\ f[k] \in Node /\ f[k] \notin pool
    BY <1>1 DEF State, List, Members, Chain
  <1>6. addr' \in [Node -> Nat] /\ addr'[n] = task[t].addr /\ \A k \in Idx(m) : addr'[f[k]] = addr[f[k]]
    BY <1>1, <1>5, Types DEF State
  <1>7. FullType'
    <2>1. pool' \subseteq Node
      BY <1>1, Types DEF State
    <2> QED
      BY <1>1, <1>2, <1>6, <2>1, Types, TypesAfter DEF State
  <1>8. Owner'
    BY <1>1, <1>2, <1>3 DEF Owner, Holding
  <1>9. Nodes'
    BY <1>1, <1>2 DEF State, Nodes, Has
  <1>10. Chain(m, f)' /\ Links(m, f)' /\ Members(m, f)'
    BY <1>1, <1>2, <1>3, <1>5 DEF State, List, Chain, Links, Members, At, Has
  <1>11. Addresses(m, f)' /\ Adding(m, f)' /\ Back(m, f)'
    BY <1>1, <1>2, <1>3, <1>4, <1>6 DEF State, List, Addresses, Adding, Back, At
  <1> QED
    BY <1>7, <1>8, <1>9, <1>10, <1>11, StateOf DEF State, List

(* The new node is linked to the list, which stays what it is.              *)
LEMMA AddLinksInv ==
    ASSUME NEW m, NEW f, State(m, f), NEW t \in Tasks, AddLinks(t)
    PROVE  IInv'
  <1> DEFINE n == task[t].node
  <1>1. /\ task[t].pc = "add"
        /\ next' = [next EXCEPT ![n] = head]
        /\ prev' = [prev EXCEPT ![n] = NULL, ![head] = n]
        /\ task' = [task EXCEPT ![t].pc = "add_head"]
        /\ UNCHANGED <<head, addr, pool, lock, open, ns_ept>>
    BY DEF AddLinks, At
  <1>2. /\ task' \in [Tasks -> [pc : PCs, addr : Nat, node : Node \cup {NULL}, ns : BOOLEAN]]
        /\ task'[t].pc = "add_head" /\ task'[t].node = n
        /\ \A u \in Tasks : u # t => task'[u] = task[u]
    BY <1>1, Types DEF State, PCs
  <1>3. lock = t /\ \A u \in Tasks : u # t => task[u].pc \in {"idle", "free"}
    BY <1>1, Alone DEF State, Holding
  <1>4. /\ n \in Node \ pool /\ m > 0 /\ m \in Nat /\ 0 \in Idx(m)
        /\ \A k \in Idx(m) : f[k] # n /\ f[k] \in Node
        /\ \A j, k \in Idx(m) : f[j] = f[k] => j = k
    <2>1. m > 0 /\ m \in Nat
      BY <1>1 DEF State, List, Adding, At
    <2>2. n \in Node \ pool
      BY <1>1 DEF State, Nodes, Has
    <2>3. \A k \in Idx(m) : f[k] # n
      BY <1>1 DEF State, List, Members, Has, At
    <2> QED
      BY <2>1, <2>2, <2>3 DEF State, List, Chain, Idx
  <1>5. head = f[0] /\ \A k \in Idx(m) : next[f[k]] = f[k + 1]
    BY <1>1, <1>3 DEF State, List, Links, At
  <1>6. /\ next' \in [Node -> Node \cup {NULL, Garbage}]
        /\ prev' \in [Node -> Node \cup {NULL, Garbage}]
        /\ next'[n] = f[0] /\ prev'[f[0]] = n
        /\ \A k \in Idx(m) : next'[f[k]] = next[f[k]]
        /\ \A k \in 1..(m - 1) : prev'[f[k]] = prev[f[k]]
    <2>1. \A k \in 1..(m - 1) : k \in Idx(m) /\ k # 0
      BY <1>4 DEF Idx
    <2>2. \A k \in 1..(m - 1) : f[k] # f[0]
      BY <1>4, <2>1
    <2> QED
      BY <1>1, <1>4, <1>5, <2>1, <2>2, Types DEF State
  <1>7. FullType'
    BY <1>1, <1>2, <1>6, Types, TypesAfter DEF State
  <1>8. Owner'
    BY <1>1, <1>2, <1>3 DEF Owner, Holding
  <1>9. Nodes'
    BY <1>1, <1>2 DEF State, Nodes, Has
  <1>10. Chain(m, f)' /\ Links(m, f)' /\ Members(m, f)'
    BY <1>1, <1>2, <1>3, <1>5, <1>6 DEF State, List, Chain, Links, Members, At, Has
  <1>11. Addresses(m, f)' /\ Adding(m, f)'
    BY <1>1, <1>2, <1>3, <1>4, <1>6 DEF State, List, Addresses, Adding, At
  <1>12. Back(m, f)'
    BY <1>1, <1>2, <1>3, <1>6 DEF State, List, Back, At
  <1> QED
    BY <1>7, <1>8, <1>9, <1>10, <1>11, <1>12, StateOf DEF State, List

(* The end of create_ept, whichever store came last: the list g of l nodes  *)
(* has the new node.                                                        *)
LEMMA CreatedInv ==
    ASSUME NEW m, NEW f, State(m, f), NEW t \in Tasks, Created(t),
           task[t].pc \in {"add_head", "add_null"},
           head' \in Node \cup {NULL},
           next' \in [Node -> Node \cup {NULL, Garbage}],
           prev' \in [Node -> Node \cup {NULL, Garbage}], UNCHANGED <<addr, pool>>,
           NEW l \in Nat, NEW g, Chain(l, g), Followed(l, g)',
           \A k \in Idx(l) : g[k] = task[t].node \/ \E j \in Idx(m) : g[k] = f[j],
           \E k \in Idx(l) : g[k] = task[t].node,
           \A j \in Idx(m) : \E k \in Idx(l) : g[k] = f[j],
           \A k \in 1..(l - 1) : prev'[g[k]] = g[k - 1]
    PROVE  IInv'
  <1> DEFINE n == task[t].node
  <1>1. /\ lock' = Free /\ open' = open \cup {n}
        /\ ns_ept' \in {ns_ept, ns_ept \cup {n}}
        /\ task' = [task EXCEPT ![t] = Idle]
    BY DEF Created, Return
  <1>2. /\ task' \in [Tasks -> [pc : PCs, addr : Nat, node : Node \cup {NULL}, ns : BOOLEAN]]
        /\ task'[t].pc = "idle" /\ \A u \in Tasks : u # t => task'[u] = task[u]
    BY <1>1, TaskMoves, IdleType DEF State
  <1>3. lock = t /\ \A u \in Tasks : u # t => task[u].pc \in {"idle", "free"}
    BY Alone DEF State, Holding
  <1>4. /\ n \in Node \ pool
        /\ \A u \in Tasks : u # t /\ task[u].pc = "free" => task[u].node # n
        /\ \A k \in Idx(m) : f[k] # n /\ f[k] \notin pool
        /\ \A u \in Tasks, k \in Idx(m) : u # t /\ task[u].pc = "free" => task[u].node # f[k]
    <2>1. n \in Node \ pool
      BY DEF State, Nodes, Has
    <2>2. \A u \in Tasks : u # t /\ task[u].pc = "free" => task[u].node # n
      BY DEF State, Nodes, Has
    <2> QED
      BY <2>1, <2>2 DEF State, List, Members, Has, At
  <1>5. FullType'
    <2>1. open' \subseteq Node /\ ns_ept' \subseteq Node \cup {NULL}
      BY <1>1, <1>4, Types DEF State
    <2> QED
      BY <1>1, <1>2, <2>1, Types, TypesAfter DEF State
  <1>6. Owner'
    BY <1>1, <1>2, <1>3, MemoryFacts DEF Owner, Holding
  <1>7. Nodes'
    BY <1>1, <1>2 DEF State, Nodes, Has
  <1>8. \A u \in Tasks : task'[u].pc \in {"idle", "free"}
    BY <1>2, <1>3
  <1>9. Chain(l, g)' /\ Links(l, g)'
    BY <1>8 DEF Chain, Links, Followed, At
  <1>10. Members(l, g)'
    <2>1. \A k \in Idx(l) : g[k] \notin pool'
      BY <1>4
    <2>2. \A i \in open' : \E k \in Idx(l) : g[k] = i
      BY <1>1 DEF State, List, Members
    <2>3. \A u \in Tasks : task'[u].pc = "free" => \A k \in Idx(l) : g[k] # task'[u].node
      BY <1>2, <1>4
    <2> QED
      BY <1>8, <2>1, <2>2, <2>3 DEF Members, At, Has
  <1>11. Addresses(l, g)'
    <2>1. \A i, j \in Idx(m) : addr[f[i]] = addr[f[j]] => f[i] = f[j]
      BY DEF State, List, Addresses
    <2>2. \A j \in Idx(m) : addr[f[j]] # addr[n]
      <3>1. CASE task[t].pc = "add_head"
        BY <3>1 DEF State, List, Addresses
      <3>2. CASE task[t].pc = "add_null"
        <4>1. m = 0
          BY <3>2 DEF State, List, Links, At
        <4> QED
          BY <4>1 DEF Idx
      <3> QED
        BY <3>1, <3>2
    <2>3. \A i, j \in Idx(l) : addr[g[i]] = addr[g[j]] => g[i] = g[j]
      BY <2>1, <2>2
    <2> QED
      BY <1>8, <2>3 DEF Addresses, Chain, At
  <1>12. Adding(l, g)' /\ Back(l, g)'
    BY <1>8 DEF Adding, Back, At
  <1>13. g \in [0..l -> Node \cup {NULL}]
    BY DEF Chain
  <1> QED
    BY <1>5, <1>6, <1>7, <1>9, <1>10, <1>11, <1>12, <1>13, StateOf DEF State, List

(* The new node becomes the head of the list.                               *)
LEMMA AddHeadInv ==
    ASSUME NEW m, NEW f, State(m, f), NEW t \in Tasks, AddHead(t)
    PROVE  IInv'
  <1> DEFINE n == task[t].node
  <1>0. PICK l, g : l = m + 1 /\ g = [k \in 0..l |-> IF k = 0 THEN n ELSE f[k - 1]]
    OBVIOUS
  <1>1. /\ task[t].pc = "add_head" /\ head' = n /\ Created(t)
        /\ UNCHANGED <<next, prev, addr, pool>>
    BY DEF AddHead, At
  <1>2. /\ m \in Nat /\ m > 0 /\ l = m + 1 /\ next[n] = f[0] /\ prev[f[0]] = n /\ n \in Node
        /\ \A k \in Idx(m) : f[k] # n
    <2>1. m \in Nat /\ m > 0 /\ next[n] = f[0] /\ prev[f[0]] = n
      BY <1>1 DEF State, List, Adding, At
    <2>2. n \in Node
      BY <1>1 DEF State, Nodes, Has
    <2> QED
      BY <1>0, <1>1, <2>1, <2>2 DEF State, List, Members, Has, At
  <1>3. \A u \in Tasks : u # t => task[u].pc \in {"idle", "free"}
    BY <1>1, Alone DEF State, Holding
  <1>4. \A k \in Idx(m) : next[f[k]] = f[k + 1]
    BY <1>1, <1>3 DEF State, List, Links, At
  <1>5. \A k \in 1..(m - 1) : prev[f[k]] = f[k - 1]
    BY <1>1, <1>3 DEF State, List, Back, At
  <1>6. /\ \A k \in Idx(m) : f[k] \in Node
        /\ \A j, k \in Idx(m) : f[j] = f[k] => j = k
        /\ f[m] = NULL /\ f \in [0..m -> Node \cup {NULL}]
    BY DEF State, List, Chain
  <1>7. /\ l \in Nat /\ g[0] = n /\ 0 \in Idx(l)
        /\ \A k \in 1..l : g[k] = f[k - 1]
        /\ \A k \in Idx(l) : k = 0 \/ k - 1 \in Idx(m)
        /\ \A k \in Idx(m) : k + 1 \in Idx(l) /\ g[k + 1] = f[k] /\ (k + 1) - 1 = k
        /\ g \in [0..l -> Node \cup {NULL}] /\ g[l] = NULL
    <2>1. l \in Nat /\ 0 \in Idx(l) /\ g[0] = n
      BY <1>0, <1>2 DEF Idx
    <2>2. \A k \in 1..l : g[k] = f[k - 1] /\ k - 1 \in 0..m
      BY <1>0, <1>2
    <2>3. g \in [0..l -> Node \cup {NULL}]
      BY <1>0, <1>2, <1>6, <2>2
    <2>4. g[l] = NULL
      BY <1>2, <1>6, <2>2
    <2>5. \A k \in Idx(m) : k + 1 \in Idx(l) /\ k + 1 \in 1..l /\ (k + 1) - 1 = k
      BY <1>2 DEF Idx
    <2>6. \A k \in Idx(l) : k = 0 \/ k - 1 \in Idx(m)
      BY <1>2 DEF Idx
    <2> QED
      BY <2>1, <2>2, <2>3, <2>4, <2>5, <2>6
  <1>8. Chain(l, g)
    <2>1. \A k \in Idx(l) : k # 0 => k \in 1..l /\ g[k] = f[k - 1] /\ k - 1 \in Idx(m)
      BY <1>2, <1>7 DEF Idx
    <2>2. \A k \in Idx(l) : g[k] \in Node
      <3>1. \A k \in Idx(l) : k # 0 => g[k] \in Node
        BY <1>6, <2>1
      <3> QED
        BY <1>2, <1>7, <3>1
    <2>3. ASSUME NEW j \in Idx(l), NEW k \in Idx(l), g[j] = g[k]
          PROVE  j = k
      <3>1. CASE j = 0 \/ k = 0
        BY <1>2, <1>7, <2>1, <2>3, <3>1
      <3>2. CASE j # 0 /\ k # 0
        <4>1. j - 1 = k - 1
          BY <1>6, <2>1, <2>3, <3>2
        <4>2. j \in Int /\ k \in Int
          BY <1>7 DEF Idx
        <4> QED
          BY <4>1, <4>2
      <3> QED
        BY <3>1, <3>2
    <2> QED
      BY <1>7, <2>2, <2>3 DEF Chain
  <1>9. Followed(l, g)'
    <2>1. \A k \in Idx(l) : next[g[k]] = g[k + 1]
      <3> SUFFICES ASSUME NEW k \in Idx(l) PROVE next[g[k]] = g[k + 1]
        OBVIOUS
      <3>1. CASE k = 0
        <4>1. g[k + 1] = f[0]
          BY <1>2, <1>7, <3>1 DEF Idx
        <4> QED
          BY <1>2, <1>7, <3>1, <4>1
      <3>2. CASE k # 0
        <4>1. k \in 1..l /\ k + 1 \in 1..l /\ (k + 1) - 1 = k /\ (k - 1) + 1 = k /\ k - 1 \in Idx(m)
          BY <1>2, <1>7, <3>2 DEF Idx
        <4>2. g[k] = f[k - 1] /\ g[k + 1] = f[k]
          BY <1>7, <4>1
        <4> QED
          BY <1>4, <4>1, <4>2
      <3> QED
        BY <3>1, <3>2
    <2> QED
      BY <1>1, <1>7, <2>1 DEF Followed
  <1>10. \A k \in 1..(l - 1) : prev'[g[k]] = g[k - 1]
    <2> SUFFICES ASSUME NEW k \in 1..(l - 1) PROVE prev[g[k]] = g[k - 1]
      BY <1>1
    <2>1. k \in 1..l /\ g[k] = f[k - 1]
      BY <1>2, <1>7
    <2>2. CASE k = 1
      BY <1>2, <1>7, <2>1, <2>2
    <2>3. CASE k # 1
      <3>1. k - 1 \in 1..(m - 1) /\ k - 1 \in 1..l
        BY <1>2, <2>3
      <3> QED
        BY <1>5, <1>7, <2>1, <3>1
    <2> QED
      BY <2>2, <2>3
  <1>11. /\ \A k \in Idx(l) : g[k] = n \/ \E j \in Idx(m) : g[k] = f[j]
         /\ \E k \in Idx(l) : g[k] = n
         /\ \A j \in Idx(m) : \E k \in Idx(l) : g[k] = f[j]
    <2>1. \A k \in Idx(l) : g[k] = n \/ \E j \in Idx(m) : g[k] = f[j]
      <3>1. \A k \in Idx(l) : k # 0 => k \in 1..l
        BY <1>7 DEF Idx
      <3> QED
        BY <1>7, <3>1
    <2> QED
      BY <1>7, <2>1
  <1>12. /\ head' \in Node \cup {NULL} /\ next' \in [Node -> Node \cup {NULL, Garbage}]
         /\ prev' \in [Node -> Node \cup {NULL, Garbage}]
    BY <1>1, <1>2, Types DEF State
  <1>13. l \in Nat /\ Created(t) /\ task[t].pc \in {"add_head", "add_null"} /\ UNCHANGED <<addr, pool>>
    BY <1>1, <1>7
  <1> QED
    BY <1>8, <1>9, <1>10, <1>11, <1>12, <1>13, CreatedInv

(* The first node becomes the head, and is not linked yet.                  *)
LEMMA AddFirstInv ==
    ASSUME NEW m, NEW f, State(m, f), NEW t \in Tasks, AddFirst(t)
    PROVE  IInv'
  <1> DEFINE n == task[t].node
  <1>1. /\ task[t].pc = "add_first" /\ head' = n
        /\ task' = [task EXCEPT ![t].pc = "add_null"]
        /\ UNCHANGED <<next, prev, addr, pool, lock, open, ns_ept>>
    BY DEF AddFirst, At
  <1>2. /\ task' \in [Tasks -> [pc : PCs, addr : Nat, node : Node \cup {NULL}, ns : BOOLEAN]]
        /\ task'[t].pc = "add_null" /\ task'[t].node = n
        /\ \A u \in Tasks : u # t => task'[u] = task[u]
    BY <1>1, Types DEF State, PCs
  <1>3. lock = t /\ \A u \in Tasks : u # t => task[u].pc \in {"idle", "free"}
    BY <1>1, Alone DEF State, Holding
  <1>4. m = 0 /\ n \in Node
    BY <1>1 DEF State, List, Adding, At, Nodes, Has
  <1>5. FullType'
    BY <1>1, <1>2, <1>4, Types, TypesAfter DEF State
  <1>6. Owner'
    BY <1>1, <1>2, <1>3 DEF Owner, Holding
  <1>7. Nodes'
    BY <1>1, <1>2 DEF State, Nodes, Has
  <1>8. Chain(m, f)' /\ Links(m, f)' /\ Members(m, f)'
    BY <1>1, <1>2, <1>3, <1>4 DEF State, List, Chain, Links, Members, At, Has
  <1>9. Addresses(m, f)' /\ Adding(m, f)' /\ Back(m, f)'
    BY <1>1, <1>2, <1>3, <1>4 DEF State, List, Addresses, Adding, Back, At, Idx
  <1> QED
    BY <1>5, <1>6, <1>7, <1>8, <1>9, StateOf DEF State, List

(* The first node is linked: a list of one node.                            *)
LEMMA AddNullInv ==
    ASSUME NEW m, NEW f, State(m, f), NEW t \in Tasks, AddNull(t)
    PROVE  IInv'
  <1> DEFINE n == task[t].node
  <1>0. PICK g : g = [k \in 0..1 |-> IF k = 0 THEN n ELSE NULL]
    OBVIOUS
  <1>1. /\ task[t].pc = "add_null" /\ head' = head /\ Created(t)
        /\ next' = [next EXCEPT ![head] = NULL] /\ prev' = [prev EXCEPT ![head] = NULL]
        /\ UNCHANGED <<addr, pool>>
    BY DEF AddNull, At
  <1>2. m = 0 /\ head = n /\ n \in Node
    BY <1>1 DEF State, List, Links, At, Nodes, Has
  <1>3. Idx(m) = {} /\ Idx(1) = {0} /\ 1..(1 - 1) = {}
    BY <1>2 DEF Idx
  <1>4. g \in [0..1 -> Node \cup {NULL}] /\ g[0] = n /\ g[1] = NULL
    BY <1>0, <1>2
  <1>5. Chain(1, g)
    BY <1>2, <1>3, <1>4 DEF Chain
  <1>6. /\ next' \in [Node -> Node \cup {NULL, Garbage}]
        /\ prev' \in [Node -> Node \cup {NULL, Garbage}]
        /\ head' \in Node \cup {NULL} /\ next'[n] = NULL
    BY <1>1, <1>2, Types DEF State
  <1>7. Followed(1, g)'
    BY <1>1, <1>2, <1>3, <1>4, <1>6 DEF Followed
  <1>8. 1 \in Nat /\ 0 \in Idx(1)
    BY <1>3
  <1> QED
    BY <1>1, <1>3, <1>4, <1>5, <1>6, <1>7, <1>8, CreatedInv

(* The endpoint that is destroyed is found at its address, and leaves the   *)
(* hands of the application.                                                *)
LEMMA DestroyLockInv ==
    ASSUME NEW m, NEW f, State(m, f), NEW t \in Tasks, NEW n \in Node, DestroyLock(t, n)
    PROVE  IInv'
  <1> DEFINE r == [Idle EXCEPT !.pc = "remove", !.node = lookup(addr[n])]
  <1>1. /\ task[t].pc = "idle" /\ lock = Free /\ lock' = t /\ n \in open
        /\ open' = open \ {n} /\ ns_ept' = ns_ept \ {n}
        /\ UNCHANGED <<head, next, prev, addr, pool>>
        /\ task' = [task EXCEPT ![t] = r]
    BY DEF DestroyLock, At
  <1>2. /\ Chain(m, f) /\ Followed(m, f)
        /\ \A j, k \in Idx(m) : addr[f[j]] = addr[f[k]] => j = k
        /\ \A u \in Tasks : task[u].pc \in {"idle", "free"}
    BY <1>1, FreeList
  <1>3. PICK i \in Idx(m) : f[i] = n
    BY <1>1 DEF State, List, Members
  <1>4. lookup(addr[n]) = n
    BY <1>2, <1>3, Lookup
  <1>5. /\ r \in [pc : PCs, addr : Nat, node : Node \cup {NULL}, ns : BOOLEAN]
        /\ r.pc = "remove" /\ r.node = n
    BY <1>4 DEF Idle, PCs
  <1> HIDE DEF r
  <1>6. /\ task' \in [Tasks -> [pc : PCs, addr : Nat, node : Node \cup {NULL}, ns : BOOLEAN]]
        /\ task'[t].pc = "remove" /\ task'[t].node = n
        /\ \A u \in Tasks : u # t => task'[u] = task[u]
    BY <1>1, <1>5, TaskMoves DEF State
  <1>7. n \notin pool /\ \A u \in Tasks : Has(u) => task[u].node # n
    BY <1>2, <1>3 DEF State, List, Members, Has, At
  <1>8. FullType'
    <2>1. open' \subseteq Node /\ ns_ept' \subseteq Node \cup {NULL}
      BY <1>1, Types DEF State
    <2> QED
      BY <1>1, <1>6, <2>1, Types, TypesAfter DEF State
  <1>9. Owner'
    BY <1>1, <1>2, <1>6, MemoryFacts DEF Owner, Holding
  <1>10. Nodes'
    BY <1>1, <1>6, <1>7 DEF State, Nodes, Has
  <1>11. Chain(m, f)' /\ Links(m, f)'
    BY <1>1, <1>2, <1>6 DEF State, List, Chain, Links, At
  <1>12. Members(m, f)'
    BY <1>1, <1>2, <1>3, <1>6 DEF State, List, Members, At, Has
  <1>13. Addresses(m, f)' /\ Adding(m, f)' /\ Back(m, f)'
    BY <1>1, <1>2, <1>6 DEF State, List, Addresses, Adding, Back, At
  <1> QED
    BY <1>8, <1>9, <1>10, <1>11, <1>12, <1>13, StateOf DEF State, List

(* The memory that is freed is in no list and in no other task's hands.     *)
LEMMA DestroyFreeInv ==
    ASSUME NEW m, NEW f, State(m, f), NEW t \in Tasks, NEW overwritten \in BOOLEAN,
           DestroyFree(t, overwritten)
    PROVE  IInv'
  <1> DEFINE n == task[t].node
  <1>1. /\ task[t].pc = "free" /\ pool' = pool \cup {n}
        /\ next' \in {next, [next EXCEPT ![n] = Garbage]}
        /\ prev' \in {prev, [prev EXCEPT ![n] = Garbage]}
        /\ task' = [task EXCEPT ![t] = Idle]
        /\ UNCHANGED <<head, addr, lock, open, ns_ept>>
    BY DEF DestroyFree, At, Return
  <1>2. /\ task' \in [Tasks -> [pc : PCs, addr : Nat, node : Node \cup {NULL}, ns : BOOLEAN]]
        /\ task'[t].pc = "idle" /\ \A u \in Tasks : u # t => task'[u] = task[u]
    BY <1>1, TaskMoves, IdleType DEF State
  <1>3. /\ n \in Node
        /\ \A u \in Tasks : u # t /\ Has(u) => task[u].node \in Node /\ task[u].node # n
        /\ \A k \in Idx(m) : f[k] # n /\ f[k] \in Node
    <2>1. n \in Node /\ \A u \in Tasks : u # t /\ Has(u) => task[u].node \in Node /\ task[u].node # n
      BY <1>1 DEF State, Nodes, Has
    <2> QED
      BY <1>1, <2>1 DEF State, List, Members, Chain, Has, At
  <1>4. /\ next' \in [Node -> Node \cup {NULL, Garbage}]
        /\ prev' \in [Node -> Node \cup {NULL, Garbage}]
        /\ \A x \in Node : x # n => next'[x] = next[x] /\ prev'[x] = prev[x]
    BY <1>1, <1>3, Types DEF State
  <1>5. FullType'
    <2>1. pool' \subseteq Node
      BY <1>1, <1>3, Types DEF State
    <2> QED
      BY <1>1, <1>2, <1>4, <2>1, Types, TypesAfter DEF State
  <1>6. Owner'
    BY <1>1, <1>2 DEF State, Owner, Holding
  <1>7. Nodes'
    BY <1>1, <1>2, <1>3 DEF State, Nodes, Has
  <1>8. Chain(m, f)' /\ Links(m, f)'
    <2>1. (\A u \in Tasks : ~At(u, "add_null")') => \A u \in Tasks : ~At(u, "add_null")
      BY <1>1, <1>2 DEF At
    <2> QED
      BY <1>1, <1>2, <1>3, <1>4, <2>1 DEF State, List, Chain, Links, At
  <1>9. Members(m, f)'
    BY <1>1, <1>2, <1>3 DEF State, List, Members, At, Has
  <1>10. Addresses(m, f)'
    BY <1>1, <1>2 DEF State, List, Addresses, At
  <1>11. Adding(m, f)'
    <2>1. m > 0 => 0 \in Idx(m)
      BY DEF State, Idx
    <2> QED
      BY <1>1, <1>2, <1>3, <1>4, <2>1 DEF State, List, Adding, At, Has
  <1>12. Back(m, f)'
    <2>1. \A k \in 1..(m - 1) : k \in Idx(m)
      BY DEF State, Idx
    <2>2. ASSUME NEW k \in 1..(m - 1)
          PROVE  \/ prev'[f[k]] = f[k - 1]
                 \/ \E u \in Tasks : At(u, "remove_prev")' /\ next'[task'[u].node] = f[k]
      <3>1. prev'[f[k]] = prev[f[k]]
        BY <1>3, <1>4, <2>1
      <3>2. ASSUME NEW u \in Tasks, At(u, "remove_prev"), next[task[u].node] = f[k]
            PROVE  At(u, "remove_prev")' /\ next'[task'[u].node] = f[k]
        BY <1>1, <1>2, <1>3, <1>4, <3>2 DEF At, Has
      <3> QED
        BY <3>1, <3>2 DEF State, List, Back
    <2>3. ASSUME NEW u \in Tasks, At(u, "remove_prev")'
          PROVE  \E k \in 1..(m - 1) :
                    next'[task'[u].node] = f[k] /\ prev'[task'[u].node] = f[k - 1]
      <3>1. u # t /\ task'[u] = task[u] /\ At(u, "remove_prev") /\ task[u].node \in Node /\ task[u].node # n
        BY <1>1, <1>2, <1>3, <2>3 DEF At, Has
      <3> QED
        BY <1>4, <3>1 DEF State, List, Back
    <2> QED
      BY <2>2, <2>3 DEF Back
  <1> QED
    BY <1>5, <1>6, <1>7, <1>8, <1>9, <1>10, <1>11, <1>12, StateOf DEF State, List

(* The last link of remove_from_list is set.                                *)
LEMMA UnlinkPrevInv ==
    ASSUME NEW m, NEW f, State(m, f), NEW t \in Tasks, UnlinkPrev(t)
    PROVE  IInv'
  <1> DEFINE n == task[t].node
  <1>1. /\ task[t].pc = "remove_prev" /\ prev' = [prev EXCEPT ![next[n]] = prev[n]]
        /\ task' = [task EXCEPT ![t].pc = "unlock"]
        /\ UNCHANGED <<head, next, addr, pool, lock, open, ns_ept>>
    BY DEF UnlinkPrev, At
  <1>2. /\ task' \in [Tasks -> [pc : PCs, addr : Nat, node : Node \cup {NULL}, ns : BOOLEAN]]
        /\ task'[t].pc = "unlock" /\ task'[t].node = n
        /\ \A u \in Tasks : u # t => task'[u] = task[u]
    BY <1>1, Types DEF State, PCs
  <1>3. lock = t /\ \A u \in Tasks : u # t => task[u].pc \in {"idle", "free"}
    BY <1>1, Alone DEF State, Holding
  <1>4. PICK i \in 1..(m - 1) : next[n] = f[i] /\ prev[n] = f[i - 1]
    BY <1>1 DEF State, List, Back, At
  <1>5. /\ \A k \in 1..(m - 1) : k \in Idx(m) /\ k - 1 \in Idx(m)
        /\ \A k \in Idx(m) : f[k] \in Node
        /\ \A j, k \in Idx(m) : f[j] = f[k] => j = k
    BY DEF State, List, Chain, Idx
  <1>6. /\ prev' \in [Node -> Node \cup {NULL, Garbage}]
        /\ prev'[f[i]] = f[i - 1]
        /\ \A k \in 1..(m - 1) : k # i => prev'[f[k]] = prev[f[k]]
    <2>1. f[i] \in Node /\ f[i - 1] \in Node
      BY <1>4, <1>5
    <2>2. \A k \in 1..(m - 1) : k # i => f[k] # f[i]
      BY <1>4, <1>5
    <2> QED
      BY <1>1, <1>4, <1>5, <2>1, <2>2, Types DEF State
  <1>7. FullType'
    BY <1>1, <1>2, <1>6, Types, TypesAfter DEF State
  <1>8. Owner'
    BY <1>1, <1>2, <1>3 DEF Owner, Holding
  <1>9. Nodes'
    BY <1>1, <1>2 DEF State, Nodes, Has
  <1>10. Chain(m, f)' /\ Links(m, f)' /\ Members(m, f)'
    BY <1>1, <1>2, <1>3 DEF State, List, Chain, Links, Members, At, Has
  <1>11. Addresses(m, f)' /\ Adding(m, f)'
    BY <1>1, <1>2, <1>3 DEF State, List, Addresses, Adding, At
  <1>12. Back(m, f)'
    <2>1. \A k \in 1..(m - 1) : k # i => prev[f[k]] = f[k - 1]
      <3> SUFFICES ASSUME NEW k \in 1..(m - 1), k # i PROVE prev[f[k]] = f[k - 1]
        OBVIOUS
      <3>1. f[k] # f[i]
        BY <1>4, <1>5
      <3> QED
        BY <1>1, <1>3, <1>4, <3>1 DEF State, List, Back, At
    <2> QED
      BY <1>2, <1>3, <1>6, <2>1 DEF Back, At
  <1> QED
    BY <1>7, <1>8, <1>9, <1>10, <1>11, <1>12, StateOf DEF State, List

(* The node at place i is taken out of the list, at the head or between its *)
(* neighbours.                                                              *)
LEMMA UnlinkInv ==
    ASSUME NEW m, NEW f, State(m, f), NEW t \in Tasks, Unlink(t)
    PROVE  IInv'
  <1> DEFINE n == task[t].node
             s == IF n = head \/ next[n] = NULL THEN "unlock" ELSE "remove_prev"
  <1>1. /\ task[t].pc = "remove"
        /\ head' = IF n = head THEN next[n] ELSE head
        /\ next' = IF n = head THEN next ELSE [next EXCEPT ![prev[n]] = next[n]]
        /\ task' = [task EXCEPT ![t].pc = s]
        /\ UNCHANGED <<prev, addr, pool, lock, open, ns_ept>>
    BY DEF Unlink, At
  <1>2. /\ task' \in [Tasks -> [pc : PCs, addr : Nat, node : Node \cup {NULL}, ns : BOOLEAN]]
        /\ task'[t].pc = s /\ task'[t].node = n
        /\ \A u \in Tasks : u # t => task'[u] = task[u]
    <2>1. s \in PCs
      BY DEF PCs
    <2> HIDE DEF s
    <2> QED
      BY <1>1, <2>1, Types DEF State
  <1>3. lock = t /\ \A u \in Tasks : u # t => task[u].pc \in {"idle", "free"}
    BY <1>1, Alone DEF State, Holding
  <1>4. PICK i \in Idx(m) : f[i] = n
    BY <1>1 DEF State, List, Members, At
  <1>5. /\ m \in Nat /\ f \in [0..m -> Node \cup {NULL}] /\ f[m] = NULL
        /\ \A k \in Idx(m) : f[k] \in Node
        /\ \A j, k \in Idx(m) : f[j] = f[k] => j = k
    BY DEF State, List, Chain
  <1>6. head = f[0] /\ \A k \in Idx(m) : next[f[k]] = f[k + 1]
    BY <1>1, <1>3 DEF State, List, Links, At
  <1>7. \A k \in 1..(m - 1) : prev[f[k]] = f[k - 1]
    BY <1>1, <1>3 DEF State, List, Back, At
  <1>8. n \in Node /\ n \notin open /\ n \notin pool
    BY <1>1, <1>4, <1>5 DEF State, List, Members, At
  <1>9. i \in Int /\ i >= 0 /\ i < m /\ next[n] = f[i + 1] /\ (n = head <=> i = 0)
    <2>1. 0 \in Idx(m) /\ i \in Int /\ i >= 0 /\ i < m
      BY <1>4, <1>5 DEF Idx
    <2> QED
      BY <1>4, <1>5, <1>6, <2>1
  <1>10. PICK l, g : l = m - 1 /\ g = [k \in 0..l |-> IF k < i THEN f[k] ELSE f[k + 1]]
    OBVIOUS
  <1>11. /\ l \in Nat /\ m = l + 1 /\ i \in 0..l
         /\ \A k \in 0..l : g[k] = IF k < i THEN f[k] ELSE f[k + 1]
    BY <1>5, <1>9, <1>10
  (* where the nodes of g come from, and where those of f but n go to *)
  <1>12. /\ \A k \in Idx(l) : \E j \in Idx(m) : j # i /\ g[k] = f[j]
         /\ \A j \in Idx(m) : j # i => \E k \in Idx(l) : g[k] = f[j]
    <2>1. ASSUME NEW k \in Idx(l)
          PROVE  \E j \in Idx(m) : j # i /\ g[k] = f[j]
      <3>1. CASE k < i
        <4>1. k \in Idx(m) /\ k # i /\ g[k] = f[k]
          BY <1>11, <3>1 DEF Idx
        <4> QED
          BY <4>1
      <3>2. CASE ~(k < i)
        <4>1. k + 1 \in Idx(m) /\ k + 1 # i /\ g[k] = f[k + 1]
          BY <1>11, <3>2 DEF Idx
        <4> QED
          BY <4>1
      <3> QED
        BY <3>1, <3>2
    <2>2. ASSUME NEW j \in Idx(m), j # i
          PROVE  \E k \in Idx(l) : g[k] = f[j]
      <3>1. CASE j < i
        <4>1. j \in Idx(l) /\ g[j] = f[j]
          BY <1>11, <3>1 DEF Idx
        <4> QED
          BY <4>1
      <3>2. CASE ~(j < i)
        <4>1. j - 1 \in Idx(l) /\ ~(j - 1 < i) /\ (j - 1) + 1 = j
          BY <1>11, <2>2, <3>2 DEF Idx
        <4>2. j - 1 \in 0..l
          BY <1>11, <4>1 DEF Idx
        <4>3. g[j - 1] = f[j]
          BY <1>11, <4>1, <4>2
        <4> QED
          BY <4>1, <4>3
      <3> QED
        BY <3>1, <3>2
    <2> QED
      BY <2>1, <2>2
  <1>13. Chain(l, g)
    <2>1. g \in [0..l -> Node \cup {NULL}] /\ g[l] = NULL
      <3>1. \A k \in 0..l : k \in 0..m /\ k + 1 \in 0..m
        BY <1>11
      <3>2. \A k \in 0..l : g[k] \in Node \cup {NULL}
        BY <1>5, <1>11, <3>1
      <3>3. g[l] = f[l + 1] /\ l + 1 = m
        BY <1>11
      <3> QED
        BY <1>5, <1>10, <3>2, <3>3
    <2>2. \A k \in Idx(l) : g[k] \in Node
      BY <1>5, <1>12
    <2>3. ASSUME NEW j \in Idx(l), NEW k \in Idx(l), g[j] = g[k]
          PROVE  j = k
      <3>1. /\ j \in Idx(m) /\ k \in Idx(m) /\ j + 1 \in Idx(m) /\ k + 1 \in Idx(m)
            /\ j \in 0..l /\ k \in 0..l /\ j \in Int /\ k \in Int
        BY <1>11 DEF Idx
      <3>2. CASE j < i /\ k < i
        <4>1. f[j] = f[k]
          BY <1>11, <2>3, <3>1, <3>2
        <4> QED
          BY <1>5, <3>1, <4>1
      <3>3. CASE ~(j < i) /\ ~(k < i)
        <4>1. f[j + 1] = f[k + 1]
          BY <1>11, <2>3, <3>1, <3>3
        <4>2. j + 1 = k + 1
          BY <1>5, <3>1, <4>1
        <4> QED
          BY <3>1, <4>2
      <3>4. CASE j < i /\ ~(k < i)
        <4>1. f[j] = f[k + 1]
          BY <1>11, <2>3, <3>1, <3>4
        <4>2. j = k + 1
          BY <1>5, <3>1, <4>1
        <4> QED
          BY <1>9, <3>1, <3>4, <4>2
      <3>5. CASE ~(j < i) /\ k < i
        <4>1. f[j + 1] = f[k]
          BY <1>11, <2>3, <3>1, <3>5
        <4>2. j + 1 = k
          BY <1>5, <3>1, <4>1
        <4> QED
          BY <1>9, <3>1, <3>5, <4>2
      <3> QED
        BY <3>2, <3>3, <3>4, <3>5
    <2> QED
      BY <1>11, <2>1, <2>2, <2>3 DEF Chain
  (* the stores *)
  <1>14. /\ head' \in Node \cup {NULL} /\ head' = g[0]
         /\ next' \in [Node -> Node \cup {NULL, Garbage}] /\ next'[n] = next[n]
         /\ \A k \in Idx(m) : k # i =>
               next'[f[k]] = IF k = i - 1 THEN f[i + 1] ELSE next[f[k]]
    <2>1. CASE i = 0
      <3>1. head' = f[1] /\ next' = next
        BY <1>1, <1>9, <2>1
      <3>2. g[0] = f[1] /\ 1 \in 0..m
        BY <1>11, <2>1
      <3>3. \A k \in Idx(m) : k # i - 1
        BY <1>5, <2>1 DEF Idx
      <3> QED
        BY <1>5, <3>1, <3>2, <3>3, Types DEF State
    <2>2. CASE i > 0
      <3>1. head' = f[0] /\ prev[n] = f[i - 1] /\ i - 1 \in Idx(m)
        <4>1. i \in 1..(m - 1) /\ i - 1 \in Idx(m)
          BY <1>5, <1>9, <2>2 DEF Idx
        <4> QED
          BY <1>1, <1>4, <1>6, <1>7, <1>9, <2>2, <4>1
      <3>2. next' = [next EXCEPT ![f[i - 1]] = f[i + 1]]
        BY <1>1, <1>9, <2>2, <3>1
      <3>3. g[0] = f[0] /\ f[0] \in Node \cup {NULL}
        BY <1>5, <1>11, <2>2
      <3>4. f[i - 1] \in Node /\ f[i - 1] # n /\ f[i + 1] \in Node \cup {NULL}
        <4>1. i - 1 # i /\ i + 1 \in 0..m
          BY <1>5, <1>9
        <4> QED
          BY <1>4, <1>5, <3>1, <4>1
      <3>5. \A k \in Idx(m) : f[k] = f[i - 1] <=> k = i - 1
        BY <1>5, <3>1
      <3>6. next \in [Node -> Node \cup {NULL, Garbage}]
        BY Types DEF State
      <3>7. next' \in [Node -> Node \cup {NULL, Garbage}]
        BY <3>2, <3>4, <3>6
      <3>8. \A x \in Node : next'[x] = IF x = f[i - 1] THEN f[i + 1] ELSE next[x]
        BY <3>2, <3>4, <3>6
      <3> QED
        BY <1>5, <1>8, <3>1, <3>3, <3>4, <3>5, <3>7, <3>8
    <2>3. i = 0 \/ i > 0
      BY <1>9
    <2> QED
      BY <2>1, <2>2, <2>3
  <1>15. \A k \in Idx(l) : next'[g[k]] = g[k + 1]
    <2> SUFFICES ASSUME NEW k \in Idx(l) PROVE next'[g[k]] = g[k + 1]
      OBVIOUS
    <2>1. k \in 0..l /\ k + 1 \in 0..l /\ k \in Idx(m) /\ k + 1 \in Idx(m) /\ k \in Int
      BY <1>11 DEF Idx
    <2>2. CASE k < i - 1
      <3>1. g[k] = f[k] /\ g[k + 1] = f[k + 1] /\ k # i /\ k # i - 1
        BY <1>9, <1>11, <2>1, <2>2
      <3> QED
        BY <1>6, <1>14, <2>1, <3>1
    <2>3. CASE k = i - 1
      <3>1. g[k] = f[k] /\ g[k + 1] = f[i + 1] /\ k # i
        BY <1>9, <1>11, <2>1, <2>3
      <3> QED
        BY <1>14, <2>1, <2>3, <3>1
    <2>4. CASE k >= i
      <3>1. g[k] = f[k + 1] /\ g[k + 1] = f[(k + 1) + 1] /\ k + 1 # i /\ k + 1 # i - 1
        BY <1>9, <1>11, <2>1, <2>4
      <3> QED
        BY <1>6, <1>14, <2>1, <3>1
    <2> QED
      BY <1>9, <2>1, <2>2, <2>3, <2>4
  <1>16. FullType'
    BY <1>1, <1>2, <1>14, Types, TypesAfter DEF State
  <1>17. Owner'
    BY <1>1, <1>2, <1>3 DEF Owner, Holding
  <1>18. Nodes'
    BY <1>1, <1>2, <1>8 DEF State, Nodes, Has
  <1>19. Links(l, g)' /\ Adding(l, g)'
    BY <1>2, <1>3, <1>14, <1>15 DEF Links, Adding, At
  <1>20. Members(l, g)'
    <2>1. \A k \in Idx(l) : g[k] \notin pool'
      BY <1>1, <1>12 DEF State, List, Members
    <2>2. \A x \in open' : \E k \in Idx(l) : g[k] = x
      <3> SUFFICES ASSUME NEW x \in open PROVE \E k \in Idx(l) : g[k] = x
        BY <1>1
      <3>1. PICK j \in Idx(m) : f[j] = x
        BY DEF State, List, Members
      <3>2. j # i
        BY <1>4, <1>8, <3>1
      <3> QED
        BY <1>12, <3>1, <3>2
    <2>3. \A k \in Idx(l) : g[k] # n
      BY <1>4, <1>5, <1>12
    <2>4. ASSUME NEW u \in Tasks, u # t, Has(u)
          PROVE  \A k \in Idx(l) : g[k] # task[u].node
      <3>1. ~At(u, "remove")
        BY <1>3, <2>4 DEF At
      <3>2. \A j \in Idx(m) : f[j] # task[u].node
        BY <2>4, <3>1 DEF State, List, Members
      <3> QED
        BY <1>12, <3>2
    <2>5. \A u \in Tasks : Has(u)' => \A k \in Idx(l) : g[k] # task'[u].node
      BY <1>2, <2>3, <2>4 DEF Has
    <2>6. \A u \in Tasks : ~At(u, "remove")'
      BY <1>2, <1>3 DEF At
    <2> QED
      BY <2>1, <2>2, <2>5, <2>6 DEF Members
  <1>21. Addresses(l, g)'
    <2>1. \A j, k \in Idx(l) : addr[g[j]] = addr[g[k]] => j = k
      <3> SUFFICES ASSUME NEW j \in Idx(l), NEW k \in Idx(l), addr[g[j]] = addr[g[k]]
                   PROVE  g[j] = g[k]
        BY <1>13 DEF Chain
      <3> QED
        BY <1>12 DEF State, List, Addresses
    <2> QED
      BY <1>1, <1>2, <1>3, <2>1 DEF Addresses, At
  <1>22. Back(l, g)'
    <2>1. \A k \in 1..(l - 1) : k # i => prev[g[k]] = g[k - 1]
      <3> SUFFICES ASSUME NEW k \in 1..(l - 1), k # i PROVE prev[g[k]] = g[k - 1]
        OBVIOUS
      <3>1. k \in 0..l /\ k - 1 \in 0..l /\ k \in 1..(m - 1) /\ k + 1 \in 1..(m - 1) /\ k \in Int
        BY <1>11
      <3>2. CASE k < i
        <4>1. g[k] = f[k] /\ g[k - 1] = f[k - 1]
          BY <1>9, <1>11, <3>1, <3>2
        <4> QED
          BY <1>7, <3>1, <4>1
      <3>3. CASE k > i
        <4>1. g[k] = f[k + 1] /\ g[k - 1] = f[(k + 1) - 1]
          BY <1>9, <1>11, <3>1, <3>3
        <4> QED
          BY <1>7, <3>1, <4>1
      <3> QED
        BY <1>9, <3>1, <3>2, <3>3
    <2>2. ASSUME i \in 1..(l - 1)
          PROVE  /\ s = "remove_prev" /\ next'[n] = g[i] /\ prev'[n] = g[i - 1]
      <3>1. i \in 0..l /\ i - 1 \in 0..l /\ i - 1 < i /\ i \in 1..(m - 1) /\ i + 1 \in Idx(m) /\ i # 0
        BY <1>11, <2>2 DEF Idx
      <3>2. g[i] = f[i + 1] /\ g[i - 1] = f[i - 1]
        BY <1>9, <1>11, <3>1
      <3>3. prev[n] = f[i - 1]
        BY <1>4, <1>7, <3>1
      <3>4. f[i + 1] # NULL
        BY <1>5, <3>1, MemoryFacts
      <3> QED
        BY <1>1, <1>9, <1>14, <3>1, <3>2, <3>3, <3>4
    <2>3. s = "remove_prev" => i \in 1..(l - 1)
      <3> SUFFICES ASSUME n # head, next[n] # NULL PROVE i \in 1..(l - 1)
        OBVIOUS
      <3>1. i # 0 /\ i + 1 # m
        BY <1>5, <1>9
      <3> QED
        BY <1>5, <1>9, <1>11, <3>1
    <2> HIDE DEF s
    <2>4. ASSUME NEW k \in 1..(l - 1)
          PROVE  \/ prev'[g[k]] = g[k - 1]
                 \/ \E u \in Tasks : At(u, "remove_prev")' /\ next'[task'[u].node] = g[k]
      <3>1. CASE k # i
        BY <1>1, <2>1, <3>1
      <3>2. CASE k = i
        BY <1>2, <2>2, <3>2 DEF At
      <3> QED
        BY <3>1, <3>2
    <2>5. ASSUME NEW u \in Tasks, At(u, "remove_prev")'
          PROVE  \E k \in 1..(l - 1) :
                    next'[task'[u].node] = g[k] /\ prev'[task'[u].node] = g[k - 1]
      <3>1. u = t
        BY <1>2, <1>3, <2>5 DEF At
      <3>2. s = "remove_prev"
        BY <1>2, <2>5, <3>1 DEF At
      <3> QED
        BY <1>2, <2>2, <2>3, <3>1, <3>2
    <2> QED
      BY <2>4, <2>5 DEF Back
  <1>23. Chain(l, g)' /\ g \in [0..l -> Node \cup {NULL}]
    BY <1>13 DEF Chain
  <1> QED
    BY <1>11, <1>16, <1>17, <1>18, <1>19, <1>20, <1>21, <1>22, <1>23, StateOf DEF State, List

(* The initial states: an empty list.                                       *)
LEMMA InitInv == Init => IInv
  <1> SUFFICES ASSUME Init PROVE IInv
    OBVIOUS
  <1>1. PICK f : f = [k \in 0..0 |-> NULL]
    OBVIOUS
  <1>2. /\ head = NULL /\ next = [n \in Node |-> Garbage] /\ prev = [n \in Node |-> Garbage]
        /\ addr = [n \in Node |-> 0] /\ pool = Node /\ lock = Free
        /\ task = [t \in Tasks |-> Idle] /\ open = {} /\ ns_ept = {}
    BY DEF Init
  <1>3. /\ task \in [Tasks -> [pc : PCs, addr : Nat, node : Node \cup {NULL}, ns : BOOLEAN]]
        /\ \A t \in Tasks : task[t].pc = "idle"
    BY <1>2, IdleType
  <1>4. FullType
    <2>1. \A t \in Tasks : task[t].node \in Node \cup {NULL}
      BY <1>3
    <2> QED
      BY <1>2, <1>3, <2>1 DEF FullType, TypeOK
  <1>5. Owner /\ Nodes
    BY <1>2, <1>3, MemoryFacts DEF Owner, Holding, Nodes, Has
  <1>6. Idx(0) = {} /\ 1..(0 - 1) = {} /\ f \in [0..0 -> Node \cup {NULL}] /\ f[0] = NULL
    BY <1>1 DEF Idx
  <1>7. Chain(0, f) /\ Links(0, f) /\ Members(0, f)
    BY <1>2, <1>3, <1>6 DEF Chain, Links, Members, At, Has
  <1>8. Addresses(0, f) /\ Adding(0, f) /\ Back(0, f)
    BY <1>3, <1>6 DEF Addresses, Adding, Back, At
  <1> QED
    BY <1>4, <1>5, <1>6, <1>7, <1>8 DEF IInv, List

(* Every step keeps the invariant.                                          *)
LEMMA NextInv ==
    ASSUME IInv, [Next]_vars
    PROVE  IInv'
  <1>1. PICK m, f : State(m, f)
    BY StateOf
  <1>2. ASSUME NEW t \in Tasks, Create(t)
        PROVE  IInv'
    BY <1>1, <1>2, CreateLockInv, NsInv, CreateNoMemoryInv, CreateAllocInv, AddLinksInv,
       AddHeadInv, AddFirstInv, AddNullInv DEF Create
  <1>3. ASSUME NEW t \in Tasks, Destroy(t)
        PROVE  IInv'
    BY <1>1, <1>3, DestroyLockInv, NsInv, UnlinkInv, UnlinkPrevInv, DestroyUnlockInv,
       DestroyFreeInv DEF Destroy
  <1>4. CASE UNCHANGED vars
    <2>1. UNCHANGED <<head, next, prev, addr, pool, lock, task, open, ns_ept>>
      BY <1>4 DEF vars
    <2>2. FullType' /\ Owner' /\ Nodes'
      BY <2>1 DEF IInv, FullType, TypeOK, Owner, Holding, Nodes, Has
    <2>3. List(m, f)'
      BY <1>1, <2>1 DEF State, List, Chain, Links, Members, Addresses, Adding, Back, At, Has
    <2> QED
      BY <1>1, <2>2, <2>3, StateOf DEF State
  <1> QED
    BY <1>2, <1>3, <1>4 DEF Next

-----------------------------------------------------------------------------
(* The theorems.                                                            *)

(* The inductive invariant holds in every reachable state, whatever the     *)
(* memory, the tasks and the addresses: the list is a list, and the stores  *)
(* of the lock holder keep it one.                                          *)
THEOREM Invariance == Spec => []IInv
  <1>1. Init => IInv
    BY InitInv
  <1>2. IInv /\ [Next]_vars => IInv'
    BY NextInv
  <1> QED
    BY <1>1, <1>2, PTL DEF Spec

(* Type correctness: neither the head of the list nor the node a task works *)
(* on is ever taken from uninitialised memory.                              *)
THEOREM TypeCorrect == Spec => []TypeOK
  <1>1. IInv => TypeOK
    BY DEF IInv, FullType
  <1> QED
    BY <1>1, Invariance, PTL

(* The walk of the receive callback, from an interrupt between any two      *)
(* stores, meets only endpoints that exist and reaches the end of the list, *)
(* except between the two stores of add_to_list to an empty list.           *)
THEOREM WalkSafeHolds == Spec => []WalkSafeOnceLinked
  <1>1. IInv => WalkSafeOnceLinked
    <2> SUFFICES ASSUME IInv, \A t \in Tasks : ~At(t, "add_null")
                 PROVE  WalkSafe
      BY DEF WalkSafeOnceLinked
    <2>1. PICK m, f : State(m, f)
      BY StateOf
    <2>2. Chain(m, f) /\ Followed(m, f) /\ \A k \in Idx(m) : f[k] \notin pool
      BY <2>1 DEF State, List, Links, Followed, Members
    <2>3. /\ DOMAIN visited = 0..N
          /\ \A k \in 0..N : visited[k] = IF k <= m THEN f[k] ELSE NULL
      BY <2>2, Walk
    <2>4. m \in Nat /\ m <= N /\ N \in Nat
      BY <2>2, ChainBound, MemoryFacts DEF Chain
    <2>5. \A k \in 0..m : f[k] \in (Node \ pool) \cup {NULL}
      <3>1. \A k \in 0..m : k = m \/ k \in Idx(m)
        BY <2>4 DEF Idx
      <3> QED
        BY <2>2, <3>1 DEF Chain
    <2>6. \A k \in DOMAIN visited : visited[k] \in (Node \ pool) \cup {NULL}
      <3>1. \A k \in 0..N : k <= m => k \in 0..m
        BY <2>4
      <3> QED
        BY <2>3, <2>5, <3>1
    <2>7. visited[N] = NULL
      BY <2>2, <2>3, <2>4 DEF Chain
    <2> QED
      BY <2>6, <2>7 DEF WalkSafe, N
  <1> QED
    BY <1>1, Invariance, PTL

(* A message for an endpoint that the application has is given to that      *)
(* endpoint, also while others are added and removed around it; no two      *)
(* endpoints have an address.                                               *)
THEOREM OpenFoundHolds == Spec => []OpenFound
  <1>1. IInv => OpenFound
    <2> SUFFICES ASSUME IInv, NEW n \in open
                 PROVE  lookup(addr[n]) = n
      BY DEF OpenFound
    <2>1. PICK m, f : State(m, f)
      BY StateOf
    <2>2. PICK i \in Idx(m) : f[i] = n
      BY <2>1 DEF State, List, Members
    <2>3. \A t \in Tasks : ~At(t, "add_null")
      BY <2>1, <2>2 DEF State, List, Links, Idx
    <2>4. /\ Chain(m, f) /\ Followed(m, f)
          /\ \A j, k \in Idx(m) : addr[f[j]] = addr[f[k]] => j = k
      BY <2>1, <2>3 DEF State, List, Links, Followed, Addresses
    <2> QED
      BY <2>2, <2>4, Lookup
  <1> QED
    BY <1>1, Invariance, PTL

(* When nobody holds the lock the links back are right wherever             *)
(* remove_from_list uses them.                                              *)
THEOREM BackLinksHolds == Spec => []BackLinks
  <1>1. IInv => BackLinks
    <2> SUFFICES ASSUME IInv, lock = Free, NEW k \in DOMAIN visited, k > 0, visited[k] \in Node
                 PROVE  prev[visited[k]] = visited[k - 1]
      BY DEF BackLinks
    <2>1. PICK m, f : State(m, f)
      BY StateOf
    <2>2. Chain(m, f) /\ Followed(m, f) /\ \A u \in Tasks : task[u].pc \in {"idle", "free"}
      BY <2>1, FreeList
    <2>3. /\ DOMAIN visited = 0..N
          /\ \A j \in 0..N : visited[j] = IF j <= m THEN f[j] ELSE NULL
      BY <2>2, Walk
    <2>4. m \in Nat /\ m <= N /\ N \in Nat /\ NULL \notin Node /\ f[m] = NULL
      BY <2>2, ChainBound, MemoryFacts DEF Chain
    <2>5. k \in 1..(m - 1)
      BY <2>3, <2>4
    <2>6. k \in 0..N /\ k - 1 \in 0..N /\ visited[k] = f[k] /\ visited[k - 1] = f[k - 1]
      BY <2>3, <2>4, <2>5
    <2>7. prev[f[k]] = f[k - 1]
      BY <2>1, <2>2, <2>5 DEF State, List, Back, At
    <2> QED
      BY <2>6, <2>7
  <1> QED
    BY <1>1, Invariance, PTL
=============================================================================
