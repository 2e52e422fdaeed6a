----------------------------- MODULE LinkUpProofs -----------------------------
(***************************************************************************)
(* Proofs about LinkUp, for every set of links, waiting tasks and          *)
(* environment layers, and every number of notifications and               *)
(* initialisations.                                                        *)
(*                                                                         *)
(* That RL_TRUE means a link that is up cannot be seen from one step: the  *)
(* bit that a wait finds may have been set long before, for an earlier     *)
(* instance of the link.  The inductive invariant says where every bit and *)
(* every pending command comes from.                                       *)
(***************************************************************************)
EXTENDS LinkUp, SequenceTheorems, TLAPS

(* A task inside rpmsg_lite_wait_for_link_up. *)
Waiting(t) == task[t].pc # "idle"

TaskType ==
    [pc : {"idle", "check", "wait", "blocked", "asleep"}, link : Links \union {"none"},
     block : BOOLEAN, ret : {RL_TRUE, RL_FALSE}, expired : BOOLEAN]

(* TypeOK with the fields of the tasks and the history.                     *)
FullType ==
    /\ TypeOK
    /\ port \in Ports
    /\ task \in [Waiters -> TaskType]
    /\ lives \in [Links -> Nat]

(* The instance a task waits on exists: rpmsg_lite_deinit is not called     *)
(* while a task uses it.                                                    *)
WaitsOnInstance == \A t \in Waiters : Waiting(t) => task[t].link \in instances

(* No command outlives the instance it was left for, as no task runs while  *)
(* one is pending.                                                          *)
CommandsAreUp ==
    \A i \in 1..Len(commands) : link_state[commands[i]] /\ commands[i] \in instances

(* Where a bit comes from: an instance since the event object was created;  *)
(* the present one, or an earlier one.                                      *)
BitsHaveHistory ==
    /\ \A l \in instances \union event_group : lives[l] >= 1
    /\ \A l \in event_group \intersect instances : link_state[l] \/ lives[l] > 1

(* Where the bit is cleared first, a waiting task finds only bits that were *)
(* set since its call.                                                      *)
ClearedBitsAreNew ==
    port.clears =>
        \A t \in Waiters : Waiting(t) /\ task[t].link \in event_group
                             => link_state[task[t].link]

(* A polling layer has no event to wait for.                                *)
PollsNeverBlock ==
    \A t \in Waiters :
        /\ task[t].pc \in {"wait", "blocked"} => ~port.polls
        /\ task[t].pc = "asleep" => port.polls

LinkInv ==
    /\ WaitsOnInstance
    /\ CommandsAreUp
    /\ BitsHaveHistory
    /\ ClearedBitsAreNew
    /\ PollsNeverBlock

IInv == FullType /\ LinkInv

-----------------------------------------------------------------------------
(* Returned only changes where a call is and its result. *)
LEMMA ReturnedType ==
    ASSUME NEW w \in TaskType, NEW up
    PROVE  /\ Returned(w, up) \in TaskType
           /\ Returned(w, up).pc = "idle"
           /\ Returned(w, up).ret = IF up THEN RL_TRUE ELSE RL_FALSE
           /\ Returned(w, up).expired = w.expired
  BY DEF Returned, TaskType, RL_TRUE, RL_FALSE

(* Setting a bit returns from the waits for it and leaves the other tasks;  *)
(* the bits only grow by the bit of l, which may be gone at once.           *)
LEMMA SetBitsEffect ==
    ASSUME FullType, NEW l \in Links, SetBits(l)
    PROVE  /\ event_group' \subseteq event_group \union {l}
           /\ task' \in [Waiters -> TaskType]
           /\ \A t \in Waiters :
                \/ task'[t] = task[t]
                \/ /\ task[t].pc = "blocked" /\ task[t].link = l
                   /\ task'[t] = Returned(task[t], Matches(event_group \union {l}, l))
                   /\ task'[t].pc = "idle"
  <1>1. event_group' \subseteq event_group \union {l}
    BY DEF SetBits, Left
  <1>2. ASSUME NEW t \in Waiters
        PROVE  /\ task'[t] \in TaskType
               /\ \/ task'[t] = task[t]
                  \/ /\ task[t].pc = "blocked" /\ task[t].link = l
                     /\ task'[t] = Returned(task[t], Matches(event_group \union {l}, l))
                     /\ task'[t].pc = "idle"
    <2>1. task[t] \in TaskType
      BY DEF FullType
    <2>2. CASE t \in Woken(l)
      BY <2>1, <2>2, ReturnedType DEF SetBits, Woken
    <2>3. CASE t \notin Woken(l)
      BY <2>1, <2>3 DEF SetBits
    <2> QED
      BY <2>2, <2>3
  <1>3. task' = [t \in Waiters |-> task'[t]]
    BY DEF SetBits
  <1> QED
    BY <1>1, <1>2, <1>3

(* A step of a waiting task changes the bits and its own record only; it    *)
(* goes on with the same link, or returns.                                  *)
LEMMA WaitStepEffect ==
    ASSUME IInv, NEW t \in Waiters, WaitStep(t)
    PROVE  /\ Waiting(t) /\ commands = << >>
           /\ task' \in [Waiters -> TaskType]
           /\ \A u \in Waiters \ {t} : task'[u] = task[u]
           /\ task'[t].pc # "idle" => task'[t].link = task[t].link
           /\ task'[t].pc \in {"wait", "blocked"} => ~port.polls
           /\ task'[t].pc = "asleep" => port.polls
           /\ event_group' \subseteq event_group
           /\ UNCHANGED <<port, lives, instances, link_state, commands, kicks, inits>>
  <1>1. task \in [Waiters -> TaskType] /\ task[t] \in TaskType
    BY DEF IInv, FullType
  <1>2. /\ task[t].pc \in {"wait", "blocked"} => ~port.polls
        /\ task[t].pc = "asleep" => port.polls
    BY DEF IInv, LinkInv, PollsNeverBlock
  <1>3. CASE WaitCheck(t)
    BY <1>1, <1>2, <1>3, ReturnedType DEF WaitCheck, At, TasksRun, TaskType, Waiting
  <1>4. CASE WaitBits(t)
    <2> DEFINE r == Returned(task[t], Matches(event_group, task[t].link))
    <2>1. r \in TaskType /\ r.pc = "idle"
      BY <1>1, ReturnedType
    <2>2. \/ /\ task' = [task EXCEPT ![t] = r]
             /\ event_group' = Left(event_group, task[t].link)
          \/ /\ task' = [task EXCEPT ![t].pc = "blocked"]
             /\ event_group' = event_group
      BY <1>4 DEF WaitBits
    <2>3. Waiting(t) /\ commands = << >> /\ task[t].pc = "wait"
      BY <1>4 DEF WaitBits, At, TasksRun, Waiting
    <2>4. UNCHANGED <<port, lives, instances, link_state, commands, kicks, inits>>
      BY <1>4 DEF WaitBits
    <2> HIDE DEF r
    <2> QED
      BY <1>1, <1>2, <2>1, <2>2, <2>3, <2>4 DEF TaskType, Left
  <1>5. CASE Poll(t)
    BY <1>1, <1>2, <1>5, ReturnedType DEF Poll, At, TasksRun, TaskType, Waiting
  <1>6. CASE Timeout(t)
    BY <1>1, <1>2, <1>6 DEF Timeout, At, TasksRun, TaskType, Waiting, Returned, RL_TRUE, RL_FALSE
  <1> QED
    BY <1>3, <1>4, <1>5, <1>6 DEF WaitStep

(* A kick sets link_state and leaves a command, sets the bit, or has no     *)
(* event to set.                                                            *)
LEMMA TxCallbackEffect ==
    ASSUME IInv, NEW l \in Links, TxCallback(l)
    PROVE  /\ l \in instances /\ kicks' = kicks + 1 /\ kicks < MaxKicks
           /\ link_state' = [link_state EXCEPT ![l] = TRUE]
           /\ commands' = Append(commands, l) \/ commands' = commands
           /\ task' \in [Waiters -> TaskType]
           /\ \A u \in Waiters : task'[u] = task[u] \/ (task'[u].pc = "idle" /\ task[u].link = l)
           /\ event_group' \subseteq event_group \union {l}
           /\ UNCHANGED <<port, lives, instances, inits>>
  <1>1. FullType /\ task \in [Waiters -> TaskType]
    BY DEF IInv, FullType
  <1>2. CASE LinkUpAtOnce(l)
    BY <1>1, <1>2, SetBitsEffect DEF TxCallback, LinkUpAtOnce
  <1>3. CASE LinkUpFromISR(l) \/ NoEvent
    BY <1>1, <1>3 DEF TxCallback, LinkUpFromISR, NoEvent
  <1> QED
    BY <1>2, <1>3 DEF TxCallback

(* The types and the origin of every bit are preserved. *)
LEMMA NextIInv ==
    ASSUME IInv, [Next]_vars
    PROVE  IInv'
  <1> USE DEF IInv, LinkInv, FullType, TypeOK
  <1>a. /\ instances \subseteq Links /\ event_group \subseteq Links
        /\ link_state \in [Links -> BOOLEAN] /\ lives \in [Links -> Nat]
        /\ commands \in Seq(Links) /\ task \in [Waiters -> TaskType]
        /\ kicks \in Nat /\ inits \in Nat /\ MaxKicks \in Nat /\ MaxInits \in Nat
    BY LinkAssumption
  <1>1. ASSUME NEW l \in Links, RemoteInit(l) PROVE IInv'
    <2>1. FullType'
      BY <1>a, <1>1 DEF RemoteInit, TaskType
    <2>2. WaitsOnInstance' /\ CommandsAreUp' /\ PollsNeverBlock'
      BY <1>a, <1>1 DEF RemoteInit, WaitsOnInstance, CommandsAreUp, PollsNeverBlock, Waiting, TasksRun
    <2>3. BitsHaveHistory'
      BY <1>a, <1>1 DEF RemoteInit, BitsHaveHistory
    <2>4. ClearedBitsAreNew'
      BY <1>a, <1>1 DEF RemoteInit, ClearedBitsAreNew, WaitsOnInstance, Waiting
    <2> QED
      BY <2>1, <2>2, <2>3, <2>4
  <1>2. ASSUME NEW l \in Links, Deinit(l) PROVE IInv'
    <2>1. FullType'
      BY <1>a, <1>2 DEF Deinit, TaskType
    <2>2. WaitsOnInstance' /\ CommandsAreUp' /\ PollsNeverBlock'
      BY <1>a, <1>2 DEF Deinit, WaitsOnInstance, CommandsAreUp, PollsNeverBlock, Waiting, TasksRun
    <2>3. BitsHaveHistory'
      BY <1>a, <1>2 DEF Deinit, BitsHaveHistory
    <2>4. ClearedBitsAreNew'
      BY <1>a, <1>2 DEF Deinit, ClearedBitsAreNew, WaitsOnInstance, Waiting
    <2> QED
      BY <2>1, <2>2, <2>3, <2>4
  <1>3. ASSUME NEW l \in Links, TxCallback(l) PROVE IInv'
    <2>0. /\ l \in instances /\ kicks' = kicks + 1 /\ kicks < MaxKicks
          /\ link_state' = [link_state EXCEPT ![l] = TRUE]
          /\ commands' = Append(commands, l) \/ commands' = commands
          /\ task' \in [Waiters -> TaskType]
          /\ \A u \in Waiters : task'[u] = task[u] \/ task'[u].pc = "idle"
          /\ event_group' \subseteq event_group \union {l}
          /\ UNCHANGED <<port, lives, instances, inits>>
      BY <1>3, TxCallbackEffect
    <2>a. /\ commands' \in Seq(Links)
          /\ \A i \in 1..Len(commands') :
               commands'[i] = l \/ (i \in 1..Len(commands) /\ commands'[i] = commands[i])
      <3>1. CASE commands' = Append(commands, l)
        BY <1>a, <3>1
      <3>2. CASE commands' = commands
        BY <1>a, <3>2
      <3> QED
        BY <2>0, <3>1, <3>2
    <2>1. FullType'
      BY <1>a, <2>0, <2>a DEF TaskType
    <2>2. WaitsOnInstance' /\ PollsNeverBlock'
      BY <1>a, <2>0 DEF WaitsOnInstance, PollsNeverBlock, Waiting
    <2>3. CommandsAreUp'
      BY <1>a, <2>0, <2>a DEF CommandsAreUp
    <2>4. BitsHaveHistory'
      BY <1>a, <2>0 DEF BitsHaveHistory
    <2>5. ClearedBitsAreNew'
      BY <1>a, <2>0 DEF ClearedBitsAreNew, WaitsOnInstance, Waiting
    <2> QED
      BY <2>1, <2>2, <2>3, <2>4, <2>5
  <1>4. ASSUME NEW t \in Waiters, NEW l \in Links, NEW block \in BOOLEAN, WaitClear(t, l, block)
        PROVE  IInv'
    <2>0. /\ [Idle EXCEPT !.pc = "check", !.link = l, !.block = block] \in TaskType
          /\ task' = [task EXCEPT ![t] = [Idle EXCEPT !.pc = "check", !.link = l, !.block = block]]
          /\ event_group' = IF port.clears THEN event_group \ {l} ELSE event_group
          /\ UNCHANGED <<port, lives, instances, link_state, commands, kicks, inits>>
          /\ l \in instances
      BY <1>4 DEF WaitClear, Idle, TaskType, RL_TRUE, RL_FALSE
    <2>1. FullType'
      BY <1>a, <2>0 DEF TaskType
    <2>2. WaitsOnInstance' /\ CommandsAreUp' /\ PollsNeverBlock' /\ BitsHaveHistory'
      BY <1>a, <2>0 DEF WaitsOnInstance, CommandsAreUp, PollsNeverBlock, BitsHaveHistory, Waiting, Idle
    <2>3. ClearedBitsAreNew'
      BY <1>a, <2>0 DEF ClearedBitsAreNew, Waiting, Idle
    <2> QED
      BY <2>1, <2>2, <2>3
  <1>5. ASSUME NEW t \in Waiters, WaitStep(t) PROVE IInv'
    <2>0. /\ Waiting(t)
          /\ task' \in [Waiters -> TaskType]
          /\ \A u \in Waiters \ {t} : task'[u] = task[u]
          /\ task'[t].pc # "idle" => task'[t].link = task[t].link
          /\ task'[t].pc \in {"wait", "blocked"} => ~port.polls
          /\ task'[t].pc = "asleep" => port.polls
          /\ event_group' \subseteq event_group
          /\ UNCHANGED <<port, lives, instances, link_state, commands, kicks, inits>>
      BY <1>5, WaitStepEffect
    <2>1. FullType'
      BY <1>a, <2>0 DEF TaskType
    <2>2. WaitsOnInstance' /\ CommandsAreUp' /\ PollsNeverBlock' /\ BitsHaveHistory'
      BY <1>a, <2>0 DEF WaitsOnInstance, CommandsAreUp, PollsNeverBlock, BitsHaveHistory, Waiting
    <2>3. ClearedBitsAreNew'
      BY <1>a, <2>0 DEF ClearedBitsAreNew, Waiting
    <2> QED
      BY <2>1, <2>2, <2>3
  <1>6. CASE Daemon
    <2>1. /\ Head(commands) \in Links /\ Tail(commands) \in Seq(Links)
          /\ link_state[Head(commands)] /\ Head(commands) \in instances
          /\ \A i \in 1..Len(Tail(commands)) :
               link_state[Tail(commands)[i]] /\ Tail(commands)[i] \in instances
      BY <1>a, <1>6 DEF Daemon, CommandsAreUp
    <2>2. /\ event_group' \subseteq event_group \union {Head(commands)}
          /\ task' \in [Waiters -> TaskType]
          /\ \A u \in Waiters : task'[u] = task[u] \/ task'[u].pc = "idle"
          /\ commands' = Tail(commands)
          /\ UNCHANGED <<port, lives, instances, link_state, kicks, inits>>
      BY <1>6, <2>1, SetBitsEffect DEF Daemon
    <2>3. FullType' /\ CommandsAreUp'
      BY <1>a, <2>1, <2>2 DEF TaskType, CommandsAreUp
    <2>4. WaitsOnInstance' /\ PollsNeverBlock' /\ BitsHaveHistory'
      BY <1>a, <2>1, <2>2 DEF WaitsOnInstance, PollsNeverBlock, BitsHaveHistory, Waiting
    <2>5. ClearedBitsAreNew'
      BY <1>a, <2>1, <2>2 DEF ClearedBitsAreNew, Waiting
    <2> QED
      BY <2>3, <2>4, <2>5
  <1>7. CASE UNCHANGED vars
    BY <1>7 DEF vars, WaitsOnInstance, CommandsAreUp, PollsNeverBlock, BitsHaveHistory,
                ClearedBitsAreNew, Waiting
  <1> QED
    BY <1>1, <1>2, <1>3, <1>4, <1>5, <1>6, <1>7 DEF Next

(* The initial states satisfy the inductive invariant: no task waits yet.   *)
LEMMA InitIInv == Init => IInv
  BY LinkAssumption
     DEF Init, IInv, FullType, TypeOK, TaskType, Idle, RL_TRUE, RL_FALSE, LinkInv,
         WaitsOnInstance, CommandsAreUp, BitsHaveHistory, ClearedBitsAreNew,
         PollsNeverBlock, Waiting

(* Every reachable state satisfies the inductive invariant.                 *)
LEMMA IInvHolds == Spec => []IInv
  BY InitIInv, NextIInv, PTL DEF Spec

(* Every variable keeps its type, for all links, tasks and layers; in       *)
(* particular env_wait_for_link_up returns RL_TRUE or RL_FALSE only.        *)
THEOREM TypeCorrect == Spec => []TypeOK
  <1>1. IInv => TypeOK
    BY DEF IInv, FullType
  <1> QED
    BY <1>1, IInvHolds, PTL

-----------------------------------------------------------------------------
(* A bit that a task of the wait finds is of a link that is up, or was left *)
(* by an earlier instance in a layer that does not clear it.                *)
LEMMA BitMeansUp ==
    ASSUME IInv, NEW t \in Waiters, task[t].pc \in {"wait", "blocked"},
           Matches(event_group, task[t].link)
    PROVE  \/ link_state[task[t].link]
           \/ ~port.polls /\ ~port.clears /\ lives[task[t].link] > 1
  <1>1. task[t].link \in event_group
    BY DEF Matches
  <1>2. Waiting(t) /\ task[t].link \in instances
    BY DEF IInv, LinkInv, WaitsOnInstance, Waiting
  <1>3. ~port.polls
    BY DEF IInv, LinkInv, PollsNeverBlock
  <1>4. CASE port.clears
    BY <1>1, <1>2, <1>4 DEF IInv, LinkInv, ClearedBitsAreNew
  <1>5. CASE ~port.clears
    BY <1>1, <1>2, <1>3, <1>5 DEF IInv, LinkInv, BitsHaveHistory
  <1> QED
    BY <1>4, <1>5

(* A wait that returns RL_TRUE, for whichever reason, had a link that is up *)
(* or a bit that an earlier instance left.                                  *)
LEMMA StepTrueMeansUp ==
    ASSUME IInv, [Next]_vars, NEW t \in Waiters, Returns(t, RL_TRUE)
    PROVE  \/ link_state'[task[t].link]
           \/ ~port.polls /\ ~port.clears /\ lives[task[t].link] > 1
  <1>a. /\ FullType /\ task \in [Waiters -> TaskType] /\ task[t] \in TaskType
        /\ commands \in Seq(Links)
    BY DEF IInv, FullType, TypeOK
  <1>b. task[t].link \in instances /\ instances \subseteq Links /\ link_state \in [Links -> BOOLEAN]
    BY DEF Returns, IInv, LinkInv, WaitsOnInstance, Waiting, FullType, TypeOK
  <1>1. ASSUME NEW l \in Links, RemoteInit(l) \/ Deinit(l) PROVE FALSE
    BY <1>1 DEF RemoteInit, Deinit, Returns
  <1>2. ASSUME NEW l \in Links, TxCallback(l) PROVE link_state'[task[t].link]
    BY <1>a, <1>b, <1>2, TxCallbackEffect DEF Returns
  <1>3. ASSUME NEW u \in Waiters, NEW l \in Links, NEW block \in BOOLEAN, WaitClear(u, l, block)
        PROVE  FALSE
    BY <1>a, <1>3 DEF WaitClear, At, Returns, Idle
  <1>4. ASSUME NEW u \in Waiters, WaitStep(u)
        PROVE  \/ link_state'[task[t].link]
               \/ ~port.polls /\ ~port.clears /\ lives[task[t].link] > 1
    <2>1. u = t /\ link_state' = link_state
      BY <1>4, WaitStepEffect DEF Returns
    <2>2. CASE WaitCheck(t)
      BY <1>a, <2>1, <2>2, ReturnedType DEF WaitCheck, Returns, TaskType
    <2>3. CASE WaitBits(t)
      <3>1. task[t].pc = "wait"
        BY <2>3 DEF WaitBits, At
      <3>2. task' = [task EXCEPT ![t] = Returned(task[t], Matches(event_group, task[t].link))]
        BY <1>a, <2>3 DEF WaitBits, Returns, TaskType
      <3>3. Matches(event_group, task[t].link)
        BY <1>a, <3>2, ReturnedType DEF Returns, RL_TRUE, RL_FALSE
      <3> QED
        BY <2>1, <3>1, <3>3, BitMeansUp
    <2>4. CASE Poll(t)
      BY <2>1, <2>4 DEF Poll
    <2>5. CASE Timeout(t)
      <3> DEFINE up == task[t].pc = "blocked" /\ Matches(event_group, task[t].link)
      <3>1. task'[t] = [Returned(task[t], up) EXCEPT !.expired = TRUE]
        BY <1>a, <2>5 DEF Timeout
      <3>2. Returned(task[t], up).ret = RL_TRUE
        BY <1>a, <3>1, ReturnedType DEF Returns, TaskType
      <3>3. up
        <4> HIDE DEF up
        <4>1. Returned(task[t], up).ret = IF up THEN RL_TRUE ELSE RL_FALSE
          BY <1>a, ReturnedType
        <4> QED
          BY <3>2, <4>1 DEF RL_TRUE, RL_FALSE
      <3> QED
        BY <2>1, <3>3, BitMeansUp
    <2> QED
      BY <1>4, <2>1, <2>2, <2>3, <2>4, <2>5 DEF WaitStep
  <1>5. CASE Daemon
    <2>1. Head(commands) \in Links /\ link_state[Head(commands)]
      BY <1>a, <1>5 DEF Daemon, IInv, LinkInv, CommandsAreUp
    <2>2. task[t].link = Head(commands)
      BY <1>a, <1>5, <2>1, SetBitsEffect DEF Daemon, Returns
    <2> QED
      BY <1>5, <2>1, <2>2 DEF Daemon
  <1>6. CASE UNCHANGED vars
    BY <1>6 DEF vars, Returns
  <1> QED
    BY <1>1, <1>2, <1>3, <1>4, <1>5, <1>6 DEF Next

(* rpmsg_lite_wait_for_link_up returns RL_TRUE only for a link that is up,  *)
(* in every layer and for any number of links and tasks; in ThreadX, XOS    *)
(* and Zephyr for the first instance of a link.                             *)
THEOREM TrueMeansUpHolds == Spec => TrueMeansUp
  <1>1. IInv /\ [Next]_vars =>
          [\A t \in Waiters :
             Returns(t, RL_TRUE) =>
               \/ link_state'[task[t].link]
               \/ ~port.polls /\ ~port.clears /\ lives[task[t].link] > 1]_vars
    BY StepTrueMeansUp
  <1> QED
    BY <1>1, IInvHolds, PTL DEF Spec, TrueMeansUp

-----------------------------------------------------------------------------
(* The layers compare the bits that ended a wait with those of the link in  *)
(* a way that other links do not disturb, or there are no other links.      *)
OthersDoNotDisturb == \A p \in Ports : p.exact => \A k, l \in Links : k = l

(* A wait that ends with the bit of its own link set is taken for a         *)
(* success.                                                                 *)
LEMMA OwnBitMatches ==
    ASSUME OthersDoNotDisturb, port \in Ports, NEW bits \in SUBSET Links, NEW l \in bits
    PROVE  Matches(bits, l)
  BY DEF OthersDoNotDisturb, Matches

(* A step by which a wait returns RL_FALSE is the step of its timeout.      *)
LEMMA StepFalseMeansTimeout ==
    ASSUME OthersDoNotDisturb, IInv, [Next]_vars, NEW t \in Waiters, Returns(t, RL_FALSE)
    PROVE  task'[t].expired
  <1>a. /\ FullType /\ task \in [Waiters -> TaskType] /\ task[t] \in TaskType
        /\ commands \in Seq(Links) /\ event_group \subseteq Links /\ port \in Ports
    BY DEF IInv, FullType, TypeOK
  <1>b. ASSUME NEW l \in Links, SetBits(l) PROVE FALSE
    <2>1. Matches(event_group \union {l}, l)
      BY <1>a, <1>b, OwnBitMatches
    <2>2. task'[t] = Returned(task[t], Matches(event_group \union {l}, l))
      BY <1>a, <1>b, SetBitsEffect DEF Returns
    <2> QED
      BY <1>a, <2>1, <2>2 DEF Returned, Returns, TaskType, RL_TRUE, RL_FALSE
  <1>1. ASSUME NEW l \in Links, RemoteInit(l) \/ Deinit(l) PROVE FALSE
    BY <1>1 DEF RemoteInit, Deinit, Returns
  <1>2. ASSUME NEW l \in Links, TxCallback(l) PROVE FALSE
    BY <1>b, <1>2 DEF TxCallback, LinkUpFromISR, LinkUpAtOnce, NoEvent, Returns
  <1>3. ASSUME NEW u \in Waiters, NEW l \in Links, NEW block \in BOOLEAN, WaitClear(u, l, block)
        PROVE  FALSE
    BY <1>a, <1>3 DEF WaitClear, At, Returns, Idle
  <1>4. ASSUME NEW u \in Waiters, WaitStep(u) PROVE task'[t].expired
    <2>1. u = t
      BY <1>4, WaitStepEffect DEF Returns
    <2>2. CASE WaitCheck(t)
      BY <1>a, <2>2 DEF WaitCheck, Returned, Returns, TaskType, RL_TRUE, RL_FALSE
    <2>3. CASE WaitBits(t)
      <3>1. /\ task' = [task EXCEPT ![t] = Returned(task[t], Matches(event_group, task[t].link))]
            /\ task[t].link \in event_group
        BY <1>a, <2>3 DEF WaitBits, Returns, TaskType
      <3>2. Matches(event_group, task[t].link)
        BY <1>a, <3>1, OwnBitMatches
      <3> QED
        BY <1>a, <3>1, <3>2 DEF Returned, Returns, TaskType, RL_TRUE, RL_FALSE
    <2>4. CASE Poll(t)
      BY <1>a, <2>4 DEF Poll, Returned, Returns, TaskType, RL_TRUE, RL_FALSE
    <2>5. CASE Timeout(t)
      BY <1>a, <2>5, ReturnedType DEF Timeout, TaskType
    <2> QED
      BY <1>4, <2>1, <2>2, <2>3, <2>4, <2>5 DEF WaitStep
  <1>5. CASE Daemon
    BY <1>a, <1>b, <1>5 DEF Daemon
  <1>6. CASE UNCHANGED vars
    BY <1>6 DEF vars, Returns
  <1> QED
    BY <1>1, <1>2, <1>3, <1>4, <1>5, <1>6 DEF Next

(* rpmsg_lite_wait_for_link_up returns RL_FALSE only after its timeout, in  *)
(* every layer that tests for the link's bit alone, and in the FreeRTOS     *)
(* layer, which compares all bits, when there is a single link: the failure *)
(* that the run link_false shows needs the bit of a second link.            *)
THEOREM FalseMeansTimeoutHolds ==
    ASSUME OthersDoNotDisturb
    PROVE  Spec => FalseMeansTimeout
  <1>1. IInv /\ [Next]_vars =>
          [\A t \in Waiters : Returns(t, RL_FALSE) => task'[t].expired]_vars
    BY StepFalseMeansTimeout
  <1> QED
    BY <1>1, IInvHolds, PTL DEF Spec, FalseMeansTimeout
===============================================================================
