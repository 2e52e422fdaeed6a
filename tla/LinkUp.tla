-------------------------------- MODULE LinkUp --------------------------------
(***************************************************************************)
(* Waiting for the link: env_wait_for_link_up and env_tx_callback of the   *)
(* environment layers (lib/rpmsg_lite/porting/environment), called by      *)
(* rpmsg_lite_wait_for_link_up and rpmsg_lite_tx_callback of the remote    *)
(* instances of one core, one instance per link.  The variable port holds  *)
(* what is particular to the layer; see Environments.                      *)
(*                                                                         *)
(* All instances share one event object with one bit per link.  In the     *)
(* FreeRTOS layer a callback that runs in an interrupt cannot set a bit:   *)
(* xEventGroupSetBitsFromISR leaves a command for the timer daemon.  The   *)
(* daemon is taken to have the highest task priority, so no task runs      *)
(* while a command is pending; an interrupt may come between any two steps. *)
(*                                                                         *)
(* Bounds: MaxKicks notifications and MaxInits initialisations in all.     *)
(***************************************************************************)
EXTENDS Environments, Sequences

CONSTANTS
    Links,      \* link ids
    Waiters,    \* tasks that call rpmsg_lite_wait_for_link_up
    WaitsFor,   \* which task may wait for which link: a subset of Waiters \X Links
    Contexts,   \* may env_tx_callback run in an interrupt, may it run in a task
    Ports,      \* the environment layers, as wait records of Environments
    MaxKicks,   \* bound: notifications of the other cores
    MaxInits    \* bound: calls of rpmsg_lite_remote_init

ASSUME LinkAssumption ==
    /\ WaitsFor \subseteq Waiters \X Links
    /\ Contexts \subseteq {"isr", "task"}
    /\ MaxKicks \in Nat /\ MaxInits \in Nat

VARIABLES
    port,        \* the environment layer, fixed from the start
    instances,   \* links whose instance exists
    link_state,  \* Links -> link_state of the instance
    event_group, \* the bits that are set, as a set of links
    commands,    \* commands of xEventGroupSetBitsFromISR the daemon has to run
    task,        \* Waiters -> progress through rpmsg_lite_wait_for_link_up
    lives,       \* Links -> history: instances since the event object was created
    kicks, inits \* what was used of the bounds

vars == <<port, lives, instances, link_state, event_group, commands, task, kicks, inits>>

RL_TRUE  == 1
RL_FALSE == 0

Idle == [pc |-> "idle", link |-> "none", block |-> FALSE, ret |-> RL_FALSE, expired |-> FALSE]

Init ==
    /\ port \in Ports
    /\ lives = [l \in Links |-> 0]
    /\ instances = {}
    /\ link_state = [l \in Links |-> FALSE]
    /\ event_group = {}
    /\ commands = << >>
    /\ task = [t \in Waiters |-> Idle]
    /\ kicks = 0 /\ inits = 0

(* A task runs when the timer daemon has nothing to do.                     *)
TasksRun == commands = << >>
At(t, pc) == task[t].pc = pc /\ TasksRun

(* The wait is successful with these bits. *)
Matches(bits, l) == IF port.exact THEN bits = {l} ELSE l \in bits

(* The bits that remain when waiters of l have been given theirs.           *)
Left(bits, l) == IF port.consumes THEN bits \ {l} ELSE bits

(* The result is 1U or 0U, RL_TRUE or RL_FALSE, and not the bits. *)
ReturnedMask(w, up) ==                                              \* mutant
    [w EXCEPT !.pc = "idle", !.ret = IF up THEN 2 ELSE RL_FALSE]
Returned(w, up) == [w EXCEPT !.pc = "idle", !.ret = IF up THEN RL_TRUE ELSE RL_FALSE]

-----------------------------------------------------------------------------
(* rpmsg_lite_remote_init: the link is down.  The first instance's env_init *)
(* creates the event object with no bit set.                                *)
RemoteInit(l) ==
    /\ TasksRun
    /\ l \notin instances /\ inits < MaxInits
    /\ instances' = instances \union {l}
    /\ link_state' = [link_state EXCEPT ![l] = FALSE]
    /\ event_group' = IF instances = {} THEN {} ELSE event_group
    /\ lives' = [k \in Links |-> (IF instances = {} THEN 0 ELSE lives[k])
                                 + (IF k = l THEN 1 ELSE 0)]
    /\ inits' = inits + 1
    /\ UNCHANGED <<port, commands, task, kicks>>

(* rpmsg_lite_deinit, of an instance no task is using.  Its bit stays.      *)
Deinit(l) ==
    /\ TasksRun
    /\ l \in instances
    /\ \A t \in Waiters : task[t].pc # "idle" => task[t].link # l
    /\ instances' = instances \ {l}
    /\ link_state' = [link_state EXCEPT ![l] = FALSE]
    /\ UNCHANGED <<port, lives, event_group, commands, task, kicks, inits>>

-----------------------------------------------------------------------------
(* env_wait_for_link_up *)

WaitNoClear(t, l, block) ==                                         \* mutant
    /\ At(t, "idle") /\ l \in instances
    /\ task' = [task EXCEPT ![t] = [Idle EXCEPT !.pc = "check", !.link = l, !.block = block]]
    /\ UNCHANGED <<port, lives, instances, link_state, event_group, commands, kicks, inits>>

(* The call; FreeRTOS forgets what an earlier instance left.                *)
WaitClear(t, l, block) ==
    /\ At(t, "idle") /\ l \in instances
    /\ event_group' = IF port.clears THEN event_group \ {l} ELSE event_group
    /\ task' = [task EXCEPT ![t] = [Idle EXCEPT !.pc = "check", !.link = l, !.block = block]]
    /\ UNCHANGED <<port, lives, instances, link_state, commands, kicks, inits>>

(* *link_state != 1U is tested, and RL_TRUE returned at once if it is 1.    *)
WaitCheck(t) ==
    /\ At(t, "check")
    /\ task' = [task EXCEPT ![t] = IF link_state[@.link] THEN Returned(@, TRUE)
                                   ELSE [@ EXCEPT !.pc = IF port.polls THEN "asleep" ELSE "wait"]]
    /\ UNCHANGED <<port, lives, instances, link_state, event_group, commands, kicks, inits>>

ClearAndWait(t) ==                                                  \* mutant
    /\ At(t, "wait")
    /\ event_group' = event_group \ {task[t].link}
    /\ task' = [task EXCEPT ![t].pc = "blocked"]
    /\ UNCHANGED <<port, lives, instances, link_state, commands, kicks, inits>>

(* xEventGroupWaitBits, tx_event_flags_get, xos_event_wait_all and          *)
(* k_event_wait_all return when the bit of the link is set, else wait.      *)
WaitBits(t) ==
    LET w == task[t]
    IN  /\ At(t, "wait")
        /\ \/ /\ w.link \in event_group
              /\ task' = [task EXCEPT ![t] = Returned(w, Matches(event_group, w.link))]
              /\ event_group' = Left(event_group, w.link)
           \/ /\ w.link \notin event_group
              /\ task' = [task EXCEPT ![t].pc = "blocked"]
              /\ UNCHANGED event_group
        /\ UNCHANGED <<port, lives, instances, link_state, commands, kicks, inits>>

(* env_sleep_msec is over: link_state is read again.                        *)
Poll(t) ==
    /\ At(t, "asleep") /\ link_state[task[t].link]
    /\ task' = [task EXCEPT ![t] = Returned(@, TRUE)]
    /\ UNCHANGED <<port, lives, instances, link_state, event_group, commands, kicks, inits>>

(* The timeout of the wait expires.  FreeRTOS returns the bits then too; a  *)
(* polling layer gives up without another look at link_state.               *)
Timeout(t) ==
    /\ At(t, "blocked") \/ At(t, "asleep")
    /\ ~task[t].block \/ port.expires
    /\ task' = [task EXCEPT ![t] =
                  [Returned(@, @.pc = "blocked" /\ Matches(event_group, @.link))
                     EXCEPT !.expired = TRUE]]
    /\ UNCHANGED <<port, lives, instances, link_state, event_group, commands, kicks, inits>>

-----------------------------------------------------------------------------
(* The bit of l is set, and every task waiting for l is given the bits that *)
(* are set now.                                                             *)
Woken(l) == {t \in Waiters : task[t].pc = "blocked" /\ task[t].link = l}
SetBits(l) ==
    LET bits == event_group \union {l}
    IN  /\ event_group' = IF Woken(l) = {} THEN bits ELSE Left(bits, l)
        /\ task' = [t \in Waiters |-> IF t \in Woken(l) THEN Returned(task[t], Matches(bits, l))
                                                       ELSE task[t]]

(* rpmsg_lite_tx_callback and env_tx_callback.  The other core kicks at the *)
(* end of its initialisation and, if it notifies of consumed buffers, often. *)
LinkUpFromISR(l) ==
    /\ "isr" \in Contexts /\ port.defers
    /\ commands' = Append(commands, l)
    /\ UNCHANGED <<event_group, task>>
LinkUpAtOnce(l) ==
    /\ IF port.defers THEN "task" \in Contexts /\ TasksRun ELSE ~port.polls
    /\ SetBits(l)
    /\ UNCHANGED commands
NoEvent == port.polls /\ UNCHANGED <<event_group, task, commands>>
TxCallback(l) ==
    /\ l \in instances /\ kicks < MaxKicks
    /\ kicks' = kicks + 1
    /\ link_state' = [link_state EXCEPT ![l] = TRUE]
    /\ LinkUpFromISR(l) \/ LinkUpAtOnce(l) \/ NoEvent
    /\ UNCHANGED <<port, lives, instances, inits>>

(* The timer daemon runs a command. *)
Daemon ==
    /\ commands # << >>
    /\ SetBits(Head(commands))
    /\ commands' = Tail(commands)
    /\ UNCHANGED <<port, lives, instances, link_state, kicks, inits>>

-----------------------------------------------------------------------------
WaitStep(t) == WaitCheck(t) \/ WaitBits(t) \/ Poll(t) \/ Timeout(t)

Next ==
    \/ \E l \in Links : RemoteInit(l) \/ Deinit(l) \/ TxCallback(l)
    \/ \E t \in Waiters, l \in Links, block \in BOOLEAN :
         <<t, l>> \in WaitsFor /\ WaitClear(t, l, block)
    \/ \E t \in Waiters : WaitStep(t)
    \/ Daemon

Spec == Init /\ [][Next]_vars

(* The scheduler runs every ready task, and the clock ticks.  Nothing makes *)
(* the other core kick.                                                     *)
FairSpec == Spec /\ WF_vars(Daemon) /\ \A t \in Waiters : WF_vars(WaitStep(t))

-----------------------------------------------------------------------------
(* Every variable has its type; the result is one of the two the API names. *)
TypeOK ==
    /\ instances \subseteq Links
    /\ link_state \in [Links -> BOOLEAN]
    /\ event_group \subseteq Links
    /\ commands \in Seq(Links)
    /\ \A t \in Waiters : /\ task[t].pc \in {"idle", "check", "wait", "blocked", "asleep"}
                           /\ task[t].ret \in {RL_TRUE, RL_FALSE}
    /\ kicks \in 0..MaxKicks /\ inits \in 0..MaxInits

Returns(t, ret) == task[t].pc # "idle" /\ task'[t].pc = "idle" /\ task'[t].ret = ret

(* "RL_TRUE when link up": rpmsg_lite_wait_for_link_up does not report a    *)
(* link that an earlier instance saw, and this one has not.  ThreadX, XOS   *)
(* and Zephyr do not clear the bit: there it holds for the first instance   *)
(* that a link has since env_init created the event object.                 *)
TrueMeansUp ==
    [][\A t \in Waiters :
         Returns(t, RL_TRUE) =>
           \/ link_state'[task[t].link]
           \/ ~port.polls /\ ~port.clears /\ lives[task[t].link] > 1]_vars

(* "RL_FALSE when timeout": a wait that was not cut short by its timeout    *)
(* reports the link it waited for.                                          *)
FalseMeansTimeout ==
    [][\A t \in Waiters : Returns(t, RL_FALSE) => task'[t].expired]_vars

(* "Returns once the link is up": a task that waits for a link that is up   *)
(* does not wait forever, whenever the notification came.                   *)
WaitReturns ==
    \A t \in Waiters :
      (task[t].pc # "idle" /\ \E l \in Links : task[t].link = l /\ link_state[l])
        ~> task[t].pc = "idle"
===============================================================================
