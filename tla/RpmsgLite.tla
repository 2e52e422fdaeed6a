------------------------------ MODULE RpmsgLite -------------------------------
(***************************************************************************)
(* Two rpmsg_lite instances, master and remote, joined by two vrings and a *)
(* pair of doorbells (lib/rpmsg_lite/rpmsg_lite.c, rpmsg_queue.c).  The    *)
(* tasks of each core send with and without copying, receive through an    *)
(* rpmsg_queue and release the buffers; the interrupt handler of each core *)
(* runs rpmsg_lite_rx_callback and rpmsg_lite_tx_callback.                 *)
(*                                                                         *)
(* Every access to shared state that another context can observe is a step *)
(* of its own: the slot and the index of a ring, the doorbell, the queue,  *)
(* the header field hdr.reserved.idx.  A task step needs the interrupt     *)
(* handler of its core to be idle (an interrupt runs to completion), but   *)
(* the handler may start between any two steps of a task, whether or not   *)
(* the task holds the instance's lock: env_lock_mutex does nothing in an   *)
(* interrupt.  With EnvContext (RL_USE_ENVIRONMENT_CONTEXT, the QNX port)  *)
(* the callback runs in a thread and takes the lock instead.               *)
(*                                                                         *)
(* Bounds: at most MaxSend messages per sending task.                             *)
(***************************************************************************)
EXTENDS VirtqueueOps, Sequences, FiniteSets

CONSTANTS
    MTasks, RTasks,     \* tasks of the master and of the remote
    RL_BLOCK,           \* the timeout that never expires
    MaxSend,            \* bound: messages per sender
    Setups,             \* the applications and builds to consider
    Free, RxThread      \* values of a lock besides the tasks

Tasks == MTasks \union RTasks

(* An application and the options it was built with: which tasks send and   *)
(* which receive, the timeouts they pass (in polling intervals), whether    *)
(* they send without copying, how many messages; the addresses of endpoints *)
(* whose callback is rpmsg_queue_rx_cb, of endpoints whose callback returns *)
(* RL_RELEASE, and those without an endpoint; RL_USE_ENVIRONMENT_CONTEXT    *)
(* and RL_ALLOW_CONSUMED_BUFFERS_NOTIFICATION.                              *)
ASSUME RpmsgAssumption ==
    /\ MTasks \intersect RTasks = {}
    /\ MaxSend \in Nat
    /\ \A s \in Setups :
         /\ DOMAIN s = {"senders", "receivers", "timeouts", "nocopy", "sends", "queues",
                        "releases", "nowhere", "context", "consumed"}
         /\ s.senders \subseteq Tasks /\ s.receivers \subseteq Tasks
         /\ s.timeouts \subseteq Nat \union {RL_BLOCK}
         /\ s.sends \in 0..MaxSend
         /\ s.nocopy \subseteq BOOLEAN /\ s.context \in BOOLEAN /\ s.consumed \in BOOLEAN
    /\ Free \notin Tasks /\ RxThread \notin Tasks /\ Free # RxThread

Master == "master"
Remote == "remote"
Side   == {Master, Remote}
Other(s) == IF s = Master THEN Remote ELSE Master
SideOf(t) == IF t \in MTasks THEN Master ELSE Remote

(* vring0 carries messages to the master, vring1 to the remote.             *)
Ring   == {"vring0", "vring1"}
tvq(s) == IF s = Master THEN "vring1" ELSE "vring0"
rvq(s) == IF s = Master THEN "vring0" ELSE "vring1"

None == -1
Msg  == Tasks \X (1..MaxSend)           \* the k-th message of a task
NoMsg == <<>>

(* rpmsg_queue_create makes room for two entries per ring entry.            *)
QueueTooShort == N - 1                                              \* mutant
QueueLength == 2 * N

VARIABLES
    setup,      \* the application and its build, fixed from the start
    vq,         \* Ring -> the vring and its two control blocks
    buf,        \* Ring -> Desc -> header destination and payload of the buffer
    reserved,   \* Ring -> Desc -> hdr.reserved.idx of the buffer
    lock,       \* Side -> holder of rpmsg_lite_dev->lock
    link_state, \* Side -> rpmsg_lite_dev->link_state
    doorbell,   \* Side -> virtqueues with a notification pending
    isr,        \* Side -> the interrupt handler's progress
    task,       \* Tasks -> the task's progress through an API call
    sent,       \* Tasks -> number of send calls started
    rx_queue,   \* Side -> the rpmsg_queue: buffers with the message they were put for
    published,  \* Ring -> history: messages made visible to the receiver
    delivered,  \* Ring -> history: messages taken by the receiver's callback
    dropped     \* history: messages refused by a full rpmsg_queue

vars == <<setup, vq, buf, reserved, lock, link_state, doorbell, isr, task, sent,
          rx_queue, published, delivered, dropped>>

QueueEpts      == setup.queues
NoEpts         == setup.nowhere
Dst            == setup.queues \union setup.releases \union setup.nowhere
EnvContext     == setup.context
ConsumedNotify == setup.consumed

IdleTask == [pc |-> "idle", d |-> None, msg |-> NoMsg, dst |-> None,
             ticks |-> 0, timeout |-> 0, nocopy |-> FALSE]
IdleIsr  == [pc |-> "off", d |-> None, freed |-> FALSE]

(* The state rpmsg_lite_master_init and rpmsg_lite_remote_init leave, the   *)
(* remote having been initialised first: the master's link is up, and the   *)
(* remote's will be when it takes the kick at the end of master_init.       *)
Init ==
    /\ setup \in Setups
    /\ vq = [r \in Ring |-> IF r = "vring0" THEN filled_avail ELSE filled_used]
    /\ buf = [r \in Ring |-> [d \in Desc |-> [dst |-> None, msg |-> NoMsg]]]
    /\ reserved = [r \in Ring |-> [d \in Desc |-> 0]]
    /\ lock = [s \in Side |-> Free]
    /\ link_state = [s \in Side |-> s = Master]
    /\ doorbell = [s \in Side |-> IF s = Remote THEN {tvq(Remote)} ELSE {}]
    /\ isr = [s \in Side |-> IdleIsr]
    /\ task = [t \in Tasks |-> IdleTask]
    /\ sent = [t \in Tasks |-> 0]
    /\ rx_queue = [s \in Side |-> << >>]
    /\ published = [r \in Ring |-> << >>]
    /\ delivered = [r \in Ring |-> << >>]
    /\ dropped = {}

-----------------------------------------------------------------------------
(* The tables of virtqueue operations: vq_tx_alloc, vq_rx take a buffer,    *)
(* vq_tx, vq_rx_free put one.  The master is the driver of both vrings.     *)

pending(s, v)     == IF s = Master THEN used_pending(v) ELSE avail_pending(v)
head(s, v)        == IF s = Master THEN used_head(v) ELSE avail_head(v)
consume(s, v)     == IF s = Master THEN consume_used(v) ELSE consume_avail(v)
put_slot(s, v, d) == IF s = Master THEN update_avail_slot(v, d) ELSE update_used_slot(v, d)
put_idx(s, v)     == IF s = Master THEN update_avail_idx(v) ELSE update_used_idx(v)

(* virtqueue_kick: the doorbell of the other core.  Doorbells are bits of a *)
(* mailbox register: ringing one that already rings changes nothing.        *)
Kick(s, q) == doorbell' = [doorbell EXCEPT ![Other(s)] = @ \union {q}]

(* A task runs when the interrupt handler of its core does not.             *)
CanRun(t) == EnvContext \/ isr[SideOf(t)].pc = "off"

At(t, pc) == task[t].pc = pc /\ CanRun(t)
Goto(t, pc) == task' = [task EXCEPT ![t].pc = pc]
Return(t) == task' = [task EXCEPT ![t] = IdleTask]

(* The tick count after a poll has reached the timeout; the first attempt   *)
(* only gives up when the caller does not want to wait.                     *)
Expired(t) ==
    /\ task[t].timeout # RL_BLOCK
    /\ IF task[t].pc = "alloc_end" THEN task[t].timeout = 0
                                   ELSE task[t].ticks + 1 >= task[t].timeout

(* RL_ERR_NO_MEM: (tick_count >= timeout) && (buffer == RL_NULL)            *)
TimedOutRegardless(t) == Expired(t)                                 \* mutant
TimedOut(t) == task[t].d = None /\ Expired(t)

(* env_lock_mutex and env_unlock_mutex *)
Acquire(t) == lock[SideOf(t)] = Free /\ lock' = [lock EXCEPT ![SideOf(t)] = t]

ReleaseIfAllocated(t) ==                                            \* mutant
    lock' = IF task[t].pc \in {"alloc_end", "poll_end"} /\ task[t].d = None
            THEN lock ELSE [lock EXCEPT ![SideOf(t)] = Free]
Release(t) == lock' = [lock EXCEPT ![SideOf(t)] = Free]

(* hdr.reserved.idx = idx *)
KeepNoIdx(r, d) == reserved                                         \* mutant
KeepIdx(r, d) == [reserved EXCEPT ![r][d] = d]

-----------------------------------------------------------------------------
(* rpmsg_lite_send, and rpmsg_lite_alloc_tx_buffer followed by              *)
(* rpmsg_lite_send_nocopy.                                                  *)

(* The call, with the check of link_state; RL_NOT_READY changes nothing.    *)
SendCall(t, dst, timeout, nocopy) ==
    /\ At(t, "idle")
    /\ t \in setup.senders
    /\ sent[t] < setup.sends
    /\ link_state[SideOf(t)]
    /\ sent' = [sent EXCEPT ![t] = @ + 1]
    /\ task' = [task EXCEPT ![t] = [IdleTask EXCEPT !.pc = "alloc",
                  !.msg = <<t, sent[t] + 1>>, !.dst = dst,
                  !.timeout = timeout, !.nocopy = nocopy]]
    /\ UNCHANGED <<setup, vq, buf, reserved, lock, link_state, doorbell, isr, rx_queue,
                   published, delivered, dropped>>

(* env_lock_mutex, and the first half of vq_tx_alloc: the index is compared *)
(* and the slot read.                                                       *)
Alloc(t) ==
    LET s == SideOf(t)
        v == vq[tvq(s)]
    IN  /\ At(t, "alloc") \/ At(t, "sleep")
        /\ Acquire(t)
        /\ task' = [task EXCEPT
             ![t].d = IF pending(s, v) THEN head(s, v) ELSE None,
             ![t].pc = IF task[t].pc = "alloc" THEN "alloc_end" ELSE "poll_end"]
        /\ UNCHANGED <<setup, vq, buf, reserved, link_state, doorbell, isr, sent, rx_queue,
                       published, delivered, dropped>>

(* The second half of vq_tx_alloc and env_unlock_mutex.  A buffer: it is    *)
(* the caller's, and the nocopy call records its index in the header.  No   *)
(* buffer: RL_ERR_NO_MEM when the timeout has expired, else sleep and poll. *)
AllocEnd(t) ==
    LET s   == SideOf(t)
        r   == tvq(s)
        d   == task[t].d
        got == d # None
        counting == task[t].pc = "poll_end" /\ task[t].timeout # RL_BLOCK
    IN  /\ At(t, "alloc_end") \/ At(t, "poll_end")
        /\ Release(t)
        /\ vq' = IF got THEN [vq EXCEPT ![r] = consume(s, @)] ELSE vq
        /\ reserved' = IF got /\ task[t].nocopy THEN KeepIdx(r, d) ELSE reserved
        /\ \/ TimedOut(t) /\ Return(t)
           \/ ~TimedOut(t) /\ got /\ Goto(t, "fill")
           \/ /\ ~TimedOut(t) /\ ~got
              /\ task' = [task EXCEPT ![t].pc = "sleep",
                                      ![t].ticks = IF counting THEN @ + 1 ELSE @]
        /\ UNCHANGED <<setup, buf, link_state, doorbell, isr, sent, rx_queue,
                       published, delivered, dropped>>

(* The header and the payload are written without the lock.                 *)
Fill(t) ==
    /\ At(t, "fill")
    /\ buf' = [buf EXCEPT ![tvq(SideOf(t))][task[t].d] =
                 [dst |-> task[t].dst, msg |-> task[t].msg]]
    /\ Goto(t, "enqueue")
    /\ UNCHANGED <<setup, vq, reserved, lock, link_state, doorbell, isr, sent, rx_queue,
                   published, delivered, dropped>>

(* env_lock_mutex and the slot write of vq_tx.  The copying call kept the   *)
(* index in a local variable, the nocopy call reads it from the header.     *)
EnqueueSlot(t) ==
    LET s == SideOf(t)
        r == tvq(s)
        d == IF task[t].nocopy THEN reserved[r][task[t].d] ELSE task[t].d
    IN  /\ At(t, "enqueue")
        /\ Acquire(t)
        /\ vq' = [vq EXCEPT ![r] = put_slot(s, @, d)]
        /\ Goto(t, "enqueue_idx")
        /\ UNCHANGED <<setup, buf, reserved, link_state, doorbell, isr, sent, rx_queue,
                       published, delivered, dropped>>

(* The index update that publishes the message.                             *)
EnqueueIdx(t) ==
    LET s == SideOf(t)
        r == tvq(s)
    IN  /\ At(t, "enqueue_idx")
        /\ vq' = [vq EXCEPT ![r] = put_idx(s, @)]
        /\ published' = [published EXCEPT ![r] = Append(@, task[t].msg)]
        /\ Goto(t, "enqueue_kick")
        /\ UNCHANGED <<setup, buf, reserved, lock, link_state, doorbell, isr, sent, rx_queue,
                       delivered, dropped>>

(* virtqueue_kick(tvq), env_unlock_mutex, RL_SUCCESS. *)
EnqueueKick(t) ==
    /\ At(t, "enqueue_kick")
    /\ Kick(SideOf(t), tvq(SideOf(t)))
    /\ Release(t)
    /\ Return(t)
    /\ UNCHANGED <<setup, vq, buf, reserved, link_state, isr, sent, rx_queue,
                   published, delivered, dropped>>

-----------------------------------------------------------------------------
(* rpmsg_queue_recv, or rpmsg_queue_recv_nocopy followed by                 *)
(* rpmsg_queue_nocopy_free.                                                 *)

RecvGet(t) ==
    LET s == SideOf(t)
    IN  /\ At(t, "idle")
        /\ t \in setup.receivers
        /\ rx_queue[s] # << >>
        /\ task' = [task EXCEPT ![t] = [IdleTask EXCEPT !.pc = "copy",
                      !.d = Head(rx_queue[s]).d, !.msg = Head(rx_queue[s]).msg]]
        /\ rx_queue' = [rx_queue EXCEPT ![s] = Tail(@)]
        /\ UNCHANGED <<setup, vq, buf, reserved, lock, link_state, doorbell, isr, sent,
                       published, delivered, dropped>>

(* env_memcpy from the buffer, or the application's use of it: the reader   *)
(* ends up with what the buffer holds now.                                  *)
RecvCopy(t) ==
    LET s == SideOf(t)
    IN  /\ At(t, "copy")
        /\ task' = [task EXCEPT ![t].pc = "release",
                                ![t].msg = buf[rvq(s)][task[t].d].msg]
        /\ UNCHANGED <<setup, vq, buf, reserved, lock, link_state, doorbell, isr, sent,
                       rx_queue, published, delivered, dropped>>

(* rpmsg_lite_release_rx_buffer: lock, and the slot write of vq_rx_free of  *)
(* the index found in the buffer's header.                                  *)
ReleaseSlot(t) ==
    LET s == SideOf(t)
        r == rvq(s)
    IN  /\ At(t, "release")
        /\ Acquire(t)
        /\ vq' = [vq EXCEPT ![r] = put_slot(s, @, reserved[r][task[t].d])]
        /\ Goto(t, "release_idx")
        /\ UNCHANGED <<setup, buf, reserved, link_state, doorbell, isr, sent, rx_queue,
                       published, delivered, dropped>>

(* The index update, the optional kick and the unlock.                      *)
ReleaseIdx(t) ==
    LET s == SideOf(t)
        r == rvq(s)
    IN  /\ At(t, "release_idx")
        /\ vq' = [vq EXCEPT ![r] = put_idx(s, @)]
        /\ IF ConsumedNotify THEN Kick(s, r) ELSE UNCHANGED doorbell
        /\ Release(t)
        /\ Return(t)
        /\ UNCHANGED <<setup, buf, reserved, link_state, isr, sent, rx_queue,
                       published, delivered, dropped>>

-----------------------------------------------------------------------------
(* The interrupt handler.  It clears the doorbell, then env_isr and         *)
(* virtqueue_notification call the callback of the virtqueue.               *)

(* rpmsg_lite_tx_callback: the link is up. *)
TxCallback(s) ==
    /\ isr[s].pc = "off"
    /\ tvq(s) \in doorbell[s]
    /\ doorbell' = [doorbell EXCEPT ![s] = @ \ {tvq(s)}]
    /\ link_state' = [link_state EXCEPT ![s] = TRUE]
    /\ UNCHANGED <<setup, vq, buf, reserved, lock, isr, task, sent, rx_queue,
                   published, delivered, dropped>>

(* rpmsg_lite_rx_callback begins. *)
RxEnter(s) ==
    /\ isr[s].pc = "off"
    /\ rvq(s) \in doorbell[s]
    /\ doorbell' = [doorbell EXCEPT ![s] = @ \ {rvq(s)}]
    /\ isr' = [isr EXCEPT ![s].pc = IF EnvContext THEN "lock" ELSE "rx"]
    /\ UNCHANGED <<setup, vq, buf, reserved, lock, link_state, task, sent, rx_queue,
                   published, delivered, dropped>>

RxLockNoWait(s) ==                                                  \* mutant
    /\ isr[s].pc = "lock"
    /\ lock' = [lock EXCEPT ![s] = RxThread]
    /\ isr' = [isr EXCEPT ![s].pc = "rx"]
    /\ UNCHANGED <<setup, vq, buf, reserved, link_state, doorbell, task, sent, rx_queue,
                   published, delivered, dropped>>

(* With RL_USE_ENVIRONMENT_CONTEXT the callback takes the lock. *)
RxLock(s) ==
    /\ isr[s].pc = "lock"
    /\ lock[s] = Free
    /\ lock' = [lock EXCEPT ![s] = RxThread]
    /\ isr' = [isr EXCEPT ![s].pc = "rx"]
    /\ UNCHANGED <<setup, vq, buf, reserved, link_state, doorbell, task, sent, rx_queue,
                   published, delivered, dropped>>

(* rpmsg_queue_rx_cb: env_put_queue finds room. *)
CanQueue(s, dst) == dst \in QueueEpts /\ Len(rx_queue[s]) < QueueLength

(* What the callback of the endpoint at dst returns; RL_RELEASE when there  *)
(* is no endpoint.                                                          *)
Hold(s, dst) == CanQueue(s, dst)

(* vq_rx returned a message: the endpoint of hdr.dst is looked up and its   *)
(* callback called.  rpmsg_queue_rx_cb queues the buffer and asks to hold   *)
(* it unless the queue is full; the others release it.                      *)
RxMessage(s) ==
    LET r == rvq(s)
        d == head(s, vq[r])
        m == buf[r][d]
    IN  /\ isr[s].pc = "rx"
        /\ pending(s, vq[r])
        /\ vq' = [vq EXCEPT ![r] = consume(s, @)]
        /\ delivered' = [delivered EXCEPT ![r] = Append(@, m.msg)]
        /\ rx_queue' = IF CanQueue(s, m.dst)
                       THEN [rx_queue EXCEPT ![s] = Append(@, [d |-> d, msg |-> m.msg])]
                       ELSE rx_queue
        /\ dropped' = IF m.dst \in QueueEpts /\ ~CanQueue(s, m.dst)
                      THEN dropped \union {m.msg} ELSE dropped
        /\ isr' = [isr EXCEPT ![s].pc = IF Hold(s, m.dst) THEN "hold" ELSE "free",
                              ![s].d = d]
        /\ UNCHANGED <<setup, buf, reserved, lock, link_state, doorbell, task, sent, published>>

(* RL_HOLD: the index goes into the header, after the callback has queued   *)
(* the buffer.                                                              *)
RxHold(s) ==
    /\ isr[s].pc = "hold"
    /\ reserved' = KeepIdx(rvq(s), isr[s].d)
    /\ isr' = [isr EXCEPT ![s].pc = "rx", ![s].d = None]
    /\ UNCHANGED <<setup, vq, buf, lock, link_state, doorbell, task, sent, rx_queue,
                   published, delivered, dropped>>

(* RL_RELEASE: vq_rx_free, without the lock unless EnvContext. *)
RxFreeSlot(s) ==
    /\ isr[s].pc = "free"
    /\ vq' = [vq EXCEPT ![rvq(s)] = put_slot(s, @, isr[s].d)]
    /\ isr' = [isr EXCEPT ![s].pc = "free_idx"]
    /\ UNCHANGED <<setup, buf, reserved, lock, link_state, doorbell, task, sent, rx_queue,
                   published, delivered, dropped>>

RxFreeIdx(s) ==
    /\ isr[s].pc = "free_idx"
    /\ vq' = [vq EXCEPT ![rvq(s)] = put_idx(s, @)]
    /\ isr' = [isr EXCEPT ![s].pc = "rx", ![s].d = None, ![s].freed = ConsumedNotify]
    /\ UNCHANGED <<setup, buf, reserved, lock, link_state, doorbell, task, sent, rx_queue,
                   published, delivered, dropped>>

(* The kick at the end of the loop, if buffers were freed; the handler has  *)
(* acknowledged its own doorbell before it ran.                             *)
AcknowledgeLate(s) == doorbell' = [doorbell EXCEPT ![s] = @ \ {rvq(s)}]  \* mutant
KickIfFreed(s) == IF isr[s].freed THEN Kick(s, rvq(s)) ELSE UNCHANGED doorbell

(* vq_rx returned nothing: the loop ends. *)
RxEmpty(s) ==
    /\ isr[s].pc = "rx"
    /\ ~pending(s, vq[rvq(s)])
    /\ isr' = [isr EXCEPT ![s].pc = "exit"]
    /\ UNCHANGED <<setup, vq, buf, reserved, lock, link_state, doorbell, task, sent, rx_queue,
                   published, delivered, dropped>>

(* The rest of the callback and the return from the interrupt. *)
RxExit(s) ==
    /\ isr[s].pc = "exit"
    /\ KickIfFreed(s)
    /\ lock' = IF EnvContext THEN [lock EXCEPT ![s] = Free] ELSE lock
    /\ isr' = [isr EXCEPT ![s] = IdleIsr]
    /\ UNCHANGED <<setup, vq, buf, reserved, link_state, task, sent, rx_queue,
                   published, delivered, dropped>>

-----------------------------------------------------------------------------
SendStep(t) == Alloc(t) \/ AllocEnd(t) \/ Fill(t) \/ EnqueueSlot(t)
                 \/ EnqueueIdx(t) \/ EnqueueKick(t)
RecvStep(t) == RecvGet(t) \/ RecvCopy(t) \/ ReleaseSlot(t) \/ ReleaseIdx(t)
RxStep(s)   == RxEnter(s) \/ RxLock(s) \/ RxMessage(s) \/ RxHold(s)
                 \/ RxFreeSlot(s) \/ RxFreeIdx(s) \/ RxEmpty(s) \/ RxExit(s)

Next ==
    \/ \E t \in Tasks :
         \/ \E dst \in Dst, timeout \in setup.timeouts, nocopy \in setup.nocopy :
              SendCall(t, dst, timeout, nocopy)
         \/ SendStep(t)
         \/ RecvStep(t)
    \/ \E s \in Side : TxCallback(s) \/ RxStep(s)

(* Interrupts are taken and handlers finish; a task that can run does, and  *)
(* one that waits for the lock gets it although others take it meanwhile (a *)
(* polling task sleeps between two attempts, and the ports' mutexes queue   *)
(* their waiters).  No fairness makes an application call rpmsg_lite_send.  *)
Fairness ==
    /\ \A s \in Side : WF_vars(TxCallback(s)) /\ SF_vars(RxStep(s))
    /\ \A t \in Tasks : SF_vars(SendStep(t) \/ RecvStep(t))

Spec == Init /\ [][Next]_vars
FairSpec == Spec /\ Fairness

-----------------------------------------------------------------------------
(* The windows of a ring in the direction of the messages and back.         *)
Forward(r) == IF r = "vring0" THEN UsedWindow(vq[r]) ELSE AvailWindow(vq[r])
Back(r)    == IF r = "vring0" THEN AvailWindow(vq[r]) ELSE UsedWindow(vq[r])
Receiver(r) == IF r = "vring0" THEN Master ELSE Remote
Sender(r)   == Other(Receiver(r))

(* Every variable has its type; in particular a descriptor index read from  *)
(* a ring, a header or a local variable names a buffer.                     *)
TypeOK ==
    /\ vq \in [Ring -> Vq]
    /\ \A r \in Ring, d \in Desc : buf[r][d].dst \in Dst \union {None}
                                     /\ buf[r][d].msg \in Msg \union {NoMsg}
    /\ reserved \in [Ring -> [Desc -> Desc]]
    /\ lock \in [Side -> Tasks \union {Free, RxThread}]
    /\ link_state \in [Side -> BOOLEAN]
    /\ doorbell \in [Side -> SUBSET Ring]
    /\ \A s \in Side : isr[s].d \in Desc \union {None}
    /\ \A t \in Tasks : task[t].d \in Desc \union {None}
    /\ sent \in [Tasks -> 0..MaxSend]

(* Which contexts hold descriptor d of ring r outside the rings: senders    *)
(* that have allocated it, the receive callback, the queue, receivers.      *)
SendersWith(r, d) ==
    {t \in Tasks : /\ tvq(SideOf(t)) = r /\ task[t].d = d
                   /\ task[t].pc \in {"fill", "enqueue", "enqueue_idx"}}
ReceiversWith(r, d) ==
    {t \in Tasks : /\ rvq(SideOf(t)) = r /\ task[t].d = d
                   /\ task[t].pc \in {"copy", "release", "release_idx"}}
CallbackHas(r, d) ==
    isr[Receiver(r)].d = d /\ isr[Receiver(r)].pc \in {"free", "free_idx"}

Occurrences(s, d) == {i \in DOMAIN s : s[i] = d}

Owners(r, d) ==
    Cardinality(Occurrences(Forward(r), d)) + Cardinality(Occurrences(Back(r), d))
    + Cardinality(SendersWith(r, d)) + Cardinality(ReceiversWith(r, d))
    + Cardinality({i \in DOMAIN rx_queue[Receiver(r)] : rx_queue[Receiver(r)][i].d = d})
    + (IF CallbackHas(r, d) THEN 1 ELSE 0)

(* Every buffer of both vrings has exactly one owner at any moment: a ring, *)
(* a sender between allocation and enqueueing, the receive callback, the    *)
(* queue, or a receiver until rpmsg_lite_release_rx_buffer.  A buffer with  *)
(* none is lost for good, one with two is overwritten while it is read.     *)
OneOwner == \A r \in Ring, d \in Desc : Owners(r, d) = 1

(* The assertion of VQUEUE_BUSY, "VirtQueue already in use": no two         *)
(* contexts are inside vq_rx_free of one virtqueue, nor inside vq_tx.       *)
NotAlreadyInUse ==
    \A s \in Side :
      /\ \A t, u \in Tasks :
           /\ SideOf(t) = s /\ SideOf(u) = s
           /\ task[t].pc = task[u].pc
           /\ task[t].pc \in {"enqueue_idx", "release_idx", "alloc_end", "poll_end"}
           => t = u
      /\ isr[s].pc = "free_idx" =>
           \A t \in Tasks : SideOf(t) = s => task[t].pc # "release_idx"

(* Messages reach the receive callback complete, once, and in the order in  *)
(* which they were enqueued; what has not arrived yet is in the ring.       *)
InOrderDelivery ==
    \A r \in Ring :
      published[r] = delivered[r] \o
        [i \in DOMAIN Forward(r) |-> buf[r][Forward(r)[i]].msg]

(* A held buffer keeps the message it was queued with until the receiver    *)
(* has read it: the sender cannot reuse it.                                 *)
HeldIntact ==
    /\ \A s \in Side : \A i \in DOMAIN rx_queue[s] :
         buf[rvq(s)][rx_queue[s][i].d].msg = rx_queue[s][i].msg
    /\ \A t \in Tasks : task[t].pc = "copy" =>
         buf[rvq(SideOf(t))][task[t].d].msg = task[t].msg

(* What rpmsg_lite_send_nocopy and rpmsg_lite_release_rx_buffer read back   *)
(* from the header of a buffer in shared memory is the index of that        *)
(* buffer, although the callback writes it after it has queued the buffer.  *)
(* It is below N, so nothing rests on the range check of                    *)
(* virtqueue_add_consumed_buffer, which lets N pass.                        *)
IdxReadBack ==
    [][\A t \in Tasks :
         LET s == SideOf(t)
             d == task[t].d
         IN  /\ task[t].pc = "enqueue" /\ task'[t].pc = "enqueue_idx" /\ task[t].nocopy
                  => reserved[tvq(s)][d] = d
             /\ task[t].pc = "release" /\ task'[t].pc = "release_idx"
                  => reserved[rvq(s)][d] = d]_vars

(* The queue of an endpoint never overflows: a message whose send reported  *)
(* RL_SUCCESS is not discarded by rpmsg_queue_rx_cb.                        *)
NothingDropped == dropped = {}

(* A message that was enqueued is handed to the receiver's callback, however *)
(* the doorbells of several messages coalesce.                              *)
EventuallyDelivered ==
    \A m \in Msg :
      LET r == tvq(SideOf(m[1]))
      IN  m \in {published[r][i] : i \in DOMAIN published[r]}
            ~> m \in {delivered[r][i] : i \in DOMAIN delivered[r]}

(* A call of rpmsg_lite_send returns, RL_BLOCK included: the buffers it     *)
(* waits for come back.                                                     *)
SendReturns == \A t \in Tasks : task[t].pc # "idle" ~> task[t].pc = "idle"

-----------------------------------------------------------------------------
(* What the theorems need of a setup: an instance whose callback runs in an *)
(* interrupt either has no tasks that release buffers, or no endpoint whose *)
(* callback releases them.  The two would be inside vq_rx_free at once.     *)
UnmixedSetup(s) == s.context \/ s.receivers = {} \/ s.releases \union s.nowhere = {}
=============================================================================
