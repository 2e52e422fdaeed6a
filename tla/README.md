# Verification of RPMsg-Lite

RPMsg-Lite passes messages between two cores that share memory: a *master* and a
*remote*. Each direction has a virtqueue (a "vring": two rings of descriptor
numbers, `avail` and `used`), a fixed set of buffers, and a doorbell interrupt.
This directory models that system in TLA+, from the rings up to the layers for each
operating system and chip, checks the models with TLC and proves with TLAPS, for
every value of the constants, what TLC checks on small ones.

Paths below are relative to `src/`. `RL` stands for
`lib/rpmsg_lite/rpmsg_lite.c`, `VQ` for `lib/virtio/virtqueue.c`, `FR` for
`lib/rpmsg_lite/porting/environment/rpmsg_env_freertos.c`, `porting/` for
`lib/rpmsg_lite/porting/`.

## 1. Inventory of the system

| Component | State it keeps | Operations | Interacts with |
|---|---|---|---|
| virtqueue (`lib/virtio/virtqueue.c`, `lib/include/virtqueue.h`, `virtio_ring.h`) | `avail` and `used` rings with free-running 16-bit indices in shared memory; per core the consumer index `vq_available_idx` or `vq_used_cons_idx`; busy flags | `virtqueue_add_buffer`, `virtqueue_get_buffer` (master), `virtqueue_get_available_buffer`, `virtqueue_add_consumed_buffer` (remote), `virtqueue_fill_*`, `virtqueue_kick`, `virtqueue_notification` | the other core, through memory and doorbell only; callers hold the instance's lock |
| message path (`RL`) | `lock`, `link_state`, the two virtqueues, `hdr.reserved.idx` in each buffer | `rpmsg_lite_send`, `rpmsg_lite_alloc_tx_buffer`, `rpmsg_lite_send_nocopy`, `rpmsg_lite_release_rx_buffer`, `rpmsg_lite_rx_callback`, `rpmsg_lite_tx_callback` | virtqueue, environment locks, endpoint callbacks |
| endpoints (`RL`, `lib/common/llist.c`) | doubly linked list `rl_endpoints` | `rpmsg_lite_create_ept`, `rpmsg_lite_destroy_ept`, `rpmsg_lite_get_endpoint_from_addr` | walked by the receive callback |
| init and deinit (`RL`) | the instance, the memory layout | `rpmsg_lite_master_init`, `rpmsg_lite_remote_init`, `rpmsg_lite_deinit` | all others; the other core |
| queue (`rpmsg_queue.c`) | an environment queue of received buffers | `rpmsg_queue_rx_cb`, `rpmsg_queue_recv`, `rpmsg_queue_recv_nocopy`, `rpmsg_queue_nocopy_free`, create, destroy | endpoint callback; message path |
| name service (`rpmsg_ns.c`) | a handle with an endpoint | `rpmsg_ns_bind`, `rpmsg_ns_unbind`, `rpmsg_ns_announce` | endpoints; message path |
| environments (`porting/environment/*.c`: bare metal, FreeRTOS, ThreadX, Zephyr, XOS, QNX) | `env_init_counter`, `env_sema`, event object, ISR table | `env_init`, `env_deinit`, `env_register_isr`, `env_isr`, `env_wait_for_link_up`, `env_tx_callback`, locks, queues | the operating system; init and deinit; the platform |
| platforms (`porting/platform/*`, `lib/include/platform/*`) | `isr_counter`, `disable_counter`, `platform_lock`, the doorbell and its interrupt | `platform_init`, `platform_deinit`, `platform_init_interrupt`, `platform_deinit_interrupt`, `platform_interrupt_enable/disable`, `platform_notify`, the interrupt handler | the hardware; the environment calls it, its handler calls the environment |

What is hard in it:

* **Two cores, no common lock.** The rings are shared without any lock; only the
  order "slot, barrier, index" protects them.
* **Tasks and interrupts of one core.** The lock excludes tasks, not interrupts:
  `env_lock_mutex` does nothing in a handler, and the receive callback takes it only
  with `RL_USE_ENVIRONMENT_CONTEXT`. The handler may enter between any two stores
  of a task that holds the lock.
* **The lock is given up in the middle** of `rpmsg_lite_send`, between the allocation
  and the enqueueing, and around every poll.
* **Indices wrap**, a ring may be exactly full, a timeout may expire in the poll
  that gets the buffer.
* **Doorbells are bits**: several notifications may become one interrupt.
* **Links come and go on their own.** Links of one core share the environment, the
  interrupt and often the doorbell; each is initialised and taken down by its own task
  while the others work, and every step of that may fail.
* **The other core does not wait.** It rings before the first init, during it and
  after the last deinit.
* **State left over**: a buffer's index travels in its header in shared memory;
  event bits survive the instance; reused nodes hold old links.

What makes each component correct: the virtqueue is a pair of FIFO queues that
neither lose nor double a buffer; the message path adds that every buffer has one
owner whatever tasks and interrupts do, messages arrive once and in order, a held
message stays intact, and blocking calls end; the endpoint list can be walked at
any moment and finds what the application has; the wait for the link reports the link
and misses no wake-up; init returns only into a complete environment, deinit takes away
only what nobody uses, an instance can be reached from its init to its deinit whatever
other links do, and a doorbell reaches the virtqueue it was rung for. `PROJECT.json` lists the hazards, each at its line, with
the properties aimed at it.

## 2. Modules

| Module | What it is | Code |
|---|---|---|
| `VirtqueueOps` | the virtqueue functions as operators on a record: rings, indices, consumer indices | `VQ` |
| `Virtqueue` | one vring, its four ring ends interleaved store by store | `VQ`, `virtqueue.h` |
| `VirtqueueFifo` | the abstract specification: two FIFO queues, atomic puts and takes | none (the promise) |
| `VirtqueueOpsProofs` | lemmas about the operators of `VirtqueueOps` | |
| `VirtqueueProofs`, `RpmsgLiteProofs`, `LinkUpProofs`, `EndpointsProofs`, `LifecycleProofs` | the theorems about the module of that name | |
| `RpmsgLite`, `MCRpmsgLite` | two cores, two vrings, doorbells, tasks, interrupt handlers, queue endpoints | `RL`, `rpmsg_queue.c`, `VQ`, lpc55s69 platform |
| `LinkUp`, `MCLinkUp` | waiting for the link, in every environment | `RL`, `porting/environment/*.c` |
| `Endpoints`, `MCEndpoints` | creation, removal and lookup of endpoints over the linked list | `RL`, `llist.c`, `rpmsg_ns.c` |
| `Lifecycle`, `MCLifecycle` | init and deinit of the links of one core, with its environment, platform, interrupt handler and doorbells | `RL`, `porting/environment/*.c`, `porting/platform/*` |
| `Environments` | in what the environments differ: a record for init, one for the wait | `porting/environment/*.c` |
| `Platforms` | the vocabulary for platforms: doorbells, switches, masks, ids, vring sizes | `lib/include/platform/*`, `virtio_ring.h` |
| `PlatformsImx`, `PlatformsMcu` | four values for every platform of the repository | `porting/platform/*` |

`Virtqueue` and `RpmsgLite` both extend `VirtqueueOps`: what is proved about the
ring ends and what is composed of them is the same text. `Virtqueue` *assumes* that
at most one call is in progress at each ring end of a core; `RpmsgLite` shows which
configurations of the code satisfy that (`NotAlreadyInUse`) and which does not
(section 4, finding 1). `Lifecycle` takes `Platforms` and `Environments` as the parts it
composes; `LinkUp` takes its wait records from `Environments`.

### Correspondence with the code

**VirtqueueOps.** `update_avail_slot`/`update_avail_idx` are the two halves of
`vq_ring_update_avail` around `env_wmb()`, `update_used_slot`/`update_used_idx` of
`vq_ring_update_used`. `used_pending`, `used_head`, `consume_used` are the
comparison, the slot read and the increment in `virtqueue_get_buffer`; `avail_*` the
same in `virtqueue_get_available_buffer`. `SlotOf(i)`, written `i % N`, is the code's
`i & (vq_nentries - 1)`; the two agree because the code requires a power of two.
`IncIdx` is `++` on a `uint16_t` of width `IdxMod` (2^16 in the code).
`filled_avail` and `filled_used` are what the fill loops of `rpmsg_lite_master_init`
leave in the two virtqueues.

**Virtqueue.** Per ring end two actions: slot, then index, for a put; comparison,
then read and advance, for a take. `avail_write`, `used_write`, `avail_read` and
`used_read` are the calls in progress.

**RpmsgLite.** Every access another context can observe is a step. A task is at a
`pc` within an API call; its steps need the handler of its core to be idle, and the
handler starts between any two of them. `SendCall`, `Alloc`, `AllocEnd`, `Fill`,
`EnqueueSlot`, `EnqueueIdx`, `EnqueueKick` are `rpmsg_lite_send`, or, with
`nocopy`, `rpmsg_lite_alloc_tx_buffer` and `rpmsg_lite_send_nocopy`; the polling loop
with its tick count is `Alloc`/`AllocEnd` through `pc = "sleep"`. `RecvGet`,
`RecvCopy`, `ReleaseSlot`, `ReleaseIdx` are `rpmsg_queue_recv`, or
`rpmsg_queue_recv_nocopy` and `rpmsg_queue_nocopy_free`. `RxEnter`, `RxLock`,
`RxMessage`, `RxHold`, `RxFreeSlot`, `RxFreeIdx`, `RxEmpty`, `RxExit` are
`rpmsg_lite_rx_callback` with the endpoint's callback; `TxCallback` is
`rpmsg_lite_tx_callback`. The variable `setup` is the application and the build, fixed
from the start: who sends and receives, with which timeouts, copying or not, the
endpoints whose callback queues (`RL_HOLD`), releases (`RL_RELEASE`) or is missing,
`RL_USE_ENVIRONMENT_CONTEXT` (`context`) and
`RL_ALLOW_CONSUMED_BUFFERS_NOTIFICATION` (`consumed`).

**LinkUp.** `port` is the environment's wait record. `WaitClear`, `WaitCheck`,
`WaitBits`, `Poll`, `Timeout` are `env_wait_for_link_up`: FreeRTOS, ThreadX, XOS and
Zephyr wait for an event bit, bare metal and QNX poll `link_state`. `TxCallback` sets
`link_state` and then the bit, at once, or, with FreeRTOS in an interrupt, by a command
that `Daemon` (its timer task) runs. The ports differ in whether the bit is cleared
before (`clears`) or by the wait (`consumes`), whether the bits returned must equal or
include the link's (`exact`), and whether `RL_BLOCK` is converted to ticks and so
expires (`expires`). `RemoteInit` and `Deinit` are the instance coming and going with
its link; `lives` counts the instances a link has had since the event object was made.

**Endpoints.** `CreateLock` … `Created` are `rpmsg_lite_create_ept` with
`add_to_list`, `DestroyLock` … `DestroyFree` are `rpmsg_lite_destroy_ept` with
`remove_from_list`. The interrupt's walk changes nothing, so it is not an action: what
it would meet is the function `visited` of the current state, and `WalkSafe` and
`OpenFound` speak of it in every state. `Garbage` is the content of memory that
was never initialised or was overwritten; a node that is used again may instead still
hold the links of its earlier use.

**Lifecycle.** `target` is the core, fixed from the start: a device, an environment's
init record, the links its application uses and its role on them. Every link has a task
that goes through the steps of `rpmsg_lite_master_init` or `rpmsg_lite_remote_init`, and
then of `rpmsg_lite_deinit`:

| Action | Code |
|---|---|
| `EnvInit`, `platform_init`, `EnvInitWait` | `env_init`: count, first caller boots the platform, the others wait; `platform_init` may fail |
| `Create`, `CreateFails` | `virtqueue_create_static` / `virtqueue_create`, the mutex, and the error path that returns `RL_NULL` without `env_deinit` |
| `env_register_isr`, `Attach` | the two halves of `platform_init_interrupt`, once per virtqueue |
| `platform_interrupt_disable`, `platform_interrupt_enable` | the masking around the writing of `link_state`, with its counter |
| `Kick` | the first `virtqueue_kick` of the master, through `platform_notify` |
| `platform_deinit_interrupt`, `Free`, `EnvDeinit` | `rpmsg_lite_deinit` up to the `platform_deinit` of the last user |
| `Ring`, `PeerTakes` | the other core rings a virtqueue, takes what it was sent |
| `Isr` | the interrupt handler, `env_isr`, `virtqueue_notification`, `rpmsg_lite_tx_callback` |

A platform is four values. *irq* says what kind of doorbell it has (a message register
that is written when empty, bits that accumulate, a driver that refuses, or none), which
part of the virtqueue's id travels through it, which com_id each handler puts back, and
what is switched on and off at which count of attached virtqueues. *mask* says how the
counter of `platform_interrupt_disable` and the interrupt line go together. *boot* says
what `platform_init` and `platform_deinit` do to the line and the doorbell. *ids* are the
link ids of the header and the room its `VRING_SIZE` sets aside. A platform with several
builds (with the multicore manager, with a Zephyr driver) has a record for each. What two
platform files have in common is one word of `Platforms`; what is particular to a file is
visible as an exception in its definition.

### Abstractions

* Payloads are names of messages; addresses, lengths and formatting are left out.
  Checks of parameters that return before anything changes are left out.
* The barriers of the code are taken at their word: stores become visible in program
  order. Caches do not appear; `RL_USE_DCACHE` maintenance is not modelled.
* `RL_BLOCK` never expires (in the code after 2^32 - 1 polls). Timeouts are counted in
  polling intervals; 0, 2 and `RL_BLOCK` stand for "do not wait", "wait", "wait for ever".
* `RL_CLEAR_USED_BUFFERS`, `VIRTQUEUE_FLAG_EVENT_IDX` (never set by the
  library) and `virtqueue_enable_cb` (never called) are left out.
* In `RpmsgLite` the doorbell is a set of virtqueues: notifications of one virtqueue
  coalesce. The other kinds of doorbell are in `Lifecycle`.
* Registers of the platforms appear as what they do: a source or line that is on or off,
  a doorbell that is rung or taken. Priorities and the numbers of interrupts are left out.
* In `Lifecycle` a step under `platform_lock` or a critical section is one action.
  Waiting for a lock that was never created is `halt`: the task does not come back.
  The mask counters of the DSP platforms, which the code updates outside a critical
  section, are updated atomically.
* The other core rings as the `platform_notify` of the same file does. The build of
  imxrt700_ezhv with the multicore manager is left out: the other core has no event for it.
* In `LinkUp` the timer task has the highest priority and its command queue is long
  enough.
* The flags of `VQUEUE_BUSY` are not variables: a context is inside a virtqueue call
  exactly while its `pc` is between the two stores of that call, and `NotAlreadyInUse` says
  that no two contexts are there for the same end.
* History variables (`published`, `delivered`, `dropped`; `lives` in `LinkUp`; `open` and `ns_ept` in
  `Endpoints`) record what the program did; no guard but the application's own
  choice of what to destroy reads them.

## 3. Runs

All runs but those listed as findings pass. `CHECK_DEADLOCK FALSE` is set in the runs of
`RpmsgLite`, `LinkUp` and `Endpoints`: applications may stop calling, and the bounds on
sends, kicks and initialisations end a behaviour. `virtqueue` and `core` check for
deadlock; in `core` a state in which nobody is inside the library and no call is left is
a legal end (`Rest`), and so is a task lost in a lock that does not exist.

| Run | Instance | What it shows |
|---|---|---|
| `virtqueue` | `N = 2`, `IdxMod = 8` | Every buffer is in exactly one place (`Ownership`), no ring overruns (`NoOverrun`, the assertion of `virtqueue_nused`), the vring implements `VirtqueueFifo` (`ImplementsFifo`). Both start states; unbounded behaviours, so the indices wrap. Larger rings are left to the proof. |
| `messages` | three setups: two senders with timeouts 0, 2 and `RL_BLOCK`, copying and not, to a queue (`Held`); both cores sending three messages without copying to endpoints that release, with notification of consumed buffers (`Duplex`); endpoints that hold, that release and that are missing on one instance, callback in a thread (`Context`) | One owner per buffer (`OneOwner`), exclusion inside the virtqueue calls (`NotAlreadyInUse`), order (`InOrderDelivery`), intact held messages (`HeldIntact`), the index read back from a header is that of its buffer (`IdxReadBack`), no overflow of the queue (`NothingDropped`). |
| `live` | two blocking senders of two messages, fairness | `EventuallyDelivered`, `SendReturns`. |
| `mixed` | one holding and one releasing endpoint, callback in the interrupt | finding 1 |
| `link_multi` | all six environments, two links, one waiter each, callbacks from interrupt and task, instances created anew | A link is not reported because an earlier instance saw it (`TrueMeansUp`); the ports that do not clear the bit are excepted from the second instance on. No wake-up is lost (`WaitReturns`). |
| `link_false` | FreeRTOS, two links | finding 2 |
| `endpoints` | two tasks, three nodes, `RL_ADDR_ANY`, name service; memory keeps old links or is overwritten | An open endpoint is found at its address at every store, so addresses stay unique; but for the first insertion the interrupt's walk meets existing endpoints only and ends; back links are right where removal uses them. |
| `endpoints_first` | the same | finding 3 |
| `core` | every platform with FreeRTOS or Zephyr, some with bare metal, ThreadX and XOS; its first link with another one, as master and as remote | The properties below, over every interleaving of two inits and deinits, their failures and the doorbells. |
| `platform_route`, `xos_init`, `platform_mask` | one platform each | findings 4, 5 and 6 |

The properties of `core`. `InitWaits`: `env_init` returns to no caller before the platform
is there or its setting up has failed, and nobody is in `platform_init` then. `EnvKept`:
semaphore and count last as long as anybody is in the library.
`TableLive`: the handler meets no freed virtqueue. `AssertsHold`: the assertions on
`isr_counter` and `disable_counter` never fire. `UpIsReachable`: an instance that was
returned is heard until its own deinit, although other links detach from the same
doorbell. `NestedMasks`: masks of several links nest. `KickKept`: the master's only
kick is not lost on a remote that initialises later. `RightVector`: what is rung for a virtqueue is
handed to `env_isr` as that virtqueue. `RingsFit`: a vring fits into the room that the
platform's header computes for it. `TypeOK` includes that no counter goes below zero and
that `isr_table` is not indexed past its end.

They are judged after a failed `env_init` as well (`failed`, RL:1156). The error paths keep
`env_init_counter` raised, so later callers are let into a platform that was never set up.
What holds then: the count keeps the environment from being taken down, and
`platform_init` from being called again, while others are inside; a semaphore is missing
only where its creation may fail (`EnvKept`); no assertion fires, because without a lock
the platform's counters are not looked at (`AssertsHold`); and no init function returns
an instance, with one exception that `UpIsReachable` names: on platforms whose
`platform_init_interrupt` checks the lock, `rpmsg_lite_remote_init` throws the error
away (RL:1594) and returns an instance that no interrupt reaches. `KickKept` is claimed
only while no `env_init` has failed. It covers the platforms whose doorbell is shut until
a virtqueue is attached (`KeepsKicks`) and the first link on a doorbell
(`AloneOn`); elsewhere a kick that comes early is taken by an interrupt that finds no
virtqueue. `NestedMasks` covers platforms with one counter per line.

**Bounds.** Two buffers per ring are the smallest number at which a ring can be
empty, partly filled and full and at which order can be lost; with
`IdxMod` 4, the smallest that the assumption `IdxMod >= 2 * N` allows, or 8, a few messages
wrap the indices, as 65536 do in the code. With two buffers and two or more messages per task, senders run
out of buffers, poll, time out and meet the returned buffers. Two tasks on a core are
enough for every conflict between a pair of calls, and the handler of the core is the
third party. Three nodes give a removal at the head, in the middle and at the end of
the list. In `core` three init calls let a link be set up again after its deinit, or after
a failure, while another is up; two doorbells give one for either virtqueue, or for
either link, pending at once. The two links are the device's first and the last one on the same
or on another doorbell: the shared counters see links that share them and links that do
not. Buffer counts for the vring sizes are 2, 4, 16 and 256, or what the platform allows.
Tasks of one core with the same role are symmetric, and so are the nodes of
`Endpoints`; symmetry is not used where liveness is checked.

**Fairness** (`live`, `link_multi`). Interrupts that are pending are
taken and handlers run to their end. A task that can run runs, and one that waits for
the lock gets it although others take it in between (strong fairness): the ports'
mutexes queue their waiters, and a poller sleeps between two attempts. Receivers
release what they receive, without which `rpmsg_lite_send` rightly waits for ever. In
`LinkUp` the ready tasks and the timer task run and time passes. Nothing makes an
application call, and nothing makes the other core kick.

## 4. Where code and documentation disagree

1. **`mixed`** (RL:207). A receive callback that releases calls `vq_rx_free` from the
   interrupt without the lock, possibly inside the `vq_rx_free` of
   `rpmsg_lite_release_rx_buffer` (RL:962). The busy assertion of `virtqueue.h:200`
   fires; without it a slot is written twice and a buffer is lost. An instance needs
   one endpoint with a queue and one that releases, such as the name service's.
2. **`link_false`** (FR:135). The result of `xEventGroupWaitBits` is compared with the
   link's bit, but holds the bits of all links; with a second link up, the wait reports
   `RL_FALSE` without a timeout (`rpmsg_lite.h:371`).
3. **`endpoints_first`** (llist.c:85). The first node of a list becomes visible before
   its `next` is written; a message for another address makes the interrupt follow
   it. The list is in order when it is not empty (lines 77-80).
4. **`platform_route`** (`porting/platform/imxrt700_m33/rpmsg_platform.c:147`).
   `MU2_B_IRQHandler` puts back the com_id of another message unit: a doorbell of the
   HIFI4 core notifies the virtqueue of the link to the first Cortex-M33.
5. **`xos_init`** (`rpmsg_env_xos.c:159`). `env_sema` starts with a count of 1, so the
   second caller of `env_init` does not wait for the first one's `platform_init`.
6. **`platform_mask`** (`porting/platform/imx93_m33/rpmsg_platform.c:215`, and likewise
   imx8ulp_m33, imx943, imx95, imx952). The counter is raised before it is
   compared with 0, so `platform_interrupt_disable` never turns the interrupt off.

Two more weaknesses are listed as hazards without a run: a second FreeRTOS task that waits
for the *same* link clears the bit the first is about to wait for (FR:129), and
`rpmsg_ns_bind` returns a handle although its endpoint could not be created
(rpmsg_ns.c:141).

## 5. Proofs

Every invariant and every action property that a run checks is also a theorem, for every
value of the constants: any number of links, tasks, nodes, messages and buffers, and any
platform or environment whose record has the types the module assumes (`SizeAssumption`,
`LifecycleAssumption`, `EndpointsAssumption`, ...). TLC looked for
counterexamples of each inductive invariant on the instances of section 3 first: over
all states for `LinkUp`, `Endpoints` and `RpmsgLite`, over most of those of `core` for `Lifecycle`.

Where the code is right only under a condition, the theorem has that condition as a
hypothesis, and a run shows what happens without it:

| Hypothesis | What it says | Without it |
|---|---|---|
| `Unmixed` (`RpmsgLiteProofs`) | callback in a thread, or not both tasks and interrupt callbacks that release buffers | `mixed` |
| `OthersDoNotDisturb` (`LinkUpProofs`, `FalseMeansTimeoutHolds` only) | an environment that compares all event bits has one link | `link_false` |
| `Gated` (`LifecycleProofs`, all) | the semaphore of `env_init` is created empty, or there is one link | `xos_init` |
| `Restoring` (`RightVectorHolds`, `KickKeptHolds`) | the handler puts back the `com_id` that the message lacks | `platform_route` |
| `Separate` (`UpIsReachableHolds`, `NestedMasksHolds`, `KickKeptHolds`) | what `platform_init_interrupt` switches is not switched by another link | |
| `Shutting` (`KickKeptHolds`) | `platform_deinit_interrupt` shuts what `platform_init_interrupt` opened | |
| `SetAside` (`RingsFitHolds`) | the room for a vring is at least `VRING_SIZE` | |

The hypotheses are conditions on constants. `MCLifecycle` assumes the last five for each
target of `core`, and `MCRpmsgLite` the first for each setup of `messages` and `live`; TLC
evaluates both assumptions, so the theorems apply to every platform and application those
runs check. `OthersDoNotDisturb` excludes only FreeRTOS with several links.

**`VirtqueueProofs`**: `TypeCorrect`, `OwnershipHolds`, `NoOverrunHolds` and
`FifoRefinement`, `Spec => ImplementsFifo`. `SizeAssumption` says that `N` is at least 1 and
divides `IdxMod`, and `IdxMod >= 2 * N`; in the code a power of two of at most 2^15, and
2^16. The inductive invariant is `IInv == TypeOK /\ Ownership /\ InProgress`. `Ownership`
alone is not inductive: an index update publishes whatever the slot holds, so `InProgress`
has to say that a put in progress has its descriptor in the first unpublished slot and
still owns it, and that a take in progress still has something to take although the other
core moves its index meanwhile.

The argument goes through *windows*, the sequence of published entries a consumer has not
taken. The lemmas about them are in `VirtqueueOpsProofs`, because the message path needs
them too. `DivMod`, `ModUnique`, `ModMod`, `SlotsDiffer`, `IndexFacts`, `SlotAfterWindow` and
`SlotAfterInc` are the arithmetic of wrapping indices: `N` consecutive indices select
different slots, across the wrap too. From them `WindowWrite` (writing the slot behind a
window that is not full leaves the window), `WindowPublish` (advancing the index appends
that slot's content) and `WindowConsume` (advancing the consumer removes the head).
`AtMostAll` and `RoomForOne` count: while a core holds a buffer both windows have room for
one more; that is why a put never overruns and the code needs no check for a full ring. One
`...Effect` lemma per action states what it does to the windows; the invariant and the
refinement follow action by action: slot writes and comparisons are stutters of
`VirtqueueFifo`, index updates are its steps.

**`RpmsgLiteProofs`**: `TypeCorrect`, `OneOwnerHolds`, `NotAlreadyInUseHolds`,
`InOrderDeliveryHolds`, `HeldIntactHolds`, `IdxReadBackHolds`, `NothingDroppedHolds`. `Virtqueue` assumed one call
at a time at each ring end; here the lock (`Locking`) and `Unmixed` establish it. Hence what
was written into a slot is what the index update publishes (`Tips`), and what was read is
what is taken (`Heads`). `OnePlace` says that every buffer is in one of the places ring,
task, queue, callback; each step moves one buffer. `Headers` says that the index in the
header of a buffer, which the release reads back from shared memory, is the buffer's own
while it is with the receiver, and with `IdxReadBackHolds` that no call relies on the range
check of `virtqueue_add_consumed_buffer` (VQ:447), which lets one index too many pass. `Contents` says that a buffer
still holds what its sender wrote when it is published, so the ring holds the messages in
the order of the index updates (`InOrder`).
None of these is inductive alone: order needs that nobody else writes a buffer, that needs
one owner, and that needs exclusion.

**`LinkUpProofs`**: `TypeCorrect`, `TrueMeansUpHolds`, `FalseMeansTimeoutHolds`. The bit a wait
finds may have been set long before, for an earlier instance. The invariant traces every
bit and every pending command of the timer task to the notification it comes from.

**`EndpointsProofs`**: `TypeCorrect`, `WalkSafeHolds`, `OpenFoundHolds`, `BackLinksHolds`. The
invariant names the list by a function `f` on `0..m`: its nodes are distinct and the memory
follows `f` up to the stores that the holder of the lock has still to make (`Links`, `Adding`,
`Back`), the list holds what is open and nothing that is free (`Members`), and addresses
are unique (`Addresses`). The step between the two stores of an insertion into an empty list
is the one exception in `Links`; it is the exception in `WalkSafeOnceLinked` and finding 3. The
walk is a recursive function; lemma `Walk` gives a solution of its equation in terms of `f` and
shows by a least counterexample that the walk is that solution. That `RL_ADDR_ANY`
finds a free address is a pigeonhole argument over the finite list.

**`LifecycleProofs`**: `TypeCorrect`, `InitWaitsHolds`, `EnvKeptHolds`, `TableLiveHolds`,
`AssertsHoldAlways`, `NestedMasksHolds`, `UpIsReachableHolds`, `RingsFitHolds`, and the action
properties `RightVectorHolds` and `KickKeptHolds`. The invariant says what each counter counts,
by the steps at which the links are: `env_init_counter` the links inside (`Users`; more
after a failure), `isr_counter` the attached virtqueues of a doorbell (`Attachments`),
`disable_counter` the masks not undone (`Masks`); who may be where while `platform_init` runs
(`Booting`, `Gate`); that `isr_table` holds the virtqueues that are between registration and
removal (`Table`); and what is switched on (`Sources`, `Lines`). A counter is equal to a
cardinality, so each step needs that moving one link changes that cardinality by one.
What a failed `env_init` leaves behind is a second invariant, `Aftermath`: nobody has gone
past the first lock where it is not checked, a master has not gone past its kick, and the
semaphore is there. `EnvKept` and `UpIsReachable` rest on it.
`KickKept` needs a third one, `Shut`: a doorbell with nothing attached is shut. `RingsFit`
needs the arithmetic of rounding up in `vring_init` (`UpFacts`, `UpSum`, `VringFits`).

**Only model-checked**: `EventuallyDelivered`, `SendReturns` and `WaitReturns`. They are liveness
properties under fairness, which TLAPS cannot prove here.

## 6. Not modelled, and the plan

Not modelled:

* **QNX**: `env_init`, its memory mapping, threads and queues, and its platform. The
  callback in a thread is a setup of `RpmsgLite`, the wait a port of `LinkUp`.
* **Shared memory configuration** of the k32w1 family of platforms: its two outcomes are
  checked for size (`..._rings`), that both cores arrive at the same one is not modelled.
* **The mailbox of aarch64** as a protocol of its own; it is taken as a message register.
* **Caches, `platform_vatopa`, `platform_patova`, `platform_time_delay`**, allocation:
  functions of the hardware or of the system without state of the library.
* **Parameter checks** of the init functions, which return before anything changes, and
  the arithmetic on buffer addresses.
* `rpmsg_queue_destroy` and `rpmsg_queue_get_current_size`; logging, tests and examples
  (the application's part).

Next:

1. An abstract specification of the message path, one FIFO channel per direction with a
   bounded number of messages, that `RpmsgLite` implements; `IInv` of `RpmsgLiteProofs` already
   holds what the refinement needs.
2. Both cores in one instance of `Lifecycle`, so that the handshake of two inits is a
   behaviour of the model; the mailbox of aarch64 step by step.
3. `rpmsg_queue_destroy` against a callback in progress; two cores blocked in a send
   with their own queues full.
