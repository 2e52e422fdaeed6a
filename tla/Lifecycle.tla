------------------------------- MODULE Lifecycle -------------------------------
(***************************************************************************)
(* rpmsg_lite_master_init, rpmsg_lite_remote_init and rpmsg_lite_deinit on *)
(* every platform and environment layer: env_init and env_deinit, which    *)
(* count their callers, platform_init and platform_deinit, the attachment  *)
(* of the two virtqueues of a link to the interrupt, the masking of the    *)
(* interrupt around link_state, and the interrupt handler, which may run   *)
(* between any two steps.                                                  *)
(*                                                                         *)
(* target is the core under study: a device (see Platforms), the init      *)
(* record of an environment (see Environments), the links that its         *)
(* application uses, one task each, and its role on them.  The peer rings  *)
(* at any time, before the first init and after the last deinit too.       *)
(***************************************************************************)
EXTENDS Platforms, Environments, FiniteSets

CONSTANTS Targets,      \* the set of values of target
          MaxInits,     \* bound on the calls of the init functions
          MaxRings      \* bound on the doorbells rung by the peer

(* What the records of a target hold, and what a link id must satisfy: its  *)
(* doorbell has a handler and its vectors an entry in isr_table.            *)
IsPort(p) ==
    /\ p.tasks \in BOOLEAN /\ p.fallible \in BOOLEAN /\ p.clears \in BOOLEAN
    /\ p.sema \in {0, 1}

IsPlatform(d) ==
    /\ DOMAIN d.irq.door.route \subseteq Nat
    /\ d.irq.door.managed \in BOOLEAN /\ d.irq.check \in BOOLEAN
    /\ d.irq.switch.limit \in 0..2 /\ d.irq.switch.back \in {-1, 1}
    /\ d.mask.counter \in {"core", "com"} /\ d.mask.line \in {"core", "com"}
    /\ d.boot.line \in BOOLEAN /\ d.boot.clears \in BOOLEAN /\ d.boot.drains \in BOOLEAN
    /\ d.ids.isr_count \in Nat

Serves(d, l) ==
    /\ Doorbell(d.irq.door, RL_GET_VQ_ID(l, 0)) \in DOMAIN d.irq.door.route
    /\ RL_GET_VQ_ID(l, 1) < d.ids.isr_count

ASSUME LifecycleAssumption ==
    /\ MaxInits \in Nat /\ MaxRings \in Nat
    /\ \A t \in Targets : /\ t.role \in {"master", "remote"}
                          /\ t.links \subseteq Nat /\ IsFiniteSet(t.links)
                          /\ IsPlatform(t.dev) /\ IsPort(t.port)
                          /\ \A l \in t.links : Serves(t.dev, l)

VARIABLES
    target,             \* the core, fixed
    env_init_counter,   \* users of the environment
    env_sema,           \* count of env_sema, -1 when there is no semaphore
    platform_lock,      \* the lock exists
    isr_table,          \* vectors with a virtqueue
    isr_counter,        \* attached virtqueues, per doorbell
    sources,            \* <<com, queue>> pairs whose interrupt source is on
    disable_counter,    \* calls of platform_interrupt_disable in force
    line,               \* interrupt lines that are on
    bell,               \* vectors rung and not yet taken, per doorbell
    at,                 \* the step each link's task is about to take
    vqs,                \* links whose virtqueues exist
    link_state,         \* links with link_state = 1
    out,                \* the other core has not taken the last doorbell
    failed,             \* env_init has returned an error
    inits, rings        \* calls and doorbells so far

vars == <<target, env_init_counter, env_sema, platform_lock, isr_table, isr_counter,
          sources, disable_counter, line, bell, at, vqs, link_state, out, failed,
          inits, rings>>

environment == <<env_init_counter, env_sema>>
interrupt   == <<isr_table, isr_counter, sources, disable_counter, line>>
bounds      == <<inits, rings>>

door   == target.dev.irq.door
switch == target.dev.irq.switch
mask   == target.dev.mask
boot   == target.dev.boot
port   == target.port
Links  == target.links
Coms   == DOMAIN door.route
Keys   == Coms \cup {0}

Vq(l, q) == RL_GET_VQ_ID(l, q)
Com(l)   == Doorbell(door, Vq(l, 0))

(* The virtqueues of the master are received on 0, sent on 1; of the        *)
(* remote the other way round.                                              *)
rvq == IF target.role = "master" THEN 0 ELSE 1
tvq == 1 - rvq

CounterOf(l) == IF mask.counter = "com" THEN Com(l) ELSE 0
LineOf(c)    == IF mask.line = "com" THEN c ELSE 0

(* The order of the steps of the init functions once the virtqueues exist.  *)
After_attach_first ==                                               \* mutant
    [create |-> "attach0", attach0 |-> "register0", register0 |-> "attach1",
     attach1 |-> "register1", register1 |-> "mask_r",
     mask_r |-> "mask_t", mask_t |-> "unmask_r", unmask_r |-> "unmask_t"]
After ==
    [create |-> "register0", register0 |-> "attach0", attach0 |-> "register1",
     register1 |-> "attach1", attach1 |-> "mask_r",
     mask_r |-> "mask_t", mask_t |-> "unmask_r", unmask_r |-> "unmask_t"]

Steps == DOMAIN After \cup {"none", "boot", "wait", "unmask_t", "kick", "up",
                            "detach_t", "free", "deinit", "halt"}

Goto(l, step) == at' = [at EXCEPT ![l] = step]
Follow(l)     == Goto(l, After[at[l]])

(* On bare metal a call runs to its end before the next one is made.        *)
Turn(l) == port.tasks \/ \A k \in Links \ {l} : at[k] \in {"none", "up"}

Init ==
    /\ target \in Targets
    /\ env_init_counter = 0 /\ env_sema = -1 /\ platform_lock = FALSE
    /\ isr_table = {} /\ isr_counter = [c \in Coms |-> 0] /\ sources = {}
    /\ disable_counter = [k \in Keys |-> 0]
    /\ line = IF door.managed THEN Keys ELSE {}
    /\ bell = [c \in Coms |-> {}]
    /\ at = [l \in Links |-> "none"]
    /\ vqs = {} /\ link_state = {} /\ out = FALSE /\ failed = FALSE
    /\ inits = 0 /\ rings = 0

-----------------------------------------------------------------------------
(* env_init: the first caller goes on to platform_init, the others wait.    *)
EnvInit(l) ==
    /\ at[l] = "none" /\ Turn(l) /\ inits < MaxInits
    /\ env_init_counter' = env_init_counter + 1
    /\ inits' = inits + 1
    /\ \/ /\ env_init_counter = 0
          /\ env_sema' = port.sema /\ isr_table' = {}
          /\ Goto(l, "boot")
          /\ UNCHANGED failed
       \/ /\ env_init_counter = 0 /\ port.fallible
          /\ failed' = TRUE
          /\ UNCHANGED <<env_sema, isr_table, at>>
       \/ /\ env_init_counter > 0
          /\ Goto(l, IF port.tasks THEN "wait" ELSE "create")
          /\ UNCHANGED <<env_sema, isr_table, failed>>
    /\ UNCHANGED <<target, platform_lock, isr_counter, sources, disable_counter, line,
                   bell, vqs, link_state, out, rings>>

(* The rest of env_init for the first caller: platform_init, which fails    *)
(* when there is no lock to be had, and the semaphore.                      *)
platform_init(l) ==
    /\ at[l] = "boot" /\ Turn(l)
    /\ line' = IF boot.line THEN Keys ELSE line
    /\ bell' = IF boot.clears THEN [c \in Coms |-> {}] ELSE bell
    /\ env_sema' = IF port.tasks THEN env_sema + 1 ELSE env_sema
    /\ \/ platform_lock' = TRUE /\ Goto(l, "create") /\ UNCHANGED failed
       \/ failed' = TRUE /\ Goto(l, "none") /\ UNCHANGED platform_lock
    /\ UNCHANGED <<target, env_init_counter, isr_table, isr_counter, sources,
                   disable_counter, vqs, link_state, out, bounds>>

EnvInitWait_open(l) ==                                                \* mutant
    /\ at[l] = "wait"
    /\ env_sema >= 0 \/ (port.fallible /\ env_sema = -1)
    /\ Goto(l, "create")
    /\ UNCHANGED <<target, environment, platform_lock, interrupt, bell, vqs, link_state,
                   out, failed, bounds>>

(* The rest of env_init for the others: take the semaphore and give it back.*)
(* A semaphore that was never created does not hold them.                   *)
EnvInitWait(l) ==
    /\ at[l] = "wait"
    /\ env_sema > 0 \/ (port.fallible /\ env_sema = -1)
    /\ Goto(l, "create")
    /\ UNCHANGED <<target, environment, platform_lock, interrupt, bell, vqs, link_state,
                   out, failed, bounds>>

(* The virtqueues and the mutex of the instance exist.                      *)
Create(l) ==
    /\ at[l] = "create" /\ Turn(l)
    /\ vqs' = vqs \cup {l}
    /\ Follow(l)
    /\ UNCHANGED <<target, environment, platform_lock, interrupt, bell, link_state, out,
                   failed, bounds>>

(* One of them cannot be created: everything but the environment is given   *)
(* back, and the init function returns RL_NULL.                             *)
CreateFails(l) ==
    /\ at[l] = "create" /\ Turn(l)
    /\ Goto(l, "none")
    /\ UNCHANGED <<target, environment, platform_lock, interrupt, bell, vqs, link_state, out,
                   failed, bounds>>

-----------------------------------------------------------------------------
(* platform_init_interrupt in two steps: env_register_isr, and the part     *)
(* under platform_lock.  Without a lock it returns, or is lost in the lock. *)
Returns == target.dev.irq.check /\ ~platform_lock
Hangs   == ~target.dev.irq.check /\ ~platform_lock

env_register_isr(l, q) ==
    /\ at[l] = (IF q = 0 THEN "register0" ELSE "register1") /\ Turn(l)
    /\ isr_table' = IF Returns THEN isr_table ELSE isr_table \cup {Vq(l, q)}
    /\ Follow(l)
    /\ UNCHANGED <<target, environment, platform_lock, isr_counter, sources,
                   disable_counter, line, bell, vqs, link_state, out, failed, bounds>>

SwitchedBy(kind, l, q) ==
    CASE kind = "com" \/ (kind = "queue" /\ Com(l) \in switch.both) -> {Com(l)} \X {0, 1}
      [] kind = "queue" /\ Com(l) \notin switch.both -> {<<Com(l), q>>}
      [] OTHER -> {}

Attach(l, q) ==
    /\ at[l] = (IF q = 0 THEN "attach0" ELSE "attach1") /\ Turn(l)
    /\ \/ Returns /\ Follow(l) /\ UNCHANGED <<isr_counter, sources, line>>
       \/ Hangs /\ Goto(l, "halt") /\ UNCHANGED <<isr_counter, sources, line>>
       \/ /\ platform_lock
          /\ isr_counter' = [isr_counter EXCEPT ![Com(l)] = @ + 1]
          /\ LET opens == isr_counter[Com(l)] < switch.limit
             IN  /\ sources' = IF opens THEN sources \cup SwitchedBy(switch.on, l, q)
                                        ELSE sources
                 /\ line' = IF opens /\ switch.on = "line" THEN line \cup {LineOf(Com(l))}
                                                           ELSE line
          /\ Follow(l)
    /\ UNCHANGED <<target, environment, platform_lock, isr_table, disable_counter, bell,
                   vqs, link_state, out, failed, bounds>>

(* platform_interrupt_disable for the one virtqueue, then for the other.    *)
(* All platforms count, and differ in which count turns the line off or on. *)
Raised_flat(n) == 1                                                 \* mutant
Raised(n) == n + 1
TurnsOff_late(n) == Raised(n) = 0                                   \* mutant
TurnsOff(n) ==
    \/ mask.nest = "outermost" /\ n = 0
    \/ mask.nest = "raised" /\ Raised(n) = 0
    \/ mask.nest = "each"
TurnsOn(n) == n = 0 \/ mask.nest \in {"each", "open"}

platform_interrupt_disable(l) ==
    /\ at[l] \in {"mask_r", "mask_t"} /\ Turn(l)
    /\ LET k == CounterOf(l)
       IN  /\ line' = CASE mask.nest = "open" -> line \cup {LineOf(Com(l))}
                        [] TurnsOff(disable_counter[k]) -> line \ {LineOf(Com(l))}
                        [] OTHER -> line
           /\ disable_counter' = [disable_counter EXCEPT ![k] = Raised(@)]
    /\ Follow(l)
    /\ UNCHANGED <<target, environment, platform_lock, isr_table, isr_counter, sources,
                   bell, vqs, link_state, out, failed, bounds>>

(* platform_interrupt_enable.  Before the first the master sets link_state; *)
(* after the second it kicks, and the remote is done.                       *)
platform_interrupt_enable(l) ==
    /\ at[l] \in {"unmask_r", "unmask_t"} /\ Turn(l)
    /\ LET k == CounterOf(l)
       IN  /\ disable_counter' = [disable_counter EXCEPT ![k] = @ - 1]
           /\ line' = IF TurnsOn(disable_counter'[k]) THEN line \cup {LineOf(Com(l))} ELSE line
    /\ link_state' = IF target.role = "master" THEN link_state \cup {l} ELSE link_state
    /\ \/ at[l] = "unmask_r" /\ Follow(l)
       \/ at[l] = "unmask_t" /\ Goto(l, IF target.role = "master" THEN "kick" ELSE "up")
    /\ UNCHANGED <<target, environment, platform_lock, isr_table, isr_counter, sources,
                   bell, vqs, out, failed, bounds>>

(* platform_notify for the first kick of the master, under platform_lock: a *)
(* message register is written when the last message has been taken.        *)
Kick(l) ==
    /\ at[l] = "kick" /\ Turn(l)
    /\ (platform_lock /\ door.bell = "word") => ~out
    /\ Goto(l, IF platform_lock THEN "up" ELSE "halt")
    /\ out' = (out \/ (platform_lock /\ door.bell # "none"))
    /\ UNCHANGED <<target, environment, platform_lock, interrupt, bell, vqs, link_state,
                   failed, bounds>>

-----------------------------------------------------------------------------
(* platform_deinit_interrupt, for rvq and then for tvq, under platform_lock.*)
Detached_twice(n) == n - 2                                          \* mutant
Detached(n) == n + switch.back
ClosesAt_any(n) == TRUE                                             \* mutant
ClosesAt(n) == (IF switch.back < 0 THEN Detached(n) ELSE n) < switch.limit
Unregister_none(v) == isr_table                                     \* mutant
Unregister(v) == isr_table \ {v}

platform_deinit_interrupt(l) ==
    /\ at[l] \in {"up", "detach_t"} /\ Turn(l)
    /\ LET q == IF at[l] = "up" THEN rvq ELSE tvq
           next == IF at[l] = "up" THEN "detach_t" ELSE "free"
           closes == ClosesAt(isr_counter[Com(l)])
       IN  \/ /\ Returns /\ Goto(l, next)
              /\ UNCHANGED <<isr_table, isr_counter, sources, line>>
           \/ /\ Hangs /\ Goto(l, "halt")
              /\ UNCHANGED <<isr_table, isr_counter, sources, line>>
           \/ /\ platform_lock /\ Goto(l, next)
              /\ isr_counter' = [isr_counter EXCEPT ![Com(l)] = Detached(@)]
              /\ sources' = IF closes THEN sources \ SwitchedBy(switch.off, l, q)
                                      ELSE sources
              /\ line' = IF closes /\ switch.off = "line" THEN line \ {LineOf(Com(l))}
                                                          ELSE line
              /\ isr_table' = Unregister(Vq(l, q))
    /\ UNCHANGED <<target, environment, platform_lock, disable_counter, bell, vqs,
                   link_state, out, failed, bounds>>

(* The rest of rpmsg_lite_deinit up to env_deinit.                          *)
Free(l) ==
    /\ at[l] = "free" /\ Turn(l)
    /\ link_state' = link_state \ {l}
    /\ vqs' = vqs \ {l}
    /\ Goto(l, "deinit")
    /\ UNCHANGED <<target, environment, platform_lock, interrupt, bell, out, failed, bounds>>

(* env_deinit: the last user takes the platform and the environment down.   *)
Last_early(n) == n <= 1                                             \* mutant
Last(n) == n <= 0

EnvDeinit(l) ==
    /\ at[l] = "deinit" /\ Turn(l)
    /\ env_init_counter' = env_init_counter - 1
    /\ \/ /\ Last(env_init_counter')
          /\ boot.drains => ~out
          /\ isr_table' = IF port.clears THEN {} ELSE isr_table
          /\ platform_lock' = FALSE
          /\ env_sema' = -1
       \/ ~Last(env_init_counter') /\ UNCHANGED <<isr_table, platform_lock, env_sema>>
    /\ Goto(l, "none")
    /\ UNCHANGED <<target, isr_counter, sources, disable_counter, line, bell, vqs,
                   link_state, out, failed, bounds>>

-----------------------------------------------------------------------------
(* The peer rings for a virtqueue, and takes what it was sent.              *)
Ring(v) ==
    /\ rings < MaxRings /\ rings' = rings + 1
    /\ LET c == Doorbell(door, v)
       IN  \/ door.bell = "bits" /\ bell' = [bell EXCEPT ![c] = @ \cup {v}]
           \/ door.bell = "word" /\ bell[c] = {} /\ bell' = [bell EXCEPT ![c] = {v}]
           \/ door.bell = "try" /\ bell' = [bell EXCEPT ![c] = IF @ = {} THEN {v} ELSE @]
    /\ UNCHANGED <<target, environment, platform_lock, interrupt, at, vqs, link_state,
                   out, failed, inits>>

PeerTakes ==
    /\ out /\ out' = FALSE
    /\ UNCHANGED <<target, environment, platform_lock, interrupt, bell, at, vqs,
                   link_state, failed, bounds>>

(* The interrupt handler: the doorbell is cleared and env_isr calls         *)
(* virtqueue_notification, which ignores a vector without a virtqueue.  The *)
(* callback of tvq sets link_state.                                         *)
Heard(c, q) ==
    /\ LineOf(c) \in line
    /\ door.managed \/ switch.on \notin {"com", "queue"} \/ <<c, q>> \in sources

Isr(c, v) ==
    /\ v \in bell[c] /\ Heard(c, RL_GET_Q_ID(v))
    /\ bell' = [bell EXCEPT ![c] = @ \ {v}]
    /\ LET w == Vector(door, c, Message(door, v))
       IN  link_state' = IF w \in isr_table /\ RL_GET_Q_ID(w) = tvq
                         THEN link_state \cup {RL_GET_LINK_ID(w)} ELSE link_state
    /\ UNCHANGED <<target, environment, platform_lock, interrupt, at, vqs, out, failed,
                   bounds>>

(* Nobody calls any more: no task is inside the library, or it is lost in a *)
(* lock that does not exist.                                                *)
Rest ==
    /\ \A l \in Links : at[l] \in {"none", "up", "halt"}
    /\ inits = MaxInits \/ \E l \in Links : at[l] = "halt"
    /\ UNCHANGED vars

Next ==
    \/ \E l \in Links :
          \/ EnvInit(l) \/ platform_init(l) \/ EnvInitWait(l)
          \/ Create(l) \/ CreateFails(l)
          \/ \E q \in {0, 1} : env_register_isr(l, q) \/ Attach(l, q) \/ Ring(Vq(l, q))
          \/ platform_interrupt_disable(l) \/ platform_interrupt_enable(l) \/ Kick(l)
          \/ platform_deinit_interrupt(l) \/ Free(l) \/ EnvDeinit(l)
    \/ \E c \in Coms : \E v \in bell[c] : Isr(c, v)
    \/ PeerTakes
    \/ Rest

Spec == Init /\ [][Next]_vars

-----------------------------------------------------------------------------
(* Every variable has its type: the counters of the environment and of the  *)
(* platform never go below zero, and isr_table is never indexed past its    *)
(* RL_PLATFORM_MAX_ISR_COUNT entries.                                       *)
TypeOK ==
    /\ env_init_counter \in Nat
    /\ env_sema \in -1..2
    /\ platform_lock \in BOOLEAN /\ out \in BOOLEAN /\ failed \in BOOLEAN
    /\ isr_table \subseteq 0..(target.dev.ids.isr_count - 1)
    /\ isr_counter \in [Coms -> Nat] /\ disable_counter \in [Keys -> Nat]
    /\ sources \subseteq Coms \X {0, 1} /\ line \subseteq Keys
    /\ bell \in [Coms -> SUBSET {Vq(l, q) : l \in Links, q \in {0, 1}}]
    /\ at \in [Links -> Steps]
    /\ vqs \subseteq Links /\ link_state \subseteq Links
    /\ inits \in 0..MaxInits /\ rings \in 0..MaxRings

Initialised == DOMAIN After \cup {"unmask_t", "kick", "up", "detach_t"}
Masking     == {"mask_t", "unmask_r", "unmask_t"}
SharesLine(k, l) == LineOf(Com(k)) = LineOf(Com(l))

(* env_init returns to a caller only when platform_init has finished for    *)
(* it, whoever called it: the comment in every env_init says that the       *)
(* others wait for the blocking to be done.  After a failure the platform   *)
(* has no lock, and platform_init is not called again under anybody's feet. *)
InitWaits ==
    \A l \in Links : at[l] \in Initialised =>
        /\ platform_lock \/ failed
        /\ \A k \in Links : at[k] # "boot"

(* env_deinit takes the semaphore, the event group and the lock away only   *)
(* when nobody is in the library or waits in env_init, a failed             *)
(* platform_init or not; only a semaphore that could not be created is      *)
(* missing.                                                                 *)
EnvKept ==
    \A l \in Links : at[l] # "none" =>
        /\ env_init_counter > 0
        /\ env_sema >= 0 \/ (failed /\ port.fallible)

(* The handler reaches no virtqueue that rpmsg_lite_deinit or an error path *)
(* has freed.                                                               *)
TableLive == \A v \in isr_table : RL_GET_LINK_ID(v) \in vqs

(* The RL_ASSERTs of the platform layers: platform_deinit_interrupt finds   *)
(* isr_counter positive, platform_interrupt_enable disable_counter, however *)
(* the calls for several links are interleaved and whichever of them fail:  *)
(* without a platform the counter is not looked at.                         *)
AssertsHold ==
    \A l \in Links :
        /\ at[l] \in {"up", "detach_t"} /\ platform_lock => isr_counter[Com(l)] > 0
        /\ at[l] \in {"unmask_r", "unmask_t"} => disable_counter[CounterOf(l)] > 0

(* Once an init function has returned an instance, both of its virtqueues   *)
(* can be reached by the interrupt until its own deinit, whatever other     *)
(* links do meanwhile; only another init may mask the line for a moment.    *)
(* After a failed env_init no instance is returned, except to a remote      *)
(* whose platform_init_interrupt returns an error that nobody looks at.     *)
UpIsReachable ==
    \A l \in Links : at[l] = "up" /\ ~(failed /\ Returns /\ target.role = "remote") =>
        /\ {Vq(l, 0), Vq(l, 1)} \subseteq isr_table
        /\ target.role = "master" => l \in link_state
        /\ \/ Heard(Com(l), 0) /\ Heard(Com(l), 1)
           \/ \E k \in Links \ {l} : SharesLine(k, l) /\ at[k] \in Masking

(* platform_interrupt_disable and _enable nest: where one counter stands    *)
(* for one line, the line is off until the last of them is undone.          *)
NestedMasks ==
    mask.nest = "outermost" /\ mask.counter = mask.line =>
        \A k \in Keys : disable_counter[k] > 0 => k \notin line

(* The comment in platform_interrupt_disable on every platform: if the      *)
(* counter is set, the interrupts are disabled.                             *)
CounterMasks ==
    \A c \in Coms : disable_counter[IF mask.counter = "com" THEN c ELSE 0] > 0
                        => LineOf(c) \notin line

(* The kick by which the master says once that it is ready is not lost on a *)
(* remote that initialises later, where the doorbell is shut until a        *)
(* virtqueue is attached: the interrupt that takes it finds tvq and sets    *)
(* link_state.  A link that attached earlier to the same doorbell opens it  *)
(* for all.                                                                 *)
KeepsKicks ==
    /\ ~door.managed /\ switch.back < 0 /\ ~boot.clears
    /\ switch.on \in {"com", "queue"} \/ (switch.off = "line" /\ ~boot.line)
AloneOn(l) ==
    \A k \in Links \ {l} : Com(k) = Com(l) => at[k] \in {"none", "boot", "wait", "create"}

KickKept ==
    [][\A l \in Links :
          /\ target.role = "remote" /\ KeepsKicks /\ AloneOn(l) /\ ~failed
          /\ Vq(l, tvq) \in bell[Com(l)] /\ Vq(l, tvq) \notin bell'[Com(l)]
          => l \in link_state']_vars

(* com_id identifies the doorbell: what the peer rings for a virtqueue is   *)
(* handed to env_isr as the vector of that virtqueue.                       *)
RightVector ==
    [][\A c \in Coms : \A v \in bell[c] :
          v \in bell'[c] \/ boot.clears \/ Vector(door, c, Message(door, v)) = v]_vars

(* The area that VRING_SIZE sets aside for a vring holds what vring_init    *)
(* lays out in it, for every buffer count: the second vring, or the         *)
(* buffers, begin right after it.                                           *)
RingsFit ==
    vqs # {} => \A r \in target.dev.ids.vrings : \A n \in DOMAIN r.room :
                    vring_size(n, r.align) <= r.room[n]

-----------------------------------------------------------------------------
(* What the theorems need of a target beyond IsPlatform and IsPort.         *)

(* The semaphore of env_init is created empty, or nobody waits for it.      *)
GatedInit(t) == t.port.sema = 0 \/ \A k, l \in t.links : k = l

(* Nobody else switches what platform_init_interrupt switches: a line that  *)
(* is switched has one doorbell, sources that are switched one by one have  *)
(* one link, and one counter does not stand for several lines.              *)
OwnSwitch(t) ==
    LET w    == t.dev.irq.switch
        d    == t.dev.irq.door
        m    == t.dev.mask
        C(l) == Doorbell(d, RL_GET_VQ_ID(l, 0))
    IN  /\ "line" \in {w.on, w.off} => m.line = "com" \/ \A b, c \in DOMAIN d.route : b = c
        /\ w.on = "com" => w.limit > 0
        /\ w.on = "queue" => /\ w.limit = 2 /\ w.back = -1
                             /\ \A k, l \in t.links : C(k) = C(l) => k = l \/ C(l) \in w.both
        /\ m.counter = "core" => m.line = "core"

(* platform_deinit_interrupt shuts what platform_init_interrupt opened.     *)
ShutsAgain(t) ==
    LET w == t.dev.irq.switch
    IN  /\ w.on \in {"com", "queue"} => w.off = w.on
        /\ w.off = "line" => w.limit > 0

(* The handler of a doorbell puts back the com_id of the links that are     *)
(* rung on it, and a link whose place among them is not sent is the first.  *)
PutsBack(t) ==
    LET d == t.dev.irq.door
    IN  \/ d.part = "vector"
        \/ /\ d.part \in {"slot", "queue"}
           /\ \A l \in t.links :
                 LET v == RL_GET_VQ_ID(l, 0)
                 IN  /\ d.route[Doorbell(d, v)] = RL_GET_COM_ID(v)
                     /\ d.part = "queue" => RL_GEN_MU_MSG(v) = 0

(* The area set aside for a vring is at least VRING_SIZE.                   *)
RingsSetAside(t) ==
    \A r \in t.dev.ids.vrings : \A n \in DOMAIN r.room :
        /\ r.align \in Nat \ {0} /\ n \in Nat /\ r.room[n] \in Nat
        /\ VRING_SIZE(n, r.align) <= r.room[n]
===============================================================================
