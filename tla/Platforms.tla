------------------------------- MODULE Platforms -------------------------------
(***************************************************************************)
(* The vocabulary in which the platform layers are described               *)
(* (lib/rpmsg_lite/porting/platform/*/rpmsg_platform*.c and the headers of *)
(* lib/include/platform).  Every platform is four values:                  *)
(*                                                                         *)
(*   irq    what platform_notify leaves in the doorbell, what the handler  *)
(*          passes to env_isr, and what platform_init_interrupt and        *)
(*          platform_deinit_interrupt switch (a set: one record per build) *)
(*   mask   platform_interrupt_disable and platform_interrupt_enable       *)
(*   boot   platform_init and platform_deinit                              *)
(*   ids    the link ids of the header and the size of its vrings          *)
(*                                                                         *)
(* PlatformsImx and PlatformsMcu give the values of each file, Lifecycle   *)
(* gives them their meaning.                                               *)
(***************************************************************************)
EXTENDS Integers

(* A vector is a virtqueue id: link_id << 1 | q_id, and where several       *)
(* doorbells exist the upper bits of the link id are a com_id.              *)
RL_GET_VQ_ID(link, q) == 2 * link + q
RL_GET_LINK_ID(v)     == v \div 2
RL_GET_Q_ID(v)        == v % 2
RL_GET_COM_ID(v)      == v \div 8
RL_GEN_MU_MSG(v)      == v % 8     \* com_id is discarded in msg

-----------------------------------------------------------------------------
(* Doorbells.  "word": a message register, written when it is empty.        *)
(* "bits": general interrupt or mailbox bits, which accumulate.  "try": a   *)
(* driver that refuses a message while the last one is pending, which       *)
(* platform_notify does not look at.  "none": platform_notify does nothing. *)
(* part is the part of the vector that is sent, route the com_id that the   *)
(* handler of each doorbell puts back.  A managed doorbell belongs to the   *)
(* multicore manager, which has its interrupts enabled from the start.      *)
Door(bell, part, coms) ==
    [bell |-> bell, part |-> part, managed |-> FALSE, route |-> [c \in coms |-> c]]

Word(part, coms) == Door("word", part, coms)
Bits(coms)       == Door("bits", "queue", coms)
Tries(coms)      == Door("try", "queue", coms)
Silent           == Door("none", "queue", {0})

(* The doorbell a vector is rung on, the message, and the vector that the   *)
(* handler makes of a message.                                              *)
Doorbell(door, v) == IF DOMAIN door.route = {0} THEN 0 ELSE RL_GET_COM_ID(v)

Message(door, v) ==
    CASE door.part = "vector" -> v
      [] door.part = "slot"   -> RL_GEN_MU_MSG(v)
      [] door.part = "queue"  -> RL_GET_Q_ID(v)

Vector_nocom(door, c, m) == m                                       \* mutant
Vector(door, c, m) ==
    IF door.part = "vector" THEN m ELSE 8 * door.route[c] + m

-----------------------------------------------------------------------------
(* What platform_init_interrupt turns on while isr_counter < limit, and     *)
(* platform_deinit_interrupt turns off once isr_counter < limit again: the  *)
(* sources of both queues ("com"), of the one queue ("queue"), or the line  *)
(* of the interrupt controller ("line").  both: doorbells on which the two  *)
(* sources go together all the same.  back: what deinit adds to the counter.*)
Switch(on, off, limit) ==
    [on |-> on, off |-> off, limit |-> limit, both |-> {}, back |-> -1]

AtFirst       == Switch("com", "com", 1)
BelowTwo      == Switch("com", "com", 2)
QueueBelowTwo == Switch("queue", "queue", 2)
LineBelowTwo  == Switch("line", "line", 2)
LineAtLast    == Switch("none", "line", 1)
NoSwitch      == Switch("none", "none", 0)

(* platform_init_interrupt and platform_deinit_interrupt return -1 when     *)
(* there is no platform_lock (Checked), or take it for granted.             *)
Checked(door, switch) == [door |-> door, switch |-> switch, check |-> TRUE]
Assumed(door, switch) == [door |-> door, switch |-> switch, check |-> FALSE]

(* The builds of a file without and with RL_USE_MCMGR_IPC_ISR_HANDLER:      *)
(* in the second platform_notify triggers an event of the multicore manager *)
(* and its callback calls env_isr, whatever the sources say.                *)
Managed(irq, part) ==
    [irq EXCEPT !.door = [@ EXCEPT !.bell = "bits", !.part = part, !.managed = TRUE]]
OrEvent(irq, part) == {irq, Managed(irq, part)}

-----------------------------------------------------------------------------
(* Masks: how disable_counter and the interrupt line go together, and       *)
(* whether there is one counter, and one line, per core or per doorbell.    *)
Mask(nest, counter, line) == [nest |-> nest, counter |-> counter, line |-> line]

Outermost  == Mask("outermost", "core", "core") \* off at 0 -> 1, on at 1 -> 0
PerCom     == Mask("outermost", "com", "com")
SharedLine == Mask("outermost", "com", "core")
NeverOff   == Mask("raised", "com", "com")      \* tests the counter once raised
EachCall   == Mask("each", "core", "core")      \* whatever the counter says
AlwaysOn   == Mask("open", "core", "core")      \* ends with interrupts enabled

(* platform_init leaves the interrupt line on, or as it was, and may reset  *)
(* the doorbell; platform_deinit may spin until the other core has taken    *)
(* what it was sent.                                                        *)
LineOn  == [line |-> TRUE,  drains |-> FALSE, clears |-> FALSE]
LineOff == [line |-> FALSE, drains |-> FALSE, clears |-> FALSE]
Drains  == [line |-> FALSE, drains |-> TRUE,  clears |-> FALSE]
Resets  == [line |-> FALSE, drains |-> FALSE, clears |-> TRUE]

-----------------------------------------------------------------------------
(* Rings: VRING_SIZE is given, or is computed from RL_BUFFER_COUNT; align   *)
(* is VRING_ALIGN, count a set of values of RL_BUFFER_COUNT.                *)
Up(n, align) == ((n + align - 1) \div align) * align

(* sizeof: vring_desc 16, vring_avail 6, vring_used 12, vring_used_elem 8   *)
vring_size_padded(n, align) ==                                      \* mutant
    Up(16 * n + (6 + 2 * n + 2), align) + Up(12 + 8 * n + 2, align) + align
vring_size(n, align) ==
    Up(16 * n + (6 + 2 * n + 2), align) + (12 + 8 * n + 2)

VRING_SIZE(n, align) ==
    Up(16 * n, align) + Up(6 + 2 * n + 2, align) + Up(12 + 8 * n + 2, align)

Fixed(size, align, counts) ==
    [align |-> align, room |-> [n \in counts |-> size]]
Computed(align, counts) ==
    [align |-> align, room |-> [n \in counts |-> VRING_SIZE(n, align)]]

Linux == Fixed(32768, 4096, {2, 4, 256})        \* 0x8000, 0x1000
Small == Computed(16, {2, 4, 16, 256})          \* VRING_ALIGN 0x10

Ids(links, highest, isr_count, vrings) ==
    [links |-> links, highest |-> highest, isr_count |-> isr_count, vrings |-> vrings]

OneLink(vrings) == Ids({0}, 0, 32, {vrings})

(* A device for every build of a platform.                                  *)
Device(irqs, mask, boot, ids) ==
    {[irq |-> irq, mask |-> mask, boot |-> boot, ids |-> ids] : irq \in irqs}
===============================================================================
