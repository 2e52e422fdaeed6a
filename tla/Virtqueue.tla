------------------------------ MODULE Virtqueue -------------------------------
(***************************************************************************)
(* One vring between its driver (the master core) and its device (the      *)
(* remote core).  Each core may have at most one call in progress on each  *)
(* of the four ring ends; these are the ends that the VQUEUE_BUSY and      *)
(* VQUEUE_IDLE macros of virtqueue.h flag: avail_write and used_read on    *)
(* the driver's side, avail_read and used_write on the device's.  That     *)
(* callers respect this is the business of RpmsgLite; what the ring does   *)
(* when they do is the business of this module.                            *)
(***************************************************************************)
EXTENDS VirtqueueOps

VARIABLES
    vq,          \* the vring and both control blocks, see VirtqueueOps
    drv_held,    \* descriptors the driver holds: taken from used, not yet put in avail
    dev_held,    \* descriptors the device holds: taken from avail, not yet put in used
    avail_write, \* descriptor whose slot is written and index is not, or None
    used_write,  \* the same for the device and the used ring
    avail_read,  \* the device has seen avail->idx move and has not read the slot
    used_read    \* the driver has seen used->idx move and has not read the slot

vars == <<vq, drv_held, dev_held, avail_write, used_write, avail_read, used_read>>

None == -1

(* An rvq starts with every buffer available, a tvq with every buffer used. *)
Init ==
    /\ vq \in {filled_avail, filled_used}
    /\ drv_held = {}
    /\ dev_held = {}
    /\ avail_write = None
    /\ used_write = None
    /\ avail_read = FALSE
    /\ used_read = FALSE

-----------------------------------------------------------------------------
(* virtqueue_add_buffer: the driver returns d to the device. *)

AddBufferSlot(d) ==
    /\ avail_write = None
    /\ d \in drv_held
    /\ vq' = update_avail_slot(vq, d)
    /\ avail_write' = d
    /\ UNCHANGED <<drv_held, dev_held, used_write, avail_read, used_read>>

AddBufferIdx ==
    /\ avail_write # None
    /\ vq' = update_avail_idx(vq)
    /\ drv_held' = drv_held \ {avail_write}
    /\ avail_write' = None
    /\ UNCHANGED <<dev_held, used_write, avail_read, used_read>>

(* virtqueue_get_buffer: the driver takes the oldest used descriptor. *)

GetBufferCheck ==
    /\ ~used_read
    /\ used_pending(vq)
    /\ used_read' = TRUE
    /\ UNCHANGED <<vq, drv_held, dev_held, avail_write, used_write, avail_read>>

GetBufferTake ==
    /\ used_read
    /\ drv_held' = drv_held \union {used_head(vq)}
    /\ vq' = consume_used(vq)
    /\ used_read' = FALSE
    /\ UNCHANGED <<dev_held, avail_write, used_write, avail_read>>

(* virtqueue_add_consumed_buffer: the device returns d to the driver. *)

AddConsumedSlot(d) ==
    /\ used_write = None
    /\ d \in dev_held
    /\ vq' = update_used_slot(vq, d)
    /\ used_write' = d
    /\ UNCHANGED <<drv_held, dev_held, avail_write, avail_read, used_read>>

AddConsumedIdx ==
    /\ used_write # None
    /\ vq' = update_used_idx(vq)
    /\ dev_held' = dev_held \ {used_write}
    /\ used_write' = None
    /\ UNCHANGED <<drv_held, avail_write, avail_read, used_read>>

(* virtqueue_get_available_buffer: the device takes the oldest available one. *)

GetAvailableCheck ==
    /\ ~avail_read
    /\ avail_pending(vq)
    /\ avail_read' = TRUE
    /\ UNCHANGED <<vq, drv_held, dev_held, avail_write, used_write, used_read>>

GetAvailableTake ==
    /\ avail_read
    /\ dev_held' = dev_held \union {avail_head(vq)}
    /\ vq' = consume_avail(vq)
    /\ avail_read' = FALSE
    /\ UNCHANGED <<drv_held, avail_write, used_write, used_read>>

Next ==
    \/ \E d \in Desc : AddBufferSlot(d)
    \/ AddBufferIdx
    \/ GetBufferCheck
    \/ GetBufferTake
    \/ \E d \in Desc : AddConsumedSlot(d)
    \/ AddConsumedIdx
    \/ GetAvailableCheck
    \/ GetAvailableTake

Spec == Init /\ [][Next]_vars

-----------------------------------------------------------------------------
(* The indices stay in 16 bits, the slots hold descriptor numbers.          *)
TypeOK ==
    /\ vq \in Vq
    /\ drv_held \in SUBSET Desc
    /\ dev_held \in SUBSET Desc
    /\ avail_write \in Desc \union {None}
    /\ used_write \in Desc \union {None}
    /\ avail_read \in BOOLEAN
    /\ used_read \in BOOLEAN

AvailSeq == AvailWindow(vq)
UsedSeq  == UsedWindow(vq)

(* No buffer is in two hands: the entries of the two windows and the sets   *)
(* held by the two cores do not overlap, and no ring lists one twice.       *)
Exclusive ==
    /\ NoRepeat(AvailSeq)
    /\ NoRepeat(UsedSeq)
    /\ Entries(AvailSeq) \intersect Entries(UsedSeq) = {}
    /\ Entries(AvailSeq) \intersect drv_held = {}
    /\ Entries(AvailSeq) \intersect dev_held = {}
    /\ Entries(UsedSeq) \intersect drv_held = {}
    /\ Entries(UsedSeq) \intersect dev_held = {}
    /\ drv_held \intersect dev_held = {}

(* No buffer is lost. *)
Conserved ==
    Entries(AvailSeq) \union Entries(UsedSeq) \union drv_held \union dev_held = Desc

(* Every buffer of the vring is in exactly one place, at every point of     *)
(* every interleaving of the four ring ends, index wrap included.           *)
Ownership == Exclusive /\ Conserved

(* The assertion of virtqueue_nused, "used more than available": neither    *)
(* ring ever has more entries outstanding than it has slots.                *)
NoOverrun ==
    /\ Distance(vq.vq_used_cons_idx, vq.used_idx) <= N
    /\ Distance(vq.vq_available_idx, vq.avail_idx) <= N

(* A put in progress has its descriptor in the first unpublished slot; a    *)
(* take in progress has something to take.                                  *)
InProgress ==
    /\ avail_write # None =>
         avail_write \in drv_held /\ vq.avail_ring[SlotOf(vq.avail_idx)] = avail_write
    /\ used_write # None =>
         used_write \in dev_held /\ vq.used_ring[SlotOf(vq.used_idx)] = used_write
    /\ avail_read => avail_pending(vq)
    /\ used_read => used_pending(vq)

(* The inductive invariant of the proofs. *)
IInv == TypeOK /\ Ownership /\ InProgress

(* The vring implements two FIFO queues: the slot writes are invisible, the *)
(* index updates are the abstract puts and takes, in order.                 *)
Fifo == INSTANCE VirtqueueFifo WITH avail <- AvailSeq, used <- UsedSeq

ImplementsFifo == Fifo!Spec
=============================================================================
