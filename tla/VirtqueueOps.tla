----------------------------- MODULE VirtqueueOps -----------------------------
(***************************************************************************)
(* The virtqueue functions of lib/virtio/virtqueue.c as operators on the   *)
(* record that stands for one struct virtqueue pair: the vring in shared   *)
(* memory (avail and used rings with their free-running indices) and the   *)
(* two private consumer indices, vq_available_idx of the device's control  *)
(* block and vq_used_cons_idx of the driver's.                             *)
(*                                                                         *)
(* The driver (master) puts descriptors into the avail ring and takes them *)
(* out of the used ring; the device (remote) does the converse.  Putting a *)
(* descriptor is two writes separated by env_wmb(): first the slot, then   *)
(* the index that publishes it.                                            *)
(*                                                                         *)
(* Buffer addresses and lengths are left out: the descriptor table is      *)
(* written once by the master and a buffer is identified by its index.     *)
(***************************************************************************)
EXTENDS Integers

CONSTANTS
    N,          \* vq_nentries, a power of two: ring size and number of buffers
    IdxMod      \* the indices are uint16_t: 2^16 in the code

(* vq_nentries divides 2^16, and is at most 2^15 because it is a uint16_t.  *)
ASSUME SizeAssumption ==
    /\ N \in Nat \ {0}
    /\ IdxMod \in Nat
    /\ IdxMod >= 2 * N
    /\ IdxMod % N = 0

Desc == 0..(N - 1)          \* descriptor (buffer) numbers
Slot == 0..(N - 1)          \* positions in avail->ring and used->ring
Idx  == 0..(IdxMod - 1)     \* values of a free-running index

Vq == [ avail_idx        : Idx,
        avail_ring       : [Slot -> Desc],
        used_idx         : Idx,
        used_ring        : [Slot -> Desc],
        vq_available_idx : Idx,
        vq_used_cons_idx : Idx ]

(* idx & (vq_nentries - 1) *)
SlotOf(i) == i % N

(* idx++ on a uint16_t *)
IncIdxNoWrap(i) == i + 1                                            \* mutant
IncIdx(i) == (i + 1) % IdxMod

(* How many entries lie between a consumer's index and the published one.  *)
Distance(from, to) == (to - from) % IdxMod

-----------------------------------------------------------------------------
(* Driver side *)

update_avail_next_slot(vq, d) ==                                    \* mutant
    [vq EXCEPT !.avail_ring[SlotOf(vq.avail_idx + 1)] = d]
update_avail_slot(vq, d) == [vq EXCEPT !.avail_ring[SlotOf(vq.avail_idx)] = d]
update_avail_idx(vq) == [vq EXCEPT !.avail_idx = IncIdx(@)]

(* virtqueue_get_buffer: nothing when the index has caught up, otherwise    *)
(* the next descriptor of the used ring.                                    *)
used_maybe_pending(vq) == TRUE                                      \* mutant
used_pending(vq) == vq.vq_used_cons_idx # vq.used_idx
used_head(vq) == vq.used_ring[SlotOf(vq.vq_used_cons_idx)]
consume_used(vq) == [vq EXCEPT !.vq_used_cons_idx = IncIdx(@)]

(* Device side *)

update_used_next_slot(vq, d) ==                                     \* mutant
    [vq EXCEPT !.used_ring[SlotOf(vq.used_idx + 1)] = d]
update_used_slot(vq, d) == [vq EXCEPT !.used_ring[SlotOf(vq.used_idx)] = d]
update_used_idx(vq) == [vq EXCEPT !.used_idx = IncIdx(@)]

(* virtqueue_get_available_buffer, the same on the avail ring. *)
avail_pending(vq) == vq.vq_available_idx # vq.avail_idx
avail_next(vq) == vq.avail_ring[SlotOf(vq.vq_available_idx + 1)]    \* mutant
avail_head(vq) == vq.avail_ring[SlotOf(vq.vq_available_idx)]
consume_avail(vq) == [vq EXCEPT !.vq_available_idx = IncIdx(@)]

-----------------------------------------------------------------------------
(* The published entries a consumer has not taken yet, oldest first.        *)
Window(ring, from, to) ==
    [i \in 1..Distance(from, to) |-> ring[SlotOf(from + (i - 1))]]

AvailWindow(vq) == Window(vq.avail_ring, vq.vq_available_idx, vq.avail_idx)
UsedWindow(vq)  == Window(vq.used_ring, vq.vq_used_cons_idx, vq.used_idx)

(* What a window lists, and that it lists nothing twice.                    *)
Entries(s) == {s[i] : i \in DOMAIN s}
NoRepeat(s) == \A i, j \in DOMAIN s : s[i] = s[j] => i = j

-----------------------------------------------------------------------------
(* What rpmsg_lite_master_init leaves in a vring it has zeroed.             *)

(* rvq: virtqueue_fill_avail_buffers(d) for every d in turn.                *)
filled_avail ==
    [ avail_idx        |-> N,
      avail_ring       |-> [s \in Slot |-> s],
      used_idx         |-> 0,
      used_ring        |-> [s \in Slot |-> 0],
      vq_available_idx |-> 0,
      vq_used_cons_idx |-> 0 ]

(* tvq: virtqueue_fill_used_buffers(d) for every d in turn.                 *)
filled_used ==
    [ avail_idx        |-> 0,
      avail_ring       |-> [s \in Slot |-> 0],
      used_idx         |-> N,
      used_ring        |-> [s \in Slot |-> s],
      vq_available_idx |-> 0,
      vq_used_cons_idx |-> 0 ]
=============================================================================
