--------------------------- MODULE VirtqueueProofs ----------------------------
(***************************************************************************)
(* Proofs about Virtqueue, for every ring size N and every index modulus   *)
(* that is a multiple of N and at least 2 * N.                             *)
(*                                                                         *)
(* The argument: while a core holds a buffer, the ring it will put it into *)
(* has a free slot (LEMMA RoomForOne, by counting), so the slot at the     *)
(* published index lies outside the window of unread entries (LEMMA        *)
(* WindowWrite) and publishing it appends to the window (WindowPublish);   *)
(* reading removes the head (WindowConsume).  With this, each step moves   *)
(* at most one buffer from one place to another.  The lemmas named are in  *)
(* VirtqueueOpsProofs.                                                     *)
(***************************************************************************)
EXTENDS Virtqueue, VirtqueueOpsProofs

-----------------------------------------------------------------------------
(* What each action does to the two windows *)

(* The windows of a well-typed vring are sequences of descriptors. *)
LEMMA SeqTypes ==
    ASSUME TypeOK
    PROVE  /\ vq.avail_ring \in [Slot -> Desc] /\ vq.used_ring \in [Slot -> Desc]
           /\ vq.avail_idx \in Idx /\ vq.vq_available_idx \in Idx
           /\ vq.used_idx \in Idx /\ vq.vq_used_cons_idx \in Idx
           /\ AvailSeq \in Seq(Desc) /\ UsedSeq \in Seq(Desc)
           /\ Len(AvailSeq) = Distance(vq.vq_available_idx, vq.avail_idx)
           /\ Len(UsedSeq) = Distance(vq.vq_used_cons_idx, vq.used_idx)
  <1>1. /\ vq.avail_ring \in [Slot -> Desc] /\ vq.used_ring \in [Slot -> Desc]
        /\ vq.avail_idx \in Idx /\ vq.vq_available_idx \in Idx
        /\ vq.used_idx \in Idx /\ vq.vq_used_cons_idx \in Idx
    BY DEF TypeOK, Vq
  <1>2. /\ Window(vq.avail_ring, vq.vq_available_idx, vq.avail_idx) \in Seq(Desc)
        /\ Len(Window(vq.avail_ring, vq.vq_available_idx, vq.avail_idx))
             = Distance(vq.vq_available_idx, vq.avail_idx)
    BY <1>1, WindowType
  <1>3. /\ Window(vq.used_ring, vq.vq_used_cons_idx, vq.used_idx) \in Seq(Desc)
        /\ Len(Window(vq.used_ring, vq.vq_used_cons_idx, vq.used_idx))
             = Distance(vq.vq_used_cons_idx, vq.used_idx)
    BY <1>1, WindowType
  <1> QED
    BY <1>1, <1>2, <1>3 DEF AvailSeq, UsedSeq, AvailWindow, UsedWindow

(* A core that holds a buffer finds a free slot in the ring it puts it in. *)
LEMMA Room ==
    ASSUME TypeOK, Ownership
    PROVE  /\ drv_held # {} => Distance(vq.vq_available_idx, vq.avail_idx) < N
           /\ dev_held # {} => Distance(vq.vq_used_cons_idx, vq.used_idx) < N
  <1>1. ASSUME drv_held # {}
        PROVE  Len(AvailSeq) < N
    <2>1. PICK d \in drv_held : d \in Desc /\ d \notin Entries(AvailSeq)
      BY <1>1 DEF TypeOK, Ownership, Exclusive
    <2> QED
      BY <2>1, SeqTypes, RoomForOne DEF Ownership, Exclusive
  <1>2. ASSUME dev_held # {}
        PROVE  Len(UsedSeq) < N
    <2>1. PICK d \in dev_held : d \in Desc /\ d \notin Entries(UsedSeq)
      BY <1>2 DEF TypeOK, Ownership, Exclusive
    <2> QED
      BY <2>1, SeqTypes, RoomForOne DEF Ownership, Exclusive
  <1> QED
    BY <1>1, <1>2, SeqTypes

(* virtqueue_add_buffer, slot write: nothing visible. *)
LEMMA AddBufferSlotEffect ==
    ASSUME IInv, NEW d \in Desc, AddBufferSlot(d)
    PROVE  /\ AvailSeq' = AvailSeq /\ UsedSeq' = UsedSeq
           /\ vq' \in Vq
           /\ vq'.avail_idx = vq.avail_idx
           /\ vq'.avail_ring[SlotOf(vq.avail_idx)] = d
           /\ vq'.used_idx = vq.used_idx /\ vq'.used_ring = vq.used_ring
           /\ vq'.vq_available_idx = vq.vq_available_idx
           /\ vq'.vq_used_cons_idx = vq.vq_used_cons_idx
  <1> USE DEF IInv
  <1>1. /\ vq' = [vq EXCEPT !.avail_ring = [vq.avail_ring EXCEPT ![SlotOf(vq.avail_idx)] = d]]
        /\ d \in drv_held
    BY DEF AddBufferSlot, update_avail_slot
  <1>2. SlotOf(vq.avail_idx) \in Slot
    BY SeqTypes, IndexFacts
  <1>3. /\ vq' \in Vq
        /\ vq'.avail_ring = [vq.avail_ring EXCEPT ![SlotOf(vq.avail_idx)] = d]
        /\ vq'.avail_idx = vq.avail_idx
        /\ vq'.used_idx = vq.used_idx /\ vq'.used_ring = vq.used_ring
        /\ vq'.vq_available_idx = vq.vq_available_idx
        /\ vq'.vq_used_cons_idx = vq.vq_used_cons_idx
    BY <1>1, <1>2, SeqTypes DEF TypeOK, Vq
  <1>4. AvailSeq' = AvailSeq
    <2>1. Distance(vq.vq_available_idx, vq.avail_idx) < N
      BY <1>1, Room
    <2>2. Window([vq.avail_ring EXCEPT ![SlotOf(vq.avail_idx)] = d],
                 vq.vq_available_idx, vq.avail_idx)
            = Window(vq.avail_ring, vq.vq_available_idx, vq.avail_idx)
      BY <2>1, SeqTypes, WindowWrite
    <2> QED
      BY <1>3, <2>2 DEF AvailSeq, AvailWindow
  <1>5. UsedSeq' = UsedSeq
    BY <1>3 DEF UsedSeq, UsedWindow
  <1> QED
    BY <1>2, <1>3, <1>4, <1>5, SeqTypes

(* virtqueue_add_buffer, index update: the buffer joins the avail ring. *)
LEMMA AddBufferIdxEffect ==
    ASSUME IInv, AddBufferIdx
    PROVE  /\ avail_write \in drv_held /\ avail_write \in Desc
           /\ AvailSeq' = Append(AvailSeq, avail_write) /\ UsedSeq' = UsedSeq
           /\ vq' \in Vq
           /\ vq'.avail_idx = IncIdx(vq.avail_idx) /\ vq'.avail_ring = vq.avail_ring
           /\ vq'.used_idx = vq.used_idx /\ vq'.used_ring = vq.used_ring
           /\ vq'.vq_available_idx = vq.vq_available_idx
           /\ vq'.vq_used_cons_idx = vq.vq_used_cons_idx
  <1> USE DEF IInv
  <1>1. /\ vq' = [vq EXCEPT !.avail_idx = IncIdx(vq.avail_idx)]
        /\ avail_write # None
    BY DEF AddBufferIdx, update_avail_idx
  <1>2. /\ avail_write \in drv_held /\ avail_write \in Desc
        /\ vq.avail_ring[SlotOf(vq.avail_idx)] = avail_write
    BY <1>1 DEF InProgress, TypeOK
  <1>3. IncIdx(vq.avail_idx) \in Idx
    BY SeqTypes, IndexFacts
  <1>4. /\ vq' \in Vq
        /\ vq'.avail_idx = IncIdx(vq.avail_idx) /\ vq'.avail_ring = vq.avail_ring
        /\ vq'.used_idx = vq.used_idx /\ vq'.used_ring = vq.used_ring
        /\ vq'.vq_available_idx = vq.vq_available_idx
        /\ vq'.vq_used_cons_idx = vq.vq_used_cons_idx
    BY <1>1, <1>3 DEF TypeOK, Vq
  <1>5. Distance(vq.vq_available_idx, vq.avail_idx) < N
    BY <1>2, Room
  <1>6. AvailSeq' = Append(AvailSeq, avail_write)
    BY <1>2, <1>4, <1>5, SeqTypes, WindowPublish DEF AvailSeq, AvailWindow
  <1>7. UsedSeq' = UsedSeq
    BY <1>4 DEF UsedSeq, UsedWindow
  <1> QED
    BY <1>2, <1>4, <1>6, <1>7

(* virtqueue_get_buffer: the driver takes the head of the used ring. *)
LEMMA GetBufferTakeEffect ==
    ASSUME IInv, GetBufferTake
    PROVE  /\ UsedSeq # << >> /\ used_head(vq) = Head(UsedSeq)
           /\ UsedSeq' = Tail(UsedSeq) /\ AvailSeq' = AvailSeq
           /\ vq' \in Vq
           /\ vq'.avail_idx = vq.avail_idx /\ vq'.avail_ring = vq.avail_ring
           /\ vq'.used_idx = vq.used_idx /\ vq'.used_ring = vq.used_ring
           /\ vq'.vq_available_idx = vq.vq_available_idx
  <1> USE DEF IInv
  <1>1. /\ vq' = [vq EXCEPT !.vq_used_cons_idx = IncIdx(vq.vq_used_cons_idx)]
        /\ used_read
    BY DEF GetBufferTake, consume_used
  <1>2. vq.vq_used_cons_idx # vq.used_idx
    BY <1>1 DEF InProgress, used_pending
  <1>3. IncIdx(vq.vq_used_cons_idx) \in Idx
    BY SeqTypes, IndexFacts
  <1>4. /\ vq' \in Vq
        /\ vq'.vq_used_cons_idx = IncIdx(vq.vq_used_cons_idx)
        /\ vq'.avail_idx = vq.avail_idx /\ vq'.avail_ring = vq.avail_ring
        /\ vq'.used_idx = vq.used_idx /\ vq'.used_ring = vq.used_ring
        /\ vq'.vq_available_idx = vq.vq_available_idx
    BY <1>1, <1>3 DEF TypeOK, Vq
  <1>5. /\ UsedSeq # << >> /\ used_head(vq) = Head(UsedSeq)
        /\ UsedSeq' = Tail(UsedSeq)
    BY <1>2, <1>4, SeqTypes, WindowConsume DEF UsedSeq, UsedWindow, used_head
  <1>6. AvailSeq' = AvailSeq
    BY <1>4 DEF AvailSeq, AvailWindow
  <1> QED
    BY <1>4, <1>5, <1>6
(* virtqueue_add_consumed_buffer, slot write: nothing visible. *)
LEMMA AddConsumedSlotEffect ==
    ASSUME IInv, NEW d \in Desc, AddConsumedSlot(d)
    PROVE  /\ UsedSeq' = UsedSeq /\ AvailSeq' = AvailSeq
           /\ vq' \in Vq
           /\ vq'.used_idx = vq.used_idx
           /\ vq'.used_ring[SlotOf(vq.used_idx)] = d
           /\ vq'.avail_idx = vq.avail_idx /\ vq'.avail_ring = vq.avail_ring
           /\ vq'.vq_used_cons_idx = vq.vq_used_cons_idx
           /\ vq'.vq_available_idx = vq.vq_available_idx
  <1> USE DEF IInv
  <1>1. /\ vq' = [vq EXCEPT !.used_ring = [vq.used_ring EXCEPT ![SlotOf(vq.used_idx)] = d]]
        /\ d \in dev_held
    BY DEF AddConsumedSlot, update_used_slot
  <1>2. SlotOf(vq.used_idx) \in Slot
    BY SeqTypes, IndexFacts
  <1>3. /\ vq' \in Vq
        /\ vq'.used_ring = [vq.used_ring EXCEPT ![SlotOf(vq.used_idx)] = d]
        /\ vq'.used_idx = vq.used_idx
        /\ vq'.avail_idx = vq.avail_idx /\ vq'.avail_ring = vq.avail_ring
        /\ vq'.vq_used_cons_idx = vq.vq_used_cons_idx
        /\ vq'.vq_available_idx = vq.vq_available_idx
    BY <1>1, <1>2, SeqTypes DEF TypeOK, Vq
  <1>4. UsedSeq' = UsedSeq
    <2>1. Distance(vq.vq_used_cons_idx, vq.used_idx) < N
      BY <1>1, Room
    <2>2. Window([vq.used_ring EXCEPT ![SlotOf(vq.used_idx)] = d],
                 vq.vq_used_cons_idx, vq.used_idx)
            = Window(vq.used_ring, vq.vq_used_cons_idx, vq.used_idx)
      BY <2>1, SeqTypes, WindowWrite
    <2> QED
      BY <1>3, <2>2 DEF UsedSeq, UsedWindow
  <1>5. AvailSeq' = AvailSeq
    BY <1>3 DEF AvailSeq, AvailWindow
  <1> QED
    BY <1>2, <1>3, <1>4, <1>5, SeqTypes

(* virtqueue_add_consumed_buffer, index update: the buffer joins the used ring. *)
LEMMA AddConsumedIdxEffect ==
    ASSUME IInv, AddConsumedIdx
    PROVE  /\ used_write \in dev_held /\ used_write \in Desc
           /\ UsedSeq' = Append(UsedSeq, used_write) /\ AvailSeq' = AvailSeq
           /\ vq' \in Vq
           /\ vq'.used_idx = IncIdx(vq.used_idx) /\ vq'.used_ring = vq.used_ring
           /\ vq'.avail_idx = vq.avail_idx /\ vq'.avail_ring = vq.avail_ring
           /\ vq'.vq_used_cons_idx = vq.vq_used_cons_idx
           /\ vq'.vq_available_idx = vq.vq_available_idx
  <1> USE DEF IInv
  <1>1. /\ vq' = [vq EXCEPT !.used_idx = IncIdx(vq.used_idx)]
        /\ used_write # None
    BY DEF AddConsumedIdx, update_used_idx
  <1>2. /\ used_write \in dev_held /\ used_write \in Desc
        /\ vq.used_ring[SlotOf(vq.used_idx)] = used_write
    BY <1>1 DEF InProgress, TypeOK
  <1>3. IncIdx(vq.used_idx) \in Idx
    BY SeqTypes, IndexFacts
  <1>4. /\ vq' \in Vq
        /\ vq'.used_idx = IncIdx(vq.used_idx) /\ vq'.used_ring = vq.used_ring
        /\ vq'.avail_idx = vq.avail_idx /\ vq'.avail_ring = vq.avail_ring
        /\ vq'.vq_used_cons_idx = vq.vq_used_cons_idx
        /\ vq'.vq_available_idx = vq.vq_available_idx
    BY <1>1, <1>3 DEF TypeOK, Vq
  <1>5. Distance(vq.vq_used_cons_idx, vq.used_idx) < N
    BY <1>2, Room
  <1>6. UsedSeq' = Append(UsedSeq, used_write)
    BY <1>2, <1>4, <1>5, SeqTypes, WindowPublish DEF UsedSeq, UsedWindow
  <1>7. AvailSeq' = AvailSeq
    BY <1>4 DEF AvailSeq, AvailWindow
  <1> QED
    BY <1>2, <1>4, <1>6, <1>7

(* virtqueue_get_available_buffer: the device takes the head of the avail ring. *)
LEMMA GetAvailableTakeEffect ==
    ASSUME IInv, GetAvailableTake
    PROVE  /\ AvailSeq # << >> /\ avail_head(vq) = Head(AvailSeq)
           /\ AvailSeq' = Tail(AvailSeq) /\ UsedSeq' = UsedSeq
           /\ vq' \in Vq
           /\ vq'.used_idx = vq.used_idx /\ vq'.used_ring = vq.used_ring
           /\ vq'.avail_idx = vq.avail_idx /\ vq'.avail_ring = vq.avail_ring
           /\ vq'.vq_used_cons_idx = vq.vq_used_cons_idx
  <1> USE DEF IInv
  <1>1. /\ vq' = [vq EXCEPT !.vq_available_idx = IncIdx(vq.vq_available_idx)]
        /\ avail_read
    BY DEF GetAvailableTake, consume_avail
  <1>2. vq.vq_available_idx # vq.avail_idx
    BY <1>1 DEF InProgress, avail_pending
  <1>3. IncIdx(vq.vq_available_idx) \in Idx
    BY SeqTypes, IndexFacts
  <1>4. /\ vq' \in Vq
        /\ vq'.vq_available_idx = IncIdx(vq.vq_available_idx)
        /\ vq'.used_idx = vq.used_idx /\ vq'.used_ring = vq.used_ring
        /\ vq'.avail_idx = vq.avail_idx /\ vq'.avail_ring = vq.avail_ring
        /\ vq'.vq_used_cons_idx = vq.vq_used_cons_idx
    BY <1>1, <1>3 DEF TypeOK, Vq
  <1>5. /\ AvailSeq # << >> /\ avail_head(vq) = Head(AvailSeq)
        /\ AvailSeq' = Tail(AvailSeq)
    BY <1>2, <1>4, SeqTypes, WindowConsume DEF AvailSeq, AvailWindow, avail_head
  <1>6. UsedSeq' = UsedSeq
    BY <1>4 DEF UsedSeq, UsedWindow
  <1> QED
    BY <1>4, <1>5, <1>6

-----------------------------------------------------------------------------
(* The inductive invariant *)

(* The two starting points of a vring, seen as sequences. *)
LEMMA InitSeqs ==
    ASSUME Init
    PROVE  /\ vq \in Vq
           /\ \/ AvailSeq = [i \in 1..N |-> i - 1] /\ UsedSeq = << >>
              \/ AvailSeq = << >> /\ UsedSeq = [i \in 1..N |-> i - 1]
  <1> DEFINE ring == [i \in Slot |-> i]
             zero == [i \in Slot |-> 0]
  <1>1. ring \in [Slot -> Desc] /\ zero \in [Slot -> Desc]
    BY SizeAssumption DEF Slot, Desc
  <1>2. /\ Window(ring, 0, N) = [i \in 1..N |-> i - 1]
        /\ Window(zero, 0, 0) = << >>
        /\ 0 \in Idx /\ N \in Idx
    BY <1>1, InitWindows
  <1>3. CASE vq = filled_avail
    <2>1. /\ vq.avail_ring = ring /\ vq.used_ring = zero
          /\ vq.avail_idx = N /\ vq.vq_available_idx = 0
          /\ vq.used_idx = 0 /\ vq.vq_used_cons_idx = 0
      BY <1>3 DEF filled_avail
    <2>2. vq \in Vq
      BY <1>1, <1>2, <1>3 DEF filled_avail, Vq
    <2> HIDE DEF ring, zero
    <2> QED
      BY <1>2, <2>1, <2>2 DEF AvailSeq, UsedSeq, AvailWindow, UsedWindow
  <1>4. CASE vq = filled_used
    <2>1. /\ vq.avail_ring = zero /\ vq.used_ring = ring
          /\ vq.avail_idx = 0 /\ vq.vq_available_idx = 0
          /\ vq.used_idx = N /\ vq.vq_used_cons_idx = 0
      BY <1>4 DEF filled_used
    <2>2. vq \in Vq
      BY <1>1, <1>2, <1>4 DEF filled_used, Vq
    <2> HIDE DEF ring, zero
    <2> QED
      BY <1>2, <2>1, <2>2 DEF AvailSeq, UsedSeq, AvailWindow, UsedWindow
  <1> QED
    BY <1>3, <1>4 DEF Init

(* The invariant holds when master_init has filled the ring. *)
LEMMA InitIInv == Init => IInv
  <1> SUFFICES ASSUME Init PROVE IInv
    OBVIOUS
  <1> DEFINE all == [i \in 1..N |-> i - 1]
  <1>1. N \in Nat \ {0}
    BY SizeAssumption
  <1>2. DOMAIN all = 1..N /\ \A i \in 1..N : all[i] = i - 1
    OBVIOUS
  <1>3. NoRepeat(all)
    BY <1>1, <1>2 DEF NoRepeat
  <1>4. Entries(all) = Desc
    <2>1. \A x \in Desc : x + 1 \in 1..N /\ all[x + 1] = x
      BY <1>1 DEF Desc
    <2>2. \A i \in 1..N : all[i] \in Desc
      BY <1>1 DEF Desc
    <2> QED
      BY <1>2, <2>1, <2>2 DEF Entries
  <1>5. Entries(<< >>) = {} /\ NoRepeat(<< >>)
    BY DEF Entries, NoRepeat
  <1> HIDE DEF all
  <1>6. TypeOK
    BY InitSeqs DEF Init, TypeOK
  <1>7. \/ AvailSeq = all /\ UsedSeq = << >>
        \/ AvailSeq = << >> /\ UsedSeq = all
    BY InitSeqs DEF all
  <1>8. Ownership
    BY <1>3, <1>4, <1>5, <1>7 DEF Ownership, Exclusive, Conserved, Init
  <1>9. InProgress
    BY DEF Init, InProgress
  <1> QED
    BY <1>6, <1>8, <1>9 DEF IInv

(* Every step keeps it. *)
LEMMA NextIInv == IInv /\ [Next]_vars => IInv'
  <1> SUFFICES ASSUME IInv, [Next]_vars PROVE IInv'
    OBVIOUS
  <1>0. TypeOK /\ Ownership /\ InProgress
    BY DEF IInv
  <1> USE <1>0
  <1>1. CASE \E d \in Desc : AddBufferSlot(d)
    <2> PICK d \in Desc : AddBufferSlot(d)
      BY <1>1
    <2>1. AvailSeq' = AvailSeq /\ UsedSeq' = UsedSeq /\ vq' \in Vq
      BY AddBufferSlotEffect DEF IInv
    <2>2. TypeOK'
      BY <2>1 DEF AddBufferSlot, TypeOK
    <2>3. Ownership'
      BY <2>1 DEF AddBufferSlot, Ownership, Exclusive, Conserved
    <2>4. InProgress'
      BY AddBufferSlotEffect DEF AddBufferSlot, InProgress, used_pending, avail_pending
    <2> QED
      BY <2>2, <2>3, <2>4 DEF IInv
  <1>2. CASE AddBufferIdx
    <2>1. /\ avail_write \in drv_held /\ avail_write \in Desc
          /\ AvailSeq' = Append(AvailSeq, avail_write) /\ UsedSeq' = UsedSeq /\ vq' \in Vq
      BY <1>2, AddBufferIdxEffect DEF IInv
    <2>2. avail_write \notin Entries(AvailSeq)
      BY <2>1 DEF Ownership, Exclusive
    <2>3. /\ Entries(AvailSeq') = Entries(AvailSeq) \union {avail_write}
          /\ NoRepeat(AvailSeq')
      BY <2>1, <2>2, SeqTypes, AppendEntries DEF Ownership, Exclusive
    <2>4. drv_held' = drv_held \ {avail_write} /\ dev_held' = dev_held
      BY <1>2 DEF AddBufferIdx
    <2>5. TypeOK'
      BY <1>2, <2>1, <2>4 DEF AddBufferIdx, TypeOK
    <2>6. Ownership'
      BY <2>1, <2>2, <2>3, <2>4 DEF Ownership, Exclusive, Conserved
    <2>7. avail_pending(vq)'
      <3>1. /\ AvailSeq' \in Seq(Desc) /\ AvailSeq' # << >>
        BY <2>1, SeqTypes
      <3>a. /\ vq'.avail_ring \in [Slot -> Desc]
            /\ vq'.vq_available_idx \in Idx /\ vq'.avail_idx \in Idx
        BY <2>1 DEF Vq
      <3>b. AvailSeq' = Window(vq'.avail_ring, vq'.vq_available_idx, vq'.avail_idx)
        BY DEF AvailSeq, AvailWindow
      <3>2. Len(AvailSeq') = Distance(vq'.vq_available_idx, vq'.avail_idx)
        BY <3>a, <3>b, WindowType
      <3>3. Distance(vq'.vq_available_idx, vq'.avail_idx) >= 1
        BY <3>1, <3>2
      <3> QED
        BY <3>a, <3>3, IndexFacts DEF avail_pending
    <2>8. InProgress'
      BY <1>2, <2>4, <2>7, AddBufferIdxEffect DEF AddBufferIdx, InProgress, used_pending, avail_pending
    <2> QED
      BY <2>5, <2>6, <2>8 DEF IInv
  <1>3. CASE GetBufferCheck
    <2>1. AvailSeq' = AvailSeq /\ UsedSeq' = UsedSeq
      BY <1>3 DEF GetBufferCheck, AvailSeq, UsedSeq
    <2> QED
      BY <1>3, <2>1 DEF GetBufferCheck, IInv, TypeOK, Ownership, Exclusive, Conserved,
         InProgress, used_pending, avail_pending
  <1>4. CASE GetBufferTake
    <2>1. /\ UsedSeq # << >> /\ used_head(vq) = Head(UsedSeq)
          /\ UsedSeq' = Tail(UsedSeq) /\ AvailSeq' = AvailSeq /\ vq' \in Vq
      BY <1>4, GetBufferTakeEffect DEF IInv
    <2>2. /\ Head(UsedSeq) \in Entries(UsedSeq)
          /\ Entries(UsedSeq') = Entries(UsedSeq) \ {Head(UsedSeq)}
          /\ NoRepeat(UsedSeq')
      BY <2>1, SeqTypes, TailEntries DEF Ownership, Exclusive
    <2>3. drv_held' = drv_held \union {Head(UsedSeq)} /\ dev_held' = dev_held
      BY <1>4, <2>1 DEF GetBufferTake
    <2>4. Head(UsedSeq) \in Desc
      BY <2>1, SeqTypes
    <2>5. TypeOK'
      BY <1>4, <2>1, <2>3, <2>4 DEF GetBufferTake, TypeOK
    <2>6. Ownership'
      BY <2>1, <2>2, <2>3 DEF Ownership, Exclusive, Conserved
    <2>7. InProgress'
      BY <1>4, <2>3, GetBufferTakeEffect DEF GetBufferTake, InProgress, used_pending, avail_pending
    <2> QED
      BY <2>5, <2>6, <2>7 DEF IInv
  <1>5. CASE \E d \in Desc : AddConsumedSlot(d)
    <2> PICK d \in Desc : AddConsumedSlot(d)
      BY <1>5
    <2>1. AvailSeq' = AvailSeq /\ UsedSeq' = UsedSeq /\ vq' \in Vq
      BY AddConsumedSlotEffect DEF IInv
    <2>2. TypeOK'
      BY <2>1 DEF AddConsumedSlot, TypeOK
    <2>3. Ownership'
      BY <2>1 DEF AddConsumedSlot, Ownership, Exclusive, Conserved
    <2>4. InProgress'
      BY AddConsumedSlotEffect DEF AddConsumedSlot, InProgress, used_pending, avail_pending
    <2> QED
      BY <2>2, <2>3, <2>4 DEF IInv
  <1>6. CASE AddConsumedIdx
    <2>1. /\ used_write \in dev_held /\ used_write \in Desc
          /\ UsedSeq' = Append(UsedSeq, used_write) /\ AvailSeq' = AvailSeq /\ vq' \in Vq
      BY <1>6, AddConsumedIdxEffect DEF IInv
    <2>2. used_write \notin Entries(UsedSeq)
      BY <2>1 DEF Ownership, Exclusive
    <2>3. /\ Entries(UsedSeq') = Entries(UsedSeq) \union {used_write}
          /\ NoRepeat(UsedSeq')
      BY <2>1, <2>2, SeqTypes, AppendEntries DEF Ownership, Exclusive
    <2>4. dev_held' = dev_held \ {used_write} /\ drv_held' = drv_held
      BY <1>6 DEF AddConsumedIdx
    <2>5. TypeOK'
      BY <1>6, <2>1, <2>4 DEF AddConsumedIdx, TypeOK
    <2>6. Ownership'
      BY <2>1, <2>2, <2>3, <2>4 DEF Ownership, Exclusive, Conserved
    <2>7. used_pending(vq)'
      <3>1. /\ UsedSeq' \in Seq(Desc) /\ UsedSeq' # << >>
        BY <2>1, SeqTypes
      <3>a. /\ vq'.used_ring \in [Slot -> Desc]
            /\ vq'.vq_used_cons_idx \in Idx /\ vq'.used_idx \in Idx
        BY <2>1 DEF Vq
      <3>b. UsedSeq' = Window(vq'.used_ring, vq'.vq_used_cons_idx, vq'.used_idx)
        BY DEF UsedSeq, UsedWindow
      <3>2. Len(UsedSeq') = Distance(vq'.vq_used_cons_idx, vq'.used_idx)
        BY <3>a, <3>b, WindowType
      <3>3. Distance(vq'.vq_used_cons_idx, vq'.used_idx) >= 1
        BY <3>1, <3>2
      <3> QED
        BY <3>a, <3>3, IndexFacts DEF used_pending
    <2>8. InProgress'
      BY <1>6, <2>4, <2>7, AddConsumedIdxEffect DEF AddConsumedIdx, InProgress, used_pending, avail_pending
    <2> QED
      BY <2>5, <2>6, <2>8 DEF IInv
  <1>7. CASE GetAvailableCheck
    <2>1. AvailSeq' = AvailSeq /\ UsedSeq' = UsedSeq
      BY <1>7 DEF GetAvailableCheck, AvailSeq, UsedSeq
    <2> QED
      BY <1>7, <2>1 DEF GetAvailableCheck, IInv, TypeOK, Ownership, Exclusive, Conserved,
         InProgress, used_pending, avail_pending
  <1>8. CASE GetAvailableTake
    <2>1. /\ AvailSeq # << >> /\ avail_head(vq) = Head(AvailSeq)
          /\ AvailSeq' = Tail(AvailSeq) /\ UsedSeq' = UsedSeq /\ vq' \in Vq
      BY <1>8, GetAvailableTakeEffect DEF IInv
    <2>2. /\ Head(AvailSeq) \in Entries(AvailSeq)
          /\ Entries(AvailSeq') = Entries(AvailSeq) \ {Head(AvailSeq)}
          /\ NoRepeat(AvailSeq')
      BY <2>1, SeqTypes, TailEntries DEF Ownership, Exclusive
    <2>3. dev_held' = dev_held \union {Head(AvailSeq)} /\ drv_held' = drv_held
      BY <1>8, <2>1 DEF GetAvailableTake
    <2>4. Head(AvailSeq) \in Desc
      BY <2>1, SeqTypes
    <2>5. TypeOK'
      BY <1>8, <2>1, <2>3, <2>4 DEF GetAvailableTake, TypeOK
    <2>6. Ownership'
      BY <2>1, <2>2, <2>3 DEF Ownership, Exclusive, Conserved
    <2>7. InProgress'
      BY <1>8, <2>3, GetAvailableTakeEffect DEF GetAvailableTake, InProgress, used_pending, avail_pending
    <2> QED
      BY <2>5, <2>6, <2>7 DEF IInv
  <1>9. CASE UNCHANGED vars
    BY <1>9 DEF vars, IInv, TypeOK, Ownership, Exclusive, Conserved, InProgress,
       AvailSeq, UsedSeq, used_pending, avail_pending
  <1> QED
    BY <1>1, <1>2, <1>3, <1>4, <1>5, <1>6, <1>7, <1>8, <1>9 DEF Next

-----------------------------------------------------------------------------
(* The theorems *)

(* The inductive invariant holds throughout. *)
LEMMA Invariance == Spec => []IInv
  BY InitIInv, NextIInv, PTL DEF Spec

(* Indices stay in 16 bits and slots hold valid descriptors. *)
THEOREM TypeCorrect == Spec => []TypeOK
  <1>1. IInv => TypeOK
    BY DEF IInv
  <1> QED
    BY <1>1, Invariance, PTL

(* Every buffer of a vring is in exactly one place: in the avail ring, with *)
(* the device, in the used ring or with the driver, whatever the ring size, *)
(* the interleaving of the four ring ends and the number of index wraps.    *)
THEOREM OwnershipHolds == Spec => []Ownership
  <1>1. IInv => Ownership
    BY DEF IInv
  <1> QED
    BY <1>1, Invariance, PTL

(* Neither ring ever holds more unread entries than it has slots, the       *)
(* assertion of virtqueue_nused.                                            *)
THEOREM NoOverrunHolds == Spec => []NoOverrun
  <1>1. IInv => NoOverrun
    <2> SUFFICES ASSUME IInv PROVE NoOverrun
      OBVIOUS
    <2>1. TypeOK /\ NoRepeat(AvailSeq) /\ NoRepeat(UsedSeq)
      BY DEF IInv, Ownership, Exclusive
    <2>2. Len(AvailSeq) <= N /\ Len(UsedSeq) <= N
      BY <2>1, SeqTypes, AtMostAll
    <2> QED
      BY <2>1, <2>2, SeqTypes DEF NoOverrun
  <1> QED
    BY <1>1, Invariance, PTL

(* The vring with its two-step puts and takes implements two FIFO queues of *)
(* buffers with single-step operations.                                     *)
THEOREM FifoRefinement == Spec => ImplementsFifo
  <1>1. Init => Fifo!Init
    BY InitSeqs DEF Init, Fifo!Init, Fifo!InOrder
  <1>2. IInv /\ [Next]_vars => [Fifo!Next]_Fifo!vars
    <2> SUFFICES ASSUME IInv, [Next]_vars PROVE [Fifo!Next]_Fifo!vars
      OBVIOUS
    <2>1. CASE \E d \in Desc : AddBufferSlot(d)
      BY <2>1, AddBufferSlotEffect DEF AddBufferSlot, Fifo!vars
    <2>2. CASE AddBufferIdx
      <3>1. /\ avail_write \in drv_held /\ avail_write \in Desc
            /\ AvailSeq' = Append(AvailSeq, avail_write) /\ UsedSeq' = UsedSeq
        BY <2>2, AddBufferIdxEffect
      <3>2. Fifo!DriverPut(avail_write)
        BY <2>2, <3>1 DEF AddBufferIdx, Fifo!DriverPut
      <3> QED
        BY <3>1, <3>2 DEF Fifo!Next, Desc
    <2>3. CASE GetBufferCheck
      BY <2>3 DEF GetBufferCheck, Fifo!vars, AvailSeq, UsedSeq
    <2>4. CASE GetBufferTake
      <3>1. Fifo!DriverTake
        BY <2>4, GetBufferTakeEffect DEF GetBufferTake, Fifo!DriverTake
      <3> QED
        BY <3>1 DEF Fifo!Next
    <2>5. CASE \E d \in Desc : AddConsumedSlot(d)
      BY <2>5, AddConsumedSlotEffect DEF AddConsumedSlot, Fifo!vars
    <2>6. CASE AddConsumedIdx
      <3>1. /\ used_write \in dev_held /\ used_write \in Desc
            /\ UsedSeq' = Append(UsedSeq, used_write) /\ AvailSeq' = AvailSeq
        BY <2>6, AddConsumedIdxEffect
      <3>2. Fifo!DevicePut(used_write)
        BY <2>6, <3>1 DEF AddConsumedIdx, Fifo!DevicePut
      <3> QED
        BY <3>1, <3>2 DEF Fifo!Next, Desc
    <2>7. CASE GetAvailableCheck
      BY <2>7 DEF GetAvailableCheck, Fifo!vars, AvailSeq, UsedSeq
    <2>8. CASE GetAvailableTake
      <3>1. Fifo!DeviceTake
        BY <2>8, GetAvailableTakeEffect DEF GetAvailableTake, Fifo!DeviceTake
      <3> QED
        BY <3>1 DEF Fifo!Next
    <2>9. CASE UNCHANGED vars
      BY <2>9 DEF vars, Fifo!vars, AvailSeq, UsedSeq
    <2> QED
      BY <2>1, <2>2, <2>3, <2>4, <2>5, <2>6, <2>7, <2>8, <2>9 DEF Next
  <1> QED
    BY <1>1, <1>2, Invariance, PTL DEF Spec, ImplementsFifo, Fifo!Spec
=============================================================================
