---------------------------- MODULE RpmsgLiteProofs ---------------------------
(***************************************************************************)
(* Proofs about RpmsgLite, for every ring size, every number of tasks and  *)
(* messages, and every application that does not mix the two ways in which *)
(* buffers come back (see Unmixed).                                        *)
(*                                                                         *)
(* The argument.  The lock and the interrupt handler make sure that each   *)
(* end of a ring is used by one context at a time (Locking, Unmixed), so   *)
(* the slot written is the one published (Tips) and the entry read is the  *)
(* one taken (Heads).  A step then moves at most one buffer from one place *)
(* to another, and every buffer stays in exactly one place (OnePlace).     *)
(* What is written into a buffer is written by the one context that has    *)
(* it; so the messages in the ring, in the queue and with the receivers    *)
(* are the ones that were sent, in their order (Contents).                 *)
(***************************************************************************)
EXTENDS RpmsgLite, VirtqueueOpsProofs

(* No application mixes the two ways to give a buffer back.                 *)
Unmixed == \A s \in Setups : UnmixedSetup(s)

-----------------------------------------------------------------------------
(* The rings as seen from one side: the entries it has not yet taken, and   *)
(* the slot in which it will publish next.                                  *)
InSeq(s, v) == IF s = Master THEN UsedWindow(v) ELSE AvailWindow(v)
TipOf(s, v) == IF s = Master THEN v.avail_ring[SlotOf(v.avail_idx)]
                             ELSE v.used_ring[SlotOf(v.used_idx)]
In(s, r)  == InSeq(s, vq[r])
Tip(s, r) == TipOf(s, vq[r])

(* Where tasks and handlers are. *)
Calling == {"alloc", "sleep", "alloc_end", "poll_end", "fill", "enqueue", "enqueue_idx",
            "enqueue_kick"}
Sending == {"fill", "enqueue", "enqueue_idx"}
Reading == {"copy", "release", "release_idx"}
Locked  == {"alloc_end", "poll_end", "enqueue_idx", "enqueue_kick", "release_idx"}
Freeing == {"free", "free_idx"}

(* The places a buffer can be in: a ring, to be taken by a side; a task; a  *)
(* queue; the receive callback.                                             *)
Place == ({"ring", "queue", "isr"} \X Side) \union ({"task"} \X Tasks)

HeldByTask(t, r, d) ==
    /\ task[t].d = d
    /\ \/ task[t].pc \in Sending /\ tvq(SideOf(t)) = r
       \/ task[t].pc \in Reading /\ rvq(SideOf(t)) = r
InQueue(s, r, d) ==
    rvq(s) = r /\ \E i \in 1..Len(rx_queue[s]) : rx_queue[s][i].d = d
InCallback(s, r, d) == rvq(s) = r /\ isr[s].d = d /\ isr[s].pc \in Freeing

Has(p, r, d) ==
    \/ p[1] = "ring"  /\ d \in Entries(In(p[2], r))
    \/ p[1] = "task"  /\ HeldByTask(p[2], r, d)
    \/ p[1] = "queue" /\ InQueue(p[2], r, d)
    \/ p[1] = "isr"   /\ InCallback(p[2], r, d)

-----------------------------------------------------------------------------
(* The inductive invariant *)

TaskType ==
    [pc : {"idle"} \union Calling \union Reading, d : Desc \union {None},
     msg : Msg \union {NoMsg}, dst : Dst \union {None}, ticks : Nat,
     timeout : Nat \union {RL_BLOCK}, nocopy : BOOLEAN]
IsrType ==
    [pc : {"off", "lock", "rx", "hold", "exit"} \union Freeing, d : Desc \union {None},
     freed : BOOLEAN]
BufType == [dst : Dst \union {None}, msg : Msg \union {NoMsg}]

FullType ==
    /\ setup \in Setups
    /\ vq \in [Ring -> Vq]
    /\ buf \in [Ring -> [Desc -> BufType]]
    /\ reserved \in [Ring -> [Desc -> Desc]]
    /\ lock \in [Side -> Tasks \union {Free, RxThread}]
    /\ link_state \in [Side -> BOOLEAN]
    /\ doorbell \in [Side -> SUBSET Ring]
    /\ isr \in [Side -> IsrType]
    /\ task \in [Tasks -> TaskType]
    /\ sent \in [Tasks -> 0..MaxSend]
    /\ rx_queue \in [Side -> Seq([d : Desc, msg : Msg \union {NoMsg}])]
    /\ published \in [Ring -> Seq(Msg \union {NoMsg})]
    /\ delivered \in [Ring -> Seq(Msg \union {NoMsg})]

(* A context that is inside a virtqueue operation, or between the two       *)
(* halves of one, has a buffer number.                                      *)
HasBuffer ==
    /\ \A t \in Tasks : task[t].pc \in Sending \union Reading => task[t].d \in Desc
    /\ \A s \in Side : isr[s].pc \in {"hold"} \union Freeing => isr[s].d \in Desc

(* Who holds the lock; when the callback releases buffers without it, no    *)
(* task does.                                                               *)
Locking ==
    /\ \A t \in Tasks : task[t].pc \in Locked => lock[SideOf(t)] = t
    /\ EnvContext => \A s \in Side : isr[s].pc \notin {"off", "lock"} => lock[s] = RxThread
    /\ \A t \in Tasks : task[t].pc \in Reading => setup.receivers # {}
    /\ ~EnvContext /\ setup.receivers # {} => \A s \in Side : isr[s].pc \notin Freeing

(* The descriptor read is still the one that will be taken.                 *)
Heads ==
    \A t \in Tasks : task[t].pc \in {"alloc_end", "poll_end"} /\ task[t].d # None =>
        LET q == In(SideOf(t), tvq(SideOf(t))) IN q # << >> /\ task[t].d = Head(q)

(* The descriptor that will be published is still the one written.          *)
Tips ==
    /\ \A t \in Tasks :
         /\ task[t].pc = "enqueue_idx" => Tip(SideOf(t), tvq(SideOf(t))) = task[t].d
         /\ task[t].pc = "release_idx" => Tip(SideOf(t), rvq(SideOf(t))) = task[t].d
    /\ \A s \in Side : isr[s].pc = "free_idx" => Tip(s, rvq(s)) = isr[s].d

(* The index in the header of a buffer that is sent without copying, and of *)
(* one that is held.  The callback queues a buffer before it writes the     *)
(* index.                                                                   *)
IdxKept(s, d) == reserved[rvq(s)][d] = d \/ (isr[s].pc = "hold" /\ isr[s].d = d)
Headers ==
    /\ \A t \in Tasks : task[t].pc \in Sending /\ task[t].nocopy =>
         reserved[tvq(SideOf(t))][task[t].d] = task[t].d
    /\ \A t \in Tasks : task[t].pc \in Reading => IdxKept(SideOf(t), task[t].d)
    /\ \A s \in Side : \A i \in 1..Len(rx_queue[s]) : IdxKept(s, rx_queue[s][i].d)

(* Every buffer is in one place, and there once. *)
OnePlace ==
    /\ \A r \in Ring, d \in Desc : \E p \in Place : Has(p, r, d)
    /\ \A r \in Ring, d \in Desc : \A p, q \in Place : Has(p, r, d) /\ Has(q, r, d) => p = q
Once ==
    /\ \A s \in Side, r \in Ring : NoRepeat(In(s, r))
    /\ \A s \in Side : \A i, j \in 1..Len(rx_queue[s]) :
         rx_queue[s][i].d = rx_queue[s][j].d => i = j

(* What the buffers contain. *)
Contents ==
    /\ \A t \in Tasks : task[t].pc \in Calling => task[t].dst \in Dst
    /\ \A t \in Tasks : task[t].pc \in {"enqueue", "enqueue_idx"} =>
         buf[tvq(SideOf(t))][task[t].d] = [dst |-> task[t].dst, msg |-> task[t].msg]
    /\ \A s \in Side : \A d \in Entries(In(s, rvq(s))) : buf[rvq(s)][d].dst \in Dst

(* InOrderDelivery, ring by ring from the receiving side.                   *)
Texts(s) == [i \in DOMAIN In(s, rvq(s)) |-> buf[rvq(s)][In(s, rvq(s))[i]].msg]
InOrder  == \A s \in Side : published[rvq(s)] = delivered[rvq(s)] \o Texts(s)

IInv ==
    /\ FullType /\ HasBuffer /\ Locking
    /\ Heads /\ Tips /\ Headers
    /\ OnePlace /\ Once
    /\ Contents /\ HeldIntact /\ InOrder /\ NothingDropped

-----------------------------------------------------------------------------
(* What the operations of a virtqueue do to the two windows and the slots.  *)

(* The length of two sequences put together.                                *)
LEMMA JoinedLength ==
    ASSUME NEW S, NEW s \in Seq(S), NEW t \in Seq(S)
    PROVE  Len(s \o t) = Len(s) + Len(t)
  OBVIOUS

(* Each side sends on one ring and receives on the other, and what the      *)
(* one sends on the other receives on.                                      *)
LEMMA SideFacts ==
    /\ \A s \in Side : /\ Other(s) \in Side /\ Other(s) # s /\ Other(Other(s)) = s
                       /\ tvq(s) \in Ring /\ rvq(s) \in Ring /\ tvq(s) # rvq(s)
                       /\ tvq(Other(s)) = rvq(s) /\ rvq(Other(s)) = tvq(s)
    /\ \A t : SideOf(t) \in Side
    /\ \A s, o \in Side : o = s \/ o = Other(s)
    /\ \A r \in Ring, s \in Side : r = tvq(s) \/ r = rvq(s)
    /\ \A s, o \in Side : /\ rvq(s) = rvq(o) <=> s = o
                          /\ tvq(s) = tvq(o) <=> s = o
                          /\ rvq(s) = tvq(o) <=> s # o
  BY DEF Side, Other, tvq, rvq, Master, Remote, Ring, SideOf

(* The windows of a vring are sequences of descriptors, and something is    *)
(* pending when one is not empty.                                           *)
LEMMA InType ==
    ASSUME NEW v \in Vq, NEW s \in Side
    PROVE  /\ InSeq(s, v) \in Seq(Desc)
           /\ pending(s, v) <=> InSeq(s, v) # << >>
           /\ pending(s, v) => head(s, v) = Head(InSeq(s, v))
           /\ TipOf(s, v) \in Desc
  <1>1. /\ v.avail_ring \in [Slot -> Desc] /\ v.used_ring \in [Slot -> Desc]
        /\ v.avail_idx \in Idx /\ v.vq_available_idx \in Idx
        /\ v.used_idx \in Idx /\ v.vq_used_cons_idx \in Idx
    BY DEF Vq
  <1>2. /\ SlotOf(v.avail_idx) \in Slot /\ SlotOf(v.used_idx) \in Slot
    BY <1>1, IndexFacts
  <1>3. CASE s = Master
    <2>1. /\ UsedWindow(v) \in Seq(Desc)
          /\ Len(UsedWindow(v)) = Distance(v.vq_used_cons_idx, v.used_idx)
      BY <1>1, WindowType DEF UsedWindow
    <2>2. v.vq_used_cons_idx # v.used_idx <=> Distance(v.vq_used_cons_idx, v.used_idx) >= 1
      BY <1>1, IndexFacts
    <2>3. v.vq_used_cons_idx # v.used_idx => used_head(v) = Head(UsedWindow(v))
      BY <1>1, WindowConsume DEF UsedWindow, used_head
    <2>4. pending(s, v) <=> v.vq_used_cons_idx # v.used_idx
      BY <1>3 DEF pending, used_pending
    <2>5. UsedWindow(v) # << >> <=> Len(UsedWindow(v)) >= 1
      BY <2>1
    <2> QED
      BY <1>1, <1>2, <1>3, <2>1, <2>2, <2>3, <2>4, <2>5 DEF InSeq, TipOf, head
  <1>4. CASE s # Master
    <2>1. /\ AvailWindow(v) \in Seq(Desc)
          /\ Len(AvailWindow(v)) = Distance(v.vq_available_idx, v.avail_idx)
      BY <1>1, WindowType DEF AvailWindow
    <2>2. v.vq_available_idx # v.avail_idx <=> Distance(v.vq_available_idx, v.avail_idx) >= 1
      BY <1>1, IndexFacts
    <2>3. v.vq_available_idx # v.avail_idx => avail_head(v) = Head(AvailWindow(v))
      BY <1>1, WindowConsume DEF AvailWindow, avail_head
    <2>4. pending(s, v) <=> v.vq_available_idx # v.avail_idx
      BY <1>4 DEF pending, avail_pending
    <2>5. AvailWindow(v) # << >> <=> Len(AvailWindow(v)) >= 1
      BY <2>1
    <2> QED
      BY <1>1, <1>2, <1>4, <2>1, <2>2, <2>3, <2>4, <2>5 DEF InSeq, TipOf, head
  <1> QED
    BY <1>3, <1>4

(* Taking the head. *)
LEMMA ConsumeEffect ==
    ASSUME NEW v \in Vq, NEW s \in Side, pending(s, v)
    PROVE  /\ consume(s, v) \in Vq
           /\ InSeq(s, consume(s, v)) = Tail(InSeq(s, v))
           /\ InSeq(Other(s), consume(s, v)) = InSeq(Other(s), v)
           /\ \A o \in Side : TipOf(o, consume(s, v)) = TipOf(o, v)
  <1>1. /\ v.avail_ring \in [Slot -> Desc] /\ v.used_ring \in [Slot -> Desc]
        /\ v.avail_idx \in Idx /\ v.vq_available_idx \in Idx
        /\ v.used_idx \in Idx /\ v.vq_used_cons_idx \in Idx
    BY DEF Vq
  <1>2. IncIdx(v.vq_available_idx) \in Idx /\ IncIdx(v.vq_used_cons_idx) \in Idx
    BY <1>1, IndexFacts
  <1>3. CASE s = Master
    <2> DEFINE w == consume_used(v)
    <2>1. /\ w \in Vq
          /\ w.vq_used_cons_idx = IncIdx(v.vq_used_cons_idx)
          /\ w.avail_idx = v.avail_idx /\ w.avail_ring = v.avail_ring
          /\ w.used_idx = v.used_idx /\ w.used_ring = v.used_ring
          /\ w.vq_available_idx = v.vq_available_idx
      BY <1>1, <1>2 DEF consume_used, Vq
    <2>2. consume(s, v) = w /\ v.vq_used_cons_idx # v.used_idx
      BY <1>3 DEF consume, pending, used_pending
    <2> HIDE DEF w
    <2>3. UsedWindow(w) = Tail(UsedWindow(v))
      BY <1>1, <2>1, <2>2, WindowConsume DEF UsedWindow
    <2> QED
      BY <1>3, <2>1, <2>2, <2>3 DEF InSeq, TipOf, Other, AvailWindow, Master, Remote
  <1>4. CASE s # Master
    <2> DEFINE w == consume_avail(v)
    <2>1. /\ w \in Vq
          /\ w.vq_available_idx = IncIdx(v.vq_available_idx)
          /\ w.avail_idx = v.avail_idx /\ w.avail_ring = v.avail_ring
          /\ w.used_idx = v.used_idx /\ w.used_ring = v.used_ring
          /\ w.vq_used_cons_idx = v.vq_used_cons_idx
      BY <1>1, <1>2 DEF consume_avail, Vq
    <2>2. consume(s, v) = w /\ v.vq_available_idx # v.avail_idx
      BY <1>4 DEF consume, pending, avail_pending
    <2> HIDE DEF w
    <2>3. AvailWindow(w) = Tail(AvailWindow(v))
      BY <1>1, <2>1, <2>2, WindowConsume DEF AvailWindow
    <2> QED
      BY <1>4, <2>1, <2>2, <2>3 DEF InSeq, TipOf, Other, UsedWindow, Master, Remote
  <1> QED
    BY <1>3, <1>4

(* Writing a slot of a ring that is not full. *)
LEMMA PutSlotEffect ==
    ASSUME NEW v \in Vq, NEW s \in Side, NEW d \in Desc, Len(InSeq(Other(s), v)) < N
    PROVE  /\ put_slot(s, v, d) \in Vq
           /\ \A o \in Side : InSeq(o, put_slot(s, v, d)) = InSeq(o, v)
           /\ TipOf(s, put_slot(s, v, d)) = d
           /\ TipOf(Other(s), put_slot(s, v, d)) = TipOf(Other(s), v)
  <1>1. /\ v.avail_ring \in [Slot -> Desc] /\ v.used_ring \in [Slot -> Desc]
        /\ v.avail_idx \in Idx /\ v.vq_available_idx \in Idx
        /\ v.used_idx \in Idx /\ v.vq_used_cons_idx \in Idx
    BY DEF Vq
  <1>2. SlotOf(v.avail_idx) \in Slot /\ SlotOf(v.used_idx) \in Slot
    BY <1>1, IndexFacts
  <1>3. CASE s = Master
    <2> DEFINE w == update_avail_slot(v, d)
               ring == [v.avail_ring EXCEPT ![SlotOf(v.avail_idx)] = d]
    <2>1. /\ w \in Vq
          /\ w.avail_ring = ring /\ w.avail_ring[SlotOf(v.avail_idx)] = d
          /\ w.avail_idx = v.avail_idx
          /\ w.used_idx = v.used_idx /\ w.used_ring = v.used_ring
          /\ w.vq_available_idx = v.vq_available_idx
          /\ w.vq_used_cons_idx = v.vq_used_cons_idx
      BY <1>1, <1>2 DEF update_avail_slot, Vq
    <2>2. put_slot(s, v, d) = w
      BY <1>3 DEF put_slot
    <2>3. Distance(v.vq_available_idx, v.avail_idx) < N
      <3>1. InSeq(Other(s), v) = Window(v.avail_ring, v.vq_available_idx, v.avail_idx)
        BY <1>3 DEF InSeq, Other, Master, Remote, AvailWindow
      <3>2. Len(Window(v.avail_ring, v.vq_available_idx, v.avail_idx)) = Distance(v.vq_available_idx, v.avail_idx)
        BY <1>1, WindowType
      <3> QED
        BY <3>1, <3>2
    <2>4. Window(ring, v.vq_available_idx, v.avail_idx)
            = Window(v.avail_ring, v.vq_available_idx, v.avail_idx)
      BY <1>1, <2>3, WindowWrite
    <2> HIDE DEF w, ring
    <2>5. AvailWindow(w) = AvailWindow(v) /\ UsedWindow(w) = UsedWindow(v)
      BY <2>1, <2>4 DEF AvailWindow, UsedWindow
    <2> QED
      BY <1>3, <2>1, <2>2, <2>5 DEF InSeq, TipOf, Other, Master, Remote
  <1>4. CASE s # Master
    <2> DEFINE w == update_used_slot(v, d)
               ring == [v.used_ring EXCEPT ![SlotOf(v.used_idx)] = d]
    <2>1. /\ w \in Vq
          /\ w.used_ring = ring /\ w.used_ring[SlotOf(v.used_idx)] = d
          /\ w.used_idx = v.used_idx
          /\ w.avail_idx = v.avail_idx /\ w.avail_ring = v.avail_ring
          /\ w.vq_available_idx = v.vq_available_idx
          /\ w.vq_used_cons_idx = v.vq_used_cons_idx
      BY <1>1, <1>2 DEF update_used_slot, Vq
    <2>2. put_slot(s, v, d) = w
      BY <1>4 DEF put_slot
    <2>3. Distance(v.vq_used_cons_idx, v.used_idx) < N
      <3>1. InSeq(Other(s), v) = Window(v.used_ring, v.vq_used_cons_idx, v.used_idx)
        BY <1>4 DEF InSeq, Other, Master, Remote, UsedWindow
      <3>2. Len(Window(v.used_ring, v.vq_used_cons_idx, v.used_idx)) = Distance(v.vq_used_cons_idx, v.used_idx)
        BY <1>1, WindowType
      <3> QED
        BY <3>1, <3>2
    <2>4. Window(ring, v.vq_used_cons_idx, v.used_idx)
            = Window(v.used_ring, v.vq_used_cons_idx, v.used_idx)
      BY <1>1, <2>3, WindowWrite
    <2> HIDE DEF w, ring
    <2>5. AvailWindow(w) = AvailWindow(v) /\ UsedWindow(w) = UsedWindow(v)
      BY <2>1, <2>4 DEF AvailWindow, UsedWindow
    <2> QED
      BY <1>4, <2>1, <2>2, <2>5 DEF InSeq, TipOf, Other, Master, Remote
  <1> QED
    BY <1>3, <1>4

(* Publishing the slot written. *)
LEMMA PutIdxEffect ==
    ASSUME NEW v \in Vq, NEW s \in Side, Len(InSeq(Other(s), v)) < N
    PROVE  /\ put_idx(s, v) \in Vq
           /\ InSeq(Other(s), put_idx(s, v)) = Append(InSeq(Other(s), v), TipOf(s, v))
           /\ InSeq(s, put_idx(s, v)) = InSeq(s, v)
           /\ TipOf(Other(s), put_idx(s, v)) = TipOf(Other(s), v)
  <1>1. /\ v.avail_ring \in [Slot -> Desc] /\ v.used_ring \in [Slot -> Desc]
        /\ v.avail_idx \in Idx /\ v.vq_available_idx \in Idx
        /\ v.used_idx \in Idx /\ v.vq_used_cons_idx \in Idx
    BY DEF Vq
  <1>2. IncIdx(v.avail_idx) \in Idx /\ IncIdx(v.used_idx) \in Idx
    BY <1>1, IndexFacts
  <1>3. CASE s = Master
    <2> DEFINE w == update_avail_idx(v)
    <2>1. /\ w \in Vq
          /\ w.avail_idx = IncIdx(v.avail_idx) /\ w.avail_ring = v.avail_ring
          /\ w.used_idx = v.used_idx /\ w.used_ring = v.used_ring
          /\ w.vq_available_idx = v.vq_available_idx
          /\ w.vq_used_cons_idx = v.vq_used_cons_idx
      BY <1>1, <1>2 DEF update_avail_idx, Vq
    <2>2. put_idx(s, v) = w
      BY <1>3 DEF put_idx
    <2>3. Distance(v.vq_available_idx, v.avail_idx) < N
      <3>1. InSeq(Other(s), v) = Window(v.avail_ring, v.vq_available_idx, v.avail_idx)
        BY <1>3 DEF InSeq, Other, Master, Remote, AvailWindow
      <3>2. Len(Window(v.avail_ring, v.vq_available_idx, v.avail_idx)) = Distance(v.vq_available_idx, v.avail_idx)
        BY <1>1, WindowType
      <3> QED
        BY <3>1, <3>2
    <2> HIDE DEF w
    <2>4. AvailWindow(w) = Append(AvailWindow(v), v.avail_ring[SlotOf(v.avail_idx)])
      BY <1>1, <2>1, <2>3, WindowPublish DEF AvailWindow
    <2>5. UsedWindow(w) = UsedWindow(v)
      BY <2>1 DEF UsedWindow
    <2> QED
      BY <1>3, <2>1, <2>2, <2>4, <2>5 DEF InSeq, TipOf, Other, Master, Remote
  <1>4. CASE s # Master
    <2> DEFINE w == update_used_idx(v)
    <2>1. /\ w \in Vq
          /\ w.used_idx = IncIdx(v.used_idx) /\ w.used_ring = v.used_ring
          /\ w.avail_idx = v.avail_idx /\ w.avail_ring = v.avail_ring
          /\ w.vq_available_idx = v.vq_available_idx
          /\ w.vq_used_cons_idx = v.vq_used_cons_idx
      BY <1>1, <1>2 DEF update_used_idx, Vq
    <2>2. put_idx(s, v) = w
      BY <1>4 DEF put_idx
    <2>3. Distance(v.vq_used_cons_idx, v.used_idx) < N
      <3>1. InSeq(Other(s), v) = Window(v.used_ring, v.vq_used_cons_idx, v.used_idx)
        BY <1>4 DEF InSeq, Other, Master, Remote, UsedWindow
      <3>2. Len(Window(v.used_ring, v.vq_used_cons_idx, v.used_idx)) = Distance(v.vq_used_cons_idx, v.used_idx)
        BY <1>1, WindowType
      <3> QED
        BY <3>1, <3>2
    <2> HIDE DEF w
    <2>4. UsedWindow(w) = Append(UsedWindow(v), v.used_ring[SlotOf(v.used_idx)])
      BY <1>1, <2>1, <2>3, WindowPublish DEF UsedWindow
    <2>5. AvailWindow(w) = AvailWindow(v)
      BY <2>1 DEF AvailWindow
    <2> QED
      BY <1>4, <2>1, <2>2, <2>4, <2>5 DEF InSeq, TipOf, Other, Master, Remote
  <1> QED
    BY <1>3, <1>4

-----------------------------------------------------------------------------
(* The same for the variable vq. *)

(* What is in a window is a sequence of descriptors, and its head is what   *)
(* the side takes next.                                                     *)
LEMMA InFacts ==
    ASSUME vq \in [Ring -> Vq], NEW s \in Side, NEW r \in Ring
    PROVE  /\ In(s, r) \in Seq(Desc)
           /\ DOMAIN In(s, r) = 1..Len(In(s, r))
           /\ Entries(In(s, r)) \subseteq Desc
           /\ pending(s, vq[r]) <=> In(s, r) # << >>
           /\ pending(s, vq[r]) => head(s, vq[r]) = Head(In(s, r))
           /\ Tip(s, r) \in Desc
  <1>1. vq[r] \in Vq
    OBVIOUS
  <1>2. /\ In(s, r) \in Seq(Desc)
        /\ pending(s, vq[r]) <=> In(s, r) # << >>
        /\ pending(s, vq[r]) => head(s, vq[r]) = Head(In(s, r))
        /\ Tip(s, r) \in Desc
    BY <1>1, InType DEF In, Tip
  <1>3. DOMAIN In(s, r) = 1..Len(In(s, r)) /\ Entries(In(s, r)) \subseteq Desc
    BY <1>2 DEF Entries
  <1> QED
    BY <1>2, <1>3

(* The same after a step that keeps the type of vq.                         *)
LEMMA NextEntries ==
    ASSUME vq' \in [Ring -> Vq], NEW s \in Side, NEW r \in Ring
    PROVE  In(s, r)' \in Seq(Desc) /\ Entries(In(s, r))' \subseteq Desc
  <1>1. vq'[r] \in Vq
    OBVIOUS
  <1>2. InSeq(s, vq'[r]) \in Seq(Desc)
    BY <1>1, InType
  <1>3. In(s, r)' = InSeq(s, vq'[r])
    BY DEF In
  <1>4. In(s, r)' \in Seq(Desc)
    BY <1>2, <1>3
  <1> QED
    BY <1>4 DEF Entries

(* Consuming an entry removes the head of one window and touches nothing    *)
(* else.                                                                    *)
LEMMA Take ==
    ASSUME vq \in [Ring -> Vq], NEW s \in Side, NEW r \in Ring, pending(s, vq[r]),
           vq' = [vq EXCEPT ![r] = consume(s, vq[r])]
    PROVE  /\ vq' \in [Ring -> Vq]
           /\ In(s, r)' = Tail(In(s, r))
           /\ \A o \in Side, q \in Ring : o # s \/ q # r => In(o, q)' = In(o, q)
           /\ \A o \in Side, q \in Ring : Tip(o, q)' = Tip(o, q)
  <1>1. /\ consume(s, vq[r]) \in Vq
        /\ InSeq(s, consume(s, vq[r])) = Tail(InSeq(s, vq[r]))
        /\ InSeq(Other(s), consume(s, vq[r])) = InSeq(Other(s), vq[r])
        /\ \A o \in Side : TipOf(o, consume(s, vq[r])) = TipOf(o, vq[r])
    BY ConsumeEffect
  <1>2. vq' \in [Ring -> Vq] /\ vq'[r] = consume(s, vq[r]) /\ \A q \in Ring \ {r} : vq'[q] = vq[q]
    BY <1>1
  <1> QED
    BY <1>1, <1>2, SideFacts DEF In, Tip

(* Writing a slot changes what is behind the window, not the window.        *)
LEMMA Write ==
    ASSUME vq \in [Ring -> Vq], NEW s \in Side, NEW r \in Ring, NEW d \in Desc,
           Len(In(Other(s), r)) < N, vq' = [vq EXCEPT ![r] = put_slot(s, vq[r], d)]
    PROVE  /\ vq' \in [Ring -> Vq]
           /\ \A o \in Side, q \in Ring : In(o, q)' = In(o, q)
           /\ Tip(s, r)' = d
           /\ \A o \in Side, q \in Ring : o # s \/ q # r => Tip(o, q)' = Tip(o, q)
  <1>1. /\ put_slot(s, vq[r], d) \in Vq
        /\ \A o \in Side : InSeq(o, put_slot(s, vq[r], d)) = InSeq(o, vq[r])
        /\ TipOf(s, put_slot(s, vq[r], d)) = d
        /\ TipOf(Other(s), put_slot(s, vq[r], d)) = TipOf(Other(s), vq[r])
    BY PutSlotEffect DEF In
  <1>2. vq' \in [Ring -> Vq] /\ vq'[r] = put_slot(s, vq[r], d) /\ \A q \in Ring \ {r} : vq'[q] = vq[q]
    BY <1>1
  <1> QED
    BY <1>1, <1>2, SideFacts DEF In, Tip

(* Raising the index appends the slot behind the window to it.              *)
LEMMA Publish ==
    ASSUME vq \in [Ring -> Vq], NEW s \in Side, NEW r \in Ring,
           Len(In(Other(s), r)) < N, vq' = [vq EXCEPT ![r] = put_idx(s, vq[r])]
    PROVE  /\ vq' \in [Ring -> Vq]
           /\ In(Other(s), r)' = Append(In(Other(s), r), Tip(s, r))
           /\ \A o \in Side, q \in Ring : o # Other(s) \/ q # r => In(o, q)' = In(o, q)
           /\ \A o \in Side, q \in Ring : o # s \/ q # r => Tip(o, q)' = Tip(o, q)
  <1>1. /\ put_idx(s, vq[r]) \in Vq
        /\ InSeq(Other(s), put_idx(s, vq[r])) = Append(InSeq(Other(s), vq[r]), TipOf(s, vq[r]))
        /\ InSeq(s, put_idx(s, vq[r])) = InSeq(s, vq[r])
        /\ TipOf(Other(s), put_idx(s, vq[r])) = TipOf(Other(s), vq[r])
    BY PutIdxEffect DEF In
  <1>2. vq' \in [Ring -> Vq] /\ vq'[r] = put_idx(s, vq[r]) /\ \A q \in Ring \ {r} : vq'[q] = vq[q]
    BY <1>1
  <1> QED
    BY <1>1, <1>2, SideFacts DEF In, Tip

(* A step that leaves vq alone leaves all windows alone.                    *)
LEMMA RingsKept ==
    ASSUME vq' = vq
    PROVE  \A s, r : In(s, r)' = In(s, r) /\ Tip(s, r)' = Tip(s, r)
  BY DEF In, Tip

-----------------------------------------------------------------------------
(* A step that moves buffer d0 of ring r0 to place p1 and no other buffer.  *)
LEMMA Moved ==
    ASSUME OnePlace, NEW r0 \in Ring, NEW d0 \in Desc, NEW p1 \in Place,
           \A s \in Side, r \in Ring, d \in Desc :
             d \in Entries(In(s, r))' <=> IF r = r0 /\ d = d0 THEN p1 = <<"ring", s>>
                                                           ELSE d \in Entries(In(s, r)),
           \A t \in Tasks, r \in Ring, d \in Desc :
             HeldByTask(t, r, d)' <=> IF r = r0 /\ d = d0 THEN p1 = <<"task", t>>
                                                         ELSE HeldByTask(t, r, d),
           \A s \in Side, r \in Ring, d \in Desc :
             InQueue(s, r, d)' <=> IF r = r0 /\ d = d0 THEN p1 = <<"queue", s>>
                                                      ELSE InQueue(s, r, d),
           \A s \in Side, r \in Ring, d \in Desc :
             InCallback(s, r, d)' <=> IF r = r0 /\ d = d0 THEN p1 = <<"isr", s>>
                                                         ELSE InCallback(s, r, d)
    PROVE  OnePlace'
  <1>1. ASSUME NEW p \in Place, NEW r \in Ring, NEW d \in Desc
        PROVE  Has(p, r, d)' <=> IF r = r0 /\ d = d0 THEN p = p1 ELSE Has(p, r, d)
    <2>1. CASE p \in {"ring", "queue", "isr"} \X Side
      <3>1. PICK s \in Side : p = <<"ring", s>> \/ p = <<"queue", s>> \/ p = <<"isr", s>>
        BY <2>1
      <3>2. CASE p = <<"ring", s>>
        BY <3>2 DEF Has
      <3>3. CASE p = <<"queue", s>>
        BY <3>3 DEF Has
      <3>4. CASE p = <<"isr", s>>
        BY <3>4 DEF Has
      <3> QED
        BY <3>1, <3>2, <3>3, <3>4
    <2>2. CASE p \in {"task"} \X Tasks
      BY <2>2 DEF Has
    <2> QED
      BY <2>1, <2>2 DEF Place
  <1> QED
    BY <1>1 DEF OnePlace

(* A step that moves none. *)
LEMMA Stayed ==
    ASSUME OnePlace,
           \A s \in Side, r \in Ring : In(s, r)' = In(s, r),
           \A t \in Tasks, r \in Ring, d \in Desc : HeldByTask(t, r, d)' <=> HeldByTask(t, r, d),
           \A s \in Side, r \in Ring, d \in Desc : InQueue(s, r, d)' <=> InQueue(s, r, d),
           \A s \in Side, r \in Ring, d \in Desc : InCallback(s, r, d)' <=> InCallback(s, r, d)
    PROVE  OnePlace'
  <1>1. ASSUME NEW p \in Place, NEW r \in Ring, NEW d \in Desc
        PROVE  Has(p, r, d)' <=> Has(p, r, d)
    <2>1. CASE p \in {"ring", "queue", "isr"} \X Side
      BY <2>1 DEF Has, Entries
    <2>2. CASE p \in {"task"} \X Tasks
      BY <2>2 DEF Has
    <2> QED
      BY <2>1, <2>2 DEF Place
  <1> QED
    BY <1>1 DEF OnePlace

(* No two places have one buffer, spelt out. *)
LEMMA Apart ==
    ASSUME OnePlace, NEW r \in Ring, NEW d \in Desc
    PROVE  /\ \A s, o \in Side : d \in Entries(In(s, r)) /\ d \in Entries(In(o, r)) => s = o
           /\ \A t, u \in Tasks : HeldByTask(t, r, d) /\ HeldByTask(u, r, d) => t = u
           /\ \A t \in Tasks, s \in Side :
                /\ ~(HeldByTask(t, r, d) /\ d \in Entries(In(s, r)))
                /\ ~(HeldByTask(t, r, d) /\ InQueue(s, r, d))
                /\ ~(HeldByTask(t, r, d) /\ InCallback(s, r, d))
           /\ \A s, o \in Side :
                /\ ~(InQueue(s, r, d) /\ d \in Entries(In(o, r)))
                /\ ~(InCallback(s, r, d) /\ d \in Entries(In(o, r)))
                /\ ~(InQueue(s, r, d) /\ InCallback(o, r, d))
  <1>1. /\ \A s \in Side : /\ <<"ring", s>> \in Place /\ <<"queue", s>> \in Place
                            /\ <<"isr", s>> \in Place
        /\ \A t \in Tasks : <<"task", t>> \in Place
    BY DEF Place
  <1>2. /\ \A s : Has(<<"ring", s>>, r, d) <=> d \in Entries(In(s, r))
        /\ \A s : Has(<<"task", s>>, r, d) <=> HeldByTask(s, r, d)
        /\ \A s : Has(<<"queue", s>>, r, d) <=> InQueue(s, r, d)
        /\ \A s : Has(<<"isr", s>>, r, d) <=> InCallback(s, r, d)
    BY DEF Has
  <1>3. \A p, q \in Place : Has(p, r, d) /\ Has(q, r, d) => p = q
    BY DEF OnePlace
  <1> QED
    BY <1>1, <1>2, <1>3

(* A side that holds a buffer of a ring finds room to put it back. *)
LEMMA Room ==
    ASSUME vq \in [Ring -> Vq], Once, NEW s \in Side, NEW r \in Ring, NEW d \in Desc,
           d \notin Entries(In(s, r))
    PROVE  Len(In(s, r)) < N
  BY InFacts, RoomForOne DEF Once

-----------------------------------------------------------------------------
(* The invariant under each action. *)

(* The types of the variables, as the other proofs use them.                *)
LEMMA Types ==
    ASSUME IInv
    PROVE  /\ setup \in Setups /\ vq \in [Ring -> Vq]
           /\ buf \in [Ring -> [Desc -> BufType]]
           /\ reserved \in [Ring -> [Desc -> Desc]]
           /\ lock \in [Side -> Tasks \union {Free, RxThread}]
           /\ link_state \in [Side -> BOOLEAN]
           /\ doorbell \in [Side -> SUBSET Ring]
           /\ isr \in [Side -> IsrType] /\ task \in [Tasks -> TaskType]
           /\ sent \in [Tasks -> 0..MaxSend]
           /\ rx_queue \in [Side -> Seq([d : Desc, msg : Msg \union {NoMsg}])]
           /\ published \in [Ring -> Seq(Msg \union {NoMsg})]
           /\ delivered \in [Ring -> Seq(Msg \union {NoMsg})]
  BY DEF IInv, FullType

(* What the assumption on the constants says of one setup.                  *)
LEMMA SetupFacts ==
    ASSUME NEW s \in Setups
    PROVE  /\ s.timeouts \subseteq Nat \union {RL_BLOCK}
           /\ s.sends \in 0..MaxSend /\ MaxSend \in Nat
           /\ s.nocopy \subseteq BOOLEAN /\ s.context \in BOOLEAN /\ s.consumed \in BOOLEAN
  BY RpmsgAssumption

(* The entries of a receive queue are descriptors with a message.           *)
LEMMA QueueFacts ==
    ASSUME IInv, NEW s \in Side
    PROVE  /\ rx_queue[s] \in Seq([d : Desc, msg : Msg \union {NoMsg}])
           /\ \A i \in 1..Len(rx_queue[s]) : /\ rx_queue[s][i].d \in Desc
                                             /\ rx_queue[s][i].msg \in Msg \union {NoMsg}
  <1> DEFINE E == [d : Desc, msg : Msg \union {NoMsg}]
  <1>1. rx_queue[s] \in Seq(E)
    BY Types
  <1>2. \A i \in 1..Len(rx_queue[s]) : rx_queue[s][i] \in E
    <2> HIDE DEF E
    <2> QED
      BY <1>1
  <1> QED
    BY <1>1, <1>2

(* The types that depend on the setup stay, because the setup does.         *)
LEMMA TypesKept ==
    ASSUME setup' = setup
    PROVE  TaskType' = TaskType /\ BufType' = BufType /\ Dst' = Dst /\ EnvContext' = EnvContext
  BY DEF TaskType, BufType, Dst, EnvContext

(* Nothing happens to the messages on their way. *)
LEMMA OrderKept ==
    ASSUME InOrder, UNCHANGED <<buf, published, delivered>>,
           \A s \in Side : In(s, rvq(s))' = In(s, rvq(s))
    PROVE  InOrder'
  <1>1. ASSUME NEW s \in Side
        PROVE  Texts(s)' = Texts(s)
    BY DEF Texts
  <1> QED
    BY <1>1 DEF InOrder

(* A step of a task that has no buffer before it and none after it. *)
LEMMA NoBuffer ==
    ASSUME IInv, NEW t \in Tasks,
           UNCHANGED <<setup, vq, buf, reserved, isr, rx_queue, published, delivered, dropped>>,
           task' \in [Tasks -> TaskType],
           \A u \in Tasks \ {t} : task'[u] = task[u],
           task[t].pc \notin Sending \union Reading,
           task'[t].pc \notin Sending \union Reading,
           task'[t].pc \in Calling => task'[t].dst \in Dst
    PROVE  /\ HasBuffer' /\ Tips' /\ Headers' /\ OnePlace' /\ Once'
           /\ Contents' /\ HeldIntact' /\ InOrder' /\ NothingDropped'
  <1>1. HasBuffer'
    BY DEF IInv, HasBuffer
  <1>2. Tips'
    BY RingsKept DEF IInv, Tips, Sending, Reading
  <1>3. Headers'
    BY DEF IInv, Headers, IdxKept
  <1>4. OnePlace'
    <2>1. \A u \in Tasks, r \in Ring, d \in Desc : HeldByTask(u, r, d)' <=> HeldByTask(u, r, d)
      BY DEF HeldByTask
    <2>2. \A s \in Side, r \in Ring, d \in Desc : /\ InQueue(s, r, d)' <=> InQueue(s, r, d)
                                                  /\ InCallback(s, r, d)' <=> InCallback(s, r, d)
      BY DEF InQueue, InCallback
    <2> QED
      BY <2>1, <2>2, RingsKept, Stayed DEF IInv
  <1>5. Once' /\ InOrder' /\ NothingDropped'
    <2>1. Once'
      BY RingsKept DEF IInv, Once
    <2>2. InOrder' /\ NothingDropped'
      BY RingsKept, OrderKept DEF IInv, NothingDropped
    <2> QED
      BY <2>1, <2>2
  <1>6. Contents'
    <2>1. Dst' = Dst /\ task'[t].pc \notin {"enqueue", "enqueue_idx"}
      BY TypesKept DEF Sending
    <2> QED
      BY <2>1, RingsKept DEF IInv, Contents
  <1>7. HeldIntact'
    BY DEF IInv, HeldIntact, Reading
  <1> QED
    BY <1>1, <1>2, <1>3, <1>4, <1>5, <1>6, <1>7

(* The call of rpmsg_lite_send or rpmsg_lite_send_nocopy.                   *)
LEMMA SendCallInv ==
    ASSUME IInv, NEW t \in Tasks, NEW dst \in Dst, NEW timeout \in setup.timeouts,
           NEW nocopy \in setup.nocopy, SendCall(t, dst, timeout, nocopy)
    PROVE  IInv'
  <1> DEFINE c == [IdleTask EXCEPT !.pc = "alloc", !.msg = <<t, sent[t] + 1>>, !.dst = dst,
                                   !.timeout = timeout, !.nocopy = nocopy]
  <1>1. /\ task' = [task EXCEPT ![t] = c]
        /\ sent' = [sent EXCEPT ![t] = @ + 1] /\ sent[t] < setup.sends
        /\ UNCHANGED <<setup, vq, buf, reserved, lock, link_state, doorbell, isr, rx_queue,
                       published, delivered, dropped>>
        /\ task[t].pc = "idle"
    BY DEF SendCall, At
  <1>2. /\ sent[t] + 1 \in 1..MaxSend
        /\ timeout \in Nat \union {RL_BLOCK} /\ nocopy \in BOOLEAN
    <2>1. setup \in Setups /\ sent[t] \in Nat
      BY Types
    <2>2. /\ setup.timeouts \subseteq Nat \union {RL_BLOCK} /\ setup.nocopy \subseteq BOOLEAN
          /\ setup.sends \in 0..MaxSend /\ MaxSend \in Nat
      BY <2>1, SetupFacts
    <2> QED
      BY <1>1, <2>1, <2>2
  <1>3. c \in TaskType /\ c.pc = "alloc" /\ c.dst = dst
    <2>1. <<t, sent[t] + 1>> \in Msg
      BY <1>2 DEF Msg
    <2>2. CASE nocopy = TRUE
      BY <1>2, <2>1, <2>2 DEF IdleTask, TaskType, Calling, None, NoMsg
    <2>3. CASE nocopy = FALSE
      BY <1>2, <2>1, <2>3 DEF IdleTask, TaskType, Calling, None, NoMsg
    <2> QED
      BY <1>2, <2>2, <2>3
  <1> HIDE DEF c
  <1>4. /\ task' \in [Tasks -> TaskType] /\ task'[t] = c
        /\ \A u \in Tasks \ {t} : task'[u] = task[u]
        /\ sent' \in [Tasks -> 0..MaxSend]
    BY <1>1, <1>2, <1>3, Types
  <1>5. FullType'
    BY <1>1, <1>4, Types, TypesKept DEF FullType
  <1>6. Locking'
    BY <1>1, <1>3, <1>4, TypesKept DEF IInv, Locking, Reading, Locked
  <1>7. Heads'
    BY <1>1, <1>3, <1>4, RingsKept DEF IInv, Heads
  <1>8. task'[t].pc \notin Sending \union Reading /\ task[t].pc \notin Sending \union Reading
    BY <1>1, <1>3, <1>4 DEF Sending, Reading
  <1> QED
    BY <1>1, <1>3, <1>4, <1>5, <1>6, <1>7, <1>8, NoBuffer DEF IInv

(* A task takes the lock: no other context of its side is inside a section  *)
(* that the lock protects.                                                  *)
LEMMA Locks ==
    ASSUME IInv, NEW t \in Tasks, lock[SideOf(t)] = Free,
           lock' = [lock EXCEPT ![SideOf(t)] = t],
           UNCHANGED <<setup, isr>>,
           \A u \in Tasks \ {t} : task'[u] = task[u],
           task'[t].pc \in Reading => task[t].pc \in Reading
    PROVE  /\ lock' \in [Side -> Tasks \union {Free, RxThread}] /\ Locking'
           /\ \A u \in Tasks : task[u].pc \in Locked => SideOf(u) # SideOf(t)
           /\ EnvContext => isr[SideOf(t)].pc \in {"off", "lock"}
  <1>1. SideOf(t) \in Side /\ \A u : SideOf(u) \in Side
    BY SideFacts
  <1>2. /\ lock' \in [Side -> Tasks \union {Free, RxThread}] /\ lock'[SideOf(t)] = t
        /\ \A o \in Side \ {SideOf(t)} : lock'[o] = lock[o]
    BY <1>1, Types
  <1>3. /\ \A u \in Tasks : task[u].pc \in Locked => SideOf(u) # SideOf(t)
        /\ EnvContext => isr[SideOf(t)].pc \in {"off", "lock"}
    BY <1>1, RpmsgAssumption DEF IInv, Locking
  <1>4. \A u \in Tasks : task'[u].pc \in Locked => lock'[SideOf(u)] = u
    BY <1>1, <1>2, <1>3 DEF IInv, Locking
  <1>5. EnvContext => \A o \in Side : isr[o].pc \notin {"off", "lock"} => lock'[o] = RxThread
    BY <1>2, <1>3 DEF IInv, Locking
  <1> QED
    BY <1>2, <1>3, <1>4, <1>5, TypesKept DEF IInv, Locking

(* The sender takes the mutex and looks for a free buffer.                   *)
LEMMA AllocInv ==
    ASSUME IInv, NEW t \in Tasks, Alloc(t)
    PROVE  IInv'
  <1> DEFINE s == SideOf(t)
             r == tvq(s)
             d == IF pending(s, vq[r]) THEN head(s, vq[r]) ELSE None
             p == IF task[t].pc = "alloc" THEN "alloc_end" ELSE "poll_end"
  <1>1. /\ task[t].pc \in {"alloc", "sleep"}
        /\ lock[s] = Free /\ lock' = [lock EXCEPT ![s] = t]
        /\ task' = [task EXCEPT ![t].d = d, ![t].pc = p]
        /\ UNCHANGED <<setup, vq, buf, reserved, link_state, doorbell, isr, sent, rx_queue,
                       published, delivered, dropped>>
    BY DEF Alloc, At, Acquire
  <1>2. s \in Side /\ r \in Ring /\ task[t] \in TaskType
    BY SideFacts, Types
  <1>3. d # None => In(s, r) # << >> /\ d = Head(In(s, r)) /\ d \in Desc
    BY <1>2, InFacts, Types
  <1>4. p \in {"alloc_end", "poll_end"}
    OBVIOUS
  <1> HIDE DEF d, p, r, s
  <1>5. /\ task' \in [Tasks -> TaskType]
        /\ task'[t].pc = p /\ task'[t].d = d /\ task'[t].dst = task[t].dst
        /\ \A u \in Tasks \ {t} : task'[u] = task[u]
    BY <1>1, <1>2, <1>3, <1>4, Types DEF TaskType, Calling
  <1>6. lock' \in [Side -> Tasks \union {Free, RxThread}] /\ Locking'
    <2>1. task'[t].pc \notin Reading
      BY <1>4, <1>5 DEF Reading
    <2> QED
      BY <1>1, <1>5, <2>1, Locks DEF s
  <1>7. FullType'
    BY <1>1, <1>5, <1>6, Types, TypesKept DEF FullType
  <1>8. Heads'
    BY <1>1, <1>3, <1>5, RingsKept DEF IInv, Heads, s, r
  <1>9. /\ task'[t].pc \notin Sending \union Reading /\ task[t].pc \notin Sending \union Reading
        /\ task[t].pc \in Calling
    BY <1>1, <1>4, <1>5 DEF Sending, Reading, Calling
  <1>10. task'[t].dst \in Dst
    BY <1>5, <1>9 DEF IInv, Contents
  <1> QED
    BY <1>1, <1>5, <1>6, <1>7, <1>8, <1>9, <1>10, NoBuffer DEF IInv

(* The state of a task outside the library.                                 *)
LEMMA IdleFacts == IdleTask \in TaskType /\ IdleTask.pc = "idle"
  BY DEF IdleTask, TaskType, None, NoMsg

(* A task that holds the lock gives it up. *)
LEMMA Unlocks ==
    ASSUME IInv, NEW t \in Tasks, task[t].pc \in Locked,
           lock' = [lock EXCEPT ![SideOf(t)] = Free],
           UNCHANGED <<setup, isr>>,
           \A u \in Tasks \ {t} : task'[u] = task[u],
           task'[t].pc \notin Locked \union Reading
    PROVE  lock' \in [Side -> Tasks \union {Free, RxThread}] /\ Locking'
  <1>1. SideOf(t) \in Side /\ \A u : SideOf(u) \in Side
    BY SideFacts
  <1>2. /\ lock' \in [Side -> Tasks \union {Free, RxThread}]
        /\ \A o \in Side \ {SideOf(t)} : lock'[o] = lock[o]
    BY <1>1, Types
  <1>3. lock[SideOf(t)] = t
    BY DEF IInv, Locking
  <1>4. \A u \in Tasks : task'[u].pc \in Locked => lock'[SideOf(u)] = u
    BY <1>1, <1>2, <1>3 DEF IInv, Locking
  <1>5. EnvContext => \A o \in Side : isr[o].pc \notin {"off", "lock"} => lock'[o] = RxThread
    BY <1>1, <1>2, <1>3, RpmsgAssumption DEF IInv, Locking
  <1> QED
    BY <1>2, <1>4, <1>5, TypesKept DEF IInv, Locking

(* virtqueue_kick notifies the peer and the mutex is released.              *)
LEMMA EnqueueKickInv ==
    ASSUME IInv, NEW t \in Tasks, EnqueueKick(t)
    PROVE  IInv'
  <1> DEFINE s == SideOf(t)
  <1>1. /\ task[t].pc = "enqueue_kick"
        /\ doorbell' = [doorbell EXCEPT ![Other(s)] = @ \union {tvq(s)}]
        /\ lock' = [lock EXCEPT ![s] = Free]
        /\ task' = [task EXCEPT ![t] = IdleTask]
        /\ UNCHANGED <<setup, vq, buf, reserved, link_state, isr, sent, rx_queue,
                       published, delivered, dropped>>
    BY DEF EnqueueKick, At, Kick, Release, Return
  <1>2. s \in Side /\ tvq(s) \in Ring /\ Other(s) \in Side
    BY SideFacts
  <1> HIDE DEF s
  <1>3. doorbell' \in [Side -> SUBSET Ring]
    BY <1>1, <1>2, Types
  <1>4. /\ task' \in [Tasks -> TaskType] /\ task'[t].pc = "idle"
        /\ \A u \in Tasks \ {t} : task'[u] = task[u]
    BY <1>1, IdleFacts, Types
  <1>5. /\ task[t].pc \in Locked /\ task[t].pc \notin Sending \union Reading
        /\ task'[t].pc \notin Locked \union Sending \union Reading \union Calling
    BY <1>1, <1>4 DEF Locked, Sending, Reading, Calling
  <1>6. lock' \in [Side -> Tasks \union {Free, RxThread}] /\ Locking'
    BY <1>1, <1>4, <1>5, Unlocks DEF s
  <1>7. FullType'
    BY <1>1, <1>3, <1>4, <1>6, Types, TypesKept DEF FullType
  <1>8. Heads'
    BY <1>1, <1>4, RingsKept DEF IInv, Heads
  <1> QED
    BY <1>1, <1>4, <1>5, <1>6, <1>7, <1>8, NoBuffer DEF IInv

(* The end of the allocation when there was no buffer. *)
LEMMA AllocNone ==
    ASSUME IInv, NEW t \in Tasks, AllocEnd(t), task[t].d = None
    PROVE  IInv'
  <1> DEFINE k == IF task[t].pc = "poll_end" /\ task[t].timeout # RL_BLOCK
                  THEN task[t].ticks + 1 ELSE task[t].ticks
  <1>1. /\ task[t].pc \in {"alloc_end", "poll_end"}
        /\ lock' = [lock EXCEPT ![SideOf(t)] = Free]
        /\ \/ task' = [task EXCEPT ![t] = IdleTask]
           \/ task' = [task EXCEPT ![t].pc = "sleep", ![t].ticks = k]
        /\ UNCHANGED <<setup, vq, reserved, buf, link_state, doorbell, isr, sent, rx_queue,
                       published, delivered, dropped>>
    BY DEF AllocEnd, At, Release, Return
  <1>2. k \in Nat /\ task[t] \in TaskType
    <2>1. task[t] \in TaskType
      BY Types
    <2>2. task[t].ticks \in Nat
      BY <2>1 DEF TaskType
    <2> QED
      BY <2>1, <2>2
  <1> HIDE DEF k
  <1>3. /\ task' \in [Tasks -> TaskType]
        /\ \A u \in Tasks \ {t} : task'[u] = task[u]
        /\ task'[t].pc = "idle" \/ (task'[t].pc = "sleep" /\ task'[t].dst = task[t].dst)
    <2>1. CASE task' = [task EXCEPT ![t] = IdleTask]
      BY <2>1, IdleFacts, Types
    <2>2. CASE task' = [task EXCEPT ![t].pc = "sleep", ![t].ticks = k]
      BY <1>2, <2>2, Types DEF TaskType, Calling
    <2> QED
      BY <1>1, <2>1, <2>2
  <1>4. /\ task[t].pc \in Locked \intersect Calling /\ task[t].pc \notin Sending \union Reading
        /\ task'[t].pc \notin Locked \union Sending \union Reading
        /\ task'[t].pc \notin {"alloc_end", "poll_end"}
        /\ task'[t].pc \in Calling => task'[t].dst = task[t].dst
    BY <1>1, <1>3 DEF Locked, Sending, Reading, Calling
  <1>5. lock' \in [Side -> Tasks \union {Free, RxThread}] /\ Locking'
    BY <1>1, <1>3, <1>4, Unlocks
  <1>6. FullType'
    BY <1>1, <1>3, <1>5, Types, TypesKept DEF FullType
  <1>7. Heads'
    BY <1>1, <1>3, <1>4, RingsKept DEF IInv, Heads
  <1>8. task'[t].pc \in Calling => task'[t].dst \in Dst
    BY <1>4 DEF IInv, Contents
  <1> QED
    BY <1>1, <1>3, <1>4, <1>5, <1>6, <1>7, <1>8, NoBuffer DEF IInv

(* hdr.reserved.idx is only ever set to the number of its buffer. *)
LEMMA KeepIdxFacts ==
    ASSUME IInv, NEW r \in Ring, NEW d \in Desc, reserved' = KeepIdx(r, d)
    PROVE  /\ reserved' \in [Ring -> [Desc -> Desc]]
           /\ reserved'[r][d] = d
           /\ \A q \in Ring, e \in Desc : reserved[q][e] = e => reserved'[q][e] = e
  BY Types DEF KeepIdx

(* A buffer leaves a ring: it was nowhere else, and is not there any more.  *)
LEMMA LeavesRing ==
    ASSUME IInv, NEW s \in Side, NEW r \in Ring, NEW d, In(s, r) # << >>, d = Head(In(s, r)),
           In(s, r)' = Tail(In(s, r)),
           \A o \in Side, q \in Ring : o # s \/ q # r => In(o, q)' = In(o, q)
    PROVE  /\ d \in Desc
           /\ \A o \in Side : ~InQueue(o, r, d) /\ ~InCallback(o, r, d)
           /\ \A u \in Tasks : ~HeldByTask(u, r, d)
           /\ \A o \in Side, q \in Ring, e \in Desc :
                e \in Entries(In(o, q))' <=> e \in Entries(In(o, q)) /\ ~(q = r /\ e = d)
           /\ \A o \in Side, q \in Ring : NoRepeat(In(o, q))'
  <1>1. In(s, r) \in Seq(Desc) /\ NoRepeat(In(s, r)) /\ Entries(In(s, r)) \subseteq Desc
    BY InFacts, Types DEF IInv, Once
  <1>2. /\ d \in Entries(In(s, r))
        /\ Entries(Tail(In(s, r))) = Entries(In(s, r)) \ {d} /\ NoRepeat(Tail(In(s, r)))
    BY <1>1, TailEntries
  <1>3. d \in Desc
    BY <1>1, <1>2
  <1>4. /\ \A o \in Side : d \in Entries(In(o, r)) => o = s
        /\ \A o \in Side : ~InQueue(o, r, d) /\ ~InCallback(o, r, d)
        /\ \A u \in Tasks : ~HeldByTask(u, r, d)
    BY <1>2, <1>3, Apart DEF IInv
  <1>5. ASSUME NEW o \in Side, NEW q \in Ring, NEW e \in Desc
        PROVE  e \in Entries(In(o, q))' <=> (e \in Entries(In(o, q)) /\ ~(q = r /\ e = d))
    <2>1. CASE o = s /\ q = r
      <3>1. Entries(In(s, r))' = Entries(Tail(In(s, r)))
        BY DEF Entries
      <3> QED
        BY <1>2, <2>1, <3>1
    <2>2. CASE o # s \/ q # r
      BY <1>4, <2>2 DEF Entries
    <2> QED
      BY <2>1, <2>2
  <1>6. ASSUME NEW o \in Side, NEW q \in Ring
        PROVE  NoRepeat(In(o, q))'
    <2>1. CASE o = s /\ q = r
      <3> DEFINE w == Tail(In(s, r))
      <3>1. In(o, q)' = w /\ NoRepeat(w)
        BY <1>2, <2>1
      <3> HIDE DEF w
      <3> QED
        BY <3>1 DEF NoRepeat
    <2>2. CASE o # s \/ q # r
      BY <2>2 DEF NoRepeat, IInv, Once
    <2> QED
      BY <2>1, <2>2
  <1> QED
    BY <1>3, <1>4, <1>5, <1>6

(* A buffer that is in no ring enters one. *)
LEMMA EntersRing ==
    ASSUME IInv, NEW s \in Side, NEW r \in Ring, NEW d \in Desc,
           \A o \in Side : d \notin Entries(In(o, r)),
           In(s, r)' = Append(In(s, r), d),
           \A o \in Side, q \in Ring : o # s \/ q # r => In(o, q)' = In(o, q)
    PROVE  /\ \A o \in Side, q \in Ring, e \in Desc :
                e \in Entries(In(o, q))' <=> IF q = r /\ e = d THEN o = s
                                                              ELSE e \in Entries(In(o, q))
           /\ \A o \in Side, q \in Ring : NoRepeat(In(o, q))'
  <1>1. In(s, r) \in Seq(Desc) /\ NoRepeat(In(s, r)) /\ d \notin Entries(In(s, r))
    BY InFacts, Types DEF IInv, Once
  <1>2. /\ Entries(Append(In(s, r), d)) = Entries(In(s, r)) \union {d}
        /\ NoRepeat(Append(In(s, r), d))
    BY <1>1, AppendEntries
  <1>3. ASSUME NEW o \in Side, NEW q \in Ring, NEW e \in Desc
        PROVE  e \in Entries(In(o, q))' <=> IF q = r /\ e = d THEN o = s
                                                             ELSE e \in Entries(In(o, q))
    <2>1. CASE o = s /\ q = r
      <3>1. Entries(In(s, r))' = Entries(Append(In(s, r), d))
        BY DEF Entries
      <3> QED
        BY <1>2, <2>1, <3>1
    <2>2. CASE o # s \/ q # r
      <3>1. Entries(In(o, q))' = Entries(In(o, q))
        BY <2>2 DEF Entries
      <3> QED
        BY <2>2, <3>1
    <2> QED
      BY <2>1, <2>2
  <1>4. ASSUME NEW o \in Side, NEW q \in Ring
        PROVE  NoRepeat(In(o, q))'
    <2>1. CASE o = s /\ q = r
      BY <1>2, <2>1 DEF NoRepeat
    <2>2. CASE o # s \/ q # r
      BY <2>2 DEF NoRepeat, IInv, Once
    <2> QED
      BY <2>1, <2>2
  <1> QED
    BY <1>3, <1>4

(* The end of the allocation with a buffer: from the ring to the task. *)
LEMMA AllocGot ==
    ASSUME IInv, NEW t \in Tasks, AllocEnd(t), task[t].d # None
    PROVE  IInv'
  <1> DEFINE s == SideOf(t)
             r == tvq(s)
             d == task[t].d
  <1>1. /\ task[t].pc \in {"alloc_end", "poll_end"}
        /\ lock' = [lock EXCEPT ![s] = Free]
        /\ vq' = [vq EXCEPT ![r] = consume(s, vq[r])]
        /\ reserved' = IF task[t].nocopy THEN KeepIdx(r, d) ELSE reserved
        /\ task' = [task EXCEPT ![t].pc = "fill"]
        /\ UNCHANGED <<setup, buf, link_state, doorbell, isr, sent, rx_queue,
                       published, delivered, dropped>>
    BY DEF AllocEnd, At, Release, Return, TimedOut, Goto
  <1>2. s \in Side /\ r \in Ring /\ task[t] \in TaskType /\ d \in Desc
    <2>1. task[t] \in TaskType
      BY Types
    <2>2. d \in Desc
      BY <2>1 DEF TaskType
    <2> QED
      BY <2>1, <2>2, SideFacts
  <1>3. In(s, r) # << >> /\ d = Head(In(s, r)) /\ pending(s, vq[r]) /\ In(s, r) \in Seq(Desc)
    BY <1>1, <1>2, InFacts, Types DEF IInv, Heads
  <1>4. /\ reserved' \in [Ring -> [Desc -> Desc]]
        /\ task[t].nocopy => reserved'[r][d] = d
        /\ \A q \in Ring, e \in Desc : reserved[q][e] = e => reserved'[q][e] = e
    <2>1. CASE task[t].nocopy
      BY <1>1, <1>2, <2>1, KeepIdxFacts
    <2>2. CASE ~task[t].nocopy
      BY <1>1, <2>2, Types
    <2> QED
      BY <2>1, <2>2
  <1>5. /\ vq' \in [Ring -> Vq]
        /\ In(s, r)' = Tail(In(s, r))
        /\ \A o \in Side, q \in Ring : o # s \/ q # r => In(o, q)' = In(o, q)
        /\ \A o \in Side, q \in Ring : Tip(o, q)' = Tip(o, q)
    BY <1>1, <1>2, <1>3, Take, Types
  <1>6. /\ \A o \in Side : ~InQueue(o, r, d) /\ ~InCallback(o, r, d)
        /\ \A u \in Tasks : ~HeldByTask(u, r, d)
        /\ \A o \in Side, q \in Ring, e \in Desc :
             e \in Entries(In(o, q))' <=> e \in Entries(In(o, q)) /\ ~(q = r /\ e = d)
        /\ \A o \in Side, q \in Ring : NoRepeat(In(o, q))'
    BY <1>2, <1>3, <1>5, LeavesRing
  <1> HIDE DEF r, s, d
  <1>7. /\ task' \in [Tasks -> TaskType]
        /\ task'[t].pc = "fill" /\ task'[t].d = d /\ task'[t].dst = task[t].dst
        /\ task'[t].nocopy = task[t].nocopy
        /\ \A u \in Tasks \ {t} : task'[u] = task[u]
    BY <1>1, <1>2, Types DEF TaskType, Calling, d
  <1>8. /\ task[t].pc \in Locked \intersect Calling /\ task[t].pc \notin Sending \union Reading
        /\ task'[t].pc \in Sending /\ task'[t].pc \notin Locked \union Reading
    BY <1>1, <1>7 DEF Locked, Sending, Reading, Calling
  <1>9. lock' \in [Side -> Tasks \union {Free, RxThread}] /\ Locking'
    BY <1>1, <1>7, <1>8, Unlocks DEF s
  <1>10. FullType'
    BY <1>1, <1>4, <1>5, <1>7, <1>9, Types, TypesKept DEF FullType
  <1>11. HasBuffer'
    BY <1>1, <1>2, <1>7 DEF IInv, HasBuffer
  <1>12. Heads'
    <2>1. ASSUME NEW u \in Tasks, u # t, task[u].pc \in {"alloc_end", "poll_end"}
          PROVE  SideOf(u) # s
      BY <1>8, <2>1 DEF IInv, Locking, Locked, s
    <2>2. \A u \in Tasks : SideOf(u) # s =>
            In(SideOf(u), tvq(SideOf(u)))' = In(SideOf(u), tvq(SideOf(u)))
      BY <1>5, SideFacts
    <2> QED
      BY <1>7, <2>1, <2>2 DEF IInv, Heads
  <1>13. Tips'
    BY <1>1, <1>5, <1>7, SideFacts DEF IInv, Tips
  <1>14. Headers'
    <2>1. \A u \in Tasks : task'[u].pc \in Sending /\ task'[u].nocopy =>
            reserved'[tvq(SideOf(u))][task'[u].d] = task'[u].d
      BY <1>2, <1>4, <1>7, SideFacts DEF IInv, Headers, HasBuffer, s, r
    <2>2. \A o \in Side, e \in Desc : IdxKept(o, e) => IdxKept(o, e)'
      BY <1>1, <1>4, SideFacts DEF IdxKept
    <2>3. \A u \in Tasks : (task[u].pc \in Reading => IdxKept(SideOf(u), task[u].d))'
      BY <1>7, <1>8, <2>2, SideFacts DEF IInv, Headers, HasBuffer
    <2>4. \A o \in Side : \A i \in 1..Len(rx_queue[o]) : IdxKept(o, rx_queue[o][i].d)'
      BY <1>1, <2>2, QueueFacts DEF IInv, Headers
    <2> QED
      BY <1>1, <2>1, <2>3, <2>4 DEF Headers
  <1>15. OnePlace'
    <2>1. <<"task", t>> \in Place
      BY DEF Place
    <2>2. \A o \in Side, q \in Ring, e \in Desc :
            e \in Entries(In(o, q))' <=> IF q = r /\ e = d THEN <<"task", t>> = <<"ring", o>>
                                                          ELSE e \in Entries(In(o, q))
      BY <1>6
    <2>3. \A u \in Tasks, q \in Ring, e \in Desc :
            HeldByTask(u, q, e)' <=> IF q = r /\ e = d THEN <<"task", t>> = <<"task", u>>
                                                      ELSE HeldByTask(u, q, e)
      BY <1>6, <1>7, <1>8 DEF HeldByTask, r, s
    <2>4. \A o \in Side, q \in Ring, e \in Desc :
            InQueue(o, q, e)' <=> IF q = r /\ e = d THEN <<"task", t>> = <<"queue", o>>
                                                   ELSE InQueue(o, q, e)
      BY <1>1, <1>6 DEF InQueue
    <2>5. \A o \in Side, q \in Ring, e \in Desc :
            InCallback(o, q, e)' <=> IF q = r /\ e = d THEN <<"task", t>> = <<"isr", o>>
                                                      ELSE InCallback(o, q, e)
      BY <1>1, <1>6 DEF InCallback
    <2> QED
      BY <1>2, <2>1, <2>2, <2>3, <2>4, <2>5, Moved DEF IInv
  <1>16. Once'
    BY <1>1, <1>6 DEF IInv, Once
  <1>17. \A o \in Side : In(o, rvq(o))' = In(o, rvq(o))
    BY <1>5, SideFacts DEF r, s
  <1>18. InOrder' /\ NothingDropped'
    BY <1>1, <1>17, OrderKept DEF IInv, NothingDropped
  <1>19. Contents' /\ HeldIntact'
    <2>1. Dst' = Dst
      BY <1>1, TypesKept
    <2>2. Contents'
      BY <1>1, <1>7, <1>8, <1>17, <2>1 DEF IInv, Contents
    <2>3. HeldIntact'
      BY <1>1, <1>7 DEF IInv, HeldIntact
    <2> QED
      BY <2>2, <2>3
  <1> QED
    BY <1>9, <1>10, <1>11, <1>12, <1>13, <1>14, <1>15, <1>16, <1>18, <1>19 DEF IInv

(* The header and the payload are written to the buffer.                    *)
LEMMA FillInv ==
    ASSUME IInv, NEW t \in Tasks, Fill(t)
    PROVE  IInv'
  <1> DEFINE s == SideOf(t)
             r == tvq(s)
             d == task[t].d
             b == [dst |-> task[t].dst, msg |-> task[t].msg]
  <1>1. /\ task[t].pc = "fill"
        /\ buf' = [buf EXCEPT ![r][d] = b]
        /\ task' = [task EXCEPT ![t].pc = "enqueue"]
        /\ UNCHANGED <<setup, vq, reserved, lock, link_state, doorbell, isr, sent, rx_queue,
                       published, delivered, dropped>>
    BY DEF Fill, At, Goto
  <1>2. s \in Side /\ r \in Ring /\ task[t] \in TaskType /\ d \in Desc /\ task[t].dst \in Dst
    BY <1>1, SideFacts, Types DEF IInv, HasBuffer, Contents, Sending, Calling
  <1>3. b \in BufType /\ b.dst \in Dst /\ b.msg = task[t].msg
    BY <1>2 DEF TaskType, BufType
  <1>4. HeldByTask(t, r, d)
    BY <1>1 DEF HeldByTask, Sending
  <1>5. /\ \A o \in Side : /\ d \notin Entries(In(o, r))
                           /\ ~InQueue(o, r, d) /\ ~InCallback(o, r, d)
        /\ \A u \in Tasks : HeldByTask(u, r, d) => u = t
    BY <1>2, <1>4, Apart DEF IInv
  <1>6. b = [dst |-> task[t].dst, msg |-> task[t].msg]
    OBVIOUS
  <1> HIDE DEF r, s, d, b
  <1>7. /\ task' \in [Tasks -> TaskType]
        /\ task'[t].pc = "enqueue" /\ task'[t].d = d /\ task'[t].dst = task[t].dst
        /\ task'[t].msg = task[t].msg /\ task'[t].nocopy = task[t].nocopy
        /\ \A u \in Tasks \ {t} : task'[u] = task[u]
    BY <1>1, <1>2, Types DEF TaskType, Calling, d
  <1>8. /\ buf' \in [Ring -> [Desc -> BufType]] /\ buf'[r][d] = b
        /\ \A q \in Ring, e \in Desc : q # r \/ e # d => buf'[q][e] = buf[q][e]
    BY <1>1, <1>2, <1>3, Types
  <1>9. /\ task[t].pc \in Sending /\ task[t].pc \notin Locked \union Reading
        /\ task'[t].pc \in Sending /\ task'[t].pc \notin Locked \union Reading
    BY <1>1, <1>7 DEF Locked, Sending, Reading
  <1>10. FullType'
    BY <1>1, <1>7, <1>8, Types, TypesKept DEF FullType
  <1>11. HasBuffer'
    BY <1>1, <1>2, <1>7 DEF IInv, HasBuffer
  <1>12. Locking'
    BY <1>1, <1>7, <1>9, TypesKept DEF IInv, Locking
  <1>13. Heads' /\ Tips'
    BY <1>1, <1>7, RingsKept DEF IInv, Heads, Tips
  <1>14. Headers'
    BY <1>1, <1>7, <1>9 DEF IInv, Headers, IdxKept, d
  <1>15. OnePlace'
    <2>1. \A u \in Tasks, q \in Ring, e \in Desc : HeldByTask(u, q, e)' <=> HeldByTask(u, q, e)
      BY <1>7, <1>9 DEF HeldByTask, d
    <2>2. \A o \in Side, q \in Ring, e \in Desc : /\ InQueue(o, q, e)' <=> InQueue(o, q, e)
                                                  /\ InCallback(o, q, e)' <=> InCallback(o, q, e)
      BY <1>1 DEF InQueue, InCallback
    <2> QED
      BY <1>1, <2>1, <2>2, RingsKept, Stayed DEF IInv
  <1>16. Once'
    BY <1>1, RingsKept DEF IInv, Once
  <1>17. InOrder' /\ NothingDropped'
    <2>1. ASSUME NEW o \in Side
          PROVE  Texts(o)' = Texts(o)
      <3>1. \A i \in DOMAIN In(o, rvq(o)) :
              /\ In(o, rvq(o))[i] \in Desc
              /\ buf'[rvq(o)][In(o, rvq(o))[i]] = buf[rvq(o)][In(o, rvq(o))[i]]
        BY <1>5, <1>8, InFacts, Types, SideFacts DEF Entries
      <3> QED
        BY <1>1, <3>1, RingsKept DEF Texts
    <2> QED
      BY <1>1, <2>1 DEF IInv, InOrder, NothingDropped
  <1>18. Contents'
    <2>1. ASSUME NEW u \in Tasks, task'[u].pc \in {"enqueue", "enqueue_idx"}
          PROVE  buf'[tvq(SideOf(u))][task'[u].d] = [dst |-> task'[u].dst, msg |-> task'[u].msg]
      <3>1. CASE u = t
        BY <1>6, <1>7, <1>8, <3>1 DEF r, s
      <3>2. CASE u # t
        <4>1. task[u].pc \in Sending /\ task'[u] = task[u] /\ task[u].d \in Desc
          BY <1>7, <2>1, <3>2 DEF IInv, HasBuffer, Sending
        <4>2. tvq(SideOf(u)) # r \/ task[u].d # d
          BY <1>5, <3>2, <4>1 DEF HeldByTask
        <4> QED
          BY <1>8, <2>1, <4>1, <4>2, SideFacts DEF IInv, Contents
      <3> QED
        BY <3>1, <3>2
    <2>2. ASSUME NEW o \in Side, NEW e \in Entries(In(o, rvq(o)))
          PROVE  buf'[rvq(o)][e].dst \in Dst
      <3>1. rvq(o) \in Ring
        BY SideFacts
      <3>2. e \in Desc
        BY <3>1, InFacts, Types
      <3>3. buf[rvq(o)][e].dst \in Dst
        BY DEF IInv, Contents
      <3> QED
        BY <1>3, <1>8, <3>1, <3>2, <3>3
    <2>3. \A u \in Tasks : task'[u].pc \in Calling => task'[u].dst \in Dst
      BY <1>2, <1>7 DEF IInv, Contents
    <2>4. Dst' = Dst /\ \A o \in Side : Entries(In(o, rvq(o)))' = Entries(In(o, rvq(o)))
      BY <1>1, TypesKept, RingsKept DEF Entries
    <2> QED
      BY <2>1, <2>2, <2>3, <2>4 DEF Contents
  <1>19. HeldIntact'
    <2>1. ASSUME NEW o \in Side, NEW i \in DOMAIN rx_queue[o]
          PROVE  buf'[rvq(o)][rx_queue[o][i].d].msg = rx_queue[o][i].msg
      <3>1. i \in 1..Len(rx_queue[o]) /\ rx_queue[o][i].d \in Desc /\ rvq(o) \in Ring
        BY <2>1, QueueFacts, SideFacts
      <3>2. InQueue(o, rvq(o), rx_queue[o][i].d)
        BY <3>1 DEF InQueue
      <3> QED
        BY <1>5, <1>8, <3>1, <3>2 DEF IInv, HeldIntact
    <2>2. ASSUME NEW u \in Tasks, task'[u].pc = "copy"
          PROVE  buf'[rvq(SideOf(u))][task'[u].d].msg = task'[u].msg
      <3>1. u # t /\ task'[u] = task[u] /\ task[u].pc \in Reading
        BY <1>7, <2>2 DEF Reading
      <3>2. task[u].d \in Desc /\ rvq(SideOf(u)) \in Ring
        BY <3>1, SideFacts DEF IInv, HasBuffer
      <3>3. rvq(SideOf(u)) # r \/ task[u].d # d
        BY <1>5, <3>1 DEF HeldByTask
      <3> QED
        BY <1>8, <2>2, <3>1, <3>2, <3>3 DEF IInv, HeldIntact
    <2> QED
      BY <1>1, <2>1, <2>2 DEF HeldIntact
  <1> QED
    BY <1>10, <1>11, <1>12, <1>13, <1>14, <1>15, <1>16, <1>17, <1>18, <1>19 DEF IInv

(* The first half of vq_tx: the slot at the tip, which no one else uses.    *)
LEMMA EnqueueSlotInv ==
    ASSUME IInv, NEW t \in Tasks, EnqueueSlot(t)
    PROVE  IInv'
  <1> DEFINE s == SideOf(t)
             r == tvq(s)
             d == task[t].d
             x == IF task[t].nocopy THEN reserved[r][d] ELSE d
  <1>1. /\ task[t].pc = "enqueue"
        /\ lock[s] = Free /\ lock' = [lock EXCEPT ![s] = t]
        /\ vq' = [vq EXCEPT ![r] = put_slot(s, vq[r], x)]
        /\ task' = [task EXCEPT ![t].pc = "enqueue_idx"]
        /\ UNCHANGED <<setup, buf, reserved, link_state, doorbell, isr, sent, rx_queue,
                       published, delivered, dropped>>
    BY DEF EnqueueSlot, At, Goto, Acquire
  <1>2. s \in Side /\ r \in Ring /\ task[t] \in TaskType /\ d \in Desc /\ Other(s) \in Side
    BY <1>1, SideFacts, Types DEF IInv, HasBuffer, Sending
  <1>3. x = d
    BY <1>1 DEF IInv, Headers, Sending
  <1>4. HeldByTask(t, r, d)
    BY <1>1 DEF HeldByTask, Sending
  <1>5. Len(In(Other(s), r)) < N
    <2>1. d \notin Entries(In(Other(s), r))
      BY <1>2, <1>4, Apart DEF IInv
    <2> QED
      BY <1>2, <2>1, Room, Types DEF IInv
  <1>6. /\ vq' \in [Ring -> Vq]
        /\ \A o \in Side, q \in Ring : In(o, q)' = In(o, q)
        /\ Tip(s, r)' = d
        /\ \A o \in Side, q \in Ring : o # s \/ q # r => Tip(o, q)' = Tip(o, q)
    BY <1>1, <1>2, <1>3, <1>5, Write, Types
  <1> HIDE DEF r, s, d, x
  <1>7. /\ task' \in [Tasks -> TaskType]
        /\ task'[t].pc = "enqueue_idx" /\ task'[t].d = d /\ task'[t].dst = task[t].dst
        /\ task'[t].msg = task[t].msg /\ task'[t].nocopy = task[t].nocopy
        /\ \A u \in Tasks \ {t} : task'[u] = task[u]
    BY <1>1, <1>2, Types DEF TaskType, Calling, d
  <1>8. /\ task[t].pc \in Sending /\ task[t].pc \notin Reading
        /\ task'[t].pc \in Sending /\ task'[t].pc \notin Reading
    BY <1>1, <1>7 DEF Sending, Reading
  <1>9. /\ lock' \in [Side -> Tasks \union {Free, RxThread}] /\ Locking'
        /\ \A u \in Tasks : task[u].pc \in Locked => SideOf(u) # s
    BY <1>1, <1>7, <1>8, Locks DEF s
  <1>10. FullType'
    BY <1>1, <1>6, <1>7, <1>9, Types, TypesKept DEF FullType
  <1>11. HasBuffer'
    BY <1>1, <1>2, <1>7 DEF IInv, HasBuffer
  <1>12. Heads'
    BY <1>6, <1>7, SideFacts DEF IInv, Heads
  <1>13. Tips'
    <2>1. ASSUME NEW u \in Tasks, task'[u].pc = "enqueue_idx"
          PROVE  Tip(SideOf(u), tvq(SideOf(u)))' = task'[u].d
      <3>1. CASE u = t
        BY <1>6, <1>7, <3>1 DEF r, s
      <3>2. CASE u # t
        <4>1. task'[u] = task[u] /\ SideOf(u) # s
          BY <1>7, <1>9, <2>1, <3>2 DEF Locked
        <4> QED
          BY <1>6, <2>1, <4>1, SideFacts DEF IInv, Tips
      <3> QED
        BY <3>1, <3>2
    <2>2. ASSUME NEW u \in Tasks, task'[u].pc = "release_idx"
          PROVE  Tip(SideOf(u), rvq(SideOf(u)))' = task'[u].d
      BY <1>6, <1>7, <2>2, SideFacts DEF IInv, Tips, s, r
    <2>3. ASSUME NEW o \in Side, isr'[o].pc = "free_idx"
          PROVE  Tip(o, rvq(o))' = isr'[o].d
      BY <1>1, <1>6, <2>3, SideFacts DEF IInv, Tips, s, r
    <2> QED
      BY <2>1, <2>2, <2>3 DEF Tips
  <1>14. Headers'
    BY <1>1, <1>7, <1>8 DEF IInv, Headers, IdxKept, d
  <1>15. OnePlace'
    <2>1. \A u \in Tasks, q \in Ring, e \in Desc : HeldByTask(u, q, e)' <=> HeldByTask(u, q, e)
      BY <1>7, <1>8 DEF HeldByTask, d
    <2>2. \A o \in Side, q \in Ring, e \in Desc : /\ InQueue(o, q, e)' <=> InQueue(o, q, e)
                                                  /\ InCallback(o, q, e)' <=> InCallback(o, q, e)
      BY <1>1 DEF InQueue, InCallback
    <2> QED
      BY <1>6, <2>1, <2>2, Stayed DEF IInv
  <1>16. Once'
    BY <1>1, <1>6 DEF IInv, Once
  <1>17. InOrder' /\ NothingDropped'
    BY <1>1, <1>6, OrderKept, SideFacts DEF IInv, NothingDropped
  <1>18. Contents'
    <2>1. Dst' = Dst /\ \A o \in Side : Entries(In(o, rvq(o)))' = Entries(In(o, rvq(o)))
      BY <1>1, <1>6, TypesKept, SideFacts DEF Entries
    <2> QED
      BY <1>1, <1>7, <2>1 DEF IInv, Contents, Calling, d
  <1>19. HeldIntact'
    BY <1>1, <1>7 DEF IInv, HeldIntact
  <1> QED
    BY <1>9, <1>10, <1>11, <1>12, <1>13, <1>14, <1>15, <1>16, <1>17, <1>18, <1>19 DEF IInv

(* The second half of vq_tx: from the task to the ring, and the message     *)
(* becomes the last of those on their way.                                  *)
LEMMA EnqueueIdxInv ==
    ASSUME IInv, NEW t \in Tasks, EnqueueIdx(t)
    PROVE  IInv'
  <1> DEFINE s == SideOf(t)
             r == tvq(s)
             z == Other(s)
             d == task[t].d
  <1>1. /\ task[t].pc = "enqueue_idx"
        /\ vq' = [vq EXCEPT ![r] = put_idx(s, vq[r])]
        /\ published' = [published EXCEPT ![r] = Append(@, task[t].msg)]
        /\ task' = [task EXCEPT ![t].pc = "enqueue_kick"]
        /\ UNCHANGED <<setup, buf, reserved, lock, link_state, doorbell, isr, sent, rx_queue,
                       delivered, dropped>>
    BY DEF EnqueueIdx, At, Goto
  <1>2. /\ s \in Side /\ r \in Ring /\ task[t] \in TaskType /\ d \in Desc
        /\ z \in Side /\ rvq(z) = r /\ z # s /\ \A o \in Side : o # z => o = s
    BY <1>1, SideFacts, Types DEF IInv, HasBuffer, Sending
  <1>3. HeldByTask(t, r, d)
    BY <1>1 DEF HeldByTask, Sending
  <1>4. /\ \A o \in Side : /\ d \notin Entries(In(o, r))
                           /\ ~InQueue(o, r, d) /\ ~InCallback(o, r, d)
        /\ \A u \in Tasks : HeldByTask(u, r, d) => u = t
    BY <1>2, <1>3, Apart DEF IInv
  <1>5. Len(In(z, r)) < N
    BY <1>2, <1>4, Room, Types DEF IInv
  <1>6. Tip(s, r) = d /\ buf[r][d] = [dst |-> task[t].dst, msg |-> task[t].msg]
    BY <1>1 DEF IInv, Tips, Contents
  <1>7. /\ vq' \in [Ring -> Vq]
        /\ In(z, r)' = Append(In(z, r), d)
        /\ \A o \in Side, q \in Ring : o # z \/ q # r => In(o, q)' = In(o, q)
        /\ \A o \in Side, q \in Ring : o # s \/ q # r => Tip(o, q)' = Tip(o, q)
    <2>1. /\ vq' \in [Ring -> Vq]
          /\ In(Other(s), r)' = Append(In(Other(s), r), Tip(s, r))
          /\ \A o \in Side, q \in Ring : o # Other(s) \/ q # r => In(o, q)' = In(o, q)
          /\ \A o \in Side, q \in Ring : o # s \/ q # r => Tip(o, q)' = Tip(o, q)
      BY <1>1, <1>2, <1>5, Publish, Types
    <2> QED
      BY <1>6, <2>1
  <1> HIDE DEF r, s, z, d
  <1>8. /\ \A o \in Side, q \in Ring, e \in Desc :
             e \in Entries(In(o, q))' <=> IF q = r /\ e = d THEN o = z
                                                           ELSE e \in Entries(In(o, q))
        /\ \A o \in Side, q \in Ring : NoRepeat(In(o, q))'
    BY <1>2, <1>4, <1>7, EntersRing
  <1>9. /\ task' \in [Tasks -> TaskType]
        /\ task'[t].pc = "enqueue_kick" /\ task'[t].dst = task[t].dst
        /\ \A u \in Tasks \ {t} : task'[u] = task[u]
    BY <1>1, <1>2, Types DEF TaskType, Calling
  <1>10. /\ task[t].pc \in Locked \intersect Calling /\ task'[t].pc \in Locked
         /\ task'[t].pc \notin Sending \union Reading
    BY <1>1, <1>9 DEF Locked, Calling, Sending, Reading
  <1>11. published' \in [Ring -> Seq(Msg \union {NoMsg})]
    BY <1>1, <1>2, Types DEF TaskType
  <1>12. FullType'
    BY <1>1, <1>7, <1>9, <1>11, Types, TypesKept DEF FullType
  <1>13. HasBuffer' /\ Locking'
    BY <1>1, <1>9, <1>10, TypesKept DEF IInv, HasBuffer, Locking
  <1>14. Heads'
    BY <1>2, <1>7, <1>9, SideFacts DEF IInv, Heads
  <1>15. Tips'
    <2>1. ASSUME NEW u \in Tasks, task'[u].pc = "enqueue_idx"
          PROVE  Tip(SideOf(u), tvq(SideOf(u)))' = task'[u].d
      <3>1. task'[u] = task[u] /\ u # t
        BY <1>9, <2>1
      <3>2. SideOf(u) # s
        BY <1>10, <2>1, <3>1 DEF IInv, Locking, Locked, s
      <3> QED
        BY <1>7, <2>1, <3>1, <3>2, SideFacts DEF IInv, Tips
    <2>2. ASSUME NEW u \in Tasks, task'[u].pc = "release_idx"
          PROVE  Tip(SideOf(u), rvq(SideOf(u)))' = task'[u].d
      BY <1>7, <1>9, <2>2, SideFacts DEF IInv, Tips, s, r
    <2>3. ASSUME NEW o \in Side, isr'[o].pc = "free_idx"
          PROVE  Tip(o, rvq(o))' = isr'[o].d
      BY <1>1, <1>7, <2>3, SideFacts DEF IInv, Tips, s, r
    <2> QED
      BY <2>1, <2>2, <2>3 DEF Tips
  <1>16. Headers'
    BY <1>1, <1>9, <1>10 DEF IInv, Headers, IdxKept
  <1>17. OnePlace'
    <2>1. <<"ring", z>> \in Place
      BY <1>2 DEF Place
    <2>2. \A o \in Side, q \in Ring, e \in Desc :
            e \in Entries(In(o, q))' <=> IF q = r /\ e = d THEN <<"ring", z>> = <<"ring", o>>
                                                          ELSE e \in Entries(In(o, q))
      BY <1>8
    <2>3. \A u \in Tasks, q \in Ring, e \in Desc :
            HeldByTask(u, q, e)' <=> IF q = r /\ e = d THEN <<"ring", z>> = <<"task", u>>
                                                      ELSE HeldByTask(u, q, e)
      <3>1. \A u \in Tasks \ {t} : \A q, e : HeldByTask(u, q, e)' <=> HeldByTask(u, q, e)
        BY <1>9 DEF HeldByTask
      <3>2. \A q, e : ~HeldByTask(t, q, e)' /\ (HeldByTask(t, q, e) => q = r /\ e = d)
        BY <1>1, <1>10 DEF HeldByTask, Reading, d, r, s
      <3> QED
        BY <1>4, <3>1, <3>2
    <2>4. \A o \in Side, q \in Ring, e \in Desc :
            InQueue(o, q, e)' <=> IF q = r /\ e = d THEN <<"ring", z>> = <<"queue", o>>
                                                   ELSE InQueue(o, q, e)
      BY <1>1, <1>4 DEF InQueue
    <2>5. \A o \in Side, q \in Ring, e \in Desc :
            InCallback(o, q, e)' <=> IF q = r /\ e = d THEN <<"ring", z>> = <<"isr", o>>
                                                      ELSE InCallback(o, q, e)
      BY <1>1, <1>4 DEF InCallback
    <2> QED
      BY <1>2, <2>1, <2>2, <2>3, <2>4, <2>5, Moved DEF IInv
  <1>18. Once'
    BY <1>1, <1>8 DEF IInv, Once
  <1>19. InOrder'
    <2>1. ASSUME NEW o \in Side
          PROVE  (published[rvq(o)] = delivered[rvq(o)] \o Texts(o))'
      <3>1. CASE o = z
        <4> DEFINE w == In(z, r)
                   m == buf[r][d].msg
                   T == Texts(z)
        <4>1. w \in Seq(Desc) /\ m = task[t].msg /\ m \in Msg \union {NoMsg}
          BY <1>2, <1>6, InFacts, Types DEF TaskType
        <4>2. T = [i \in DOMAIN w |-> buf[r][w[i]].msg]
          BY <1>2 DEF Texts
        <4>3. T \in Seq(Msg \union {NoMsg})
          <5>1. \A e \in Desc : buf[r][e].msg \in Msg \union {NoMsg}
            BY <1>2, Types DEF BufType
          <5> HIDE DEF w, T
          <5>2. \A i \in 1..Len(w) : w[i] \in Desc
            BY <4>1
          <5> QED
            BY <4>1, <4>2, <5>1, <5>2
        <4>4. Texts(z)' = [i \in DOMAIN Append(w, d) |-> buf[r][Append(w, d)[i]].msg]
          BY <1>1, <1>2, <1>7 DEF Texts
        <4> HIDE DEF w, m, T
        <4>5. [i \in DOMAIN Append(w, d) |-> buf[r][Append(w, d)[i]].msg] = Append(T, m)
          BY <4>1, <4>2 DEF m
        <4>6. published[r] = delivered[r] \o T
          BY <1>2 DEF IInv, InOrder, T
        <4>7. Append(delivered[r] \o T, m) = delivered[r] \o Append(T, m)
          <5> DEFINE S == Msg \union {NoMsg}
                     a == delivered[r]
          <5>1. a \in Seq(S) /\ T \in Seq(S) /\ m \in S
            BY <1>2, <4>1, <4>3, Types
          <5> HIDE DEF S, a
          <5>2. Append(a \o T, m) = a \o Append(T, m)
            BY <5>1
          <5> QED
            BY <5>2 DEF a
        <4>8. published'[r] = Append(published[r], m)
          BY <1>1, <1>2, <4>1, Types
        <4> QED
          BY <1>1, <1>2, <3>1, <4>4, <4>5, <4>6, <4>7, <4>8
      <3>2. CASE o # z
        <4>1. rvq(o) # r /\ rvq(o) \in Ring
          BY <1>2, <3>2, SideFacts DEF s, r
        <4>2. Texts(o)' = Texts(o)
          BY <1>1, <1>7, <4>1 DEF Texts
        <4> QED
          BY <1>1, <4>1, <4>2, Types DEF IInv, InOrder
      <3> QED
        BY <3>1, <3>2
    <2> QED
      BY <2>1 DEF InOrder
  <1>20. Contents'
    <2>1. \A o \in Side : \A e \in Entries(In(o, rvq(o)))' : buf[rvq(o)][e].dst \in Dst
      <3>1. buf[r][d].dst \in Dst
        BY <1>6, <1>10 DEF IInv, Contents
      <3>2. ASSUME NEW o \in Side, NEW e \in Entries(In(o, rvq(o)))'
            PROVE  e \in Desc /\ rvq(o) \in Ring
        BY <1>7, NextEntries, SideFacts
      <3> QED
        BY <1>8, <3>1, <3>2 DEF IInv, Contents
    <2>2. Dst' = Dst /\ task'[t].pc \notin {"enqueue", "enqueue_idx"}
      BY <1>1, <1>9, TypesKept
    <2> QED
      BY <1>1, <1>9, <1>10, <2>1, <2>2 DEF IInv, Contents
  <1>21. HeldIntact' /\ NothingDropped'
    BY <1>1, <1>9 DEF IInv, HeldIntact, NothingDropped
  <1> QED
    BY <1>12, <1>13, <1>14, <1>15, <1>16, <1>17, <1>18, <1>19, <1>20, <1>21 DEF IInv

(* From the queue to the receiver. *)
LEMMA RecvGetInv ==
    ASSUME IInv, NEW t \in Tasks, RecvGet(t)
    PROVE  IInv'
  <1> DEFINE s == SideOf(t)
             r == rvq(s)
             h == Head(rx_queue[s])
             d == h.d
             L == Len(rx_queue[s])
             c == [IdleTask EXCEPT !.pc = "copy", !.d = d, !.msg = h.msg]
  <1>1. /\ task[t].pc = "idle" /\ setup.receivers # {} /\ rx_queue[s] # << >>
        /\ task' = [task EXCEPT ![t] = c]
        /\ rx_queue' = [rx_queue EXCEPT ![s] = Tail(@)]
        /\ UNCHANGED <<setup, vq, buf, reserved, lock, link_state, doorbell, isr, sent,
                       published, delivered, dropped>>
    BY DEF RecvGet, At
  <1>2. /\ s \in Side /\ r \in Ring
        /\ rx_queue[s] \in Seq([d : Desc, msg : Msg \union {NoMsg}])
        /\ \A o \in Side : \A i \in 1..Len(rx_queue[o]) : rx_queue[o][i].d \in Desc
    BY SideFacts, QueueFacts
  <1>3. /\ L \in Nat /\ L >= 1 /\ h = rx_queue[s][1]
        /\ d \in Desc /\ h.msg \in Msg \union {NoMsg}
    <2>1. L \in Nat /\ L >= 1 /\ h = rx_queue[s][1]
      BY <1>1, <1>2
    <2> HIDE DEF h, L
    <2> QED
      BY <2>1, <1>2, QueueFacts DEF L
  <1>4. c \in TaskType /\ c.pc = "copy" /\ c.d = d /\ c.msg = h.msg /\ c.nocopy = FALSE
    <2> HIDE DEF h
    <2> QED
      BY <1>3 DEF IdleTask, TaskType, Reading, None, NoMsg
  <1>5. /\ rx_queue' \in [Side -> Seq([d : Desc, msg : Msg \union {NoMsg}])]
        /\ Len(rx_queue'[s]) = L - 1
        /\ \A i \in 1..(L - 1) : rx_queue'[s][i] = rx_queue[s][i + 1]
        /\ \A o \in Side \ {s} : rx_queue'[o] = rx_queue[o]
    <2> DEFINE S == [d : Desc, msg : Msg \union {NoMsg}]
               w == rx_queue[s]
    <2>1. w \in Seq(S) /\ w # << >> /\ rx_queue \in [Side -> Seq(S)] /\ s \in Side
          /\ rx_queue' = [rx_queue EXCEPT ![s] = Tail(w)] /\ L = Len(w)
      BY <1>1, <1>2, Types
    <2> HIDE DEF S, w, s, L
    <2>2. Tail(w) \in Seq(S) /\ Len(Tail(w)) = L - 1 /\ \A i \in 1..(L - 1) : Tail(w)[i] = w[i + 1]
      BY <2>1
    <2>3. rx_queue' \in [Side -> Seq(S)] /\ rx_queue'[s] = Tail(w)
          /\ \A o \in Side \ {s} : rx_queue'[o] = rx_queue[o]
      BY <2>1, <2>2
    <2> QED
      BY <2>2, <2>3 DEF S, w
  <1>6. InQueue(s, r, d)
    BY <1>3 DEF InQueue
  <1>7. /\ \A o \in Side : d \notin Entries(In(o, r)) /\ ~InCallback(o, r, d)
        /\ \A u \in Tasks : ~HeldByTask(u, r, d)
    BY <1>2, <1>3, <1>6, Apart DEF IInv
  <1>8. \A i \in 2..L : rx_queue[s][i].d # d
    <2>1. \A i, j \in 1..L : rx_queue[s][i].d = rx_queue[s][j].d => i = j
      BY <1>2 DEF IInv, Once
    <2>2. 1 \in 1..L /\ 2..L \subseteq 1..L /\ 1 \notin 2..L /\ d = rx_queue[s][1].d
      BY <1>3
    <2> HIDE DEF d, L, s
    <2> QED
      BY <2>1, <2>2
  <1>9. IdxKept(s, d) /\ buf[r][d].msg = h.msg
    <2>1. 1 \in DOMAIN rx_queue[s] /\ 1 \in 1..Len(rx_queue[s])
      BY <1>2, <1>3
    <2> QED
      BY <1>2, <1>3, <2>1 DEF IInv, Headers, HeldIntact
  <1> HIDE DEF s, r, h, d, L, c
  <1>10. /\ task' \in [Tasks -> TaskType] /\ task'[t] = c
         /\ \A u \in Tasks \ {t} : task'[u] = task[u]
    BY <1>1, <1>4, Types
  <1>11. /\ task'[t].pc \in Reading /\ task'[t].pc \notin Locked \union Sending \union Calling
         /\ task[t].pc \notin Sending \union Reading
    BY <1>1, <1>4, <1>10 DEF Reading, Locked, Sending, Calling
  <1>12. FullType'
    BY <1>1, <1>5, <1>10, Types, TypesKept DEF FullType
  <1>13. HasBuffer' /\ Locking'
    BY <1>1, <1>3, <1>4, <1>10, <1>11, TypesKept DEF IInv, HasBuffer, Locking
  <1>14. Heads' /\ Tips'
    BY <1>1, <1>4, <1>10, RingsKept DEF IInv, Heads, Tips
  <1>15. Headers'
    <2>1. \A o \in Side, e \in Desc : IdxKept(o, e)' <=> IdxKept(o, e)
      BY <1>1 DEF IdxKept
    <2>2. \A u \in Tasks : (task[u].pc \in Reading => IdxKept(SideOf(u), task[u].d))'
      BY <1>1, <1>4, <1>9, <1>10 DEF IInv, Headers, IdxKept, s
    <2>3. ASSUME NEW o \in Side, NEW i \in 1..Len(rx_queue'[o])
          PROVE  IdxKept(o, rx_queue[o][i].d)'
      <3>1. CASE o = s
        <4>1. i + 1 \in 1..L /\ rx_queue'[o][i] = rx_queue[o][i + 1]
          BY <1>3, <1>5, <3>1
        <4> QED
          BY <1>1, <3>1, <4>1 DEF IInv, Headers, IdxKept, L
      <3>2. CASE o # s
        BY <1>1, <1>5, <3>2 DEF IInv, Headers, IdxKept
      <3> QED
        BY <3>1, <3>2
    <2>4. \A u \in Tasks : task'[u].pc \in Sending /\ task'[u].nocopy =>
            reserved'[tvq(SideOf(u))][task'[u].d] = task'[u].d
      BY <1>1, <1>10, <1>11 DEF IInv, Headers
    <2> QED
      BY <2>2, <2>3, <2>4 DEF Headers
  <1>16. OnePlace'
    <2>1. <<"task", t>> \in Place
      BY DEF Place
    <2>2. \A o \in Side, q \in Ring, e \in Desc :
            e \in Entries(In(o, q))' <=> IF q = r /\ e = d THEN <<"task", t>> = <<"ring", o>>
                                                          ELSE e \in Entries(In(o, q))
      BY <1>1, <1>7, RingsKept DEF Entries
    <2>3. \A u \in Tasks, q \in Ring, e \in Desc :
            HeldByTask(u, q, e)' <=> IF q = r /\ e = d THEN <<"task", t>> = <<"task", u>>
                                                      ELSE HeldByTask(u, q, e)
      <3>1. \A u \in Tasks \ {t} : \A q, e : HeldByTask(u, q, e)' <=> HeldByTask(u, q, e)
        BY <1>10 DEF HeldByTask
      <3>2. \A q, e : ~HeldByTask(t, q, e) /\ (HeldByTask(t, q, e)' <=> q = r /\ e = d)
        BY <1>4, <1>10, <1>11 DEF HeldByTask, r, s
      <3> QED
        BY <1>7, <3>1, <3>2
    <2>4. ASSUME NEW o \in Side, NEW q \in Ring, NEW e \in Desc
          PROVE  InQueue(o, q, e)' <=> IF q = r /\ e = d THEN <<"task", t>> = <<"queue", o>>
                                                        ELSE InQueue(o, q, e)
      <3>1. CASE o = s
        <4>1. rvq(o) = r
          BY <3>1 DEF r
        <4>2. InQueue(o, q, e)' <=> q = r /\ \E i \in 1..(L - 1) : rx_queue[s][i + 1].d = e
          BY <1>5, <3>1, <4>1 DEF InQueue
        <4>3. InQueue(o, q, e) <=> q = r /\ \E i \in 1..L : rx_queue[s][i].d = e
          BY <3>1, <4>1 DEF InQueue, L
        <4>4. (\E i \in 1..(L - 1) : rx_queue[s][i + 1].d = e) <=> \E i \in 2..L : rx_queue[s][i].d = e
          <5>1. \A i \in 2..L : i - 1 \in 1..(L - 1) /\ (i - 1) + 1 = i
            BY <1>3
          <5>2. \A i \in 1..(L - 1) : i + 1 \in 2..L
            BY <1>3
          <5> QED
            BY <5>1, <5>2
        <4>5. (\E i \in 1..L : rx_queue[s][i].d = e) <=> e = d \/ \E i \in 2..L : rx_queue[s][i].d = e
          <5>1. \A i \in 1..L : i = 1 \/ i \in 2..L
            BY <1>3
          <5>2. 1 \in 1..L /\ 2..L \subseteq 1..L
            BY <1>3
          <5> QED
            BY <1>3, <5>1, <5>2 DEF d
        <4> QED
          BY <1>8, <4>2, <4>3, <4>4, <4>5
      <3>2. CASE o # s
        <4>1. rvq(o) # r
          BY <1>2, <3>2, SideFacts DEF r
        <4> QED
          BY <1>5, <3>2, <4>1 DEF InQueue
      <3> QED
        BY <3>1, <3>2
    <2>5. \A o \in Side, q \in Ring, e \in Desc :
            InCallback(o, q, e)' <=> IF q = r /\ e = d THEN <<"task", t>> = <<"isr", o>>
                                                      ELSE InCallback(o, q, e)
      BY <1>1, <1>7 DEF InCallback
    <2> QED
      BY <1>2, <1>3, <2>1, <2>2, <2>3, <2>4, <2>5, Moved DEF IInv
  <1>17. Once'
    <2>1. ASSUME NEW o \in Side, NEW i \in 1..Len(rx_queue'[o]), NEW j \in 1..Len(rx_queue'[o]),
                 rx_queue'[o][i].d = rx_queue'[o][j].d
          PROVE  i = j
      <3>1. CASE o = s
        <4>1. i + 1 \in 1..L /\ j + 1 \in 1..L
          BY <1>3, <1>5, <3>1
        <4>2. rx_queue[s][i + 1].d = rx_queue[s][j + 1].d
          BY <1>5, <2>1, <3>1
        <4>3. i + 1 = j + 1
          BY <1>2, <4>1, <4>2 DEF IInv, Once, L
        <4> QED
          BY <4>3
      <3>2. CASE o # s
        BY <1>5, <2>1, <3>2 DEF IInv, Once
      <3> QED
        BY <3>1, <3>2
    <2> QED
      BY <1>1, <2>1, RingsKept DEF IInv, Once
  <1>18. InOrder' /\ NothingDropped'
    BY <1>1, RingsKept, OrderKept DEF IInv, NothingDropped
  <1>19. Contents'
    <2>1. Dst' = Dst /\ \A o \in Side : Entries(In(o, rvq(o)))' = Entries(In(o, rvq(o)))
      BY <1>1, TypesKept, RingsKept DEF Entries
    <2>2. task'[t].pc \notin {"enqueue", "enqueue_idx"}
      BY <1>11 DEF Sending
    <2> QED
      BY <1>1, <1>10, <1>11, <2>1, <2>2 DEF IInv, Contents
  <1>20. HeldIntact'
    <2>1. ASSUME NEW o \in Side, NEW i \in DOMAIN rx_queue'[o]
          PROVE  buf[rvq(o)][rx_queue'[o][i].d].msg = rx_queue'[o][i].msg
      <3>1. CASE o = s
        <4>1. i \in 1..(L - 1)
          BY <1>5, <3>1
        <4>2. i + 1 \in DOMAIN rx_queue[o]
          BY <1>2, <1>3, <3>1, <4>1 DEF L
        <4> QED
          BY <1>5, <3>1, <4>1, <4>2 DEF IInv, HeldIntact
      <3>2. CASE o # s
        BY <1>5, <3>2 DEF IInv, HeldIntact
      <3> QED
        BY <3>1, <3>2
    <2>2. \A u \in Tasks : task'[u].pc = "copy" => buf[rvq(SideOf(u))][task'[u].d].msg = task'[u].msg
      BY <1>4, <1>9, <1>10 DEF IInv, HeldIntact, r, s
    <2> QED
      BY <1>1, <2>1, <2>2 DEF HeldIntact
  <1> QED
    BY <1>12, <1>13, <1>14, <1>15, <1>16, <1>17, <1>18, <1>19, <1>20 DEF IInv

(* rpmsg_queue_recv copies the message out of the buffer.                   *)
LEMMA RecvCopyInv ==
    ASSUME IInv, NEW t \in Tasks, RecvCopy(t)
    PROVE  IInv'
  <1> DEFINE s == SideOf(t)
             d == task[t].d
             m == buf[rvq(s)][d].msg
  <1>1. /\ task[t].pc = "copy"
        /\ task' = [task EXCEPT ![t].pc = "release", ![t].msg = m]
        /\ UNCHANGED <<setup, vq, buf, reserved, lock, link_state, doorbell, isr, sent,
                       rx_queue, published, delivered, dropped>>
    BY DEF RecvCopy, At
  <1>2. s \in Side /\ rvq(s) \in Ring /\ task[t] \in TaskType /\ d \in Desc
    BY <1>1, SideFacts, Types DEF IInv, HasBuffer, Reading
  <1>3. m \in Msg \union {NoMsg}
    BY <1>2, Types DEF BufType
  <1> HIDE DEF s, d, m
  <1>4. /\ task' \in [Tasks -> TaskType]
        /\ task'[t].pc = "release" /\ task'[t].d = d
        /\ \A u \in Tasks \ {t} : task'[u] = task[u]
    BY <1>1, <1>2, <1>3, Types DEF TaskType, Reading, d
  <1>5. /\ task[t].pc \in Reading /\ task[t].pc \notin Sending
        /\ task'[t].pc \in Reading /\ task'[t].pc \notin Locked \union Sending \union Calling
    BY <1>1, <1>4 DEF Reading, Locked, Sending, Calling
  <1>6. FullType'
    BY <1>1, <1>4, Types, TypesKept DEF FullType
  <1>7. HasBuffer' /\ Locking'
    BY <1>1, <1>2, <1>4, <1>5, TypesKept DEF IInv, HasBuffer, Locking
  <1>8. Heads' /\ Tips'
    BY <1>1, <1>4, RingsKept DEF IInv, Heads, Tips
  <1>9. Headers'
    BY <1>1, <1>4, <1>5 DEF IInv, Headers, IdxKept, d
  <1>10. OnePlace'
    <2>1. \A u \in Tasks, q \in Ring, e \in Desc : HeldByTask(u, q, e)' <=> HeldByTask(u, q, e)
      BY <1>4, <1>5 DEF HeldByTask, d
    <2>2. \A o \in Side, q \in Ring, e \in Desc : /\ InQueue(o, q, e)' <=> InQueue(o, q, e)
                                                  /\ InCallback(o, q, e)' <=> InCallback(o, q, e)
      BY <1>1 DEF InQueue, InCallback
    <2> QED
      BY <1>1, <2>1, <2>2, RingsKept, Stayed DEF IInv
  <1>11. Once'
    BY <1>1, RingsKept DEF IInv, Once
  <1>12. InOrder' /\ NothingDropped'
    BY <1>1, RingsKept, OrderKept DEF IInv, NothingDropped
  <1>13. Contents'
    <2>1. Dst' = Dst /\ \A o \in Side : Entries(In(o, rvq(o)))' = Entries(In(o, rvq(o)))
      BY <1>1, TypesKept, RingsKept DEF Entries
    <2>2. task'[t].pc \notin {"enqueue", "enqueue_idx"}
      BY <1>5 DEF Sending
    <2> QED
      BY <1>1, <1>4, <1>5, <2>1, <2>2 DEF IInv, Contents
  <1>14. HeldIntact'
    BY <1>1, <1>4 DEF IInv, HeldIntact
  <1> QED
    BY <1>6, <1>7, <1>8, <1>9, <1>10, <1>11, <1>12, <1>13, <1>14 DEF IInv

(* The slot written by rpmsg_lite_release_rx_buffer.  The handler has       *)
(* finished writing the header, and is not inside vq_rx_free itself.        *)
LEMMA ReleaseSlotInv ==
    ASSUME IInv, NEW t \in Tasks, ReleaseSlot(t)
    PROVE  IInv'
  <1> DEFINE s == SideOf(t)
             r == rvq(s)
             d == task[t].d
  <1>1. /\ task[t].pc = "release" /\ (EnvContext \/ isr[s].pc = "off")
        /\ lock[s] = Free /\ lock' = [lock EXCEPT ![s] = t]
        /\ vq' = [vq EXCEPT ![r] = put_slot(s, vq[r], reserved[r][d])]
        /\ task' = [task EXCEPT ![t].pc = "release_idx"]
        /\ UNCHANGED <<setup, buf, reserved, link_state, doorbell, isr, sent, rx_queue,
                       published, delivered, dropped>>
    BY DEF ReleaseSlot, At, CanRun, Goto, Acquire
  <1>2. s \in Side /\ r \in Ring /\ task[t] \in TaskType /\ d \in Desc /\ Other(s) \in Side
    BY <1>1, SideFacts, Types DEF IInv, HasBuffer, Reading
  <1>3. HeldByTask(t, r, d)
    BY <1>1 DEF HeldByTask, Reading
  <1>4. Len(In(Other(s), r)) < N
    <2>1. d \notin Entries(In(Other(s), r))
      BY <1>2, <1>3, Apart DEF IInv
    <2> QED
      BY <1>2, <2>1, Room, Types DEF IInv
  <1> HIDE DEF r, s, d
  <1>5. /\ task' \in [Tasks -> TaskType]
        /\ task'[t].pc = "release_idx" /\ task'[t].d = d
        /\ \A u \in Tasks \ {t} : task'[u] = task[u]
    BY <1>1, <1>2, Types DEF TaskType, Reading, d
  <1>6. /\ task[t].pc \in Reading /\ task[t].pc \notin Sending
        /\ task'[t].pc \in Reading /\ task'[t].pc \notin Sending \union Calling
    BY <1>1, <1>5 DEF Sending, Reading, Calling
  <1>7. /\ lock' \in [Side -> Tasks \union {Free, RxThread}] /\ Locking'
        /\ \A u \in Tasks : task[u].pc \in Locked => SideOf(u) # s
        /\ isr[s].pc \in {"off", "lock"}
    BY <1>1, <1>5, <1>6, Locks DEF s
  <1>8. reserved[r][d] = d
    BY <1>6, <1>7 DEF IInv, Headers, IdxKept, d, s, r
  <1>9. /\ vq' \in [Ring -> Vq]
        /\ \A o \in Side, q \in Ring : In(o, q)' = In(o, q)
        /\ Tip(s, r)' = d
        /\ \A o \in Side, q \in Ring : o # s \/ q # r => Tip(o, q)' = Tip(o, q)
    BY <1>1, <1>2, <1>4, <1>8, Write, Types
  <1>10. FullType'
    BY <1>1, <1>5, <1>7, <1>9, Types, TypesKept DEF FullType
  <1>11. HasBuffer'
    BY <1>1, <1>2, <1>5 DEF IInv, HasBuffer
  <1>12. Heads'
    BY <1>5, <1>9, SideFacts DEF IInv, Heads
  <1>13. Tips'
    <2>1. ASSUME NEW u \in Tasks, task'[u].pc = "release_idx"
          PROVE  Tip(SideOf(u), rvq(SideOf(u)))' = task'[u].d
      <3>1. CASE u = t
        BY <1>5, <1>9, <3>1 DEF r, s
      <3>2. CASE u # t
        <4>1. task'[u] = task[u] /\ SideOf(u) # s
          BY <1>5, <1>7, <2>1, <3>2 DEF Locked
        <4> QED
          BY <1>9, <2>1, <4>1, SideFacts DEF IInv, Tips
      <3> QED
        BY <3>1, <3>2
    <2>2. ASSUME NEW u \in Tasks, task'[u].pc = "enqueue_idx"
          PROVE  Tip(SideOf(u), tvq(SideOf(u)))' = task'[u].d
      BY <1>5, <1>9, <2>2, SideFacts DEF IInv, Tips, s, r
    <2>3. ASSUME NEW o \in Side, isr'[o].pc = "free_idx"
          PROVE  Tip(o, rvq(o))' = isr'[o].d
      <3>1. o # s
        BY <1>1, <1>7, <2>3
      <3> QED
        BY <1>1, <1>9, <2>3, <3>1, SideFacts DEF IInv, Tips
    <2> QED
      BY <2>1, <2>2, <2>3 DEF Tips
  <1>14. Headers'
    BY <1>1, <1>5, <1>6 DEF IInv, Headers, IdxKept, d
  <1>15. OnePlace'
    <2>1. \A u \in Tasks, q \in Ring, e \in Desc : HeldByTask(u, q, e)' <=> HeldByTask(u, q, e)
      BY <1>5, <1>6 DEF HeldByTask, d
    <2>2. \A o \in Side, q \in Ring, e \in Desc : /\ InQueue(o, q, e)' <=> InQueue(o, q, e)
                                                  /\ InCallback(o, q, e)' <=> InCallback(o, q, e)
      BY <1>1 DEF InQueue, InCallback
    <2> QED
      BY <1>9, <2>1, <2>2, Stayed DEF IInv
  <1>16. Once'
    BY <1>1, <1>9 DEF IInv, Once
  <1>17. InOrder' /\ NothingDropped'
    BY <1>1, <1>9, OrderKept, SideFacts DEF IInv, NothingDropped
  <1>18. Contents'
    <2>1. Dst' = Dst /\ \A o \in Side : Entries(In(o, rvq(o)))' = Entries(In(o, rvq(o)))
      BY <1>1, <1>9, TypesKept, SideFacts DEF Entries
    <2>2. task'[t].pc \notin {"enqueue", "enqueue_idx"}
      BY <1>5
    <2> QED
      BY <1>1, <1>5, <1>6, <2>1, <2>2 DEF IInv, Contents
  <1>19. HeldIntact'
    BY <1>1, <1>5 DEF IInv, HeldIntact
  <1> QED
    BY <1>7, <1>10, <1>11, <1>12, <1>13, <1>14, <1>15, <1>16, <1>17, <1>18, <1>19 DEF IInv

(* The index that hands the buffer back: from the receiver to the ring. *)
LEMMA ReleaseIdxInv ==
    ASSUME IInv, NEW t \in Tasks, ReleaseIdx(t)
    PROVE  IInv'
  <1> DEFINE s == SideOf(t)
             r == rvq(s)
             z == Other(s)
             d == task[t].d
  <1>1. /\ task[t].pc = "release_idx" /\ (EnvContext \/ isr[s].pc = "off")
        /\ vq' = [vq EXCEPT ![r] = put_idx(s, vq[r])]
        /\ doorbell' = doorbell \/ doorbell' = [doorbell EXCEPT ![z] = @ \union {r}]
        /\ lock' = [lock EXCEPT ![s] = Free]
        /\ task' = [task EXCEPT ![t] = IdleTask]
        /\ UNCHANGED <<setup, buf, reserved, link_state, isr, sent, rx_queue,
                       published, delivered, dropped>>
    BY DEF ReleaseIdx, At, CanRun, Kick, Release, Return
  <1>2. /\ s \in Side /\ r \in Ring /\ task[t] \in TaskType /\ d \in Desc
        /\ z \in Side /\ z # s /\ tvq(z) = r /\ \A o \in Side : o # z => o = s
    BY <1>1, SideFacts, Types DEF IInv, HasBuffer, Reading
  <1>3. HeldByTask(t, r, d)
    BY <1>1 DEF HeldByTask, Reading
  <1>4. /\ \A o \in Side : /\ d \notin Entries(In(o, r))
                           /\ ~InQueue(o, r, d) /\ ~InCallback(o, r, d)
        /\ \A u \in Tasks : HeldByTask(u, r, d) => u = t
    BY <1>2, <1>3, Apart DEF IInv
  <1>5. Len(In(z, r)) < N
    BY <1>2, <1>4, Room, Types DEF IInv
  <1>6. Tip(s, r) = d
    BY <1>1 DEF IInv, Tips
  <1>7. /\ vq' \in [Ring -> Vq]
        /\ In(z, r)' = Append(In(z, r), d)
        /\ \A o \in Side, q \in Ring : o # z \/ q # r => In(o, q)' = In(o, q)
        /\ \A o \in Side, q \in Ring : o # s \/ q # r => Tip(o, q)' = Tip(o, q)
    <2>1. /\ vq' \in [Ring -> Vq]
          /\ In(Other(s), r)' = Append(In(Other(s), r), Tip(s, r))
          /\ \A o \in Side, q \in Ring : o # Other(s) \/ q # r => In(o, q)' = In(o, q)
          /\ \A o \in Side, q \in Ring : o # s \/ q # r => Tip(o, q)' = Tip(o, q)
      BY <1>1, <1>2, <1>5, Publish, Types
    <2> QED
      BY <1>6, <2>1
  <1> HIDE DEF r, s, z, d
  <1>8. /\ \A o \in Side, q \in Ring, e \in Desc :
             e \in Entries(In(o, q))' <=> IF q = r /\ e = d THEN o = z
                                                           ELSE e \in Entries(In(o, q))
        /\ \A o \in Side, q \in Ring : NoRepeat(In(o, q))'
    BY <1>2, <1>4, <1>7, EntersRing
  <1>9. /\ task' \in [Tasks -> TaskType] /\ task'[t].pc = "idle"
        /\ \A u \in Tasks \ {t} : task'[u] = task[u]
    BY <1>1, IdleFacts, Types
  <1>10. /\ task[t].pc \in Locked \intersect Reading /\ task[t].pc \notin Sending
         /\ task'[t].pc \notin Locked \union Sending \union Reading \union Calling
    BY <1>1, <1>9 DEF Locked, Calling, Sending, Reading
  <1>11. doorbell' \in [Side -> SUBSET Ring]
    <2>1. CASE doorbell' = doorbell
      BY <2>1, Types
    <2>2. CASE doorbell' = [doorbell EXCEPT ![z] = @ \union {r}]
      BY <1>2, <2>2, Types
    <2> QED
      BY <1>1, <2>1, <2>2
  <1>12. lock' \in [Side -> Tasks \union {Free, RxThread}] /\ Locking'
    BY <1>1, <1>9, <1>10, Unlocks DEF s
  <1>13. FullType'
    BY <1>1, <1>7, <1>9, <1>11, <1>12, Types, TypesKept DEF FullType
  <1>14. HasBuffer'
    BY <1>1, <1>9, <1>10 DEF IInv, HasBuffer
  <1>15. Heads'
    <2>1. ASSUME NEW u \in Tasks, u # t, task[u].pc \in {"alloc_end", "poll_end"}, task[u].d # None
          PROVE  (LET q == In(SideOf(u), tvq(SideOf(u))) IN q # << >> /\ task[u].d = Head(q))'
      <3>1. LET q == In(SideOf(u), tvq(SideOf(u))) IN q # << >> /\ task[u].d = Head(q)
        BY <2>1 DEF IInv, Heads
      <3>2. CASE SideOf(u) = z
        <4>1. In(z, r) \in Seq(Desc) /\ In(z, r) # << >> /\ task[u].d = Head(In(z, r))
          BY <1>2, <3>1, <3>2, InFacts, Types
        <4>2. Append(In(z, r), d) # << >> /\ Head(Append(In(z, r), d)) = Head(In(z, r))
          BY <1>2, <4>1
        <4> QED
          BY <1>2, <1>7, <1>9, <2>1, <3>2, <4>1, <4>2
      <3>3. CASE SideOf(u) # z
        BY <1>7, <1>9, <2>1, <3>1, <3>3, SideFacts
      <3> QED
        BY <3>2, <3>3
    <2> QED
      BY <1>9, <2>1 DEF Heads
  <1>16. Tips'
    <2>1. ASSUME NEW u \in Tasks, task'[u].pc = "release_idx"
          PROVE  Tip(SideOf(u), rvq(SideOf(u)))' = task'[u].d
      <3>1. task'[u] = task[u] /\ u # t
        BY <1>9, <2>1
      <3>2. SideOf(u) # s
        BY <1>10, <2>1, <3>1 DEF IInv, Locking, Locked, s
      <3> QED
        BY <1>7, <2>1, <3>1, <3>2, SideFacts DEF IInv, Tips
    <2>2. ASSUME NEW u \in Tasks, task'[u].pc = "enqueue_idx"
          PROVE  Tip(SideOf(u), tvq(SideOf(u)))' = task'[u].d
      BY <1>7, <1>9, <2>2, SideFacts DEF IInv, Tips, s, r
    <2>3. ASSUME NEW o \in Side, isr'[o].pc = "free_idx"
          PROVE  Tip(o, rvq(o))' = isr'[o].d
      <3>1. lock[s] = t /\ t # RxThread
        BY <1>10, RpmsgAssumption DEF IInv, Locking, s
      <3>2. isr[s].pc # "free_idx"
        BY <1>1, <1>2, <3>1 DEF IInv, Locking
      <3> QED
        BY <1>1, <1>7, <2>3, <3>2, SideFacts DEF IInv, Tips
    <2> QED
      BY <2>1, <2>2, <2>3 DEF Tips
  <1>17. Headers'
    BY <1>1, <1>9, <1>10 DEF IInv, Headers, IdxKept
  <1>18. OnePlace'
    <2>1. <<"ring", z>> \in Place
      BY <1>2 DEF Place
    <2>2. \A o \in Side, q \in Ring, e \in Desc :
            e \in Entries(In(o, q))' <=> IF q = r /\ e = d THEN <<"ring", z>> = <<"ring", o>>
                                                          ELSE e \in Entries(In(o, q))
      BY <1>8
    <2>3. \A u \in Tasks, q \in Ring, e \in Desc :
            HeldByTask(u, q, e)' <=> IF q = r /\ e = d THEN <<"ring", z>> = <<"task", u>>
                                                      ELSE HeldByTask(u, q, e)
      <3>1. \A u \in Tasks \ {t} : \A q, e : HeldByTask(u, q, e)' <=> HeldByTask(u, q, e)
        BY <1>9 DEF HeldByTask
      <3>2. \A q, e : ~HeldByTask(t, q, e)' /\ (HeldByTask(t, q, e) => q = r /\ e = d)
        BY <1>10 DEF HeldByTask, d, r, s
      <3> QED
        BY <1>4, <3>1, <3>2
    <2>4. \A o \in Side, q \in Ring, e \in Desc :
            InQueue(o, q, e)' <=> IF q = r /\ e = d THEN <<"ring", z>> = <<"queue", o>>
                                                   ELSE InQueue(o, q, e)
      BY <1>1, <1>4 DEF InQueue
    <2>5. \A o \in Side, q \in Ring, e \in Desc :
            InCallback(o, q, e)' <=> IF q = r /\ e = d THEN <<"ring", z>> = <<"isr", o>>
                                                      ELSE InCallback(o, q, e)
      BY <1>1, <1>4 DEF InCallback
    <2> QED
      BY <1>2, <2>1, <2>2, <2>3, <2>4, <2>5, Moved DEF IInv
  <1>19. Once'
    BY <1>1, <1>8 DEF IInv, Once
  <1>20. \A o \in Side : In(o, rvq(o))' = In(o, rvq(o))
    BY <1>2, <1>7, SideFacts DEF r, s
  <1>21. InOrder' /\ NothingDropped'
    BY <1>1, <1>20, OrderKept DEF IInv, NothingDropped
  <1>22. Contents'
    <2>1. Dst' = Dst /\ \A o \in Side : Entries(In(o, rvq(o)))' = Entries(In(o, rvq(o)))
      BY <1>1, <1>20, TypesKept DEF Entries
    <2>2. task'[t].pc \notin {"enqueue", "enqueue_idx"}
      BY <1>9
    <2> QED
      BY <1>1, <1>9, <1>10, <2>1, <2>2 DEF IInv, Contents
  <1>23. HeldIntact'
    BY <1>1, <1>9 DEF IInv, HeldIntact
  <1> QED
    BY <1>12, <1>13, <1>14, <1>15, <1>16, <1>17, <1>18, <1>19, <1>21, <1>22, <1>23 DEF IInv

-----------------------------------------------------------------------------
(* A step of a handler that has no buffer before it and none after it. *)
LEMMA NoCallback ==
    ASSUME IInv, NEW s \in Side,
           UNCHANGED <<setup, vq, buf, reserved, task, rx_queue, published, delivered, dropped>>,
           \A o \in Side \ {s} : isr'[o] = isr[o],
           isr[s].pc \notin {"hold"} \union Freeing,
           isr'[s].pc \notin {"hold"} \union Freeing
    PROVE  /\ HasBuffer' /\ Heads' /\ Tips' /\ Headers' /\ OnePlace' /\ Once'
           /\ Contents' /\ HeldIntact' /\ InOrder' /\ NothingDropped'
  <1>1. HasBuffer'
    BY DEF IInv, HasBuffer
  <1>2. Heads' /\ Tips'
    BY RingsKept DEF IInv, Heads, Tips, Freeing
  <1>3. Headers'
    BY SideFacts DEF IInv, Headers, IdxKept
  <1>4. OnePlace'
    <2>1. \A u \in Tasks, r \in Ring, d \in Desc : HeldByTask(u, r, d)' <=> HeldByTask(u, r, d)
      BY DEF HeldByTask
    <2>2. \A o \in Side, r \in Ring, d \in Desc : /\ InQueue(o, r, d)' <=> InQueue(o, r, d)
                                                  /\ InCallback(o, r, d)' <=> InCallback(o, r, d)
      BY DEF InQueue, InCallback
    <2> QED
      BY <2>1, <2>2, RingsKept, Stayed DEF IInv
  <1>5. Once'
    BY RingsKept DEF IInv, Once
  <1>6. InOrder' /\ NothingDropped'
    BY RingsKept, OrderKept DEF IInv, NothingDropped
  <1>7. Contents' /\ HeldIntact'
    BY RingsKept, TypesKept DEF IInv, Contents, HeldIntact
  <1> QED
    BY <1>1, <1>2, <1>3, <1>4, <1>5, <1>6, <1>7

(* rpmsg_lite_tx_callback sets link_state.                                  *)
LEMMA TxCallbackInv ==
    ASSUME IInv, NEW s \in Side, TxCallback(s)
    PROVE  IInv'
  <1>1. /\ isr[s].pc = "off"
        /\ doorbell' = [doorbell EXCEPT ![s] = @ \ {tvq(s)}]
        /\ link_state' = [link_state EXCEPT ![s] = TRUE]
        /\ UNCHANGED <<setup, vq, buf, reserved, lock, isr, task, sent, rx_queue,
                       published, delivered, dropped>>
    BY DEF TxCallback
  <1>2. doorbell' \in [Side -> SUBSET Ring] /\ link_state' \in [Side -> BOOLEAN]
    BY <1>1, Types
  <1>3. FullType'
    BY <1>1, <1>2, Types, TypesKept DEF FullType
  <1>4. Locking'
    BY <1>1, TypesKept DEF IInv, Locking
  <1>5. isr[s].pc \notin {"hold"} \union Freeing
    BY <1>1 DEF Freeing
  <1> QED
    BY <1>1, <1>3, <1>4, <1>5, NoCallback DEF IInv

(* rpmsg_lite_rx_callback is entered.                                       *)
LEMMA RxEnterInv ==
    ASSUME IInv, NEW s \in Side, RxEnter(s)
    PROVE  IInv'
  <1> DEFINE p == IF EnvContext THEN "lock" ELSE "rx"
  <1>1. /\ isr[s].pc = "off"
        /\ doorbell' = [doorbell EXCEPT ![s] = @ \ {rvq(s)}]
        /\ isr' = [isr EXCEPT ![s].pc = p]
        /\ UNCHANGED <<setup, vq, buf, reserved, lock, link_state, task, sent, rx_queue,
                       published, delivered, dropped>>
    BY DEF RxEnter
  <1>2. p \in {"lock", "rx"} /\ (EnvContext => p = "lock")
    OBVIOUS
  <1> HIDE DEF p
  <1>3. doorbell' \in [Side -> SUBSET Ring]
    BY <1>1, Types
  <1>4. /\ isr' \in [Side -> IsrType] /\ isr'[s].pc = p
        /\ \A o \in Side \ {s} : isr'[o] = isr[o]
    BY <1>1, <1>2, Types DEF IsrType
  <1>5. isr[s].pc \notin {"hold"} \union Freeing /\ isr'[s].pc \notin {"hold"} \union Freeing
    BY <1>1, <1>2, <1>4 DEF Freeing
  <1>6. FullType'
    BY <1>1, <1>3, <1>4, Types, TypesKept DEF FullType
  <1>7. Locking'
    BY <1>1, <1>2, <1>4, <1>5, TypesKept DEF IInv, Locking
  <1> QED
    BY <1>1, <1>4, <1>5, <1>6, <1>7, NoCallback DEF IInv

(* It takes the mutex.                                                      *)
LEMMA RxLockInv ==
    ASSUME IInv, NEW s \in Side, RxLock(s)
    PROVE  IInv'
  <1>1. /\ isr[s].pc = "lock" /\ lock[s] = Free
        /\ lock' = [lock EXCEPT ![s] = RxThread]
        /\ isr' = [isr EXCEPT ![s].pc = "rx"]
        /\ UNCHANGED <<setup, vq, buf, reserved, link_state, doorbell, task, sent, rx_queue,
                       published, delivered, dropped>>
    BY DEF RxLock
  <1>2. /\ lock' \in [Side -> Tasks \union {Free, RxThread}] /\ lock'[s] = RxThread
        /\ \A o \in Side \ {s} : lock'[o] = lock[o]
    BY <1>1, Types
  <1>3. /\ isr' \in [Side -> IsrType] /\ isr'[s].pc = "rx"
        /\ \A o \in Side \ {s} : isr'[o] = isr[o]
    BY <1>1, Types DEF IsrType
  <1>4. isr[s].pc \notin {"hold"} \union Freeing /\ isr'[s].pc \notin {"hold"} \union Freeing
    BY <1>1, <1>3 DEF Freeing
  <1>5. FullType'
    BY <1>1, <1>2, <1>3, Types, TypesKept DEF FullType
  <1>6. Locking'
    <2>1. \A u \in Tasks : task[u].pc \in Locked => lock'[SideOf(u)] = u
      BY <1>1, <1>2, SideFacts, RpmsgAssumption DEF IInv, Locking
    <2> QED
      BY <1>1, <1>2, <1>3, <1>4, <2>1, TypesKept DEF IInv, Locking
  <1> QED
    BY <1>1, <1>3, <1>4, <1>5, <1>6, NoCallback DEF IInv

(* It finds no buffer in its ring.                                          *)
LEMMA RxEmptyInv ==
    ASSUME IInv, NEW s \in Side, RxEmpty(s)
    PROVE  IInv'
  <1>1. /\ isr[s].pc = "rx"
        /\ isr' = [isr EXCEPT ![s].pc = "exit"]
        /\ UNCHANGED <<setup, vq, buf, reserved, lock, link_state, doorbell, task, sent,
                       rx_queue, published, delivered, dropped>>
    BY DEF RxEmpty
  <1>2. /\ isr' \in [Side -> IsrType] /\ isr'[s].pc = "exit"
        /\ \A o \in Side \ {s} : isr'[o] = isr[o]
    BY <1>1, Types DEF IsrType
  <1>3. isr[s].pc \notin {"hold"} \union Freeing /\ isr'[s].pc \notin {"hold"} \union Freeing
    BY <1>1, <1>2 DEF Freeing
  <1>4. FullType'
    BY <1>1, <1>2, Types, TypesKept DEF FullType
  <1>5. Locking'
    BY <1>1, <1>2, <1>3, TypesKept DEF IInv, Locking
  <1> QED
    BY <1>1, <1>2, <1>3, <1>4, <1>5, NoCallback DEF IInv

(* It releases the mutex and returns.                                       *)
LEMMA RxExitInv ==
    ASSUME IInv, NEW s \in Side, RxExit(s)
    PROVE  IInv'
  <1>1. /\ isr[s].pc = "exit"
        /\ doorbell' = doorbell \/ doorbell' = [doorbell EXCEPT ![Other(s)] = @ \union {rvq(s)}]
        /\ EnvContext => lock' = [lock EXCEPT ![s] = Free]
        /\ ~EnvContext => lock' = lock
        /\ isr' = [isr EXCEPT ![s] = IdleIsr]
        /\ UNCHANGED <<setup, vq, buf, reserved, link_state, task, sent, rx_queue,
                       published, delivered, dropped>>
    BY DEF RxExit, KickIfFreed, Kick
  <1>2. doorbell' \in [Side -> SUBSET Ring]
    <2>1. CASE doorbell' = doorbell
      BY <2>1, Types
    <2>2. CASE doorbell' = [doorbell EXCEPT ![Other(s)] = @ \union {rvq(s)}]
      BY <2>2, SideFacts, Types
    <2> QED
      BY <1>1, <2>1, <2>2
  <1>3. /\ lock' \in [Side -> Tasks \union {Free, RxThread}]
        /\ \A o \in Side \ {s} : lock'[o] = lock[o]
        /\ ~EnvContext => lock' = lock
    <2>1. CASE EnvContext
      BY <1>1, <2>1, Types
    <2>2. CASE ~EnvContext
      BY <1>1, <2>2, Types
    <2> QED
      BY <2>1, <2>2
  <1>4. /\ isr' \in [Side -> IsrType] /\ isr'[s].pc = "off"
        /\ \A o \in Side \ {s} : isr'[o] = isr[o]
    <2>1. IdleIsr \in IsrType /\ IdleIsr.pc = "off"
      BY DEF IdleIsr, IsrType, None
    <2> QED
      BY <1>1, <2>1, Types
  <1>5. isr[s].pc \notin {"hold"} \union Freeing /\ isr'[s].pc \notin {"hold"} \union Freeing
    BY <1>1, <1>4 DEF Freeing
  <1>6. FullType'
    BY <1>1, <1>2, <1>3, <1>4, Types, TypesKept DEF FullType
  <1>7. Locking'
    <2>1. EnvContext => lock[s] = RxThread
      BY <1>1 DEF IInv, Locking
    <2>2. \A u \in Tasks : task[u].pc \in Locked => lock'[SideOf(u)] = u
      BY <1>3, <2>1, SideFacts, RpmsgAssumption DEF IInv, Locking
    <2> QED
      BY <1>1, <1>3, <1>4, <1>5, <2>2, TypesKept DEF IInv, Locking
  <1> QED
    BY <1>1, <1>4, <1>5, <1>6, <1>7, NoCallback DEF IInv

(* hdr.reserved.idx is written after the buffer was queued. *)
LEMMA RxHoldInv ==
    ASSUME IInv, NEW s \in Side, RxHold(s)
    PROVE  IInv'
  <1> DEFINE r == rvq(s)
             d == isr[s].d
  <1>1. /\ isr[s].pc = "hold"
        /\ reserved' = KeepIdx(r, d)
        /\ isr' = [isr EXCEPT ![s].pc = "rx", ![s].d = None]
        /\ UNCHANGED <<setup, vq, buf, lock, link_state, doorbell, task, sent, rx_queue,
                       published, delivered, dropped>>
    BY DEF RxHold
  <1>2. r \in Ring /\ d \in Desc /\ isr[s] \in IsrType
    BY <1>1, SideFacts, Types DEF IInv, HasBuffer
  <1>3. /\ reserved' \in [Ring -> [Desc -> Desc]] /\ reserved'[r][d] = d
        /\ \A q \in Ring, e \in Desc : reserved[q][e] = e => reserved'[q][e] = e
    BY <1>1, <1>2, KeepIdxFacts
  <1> HIDE DEF r, d
  <1>4. /\ isr' \in [Side -> IsrType] /\ isr'[s].pc = "rx"
        /\ \A o \in Side \ {s} : isr'[o] = isr[o]
    BY <1>1, <1>2, Types DEF IsrType, None
  <1>5. isr[s].pc \notin Freeing /\ isr'[s].pc \notin {"hold"} \union Freeing
    BY <1>1, <1>4 DEF Freeing
  <1>6. FullType'
    BY <1>1, <1>3, <1>4, Types, TypesKept DEF FullType
  <1>7. HasBuffer'
    BY <1>1, <1>4, <1>5 DEF IInv, HasBuffer
  <1>8. Locking'
    BY <1>1, <1>4, <1>5, TypesKept DEF IInv, Locking
  <1>9. Heads' /\ Tips'
    BY <1>1, <1>4, <1>5, RingsKept DEF IInv, Heads, Tips, Freeing
  <1>10. Headers'
    <2>1. ASSUME NEW o \in Side, NEW e \in Desc, IdxKept(o, e)
          PROVE  IdxKept(o, e)'
      <3>1. CASE o = s
        BY <1>2, <1>3, <2>1, <3>1 DEF IdxKept, r, d
      <3>2. CASE o # s
        BY <1>3, <1>4, <2>1, <3>2, SideFacts DEF IdxKept
      <3> QED
        BY <3>1, <3>2
    <2>2. \A u \in Tasks : (task[u].pc \in Reading => IdxKept(SideOf(u), task[u].d))'
      BY <1>1, <2>1, SideFacts DEF IInv, Headers, HasBuffer
    <2>3. \A o \in Side : \A i \in 1..Len(rx_queue[o]) : IdxKept(o, rx_queue[o][i].d)'
      BY <1>1, <2>1, QueueFacts DEF IInv, Headers
    <2>4. \A u \in Tasks : task[u].pc \in Sending /\ task[u].nocopy =>
            reserved'[tvq(SideOf(u))][task[u].d] = task[u].d
      BY <1>3, SideFacts DEF IInv, Headers, HasBuffer
    <2> QED
      BY <1>1, <2>2, <2>3, <2>4 DEF Headers
  <1>11. OnePlace'
    <2>1. \A u \in Tasks, q \in Ring, e \in Desc : HeldByTask(u, q, e)' <=> HeldByTask(u, q, e)
      BY <1>1 DEF HeldByTask
    <2>2. \A o \in Side, q \in Ring, e \in Desc : /\ InQueue(o, q, e)' <=> InQueue(o, q, e)
                                                  /\ InCallback(o, q, e)' <=> InCallback(o, q, e)
      BY <1>1, <1>4, <1>5 DEF InQueue, InCallback
    <2> QED
      BY <1>1, <2>1, <2>2, RingsKept, Stayed DEF IInv
  <1>12. Once'
    BY <1>1, RingsKept DEF IInv, Once
  <1>13. InOrder' /\ NothingDropped'
    BY <1>1, RingsKept, OrderKept DEF IInv, NothingDropped
  <1>14. Contents' /\ HeldIntact'
    BY <1>1, RingsKept, TypesKept DEF IInv, Contents, HeldIntact
  <1> QED
    BY <1>6, <1>7, <1>8, <1>9, <1>10, <1>11, <1>12, <1>13, <1>14 DEF IInv

(* While the callback frees a buffer, no task of its side is inside         *)
(* rpmsg_lite_release_rx_buffer.                                            *)
LEMMA FreesAlone ==
    ASSUME IInv, NEW s \in Side, isr[s].pc \in Freeing
    PROVE  \A u \in Tasks : task[u].pc = "release_idx" => SideOf(u) # s
  <1>1. isr[s].pc \notin {"off", "lock"}
    BY DEF Freeing
  <1> QED
    BY <1>1, RpmsgAssumption DEF IInv, Locking, Locked, Reading

(* It hands a buffer that the application does not hold back to the ring.   *)
LEMMA RxFreeSlotInv ==
    ASSUME IInv, NEW s \in Side, RxFreeSlot(s)
    PROVE  IInv'
  <1> DEFINE r == rvq(s)
             d == isr[s].d
  <1>1. /\ isr[s].pc = "free"
        /\ vq' = [vq EXCEPT ![r] = put_slot(s, vq[r], d)]
        /\ isr' = [isr EXCEPT ![s].pc = "free_idx"]
        /\ UNCHANGED <<setup, buf, reserved, lock, link_state, doorbell, task, sent, rx_queue,
                       published, delivered, dropped>>
    BY DEF RxFreeSlot
  <1>2. r \in Ring /\ d \in Desc /\ isr[s] \in IsrType /\ Other(s) \in Side
    BY <1>1, SideFacts, Types DEF IInv, HasBuffer, Freeing
  <1>3. InCallback(s, r, d)
    BY <1>1 DEF InCallback, Freeing
  <1>4. Len(In(Other(s), r)) < N
    <2>1. d \notin Entries(In(Other(s), r))
      BY <1>2, <1>3, Apart DEF IInv
    <2> QED
      BY <1>2, <2>1, Room, Types DEF IInv
  <1>5. /\ vq' \in [Ring -> Vq]
        /\ \A o \in Side, q \in Ring : In(o, q)' = In(o, q)
        /\ Tip(s, r)' = d
        /\ \A o \in Side, q \in Ring : o # s \/ q # r => Tip(o, q)' = Tip(o, q)
    BY <1>1, <1>2, <1>4, Write, Types
  <1> HIDE DEF r, d
  <1>6. /\ isr' \in [Side -> IsrType] /\ isr'[s].pc = "free_idx" /\ isr'[s].d = d
        /\ \A o \in Side \ {s} : isr'[o] = isr[o]
    BY <1>1, <1>2, Types DEF IsrType, Freeing, d
  <1>7. isr[s].pc \in Freeing /\ isr'[s].pc \in Freeing /\ isr[s].pc # "hold" /\ isr'[s].pc # "hold"
    BY <1>1, <1>6 DEF Freeing
  <1>8. FullType'
    BY <1>1, <1>5, <1>6, Types, TypesKept DEF FullType
  <1>9. HasBuffer'
    BY <1>1, <1>2, <1>6 DEF IInv, HasBuffer
  <1>10. Locking'
    <2>1. isr[s].pc \notin {"off", "lock"}
      BY <1>1
    <2> QED
      BY <1>1, <1>6, <1>7, <2>1, TypesKept DEF IInv, Locking
  <1>11. Heads'
    BY <1>1, <1>5, SideFacts DEF IInv, Heads
  <1>12. Tips'
    <2>1. ASSUME NEW u \in Tasks, task[u].pc = "release_idx"
          PROVE  Tip(SideOf(u), rvq(SideOf(u)))' = task[u].d
      <3>1. SideOf(u) # s
        BY <1>7, <2>1, FreesAlone
      <3> QED
        BY <1>5, <2>1, <3>1, SideFacts DEF IInv, Tips
    <2>2. ASSUME NEW u \in Tasks, task[u].pc = "enqueue_idx"
          PROVE  Tip(SideOf(u), tvq(SideOf(u)))' = task[u].d
      BY <1>5, <2>2, SideFacts DEF IInv, Tips, r
    <2>3. ASSUME NEW o \in Side, isr'[o].pc = "free_idx"
          PROVE  Tip(o, rvq(o))' = isr'[o].d
      <3>1. CASE o = s
        BY <1>5, <1>6, <3>1 DEF r
      <3>2. CASE o # s
        BY <1>5, <1>6, <2>3, <3>2, SideFacts DEF IInv, Tips
      <3> QED
        BY <3>1, <3>2
    <2> QED
      BY <1>1, <2>1, <2>2, <2>3 DEF Tips
  <1>13. Headers'
    BY <1>1, <1>6, <1>7, SideFacts DEF IInv, Headers, IdxKept
  <1>14. OnePlace'
    <2>1. \A u \in Tasks, q \in Ring, e \in Desc : HeldByTask(u, q, e)' <=> HeldByTask(u, q, e)
      BY <1>1 DEF HeldByTask
    <2>2. \A o \in Side, q \in Ring, e \in Desc : /\ InQueue(o, q, e)' <=> InQueue(o, q, e)
                                                  /\ InCallback(o, q, e)' <=> InCallback(o, q, e)
      BY <1>1, <1>6, <1>7 DEF InQueue, InCallback, d
    <2> QED
      BY <1>5, <2>1, <2>2, Stayed DEF IInv
  <1>15. Once'
    BY <1>1, <1>5 DEF IInv, Once
  <1>16. InOrder' /\ NothingDropped'
    BY <1>1, <1>5, OrderKept, SideFacts DEF IInv, NothingDropped
  <1>17. Contents' /\ HeldIntact'
    <2>1. Dst' = Dst /\ \A o \in Side : Entries(In(o, rvq(o)))' = Entries(In(o, rvq(o)))
      BY <1>1, <1>5, TypesKept, SideFacts DEF Entries
    <2> QED
      BY <1>1, <2>1 DEF IInv, Contents, HeldIntact
  <1> QED
    BY <1>8, <1>9, <1>10, <1>11, <1>12, <1>13, <1>14, <1>15, <1>16, <1>17 DEF IInv

(* From the callback to the ring. *)
LEMMA RxFreeIdxInv ==
    ASSUME IInv, NEW s \in Side, RxFreeIdx(s)
    PROVE  IInv'
  <1> DEFINE r == rvq(s)
             z == Other(s)
             d == isr[s].d
  <1>1. /\ isr[s].pc = "free_idx"
        /\ vq' = [vq EXCEPT ![r] = put_idx(s, vq[r])]
        /\ isr' = [isr EXCEPT ![s].pc = "rx", ![s].d = None, ![s].freed = ConsumedNotify]
        /\ UNCHANGED <<setup, buf, reserved, lock, link_state, doorbell, task, sent, rx_queue,
                       published, delivered, dropped>>
    BY DEF RxFreeIdx
  <1>2. /\ r \in Ring /\ isr[s] \in IsrType /\ d \in Desc
        /\ z \in Side /\ z # s /\ tvq(z) = r /\ \A o \in Side : o # z => o = s
    BY <1>1, SideFacts, Types DEF IInv, HasBuffer, Freeing
  <1>3. InCallback(s, r, d)
    BY <1>1 DEF InCallback, Freeing
  <1>4. /\ \A o \in Side : d \notin Entries(In(o, r)) /\ ~InQueue(o, r, d)
        /\ \A u \in Tasks : ~HeldByTask(u, r, d)
    BY <1>2, <1>3, Apart DEF IInv
  <1>5. Len(In(z, r)) < N
    BY <1>2, <1>4, Room, Types DEF IInv
  <1>6. Tip(s, r) = d
    BY <1>1 DEF IInv, Tips
  <1>7. /\ vq' \in [Ring -> Vq]
        /\ In(z, r)' = Append(In(z, r), d)
        /\ \A o \in Side, q \in Ring : o # z \/ q # r => In(o, q)' = In(o, q)
        /\ \A o \in Side, q \in Ring : o # s \/ q # r => Tip(o, q)' = Tip(o, q)
    <2>1. /\ vq' \in [Ring -> Vq]
          /\ In(Other(s), r)' = Append(In(Other(s), r), Tip(s, r))
          /\ \A o \in Side, q \in Ring : o # Other(s) \/ q # r => In(o, q)' = In(o, q)
          /\ \A o \in Side, q \in Ring : o # s \/ q # r => Tip(o, q)' = Tip(o, q)
      BY <1>1, <1>2, <1>5, Publish, Types
    <2> QED
      BY <1>6, <2>1
  <1> HIDE DEF r, z, d
  <1>8. /\ \A o \in Side, q \in Ring, e \in Desc :
             e \in Entries(In(o, q))' <=> IF q = r /\ e = d THEN o = z
                                                           ELSE e \in Entries(In(o, q))
        /\ \A o \in Side, q \in Ring : NoRepeat(In(o, q))'
    BY <1>2, <1>4, <1>7, EntersRing
  <1>9. /\ isr' \in [Side -> IsrType] /\ isr'[s].pc = "rx"
        /\ \A o \in Side \ {s} : isr'[o] = isr[o]
    <2>1. ConsumedNotify \in BOOLEAN
      BY SetupFacts, Types DEF ConsumedNotify
    <2>2. CASE ConsumedNotify = TRUE
      BY <1>1, <1>2, <2>2, Types DEF IsrType, None
    <2>3. CASE ConsumedNotify = FALSE
      BY <1>1, <1>2, <2>3, Types DEF IsrType, None
    <2> QED
      BY <2>1, <2>2, <2>3
  <1>10. /\ isr[s].pc \in Freeing /\ isr[s].pc # "hold"
         /\ isr'[s].pc \notin {"hold"} \union Freeing
    BY <1>1, <1>9 DEF Freeing
  <1>11. FullType'
    BY <1>1, <1>7, <1>9, Types, TypesKept DEF FullType
  <1>12. HasBuffer'
    BY <1>1, <1>9, <1>10 DEF IInv, HasBuffer
  <1>13. Locking'
    <2>1. isr[s].pc \notin {"off", "lock"}
      BY <1>1
    <2> QED
      BY <1>1, <1>9, <1>10, <2>1, TypesKept DEF IInv, Locking
  <1>14. Heads'
    <2>1. ASSUME NEW u \in Tasks, task[u].pc \in {"alloc_end", "poll_end"}, task[u].d # None
          PROVE  (LET q == In(SideOf(u), tvq(SideOf(u))) IN q # << >> /\ task[u].d = Head(q))'
      <3>1. LET q == In(SideOf(u), tvq(SideOf(u))) IN q # << >> /\ task[u].d = Head(q)
        BY <2>1 DEF IInv, Heads
      <3>2. CASE SideOf(u) = z
        <4>1. In(z, r) \in Seq(Desc) /\ In(z, r) # << >> /\ task[u].d = Head(In(z, r))
          BY <1>2, <3>1, <3>2, InFacts, Types
        <4>2. Append(In(z, r), d) # << >> /\ Head(Append(In(z, r), d)) = Head(In(z, r))
          BY <1>2, <4>1
        <4> QED
          BY <1>1, <1>2, <1>7, <2>1, <3>2, <4>1, <4>2
      <3>3. CASE SideOf(u) # z
        BY <1>1, <1>7, <2>1, <3>1, <3>3, SideFacts
      <3> QED
        BY <3>2, <3>3
    <2> QED
      BY <1>1, <2>1 DEF Heads
  <1>15. Tips'
    <2>1. ASSUME NEW u \in Tasks, task[u].pc = "release_idx"
          PROVE  Tip(SideOf(u), rvq(SideOf(u)))' = task[u].d
      <3>1. SideOf(u) # s
        BY <1>10, <2>1, FreesAlone
      <3> QED
        BY <1>7, <2>1, <3>1, SideFacts DEF IInv, Tips
    <2>2. ASSUME NEW u \in Tasks, task[u].pc = "enqueue_idx"
          PROVE  Tip(SideOf(u), tvq(SideOf(u)))' = task[u].d
      BY <1>7, <2>2, SideFacts DEF IInv, Tips, r
    <2>3. ASSUME NEW o \in Side, isr'[o].pc = "free_idx"
          PROVE  Tip(o, rvq(o))' = isr'[o].d
      BY <1>7, <1>9, <2>3, SideFacts DEF IInv, Tips
    <2> QED
      BY <1>1, <2>1, <2>2, <2>3 DEF Tips
  <1>16. Headers'
    BY <1>1, <1>9, <1>10, SideFacts DEF IInv, Headers, IdxKept
  <1>17. OnePlace'
    <2>1. <<"ring", z>> \in Place
      BY <1>2 DEF Place
    <2>2. \A o \in Side, q \in Ring, e \in Desc :
            e \in Entries(In(o, q))' <=> IF q = r /\ e = d THEN <<"ring", z>> = <<"ring", o>>
                                                          ELSE e \in Entries(In(o, q))
      BY <1>8
    <2>3. \A u \in Tasks, q \in Ring, e \in Desc :
            HeldByTask(u, q, e)' <=> IF q = r /\ e = d THEN <<"ring", z>> = <<"task", u>>
                                                      ELSE HeldByTask(u, q, e)
      BY <1>1, <1>4 DEF HeldByTask
    <2>4. \A o \in Side, q \in Ring, e \in Desc :
            InQueue(o, q, e)' <=> IF q = r /\ e = d THEN <<"ring", z>> = <<"queue", o>>
                                                   ELSE InQueue(o, q, e)
      BY <1>1, <1>4 DEF InQueue
    <2>5. \A o \in Side, q \in Ring, e \in Desc :
            InCallback(o, q, e)' <=> IF q = r /\ e = d THEN <<"ring", z>> = <<"isr", o>>
                                                      ELSE InCallback(o, q, e)
      <3>1. \A o \in Side \ {s} : \A q, e : /\ InCallback(o, q, e)' <=> InCallback(o, q, e)
                                            /\ ~InCallback(o, r, e)
        BY <1>9, SideFacts DEF InCallback, r
      <3>2. \A q, e : ~InCallback(s, q, e)' /\ (InCallback(s, q, e) => q = r /\ e = d)
        BY <1>10 DEF InCallback, d, r
      <3> QED
        BY <3>1, <3>2
    <2> QED
      BY <1>2, <2>1, <2>2, <2>3, <2>4, <2>5, Moved DEF IInv
  <1>18. Once'
    BY <1>1, <1>8 DEF IInv, Once
  <1>19. \A o \in Side : In(o, rvq(o))' = In(o, rvq(o))
    BY <1>2, <1>7, SideFacts DEF r
  <1>20. InOrder' /\ NothingDropped'
    BY <1>1, <1>19, OrderKept DEF IInv, NothingDropped
  <1>21. Contents' /\ HeldIntact'
    <2>1. Dst' = Dst /\ \A o \in Side : Entries(In(o, rvq(o)))' = Entries(In(o, rvq(o)))
      BY <1>1, <1>19, TypesKept DEF Entries
    <2> QED
      BY <1>1, <2>1 DEF IInv, Contents, HeldIntact
  <1> QED
    BY <1>11, <1>12, <1>13, <1>14, <1>15, <1>16, <1>17, <1>18, <1>20, <1>21 DEF IInv

(* A buffer that is not in the queue finds room in it. *)
LEMMA QueueRoom ==
    ASSUME IInv, NEW s \in Side, NEW d \in Desc, ~InQueue(s, rvq(s), d)
    PROVE  Len(rx_queue[s]) < QueueLength
  <1> DEFINE L == Len(rx_queue[s])
             w == [i \in 1..L |-> rx_queue[s][i].d]
  <1>1. L \in Nat /\ \A i \in 1..L : rx_queue[s][i].d \in Desc
    BY QueueFacts
  <1>2. w \in Seq(Desc) /\ Len(w) = L
    BY <1>1
  <1>3. NoRepeat(w)
    BY <1>1 DEF NoRepeat, IInv, Once
  <1>4. d \notin Entries(w)
    BY <1>1 DEF Entries, InQueue
  <1> HIDE DEF w
  <1>5. Len(w) < N
    BY <1>2, <1>3, <1>4, RoomForOne
  <1> QED
    BY <1>1, <1>2, <1>5, SizeAssumption DEF QueueLength

(* From the ring to the queue, or to the callback that will free it. *)
LEMMA RxMessageInv ==
    ASSUME IInv, UnmixedSetup(setup), NEW s \in Side, RxMessage(s)
    PROVE  IInv'
  <1> DEFINE r == rvq(s)
             d == head(s, vq[r])
             m == buf[r][d]
             L == Len(rx_queue[s])
             queued == m.dst \in QueueEpts
             p == IF queued THEN "hold" ELSE "free"
  <1>1. /\ isr[s].pc = "rx" /\ pending(s, vq[r])
        /\ vq' = [vq EXCEPT ![r] = consume(s, vq[r])]
        /\ delivered' = [delivered EXCEPT ![r] = Append(@, m.msg)]
        /\ UNCHANGED <<setup, buf, reserved, lock, link_state, doorbell, task, sent, published>>
    BY DEF RxMessage
  <1>2. r \in Ring /\ isr[s] \in IsrType
    BY SideFacts, Types
  <1>3. In(s, r) # << >> /\ d = Head(In(s, r)) /\ In(s, r) \in Seq(Desc)
    BY <1>1, <1>2, InFacts, Types
  <1>4. /\ vq' \in [Ring -> Vq]
        /\ In(s, r)' = Tail(In(s, r))
        /\ \A o \in Side, q \in Ring : o # s \/ q # r => In(o, q)' = In(o, q)
        /\ \A o \in Side, q \in Ring : Tip(o, q)' = Tip(o, q)
    BY <1>1, <1>2, Take, Types
  <1>5. /\ d \in Desc
        /\ \A o \in Side : ~InQueue(o, r, d) /\ ~InCallback(o, r, d)
        /\ \A u \in Tasks : ~HeldByTask(u, r, d)
        /\ \A o \in Side, q \in Ring, e \in Desc :
             e \in Entries(In(o, q))' <=> e \in Entries(In(o, q)) /\ ~(q = r /\ e = d)
        /\ \A o \in Side, q \in Ring : NoRepeat(In(o, q))'
    BY <1>2, <1>3, <1>4, LeavesRing
  <1>6. m \in BufType /\ m.msg \in Msg \union {NoMsg} /\ m.dst \in Dst
    <2>1. m \in BufType
      BY <1>2, <1>5, Types
    <2>2. d \in Entries(In(s, r))
      BY <1>3 DEF Entries
    <2> QED
      BY <2>1, <2>2 DEF IInv, Contents, BufType
  <1>7. L < QueueLength
    BY <1>5, QueueRoom
  <1>8. CanQueue(s, m.dst) <=> queued
    BY <1>7 DEF CanQueue
  <1>9. /\ queued => rx_queue' = [rx_queue EXCEPT ![s] = Append(@, [d |-> d, msg |-> m.msg])]
        /\ ~queued => rx_queue' = rx_queue
        /\ dropped' = dropped
        /\ isr' = [isr EXCEPT ![s].pc = p, ![s].d = d]
    <2>1. CASE queued
      BY <1>8, <2>1 DEF RxMessage, Hold
    <2>2. CASE ~queued
      BY <1>8, <2>2 DEF RxMessage, Hold
    <2> QED
      BY <2>1, <2>2
  <1>10. p \in {"hold", "free"} /\ (queued <=> p = "hold")
    OBVIOUS
  <1>11. p = "free" => EnvContext \/ setup.receivers = {}
    <2>1. p = "free" => setup.releases \union setup.nowhere # {}
      BY <1>6, <1>10 DEF Dst, QueueEpts
    <2> QED
      BY <2>1 DEF UnmixedSetup, EnvContext
  <1> HIDE DEF r, d, m, L, queued, p
  <1>12. /\ isr' \in [Side -> IsrType] /\ isr'[s].pc = p /\ isr'[s].d = d
         /\ \A o \in Side \ {s} : isr'[o] = isr[o]
    BY <1>2, <1>5, <1>9, <1>10, Types DEF IsrType, Freeing
  <1>13. isr[s].pc \notin {"hold"} \union Freeing /\ (p \in Freeing <=> p = "free")
    BY <1>1, <1>10 DEF Freeing
  <1>14. delivered' \in [Ring -> Seq(Msg \union {NoMsg})]
    BY <1>1, <1>2, <1>6, Types
  <1>15. L \in Nat /\ L = Len(rx_queue[s]) /\ \A o \in Side : Len(rx_queue[o]) \in Nat
    BY QueueFacts DEF L
  <1>16. /\ rx_queue' \in [Side -> Seq([d : Desc, msg : Msg \union {NoMsg}])]
         /\ \A o \in Side \ {s} : rx_queue'[o] = rx_queue[o]
         /\ ~queued => rx_queue'[s] = rx_queue[s]
         /\ queued => /\ Len(rx_queue'[s]) = L + 1
                      /\ rx_queue'[s][L + 1] = [d |-> d, msg |-> m.msg]
                      /\ \A i \in 1..L : rx_queue'[s][i] = rx_queue[s][i]
    <2>1. CASE queued
      <3> DEFINE S == [d : Desc, msg : Msg \union {NoMsg}]
                 x == [d |-> d, msg |-> m.msg]
                 w == rx_queue[s]
      <3>1. /\ x \in S /\ w \in Seq(S) /\ rx_queue \in [Side -> Seq(S)] /\ Len(w) = L
            /\ rx_queue' = [rx_queue EXCEPT ![s] = Append(w, x)]
        BY <1>5, <1>6, <1>9, <1>15, <2>1, Types
      <3> HIDE DEF S, x, w
      <3>2. /\ Append(w, x) \in Seq(S) /\ Len(Append(w, x)) = L + 1 /\ Append(w, x)[L + 1] = x
            /\ \A i \in 1..L : Append(w, x)[i] = w[i]
        BY <3>1
      <3>3. /\ rx_queue' \in [Side -> Seq(S)] /\ rx_queue'[s] = Append(w, x)
            /\ \A o \in Side \ {s} : rx_queue'[o] = rx_queue[o]
        BY <3>1, <3>2
      <3> QED
        BY <2>1, <3>2, <3>3 DEF S, x, w
    <2>2. CASE ~queued
      BY <1>9, <2>2, Types
    <2> QED
      BY <2>1, <2>2
  <1>17. FullType'
    BY <1>1, <1>4, <1>12, <1>14, <1>16, Types, TypesKept DEF FullType
  <1>18. HasBuffer'
    BY <1>1, <1>5, <1>12 DEF IInv, HasBuffer
  <1>19. Locking'
    <2>1. isr[s].pc \notin {"off", "lock"}
      BY <1>1
    <2>2. EnvContext => \A o \in Side : isr'[o].pc \notin {"off", "lock"} => lock[o] = RxThread
      BY <1>12, <2>1 DEF IInv, Locking
    <2>3. ~EnvContext /\ setup.receivers # {} => \A o \in Side : isr'[o].pc \notin Freeing
      BY <1>11, <1>12, <1>13 DEF IInv, Locking
    <2> QED
      BY <1>1, <2>2, <2>3, TypesKept DEF IInv, Locking
  <1>20. Heads'
    <2>1. \A u \in Tasks : In(SideOf(u), tvq(SideOf(u)))' = In(SideOf(u), tvq(SideOf(u)))
      BY <1>4, SideFacts DEF r
    <2> QED
      BY <1>1, <2>1 DEF IInv, Heads
  <1>21. Tips'
    <2>1. p # "free_idx"
      BY <1>10
    <2> QED
      BY <1>1, <1>4, <1>12, <2>1, SideFacts DEF IInv, Tips
  <1>22. Headers'
    <2>1. ASSUME NEW o \in Side, NEW e, IdxKept(o, e)
          PROVE  IdxKept(o, e)'
      BY <1>1, <1>12, <1>13, <2>1 DEF IdxKept
    <2>2. queued => isr'[s].pc = "hold" /\ isr'[s].d = d
      BY <1>10, <1>12
    <2>3. \A u \in Tasks : (task[u].pc \in Reading => IdxKept(SideOf(u), task[u].d))'
      BY <1>1, <2>1, SideFacts DEF IInv, Headers
    <2>4. ASSUME NEW o \in Side, NEW i \in 1..Len(rx_queue'[o])
          PROVE  IdxKept(o, rx_queue[o][i].d)'
      <3>1. CASE o = s /\ queued
        <4>1. CASE i = L + 1
          <5>1. rx_queue'[o][i].d = d
            BY <1>16, <3>1, <4>1
          <5> QED
            BY <2>2, <3>1, <5>1 DEF IdxKept
        <4>2. CASE i # L + 1
          <5>1. i \in 1..L
            BY <1>15, <1>16, <3>1, <4>2
          <5>2. IdxKept(o, rx_queue[o][i].d) /\ rx_queue'[o][i] = rx_queue[o][i]
            BY <1>15, <1>16, <3>1, <5>1 DEF IInv, Headers
          <5>3. reserved[rvq(o)][rx_queue[o][i].d] = rx_queue[o][i].d
            BY <1>13, <3>1, <5>2 DEF IdxKept
          <5> QED
            BY <1>1, <5>2, <5>3 DEF IdxKept
        <4> QED
          BY <4>1, <4>2
      <3>2. CASE o # s \/ ~queued
        <4>1. rx_queue'[o] = rx_queue[o]
          BY <1>16, <3>2
        <4>2. IdxKept(o, rx_queue[o][i].d)
          BY <4>1 DEF IInv, Headers
        <4> QED
          BY <1>1, <1>12, <1>13, <4>1, <4>2 DEF IdxKept
      <3> QED
        BY <3>1, <3>2
    <2> QED
      BY <1>1, <2>3, <2>4 DEF IInv, Headers
  <1>23. OnePlace'
    <2> DEFINE k == IF queued THEN <<"queue", s>> ELSE <<"isr", s>>
    <2>1. k \in Place
      BY DEF Place
    <2>2. \A o \in Side, q \in Ring, e \in Desc :
            e \in Entries(In(o, q))' <=> IF q = r /\ e = d THEN k = <<"ring", o>>
                                                          ELSE e \in Entries(In(o, q))
      BY <1>5
    <2>3. \A u \in Tasks, q \in Ring, e \in Desc :
            HeldByTask(u, q, e)' <=> IF q = r /\ e = d THEN k = <<"task", u>>
                                                      ELSE HeldByTask(u, q, e)
      BY <1>1, <1>5 DEF HeldByTask
    <2>4. ASSUME NEW o \in Side, NEW q \in Ring, NEW e \in Desc
          PROVE  InQueue(o, q, e)' <=> IF q = r /\ e = d THEN k = <<"queue", o>>
                                                        ELSE InQueue(o, q, e)
      <3>1. CASE o = s /\ queued
        <4>1. \A i \in 1..(L + 1) : i \in 1..L \/ i = L + 1
          BY <1>15
        <4>2. L + 1 \in 1..(L + 1) /\ 1..L \subseteq 1..(L + 1)
          BY <1>15
        <4>3. (\E i \in 1..Len(rx_queue'[s]) : rx_queue'[s][i].d = e)
                <=> e = d \/ \E i \in 1..L : rx_queue[s][i].d = e
          <5>1. Len(rx_queue'[s]) = L + 1 /\ rx_queue'[s][L + 1].d = d
            BY <1>16, <3>1
          <5>2. \A i \in 1..L : rx_queue'[s][i].d = rx_queue[s][i].d
            BY <1>16, <3>1
          <5> QED
            BY <4>1, <4>2, <5>1, <5>2
        <4> QED
          BY <1>5, <1>15, <3>1, <4>3 DEF InQueue, r
      <3>2. CASE o # s \/ ~queued
        <4>1. rx_queue'[o] = rx_queue[o]
          BY <1>16, <3>2
        <4>2. InQueue(o, q, e)' <=> InQueue(o, q, e)
          BY <4>1 DEF InQueue
        <4> QED
          BY <1>5, <3>2, <4>2
      <3> QED
        BY <3>1, <3>2
    <2>5. ASSUME NEW o \in Side, NEW q \in Ring, NEW e \in Desc
          PROVE  InCallback(o, q, e)' <=> IF q = r /\ e = d THEN k = <<"isr", o>>
                                                           ELSE InCallback(o, q, e)
      <3>1. CASE o = s
        <4>1. InCallback(s, q, e)' <=> q = r /\ e = d /\ ~queued
          BY <1>10, <1>12, <1>13 DEF InCallback, r
        <4>2. ~InCallback(s, q, e)
          BY <1>13 DEF InCallback
        <4> QED
          BY <3>1, <4>1, <4>2
      <3>2. CASE o # s
        <4>1. InCallback(o, q, e)' <=> InCallback(o, q, e)
          BY <1>12, <3>2 DEF InCallback
        <4> QED
          BY <1>5, <3>2, <4>1
      <3> QED
        BY <3>1, <3>2
    <2> HIDE DEF k
    <2> QED
      BY <1>2, <1>5, <2>1, <2>2, <2>3, <2>4, <2>5, Moved DEF IInv
  <1>24. Once'
    <2>1. ASSUME NEW o \in Side, NEW i \in 1..Len(rx_queue'[o]), NEW j \in 1..Len(rx_queue'[o]),
                 rx_queue'[o][i].d = rx_queue'[o][j].d
          PROVE  i = j
      <3>1. CASE o = s /\ queued
        <4>1. \A a \in 1..L : rx_queue[s][a].d # d
          BY <1>5, <1>15 DEF InQueue, r
        <4>2. /\ i \in 1..L \/ i = L + 1
              /\ j \in 1..L \/ j = L + 1
          BY <1>15, <1>16, <3>1
        <4>3. rx_queue'[s][L + 1].d = d
          BY <1>16, <3>1
        <4>4. CASE i \in 1..L /\ j \in 1..L
          BY <1>15, <1>16, <2>1, <3>1, <4>4 DEF IInv, Once
        <4> QED
          BY <1>16, <2>1, <3>1, <4>1, <4>2, <4>3, <4>4
      <3>2. CASE o # s \/ ~queued
        <4>1. rx_queue'[o] = rx_queue[o]
          BY <1>16, <3>2
        <4> QED
          BY <2>1, <4>1 DEF IInv, Once
      <3> QED
        BY <3>1, <3>2
    <2> QED
      BY <1>5, <2>1 DEF Once
  <1>25. InOrder'
    <2>1. ASSUME NEW o \in Side
          PROVE  (published[rvq(o)] = delivered[rvq(o)] \o Texts(o))'
      <3>1. CASE o = s
        <4> DEFINE w == In(s, r)
                   S == Msg \union {NoMsg}
                   f == [e \in Desc |-> buf[r][e].msg]
                   T == [i \in 1..Len(w) |-> f[w[i]]]
                   V == [i \in 1..(Len(w) - 1) |-> f[w[i + 1]]]
                   a == delivered[r]
                   x == m.msg
        <4>1. /\ w \in Seq(Desc) /\ w # << >> /\ f \in [Desc -> S] /\ a \in Seq(S)
              /\ d = w[1] /\ x = f[w[1]]
          <5>1. \A e \in Desc : buf[r][e].msg \in S
            BY <1>2, Types DEF BufType
          <5>2. d = w[1]
            BY <1>3
          <5> QED
            BY <1>2, <1>3, <1>5, <5>1, <5>2, Types DEF m
        <4>2. \A i \in 1..Len(w) : w[i] \in Desc
          BY <4>1
        <4>3. Texts(s) = T
          BY <1>2, <1>3, <4>2 DEF Texts, r
        <4>4. Texts(s)' = V
          <5>1. Texts(s)' = [i \in DOMAIN Tail(w) |-> buf[r][Tail(w)[i]].msg]
            BY <1>1, <1>4 DEF Texts, r
          <5>2. DOMAIN Tail(w) = 1..(Len(w) - 1) /\ \A i \in 1..(Len(w) - 1) : Tail(w)[i] = w[i + 1]
            BY <4>1
          <5>3. \A i \in 1..(Len(w) - 1) : w[i + 1] \in Desc
            BY <4>1, <4>2
          <5> QED
            BY <5>1, <5>2, <5>3
        <4>5. /\ T \in Seq(S) /\ Len(T) = Len(w) /\ V \in Seq(S) /\ Len(V) = Len(w) - 1
              /\ Len(w) \in Nat /\ Len(w) >= 1
              /\ T[1] = x /\ \A i \in 1..(Len(w) - 1) : V[i] = T[i + 1]
          <5> HIDE DEF S, f, w, x
          <5>1. Len(w) \in Nat /\ Len(w) >= 1
            BY <4>1
          <5>2. \A i \in 1..Len(w) : f[w[i]] \in S
            BY <4>1, <4>2
          <5>3. T \in Seq(S) /\ Len(T) = Len(w)
            BY <5>1, <5>2
          <5>4. \A i \in 1..(Len(w) - 1) : i + 1 \in 1..Len(w)
            BY <5>1
          <5>5. V \in Seq(S) /\ Len(V) = Len(w) - 1
            BY <5>1, <5>2, <5>4
          <5>6. 1 \in 1..Len(w)
            BY <5>1
          <5> QED
            BY <4>1, <5>1, <5>3, <5>4, <5>5, <5>6
        <4> HIDE DEF w, S, f, T, V, a, x
        <4>6. a \o T = Append(a, x) \o V
          <5>1. x \in S
            BY <1>6 DEF x, S
          <5>2. Append(a, x) \in Seq(S) /\ Len(Append(a, x)) = Len(a) + 1
            BY <4>1, <5>1
          <5>3. /\ Len(a \o T) = Len(a) + Len(w) /\ Len(a) \in Nat
                /\ Len(Append(a, x) \o V) = Len(a) + Len(w)
            <6> DEFINE c == Append(a, x)
            <6>1. c \in Seq(S) /\ Len(c) = Len(a) + 1 /\ Len(a) \in Nat
              BY <4>1, <5>2
            <6> HIDE DEF c
            <6>2. a \in Seq(S) /\ T \in Seq(S) /\ V \in Seq(S)
              BY <4>1, <4>5
            <6>3. Len(c \o V) = Len(c) + Len(V)
              BY <6>1, <6>2, JoinedLength
            <6>4. Len(a \o T) = Len(a) + Len(T)
              BY <6>2, JoinedLength
            <6> QED
              BY <4>5, <6>1, <6>3, <6>4 DEF c
          <5>4. ASSUME NEW i \in 1..(Len(a) + Len(w))
                PROVE  (a \o T)[i] = (Append(a, x) \o V)[i]
            <6>1. CASE i <= Len(a)
              BY <4>1, <4>5, <5>2, <6>1
            <6>2. CASE i = Len(a) + 1
              BY <4>1, <4>5, <5>2, <6>2
            <6>3. CASE i > Len(a) + 1
              <7>1. i - Len(a) - 1 \in 1..(Len(w) - 1) /\ Len(a) \in Nat
                BY <4>1, <4>5, <6>3
              <7>2. (a \o T)[i] = T[i - Len(a)]
                BY <4>1, <4>5, <6>3
              <7>3. (Append(a, x) \o V)[i] = V[i - (Len(a) + 1)]
                BY <4>1, <4>5, <5>2, <6>3
              <7> QED
                BY <4>5, <7>1, <7>2, <7>3
            <6> QED
              BY <4>5, <5>3, <6>1, <6>2, <6>3
          <5>5. a \o T \in Seq(S) /\ Append(a, x) \o V \in Seq(S)
            BY <4>1, <4>5, <5>2
          <5> QED
            BY <5>3, <5>4, <5>5
        <4>7. delivered'[r] = Append(a, x)
          BY <1>1, <1>2, Types DEF a, x
        <4>8. published[r] = a \o T
          BY <4>3 DEF IInv, InOrder, a, r
        <4> QED
          BY <1>1, <3>1, <4>4, <4>6, <4>7, <4>8 DEF r
      <3>2. CASE o # s
        <4>1. rvq(o) # r /\ rvq(o) \in Ring
          BY <3>2, SideFacts DEF r
        <4>2. Texts(o)' = Texts(o)
          BY <1>1, <1>4, <4>1 DEF Texts
        <4> QED
          BY <1>1, <4>1, <4>2, Types DEF IInv, InOrder
      <3> QED
        BY <3>1, <3>2
    <2> QED
      BY <2>1 DEF InOrder
  <1>26. Contents'
    <2>1. ASSUME NEW o \in Side, NEW e \in Entries(In(o, rvq(o)))'
          PROVE  buf[rvq(o)][e].dst \in Dst
      <3>1. e \in Desc /\ rvq(o) \in Ring
        BY <1>4, NextEntries, SideFacts
      <3> QED
        BY <1>5, <3>1 DEF IInv, Contents
    <2>2. Dst' = Dst
      BY <1>1, TypesKept
    <2> QED
      BY <1>1, <2>1, <2>2 DEF IInv, Contents
  <1>27. HeldIntact'
    <2>1. ASSUME NEW o \in Side, NEW i \in DOMAIN rx_queue'[o]
          PROVE  buf[rvq(o)][rx_queue'[o][i].d].msg = rx_queue'[o][i].msg
      <3>1. CASE o = s /\ queued
        <4>1. i \in 1..L \/ i = L + 1
          BY <1>15, <1>16, <3>1
        <4>2. CASE i \in 1..L
          <5>1. i \in DOMAIN rx_queue[o] /\ rx_queue'[o][i] = rx_queue[o][i]
            BY <1>15, <1>16, <3>1, <4>2, QueueFacts
          <5> QED
            BY <5>1 DEF IInv, HeldIntact
        <4>3. CASE i = L + 1
          BY <1>16, <3>1, <4>3 DEF m, r
        <4> QED
          BY <4>1, <4>2, <4>3
      <3>2. CASE o # s \/ ~queued
        <4>1. rx_queue'[o] = rx_queue[o]
          BY <1>16, <3>2
        <4> QED
          BY <4>1 DEF IInv, HeldIntact
      <3> QED
        BY <3>1, <3>2
    <2> QED
      BY <1>1, <2>1 DEF IInv, HeldIntact
  <1>28. NothingDropped'
    BY <1>9 DEF IInv, NothingDropped
  <1> QED
    BY <1>17, <1>18, <1>19, <1>20, <1>21, <1>22, <1>23, <1>24, <1>25, <1>26, <1>27, <1>28 DEF IInv

-----------------------------------------------------------------------------
(* The rings that rpmsg_lite_master_init leaves: every buffer is with the   *)
(* side that will send it.                                                  *)
LEMMA InitRings ==
    ASSUME Init
    PROVE  /\ vq \in [Ring -> Vq]
           /\ \A s \in Side : /\ In(s, tvq(s)) = [i \in 1..N |-> i - 1]
                              /\ In(s, rvq(s)) = << >>
  <1> DEFINE ring == [i \in Slot |-> i]
             zero == [i \in Slot |-> 0]
  <1>1. ring \in [Slot -> Desc] /\ zero \in [Slot -> Desc]
    BY SizeAssumption DEF Slot, Desc
  <1>2. /\ Window(ring, 0, N) = [i \in 1..N |-> i - 1]
        /\ Window(zero, 0, 0) = << >>
        /\ 0 \in Idx /\ N \in Idx
    BY <1>1, InitWindows
  <1>3. vq = [r \in Ring |-> IF r = "vring0" THEN filled_avail ELSE filled_used]
    BY DEF Init
  <1>4. filled_avail \in Vq /\ filled_used \in Vq
    BY <1>1, <1>2 DEF filled_avail, filled_used, Vq
  <1>5. vq["vring0"] = filled_avail /\ vq["vring1"] = filled_used /\ vq \in [Ring -> Vq]
    BY <1>3, <1>4 DEF Ring
  <1>6. /\ filled_avail.avail_ring = ring /\ filled_avail.used_ring = zero
        /\ filled_avail.avail_idx = N /\ filled_avail.vq_available_idx = 0
        /\ filled_avail.used_idx = 0 /\ filled_avail.vq_used_cons_idx = 0
        /\ filled_used.avail_ring = zero /\ filled_used.used_ring = ring
        /\ filled_used.avail_idx = 0 /\ filled_used.vq_available_idx = 0
        /\ filled_used.used_idx = N /\ filled_used.vq_used_cons_idx = 0
    BY DEF filled_avail, filled_used
  <1> HIDE DEF ring, zero
  <1>7. /\ AvailWindow(filled_avail) = [i \in 1..N |-> i - 1] /\ UsedWindow(filled_avail) = << >>
        /\ UsedWindow(filled_used) = [i \in 1..N |-> i - 1] /\ AvailWindow(filled_used) = << >>
    BY <1>2, <1>6 DEF AvailWindow, UsedWindow
  <1> QED
    BY <1>5, <1>7 DEF In, InSeq, Side, Master, Remote, tvq, rvq

(* The initial states satisfy the inductive invariant.                      *)
LEMMA InitIInv == Init => IInv
  <1> SUFFICES ASSUME Init PROVE IInv
    OBVIOUS
  <1> DEFINE all == [i \in 1..N |-> i - 1]
  <1>1. N \in Nat \ {0} /\ MaxSend \in Nat
    BY SizeAssumption, RpmsgAssumption
  <1>2. NoRepeat(all)
    BY <1>1 DEF NoRepeat
  <1>3. Entries(all) = Desc
    <2>1. \A x \in Desc : x + 1 \in 1..N /\ all[x + 1] = x
      BY <1>1 DEF Desc
    <2>2. DOMAIN all = 1..N /\ \A i \in 1..N : all[i] \in Desc
      BY <1>1 DEF Desc
    <2> QED
      BY <2>1, <2>2 DEF Entries
  <1>4. Entries(<< >>) = {} /\ NoRepeat(<< >>)
    BY DEF Entries, NoRepeat
  <1> HIDE DEF all
  <1>5. vq \in [Ring -> Vq] /\ \A s \in Side : In(s, tvq(s)) = all /\ In(s, rvq(s)) = << >>
    BY InitRings DEF all
  <1>6. /\ setup \in Setups
        /\ buf = [r \in Ring |-> [d \in Desc |-> [dst |-> None, msg |-> NoMsg]]]
        /\ reserved = [r \in Ring |-> [d \in Desc |-> 0]]
        /\ lock = [s \in Side |-> Free]
        /\ link_state = [s \in Side |-> s = Master]
        /\ doorbell = [s \in Side |-> IF s = Remote THEN {tvq(Remote)} ELSE {}]
        /\ isr = [s \in Side |-> IdleIsr] /\ task = [t \in Tasks |-> IdleTask]
        /\ sent = [t \in Tasks |-> 0] /\ rx_queue = [s \in Side |-> << >>]
        /\ published = [r \in Ring |-> << >>] /\ delivered = [r \in Ring |-> << >>]
        /\ dropped = {}
    BY DEF Init
  <1>7. IdleIsr \in IsrType /\ IdleIsr.pc = "off"
    BY DEF IdleIsr, IsrType, None
  <1>8. /\ \A t \in Tasks : task[t].pc = "idle"
        /\ \A s \in Side : isr[s].pc = "off" /\ rx_queue[s] = << >>
        /\ \A r \in Ring : published[r] = << >> /\ delivered[r] = << >>
    BY <1>6, <1>7, IdleFacts
  <1>9. FullType
    <2>1. buf \in [Ring -> [Desc -> BufType]] /\ reserved \in [Ring -> [Desc -> Desc]]
      BY <1>1, <1>6 DEF BufType, Desc
    <2>2. /\ lock \in [Side -> Tasks \union {Free, RxThread}] /\ link_state \in [Side -> BOOLEAN]
          /\ isr \in [Side -> IsrType] /\ task \in [Tasks -> TaskType]
      BY <1>6, <1>7, IdleFacts
    <2>3. doorbell \in [Side -> SUBSET Ring]
      BY <1>6 DEF Ring, tvq
    <2>4. sent \in [Tasks -> 0..MaxSend]
      BY <1>1, <1>6
    <2>5. /\ rx_queue \in [Side -> Seq([d : Desc, msg : Msg \union {NoMsg}])]
          /\ published \in [Ring -> Seq(Msg \union {NoMsg})]
          /\ delivered \in [Ring -> Seq(Msg \union {NoMsg})]
      BY <1>6
    <2> QED
      BY <1>5, <1>6, <2>1, <2>2, <2>3, <2>4, <2>5 DEF FullType
  <1>10. HasBuffer /\ Locking
    BY <1>8 DEF HasBuffer, Locking, Sending, Reading, Locked, Freeing
  <1>11. Heads /\ Tips
    BY <1>8 DEF Heads, Tips
  <1>12. Headers
    BY <1>8 DEF Headers, Sending, Reading
  <1>13. \A r \in Ring, d \in Desc, s \in Side : d \in Entries(In(s, r)) <=> r = tvq(s)
    BY <1>3, <1>4, <1>5, SideFacts
  <1>14. OnePlace
    <2>1. \A t \in Tasks : \A r, d : ~HeldByTask(t, r, d)
      BY <1>8 DEF HeldByTask, Sending, Reading
    <2>2. \A s \in Side : \A r, d : ~InQueue(s, r, d) /\ ~InCallback(s, r, d)
      BY <1>8 DEF InQueue, InCallback, Freeing
    <2>3. ASSUME NEW p \in Place, NEW r \in Ring, NEW d \in Desc
          PROVE  Has(p, r, d) <=> \E s \in Side : p = <<"ring", s>> /\ r = tvq(s)
      <3>1. CASE p \in {"ring", "queue", "isr"} \X Side
        BY <1>13, <2>2, <3>1 DEF Has
      <3>2. CASE p \in {"task"} \X Tasks
        BY <2>1, <3>2 DEF Has
      <3> QED
        BY <3>1, <3>2 DEF Place
    <2>4. \A r \in Ring : \E s \in Side : <<"ring", s>> \in Place /\ r = tvq(s)
      BY DEF Place, Side, Ring, tvq, Master, Remote
    <2>5. ASSUME NEW r \in Ring, NEW d \in Desc
          PROVE  \E p \in Place : Has(p, r, d)
      BY <2>3, <2>4
    <2>6. ASSUME NEW r \in Ring, NEW d \in Desc, NEW p \in Place, NEW q \in Place,
                 Has(p, r, d), Has(q, r, d)
          PROVE  p = q
      <3>1. PICK s \in Side : p = <<"ring", s>> /\ r = tvq(s)
        BY <2>3, <2>6
      <3>2. PICK o \in Side : q = <<"ring", o>> /\ r = tvq(o)
        BY <2>3, <2>6
      <3>3. s = o
        BY <3>1, <3>2 DEF tvq, Side, Master, Remote
      <3> QED
        BY <3>1, <3>2, <3>3
    <2> QED
      BY <2>5, <2>6 DEF OnePlace
  <1>15. Once
    BY <1>2, <1>4, <1>5, <1>8, SideFacts DEF Once
  <1>16. Contents /\ HeldIntact /\ NothingDropped
    <2>1. \A s \in Side : DOMAIN rx_queue[s] = {} /\ Entries(In(s, rvq(s))) = {}
      BY <1>4, <1>5, <1>8
    <2> QED
      BY <1>6, <1>8, <2>1 DEF Contents, HeldIntact, NothingDropped, Calling
  <1>17. InOrder
    <2>1. \A s \in Side : Texts(s) = << >> /\ rvq(s) \in Ring
      BY <1>5, SideFacts DEF Texts
    <2>2. << >> \o << >> = << >>
      OBVIOUS
    <2> QED
      BY <1>8, <2>1, <2>2 DEF InOrder
  <1> QED
    BY <1>9, <1>10, <1>11, <1>12, <1>14, <1>15, <1>16, <1>17 DEF IInv

(* A stuttering step keeps the invariant.                                   *)
LEMMA StutterIInv == IInv /\ UNCHANGED vars => IInv'
  <1> SUFFICES ASSUME IInv, UNCHANGED vars PROVE IInv'
    OBVIOUS
  <1>1. UNCHANGED <<setup, vq, buf, reserved, lock, link_state, doorbell, isr, task, sent,
                    rx_queue, published, delivered, dropped>>
    BY DEF vars
  <1>2. FullType' /\ Locking'
    <2>1. FullType'
      BY <1>1, Types, TypesKept DEF FullType
    <2>2. Locking'
      BY <1>1, TypesKept DEF IInv, Locking
    <2> QED
      BY <2>1, <2>2
  <1>3. HasBuffer' /\ Heads' /\ Tips' /\ Headers'
    BY <1>1, RingsKept DEF IInv, HasBuffer, Heads, Tips, Headers, IdxKept
  <1>4. OnePlace'
    <2>1. /\ \A u \in Tasks, q \in Ring, e \in Desc : HeldByTask(u, q, e)' <=> HeldByTask(u, q, e)
          /\ \A o \in Side, q \in Ring, e \in Desc : /\ InQueue(o, q, e)' <=> InQueue(o, q, e)
                                                     /\ InCallback(o, q, e)' <=> InCallback(o, q, e)
      BY <1>1 DEF HeldByTask, InQueue, InCallback
    <2> QED
      BY <1>1, <2>1, RingsKept, Stayed DEF IInv
  <1>5. Once' /\ InOrder' /\ NothingDropped'
    BY <1>1, RingsKept, OrderKept DEF IInv, Once, NothingDropped
  <1>6. Contents' /\ HeldIntact'
    BY <1>1, RingsKept, TypesKept DEF IInv, Contents, HeldIntact
  <1> QED
    BY <1>2, <1>3, <1>4, <1>5, <1>6 DEF IInv

(* Every step keeps the invariant: one lemma above for each action.         *)
LEMMA NextIInv ==
    ASSUME Unmixed, IInv, [Next]_vars
    PROVE  IInv'
  <1>1. UnmixedSetup(setup)
    BY Types DEF Unmixed
  <1>2. ASSUME NEW t \in Tasks, NEW dst \in Dst, NEW timeout \in setup.timeouts,
               NEW nocopy \in setup.nocopy, SendCall(t, dst, timeout, nocopy)
        PROVE  IInv'
    BY <1>2, SendCallInv
  <1>3. ASSUME NEW t \in Tasks, SendStep(t)
        PROVE  IInv'
    BY <1>3, AllocInv, AllocNone, AllocGot, FillInv, EnqueueSlotInv, EnqueueIdxInv,
       EnqueueKickInv DEF SendStep
  <1>4. ASSUME NEW t \in Tasks, RecvStep(t)
        PROVE  IInv'
    BY <1>4, RecvGetInv, RecvCopyInv, ReleaseSlotInv, ReleaseIdxInv DEF RecvStep
  <1>5. ASSUME NEW s \in Side, TxCallback(s)
        PROVE  IInv'
    BY <1>5, TxCallbackInv
  <1>6. ASSUME NEW s \in Side, RxStep(s)
        PROVE  IInv'
    BY <1>1, <1>6, RxEnterInv, RxLockInv, RxMessageInv, RxHoldInv, RxFreeSlotInv,
       RxFreeIdxInv, RxEmptyInv, RxExitInv DEF RxStep
  <1>7. CASE UNCHANGED vars
    BY <1>7, StutterIInv
  <1> QED
    BY <1>2, <1>3, <1>4, <1>5, <1>6, <1>7 DEF Next

(* The inductive invariant holds in every reachable state: every buffer     *)
(* is in exactly one place, the messages are where the order of their       *)
(* sends says, and the mutex is held by whoever is in its section.          *)
THEOREM Invariance ==
    ASSUME Unmixed
    PROVE  Spec => []IInv
  <1>1. Init => IInv
    BY InitIInv
  <1>2. IInv /\ [Next]_vars => IInv'
    BY NextIInv
  <1> QED
    BY <1>1, <1>2, PTL DEF Spec

-----------------------------------------------------------------------------
(* What the invariant says of the system. *)

(* Every descriptor index that a task, a handler, a ring or a header holds  *)
(* names a buffer, and every variable has its type.                         *)
THEOREM TypeCorrect ==
    ASSUME Unmixed
    PROVE  Spec => []TypeOK
  <1>1. IInv => TypeOK
    <2> SUFFICES ASSUME IInv PROVE TypeOK
      OBVIOUS
    <2>1. ASSUME NEW r \in Ring, NEW d \in Desc
          PROVE  buf[r][d].dst \in Dst \union {None} /\ buf[r][d].msg \in Msg \union {NoMsg}
      <3>1. buf[r][d] \in BufType
        BY Types
      <3> QED
        BY <3>1 DEF BufType
    <2>2. ASSUME NEW s \in Side
          PROVE  isr[s].d \in Desc \union {None}
      <3>1. isr[s] \in IsrType
        BY Types
      <3> QED
        BY <3>1 DEF IsrType
    <2>3. ASSUME NEW t \in Tasks
          PROVE  task[t].d \in Desc \union {None}
      <3>1. task[t] \in TaskType
        BY Types
      <3> QED
        BY <3>1 DEF TaskType
    <2> QED
      BY <2>1, <2>2, <2>3, Types DEF TypeOK
  <1> QED
    BY <1>1, Invariance, PTL

(* The windows in the direction of the messages and back are those of the   *)
(* receiving and of the sending side.                                       *)
LEMMA Directions ==
    ASSUME NEW r \in Ring
    PROVE  /\ Receiver(r) \in Side /\ rvq(Receiver(r)) = r
           /\ Forward(r) = In(Receiver(r), r) /\ Back(r) = In(Other(Receiver(r)), r)
           /\ \A s \in Side : rvq(s) = r => s = Receiver(r)
           /\ \A s \in Side : s = Receiver(r) \/ s = Other(Receiver(r))
  BY DEF Ring, Receiver, Side, Master, Remote, rvq, Forward, Back, In, InSeq, Other

(* Counting something that is there at most once. *)
LEMMA CountOccurrences ==
    ASSUME NEW s \in Seq(Desc), NoRepeat(s), NEW d \in Desc
    PROVE  Cardinality(Occurrences(s, d)) = IF d \in Entries(s) THEN 1 ELSE 0
  <1>1. CASE d \in Entries(s)
    <2>1. PICK i \in DOMAIN s : s[i] = d
      BY <1>1 DEF Entries
    <2>2. Occurrences(s, d) = {i}
      BY <2>1 DEF Occurrences, NoRepeat
    <2> QED
      BY <1>1, <2>2, FS_Singleton
  <1>2. CASE d \notin Entries(s)
    <2>1. Occurrences(s, d) = {}
      BY <1>2 DEF Entries, Occurrences
    <2> QED
      BY <1>2, <2>1, FS_EmptySet
  <1> QED
    BY <1>1, <1>2

(* Every buffer of both vrings has exactly one owner at any moment, whoever *)
(* sends, receives and is interrupted: the code loses no buffer and never   *)
(* hands one to two contexts.                                               *)
THEOREM OneOwnerHolds ==
    ASSUME Unmixed
    PROVE  Spec => []OneOwner
  <1>1. ASSUME IInv, NEW r \in Ring, NEW d \in Desc
        PROVE  Owners(r, d) = 1
    <2> DEFINE R == Receiver(r)
               S == Other(R)
               Q == {i \in DOMAIN rx_queue[R] : rx_queue[R][i].d = d}
    <2>1. /\ R \in Side /\ S \in Side /\ R # S /\ rvq(R) = r
          /\ Forward(r) = In(R, r) /\ Back(r) = In(S, r)
          /\ \A s \in Side : rvq(s) = r => s = R
          /\ \A s \in Side : s = R \/ s = S
      BY Directions, SideFacts
    <2> HIDE DEF R, S
    <2>2. /\ Cardinality(Occurrences(Forward(r), d)) = IF d \in Entries(In(R, r)) THEN 1 ELSE 0
          /\ Cardinality(Occurrences(Back(r), d)) = IF d \in Entries(In(S, r)) THEN 1 ELSE 0
      <3>1. /\ In(R, r) \in Seq(Desc) /\ NoRepeat(In(R, r))
            /\ In(S, r) \in Seq(Desc) /\ NoRepeat(In(S, r))
        BY <1>1, <2>1, InFacts, Types DEF IInv, Once
      <3> QED
        BY <2>1, <3>1, CountOccurrences
    <2>3. ASSUME NEW t \in Tasks
          PROVE  /\ t \in SendersWith(r, d) => HeldByTask(t, r, d)
                 /\ t \in ReceiversWith(r, d) => HeldByTask(t, r, d)
                 /\ HeldByTask(t, r, d) =>
                      \/ t \in SendersWith(r, d) /\ t \notin ReceiversWith(r, d)
                      \/ t \notin SendersWith(r, d) /\ t \in ReceiversWith(r, d)
      BY DEF SendersWith, ReceiversWith, HeldByTask, Sending, Reading
    <2>4. SendersWith(r, d) \subseteq Tasks /\ ReceiversWith(r, d) \subseteq Tasks
      BY DEF SendersWith, ReceiversWith
    <2>5. DOMAIN rx_queue[R] = 1..Len(rx_queue[R])
      BY <1>1, <2>1, QueueFacts
    <2>6. CallbackHas(r, d) <=> InCallback(R, r, d)
      BY <2>1 DEF CallbackHas, InCallback, Freeing, R
    <2>7. /\ \A t \in Tasks : HeldByTask(t, r, d) =>
               /\ Cardinality(SendersWith(r, d)) + Cardinality(ReceiversWith(r, d)) = 1
               /\ Cardinality(SendersWith(r, d)) \in Nat /\ Cardinality(ReceiversWith(r, d)) \in Nat
          /\ (\A t \in Tasks : ~HeldByTask(t, r, d)) =>
               Cardinality(SendersWith(r, d)) = 0 /\ Cardinality(ReceiversWith(r, d)) = 0
      <3>1. ASSUME NEW t \in Tasks, HeldByTask(t, r, d)
            PROVE  \/ SendersWith(r, d) = {t} /\ ReceiversWith(r, d) = {}
                   \/ SendersWith(r, d) = {} /\ ReceiversWith(r, d) = {t}
        <4>1. \A u \in Tasks : HeldByTask(u, r, d) => u = t
          BY <1>1, <3>1, Apart DEF IInv
        <4> QED
          BY <2>3, <2>4, <3>1, <4>1
      <3>2. ASSUME \A t \in Tasks : ~HeldByTask(t, r, d)
            PROVE  SendersWith(r, d) = {} /\ ReceiversWith(r, d) = {}
        BY <2>3, <2>4, <3>2
      <3>3. /\ Cardinality({}) = 0 /\ \A x : Cardinality({x}) = 1
        BY FS_EmptySet, FS_Singleton
      <3>4. ASSUME NEW t \in Tasks, HeldByTask(t, r, d)
            PROVE  \/ Cardinality(SendersWith(r, d)) = 1 /\ Cardinality(ReceiversWith(r, d)) = 0
                   \/ Cardinality(SendersWith(r, d)) = 0 /\ Cardinality(ReceiversWith(r, d)) = 1
        <4>1. CASE SendersWith(r, d) = {t} /\ ReceiversWith(r, d) = {}
          BY <3>3, <4>1
        <4>2. CASE SendersWith(r, d) = {} /\ ReceiversWith(r, d) = {t}
          BY <3>3, <4>2
        <4> QED
          BY <3>1, <3>4, <4>1, <4>2
      <3>5. ASSUME \A t \in Tasks : ~HeldByTask(t, r, d)
            PROVE  Cardinality(SendersWith(r, d)) = 0 /\ Cardinality(ReceiversWith(r, d)) = 0
        <4>1. SendersWith(r, d) = {} /\ ReceiversWith(r, d) = {}
          BY <3>2, <3>5
        <4> QED
          BY <3>3, <4>1
      <3> QED
        BY <3>4, <3>5
    <2>8. Cardinality(Q) = IF InQueue(R, r, d) THEN 1 ELSE 0
      <3>1. CASE InQueue(R, r, d)
        <4>1. PICK i \in 1..Len(rx_queue[R]) : rx_queue[R][i].d = d
          BY <3>1 DEF InQueue
        <4>2. Q = {i}
          BY <1>1, <2>1, <2>5, <4>1 DEF IInv, Once
        <4> QED
          BY <3>1, <4>2, FS_Singleton
      <3>2. CASE ~InQueue(R, r, d)
        <4>1. Q = {}
          BY <2>1, <2>5, <3>2 DEF InQueue
        <4> QED
          BY <3>2, <4>1, FS_EmptySet
      <3> QED
        BY <3>1, <3>2
    <2>9. Owners(r, d) =
            Cardinality(Occurrences(Forward(r), d)) + Cardinality(Occurrences(Back(r), d))
            + Cardinality(SendersWith(r, d)) + Cardinality(ReceiversWith(r, d))
            + Cardinality(Q) + (IF InCallback(R, r, d) THEN 1 ELSE 0)
      BY <2>6 DEF Owners, R
    <2> HIDE DEF Q
    <2>10. \/ \E s \in Side : d \in Entries(In(s, r))
           \/ \E t \in Tasks : HeldByTask(t, r, d)
           \/ InQueue(R, r, d)
           \/ InCallback(R, r, d)
      <3>1. PICK p \in Place : Has(p, r, d)
        BY <1>1 DEF IInv, OnePlace
      <3>2. CASE p \in {"ring", "queue", "isr"} \X Side
        BY <2>1, <3>1, <3>2 DEF Has, InQueue, InCallback
      <3>3. CASE p \in {"task"} \X Tasks
        BY <3>1, <3>3 DEF Has
      <3> QED
        BY <3>2, <3>3 DEF Place
    <2>11. CASE \E s \in Side : d \in Entries(In(s, r))
      <3>1. /\ ~InQueue(R, r, d) /\ ~InCallback(R, r, d)
            /\ \A t \in Tasks : ~HeldByTask(t, r, d)
            /\ d \in Entries(In(R, r)) <=> d \notin Entries(In(S, r))
        BY <1>1, <2>1, <2>11, Apart DEF IInv
      <3> QED
        BY <2>2, <2>7, <2>8, <2>9, <3>1
    <2>12. CASE \E t \in Tasks : HeldByTask(t, r, d)
      <3>1. /\ ~InQueue(R, r, d) /\ ~InCallback(R, r, d)
            /\ d \notin Entries(In(R, r)) /\ d \notin Entries(In(S, r))
        BY <1>1, <2>1, <2>12, Apart DEF IInv
      <3> QED
        BY <2>2, <2>7, <2>8, <2>9, <2>12, <3>1
    <2>13. CASE InQueue(R, r, d)
      <3>1. /\ ~InCallback(R, r, d) /\ \A t \in Tasks : ~HeldByTask(t, r, d)
            /\ d \notin Entries(In(R, r)) /\ d \notin Entries(In(S, r))
        BY <1>1, <2>1, <2>13, Apart DEF IInv
      <3> QED
        BY <2>2, <2>7, <2>8, <2>9, <2>13, <3>1
    <2>14. CASE InCallback(R, r, d)
      <3>1. /\ ~InQueue(R, r, d) /\ \A t \in Tasks : ~HeldByTask(t, r, d)
            /\ d \notin Entries(In(R, r)) /\ d \notin Entries(In(S, r))
        BY <1>1, <2>1, <2>14, Apart DEF IInv
      <3> QED
        BY <2>2, <2>7, <2>8, <2>9, <2>14, <3>1
    <2> QED
      BY <2>10, <2>11, <2>12, <2>13, <2>14
  <1>2. IInv => OneOwner
    BY <1>1 DEF OneOwner
  <1> QED
    BY <1>2, Invariance, PTL

(* The assertion of VQUEUE_BUSY, "VirtQueue already in use", never fails.   *)
THEOREM NotAlreadyInUseHolds ==
    ASSUME Unmixed
    PROVE  Spec => []NotAlreadyInUse
  <1>1. ASSUME IInv
        PROVE  NotAlreadyInUse
    <2>1. ASSUME NEW t \in Tasks, NEW u \in Tasks, SideOf(t) = SideOf(u),
                 task[t].pc = task[u].pc,
                 task[t].pc \in {"enqueue_idx", "release_idx", "alloc_end", "poll_end"}
          PROVE  t = u
      BY <1>1, <2>1 DEF IInv, Locking, Locked
    <2>2. ASSUME NEW s \in Side, isr[s].pc = "free_idx", NEW t \in Tasks, SideOf(t) = s
          PROVE  task[t].pc # "release_idx"
      <3>1. isr[s].pc \in Freeing
        BY <2>2 DEF Freeing
      <3> QED
        BY <1>1, <2>2, <3>1, FreesAlone
    <2> QED
      BY <2>1, <2>2 DEF NotAlreadyInUse
  <1> QED
    BY <1>1, Invariance, PTL

(* Messages reach the receive callback complete, once, and in the order in  *)
(* which vq_tx published them; the others are in the ring, unchanged.       *)
THEOREM InOrderDeliveryHolds ==
    ASSUME Unmixed
    PROVE  Spec => []InOrderDelivery
  <1>1. ASSUME IInv, NEW r \in Ring
        PROVE  published[r] = delivered[r] \o
                 [i \in DOMAIN Forward(r) |-> buf[r][Forward(r)[i]].msg]
    <2>1. Receiver(r) \in Side /\ rvq(Receiver(r)) = r /\ Forward(r) = In(Receiver(r), r)
      BY Directions
    <2> QED
      BY <1>1, <2>1 DEF IInv, InOrder, Texts
  <1>2. IInv => InOrderDelivery
    BY <1>1 DEF InOrderDelivery
  <1> QED
    BY <1>2, Invariance, PTL

(* A buffer that the application holds, in the queue of an endpoint or      *)
(* while it reads it, keeps its message.                                    *)
THEOREM HeldIntactHolds ==
    ASSUME Unmixed
    PROVE  Spec => []HeldIntact
  <1>1. IInv => HeldIntact
    BY DEF IInv
  <1> QED
    BY <1>1, Invariance, PTL

(* Only rpmsg_lite_release_rx_buffer takes a task from "release" on.        *)
LEMMA ReleasedBySlot ==
    ASSUME IInv, Next, NEW t \in Tasks, task[t].pc = "release", task'[t].pc = "release_idx"
    PROVE  ReleaseSlot(t)
  <1>1. task \in [Tasks -> TaskType]
    BY Types DEF IInv
  <1>2. ASSUME NEW u \in Tasks, NEW dst \in Dst, NEW timeout \in setup.timeouts,
               NEW nocopy \in setup.nocopy, SendCall(u, dst, timeout, nocopy)
        PROVE  FALSE
    BY <1>1, <1>2 DEF SendCall, At
  <1>3. ASSUME NEW u \in Tasks, SendStep(u)
        PROVE  FALSE
    <2>1. u # t
      BY <1>3 DEF SendStep, Alloc, AllocEnd, Fill, EnqueueSlot, EnqueueIdx, EnqueueKick, At
    <2>2. task'[t] = task[t]
      BY <1>1, <1>3, <2>1 DEF SendStep, Alloc, AllocEnd, Fill, EnqueueSlot, EnqueueIdx,
         EnqueueKick, Goto, Return
    <2> QED
      BY <2>2
  <1>4. ASSUME NEW u \in Tasks, RecvStep(u)
        PROVE  ReleaseSlot(t)
    <2>1. CASE u = t
      BY <1>1, <1>4, <2>1 DEF RecvStep, RecvGet, RecvCopy, ReleaseIdx, At
    <2>2. CASE u # t
      <3>1. task'[t] = task[t]
        BY <1>1, <1>4, <2>2 DEF RecvStep, RecvGet, RecvCopy, ReleaseSlot, ReleaseIdx, Goto,
           Return
      <3> QED
        BY <3>1
    <2> QED
      BY <2>1, <2>2
  <1>5. ASSUME NEW s \in Side, TxCallback(s) \/ RxStep(s)
        PROVE  FALSE
    BY <1>5 DEF TxCallback, RxStep, RxEnter, RxLock, RxMessage, RxHold, RxFreeSlot,
       RxFreeIdx, RxEmpty, RxExit
  <1> QED
    BY <1>2, <1>3, <1>4, <1>5 DEF Next

(* The index that a nocopy call reads back from the header of its buffer is *)
(* that of the buffer, also when the callback had queued the buffer before  *)
(* it wrote the index: the lock keeps the two apart.                        *)
THEOREM IdxReadBackHolds ==
    ASSUME Unmixed
    PROVE  Spec => IdxReadBack
  <1>1. ASSUME IInv, Next, NEW t \in Tasks
        PROVE  /\ task[t].pc = "enqueue" /\ task'[t].pc = "enqueue_idx" /\ task[t].nocopy
                    => reserved[tvq(SideOf(t))][task[t].d] = task[t].d
               /\ task[t].pc = "release" /\ task'[t].pc = "release_idx"
                    => reserved[rvq(SideOf(t))][task[t].d] = task[t].d
    <2>1. task[t].pc = "enqueue" /\ task[t].nocopy
            => reserved[tvq(SideOf(t))][task[t].d] = task[t].d
      BY <1>1 DEF IInv, Headers, Sending
    <2>2. ASSUME task[t].pc = "release", task'[t].pc = "release_idx"
          PROVE  reserved[rvq(SideOf(t))][task[t].d] = task[t].d
      <3>1. lock[SideOf(t)] = Free /\ (EnvContext \/ isr[SideOf(t)].pc = "off")
        BY <1>1, <2>2, ReleasedBySlot DEF ReleaseSlot, At, CanRun, Acquire
      <3>2. isr[SideOf(t)].pc # "hold"
        BY <1>1, <3>1, SideFacts, RpmsgAssumption DEF IInv, Locking
      <3> QED
        BY <1>1, <2>2, <3>2 DEF IInv, Headers, IdxKept, Reading
    <2> QED
      BY <2>1, <2>2
  <1>2. IInv /\ [Next]_vars =>
          [\A t \in Tasks :
             LET s == SideOf(t)
                 d == task[t].d
             IN  /\ task[t].pc = "enqueue" /\ task'[t].pc = "enqueue_idx" /\ task[t].nocopy
                      => reserved[tvq(s)][d] = d
                 /\ task[t].pc = "release" /\ task'[t].pc = "release_idx"
                      => reserved[rvq(s)][d] = d]_vars
    BY <1>1
  <1> QED
    BY <1>2, Invariance, PTL DEF Spec, IdxReadBack

(* rpmsg_queue_rx_cb never finds the queue full: a message whose send       *)
(* succeeded is not discarded.                                              *)
THEOREM NothingDroppedHolds ==
    ASSUME Unmixed
    PROVE  Spec => []NothingDropped
  <1>1. IInv => NothingDropped
    BY DEF IInv
  <1> QED
    BY <1>1, Invariance, PTL
===============================================================================
