---------------------------- MODULE VirtqueueFifo -----------------------------
(***************************************************************************)
(* What a vring promises: two queues of buffers between the driver and the *)
(* device, each of them first-in first-out, each operation a single step.  *)
(* The abstract specification that Virtqueue implements.                   *)
(***************************************************************************)
EXTENDS Integers, Sequences

CONSTANT N

VARIABLES
    avail,      \* buffers on their way to the device
    used,       \* buffers on their way to the driver
    drv_held,   \* buffers in the driver's hands
    dev_held    \* buffers in the device's hands

vars == <<avail, used, drv_held, dev_held>>

InOrder == [i \in 1..N |-> i - 1]

Init ==
    /\ \/ avail = InOrder /\ used = << >>
       \/ avail = << >> /\ used = InOrder
    /\ drv_held = {}
    /\ dev_held = {}

(* The driver passes a buffer it holds to the device. *)
DriverPut(d) ==
    /\ d \in drv_held
    /\ avail' = Append(avail, d)
    /\ drv_held' = drv_held \ {d}
    /\ UNCHANGED <<used, dev_held>>

(* The driver takes the oldest buffer the device has passed to it. *)
DriverTake ==
    /\ used # << >>
    /\ drv_held' = drv_held \union {Head(used)}
    /\ used' = Tail(used)
    /\ UNCHANGED <<avail, dev_held>>

(* The same with the roles exchanged. *)
DevicePut(d) ==
    /\ d \in dev_held
    /\ used' = Append(used, d)
    /\ dev_held' = dev_held \ {d}
    /\ UNCHANGED <<avail, drv_held>>

DeviceTake ==
    /\ avail # << >>
    /\ dev_held' = dev_held \union {Head(avail)}
    /\ avail' = Tail(avail)
    /\ UNCHANGED <<used, drv_held>>

Next ==
    \/ \E d \in 0..(N - 1) : DriverPut(d) \/ DevicePut(d)
    \/ DriverTake
    \/ DeviceTake

Spec == Init /\ [][Next]_vars
=============================================================================
