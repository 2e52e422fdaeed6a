----------------------------- MODULE MCRpmsgLite ------------------------------
(* RpmsgLite for TLC.  Tasks of one core are interchangeable; the run that   *)
(* checks liveness does not use the symmetry.                                *)
EXTENDS RpmsgLite, TLC

CONSTANTS m1, r1, r2

(* Two tasks of the remote send with RL_BLOCK to a queue of the master, whose *)
(* task receives and releases; the other setups are variations of it.        *)
Plain ==
    [senders |-> {r1, r2}, receivers |-> {m1}, timeouts |-> {RL_BLOCK},
     nocopy |-> {FALSE}, sends |-> 2,
     queues |-> {1}, releases |-> {}, nowhere |-> {},
     context |-> FALSE, consumed |-> FALSE]

(* Every kind of timeout, with and without copying. *)
Held == [Plain EXCEPT !.timeouts = {0, 2, RL_BLOCK}, !.nocopy = {TRUE, FALSE}]

(* Both cores send without copying; their interrupts release every message  *)
(* and notify the other core of it.                                         *)
Duplex == [Plain EXCEPT !.senders = {m1, r1}, !.receivers = {}, !.nocopy = {TRUE},
                        !.sends = 3, !.queues = {}, !.releases = {2}, !.consumed = TRUE]

(* Endpoints that hold and endpoints that release on one instance, and an   *)
(* address without endpoint, with the callback in a thread.                 *)
Context == [Plain EXCEPT !.releases = {2}, !.nowhere = {3}, !.context = TRUE]

(* The same with the callback in the interrupt. *)
Mixed == [Plain EXCEPT !.senders = {r1}, !.releases = {2}]

MessageSetups == {Held, Duplex, Context}
LiveSetups    == {Plain}
MixedSetups   == {Mixed}

(* The hypothesis of the theorems about RpmsgLite holds for the first two.  *)
ASSUME SetupsAssumption == \A s \in MessageSetups \cup LiveSetups : UnmixedSetup(s)

TaskSymmetry == {p \in Permutations(Tasks) : \A t \in Tasks : p[t] \in MTasks <=> t \in MTasks}
=============================================================================
