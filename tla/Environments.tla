------------------------------ MODULE Environments ------------------------------
(***************************************************************************)
(* The environment layers (lib/rpmsg_lite/porting/environment): bare metal *)
(* and the ports to FreeRTOS, ThreadX, Zephyr, XOS and QNX, as far as they *)
(* differ.  Lifecycle gives the init records their meaning and LinkUp the  *)
(* wait records.                                                           *)
(***************************************************************************)
EXTENDS Integers

(* env_init and env_deinit.  tasks: several callers may be in the library   *)
(* at once, and a caller that is not the first waits for a semaphore with   *)
(* the given initial count, which the first gives after platform_init.      *)
(* fallible: env_init returns when the semaphore cannot be created.         *)
(* clears: env_deinit empties isr_table.                                    *)
EnvInitKind(tasks, sema, fallible, clears) ==
    [tasks |-> tasks, sema |-> sema, fallible |-> fallible, clears |-> clears]

bm_init       == EnvInitKind(FALSE, 0, FALSE, FALSE)
freertos_init == EnvInitKind(TRUE, 0, FALSE, TRUE)
threadx_init  == EnvInitKind(TRUE, 0, TRUE, TRUE)
zephyr_init   == EnvInitKind(TRUE, 0, FALSE, TRUE)
xos_init      == EnvInitKind(TRUE, 1, FALSE, TRUE)

(* env_wait_for_link_up and env_tx_callback.  polls: link_state is read at  *)
(* intervals and there is no event.  clears: the bit of the link is cleared *)
(* before link_state is read.  exact: the wait succeeded when the bits      *)
(* returned equal the link's, else when they include it.  consumes: a       *)
(* successful wait clears the bit.  defers: a callback in an interrupt      *)
(* leaves the setting of the bit to a task.  expires: the wait ends even    *)
(* for RL_BLOCK, which is converted to a number of ticks like any timeout.  *)
WaitKind(polls, clears, exact, consumes, defers, expires) ==
    [polls |-> polls, clears |-> clears, exact |-> exact, consumes |-> consumes,
     defers |-> defers, expires |-> expires]

bm_wait       == WaitKind(TRUE, FALSE, FALSE, FALSE, FALSE, FALSE)
qnx_wait      == WaitKind(TRUE, FALSE, FALSE, FALSE, FALSE, FALSE)
freertos_wait == WaitKind(FALSE, TRUE, TRUE, FALSE, TRUE, FALSE)
threadx_wait  == WaitKind(FALSE, FALSE, FALSE, FALSE, FALSE, FALSE)
xos_wait      == WaitKind(FALSE, FALSE, FALSE, TRUE, FALSE, FALSE)
zephyr_wait   == WaitKind(FALSE, FALSE, FALSE, FALSE, FALSE, TRUE)
===============================================================================
