------------------------------- MODULE MCLinkUp -------------------------------
(* Instances of LinkUp for TLC: who waits for which link.                  *)
EXTENDS LinkUp, TLC

CONSTANTS w1, w2, L0, L1

AnyLink    == Waiters \X Links
OnePerLink == {<<w1, L0>>, <<w2, L1>>}

AllPorts == {freertos_wait, threadx_wait, xos_wait, zephyr_wait, bm_wait, qnx_wait}
FreeRtos == {freertos_wait}
===============================================================================
