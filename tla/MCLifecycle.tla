------------------------------ MODULE MCLifecycle ------------------------------
(* Targets of the runs of Lifecycle.                                        *)
EXTENDS Lifecycle, PlatformsImx, PlatformsMcu, FiniteSets

(* The links of a device that this core serves: the only one, or the first  *)
(* with the last one of a doorbell.                                         *)
Served(dev) ==
    {l \in dev.ids.links :
        Doorbell(dev.irq.door, RL_GET_VQ_ID(l, 0)) \in DOMAIN dev.irq.door.route}
First(S) == CHOOSE x \in S : \A y \in S : x <= y
SameDoor(dev, k, l) ==
    Doorbell(dev.irq.door, RL_GET_VQ_ID(k, 0)) = Doorbell(dev.irq.door, RL_GET_VQ_ID(l, 0))
LastOnes(dev) ==
    {l \in Served(dev) : \A k \in Served(dev) : SameDoor(dev, k, l) => k <= l}
LinkSets(dev) ==
    LET S == {{First(Served(dev)), l} : l \in LastOnes(dev)}
    IN  IF Cardinality(Served(dev)) = 1 THEN S ELSE {s \in S : Cardinality(s) = 2}

Cores(devs, ports) ==
    UNION {[dev : {d}, port : ports, links : LinkSets(d), role : {"master", "remote"}]
              : d \in devs}

Devices == ImxDevices \cup McuDevices

(* The handlers of these restore the com_id that the message lacks.         *)
Restores(b) == b.part = "vector" \/ \A c \in DOMAIN b.route : b.route[c] = c
Routed  == {d \in Devices : Restores(d.irq.door)}
Lpc     == Device(lpc55s69_irq, lpc55s69_mask, lpc55s69_boot, lpc55s69_ids)
Qm      == Device(imx8qm_m4_irq, imx8qm_m4_mask, imx8qm_m4_boot, imx8qm_m4_ids)
Hifi4   == Device(imxrt600_hifi4_irq, imxrt600_hifi4_mask, imxrt600_hifi4_boot, imxrt600_hifi4_ids)
Hifi1   == Device(imxrt700_hifi1_irq, imxrt700_hifi1_mask, imxrt700_hifi1_boot, imxrt700_hifi1_ids)
Imx93   == Device(imx93_m33_irq, imx93_m33_mask, imx93_m33_boot, imx93_m33_ids)

(* Every platform with FreeRTOS or Zephyr, some with the other ports.  XOS  *)
(* with one link: see XosTargets.                                           *)
CoreTargets ==
    UNION {Cores(Routed, {freertos_init}),
           Cores(ImxZephyrDevices \cup McuZephyrDevices, {zephyr_init}),
           Cores(Lpc \cup Qm, {bm_init, threadx_init}),
           Cores(Hifi4, {xos_init})}

(* The hypotheses of the theorems about Lifecycle hold for these.           *)
ASSUME CoreTargetsAssumption ==
    \A t \in CoreTargets : /\ GatedInit(t) /\ OwnSwitch(t) /\ ShutsAgain(t)
                           /\ PutsBack(t) /\ RingsSetAside(t)

XosTargets   == Cores(Hifi1, {xos_init})
MaskTargets  == Cores(Imx93, {freertos_init})
RouteTargets == Cores(Devices \ Routed, {freertos_init})
===============================================================================
