-------------------------------- MODULE PlatformsMcu --------------------------------
(***************************************************************************)
(* The platform layers of the microcontrollers and DSPs, which ring with   *)
(* general interrupt bits or mailbox bits: one bit per queue.  See         *)
(* Platforms for the vocabulary.                                           *)
(***************************************************************************)
EXTENDS Platforms

imxrt1160_irq  == OrEvent(Checked(Bits({0}), QueueBelowTwo), "queue")
imxrt1160_mask == Outermost
imxrt1160_boot == LineOff
imxrt1160_ids  == OneLink(Small)

imxrt1160_ipm_irq  == {Assumed(Tries({0}), LineAtLast)}
imxrt1160_ipm_mask == Outermost
imxrt1160_ipm_boot == LineOff

imxrt1170_irq  == OrEvent(Checked(Bits({0}), QueueBelowTwo), "queue")
imxrt1170_mask == Outermost
imxrt1170_boot == LineOff
imxrt1170_ids  == OneLink(Small)

imxrt1170_ipm_irq  == {Assumed(Tries({0}), LineAtLast)}
imxrt1170_ipm_mask == Outermost
imxrt1170_ipm_boot == LineOff

imxrt1180_irq  == OrEvent(Checked(Bits({0}), QueueBelowTwo), "queue")
imxrt1180_mask == Outermost
imxrt1180_boot == LineOff
imxrt1180_ids  == OneLink(Small)

k32l3a6_irq  == OrEvent(Checked(Bits({0}), QueueBelowTwo), "queue")
k32l3a6_mask == Outermost
k32l3a6_boot == LineOff
k32l3a6_ids  == OneLink(Small)

mcxl20_irq  == OrEvent(Checked(Bits({0}), QueueBelowTwo), "queue")
mcxl20_mask == Outermost
mcxl20_boot == LineOff
mcxl20_ids  == OneLink(Small)

(* With RL_ALLOW_CUSTOM_SHMEM_CONFIG the sizes are those that the other     *)
(* core has left in shared memory, or those of an earlier release.          *)
kw43b43_rings == {Small, Fixed(128, 16, {4})}

kw43b43_irq  == OrEvent(Checked(Bits({0}), QueueBelowTwo), "queue")
kw43b43_mask == Outermost
kw43b43_boot == LineOff
kw43b43_ids  == Ids({0}, 0, 32, kw43b43_rings)

mcxw70_rings == {Small, Fixed(128, 16, {4})}

mcxw70_irq  == OrEvent(Checked(Bits({0}), QueueBelowTwo), "queue")
mcxw70_mask == Outermost
mcxw70_boot == LineOff
mcxw70_ids  == Ids({0}, 0, 32, mcxw70_rings)

imxrt500_m33_irq  == OrEvent(Checked(Bits({0}), QueueBelowTwo), "queue")
imxrt500_m33_mask == Outermost
imxrt500_m33_boot == LineOn
imxrt500_m33_ids  == OneLink(Small)

imxrt600_m33_irq  == OrEvent(Checked(Bits({0}), QueueBelowTwo), "queue")
imxrt600_m33_mask == Outermost
imxrt600_m33_boot == LineOn
imxrt600_m33_ids  == OneLink(Small)

imxrt600_m33_ipm_irq  == {Assumed(Tries({0}), LineAtLast)}
imxrt600_m33_ipm_mask == Outermost
imxrt600_m33_ipm_boot == LineOff

imxrt500_fusionf1_irq  == {Checked(Bits({0}), QueueBelowTwo)}
imxrt500_fusionf1_mask == EachCall
imxrt500_fusionf1_boot == LineOff
imxrt500_fusionf1_ids  == Ids({0}, 1, 32, {Small})

imxrt600_hifi4_irq  == {Checked(Bits({0}), QueueBelowTwo)}
imxrt600_hifi4_mask == EachCall
imxrt600_hifi4_boot == LineOff
imxrt600_hifi4_ids  == OneLink(Small)

imxrt600_hifi4_ipm_irq  == {Assumed(Tries({0}), LineAtLast)}
imxrt600_hifi4_ipm_mask == Outermost
imxrt600_hifi4_ipm_boot == LineOff

(* Without the multicore manager platform_notify rings nothing here.       *)

k32w1_rings == {Small, Fixed(128, 16, {4})}

k32w1_irq  == OrEvent(Checked(Silent, LineBelowTwo), "queue")
k32w1_mask == Outermost
k32w1_boot == LineOn
k32w1_ids  == Ids({0}, 0, 32, k32w1_rings)

kw45b41_rings == {Small, Fixed(128, 16, {4})}

kw45b41_irq  == OrEvent(Checked(Silent, LineBelowTwo), "queue")
kw45b41_mask == Outermost
kw45b41_boot == LineOn
kw45b41_ids  == Ids({0}, 0, 32, kw45b41_rings)

kw47b42_rings == {Small, Fixed(128, 16, {4})}

kw47b42_irq  == OrEvent(Checked(Silent, LineBelowTwo), "queue")
kw47b42_mask == Outermost
kw47b42_boot == LineOn
kw47b42_ids  == Ids({0}, 0, 32, kw47b42_rings)

mcxw71x_rings == {Small, Fixed(128, 16, {4})}

mcxw71x_irq  == OrEvent(Checked(Silent, LineBelowTwo), "queue")
mcxw71x_mask == Outermost
mcxw71x_boot == LineOn
mcxw71x_ids  == Ids({0}, 0, 32, mcxw71x_rings)

mcxw72x_rings == {Small, Fixed(128, 16, {4})}

mcxw72x_irq  == OrEvent(Checked(Silent, LineBelowTwo), "queue")
mcxw72x_mask == Outermost
mcxw72x_boot == LineOn
mcxw72x_ids  == Ids({0}, 0, 32, mcxw72x_rings)

lpc5410x_irq  == OrEvent(Assumed(Bits({0}), LineAtLast), "queue")
lpc5410x_mask == Outermost
lpc5410x_boot == Drains
lpc5410x_ids  == OneLink(Small)

lpc5411x_irq  == OrEvent(Assumed(Bits({0}), LineAtLast), "queue")
lpc5411x_mask == Outermost
lpc5411x_boot == Drains
lpc5411x_ids  == OneLink(Small)

lpc5411x_ipm_irq  == {Assumed(Tries({0}), LineAtLast)}
lpc5411x_ipm_mask == Outermost
lpc5411x_ipm_boot == LineOff

lpc55s69_irq  == OrEvent(Checked(Bits({0}), LineAtLast), "queue")
lpc55s69_mask == Outermost
lpc55s69_boot == Drains
lpc55s69_ids  == OneLink(Small)

lpc55s69_ipm_irq  == {Assumed(Tries({0}), LineAtLast)}
lpc55s69_ipm_mask == Outermost
lpc55s69_ipm_boot == LineOff

mcxnx4x_irq  == OrEvent(Checked(Bits({0}), LineAtLast), "queue")
mcxnx4x_mask == Outermost
mcxnx4x_boot == Drains
mcxnx4x_ids  == OneLink(Small)

imxrt700_hifi1_door   == Bits({2, 4})
imxrt700_hifi1_switch == QueueBelowTwo
imxrt700_hifi1_irq    == OrEvent(Checked(imxrt700_hifi1_door, imxrt700_hifi1_switch), "vector")
imxrt700_hifi1_mask   == EachCall
imxrt700_hifi1_boot   == LineOff
imxrt700_hifi1_ids    == Ids({0, 4, 8, 12, 16, 20}, 20, 64, {Small})

imxrt700_hifi4_door   == Bits({1, 5})
imxrt700_hifi4_switch == QueueBelowTwo
imxrt700_hifi4_irq    == OrEvent(Checked(imxrt700_hifi4_door, imxrt700_hifi4_switch), "vector")
imxrt700_hifi4_mask   == EachCall
imxrt700_hifi4_boot   == LineOff
imxrt700_hifi4_ids    == Ids({0, 4, 8, 12, 16, 20}, 20, 64, {Small})

imxrt700_hifi4_ipm_irq  == {Assumed(Tries({0}), LineAtLast)}
imxrt700_hifi4_ipm_mask == Outermost
imxrt700_hifi4_ipm_boot == LineOff

(* platform_deinit_interrupt counts upwards, like platform_init_interrupt.  *)
(* The other core has no event for this one: without the multicore manager. *)
imxrt700_ezhv_irq  == {Checked(Bits({3}), [BelowTwo EXCEPT !.back = 1])}
imxrt700_ezhv_mask == AlwaysOn
imxrt700_ezhv_boot == LineOn
imxrt700_ezhv_ids  == Ids({0, 4, 8, 12}, 12, 32, {Small})

(* One file for both cores.  On the second core MU2_B_IRQHandler serves the  *)
(* HIFI4 doorbell, com_id 5, with the com_id of the first core, 0.           *)
imxrt700_m33_core0_door == Bits({0, 1, 3, 4})
imxrt700_m33_core1_door == [Bits({0, 2, 5}) EXCEPT !.route[5] = 0]
imxrt700_m33_off        == "queue"
imxrt700_m33_switch     == [Switch("queue", imxrt700_m33_off, 2) EXCEPT !.both = {3}]
imxrt700_m33_event      == "vector"
imxrt700_m33_core0_event == Managed(Checked(Bits({0, 1, 4}), imxrt700_m33_switch), imxrt700_m33_event)
imxrt700_core0_irq == {Checked(imxrt700_m33_core0_door, imxrt700_m33_switch), imxrt700_m33_core0_event}
imxrt700_core1_irq == OrEvent(Checked(imxrt700_m33_core1_door, imxrt700_m33_switch), imxrt700_m33_event)
imxrt700_m33_mask == PerCom
imxrt700_m33_boot == LineOn
imxrt700_m33_ids  == Ids({0, 4, 8, 12, 16, 20}, 20, 64, {Small})

imxrt700_m33_ipm_irq  == {Assumed(Tries({0}), LineAtLast)}
imxrt700_m33_ipm_mask == Outermost
imxrt700_m33_ipm_boot == LineOff

-----------------------------------------------------------------------------
McuDevices ==
    UNION {
        Device(imxrt1160_irq, imxrt1160_mask, imxrt1160_boot, imxrt1160_ids),
        Device(imxrt1170_irq, imxrt1170_mask, imxrt1170_boot, imxrt1170_ids),
        Device(imxrt1180_irq, imxrt1180_mask, imxrt1180_boot, imxrt1180_ids),
        Device(k32l3a6_irq, k32l3a6_mask, k32l3a6_boot, k32l3a6_ids),
        Device(mcxl20_irq, mcxl20_mask, mcxl20_boot, mcxl20_ids),
        Device(kw43b43_irq, kw43b43_mask, kw43b43_boot, kw43b43_ids),
        Device(mcxw70_irq, mcxw70_mask, mcxw70_boot, mcxw70_ids),
        Device(imxrt500_m33_irq, imxrt500_m33_mask, imxrt500_m33_boot, imxrt500_m33_ids),
        Device(imxrt600_m33_irq, imxrt600_m33_mask, imxrt600_m33_boot, imxrt600_m33_ids),
        Device(imxrt500_fusionf1_irq, imxrt500_fusionf1_mask, imxrt500_fusionf1_boot, imxrt500_fusionf1_ids),
        Device(imxrt600_hifi4_irq, imxrt600_hifi4_mask, imxrt600_hifi4_boot, imxrt600_hifi4_ids),
        Device(k32w1_irq, k32w1_mask, k32w1_boot, k32w1_ids),
        Device(kw45b41_irq, kw45b41_mask, kw45b41_boot, kw45b41_ids),
        Device(kw47b42_irq, kw47b42_mask, kw47b42_boot, kw47b42_ids),
        Device(mcxw71x_irq, mcxw71x_mask, mcxw71x_boot, mcxw71x_ids),
        Device(mcxw72x_irq, mcxw72x_mask, mcxw72x_boot, mcxw72x_ids),
        Device(lpc5410x_irq, lpc5410x_mask, lpc5410x_boot, lpc5410x_ids),
        Device(lpc5411x_irq, lpc5411x_mask, lpc5411x_boot, lpc5411x_ids),
        Device(lpc55s69_irq, lpc55s69_mask, lpc55s69_boot, lpc55s69_ids),
        Device(mcxnx4x_irq, mcxnx4x_mask, mcxnx4x_boot, mcxnx4x_ids),
        Device(imxrt700_hifi1_irq, imxrt700_hifi1_mask, imxrt700_hifi1_boot, imxrt700_hifi1_ids),
        Device(imxrt700_hifi4_irq, imxrt700_hifi4_mask, imxrt700_hifi4_boot, imxrt700_hifi4_ids),
        Device(imxrt700_ezhv_irq, imxrt700_ezhv_mask, imxrt700_ezhv_boot, imxrt700_ezhv_ids),
        Device(imxrt700_core0_irq, imxrt700_m33_mask, imxrt700_m33_boot, imxrt700_m33_ids),
        Device(imxrt700_core1_irq, imxrt700_m33_mask, imxrt700_m33_boot, imxrt700_m33_ids)}

(* The builds on the interprocessor mailbox driver of Zephyr.               *)
McuZephyrDevices ==
    UNION {
        Device(imxrt1160_ipm_irq, imxrt1160_ipm_mask, imxrt1160_ipm_boot, imxrt1160_ids),
        Device(imxrt1170_ipm_irq, imxrt1170_ipm_mask, imxrt1170_ipm_boot, imxrt1170_ids),
        Device(imxrt600_hifi4_ipm_irq, imxrt600_hifi4_ipm_mask, imxrt600_hifi4_ipm_boot, imxrt600_hifi4_ids),
        Device(imxrt600_m33_ipm_irq, imxrt600_m33_ipm_mask, imxrt600_m33_ipm_boot, imxrt600_m33_ids),
        Device(lpc5411x_ipm_irq, lpc5411x_ipm_mask, lpc5411x_ipm_boot, lpc5411x_ids),
        Device(lpc55s69_ipm_irq, lpc55s69_ipm_mask, lpc55s69_ipm_boot, lpc55s69_ids),
        Device(imxrt700_hifi4_ipm_irq, imxrt700_hifi4_ipm_mask, imxrt700_hifi4_ipm_boot, OneLink(Small)),
        Device(imxrt700_m33_ipm_irq, imxrt700_m33_ipm_mask, imxrt700_m33_ipm_boot, OneLink(Small))}
===============================================================================
