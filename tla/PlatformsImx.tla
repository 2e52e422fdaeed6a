-------------------------------- MODULE PlatformsImx --------------------------------
(***************************************************************************)
(* The platform layers of the i.MX application processors: the cores that  *)
(* talk to Linux over a message unit, whose register carries the vector or *)
(* a part of it.  See Platforms for the vocabulary.                        *)
(***************************************************************************)
EXTENDS Platforms

imx6sx_m4_irq  == {Assumed(Word("queue", {0}), AtFirst)}
imx6sx_m4_mask == Outermost
imx6sx_m4_boot == LineOn
imx6sx_m4_ids  == OneLink(Linux)

imx6sx_m4_ipm_irq  == {Assumed(Word("queue", {0}), LineAtLast)}
imx6sx_m4_ipm_mask == Outermost
imx6sx_m4_ipm_boot == LineOff

imx7d_m4_irq  == {Assumed(Word("queue", {0}), AtFirst)}
imx7d_m4_mask == Outermost
imx7d_m4_boot == LineOn
imx7d_m4_ids  == OneLink(Linux)

imx7d_m4_ipm_irq  == {Assumed(Word("queue", {0}), LineAtLast)}
imx7d_m4_ipm_mask == Outermost
imx7d_m4_ipm_boot == LineOff

imx7ulp_m4_irq  == {Assumed(Word("vector", {0}), AtFirst)}
imx7ulp_m4_mask == Outermost
imx7ulp_m4_boot == LineOn
imx7ulp_m4_ids  == Ids({0, 1}, 1, 32, {Linux})

imx8dxl_m4_irq  == {Assumed(Word("vector", {0}), AtFirst)}
imx8dxl_m4_mask == Outermost
imx8dxl_m4_boot == LineOff
imx8dxl_m4_ids  == Ids({0, 1}, 15, 32, {Linux})

imx8qx_cm4_irq  == {Assumed(Word("vector", {0}), AtFirst)}
imx8qx_cm4_mask == Outermost
imx8qx_cm4_boot == LineOff
imx8qx_cm4_ids  == Ids({0, 1}, 15, 32, {Linux})

imx8mm_m4_irq  == {Assumed(Word("vector", {0}), AtFirst)}
imx8mm_m4_mask == Outermost
imx8mm_m4_boot == LineOn
imx8mm_m4_ids  == Ids({0, 15}, 15, 32, {Linux, Fixed(1048576, 4096, {256})})

imx8mn_m7_irq  == {Assumed(Word("vector", {0}), AtFirst)}
imx8mn_m7_mask == Outermost
imx8mn_m7_boot == LineOn
imx8mn_m7_ids  == Ids({0, 15}, 15, 32, {Linux})

imx8mp_m7_irq  == {Assumed(Word("vector", {0}), AtFirst)}
imx8mp_m7_mask == Outermost
imx8mp_m7_boot == LineOn
imx8mp_m7_ids  == Ids({0, 15}, 15, 32, {Linux})

imx8mq_m4_irq  == {Assumed(Word("vector", {0}), AtFirst)}
imx8mq_m4_mask == Outermost
imx8mq_m4_boot == LineOn
imx8mq_m4_ids  == Ids({0, 15}, 15, 32, {Linux})

(* The doorbell is a mailbox in shared memory, which platform_init resets. *)
aarch64_irq  == {Assumed(Word("vector", {0}), NoSwitch)}
aarch64_mask == Outermost
aarch64_boot == Resets
aarch64_ids  == Ids({0, 15}, 15, 32, {Linux})

imx8qm_m4_door   == Word("slot", {0, 1})
imx8qm_m4_switch == AtFirst
imx8qm_m4_irq    == {Assumed(imx8qm_m4_door, imx8qm_m4_switch)}
imx8qm_m4_mask   == SharedLine
imx8qm_m4_boot   == LineOn
imx8qm_m4_ids    == Ids({0, 1, 4, 5}, 5, 32, {Linux})

(* RL_ALLOW_CUSTOM_SHMEM_CONFIG gives every link its own sizes.            *)
imx8ulp_m33_rings == {Fixed(32768, 4096, {256}), Fixed(1024, 16, {2})}

imx8ulp_m33_door   == Word("slot", {0, 1, 2})
imx8ulp_m33_switch == AtFirst
imx8ulp_m33_irq    == {Checked(imx8ulp_m33_door, imx8ulp_m33_switch)}
imx8ulp_m33_mask   == NeverOff
imx8ulp_m33_boot   == LineOn
imx8ulp_m33_ids    == Ids({0, 1, 4, 5, 8, 9}, 9, 32, {Linux} \cup imx8ulp_m33_rings)

imx8ulp_fusionf1_rings == {Fixed(1024, 16, {2})}

imx8ulp_fusionf1_irq  == {Checked(Word("slot", {1}), BelowTwo)}
imx8ulp_fusionf1_mask == EachCall
imx8ulp_fusionf1_boot == LineOff
imx8ulp_fusionf1_ids  == Ids({4, 5}, 5, 32, {Small} \cup imx8ulp_fusionf1_rings)

imx93_m33_irq  == {Assumed(Word("slot", {0}), AtFirst)}
imx93_m33_mask == NeverOff
imx93_m33_boot == LineOn
imx93_m33_ids  == Ids({0, 1}, 1, 32, {Linux})

imx95_m33_irq  == {Assumed(Word("slot", {0}), AtFirst)}
imx95_m33_mask == NeverOff
imx95_m33_boot == LineOn
imx95_m33_ids  == Ids({0, 1}, 1, 32, {Linux})

imx95_m7_irq  == {Assumed(Word("slot", {0}), AtFirst)}
imx95_m7_mask == NeverOff
imx95_m7_boot == LineOn
imx95_m7_ids  == Ids({0, 1}, 1, 32, {Linux})

imx952_m7_irq  == {Assumed(Word("slot", {0}), AtFirst)}
imx952_m7_mask == NeverOff
imx952_m7_boot == LineOn
imx952_m7_ids  == Ids({0, 1}, 1, 32, {Linux})

imx943_m33s_door   == Word("slot", {0, 1, 2})
imx943_m33s_switch == AtFirst
imx943_m33s_irq    == {Assumed(imx943_m33s_door, imx943_m33s_switch)}
imx943_m33s_mask   == NeverOff
imx943_m33s_boot   == LineOn
imx943_m33s_ids    == Ids({0, 1, 5, 9}, 9, 32, {Linux, Fixed(128, 16, {2, 4})})

imx943_m70_door   == Word("slot", {0, 1, 2})
imx943_m70_switch == AtFirst
imx943_m70_irq    == {Assumed(imx943_m70_door, imx943_m70_switch)}
imx943_m70_mask   == NeverOff
imx943_m70_boot   == LineOn
imx943_m70_ids    == Ids({0, 1, 5, 9}, 9, 32, {Linux, Fixed(128, 16, {2, 4})})

imx943_m71_door   == Word("slot", {0, 1, 2})
imx943_m71_switch == AtFirst
imx943_m71_irq    == {Assumed(imx943_m71_door, imx943_m71_switch)}
imx943_m71_mask   == NeverOff
imx943_m71_boot   == LineOn
imx943_m71_ids    == Ids({0, 1, 5, 9}, 9, 32, {Linux, Fixed(128, 16, {2, 4})})

-----------------------------------------------------------------------------
ImxDevices ==
    UNION {
        Device(imx6sx_m4_irq, imx6sx_m4_mask, imx6sx_m4_boot, imx6sx_m4_ids),
        Device(imx7d_m4_irq, imx7d_m4_mask, imx7d_m4_boot, imx7d_m4_ids),
        Device(imx7ulp_m4_irq, imx7ulp_m4_mask, imx7ulp_m4_boot, imx7ulp_m4_ids),
        Device(imx8dxl_m4_irq, imx8dxl_m4_mask, imx8dxl_m4_boot, imx8dxl_m4_ids),
        Device(imx8qx_cm4_irq, imx8qx_cm4_mask, imx8qx_cm4_boot, imx8qx_cm4_ids),
        Device(imx8mm_m4_irq, imx8mm_m4_mask, imx8mm_m4_boot, imx8mm_m4_ids),
        Device(imx8mn_m7_irq, imx8mn_m7_mask, imx8mn_m7_boot, imx8mn_m7_ids),
        Device(imx8mp_m7_irq, imx8mp_m7_mask, imx8mp_m7_boot, imx8mp_m7_ids),
        Device(imx8mq_m4_irq, imx8mq_m4_mask, imx8mq_m4_boot, imx8mq_m4_ids),
        Device(aarch64_irq, aarch64_mask, aarch64_boot, aarch64_ids),
        Device(imx8qm_m4_irq, imx8qm_m4_mask, imx8qm_m4_boot, imx8qm_m4_ids),
        Device(imx8ulp_m33_irq, imx8ulp_m33_mask, imx8ulp_m33_boot, imx8ulp_m33_ids),
        Device(imx8ulp_fusionf1_irq, imx8ulp_fusionf1_mask, imx8ulp_fusionf1_boot, imx8ulp_fusionf1_ids),
        Device(imx93_m33_irq, imx93_m33_mask, imx93_m33_boot, imx93_m33_ids),
        Device(imx95_m33_irq, imx95_m33_mask, imx95_m33_boot, imx95_m33_ids),
        Device(imx95_m7_irq, imx95_m7_mask, imx95_m7_boot, imx95_m7_ids),
        Device(imx952_m7_irq, imx952_m7_mask, imx952_m7_boot, imx952_m7_ids),
        Device(imx943_m33s_irq, imx943_m33s_mask, imx943_m33s_boot, imx943_m33s_ids),
        Device(imx943_m70_irq, imx943_m70_mask, imx943_m70_boot, imx943_m70_ids),
        Device(imx943_m71_irq, imx943_m71_mask, imx943_m71_boot, imx943_m71_ids)}

(* The builds on the interprocessor mailbox driver of Zephyr.               *)
ImxZephyrDevices ==
    UNION {
        Device(imx6sx_m4_ipm_irq, imx6sx_m4_ipm_mask, imx6sx_m4_ipm_boot, imx6sx_m4_ids),
        Device(imx7d_m4_ipm_irq, imx7d_m4_ipm_mask, imx7d_m4_ipm_boot, imx7d_m4_ids)}
===============================================================================
