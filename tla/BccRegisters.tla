------------------------------ MODULE BccRegisters ------------------------------
(***************************************************************************)
(* The registers of the battery cell controller (MC33771C, and MC33772C at *)
(* the same addresses) that the driver reads and writes.  A register value *)
(* is the set of its bits that are one; a register is defined here by the  *)
(* bits of each of its fields, the _MASK macros of MC33771C.h.  Fields     *)
(* that repeat per cell or per pin are one range.                          *)
(***************************************************************************)
EXTENDS Integers

Bits == 0..15

\* Configuration: cyclic conversions, diagnostic mode, balancing, current chain.
SYS_CFG1 ==
  [WAVE_DC_BITX |-> 1..2, FAULT_WAVE |-> {3}, SOFT_RST |-> {4},
   CB_MANUAL_PAUSE |-> {5}, GO2DIAG |-> {6}, DIAG_ST |-> {6}, CB_DRVEN |-> {7},
   I_MEAS_EN |-> {9}, DIAG_TIMEOUT |-> 10..12, CYCLIC_TIMER |-> 13..15]

\* Configuration: communication timeout, reset behaviour, parity of the cell count.
SYS_CFG2 ==
  [HAMM_ENCOD |-> {0}, NUMB_ODD |-> {1}, TIMEOUT_COMM |-> 4..5,
   FLT_RST_CFG |-> 6..9, PREVIOUS_STATE |-> 10..12]

\* The switches and sources of the built-in diagnostics.
SYS_DIAG ==
  [CB_OL_EVEN |-> {0}, CB_OL_ODD |-> {1}, CT_OL_EVEN |-> {2}, CT_OL_ODD |-> {3},
   CT_OV_UV |-> {4}, CT_LEAK_DIAG |-> {5}, POLARITY |-> {6}, DA_DIAG |-> {7},
   ANX_TEMP_DIAG |-> {8}, ANX_OL_DIAG |-> {9}, ISENSE_OL_DIAG |-> {10},
   I_MUX |-> 11..12, FAULT_DIAG |-> {15}]

\* Resolution, amplifier gain, averaging; SOC starts a conversion (reads as EOC_N).
ADC_CFG ==
  [ADC2_DEF |-> 0..1, ADC1_B_DEF |-> 2..3, ADC1_A_DEF |-> 4..5, CC_RST |-> {7},
   PGA_GAIN |-> 8..10, PGA_GAIN_S |-> {10}, SOC |-> {11}, EOC_N |-> {11},
   AVG |-> 12..15]

\* Offset of the current chain and the behaviour of the coulomb counter.
ADC2_OFFSET_COMP ==
  [ADC2_OFFSET_COMP |-> 0..7, ALLCBOFFONSHORT |-> {8}, CC_OVT |-> {10},
   SAMP_OVF |-> {11}, CC_N_OVF |-> {12}, CC_P_OVF |-> {13}, FREE_CNT |-> {14},
   CC_RST_CFG |-> {15}]

\* The cells whose over- and undervoltage detection is on; common thresholds.
OV_UV_EN ==
  [CTX_OVUV_EN |-> 0..13, COMMON_UV_TH |-> {14}, COMMON_OV_TH |-> {15}]

\* The latched over- and undervoltage of each cell terminal.
CELL_OV_FLT == [CTX_OV_FLT |-> 0..13]
CELL_UV_FLT == [CTX_UV_FLT |-> 0..13]

\* One balancing channel: its timer and its enable (written) or state (read).
CBX_CFG == [CB_TIMER |-> 0..8, CB_EN |-> {9}, CB_STS |-> {9}]

\* The balancing terminals found open while their detection switches were closed.
CB_OPEN_FLT == [CBX_OPEN |-> 0..13]

\* The mode of the seven GPIO pins: ratiometric, absolute, input, output.
GPIO_CFG1 == [GPIOX_CFG |-> 0..13]
AnalogAbsolute == {0, 2, 4, 6, 8, 10, 12}
DigitalInput == {1, 3, 5, 7, 9, 11, 13}

\* The level driven on each pin and the extra functions of GPIO0 and GPIO2.
GPIO_CFG2 ==
  [GPIOX_DR |-> 0..6, GPIO0_FLT_ACT |-> {7}, GPIO0_WU |-> {8}, GPIO2_SOC |-> {9}]

\* The latched under- and overtemperature of each analog input.
AN_OT_UT_FLT == [ANX_UT |-> 0..6, ANX_OT |-> 8..14]

\* The pins found open or shorted.
GPIO_SHORT_ANX_OPEN_STS == [ANX_OPEN |-> 0..6, GPIOX_SH |-> 8..14]

\* The fault status registers.
FAULT1_STATUS ==
  [CT_UV_FLT |-> {0}, CT_OV_FLT |-> {1}, AN_UT_FLT |-> {2}, AN_OT_FLT |-> {3},
   IS_OC_FLT |-> {4}, IS_OL_FLT |-> {5}, I2C_ERR_FLT |-> {6},
   GPIO0_WUP_FLT |-> {7}, CSB_WUP_FLT |-> {8}, COM_ERR_FLT |-> {9},
   COM_LOSS_FLT |-> {10}, VPWR_LV_FLT |-> {11}, VPWR_OV_FLT |-> {12},
   COM_ERR_OVR_FLT |-> {13}, RESET_FLT |-> {14}, POR |-> {15}]
FAULT2_STATUS ==
  [FUSE_ERR_FLT |-> {0}, DED_ERR_FLT |-> {1}, OSC_ERR_FLT |-> {2},
   CB_OPEN_FLT |-> {3}, CB_SHORT_FLT |-> {4}, GPIO_SHORT_FLT |-> {5},
   AN_OPEN_FLT |-> {6}, IDLE_MODE_FLT |-> {7}, IC_TSD_FLT |-> {8},
   GND_LOSS_FLT |-> {9}, ADC1_A_FLT |-> {10}, ADC1_B_FLT |-> {11},
   VANA_UV_FLT |-> {12}, VANA_OV_FLT |-> {13}, VCOM_UV_FLT |-> {14},
   VCOM_OV_FLT |-> {15}]
FAULT3_STATUS == [EOT_CBX |-> 0..13, DIAG_TO_FLT |-> {14}, CC_OVR_FLT |-> {15}]

\* The faults kept from the fault output: bit n masks bit n of the status register.
FAULT_MASK1 ==
  [CT_UV_FLT |-> {0}, CT_OV_FLT |-> {1}, AN_UT_FLT |-> {2}, AN_OT_FLT |-> {3},
   IS_OC_FLT |-> {4}, IS_OL_FLT |-> {5}, I2C_ERR_FLT |-> {6},
   GPIO0_WUP_FLT |-> {7}, CSB_WUP_FLT |-> {8}, COM_ERR_FLT |-> {9},
   COM_LOSS_FLT |-> {10}, VPWR_LV_FLT |-> {11}, VPWR_OV_FLT |-> {12}]
FAULT_MASK2 ==
  [FUSE_ERR_FLT |-> {0}, DED_ERR_FLT |-> {1}, OSC_ERR_FLT |-> {2},
   CB_OPEN_FLT |-> {3}, CB_SHORT_FLT |-> {4}, GPIO_SHORT_FLT |-> {5},
   AN_OPEN_FLT |-> {6}, GND_LOSS_FLT |-> {9}, ADC1_A_FLT |-> {10},
   ADC1_B_FLT |-> {11}, VANA_UV_FLT |-> {12}, VANA_OV_FLT |-> {13},
   VCOM_UV_FLT |-> {14}, VCOM_OV_FLT |-> {15}]
FAULT_MASK3 == [EOT_CBX |-> 0..13, DIAG_TO_FLT |-> {14}, CC_OVR_FLT |-> {15}]

\* The faults that do not wake the controller; every bit is set at reset.
WAKEUP_MASK2 ==
  [DED_ERR_FLT |-> {1}, OSC_ERR_FLT |-> {2}, CB_SHORT_FLT |-> {4},
   GPIO_SHORT_FLT |-> {5}, IC_TSD_FLT |-> {8}, GND_LOSS_FLT |-> {9},
   ADC1_A_FLT |-> {10}, ADC1_B_FLT |-> {11}, VANA_UV_FLT |-> {12},
   VANA_OV_FLT |-> {13}, VCOM_UV_FLT |-> {14}, VCOM_OV_FLT |-> {15}]

\* The thresholds all cells share.
TH_ALL_CT == [ALL_CT_UV_TH |-> 0..7, ALL_CT_OV_TH |-> 8..15]

=================================================================================
