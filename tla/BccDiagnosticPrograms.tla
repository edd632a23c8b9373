-------------------------- MODULE BccDiagnosticPrograms --------------------------
(***************************************************************************)
(* The register transfers of the driver's register initialisation and of   *)
(* each start-up diagnostic (bcc_diagnostics.cpp, SlaveController.cpp), in *)
(* their order, with the values they write.  A transfer reads a register   *)
(* into a local variable of the driver (a slot), or writes one from a      *)
(* slot, a mask and a value; the others start and judge a measurement,     *)
(* switch a balancing channel, or check a register's bits.  BccDiagnostics *)
(* runs them on a monitor.                                                 *)
(***************************************************************************)
EXTENDS Integers, Sequences, FiniteSets, TLC, BccRegisters

Checks == {"ADC1VER", "OVUVVER", "OVUVDET", "CTXOPEN", "CELLVOLT", "CONNRES",
           "CTXLEAK", "CURRMEAS", "SHUNTNOTCONN", "GPIOXOTUT", "GPIOXOPEN", "CBXOPEN"}
CurrentChecks == {"CURRMEAS", "SHUNTNOTCONN"}

\* The kinds of monitor: is the current sensing checked, is its circuit powered, the
\* parity of the cells, and the parts that are faulty.
Devices ==
  {d \in [current : BOOLEAN, circuit : BOOLEAN, odd : BOOLEAN,
          defects : {{}} \cup {{c} : c \in Checks}] : d.current => d.circuit}

\* The channels with an even index (cells 1, 3, ...) and with an odd one.
Channels == {"CB_EVEN", "CB_ODD"}
Slots == {"update", "mask1", "mask2", "wakeup2", "adc", "cfg1", "diag", "ovuven",
          "limits", "gpio1", "gpio2"} \cup Channels

-----------------------------------------------------------------------------
(* Register values: at reset, after initialisation, and of the test thresholds. *)

TestLimits == {0, 8}
CellLimits == {7, 9, 15}
CellMap == {0, 1, 2, 3} \cup (6..13)      \* twelve cells of an MC33771C
NtcCount == 4

Por ==
  [SYS_CFG1 |-> {0, 12}, SYS_CFG2 |-> {4, 5, 8, 9}, SYS_DIAG |-> {},
   ADC_CFG |-> {0, 1, 2, 4, 10}, OV_UV_EN |-> 0..13, TH_ALL_CT |-> {7, 8, 9, 10, 12, 14, 15},
   FAULT_MASK1 |-> {}, FAULT_MASK2 |-> {}, FAULT_MASK3 |-> {}, WAKEUP_MASK2 |-> 0..15,
   GPIO_CFG1 |-> {}, GPIO_CFG2 |-> {}, CELL_OV_FLT |-> {}, CELL_UV_FLT |-> {},
   AN_OT_UT_FLT |-> {}, FAULT1_STATUS |-> FAULT1_STATUS.POR, CB_EVEN |-> {}, CB_ODD |-> {}]

AdcResolution == ADC_CFG.ADC1_A_DEF \cup ADC_CFG.ADC1_B_DEF
AvgBits(average) == IF average = 1 THEN {} ELSE IF average = 4 THEN {13} ELSE {12, 13}

ADC_CFG_VALUE == AdcResolution \cup ADC_CFG.ADC2_DEF \cup {10} \cup AvgBits(8) \cup ADC_CFG.CC_RST
FAULT_MASK3_VALUE == Bits
SYS_CFG1_VALUE(current) == {12} \cup (IF current THEN SYS_CFG1.I_MEAS_EN ELSE {})

\* What initialisation leaves, and what must still hold when the controller is RUNNING.
Configured(current) ==
  [Por EXCEPT !.SYS_CFG1 = SYS_CFG1_VALUE(current),
              !.ADC_CFG = ADC_CFG_VALUE \ ADC_CFG.CC_RST,
              !.OV_UV_EN = CellMap \cup {14, 15}, !.TH_ALL_CT = CellLimits,
              !.FAULT_MASK3 = FAULT_MASK3_VALUE,
              !.GPIO_CFG1 = {b \in DigitalInput : b >= 2 * NtcCount},
              !.FAULT1_STATUS = {}]

-----------------------------------------------------------------------------
(* The transfers programs are made of. *)

Transfer(op, reg, slot, mask, value) ==
  <<[op |-> op, reg |-> reg, slot |-> slot, mask |-> mask, value |-> value]>>

regRead(reg, slot) == Transfer("read", reg, slot, {}, {})
regWrite(reg, value) == Transfer("write", reg, "update", Bits, value)
regWriteGlobal(reg, value) == Transfer("global", reg, "update", Bits, value)
\* Writes the value held in slot, with the bits of mask replaced by value.
writeFrom(reg, slot, mask, value) == Transfer("write", reg, slot, mask, value)
restore(reg, slot) == writeFrom(reg, slot, {}, {})
regUpdate(reg, mask, value) == regRead(reg, "update") \o writeFrom(reg, "update", mask, value)
\* Reads SYS_CFG1 and fails unless the bits of value are as wanted.
expectBits(mask, value) == Transfer("expect", "SYS_CFG1", "update", mask, value)
\* Reads the result of a check, measured by the last conversion or seen right now.
measure(check, part) == Transfer("measured", check, part, {}, {})
observe(check, part) == Transfer("observed", check, part, {}, {})
\* CB_SetIndividualChannel, called unless the state read before says it is on.
setChannel(channel, pulse) == Transfer("channel", channel, "update", {}, CBX_CFG.CB_EN \cup pulse)
clearChannel(channel) == Transfer("channel", channel, "update", {}, {})
unlessOn(step) == <<[step[1] EXCEPT !.slot = step[1].reg]>>

\* Waits for whatever conversion came last (for mutation).
meas_WaitOnly(average) == regRead("ADC_CFG", "update")

meas_StartAndWait(average) ==
  regUpdate("ADC_CFG", ADC_CFG.SOC \cup ADC_CFG.AVG, ADC_CFG.SOC \cup AvgBits(average))
    \o regRead("ADC_CFG", "update")

CB_Enable(on) == regUpdate("SYS_CFG1", SYS_CFG1.CB_DRVEN, IF on THEN SYS_CFG1.CB_DRVEN ELSE {})
CB_Pause(on) ==
  regUpdate("SYS_CFG1", SYS_CFG1.CB_MANUAL_PAUSE, IF on THEN SYS_CFG1.CB_MANUAL_PAUSE ELSE {})
CB_ClearAllChannels == regWrite("CB_EVEN", {}) \o regWrite("CB_ODD", {})

setNumbOdd(odd) == regUpdate("SYS_CFG2", SYS_CFG2.NUMB_ODD, IF odd THEN SYS_CFG2.NUMB_ODD ELSE {})

enterDiagnostics ==
  regUpdate("SYS_CFG1", SYS_CFG1.GO2DIAG, SYS_CFG1.GO2DIAG)
    \o expectBits(SYS_CFG1.DIAG_ST, SYS_CFG1.DIAG_ST)

exitDiagnostics == regUpdate("SYS_CFG1", SYS_CFG1.GO2DIAG, {})

\* The switches in closed are closed, the other ones of the same kind opened.
commandSwitches(kind, closed) ==
  regUpdate("SYS_DIAG",
            IF kind = "CT" THEN SYS_DIAG.CT_OL_ODD \cup SYS_DIAG.CT_OL_EVEN
                           ELSE SYS_DIAG.CB_OL_ODD \cup SYS_DIAG.CB_OL_EVEN,
            closed)

clearCellFaults == regWrite("CELL_OV_FLT", {}) \o regWrite("CELL_UV_FLT", {})
CtFaults == FAULT1_STATUS.CT_OV_FLT \cup FAULT1_STATUS.CT_UV_FLT

CtMasks == FAULT_MASK1.CT_OV_FLT \cup FAULT_MASK1.CT_UV_FLT

-----------------------------------------------------------------------------
(* initializeRegisters: global writes only where the value differs from the *)
(* reset value, then each monitor.  SYS_CFG1 is read back.                   *)

initializeRegisters(current) ==
  regWriteGlobal("TH_ALL_CT", CellLimits) \o regWriteGlobal("SYS_CFG1", SYS_CFG1_VALUE(FALSE))
    \o regWriteGlobal("ADC_CFG", ADC_CFG_VALUE)
    \o regWriteGlobal("FAULT_MASK3", FAULT_MASK3_VALUE)
    \o regWrite("SYS_CFG1", SYS_CFG1_VALUE(current))
    \o expectBits(SYS_CFG1.I_MEAS_EN, IF current THEN SYS_CFG1.I_MEAS_EN ELSE {})
    \o regWrite("GPIO_CFG1", {b \in DigitalInput : b >= 2 * NtcCount})
    \o regWrite("OV_UV_EN", CellMap \cup OV_UV_EN.COMMON_UV_TH \cup OV_UV_EN.COMMON_OV_TH)
    \o Transfer("forget", "timers", "update", {}, {}) \o CB_Enable(FALSE)
    \o CB_ClearAllChannels \o Transfer("forget", "timers", "update", {}, {})
    \o regWriteGlobal("CELL_OV_FLT", {}) \o regWriteGlobal("CELL_UV_FLT", {})
    \o regWriteGlobal("AN_OT_UT_FLT", {}) \o regWriteGlobal("FAULT1_STATUS", {})

-----------------------------------------------------------------------------
(* The diagnostics, in the order runChecks runs them. *)

\* ADC1-A and ADC1-B against the band gap, their own faults masked.
diag_ADC1 ==
  regRead("FAULT_MASK2", "mask2")
    \o writeFrom("FAULT_MASK2", "mask2", {}, FAULT_MASK2.ADC1_A_FLT \cup FAULT_MASK2.ADC1_B_FLT)
    \o regRead("WAKEUP_MASK2", "wakeup2")
    \o writeFrom("WAKEUP_MASK2", "wakeup2", {}, WAKEUP_MASK2.ADC1_A_FLT \cup WAKEUP_MASK2.ADC1_B_FLT)
    \o regRead("ADC_CFG", "adc") \o writeFrom("ADC_CFG", "adc", AdcResolution, AdcResolution)
    \o meas_StartAndWait(8) \o measure("ADC1VER", 1)
    \o restore("FAULT_MASK2", "mask2") \o restore("WAKEUP_MASK2", "wakeup2")
    \o restore("ADC_CFG", "adc")

diagOvuvPart(closed, part) ==
  clearCellFaults \o commandSwitches("CT", closed) \o meas_StartAndWait(1)
    \o measure("OVUVVER", part)

\* The over- and undervoltage detection, with test thresholds and masked faults.
diag_OvUvVer(odd) ==
  Transfer("idle", "timers", "update", {}, {}) \o setNumbOdd(odd)
    \o regRead("FAULT_MASK1", "mask1") \o writeFrom("FAULT_MASK1", "mask1", {}, CtMasks)
    \o enterDiagnostics
    \o regRead("OV_UV_EN", "ovuven") \o regWrite("OV_UV_EN", Bits)
    \o regRead("TH_ALL_CT", "limits") \o regWrite("TH_ALL_CT", TestLimits)
    \o regUpdate("SYS_DIAG", SYS_DIAG.CT_OV_UV, SYS_DIAG.CT_OV_UV)
    \o diagOvuvPart(SYS_DIAG.CT_OL_EVEN, 1) \o diagOvuvPart(SYS_DIAG.CT_OL_ODD, 2)
    \o regUpdate("SYS_DIAG", SYS_DIAG.CT_OL_ODD \cup SYS_DIAG.CT_OL_EVEN \cup SYS_DIAG.CT_OV_UV, {})
    \o restore("TH_ALL_CT", "limits") \o restore("OV_UV_EN", "ovuven")
    \o clearCellFaults \o restore("FAULT_MASK1", "mask1")
    \o regUpdate("FAULT1_STATUS", CtFaults, {}) \o exitDiagnostics

\* The cell voltages with balancing paused and with every channel on.
diag_OvUvDet ==
  regRead("SYS_CFG1", "cfg1")
    \o CB_Pause(TRUE) \o meas_StartAndWait(1) \o measure("OVUVDET", 1) \o CB_Pause(FALSE)
    \o CB_Enable(TRUE) \o regRead("CB_EVEN", "CB_EVEN") \o regRead("CB_ODD", "CB_ODD")
    \o unlessOn(setChannel("CB_EVEN", {})) \o unlessOn(setChannel("CB_ODD", {}))
    \o meas_StartAndWait(1) \o measure("OVUVDET", 2)
    \o unlessOn(clearChannel("CB_EVEN")) \o unlessOn(clearChannel("CB_ODD"))
    \o restore("SYS_CFG1", "cfg1")

diagCtxopenPart(closed, part) ==
  clearCellFaults \o commandSwitches("CT", closed) \o meas_StartAndWait(1)
    \o measure("CTXOPEN", part) \o commandSwitches("CT", {})

\* Open and shorted cell terminals, with balancing paused and masked faults.
diag_CTxOpen(odd) ==
  CB_Pause(TRUE) \o setNumbOdd(odd)
    \o regRead("FAULT_MASK1", "mask1") \o writeFrom("FAULT_MASK1", "mask1", {}, CtMasks)
    \o enterDiagnostics
    \o diagCtxopenPart(SYS_DIAG.CT_OL_ODD, 1) \o diagCtxopenPart(SYS_DIAG.CT_OL_EVEN, 2)
    \o clearCellFaults \o regUpdate("FAULT1_STATUS", CtFaults, {})
    \o restore("FAULT_MASK1", "mask1") \o CB_Pause(FALSE) \o exitDiagnostics

\* The cell measurement channels on a common reference; DA_DIAG is not taken back.
diag_CellVolt ==
  enterDiagnostics
    \o regRead("ADC_CFG", "adc") \o writeFrom("ADC_CFG", "adc", AdcResolution, AdcResolution)
    \o regUpdate("SYS_DIAG", SYS_DIAG.DA_DIAG, SYS_DIAG.DA_DIAG)
    \o meas_StartAndWait(8) \o measure("CELLVOLT", 1)
    \o meas_StartAndWait(1) \o measure("CELLVOLT", 2)
    \o regWrite("CELL_OV_FLT", {}) \o restore("ADC_CFG", "adc") \o exitDiagnostics

\* The connection resistance: voltages with no channel, then alternate channels on.
diag_ConnResistance ==
  clearChannel("CB_EVEN") \o clearChannel("CB_ODD") \o CB_Enable(TRUE)
    \o meas_StartAndWait(1) \o measure("CONNRES", 0)
    \o setChannel("CB_EVEN", {0}) \o meas_StartAndWait(1) \o measure("CONNRES", 1)
    \o clearChannel("CB_EVEN")
    \o setChannel("CB_ODD", {0}) \o meas_StartAndWait(1) \o measure("CONNRES", 2)
    \o clearChannel("CB_ODD")

LeakSwitches == SYS_DIAG.CT_LEAK_DIAG \cup SYS_DIAG.POLARITY

\* Leakage between the cell and balancing terminals, in both polarities.
diag_CTxLeak ==
  enterDiagnostics \o CB_Pause(TRUE)
    \o regUpdate("SYS_DIAG", LeakSwitches, SYS_DIAG.CT_LEAK_DIAG)
    \o meas_StartAndWait(4) \o measure("CTXLEAK", 1)
    \o regUpdate("SYS_DIAG", LeakSwitches, LeakSwitches)
    \o meas_StartAndWait(4) \o measure("CTXLEAK", 2)
    \o clearCellFaults \o regUpdate("SYS_DIAG", LeakSwitches, {})
    \o CB_Pause(FALSE) \o exitDiagnostics

\* The current channel with shorted input (part 1) or its reference (part 2).
CurrentGain(part) == IF part = 1 THEN {8, 9} ELSE {}
CurrentMux(part) == IF part = 1 THEN {11, 12} ELSE {12}

diag_CurrentMeas(part) ==
  regRead("SYS_CFG1", "cfg1") \o regRead("SYS_DIAG", "diag") \o regRead("ADC_CFG", "adc")
    \o writeFrom("SYS_CFG1", "cfg1", SYS_CFG1.I_MEAS_EN, {}) \o enterDiagnostics
    \o writeFrom("ADC_CFG", "adc", ADC_CFG.ADC2_DEF \cup ADC_CFG.PGA_GAIN,
                 ADC_CFG.ADC2_DEF \cup CurrentGain(part))
    \o writeFrom("SYS_DIAG", "diag", SYS_DIAG.I_MUX, CurrentMux(part))
    \o writeFrom("SYS_CFG1", "cfg1", {}, SYS_CFG1.I_MEAS_EN \cup SYS_CFG1.GO2DIAG)
    \o meas_StartAndWait(1) \o measure("CURRMEAS", part)
    \o exitDiagnostics \o restore("SYS_CFG1", "cfg1") \o restore("SYS_DIAG", "diag")
    \o writeFrom("ADC_CFG", "adc", {}, ADC_CFG.CC_RST)

\* An open shunt, seen as an open-load fault of the current inputs.
diag_ShuntConn ==
  regRead("SYS_CFG1", "cfg1") \o writeFrom("SYS_CFG1", "cfg1", SYS_CFG1.I_MEAS_EN, {})
    \o regWrite("FAULT1_STATUS", {}) \o enterDiagnostics
    \o regUpdate("SYS_DIAG", SYS_DIAG.ISENSE_OL_DIAG, SYS_DIAG.ISENSE_OL_DIAG)
    \o observe("SHUNTNOTCONN", 1)
    \o regUpdate("SYS_DIAG", SYS_DIAG.ISENSE_OL_DIAG, {})
    \o writeFrom("SYS_CFG1", "cfg1", SYS_CFG1.GO2DIAG, {})
    \o regUpdate("ADC_CFG", ADC_CFG.CC_RST, ADC_CFG.CC_RST) \o regWrite("FAULT1_STATUS", {})

gpioOtUtPart(levels, part) ==
  regWrite("GPIO_CFG2", levels) \o meas_StartAndWait(1) \o measure("GPIOXOTUT", part)
    \o regWrite("AN_OT_UT_FLT", {})

AnFaults == FAULT1_STATUS.AN_UT_FLT \cup FAULT1_STATUS.AN_OT_FLT

\* The temperature detection, with every pin driven high and then low.
diag_GPIOxOtUt ==
  regWrite("AN_OT_UT_FLT", {}) \o enterDiagnostics
    \o regRead("GPIO_CFG1", "gpio1") \o regRead("GPIO_CFG2", "gpio2") \o regWrite("GPIO_CFG1", {})
    \o regUpdate("SYS_DIAG", SYS_DIAG.ANX_TEMP_DIAG, SYS_DIAG.ANX_TEMP_DIAG)
    \o gpioOtUtPart(GPIO_CFG2.GPIOX_DR, 1) \o gpioOtUtPart({}, 2)
    \o regUpdate("SYS_DIAG", SYS_DIAG.ANX_TEMP_DIAG, {})
    \o restore("GPIO_CFG1", "gpio1") \o restore("GPIO_CFG2", "gpio2")
    \o regUpdate("FAULT1_STATUS", AnFaults, {}) \o exitDiagnostics

\* Open temperature inputs.
diag_GPIOxOpen ==
  enterDiagnostics \o regRead("GPIO_CFG1", "gpio1") \o regWrite("GPIO_CFG1", AnalogAbsolute)
    \o regUpdate("SYS_DIAG", SYS_DIAG.ANX_OL_DIAG, SYS_DIAG.ANX_OL_DIAG)
    \o observe("GPIOXOPEN", 1)
    \o regUpdate("SYS_DIAG", SYS_DIAG.ANX_OL_DIAG, {})
    \o restore("GPIO_CFG1", "gpio1") \o exitDiagnostics

\* Open balancing terminals.
diag_CBxOpen(odd) ==
  enterDiagnostics \o setNumbOdd(odd) \o CB_Pause(TRUE)
    \o commandSwitches("CB", SYS_DIAG.CB_OL_ODD) \o observe("CBXOPEN", 1)
    \o commandSwitches("CB", SYS_DIAG.CB_OL_EVEN) \o observe("CBXOPEN", 2)
    \o commandSwitches("CB", {}) \o CB_Pause(FALSE) \o exitDiagnostics

runStartupChecks(current, odd) ==
  diag_ADC1 \o diag_OvUvVer(odd) \o diag_OvUvDet \o diag_CTxOpen(odd) \o diag_CellVolt
    \o diag_ConnResistance \o diag_CTxLeak
    \o (IF current THEN diag_CurrentMeas(1) \o diag_CurrentMeas(2) \o diag_ShuntConn ELSE <<>>)
    \o diag_GPIOxOtUt \o diag_GPIOxOpen \o diag_CBxOpen(odd)

\* The programs per kind of monitor.
DriverPrograms ==
  [registers |-> TRUE :> initializeRegisters(TRUE) @@ FALSE :> initializeRegisters(FALSE),
   diagnostics |->
     TRUE :> (TRUE :> runStartupChecks(TRUE, TRUE) @@ FALSE :> runStartupChecks(TRUE, FALSE)) @@
     FALSE :> (TRUE :> runStartupChecks(FALSE, TRUE) @@ FALSE :> runStartupChecks(FALSE, FALSE))]

==================================================================================
