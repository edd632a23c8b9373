----------------------------- MODULE BccDiagnostics -----------------------------
(***************************************************************************)
(* Bringing one battery cell controller (a "monitor" of the chain) to      *)
(* RUNNING: software reset, register initialisation and the twelve         *)
(* start-up diagnostics of bcc_diagnostics.cpp, one register transfer per  *)
(* step.  Each diagnostic is a program of transfers, because what makes    *)
(* them hard is what they leave behind: they mask faults, move protection  *)
(* thresholds, open and close terminal switches and enter the diagnostic   *)
(* mode, and must undo all of it, in an order that never lets a            *)
(* manipulated threshold look like a fault, while any transfer may fail.   *)
(*                                                                         *)
(* The monitor is external: it keeps what is written, starts a conversion  *)
(* on SOC, accepts SYS_DIAG only in diagnostic mode and clears it when the *)
(* mode is left, and loses everything at a reset.  What a check finds is   *)
(* right when the monitor was in the condition the check needs, and        *)
(* arbitrary otherwise.  The cells stay within their limits and a          *)
(* diagnostic ends before the monitor's own 1 s diagnostic timeout.        *)
(***************************************************************************)
EXTENDS BccDiagnosticPrograms

CONSTANT Programs   \* DriverPrograms: a constant, so that a step does not spell them out

VARIABLES
  device,     \* [current, circuit, odd, defects]: checked current sensing, powered current circuit, parity, faulty parts
  stage,      \* currentState of the slave controller
  pc,         \* next transfer of the stage's program
  regs,       \* the monitor's registers
  addressed,  \* the monitor has a cluster identifier and answers
  sampled,    \* the registers at the last start of conversion
  saved,      \* the register values the driver holds in local variables
  timers,     \* the channels the driver believes to be balancing (mCBTimerEnd)
  failed      \* the checks of this attempt that found a fault

vars == <<device, stage, pc, regs, addressed, sampled, saved, timers, failed>>

Program == IF stage = "registers" THEN Programs.registers[device.circuit]
           ELSE Programs.diagnostics[device.current][device.odd]
Step == Program[pc]

-----------------------------------------------------------------------------
(* The monitor: external.                                                     *)

InDiag(r) == SYS_CFG1.DIAG_ST \subseteq r.SYS_CFG1
Paused(r) == SYS_CFG1.CB_MANUAL_PAUSE \subseteq r.SYS_CFG1
Driving(r) == {c \in Channels : CBX_CFG.CB_EN \subseteq r[c]}
\* Terminal switches or thresholds are not those of normal operation.
Manipulated(r) ==
  \/ r.TH_ALL_CT # CellLimits
  \/ r.SYS_DIAG \cap (SYS_DIAG.CT_OV_UV \cup SYS_DIAG.CT_OL_ODD \cup SYS_DIAG.CT_OL_EVEN) # {}

\* A conversion compares what it measured with the thresholds.
Converted(r) ==
  LET cells == IF Manipulated(r) THEN 0..13 ELSE {}
      analog == IF SYS_DIAG.ANX_TEMP_DIAG \subseteq r.SYS_DIAG
                THEN AN_OT_UT_FLT.ANX_UT \cup AN_OT_UT_FLT.ANX_OT ELSE {}
  IN [r EXCEPT !.CELL_OV_FLT = @ \cup cells, !.CELL_UV_FLT = @ \cup cells,
               !.AN_OT_UT_FLT = @ \cup analog,
               !.FAULT1_STATUS = @ \cup (IF cells = {} THEN {} ELSE CtFaults)
                                   \cup (IF analog = {} THEN {} ELSE AnFaults)]

Written(r, reg, value) ==
  CASE reg = "SYS_CFG1" ->
         [r EXCEPT !.SYS_CFG1 = value, !.SYS_DIAG = IF SYS_CFG1.GO2DIAG \subseteq value THEN @ ELSE {}]
    [] reg = "SYS_DIAG" ->
         IF ~InDiag(r) THEN r
         ELSE [r EXCEPT !.SYS_DIAG = value,
                        !.FAULT1_STATUS = @ \cup (IF SYS_DIAG.ISENSE_OL_DIAG \subseteq value
                                                  THEN FAULT1_STATUS.IS_OL_FLT ELSE {})]
    [] reg = "ADC_CFG" ->
         LET kept == [r EXCEPT !.ADC_CFG = value \ (ADC_CFG.SOC \cup ADC_CFG.CC_RST)]
         IN IF ADC_CFG.SOC \subseteq value THEN Converted(kept) ELSE kept
    [] OTHER -> [r EXCEPT ![reg] = value]

\* The condition in which the monitor shows what part of a check looks for.
Condition(check, part, r) ==
  LET on(bits) == bits \subseteq r.SYS_DIAG
      closed == r.SYS_DIAG \cap (0..3)
      half == IF part = 1 THEN "CB_EVEN" ELSE "CB_ODD"
  IN CASE check = "ADC1VER" -> AdcResolution \subseteq r.ADC_CFG
       [] check = "OVUVVER" ->
            /\ InDiag(r) /\ on(SYS_DIAG.CT_OV_UV)
            /\ r.TH_ALL_CT = TestLimits /\ r.OV_UV_EN = Bits
            /\ closed = IF part = 1 THEN SYS_DIAG.CT_OL_EVEN ELSE SYS_DIAG.CT_OL_ODD
       [] check = "OVUVDET" ->
            IF part = 1 THEN Paused(r)
            ELSE ~Paused(r) /\ Driving(r) = Channels /\ SYS_CFG1.CB_DRVEN \subseteq r.SYS_CFG1
       [] check = "CTXOPEN" ->
            /\ InDiag(r) /\ Paused(r)
            /\ closed = IF part = 1 THEN SYS_DIAG.CT_OL_ODD ELSE SYS_DIAG.CT_OL_EVEN
       [] check = "CELLVOLT" ->
            InDiag(r) /\ AdcResolution \subseteq r.ADC_CFG /\ r.SYS_DIAG = SYS_DIAG.DA_DIAG
       [] check = "CONNRES" ->
            /\ ~Paused(r) /\ SYS_CFG1.CB_DRVEN \subseteq r.SYS_CFG1
            /\ Driving(r) = IF part = 0 THEN {} ELSE {half}
       [] check = "CTXLEAK" ->
            /\ InDiag(r) /\ Paused(r)
            /\ r.SYS_DIAG = IF part = 1 THEN SYS_DIAG.CT_LEAK_DIAG ELSE LeakSwitches
       [] check = "CURRMEAS" ->
            /\ InDiag(r) /\ SYS_CFG1.I_MEAS_EN \subseteq r.SYS_CFG1
            /\ r.SYS_DIAG = CurrentMux(part) /\ r.ADC_CFG \cap ADC_CFG.PGA_GAIN = CurrentGain(part)
       [] check = "SHUNTNOTCONN" ->
            InDiag(r) /\ on(SYS_DIAG.ISENSE_OL_DIAG) /\ r.SYS_CFG1 \cap SYS_CFG1.I_MEAS_EN = {}
       [] check = "GPIOXOTUT" ->
            /\ InDiag(r) /\ on(SYS_DIAG.ANX_TEMP_DIAG) /\ r.GPIO_CFG1 = {}
            /\ r.GPIO_CFG2 = IF part = 1 THEN GPIO_CFG2.GPIOX_DR ELSE {}
       [] check = "GPIOXOPEN" ->
            InDiag(r) /\ on(SYS_DIAG.ANX_OL_DIAG) /\ r.GPIO_CFG1 = AnalogAbsolute
       [] check = "CBXOPEN" ->
            /\ InDiag(r) /\ Paused(r)
            /\ closed = IF part = 1 THEN SYS_DIAG.CB_OL_ODD ELSE SYS_DIAG.CB_OL_EVEN

-----------------------------------------------------------------------------
(* Transfers.  Each may fail, for a lost request or for a lost answer.        *)

Executing == stage \in {"registers", "diagnostics"} /\ pc <= Len(Program)
Is(op) == Executing /\ Step.op = op

Advance == pc' = pc + 1 /\ UNCHANGED <<device, stage>>

NothingSaved == [s \in Slots |-> {}]

\* An initialisation is tried again by itself, a diagnostic from the device on.
\* The local variables of the diagnostic are gone.
Abort ==
  /\ stage' = IF stage = "registers" THEN "registers" ELSE "device"
  /\ pc' = 1 /\ saved' = NothingSaved /\ failed' = {}
  /\ UNCHANGED <<device, timers>>

Apply(reg, value) ==
  /\ regs' = Written(regs, reg, value)
  /\ sampled' = IF reg = "ADC_CFG" /\ ADC_CFG.SOC \subseteq value THEN regs' ELSE sampled
  /\ UNCHANGED addressed

Value == (saved[Step.slot] \ Step.mask) \cup Step.value
Target == IF Step.op = "write" THEN Value ELSE Step.value

Read ==
  /\ Is("read") /\ addressed
  /\ saved' = [saved EXCEPT ![Step.slot] = regs[Step.reg]]
  /\ Advance /\ UNCHANGED <<regs, addressed, sampled, timers, failed>>

Write ==
  /\ Is("write") /\ addressed
  /\ Apply(Step.reg, Value)
  /\ Advance /\ UNCHANGED <<saved, timers, failed>>

\* A global write is not answered: it succeeds when the driver hears its own echo.
WriteGlobal ==
  /\ Is("global")
  /\ Apply(Step.reg, Step.value)
  /\ Advance /\ UNCHANGED <<saved, timers, failed>>

\* CB_SetIndividualChannel writes only what its timers say is a change.
SkipsChannel ==
  \/ Step.slot # "update" /\ CBX_CFG.CB_STS \subseteq saved[Step.slot]
  \/ (Step.reg \in timers) = (CBX_CFG.CB_EN \subseteq Step.value)

Channel ==
  /\ Is("channel")
  /\ IF SkipsChannel
     THEN UNCHANGED <<regs, addressed, sampled, timers>>
     ELSE /\ addressed
          /\ Apply(Step.reg, Step.value)
          /\ timers' = IF CBX_CFG.CB_EN \subseteq Step.value THEN timers \cup {Step.reg}
                                                            ELSE timers \ {Step.reg}
  /\ Advance /\ UNCHANGED <<saved, failed>>

Expect ==
  /\ Is("expect") /\ addressed
  /\ IF regs.SYS_CFG1 \cap Step.mask = Step.value
     THEN Advance /\ UNCHANGED <<saved, timers, failed>>
     ELSE Abort
  /\ UNCHANGED <<regs, addressed, sampled>>

Measure ==
  /\ Executing /\ Step.op \in {"measured", "observed"} /\ addressed
  /\ LET seen == IF Step.op = "measured" THEN sampled ELSE regs
     IN \E found \in IF Condition(Step.reg, Step.slot, seen)
                     THEN {Step.reg \in device.defects} ELSE BOOLEAN :
          failed' = IF found THEN failed \cup {Step.reg} ELSE failed
  /\ Advance /\ UNCHANGED <<regs, addressed, sampled, saved, timers>>

\* Driver state only: timers forgotten, or a diagnostic refused while balancing.
Local ==
  /\ Executing /\ Step.op \in {"forget", "idle"}
  /\ UNCHANGED <<regs, addressed, sampled>>
  /\ IF Step.op = "idle" /\ timers # {}
     THEN Abort
     ELSE /\ timers' = IF Step.op = "forget" THEN {} ELSE timers
          /\ Advance /\ UNCHANGED <<saved, failed>>

\* The request is lost, or the answer of a write that took effect.
TransferFails ==
  /\ Executing /\ Step.op \notin {"forget", "idle"}
  /\ \/ UNCHANGED <<regs, addressed, sampled>>
     \/ addressed /\ Step.op \in {"write", "channel"} /\ Apply(Step.reg, Target)
  /\ Abort

-----------------------------------------------------------------------------
(* The stages of the slave controller.                                        *)

\* InitDevices: an unacknowledged reset, then an identifier for a reset monitor only.
InitDevices ==
  /\ stage = "device"
  /\ \E reset \in BOOLEAN : regs' = IF reset THEN Por ELSE regs
  /\ addressed' \in IF regs' = Por THEN BOOLEAN ELSE {addressed}
  /\ stage' = IF regs' = Por /\ addressed' THEN "registers" ELSE "device"
  /\ pc' = 1 /\ sampled' = Por
  /\ UNCHANGED <<device, saved, timers, failed>>

\* A monitor that hears nothing while the controller waits for a retry resets itself.
MonitorTimesOut ==
  /\ stage = "device" \/ (stage = "registers" /\ pc = 1)
  /\ addressed
  /\ regs' = Por /\ addressed' = FALSE
  /\ UNCHANGED <<device, stage, pc, sampled, saved, timers, failed>>

RegistersDone ==
  /\ stage = "registers" /\ pc > Len(Program)
  /\ stage' = "diagnostics" /\ pc' = 1 /\ saved' = NothingSaved /\ sampled' = Por
  /\ UNCHANGED <<device, regs, addressed, timers, failed>>

DiagnosticsDone ==
  /\ stage = "diagnostics" /\ pc > Len(Program)
  /\ stage' = IF failed = {} THEN "running" ELSE "device"
  /\ pc' = 1 /\ saved' = NothingSaved /\ failed' = {}
  /\ UNCHANGED <<device, regs, addressed, sampled, timers>>

\* A communication hard fault sends the chain back to its initialisation.
CommunicationLost ==
  /\ stage = "running" /\ stage' = "device"
  /\ UNCHANGED <<device, pc, regs, addressed, sampled, saved, timers, failed>>

Init ==
  /\ device \in Devices
  /\ stage = "device" /\ pc = 1 /\ regs = Por /\ addressed = FALSE /\ sampled = Por
  /\ saved = NothingSaved /\ timers = {} /\ failed = {}

Next ==
  \/ Read \/ Write \/ WriteGlobal \/ Channel \/ Expect \/ Measure \/ Local \/ TransferFails
  \/ InitDevices \/ MonitorTimesOut \/ RegistersDone \/ DiagnosticsDone \/ CommunicationLost

Spec == Init /\ [][Next]_vars

-----------------------------------------------------------------------------
(* Properties.                                                                *)

TypeOK ==
  /\ device \in Devices /\ stage \in {"device", "registers", "diagnostics", "running"}
  /\ pc \in 1..400 /\ addressed \in BOOLEAN
  /\ \A r \in DOMAIN regs : regs[r] \subseteq Bits
  /\ DOMAIN regs = DOMAIN Por /\ DOMAIN sampled = DOMAIN Por
  /\ saved \in [Slots -> SUBSET Bits]
  /\ timers \subseteq Channels /\ failed \subseteq Checks

\* A controller that reaches RUNNING has left nothing of its diagnostics behind:
\* not in diagnostic mode, balancing not paused and no channel on, and every
\* threshold, mask, pin mode and fault register as initialisation set it.  Only
\* the averaging of the next conversion, the parity bit and the enabled (but
\* idle) balancing driver may differ.
CleanWhenRunning ==
  stage = "running" =>
    LET wanted == Configured(device.circuit)
    IN /\ \A r \in DOMAIN regs \ {"SYS_CFG1", "SYS_CFG2", "ADC_CFG"} : regs[r] = wanted[r]
       /\ regs.SYS_CFG1 \ SYS_CFG1.CB_DRVEN = wanted.SYS_CFG1
       /\ regs.ADC_CFG \ ADC_CFG.AVG = wanted.ADC_CFG \ ADC_CFG.AVG
       /\ regs.SYS_CFG2 \ SYS_CFG2.NUMB_ODD = wanted.SYS_CFG2
       /\ timers = {}

\* Whenever a diagnostic has moved the cell thresholds or operated the terminal
\* switches, at any point and also after it was aborted, the cell over- and
\* undervoltage faults are masked from the fault output.
ManipulatedIsMasked ==
  (stage = "diagnostics" /\ Manipulated(regs)) =>
    FAULT_MASK1.CT_OV_FLT \cup FAULT_MASK1.CT_UV_FLT \subseteq regs.FAULT_MASK1

\* Checks are conclusive: a monitor with a faulty part is never RUNNING, and one
\* without is never reported faulty, whatever the diagnostics before left behind.
VerdictsAreSound ==
  LET checked == Checks \ (IF device.current THEN {} ELSE CurrentChecks)
  IN /\ stage = "running" => device.defects \cap checked = {}
     /\ stage = "diagnostics" => failed \subseteq device.defects

=================================================================================
