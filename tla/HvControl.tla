------------------------------ MODULE HvControl ------------------------------
(***************************************************************************)
(* The high-voltage supervisor of the STM32 master: the fault manager      *)
(* (FaultManager.cpp), the precharge and contactor controller (pcc.cpp)    *)
(* and the three preemptive tasks that call them.                          *)
(*                                                                         *)
(*   main   runs PCC::loop and IO::updateAdcHealth every 20 ms,            *)
(*   bms    runs SlaveController and sets and clears its own fault bits,   *)
(*   uart   runs the service requests of BmsUart.                          *)
(*                                                                         *)
(* A fault operation is one critical section, but the safe-off it triggers *)
(* comes after the critical section: it first drops the outputs without a  *)
(* lock and then waits for the recursive PCC mutex.  PCC::loop holds that  *)
(* mutex for the whole loop and drives the outputs while it holds it, one  *)
(* write after the other, with the unlocked writes of the other tasks in   *)
(* between.  The steps below are cut wherever another task can act on the  *)
(* state that follows; two writes are one step only where a drop between   *)
(* them leaves what a drop before or after both of them leaves.            *)
(*                                                                         *)
(* Analogue readings and measured times are abstracted: each time the code *)
(* tests one, the model takes either result.                               *)
(***************************************************************************)
EXTENDS Naturals

CONSTANTS
    BmsFault,            \* the fault bits SlaveController owns
    InvalidSampleLimit,  \* HV_VOLTAGE_INVALID_SAMPLE_LIMIT
    AdcFailureLimit      \* ADC_HEALTH_FAILURE_LIMIT

\* FaultManager::HvFault
HvFault == {"SensorDiagnostic", "BatteryVoltageMismatch", "LoadSideEnergized",
            "PrechargeTimeout", "PrechargeVoltageLost", "ContactorVoltageLost"}

\* The bits of the BMS and the HV bitmap together; the code always tests their union.
Fault == BmsFault \cup {"AdcFault"} \cup HvFault

Task == {"main", "bms", "uart"}

\* "none" stands for no fault.
ASSUME BmsFaultAssumption == BmsFault \cap (HvFault \cup {"AdcFault", "none"}) = {}
ASSUME LimitAssumption ==
    /\ InvalidSampleLimit \in Nat \ {0}
    /\ AdcFailureLimit \in Nat \ {0}

VARIABLES
    \* FaultManager
    active,           \* conditions present now
    latched,          \* conditions not acknowledged yet
    watchdogReset,    \* the acknowledgeable warning
    startupComplete,
    hvRunning,
    critical,
    \* PCC
    state,
    runRequest,
    prepared,         \* firmwareUpdatePrepared
    locked,           \* firmwareUpdateLocked
    expired,          \* firmwareUpdatePrepareDeadlineMs has passed
    invalidSamples,   \* hvVoltageInvalidSampleCount
    \* outputs
    relay,            \* precharge relay
    duty,             \* contactor PWM duty
    \* BoardIO
    adcFailures,      \* adcHealthFailureCount
    \* where each task is
    at,               \* main: the next step of its loop
    seen,             \* main: the latched HV faults refreshActiveErrors read
    latching,         \* main: the fault latchFault has still to deactivate
    safeOff,          \* each task: its position in forceSafeOffFromFaultManager
    serving           \* uart: the rest of the service request it is in

faultVars  == <<active, latched>>
statusVars == <<watchdogReset, startupComplete, critical>>
updateVars == <<prepared, locked, expired>>
outputVars == <<relay, duty>>
mainVars   == <<at, seen, latching>>
vars == <<active, latched, watchdogReset, startupComplete, hvRunning, critical,
          state, runRequest, prepared, locked, expired, invalidSamples, relay,
          duty, adcFailures, at, seen, latching, safeOff, serving>>

-----------------------------------------------------------------------------
(* Shared operators *)

Refreshable == {"SensorDiagnostic", "BatteryVoltageMismatch", "LoadSideEnergized"}

MainInLoop == {"RefreshSensor", "RefreshMismatch", "RefreshLoad", "Dispatch",
               "Energize", "Close", "PullIn", "Unlatch", "Lost", "Publish",
               "LeaveInvalid"}

\* Only PCC::loop keeps the PCC mutex across steps of other tasks.
MutexFreeFor(t) == t = "main" \/ at \notin MainInLoop

Blocking == critical \/ active # {} \/ latched # {}

\* In place of the next definition (for mutation).
CanEnableHvLatchForgotten == startupComplete /\ ~critical /\ active = {}

CanEnableHv == startupComplete /\ ~Blocking

\* In place of the next definition (for mutation).
DisableRelayOnly == relay' = FALSE /\ UNCHANGED duty

DisableOutputs == relay' = FALSE /\ duty' = "off"

\* In place of the next definition (for mutation).
CountFailureUncapped(n, limit) == n + 1

\* The debounce counters stop at their limit.
CountFailure(n, limit) == IF n < limit THEN n + 1 ELSE n

\* In place of the next definition (for mutation).
UpdateErrorWithoutSafeOff(t, fault, on) ==
    /\ active'  = IF on THEN active \cup {fault} ELSE active \ {fault}
    /\ latched' = IF on THEN latched \cup {fault} ELSE latched
    /\ UNCHANGED safeOff

\* FaultManager::updateError: the critical section; a newly active bit owes a safe-off.
UpdateError(t, fault, on) ==
    /\ active'  = IF on THEN active \cup {fault} ELSE active \ {fault}
    /\ latched' = IF on THEN latched \cup {fault} ELSE latched
    /\ safeOff' = IF on /\ fault \notin active
                  THEN [safeOff EXCEPT ![t] = "drop"] ELSE safeOff

\* A task takes its next step once it has returned from forceSafeOffFromFaultManager.
MainAt(location) == at = location /\ safeOff["main"] = "none" /\ serving # "Rom"

\* In place of the next definition (for mutation).
BmsReadyDuringSafeOff == ~critical /\ serving # "Rom"

BmsReady  == safeOff["bms"] = "none" /\ ~critical /\ serving # "Rom"
UartReady == safeOff["uart"] = "none" /\ serving = "Idle"

-----------------------------------------------------------------------------
(* forceSafeOffFromFaultManager *)

\* The first IO::emergencySafeOff, without the lock: the relay ...
DropRelay(t) ==
    /\ safeOff[t] = "drop" /\ serving # "Rom"
    /\ relay' = FALSE
    /\ safeOff' = [safeOff EXCEPT ![t] = "half"]
    /\ UNCHANGED <<faultVars, statusVars, hvRunning, state, runRequest, updateVars,
                   invalidSamples, duty, adcFailures, mainVars, serving>>

\* ... then the contactor.
DropContactor(t) ==
    /\ safeOff[t] = "half" /\ serving # "Rom"
    /\ duty' = "off"
    /\ safeOff' = [safeOff EXCEPT ![t] = "wait"]
    /\ UNCHANGED <<faultVars, statusVars, hvRunning, state, runRequest, updateVars,
                   invalidSamples, relay, adcFailures, mainVars, serving>>

SafeOffDrop(t) == DropRelay(t) \/ DropContactor(t)

\* In place of the next definition (for mutation).
SafeOffLockedWithoutOutputs(t) ==
    /\ safeOff[t] = "wait" /\ serving # "Rom"
    /\ MutexFreeFor(t)
    /\ runRequest' = FALSE
    /\ state' = "OFF"
    /\ hvRunning' = FALSE
    /\ safeOff' = [safeOff EXCEPT ![t] = "none"]
    /\ UNCHANGED <<faultVars, statusVars, updateVars, invalidSamples, outputVars,
                   adcFailures, mainVars, serving>>

SafeOffLocked(t) ==
    /\ safeOff[t] = "wait" /\ serving # "Rom"
    /\ MutexFreeFor(t)
    /\ runRequest' = FALSE
    /\ state' = "OFF"
    /\ DisableOutputs
    /\ hvRunning' = FALSE
    /\ safeOff' = [safeOff EXCEPT ![t] = "none"]
    /\ UNCHANGED <<faultVars, statusVars, updateVars, invalidSamples, adcFailures,
                   mainVars, serving>>

-----------------------------------------------------------------------------
(* The main task: PCC::loop *)

LoopInvalid ==
    /\ MainAt("Idle")
    /\ invalidSamples' = CountFailure(invalidSamples, InvalidSampleLimit)
    /\ DisableOutputs
    /\ state' = "OFF"
    /\ hvRunning' = FALSE
    /\ IF invalidSamples' >= InvalidSampleLimit
       THEN UpdateError("main", "SensorDiagnostic", TRUE)
       ELSE UNCHANGED <<faultVars, safeOff>>
    /\ at' = "LeaveInvalid"
    /\ UNCHANGED <<statusVars, runRequest, updateVars, adcFailures, seen, latching,
                   serving>>

LeaveInvalid ==
    /\ MainAt("LeaveInvalid")
    /\ at' = "AdcHealth"
    /\ UNCHANGED <<faultVars, statusVars, hvRunning, state, runRequest, updateVars,
                   invalidSamples, outputVars, adcFailures, seen, latching, safeOff,
                   serving>>

LoopLocked ==
    /\ MainAt("Idle") /\ locked
    /\ invalidSamples' = 0
    /\ DisableOutputs
    /\ state' = "OFF"
    /\ at' = "AdcHealth"
    /\ UNCHANGED <<faultVars, statusVars, hvRunning, runRequest, updateVars,
                   adcFailures, seen, latching, safeOff, serving>>

\* In place of the next definition (for mutation).
PreparedForever == TRUE

\* The prepared state outlives a loop until its deadline.
StillPrepared == ~expired

LoopPrepared ==
    /\ MainAt("Idle") /\ ~locked /\ prepared
    /\ invalidSamples' = 0
    /\ DisableOutputs
    /\ state' = "OFF"
    /\ hvRunning' = FALSE
    /\ prepared' = StillPrepared
    /\ at' = "AdcHealth"
    /\ UNCHANGED <<faultVars, statusVars, runRequest, locked, expired, adcFailures,
                   seen, latching, safeOff, serving>>

\* The loop proper, up to the mismatch fault that goes with a removed request.
LoopRefresh ==
    /\ MainAt("Idle") /\ ~locked /\ ~prepared
    /\ invalidSamples' = 0
    /\ seen' = latched \cap Refreshable
    /\ IF runRequest
       THEN UNCHANGED <<faultVars, safeOff>>
       ELSE UpdateError("main", "BatteryVoltageMismatch", FALSE)
    /\ at' = "RefreshSensor"
    /\ UNCHANGED <<statusVars, hvRunning, state, runRequest, updateVars, outputVars,
                   adcFailures, latching, serving>>

\* One conditional setHvFault of refreshActiveErrors; the condition is read afresh.
Refresh(location, fault, wanted, next) ==
    /\ MainAt(location)
    /\ IF fault \in seen /\ wanted
       THEN \E present \in BOOLEAN : UpdateError("main", fault, present)
       ELSE UNCHANGED <<faultVars, safeOff>>
    /\ at' = next
    /\ UNCHANGED <<statusVars, hvRunning, state, runRequest, updateVars,
                   invalidSamples, outputVars, adcFailures, seen, latching, serving>>

RefreshSensor   == Refresh("RefreshSensor", "SensorDiagnostic", TRUE, "RefreshMismatch")
RefreshMismatch == Refresh("RefreshMismatch", "BatteryVoltageMismatch", runRequest,
                           "RefreshLoad")
RefreshLoad     == Refresh("RefreshLoad", "LoadSideEnergized", TRUE, "Dispatch")

-----------------------------------------------------------------------------
(* The main task: the state machine of PCC::loop *)

\* What a handler of the state machine leaves alone.
HandlerFrame == UNCHANGED <<statusVars, hvRunning, runRequest, updateVars,
                            invalidSamples, adcFailures, seen, serving>>

NoFault == UNCHANGED <<faultVars, safeOff, latching>>

\* latchFault with a condition that is still present.
LatchActive(fault, next) ==
    /\ UpdateError("main", fault, TRUE)
    /\ at' = next
    /\ UNCHANGED latching

\* latchFault with a condition that is not: set here, deactivated by Unlatch.
LatchPulse(fault) ==
    /\ UpdateError("main", fault, TRUE)
    /\ latching' = fault
    /\ at' = "Unlatch"

HandleOff ==
    /\ MainAt("Dispatch") /\ (state = "OFF" \/ ~runRequest)
    /\ DisableOutputs
    /\ state' = IF runRequest /\ CanEnableHv THEN "SELF_TEST" ELSE "OFF"
    /\ NoFault /\ at' = "Publish"
    /\ HandlerFrame

\* Without permission, or without a running BMS and fresh measurements, back to OFF.
SelfTestNotReady ==
    /\ MainAt("Dispatch") /\ runRequest /\ state = "SELF_TEST"
    /\ DisableOutputs
    /\ state' = "OFF"
    /\ NoFault /\ at' = "Publish"
    /\ HandlerFrame

SelfTestFails ==
    /\ MainAt("Dispatch") /\ runRequest /\ state = "SELF_TEST"
    /\ CanEnableHv
    /\ DisableOutputs
    /\ \E fault \in Refreshable : LatchActive(fault, "Publish")
    /\ UNCHANGED state
    /\ HandlerFrame

SelfTestPasses ==
    /\ MainAt("Dispatch") /\ runRequest /\ state = "SELF_TEST"
    /\ CanEnableHv
    /\ DisableOutputs
    /\ UNCHANGED state
    /\ NoFault /\ at' = "Energize"
    /\ HandlerFrame

\* startPrecharge: the permission was tested a step ago.
StartPrecharge ==
    /\ MainAt("Energize")
    /\ state' = "PRECHARGE"
    /\ duty' = "off" /\ relay' = TRUE
    /\ NoFault /\ at' = "Publish"
    /\ HandlerFrame

\* validateSequencePlausibility fails on one of these.
Implausible == {"SensorDiagnostic", "BatteryVoltageMismatch"}

\* The relay and the duty of the stage, then one of the ways on.
HandlePrecharge ==
    /\ MainAt("Dispatch") /\ runRequest /\ state = "PRECHARGE"
    /\ relay' = TRUE /\ duty' = "off" /\ UNCHANGED state
    /\ \/ \E fault \in Implausible : LatchActive(fault, "Publish")
       \/ LatchPulse("PrechargeTimeout")
       \/ NoFault /\ at' \in {"Publish", "Close"}
    /\ HandlerFrame

\* The load has followed for long enough.  The relay was driven many calls ago and may
\* have been dropped since.
CloseContactor ==
    /\ MainAt("Close")
    /\ state' = "CONTACTOR_CLOSE"
    /\ duty' = "full" /\ UNCHANGED relay
    /\ NoFault /\ at' = "Publish"
    /\ HandlerFrame

\* elapsed only grows: once the hold duty was set the pull-in time is over.  A hold that
\* a safe-off has just dropped is forgotten, so the loop may pull in again before OFF.
PullInTime == duty # "hold"

HandleContactorClose ==
    /\ MainAt("Dispatch") /\ runRequest /\ state = "CONTACTOR_CLOSE"
    /\ \/ /\ UNCHANGED <<state, outputVars>>
          /\ \E fault \in Implausible : LatchActive(fault, "Lost")
       \/ /\ UNCHANGED <<state, outputVars>>
          /\ LatchPulse("PrechargeVoltageLost")
       \/ /\ PullInTime
          /\ relay' = TRUE /\ UNCHANGED <<state, duty>>
          /\ NoFault /\ at' = "PullIn"
       \/ /\ relay' = FALSE /\ duty' = "hold" /\ state' \in {"CONTACTOR_CLOSE", "RUN"}
          /\ NoFault /\ at' = "Publish"
    /\ HandlerFrame

\* The second write of the pull-in.
PullIn ==
    /\ MainAt("PullIn")
    /\ duty' = "full" /\ UNCHANGED <<state, relay>>
    /\ NoFault /\ at' = "Publish"
    /\ HandlerFrame

HandleRun ==
    /\ MainAt("Dispatch") /\ runRequest /\ state = "RUN"
    /\ relay' = FALSE /\ duty' = "hold"
    /\ UNCHANGED state
    /\ \/ \E fault \in Implausible : LatchActive(fault, "Lost")
       \/ LatchPulse("ContactorVoltageLost")
       \/ NoFault /\ at' = "Publish"
    /\ HandlerFrame

\* After an implausible reading, unless the safe-off has happened already.
Lost ==
    /\ MainAt("Lost")
    /\ IF state = "OFF"
       THEN NoFault /\ at' = "Publish"
       ELSE LatchPulse(IF state = "RUN" THEN "ContactorVoltageLost"
                                        ELSE "PrechargeVoltageLost")
    /\ UNCHANGED <<state, outputVars>>
    /\ HandlerFrame

Unlatch ==
    /\ MainAt("Unlatch")
    /\ UpdateError("main", latching, FALSE)
    /\ latching' = "none"
    /\ at' = "Publish"
    /\ UNCHANGED <<state, outputVars>>
    /\ HandlerFrame

\* The end of the loop; its destructor gives the mutex back.
Publish ==
    /\ MainAt("Publish")
    /\ hvRunning' = (state = "RUN")
    /\ seen' = {}
    /\ at' = "AdcHealth"
    /\ UNCHANGED <<faultVars, statusVars, state, runRequest, updateVars,
                   invalidSamples, outputVars, adcFailures, latching, safeOff, serving>>

\* IO::updateAdcHealth: not due yet, healthy, or failing a further time.
UpdateAdcHealth ==
    /\ MainAt("AdcHealth")
    /\ \/ UNCHANGED <<faultVars, safeOff, adcFailures>>
       \/ /\ adcFailures' = 0
          /\ UpdateError("main", "AdcFault", FALSE)
       \/ /\ adcFailures' = CountFailure(adcFailures, AdcFailureLimit)
          /\ UpdateError("main", "AdcFault", adcFailures' >= AdcFailureLimit)
    /\ at' = "Idle"
    /\ UNCHANGED <<statusVars, hvRunning, state, runRequest, updateVars,
                   invalidSamples, outputVars, seen, latching, serving>>

-----------------------------------------------------------------------------
(* The BMS task *)

SetBmsFault(fault, on) ==
    /\ BmsReady
    /\ UpdateError("bms", fault, on)
    /\ UNCHANGED <<statusVars, hvRunning, state, runRequest, updateVars,
                   invalidSamples, outputVars, adcFailures, mainVars, serving>>

CompleteStartup ==
    /\ BmsReady
    /\ startupComplete' = TRUE
    /\ UNCHANGED <<faultVars, watchdogReset, critical, hvRunning, state, runRequest,
                   updateVars, invalidSamples, outputVars, adcFailures, mainVars,
                   safeOff, serving>>

-----------------------------------------------------------------------------
(* The UART task *)

\* Every request but COMMIT is answered DENIED or BUSY during a firmware update.
ServiceAllowed == UartReady /\ ~locked /\ ~prepared

RequestRun ==
    /\ ServiceAllowed /\ MutexFreeFor("uart")
    /\ runRequest' = TRUE
    /\ UNCHANGED <<faultVars, statusVars, hvRunning, state, updateVars,
                   invalidSamples, outputVars, adcFailures, mainVars, safeOff, serving>>

RequestStop ==
    /\ ServiceAllowed /\ MutexFreeFor("uart")
    /\ runRequest' = FALSE
    /\ state' = "OFF"
    /\ DisableOutputs
    /\ serving' = "ClearMismatch"
    /\ UNCHANGED <<faultVars, statusVars, hvRunning, updateVars, invalidSamples,
                   adcFailures, mainVars, safeOff>>

\* The fault is cleared after the mutex has been given back.
ClearMismatch ==
    /\ serving = "ClearMismatch"
    /\ UpdateError("uart", "BatteryVoltageMismatch", FALSE)
    /\ serving' = "Idle"
    /\ UNCHANGED <<statusVars, hvRunning, state, runRequest, updateVars,
                   invalidSamples, outputVars, adcFailures, mainVars>>

Acknowledge ==
    /\ ServiceAllowed
    /\ ~critical /\ active = {}
    /\ latched # {} \/ watchdogReset
    /\ latched' = {}
    /\ watchdogReset' = FALSE
    /\ UNCHANGED <<active, startupComplete, critical, hvRunning, state, runRequest,
                   updateVars, invalidSamples, outputVars, adcFailures, mainVars,
                   safeOff, serving>>

\* In place of the next definition (for mutation).
PathOffOnly == state = "OFF"

PathReleased == ~runRequest /\ state = "OFF"

PrepareUpdate ==
    /\ ServiceAllowed /\ MutexFreeFor("uart")
    /\ PathReleased
    /\ prepared' = TRUE
    /\ expired' = FALSE
    /\ state' = "OFF"
    /\ DisableOutputs
    /\ serving' = "NotRunning"
    /\ UNCHANGED <<faultVars, statusVars, hvRunning, runRequest, locked,
                   invalidSamples, adcFailures, mainVars, safeOff>>

CommitUpdate ==
    /\ UartReady /\ ~locked /\ MutexFreeFor("uart")
    /\ prepared' = FALSE
    /\ IF prepared /\ ~expired
       THEN /\ locked' = TRUE
            /\ state' = "OFF"
            /\ DisableOutputs
            /\ serving' = "Handoff"
       ELSE UNCHANGED <<locked, state, outputVars, serving>>
    /\ UNCHANGED <<faultVars, statusVars, hvRunning, runRequest, expired,
                   invalidSamples, adcFailures, mainVars, safeOff>>

\* setHvRunning(false) after the mutex; a commit then jumps to the ROM loader for good.
EndUpdateRequest ==
    /\ serving \in {"NotRunning", "Handoff"}
    /\ hvRunning' = FALSE
    /\ serving' = IF serving = "Handoff" THEN "Rom" ELSE "Idle"
    /\ UNCHANGED <<faultVars, statusVars, state, runRequest, updateVars,
                   invalidSamples, outputVars, adcFailures, mainVars, safeOff>>

-----------------------------------------------------------------------------
(* Time and resets *)

DeadlinePasses ==
    /\ prepared /\ ~expired /\ serving # "Rom"
    /\ expired' = TRUE
    /\ UNCHANGED <<faultVars, statusVars, hvRunning, state, runRequest, prepared,
                   locked, invalidSamples, outputVars, adcFailures, mainVars, safeOff,
                   serving>>

\* What setup leaves: a rejected configuration is CRITICAL for the whole boot.
Boot(bootActive, bootLatched, bootCritical) ==
    \/ bootCritical = FALSE /\ bootActive = {} /\ bootLatched = {}
    \/ /\ bootCritical = TRUE
       /\ \E fault \in BmsFault : bootActive = {fault} /\ bootLatched = {fault}

Init ==
    /\ Boot(active, latched, critical)
    /\ watchdogReset \in BOOLEAN
    /\ startupComplete = FALSE /\ hvRunning = FALSE
    /\ state = "OFF" /\ runRequest = FALSE
    /\ prepared = FALSE /\ locked = FALSE /\ expired = FALSE
    /\ invalidSamples = 0 /\ adcFailures = 0
    /\ relay = FALSE /\ duty = "off"
    /\ at = "Idle" /\ seen = {} /\ latching = "none"
    /\ safeOff = [t \in Task |-> "none"]
    /\ serving = "Idle"

\* Brown-out, watchdog, the reset after SET_CONFIG, or the ROM loader's Go.
Reset ==
    /\ Boot(active', latched', critical')
    /\ watchdogReset' \in BOOLEAN
    /\ startupComplete' = FALSE /\ hvRunning' = FALSE
    /\ state' = "OFF" /\ runRequest' = FALSE
    /\ prepared' = FALSE /\ locked' = FALSE /\ expired' = FALSE
    /\ invalidSamples' = 0 /\ adcFailures' = 0
    /\ DisableOutputs
    /\ at' = "Idle" /\ seen' = {} /\ latching' = "none"
    /\ safeOff' = [t \in Task |-> "none"]
    /\ serving' = "Idle"

-----------------------------------------------------------------------------

PccLoop ==
    \/ LoopInvalid \/ LeaveInvalid \/ LoopLocked \/ LoopPrepared \/ LoopRefresh
    \/ RefreshSensor \/ RefreshMismatch \/ RefreshLoad
    \/ HandleOff \/ SelfTestNotReady \/ SelfTestFails \/ SelfTestPasses
    \/ StartPrecharge \/ HandlePrecharge \/ CloseContactor
    \/ HandleContactorClose \/ PullIn \/ HandleRun
    \/ Lost \/ Unlatch \/ Publish

MainTask == PccLoop \/ UpdateAdcHealth

BmsTask == CompleteStartup \/ \E fault \in BmsFault, on \in BOOLEAN : SetBmsFault(fault, on)

UartTask ==
    \/ RequestRun \/ RequestStop \/ ClearMismatch \/ Acknowledge
    \/ PrepareUpdate \/ CommitUpdate \/ EndUpdateRequest

SafeOff == \E t \in Task : SafeOffDrop(t) \/ SafeOffLocked(t)

Next == MainTask \/ BmsTask \/ UartTask \/ SafeOff \/ DeadlinePasses \/ Reset

Spec == Init /\ [][Next]_vars

\* The scheduler runs every task; the mutex, free while the main task sleeps, reaches
\* each task waiting for it; time passes.
Fairness ==
    /\ WF_vars(MainTask)
    /\ \A t \in Task : WF_vars(SafeOffDrop(t)) /\ SF_vars(SafeOffLocked(t))
    /\ WF_vars(ClearMismatch \/ EndUpdateRequest)
    /\ WF_vars(DeadlinePasses)

FairSpec == Spec /\ Fairness

-----------------------------------------------------------------------------
(* Properties *)

\* Types; the two debounce counters never pass their limits (pcc.cpp, BoardIO.cpp).
TypeOK ==
    /\ active \in SUBSET Fault /\ latched \in SUBSET Fault
    /\ watchdogReset \in BOOLEAN /\ startupComplete \in BOOLEAN
    /\ hvRunning \in BOOLEAN /\ critical \in BOOLEAN
    /\ state \in {"OFF", "SELF_TEST", "PRECHARGE", "CONTACTOR_CLOSE", "RUN"}
    /\ runRequest \in BOOLEAN
    /\ prepared \in BOOLEAN /\ locked \in BOOLEAN /\ expired \in BOOLEAN
    /\ invalidSamples \in 0..InvalidSampleLimit
    /\ adcFailures \in 0..AdcFailureLimit
    /\ relay \in BOOLEAN /\ duty \in {"off", "full", "hold"}
    /\ at \in MainInLoop \cup {"Idle", "AdcHealth"}
    /\ seen \in SUBSET Refreshable
    /\ latching \in HvFault \cup {"none"}
    /\ safeOff \in [Task -> {"none", "drop", "half", "wait"}]
    /\ serving \in {"Idle", "ClearMismatch", "NotRunning", "Handoff", "Rom"}

Energized == relay \/ duty # "off"

SafeOffOwed == \E t \in Task : safeOff[t] # "none"

\* Outputs stay on under a blocking fault only while a task is on its way through
\* forceSafeOffFromFaultManager: no interleaving of the loop's permission test, the
\* acknowledgement and the fault updates leaves them on with nobody shutting them off.
FaultedOutputsAreShutOff == Energized /\ Blocking => SafeOffOwed

\* An accepted PREPARE or COMMIT holds the HV path off: outputs off, state OFF, and no
\* run request that an expiry could bring to life.
UpdateHoldsHvOff ==
    prepared \/ locked => state = "OFF" /\ ~runRequest /\ ~Energized

\* The outputs are on only in the stage that drives them, under a run request and after
\* start-up: removing the request or a fault never leaves one of the two drivers behind.
OutputsMatchStage ==
    /\ relay => state \in {"PRECHARGE", "CONTACTOR_CLOSE"}
    /\ duty = "full" => state = "CONTACTOR_CLOSE"
    /\ duty = "hold" => state \in {"CONTACTOR_CLOSE", "RUN"}
    /\ Energized => runRequest /\ startupComplete

\* A blocking fault eventually has the outputs off, whatever the other tasks do.
FaultEventuallySafe == Blocking ~> ~Energized

\* A safe-off still owed belongs to a condition that is still there, or to the loop that
\* holds the mutex: it never runs late and trips a path started after an acknowledgement.
NoStaleSafeOff ==
    SafeOffOwed => Blocking \/ (at \in MainInLoop /\ safeOff["bms"] = "none")

\* The supervisor keeps the stage order and the drives it promises: a driver is missing
\* only where a safe-off has taken it away, and that one ends in OFF with both off.
Sequence == INSTANCE HvSequence
    WITH stage <- state, request <- runRequest, tripping <- SafeOffOwed
SequenceSpec == Sequence!SSpec

\* Documentation/main.typ:671 "A blocking fault does not erase a true run request":
\* apart from a reset, only SET_RUN_REQUEST(0) takes a run request away.
FaultKeepsRunRequest ==
    [][runRequest /\ ~runRequest' => serving' = "ClearMismatch" \/ Reset]_vars

\* Documentation/protocol/uart-v1.md:726 "Its prepared state expires after 3 seconds
\* unless the Gateway sends COMMIT_STM32_BOOTLOADER".
PreparedStateEnds == prepared ~> ~prepared

\* The same, as long as the HV converter keeps delivering valid scans.
PreparedStateEndsIfSensed == SF_vars(LoopPrepared) => PreparedStateEnds
=============================================================================
