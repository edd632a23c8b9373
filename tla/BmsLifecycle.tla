---------------------------- MODULE BmsLifecycle ----------------------------
(***************************************************************************)
(* The BMS task of the STM32 master (SlaveController.cpp): bringing the    *)
(* battery monitor chain up, measuring it every cycle, debouncing lost     *)
(* communication, merging fault inputs into fault bits and publishing the  *)
(* snapshot from which the inverter takes its current limits.              *)
(*                                                                         *)
(* The BMS task is cut into steps between which the main task may start or *)
(* stop high voltage and the UART task may acknowledge.  Measurements are  *)
(* abstracted to whether they succeeded; a snapshot to whether it is       *)
(* valid, fresh, carries the communication warning, and permits current.   *)
(*                                                                         *)
(* The chain is external: while it is not healthy every exchange may fail. *)
(* Nothing is exchanged during a retry delay, which is longer than the     *)
(* 1024 ms after which the monitors reset and forget their addresses.      *)
(***************************************************************************)
EXTENDS Naturals, Sequences

CONSTANTS
    SlaveCount,     \* monitors on the chain
    RetryBudget,    \* CID_INITIALIZATION_MAX_FAILURES
    TripCount,      \* kCommunicationFailureTripCount
    CounterSize,    \* the failure counters count modulo this (uint8_t: 256)
    Detectable      \* the fault inputs faultDetection may report

\* The order in which faultDetection reports them.
DetectionOrder ==
    <<"OVERCURRENT_LIMIT", "OVERVOLTAGE_LIMIT", "UNDERVOLTAGE_LIMIT", "TEMPERATURE_LIMIT",
      "OPEN_SHORT_FAULT", "IC_TEMPERATURE", "SYSTEM_FAULT">>

ASSUME CountAssumption ==
    /\ SlaveCount \in Nat \ {0} /\ TripCount \in Nat \ {0}
    /\ RetryBudget \in Nat \ {0} /\ CounterSize \in Nat /\ CounterSize > RetryBudget
ASSUME DetectableAssumption ==
    Detectable \subseteq {DetectionOrder[i] : i \in DOMAIN DetectionOrder}

VARIABLES
    currentState,
    retryDue,         \* initializationRetryNotBeforeMs has passed
    tplFailures, cidFailures, registerFailures, diagnosticsFailures,
    commFailures,     \* consecutiveCommunicationFailures
    commFault,        \* communicationFaultActive
    complete,         \* completeMeasurementSetValid
    inputs,           \* bmsFaultInputs
    \* FaultManager and PCC, as far as this task reads and writes them
    active,           \* the BMS bits active now
    latched,          \* some bit, of the BMS or of the HV side, is not acknowledged
    startupComplete,
    hv,               \* off, starting (SELF_TEST to CONTACTOR_CLOSE) or RUN
    \* publication
    publishedFresh, publishedValid,
    latest,           \* latestBatteryCanSnapshot
    held,             \* lastValidBatteryCanSnapshot, invalid while there is none
    draft,            \* the snapshot being put together
    \* where the task is
    at, good, updates,
    \* external: the monitor chain
    healthy, chain

retryVars   == <<tplFailures, cidFailures, registerFailures, diagnosticsFailures>>
faultVars   == <<inputs, active, latched, hv>>
publishVars == <<publishedFresh, publishedValid, latest, held, draft>>
chainVars   == <<healthy, chain>>
vars == <<currentState, retryDue, retryVars, commFailures, commFault, complete, faultVars,
          startupComplete, publishVars, at, good, updates, chainVars>>

-----------------------------------------------------------------------------
(* Fault inputs and fault bits *)

mapFault(input) ==
    CASE input \in {"INVALID_CONFIG"} -> "ConfigurationInvalid"
      [] input \in {"NO_CONFIG"} -> "NoConfig"
      [] input \in {"TPL_FAULT", "CID_INITIALIZATION_FAULT", "REGISTER_INITIALIZATION_FAULT"}
            -> "SlaveUnavailable"
      [] input = "CELL_BALANCING_FAULT" -> "BalancingHardwareFault"
      [] input = "DIAGNOSTICS_FAULT" -> "BccDiagnostics"
      [] input \in {"OVERVOLTAGE_LIMIT", "UNDERVOLTAGE_LIMIT"} -> "CellVoltageLimit"
      [] input \in {"TEMPERATURE_LIMIT", "IC_TEMPERATURE"} -> "ThermalLimit"
      [] input = "OVERCURRENT_LIMIT" -> "CurrentLimit"
      [] input = "COMMUNICATION_TIMEOUT" -> "BccCommunication"
      [] OTHER -> "BccIntegrity"

Mapped(set) == {mapFault(input) : input \in set}

\* FaultManager::setBmsFault: a newly active bit switches HV off before it returns.
SetBmsFault(bit, on) ==
    /\ active'  = IF on THEN active \cup {bit} ELSE active \ {bit}
    /\ latched' = (latched \/ on)
    /\ hv'      = IF on /\ bit \notin active THEN "off" ELSE hv

\* In place of the next definition (for mutation).
updateFaultAlone(input, on) ==
    /\ inputs' = IF on THEN inputs \cup {input} ELSE inputs \ {input}
    /\ SetBmsFault(mapFault(input), on)

\* Several inputs share a bit, which stays active as long as one of them is.
updateFault(input, on) ==
    /\ inputs' = IF on THEN inputs \cup {input} ELSE inputs \ {input}
    /\ SetBmsFault(mapFault(input), mapFault(input) \in Mapped(inputs'))

CanEnableHv == startupComplete /\ currentState # "CRITICAL" /\ active = {} /\ ~latched

\* In place of the next definition (for mutation).
isHVReadyUnblocked == currentState = "RUNNING" /\ publishedFresh

isHVReady == currentState = "RUNNING" /\ CanEnableHv /\ publishedFresh

-----------------------------------------------------------------------------
(* States of the task *)

NoSnapshot == [valid |-> FALSE, fresh |-> FALSE, safe |-> FALSE, comm |-> FALSE]

\* In place of the next definition (for mutation).
setStateKeepingSnapshot(s) ==
    /\ currentState' = s
    /\ complete' = (complete /\ s = "RUNNING")
    /\ commFailures' = IF s = "RUNNING" THEN commFailures ELSE 0
    /\ UNCHANGED <<publishedFresh, publishedValid, latest, held>>

\* Entering any state but RUNNING forgets every measurement and the failure count.
setState(s) ==
    /\ currentState' = s
    /\ IF s = "RUNNING"
       THEN UNCHANGED <<complete, commFailures, publishedFresh, publishedValid, latest, held>>
       ELSE /\ complete' = FALSE /\ commFailures' = 0
            /\ publishedFresh' = FALSE /\ publishedValid' = FALSE
            /\ latest' = NoSnapshot /\ held' = NoSnapshot

StayInState == UNCHANGED <<currentState, complete, commFailures, publishedFresh,
                           publishedValid, latest, held>>

At(location) == at = location /\ updates = <<>> /\ currentState # "CRITICAL"

\* A stage of the bring-up that is due.
Due(s) == At("Idle") /\ currentState = s /\ retryDue

Count(n) == (n + 1) % CounterSize

\* An exchange with the chain: certain to succeed only on a healthy, configured chain.
May(outcome, needed) ==
    IF outcome THEN chain \in needed ELSE ~healthy \/ chain \notin needed

Anything == {"lost", "assigned", "configured"}

-----------------------------------------------------------------------------
(* Bring-up *)

TplFails ==
    /\ Due("DEVICE_INITIALIZATION") /\ ~healthy
    /\ tplFailures' = Count(tplFailures)
    /\ IF tplFailures' >= RetryBudget THEN updateFault("TPL_FAULT", TRUE)
                                      ELSE UNCHANGED faultVars
    /\ retryDue' = FALSE
    /\ StayInState
    /\ UNCHANGED <<cidFailures, registerFailures, diagnosticsFailures, commFault,
                   startupComplete, draft, at, good, updates, chainVars>>

TplReady ==
    /\ Due("DEVICE_INITIALIZATION")
    /\ tplFailures' = 0
    /\ updateFault("TPL_FAULT", FALSE)
    /\ at' = "InitDevices"
    /\ StayInState
    /\ UNCHANGED <<retryDue, cidFailures, registerFailures, diagnosticsFailures, commFault,
                   startupComplete, draft, good, updates, chainVars>>

\* Monitors 1 to i - 1 have got their address, monitor i does not answer.
InitDevicesFails ==
    /\ At("InitDevices") /\ ~healthy
    /\ \E i \in 1..SlaveCount :
        /\ cidFailures' = [j \in 1..SlaveCount |->
                            IF j < i THEN 0
                            ELSE IF j = i THEN Count(cidFailures[j]) ELSE cidFailures[j]]
        /\ IF cidFailures'[i] >= RetryBudget
           THEN updateFault("CID_INITIALIZATION_FAULT", TRUE)
           ELSE UNCHANGED faultVars
    /\ retryDue' = FALSE
    /\ at' = "Idle"
    /\ chain' \in {chain, "lost"}
    /\ StayInState
    /\ UNCHANGED <<tplFailures, registerFailures, diagnosticsFailures, commFault,
                   startupComplete, draft, good, updates, healthy>>

InitDevices ==
    /\ At("InitDevices")
    /\ cidFailures' = [j \in 1..SlaveCount |-> 0]
    /\ updateFault("CID_INITIALIZATION_FAULT", FALSE)
    /\ setState("REGISTER_INITIALIZATION")
    /\ at' = "Idle"
    /\ chain' = "assigned"
    /\ UNCHANGED <<retryDue, tplFailures, registerFailures, diagnosticsFailures, commFault,
                   startupComplete, draft, good, updates, healthy>>

\* The next attempt starts in the same state: the addresses are not assigned again.
initializeRegistersFails ==
    /\ Due("REGISTER_INITIALIZATION") /\ May(FALSE, {"assigned", "configured"})
    /\ registerFailures' = Count(registerFailures)
    /\ IF registerFailures' >= RetryBudget
       THEN updateFault("REGISTER_INITIALIZATION_FAULT", TRUE)
       ELSE UNCHANGED faultVars
    /\ retryDue' = FALSE
    /\ StayInState
    /\ UNCHANGED <<tplFailures, cidFailures, diagnosticsFailures, commFault,
                   startupComplete, draft, at, good, updates, chainVars>>

initializeRegisters ==
    /\ Due("REGISTER_INITIALIZATION") /\ May(TRUE, {"assigned", "configured"})
    /\ registerFailures' = 0
    /\ updateFault("REGISTER_INITIALIZATION_FAULT", FALSE)
    /\ setState("PERFORMING_DIAGNOSTICS")
    /\ chain' = "configured"
    /\ UNCHANGED <<retryDue, tplFailures, cidFailures, diagnosticsFailures, commFault,
                   startupComplete, draft, at, good, updates, healthy>>

\* In place of the next definition (for mutation).
diagnosticsRepeat ==
    /\ Due("PERFORMING_DIAGNOSTICS") /\ May(FALSE, {"configured"})
    /\ diagnosticsFailures' = IF diagnosticsFailures < RetryBudget
                              THEN diagnosticsFailures + 1 ELSE diagnosticsFailures
    /\ updateFault("DIAGNOSTICS_FAULT", diagnosticsFailures' >= RetryBudget)
    /\ retryDue' = FALSE
    /\ StayInState
    /\ UNCHANGED <<tplFailures, cidFailures, registerFailures, commFault, startupComplete,
                   draft, at, good, updates, chainVars>>

\* The diagnostics leave modified registers behind: back to the very beginning.
diagnosticsFail ==
    /\ Due("PERFORMING_DIAGNOSTICS") /\ May(FALSE, {"configured"})
    /\ diagnosticsFailures' = IF diagnosticsFailures < RetryBudget
                              THEN diagnosticsFailures + 1 ELSE diagnosticsFailures
    /\ updateFault("DIAGNOSTICS_FAULT", diagnosticsFailures' >= RetryBudget)
    /\ setState("DEVICE_INITIALIZATION")
    /\ retryDue' = FALSE
    /\ chain' = IF chain = "configured" THEN "assigned" ELSE chain
    /\ UNCHANGED <<tplFailures, cidFailures, registerFailures, commFault, startupComplete,
                   draft, at, good, updates, healthy>>

diagnostics ==
    /\ Due("PERFORMING_DIAGNOSTICS") /\ May(TRUE, {"configured"})
    /\ diagnosticsFailures' = 0
    /\ updateFault("DIAGNOSTICS_FAULT", FALSE)
    /\ at' = "Measure"
    /\ StayInState
    /\ UNCHANGED <<retryDue, tplFailures, cidFailures, registerFailures, commFault,
                   startupComplete, draft, good, updates, chainVars>>

-----------------------------------------------------------------------------
(* A measurement cycle, at start-up and in the running loop *)

StartCycle ==
    /\ At("Idle") /\ currentState = "RUNNING"
    /\ at' = "Measure"
    /\ StayInState
    /\ UNCHANGED <<retryDue, retryVars, commFault, faultVars, startupComplete, draft, good,
                   updates, chainVars>>

\* startMeasurements and getMeasurements
Measure ==
    /\ At("Measure")
    /\ complete' \in BOOLEAN /\ May(complete', {"configured"})
    /\ at' = IF complete' THEN "Detect" ELSE "Check"
    /\ good' = FALSE
    /\ UNCHANGED <<currentState, retryDue, retryVars, commFailures, commFault, faultVars,
                   startupComplete, publishVars, updates, chainVars>>

faultDetection ==
    /\ At("Detect")
    /\ good' \in BOOLEAN /\ May(good', {"configured"})
    /\ IF good'
       THEN \E found \in SUBSET Detectable :
              updates' = [i \in DOMAIN DetectionOrder |->
                            [input |-> DetectionOrder[i], on |-> DetectionOrder[i] \in found]]
       ELSE UNCHANGED updates
    /\ at' = IF good' /\ currentState = "RUNNING" THEN "Balance" ELSE "Check"
    /\ StayInState
    /\ UNCHANGED <<retryDue, retryVars, commFault, faultVars, startupComplete, draft,
                   chainVars>>

\* The calls to updateFault that faultDetection makes, one after the other.
ReportDetected ==
    /\ updates # <<>>
    /\ updateFault(Head(updates).input, Head(updates).on)
    /\ updates' = Tail(updates)
    /\ StayInState
    /\ UNCHANGED <<retryDue, retryVars, commFault, startupComplete, draft, at, good,
                   chainVars>>

\* A failed exchange counts as lost communication; a driver mismatch is a fault instead.
performCellBalancing ==
    /\ At("Balance")
    /\ good' \in BOOLEAN /\ May(good', {"configured"})
    /\ \/ UNCHANGED faultVars
       \/ good' /\ updateFault("CELL_BALANCING_FAULT", FALSE)
       \/ good' /\ active = {} /\ ~latched /\ updateFault("CELL_BALANCING_FAULT", TRUE)
    /\ at' = "Check"
    /\ StayInState
    /\ UNCHANGED <<retryDue, retryVars, commFault, startupComplete, draft, updates,
                   chainVars>>

\* measurementsAreFresh, an acceptable fault status and every address answering.
CycleFailed(failed) ==
    IF complete /\ good THEN May(~failed, {"configured"}) ELSE failed

CheckPasses ==
    /\ At("Check") /\ CycleFailed(FALSE)
    /\ commFailures' = 0
    /\ commFault' = FALSE
    /\ updateFault("COMMUNICATION_TIMEOUT", FALSE)
    /\ at' = IF currentState = "RUNNING" THEN "Publish" ELSE "Started"
    /\ UNCHANGED <<currentState, retryDue, retryVars, complete, startupComplete,
                   publishVars, good, updates, chainVars>>

\* In place of the next definition (for mutation).
TripsNever == FALSE

\* Below the trip count a failure is a warning, and the fault input is cleared.
Trips == commFailures + 1 >= TripCount

CheckRetries ==
    /\ At("Check") /\ CycleFailed(TRUE) /\ ~Trips
    /\ commFailures' = commFailures + 1
    /\ commFault' = TRUE
    /\ updateFault("COMMUNICATION_TIMEOUT", FALSE)
    /\ at' = IF currentState = "RUNNING" THEN "Hold" ELSE "Started"
    /\ UNCHANGED <<currentState, retryDue, retryVars, complete, startupComplete,
                   publishVars, good, updates, chainVars>>

CheckTrips ==
    /\ At("Check") /\ CycleFailed(TRUE) /\ Trips
    /\ commFailures' = TripCount
    /\ commFault' = TRUE
    /\ updateFault("COMMUNICATION_TIMEOUT", TRUE)
    /\ at' = "Restart"
    /\ UNCHANGED <<currentState, retryDue, retryVars, complete, startupComplete,
                   publishVars, good, updates, chainVars>>

\* A trip after a complete measurement still publishes, in the new state.
Restart ==
    /\ At("Restart")
    /\ setState("DEVICE_INITIALIZATION")
    /\ retryDue' = TRUE
    /\ at' = IF currentState = "RUNNING" /\ complete THEN "Publish" ELSE "Idle"
    /\ UNCHANGED <<retryVars, commFault, faultVars, startupComplete, draft, good, updates,
                   chainVars>>

\* One failed check at start-up is a retry, and the BMS runs all the same.
Started ==
    /\ At("Started")
    /\ setState("RUNNING")
    /\ startupComplete' = TRUE
    /\ at' = IF commFault THEN "Hold" ELSE "Publish"
    /\ UNCHANGED <<retryDue, retryVars, commFault, faultVars, draft, good, updates,
                   chainVars>>

-----------------------------------------------------------------------------
(* Publication *)

\* publishHeldBatteryCanSnapshot: the last valid snapshot, restricted by what is known now.
Hold ==
    /\ At("Hold")
    /\ publishedFresh' = FALSE
    /\ draft' = [held EXCEPT !.fresh = FALSE, !.comm = TRUE,
                             !.safe = @ /\ currentState = "RUNNING" /\ hv = "RUN" /\ CanEnableHv]
    /\ at' = IF held.valid THEN "StoreHeld" ELSE "Idle"
    /\ UNCHANGED <<currentState, retryDue, retryVars, commFailures, commFault, complete,
                   faultVars, startupComplete, publishedValid, latest, held, good,
                   updates, chainVars>>

StoreHeld ==
    /\ At("StoreHeld")
    /\ latest' = draft
    /\ draft' = NoSnapshot
    /\ at' = "Idle"
    /\ UNCHANGED <<currentState, retryDue, retryVars, commFailures, commFault, complete,
                   faultVars, startupComplete, publishedFresh, publishedValid, held, good,
                   updates, chainVars>>

\* In place of the next definition (for mutation).
PublishByStateAlone ==
    /\ At("Publish")
    /\ \E violation \in BOOLEAN :
        /\ violation => complete /\ hv = "RUN"
        /\ draft' = [valid |-> complete /\ currentState = "RUNNING",
                     fresh |-> complete,
                     safe  |-> ~violation /\ complete /\ currentState = "RUNNING"
                                /\ hv = "RUN",
                     comm  |-> commFault]
        /\ SetBmsFault("InverterCurrentLimit", violation)
    /\ at' = "Store"
    /\ StayInState
    /\ UNCHANGED <<retryDue, retryVars, commFault, inputs, startupComplete, good, updates,
                   chainVars>>

\* publishBatteryCanSnapshot up to the inverter's compliance with its limits.
Publish ==
    /\ At("Publish")
    /\ \E violation \in BOOLEAN :
        /\ violation => complete /\ hv = "RUN"
        /\ draft' = [valid |-> complete /\ currentState = "RUNNING",
                     fresh |-> complete,
                     safe  |-> ~violation /\ complete /\ currentState = "RUNNING"
                                /\ hv = "RUN" /\ CanEnableHv,
                     comm  |-> commFault]
        /\ SetBmsFault("InverterCurrentLimit", violation)
    /\ at' = "Store"
    /\ StayInState
    /\ UNCHANGED <<retryDue, retryVars, commFault, inputs, startupComplete, good, updates,
                   chainVars>>

\* The frame is copied under a mutex with a timeout: without it the snapshot is not fresh.
Store ==
    /\ At("Store")
    /\ \E framePublished \in {draft.valid, FALSE} :
        LET snapshot == IF draft.valid /\ ~framePublished
                        THEN [draft EXCEPT !.fresh = FALSE, !.safe = FALSE] ELSE draft
        IN  /\ publishedValid' = IF draft.valid THEN publishedValid \/ framePublished ELSE FALSE
            /\ publishedFresh' = snapshot.fresh
            /\ latest' = snapshot
            /\ held' = IF snapshot.valid /\ ~snapshot.comm THEN snapshot ELSE held
    /\ draft' = NoSnapshot
    /\ at' = "Idle"
    /\ UNCHANGED <<currentState, retryDue, retryVars, commFailures, commFault, complete,
                   faultVars, startupComplete, good, updates, chainVars>>

-----------------------------------------------------------------------------
(* The other tasks, time and the chain *)

OwnFrame == UNCHANGED <<currentState, retryVars, commFailures, commFault, complete, inputs,
                        active, startupComplete, publishVars, at, good, updates>>

\* PCC leaves OFF only for a BMS that is ready; reaching RUN and stopping are its own affair.
StartHv ==
    /\ hv = "off" /\ isHVReady
    /\ hv' = "starting"
    /\ OwnFrame /\ UNCHANGED <<retryDue, latched, chainVars>>

MoveHv ==
    /\ hv # "off"
    /\ hv' \in {"off", "RUN"}
    /\ OwnFrame /\ UNCHANGED <<retryDue, latched, chainVars>>

\* A fault of the HV side, which the main task follows up with a safe-off of its own.
LatchHvFault ==
    /\ latched' = TRUE
    /\ OwnFrame /\ UNCHANGED <<retryDue, hv, chainVars>>

Acknowledge ==
    /\ currentState # "CRITICAL" /\ active = {} /\ latched
    /\ latched' = FALSE
    /\ OwnFrame /\ UNCHANGED <<retryDue, hv, chainVars>>

\* Two seconds without an exchange, unless the Companion reads registers meanwhile.
RetryDelayPasses ==
    /\ ~retryDue
    /\ retryDue' = TRUE
    /\ chain' \in {chain, "lost"}
    /\ OwnFrame /\ UNCHANGED <<latched, hv, healthy>>

ChainChanges ==
    /\ healthy' = ~healthy
    /\ chain' = chain
    /\ OwnFrame /\ UNCHANGED <<retryDue, latched, hv>>

ChainDrops ==
    /\ ~healthy /\ chain # "lost"
    /\ chain' = "lost"
    /\ OwnFrame /\ UNCHANGED <<retryDue, latched, hv, healthy>>

-----------------------------------------------------------------------------

\* setup: without a usable configuration the state is CRITICAL for the whole boot.
Init ==
    /\ \/ /\ currentState = "DEVICE_INITIALIZATION"
          /\ inputs = {} /\ active = {} /\ latched = FALSE
       \/ /\ currentState = "CRITICAL"
          /\ \E input \in {"NO_CONFIG", "INVALID_CONFIG"} :
                inputs = {input} /\ active = {mapFault(input)}
          /\ latched = TRUE
    /\ retryDue = TRUE
    /\ tplFailures = 0 /\ cidFailures = [i \in 1..SlaveCount |-> 0]
    /\ registerFailures = 0 /\ diagnosticsFailures = 0
    /\ commFailures = 0 /\ commFault = FALSE /\ complete = FALSE
    /\ startupComplete = FALSE /\ hv = "off"
    /\ publishedFresh = FALSE /\ publishedValid = FALSE
    /\ latest = NoSnapshot /\ held = NoSnapshot /\ draft = NoSnapshot
    /\ at = "Idle" /\ good = FALSE /\ updates = <<>>
    /\ healthy \in BOOLEAN /\ chain \in Anything

BringUp ==
    \/ TplFails \/ TplReady \/ InitDevicesFails \/ InitDevices
    \/ initializeRegistersFails \/ initializeRegisters
    \/ diagnosticsFail \/ diagnostics

Cycle ==
    \/ StartCycle \/ Measure \/ faultDetection \/ ReportDetected \/ performCellBalancing
    \/ CheckPasses \/ CheckRetries \/ CheckTrips \/ Restart \/ Started
    \/ Hold \/ StoreHeld \/ Publish \/ Store

BmsTask == BringUp \/ Cycle

Environment ==
    \/ StartHv \/ MoveHv \/ LatchHvFault \/ Acknowledge
    \/ RetryDelayPasses \/ ChainChanges \/ ChainDrops

Next == BmsTask \/ Environment

Spec == Init /\ [][Next]_vars

\* The scheduler runs the BMS task, and the retry delay ends.
FairSpec == Spec /\ WF_vars(BmsTask) /\ WF_vars(RetryDelayPasses)

-----------------------------------------------------------------------------
(* Properties *)

Snapshot == [valid : BOOLEAN, fresh : BOOLEAN, safe : BOOLEAN, comm : BOOLEAN]

Inputs == Detectable \cup {"TPL_FAULT", "CID_INITIALIZATION_FAULT",
    "REGISTER_INITIALIZATION_FAULT", "DIAGNOSTICS_FAULT", "CELL_BALANCING_FAULT",
    "COMMUNICATION_TIMEOUT", "INVALID_CONFIG", "NO_CONFIG"}
Bits == Mapped(Inputs) \cup {"InverterCurrentLimit"}

\* Types; the communication counter never passes the trip count (SlaveController.cpp).
TypeOK ==
    /\ currentState \in {"DEVICE_INITIALIZATION", "REGISTER_INITIALIZATION",
                         "PERFORMING_DIAGNOSTICS", "RUNNING", "CRITICAL"}
    /\ retryDue \in BOOLEAN
    /\ tplFailures \in 0..CounterSize - 1 /\ registerFailures \in 0..CounterSize - 1
    /\ cidFailures \in [1..SlaveCount -> 0..CounterSize - 1]
    /\ diagnosticsFailures \in 0..RetryBudget
    /\ commFailures \in 0..TripCount
    /\ commFault \in BOOLEAN /\ complete \in BOOLEAN
    /\ inputs \subseteq Inputs /\ active \subseteq Bits /\ latched \in BOOLEAN
    /\ startupComplete \in BOOLEAN /\ hv \in {"off", "starting", "RUN"}
    /\ publishedFresh \in BOOLEAN /\ publishedValid \in BOOLEAN
    /\ latest \in Snapshot /\ held \in Snapshot /\ draft \in Snapshot
    /\ at \in {"Idle", "InitDevices", "Measure", "Detect", "Balance", "Check", "Restart",
               "Started", "Hold", "StoreHeld", "Publish", "Store"}
    /\ good \in BOOLEAN
    /\ healthy \in BOOLEAN /\ chain \in Anything

\* A fault bit is active exactly while one of the inputs that share it is: no update of
\* one input hides or invents another's (the inverter's limit has no input).
BitsMatchInputs == active \ {"InverterCurrentLimit"} = Mapped(inputs)

\* High voltage is never started or kept on a BMS that has a fault, restarts or is not
\* measuring: whatever ends RUNNING has switched HV off first.
HvOnlyOnRunningBms ==
    hv # "off" => currentState = "RUNNING" /\ startupComplete /\ active = {}

\* The snapshots tell the truth.  The inverter's stays valid only in RUNNING and below
\* the trip count, and says whether it is held: the warning is in it exactly when the
\* last check failed.  Between two cycles, measurements published as fresh belong to a
\* passed check and to the valid frame and snapshot that were published with them.
SnapshotsTellTheTruth ==
    /\ latest.valid =>
          /\ currentState = "RUNNING"
          /\ at = "Idle" => commFailures < TripCount
                          /\ latest.comm = (commFailures > 0)
    /\ publishedFresh /\ at = "Idle" =>
          /\ currentState = "RUNNING" /\ complete /\ commFailures = 0
          /\ publishedValid /\ latest.valid /\ latest.fresh

\* A fault that lasts takes the inverter's permission away for good, however the chain,
\* the retries and the mutex behave.
LastingFaultStopsInverter ==
    <>[](active # {} \/ latched) => <>[](~latest.safe)

\* The address of a monitor is lost while register initialization waits to be retried.
StuckInRegisters == currentState = "REGISTER_INITIALIZATION" /\ chain = "lost"

\* A chain that answers from some time on ends up measured without a communication
\* fault, unless it was lost in the middle of register initialization.
HealthyChainRuns ==
    <>[]healthy =>
        <>[](\/ currentState = "RUNNING" /\ "COMMUNICATION_TIMEOUT" \notin inputs
            \/ currentState = "CRITICAL"
            \/ StuckInRegisters)

\* Documentation/protocol/uart-v1.md:522-525 "register-initialisation ... attempts ...
\* report and clear through these ordinary ERROR semantics": with a chain that answers
\* again the input is cleared.
RegisterFaultClears ==
    <>[]healthy => ("REGISTER_INITIALIZATION_FAULT" \in inputs ~>
                    "REGISTER_INITIALIZATION_FAULT" \notin inputs)

\* Documentation/protocol/uart-v1.md:528-531 "A successful complete measurement and
\* fault-status cycle deasserts the active communication error".
CommunicationFaultClearsOnGoodCycle ==
    [][ "COMMUNICATION_TIMEOUT" \in inputs \ inputs' => complete /\ good ]_vars
=============================================================================
