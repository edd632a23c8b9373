------------------------------- MODULE MCTasks -------------------------------
(***************************************************************************)
(* Parts whose difficulty is how two tasks, a task and an interrupt, or a  *)
(* task and a device fall into step.  Of the master: balancing, the        *)
(* diagnostics and the measuring cycle of the monitors, the current limits *)
(* that result, the UART service and its framing, the ADC scan and the     *)
(* watchdog.  Of the gateway: its Wi-Fi.                                   *)
(*                                                                         *)
(* They share no state, and what each assumes of the others is in its      *)
(* module.  They are explored side by side, one of them in a behaviour,    *)
(* while the others rest in an initial state.                              *)
(***************************************************************************)
EXTENDS CellBalancing

CONSTANTS Fallbacks, MaxEvents, MaxScans,   \* WifiManager
          Programs,                         \* BccDiagnostics
          Period,                           \* BccMeasurement
          MaxLimit, DwellS                  \* CurrentLimits

ASSUME WifiAssumption == MaxEvents \in Nat \ {0} /\ MaxScans \in Nat
\* The dwell (5 s) outlasts the period of the inverter's frames (1 s).
ASSUME LimitsAssumption == MaxLimit \in Nat \ {0} /\ DwellS \in Nat /\ DwellS > 1
ASSUME MeasurementAssumption == Period \in Nat \ {0}

VARIABLES
    explored,   \* the part that runs
    \* BccDiagnostics
    device, stage, regs, addressed, sampled, saved, timers, failed,
    diagnosticsPc,
    \* BccMeasurement
    due, complete, lag, raw, working, watched, combined, disturbed, transfer,
    monitorFault,
    \* CurrentLimits
    serving, hv, limitFault, failedInARow, published, updated, coldStopped,
    inhibited, guard, snapshot, lastValid, outgoing, sinceSent, violatedFor,
    chain, toldMeanwhile, warmed, stoppedFor, unslewed,
    \* BmsUart
    rxQueue, timer, usbTimer, registerRequest, registerBusy,
    registerResponse, reading, update, ticket, sent, pendingRegisterRead,
    \* UartFraming
    noise, next, uart, usb, gateway, companion, missed,
    \* AdcScan
    stopped, samples, sinceScan, fresh, attempt, moves, copied, values,
    result, sinceCheck, failures, adcPc, timeRead, adcFault,
    \* MasterSupervision
    hung, main, bcc, mainIdle, bccIdle, pccNew, bccNew, pccZero, bccZero,
    seen, later, sincePcc, overtaken, stalledSources, monitoringStarted,
    sinceRefresh, watchdogRecord, breadcrumb, report, culprit,
    \* WifiManager
    configured, accessPoint, retry, resetFailed, candidate, scan, elapsed,
    mdns, refresh, http, station, driverScan, events, wifiState, authFailed,
    wifiMain

Driver == INSTANCE BccDiagnosticPrograms
DriverPrograms == Driver!DriverPrograms

ASSUME ProgramsAssumption == Programs = DriverPrograms

Diagnostics == INSTANCE BccDiagnostics
    WITH pc <- diagnosticsPc
Measurement == INSTANCE BccMeasurement
    WITH at <- transfer, fault <- monitorFault
Limits == INSTANCE CurrentLimits
    WITH running <- serving, fault <- limitFault, failures <- failedInARow
Uart == INSTANCE BmsUart
    WITH pending <- pendingRegisterRead
Framing == INSTANCE UartFraming
Adc == INSTANCE AdcScan
    WITH pc <- adcPc, sampled <- timeRead, fault <- adcFault
Supervision == INSTANCE MasterSupervision
Wifi == INSTANCE WifiManager
    WITH state <- wifiState, failed <- authFailed, main <- wifiMain

diagnosticsVars == <<device, stage, regs, addressed, sampled, saved, timers,
                     failed, diagnosticsPc>>
measurementVars == <<due, complete, lag, raw, working, watched, combined,
                     disturbed, transfer, monitorFault>>
limitsVars == <<serving, hv, limitFault, failedInARow, published, updated,
                coldStopped, inhibited, guard, snapshot, lastValid, outgoing,
                sinceSent, violatedFor, chain, toldMeanwhile, warmed,
                stoppedFor, unslewed>>
uartVars == <<rxQueue, timer, usbTimer, registerRequest, registerBusy,
              registerResponse, reading, update, ticket, sent,
              pendingRegisterRead>>
framingVars == <<noise, next, uart, usb, gateway, companion, missed>>
adcVars == <<stopped, samples, sinceScan, fresh, attempt, moves, copied,
             values, result, sinceCheck, failures, adcPc, timeRead, adcFault>>
supervisionVars == <<hung, main, bcc, mainIdle, bccIdle, pccNew, bccNew,
                     pccZero, bccZero, seen, later, sincePcc, overtaken,
                     stalledSources, monitoringStarted, sinceRefresh,
                     watchdogRecord, breadcrumb, report, culprit>>
wifiVars == <<configured, accessPoint, retry, resetFailed, candidate, scan,
              elapsed, mdns, refresh, http, station, driverScan, events,
              wifiState, authFailed, wifiMain>>

allVars == <<explored, vars, diagnosticsVars, measurementVars, limitsVars,
             uartVars, framingVars, adcVars, supervisionVars, wifiVars>>

AllInit ==
    /\ explored \in {"balancing", "diagnostics", "measurement", "limits",
                     "uart", "framing", "adc", "supervision", "wifi"}
    /\ Init
    /\ explored # "balancing" =>
          /\ \A s \in Slaves : ~driver[s] /\ chan[s] = {} /\ ~paused[s]
          /\ ~expired /\ permitted
    /\ Diagnostics!Init
    /\ explored # "diagnostics" => device = CHOOSE d \in Diagnostics!Devices : TRUE
    /\ Measurement!Init
    /\ explored # "measurement" =>
          lag = [i \in Measurement!Monitors |-> 0] /\ watched[1] = 1
    /\ Adc!Init
    /\ explored # "adc" => \A c \in Adc!Channels : samples[c].ok
    /\ Wifi!Init
    /\ explored # "wifi" => configured /\ station = "idle"
    /\ Limits!Init /\ Uart!Init /\ Framing!Init /\ Supervision!Init

AllNext ==
    /\ UNCHANGED explored
    /\ \/ /\ explored = "balancing" /\ Next
          /\ UNCHANGED <<diagnosticsVars, measurementVars, limitsVars,
                         uartVars, framingVars, adcVars, supervisionVars,
                         wifiVars>>
       \/ /\ explored = "diagnostics" /\ Diagnostics!Next
          /\ UNCHANGED <<vars, measurementVars, limitsVars, uartVars,
                         framingVars, adcVars, supervisionVars, wifiVars>>
       \/ /\ explored = "measurement" /\ Measurement!Next
          /\ UNCHANGED <<vars, diagnosticsVars, limitsVars, uartVars,
                         framingVars, adcVars, supervisionVars, wifiVars>>
       \/ /\ explored = "limits" /\ Limits!Next
          /\ UNCHANGED <<vars, diagnosticsVars, measurementVars, uartVars,
                         framingVars, adcVars, supervisionVars, wifiVars>>
       \/ /\ explored = "uart" /\ Uart!Next
          /\ UNCHANGED <<vars, diagnosticsVars, measurementVars, limitsVars,
                         framingVars, adcVars, supervisionVars, wifiVars>>
       \/ /\ explored = "framing" /\ Framing!Next
          /\ UNCHANGED <<vars, diagnosticsVars, measurementVars, limitsVars,
                         uartVars, adcVars, supervisionVars, wifiVars>>
       \/ /\ explored = "adc" /\ Adc!Next
          /\ UNCHANGED <<vars, diagnosticsVars, measurementVars, limitsVars,
                         uartVars, framingVars, supervisionVars, wifiVars>>
       \/ /\ explored = "supervision" /\ Supervision!Next
          /\ UNCHANGED <<vars, diagnosticsVars, measurementVars, limitsVars,
                         uartVars, framingVars, adcVars, wifiVars>>
       \/ /\ explored = "wifi" /\ Wifi!Next
          /\ UNCHANGED <<vars, diagnosticsVars, measurementVars, limitsVars,
                         uartVars, framingVars, adcVars, supervisionVars>>

AllSpec == AllInit /\ [][AllNext]_allVars

-----------------------------------------------------------------------------
\* Type correctness of the parts.
AllTypeOK ==
    CASE explored = "balancing" -> TypeOK
      [] explored = "diagnostics" -> Diagnostics!TypeOK
      [] explored = "measurement" -> Measurement!TypeOK
      [] explored = "limits" -> Limits!TypeOK
      [] explored = "uart" -> Uart!TypeOK
      [] explored = "framing" -> Framing!TypeOK
      [] explored = "adc" -> Adc!TypeOK
      [] explored = "supervision" -> Supervision!TypeOK
      [] explored = "wifi" -> Wifi!TypeOK

\* The diagnostics of a monitor are conclusive and leave no trace: what they move
\* is masked while it is moved, and RUNNING starts with the registers as the
\* initialisation set them, on a monitor none of whose parts is faulty.
DiagnosticsAreSound ==
    explored = "diagnostics" =>
        /\ Diagnostics!CleanWhenRunning
        /\ Diagnostics!ManipulatedIsMasked
        /\ Diagnostics!VerdictsAreSound

\* A measuring cycle over a line that loses and damages answers publishes only
\* frames of one conversion, reports every lasting fault, and recovers its
\* message counting within a cycle.
MeasurementsAreWhole ==
    [][explored = "measurement" =>
        /\ Measurement!FreshFrameIsWhole
        /\ Measurement!LinkHeals
        /\ Measurement!LastingFaultIsReported]_allVars

\* A current is offered only after the temperature has recovered, and only as much
\* as it has had seconds to recover; the guard trips when the inverter takes more
\* for the dwell time, and not before.
LimitsHold ==
    /\ [](explored = "limits" => Limits!OfferNeedsRecovery /\ Limits!RecoveryIsGradual)
    /\ [][explored = "limits" =>
           Limits!TripsOnlyAfterDwell /\ Limits!SustainedViolationTrips]_allVars

\* A register read is answered with what was read for it, never with the late answer
\* to a read that was given up; and after any noise the four frame decoders find the
\* next frame, within what a false header can swallow.
UartHolds ==
    /\ explored = "uart" => Uart!ReadsGetTheirOwnAnswer
    /\ explored = "framing" =>
          Framing!Resynchronises /\ Framing!CompanionLosesNothing

\* HV decisions rest on the samples of one scan, and a converter that stops is
\* reported as a fault.
ScanIsTrusted ==
    explored = "adc" => Adc!SamplesOfOneScan /\ Adc!StoppedScanIsReported

\* The watchdog resets a master one of whose tasks stands still, only then, and
\* the next boot reports which.
SupervisionHolds ==
    explored = "supervision" =>
        /\ Supervision!RunningIsNotReset
        /\ Supervision!HungIsReset
        /\ Supervision!ReportNamesTheCulprit

\* The gateway serves only over a link it has, goes on trying to get one while it
\* has none, and does not start its recovery period twice.
WifiHolds ==
    explored = "wifi" =>
        /\ Wifi!ConnectedHasAddress
        /\ Wifi!MdnsFollowsTheLink
        /\ Wifi!AttemptsGoOn
        /\ Wifi!RecoveryIsNotRestarted

=============================================================================
