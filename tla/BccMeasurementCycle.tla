-------------------------- MODULE BccMeasurementCycle --------------------------
(***************************************************************************)
(* The transfers of SlaveController::runningLoop on a chain of two         *)
(* monitors, in their order, each with the monitor it addresses (0 for     *)
(* the master's own steps) and the registers it reads.                     *)
(***************************************************************************)
EXTENDS Naturals, Sequences

CONSTANT Period             \* BMS_MEASUREMENT_PERIOD_FACTOR (5)

Monitors == 1..2
Counts == 16                \* BCC_INC_MSG_CNTR
Oldest == Period            \* ages are not told apart from here on

-----------------------------------------------------------------------------
(* The transfers of a cycle. *)

Read(name, monitor, words) == [name |-> name, monitor |-> monitor, words |-> words]
PerMonitor(name, words) == <<Read(name, 1, words), Read(name, 2, words)>>

\* fault_GetStatus: cell over/undervoltage, balancing terminals, analog inputs,
\* then communication and the three summary registers.
StatusGroups == {"cells", "terminals", "analog", "summary"}
fault_GetStatus(monitor) ==
  <<Read("cells", monitor, 2), Read("terminals", monitor, 2), Read("analog", monitor, 2),
    Read("summary", monitor, 4), Read("clear", monitor, 0)>>

startMeasurements ==
  PerMonitor("pause", 1) \o <<Read("soc", 0, 0)>> \o PerMonitor("wait", 1)
    \o PerMonitor("resume", 1)

\* getMeasurements reads every monitor (30 registers) before it converts any.
getMeasurements == PerMonitor("raw", 30) \o PerMonitor("convert", 0)

\* The current measurement reads a live register, then the coulomb counter.
faultDetection ==
  fault_GetStatus(1) \o fault_GetStatus(2)
    \o <<Read("live", 1, 1), Read("counter", 1, 3), Read("update", 0, 0)>>

runningLoop ==
  startMeasurements \o getMeasurements \o <<Read("request", 2, 1)>> \o faultDetection
    \o PerMonitor("present", 1) \o <<Read("publish", 0, 0)>>

\* The extra transfers of a failed start: balancing is resumed on every monitor.
Recovery == PerMonitor("again", 1) \o <<Read("held", 0, 0)>>

Cycle == runningLoop \o Recovery
Find(name) == CHOOSE i \in DOMAIN Cycle : Cycle[i].name = name /\ \A j \in 1..(i - 1) : Cycle[j].name # name
RecoveryStart == Find("again")
HeldStart == Find("held")
AfterMeasurements == Find("request")

================================================================================
