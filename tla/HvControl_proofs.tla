-------------------------- MODULE HvControl_proofs --------------------------
(***************************************************************************)
(* Proofs about HvControl for every set of BMS fault bits and all limits.  *)
(*                                                                         *)
(* The properties are not inductive: that a fault leaves nobody's outputs  *)
(* on depends on where the main task is (a permission tested a step ago),  *)
(* on which stages a run request supports, and on who may clear which      *)
(* fault bit; that a driver is missing only during a trip depends on what  *)
(* the writes before the missing one have left.  IInv adds those facts.    *)
(***************************************************************************)
EXTENDS HvControl, TLAPS

\* A stage beyond OFF has a run request and a completed start-up behind it.
StageSupported == state # "OFF" => runRequest /\ startupComplete

\* Between the permission test and startPrecharge, and between the two writes of a
\* stage, the main task shuts nothing off and nobody else changes the stage.
EnergizeJustified ==
    /\ at = "Energize" => state = "SELF_TEST"
    /\ at = "Close" => state = "PRECHARGE"
    /\ at = "PullIn" => state = "CONTACTOR_CLOSE" /\ duty # "hold"
    /\ at \in {"Energize", "Close", "PullIn"} => safeOff["main"] = "none"

\* A stage with its drive whole.
Whole(s, r, d) ==
    /\ s \in {"OFF", "SELF_TEST"} => ~r /\ d = "off"
    /\ s = "PRECHARGE" => r /\ d = "off"
    /\ s = "CONTACTOR_CLOSE" => d = (IF r THEN "full" ELSE "hold")
    /\ s = "RUN" => ~r /\ d = "hold"

\* The drives are whole while nobody shuts off; relay and hold duty exclude each other.
DriveIsWhole ==
    /\ ~(relay /\ duty = "hold")
    /\ ~SafeOffOwed => Whole(state, relay, duty)

\* A stage that drives outputs, or is about to, is being shut off once a fault blocks.
DrivingStageIsShutOff ==
    (state \in {"PRECHARGE", "CONTACTOR_CLOSE", "RUN"} \/ at = "Energize") /\ Blocking
        => SafeOffOwed

\* Who owes a safe-off, and the condition it is owed for.
OwedForACondition ==
    /\ safeOff["uart"] = "none"
    /\ safeOff["bms"] # "none" => active \cap BmsFault # {}
    /\ safeOff["main"] # "none" /\ at \notin MainInLoop =>
          at = "Idle" /\ "AdcFault" \in active

UpdateReleased == prepared \/ locked => state = "OFF" /\ ~runRequest

IInv ==
    /\ TypeOK
    /\ OutputsMatchStage
    /\ StageSupported
    /\ EnergizeJustified
    /\ DriveIsWhole
    /\ DrivingStageIsShutOff
    /\ OwedForACondition
    /\ UpdateReleased

-----------------------------------------------------------------------------


(* Type correctness *)

\* The variables only a fault update or a safe-off touches, and the others.
FaultTypes ==
    /\ active \in SUBSET Fault /\ latched \in SUBSET Fault
    /\ safeOff \in [Task -> {"none", "drop", "half", "wait"}]

FlagTypes ==
    /\ watchdogReset \in BOOLEAN /\ startupComplete \in BOOLEAN
    /\ hvRunning \in BOOLEAN /\ critical \in BOOLEAN
    /\ runRequest \in BOOLEAN
    /\ prepared \in BOOLEAN /\ locked \in BOOLEAN /\ expired \in BOOLEAN
    /\ relay \in BOOLEAN

OtherTypes ==
    /\ state \in {"OFF", "SELF_TEST", "PRECHARGE", "CONTACTOR_CLOSE", "RUN"}
    /\ invalidSamples \in 0..InvalidSampleLimit
    /\ adcFailures \in 0..AdcFailureLimit
    /\ duty \in {"off", "full", "hold"}
    /\ at \in MainInLoop \cup {"Idle", "AdcHealth"}
    /\ seen \in SUBSET Refreshable
    /\ latching \in HvFault \cup {"none"}
    /\ serving \in {"Idle", "ClearMismatch", "NotRunning", "Handoff", "Rom"}

\* The type invariant in the three parts the proofs of it use.
LEMMA TypeParts == TypeOK <=> FaultTypes /\ FlagTypes /\ OtherTypes
  BY DEF TypeOK, FaultTypes, FlagTypes, OtherTypes

\* The faults the actions name are fault bits.
LEMMA FaultNames ==
    /\ BmsFault \subseteq Fault /\ HvFault \subseteq Fault /\ "AdcFault" \in Fault
    /\ Refreshable \subseteq HvFault /\ Implausible \subseteq HvFault
    /\ {"PrechargeTimeout", "PrechargeVoltageLost", "ContactorVoltageLost"} \subseteq HvFault
    /\ {"SensorDiagnostic", "BatteryVoltageMismatch", "LoadSideEnergized"} \subseteq HvFault
  BY DEF Fault, HvFault, Refreshable, Implausible

\* The steps of PCC::loop that hold the mutex, and the two that do not.
LEMMA LoopLocations ==
    /\ "RefreshSensor" \in MainInLoop /\ "RefreshMismatch" \in MainInLoop
    /\ "RefreshLoad" \in MainInLoop /\ "Dispatch" \in MainInLoop
    /\ "Energize" \in MainInLoop /\ "Unlatch" \in MainInLoop /\ "Lost" \in MainInLoop
    /\ "Close" \in MainInLoop /\ "PullIn" \in MainInLoop
    /\ "Publish" \in MainInLoop /\ "LeaveInvalid" \in MainInLoop
    /\ "Idle" \notin MainInLoop /\ "AdcHealth" \notin MainInLoop
  BY DEF MainInLoop

\* A fault update keeps the fault bits and the positions of the tasks in their types.
LEMMA UpdateErrorType ==
    ASSUME FaultTypes, NEW t \in Task, NEW fault \in Fault, NEW on \in BOOLEAN,
           UpdateError(t, fault, on)
    PROVE  FaultTypes'
  BY DEF FaultTypes, UpdateError

\* A saturating counter stays below its limit.
LEMMA CountFailureType ==
    ASSUME NEW limit \in Nat, NEW n \in 0..limit
    PROVE  CountFailure(n, limit) \in 0..limit
  BY DEF CountFailure

\* The state setup leaves is well typed.
LEMMA InitTypeOK == Init => TypeOK
  <1> SUFFICES ASSUME Init PROVE TypeOK
    OBVIOUS
  <1>1. active \in SUBSET Fault /\ latched \in SUBSET Fault /\ critical \in BOOLEAN
    BY DEF Init, Boot, Fault
  <1>2. invalidSamples \in 0..InvalidSampleLimit /\ adcFailures \in 0..AdcFailureLimit
    BY LimitAssumption DEF Init
  <1> QED
    BY <1>1, <1>2 DEF Init, TypeOK

\* A reset leaves a well typed state.
LEMMA ResetTypeOK == Reset => TypeOK'
  <1> SUFFICES ASSUME Reset PROVE TypeOK'
    OBVIOUS
  <1>1. (active \in SUBSET Fault /\ latched \in SUBSET Fault /\ critical \in BOOLEAN)'
    BY DEF Reset, Boot, Fault
  <1>2. (invalidSamples \in 0..InvalidSampleLimit /\ adcFailures \in 0..AdcFailureLimit)'
    BY LimitAssumption DEF Reset
  <1>3. (relay \in BOOLEAN /\ duty \in {"off", "full", "hold"})'
    BY DEF Reset, DisableOutputs
  <1> QED
    BY <1>1, <1>2, <1>3 DEF Reset, TypeOK

\* The steps of PCC::loop keep every variable in its type.
LEMMA PccLoopTypeOK ==
    ASSUME TypeOK, PccLoop
    PROVE  TypeOK'
  <1> FaultTypes /\ FlagTypes /\ OtherTypes
    BY TypeParts
  <1> USE DEF faultVars, statusVars, updateVars, outputVars, mainVars
  <1>1. CASE LoopInvalid
    <2>1. FaultTypes'
      BY UpdateErrorType, FaultNames, <1>1 DEF LoopInvalid, DisableOutputs, FaultTypes,
         OtherTypes, Task
    <2>2. OtherTypes'
      BY CountFailureType, LimitAssumption, LoopLocations, <1>1 DEF LoopInvalid,
         DisableOutputs, OtherTypes
    <2>3. FlagTypes'
      BY <1>1 DEF LoopInvalid, DisableOutputs, FlagTypes
    <2> QED
      BY <2>1, <2>2, <2>3 DEF TypeOK, FaultTypes, FlagTypes, OtherTypes
  <1>2. CASE LeaveInvalid
    <2>1. FaultTypes'
      BY <1>2 DEF LeaveInvalid, FaultTypes
    <2>2. OtherTypes'
      BY LoopLocations, <1>2 DEF LeaveInvalid, OtherTypes
    <2>3. FlagTypes'
      BY <1>2 DEF LeaveInvalid, FlagTypes
    <2> QED
      BY <2>1, <2>2, <2>3 DEF TypeOK, FaultTypes, FlagTypes, OtherTypes
  <1>3. CASE LoopLocked
    <2>1. FaultTypes'
      BY <1>3 DEF LoopLocked, DisableOutputs, FaultTypes
    <2>2. OtherTypes'
      BY CountFailureType, LimitAssumption, LoopLocations, <1>3 DEF LoopLocked,
         DisableOutputs, OtherTypes
    <2>3. FlagTypes'
      BY <1>3 DEF LoopLocked, DisableOutputs, FlagTypes
    <2> QED
      BY <2>1, <2>2, <2>3 DEF TypeOK, FaultTypes, FlagTypes, OtherTypes
  <1>4. CASE LoopPrepared
    <2>1. FaultTypes'
      BY <1>4 DEF LoopPrepared, DisableOutputs, StillPrepared, FaultTypes
    <2>2. OtherTypes'
      BY CountFailureType, LimitAssumption, LoopLocations, <1>4 DEF LoopPrepared,
         DisableOutputs, StillPrepared, OtherTypes
    <2>3. FlagTypes'
      BY <1>4 DEF LoopPrepared, DisableOutputs, StillPrepared, FlagTypes
    <2> QED
      BY <2>1, <2>2, <2>3 DEF TypeOK, FaultTypes, FlagTypes, OtherTypes
  <1>5. CASE LoopRefresh
    <2>1. FaultTypes'
      BY UpdateErrorType, FaultNames, <1>5 DEF LoopRefresh, FaultTypes, OtherTypes, Task
    <2>2. OtherTypes'
      BY CountFailureType, LimitAssumption, LoopLocations, <1>5 DEF LoopRefresh, OtherTypes
    <2>3. FlagTypes'
      BY <1>5 DEF LoopRefresh, FlagTypes
    <2> QED
      BY <2>1, <2>2, <2>3 DEF TypeOK, FaultTypes, FlagTypes, OtherTypes
  <1>6. CASE RefreshSensor
    <2>1. FaultTypes'
      BY UpdateErrorType, FaultNames, <1>6 DEF RefreshSensor, Refresh, FaultTypes,
         OtherTypes, Task
    <2>2. OtherTypes'
      BY LoopLocations, <1>6 DEF RefreshSensor, Refresh, OtherTypes
    <2>3. FlagTypes'
      BY <1>6 DEF RefreshSensor, Refresh, FlagTypes
    <2> QED
      BY <2>1, <2>2, <2>3 DEF TypeOK, FaultTypes, FlagTypes, OtherTypes
  <1>7. CASE RefreshMismatch
    <2>1. FaultTypes'
      BY UpdateErrorType, FaultNames, <1>7 DEF RefreshMismatch, Refresh, FaultTypes,
         OtherTypes, Task
    <2>2. OtherTypes'
      BY LoopLocations, <1>7 DEF RefreshMismatch, Refresh, OtherTypes
    <2>3. FlagTypes'
      BY <1>7 DEF RefreshMismatch, Refresh, FlagTypes
    <2> QED
      BY <2>1, <2>2, <2>3 DEF TypeOK, FaultTypes, FlagTypes, OtherTypes
  <1>8. CASE RefreshLoad
    <2>1. FaultTypes'
      BY UpdateErrorType, FaultNames, <1>8 DEF RefreshLoad, Refresh, FaultTypes, OtherTypes,
         Task
    <2>2. OtherTypes'
      BY LoopLocations, <1>8 DEF RefreshLoad, Refresh, OtherTypes
    <2>3. FlagTypes'
      BY <1>8 DEF RefreshLoad, Refresh, FlagTypes
    <2> QED
      BY <2>1, <2>2, <2>3 DEF TypeOK, FaultTypes, FlagTypes, OtherTypes
  <1>9. CASE HandleOff
    <2>1. FaultTypes'
      BY <1>9 DEF HandleOff, DisableOutputs, HandlerFrame, NoFault, FaultTypes
    <2>2. OtherTypes'
      BY LoopLocations, <1>9 DEF HandleOff, DisableOutputs, HandlerFrame, NoFault,
         OtherTypes
    <2>3. FlagTypes'
      BY <1>9 DEF HandleOff, DisableOutputs, HandlerFrame, NoFault, FlagTypes
    <2> QED
      BY <2>1, <2>2, <2>3 DEF TypeOK, FaultTypes, FlagTypes, OtherTypes
  <1>10. CASE SelfTestNotReady
    <2>1. FaultTypes'
      BY <1>10 DEF SelfTestNotReady, DisableOutputs, HandlerFrame, NoFault, FaultTypes
    <2>2. OtherTypes'
      BY LoopLocations, <1>10 DEF SelfTestNotReady, DisableOutputs, HandlerFrame, NoFault,
         OtherTypes
    <2>3. FlagTypes'
      BY <1>10 DEF SelfTestNotReady, DisableOutputs, HandlerFrame, NoFault, FlagTypes
    <2> QED
      BY <2>1, <2>2, <2>3 DEF TypeOK, FaultTypes, FlagTypes, OtherTypes
  <1>11. CASE SelfTestFails
    <2>1. FaultTypes'
      BY UpdateErrorType, FaultNames, <1>11 DEF SelfTestFails, DisableOutputs, HandlerFrame,
         LatchActive, FaultTypes, OtherTypes, Task
    <2>2. OtherTypes'
      BY LoopLocations, <1>11 DEF SelfTestFails, DisableOutputs, HandlerFrame, LatchActive,
         OtherTypes
    <2>3. FlagTypes'
      BY <1>11 DEF SelfTestFails, DisableOutputs, HandlerFrame, LatchActive, FlagTypes
    <2> QED
      BY <2>1, <2>2, <2>3 DEF TypeOK, FaultTypes, FlagTypes, OtherTypes
  <1>12. CASE SelfTestPasses
    <2>1. FaultTypes'
      BY <1>12 DEF SelfTestPasses, DisableOutputs, HandlerFrame, NoFault, FaultTypes
    <2>2. OtherTypes'
      BY LoopLocations, <1>12 DEF SelfTestPasses, DisableOutputs, HandlerFrame, NoFault,
         OtherTypes
    <2>3. FlagTypes'
      BY <1>12 DEF SelfTestPasses, DisableOutputs, HandlerFrame, NoFault, FlagTypes
    <2> QED
      BY <2>1, <2>2, <2>3 DEF TypeOK, FaultTypes, FlagTypes, OtherTypes
  <1>13. CASE StartPrecharge
    <2>1. FaultTypes'
      BY <1>13 DEF StartPrecharge, HandlerFrame, NoFault, FaultTypes
    <2>2. OtherTypes'
      BY LoopLocations, <1>13 DEF StartPrecharge, HandlerFrame, NoFault, OtherTypes
    <2>3. FlagTypes'
      BY <1>13 DEF StartPrecharge, HandlerFrame, NoFault, FlagTypes
    <2> QED
      BY <2>1, <2>2, <2>3 DEF TypeOK, FaultTypes, FlagTypes, OtherTypes
  <1>14. CASE HandlePrecharge
    <2>1. FaultTypes'
      BY UpdateErrorType, FaultNames, <1>14 DEF HandlePrecharge, HandlerFrame, NoFault,
         LatchActive, LatchPulse, FaultTypes, OtherTypes, Task
    <2>2. OtherTypes'
      BY FaultNames, LoopLocations, <1>14 DEF HandlePrecharge, HandlerFrame, NoFault,
         LatchActive, LatchPulse, OtherTypes
    <2>3. FlagTypes'
      BY <1>14 DEF HandlePrecharge, HandlerFrame, NoFault, LatchActive, LatchPulse,
         FlagTypes
    <2> QED
      BY <2>1, <2>2, <2>3 DEF TypeOK, FaultTypes, FlagTypes, OtherTypes
  <1>15. CASE HandleContactorClose
    <2>1. FaultTypes'
      BY UpdateErrorType, FaultNames, <1>15 DEF HandleContactorClose, HandlerFrame, NoFault,
         LatchActive, LatchPulse, FaultTypes, OtherTypes, Task
    <2>2. OtherTypes'
      BY FaultNames, LoopLocations, <1>15 DEF HandleContactorClose, HandlerFrame, NoFault,
         LatchActive, LatchPulse, OtherTypes
    <2>3. FlagTypes'
      BY <1>15 DEF HandleContactorClose, HandlerFrame, NoFault, LatchActive, LatchPulse,
         FlagTypes
    <2> QED
      BY <2>1, <2>2, <2>3 DEF TypeOK, FaultTypes, FlagTypes, OtherTypes
  <1>16. CASE HandleRun
    <2>1. FaultTypes'
      BY UpdateErrorType, FaultNames, <1>16 DEF HandleRun, HandlerFrame, NoFault,
         LatchActive, LatchPulse, FaultTypes, OtherTypes, Task
    <2>2. OtherTypes'
      BY FaultNames, LoopLocations, <1>16 DEF HandleRun, HandlerFrame, NoFault, LatchActive,
         LatchPulse, OtherTypes
    <2>3. FlagTypes'
      BY <1>16 DEF HandleRun, HandlerFrame, NoFault, LatchActive, LatchPulse, FlagTypes
    <2> QED
      BY <2>1, <2>2, <2>3 DEF TypeOK, FaultTypes, FlagTypes, OtherTypes
  <1>17. CASE Lost
    <2>1. FaultTypes'
      BY UpdateErrorType, FaultNames, <1>17 DEF Lost, HandlerFrame, NoFault, LatchPulse,
         FaultTypes, OtherTypes, Task
    <2>2. OtherTypes'
      BY FaultNames, LoopLocations, <1>17 DEF Lost, HandlerFrame, NoFault, LatchPulse,
         OtherTypes
    <2>3. FlagTypes'
      BY <1>17 DEF Lost, HandlerFrame, NoFault, LatchPulse, FlagTypes
    <2> QED
      BY <2>1, <2>2, <2>3 DEF TypeOK, FaultTypes, FlagTypes, OtherTypes
  <1>18. CASE Unlatch
    <2>1. FaultTypes'
      BY <1>18 DEF Unlatch, HandlerFrame, UpdateError, FaultTypes
    <2>2. OtherTypes'
      BY FaultNames, LoopLocations, <1>18 DEF Unlatch, HandlerFrame, UpdateError, OtherTypes
    <2>3. FlagTypes'
      BY <1>18 DEF Unlatch, HandlerFrame, UpdateError, FlagTypes
    <2> QED
      BY <2>1, <2>2, <2>3 DEF TypeOK, FaultTypes, FlagTypes, OtherTypes
  <1>19. CASE Publish
    <2>1. FaultTypes'
      BY <1>19 DEF Publish, FaultTypes
    <2>2. OtherTypes'
      BY LoopLocations, <1>19 DEF Publish, OtherTypes
    <2>3. FlagTypes'
      BY <1>19 DEF Publish, FlagTypes
    <2> QED
      BY <2>1, <2>2, <2>3 DEF TypeOK, FaultTypes, FlagTypes, OtherTypes
  <1>20. CASE CloseContactor
    <2>1. FaultTypes'
      BY <1>20 DEF CloseContactor, HandlerFrame, NoFault, FaultTypes
    <2>2. OtherTypes'
      BY LoopLocations, <1>20 DEF CloseContactor, HandlerFrame, NoFault, OtherTypes
    <2>3. FlagTypes'
      BY <1>20 DEF CloseContactor, HandlerFrame, NoFault, FlagTypes
    <2> QED
      BY <2>1, <2>2, <2>3 DEF TypeOK, FaultTypes, FlagTypes, OtherTypes
  <1>21. CASE PullIn
    <2>1. FaultTypes'
      BY <1>21 DEF PullIn, HandlerFrame, NoFault, FaultTypes
    <2>2. OtherTypes'
      BY LoopLocations, <1>21 DEF PullIn, HandlerFrame, NoFault, OtherTypes
    <2>3. FlagTypes'
      BY <1>21 DEF PullIn, HandlerFrame, NoFault, FlagTypes
    <2> QED
      BY <2>1, <2>2, <2>3 DEF TypeOK, FaultTypes, FlagTypes, OtherTypes
  <1> QED
    BY <1>1, <1>2, <1>3, <1>4, <1>5, <1>6, <1>7, <1>8, <1>9, <1>10, <1>11, <1>12, <1>13,
       <1>14, <1>15, <1>16, <1>17, <1>18, <1>19, <1>20, <1>21 DEF PccLoop

\* The other steps of the main task, the BMS task, the UART task and time keep every
\* variable in its type.
LEMMA OthersTypeOK ==
    ASSUME TypeOK, UpdateAdcHealth \/ BmsTask \/ UartTask \/ SafeOff \/ DeadlinePasses
    PROVE  TypeOK'
  <1> FaultTypes /\ FlagTypes /\ OtherTypes
    BY TypeParts
  <1> USE DEF faultVars, statusVars, updateVars, outputVars, mainVars
  <1>1. CASE UpdateAdcHealth
    <2>0. /\ CountFailure(adcFailures, AdcFailureLimit) \in 0..AdcFailureLimit
          /\ 0 \in 0..AdcFailureLimit
          /\ "AdcFault" \in Fault /\ "main" \in Task
      BY CountFailureType, LimitAssumption, FaultNames DEF OtherTypes, Task
    <2>1. FaultTypes'
      <3>1. CASE UNCHANGED <<faultVars, safeOff, adcFailures>>
        BY <3>1 DEF FaultTypes
      <3>2. CASE UpdateError("main", "AdcFault", FALSE)
        BY <3>2, <2>0, UpdateErrorType
      <3>3. CASE UpdateError("main", "AdcFault", adcFailures' >= AdcFailureLimit)
        <4> DEFINE failing == adcFailures' >= AdcFailureLimit
        <4>1. failing \in BOOLEAN
          OBVIOUS
        <4> QED
          BY <4>1, <3>3, <2>0, UpdateErrorType
      <3> QED
        BY <1>1, <3>1, <3>2, <3>3 DEF UpdateAdcHealth
    <2>2. OtherTypes'
      <3>1. adcFailures' \in 0..AdcFailureLimit
        BY <1>1, <2>0 DEF UpdateAdcHealth, OtherTypes
      <3> QED
        BY <1>1, <3>1 DEF UpdateAdcHealth, OtherTypes
    <2>3. FlagTypes'
      BY <1>1 DEF UpdateAdcHealth, FlagTypes
    <2> QED
      BY <2>1, <2>2, <2>3 DEF TypeOK, FaultTypes, FlagTypes, OtherTypes
  <1>2. CASE BmsTask
    <2>1. FaultTypes'
      BY UpdateErrorType, FaultNames, <1>2 DEF BmsTask, CompleteStartup, SetBmsFault,
         FaultTypes, OtherTypes, Task
    <2>2. OtherTypes'
      BY <1>2 DEF BmsTask, CompleteStartup, SetBmsFault, OtherTypes
    <2>3. FlagTypes'
      BY <1>2 DEF BmsTask, CompleteStartup, SetBmsFault, FlagTypes
    <2> QED
      BY <2>1, <2>2, <2>3 DEF TypeOK, FaultTypes, FlagTypes, OtherTypes
  <1>3. CASE RequestRun
    <2>1. FaultTypes'
      BY <1>3 DEF RequestRun, FaultTypes
    <2>2. OtherTypes'
      BY <1>3 DEF RequestRun, OtherTypes
    <2>3. FlagTypes'
      BY <1>3 DEF RequestRun, FlagTypes
    <2> QED
      BY <2>1, <2>2, <2>3 DEF TypeOK, FaultTypes, FlagTypes, OtherTypes
  <1>4. CASE RequestStop
    <2>1. FaultTypes'
      BY <1>4 DEF RequestStop, DisableOutputs, FaultTypes
    <2>2. OtherTypes'
      BY <1>4 DEF RequestStop, DisableOutputs, OtherTypes
    <2>3. FlagTypes'
      BY <1>4 DEF RequestStop, DisableOutputs, FlagTypes
    <2> QED
      BY <2>1, <2>2, <2>3 DEF TypeOK, FaultTypes, FlagTypes, OtherTypes
  <1>5. CASE ClearMismatch
    <2>1. FaultTypes'
      BY UpdateErrorType, FaultNames, <1>5 DEF ClearMismatch, FaultTypes, OtherTypes, Task
    <2>2. OtherTypes'
      BY <1>5 DEF ClearMismatch, OtherTypes
    <2>3. FlagTypes'
      BY <1>5 DEF ClearMismatch, FlagTypes
    <2> QED
      BY <2>1, <2>2, <2>3 DEF TypeOK, FaultTypes, FlagTypes, OtherTypes
  <1>6. CASE Acknowledge
    <2>1. FaultTypes'
      BY <1>6 DEF Acknowledge, FaultTypes
    <2>2. OtherTypes'
      BY <1>6 DEF Acknowledge, OtherTypes
    <2>3. FlagTypes'
      BY <1>6 DEF Acknowledge, FlagTypes
    <2> QED
      BY <2>1, <2>2, <2>3 DEF TypeOK, FaultTypes, FlagTypes, OtherTypes
  <1>7. CASE PrepareUpdate
    <2>1. FaultTypes'
      BY <1>7 DEF PrepareUpdate, DisableOutputs, FaultTypes
    <2>2. OtherTypes'
      BY <1>7 DEF PrepareUpdate, DisableOutputs, OtherTypes
    <2>3. FlagTypes'
      BY <1>7 DEF PrepareUpdate, DisableOutputs, FlagTypes
    <2> QED
      BY <2>1, <2>2, <2>3 DEF TypeOK, FaultTypes, FlagTypes, OtherTypes
  <1>8. CASE CommitUpdate
    <2>1. FaultTypes'
      BY <1>8 DEF CommitUpdate, DisableOutputs, FaultTypes
    <2>2. OtherTypes'
      BY <1>8 DEF CommitUpdate, DisableOutputs, OtherTypes
    <2>3. FlagTypes'
      BY <1>8 DEF CommitUpdate, DisableOutputs, FlagTypes
    <2> QED
      BY <2>1, <2>2, <2>3 DEF TypeOK, FaultTypes, FlagTypes, OtherTypes
  <1>9. CASE EndUpdateRequest
    <2>1. FaultTypes'
      BY <1>9 DEF EndUpdateRequest, FaultTypes
    <2>2. OtherTypes'
      BY <1>9 DEF EndUpdateRequest, OtherTypes
    <2>3. FlagTypes'
      BY <1>9 DEF EndUpdateRequest, FlagTypes
    <2> QED
      BY <2>1, <2>2, <2>3 DEF TypeOK, FaultTypes, FlagTypes, OtherTypes
  <1>10. CASE SafeOff
    <2>1. FaultTypes'
      BY <1>10 DEF SafeOff, SafeOffDrop, DropRelay, DropContactor, SafeOffLocked,
         DisableOutputs, FaultTypes
    <2>2. OtherTypes'
      BY <1>10 DEF SafeOff, SafeOffDrop, DropRelay, DropContactor, SafeOffLocked,
         DisableOutputs, OtherTypes
    <2>3. FlagTypes'
      BY <1>10 DEF SafeOff, SafeOffDrop, DropRelay, DropContactor, SafeOffLocked,
         DisableOutputs, FlagTypes
    <2> QED
      BY <2>1, <2>2, <2>3 DEF TypeOK, FaultTypes, FlagTypes, OtherTypes
  <1>11. CASE DeadlinePasses
    <2>1. FaultTypes'
      BY <1>11 DEF DeadlinePasses, FaultTypes
    <2>2. OtherTypes'
      BY <1>11 DEF DeadlinePasses, OtherTypes
    <2>3. FlagTypes'
      BY <1>11 DEF DeadlinePasses, FlagTypes
    <2> QED
      BY <2>1, <2>2, <2>3 DEF TypeOK, FaultTypes, FlagTypes, OtherTypes
  <1> QED
    BY <1>1, <1>2, <1>3, <1>4, <1>5, <1>6, <1>7, <1>8, <1>9, <1>10, <1>11 DEF UartTask

\* Every variable keeps its type: the debounce counters stop at their limits, the bitmaps
\* hold only known faults, and each task is at a place the code has.
THEOREM TypeCorrect == Spec => []TypeOK
  <1>1. Init => TypeOK
    BY InitTypeOK
  <1>2. TypeOK /\ [Next]_vars => TypeOK'
    <2> SUFFICES ASSUME TypeOK, [Next]_vars PROVE TypeOK'
      OBVIOUS
    <2>1. CASE PccLoop
      BY <2>1, PccLoopTypeOK
    <2>2. CASE UpdateAdcHealth \/ BmsTask \/ UartTask \/ SafeOff \/ DeadlinePasses
      BY <2>2, OthersTypeOK
    <2>3. CASE Reset
      BY <2>3, ResetTypeOK
    <2>4. CASE UNCHANGED vars
      BY <2>4 DEF vars, TypeOK
    <2> QED
      BY <2>1, <2>2, <2>3, <2>4 DEF Next, MainTask
  <1> QED
    BY <1>1, <1>2, PTL DEF Spec

-----------------------------------------------------------------------------
(* What a step does to the faults and to the safe-offs owed *)

\* A fault update raises a block only together with a safe-off, never cancels one, and
\* touches only its own fault and its own task.
LEMMA UpdateErrorFacts ==
    ASSUME TypeOK, NEW t \in Task, NEW fault, NEW on \in BOOLEAN,
           UpdateError(t, fault, on), UNCHANGED critical
    PROVE  /\ (Blocking => SafeOffOwed) => (Blocking' => SafeOffOwed')
           /\ SafeOffOwed => SafeOffOwed'
           /\ \A u \in Task : u # t => safeOff'[u] = safeOff[u]
           /\ ~on => safeOff' = safeOff
           /\ \A f : f # fault => (f \in active' <=> f \in active)
           /\ safeOff' # safeOff => fault \in active'
  BY DEF UpdateError, Blocking, SafeOffOwed, TypeOK

\* Without a fault update nothing starts or stops blocking.
LEMMA SameBlocking ==
    ASSUME UNCHANGED faultVars, UNCHANGED critical
    PROVE  Blocking' <=> Blocking
  BY DEF Blocking, faultVars

\* Without a safe-off step or a fault update nobody's debt changes.
LEMMA SameOwed ==
    ASSUME UNCHANGED safeOff
    PROVE  SafeOffOwed' <=> SafeOffOwed
  BY DEF SafeOffOwed

\* The path is driven, or the next step of the main task drives it.
Driving == state \in {"PRECHARGE", "CONTACTOR_CLOSE", "RUN"} \/ at = "Energize"

\* The fault updates of the main task: under the PCC mutex, and in updateAdcHealth.
RaisesHv ==
    \E fault \in HvFault \cup {"none"}, on \in BOOLEAN :
        UpdateError("main", fault, on) /\ at' \in MainInLoop

RaisesAdc == \E on \in BOOLEAN : UpdateError("main", "AdcFault", on) /\ at' = "Idle"

\* A step of the main task owes nothing before it and updates at most one of its faults.
LEMMA MainFaultEffect ==
    ASSUME TypeOK, MainTask
    PROVE  /\ safeOff["main"] = "none"
           /\ UNCHANGED critical
           /\ UNCHANGED <<active, latched, safeOff>> \/ RaisesHv \/ RaisesAdc
  <1> USE DEF statusVars, faultVars
  <1> latching \in HvFault \cup {"none"}
    BY DEF TypeOK
  <1>1. CASE LoopInvalid
    <2>1. safeOff["main"] = "none" /\ UNCHANGED critical
      BY <1>1 DEF LoopInvalid, DisableOutputs, CountFailure, MainAt
    <2>2. UNCHANGED <<active, latched, safeOff>> \/ RaisesHv \/ RaisesAdc
      BY <1>1, FaultNames, LoopLocations DEF LoopInvalid, DisableOutputs, CountFailure,
         MainAt, RaisesHv, RaisesAdc
    <2> QED
      BY <2>1, <2>2
  <1>2. CASE LeaveInvalid
    BY <1>2 DEF LeaveInvalid, MainAt
  <1>3. CASE LoopLocked
    BY <1>3 DEF LoopLocked, DisableOutputs, MainAt
  <1>4. CASE LoopPrepared
    BY <1>4 DEF LoopPrepared, DisableOutputs, MainAt
  <1>5. CASE LoopRefresh
    <2>1. safeOff["main"] = "none" /\ UNCHANGED critical
      BY <1>5 DEF LoopRefresh, MainAt
    <2>2. UNCHANGED <<active, latched, safeOff>> \/ RaisesHv \/ RaisesAdc
      BY <1>5, FaultNames, LoopLocations DEF LoopRefresh, MainAt, RaisesHv, RaisesAdc
    <2> QED
      BY <2>1, <2>2
  <1>6. CASE RefreshSensor
    <2>1. safeOff["main"] = "none" /\ UNCHANGED critical
      BY <1>6 DEF RefreshSensor, Refresh, MainAt
    <2>2. UNCHANGED <<active, latched, safeOff>> \/ RaisesHv \/ RaisesAdc
      BY <1>6, FaultNames, LoopLocations DEF RefreshSensor, Refresh, MainAt, RaisesHv,
         RaisesAdc
    <2> QED
      BY <2>1, <2>2
  <1>7. CASE RefreshMismatch
    <2>1. safeOff["main"] = "none" /\ UNCHANGED critical
      BY <1>7 DEF RefreshMismatch, Refresh, MainAt
    <2>2. UNCHANGED <<active, latched, safeOff>> \/ RaisesHv \/ RaisesAdc
      BY <1>7, FaultNames, LoopLocations DEF RefreshMismatch, Refresh, MainAt, RaisesHv,
         RaisesAdc
    <2> QED
      BY <2>1, <2>2
  <1>8. CASE RefreshLoad
    <2>1. safeOff["main"] = "none" /\ UNCHANGED critical
      BY <1>8 DEF RefreshLoad, Refresh, MainAt
    <2>2. UNCHANGED <<active, latched, safeOff>> \/ RaisesHv \/ RaisesAdc
      BY <1>8, FaultNames, LoopLocations DEF RefreshLoad, Refresh, MainAt, RaisesHv,
         RaisesAdc
    <2> QED
      BY <2>1, <2>2
  <1>9. CASE HandleOff
    BY <1>9 DEF HandleOff, DisableOutputs, HandlerFrame, NoFault, MainAt, CanEnableHv
  <1>10. CASE SelfTestNotReady
    BY <1>10 DEF SelfTestNotReady, DisableOutputs, HandlerFrame, NoFault, MainAt
  <1>11. CASE SelfTestFails
    <2>1. safeOff["main"] = "none" /\ UNCHANGED critical
      BY <1>11 DEF SelfTestFails, DisableOutputs, HandlerFrame, LatchActive, MainAt,
         CanEnableHv
    <2>2. UNCHANGED <<active, latched, safeOff>> \/ RaisesHv \/ RaisesAdc
      BY <1>11, FaultNames, LoopLocations DEF SelfTestFails, DisableOutputs,
         HandlerFrame, LatchActive, MainAt, CanEnableHv, RaisesHv, RaisesAdc
    <2> QED
      BY <2>1, <2>2
  <1>12. CASE SelfTestPasses
    BY <1>12 DEF SelfTestPasses, DisableOutputs, HandlerFrame, NoFault, MainAt, CanEnableHv
  <1>13. CASE StartPrecharge
    BY <1>13 DEF StartPrecharge, HandlerFrame, NoFault, MainAt
  <1>14. CASE HandlePrecharge
    <2>1. safeOff["main"] = "none" /\ UNCHANGED critical
      BY <1>14 DEF HandlePrecharge, HandlerFrame, NoFault, LatchActive, LatchPulse, MainAt
    <2>2. UNCHANGED <<active, latched, safeOff>> \/ RaisesHv \/ RaisesAdc
      BY <1>14, FaultNames, LoopLocations DEF HandlePrecharge, HandlerFrame, NoFault,
         LatchActive, LatchPulse, MainAt, RaisesHv, RaisesAdc
    <2> QED
      BY <2>1, <2>2
  <1>15. CASE HandleContactorClose
    <2>1. safeOff["main"] = "none" /\ UNCHANGED critical
      BY <1>15 DEF HandleContactorClose, HandlerFrame, NoFault, LatchActive, LatchPulse,
         MainAt
    <2>2. UNCHANGED <<active, latched, safeOff>> \/ RaisesHv \/ RaisesAdc
      BY <1>15, FaultNames, LoopLocations DEF HandleContactorClose, HandlerFrame,
         NoFault, LatchActive, LatchPulse, MainAt, RaisesHv, RaisesAdc
    <2> QED
      BY <2>1, <2>2
  <1>16. CASE HandleRun
    <2>1. safeOff["main"] = "none" /\ UNCHANGED critical
      BY <1>16 DEF HandleRun, HandlerFrame, NoFault, LatchActive, LatchPulse, MainAt
    <2>2. UNCHANGED <<active, latched, safeOff>> \/ RaisesHv \/ RaisesAdc
      BY <1>16, FaultNames, LoopLocations DEF HandleRun, HandlerFrame, NoFault,
         LatchActive, LatchPulse, MainAt, RaisesHv, RaisesAdc
    <2> QED
      BY <2>1, <2>2
  <1>17. CASE Lost
    <2>1. safeOff["main"] = "none" /\ UNCHANGED critical
      BY <1>17 DEF Lost, HandlerFrame, NoFault, LatchPulse, MainAt
    <2>2. UNCHANGED <<active, latched, safeOff>> \/ RaisesHv \/ RaisesAdc
      BY <1>17, FaultNames, LoopLocations DEF Lost, HandlerFrame, NoFault, LatchPulse,
         MainAt, RaisesHv, RaisesAdc
    <2> QED
      BY <2>1, <2>2
  <1>18. CASE Unlatch
    <2>1. safeOff["main"] = "none" /\ UNCHANGED critical
      BY <1>18 DEF Unlatch, HandlerFrame, MainAt
    <2>2. UNCHANGED <<active, latched, safeOff>> \/ RaisesHv \/ RaisesAdc
      BY <1>18, FaultNames, LoopLocations DEF Unlatch, HandlerFrame, MainAt, RaisesHv,
         RaisesAdc
    <2> QED
      BY <2>1, <2>2
  <1>19. CASE Publish
    BY <1>19 DEF Publish, MainAt
  <1>20. CASE UpdateAdcHealth
    <2>1. safeOff["main"] = "none" /\ UNCHANGED critical
      BY <1>20 DEF UpdateAdcHealth, MainAt
    <2>2. UNCHANGED <<active, latched, safeOff>> \/ RaisesHv \/ RaisesAdc
      <3> DEFINE failing == adcFailures' >= AdcFailureLimit
      <3>1. failing \in BOOLEAN
        OBVIOUS
      <3>2. UpdateError("main", "AdcFault", failing) /\ at' = "Idle" => RaisesAdc
        BY <3>1 DEF RaisesAdc
      <3>3. UpdateError("main", "AdcFault", FALSE) /\ at' = "Idle" => RaisesAdc
        BY DEF RaisesAdc
      <3> QED
        BY <1>20, <3>2, <3>3 DEF UpdateAdcHealth
    <2> QED
      BY <2>1, <2>2
  <1>21. CASE CloseContactor
    BY <1>21 DEF CloseContactor, HandlerFrame, NoFault, MainAt
  <1>22. CASE PullIn
    BY <1>22 DEF PullIn, HandlerFrame, NoFault, MainAt
  <1> QED
    BY <1>1, <1>2, <1>3, <1>4, <1>5, <1>6, <1>7, <1>8, <1>9, <1>10, <1>11, <1>12, <1>13,
       <1>14, <1>15, <1>16, <1>17, <1>18, <1>19, <1>20, <1>21,
       <1>22 DEF MainTask, PccLoop

\* The main task starts driving the path only with nothing blocking.
LEMMA MainDriving ==
    ASSUME TypeOK, EnergizeJustified, MainTask, Driving'
    PROVE  Driving \/ ~Blocking'
  <1> USE DEF statusVars, faultVars, Driving, EnergizeJustified
  <1>1. CASE LoopInvalid
    BY <1>1, SameBlocking DEF LoopInvalid, UpdateError, DisableOutputs, CountFailure, MainAt
  <1>2. CASE LeaveInvalid
    BY <1>2, SameBlocking DEF LeaveInvalid, MainAt
  <1>3. CASE LoopLocked
    BY <1>3, SameBlocking DEF LoopLocked, DisableOutputs, MainAt
  <1>4. CASE LoopPrepared
    BY <1>4, SameBlocking DEF LoopPrepared, DisableOutputs, MainAt
  <1>5. CASE LoopRefresh
    BY <1>5, SameBlocking DEF LoopRefresh, MainAt
  <1>6. CASE RefreshSensor
    BY <1>6, SameBlocking DEF RefreshSensor, Refresh, MainAt
  <1>7. CASE RefreshMismatch
    BY <1>7, SameBlocking DEF RefreshMismatch, Refresh, MainAt
  <1>8. CASE RefreshLoad
    BY <1>8, SameBlocking DEF RefreshLoad, Refresh, MainAt
  <1>9. CASE HandleOff
    BY <1>9, SameBlocking DEF HandleOff, DisableOutputs, HandlerFrame, NoFault, MainAt,
       CanEnableHv
  <1>10. CASE SelfTestNotReady
    BY <1>10, SameBlocking DEF SelfTestNotReady, DisableOutputs, HandlerFrame, NoFault,
       MainAt
  <1>11. CASE SelfTestFails
    BY <1>11, SameBlocking DEF SelfTestFails, DisableOutputs, HandlerFrame, LatchActive,
       MainAt, CanEnableHv
  <1>12. CASE SelfTestPasses
    BY <1>12, SameBlocking DEF SelfTestPasses, DisableOutputs, HandlerFrame, NoFault,
       MainAt, CanEnableHv
  <1>13. CASE StartPrecharge
    BY <1>13, SameBlocking DEF StartPrecharge, HandlerFrame, NoFault, MainAt
  <1>14. CASE HandlePrecharge
    BY <1>14, SameBlocking DEF HandlePrecharge, HandlerFrame, NoFault, LatchActive,
       LatchPulse, MainAt
  <1>15. CASE HandleContactorClose
    BY <1>15, SameBlocking DEF HandleContactorClose, HandlerFrame, NoFault, LatchActive,
       LatchPulse, MainAt
  <1>16. CASE HandleRun
    BY <1>16, SameBlocking DEF HandleRun, HandlerFrame, NoFault, LatchActive, LatchPulse,
       MainAt
  <1>17. CASE Lost
    BY <1>17, SameBlocking DEF Lost, HandlerFrame, NoFault, LatchPulse, MainAt
  <1>18. CASE Unlatch
    BY <1>18, SameBlocking DEF Unlatch, HandlerFrame, MainAt
  <1>19. CASE Publish
    BY <1>19, SameBlocking DEF Publish, MainAt
  <1>20. CASE UpdateAdcHealth
    BY <1>20, SameBlocking DEF UpdateAdcHealth, MainAt
  <1>21. CASE CloseContactor
    BY <1>21, SameBlocking DEF CloseContactor, HandlerFrame, NoFault, MainAt
  <1>22. CASE PullIn
    BY <1>22, SameBlocking DEF PullIn, HandlerFrame, NoFault, MainAt
  <1> QED
    BY <1>1, <1>2, <1>3, <1>4, <1>5, <1>6, <1>7, <1>8, <1>9, <1>10, <1>11, <1>12, <1>13,
       <1>14, <1>15, <1>16, <1>17, <1>18, <1>19, <1>20, <1>21,
       <1>22 DEF MainTask, PccLoop

\* The BMS and UART tasks touch only faults that leave the debts of the others alone.
LEMMA OtherFaultEffect ==
    ASSUME TypeOK, BmsTask \/ UartTask \/ DeadlinePasses
    PROVE  /\ UNCHANGED <<at, critical>>
           /\ \/ UNCHANGED <<active, latched, safeOff>>
              \/ /\ safeOff["bms"] = "none"
                 /\ \E fault \in BmsFault, on \in BOOLEAN : UpdateError("bms", fault, on)
              \/ UpdateError("uart", "BatteryVoltageMismatch", FALSE)
              \/ active = {} /\ UNCHANGED <<active, safeOff>> /\ latched' = {}
  <1> USE DEF statusVars, faultVars, mainVars
  <1>1. CASE BmsTask
    BY <1>1 DEF BmsTask, CompleteStartup, SetBmsFault, BmsReady
  <1>2. CASE UartTask
    BY <1>2 DEF UartTask, RequestRun, RequestStop, ClearMismatch, Acknowledge,
       PrepareUpdate, CommitUpdate, EndUpdateRequest
  <1>3. CASE DeadlinePasses
    BY <1>3 DEF DeadlinePasses
  <1> QED
    BY <1>1, <1>2, <1>3

\* Only the main task starts driving the path.
LEMMA OtherDriving ==
    ASSUME TypeOK, BmsTask \/ UartTask \/ DeadlinePasses, Driving'
    PROVE  Driving
  <1> USE DEF mainVars, Driving
  <1>1. CASE BmsTask
    BY <1>1 DEF BmsTask, CompleteStartup, SetBmsFault, BmsReady
  <1>2. CASE UartTask
    BY <1>2 DEF UartTask, RequestRun, RequestStop, ClearMismatch, Acknowledge,
       PrepareUpdate, CommitUpdate, EndUpdateRequest
  <1>3. CASE DeadlinePasses
    BY <1>3 DEF DeadlinePasses
  <1> QED
    BY <1>1, <1>2, <1>3


(* The debts: DrivingStageIsShutOff and OwedForACondition *)

Owe == DrivingStageIsShutOff /\ OwedForACondition

\* A step of the main task raises a block only with a safe-off and cancels no safe-off.
LEMMA MainOwed ==
    ASSUME TypeOK, MainTask
    PROVE  /\ (Blocking => SafeOffOwed) => (Blocking' => SafeOffOwed')
           /\ SafeOffOwed => SafeOffOwed'
  <1>1. CASE UNCHANGED <<active, latched, safeOff>>
    BY <1>1, MainFaultEffect, SameBlocking, SameOwed DEF faultVars
  <1>2. CASE RaisesHv \/ RaisesAdc
    BY <1>2, MainFaultEffect, UpdateErrorFacts DEF RaisesHv, RaisesAdc, Task
  <1> QED
    BY <1>1, <1>2, MainFaultEffect

\* The main task keeps them.
LEMMA MainOwe ==
    ASSUME IInv, MainTask
    PROVE  Owe'
  <1>t. TypeOK /\ DrivingStageIsShutOff /\ OwedForACondition /\ EnergizeJustified
    BY DEF IInv
  <1>1. /\ (Blocking => SafeOffOwed) => (Blocking' => SafeOffOwed')
        /\ SafeOffOwed => SafeOffOwed'
    BY MainOwed, <1>t
  <1>2. Driving' => Driving \/ ~Blocking'
    BY MainDriving, <1>t
  <1>3. DrivingStageIsShutOff'
    BY <1>1, <1>2, <1>t DEF DrivingStageIsShutOff, Driving
  <1>4. OwedForACondition'
    <2>1. safeOff["main"] = "none" /\ UNCHANGED critical
      BY MainFaultEffect, <1>t
    <2>2. CASE UNCHANGED <<active, latched, safeOff>>
      BY <2>1, <2>2, <1>t DEF OwedForACondition
    <2>3. ASSUME NEW fault, NEW on \in BOOLEAN, UpdateError("main", fault, on),
                 fault \notin BmsFault,
                 at' \in MainInLoop \/ (fault = "AdcFault" /\ at' = "Idle")
          PROVE  OwedForACondition'
      <3>2. \A u \in {"bms", "uart"} : safeOff'[u] = safeOff[u]
        BY <2>3, <2>1, <1>t, UpdateErrorFacts DEF Task
      <3>4. active \cap BmsFault # {} => active' \cap BmsFault # {}
        BY <2>3 DEF UpdateError
      <3>5. safeOff'["main"] # "none" => fault \in active'
        BY <2>3, <2>1 DEF UpdateError
      <3> QED
        BY <2>3, <3>2, <3>4, <3>5, <1>t DEF OwedForACondition
    <2>4. CASE RaisesHv
      BY <2>4, <2>3, BmsFaultAssumption DEF RaisesHv
    <2>5. CASE RaisesAdc
      BY <2>5, <2>3, BmsFaultAssumption DEF RaisesAdc
    <2> QED
      BY <2>2, <2>4, <2>5, <1>t, MainFaultEffect
  <1> QED
    BY <1>3, <1>4 DEF Owe

\* The BMS and UART tasks keep them.
LEMMA OtherOwe ==
    ASSUME IInv, BmsTask \/ UartTask \/ DeadlinePasses
    PROVE  Owe'
  <1>t. TypeOK /\ DrivingStageIsShutOff /\ OwedForACondition /\ EnergizeJustified
    BY DEF IInv
  <1>e. UNCHANGED <<at, critical>> /\ (Driving' => Driving)
    BY <1>t, OtherFaultEffect, OtherDriving
  <1>1. CASE UNCHANGED <<active, latched, safeOff>>
    BY <1>1, <1>e, <1>t, SameBlocking, SameOwed DEF Owe, DrivingStageIsShutOff,
       OwedForACondition, faultVars, Driving
  <1>2. CASE /\ safeOff["bms"] = "none"
             /\ \E fault \in BmsFault, on \in BOOLEAN : UpdateError("bms", fault, on)
    <2>1. PICK fault \in BmsFault, on \in BOOLEAN : UpdateError("bms", fault, on)
      BY <1>2
    <2>2. DrivingStageIsShutOff'
      BY <2>1, <1>e, <1>t, UpdateErrorFacts DEF DrivingStageIsShutOff, Driving, Task
    <2>3. \A u \in {"main", "uart"} : safeOff'[u] = safeOff[u]
      BY <2>1, <1>e, <1>t, UpdateErrorFacts DEF Task
    <2>4. "AdcFault" \in active => "AdcFault" \in active'
      BY <2>1, BmsFaultAssumption DEF UpdateError
    <2>5. safeOff'["bms"] # "none" => fault \in active'
      BY <2>1, <1>2 DEF UpdateError
    <2> QED
      BY <2>1, <2>2, <2>3, <2>4, <2>5, <1>e, <1>t DEF Owe, OwedForACondition
  <1>3. CASE UpdateError("uart", "BatteryVoltageMismatch", FALSE)
    <2>1. DrivingStageIsShutOff' /\ safeOff' = safeOff
      BY <1>3, <1>e, <1>t, UpdateErrorFacts DEF DrivingStageIsShutOff, Driving, Task
    <2>2. \A f \in BmsFault \cup {"AdcFault"} : f \in active => f \in active'
      BY <1>3, BmsFaultAssumption DEF UpdateError, HvFault
    <2> QED
      BY <2>1, <2>2, <1>e, <1>t DEF Owe, OwedForACondition
  <1>4. CASE active = {} /\ UNCHANGED <<active, safeOff>> /\ latched' = {}
    <2>1. Blocking' => Blocking
      BY <1>4, <1>e DEF Blocking
    <2> QED
      BY <1>4, <2>1, <1>e, <1>t, SameOwed DEF Owe, DrivingStageIsShutOff,
         OwedForACondition, Driving
  <1> QED
    BY <1>1, <1>2, <1>3, <1>4, <1>t, OtherFaultEffect

(* The path: its stages, its outputs and their reasons *)

Path == OutputsMatchStage /\ StageSupported /\ EnergizeJustified /\ UpdateReleased

\* The main task keeps the path consistent.
LEMMA MainPath ==
    ASSUME IInv, MainTask
    PROVE  Path'
  <1> USE DEF statusVars, updateVars, outputVars, mainVars, IInv, Path,
              OutputsMatchStage, StageSupported, EnergizeJustified, UpdateReleased,
              Energized
  <1>1. CASE LoopInvalid
    BY <1>1, LoopLocations, UpdateErrorFacts DEF LoopInvalid, UpdateError,
       DisableOutputs, CountFailure, MainAt
  <1>2. CASE LeaveInvalid
    BY <1>2, LoopLocations DEF LeaveInvalid, MainAt
  <1>3. CASE LoopLocked
    BY <1>3, LoopLocations DEF LoopLocked, DisableOutputs, MainAt
  <1>4. CASE LoopPrepared
    BY <1>4, LoopLocations DEF LoopPrepared, DisableOutputs, MainAt
  <1>5. CASE LoopRefresh
    BY <1>5, LoopLocations, UpdateErrorFacts DEF LoopRefresh, MainAt
  <1>6. CASE RefreshSensor
    BY <1>6, LoopLocations, UpdateErrorFacts DEF RefreshSensor, Refresh, MainAt
  <1>7. CASE RefreshMismatch
    BY <1>7, LoopLocations, UpdateErrorFacts DEF RefreshMismatch, Refresh, MainAt
  <1>8. CASE RefreshLoad
    BY <1>8, LoopLocations, UpdateErrorFacts DEF RefreshLoad, Refresh, MainAt
  <1>9. CASE HandleOff
    BY <1>9, LoopLocations DEF HandleOff, DisableOutputs, HandlerFrame, NoFault, MainAt,
       CanEnableHv
  <1>10. CASE SelfTestNotReady
    BY <1>10, LoopLocations DEF SelfTestNotReady, DisableOutputs, HandlerFrame, NoFault,
       MainAt
  <1>11. CASE SelfTestFails
    BY <1>11, LoopLocations, UpdateErrorFacts DEF SelfTestFails, DisableOutputs,
       HandlerFrame, LatchActive, MainAt, CanEnableHv
  <1>12. CASE SelfTestPasses
    BY <1>12, LoopLocations DEF SelfTestPasses, DisableOutputs, HandlerFrame, NoFault,
       MainAt, CanEnableHv
  <1>13. CASE StartPrecharge
    BY <1>13, LoopLocations DEF StartPrecharge, HandlerFrame, NoFault, MainAt
  <1>14. CASE HandlePrecharge
    <2>1. /\ UNCHANGED <<state, runRequest, startupComplete, prepared, locked>>
          /\ state = "PRECHARGE" /\ relay' = TRUE /\ duty' = "off" /\ runRequest
      BY <1>14 DEF HandlePrecharge, HandlerFrame
    <2>2. \/ at' \in {"Publish", "Unlatch"}
          \/ at' = "Close" /\ UNCHANGED safeOff
      BY <1>14 DEF HandlePrecharge, LatchActive, LatchPulse, NoFault
    <2>3. safeOff["main"] = "none"
      BY <1>14 DEF HandlePrecharge, MainAt
    <2> QED
      BY <2>1, <2>2, <2>3
  <1>15. CASE HandleContactorClose
    <2>1. /\ UNCHANGED <<runRequest, startupComplete, prepared, locked>> /\ runRequest
          /\ state = "CONTACTOR_CLOSE"
          /\ \/ UNCHANGED <<state, relay, duty>>
             \/ UNCHANGED <<state, duty>> /\ relay' = TRUE /\ duty # "hold"
             \/ /\ state' \in {"CONTACTOR_CLOSE", "RUN"}
                /\ relay' = FALSE /\ duty' = "hold"
      BY <1>15 DEF HandleContactorClose, HandlerFrame, PullInTime
    <2>2. \/ at' \in {"Lost", "Publish", "Unlatch"}
          \/ /\ at' = "PullIn" /\ state' = "CONTACTOR_CLOSE" /\ UNCHANGED safeOff
             /\ duty' # "hold"
      BY <1>15 DEF HandleContactorClose, LatchActive, LatchPulse, NoFault, PullInTime
    <2>3. safeOff["main"] = "none"
      BY <1>15 DEF HandleContactorClose, MainAt
    <2> QED
      BY <2>1, <2>2, <2>3
  <1>16. CASE HandleRun
    BY <1>16, LoopLocations, UpdateErrorFacts DEF HandleRun, HandlerFrame, NoFault,
       LatchActive, LatchPulse, MainAt
  <1>17. CASE Lost
    BY <1>17, LoopLocations, UpdateErrorFacts DEF Lost, HandlerFrame, NoFault,
       LatchPulse, MainAt
  <1>18. CASE Unlatch
    BY <1>18, LoopLocations, UpdateErrorFacts DEF Unlatch, HandlerFrame, MainAt
  <1>19. CASE Publish
    BY <1>19, LoopLocations DEF Publish, MainAt
  <1>20. CASE UpdateAdcHealth
    BY <1>20, LoopLocations, UpdateErrorFacts DEF UpdateAdcHealth, MainAt
  <1>21. CASE CloseContactor
    BY <1>21, LoopLocations DEF CloseContactor, HandlerFrame, NoFault, MainAt
  <1>22. CASE PullIn
    BY <1>22, LoopLocations DEF PullIn, HandlerFrame, NoFault, MainAt
  <1> QED
    BY <1>1, <1>2, <1>3, <1>4, <1>5, <1>6, <1>7, <1>8, <1>9, <1>10, <1>11, <1>12, <1>13,
       <1>14, <1>15, <1>16, <1>17, <1>18, <1>19, <1>20, <1>21,
       <1>22 DEF MainTask, PccLoop

\* The BMS and UART tasks keep the path consistent: they cannot act on it while
\* PCC::loop is between its permission test and the outputs.
LEMMA OtherPath ==
    ASSUME IInv, BmsTask \/ UartTask \/ DeadlinePasses
    PROVE  Path'
  <1> USE DEF statusVars, updateVars, outputVars, mainVars, IInv, Path,
              OutputsMatchStage, StageSupported, EnergizeJustified, UpdateReleased,
              Energized
  <1>1. CASE RequestRun
    BY <1>1, LoopLocations DEF RequestRun, ServiceAllowed, UartReady, MutexFreeFor
  <1>2. CASE RequestStop
    BY <1>2, LoopLocations DEF RequestStop, ServiceAllowed, UartReady, MutexFreeFor,
       DisableOutputs
  <1>3. CASE Acknowledge
    BY <1>3, LoopLocations DEF Acknowledge, ServiceAllowed, UartReady
  <1>4. CASE PrepareUpdate
    BY <1>4, LoopLocations DEF PrepareUpdate, ServiceAllowed, UartReady, MutexFreeFor,
       DisableOutputs, PathReleased
  <1>5. CASE CommitUpdate
    BY <1>5, LoopLocations DEF CommitUpdate, UartReady, MutexFreeFor, DisableOutputs
  <1>6. CASE EndUpdateRequest
    BY <1>6, LoopLocations DEF EndUpdateRequest
  <1>7. CASE DeadlinePasses
    BY <1>7, LoopLocations DEF DeadlinePasses
  <1>8. CASE ClearMismatch
    <2>1. safeOff' = safeOff
      BY <1>8 DEF ClearMismatch, UpdateError
    <2> QED
      BY <1>8, <2>1 DEF ClearMismatch
  <1>9. CASE CompleteStartup
    BY <1>9 DEF CompleteStartup
  <1>10. ASSUME NEW fault \in BmsFault, NEW on \in BOOLEAN, SetBmsFault(fault, on)
         PROVE  Path'
    <2>1. safeOff'["main"] = safeOff["main"]
      BY <1>10 DEF SetBmsFault, UpdateError, TypeOK
    <2> QED
      BY <1>10, <2>1 DEF SetBmsFault
  <1> QED
    BY <1>1, <1>2, <1>3, <1>4, <1>5, <1>6, <1>7, <1>8, <1>9, <1>10 DEF BmsTask, UartTask

\* A safe-off step pays its own debt and leaves the path off.
LEMMA SafeOffKept ==
    ASSUME IInv, SafeOff
    PROVE  Owe' /\ Path' /\ DriveIsWhole'
  <1>t. /\ TypeOK /\ DrivingStageIsShutOff /\ OwedForACondition /\ EnergizeJustified
        /\ OutputsMatchStage /\ StageSupported /\ UpdateReleased /\ DriveIsWhole
    BY DEF IInv
  <1> PICK t \in Task : SafeOffDrop(t) \/ SafeOffLocked(t)
    BY DEF SafeOff
  <1> USE DEF SafeOffDrop, DropRelay, DropContactor
  <1>1. /\ UNCHANGED <<at, active, latched, critical, startupComplete, prepared, locked>>
        /\ safeOff[t] # "none"
    BY DEF SafeOffLocked, mainVars, faultVars, statusVars, updateVars
  <1>2. \A u \in Task : safeOff'[u] # "none" => safeOff[u] # "none"
    BY <1>t DEF SafeOffLocked, TypeOK
  <1>3. OwedForACondition'
    BY <1>1, <1>2, <1>t DEF OwedForACondition, Task
  <1>4. CASE SafeOffDrop(t)
    <2>1. SafeOffOwed' /\ UNCHANGED <<state, runRequest>>
      BY <1>4, <1>t DEF SafeOffOwed, TypeOK
    <2>2. /\ relay' = relay \/ ~relay'
          /\ duty' = duty \/ duty' = "off"
      BY <1>4
    <2>3. DrivingStageIsShutOff' /\ DriveIsWhole'
      BY <2>1, <2>2, <1>t DEF DrivingStageIsShutOff, DriveIsWhole
    <2>4. OutputsMatchStage' /\ StageSupported' /\ UpdateReleased'
      BY <2>1, <2>2, <1>1, <1>t DEF OutputsMatchStage, Energized, StageSupported,
         UpdateReleased
    <2>5. EnergizeJustified'
      BY <2>1, <2>2, <1>1, <1>2, <1>t DEF EnergizeJustified, Task
    <2> QED
      BY <2>3, <2>4, <2>5, <1>3 DEF Owe, Path
  <1>5. CASE SafeOffLocked(t)
    <2>1. state' = "OFF" /\ ~runRequest' /\ relay' = FALSE /\ duty' = "off"
      BY <1>5 DEF SafeOffLocked, DisableOutputs
    <2>2. at' \notin {"Energize", "Close", "PullIn"}
      BY <1>5, <1>t, <1>1, LoopLocations DEF SafeOffLocked, MutexFreeFor,
         EnergizeJustified
    <2>3. DrivingStageIsShutOff' /\ DriveIsWhole'
      BY <2>1, <2>2 DEF DrivingStageIsShutOff, DriveIsWhole, Whole
    <2>4. Path'
      BY <2>1, <2>2 DEF Path, OutputsMatchStage, Energized, StageSupported,
         EnergizeJustified, UpdateReleased
    <2> QED
      BY <2>3, <2>4, <1>3 DEF Owe
  <1> QED
    BY <1>4, <1>5

-----------------------------------------------------------------------------
(* The drives: what a step of the main task does to stage and outputs *)

\* One stage up.
StageStep(s, u) ==
    \/ s = "OFF" /\ u = "SELF_TEST"
    \/ s = "SELF_TEST" /\ u = "PRECHARGE"
    \/ s = "PRECHARGE" /\ u = "CONTACTOR_CLOSE"
    \/ s = "CONTACTOR_CLOSE" /\ u = "RUN"

\* The whole drive of this stage or of OFF.
Redriven == state' \in {"OFF", state} /\ Whole(state', relay', duty')

\* The whole drive of the next stage.
Advanced == runRequest /\ StageStep(state, state') /\ Whole(state', relay', duty')

\* The contactor after a relay that was driven some steps ago.
Closed ==
    /\ runRequest /\ state = "PRECHARGE" /\ state' = "CONTACTOR_CLOSE"
    /\ relay' = relay /\ duty' = "full"

\* One of the two writes of the pull-in.
PulledIn ==
    /\ state = "CONTACTOR_CLOSE" /\ UNCHANGED state /\ duty # "hold"
    /\ relay' \in {relay, TRUE} /\ duty' \in {duty, "full"}

\* A step of the main task leaves stage and outputs alone, or is one of these.
LEMMA MainMoves ==
    ASSUME IInv, MainTask
    PROVE  /\ UNCHANGED runRequest
           /\ \/ UNCHANGED <<state, relay, duty>>
              \/ Redriven
              \/ (Advanced \/ Closed \/ PulledIn) /\ UNCHANGED safeOff
  <1>t. TypeOK /\ StageSupported /\ EnergizeJustified
    BY DEF IInv
  <1> USE DEF outputVars, HandlerFrame, Redriven, Whole, DisableOutputs
  <1>1. CASE LoopInvalid \/ LoopLocked \/ LoopPrepared
    BY <1>1 DEF LoopInvalid, LoopLocked, LoopPrepared, statusVars, updateVars
  <1>2. CASE LeaveInvalid \/ LoopRefresh \/ Publish \/ UpdateAdcHealth
    BY <1>2 DEF LeaveInvalid, LoopRefresh, Publish, UpdateAdcHealth
  <1>3. CASE RefreshSensor \/ RefreshMismatch \/ RefreshLoad
    BY <1>3 DEF RefreshSensor, RefreshMismatch, RefreshLoad, Refresh
  <1>4. CASE Lost \/ Unlatch
    BY <1>4 DEF Lost, Unlatch
  <1>5. CASE HandleOff
    <2>1. UNCHANGED <<runRequest, safeOff>> /\ ~relay' /\ duty' = "off"
      BY <1>5 DEF HandleOff, NoFault
    <2>2. state' = "OFF" \/ (runRequest /\ state = "OFF" /\ state' = "SELF_TEST")
      BY <1>5 DEF HandleOff
    <2> QED
      BY <2>1, <2>2 DEF Advanced, StageStep
  <1>6. CASE SelfTestNotReady \/ SelfTestFails \/ SelfTestPasses
    BY <1>6 DEF SelfTestNotReady, SelfTestFails, SelfTestPasses
  <1>7. CASE StartPrecharge
    BY <1>7, <1>t DEF StartPrecharge, MainAt, NoFault, StageSupported,
       EnergizeJustified, Advanced, StageStep
  <1>8. CASE HandlePrecharge
    BY <1>8 DEF HandlePrecharge
  <1>9. CASE CloseContactor
    BY <1>9, <1>t DEF CloseContactor, MainAt, NoFault, StageSupported,
       EnergizeJustified, Closed
  <1>10. CASE HandleContactorClose
    <2>1. runRequest /\ UNCHANGED runRequest /\ state = "CONTACTOR_CLOSE"
      BY <1>10 DEF HandleContactorClose
    <2>2. \/ UNCHANGED <<state, relay, duty>>
          \/ /\ duty # "hold" /\ relay' = TRUE /\ UNCHANGED <<state, duty, safeOff>>
          \/ /\ state' \in {"CONTACTOR_CLOSE", "RUN"} /\ UNCHANGED safeOff
             /\ relay' = FALSE /\ duty' = "hold"
      BY <1>10 DEF HandleContactorClose, PullInTime, NoFault
    <2> QED
      BY <2>1, <2>2 DEF PulledIn, Advanced, StageStep
  <1>11. CASE PullIn
    BY <1>11, <1>t DEF PullIn, MainAt, NoFault, EnergizeJustified, PulledIn
  <1>12. CASE HandleRun
    BY <1>12 DEF HandleRun
  <1> QED
    BY <1>1, <1>2, <1>3, <1>4, <1>5, <1>6, <1>7, <1>8, <1>9, <1>10, <1>11,
       <1>12 DEF MainTask, PccLoop

\* A drive that is whole stays whole unless a safe-off is owed.
LEMMA MainWhole ==
    ASSUME IInv, MainTask
    PROVE  DriveIsWhole'
  <1>t. TypeOK /\ OutputsMatchStage /\ DriveIsWhole
    BY DEF IInv
  <1>1. SafeOffOwed => SafeOffOwed'
    BY MainOwed, <1>t
  <1>2. CASE UNCHANGED <<state, relay, duty>>
    BY <1>1, <1>2, <1>t DEF DriveIsWhole
  <1>3. CASE Redriven \/ Advanced
    <2>1. state' \in {"OFF", "SELF_TEST", "PRECHARGE", "CONTACTOR_CLOSE", "RUN"}
      BY <1>3, <1>t DEF Redriven, Advanced, StageStep, TypeOK
    <2>2. Whole(state', relay', duty')
      BY <1>3 DEF Redriven, Advanced
    <2> QED
      BY <2>1, <2>2 DEF DriveIsWhole, Whole
  <1>4. CASE (Closed \/ PulledIn) /\ UNCHANGED safeOff
    <2>1. SafeOffOwed' <=> SafeOffOwed
      BY <1>4, SameOwed
    <2> QED
      BY <1>4, <2>1, <1>t DEF DriveIsWhole, Whole, Closed, PulledIn, TypeOK
  <1> QED
    BY <1>2, <1>3, <1>4, MainMoves

\* No step of the other tasks cancels a safe-off.
LEMMA OtherOwed ==
    ASSUME TypeOK, BmsTask \/ UartTask \/ DeadlinePasses
    PROVE  SafeOffOwed => SafeOffOwed'
  <1>1. CASE UNCHANGED safeOff
    BY <1>1, SameOwed
  <1>2. ASSUME NEW fault \in BmsFault, NEW on \in BOOLEAN, UpdateError("bms", fault, on)
        PROVE  SafeOffOwed => SafeOffOwed'
    BY <1>2, OtherFaultEffect, UpdateErrorFacts DEF Task
  <1>3. CASE UpdateError("uart", "BatteryVoltageMismatch", FALSE)
    BY <1>3, OtherFaultEffect, UpdateErrorFacts DEF Task
  <1> QED
    BY <1>1, <1>2, <1>3, OtherFaultEffect

\* The other tasks switch off or leave the drives alone.
LEMMA OtherWhole ==
    ASSUME IInv, BmsTask \/ UartTask \/ DeadlinePasses
    PROVE  DriveIsWhole'
  <1>t. TypeOK /\ DriveIsWhole
    BY DEF IInv
  <1>1. SafeOffOwed => SafeOffOwed'
    BY OtherOwed, <1>t
  <1>2. \/ UNCHANGED <<state, relay, duty>>
        \/ state' = "OFF" /\ relay' = FALSE /\ duty' = "off"
    <2> USE DEF outputVars, DisableOutputs
    <2>1. CASE BmsTask
      BY <2>1 DEF BmsTask, CompleteStartup, SetBmsFault
    <2>2. CASE UartTask
      BY <2>2 DEF UartTask, RequestRun, RequestStop, ClearMismatch, Acknowledge,
         PrepareUpdate, CommitUpdate, EndUpdateRequest
    <2>3. CASE DeadlinePasses
      BY <2>3 DEF DeadlinePasses
    <2> QED
      BY <2>1, <2>2, <2>3
  <1> QED
    BY <1>1, <1>2, <1>t DEF DriveIsWhole, Whole

-----------------------------------------------------------------------------
(* The inductive invariant and the safety theorems *)

\* A boot starts with the path off and nothing owed.
LEMMA InitIInv == Init => IInv
  <1> SUFFICES ASSUME Init PROVE IInv
    OBVIOUS
  <1>1. TypeOK
    BY InitTypeOK
  <1>2. \A t \in Task : safeOff[t] = "none"
    BY DEF Init
  <1>3. state = "OFF" /\ ~relay /\ duty = "off" /\ at = "Idle" /\ ~prepared /\ ~locked
    BY DEF Init
  <1> QED
    BY <1>1, <1>2, <1>3 DEF IInv, OutputsMatchStage, StageSupported, EnergizeJustified,
       DrivingStageIsShutOff, OwedForACondition, UpdateReleased, DriveIsWhole, Whole,
       Energized, Task

\* So does every reset.
LEMMA ResetIInv == Reset => IInv'
  <1> SUFFICES ASSUME Reset PROVE IInv'
    OBVIOUS
  <1>1. TypeOK'
    BY ResetTypeOK
  <1>2. \A t \in Task : safeOff'[t] = "none"
    BY DEF Reset
  <1>3. (state = "OFF" /\ ~relay /\ duty = "off" /\ at = "Idle" /\ ~prepared /\ ~locked)'
    BY DEF Reset, DisableOutputs
  <1> QED
    BY <1>1, <1>2, <1>3 DEF IInv, OutputsMatchStage, StageSupported, EnergizeJustified,
       DrivingStageIsShutOff, OwedForACondition, UpdateReleased, DriveIsWhole, Whole,
       Energized, Task

\* IInv is an invariant of the supervisor.
THEOREM Inductive == Spec => []IInv
  <1>1. Init => IInv
    BY InitIInv
  <1>2. IInv /\ [Next]_vars => IInv'
    <2> SUFFICES ASSUME IInv, [Next]_vars PROVE IInv'
      OBVIOUS
    <2> USE DEF IInv, Owe, Path
    <2>1. CASE MainTask
      <3>1. TypeOK'
        BY <2>1, PccLoopTypeOK, OthersTypeOK DEF MainTask
      <3> QED
        BY <2>1, <3>1, MainOwe, MainPath, MainWhole
    <2>2. CASE BmsTask \/ UartTask \/ DeadlinePasses
      <3>1. TypeOK'
        BY <2>2, OthersTypeOK
      <3> QED
        BY <2>2, <3>1, OtherOwe, OtherPath, OtherWhole
    <2>3. CASE SafeOff
      <3>1. TypeOK'
        BY <2>3, OthersTypeOK
      <3> QED
        BY <2>3, <3>1, SafeOffKept
    <2>4. CASE Reset
      BY <2>4, ResetIInv
    <2>5. CASE UNCHANGED vars
      BY <2>5 DEF vars, TypeOK, OutputsMatchStage, StageSupported, EnergizeJustified,
         DrivingStageIsShutOff, OwedForACondition, UpdateReleased, DriveIsWhole,
         Energized, Blocking, SafeOffOwed
    <2> QED
      BY <2>1, <2>2, <2>3, <2>4, <2>5 DEF Next
  <1> QED
    BY <1>1, <1>2, PTL DEF Spec

\* Outputs under a blocking fault are always being shut off, for any set of BMS faults
\* and however the three tasks interleave.
THEOREM FaultedPathIsShutOff == Spec => []FaultedOutputsAreShutOff
  <1>1. IInv => FaultedOutputsAreShutOff
    BY DEF IInv, FaultedOutputsAreShutOff, OutputsMatchStage, DrivingStageIsShutOff,
       Energized, TypeOK
  <1> QED
    BY <1>1, Inductive, PTL

\* Neither driver is ever on outside its stage, without a request or before start-up.
THEOREM OutputsFollowStage == Spec => []OutputsMatchStage
  <1>1. IInv => OutputsMatchStage
    BY DEF IInv
  <1> QED
    BY <1>1, Inductive, PTL

\* An accepted firmware update holds the path off until it expires or the chip restarts.
THEOREM UpdateKeepsPathOff == Spec => []UpdateHoldsHvOff
  <1>1. IInv => UpdateHoldsHvOff
    BY DEF IInv, UpdateHoldsHvOff, OutputsMatchStage, UpdateReleased, Energized
  <1> QED
    BY <1>1, Inductive, PTL

\* No safe-off is executed for a fault that is long gone and acknowledged.
THEOREM SafeOffsAreTimely == Spec => []NoStaleSafeOff
  <1>1. IInv => NoStaleSafeOff
    BY DEF IInv, NoStaleSafeOff, OwedForACondition, SafeOffOwed, Blocking, Task
  <1> QED
    BY <1>1, Inductive, PTL

-----------------------------------------------------------------------------
(* The supervisor implements HvSequence *)

\* Consecutive stages of the sequence.
LEMMA StageOrder ==
    ASSUME NEW s, NEW u, StageStep(s, u)
    PROVE  \E i \in 1..4 : s = Sequence!Stages[i] /\ u = Sequence!Stages[i + 1]
  <1> DEFINE P(i) == s = Sequence!Stages[i] /\ u = Sequence!Stages[i + 1]
  <1>1. P(1) \/ P(2) \/ P(3) \/ P(4)
    BY DEF Sequence!Stages, StageStep
  <1>2. 1 \in 1..4 /\ 2 \in 1..4 /\ 3 \in 1..4 /\ 4 \in 1..4
    OBVIOUS
  <1> QED
    BY <1>1, <1>2

\* The drives of the stages, without the case distinction.
LEMMA StageDrives ==
    /\ Sequence!Drives("OFF") = {[relay |-> FALSE, duty |-> "off"]}
    /\ Sequence!Drives("SELF_TEST") = {[relay |-> FALSE, duty |-> "off"]}
    /\ Sequence!Drives("PRECHARGE") = {[relay |-> TRUE, duty |-> "off"]}
    /\ Sequence!Drives("CONTACTOR_CLOSE") = {[relay |-> TRUE, duty |-> "full"],
                                              [relay |-> FALSE, duty |-> "hold"]}
    /\ Sequence!Drives("RUN") = {[relay |-> FALSE, duty |-> "hold"]}
  BY DEF Sequence!Drives, Sequence!Off

Stage == {"OFF", "SELF_TEST", "PRECHARGE", "CONTACTOR_CLOSE", "RUN"}

\* A whole drive is one of its stage.
LEMMA WholeDrives ==
    ASSUME NEW s \in Stage, NEW r \in BOOLEAN, NEW d, Whole(s, r, d)
    PROVE  [relay |-> r, duty |-> d] \in Sequence!Drives(s)
  BY StageDrives DEF Whole, Stage

\* A drive that lost a driver is what a trip leaves of one of its stage.
LEMMA PartialDrives ==
    ASSUME NEW s \in Stage, NEW r \in BOOLEAN, NEW d \in {"off", "full", "hold"},
           r => s \in {"PRECHARGE", "CONTACTOR_CLOSE"},
           d = "full" => s = "CONTACTOR_CLOSE",
           d = "hold" => s \in {"CONTACTOR_CLOSE", "RUN"},
           ~(r /\ d = "hold")
    PROVE  [relay |-> r, duty |-> d] \in Sequence!Drives(s) \cup Sequence!Dropped(s)
  <1> DEFINE drive == [relay |-> r, duty |-> d]
             full  == [relay |-> TRUE, duty |-> "full"]
             hold  == [relay |-> FALSE, duty |-> "hold"]
             pre   == [relay |-> TRUE, duty |-> "off"]
  <1>1. CASE r = FALSE /\ d = "off"
    BY <1>1 DEF Sequence!Dropped, Sequence!Off
  <1>2. CASE r = TRUE /\ d = "off"
    <2>1. CASE s = "PRECHARGE"
      BY <1>2, <2>1, StageDrives
    <2>2. CASE s = "CONTACTOR_CLOSE"
      <3>1. full \in Sequence!Drives(s)
        BY <2>2, StageDrives
      <3>2. drive = [relay |-> full.relay, duty |-> "off"]
        BY <1>2
      <3> QED
        BY <3>1, <3>2 DEF Sequence!Dropped
    <2> QED
      BY <1>2, <2>1, <2>2
  <1>3. CASE d = "full"
    <2>1. full \in Sequence!Drives(s)
      BY <1>3, StageDrives
    <2>2. CASE r = TRUE
      BY <1>3, <2>1, <2>2
    <2>3. CASE r = FALSE
      <3>1. drive = [relay |-> FALSE, duty |-> full.duty]
        BY <1>3, <2>3
      <3> QED
        BY <2>1, <3>1 DEF Sequence!Dropped
    <2> QED
      BY <2>2, <2>3
  <1>4. CASE d = "hold"
    BY <1>4, StageDrives
  <1> QED
    BY <1>1, <1>2, <1>3, <1>4

\* Under the invariant of the supervisor its drives are those of the sequence.
LEMMA DrivesShown ==
    ASSUME NEW owed \in BOOLEAN, TypeOK', OutputsMatchStage', DriveIsWhole',
           owed \/ Whole(state', relay', duty')
    PROVE  Sequence!Drive' \in Sequence!Drives(state')
                               \cup (IF owed THEN Sequence!Dropped(state') ELSE {})
  <1>1. state' \in Stage /\ relay' \in BOOLEAN /\ duty' \in {"off", "full", "hold"}
    BY DEF TypeOK, Stage
  <1>2. Sequence!Drive' = [relay |-> relay', duty |-> duty']
    BY DEF Sequence!Drive
  <1>3. CASE owed
    <2>1. Sequence!Drive' \in Sequence!Drives(state') \cup Sequence!Dropped(state')
      BY <1>1, <1>2, PartialDrives DEF OutputsMatchStage, DriveIsWhole
    <2> QED
      BY <1>3, <2>1
  <1>4. CASE Whole(state', relay', duty')
    BY <1>1, <1>2, <1>4, WholeDrives
  <1> QED
    BY <1>3, <1>4

\* Steps that map to steps of the sequence: switching off ...
LEMMA ShuttingOff ==
    ASSUME state' = "OFF", relay' = FALSE, duty' = "off",
           runRequest' \in {runRequest, FALSE}
    PROVE  Sequence!SNext
  BY DEF Sequence!SNext, Sequence!ShutOff, Sequence!Drive, Sequence!Off, SafeOffOwed

\* ... a step within a stage, whole if it is the one that begins a trip ...
LEMMA Redriving ==
    ASSUME IInv, IInv', UNCHANGED <<state, runRequest>>,
           SafeOffOwed => SafeOffOwed',
           SafeOffOwed \/ Whole(state', relay', duty')
    PROVE  Sequence!SNext
  <1>1. SafeOffOwed \in BOOLEAN /\ SafeOffOwed' \in BOOLEAN
    BY DEF SafeOffOwed
  <1>2. SafeOffOwed' \in {SafeOffOwed, TRUE}
    BY <1>1
  <1>3. Sequence!Shows(state)
    BY <1>1, DrivesShown DEF IInv, Sequence!Shows
  <1>4. Sequence!Drive' = Sequence!Off \/ runRequest
    <2>1. Energized' => runRequest'
      BY DEF IInv, OutputsMatchStage
    <2>2. ~Energized' => relay' = FALSE /\ duty' = "off"
      BY DEF IInv, Energized, TypeOK
    <2> QED
      BY <2>1, <2>2 DEF Sequence!Drive, Sequence!Off
  <1>5. Sequence!Redrive
    BY <1>2, <1>3, <1>4 DEF Sequence!Redrive
  <1> QED
    BY <1>5 DEF Sequence!SNext

\* ... and a step to the next stage.
LEMMA Advancing ==
    ASSUME IInv, IInv', UNCHANGED <<safeOff, runRequest>>, runRequest,
           StageStep(state, state')
    PROVE  Sequence!SNext
  <1>1. SafeOffOwed \in BOOLEAN /\ SafeOffOwed' = SafeOffOwed
    BY DEF SafeOffOwed
  <1>2. SafeOffOwed \/ Whole(state', relay', duty')
    BY <1>1 DEF IInv, DriveIsWhole
  <1>3. Sequence!Shows(state')
    BY <1>1, <1>2, DrivesShown DEF IInv, Sequence!Shows
  <1>4. \E i \in 1..4 : state = Sequence!Stages[i] /\ state' = Sequence!Stages[i + 1]
    BY StageOrder
  <1>5. Sequence!Advance
    BY <1>1, <1>3, <1>4 DEF Sequence!Advance
  <1> QED
    BY <1>5 DEF Sequence!SNext

\* Each step of the main task is a step of the sequence.
LEMMA MainSequence ==
    ASSUME IInv, IInv', MainTask
    PROVE  Sequence!SNext
  <1>t. TypeOK /\ DriveIsWhole
    BY DEF IInv
  <1>1. (SafeOffOwed => SafeOffOwed') /\ UNCHANGED runRequest
    BY MainOwed, MainMoves, <1>t
  <1>2. CASE UNCHANGED <<state, relay, duty>>
    <2>1. SafeOffOwed \/ Whole(state', relay', duty')
      BY <1>2, <1>t DEF DriveIsWhole
    <2> QED
      BY <1>1, <1>2, <2>1, Redriving
  <1>3. CASE Redriven
    <2>1. CASE state' = "OFF"
      <3>1. relay' = FALSE /\ duty' = "off"
        BY <1>3, <2>1 DEF Redriven, Whole, IInv, TypeOK
      <3> QED
        BY <1>1, <2>1, <3>1, ShuttingOff
    <2>2. CASE state' = state
      BY <1>1, <1>3, <2>2, Redriving DEF Redriven
    <2> QED
      BY <1>3, <2>1, <2>2 DEF Redriven
  <1>4. CASE (Advanced \/ Closed) /\ UNCHANGED safeOff
    BY <1>1, <1>4, Advancing DEF Advanced, Closed, StageStep
  <1>5. CASE PulledIn /\ UNCHANGED safeOff
    <2>1. SafeOffOwed' <=> SafeOffOwed
      BY <1>5, SameOwed
    <2>2. SafeOffOwed \/ Whole(state', relay', duty')
      BY <2>1 DEF IInv, DriveIsWhole
    <2> QED
      BY <1>1, <1>5, <2>2, Redriving DEF PulledIn
  <1> QED
    BY <1>2, <1>3, <1>4, <1>5, MainMoves

\* So is each step of the other tasks, of time and of a reset, or it is none.
LEMMA OtherSequence ==
    ASSUME IInv, IInv', BmsTask \/ UartTask \/ SafeOff \/ DeadlinePasses \/ Reset
    PROVE  [Sequence!SNext]_(Sequence!svars)
  <1> USE DEF outputVars, DisableOutputs
  <1>1. CASE BmsTask
    <2>1. UNCHANGED <<state, runRequest, relay, duty>>
      BY <1>1 DEF BmsTask, CompleteStartup, SetBmsFault
    <2>2. SafeOffOwed => SafeOffOwed'
      BY <1>1, OtherOwed DEF IInv
    <2>3. SafeOffOwed \/ Whole(state', relay', duty')
      BY <2>1 DEF IInv, DriveIsWhole
    <2> QED
      BY <2>1, <2>2, <2>3, Redriving
  <1>2. CASE RequestRun
    <2>1. SafeOffOwed' = SafeOffOwed
      BY <1>2 DEF RequestRun, SafeOffOwed
    <2> QED
      BY <1>2, <2>1 DEF RequestRun, Sequence!Ask, Sequence!SNext
  <1>3. CASE RequestStop \/ PrepareUpdate
    BY <1>3, ShuttingOff DEF RequestStop, PrepareUpdate
  <1>4. CASE CommitUpdate
    <2>1. CASE prepared /\ ~expired
      BY <1>4, <2>1, ShuttingOff DEF CommitUpdate
    <2>2. CASE ~(prepared /\ ~expired)
      BY <1>4, <2>2 DEF CommitUpdate, Sequence!svars, SafeOffOwed
    <2> QED
      BY <2>1, <2>2
  <1>5. CASE Acknowledge \/ EndUpdateRequest \/ DeadlinePasses
    BY <1>5 DEF Acknowledge, EndUpdateRequest, DeadlinePasses, Sequence!svars,
       SafeOffOwed
  <1>6. CASE ClearMismatch
    <2>1. UNCHANGED <<state, runRequest, relay, duty, safeOff>>
      BY <1>6 DEF ClearMismatch, UpdateError
    <2> QED
      BY <2>1 DEF Sequence!svars, SafeOffOwed
  <1>7. CASE SafeOff
    <2> PICK t \in Task : SafeOffDrop(t) \/ SafeOffLocked(t)
      BY <1>7 DEF SafeOff
    <2>1. CASE SafeOffDrop(t)
      <3>1. UNCHANGED <<state, runRequest>> /\ SafeOffOwed /\ SafeOffOwed'
        BY <2>1 DEF SafeOffDrop, DropRelay, DropContactor, SafeOffOwed, IInv, TypeOK
      <3> QED
        BY <3>1, Redriving
    <2>2. CASE SafeOffLocked(t)
      BY <2>2, ShuttingOff DEF SafeOffLocked
    <2> QED
      BY <2>1, <2>2
  <1>8. CASE Reset
    BY <1>8, ShuttingOff DEF Reset
  <1> QED
    BY <1>1, <1>2, <1>3, <1>4, <1>5, <1>6, <1>7, <1>8 DEF UartTask

\* The supervisor implements the sequence: the contactor is reached only through
\* self-test and precharge, a stage at a time and under a run request, and a driver is
\* missing only while a safe-off is owed, which ends with both off.
THEOREM ImplementsSequence == Spec => SequenceSpec
  <1>1. Init => Sequence!SInit
    <2>1. Init => SafeOffOwed = FALSE
      BY DEF Init, SafeOffOwed
    <2> QED
      BY <2>1 DEF Init, Sequence!SInit
  <1>2. IInv /\ IInv' /\ [Next]_vars => [Sequence!SNext]_(Sequence!svars)
    <2>1. CASE UNCHANGED vars
      BY <2>1 DEF vars, Sequence!svars, SafeOffOwed
    <2> QED
      BY <2>1, MainSequence, OtherSequence DEF Next
  <1> QED
    BY <1>1, <1>2, Inductive, PTL DEF Spec, SequenceSpec, Sequence!SSpec
=============================================================================
