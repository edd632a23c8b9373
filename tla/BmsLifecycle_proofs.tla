------------------------- MODULE BmsLifecycle_proofs -------------------------
(***************************************************************************)
(* Proofs about BmsLifecycle for every chain length, retry budget, trip    *)
(* count and set of detectable faults: fault bits match their inputs, high *)
(* voltage is only on a running, fault-free BMS, and the snapshots tell    *)
(* the truth.                                                              *)
(*                                                                         *)
(* None of the three is inductive.  What the task publishes, and whether   *)
(* it may leave RUNNING, depends on the step it is at: the parts below say *)
(* what is known at each step.                                             *)
(***************************************************************************)
EXTENDS BmsLifecycle, TLAPS

\* One call of updateFault that faultDetection still has to make.
Detected == {DetectionOrder[i] : i \in DOMAIN DetectionOrder}
Report   == {r \in [input : Detected, on : BOOLEAN] : r.on => r.input \in Detectable}

\* Those calls are made before the task goes on.
UpdatesOK ==
    /\ updates \in Seq(Report)
    /\ updates # <<>> => at \in {"Balance", "Check"}

\* An active fault bit has shut high voltage off.
FaultShutsOff == hv # "off" => active = {}

\* The state each step of the task belongs to, and the fault that a restart starts with.
StepsFollowState ==
    /\ at = "InitDevices" => currentState = "DEVICE_INITIALIZATION"
    /\ at \in {"Measure", "Detect", "Check", "Restart", "Started"} =>
          currentState \in {"PERFORMING_DIAGNOSTICS", "RUNNING"}
    /\ at \in {"Balance", "Hold", "StoreHeld"} => currentState = "RUNNING"
    /\ at = "Restart" => "COMMUNICATION_TIMEOUT" \in inputs

\* From the check that starts RUNNING on, the failure count and the communication warning
\* agree; a count that has reached the trip count is about to be reset by a restart.
CountMatchesWarning ==
    /\ currentState = "RUNNING" \/ at = "Started" => commFault = (commFailures > 0)
    /\ at # "Restart" => commFailures < TripCount

\* What was kept from earlier cycles belongs to RUNNING; a valid frame leaves a snapshot
\* that can be held.
KeptInRunning ==
    /\ held.valid \/ publishedFresh => currentState = "RUNNING"
    /\ latest.valid => held.valid

\* What is known when a snapshot is built, and what of it still holds when it is stored.
PublicationIsJustified ==
    /\ at = "Started" /\ ~commFault => complete
    /\ at \in {"Hold", "StoreHeld"} => commFault
    /\ at = "StoreHeld" => draft.valid /\ draft.comm /\ held.valid /\ ~publishedFresh
    /\ at = "Publish" => IF currentState = "RUNNING" THEN complete /\ ~commFault ELSE ~complete
    /\ at = "Store" =>
          IF draft.valid THEN currentState = "RUNNING" /\ complete /\ ~commFault /\ ~draft.comm
                         ELSE ~draft.fresh

-----------------------------------------------------------------------------
(* Type correctness *)

States == {"DEVICE_INITIALIZATION", "REGISTER_INITIALIZATION", "PERFORMING_DIAGNOSTICS",
           "RUNNING", "CRITICAL"}
Steps  == {"Idle", "InitDevices", "Measure", "Detect", "Balance", "Check", "Restart",
           "Started", "Hold", "StoreHeld", "Publish", "Store"}

\* The variables setState writes, those updateFault writes, the retry counters and the rest.
StateTypes ==
    /\ currentState \in States
    /\ complete \in BOOLEAN /\ commFailures \in 0..TripCount
    /\ publishedFresh \in BOOLEAN /\ publishedValid \in BOOLEAN
    /\ latest \in Snapshot /\ held \in Snapshot

FaultTypes ==
    /\ inputs \subseteq Inputs /\ active \subseteq Bits /\ latched \in BOOLEAN
    /\ hv \in {"off", "starting", "RUN"}

RetryTypes ==
    /\ retryDue \in BOOLEAN
    /\ tplFailures \in 0..CounterSize - 1 /\ registerFailures \in 0..CounterSize - 1
    /\ cidFailures \in [1..SlaveCount -> 0..CounterSize - 1]
    /\ diagnosticsFailures \in 0..RetryBudget

StepTypes ==
    /\ commFault \in BOOLEAN /\ startupComplete \in BOOLEAN
    /\ draft \in Snapshot /\ at \in Steps /\ good \in BOOLEAN
    /\ healthy \in BOOLEAN /\ chain \in Anything

\* The type invariant in the parts the proofs of it use.
LEMMA TypeParts ==
    /\ TypeOK <=> StateTypes /\ FaultTypes /\ RetryTypes /\ StepTypes
    /\ TypeOK' <=> StateTypes' /\ FaultTypes' /\ RetryTypes' /\ StepTypes'
  BY DEF TypeOK, StateTypes, FaultTypes, RetryTypes, StepTypes, States, Steps

\* A counter that has counted is still one.
LEMMA CountTypes == \A n \in 0..CounterSize - 1 : Count(n) \in 0..CounterSize - 1
  BY CountAssumption DEF Count

\* The empty snapshot is a snapshot.
LEMMA SnapshotTypes == NoSnapshot \in Snapshot
  BY DEF NoSnapshot, Snapshot

\* Only fault inputs are mapped, and to fault bits.
LEMMA MappedTypes == \A set : set \subseteq Inputs => Mapped(set) \subseteq Bits
  BY DEF Mapped, Bits

\* What faultDetection looks at are inputs.
LEMMA DetectedTypes == Detectable \subseteq Inputs
  BY DEF Inputs

\* An update of an input that may be set keeps the types of the fault manager's state.
LEMMA UpdateFaultTypes ==
    ASSUME FaultTypes, NEW input, NEW on \in BOOLEAN, on => input \in Inputs,
           updateFault(input, on)
    PROVE  FaultTypes'
<1>1. inputs' \subseteq Inputs
  BY DEF FaultTypes, updateFault
<1>2. Mapped(inputs') \subseteq Bits
  BY <1>1, MappedTypes
<1>3. active' \subseteq Bits
  BY <1>2 DEF FaultTypes, updateFault, SetBmsFault
<1>4. latched' \in BOOLEAN /\ hv' \in {"off", "starting", "RUN"}
  BY DEF FaultTypes, updateFault, SetBmsFault
<1> QED  BY <1>1, <1>3, <1>4 DEF FaultTypes

\* A change of state keeps the types of what it resets.
LEMMA SetStateTypes ==
    ASSUME StateTypes, NEW s \in States, setState(s)
    PROVE  StateTypes'
<1>0. 0 \in 0..TripCount
  BY CountAssumption
<1>1. CASE s = "RUNNING"
  BY <1>1 DEF StateTypes, setState
<1>2. CASE s # "RUNNING"
  BY <1>0, <1>2, SnapshotTypes DEF StateTypes, setState
<1> QED  BY <1>1, <1>2

\* Staying in a state keeps the types.
LEMMA StayTypes ==
    ASSUME StateTypes, StayInState
    PROVE  StateTypes'
  BY DEF StateTypes, StayInState

\* The calls still to be made shrink from the front.
LEMMA UpdatesShrink ==
    ASSUME updates \in Seq(Report), updates # <<>>
    PROVE  /\ Head(updates).on \in BOOLEAN
           /\ Head(updates).on => Head(updates).input \in Inputs
           /\ Tail(updates) \in Seq(Report)
<1>1. Head(updates) \in Report /\ Tail(updates) \in Seq(Report)
  OBVIOUS
<1> QED  BY <1>1, DetectedTypes DEF Report

\* faultDetection reports each of its inputs once, set or cleared.
LEMMA ReportTypes ==
    ASSUME NEW found \in SUBSET Detectable
    PROVE  [i \in DOMAIN DetectionOrder |->
              [input |-> DetectionOrder[i], on |-> DetectionOrder[i] \in found]] \in Seq(Report)
<1>1. DOMAIN DetectionOrder = 1..7
  BY DEF DetectionOrder
<1>2. \A i \in DOMAIN DetectionOrder :
        [input |-> DetectionOrder[i], on |-> DetectionOrder[i] \in found] \in Report
  <2>1. SUFFICES ASSUME NEW i \in DOMAIN DetectionOrder
                 PROVE  [input |-> DetectionOrder[i], on |-> DetectionOrder[i] \in found]
                          \in Report
    OBVIOUS
  <2> DEFINE r == [input |-> DetectionOrder[i], on |-> DetectionOrder[i] \in found]
  <2>2. DetectionOrder[i] \in Detected /\ (DetectionOrder[i] \in found) \in BOOLEAN
    BY DEF Detected
  <2>3. r \in [input : Detected, on : BOOLEAN]
    BY <2>2
  <2>4. r.on => r.input \in Detectable
    OBVIOUS
  <2> QED  BY <2>3, <2>4 DEF Report
<1> QED  BY <1>1, <1>2

\* The types hold when the task starts.
LEMMA TypesHoldInitially ==
    ASSUME Init PROVE TypeOK /\ UpdatesOK
<1>0. 0 \in 0..TripCount
  BY CountAssumption
<1>1. StateTypes
  <2>1. currentState \in States
    BY DEF Init, States
  <2> QED  BY <1>0, <2>1, SnapshotTypes DEF Init, StateTypes
<1>2. FaultTypes
  <2>1. inputs \subseteq Inputs /\ active \subseteq Mapped(inputs)
    BY DEF Init, Inputs, Mapped
  <2>2. active \subseteq Bits
    BY <2>1, MappedTypes
  <2> QED  BY <2>1, <2>2 DEF Init, FaultTypes
<1>3. RetryTypes
  BY CountAssumption DEF Init, RetryTypes
<1>4. StepTypes
  BY SnapshotTypes DEF Init, StepTypes, Steps
<1>5. UpdatesOK
  BY DEF Init, UpdatesOK
<1> QED  BY <1>1, <1>2, <1>3, <1>4, <1>5, TypeParts

\* Every input the task sets by name is a fault input.
LEMMA InputNames ==
    {"TPL_FAULT", "CID_INITIALIZATION_FAULT", "REGISTER_INITIALIZATION_FAULT",
     "DIAGNOSTICS_FAULT", "CELL_BALANCING_FAULT", "COMMUNICATION_TIMEOUT"} \subseteq Inputs
  BY DEF Inputs

\* A step taken at a step of the task, with no call of updateFault outstanding.
LEMMA NoUpdatesStay ==
    ASSUME updates = <<>>, UNCHANGED updates
    PROVE  UpdatesOK'
  BY DEF UpdatesOK

\* Bringing up the chain keeps the types and the order of the reports.
LEMMA BringUpTypes ==
    ASSUME TypeOK, UpdatesOK, BringUp
    PROVE  TypeOK' /\ UpdatesOK'
<1> USE TypeParts
<1>1. CASE TplFails
  <2>1. FaultTypes'
    BY <1>1, UpdateFaultTypes, InputNames DEF TplFails, faultVars, FaultTypes
  <2>2. RetryTypes'
    BY <1>1, CountTypes DEF TplFails, RetryTypes
  <2>3. StateTypes' /\ StepTypes' /\ UpdatesOK'
    BY <1>1, StayTypes, NoUpdatesStay DEF TplFails, Due, At, StepTypes, chainVars
  <2> QED  BY <2>1, <2>2, <2>3
<1>2. CASE TplReady
  <2>1. FaultTypes'
    BY <1>2, UpdateFaultTypes DEF TplReady
  <2>2. RetryTypes'
    BY <1>2, CountAssumption DEF TplReady, RetryTypes
  <2>3. StateTypes' /\ StepTypes' /\ UpdatesOK'
    BY <1>2, StayTypes, NoUpdatesStay DEF TplReady, Due, At, StepTypes, Steps, chainVars
  <2> QED  BY <2>1, <2>2, <2>3
<1>3. CASE InitDevicesFails
  <2>1. PICK i \in 1..SlaveCount :
          /\ cidFailures' = [j \in 1..SlaveCount |->
                              IF j < i THEN 0
                              ELSE IF j = i THEN Count(cidFailures[j]) ELSE cidFailures[j]]
          /\ IF cidFailures'[i] >= RetryBudget
             THEN updateFault("CID_INITIALIZATION_FAULT", TRUE)
             ELSE UNCHANGED faultVars
    BY <1>3 DEF InitDevicesFails
  <2>2. FaultTypes'
    BY <2>1, UpdateFaultTypes, InputNames DEF faultVars, FaultTypes
  <2>3. cidFailures' \in [1..SlaveCount -> 0..CounterSize - 1]
    <3>1. \A j \in 1..SlaveCount : cidFailures[j] \in 0..CounterSize - 1
      BY DEF RetryTypes
    <3>2. 0 \in 0..CounterSize - 1
      BY CountAssumption
    <3> QED  BY <2>1, <3>1, <3>2, CountTypes
  <2>4. RetryTypes'
    BY <1>3, <2>3 DEF InitDevicesFails, RetryTypes
  <2>5. StateTypes' /\ StepTypes' /\ UpdatesOK'
    BY <1>3, StayTypes, NoUpdatesStay
       DEF InitDevicesFails, At, StepTypes, Steps, Anything
  <2> QED  BY <2>2, <2>4, <2>5
<1>4. CASE InitDevices
  <2>1. FaultTypes'
    BY <1>4, UpdateFaultTypes DEF InitDevices
  <2>2. RetryTypes'
    BY <1>4, CountAssumption DEF InitDevices, RetryTypes
  <2>3. StateTypes'
    BY <1>4, SetStateTypes DEF InitDevices, States
  <2>4. StepTypes' /\ UpdatesOK'
    BY <1>4, NoUpdatesStay DEF InitDevices, At, StepTypes, Steps, Anything
  <2> QED  BY <2>1, <2>2, <2>3, <2>4
<1>5. CASE initializeRegistersFails
  <2>1. FaultTypes'
    BY <1>5, UpdateFaultTypes, InputNames
       DEF initializeRegistersFails, faultVars, FaultTypes
  <2>2. RetryTypes'
    BY <1>5, CountTypes DEF initializeRegistersFails, RetryTypes
  <2>3. StateTypes' /\ StepTypes' /\ UpdatesOK'
    BY <1>5, StayTypes, NoUpdatesStay
       DEF initializeRegistersFails, Due, At, StepTypes, chainVars
  <2> QED  BY <2>1, <2>2, <2>3
<1>6. CASE initializeRegisters
  <2>1. FaultTypes'
    BY <1>6, UpdateFaultTypes DEF initializeRegisters
  <2>2. RetryTypes'
    BY <1>6, CountAssumption DEF initializeRegisters, RetryTypes
  <2>3. StateTypes'
    BY <1>6, SetStateTypes DEF initializeRegisters, States
  <2>4. StepTypes' /\ UpdatesOK'
    BY <1>6, NoUpdatesStay DEF initializeRegisters, Due, At, StepTypes, Anything
  <2> QED  BY <2>1, <2>2, <2>3, <2>4
<1>7. CASE diagnosticsFail
  <2>1. FaultTypes'
    <3>1. (diagnosticsFailures' >= RetryBudget) \in BOOLEAN
      OBVIOUS
    <3> QED  BY <1>7, <3>1, UpdateFaultTypes, InputNames DEF diagnosticsFail
  <2>2. RetryTypes'
    <3>1. diagnosticsFailures' \in 0..RetryBudget
      BY <1>7, CountAssumption DEF diagnosticsFail, RetryTypes
    <3> QED  BY <1>7, <3>1 DEF diagnosticsFail, RetryTypes
  <2>3. StateTypes'
    BY <1>7, SetStateTypes DEF diagnosticsFail, States
  <2>4. StepTypes' /\ UpdatesOK'
    BY <1>7, NoUpdatesStay DEF diagnosticsFail, Due, At, StepTypes, Anything
  <2> QED  BY <2>1, <2>2, <2>3, <2>4
<1>8. CASE diagnostics
  <2>1. FaultTypes'
    BY <1>8, UpdateFaultTypes DEF diagnostics
  <2>2. RetryTypes'
    BY <1>8, CountAssumption DEF diagnostics, RetryTypes
  <2>3. StateTypes' /\ StepTypes' /\ UpdatesOK'
    BY <1>8, StayTypes, NoUpdatesStay DEF diagnostics, Due, At, StepTypes, Steps, chainVars
  <2> QED  BY <2>1, <2>2, <2>3
<1> QED
  BY <1>1, <1>2, <1>3, <1>4, <1>5, <1>6, <1>7, <1>8 DEF BringUp

\* The steps of a measurement cycle up to the check.
Measuring ==
    StartCycle \/ Measure \/ faultDetection \/ ReportDetected \/ performCellBalancing

\* Measuring and reporting faults keeps them.
LEMMA MeasuringTypes ==
    ASSUME TypeOK, UpdatesOK, Measuring
    PROVE  TypeOK' /\ UpdatesOK'
<1> USE TypeParts
<1>1. CASE StartCycle
  BY <1>1, StayTypes, NoUpdatesStay
     DEF StartCycle, At, FaultTypes, RetryTypes, StepTypes, Steps, faultVars, retryVars,
         chainVars
<1>2. CASE Measure
  BY <1>2, NoUpdatesStay
     DEF Measure, At, StateTypes, FaultTypes, RetryTypes, StepTypes, Steps, faultVars,
         retryVars, publishVars, chainVars
<1>3. CASE faultDetection
  <2>1. updates' \in Seq(Report)
    BY <1>3, ReportTypes DEF faultDetection, UpdatesOK
  <2>2. updates' # <<>> => at' \in {"Balance", "Check"}
    BY <1>3 DEF faultDetection, At
  <2>3. FaultTypes' /\ RetryTypes'
    BY <1>3 DEF faultDetection, FaultTypes, RetryTypes, faultVars, retryVars
  <2>4. StateTypes' /\ StepTypes'
    BY <1>3, StayTypes DEF faultDetection, StepTypes, Steps, chainVars
  <2> QED  BY <2>1, <2>2, <2>3, <2>4 DEF UpdatesOK
<1>4. CASE ReportDetected
  <2>1. FaultTypes' /\ updates' \in Seq(Report)
    BY <1>4, UpdatesShrink, UpdateFaultTypes DEF ReportDetected, UpdatesOK
  <2>2. UpdatesOK'
    BY <1>4, <2>1 DEF ReportDetected, UpdatesOK
  <2>3. StateTypes' /\ RetryTypes' /\ StepTypes'
    BY <1>4, StayTypes DEF ReportDetected, RetryTypes, StepTypes, retryVars, chainVars
  <2> QED  BY <2>1, <2>2, <2>3
<1>5. CASE performCellBalancing
  <2>1. FaultTypes'
    BY <1>5, UpdateFaultTypes, InputNames DEF performCellBalancing, faultVars, FaultTypes
  <2>2. RetryTypes'
    BY <1>5 DEF performCellBalancing, RetryTypes, retryVars
  <2>3. StateTypes' /\ StepTypes' /\ UpdatesOK'
    BY <1>5, StayTypes, NoUpdatesStay
       DEF performCellBalancing, At, StepTypes, Steps, chainVars
  <2> QED  BY <2>1, <2>2, <2>3
<1> QED
  BY <1>1, <1>2, <1>3, <1>4, <1>5 DEF Measuring

\* The check of a cycle, and the restart or the start of RUNNING it decides.
Checking == CheckPasses \/ CheckRetries \/ CheckTrips \/ Restart \/ Started

\* The communication check keeps them.
LEMMA CheckingTypes ==
    ASSUME TypeOK, UpdatesOK, Checking
    PROVE  TypeOK' /\ UpdatesOK'
<1> USE TypeParts
<1>1. CASE CheckPasses
  <2>1. FaultTypes'
    BY <1>1, UpdateFaultTypes DEF CheckPasses
  <2>2. StateTypes'
    BY <1>1, CountAssumption DEF CheckPasses, StateTypes, publishVars
  <2>3. RetryTypes' /\ StepTypes' /\ UpdatesOK'
    BY <1>1, NoUpdatesStay
       DEF CheckPasses, At, RetryTypes, StepTypes, Steps, retryVars, publishVars, chainVars
  <2> QED  BY <2>1, <2>2, <2>3
<1>2. CASE CheckRetries
  <2>1. FaultTypes'
    BY <1>2, UpdateFaultTypes DEF CheckRetries
  <2>2. commFailures' \in 0..TripCount
    BY <1>2, CountAssumption DEF CheckRetries, Trips, StateTypes
  <2>3. StateTypes'
    BY <1>2, <2>2 DEF CheckRetries, StateTypes, publishVars
  <2>4. RetryTypes' /\ StepTypes' /\ UpdatesOK'
    BY <1>2, NoUpdatesStay
       DEF CheckRetries, At, RetryTypes, StepTypes, Steps, retryVars, publishVars, chainVars
  <2> QED  BY <2>1, <2>3, <2>4
<1>3. CASE CheckTrips
  <2>1. FaultTypes'
    BY <1>3, UpdateFaultTypes, InputNames DEF CheckTrips
  <2>2. StateTypes'
    BY <1>3, CountAssumption DEF CheckTrips, StateTypes, publishVars
  <2>3. RetryTypes' /\ StepTypes' /\ UpdatesOK'
    BY <1>3, NoUpdatesStay
       DEF CheckTrips, At, RetryTypes, StepTypes, Steps, retryVars, publishVars, chainVars
  <2> QED  BY <2>1, <2>2, <2>3
<1>4. CASE Restart
  <2>1. StateTypes'
    BY <1>4, SetStateTypes DEF Restart, States
  <2>2. FaultTypes' /\ RetryTypes' /\ StepTypes' /\ UpdatesOK'
    BY <1>4, NoUpdatesStay
       DEF Restart, At, FaultTypes, RetryTypes, StepTypes, Steps, faultVars, retryVars,
           chainVars
  <2> QED  BY <2>1, <2>2
<1>5. CASE Started
  <2>1. StateTypes'
    BY <1>5, SetStateTypes DEF Started, States
  <2>2. FaultTypes' /\ RetryTypes' /\ StepTypes' /\ UpdatesOK'
    BY <1>5, NoUpdatesStay
       DEF Started, At, FaultTypes, RetryTypes, StepTypes, Steps, faultVars, retryVars,
           chainVars
  <2> QED  BY <2>1, <2>2
<1> QED
  BY <1>1, <1>2, <1>3, <1>4, <1>5 DEF Checking

Publishing == Hold \/ StoreHeld \/ Publish \/ Store

\* The publication of a snapshot keeps them.
LEMMA PublishingTypes ==
    ASSUME TypeOK, UpdatesOK, Publishing
    PROVE  TypeOK' /\ UpdatesOK'
<1> USE TypeParts
<1>1. CASE Hold
  <2>1. (currentState = "RUNNING" /\ hv = "RUN" /\ CanEnableHv) \in BOOLEAN
    BY DEF CanEnableHv
  <2>2. draft' \in Snapshot
    BY <1>1, <2>1 DEF Hold, StateTypes, Snapshot
  <2>3. StateTypes' /\ FaultTypes' /\ RetryTypes'
    BY <1>1 DEF Hold, StateTypes, FaultTypes, RetryTypes, faultVars, retryVars
  <2>4. StepTypes' /\ UpdatesOK'
    BY <1>1, <2>2, NoUpdatesStay DEF Hold, At, StepTypes, Steps, chainVars
  <2> QED  BY <2>3, <2>4
<1>2. CASE StoreHeld
  <2>1. StateTypes' /\ FaultTypes' /\ RetryTypes'
    BY <1>2 DEF StoreHeld, StateTypes, StepTypes, FaultTypes, RetryTypes, faultVars, retryVars
  <2>2. StepTypes' /\ UpdatesOK'
    BY <1>2, SnapshotTypes, NoUpdatesStay DEF StoreHeld, At, StepTypes, Steps, chainVars
  <2> QED  BY <2>1, <2>2
<1>3. CASE Publish
  <2>1. PICK violation \in BOOLEAN :
          /\ draft' = [valid |-> complete /\ currentState = "RUNNING",
                       fresh |-> complete,
                       safe  |-> ~violation /\ complete /\ currentState = "RUNNING"
                                  /\ hv = "RUN" /\ CanEnableHv,
                       comm  |-> commFault]
          /\ SetBmsFault("InverterCurrentLimit", violation)
    BY <1>3 DEF Publish
  <2>2. draft' \in Snapshot
    <3>1. (complete /\ currentState = "RUNNING") \in BOOLEAN
      OBVIOUS
    <3>2. (~violation /\ complete /\ currentState = "RUNNING" /\ hv = "RUN" /\ CanEnableHv)
            \in BOOLEAN
      OBVIOUS
    <3>3. complete \in BOOLEAN /\ commFault \in BOOLEAN
      BY DEF StateTypes, StepTypes
    <3> QED  BY <2>1, <3>1, <3>2, <3>3 DEF Snapshot
  <2>3. FaultTypes'
    BY <1>3, <2>1 DEF Publish, SetBmsFault, FaultTypes, Bits
  <2>4. StateTypes' /\ RetryTypes' /\ StepTypes' /\ UpdatesOK'
    BY <1>3, <2>2, StayTypes, NoUpdatesStay
       DEF Publish, At, RetryTypes, StepTypes, Steps, retryVars, chainVars
  <2> QED  BY <2>3, <2>4
<1>4. CASE Store
  <2>1. PICK framePublished \in {draft.valid, FALSE} :
          LET snapshot == IF draft.valid /\ ~framePublished
                          THEN [draft EXCEPT !.fresh = FALSE, !.safe = FALSE] ELSE draft
          IN  /\ publishedValid' = IF draft.valid THEN publishedValid \/ framePublished
                                                  ELSE FALSE
              /\ publishedFresh' = snapshot.fresh
              /\ latest' = snapshot
              /\ held' = IF snapshot.valid /\ ~snapshot.comm THEN snapshot ELSE held
    BY <1>4 DEF Store
  <2> DEFINE snapshot == IF draft.valid /\ ~framePublished
                         THEN [draft EXCEPT !.fresh = FALSE, !.safe = FALSE] ELSE draft
  <2>2. snapshot \in Snapshot /\ snapshot.fresh \in BOOLEAN
    BY DEF StepTypes, Snapshot
  <2>3. StateTypes'
    BY <1>4, <2>1, <2>2 DEF Store, StateTypes
  <2>4. FaultTypes' /\ RetryTypes' /\ StepTypes' /\ UpdatesOK'
    BY <1>4, SnapshotTypes, NoUpdatesStay
       DEF Store, At, FaultTypes, RetryTypes, StepTypes, Steps, faultVars, retryVars, chainVars
  <2> QED  BY <2>3, <2>4
<1> QED
  BY <1>1, <1>2, <1>3, <1>4 DEF Publishing

\* What happens around the task keeps them.
LEMMA EnvironmentTypes ==
    ASSUME TypeOK, UpdatesOK, Environment
    PROVE  TypeOK' /\ UpdatesOK'
<1> USE TypeParts
<1>1. OwnFrame
  BY DEF Environment, StartHv, MoveHv, LatchHvFault, Acknowledge, RetryDelayPasses,
         ChainChanges, ChainDrops
<1>2. StateTypes' /\ UpdatesOK'
  BY <1>1 DEF OwnFrame, StateTypes, UpdatesOK, publishVars
<1>3. FaultTypes'
  <2>1. inputs' = inputs /\ active' = active
    BY <1>1 DEF OwnFrame
  <2>2. latched' \in BOOLEAN
    BY DEF Environment, StartHv, MoveHv, LatchHvFault, Acknowledge, RetryDelayPasses,
           ChainChanges, ChainDrops, FaultTypes
  <2>3. hv' \in {"off", "starting", "RUN"}
    BY DEF Environment, StartHv, MoveHv, LatchHvFault, Acknowledge, RetryDelayPasses,
           ChainChanges, ChainDrops, FaultTypes
  <2> QED  BY <2>1, <2>2, <2>3 DEF FaultTypes
<1>4. RetryTypes'
  <2>1. retryDue' \in BOOLEAN
    BY DEF Environment, StartHv, MoveHv, LatchHvFault, Acknowledge, RetryDelayPasses,
           ChainChanges, ChainDrops, RetryTypes
  <2> QED  BY <1>1, <2>1 DEF OwnFrame, RetryTypes, retryVars
<1>5. StepTypes'
  <2>1. healthy' \in BOOLEAN
    BY DEF Environment, StartHv, MoveHv, LatchHvFault, Acknowledge, RetryDelayPasses,
           ChainChanges, ChainDrops, StepTypes, chainVars
  <2>2. chain' \in Anything
    BY DEF Environment, StartHv, MoveHv, LatchHvFault, Acknowledge, RetryDelayPasses,
           ChainChanges, ChainDrops, StepTypes, chainVars, Anything
  <2> QED  BY <1>1, <2>1, <2>2 DEF OwnFrame, StepTypes, publishVars
<1> QED
  BY <1>2, <1>3, <1>4, <1>5

\* Every step is one of five kinds.
LEMMA NextParts ==
    Next <=> BringUp \/ Measuring \/ Checking \/ Publishing \/ Environment
  BY DEF Next, BmsTask, Cycle, Measuring, Checking, Publishing

\* Every step keeps the types and the order of the reports.
LEMMA NextTypes ==
    ASSUME TypeOK, UpdatesOK, [Next]_vars
    PROVE  TypeOK' /\ UpdatesOK'
<1>1. CASE UNCHANGED vars
  <2>1. StateTypes' /\ FaultTypes' /\ RetryTypes' /\ StepTypes'
    BY <1>1, TypeParts
       DEF vars, retryVars, faultVars, publishVars, chainVars, StateTypes, FaultTypes,
           RetryTypes, StepTypes
  <2>2. UpdatesOK'
    BY <1>1 DEF vars, UpdatesOK
  <2> QED  BY <2>1, <2>2, TypeParts
<1> QED
  BY <1>1, NextParts, BringUpTypes, MeasuringTypes, CheckingTypes, PublishingTypes,
     EnvironmentTypes

-----------------------------------------------------------------------------
(* Fault bits and high voltage *)

\* The inverter's limit is no input's bit.
LEMMA MapFaultNames == \A input : mapFault(input) # "InverterCurrentLimit"
  BY DEF mapFault

\* An update of one input, and one of the bit that has no input.
UpdatesAnInput   == \E input : \E on \in BOOLEAN : updateFault(input, on)
UpdatesTheLimit  == /\ inputs' = inputs
                    /\ \E on \in BOOLEAN : SetBmsFault("InverterCurrentLimit", on)
LeavesFaultsAlone == UNCHANGED <<inputs, active>>

\* Every step does one of the three; only StartHv switches high voltage on.
LEMMA FaultSteps ==
    ASSUME TypeOK, UpdatesOK, Next
    PROVE  \/ UpdatesAnInput
           \/ UpdatesTheLimit
           \/ LeavesFaultsAlone /\ (hv' # "off" => hv # "off" \/ StartHv)
<1>1. CASE BringUp
  <2>1. (diagnosticsFailures' >= RetryBudget) \in BOOLEAN
    OBVIOUS
  <2> QED
    BY <1>1, <2>1
       DEF BringUp, TplFails, TplReady, InitDevicesFails, InitDevices,
           initializeRegistersFails, initializeRegisters, diagnosticsFail, diagnostics,
           faultVars, UpdatesAnInput, LeavesFaultsAlone
<1>2. CASE Measuring
  <2>1. CASE ReportDetected
    BY <2>1, UpdatesShrink DEF ReportDetected, UpdatesOK, UpdatesAnInput
  <2> QED
    BY <1>2, <2>1
       DEF Measuring, StartCycle, Measure, faultDetection, performCellBalancing, faultVars,
           UpdatesAnInput, LeavesFaultsAlone
<1>3. CASE Checking
  BY <1>3 DEF Checking, CheckPasses, CheckRetries, CheckTrips, Restart, Started, faultVars,
              UpdatesAnInput, LeavesFaultsAlone
<1>4. CASE Publishing
  BY <1>4 DEF Publishing, Hold, StoreHeld, Publish, Store, faultVars, UpdatesTheLimit,
              LeavesFaultsAlone
<1>5. CASE Environment
  BY <1>5 DEF Environment, MoveHv, LatchHvFault, Acknowledge, RetryDelayPasses,
              ChainChanges, ChainDrops, OwnFrame, StartHv, LeavesFaultsAlone
<1> QED
  BY <1>1, <1>2, <1>3, <1>4, <1>5, NextParts

\* An update keeps the bits and the inputs in step, whoever else shares the bit.
LEMMA UpdateFaultMatches ==
    ASSUME BitsMatchInputs, NEW input, NEW on \in BOOLEAN, updateFault(input, on)
    PROVE  BitsMatchInputs'
<1> DEFINE bit == mapFault(input)
<1>1. bit # "InverterCurrentLimit"
  BY MapFaultNames
<1>2. CASE bit \in Mapped(inputs')
  <2>1. Mapped(inputs') = Mapped(inputs) \cup {bit}
    BY <1>2 DEF updateFault, Mapped
  <2>2. active' = active \cup {bit}
    BY <1>2 DEF updateFault, SetBmsFault
  <2> QED  BY <1>1, <2>1, <2>2 DEF BitsMatchInputs
<1>3. CASE bit \notin Mapped(inputs')
  <2>1. on = FALSE
    BY <1>3 DEF updateFault, Mapped
  <2>2. Mapped(inputs') = Mapped(inputs) \ {bit}
    BY <1>3, <2>1 DEF updateFault, Mapped
  <2>3. active' = active \ {bit}
    BY <1>3 DEF updateFault, SetBmsFault
  <2> QED  BY <1>1, <2>2, <2>3 DEF BitsMatchInputs
<1> QED
  BY <1>2, <1>3

\* Every step keeps the bits equal to their inputs.
LEMMA StepMatches ==
    ASSUME TypeOK, UpdatesOK, BitsMatchInputs, [Next]_vars
    PROVE  BitsMatchInputs'
<1>1. CASE UpdatesAnInput
  BY <1>1, UpdateFaultMatches DEF UpdatesAnInput
<1>2. CASE UpdatesTheLimit
  BY <1>2 DEF UpdatesTheLimit, SetBmsFault, BitsMatchInputs, Mapped
<1>3. CASE LeavesFaultsAlone
  BY <1>3 DEF LeavesFaultsAlone, BitsMatchInputs, Mapped
<1>4. CASE UNCHANGED vars
  BY <1>4 DEF vars, faultVars, BitsMatchInputs, Mapped
<1> QED
  BY <1>1, <1>2, <1>3, <1>4, FaultSteps

\* No input and no bit is set initially.
LEMMA MatchesInitially ==
    ASSUME Init PROVE BitsMatchInputs
<1>1. CASE inputs = {} /\ active = {}
  BY <1>1 DEF BitsMatchInputs, Mapped
<1>2. CASE \E input \in {"NO_CONFIG", "INVALID_CONFIG"} :
             inputs = {input} /\ active = {mapFault(input)}
  BY <1>2, MapFaultNames DEF BitsMatchInputs, Mapped
<1> QED
  BY <1>1, <1>2 DEF Init

\* Setting or clearing a bit leaves high voltage on only if no bit is active afterwards.
LEMMA SetBmsFaultShutsOff ==
    ASSUME FaultShutsOff, NEW bit, NEW on \in BOOLEAN, SetBmsFault(bit, on)
    PROVE  FaultShutsOff' /\ (hv' # "off" => hv # "off")
  BY DEF FaultShutsOff, SetBmsFault

\* A fault keeps HV off, and only StartHv lets it leave off.
LEMMA StepShutsOff ==
    ASSUME TypeOK, UpdatesOK, FaultShutsOff, [Next]_vars
    PROVE  FaultShutsOff' /\ (hv' # "off" => hv # "off" \/ StartHv)
<1>1. CASE UpdatesAnInput
  <2>1. PICK input : SetBmsFault(mapFault(input), mapFault(input) \in Mapped(inputs'))
    BY <1>1 DEF UpdatesAnInput, updateFault
  <2>2. (mapFault(input) \in Mapped(inputs')) \in BOOLEAN
    OBVIOUS
  <2> QED  BY <2>1, <2>2, SetBmsFaultShutsOff
<1>2. CASE UpdatesTheLimit
  BY <1>2, SetBmsFaultShutsOff DEF UpdatesTheLimit
<1>3. CASE LeavesFaultsAlone /\ (hv' # "off" => hv # "off" \/ StartHv)
  <2>1. StartHv => active = {}
    BY DEF StartHv, isHVReady, CanEnableHv
  <2>2. FaultShutsOff'
    BY <1>3, <2>1 DEF LeavesFaultsAlone, FaultShutsOff
  <2> QED  BY <1>3, <2>2
<1>4. CASE UNCHANGED vars
  BY <1>4 DEF vars, faultVars, FaultShutsOff
<1> QED
  BY <1>1, <1>2, <1>3, <1>4, FaultSteps

\* The task starts with HV off.
LEMMA StepsInitially ==
    ASSUME Init PROVE FaultShutsOff /\ StepsFollowState /\ HvOnlyOnRunningBms
  BY DEF Init, FaultShutsOff, StepsFollowState, HvOnlyOnRunningBms

\* Which state each step of the task belongs to.
LEMMA StepFollowsState ==
    ASSUME TypeOK, UpdatesOK, StepsFollowState, [Next]_vars
    PROVE  StepsFollowState'
<1>1. CASE BringUp
  <2>1. CASE diagnosticsFail
    BY <2>1 DEF diagnosticsFail, Due, At, StepsFollowState, setState
  <2>2. CASE initializeRegisters
    BY <2>2 DEF initializeRegisters, Due, At, StepsFollowState, setState
  <2>3. CASE InitDevices
    BY <2>3 DEF InitDevices, At, StepsFollowState, setState
  <2>4. CASE InitDevicesFails
    BY <2>4 DEF InitDevicesFails, StepsFollowState, StayInState
  <2>5. CASE TplFails \/ initializeRegistersFails
    BY <2>5 DEF TplFails, initializeRegistersFails, Due, At, StepsFollowState, StayInState
  <2>6. CASE TplReady \/ diagnostics
    BY <2>6 DEF TplReady, diagnostics, Due, At, StepsFollowState, StayInState
  <2> QED
    BY <1>1, <2>1, <2>2, <2>3, <2>4, <2>5, <2>6 DEF BringUp
<1>2. CASE StartCycle \/ Measure \/ faultDetection \/ performCellBalancing
  BY <1>2 DEF StartCycle, Measure, faultDetection, performCellBalancing, At,
              StepsFollowState, StayInState
<1>3. CASE ReportDetected
  BY <1>3 DEF ReportDetected, UpdatesOK, StepsFollowState, StayInState
<1>4. CASE CheckPasses \/ CheckRetries
  BY <1>4 DEF CheckPasses, CheckRetries, At, StepsFollowState
<1>5. CASE CheckTrips
  BY <1>5 DEF CheckTrips, At, StepsFollowState, updateFault
<1>6. CASE Restart
  BY <1>6 DEF Restart, At, StepsFollowState, setState
<1>7. CASE Started
  BY <1>7 DEF Started, At, StepsFollowState, setState
<1>8. CASE Publishing
  BY <1>8 DEF Publishing, Hold, StoreHeld, Publish, Store, At, StepsFollowState, StayInState
<1>9. CASE Environment
  BY <1>9 DEF Environment, StartHv, MoveHv, LatchHvFault, Acknowledge, RetryDelayPasses,
              ChainChanges, ChainDrops, OwnFrame, StepsFollowState
<1>10. CASE UNCHANGED vars
  BY <1>10 DEF vars, faultVars, StepsFollowState
<1> QED
  BY <1>1, <1>2, <1>3, <1>4, <1>5, <1>6, <1>7, <1>8, <1>9, <1>10, NextParts
     DEF Measuring, Checking

\* The BMS leaves RUNNING only with a fault bit active, which has shut high voltage off.
LEMMA RunningIsLeftFaulty ==
    ASSUME BitsMatchInputs, StepsFollowState, Next,
           currentState = "RUNNING", currentState' # "RUNNING"
    PROVE  active # {} /\ active' = active
<1>1. Restart
  BY NextParts
     DEF BringUp, TplFails, TplReady, InitDevicesFails, InitDevices,
         initializeRegistersFails, initializeRegisters, diagnosticsFail, diagnostics, Due,
         Measuring, StartCycle, Measure, faultDetection, ReportDetected,
         performCellBalancing, Checking, CheckPasses, CheckRetries, CheckTrips, Started,
         Publishing, Hold, StoreHeld, Publish, Store, Environment, StartHv, MoveHv,
         LatchHvFault, Acknowledge, RetryDelayPasses, ChainChanges, ChainDrops, OwnFrame,
         StepsFollowState, StayInState, setState, At
<1>2. "COMMUNICATION_TIMEOUT" \in inputs
  BY <1>1 DEF Restart, At, StepsFollowState
<1>3. active # {}
  BY <1>2 DEF BitsMatchInputs, Mapped
<1> QED
  BY <1>1, <1>3 DEF Restart, faultVars

\* A completed start-up is never forgotten.
LEMMA StartupStays ==
    ASSUME Next, startupComplete
    PROVE  startupComplete'
  BY NextParts
     DEF BringUp, TplFails, TplReady, InitDevicesFails, InitDevices,
         initializeRegistersFails, initializeRegisters, diagnosticsFail, diagnostics,
         Measuring, StartCycle, Measure, faultDetection, ReportDetected,
         performCellBalancing, Checking, CheckPasses, CheckRetries, CheckTrips, Restart,
         Started, Publishing, Hold, StoreHeld, Publish, Store, Environment, StartHv, MoveHv,
         LatchHvFault, Acknowledge, RetryDelayPasses, ChainChanges, ChainDrops, OwnFrame

\* No step leaves HV on outside of RUNNING.
LEMMA StepKeepsHvOnRunning ==
    ASSUME TypeOK, UpdatesOK, BitsMatchInputs, FaultShutsOff, StepsFollowState,
           HvOnlyOnRunningBms, [Next]_vars
    PROVE  HvOnlyOnRunningBms'
<1>1. SUFFICES ASSUME Next, hv' # "off"
               PROVE  currentState' = "RUNNING" /\ startupComplete' /\ active' = {}
  BY DEF vars, faultVars, HvOnlyOnRunningBms
<1>2. active' = {} /\ (hv # "off" \/ StartHv)
  BY <1>1, StepShutsOff DEF FaultShutsOff
<1>3. currentState = "RUNNING" /\ startupComplete
  BY <1>2 DEF HvOnlyOnRunningBms, StartHv, isHVReady, CanEnableHv
<1>4. currentState' = "RUNNING"
  BY <1>1, <1>2, <1>3, RunningIsLeftFaulty
<1> QED
  BY <1>1, <1>2, <1>3, <1>4, StartupStays

-----------------------------------------------------------------------------
(* The snapshots *)

\* The variables the publication properties are about.
publicationVars == <<currentState, commFailures, commFault, complete, publishVars, at>>

\* Everything but the updates of one cycle's outcome leaves them alone.
LEMMA QuietSteps ==
    ASSUME \/ TplFails \/ initializeRegistersFails \/ ReportDetected
           \/ Environment \/ UNCHANGED vars
    PROVE  UNCHANGED publicationVars
  BY DEF TplFails, initializeRegistersFails, ReportDetected, Environment, StartHv, MoveHv,
         LatchHvFault, Acknowledge, RetryDelayPasses, ChainChanges, ChainDrops, OwnFrame,
         vars, StayInState, publishVars, publicationVars

\* The bring-up happens outside RUNNING and forgets what was kept, or keeps it untouched.
LEMMA BringUpSteps ==
    ASSUME StepsFollowState, BringUp
    PROVE  /\ UNCHANGED <<draft, commFault>>
           /\ currentState # "RUNNING" /\ currentState' # "RUNNING"
           /\ at' \in {"Idle", "InitDevices", "Measure"}
           /\ \/ UNCHANGED <<complete, commFailures, publishedFresh, latest, held>>
              \/ commFailures' = 0 /\ ~publishedFresh' /\ latest' = NoSnapshot /\ held' = NoSnapshot
  BY DEF BringUp, TplFails, TplReady, InitDevicesFails, InitDevices,
         initializeRegistersFails, initializeRegisters, diagnosticsFail, diagnostics,
         Due, At, StepsFollowState, StayInState, setState

\* The failure counter starts without a warning.
LEMMA CountInitially ==
    ASSUME Init PROVE CountMatchesWarning /\ KeptInRunning
  BY CountAssumption DEF Init, CountMatchesWarning, KeptInRunning, NoSnapshot

\* The counter of failures and the warning go together.
LEMMA StepCounts ==
    ASSUME TypeOK, StepsFollowState, CountMatchesWarning, [Next]_vars
    PROVE  CountMatchesWarning'
<1>1. CASE BringUp
  <2>1. at # "Restart"
    BY <1>1 DEF BringUp, TplFails, TplReady, InitDevicesFails, InitDevices,
       initializeRegistersFails, initializeRegisters, diagnosticsFail, diagnostics, Due, At
  <2> QED  BY <1>1, <2>1, BringUpSteps, CountAssumption DEF CountMatchesWarning
<1>2. CASE StartCycle \/ Measure \/ faultDetection \/ performCellBalancing
  BY <1>2 DEF StartCycle, Measure, faultDetection, performCellBalancing, At, StayInState,
              CountMatchesWarning
<1>3. CASE CheckPasses
  <2>1. commFailures' = 0 /\ commFault' = FALSE
    BY <1>3 DEF CheckPasses
  <2>2. (commFailures' > 0) = FALSE /\ commFailures' < TripCount
    BY <2>1, CountAssumption
  <2> QED  BY <2>1, <2>2 DEF CountMatchesWarning
<1>4. CASE CheckRetries
  <2>1. commFailures' = commFailures + 1 /\ commFault' = TRUE
    BY <1>4 DEF CheckRetries
  <2>2. commFailures \in 0..TripCount /\ commFailures + 1 < TripCount
    BY <1>4, CountAssumption DEF CheckRetries, Trips, TypeOK
  <2>3. (commFailures' > 0) = TRUE /\ commFailures' < TripCount
    BY <2>1, <2>2, CountAssumption
  <2> QED  BY <2>1, <2>3 DEF CountMatchesWarning
<1>5. CASE CheckTrips
  <2>1. commFailures' = TripCount /\ commFault' = TRUE /\ at' = "Restart"
    BY <1>5 DEF CheckTrips
  <2>2. (commFailures' > 0) = TRUE
    BY <2>1, CountAssumption
  <2> QED  BY <2>1, <2>2 DEF CountMatchesWarning
<1>6. CASE Restart
  BY <1>6, CountAssumption DEF Restart, setState, CountMatchesWarning
<1>7. CASE Started
  <2>1. commFailures' = commFailures /\ commFault' = commFault /\ at' # "Restart"
    BY <1>7 DEF Started, setState
  <2>2. commFault = (commFailures > 0)
    BY <1>7 DEF Started, At, CountMatchesWarning
  <2>3. commFailures < TripCount
    BY <1>7 DEF Started, At, CountMatchesWarning
  <2> QED  BY <2>1, <2>2, <2>3 DEF CountMatchesWarning
<1>8. CASE Publishing
  BY <1>8 DEF Publishing, Hold, StoreHeld, Publish, Store, At, StayInState,
              CountMatchesWarning
<1>9. CASE UNCHANGED publicationVars
  BY <1>9 DEF publicationVars, publishVars, CountMatchesWarning
<1> QED
  BY <1>1, <1>2, <1>3, <1>4, <1>5, <1>6, <1>7, <1>8, <1>9, NextParts, QuietSteps
     DEF Measuring, Checking

\* The steps of a cycle that publish nothing.
LEMMA MeasuringSteps ==
    ASSUME UpdatesOK, Measuring
    PROVE  /\ UNCHANGED <<currentState, commFailures, commFault, publishVars>>
           /\ \/ at' = at
              \/ at' \in {"Measure", "Detect", "Balance", "Check"}
           /\ at' # at \/ complete' = complete
  BY DEF Measuring, StartCycle, Measure, faultDetection, ReportDetected,
         performCellBalancing, At, StayInState, publishVars

\* The communication check publishes nothing.
LEMMA CheckSteps ==
    ASSUME CheckPasses \/ CheckRetries \/ CheckTrips
    PROVE  /\ UNCHANGED <<currentState, complete>>
           /\ UNCHANGED <<publishedFresh, publishedValid, latest, held, draft>>
           /\ at' \in {"Started", "Publish", "Hold", "Restart"}
  BY DEF CheckPasses, CheckRetries, CheckTrips, publishVars

\* Of publishBatteryCanSnapshot: what is in the draft, and what becomes of it.
LEMMA PublishSteps ==
    ASSUME Publish
    PROVE  /\ draft'.valid = (complete /\ currentState = "RUNNING")
           /\ draft'.fresh = complete /\ draft'.comm = commFault
           /\ at = "Publish" /\ at' = "Store" /\ StayInState
           /\ UNCHANGED commFault
  BY DEF Publish, At

\* A stored snapshot is the draft, and what is published follows it.
LEMMA StoreSteps ==
    ASSUME TypeOK, Store
    PROVE  /\ at = "Store" /\ at' = "Idle"
           /\ UNCHANGED <<currentState, commFailures, commFault, complete>>
           /\ latest'.valid = draft.valid /\ latest'.comm = draft.comm
           /\ publishedFresh' = latest'.fresh
           /\ publishedFresh' => draft.fresh
           /\ publishedFresh' /\ draft.valid => publishedValid'
           /\ held' = IF draft.valid /\ ~draft.comm THEN latest' ELSE held
<1>1. PICK framePublished \in {draft.valid, FALSE} :
        LET snapshot == IF draft.valid /\ ~framePublished
                        THEN [draft EXCEPT !.fresh = FALSE, !.safe = FALSE] ELSE draft
        IN  /\ publishedValid' = IF draft.valid THEN publishedValid \/ framePublished
                                                ELSE FALSE
            /\ publishedFresh' = snapshot.fresh
            /\ latest' = snapshot
            /\ held' = IF snapshot.valid /\ ~snapshot.comm THEN snapshot ELSE held
  BY DEF Store
<1>2. draft \in Snapshot
  BY DEF TypeOK
<1>3. CASE draft.valid /\ ~framePublished
  <2>1. latest' = [draft EXCEPT !.fresh = FALSE, !.safe = FALSE] /\ publishedFresh' = latest'.fresh
    BY <1>1, <1>3
  <2>2. latest'.valid = draft.valid /\ latest'.comm = draft.comm /\ latest'.fresh = FALSE
    BY <1>2, <2>1 DEF Snapshot
  <2>3. held' = IF draft.valid /\ ~draft.comm THEN latest' ELSE held
    BY <1>1, <1>3, <2>1, <2>2
  <2> QED  BY <2>1, <2>2, <2>3 DEF Store, At
<1>4. CASE ~(draft.valid /\ ~framePublished)
  BY <1>1, <1>4 DEF Store, At
<1> QED
  BY <1>3, <1>4

\* A hold takes the last valid snapshot again, marked, and withdraws freshness.
LEMMA HoldSteps ==
    ASSUME TypeOK, Hold
    PROVE  /\ at = "Hold" /\ ~publishedFresh'
           /\ draft'.valid = held.valid /\ draft'.comm = TRUE
           /\ at' = IF held.valid THEN "StoreHeld" ELSE "Idle"
           /\ UNCHANGED <<currentState, commFailures, commFault, complete, latest, held>>
<1>1. held \in Snapshot
  BY DEF TypeOK
<1> QED  BY <1>1 DEF Hold, At, Snapshot

\* What was valid is kept only while RUNNING.
LEMMA StepKeepsRunning ==
    ASSUME TypeOK, UpdatesOK, StepsFollowState, KeptInRunning, PublicationIsJustified,
           [Next]_vars
    PROVE  KeptInRunning'
<1>0. ~NoSnapshot.valid
  BY DEF NoSnapshot
<1>1. CASE BringUp
  BY <1>0, <1>1, BringUpSteps DEF KeptInRunning
<1>2. CASE Measuring
  BY <1>2, MeasuringSteps DEF KeptInRunning, publishVars
<1>3. CASE CheckPasses \/ CheckRetries \/ CheckTrips
  BY <1>3, CheckSteps DEF KeptInRunning
<1>4. CASE Restart \/ Started
  BY <1>0, <1>4 DEF Restart, Started, setState, KeptInRunning
<1>5. CASE Hold
  BY <1>5, HoldSteps DEF KeptInRunning
<1>6. CASE StoreHeld
  BY <1>6 DEF StoreHeld, At, KeptInRunning, PublicationIsJustified
<1>7. CASE Publish
  BY <1>7, PublishSteps DEF StayInState, KeptInRunning
<1>8. CASE Store
  <2>1. draft.valid => currentState = "RUNNING" /\ ~draft.comm
    BY <1>8, StoreSteps DEF PublicationIsJustified
  <2>2. ~draft.valid => ~draft.fresh
    BY <1>8, StoreSteps DEF PublicationIsJustified
  <2>3. CASE draft.valid
    <3>1. held' = latest' /\ currentState' = "RUNNING"
      BY <1>8, <2>1, <2>3, StoreSteps
    <3> QED  BY <3>1 DEF KeptInRunning
  <2>4. CASE ~draft.valid
    <3>1. held' = held /\ currentState' = currentState /\ ~publishedFresh' /\ ~latest'.valid
      BY <1>8, <2>2, <2>4, StoreSteps
    <3> QED  BY <3>1 DEF KeptInRunning
  <2> QED  BY <2>3, <2>4
<1>9. CASE UNCHANGED publicationVars
  BY <1>9 DEF publicationVars, publishVars, KeptInRunning
<1> QED
  BY <1>1, <1>2, <1>3, <1>4, <1>5, <1>6, <1>7, <1>8, <1>9, NextParts, QuietSteps
     DEF Checking, Publishing

\* Nothing has been published initially.
LEMMA PublicationInitially ==
    ASSUME Init PROVE PublicationIsJustified /\ SnapshotsTellTheTruth
  BY DEF Init, PublicationIsJustified, SnapshotsTellTheTruth, NoSnapshot

\* Every draft and every flag on its way has its reason.
LEMMA StepJustifies ==
    ASSUME TypeOK, UpdatesOK, StepsFollowState, CountMatchesWarning, KeptInRunning,
           PublicationIsJustified, [Next]_vars
    PROVE  PublicationIsJustified'
<1>1. CASE BringUp
  BY <1>1, BringUpSteps DEF PublicationIsJustified
<1>2. CASE Measuring
  BY <1>2, MeasuringSteps DEF PublicationIsJustified, publishVars
<1>3. CASE CheckPasses
  BY <1>3 DEF CheckPasses, CycleFailed, PublicationIsJustified
<1>4. CASE CheckRetries
  BY <1>4 DEF CheckRetries, PublicationIsJustified
<1>5. CASE CheckTrips
  BY <1>5 DEF CheckTrips, PublicationIsJustified
<1>6. CASE Restart
  BY <1>6 DEF Restart, setState, PublicationIsJustified
<1>7. CASE Started
  BY <1>7 DEF Started, At, setState, PublicationIsJustified
<1>8. CASE Hold
  <2>1. commFault
    BY <1>8, HoldSteps DEF PublicationIsJustified
  <2> QED  BY <1>8, <2>1, HoldSteps DEF PublicationIsJustified
<1>9. CASE StoreHeld
  BY <1>9 DEF StoreHeld, PublicationIsJustified
<1>10. CASE Publish
  BY <1>10, PublishSteps DEF StayInState, PublicationIsJustified
<1>11. CASE Store
  BY <1>11, StoreSteps DEF PublicationIsJustified
<1>12. CASE UNCHANGED publicationVars
  BY <1>12 DEF publicationVars, publishVars, PublicationIsJustified
<1> QED
  BY <1>1, <1>2, <1>3, <1>4, <1>5, <1>6, <1>7, <1>8, <1>9, <1>10, <1>11, <1>12, NextParts,
     QuietSteps
     DEF Checking, Publishing

\* With these, a step keeps the snapshots true.
LEMMA StepTellsTheTruth ==
    ASSUME TypeOK, UpdatesOK, StepsFollowState, CountMatchesWarning, KeptInRunning,
           PublicationIsJustified, SnapshotsTellTheTruth, KeptInRunning', [Next]_vars
    PROVE  SnapshotsTellTheTruth'
<1>0. ~NoSnapshot.valid
  BY DEF NoSnapshot
<1>1. CASE BringUp
  BY <1>0, <1>1, BringUpSteps DEF KeptInRunning, SnapshotsTellTheTruth
<1>2. CASE Measuring
  <2>1. at' # "Idle" \/ UNCHANGED publicationVars
    BY <1>2, MeasuringSteps DEF publicationVars
  <2> QED
    BY <1>2, <2>1, MeasuringSteps DEF SnapshotsTellTheTruth, publicationVars, publishVars
<1>3. CASE CheckPasses \/ CheckRetries \/ CheckTrips
  BY <1>3, CheckSteps DEF SnapshotsTellTheTruth
<1>4. CASE Restart \/ Started
  BY <1>0, <1>4 DEF Restart, Started, setState, SnapshotsTellTheTruth
<1>5. CASE Hold
  BY <1>5, HoldSteps DEF KeptInRunning, SnapshotsTellTheTruth
<1>6. CASE StoreHeld
  BY <1>6 DEF StoreHeld, At, PublicationIsJustified, CountMatchesWarning, StepsFollowState,
              SnapshotsTellTheTruth
<1>7. CASE Publish
  BY <1>7, PublishSteps DEF StayInState, SnapshotsTellTheTruth
<1>8. CASE Store
  <2>1. CASE draft.valid
    <3>1. currentState = "RUNNING" /\ complete /\ ~commFault /\ ~draft.comm
      BY <1>8, <2>1, StoreSteps DEF PublicationIsJustified
    <3>2. (commFailures > 0) = FALSE /\ commFailures < TripCount
      BY <1>8, <3>1, StoreSteps DEF TypeOK, CountMatchesWarning
    <3>4. commFailures \in 0..TripCount
      BY DEF TypeOK
    <3>5. commFailures = 0
      BY <3>2, <3>4, CountAssumption
    <3>3. latest'.comm = FALSE
      BY <1>8, <3>1, StoreSteps DEF TypeOK, Snapshot
    <3>6. commFailures' = commFailures /\ currentState' = currentState /\ complete' = complete
          /\ latest'.valid /\ publishedFresh' = latest'.fresh /\ (publishedFresh' => publishedValid')
      BY <1>8, <2>1, StoreSteps
    <3>7. latest'.comm = (commFailures' > 0)
      BY <3>2, <3>3, <3>6
    <3> QED  BY <3>1, <3>2, <3>5, <3>6, <3>7 DEF SnapshotsTellTheTruth
  <2>2. CASE ~draft.valid
    <3>1. ~latest'.valid /\ ~publishedFresh'
      BY <1>8, <2>2, StoreSteps DEF PublicationIsJustified
    <3> QED  BY <3>1 DEF SnapshotsTellTheTruth
  <2> QED  BY <2>1, <2>2
<1>9. CASE UNCHANGED publicationVars
  BY <1>9 DEF publicationVars, publishVars, SnapshotsTellTheTruth
<1> QED
  BY <1>1, <1>2, <1>3, <1>4, <1>5, <1>6, <1>7, <1>8, <1>9, NextParts, QuietSteps
     DEF Checking, Publishing

-----------------------------------------------------------------------------
(* The theorems *)

\* The inductive invariant: the properties, and what is known at each step of the task.
IInv ==
    /\ TypeOK /\ UpdatesOK
    /\ BitsMatchInputs /\ FaultShutsOff
    /\ StepsFollowState
    /\ HvOnlyOnRunningBms
    /\ CountMatchesWarning /\ KeptInRunning /\ PublicationIsJustified
    /\ SnapshotsTellTheTruth

\* IInv holds initially and every step keeps it, at every point where the main task, the
\* UART task or the chain may act between two steps of the BMS task.
THEOREM Invariance == Spec => []IInv
<1>1. IInv /\ [Next]_vars => IInv'
  <2> SUFFICES ASSUME IInv, [Next]_vars PROVE IInv'
    OBVIOUS
  <2>1. TypeOK' /\ UpdatesOK'
    BY NextTypes DEF IInv
  <2>2. BitsMatchInputs' /\ FaultShutsOff' /\ StepsFollowState' /\ HvOnlyOnRunningBms'
    BY StepMatches, StepShutsOff, StepFollowsState, StepKeepsHvOnRunning DEF IInv
  <2>3. CountMatchesWarning' /\ KeptInRunning' /\ PublicationIsJustified'
    BY StepCounts, StepKeepsRunning, StepJustifies DEF IInv
  <2>4. SnapshotsTellTheTruth'
    BY <2>3, StepTellsTheTruth DEF IInv
  <2> QED  BY <2>1, <2>2, <2>3, <2>4 DEF IInv
<1>2. Init => IInv
  BY TypesHoldInitially, MatchesInitially, StepsInitially, CountInitially,
     PublicationInitially DEF IInv
<1> QED  BY <1>1, <1>2, PTL DEF Spec

\* Type correctness, above all of the communication counter and the fault bits
\* (SlaveController.cpp).
THEOREM TypesHold == Spec => []TypeOK
<1>1. IInv => TypeOK
  BY DEF IInv
<1> QED  BY <1>1, Invariance, PTL

\* A fault bit is active exactly while one of the inputs that share it is, for all
\* inputs faultDetection may report, alone or together (updateFault, mapFault).
THEOREM BitsMatch == Spec => []BitsMatchInputs
<1>1. IInv => BitsMatchInputs
  BY DEF IInv
<1> QED  BY <1>1, Invariance, PTL

\* High voltage is never started or kept on a BMS that has a fault, restarts or is not
\* measuring, with the main task free to act between any two steps of the BMS task.
THEOREM HvOnRunningBmsOnly == Spec => []HvOnlyOnRunningBms
<1>1. IInv => HvOnlyOnRunningBms
  BY DEF IInv
<1> QED  BY <1>1, Invariance, PTL

\* What the inverter is told about the measurements is true: a frame is valid only in
\* RUNNING and below the trip count, its warning is that of the last check, and fresh
\* measurements come from a passed check (publishBatteryCanSnapshot).
THEOREM SnapshotsAreTrue == Spec => []SnapshotsTellTheTruth
<1>1. IInv => SnapshotsTellTheTruth
  BY DEF IInv
<1> QED  BY <1>1, Invariance, PTL

=============================================================================
