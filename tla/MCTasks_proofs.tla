--------------------------- MODULE MCTasks_proofs ---------------------------
(***************************************************************************)
(* What is proved of the parts that MCTasks explores side by side.  A      *)
(* behaviour of AllSpec is, for each part, a behaviour of that part: it    *)
(* takes the part's steps while the part is explored, and stutters for it  *)
(* otherwise.                                                              *)
(***************************************************************************)
EXTENDS MCTasks, Sequences, SequenceTheorems, TLAPS

LimitsP == INSTANCE CurrentLimits_proofs
    WITH running <- serving, fault <- limitFault, failures <- failedInARow

-----------------------------------------------------------------------------
(* The current limits *)

\* The dwell and the recovery are what the proofs about the limits assume.
LEMMA LimitsParameters == LimitsP!ParametersOK
  BY LimitsAssumption DEF LimitsP!ParametersOK, LimitsP!PeriodS

\* The two instances of CurrentLimits take the same steps.
LEMMA LimitsSame ==
    /\ Limits!Init <=> LimitsP!Init
    /\ Limits!Next <=> LimitsP!Next
  BY DEF Limits!Init, LimitsP!Init, Limits!Next, LimitsP!Next, Limits!vars,
         LimitsP!vars, Limits!bmsVars, LimitsP!bmsVars, Limits!limitVars,
         LimitsP!limitVars, Limits!snapshotVars, LimitsP!snapshotVars, Limits!canVars,
         LimitsP!canVars, Limits!historyVars, LimitsP!historyVars, Limits!Least,
         LimitsP!Least, Limits!Never, LimitsP!Never, Limits!Currents, LimitsP!Currents,
         Limits!Snapshots, LimitsP!Snapshots, Limits!NoSnapshot, LimitsP!NoSnapshot,
         Limits!NoTimer, LimitsP!NoTimer, Limits!Offered, LimitsP!Offered,
         Limits!Readings, LimitsP!Readings, Limits!Stopped, LimitsP!Stopped,
         Limits!Accrued, LimitsP!Accrued, Limits!Guarded, LimitsP!Guarded,
         Limits!Trips, LimitsP!Trips, Limits!Watched, LimitsP!Watched,
         Limits!applyRecoverySlew, LimitsP!applyRecoverySlew, Limits!Elapsed,
         LimitsP!Elapsed, Limits!Offers, LimitsP!Offers, Limits!Publish,
         LimitsP!Publish, Limits!Temperature, LimitsP!Temperature, Limits!Cycle,
         LimitsP!Cycle, Limits!Start, LimitsP!Start,
         Limits!publishHeldBatteryCanSnapshot, LimitsP!publishHeldBatteryCanSnapshot,
         Limits!Fails, LimitsP!Fails, Limits!FailEarly, LimitsP!FailEarly,
         Limits!FailLate, LimitsP!FailLate, Limits!StartFails, LimitsP!StartFails,
         Limits!Restart, LimitsP!Restart, Limits!makeCodecData, LimitsP!makeCodecData,
         Limits!sendEncodedFrame, LimitsP!sendEncodedFrame, Limits!HvCloses,
         LimitsP!HvCloses, Limits!HvOpens, LimitsP!HvOpens, Limits!Acknowledge,
         LimitsP!Acknowledge, Limits!Elapse, LimitsP!Elapse, Limits!MaximumSampleGapS,
         LimitsP!MaximumSampleGapS, Limits!PeriodS, LimitsP!PeriodS, Limits!TripCount,
         LimitsP!TripCount

\* They state the same properties.
LEMMA LimitsStateTheSame ==
    /\ Limits!OfferNeedsRecovery <=> LimitsP!OfferNeedsRecovery
    /\ Limits!RecoveryIsGradual <=> LimitsP!RecoveryIsGradual
    /\ Limits!TripsOnlyAfterDwell <=> LimitsP!TripsOnlyAfterDwell
    /\ Limits!SustainedViolationTrips <=> LimitsP!SustainedViolationTrips
  BY DEF Limits!OfferNeedsRecovery, LimitsP!OfferNeedsRecovery,
         Limits!RecoveryIsGradual, LimitsP!RecoveryIsGradual,
         Limits!TripsOnlyAfterDwell, LimitsP!TripsOnlyAfterDwell,
         Limits!SustainedViolationTrips, LimitsP!SustainedViolationTrips,
         Limits!Offered, LimitsP!Offered

\* The current limits and the guard keep what the plan says of them.
THEOREM LimitsAreKept == AllSpec => LimitsHold
<1>1. AllInit => LimitsP!Init
  BY LimitsSame DEF AllInit
<1>2. [AllNext]_allVars => [LimitsP!Next]_LimitsP!vars
  <2>1. CASE Limits!Next
    BY <2>1, LimitsSame
  <2>2. CASE UNCHANGED limitsVars
    BY <2>2 DEF limitsVars, LimitsP!vars, LimitsP!bmsVars, LimitsP!limitVars, LimitsP!snapshotVars,
                LimitsP!canVars, LimitsP!historyVars
  <2>3. CASE UNCHANGED allVars
    BY <2>2, <2>3 DEF allVars
  <2> QED  BY <2>1, <2>2, <2>3 DEF AllNext
<1>3. AllSpec => LimitsP!Spec
  BY <1>1, <1>2, PTL DEF AllSpec, LimitsP!Spec
<1>4. LimitsP!Spec => []LimitsP!LimitsInv
  BY LimitsP!LimitsInvariance, LimitsParameters
<1>5. LimitsP!LimitsInv
        => (explored = "limits" => Limits!OfferNeedsRecovery /\ Limits!RecoveryIsGradual)
  BY LimitsStateTheSame
     DEF LimitsP!LimitsInv, LimitsP!Offering, LimitsP!OfferIsGradual, LimitsP!RecoveryIsGradual
<1>6. LimitsP!LimitsInv /\ LimitsP!LimitsInv' /\ [AllNext]_allVars
        => [explored = "limits" =>
             Limits!TripsOnlyAfterDwell /\ Limits!SustainedViolationTrips]_allVars
  BY <1>2, LimitsP!GuardIsRight, LimitsParameters, LimitsStateTheSame
<1> QED  BY <1>3, <1>4, <1>5, <1>6, PTL DEF LimitsHold, AllSpec

-----------------------------------------------------------------------------
(* Register reads.  A read that was given up leaves its request, and later *)
(* its answer, in the mailbox; what keeps it from the next read is that    *)
(* the mailbox takes no second request, and forgets its answer with the    *)
(* next one.                                                               *)

\* What the mailbox holds for the pending read is that read's.
MailboxIsPending ==
    /\ registerBusy \in BOOLEAN
    /\ ticket \in Uart!Tickets
    /\ reading # Uart!NoRegister => registerBusy /\ reading = registerRequest
    /\ pendingRegisterRead # Uart!NoRead =>
          /\ registerBusy => registerRequest = pendingRegisterRead.ticket
          /\ registerResponse \in {Uart!NoRegister, Uart!Failed, pendingRegisterRead.ticket}
    /\ Uart!ReadsGetTheirOwnAnswer

\* Every step of the links, the two tasks and the clock keeps it so.
LEMMA MailboxStep == MailboxIsPending /\ [Uart!Next]_(Uart!vars) => MailboxIsPending'
<1> SUFFICES ASSUME MailboxIsPending, [Uart!Next]_(Uart!vars)
             PROVE  MailboxIsPending'
  OBVIOUS
<1> USE DEF MailboxIsPending, Uart!ReadsGetTheirOwnAnswer, Uart!mailbox, Uart!NoAnswer,
            Uart!NoRead, Uart!NoRegister, Uart!Failed, Uart!Tickets
<1>1. CASE \/ \E r \in Uart!Requests : Uart!ReceiveRequest(r)
           \/ Uart!ReceiveHeartbeat \/ Uart!TakeHeartbeat \/ Uart!Tick
           \/ \E u \in {"none", "prepared", "locked"} : Uart!SetUpdate(u)
           \/ UNCHANGED Uart!vars
  BY <1>1
     DEF Uart!ReceiveRequest, Uart!ReceiveHeartbeat, Uart!TakeHeartbeat, Uart!Tick,
         Uart!SetUpdate, Uart!vars
<1>2. ASSUME NEW r \in Uart!Requests, Uart!TakeRequest(r) PROVE MailboxIsPending'
  <2> DEFINE Accepted == /\ ~(r.link = "Usb" /\ usbTimer = 0)
                         /\ Uart!Refusal(r.service) = "none" /\ r.service = "read"
  <2>1. CASE Accepted
    <3>1. /\ Uart!requestRegister(ticket) /\ ticket' = (ticket % 3) + 1
          /\ pendingRegisterRead' = [link |-> r.link, ticket |-> ticket]
          /\ sent' = Uart!NoAnswer
      BY <1>2, <2>1 DEF Uart!TakeRequest
    <3>2. ticket' \in Uart!Tickets
      BY <3>1
    <3>3. ~registerBusy /\ reading = Uart!NoRegister
      BY <2>1 DEF Uart!Refusal
    <3> QED  BY <3>1, <3>2, <3>3 DEF Uart!requestRegister, Uart!EmptyResponse
  <2>2. CASE ~Accepted
    <3>1. /\ UNCHANGED <<pendingRegisterRead, registerRequest, registerBusy,
                         registerResponse, reading, ticket>>
          /\ sent'.value = Uart!NoRegister /\ sent'.asked = Uart!NoRegister
      BY <1>2, <2>2 DEF Uart!TakeRequest, Uart!Refuse, Uart!Answer
    <3> QED  BY <3>1
  <2> QED  BY <2>1, <2>2
<1>3. CASE Uart!TakeResponse
  BY <1>3 DEF Uart!TakeResponse, Uart!Refuse, Uart!Answer
<1>4. CASE Uart!GiveUp
  BY <1>4 DEF Uart!GiveUp, Uart!Refuse, Uart!Answer
<1>5. CASE Uart!BeginRead
  BY <1>5 DEF Uart!BeginRead
<1>6. ASSUME NEW v \in Uart!Tickets \cup {Uart!Failed}, Uart!EndRead(v)
      PROVE  MailboxIsPending'
  BY <1>6 DEF Uart!EndRead
<1> QED  BY <1>1, <1>2, <1>3, <1>4, <1>5, <1>6 DEF Uart!Next

-----------------------------------------------------------------------------
(* The ADC scan.  While the version has not moved since it was loaded, a   *)
(* channel that has been copied is the current scan's.  A check reads the  *)
(* age of the scan and its verdict is counted some steps later: what the   *)
(* counter must show is a matter of how old the scan was at the last read, *)
(* and that age is the difference of the two clocks.                       *)

\* How far the clocks get: the task comes round, and a running converter ends scans.
ScanTicks ==
    /\ sinceCheck <= 2
    /\ adcPc = "CheckAge" => timeRead = sinceCheck
    /\ ~stopped => sinceScan <= 2

\* What a copy holds of the current scan at each place of the task.
ScanCopies ==
    /\ \A c, d \in Adc!Channels : samples[c] = samples[d]
    /\ adcPc \in {"Copy", "CheckCopy", "End", "CheckEnd"} /\ moves = 0 =>
          \A c \in copied : values[c] = samples[c]
    /\ adcPc \in {"End", "CheckEnd", "Done", "Verdict"} => copied = Adc!Channels
    /\ adcPc \in {"Done", "Verdict"} => \A c, d \in Adc!Channels : values[c] = values[d]
    /\ ~result.broken

\* The checks whose verdict has been counted, and that of the one under way.
ScanChecking ==
    adcPc \in {"CheckAge", "CheckBegin", "CheckCopy", "CheckEnd", "Verdict", "Unavailable"}

\* What the failure counter shows of the scan's age at the last counted check.
ScanCounted ==
    /\ adcFault <=> failures = 3
    /\ adcPc \in {"CheckBegin", "CheckCopy", "CheckEnd", "Verdict"} /\ fresh =>
          sinceScan <= 5 + sinceCheck
    /\ ~ScanChecking =>
          /\ sinceScan > 5 + sinceCheck => failures >= 1
          /\ sinceScan > 7 + sinceCheck => failures >= 2
          /\ sinceScan > 9 + sinceCheck => failures >= 3
    /\ ScanChecking =>
          /\ sinceScan > 7 + sinceCheck => failures >= 1
          /\ sinceScan > 9 + sinceCheck => failures >= 2
          /\ sinceScan > 11 + sinceCheck => failures >= 3

\* The inductive invariant of the scan.
ScanInv == Adc!TypeOK /\ ScanTicks /\ ScanCopies /\ ScanCounted

\* What getHVVoltages returns is a pair of truth values.
LEMMA ReturnTyped ==
    ASSUME NEW valid \in BOOLEAN, Adc!Return(valid)
    PROVE  result' \in [valid : BOOLEAN, broken : BOOLEAN]
<1> DEFINE broken == valid /\ \E c, d \in Adc!Channels : values[c] # values[d]
<1>1. broken \in BOOLEAN
  OBVIOUS
<1>2. result' = [valid |-> valid, broken |-> broken]
  BY DEF Adc!Return
<1> QED  BY <1>1, <1>2

\* An empty copy has the type of a copy.
LEMMA NoValuesTyped == Adc!NoValues \in [Adc!Channels -> Adc!Scans]
<1>1. [id |-> 0, ok |-> FALSE] \in Adc!Scans
  BY DEF Adc!Scans
<1> QED  BY <1>1 DEF Adc!NoValues

\* What the task forgets at the end of a call has its types again.
LEMMA ForgetTyped ==
    Adc!Forget => /\ attempt' \in 0..Adc!Attempts /\ moves' \in 0..4
                  /\ copied' \subseteq Adc!Channels
                  /\ values' \in [Adc!Channels -> Adc!Scans]
  BY NoValuesTyped DEF Adc!Forget, Adc!Attempts

\* Every step of the interrupt, the main task and the clock keeps the scan's invariant.
LEMMA ScanStep == ScanInv /\ [Adc!Next]_(Adc!vars) => ScanInv'
<1> SUFFICES ASSUME ScanInv, [Adc!Next]_(Adc!vars) PROVE ScanInv'
  OBVIOUS
<1> USE DEF ScanInv, Adc!scan, Adc!task, Adc!health, Adc!vars, Adc!LongAgo, Adc!Stale,
            Adc!Attempts, Adc!FailureLimit, Adc!Slack, Adc!CheckPeriod, Adc!Goto
<1>1. CASE Adc!reportAdcDmaCompletion
  <2>1. Adc!TypeOK'
    BY <1>1
       DEF Adc!reportAdcDmaCompletion, Adc!Versions, Adc!TypeOK, Adc!Channels,
           Adc!Scans, Adc!Older
  <2>2. ScanTicks'
    BY <1>1
       DEF ScanTicks, Adc!reportAdcDmaCompletion, Adc!Versions, Adc!TypeOK,
           Adc!Channels, Adc!Scans, Adc!Older
  <2>3. ScanCopies'
    BY <1>1
       DEF ScanCopies, Adc!reportAdcDmaCompletion, Adc!Versions, Adc!TypeOK,
           Adc!Channels, Adc!Scans, Adc!Older
  <2>4. ScanCounted'
    BY <1>1
       DEF ScanTicks, ScanCounted, ScanChecking, Adc!reportAdcDmaCompletion,
           Adc!Versions, Adc!TypeOK, Adc!Channels, Adc!Scans, Adc!Older
  <2> QED  BY <2>1, <2>2, <2>3, <2>4
<1>2. CASE Adc!Stop
  <2>1. Adc!TypeOK'
    BY <1>2 DEF Adc!Stop, Adc!TypeOK, Adc!Channels, Adc!Scans, Adc!Older
  <2>2. ScanTicks'
    BY <1>2 DEF ScanTicks, Adc!Stop, Adc!TypeOK, Adc!Channels, Adc!Scans, Adc!Older
  <2>3. ScanCopies'
    BY <1>2 DEF ScanCopies, Adc!Stop, Adc!TypeOK, Adc!Channels, Adc!Scans, Adc!Older
  <2>4. ScanCounted'
    BY <1>2
       DEF ScanTicks, ScanCounted, ScanChecking, Adc!Stop, Adc!TypeOK, Adc!Channels,
           Adc!Scans, Adc!Older
  <2> QED  BY <2>1, <2>2, <2>3, <2>4
<1>3. CASE Adc!Tick
  <2>1. Adc!TypeOK'
    BY <1>3 DEF Adc!Tick, Adc!TypeOK, Adc!Channels, Adc!Scans, Adc!Older
  <2>2. ScanTicks'
    BY <1>3 DEF ScanTicks, Adc!Tick, Adc!TypeOK, Adc!Channels, Adc!Scans, Adc!Older
  <2>3. ScanCopies'
    BY <1>3 DEF ScanCopies, Adc!Tick, Adc!TypeOK, Adc!Channels, Adc!Scans, Adc!Older
  <2>4. ScanCounted'
    BY <1>3
       DEF ScanTicks, ScanCounted, ScanChecking, Adc!Tick, Adc!TypeOK, Adc!Channels,
           Adc!Scans, Adc!Older
  <2> QED  BY <2>1, <2>2, <2>3, <2>4
<1>4. CASE Adc!Loop
  <2>1. Adc!TypeOK'
    BY <1>4 DEF Adc!Loop, Adc!TypeOK, Adc!Channels, Adc!Scans, Adc!Older
  <2>2. ScanTicks'
    BY <1>4 DEF ScanTicks, Adc!Loop, Adc!TypeOK, Adc!Channels, Adc!Scans, Adc!Older
  <2>3. ScanCopies'
    BY <1>4 DEF ScanCopies, Adc!Loop, Adc!TypeOK, Adc!Channels, Adc!Scans, Adc!Older
  <2>4. ScanCounted'
    BY <1>4
       DEF ScanTicks, ScanCounted, ScanChecking, Adc!Loop, Adc!TypeOK, Adc!Channels,
           Adc!Scans, Adc!Older
  <2> QED  BY <2>1, <2>2, <2>3, <2>4
<1>5. CASE Adc!Now("Loop", "Age")
  <2>1. Adc!TypeOK'
    BY <1>5 DEF Adc!Now, Adc!TypeOK, Adc!Channels, Adc!Scans, Adc!Older
  <2>2. ScanTicks'
    BY <1>5 DEF ScanTicks, Adc!Now, Adc!TypeOK, Adc!Channels, Adc!Scans, Adc!Older
  <2>3. ScanCopies'
    BY <1>5 DEF ScanCopies, Adc!Now, Adc!TypeOK, Adc!Channels, Adc!Scans, Adc!Older
  <2>4. ScanCounted'
    BY <1>5
       DEF ScanTicks, ScanCounted, ScanChecking, Adc!Now, Adc!TypeOK, Adc!Channels,
           Adc!Scans, Adc!Older
  <2> QED  BY <2>1, <2>2, <2>3, <2>4
<1>6. CASE Adc!Refused
  <2>1. Adc!TypeOK'
    <3>1. result' \in [valid : BOOLEAN, broken : BOOLEAN]
      BY <1>6, ReturnTyped DEF Adc!Refused
    <3>2. /\ adcPc' = "CheckDue" /\ timeRead' = 0 /\ fresh' = FALSE
          /\ Adc!Forget /\ UNCHANGED <<Adc!scan, Adc!health>>
      BY <1>6 DEF Adc!Refused, Adc!Return
    <3>3. (/\ stopped \in BOOLEAN /\ samples \in [Adc!Channels -> Adc!Scans]
           /\ sinceScan \in 0..Adc!LongAgo)'
      BY <3>2 DEF Adc!TypeOK
    <3>4. (/\ sinceCheck \in 0..Adc!LongAgo /\ failures \in 0..Adc!FailureLimit
           /\ adcFault \in BOOLEAN)'
      BY <3>2 DEF Adc!TypeOK
    <3>5. (timeRead \in 0..Adc!LongAgo)'
      BY <3>2
    <3> QED  BY <3>1, <3>2, <3>3, <3>4, <3>5, ForgetTyped DEF Adc!TypeOK
  <2>2. ScanTicks'
    BY <1>6
       DEF ScanTicks, Adc!Refused, Adc!Return, Adc!Forget, Adc!NoValues, Adc!TypeOK,
           Adc!Channels, Adc!Scans, Adc!Older
  <2>3. ScanCopies'
    BY <1>6
       DEF ScanCopies, Adc!Refused, Adc!Return, Adc!Forget, Adc!NoValues, Adc!TypeOK,
           Adc!Channels, Adc!Scans, Adc!Older
  <2>4. ScanCounted'
    BY <1>6
       DEF ScanTicks, ScanCounted, ScanChecking, Adc!Refused, Adc!Return, Adc!Forget,
           Adc!NoValues, Adc!TypeOK, Adc!Channels, Adc!Scans, Adc!Older
  <2> QED  BY <2>1, <2>2, <2>3, <2>4
<1>7. CASE Adc!Recent /\ Adc!Age("Age", "CheckDue", "Begin")
  <2>1. Adc!TypeOK'
    BY <1>7 DEF Adc!Age, Adc!TypeOK, Adc!Channels, Adc!Scans, Adc!Older
  <2>2. ScanTicks'
    BY <1>7 DEF ScanTicks, Adc!Age, Adc!TypeOK, Adc!Channels, Adc!Scans, Adc!Older
  <2>3. ScanCopies'
    BY <1>7 DEF ScanCopies, Adc!Age, Adc!TypeOK, Adc!Channels, Adc!Scans, Adc!Older
  <2>4. ScanCounted'
    BY <1>7
       DEF ScanTicks, ScanCounted, ScanChecking, Adc!Age, Adc!TypeOK, Adc!Channels,
           Adc!Scans, Adc!Older
  <2> QED  BY <2>1, <2>2, <2>3, <2>4
<1>8. CASE attempt > 0 /\ Adc!Begin("Begin", "Copy", "CheckDue")
  <2>1. Adc!TypeOK'
    BY <1>8, NoValuesTyped DEF Adc!Begin, Adc!TypeOK, Adc!Channels, Adc!Older
  <2>2. ScanTicks'
    BY <1>8
       DEF ScanTicks, Adc!Begin, Adc!NoValues, Adc!TypeOK, Adc!Channels, Adc!Scans,
           Adc!Older
  <2>3. ScanCopies'
    BY <1>8
       DEF ScanCopies, Adc!Begin, Adc!NoValues, Adc!TypeOK, Adc!Channels, Adc!Scans,
           Adc!Older
  <2>4. ScanCounted'
    BY <1>8
       DEF ScanTicks, ScanCounted, ScanChecking, Adc!Begin, Adc!NoValues, Adc!TypeOK,
           Adc!Channels, Adc!Scans, Adc!Older
  <2> QED  BY <2>1, <2>2, <2>3, <2>4
<1>9. CASE Adc!Copy("Copy", "End")
  <2>1. Adc!TypeOK'
    BY <1>9 DEF Adc!Copy, Adc!TypeOK, Adc!Channels, Adc!Scans, Adc!Older
  <2>2. ScanTicks'
    BY <1>9 DEF ScanTicks, Adc!Copy, Adc!TypeOK, Adc!Channels, Adc!Scans, Adc!Older
  <2>3. ScanCopies'
    BY <1>9 DEF ScanCopies, Adc!Copy, Adc!TypeOK, Adc!Channels, Adc!Scans, Adc!Older
  <2>4. ScanCounted'
    BY <1>9
       DEF ScanTicks, ScanCounted, ScanChecking, Adc!Copy, Adc!TypeOK, Adc!Channels,
           Adc!Scans, Adc!Older
  <2> QED  BY <2>1, <2>2, <2>3, <2>4
<1>10. CASE Adc!End("End", "Begin", "Done")
  <2>1. Adc!TypeOK'
    BY <1>10 DEF Adc!End, Adc!Moved, Adc!TypeOK, Adc!Channels, Adc!Scans, Adc!Older
  <2>2. ScanTicks'
    BY <1>10
       DEF ScanTicks, Adc!End, Adc!Moved, Adc!TypeOK, Adc!Channels, Adc!Scans, Adc!Older
  <2>3. ScanCopies'
    BY <1>10
       DEF ScanCopies, Adc!End, Adc!Moved, Adc!TypeOK, Adc!Channels, Adc!Scans,
           Adc!Older
  <2>4. ScanCounted'
    BY <1>10
       DEF ScanTicks, ScanCounted, ScanChecking, Adc!End, Adc!Moved, Adc!TypeOK,
           Adc!Channels, Adc!Scans, Adc!Older
  <2> QED  BY <2>1, <2>2, <2>3, <2>4
<1>11. CASE Adc!getHVVoltages
  <2>1. Adc!TypeOK'
    <3>1. values[3].ok \in BOOLEAN
      BY DEF Adc!TypeOK, Adc!Channels, Adc!Scans
    <3>2. result' \in [valid : BOOLEAN, broken : BOOLEAN]
      BY <1>11, <3>1, ReturnTyped DEF Adc!getHVVoltages
    <3> QED  BY <1>11, <3>2, ForgetTyped
                DEF Adc!getHVVoltages, Adc!Return, Adc!TypeOK, Adc!Older
  <2>2. ScanTicks'
    BY <1>11
       DEF ScanTicks, Adc!getHVVoltages, Adc!Return, Adc!Forget, Adc!NoValues,
           Adc!TypeOK, Adc!Channels, Adc!Scans, Adc!Older
  <2>3. ScanCopies'
    BY <1>11
       DEF ScanCopies, Adc!getHVVoltages, Adc!Return, Adc!Forget, Adc!NoValues,
           Adc!TypeOK, Adc!Channels, Adc!Scans, Adc!Older
  <2>4. ScanCounted'
    BY <1>11
       DEF ScanTicks, ScanCounted, ScanChecking, Adc!getHVVoltages, Adc!Return,
           Adc!Forget, Adc!NoValues, Adc!TypeOK, Adc!Channels, Adc!Scans, Adc!Older
  <2> QED  BY <2>1, <2>2, <2>3, <2>4
<1>12. CASE Adc!CheckDue
  <2>1. Adc!TypeOK'
    BY <1>12 DEF Adc!CheckDue, Adc!TypeOK, Adc!Channels, Adc!Scans, Adc!Older
  <2>2. ScanTicks'
    BY <1>12 DEF ScanTicks, Adc!CheckDue, Adc!TypeOK, Adc!Channels, Adc!Scans, Adc!Older
  <2>3. ScanCopies'
    BY <1>12
       DEF ScanCopies, Adc!CheckDue, Adc!TypeOK, Adc!Channels, Adc!Scans, Adc!Older
  <2>4. ScanCounted'
    BY <1>12
       DEF ScanTicks, ScanCounted, ScanChecking, Adc!CheckDue, Adc!TypeOK, Adc!Channels,
           Adc!Scans, Adc!Older
  <2> QED  BY <2>1, <2>2, <2>3, <2>4
<1>13. CASE Adc!Age("CheckAge", "CheckBegin", "CheckBegin")
  <2>1. Adc!TypeOK'
    BY <1>13 DEF Adc!Age, Adc!Recent, Adc!TypeOK, Adc!Channels, Adc!Scans, Adc!Older
  <2>2. ScanTicks'
    BY <1>13
       DEF ScanTicks, Adc!Age, Adc!Recent, Adc!TypeOK, Adc!Channels, Adc!Scans,
           Adc!Older
  <2>3. ScanCopies'
    BY <1>13
       DEF ScanCopies, Adc!Age, Adc!Recent, Adc!TypeOK, Adc!Channels, Adc!Scans,
           Adc!Older
  <2>4. ScanCounted'
    <3>0. /\ adcPc = "CheckAge" /\ timeRead = sinceCheck
          /\ sinceScan \in Nat /\ sinceCheck \in Nat
      BY <1>13 DEF ScanTicks, Adc!Age, Adc!TypeOK
    <3>1. fresh' => sinceScan <= 5 + sinceCheck
      <4>1. Adc!Recent => sinceScan <= 5 + sinceCheck
        BY <3>0 DEF Adc!Recent
      <4>2. fresh' = Adc!Recent
        BY <1>13 DEF Adc!Age
      <4> QED  BY <4>1, <4>2
    <3>2. adcPc = "CheckAge" /\ adcPc' = "CheckBegin" /\ UNCHANGED <<sinceScan, Adc!health>>
      BY <1>13 DEF Adc!Age
    <3> QED  BY <3>1, <3>2 DEF ScanCounted, ScanChecking
  <2> QED  BY <2>1, <2>2, <2>3, <2>4
<1>14. CASE Adc!Begin("CheckBegin", "CheckCopy", "Unavailable")
  <2>1. Adc!TypeOK'
    <3>1. values' \in [Adc!Channels -> Adc!Scans]
      BY <1>14, NoValuesTyped DEF Adc!Begin, Adc!Scans
    <3>2. CASE attempt = 0
      BY <1>14, <3>1, <3>2 DEF Adc!Begin, Adc!TypeOK, Adc!Channels, Adc!Scans, Adc!Older
    <3>3. CASE attempt # 0
      BY <1>14, <3>1, <3>3 DEF Adc!Begin, Adc!TypeOK, Adc!Channels, Adc!Scans, Adc!Older
    <3> QED  BY <3>2, <3>3
  <2>2. ScanTicks'
    BY <1>14
       DEF ScanTicks, Adc!Begin, Adc!NoValues, Adc!TypeOK, Adc!Channels, Adc!Scans,
           Adc!Older
  <2>3. ScanCopies'
    BY <1>14
       DEF ScanCopies, Adc!Begin, Adc!NoValues, Adc!TypeOK, Adc!Channels, Adc!Scans,
           Adc!Older
  <2>4. ScanCounted'
    BY <1>14
       DEF ScanTicks, ScanCounted, ScanChecking, Adc!Begin, Adc!NoValues, Adc!TypeOK,
           Adc!Channels, Adc!Scans, Adc!Older
  <2> QED  BY <2>1, <2>2, <2>3, <2>4
<1>15. CASE Adc!Copy("CheckCopy", "CheckEnd")
  <2>1. Adc!TypeOK'
    BY <1>15 DEF Adc!Copy, Adc!TypeOK, Adc!Channels, Adc!Scans, Adc!Older
  <2>2. ScanTicks'
    BY <1>15 DEF ScanTicks, Adc!Copy, Adc!TypeOK, Adc!Channels, Adc!Scans, Adc!Older
  <2>3. ScanCopies'
    BY <1>15 DEF ScanCopies, Adc!Copy, Adc!TypeOK, Adc!Channels, Adc!Scans, Adc!Older
  <2>4. ScanCounted'
    BY <1>15
       DEF ScanTicks, ScanCounted, ScanChecking, Adc!Copy, Adc!TypeOK, Adc!Channels,
           Adc!Scans, Adc!Older
  <2> QED  BY <2>1, <2>2, <2>3, <2>4
<1>16. CASE Adc!End("CheckEnd", "CheckBegin", "Verdict")
  <2>1. Adc!TypeOK'
    BY <1>16 DEF Adc!End, Adc!Moved, Adc!TypeOK, Adc!Channels, Adc!Scans, Adc!Older
  <2>2. ScanTicks'
    BY <1>16
       DEF ScanTicks, Adc!End, Adc!Moved, Adc!TypeOK, Adc!Channels, Adc!Scans, Adc!Older
  <2>3. ScanCopies'
    BY <1>16
       DEF ScanCopies, Adc!End, Adc!Moved, Adc!TypeOK, Adc!Channels, Adc!Scans,
           Adc!Older
  <2>4. ScanCounted'
    BY <1>16
       DEF ScanTicks, ScanCounted, ScanChecking, Adc!End, Adc!Moved, Adc!TypeOK,
           Adc!Channels, Adc!Scans, Adc!Older
  <2> QED  BY <2>1, <2>2, <2>3, <2>4
<1>17. CASE Adc!updateAdcHealth
  <2> DEFINE healthy == fresh /\ adcPc = "Verdict" /\ values[3].ok
             count == IF healthy THEN 0
                      ELSE IF failures < 3 THEN failures + 1 ELSE failures
  <2>1. failures' = count /\ (adcFault' <=> ~healthy /\ count >= 3) /\ adcFault' \in BOOLEAN
    BY <1>17 DEF Adc!updateAdcHealth, Adc!LimitReached
  <2>2. failures \in 0..3
    BY DEF Adc!TypeOK
  <2>3. /\ count \in 0..3 /\ (healthy => count = 0)
        /\ ~healthy /\ failures < 3 => count = failures + 1
        /\ ~healthy /\ failures = 3 => count = 3
    BY <2>2
  <2> HIDE DEF healthy, count
  <2>4. Adc!TypeOK'
    BY <1>17, <2>1, <2>3, ForgetTyped DEF Adc!updateAdcHealth, Adc!TypeOK, Adc!Older
  <2>5. ScanTicks'
    BY <1>17
       DEF ScanTicks, Adc!updateAdcHealth, Adc!Forget, Adc!NoValues, Adc!LimitReached
  <2>6. ScanCopies'
    BY <1>17
       DEF ScanCopies, Adc!updateAdcHealth, Adc!Forget, Adc!NoValues, Adc!LimitReached
  <2>7. /\ adcPc' = "Delay" /\ adcPc \in {"Verdict", "Unavailable"}
        /\ UNCHANGED <<sinceScan, sinceCheck>>
    BY <1>17 DEF Adc!updateAdcHealth
  <2>8. healthy => sinceScan <= 5 + sinceCheck
    BY <2>7 DEF healthy, ScanCounted
  <2>9. sinceScan \in Nat /\ sinceCheck \in Nat
    BY DEF Adc!TypeOK
  <2>10. ScanCounted'
    <3>1. (adcFault <=> failures = 3)'
      BY <2>1, <2>3
    <3>2. /\ sinceScan > 5 + sinceCheck => count >= 1
          /\ sinceScan > 7 + sinceCheck => count >= 2
          /\ sinceScan > 9 + sinceCheck => count >= 3
      BY <2>2, <2>3, <2>7, <2>8, <2>9 DEF ScanCounted, ScanChecking
    <3> QED  BY <2>1, <2>7, <3>1, <3>2 DEF ScanCounted, ScanChecking
  <2> QED  BY <2>4, <2>5, <2>6, <2>10
<1>18. CASE UNCHANGED Adc!vars
  BY <1>18
     DEF ScanTicks, ScanCopies, ScanCounted, ScanChecking, Adc!TypeOK, Adc!Channels,
         Adc!Scans, Adc!Older
<1> QED  BY <1>1, <1>2, <1>3, <1>4, <1>5, <1>6, <1>7, <1>8, <1>9, <1>10, <1>11, <1>12,
            <1>13, <1>14, <1>15, <1>16, <1>17, <1>18
            DEF Adc!Next

-----------------------------------------------------------------------------
(* Wi-Fi.  What the station's state means is known only together with what *)
(* the event task has still to hear: a link that is gone is one whose loss *)
(* is in the queue, behind the address that would make the gateway believe *)
(* in it.                                                                  *)

\* The types, of the records and of the rest.
WifiRecords ==
    /\ scan \in [pending : BOOLEAN, purpose : {"none", "user", "selection"}, ready : BOOLEAN]
    /\ wifiMain \in [step : Wifi!MainSteps, then : Wifi!MainSteps]
    /\ http \in [started : BOOLEAN, scans : 0 .. MaxScans]
WifiPlain ==
    /\ configured \in BOOLEAN
    /\ wifiState \in {"provisioning", "connecting", "connected", "recovery"}
    /\ accessPoint \in BOOLEAN
    /\ retry \in {"none", "waiting", "due"}
    /\ resetFailed \in BOOLEAN
    /\ authFailed \subseteq Wifi!Networks /\ candidate \in Wifi!Networks \cup {"none"}
    /\ elapsed \subseteq {"window", "ap", "scan"}
    /\ mdns \in BOOLEAN /\ refresh \in BOOLEAN
    /\ station \in {"idle", "connecting", "ip"} /\ driverScan \in BOOLEAN
    /\ events \in Seq(Wifi!Events) /\ Len(events) <= MaxEvents

\* The two groups are the module's type invariant.
LEMMA WifiTypes == Wifi!TypeOK <=> WifiPlain /\ WifiRecords
  BY DEF Wifi!TypeOK, WifiPlain, WifiRecords, Wifi!None

\* A loss of the link, and any end of the station's attempt, that is still unheard.
LossIn(queue) == \E i \in 1 .. Len(queue) : queue[i] = "lost"
EndIn(queue) == \E i \in 1 .. Len(queue) : queue[i] \in {"lost", "lost_auth"}

\* An address that is still unheard is there, or its loss comes behind it.
AddressesTrue(queue, there) ==
    \A i \in 1 .. Len(queue) : queue[i] = "ip" =>
        there \/ \E j \in i + 1 .. Len(queue) : queue[j] = "lost"

\* The gateway is connected over an address it has, or whose loss is unheard.
LossIsTold ==
    /\ wifiState = "connected" => station = "ip" \/ LossIn(events)
    /\ AddressesTrue(events, station = "ip")

\* So is the responder that nothing asked to withdraw.
ResponderFollows == mdns /\ ~refresh => station = "ip" \/ EndIn(events)

\* Only startAccessPoint is between its flag and its state.
OneRecovery == accessPoint /\ wifiState = "connecting" => wifiMain.step = "ap_state"

\* A scan that no browser asked for selects a network.
ScansKnown ==
    /\ http.started => http.scans # 0
    /\ scan.pending /\ http.scans = 0 => scan.purpose = "selection"

\* The next attempt is under way, or its end is unheard, or tick is on its way to it.
Attempting ==
    \/ station # "idle" \/ scan.pending \/ retry # "none"
    \/ wifiMain.step \in {"select", "mark"} \/ EndIn(events)
AttemptIsKept == configured /\ http.scans = 0 => Attempting

\* The inductive invariant of Wi-Fi.
WifiInv ==
    /\ WifiPlain /\ WifiRecords /\ LossIsTold /\ ResponderFollows /\ OneRecovery /\ ScansKnown
    /\ AttemptIsKept

\* What taking the first event off the queue leaves.
LEMMA EventTaken ==
    ASSUME NEW queue \in Seq(Wifi!Events), queue # <<>>, NEW there \in BOOLEAN
    PROVE  /\ Head(queue) \in Wifi!Events
           /\ Tail(queue) \in Seq(Wifi!Events) /\ Len(Tail(queue)) = Len(queue) - 1
           /\ Len(queue) \in Nat
           /\ LossIn(queue) /\ Head(queue) # "lost" => LossIn(Tail(queue))
           /\ EndIn(queue) /\ Head(queue) \notin {"lost", "lost_auth"} => EndIn(Tail(queue))
           /\ AddressesTrue(queue, there) => AddressesTrue(Tail(queue), there)
           /\ AddressesTrue(queue, there) /\ Head(queue) = "ip" => there \/ LossIn(Tail(queue))
<1>1. /\ Head(queue) \in Wifi!Events /\ Head(queue) = queue[1]
      /\ Tail(queue) \in Seq(Wifi!Events) /\ Len(Tail(queue)) = Len(queue) - 1
      /\ Len(queue) \in Nat /\ Len(queue) > 0
  OBVIOUS
<1>2. \A i \in 1 .. Len(queue) - 1 : Tail(queue)[i] = queue[i + 1]
  OBVIOUS
<1>3. \A i \in 2 .. Len(queue) :
        /\ i - 1 \in 1 .. Len(queue) - 1 /\ Tail(queue)[i - 1] = queue[i]
  BY <1>1, <1>2
<1>4. LossIn(queue) /\ Head(queue) # "lost" => LossIn(Tail(queue))
  <2> SUFFICES ASSUME NEW i \in 1 .. Len(queue), queue[i] = "lost", Head(queue) # "lost"
               PROVE  LossIn(Tail(queue))
    BY DEF LossIn
  <2>1. i \in 2 .. Len(queue)
    BY <1>1
  <2> QED  BY <1>1, <1>3, <2>1 DEF LossIn
<1>5. EndIn(queue) /\ Head(queue) \notin {"lost", "lost_auth"} => EndIn(Tail(queue))
  <2> SUFFICES ASSUME NEW i \in 1 .. Len(queue), queue[i] \in {"lost", "lost_auth"},
                      Head(queue) \notin {"lost", "lost_auth"}
               PROVE  EndIn(Tail(queue))
    BY DEF EndIn
  <2>1. i \in 2 .. Len(queue)
    BY <1>1
  <2> QED  BY <1>1, <1>3, <2>1 DEF EndIn
<1>6. AddressesTrue(queue, there) => AddressesTrue(Tail(queue), there)
  <2> SUFFICES ASSUME AddressesTrue(queue, there), ~there,
                      NEW i \in 1 .. Len(queue) - 1, Tail(queue)[i] = "ip"
               PROVE  \E j \in i + 1 .. Len(queue) - 1 : Tail(queue)[j] = "lost"
    BY <1>1 DEF AddressesTrue
  <2>1. i + 1 \in 1 .. Len(queue) /\ queue[i + 1] = "ip"
    BY <1>1, <1>2
  <2>2. PICK j \in (i + 1) + 1 .. Len(queue) : queue[j] = "lost"
    BY <2>1 DEF AddressesTrue
  <2>3. j - 1 \in i + 1 .. Len(queue) - 1 /\ j \in 2 .. Len(queue)
    BY <1>1, <2>2
  <2> QED  BY <1>3, <2>2, <2>3
<1>7. AddressesTrue(queue, there) /\ Head(queue) = "ip" => there \/ LossIn(Tail(queue))
  <2> SUFFICES ASSUME AddressesTrue(queue, there), ~there, Head(queue) = "ip"
               PROVE  LossIn(Tail(queue))
    OBVIOUS
  <2>1. PICK j \in 2 .. Len(queue) : queue[j] = "lost"
    BY <1>1 DEF AddressesTrue
  <2> QED  BY <1>1, <1>3, <2>1 DEF LossIn
<1> QED  BY <1>1, <1>4, <1>5, <1>6, <1>7

\* What putting an event at its end leaves.
LEMMA EventPosted ==
    ASSUME NEW queue \in Seq(Wifi!Events), NEW event \in Wifi!Events, NEW there \in BOOLEAN
    PROVE  /\ Append(queue, event) \in Seq(Wifi!Events)
           /\ Len(Append(queue, event)) = Len(queue) + 1 /\ Len(queue) \in Nat
           /\ LossIn(queue) \/ event = "lost" => LossIn(Append(queue, event))
           /\ EndIn(queue) \/ event \in {"lost", "lost_auth"} => EndIn(Append(queue, event))
           /\ AddressesTrue(queue, there) /\ (event = "ip" => there) =>
                 AddressesTrue(Append(queue, event), there)
           /\ AddressesTrue(queue, TRUE) /\ event = "lost" =>
                 AddressesTrue(Append(queue, event), there)
<1> DEFINE longer == Append(queue, event)
<1>1. /\ longer \in Seq(Wifi!Events) /\ Len(longer) = Len(queue) + 1 /\ Len(queue) \in Nat
      /\ longer[Len(queue) + 1] = event /\ Len(queue) + 1 \in 1 .. Len(longer)
      /\ \A i \in 1 .. Len(queue) : longer[i] = queue[i] /\ i \in 1 .. Len(longer)
  OBVIOUS
<1> HIDE DEF longer
<1>2. LossIn(queue) \/ event = "lost" => LossIn(longer)
  BY <1>1 DEF LossIn
<1>3. EndIn(queue) \/ event \in {"lost", "lost_auth"} => EndIn(longer)
  BY <1>1 DEF EndIn
<1>4. AddressesTrue(queue, there) /\ (event = "ip" => there) => AddressesTrue(longer, there)
  <2> SUFFICES ASSUME AddressesTrue(queue, there), ~there, event # "ip",
                      NEW i \in 1 .. Len(longer), longer[i] = "ip"
               PROVE  \E j \in i + 1 .. Len(longer) : longer[j] = "lost"
    BY DEF AddressesTrue
  <2>1. i \in 1 .. Len(queue) /\ queue[i] = "ip"
    BY <1>1
  <2>2. PICK j \in i + 1 .. Len(queue) : queue[j] = "lost"
    BY <2>1 DEF AddressesTrue
  <2>3. j \in 1 .. Len(queue) /\ j \in i + 1 .. Len(longer)
    BY <1>1, <2>2
  <2> QED  BY <1>1, <2>2, <2>3
<1>5. event = "lost" => AddressesTrue(longer, there)
  <2> SUFFICES ASSUME event = "lost", NEW i \in 1 .. Len(longer), longer[i] = "ip"
               PROVE  \E j \in i + 1 .. Len(longer) : longer[j] = "lost"
    BY DEF AddressesTrue
  <2>1. i \in 1 .. Len(queue)
    BY <1>1
  <2>2. Len(queue) + 1 \in i + 1 .. Len(longer)
    BY <1>1, <2>1
  <2> QED  BY <1>1, <2>2
<1> QED  BY <1>1, <1>2, <1>3, <1>4, <1>5 DEF longer

\* At power-on, and after a restart, the event task has only the start to hear.
LEMMA StartAlone ==
    /\ <<"start">> \in Seq(Wifi!Events) /\ Len(<<"start">>) = 1
    /\ \A there \in BOOLEAN : AddressesTrue(<<"start">>, there)
<1>1. "start" \in Wifi!Events
  BY DEF Wifi!Events
<1> QED  BY <1>1 DEF AddressesTrue

\* The event task keeps the invariant, whatever it hears.
LEMMA WifiHears ==
    ASSUME WifiInv, NEW visible \in SUBSET Wifi!Networks, Wifi!HandleEvent(visible)
    PROVE  WifiInv'
<1> USE DEF WifiInv, Wifi!programVars, Wifi!driverVars, Wifi!None, Wifi!At, Wifi!Goto
<1>1. /\ events # <<>> /\ events' = Tail(events)
      /\ UNCHANGED <<configured, mdns, wifiMain, http, driverScan>>
  BY DEF Wifi!HandleEvent
<1>2. /\ events \in Seq(Wifi!Events) /\ Len(events) <= MaxEvents /\ MaxEvents \in Nat
      /\ (station = "ip") \in BOOLEAN
  BY WifiAssumption DEF WifiPlain, WifiRecords
<1>3. /\ Head(events) \in Wifi!Events
      /\ Tail(events) \in Seq(Wifi!Events) /\ Len(Tail(events)) <= MaxEvents
      /\ LossIn(events) /\ Head(events) # "lost" => LossIn(Tail(events))
      /\ EndIn(events) /\ Head(events) \notin {"lost", "lost_auth"} => EndIn(Tail(events))
      /\ AddressesTrue(Tail(events), station = "ip")
      /\ Head(events) = "ip" => station = "ip" \/ LossIn(Tail(events))
  <2> DEFINE there == station = "ip"
  <2>1. there \in BOOLEAN /\ AddressesTrue(events, there)
    BY DEF LossIsTold
  <2>2. Len(events) \in Nat /\ Len(Tail(events)) = Len(events) - 1
    BY <1>1, <1>2
  <2>3. Len(Tail(events)) <= MaxEvents
    BY <1>2, <2>2
  <2> HIDE DEF there
  <2>4. /\ Head(events) \in Wifi!Events /\ Tail(events) \in Seq(Wifi!Events)
        /\ LossIn(events) /\ Head(events) # "lost" => LossIn(Tail(events))
        /\ EndIn(events) /\ Head(events) \notin {"lost", "lost_auth"} => EndIn(Tail(events))
        /\ AddressesTrue(Tail(events), there)
        /\ Head(events) = "ip" => there \/ LossIn(Tail(events))
    BY <1>1, <1>2, <2>1, EventTaken
  <2> QED  BY <2>3, <2>4 DEF there
<1>4. LossIn(Tail(events)) => EndIn(Tail(events))
  BY DEF LossIn, EndIn
<1>5. CASE Head(events) = "start"
  <2>1. Wifi!OnStart
    BY <1>5 DEF Wifi!HandleEvent
  <2>2. (WifiPlain /\ WifiRecords)'
    <3>1. WifiPlain'
      BY <1>1, <1>2, <1>3, <2>1 DEF Wifi!OnStart, WifiPlain, Wifi!Networks, Wifi!Primary
    <3>2. WifiRecords'
      BY <1>1, <1>2, <1>3, <2>1 DEF Wifi!OnStart, WifiRecords, Wifi!MainSteps
    <3> QED  BY <3>1, <3>2
  <2>3. (LossIsTold /\ ResponderFollows)'
    BY <1>1, <1>3, <1>4, <1>5, <2>1
       DEF Wifi!OnStart, WifiPlain, WifiRecords, LossIsTold, ResponderFollows
  <2>4. (OneRecovery /\ ScansKnown)'
    BY <1>1, <1>3, <1>5, <2>1
       DEF Wifi!OnStart, WifiPlain, WifiRecords, OneRecovery, ScansKnown
  <2>5. AttemptIsKept'
    BY <1>1, <1>3, <1>4, <1>5, <2>1
       DEF Wifi!OnStart, WifiPlain, WifiRecords, LossIsTold, ScansKnown, AttemptIsKept,
           Attempting
  <2> QED  BY <2>2, <2>3, <2>4, <2>5
<1>6. CASE Head(events) = "lost"
  <2>1. Wifi!OnDisconnected(FALSE)
    BY <1>6 DEF Wifi!HandleEvent
  <2>2. (WifiPlain /\ WifiRecords)'
    <3>1. WifiPlain'
      BY <1>1, <1>2, <1>3, <2>1
         DEF Wifi!OnDisconnected, Wifi!StateWithoutLink, WifiPlain, Wifi!Networks,
             Wifi!Primary
    <3>2. WifiRecords'
      BY <1>1, <1>2, <1>3, <2>1
         DEF Wifi!OnDisconnected, Wifi!StateWithoutLink, WifiRecords, Wifi!MainSteps
    <3> QED  BY <3>1, <3>2
  <2>3. (LossIsTold /\ ResponderFollows)'
    BY <1>1, <1>3, <1>4, <1>6, <2>1
       DEF Wifi!OnDisconnected, Wifi!StateWithoutLink, WifiPlain, WifiRecords,
           LossIsTold, ResponderFollows
  <2>4. (OneRecovery /\ ScansKnown)'
    BY <1>1, <1>3, <1>6, <2>1
       DEF Wifi!OnDisconnected, Wifi!StateWithoutLink, WifiPlain, WifiRecords,
           OneRecovery, ScansKnown
  <2>5. AttemptIsKept'
    BY <1>1, <1>3, <1>4, <1>6, <2>1
       DEF Wifi!OnDisconnected, Wifi!StateWithoutLink, WifiPlain, WifiRecords,
           LossIsTold, ScansKnown, AttemptIsKept, Attempting
  <2> QED  BY <2>2, <2>3, <2>4, <2>5
<1>7. CASE Head(events) = "lost_auth"
  <2>1. Wifi!OnDisconnected(TRUE)
    BY <1>7 DEF Wifi!HandleEvent
  <2>2. (WifiPlain /\ WifiRecords)'
    <3>1. WifiPlain'
      BY <1>1, <1>2, <1>3, <2>1
         DEF Wifi!OnDisconnected, Wifi!StateWithoutLink, WifiPlain, Wifi!Networks,
             Wifi!Primary
    <3>2. WifiRecords'
      BY <1>1, <1>2, <1>3, <2>1
         DEF Wifi!OnDisconnected, Wifi!StateWithoutLink, WifiRecords, Wifi!MainSteps
    <3> QED  BY <3>1, <3>2
  <2>3. (LossIsTold /\ ResponderFollows)'
    BY <1>1, <1>3, <1>4, <1>7, <2>1
       DEF Wifi!OnDisconnected, Wifi!StateWithoutLink, WifiPlain, WifiRecords,
           LossIsTold, ResponderFollows
  <2>4. (OneRecovery /\ ScansKnown)'
    BY <1>1, <1>3, <1>7, <2>1
       DEF Wifi!OnDisconnected, Wifi!StateWithoutLink, WifiPlain, WifiRecords,
           OneRecovery, ScansKnown
  <2>5. AttemptIsKept'
    BY <1>1, <1>3, <1>4, <1>7, <2>1
       DEF Wifi!OnDisconnected, Wifi!StateWithoutLink, WifiPlain, WifiRecords,
           LossIsTold, ScansKnown, AttemptIsKept, Attempting
  <2> QED  BY <2>2, <2>3, <2>4, <2>5
<1>8. CASE Head(events) = "ip"
  <2>1. Wifi!OnGotIp
    BY <1>8 DEF Wifi!HandleEvent
  <2>2. (WifiPlain /\ WifiRecords)'
    <3>1. WifiPlain'
      BY <1>1, <1>2, <1>3, <2>1 DEF Wifi!OnGotIp, WifiPlain, Wifi!Networks, Wifi!Primary
    <3>2. WifiRecords'
      BY <1>1, <1>2, <1>3, <2>1 DEF Wifi!OnGotIp, WifiRecords, Wifi!MainSteps
    <3> QED  BY <3>1, <3>2
  <2>3. (LossIsTold /\ ResponderFollows)'
    BY <1>1, <1>3, <1>4, <1>8, <2>1
       DEF Wifi!OnGotIp, WifiPlain, WifiRecords, LossIsTold, ResponderFollows
  <2>4. (OneRecovery /\ ScansKnown)'
    BY <1>1, <1>3, <1>8, <2>1
       DEF Wifi!OnGotIp, WifiPlain, WifiRecords, OneRecovery, ScansKnown
  <2>5. AttemptIsKept'
    BY <1>1, <1>3, <1>4, <1>8, <2>1
       DEF Wifi!OnGotIp, WifiPlain, WifiRecords, LossIsTold, ScansKnown, AttemptIsKept,
           Attempting
  <2> QED  BY <2>2, <2>3, <2>4, <2>5
<1>9. CASE Head(events) = "scan_done" /\ scan.purpose = "selection"
  <2>1. Wifi!OnSelectionDone(visible)
    BY <1>9 DEF Wifi!HandleEvent
  <2>2. (WifiPlain /\ WifiRecords)'
    <3>1. WifiPlain'
      <4>1. /\ candidate' \in Wifi!Networks \cup {"none"}
            /\ station' \in {station, "connecting"}
            /\ retry' \in {retry, "waiting"} /\ resetFailed' \in {resetFailed, TRUE}
            /\ accessPoint' \in {accessPoint, TRUE} /\ elapsed' \subseteq elapsed
            /\ wifiState' \in {wifiState, "connecting", "provisioning"}
            /\ UNCHANGED authFailed /\ UNCHANGED refresh
        <5>1. CASE \E network \in Wifi!Choice(visible) :
                    /\ Wifi!Connects(network)
                    /\ UNCHANGED <<accessPoint, resetFailed, elapsed>>
          <6>1. PICK network \in Wifi!Choice(visible) :
                    /\ Wifi!Connects(network)
                    /\ UNCHANGED <<accessPoint, resetFailed, elapsed>>
            BY <5>1
          <6>2. network \in Wifi!Networks
            BY DEF Wifi!Choice, Wifi!Networks, Wifi!Primary
          <6> QED  BY <2>1, <6>1, <6>2 DEF Wifi!OnSelectionDone, Wifi!Connects
        <5>2. CASE configured \/ accessPoint
          BY <2>1, <5>1, <5>2
             DEF Wifi!OnSelectionDone, Wifi!ConnectRefused, Wifi!Scheduled
        <5>3. CASE ~configured /\ ~accessPoint
          BY <2>1, <5>1, <5>3 DEF Wifi!OnSelectionDone, Wifi!SetUp, Wifi!Scheduled
        <5> QED  BY <5>2, <5>3
      <4>2. /\ wifiState' \in {"provisioning", "connecting", "connected", "recovery"}
            /\ retry' \in {"none", "waiting", "due"}
            /\ station' \in {"idle", "connecting", "ip"}
        BY <4>1 DEF WifiPlain
      <4>3. accessPoint' \in BOOLEAN /\ resetFailed' \in BOOLEAN
        BY <4>1 DEF WifiPlain
      <4>4. events' \in Seq(Wifi!Events) /\ Len(events') <= MaxEvents
        BY <1>1, <1>3
      <4> QED  BY <1>1, <4>1, <4>2, <4>3, <4>4 DEF WifiPlain
    <3>2. WifiRecords'
      BY <1>1, <1>2, <1>3, <2>1
         DEF Wifi!OnSelectionDone, Wifi!Purposeless, Wifi!Choice, Wifi!Connects,
             Wifi!ConnectRefused, Wifi!Scheduled, Wifi!SetUp, WifiRecords,
             Wifi!MainSteps
    <3> QED  BY <3>1, <3>2
  <2>3. (LossIsTold /\ ResponderFollows)'
    BY <1>1, <1>3, <1>4, <1>9, <2>1
       DEF Wifi!OnSelectionDone, Wifi!Purposeless, Wifi!Choice, Wifi!Connects,
           Wifi!ConnectRefused, Wifi!Scheduled, Wifi!SetUp, WifiPlain, WifiRecords,
           LossIsTold, ResponderFollows
  <2>4. (OneRecovery /\ ScansKnown)'
    BY <1>1, <1>3, <1>9, <2>1
       DEF Wifi!OnSelectionDone, Wifi!Purposeless, Wifi!Choice, Wifi!Connects,
           Wifi!ConnectRefused, Wifi!Scheduled, Wifi!SetUp, WifiPlain, WifiRecords,
           OneRecovery, ScansKnown
  <2>5. AttemptIsKept'
    BY <1>1, <1>3, <1>4, <1>9, <2>1
       DEF Wifi!OnSelectionDone, Wifi!Purposeless, Wifi!Choice, Wifi!Connects,
           Wifi!ConnectRefused, Wifi!Scheduled, Wifi!SetUp, WifiPlain, WifiRecords,
           LossIsTold, ScansKnown, AttemptIsKept, Attempting
  <2> QED  BY <2>2, <2>3, <2>4, <2>5
<1>10. CASE Head(events) = "scan_done" /\ scan.purpose # "selection"
  <2>1. Wifi!OnUserScanDone
    BY <1>10 DEF Wifi!HandleEvent
  <2>2. (WifiPlain /\ WifiRecords)'
    <3>1. WifiPlain'
      BY <1>1, <1>2, <1>3, <2>1
         DEF Wifi!OnUserScanDone, Wifi!Finished, WifiPlain, Wifi!Networks, Wifi!Primary
    <3>2. WifiRecords'
      BY <1>1, <1>2, <1>3, <2>1
         DEF Wifi!OnUserScanDone, Wifi!Finished, WifiRecords, Wifi!MainSteps
    <3> QED  BY <3>1, <3>2
  <2>3. (LossIsTold /\ ResponderFollows)'
    BY <1>1, <1>3, <1>4, <1>10, <2>1
       DEF Wifi!OnUserScanDone, Wifi!Finished, WifiPlain, WifiRecords, LossIsTold,
           ResponderFollows
  <2>4. (OneRecovery /\ ScansKnown)'
    BY <1>1, <1>3, <1>10, <2>1
       DEF Wifi!OnUserScanDone, Wifi!Finished, WifiPlain, WifiRecords, OneRecovery,
           ScansKnown
  <2>5. AttemptIsKept'
    BY <1>1, <1>3, <1>4, <1>10, <2>1
       DEF Wifi!OnUserScanDone, Wifi!Finished, WifiPlain, WifiRecords, LossIsTold,
           ScansKnown, AttemptIsKept, Attempting
  <2> QED  BY <2>2, <2>3, <2>4, <2>5
<1> QED  BY <1>3, <1>5, <1>6, <1>7, <1>8, <1>9, <1>10 DEF Wifi!Events

\* What is done where no network can be tried keeps the types.
LEMMA NoNetworkTyped ==
    ASSUME WifiPlain, Wifi!NoNetwork
    PROVE  /\ accessPoint' \in BOOLEAN /\ elapsed' \subseteq {"window", "ap", "scan"}
           /\ wifiState' \in {"provisioning", "connecting", "connected", "recovery"}
           /\ retry' \in {"none", "waiting", "due"}
<1>1. CASE ~configured /\ ~accessPoint
  BY <1>1 DEF Wifi!NoNetwork, Wifi!SetUp, WifiPlain
<1>2. CASE ~(~configured /\ ~accessPoint)
  BY <1>2 DEF Wifi!NoNetwork, Wifi!Scheduled, WifiPlain
<1> QED  BY <1>1, <1>2

\* The main task keeps the invariant: it touches neither the station nor the queue.
LEMMA WifiTicks == WifiInv /\ Wifi!Tick => WifiInv'
<1> SUFFICES ASSUME WifiInv, Wifi!Tick PROVE WifiInv'
  OBVIOUS
<1> USE DEF WifiInv, Wifi!programVars, Wifi!driverVars, Wifi!None, Wifi!At, Wifi!Goto
<1>1. UNCHANGED <<configured, http, station, events>>
  BY DEF Wifi!Tick, Wifi!RefreshMdns, Wifi!ScanTimeout, Wifi!Retry, Wifi!SelectCheck,
         Wifi!SelectMark, Wifi!SelectScan, Wifi!SelectRefused, Wifi!Window, Wifi!ApMode,
         Wifi!ApFlag, Wifi!ApState, Wifi!Stop, Wifi!StopRefused
<1>2. /\ wifiState' = "connected" => wifiState = "connected"
      /\ LossIn(events) => EndIn(events)
  BY DEF Wifi!Tick, Wifi!RefreshMdns, Wifi!ScanTimeout, Wifi!Retry, Wifi!SelectCheck,
         Wifi!SelectMark, Wifi!SelectScan, Wifi!SelectRefused, Wifi!Window, Wifi!ApMode,
         Wifi!ApFlag, Wifi!ApState, Wifi!Stop, Wifi!StopRefused, Wifi!NoNetwork,
         Wifi!SetUp, LossIn, EndIn
<1>3. LossIsTold'
  BY <1>1, <1>2 DEF LossIsTold
<1>4. CASE Wifi!RefreshMdns
  <2>1. (WifiPlain /\ WifiRecords)'
    <3>1. WifiPlain'
      BY <1>1, <1>4 DEF Wifi!RefreshMdns, WifiPlain, Wifi!Networks, Wifi!Primary
    <3>2. WifiRecords'
      BY <1>1, <1>4 DEF Wifi!RefreshMdns, WifiRecords, Wifi!MainSteps
    <3> QED  BY <3>1, <3>2
  <2>2. (ResponderFollows /\ OneRecovery /\ ScansKnown)'
    BY <1>1, <1>2, <1>4
       DEF Wifi!RefreshMdns, WifiPlain, WifiRecords, Wifi!MainSteps, LossIsTold,
           ResponderFollows, OneRecovery, ScansKnown
  <2>3. AttemptIsKept'
    BY <1>1, <1>2, <1>4
       DEF Wifi!RefreshMdns, WifiPlain, WifiRecords, Wifi!MainSteps, LossIsTold,
           ScansKnown, AttemptIsKept, Attempting
  <2> QED  BY <1>3, <2>1, <2>2, <2>3
<1>5. CASE Wifi!ScanTimeout
  <2>1. (WifiPlain /\ WifiRecords)'
    <3>1. WifiPlain'
      <4>1. Wifi!NoNetwork \/ UNCHANGED <<accessPoint, wifiState, retry, elapsed>>
        BY <1>5 DEF Wifi!ScanTimeout
      <4>2. driverScan' \in {FALSE, driverScan}
        BY <1>5 DEF Wifi!ScanTimeout
      <4>3. /\ accessPoint' \in BOOLEAN /\ elapsed' \subseteq {"window", "ap", "scan"}
            /\ wifiState' \in {"provisioning", "connecting", "connected", "recovery"}
            /\ retry' \in {"none", "waiting", "due"}
        BY <4>1, NoNetworkTyped DEF WifiPlain
      <4>4. UNCHANGED <<resetFailed, authFailed, candidate, mdns, refresh, station, events,
                        configured>>
        BY <1>1, <1>5 DEF Wifi!ScanTimeout
      <4>5. driverScan' \in BOOLEAN
        BY <4>2 DEF WifiPlain
      <4> QED  BY <4>3, <4>4, <4>5 DEF WifiPlain
    <3>2. WifiRecords'
      <4>1. scan' \in {Wifi!Purposeless, Wifi!Finished, scan}
        BY <1>5 DEF Wifi!ScanTimeout
      <4>2. /\ Wifi!Purposeless \in [pending : BOOLEAN, ready : BOOLEAN,
                                    purpose : {"none", "user", "selection"}]
            /\ Wifi!Finished \in [pending : BOOLEAN, ready : BOOLEAN,
                                 purpose : {"none", "user", "selection"}]
        BY DEF Wifi!Purposeless, Wifi!Finished, WifiRecords
      <4>3. wifiMain' = [step |-> "retry", then |-> "mdns"]
        BY <1>5 DEF Wifi!ScanTimeout
      <4> QED  BY <1>1, <4>1, <4>2, <4>3 DEF WifiRecords, Wifi!MainSteps
    <3> QED  BY <3>1, <3>2
  <2>2. (ResponderFollows /\ OneRecovery /\ ScansKnown)'
    BY <1>1, <1>2, <1>5
       DEF Wifi!ScanTimeout, Wifi!NoNetwork, Wifi!SetUp, Wifi!Scheduled,
           Wifi!Purposeless, Wifi!Finished, WifiPlain, WifiRecords, Wifi!MainSteps,
           LossIsTold, ResponderFollows, OneRecovery, ScansKnown
  <2>3. AttemptIsKept'
    BY <1>1, <1>2, <1>5
       DEF Wifi!ScanTimeout, Wifi!NoNetwork, Wifi!SetUp, Wifi!Scheduled,
           Wifi!Purposeless, Wifi!Finished, WifiPlain, WifiRecords, Wifi!MainSteps,
           LossIsTold, ScansKnown, AttemptIsKept, Attempting
  <2> QED  BY <1>3, <2>1, <2>2, <2>3
<1>6. CASE Wifi!Retry
  <2>1. (WifiPlain /\ WifiRecords)'
    <3>1. WifiPlain'
      <4>1. /\ retry' \in {retry, "none"} /\ authFailed' \in {authFailed, {}}
            /\ resetFailed' \in {resetFailed, FALSE}
        BY <1>6 DEF Wifi!Retry
      <4>2. /\ retry' \in {"none", "waiting", "due"} /\ authFailed' \subseteq Wifi!Networks
            /\ resetFailed' \in BOOLEAN
        BY <4>1 DEF WifiPlain
      <4>3. UNCHANGED <<wifiState, accessPoint, candidate, elapsed, mdns, refresh, driverScan>>
        BY <1>6 DEF Wifi!Retry
      <4> QED  BY <1>1, <4>2, <4>3 DEF WifiPlain
    <3>2. WifiRecords'
      BY <1>1, <1>6 DEF Wifi!Retry, Wifi!Select, WifiRecords, Wifi!MainSteps
    <3> QED  BY <3>1, <3>2
  <2>2. (ResponderFollows /\ OneRecovery /\ ScansKnown)'
    BY <1>1, <1>2, <1>6
       DEF Wifi!Retry, Wifi!Select, WifiPlain, WifiRecords, Wifi!MainSteps, LossIsTold,
           ResponderFollows, OneRecovery, ScansKnown
  <2>3. AttemptIsKept'
    BY <1>1, <1>2, <1>6
       DEF Wifi!Retry, Wifi!Select, WifiPlain, WifiRecords, Wifi!MainSteps, LossIsTold,
           ScansKnown, AttemptIsKept, Attempting
  <2> QED  BY <1>3, <2>1, <2>2, <2>3
<1>7. CASE Wifi!SelectCheck
  <2>1. (WifiPlain /\ WifiRecords)'
    <3>1. WifiPlain'
      BY <1>1, <1>7
         DEF Wifi!SelectCheck, Wifi!Return, WifiPlain, Wifi!Networks, Wifi!Primary
    <3>2. WifiRecords'
      BY <1>1, <1>7 DEF Wifi!SelectCheck, Wifi!Return, WifiRecords, Wifi!MainSteps
    <3> QED  BY <3>1, <3>2
  <2>2. (ResponderFollows /\ OneRecovery /\ ScansKnown)'
    BY <1>1, <1>2, <1>7
       DEF Wifi!SelectCheck, Wifi!Return, WifiPlain, WifiRecords, Wifi!MainSteps,
           LossIsTold, ResponderFollows, OneRecovery, ScansKnown
  <2>3. AttemptIsKept'
    BY <1>1, <1>2, <1>7
       DEF Wifi!SelectCheck, Wifi!Return, WifiPlain, WifiRecords, Wifi!MainSteps,
           LossIsTold, ScansKnown, AttemptIsKept, Attempting
  <2> QED  BY <1>3, <2>1, <2>2, <2>3
<1>8. CASE Wifi!SelectMark
  <2>1. (WifiPlain /\ WifiRecords)'
    <3>1. WifiPlain'
      BY <1>1, <1>8 DEF Wifi!SelectMark, WifiPlain, Wifi!Networks, Wifi!Primary
    <3>2. WifiRecords'
      BY <1>1, <1>8 DEF Wifi!SelectMark, WifiRecords, Wifi!MainSteps
    <3> QED  BY <3>1, <3>2
  <2>2. (ResponderFollows /\ OneRecovery /\ ScansKnown)'
    BY <1>1, <1>2, <1>8
       DEF Wifi!SelectMark, WifiPlain, WifiRecords, Wifi!MainSteps, LossIsTold,
           ResponderFollows, OneRecovery, ScansKnown
  <2>3. AttemptIsKept'
    BY <1>1, <1>2, <1>8
       DEF Wifi!SelectMark, WifiPlain, WifiRecords, Wifi!MainSteps, LossIsTold,
           ScansKnown, AttemptIsKept, Attempting
  <2> QED  BY <1>3, <2>1, <2>2, <2>3
<1>9. CASE Wifi!SelectScan
  <2>1. (WifiPlain /\ WifiRecords)'
    <3>1. WifiPlain'
      BY <1>1, <1>9
         DEF Wifi!SelectScan, Wifi!Return, WifiPlain, Wifi!Networks, Wifi!Primary
    <3>2. WifiRecords'
      BY <1>1, <1>9 DEF Wifi!SelectScan, Wifi!Return, WifiRecords, Wifi!MainSteps
    <3> QED  BY <3>1, <3>2
  <2>2. (ResponderFollows /\ OneRecovery /\ ScansKnown)'
    BY <1>1, <1>2, <1>9
       DEF Wifi!SelectScan, Wifi!Return, WifiPlain, WifiRecords, Wifi!MainSteps,
           LossIsTold, ResponderFollows, OneRecovery, ScansKnown
  <2>3. AttemptIsKept'
    BY <1>1, <1>2, <1>9
       DEF Wifi!SelectScan, Wifi!Return, WifiPlain, WifiRecords, Wifi!MainSteps,
           LossIsTold, ScansKnown, AttemptIsKept, Attempting
  <2> QED  BY <1>3, <2>1, <2>2, <2>3
<1>10. CASE Wifi!SelectRefused
  <2>1. (WifiPlain /\ WifiRecords)'
    <3>1. WifiPlain'
      <4>1. Wifi!NoNetwork
        BY <1>10 DEF Wifi!SelectRefused
      <4> QED  BY <1>1, <1>10, <4>1, NoNetworkTyped DEF Wifi!SelectRefused, WifiPlain
    <3>2. WifiRecords'
      BY <1>1, <1>10
         DEF Wifi!SelectRefused, Wifi!Return, Wifi!NoNetwork, Wifi!SetUp,
             Wifi!Scheduled, Wifi!Purposeless, WifiRecords, Wifi!MainSteps
    <3> QED  BY <3>1, <3>2
  <2>2. (ResponderFollows /\ OneRecovery /\ ScansKnown)'
    BY <1>1, <1>2, <1>10
       DEF Wifi!SelectRefused, Wifi!Return, Wifi!NoNetwork, Wifi!SetUp, Wifi!Scheduled,
           Wifi!Purposeless, WifiPlain, WifiRecords, Wifi!MainSteps, LossIsTold,
           ResponderFollows, OneRecovery, ScansKnown
  <2>3. AttemptIsKept'
    BY <1>1, <1>2, <1>10
       DEF Wifi!SelectRefused, Wifi!Return, Wifi!NoNetwork, Wifi!SetUp, Wifi!Scheduled,
           Wifi!Purposeless, WifiPlain, WifiRecords, Wifi!MainSteps, LossIsTold,
           ScansKnown, AttemptIsKept, Attempting
  <2> QED  BY <1>3, <2>1, <2>2, <2>3
<1>11. CASE Wifi!Window
  <2>1. (WifiPlain /\ WifiRecords)'
    <3>1. WifiPlain'
      BY <1>1, <1>11 DEF Wifi!Window, WifiPlain, Wifi!Networks, Wifi!Primary
    <3>2. WifiRecords'
      BY <1>1, <1>11 DEF Wifi!Window, WifiRecords, Wifi!MainSteps
    <3> QED  BY <3>1, <3>2
  <2>2. (ResponderFollows /\ OneRecovery /\ ScansKnown)'
    BY <1>1, <1>2, <1>11
       DEF Wifi!Window, WifiPlain, WifiRecords, Wifi!MainSteps, LossIsTold,
           ResponderFollows, OneRecovery, ScansKnown
  <2>3. AttemptIsKept'
    BY <1>1, <1>2, <1>11
       DEF Wifi!Window, WifiPlain, WifiRecords, Wifi!MainSteps, LossIsTold, ScansKnown,
           AttemptIsKept, Attempting
  <2> QED  BY <1>3, <2>1, <2>2, <2>3
<1>12. CASE Wifi!ApMode
  <2>1. (WifiPlain /\ WifiRecords)'
    <3>1. WifiPlain'
      BY <1>1, <1>12 DEF Wifi!ApMode, WifiPlain, Wifi!Networks, Wifi!Primary
    <3>2. WifiRecords'
      BY <1>1, <1>12 DEF Wifi!ApMode, WifiRecords, Wifi!MainSteps
    <3> QED  BY <3>1, <3>2
  <2>2. (ResponderFollows /\ OneRecovery /\ ScansKnown)'
    BY <1>1, <1>2, <1>12
       DEF Wifi!ApMode, WifiPlain, WifiRecords, Wifi!MainSteps, LossIsTold,
           ResponderFollows, OneRecovery, ScansKnown
  <2>3. AttemptIsKept'
    BY <1>1, <1>2, <1>12
       DEF Wifi!ApMode, WifiPlain, WifiRecords, Wifi!MainSteps, LossIsTold, ScansKnown,
           AttemptIsKept, Attempting
  <2> QED  BY <1>3, <2>1, <2>2, <2>3
<1>13. CASE Wifi!ApFlag
  <2>1. (WifiPlain /\ WifiRecords)'
    <3>1. WifiPlain'
      BY <1>1, <1>13 DEF Wifi!ApFlag, WifiPlain, Wifi!Networks, Wifi!Primary
    <3>2. WifiRecords'
      BY <1>1, <1>13 DEF Wifi!ApFlag, WifiRecords, Wifi!MainSteps
    <3> QED  BY <3>1, <3>2
  <2>2. (ResponderFollows /\ OneRecovery /\ ScansKnown)'
    BY <1>1, <1>2, <1>13
       DEF Wifi!ApFlag, WifiPlain, WifiRecords, Wifi!MainSteps, LossIsTold,
           ResponderFollows, OneRecovery, ScansKnown
  <2>3. AttemptIsKept'
    BY <1>1, <1>2, <1>13
       DEF Wifi!ApFlag, WifiPlain, WifiRecords, Wifi!MainSteps, LossIsTold, ScansKnown,
           AttemptIsKept, Attempting
  <2> QED  BY <1>3, <2>1, <2>2, <2>3
<1>14. CASE Wifi!ApState
  <2>1. (WifiPlain /\ WifiRecords)'
    <3>1. WifiPlain'
      BY <1>1, <1>14
         DEF Wifi!ApState, Wifi!Scheduled, WifiPlain, Wifi!Networks, Wifi!Primary
    <3>2. WifiRecords'
      BY <1>1, <1>14 DEF Wifi!ApState, Wifi!Scheduled, WifiRecords, Wifi!MainSteps
    <3> QED  BY <3>1, <3>2
  <2>2. (ResponderFollows /\ OneRecovery /\ ScansKnown)'
    BY <1>1, <1>2, <1>14
       DEF Wifi!ApState, Wifi!Scheduled, WifiPlain, WifiRecords, Wifi!MainSteps,
           LossIsTold, ResponderFollows, OneRecovery, ScansKnown
  <2>3. AttemptIsKept'
    BY <1>1, <1>2, <1>14
       DEF Wifi!ApState, Wifi!Scheduled, WifiPlain, WifiRecords, Wifi!MainSteps,
           LossIsTold, ScansKnown, AttemptIsKept, Attempting
  <2> QED  BY <1>3, <2>1, <2>2, <2>3
<1>15. CASE Wifi!Stop
  <2>1. (WifiPlain /\ WifiRecords)'
    <3>1. WifiPlain'
      BY <1>1, <1>15 DEF Wifi!Stop, Wifi!Select, WifiPlain, Wifi!Networks, Wifi!Primary
    <3>2. WifiRecords'
      BY <1>1, <1>15 DEF Wifi!Stop, Wifi!Select, WifiRecords, Wifi!MainSteps
    <3> QED  BY <3>1, <3>2
  <2>2. (ResponderFollows /\ OneRecovery /\ ScansKnown)'
    BY <1>1, <1>2, <1>15
       DEF Wifi!Stop, Wifi!Select, WifiPlain, WifiRecords, Wifi!MainSteps, LossIsTold,
           ResponderFollows, OneRecovery, ScansKnown
  <2>3. AttemptIsKept'
    BY <1>1, <1>2, <1>15
       DEF Wifi!Stop, Wifi!Select, WifiPlain, WifiRecords, Wifi!MainSteps, LossIsTold,
           ScansKnown, AttemptIsKept, Attempting
  <2> QED  BY <1>3, <2>1, <2>2, <2>3
<1>16. CASE Wifi!StopRefused
  <2>1. (WifiPlain /\ WifiRecords)'
    <3>1. WifiPlain'
      BY <1>1, <1>16 DEF Wifi!StopRefused, WifiPlain, Wifi!Networks, Wifi!Primary
    <3>2. WifiRecords'
      BY <1>1, <1>16 DEF Wifi!StopRefused, WifiRecords, Wifi!MainSteps
    <3> QED  BY <3>1, <3>2
  <2>2. (ResponderFollows /\ OneRecovery /\ ScansKnown)'
    BY <1>1, <1>2, <1>16
       DEF Wifi!StopRefused, WifiPlain, WifiRecords, Wifi!MainSteps, LossIsTold,
           ResponderFollows, OneRecovery, ScansKnown
  <2>3. AttemptIsKept'
    BY <1>1, <1>2, <1>16
       DEF Wifi!StopRefused, WifiPlain, WifiRecords, Wifi!MainSteps, LossIsTold,
           ScansKnown, AttemptIsKept, Attempting
  <2> QED  BY <1>3, <2>1, <2>2, <2>3
<1> QED  BY <1>4, <1>5, <1>6, <1>7, <1>8, <1>9, <1>10, <1>11, <1>12, <1>13, <1>14,
            <1>15, <1>16
            DEF Wifi!Tick

\* So do browsers, a restart, the driver and the clock.
LEMMA WifiElsewhere ==
    ASSUME WifiInv,
           \/ Wifi!RequestScan \/ Wifi!RequestMarks \/ Wifi!ConsumeResults \/ Wifi!Configure
           \/ Wifi!GotIp \/ Wifi!Lost \/ Wifi!ScanDone \/ Wifi!RetryDue \/ Wifi!ElapseAny
    PROVE  WifiInv'
<1> USE DEF WifiInv, Wifi!programVars, Wifi!driverVars, Wifi!None, Wifi!At, Wifi!Goto
<1>1. /\ events \in Seq(Wifi!Events) /\ Len(events) \in Nat /\ MaxEvents \in Nat
      /\ MaxEvents >= 1 /\ MaxScans \in Nat /\ (station = "ip") \in BOOLEAN
      /\ {"lost", "lost_auth", "ip", "scan_done"} \subseteq Wifi!Events
  BY WifiAssumption DEF WifiPlain, WifiRecords, Wifi!Events
<1>2. /\ AddressesTrue(events, TRUE) /\ AddressesTrue(events, station = "ip")
      /\ station # "ip" => AddressesTrue(events, FALSE)
  BY DEF LossIsTold, AddressesTrue
<1>3. CASE Wifi!RequestScan
  <2>1. (WifiPlain /\ WifiRecords)'
    <3>1. WifiPlain'
      BY <1>1, <1>3 DEF Wifi!RequestScan, WifiPlain, Wifi!Networks, Wifi!Primary
    <3>2. WifiRecords'
      BY <1>1, <1>3 DEF Wifi!RequestScan, WifiRecords, Wifi!MainSteps
    <3> QED  BY <3>1, <3>2
  <2>2. (LossIsTold /\ ResponderFollows)'
    BY <1>1, <1>2, <1>3
       DEF Wifi!RequestScan, WifiPlain, WifiRecords, LossIsTold, ResponderFollows
  <2>3. (OneRecovery /\ ScansKnown)'
    BY <1>1, <1>3 DEF Wifi!RequestScan, WifiPlain, WifiRecords, OneRecovery, ScansKnown
  <2>4. AttemptIsKept'
    BY <1>1, <1>3
       DEF Wifi!RequestScan, WifiPlain, WifiRecords, AttemptIsKept, Attempting
  <2> QED  BY <2>1, <2>2, <2>3, <2>4
<1>4. CASE Wifi!RequestMarks
  <2>1. (WifiPlain /\ WifiRecords)'
    <3>1. WifiPlain'
      BY <1>1, <1>4 DEF Wifi!RequestMarks, WifiPlain, Wifi!Networks, Wifi!Primary
    <3>2. WifiRecords'
      BY <1>1, <1>4 DEF Wifi!RequestMarks, WifiRecords, Wifi!MainSteps
    <3> QED  BY <3>1, <3>2
  <2>2. (LossIsTold /\ ResponderFollows)'
    BY <1>1, <1>2, <1>4
       DEF Wifi!RequestMarks, WifiPlain, WifiRecords, LossIsTold, ResponderFollows
  <2>3. (OneRecovery /\ ScansKnown)'
    BY <1>1, <1>4 DEF Wifi!RequestMarks, WifiPlain, WifiRecords, OneRecovery, ScansKnown
  <2>4. AttemptIsKept'
    BY <1>1, <1>4
       DEF Wifi!RequestMarks, WifiPlain, WifiRecords, AttemptIsKept, Attempting
  <2> QED  BY <2>1, <2>2, <2>3, <2>4
<1>5. CASE Wifi!ConsumeResults
  <2>1. (WifiPlain /\ WifiRecords)'
    <3>1. WifiPlain'
      BY <1>1, <1>5 DEF Wifi!ConsumeResults, WifiPlain, Wifi!Networks, Wifi!Primary
    <3>2. WifiRecords'
      BY <1>1, <1>5 DEF Wifi!ConsumeResults, WifiRecords, Wifi!MainSteps
    <3> QED  BY <3>1, <3>2
  <2>2. (LossIsTold /\ ResponderFollows)'
    BY <1>1, <1>2, <1>5
       DEF Wifi!ConsumeResults, WifiPlain, WifiRecords, LossIsTold, ResponderFollows
  <2>3. (OneRecovery /\ ScansKnown)'
    BY <1>1, <1>5
       DEF Wifi!ConsumeResults, WifiPlain, WifiRecords, OneRecovery, ScansKnown
  <2>4. AttemptIsKept'
    BY <1>1, <1>5
       DEF Wifi!ConsumeResults, WifiPlain, WifiRecords, AttemptIsKept, Attempting
  <2> QED  BY <2>1, <2>2, <2>3, <2>4
<1>6. CASE Wifi!Configure
  <2>1. (WifiPlain /\ WifiRecords)'
    <3>1. WifiPlain'
      BY <1>1, <1>6, StartAlone
         DEF Wifi!Configure, Wifi!Start, WifiPlain, Wifi!Networks, Wifi!Primary
    <3>2. WifiRecords'
      <4>1. /\ scan' = [pending |-> FALSE, purpose |-> "none", ready |-> FALSE]
            /\ wifiMain' = [step |-> "mdns", then |-> "mdns"]
            /\ http' = [http EXCEPT !.started = FALSE]
        BY <1>6 DEF Wifi!Configure, Wifi!Start
      <4> QED  BY <4>1 DEF WifiRecords, Wifi!MainSteps
    <3> QED  BY <3>1, <3>2
  <2>2. (LossIsTold /\ ResponderFollows)'
    BY <1>1, <1>2, <1>6, StartAlone
       DEF Wifi!Configure, Wifi!Start, WifiPlain, WifiRecords, LossIsTold,
           ResponderFollows
  <2>3. (OneRecovery /\ ScansKnown)'
    BY <1>1, <1>6
       DEF Wifi!Configure, Wifi!Start, WifiPlain, WifiRecords, OneRecovery, ScansKnown
  <2>4. AttemptIsKept'
    BY <1>1, <1>6, StartAlone
       DEF Wifi!Configure, Wifi!Start, WifiPlain, WifiRecords, AttemptIsKept, Attempting
  <2> QED  BY <2>1, <2>2, <2>3, <2>4
<1>7. CASE Wifi!GotIp
  <2>1. (WifiPlain /\ WifiRecords)'
    <3>1. WifiPlain'
      BY <1>1, <1>7, EventPosted
         DEF Wifi!GotIp, Wifi!Post, WifiPlain, Wifi!Networks, Wifi!Primary
    <3>2. WifiRecords'
      BY <1>1, <1>7, EventPosted DEF Wifi!GotIp, Wifi!Post, WifiRecords, Wifi!MainSteps
    <3> QED  BY <3>1, <3>2
  <2>2. (LossIsTold /\ ResponderFollows)'
    BY <1>1, <1>2, <1>7, EventPosted
       DEF Wifi!GotIp, Wifi!Post, WifiPlain, WifiRecords, LossIsTold, ResponderFollows
  <2>3. (OneRecovery /\ ScansKnown)'
    BY <1>1, <1>7
       DEF Wifi!GotIp, Wifi!Post, WifiPlain, WifiRecords, OneRecovery, ScansKnown
  <2>4. AttemptIsKept'
    BY <1>1, <1>7, EventPosted
       DEF Wifi!GotIp, Wifi!Post, WifiPlain, WifiRecords, AttemptIsKept, Attempting
  <2> QED  BY <2>1, <2>2, <2>3, <2>4
<1>8. CASE Wifi!Lost
  <2>1. (WifiPlain /\ WifiRecords)'
    <3>1. WifiPlain'
      BY <1>1, <1>8, EventPosted
         DEF Wifi!Lost, Wifi!Post, WifiPlain, Wifi!Networks, Wifi!Primary
    <3>2. WifiRecords'
      BY <1>1, <1>8, EventPosted DEF Wifi!Lost, Wifi!Post, WifiRecords, Wifi!MainSteps
    <3> QED  BY <3>1, <3>2
  <2>2. (LossIsTold /\ ResponderFollows)'
    <3>1. PICK event \in {"lost", "lost_auth"} :
            /\ events' = Append(events, event) /\ station' = "idle" /\ station # "idle"
            /\ event = "lost_auth" => station = "connecting"
            /\ UNCHANGED <<wifiState, mdns, refresh>>
      BY <1>8 DEF Wifi!Lost, Wifi!Post
    <3>2. /\ event \in Wifi!Events /\ EndIn(events')
          /\ event = "lost" \/ LossIn(events) => LossIn(events')
      BY <1>1, <3>1, EventPosted
    <3>3. AddressesTrue(events', FALSE)
      BY <1>1, <1>2, <3>1, EventPosted
    <3> QED  BY <3>1, <3>2, <3>3 DEF LossIsTold, ResponderFollows
  <2>3. (OneRecovery /\ ScansKnown)'
    BY <1>1, <1>8
       DEF Wifi!Lost, Wifi!Post, WifiPlain, WifiRecords, OneRecovery, ScansKnown
  <2>4. AttemptIsKept'
    <3>1. EndIn(events')
      BY <1>1, <1>8, EventPosted DEF Wifi!Lost, Wifi!Post
    <3> QED  BY <3>1 DEF AttemptIsKept, Attempting
  <2> QED  BY <2>1, <2>2, <2>3, <2>4
<1>9. CASE Wifi!ScanDone
  <2>1. (WifiPlain /\ WifiRecords)'
    <3>1. WifiPlain'
      <4>1. (events \in Seq(Wifi!Events) /\ Len(events) <= MaxEvents)'
        BY <1>1, <1>9, EventPosted DEF Wifi!ScanDone, Wifi!Post
      <4> QED  BY <1>9, <4>1 DEF Wifi!ScanDone, WifiPlain
    <3>2. WifiRecords'
      BY <1>1, <1>9, EventPosted
         DEF Wifi!ScanDone, Wifi!Post, WifiRecords, Wifi!MainSteps
    <3> QED  BY <3>1, <3>2
  <2>2. (LossIsTold /\ ResponderFollows)'
    BY <1>1, <1>2, <1>9, EventPosted
       DEF Wifi!ScanDone, Wifi!Post, WifiPlain, WifiRecords, LossIsTold,
           ResponderFollows
  <2>3. (OneRecovery /\ ScansKnown)'
    BY <1>1, <1>9
       DEF Wifi!ScanDone, Wifi!Post, WifiPlain, WifiRecords, OneRecovery, ScansKnown
  <2>4. AttemptIsKept'
    BY <1>1, <1>9, EventPosted
       DEF Wifi!ScanDone, Wifi!Post, WifiPlain, WifiRecords, AttemptIsKept, Attempting
  <2> QED  BY <2>1, <2>2, <2>3, <2>4
<1>10. CASE Wifi!RetryDue
  <2>1. (WifiPlain /\ WifiRecords)'
    <3>1. WifiPlain'
      BY <1>1, <1>10 DEF Wifi!RetryDue, WifiPlain, Wifi!Networks, Wifi!Primary
    <3>2. WifiRecords'
      BY <1>1, <1>10 DEF Wifi!RetryDue, WifiRecords, Wifi!MainSteps
    <3> QED  BY <3>1, <3>2
  <2>2. (LossIsTold /\ ResponderFollows)'
    BY <1>1, <1>2, <1>10
       DEF Wifi!RetryDue, WifiPlain, WifiRecords, LossIsTold, ResponderFollows
  <2>3. (OneRecovery /\ ScansKnown)'
    BY <1>1, <1>10 DEF Wifi!RetryDue, WifiPlain, WifiRecords, OneRecovery, ScansKnown
  <2>4. AttemptIsKept'
    BY <1>1, <1>10 DEF Wifi!RetryDue, WifiPlain, WifiRecords, AttemptIsKept, Attempting
  <2> QED  BY <2>1, <2>2, <2>3, <2>4
<1>11. CASE Wifi!ElapseAny
  <2>1. (WifiPlain /\ WifiRecords)'
    <3>1. WifiPlain'
      <4>1. PICK deadline \in {"window", "ap", "scan"} : Wifi!Elapse(deadline)
        BY <1>11 DEF Wifi!ElapseAny
      <4> QED  BY <4>1 DEF Wifi!Elapse, WifiPlain
    <3>2. WifiRecords'
      BY <1>1, <1>11 DEF Wifi!ElapseAny, Wifi!Elapse, WifiRecords, Wifi!MainSteps
    <3> QED  BY <3>1, <3>2
  <2>2. (LossIsTold /\ ResponderFollows)'
    BY <1>1, <1>2, <1>11
       DEF Wifi!ElapseAny, Wifi!Elapse, WifiPlain, WifiRecords, LossIsTold,
           ResponderFollows
  <2>3. (OneRecovery /\ ScansKnown)'
    BY <1>1, <1>11
       DEF Wifi!ElapseAny, Wifi!Elapse, WifiPlain, WifiRecords, OneRecovery, ScansKnown
  <2>4. AttemptIsKept'
    BY <1>1, <1>11
       DEF Wifi!ElapseAny, Wifi!Elapse, WifiPlain, WifiRecords, AttemptIsKept,
           Attempting
  <2> QED  BY <2>1, <2>2, <2>3, <2>4
<1> QED  BY <1>3, <1>4, <1>5, <1>6, <1>7, <1>8, <1>9, <1>10, <1>11

-----------------------------------------------------------------------------
(* The supervision *)

PCC == Supervision!PCC_STALLED
BCC == Supervision!BCC_STALLED

\* Where the main task is: starting; between two rounds; in a round that has
\* not read the counters; past a judgement that the tasks run.
Starting == main \in {"Boot", "Setup", "SetupPersist"}
Between == main \in {"Delay", "Report"}
InRound == main \in {"ReportPersist", "Due", "Read"}
Satisfied == main \in {"ClearPersist", "Refresh"}

\* The tasks' places and flags that go together.
PlacesAgree ==
    /\ bcc = "Off" <=> main = "Boot"
    /\ hung = "main" => main = "Delay" /\ bcc # "Off"
    /\ hung = "bcc" => bcc = "Work"
    /\ hung = "transfer" => bcc = "Transfer"
    /\ hung # "no" => main # "Boot"
    /\ bcc = "Transfer" => breadcrumb
    /\ bcc \in {"Classify", "Persist"} => bccIdle = 0

FlagsAgree ==
    /\ monitoringStarted => ~pccZero /\ ~bccZero
    /\ main = "SetupPersist" => pccZero
    /\ bccZero => ~bccNew
    /\ ~monitoringStarted /\ ~bccZero => bccNew
    /\ ~Starting => (watchdogRecord.monitoring => monitoringStarted)
    /\ main \in {"Boot", "SetupPersist"} => ~monitoringStarted
    /\ InRound \/ main \in {"Judge", "StallPersist"} => pccNew /\ ~pccZero
    /\ main = "Judge" => /\ ~monitoringStarted => seen
                         /\ bccNew /\ ~seen => later
                         /\ seen => bccNew
                         /\ ~bccZero

\* A running task has come round within its period.
IdleBounded ==
    /\ hung \in {"no", "bcc"} => mainIdle <= 1
    /\ hung \in {"no", "main"} => bccIdle <= 1
    /\ hung \in {"main", "transfer"} => mainIdle <= sinceRefresh + 1
    /\ hung = "main" => sinceRefresh <= mainIdle + 1
    /\ sincePcc <= mainIdle
    /\ InRound => mainIdle <= sinceRefresh
    /\ hung \in {"no", "main"} /\ ~Starting
         => sincePcc >= mainIdle \/ sincePcc >= sinceRefresh

\* How long ago the watchdog was refreshed while both tasks run, or with progress
\* of the BCC task that the main task has not consumed.
RefreshRecent ==
    hung \in {"no", "bcc"} =>
    /\ Starting => sinceRefresh <= mainIdle
    /\ Between /\ (hung = "no" \/ bccNew) => sinceRefresh <= mainIdle + 1
    /\ InRound /\ (hung = "no" \/ bccNew) => sinceRefresh <= mainIdle + 2
    /\ main = "Judge" /\ seen => sinceRefresh <= mainIdle + 2
    /\ main = "Judge" /\ ~seen /\ (hung = "no" \/ bccNew) => sinceRefresh <= mainIdle + 1
    /\ main = "StallPersist" /\ (hung = "no" \/ bccNew) => sinceRefresh <= mainIdle + 1
    /\ Satisfied => sinceRefresh <= mainIdle + 2
    /\ hung = "no" /\ ~bccNew /\ ~Starting /\ ~Satisfied => sinceRefresh <= bccIdle

\* How long ago the BCC task reported what the main task has not consumed, or has
\* just consumed; and what it has not reported since.
Reported(k) ==
    /\ bccIdle <= sinceRefresh + 1
    /\ bccIdle + sinceRefresh <= 2 * mainIdle + k

ReportRecent ==
    hung \in {"no", "bcc"} =>
    /\ Starting => bccIdle <= mainIdle
    /\ Between /\ bccNew => Reported(1)
    /\ InRound /\ bccNew => Reported(3)
    /\ main = "Judge" => /\ seen => Reported(3)
                         /\ later => bccIdle <= mainIdle
    /\ main = "StallPersist" /\ bccNew => bccIdle <= mainIdle
    /\ Satisfied => IF bccNew THEN bccIdle <= mainIdle ELSE Reported(3)
    /\ ~bccNew /\ ~Starting /\ ~Satisfied => bccIdle <= sinceRefresh + 3

\* A round that withheld the refresh has named the BCC task, and kept it.
BccNamed ==
    monitoringStarted /\ ~Starting =>
    /\ main = "StallPersist" => BCC \in stalledSources
    /\ \/ Between /\ sinceRefresh >= mainIdle + 1
       \/ InRound /\ sinceRefresh >= mainIdle + 2
       \/ main \in {"Judge", "StallPersist"} /\ sinceRefresh >= mainIdle + 2
       => BCC \in stalledSources /\ BCC \in watchdogRecord.stalled

\* The BCC task names a main task that hangs, and keeps it.
MainNamed ==
    hung = "main" /\ monitoringStarted =>
    /\ bcc \in {"Report", "Work", "Transfer"} /\ sincePcc >= bccIdle + 2
         => PCC \in stalledSources /\ PCC \in watchdogRecord.stalled
    /\ bcc = "Persist" /\ sincePcc >= 2 => PCC \in stalledSources
    /\ bcc \in {"Classify", "Persist"} /\ sincePcc >= 3
         => PCC \in stalledSources /\ PCC \in watchdogRecord.stalled

\* What the reset leaves for the boot after it.
ResetNames ==
    /\ main = "Boot" /\ watchdogRecord.monitoring =>
         /\ culprit = "main" => PCC \in watchdogRecord.stalled
         /\ culprit = "bcc" => BCC \in watchdogRecord.stalled
    /\ main = "Boot" /\ culprit = "transfer" => breadcrumb

SupervisionInv ==
    /\ Supervision!TypeOK
    /\ PlacesAgree /\ FlagsAgree /\ IdleBounded /\ RefreshRecent
    /\ ReportRecent /\ BccNamed /\ MainNamed /\ ResetNames
    /\ Supervision!ReportNamesTheCulprit

\* The types of the flags, and of everything else: the prover takes them apart.
FlagsTyped ==
    /\ {pccNew, bccNew, pccZero, bccZero, seen, later} \subseteq BOOLEAN
    /\ {overtaken, monitoringStarted, breadcrumb} \subseteq BOOLEAN

RestTyped ==
    /\ hung \in {"no", "main", "bcc", "transfer"}
    /\ main \in {"Boot", "Setup", "SetupPersist", "Report", "ReportPersist",
                 "Due", "Read", "Judge", "StallPersist", "ClearPersist",
                 "Refresh", "Delay"}
    /\ bcc \in {"Off", "Report", "Classify", "Persist", "Work", "Transfer"}
    /\ mainIdle \in 0..Supervision!Long /\ bccIdle \in 0..Supervision!Long
    /\ sincePcc \in 0..Supervision!Expiry /\ sinceRefresh \in 0..Supervision!Expiry
    /\ stalledSources \subseteq Supervision!Sources
    /\ watchdogRecord \in [stalled : SUBSET Supervision!Sources, monitoring : BOOLEAN]
    /\ report \in [stalled : SUBSET Supervision!Sources, monitoring : BOOLEAN, pending : BOOLEAN]
    /\ culprit \in {"no", "main", "bcc", "transfer"}

\* The start of the supervision keeps the invariant.
LEMMA SupervisedSetup ==
    ASSUME SupervisionInv, Supervision!Setup
    PROVE  SupervisionInv'
<1>1. FlagsTyped'
  BY Zenon DEF SupervisionInv, Supervision!TypeOK, Supervision!Setup, FlagsTyped,
         Supervision!backup
<1>2. RestTyped'
  BY DEF SupervisionInv, Supervision!TypeOK, IdleBounded, RefreshRecent, ReportRecent,
         Supervision!Setup, RestTyped, Supervision!Expiry, Supervision!backup,
         Supervision!past
<1>3. PlacesAgree'
  BY DEF SupervisionInv, Supervision!TypeOK, Supervision!Setup, PlacesAgree,
         Supervision!backup
<1>4. FlagsAgree'
  BY DEF SupervisionInv, Supervision!Setup, FlagsAgree, InRound, Starting
<1>5. IdleBounded'
  BY DEF SupervisionInv, Supervision!TypeOK, Supervision!Setup, IdleBounded, InRound,
         Starting
<1>6. RefreshRecent'
  BY DEF SupervisionInv, Supervision!TypeOK, Supervision!Setup, RefreshRecent, Starting
<1>7. ReportRecent'
  BY DEF SupervisionInv, Supervision!TypeOK, Supervision!Setup, ReportRecent, Satisfied,
         Starting
<1>8. BccNamed'
  BY DEF SupervisionInv, Supervision!Setup, BccNamed
<1>9. MainNamed'
  BY DEF SupervisionInv, Supervision!Setup, MainNamed
<1>10. ResetNames'
  BY DEF SupervisionInv, Supervision!Setup, ResetNames
<1>11. Supervision!ReportNamesTheCulprit'
  BY DEF SupervisionInv, Supervision!Setup, Supervision!ReportNamesTheCulprit
<1>12. Supervision!TypeOK'
  BY <1>1, <1>2 DEF FlagsTyped, RestTyped, Supervision!TypeOK
<1> QED  BY <1>3, <1>4, <1>5, <1>6, <1>7, <1>8, <1>9, <1>10, <1>11, <1>12
            DEF SupervisionInv

\* The record of the start keeps the invariant.
LEMMA SupervisedSetupPersist ==
    ASSUME SupervisionInv, Supervision!SetupPersist
    PROVE  SupervisionInv'
<1>1. FlagsTyped'
  BY Zenon DEF SupervisionInv, Supervision!TypeOK, Supervision!SetupPersist, FlagsTyped,
         Supervision!counts, Supervision!flags
<1>2. RestTyped'
  BY DEF SupervisionInv, Supervision!TypeOK, IdleBounded, ReportRecent,
         Supervision!SetupPersist, RestTyped, Supervision!Expiry, Supervision!flags,
         Supervision!past, Supervision!persistState
<1>3. PlacesAgree'
  BY DEF SupervisionInv, Supervision!TypeOK, Supervision!SetupPersist, PlacesAgree
<1>4. FlagsAgree'
  BY DEF SupervisionInv, Supervision!TypeOK, Supervision!SetupPersist, FlagsAgree,
         Supervision!counts, Supervision!flags, Supervision!persistState, InRound
<1>5. IdleBounded'
  BY DEF SupervisionInv, Supervision!TypeOK, Supervision!SetupPersist, IdleBounded,
         Supervision!MainRuns, InRound
<1>6. RefreshRecent'
  BY DEF SupervisionInv, Supervision!TypeOK, Supervision!SetupPersist, RefreshRecent
<1>7. ReportRecent'
  BY DEF SupervisionInv, Supervision!TypeOK, IdleBounded, Supervision!SetupPersist,
         ReportRecent, Starting, Reported
<1>8. BccNamed'
  BY DEF SupervisionInv, Supervision!TypeOK, Supervision!SetupPersist, BccNamed
<1>9. MainNamed'
  BY DEF SupervisionInv, Supervision!SetupPersist, MainNamed, Supervision!flags,
         Supervision!persistState
<1>10. ResetNames'
  BY DEF SupervisionInv, Supervision!SetupPersist, ResetNames
<1>11. Supervision!ReportNamesTheCulprit'
  BY DEF SupervisionInv, Supervision!SetupPersist, Supervision!ReportNamesTheCulprit
<1>12. Supervision!TypeOK'
  BY <1>1, <1>2 DEF FlagsTyped, RestTyped, Supervision!TypeOK
<1> QED  BY <1>3, <1>4, <1>5, <1>6, <1>7, <1>8, <1>9, <1>10, <1>11, <1>12
            DEF SupervisionInv

\* A report of the main task keeps the invariant.
LEMMA SupervisedReportPccProgress ==
    ASSUME SupervisionInv, Supervision!reportPccProgress
    PROVE  SupervisionInv'
<1>1. FlagsTyped'
  BY Zenon DEF SupervisionInv, Supervision!TypeOK, Supervision!reportPccProgress,
         FlagsTyped, Supervision!backup, Supervision!flags
<1>2. RestTyped'
  BY DEF SupervisionInv, Supervision!TypeOK, Supervision!reportPccProgress, RestTyped,
         Supervision!Expiry, Supervision!Long, Supervision!backup, Supervision!flags,
         Supervision!past
<1>3. PlacesAgree'
  BY DEF SupervisionInv, Supervision!TypeOK, Supervision!reportPccProgress, PlacesAgree,
         Supervision!backup
<1>4. FlagsAgree'
  BY DEF SupervisionInv, Supervision!TypeOK, Supervision!reportPccProgress, FlagsAgree,
         Supervision!backup, Supervision!flags, Starting
<1>5. IdleBounded'
  BY DEF SupervisionInv, Supervision!TypeOK, Supervision!reportPccProgress, IdleBounded,
         Supervision!MainRuns
<1>6. RefreshRecent'
  BY DEF SupervisionInv, Supervision!TypeOK, IdleBounded, Supervision!reportPccProgress,
         RefreshRecent, Starting, Between, Satisfied
<1>7. ReportRecent'
  BY DEF SupervisionInv, Supervision!TypeOK, IdleBounded, Supervision!reportPccProgress,
         ReportRecent, Starting, Between, Reported, Satisfied
<1>8. BccNamed'
  BY DEF SupervisionInv, Supervision!TypeOK, IdleBounded, Supervision!reportPccProgress,
         BccNamed, Starting, Supervision!MainRuns, Supervision!backup,
         Supervision!flags, Between
<1>9. MainNamed'
  BY DEF SupervisionInv, Supervision!reportPccProgress, MainNamed, Supervision!MainRuns
<1>10. ResetNames'
  BY DEF SupervisionInv, Supervision!reportPccProgress, ResetNames
<1>11. Supervision!ReportNamesTheCulprit'
  BY DEF SupervisionInv, Supervision!reportPccProgress,
         Supervision!ReportNamesTheCulprit
<1>12. Supervision!TypeOK'
  BY <1>1, <1>2 DEF FlagsTyped, RestTyped, Supervision!TypeOK
<1> QED  BY <1>3, <1>4, <1>5, <1>6, <1>7, <1>8, <1>9, <1>10, <1>11, <1>12
            DEF SupervisionInv

\* The record of that report keeps the invariant.
LEMMA SupervisedReportPersist ==
    ASSUME SupervisionInv, Supervision!ReportPersist
    PROVE  SupervisionInv'
<1>1. FlagsTyped'
  BY Zenon DEF SupervisionInv, Supervision!TypeOK, Supervision!ReportPersist,
         FlagsTyped, Supervision!counts, Supervision!flags, Supervision!times
<1>2. RestTyped'
  BY DEF SupervisionInv, Supervision!TypeOK, Supervision!ReportPersist, RestTyped,
         Supervision!flags, Supervision!past, Supervision!persistState,
         Supervision!times
<1>3. PlacesAgree'
  BY DEF SupervisionInv, Supervision!TypeOK, Supervision!ReportPersist, PlacesAgree
<1>4. FlagsAgree'
  BY DEF SupervisionInv, Supervision!TypeOK, Supervision!ReportPersist, FlagsAgree,
         Supervision!counts, Supervision!flags, Supervision!persistState, InRound
<1>5. IdleBounded'
  BY DEF SupervisionInv, Supervision!TypeOK, Supervision!ReportPersist, IdleBounded,
         Supervision!times, InRound, Starting
<1>6. RefreshRecent'
  BY DEF SupervisionInv, Supervision!TypeOK, Supervision!ReportPersist, RefreshRecent,
         Supervision!counts, Supervision!times, Between, InRound, Satisfied, Starting
<1>7. ReportRecent'
  BY DEF SupervisionInv, Supervision!TypeOK, Supervision!ReportPersist, ReportRecent,
         Supervision!counts, Supervision!times, Between, InRound, Reported, Satisfied,
         Starting
<1>8. BccNamed'
  BY DEF SupervisionInv, Supervision!TypeOK, Supervision!ReportPersist, BccNamed,
         Supervision!flags, Supervision!persistState, Supervision!times, Between,
         InRound, Starting
<1>9. MainNamed'
  BY DEF SupervisionInv, Supervision!ReportPersist, MainNamed, Supervision!flags,
         Supervision!persistState, Supervision!times
<1>10. ResetNames'
  BY DEF SupervisionInv, Supervision!ReportPersist, ResetNames
<1>11. Supervision!ReportNamesTheCulprit'
  BY DEF SupervisionInv, Supervision!ReportPersist, Supervision!ReportNamesTheCulprit
<1>12. Supervision!TypeOK'
  BY <1>1, <1>2 DEF FlagsTyped, RestTyped, Supervision!TypeOK
<1> QED  BY <1>3, <1>4, <1>5, <1>6, <1>7, <1>8, <1>9, <1>10, <1>11, <1>12
            DEF SupervisionInv

\* The look at the time keeps the invariant.
LEMMA SupervisedDue ==
    ASSUME SupervisionInv, Supervision!Due
    PROVE  SupervisionInv'
<1>1. FlagsTyped'
  BY Zenon DEF SupervisionInv, Supervision!TypeOK, Supervision!Due, FlagsTyped,
         Supervision!backup, Supervision!counts, Supervision!flags, Supervision!times
<1>2. RestTyped'
  BY DEF SupervisionInv, Supervision!TypeOK, Supervision!Due, RestTyped,
         Supervision!backup, Supervision!flags, Supervision!past, Supervision!times
<1>3. PlacesAgree'
  BY DEF SupervisionInv, Supervision!TypeOK, Supervision!Due, PlacesAgree,
         Supervision!backup
<1>4. FlagsAgree'
  BY DEF SupervisionInv, Supervision!TypeOK, Supervision!Due, FlagsAgree,
         Supervision!backup, Supervision!counts, Supervision!flags, InRound, Starting
<1>5. IdleBounded'
  BY DEF SupervisionInv, Supervision!TypeOK, Supervision!Due, IdleBounded,
         Supervision!times, InRound, Starting
<1>6. RefreshRecent'
  BY DEF SupervisionInv, Supervision!TypeOK, Supervision!Due, RefreshRecent,
         Supervision!REFRESH_PERIOD, Supervision!counts, Supervision!times, Between,
         InRound, Satisfied, Starting
<1>7. ReportRecent'
  BY DEF SupervisionInv, Supervision!TypeOK, Supervision!Due, ReportRecent,
         Supervision!REFRESH_PERIOD, Supervision!counts, Supervision!times, Between,
         InRound, Reported, Satisfied, Starting
<1>8. BccNamed'
  BY DEF SupervisionInv, Supervision!TypeOK, Supervision!Due, BccNamed,
         Supervision!REFRESH_PERIOD, Supervision!backup, Supervision!flags,
         Supervision!times, Between, InRound, Starting
<1>9. MainNamed'
  BY DEF SupervisionInv, Supervision!Due, MainNamed, Supervision!backup,
         Supervision!flags, Supervision!times
<1>10. ResetNames'
  BY DEF SupervisionInv, Supervision!Due, ResetNames
<1>11. Supervision!ReportNamesTheCulprit'
  BY DEF SupervisionInv, Supervision!Due, Supervision!ReportNamesTheCulprit
<1>12. Supervision!TypeOK'
  BY <1>1, <1>2 DEF FlagsTyped, RestTyped, Supervision!TypeOK
<1> QED  BY <1>3, <1>4, <1>5, <1>6, <1>7, <1>8, <1>9, <1>10, <1>11, <1>12
            DEF SupervisionInv

\* The look at the counters keeps the invariant.
LEMMA SupervisedRead ==
    ASSUME SupervisionInv, Supervision!Read
    PROVE  SupervisionInv'
<1>1. FlagsTyped'
  BY Zenon DEF SupervisionInv, Supervision!TypeOK, Supervision!Read, FlagsTyped,
         Supervision!backup, Supervision!flags, Supervision!times
<1>2. RestTyped'
  BY DEF SupervisionInv, Supervision!TypeOK, Supervision!Read, RestTyped,
         Supervision!backup, Supervision!flags, Supervision!past, Supervision!times
<1>3. PlacesAgree'
  BY DEF SupervisionInv, Supervision!TypeOK, Supervision!Read, PlacesAgree,
         Supervision!backup
<1>4. FlagsAgree'
  BY DEF SupervisionInv, Supervision!TypeOK, Supervision!Read, FlagsAgree,
         Supervision!backup, Supervision!flags, InRound, Starting
<1>5. IdleBounded'
  BY DEF SupervisionInv, Supervision!TypeOK, Supervision!Read, IdleBounded,
         Supervision!times, InRound, Starting
<1>6. RefreshRecent'
  BY DEF SupervisionInv, Supervision!TypeOK, FlagsAgree, IdleBounded, Supervision!Read,
         RefreshRecent, InRound, Starting, Supervision!times, Between, Satisfied
<1>7. ReportRecent'
  BY DEF SupervisionInv, FlagsAgree, Supervision!Read, ReportRecent, InRound, Starting,
         Supervision!times, Between, Reported, Satisfied
<1>8. BccNamed'
  BY DEF SupervisionInv, FlagsAgree, Supervision!Read, BccNamed, InRound, Starting,
         Supervision!backup, Supervision!flags, Supervision!times, Between
<1>9. MainNamed'
  BY DEF SupervisionInv, Supervision!Read, MainNamed, Supervision!backup,
         Supervision!flags, Supervision!times
<1>10. ResetNames'
  BY DEF SupervisionInv, Supervision!Read, ResetNames
<1>11. Supervision!ReportNamesTheCulprit'
  BY DEF SupervisionInv, Supervision!Read, Supervision!ReportNamesTheCulprit
<1>12. Supervision!TypeOK'
  BY <1>1, <1>2 DEF FlagsTyped, RestTyped, Supervision!TypeOK
<1> QED  BY <1>3, <1>4, <1>5, <1>6, <1>7, <1>8, <1>9, <1>10, <1>11, <1>12
            DEF SupervisionInv

\* A judgement that a task stands still keeps the invariant.
LEMMA SupervisedStall ==
    ASSUME SupervisionInv, Supervision!Stall
    PROVE  SupervisionInv'
<1>1. FlagsTyped'
  BY Zenon DEF SupervisionInv, Supervision!TypeOK, Supervision!Stall, FlagsTyped,
         Supervision!backup, Supervision!times
<1>2. RestTyped'
  BY DEF SupervisionInv, Supervision!TypeOK, Supervision!Stall, RestTyped,
         Supervision!Stopped, Supervision!backup, Supervision!past, Supervision!times
<1>3. PlacesAgree'
  BY DEF SupervisionInv, Supervision!TypeOK, Supervision!Stall, PlacesAgree,
         Supervision!backup
<1>4. FlagsAgree'
  BY DEF SupervisionInv, Supervision!TypeOK, Supervision!Stall, FlagsAgree
<1>5. IdleBounded'
  BY DEF SupervisionInv, Supervision!TypeOK, Supervision!Stall, IdleBounded,
         Supervision!times, InRound, Starting
<1>6. RefreshRecent'
  BY DEF SupervisionInv, FlagsAgree, Supervision!Stall, RefreshRecent, InRound,
         Starting, Supervision!Stopped, Supervision!times, Satisfied
<1>7. ReportRecent'
  BY DEF SupervisionInv, FlagsAgree, Supervision!Stall, ReportRecent, InRound, Starting,
         Supervision!Stopped, Supervision!times, Between, Satisfied
<1>8. BccNamed'
  BY DEF SupervisionInv, FlagsAgree, Supervision!Stall, BccNamed, Starting,
         Supervision!Stopped, Supervision!backup, Supervision!times, BCC, Between
<1>9. MainNamed'
  BY DEF SupervisionInv, Supervision!Stall, MainNamed, Supervision!backup,
         Supervision!times
<1>10. ResetNames'
  BY DEF SupervisionInv, Supervision!Stall, ResetNames
<1>11. Supervision!ReportNamesTheCulprit'
  BY DEF SupervisionInv, Supervision!Stall, Supervision!ReportNamesTheCulprit
<1>12. Supervision!TypeOK'
  BY <1>1, <1>2 DEF FlagsTyped, RestTyped, Supervision!TypeOK
<1> QED  BY <1>3, <1>4, <1>5, <1>6, <1>7, <1>8, <1>9, <1>10, <1>11, <1>12
            DEF SupervisionInv

\* The record of that judgement keeps the invariant.
LEMMA SupervisedStallPersist ==
    ASSUME SupervisionInv, Supervision!StallPersist
    PROVE  SupervisionInv'
<1>1. FlagsTyped'
  BY Zenon DEF SupervisionInv, Supervision!TypeOK, Supervision!StallPersist, FlagsTyped,
         Supervision!counts, Supervision!flags, Supervision!times
<1>2. RestTyped'
  BY DEF SupervisionInv, Supervision!TypeOK, Supervision!StallPersist, RestTyped,
         Supervision!flags, Supervision!past, Supervision!persistState,
         Supervision!times
<1>3. PlacesAgree'
  BY DEF SupervisionInv, Supervision!TypeOK, Supervision!StallPersist, PlacesAgree
<1>4. FlagsAgree'
  BY DEF SupervisionInv, Supervision!TypeOK, Supervision!StallPersist, FlagsAgree,
         Supervision!counts, Supervision!flags, Supervision!persistState
<1>5. IdleBounded'
  BY DEF SupervisionInv, Supervision!TypeOK, Supervision!StallPersist, IdleBounded,
         Supervision!times, InRound, Starting
<1>6. RefreshRecent'
  BY DEF SupervisionInv, Supervision!TypeOK, Supervision!StallPersist, RefreshRecent,
         Supervision!counts, Supervision!times, Satisfied, Starting
<1>7. ReportRecent'
  BY DEF SupervisionInv, Supervision!TypeOK, IdleBounded, RefreshRecent,
         Supervision!StallPersist, ReportRecent, Starting, Satisfied,
         Supervision!counts, Supervision!times, Reported
<1>8. BccNamed'
  BY DEF SupervisionInv, Supervision!TypeOK, Supervision!StallPersist, BccNamed,
         Supervision!flags, Supervision!persistState, Starting
<1>9. MainNamed'
  BY DEF SupervisionInv, Supervision!StallPersist, MainNamed, Supervision!flags,
         Supervision!persistState, Supervision!times
<1>10. ResetNames'
  BY DEF SupervisionInv, Supervision!StallPersist, ResetNames
<1>11. Supervision!ReportNamesTheCulprit'
  BY DEF SupervisionInv, Supervision!StallPersist, Supervision!ReportNamesTheCulprit
<1>12. Supervision!TypeOK'
  BY <1>1, <1>2 DEF FlagsTyped, RestTyped, Supervision!TypeOK
<1> QED  BY <1>3, <1>4, <1>5, <1>6, <1>7, <1>8, <1>9, <1>10, <1>11, <1>12
            DEF SupervisionInv

\* A judgement that both tasks run keeps the invariant.
LEMMA SupervisedProgress ==
    ASSUME SupervisionInv, Supervision!Progress
    PROVE  SupervisionInv'
<1>1. FlagsTyped'
  BY Zenon DEF SupervisionInv, Supervision!TypeOK, Supervision!Progress, FlagsTyped,
         Supervision!backup, Supervision!times
<1>2. RestTyped'
  BY DEF SupervisionInv, Supervision!TypeOK, FlagsAgree, IdleBounded, ReportRecent,
         Supervision!Progress, RestTyped, Supervision!backup, Supervision!past,
         Supervision!times
<1>3. PlacesAgree'
  BY DEF SupervisionInv, Supervision!TypeOK, Supervision!Progress, PlacesAgree,
         Supervision!backup
<1>4. FlagsAgree'
  BY DEF SupervisionInv, Supervision!TypeOK, Supervision!Progress, FlagsAgree, InRound
<1>5. IdleBounded'
  BY DEF SupervisionInv, Supervision!TypeOK, Supervision!Progress, IdleBounded,
         Supervision!times, InRound, Starting
<1>6. RefreshRecent'
  BY DEF SupervisionInv, FlagsAgree, Supervision!Progress, RefreshRecent, Starting,
         Supervision!Stopped, Supervision!times, Between, Satisfied, Supervision!Sources
<1>7. ReportRecent'
  BY DEF SupervisionInv, FlagsAgree, Supervision!Progress, ReportRecent, Starting,
         Supervision!Stopped, Supervision!times, Between, Reported, Satisfied,
         Supervision!Sources
<1>8. BccNamed'
  BY DEF SupervisionInv, Supervision!Progress, BccNamed, Between, InRound
<1>9. MainNamed'
  BY DEF SupervisionInv, Supervision!Progress, MainNamed, Supervision!MainRuns
<1>10. ResetNames'
  BY DEF SupervisionInv, Supervision!Progress, ResetNames
<1>11. Supervision!ReportNamesTheCulprit'
  BY DEF SupervisionInv, Supervision!Progress, Supervision!ReportNamesTheCulprit
<1>12. Supervision!TypeOK'
  BY <1>1, <1>2 DEF FlagsTyped, RestTyped, Supervision!TypeOK
<1> QED  BY <1>3, <1>4, <1>5, <1>6, <1>7, <1>8, <1>9, <1>10, <1>11, <1>12
            DEF SupervisionInv

\* The record that both tasks run keeps the invariant.
LEMMA SupervisedClearPersist ==
    ASSUME SupervisionInv, Supervision!ClearPersist
    PROVE  SupervisionInv'
<1>1. FlagsTyped'
  BY Zenon DEF SupervisionInv, Supervision!TypeOK, Supervision!ClearPersist, FlagsTyped,
         Supervision!counts, Supervision!flags, Supervision!times
<1>2. RestTyped'
  BY DEF SupervisionInv, Supervision!TypeOK, IdleBounded, RefreshRecent, ReportRecent,
         Supervision!ClearPersist, RestTyped, Supervision!flags, Supervision!past,
         Supervision!persistState, Supervision!times
<1>3. PlacesAgree'
  BY DEF SupervisionInv, Supervision!TypeOK, Supervision!ClearPersist, PlacesAgree
<1>4. FlagsAgree'
  BY DEF SupervisionInv, Supervision!TypeOK, Supervision!ClearPersist, FlagsAgree,
         Supervision!counts, Supervision!flags, Supervision!persistState, InRound
<1>5. IdleBounded'
  BY DEF SupervisionInv, Supervision!TypeOK, Supervision!ClearPersist, IdleBounded,
         Supervision!times, InRound, Starting
<1>6. RefreshRecent'
  BY DEF SupervisionInv, Supervision!TypeOK, Supervision!ClearPersist, RefreshRecent,
         Supervision!times, Between, Satisfied, Starting
<1>7. ReportRecent'
  BY DEF SupervisionInv, Supervision!TypeOK, Supervision!ClearPersist, ReportRecent,
         Supervision!counts, Supervision!times, Between, InRound, Reported, Satisfied,
         Starting
<1>8. BccNamed'
  BY DEF SupervisionInv, Supervision!ClearPersist, BccNamed, Between, InRound
<1>9. MainNamed'
  BY DEF SupervisionInv, Supervision!ClearPersist, MainNamed, Supervision!flags,
         Supervision!persistState, Supervision!times
<1>10. ResetNames'
  BY DEF SupervisionInv, Supervision!ClearPersist, ResetNames
<1>11. Supervision!ReportNamesTheCulprit'
  BY DEF SupervisionInv, Supervision!ClearPersist, Supervision!ReportNamesTheCulprit
<1>12. Supervision!TypeOK'
  BY <1>1, <1>2 DEF FlagsTyped, RestTyped, Supervision!TypeOK
<1> QED  BY <1>3, <1>4, <1>5, <1>6, <1>7, <1>8, <1>9, <1>10, <1>11, <1>12
            DEF SupervisionInv

\* A refresh of the watchdog keeps the invariant.
LEMMA SupervisedRefresh ==
    ASSUME SupervisionInv, Supervision!Refresh
    PROVE  SupervisionInv'
<1>1. FlagsTyped'
  BY Zenon DEF SupervisionInv, Supervision!TypeOK, Supervision!Refresh, FlagsTyped,
         Supervision!backup, Supervision!counts, Supervision!flags
<1>2. RestTyped'
  BY DEF SupervisionInv, Supervision!TypeOK, IdleBounded, ReportRecent,
         Supervision!Refresh, RestTyped, Supervision!Expiry, Supervision!backup,
         Supervision!flags, Supervision!past
<1>3. PlacesAgree'
  BY DEF SupervisionInv, Supervision!TypeOK, Supervision!Refresh, PlacesAgree,
         Supervision!backup
<1>4. FlagsAgree'
  BY DEF SupervisionInv, Supervision!TypeOK, Supervision!Refresh, FlagsAgree,
         Supervision!backup, Supervision!counts, Supervision!flags, InRound, Starting
<1>5. IdleBounded'
  BY DEF SupervisionInv, Supervision!TypeOK, Supervision!Refresh, IdleBounded,
         Supervision!MainRuns, InRound
<1>6. RefreshRecent'
  BY DEF SupervisionInv, Supervision!TypeOK, Supervision!Refresh, RefreshRecent
<1>7. ReportRecent'
  BY DEF SupervisionInv, Supervision!TypeOK, IdleBounded, Supervision!Refresh,
         ReportRecent, Starting, Supervision!counts, Reported, Satisfied
<1>8. BccNamed'
  BY DEF SupervisionInv, Supervision!TypeOK, Supervision!Refresh, BccNamed
<1>9. MainNamed'
  BY DEF SupervisionInv, Supervision!Refresh, MainNamed, Supervision!backup,
         Supervision!flags
<1>10. ResetNames'
  BY DEF SupervisionInv, Supervision!Refresh, ResetNames
<1>11. Supervision!ReportNamesTheCulprit'
  BY DEF SupervisionInv, Supervision!Refresh, Supervision!ReportNamesTheCulprit
<1>12. Supervision!TypeOK'
  BY <1>1, <1>2 DEF FlagsTyped, RestTyped, Supervision!TypeOK
<1> QED  BY <1>3, <1>4, <1>5, <1>6, <1>7, <1>8, <1>9, <1>10, <1>11, <1>12
            DEF SupervisionInv

\* The main task's way round keeps the invariant.
LEMMA SupervisedLoop ==
    ASSUME SupervisionInv, Supervision!Loop
    PROVE  SupervisionInv'
<1>1. FlagsTyped'
  BY Zenon DEF SupervisionInv, Supervision!TypeOK, Supervision!Loop, FlagsTyped,
         Supervision!backup, Supervision!counts, Supervision!flags, Supervision!times
<1>2. RestTyped'
  BY DEF SupervisionInv, Supervision!TypeOK, Supervision!Loop, RestTyped,
         Supervision!backup, Supervision!flags, Supervision!past, Supervision!times
<1>3. PlacesAgree'
  BY DEF SupervisionInv, Supervision!TypeOK, Supervision!Loop, PlacesAgree,
         Supervision!MainRuns
<1>4. FlagsAgree'
  BY DEF SupervisionInv, Supervision!TypeOK, Supervision!Loop, FlagsAgree,
         Supervision!backup, Supervision!counts, Supervision!flags, InRound, Starting
<1>5. IdleBounded'
  BY DEF SupervisionInv, Supervision!TypeOK, Supervision!Loop, IdleBounded,
         Supervision!times, InRound, Starting
<1>6. RefreshRecent'
  BY DEF SupervisionInv, Supervision!TypeOK, Supervision!Loop, RefreshRecent,
         Supervision!counts, Supervision!times, Between, Satisfied, Starting
<1>7. ReportRecent'
  BY DEF SupervisionInv, Supervision!TypeOK, Supervision!Loop, ReportRecent,
         Supervision!counts, Supervision!times, Between, Reported, Satisfied, Starting
<1>8. BccNamed'
  BY DEF SupervisionInv, Supervision!TypeOK, Supervision!Loop, BccNamed,
         Supervision!backup, Supervision!flags, Supervision!times, Between, Starting
<1>9. MainNamed'
  BY DEF SupervisionInv, Supervision!Loop, MainNamed, Supervision!backup,
         Supervision!flags, Supervision!times
<1>10. ResetNames'
  BY DEF SupervisionInv, Supervision!Loop, ResetNames
<1>11. Supervision!ReportNamesTheCulprit'
  BY DEF SupervisionInv, Supervision!Loop, Supervision!ReportNamesTheCulprit
<1>12. Supervision!TypeOK'
  BY <1>1, <1>2 DEF FlagsTyped, RestTyped, Supervision!TypeOK
<1> QED  BY <1>3, <1>4, <1>5, <1>6, <1>7, <1>8, <1>9, <1>10, <1>11, <1>12
            DEF SupervisionInv

\* A report of the BCC task keeps the invariant.
LEMMA SupervisedBccReport ==
    ASSUME SupervisionInv, Supervision!BccReport
    PROVE  SupervisionInv'
<1>1. FlagsTyped'
  BY Zenon DEF SupervisionInv, Supervision!TypeOK, Supervision!BccReport, FlagsTyped,
         Supervision!backup, Supervision!flags
<1>2. RestTyped'
  BY DEF SupervisionInv, Supervision!TypeOK, Supervision!BccReport, RestTyped,
         Supervision!Long, Supervision!backup, Supervision!flags, Supervision!past
<1>3. PlacesAgree'
  BY DEF SupervisionInv, Supervision!TypeOK, Supervision!BccReport, PlacesAgree
<1>4. FlagsAgree'
  BY DEF SupervisionInv, Supervision!TypeOK, Supervision!BccReport, FlagsAgree,
         Supervision!backup, Supervision!flags, InRound, Starting
<1>5. IdleBounded'
  BY DEF SupervisionInv, Supervision!TypeOK, Supervision!BccReport, IdleBounded,
         InRound, Starting
<1>6. RefreshRecent'
  BY DEF SupervisionInv, Supervision!TypeOK, Supervision!BccReport, RefreshRecent,
         Supervision!BccRuns, Between, InRound, Satisfied, Starting
<1>7. ReportRecent'
  BY DEF SupervisionInv, Supervision!TypeOK, RefreshRecent, Supervision!BccReport,
         ReportRecent, Between, InRound, Supervision!BccRuns, Reported
<1>8. BccNamed'
  BY DEF SupervisionInv, Supervision!TypeOK, Supervision!BccReport, BccNamed,
         Supervision!backup, Supervision!flags, Between, InRound, Starting
<1>9. MainNamed'
  BY DEF SupervisionInv, Supervision!TypeOK, IdleBounded, Supervision!BccReport,
         MainNamed, Supervision!backup, Supervision!flags
<1>10. ResetNames'
  BY DEF SupervisionInv, Supervision!TypeOK, Supervision!BccReport, ResetNames,
         Supervision!backup, Supervision!past
<1>11. Supervision!ReportNamesTheCulprit'
  BY DEF SupervisionInv, Supervision!TypeOK, Supervision!BccReport,
         Supervision!ReportNamesTheCulprit, Supervision!past
<1>12. Supervision!TypeOK'
  BY <1>1, <1>2 DEF FlagsTyped, RestTyped, Supervision!TypeOK
<1> QED  BY <1>3, <1>4, <1>5, <1>6, <1>7, <1>8, <1>9, <1>10, <1>11, <1>12
            DEF SupervisionInv

\* The BCC task's judgement of the main task keeps the invariant.
LEMMA SupervisedBccClassify ==
    ASSUME SupervisionInv, Supervision!BccClassify
    PROVE  SupervisionInv'
<1>1. FlagsTyped'
  BY Zenon DEF SupervisionInv, Supervision!TypeOK, Supervision!BccClassify, FlagsTyped,
         Supervision!backup, Supervision!counts
<1>2. RestTyped'
  BY DEF SupervisionInv, Supervision!TypeOK, Supervision!BccClassify, RestTyped,
         Supervision!Expiry, Supervision!Long, Supervision!Sources, Supervision!BccRuns,
         Supervision!backup, Supervision!past
<1>3. PlacesAgree'
  BY DEF SupervisionInv, Supervision!TypeOK, Supervision!BccClassify, PlacesAgree
<1>4. FlagsAgree'
  BY DEF SupervisionInv, Supervision!TypeOK, Supervision!BccClassify, FlagsAgree,
         Supervision!backup, Supervision!counts, InRound, Starting
<1>5. IdleBounded'
  BY DEF SupervisionInv, Supervision!TypeOK, Supervision!BccClassify, IdleBounded,
         InRound, Starting
<1>6. RefreshRecent'
  BY DEF SupervisionInv, Supervision!TypeOK, Supervision!BccClassify, RefreshRecent,
         Supervision!counts, Between, InRound, Satisfied, Starting
<1>7. ReportRecent'
  BY DEF SupervisionInv, Supervision!TypeOK, Supervision!BccClassify, ReportRecent,
         Supervision!counts, Between, InRound, Reported, Satisfied, Starting
<1>8. BccNamed'
  BY DEF SupervisionInv, Supervision!TypeOK, Supervision!BccClassify, BccNamed,
         Supervision!backup, Between, InRound, Starting
<1>9. MainNamed'
  BY DEF SupervisionInv, Supervision!TypeOK, Supervision!BccClassify, MainNamed,
         Supervision!PccStandsStill, Supervision!backup, PCC,
         Supervision!PCC_STALL_CLASSIFICATION
<1>10. ResetNames'
  BY DEF SupervisionInv, Supervision!TypeOK, Supervision!BccClassify, ResetNames,
         Supervision!backup, Supervision!past
<1>11. Supervision!ReportNamesTheCulprit'
  BY DEF SupervisionInv, Supervision!TypeOK, Supervision!BccClassify,
         Supervision!ReportNamesTheCulprit, Supervision!past
<1>12. Supervision!TypeOK'
  BY <1>1, <1>2 DEF FlagsTyped, RestTyped, Supervision!TypeOK
<1> QED  BY <1>3, <1>4, <1>5, <1>6, <1>7, <1>8, <1>9, <1>10, <1>11, <1>12
            DEF SupervisionInv

\* The record of that judgement keeps the invariant.
LEMMA SupervisedBccPersist ==
    ASSUME SupervisionInv, Supervision!BccPersist
    PROVE  SupervisionInv'
<1>1. FlagsTyped'
  BY Zenon DEF SupervisionInv, Supervision!TypeOK, Supervision!BccPersist, FlagsTyped,
         Supervision!counts, Supervision!flags, Supervision!times
<1>2. RestTyped'
  BY DEF SupervisionInv, Supervision!TypeOK, Supervision!BccPersist, RestTyped,
         Supervision!flags, Supervision!past, Supervision!persistState,
         Supervision!times
<1>3. PlacesAgree'
  BY DEF SupervisionInv, Supervision!TypeOK, Supervision!BccPersist, PlacesAgree
<1>4. FlagsAgree'
  BY DEF SupervisionInv, Supervision!TypeOK, Supervision!BccPersist, FlagsAgree,
         Supervision!counts, Supervision!flags, Supervision!persistState, InRound
<1>5. IdleBounded'
  BY DEF SupervisionInv, Supervision!TypeOK, Supervision!BccPersist, IdleBounded,
         Supervision!times, InRound, Starting
<1>6. RefreshRecent'
  BY DEF SupervisionInv, Supervision!TypeOK, Supervision!BccPersist, RefreshRecent,
         Supervision!counts, Supervision!times, Between, InRound, Satisfied, Starting
<1>7. ReportRecent'
  BY DEF SupervisionInv, Supervision!TypeOK, Supervision!BccPersist, ReportRecent,
         Supervision!counts, Supervision!times, Between, InRound, Reported, Satisfied,
         Starting
<1>8. BccNamed'
  BY DEF SupervisionInv, Supervision!TypeOK, Supervision!BccPersist, BccNamed,
         Supervision!flags, Supervision!persistState, Supervision!times, Between,
         InRound, Starting
<1>9. MainNamed'
  BY DEF SupervisionInv, Supervision!TypeOK, Supervision!BccPersist, MainNamed,
         Supervision!flags, Supervision!persistState, Supervision!times
<1>10. ResetNames'
  BY DEF SupervisionInv, PlacesAgree, Supervision!BccPersist, ResetNames
<1>11. Supervision!ReportNamesTheCulprit'
  BY DEF SupervisionInv, Supervision!TypeOK, Supervision!BccPersist,
         Supervision!ReportNamesTheCulprit, Supervision!past
<1>12. Supervision!TypeOK'
  BY <1>1, <1>2 DEF FlagsTyped, RestTyped, Supervision!TypeOK
<1> QED  BY <1>3, <1>4, <1>5, <1>6, <1>7, <1>8, <1>9, <1>10, <1>11, <1>12
            DEF SupervisionInv

\* The start of a transfer keeps the invariant.
LEMMA SupervisedRecordTransferStart ==
    ASSUME SupervisionInv, Supervision!recordTransferStart
    PROVE  SupervisionInv'
<1>1. FlagsTyped'
  BY Zenon DEF SupervisionInv, Supervision!TypeOK, Supervision!recordTransferStart,
         FlagsTyped, Supervision!counts, Supervision!flags, Supervision!times
<1>2. RestTyped'
  BY DEF SupervisionInv, Supervision!TypeOK, Supervision!recordTransferStart, RestTyped,
         Supervision!flags, Supervision!past, Supervision!times
<1>3. PlacesAgree'
  BY DEF SupervisionInv, Supervision!TypeOK, Supervision!recordTransferStart,
         PlacesAgree, Supervision!BccRuns
<1>4. FlagsAgree'
  BY DEF SupervisionInv, Supervision!TypeOK, Supervision!recordTransferStart,
         FlagsAgree, Supervision!counts, Supervision!flags, InRound, Starting
<1>5. IdleBounded'
  BY DEF SupervisionInv, Supervision!TypeOK, Supervision!recordTransferStart,
         IdleBounded, Supervision!times, InRound, Starting
<1>6. RefreshRecent'
  BY DEF SupervisionInv, Supervision!TypeOK, Supervision!recordTransferStart,
         RefreshRecent, Supervision!counts, Supervision!times, Between, InRound,
         Satisfied, Starting
<1>7. ReportRecent'
  BY DEF SupervisionInv, Supervision!TypeOK, Supervision!recordTransferStart,
         ReportRecent, Supervision!counts, Supervision!times, Between, InRound,
         Reported, Satisfied, Starting
<1>8. BccNamed'
  BY DEF SupervisionInv, Supervision!TypeOK, Supervision!recordTransferStart, BccNamed,
         Supervision!flags, Supervision!times, Between, InRound, Starting
<1>9. MainNamed'
  BY DEF SupervisionInv, Supervision!TypeOK, Supervision!recordTransferStart, MainNamed,
         Supervision!flags, Supervision!times
<1>10. ResetNames'
  BY DEF SupervisionInv, Supervision!TypeOK, Supervision!recordTransferStart,
         ResetNames, Supervision!past
<1>11. Supervision!ReportNamesTheCulprit'
  BY DEF SupervisionInv, Supervision!TypeOK, Supervision!recordTransferStart,
         Supervision!ReportNamesTheCulprit, Supervision!past
<1>12. Supervision!TypeOK'
  BY <1>1, <1>2 DEF FlagsTyped, RestTyped, Supervision!TypeOK
<1> QED  BY <1>3, <1>4, <1>5, <1>6, <1>7, <1>8, <1>9, <1>10, <1>11, <1>12
            DEF SupervisionInv

\* The end of a transfer keeps the invariant.
LEMMA SupervisedRecordTransferComplete ==
    ASSUME SupervisionInv, Supervision!recordTransferComplete
    PROVE  SupervisionInv'
<1>1. FlagsTyped'
  BY Zenon DEF SupervisionInv, Supervision!TypeOK, Supervision!recordTransferComplete,
         FlagsTyped, Supervision!counts, Supervision!flags, Supervision!times
<1>2. RestTyped'
  BY DEF SupervisionInv, Supervision!TypeOK, Supervision!recordTransferComplete,
         RestTyped, Supervision!flags, Supervision!past, Supervision!times
<1>3. PlacesAgree'
  BY DEF SupervisionInv, Supervision!TypeOK, Supervision!recordTransferComplete,
         PlacesAgree, Supervision!BccRuns
<1>4. FlagsAgree'
  BY DEF SupervisionInv, Supervision!TypeOK, Supervision!recordTransferComplete,
         FlagsAgree, Supervision!counts, Supervision!flags, InRound, Starting
<1>5. IdleBounded'
  BY DEF SupervisionInv, Supervision!TypeOK, Supervision!recordTransferComplete,
         IdleBounded, Supervision!times, InRound, Starting
<1>6. RefreshRecent'
  BY DEF SupervisionInv, Supervision!TypeOK, Supervision!recordTransferComplete,
         RefreshRecent, Supervision!counts, Supervision!times, Between, InRound,
         Satisfied, Starting
<1>7. ReportRecent'
  BY DEF SupervisionInv, Supervision!TypeOK, Supervision!recordTransferComplete,
         ReportRecent, Supervision!counts, Supervision!times, Between, InRound,
         Reported, Satisfied, Starting
<1>8. BccNamed'
  BY DEF SupervisionInv, Supervision!TypeOK, Supervision!recordTransferComplete,
         BccNamed, Supervision!flags, Supervision!times, Between, InRound, Starting
<1>9. MainNamed'
  BY DEF SupervisionInv, Supervision!TypeOK, Supervision!recordTransferComplete,
         MainNamed, Supervision!flags, Supervision!times
<1>10. ResetNames'
  BY DEF SupervisionInv, PlacesAgree, Supervision!recordTransferComplete, ResetNames
<1>11. Supervision!ReportNamesTheCulprit'
  BY DEF SupervisionInv, Supervision!TypeOK, Supervision!recordTransferComplete,
         Supervision!ReportNamesTheCulprit, Supervision!past
<1>12. Supervision!TypeOK'
  BY <1>1, <1>2 DEF FlagsTyped, RestTyped, Supervision!TypeOK
<1> QED  BY <1>3, <1>4, <1>5, <1>6, <1>7, <1>8, <1>9, <1>10, <1>11, <1>12
            DEF SupervisionInv

\* The BCC task's way round keeps the invariant.
LEMMA SupervisedBccLoop ==
    ASSUME SupervisionInv, Supervision!BccLoop
    PROVE  SupervisionInv'
<1>1. FlagsTyped'
  BY Zenon DEF SupervisionInv, Supervision!TypeOK, Supervision!BccLoop, FlagsTyped,
         Supervision!backup, Supervision!counts, Supervision!flags, Supervision!times
<1>2. RestTyped'
  BY DEF SupervisionInv, Supervision!TypeOK, Supervision!BccLoop, RestTyped,
         Supervision!backup, Supervision!flags, Supervision!past, Supervision!times
<1>3. PlacesAgree'
  BY DEF SupervisionInv, Supervision!TypeOK, Supervision!BccLoop, PlacesAgree,
         Supervision!BccRuns
<1>4. FlagsAgree'
  BY DEF SupervisionInv, Supervision!TypeOK, Supervision!BccLoop, FlagsAgree,
         Supervision!backup, Supervision!counts, Supervision!flags, InRound, Starting
<1>5. IdleBounded'
  BY DEF SupervisionInv, Supervision!TypeOK, Supervision!BccLoop, IdleBounded,
         Supervision!times, InRound, Starting
<1>6. RefreshRecent'
  BY DEF SupervisionInv, Supervision!TypeOK, Supervision!BccLoop, RefreshRecent,
         Supervision!counts, Supervision!times, Between, InRound, Satisfied, Starting
<1>7. ReportRecent'
  BY DEF SupervisionInv, Supervision!TypeOK, Supervision!BccLoop, ReportRecent,
         Supervision!counts, Supervision!times, Between, InRound, Reported, Satisfied,
         Starting
<1>8. BccNamed'
  BY DEF SupervisionInv, Supervision!TypeOK, Supervision!BccLoop, BccNamed,
         Supervision!backup, Supervision!flags, Supervision!times, Between, InRound,
         Starting
<1>9. MainNamed'
  BY DEF SupervisionInv, Supervision!TypeOK, Supervision!BccLoop, MainNamed,
         Supervision!backup, Supervision!flags, Supervision!times
<1>10. ResetNames'
  BY DEF SupervisionInv, Supervision!TypeOK, Supervision!BccLoop, ResetNames,
         Supervision!backup, Supervision!past
<1>11. Supervision!ReportNamesTheCulprit'
  BY DEF SupervisionInv, Supervision!TypeOK, Supervision!BccLoop,
         Supervision!ReportNamesTheCulprit, Supervision!past
<1>12. Supervision!TypeOK'
  BY <1>1, <1>2 DEF FlagsTyped, RestTyped, Supervision!TypeOK
<1> QED  BY <1>3, <1>4, <1>5, <1>6, <1>7, <1>8, <1>9, <1>10, <1>11, <1>12
            DEF SupervisionInv

\* A task or transfer that stops keeps the invariant.
LEMMA SupervisedHang ==
    ASSUME SupervisionInv, NEW where \in {"main", "bcc", "transfer"}, Supervision!Hang(where)
    PROVE  SupervisionInv'
<1>1. FlagsTyped'
  BY Zenon DEF SupervisionInv, Supervision!TypeOK, Supervision!Hang, FlagsTyped,
         Supervision!backup, Supervision!counts, Supervision!flags, Supervision!times
<1>2. RestTyped'
  BY DEF SupervisionInv, Supervision!TypeOK, Supervision!Hang, RestTyped,
         Supervision!backup, Supervision!flags, Supervision!past, Supervision!tasks,
         Supervision!times
<1>3. PlacesAgree'
  BY DEF SupervisionInv, Supervision!TypeOK, Supervision!Hang, PlacesAgree,
         Supervision!backup, Supervision!tasks
<1>4. FlagsAgree'
  BY DEF SupervisionInv, Supervision!TypeOK, Supervision!Hang, FlagsAgree,
         Supervision!backup, Supervision!counts, Supervision!flags, Supervision!tasks,
         InRound, Starting
<1>5. IdleBounded'
  <2>1. CASE where = "main"
    BY <2>1 DEF SupervisionInv, Supervision!TypeOK, PlacesAgree, RefreshRecent,
           Supervision!Hang, IdleBounded, Between, InRound, Starting, Supervision!tasks,
           Supervision!times
  <2>2. CASE where = "bcc"
    BY <2>2 DEF SupervisionInv, Supervision!TypeOK, PlacesAgree, RefreshRecent,
           Supervision!Hang, IdleBounded, InRound, Supervision!tasks, Supervision!times
  <2>3. CASE where = "transfer"
    BY <2>3 DEF SupervisionInv, Supervision!TypeOK, PlacesAgree, RefreshRecent,
           Supervision!Hang, IdleBounded, InRound, Supervision!tasks, Supervision!times
  <2> QED  BY <2>1, <2>2, <2>3
<1>6. RefreshRecent'
  BY DEF SupervisionInv, Supervision!TypeOK, Supervision!Hang, RefreshRecent,
         Supervision!counts, Supervision!tasks, Supervision!times, Between, InRound,
         Satisfied, Starting
<1>7. ReportRecent'
  BY DEF SupervisionInv, Supervision!TypeOK, Supervision!Hang, ReportRecent,
         Supervision!counts, Supervision!tasks, Supervision!times, Between, InRound,
         Reported, Satisfied, Starting
<1>8. BccNamed'
  BY DEF SupervisionInv, Supervision!TypeOK, Supervision!Hang, BccNamed,
         Supervision!backup, Supervision!flags, Supervision!tasks, Supervision!times,
         Between, InRound, Starting
<1>9. MainNamed'
  BY DEF SupervisionInv, Supervision!TypeOK, IdleBounded, Supervision!Hang, MainNamed,
         Supervision!tasks, Supervision!times
<1>10. ResetNames'
  BY DEF SupervisionInv, Supervision!Hang, ResetNames, Supervision!tasks
<1>11. Supervision!ReportNamesTheCulprit'
  BY DEF SupervisionInv, Supervision!TypeOK, Supervision!Hang,
         Supervision!ReportNamesTheCulprit, Supervision!past, Supervision!tasks
<1>12. Supervision!TypeOK'
  BY <1>1, <1>2 DEF FlagsTyped, RestTyped, Supervision!TypeOK
<1> QED  BY <1>3, <1>4, <1>5, <1>6, <1>7, <1>8, <1>9, <1>10, <1>11, <1>12
            DEF SupervisionInv

\* A period that passes keeps the invariant.
LEMMA SupervisedTick ==
    ASSUME SupervisionInv, Supervision!Tick
    PROVE  SupervisionInv'
<1>1. FlagsTyped'
  BY Zenon DEF SupervisionInv, Supervision!TypeOK, Supervision!Tick, FlagsTyped,
         Supervision!backup, Supervision!counts, Supervision!flags
<1>2. RestTyped'
  BY DEF SupervisionInv, Supervision!TypeOK, Supervision!Tick, RestTyped,
         Supervision!Expiry, Supervision!Long, Supervision!backup, Supervision!flags,
         Supervision!past
<1>3. PlacesAgree'
  BY DEF SupervisionInv, Supervision!TypeOK, Supervision!Tick, PlacesAgree,
         Supervision!backup
<1>4. FlagsAgree'
  BY DEF SupervisionInv, Supervision!TypeOK, Supervision!Tick, FlagsAgree,
         Supervision!backup, Supervision!counts, Supervision!flags, InRound, Starting
<1>5. IdleBounded'
  BY DEF SupervisionInv, Supervision!TypeOK, PlacesAgree, ReportRecent,
         Supervision!Tick, IdleBounded, Supervision!Expiry, Supervision!Long, InRound,
         Starting, Supervision!BccPeriod, Supervision!MainPeriod
<1>6. RefreshRecent'
  BY DEF SupervisionInv, Supervision!TypeOK, Supervision!Tick, RefreshRecent,
         Supervision!Long, Supervision!MainPeriod, Supervision!counts, Between, InRound,
         Satisfied, Starting
<1>7. ReportRecent'
  BY DEF SupervisionInv, Supervision!TypeOK, Supervision!Tick, ReportRecent,
         Supervision!Long, Supervision!MainPeriod, Supervision!counts, Between, InRound,
         Reported, Satisfied, Starting
<1>8. BccNamed'
  BY DEF SupervisionInv, Supervision!TypeOK, Supervision!Tick, BccNamed,
         Supervision!Expiry, Supervision!Long, Supervision!backup, Supervision!flags,
         Between, InRound, Starting
<1>9. MainNamed'
  BY DEF SupervisionInv, Supervision!TypeOK, Supervision!Tick, MainNamed,
         Supervision!Long, Supervision!BccPeriod, Supervision!backup, Supervision!flags
<1>10. ResetNames'
  BY DEF SupervisionInv, Supervision!TypeOK, Supervision!Tick, ResetNames,
         Supervision!backup, Supervision!past
<1>11. Supervision!ReportNamesTheCulprit'
  BY DEF SupervisionInv, Supervision!TypeOK, Supervision!Tick,
         Supervision!ReportNamesTheCulprit, Supervision!past
<1>12. Supervision!TypeOK'
  BY <1>1, <1>2 DEF FlagsTyped, RestTyped, Supervision!TypeOK
<1> QED  BY <1>3, <1>4, <1>5, <1>6, <1>7, <1>8, <1>9, <1>10, <1>11, <1>12
            DEF SupervisionInv

\* The watchdog's reset keeps the invariant.
LEMMA SupervisedReset ==
    ASSUME SupervisionInv, Supervision!Reset
    PROVE  SupervisionInv'
<1>1. FlagsTyped'
  BY Zenon DEF SupervisionInv, Supervision!TypeOK, Supervision!Reset, FlagsTyped,
         Supervision!backup
<1>2. RestTyped'
  BY DEF SupervisionInv, Supervision!TypeOK, Supervision!Reset, RestTyped,
         Supervision!Long, Supervision!backup
<1>3. PlacesAgree'
  BY DEF SupervisionInv, Supervision!Reset, PlacesAgree
<1>4. FlagsAgree'
  BY DEF SupervisionInv, Supervision!Reset, FlagsAgree, InRound, Starting
<1>5. IdleBounded'
  BY DEF SupervisionInv, Supervision!Reset, IdleBounded
<1>6. RefreshRecent'
  BY DEF SupervisionInv, Supervision!Reset, RefreshRecent
<1>7. ReportRecent'
  BY DEF SupervisionInv, Supervision!Reset, ReportRecent, Satisfied
<1>8. BccNamed'
  BY DEF SupervisionInv, Supervision!Reset, BccNamed
<1>9. MainNamed'
  BY DEF SupervisionInv, Supervision!Reset, MainNamed
<1>10. ResetNames'
  BY DEF SupervisionInv, Supervision!TypeOK, PlacesAgree, FlagsAgree, IdleBounded,
         RefreshRecent, BccNamed, MainNamed, Supervision!Reset, ResetNames,
         Supervision!Expiry, InRound, Starting, Between, Satisfied, Supervision!backup
<1>11. Supervision!ReportNamesTheCulprit'
  BY DEF SupervisionInv, Supervision!Reset, Supervision!ReportNamesTheCulprit
<1>12. Supervision!TypeOK'
  BY <1>1, <1>2 DEF FlagsTyped, RestTyped, Supervision!TypeOK
<1> QED  BY <1>3, <1>4, <1>5, <1>6, <1>7, <1>8, <1>9, <1>10, <1>11, <1>12
            DEF SupervisionInv

\* The boot after it keeps the invariant.
LEMMA SupervisedCaptureOnBoot ==
    ASSUME SupervisionInv, Supervision!captureOnBoot
    PROVE  SupervisionInv'
<1>1. FlagsTyped'
  BY Zenon DEF SupervisionInv, Supervision!TypeOK, Supervision!captureOnBoot,
         FlagsTyped, Supervision!backup, Supervision!counts, Supervision!flags,
         Supervision!times
<1>2. RestTyped'
  BY DEF SupervisionInv, Supervision!TypeOK, PlacesAgree, IdleBounded, RefreshRecent,
         Supervision!captureOnBoot, RestTyped, Supervision!NoReport, Supervision!backup,
         Supervision!captured, Supervision!flags, Supervision!times
<1>3. PlacesAgree'
  BY DEF SupervisionInv, Supervision!TypeOK, Supervision!captureOnBoot, PlacesAgree
<1>4. FlagsAgree'
  BY DEF SupervisionInv, Supervision!TypeOK, Supervision!captureOnBoot, FlagsAgree,
         Supervision!counts, Supervision!flags, InRound, Starting
<1>5. IdleBounded'
  BY DEF SupervisionInv, Supervision!TypeOK, Supervision!captureOnBoot, IdleBounded,
         Supervision!times, InRound, Starting
<1>6. RefreshRecent'
  BY DEF SupervisionInv, Supervision!TypeOK, Supervision!captureOnBoot, RefreshRecent,
         Supervision!times, Starting
<1>7. ReportRecent'
  BY DEF SupervisionInv, Supervision!TypeOK, Supervision!captureOnBoot, ReportRecent,
         Between, InRound, Satisfied, Starting
<1>8. BccNamed'
  BY DEF SupervisionInv, Supervision!captureOnBoot, BccNamed, Starting
<1>9. MainNamed'
  BY DEF SupervisionInv, PlacesAgree, Supervision!captureOnBoot, MainNamed
<1>10. ResetNames'
  BY DEF SupervisionInv, Supervision!captureOnBoot, ResetNames
<1>11. Supervision!ReportNamesTheCulprit'
  BY DEF SupervisionInv, ResetNames, Supervision!captureOnBoot,
         Supervision!ReportNamesTheCulprit, BCC, PCC, Supervision!captured
<1>12. Supervision!TypeOK'
  BY <1>1, <1>2 DEF FlagsTyped, RestTyped, Supervision!TypeOK
<1> QED  BY <1>3, <1>4, <1>5, <1>6, <1>7, <1>8, <1>9, <1>10, <1>11, <1>12
            DEF SupervisionInv

\* A task that stops, whichever it is, keeps the invariant.
LEMMA SupervisedHangs ==
    SupervisionInv /\ (\E where \in {"main", "bcc", "transfer"} : Supervision!Hang(where))
      => SupervisionInv'
  BY SupervisedHang

\* Every step of the supervision keeps its invariant.
LEMMA SupervisionStep ==
    SupervisionInv /\ [Supervision!Next]_(Supervision!vars) => SupervisionInv'
<1> SUFFICES ASSUME SupervisionInv, [Supervision!Next]_(Supervision!vars)
             PROVE  SupervisionInv'
  OBVIOUS
<1>1. CASE \/ Supervision!Setup \/ Supervision!SetupPersist
           \/ Supervision!reportPccProgress \/ Supervision!ReportPersist
  BY <1>1, SupervisedSetup, SupervisedSetupPersist, SupervisedReportPccProgress,
     SupervisedReportPersist
<1>2. CASE \/ Supervision!Due \/ Supervision!Read \/ Supervision!Stall
           \/ Supervision!StallPersist \/ Supervision!Progress \/ Supervision!ClearPersist
           \/ Supervision!Refresh \/ Supervision!Loop
  BY <1>2, SupervisedDue, SupervisedRead, SupervisedStall, SupervisedStallPersist,
     SupervisedProgress, SupervisedClearPersist, SupervisedRefresh, SupervisedLoop
<1>3. CASE \/ Supervision!BccReport \/ Supervision!BccClassify \/ Supervision!BccPersist
           \/ Supervision!recordTransferStart \/ Supervision!recordTransferComplete
           \/ Supervision!BccLoop
  BY <1>3, SupervisedBccReport, SupervisedBccClassify, SupervisedBccPersist,
     SupervisedRecordTransferStart, SupervisedRecordTransferComplete, SupervisedBccLoop
<1>4. CASE \E where \in {"main", "bcc", "transfer"} : Supervision!Hang(where)
  BY <1>4, SupervisedHangs
<1>5. CASE Supervision!Tick \/ Supervision!Reset \/ Supervision!captureOnBoot
  BY <1>5, SupervisedTick, SupervisedReset, SupervisedCaptureOnBoot
<1>6. CASE UNCHANGED Supervision!vars
  BY <1>6 DEF Supervision!vars, Supervision!tasks, Supervision!counts, Supervision!times,
              Supervision!flags, Supervision!backup, Supervision!past, SupervisionInv,
              Supervision!TypeOK, PlacesAgree, FlagsAgree, IdleBounded, RefreshRecent,
              ReportRecent, Reported, BccNamed, MainNamed, ResetNames, Starting, Between,
              InRound, Satisfied, Supervision!ReportNamesTheCulprit
<1> QED  BY <1>1, <1>2, <1>3, <1>4, <1>5, <1>6 DEF Supervision!Next

\* A system that starts satisfies it.
LEMMA SupervisionStart == Supervision!Init => SupervisionInv
<1> SUFFICES ASSUME Supervision!Init PROVE SupervisionInv
  OBVIOUS
<1>1. Supervision!TypeOK
  <2>1. FlagsTyped
    BY Zenon DEF Supervision!Init, FlagsTyped
  <2>2. RestTyped
    BY DEF Supervision!Init, RestTyped, Supervision!NoReport, Supervision!Long,
           Supervision!Expiry
  <2> QED  BY <2>1, <2>2 DEF FlagsTyped, RestTyped, Supervision!TypeOK
<1>2. PlacesAgree /\ FlagsAgree
  BY DEF Supervision!Init, PlacesAgree, FlagsAgree, Starting, InRound
<1>3. IdleBounded /\ RefreshRecent /\ ReportRecent
  BY DEF Supervision!Init, IdleBounded, RefreshRecent, ReportRecent, Starting, Between,
         InRound, Satisfied
<1>4. BccNamed /\ MainNamed /\ ResetNames /\ Supervision!ReportNamesTheCulprit
  BY DEF Supervision!Init, BccNamed, MainNamed, ResetNames, Starting,
         Supervision!ReportNamesTheCulprit
<1> QED  BY <1>1, <1>2, <1>3, <1>4 DEF SupervisionInv

\* It bounds the time since the last refresh while both tasks run, and the time that
\* a task which does not run has stood still.
LEMMA SupervisionBounds ==
    SupervisionInv => Supervision!RunningIsNotReset /\ Supervision!HungIsReset
<1> SUFFICES ASSUME SupervisionInv
             PROVE  Supervision!RunningIsNotReset /\ Supervision!HungIsReset
  OBVIOUS
<1>1. Supervision!RunningIsNotReset
  BY DEF SupervisionInv, Supervision!RunningIsNotReset, Supervision!TypeOK,
         Supervision!Expiry, Supervision!Long, PlacesAgree, FlagsAgree, IdleBounded,
         RefreshRecent, Starting, Between, InRound, Satisfied
<1>2. Supervision!HungIsReset
  BY DEF SupervisionInv, Supervision!HungIsReset, Supervision!TypeOK, Supervision!Expiry,
         Supervision!Long, Supervision!MainPeriod, Supervision!REFRESH_PERIOD, PlacesAgree,
         FlagsAgree, IdleBounded, ReportRecent, Reported, Starting, Between, InRound,
         Satisfied
<1> QED  BY <1>1, <1>2

-----------------------------------------------------------------------------
(* The measuring cycle of the monitors                                     *)

\* The entries of the table of transfers.
Names == {"pause", "soc", "wait", "resume", "raw", "convert", "request", "cells",
          "terminals", "analog", "summary", "clear", "live", "counter", "update",
          "present", "publish", "again", "held"}
Entries == [name : Names, monitor : 0..2, words : 0..30]

\* One transfer, as a table.
LEMMA OneTransfer ==
    ASSUME NEW n \in Names, NEW k \in 0..2, NEW w \in 0..30
    PROVE  /\ <<Measurement!Read(n, k, w)>> \in Seq(Entries)
           /\ Len(<<Measurement!Read(n, k, w)>>) = 1
           /\ <<Measurement!Read(n, k, w)>>[1] = Measurement!Read(n, k, w)
  BY DEF Measurement!Read, Entries

\* A transfer with each monitor, as a table.
LEMMA EachMonitor ==
    ASSUME NEW n \in Names, NEW w \in 0..30
    PROVE  /\ Measurement!PerMonitor(n, w) \in Seq(Entries)
           /\ Len(Measurement!PerMonitor(n, w)) = 2
           /\ Measurement!PerMonitor(n, w)[1] = Measurement!Read(n, 1, w)
           /\ Measurement!PerMonitor(n, w)[2] = Measurement!Read(n, 2, w)
  BY DEF Measurement!PerMonitor, Measurement!Read, Entries

\* The numbers of the transfers.
LEMMA Numbers ==
    /\ \A k \in {0, 1, 2} : k \in 0..2 /\ k \in 0..30
    /\ 3 \in 0..30 /\ 4 \in 0..30 /\ 30 \in 0..30
  OBVIOUS

\* Where the entries of two tables are in the one that joins them.
LEMMA Joined ==
    ASSUME NEW S, NEW a \in Seq(S), NEW b \in Seq(S), NEW j, j = a \o b
    PROVE  /\ j \in Seq(S) /\ Len(j) = Len(a) + Len(b)
           /\ \A i \in 1..Len(a) : j[i] = a[i]
           /\ \A i \in 1..Len(b) : j[Len(a) + i] = b[i]
<1>1. j \in Seq(S) /\ Len(j) = Len(a) + Len(b)
  OBVIOUS
<1>2. \A i \in 1..Len(a) : j[i] = a[i]
  OBVIOUS
<1>3. \A i \in 1..Len(b) : j[Len(a) + i] = b[i]
  OBVIOUS
<1> QED  BY <1>1, <1>2, <1>3

\* The transfers that start the measurements.
LEMMA StartTable ==
    /\ Measurement!startMeasurements \in Seq(Entries) /\ Len(Measurement!startMeasurements) = 7
    /\ Measurement!startMeasurements[1] = Measurement!Read("pause", 1, 1)
    /\ Measurement!startMeasurements[2] = Measurement!Read("pause", 2, 1)
    /\ Measurement!startMeasurements[3] = Measurement!Read("soc", 0, 0)
    /\ Measurement!startMeasurements[4] = Measurement!Read("wait", 1, 1)
    /\ Measurement!startMeasurements[5] = Measurement!Read("wait", 2, 1)
    /\ Measurement!startMeasurements[6] = Measurement!Read("resume", 1, 1)
    /\ Measurement!startMeasurements[7] = Measurement!Read("resume", 2, 1)
<1> DEFINE P == Measurement!PerMonitor("pause", 1)
           S == <<Measurement!Read("soc", 0, 0)>>
           W == Measurement!PerMonitor("wait", 1)
           R == Measurement!PerMonitor("resume", 1)
<1>1. /\ P \in Seq(Entries) /\ Len(P) = 2
      /\ P[1] = Measurement!Read("pause", 1, 1)
      /\ P[2] = Measurement!Read("pause", 2, 1)
  BY Numbers, EachMonitor, Zenon DEF Names
<1>2. /\ S \in Seq(Entries) /\ Len(S) = 1
      /\ S[1] = Measurement!Read("soc", 0, 0)
  BY Numbers, OneTransfer, Zenon DEF Names
<1>3. /\ W \in Seq(Entries) /\ Len(W) = 2
      /\ W[1] = Measurement!Read("wait", 1, 1)
      /\ W[2] = Measurement!Read("wait", 2, 1)
  BY Numbers, EachMonitor, Zenon DEF Names
<1>4. /\ R \in Seq(Entries) /\ Len(R) = 2
      /\ R[1] = Measurement!Read("resume", 1, 1)
      /\ R[2] = Measurement!Read("resume", 2, 1)
  BY Numbers, EachMonitor, Zenon DEF Names
<1>5. Measurement!startMeasurements = ((P \o S) \o W) \o R
  BY Zenon DEF Measurement!startMeasurements
<1> HIDE DEF P, S, W, R
<1>6. Len(P) = 2 /\ Len(S) = 1 /\ Len(W) = 2 /\ Len(R) = 2
  BY <1>1, <1>2, <1>3, <1>4
<1>7. P \in Seq(Entries) /\ S \in Seq(Entries)
  BY <1>1, <1>2
<1> DEFINE J1 == P \o S
<1>8. J1 = P \o S
  BY Zenon
<1> HIDE DEF J1
<1>9. /\ J1 \in Seq(Entries) /\ Len(J1) = Len(P) + Len(S)
      /\ \A i \in 1..Len(P) : J1[i] = P[i]
      /\ \A i \in 1..Len(S) : J1[Len(P) + i] = S[i]
  BY <1>7, <1>8, Joined
<1>10. J1 \in Seq(Entries) /\ Len(J1) = 3
  BY <1>9, <1>6
<1>11. \A i \in 1..1 : J1[2 + i] = S[i]
  <2> TAKE i \in 1..1
  <2>1. i \in 1..Len(S)
    BY <1>6
  <2>2. J1[Len(P) + i] = S[i]
    <3>1. \A x \in 1..Len(S) : J1[Len(P) + x] = S[x]
      BY <1>9, Zenon
    <3>2. Len(P) = 2
      BY <1>6
    <3> QED  BY ONLY <2>1, <3>1, <3>2
  <2> QED  BY <2>2, <1>6, Zenon
<1>12. \A i \in 1..2 : J1[i] = P[i]
  BY <1>9, <1>6
<1>13. /\ \A i \in 1..2 : J1[i] = P[i]
       /\ \A i \in 1..1 : J1[2 + i] = S[i]
  BY <1>12, <1>11
<1>14. J1 \in Seq(Entries) /\ W \in Seq(Entries)
  BY <1>10, <1>3
<1> DEFINE J2 == J1 \o W
<1>15. J2 = J1 \o W
  BY Zenon
<1> HIDE DEF J2
<1>16. /\ J2 \in Seq(Entries) /\ Len(J2) = Len(J1) + Len(W)
       /\ \A i \in 1..Len(J1) : J2[i] = J1[i]
       /\ \A i \in 1..Len(W) : J2[Len(J1) + i] = W[i]
  BY <1>14, <1>15, Joined
<1>17. J2 \in Seq(Entries) /\ Len(J2) = 5
  BY <1>16, <1>6, <1>10
<1>18. \A i \in 1..2 : J2[3 + i] = W[i]
  <2> TAKE i \in 1..2
  <2>1. i \in 1..Len(W)
    BY <1>6
  <2>2. J2[Len(J1) + i] = W[i]
    <3>1. \A x \in 1..Len(W) : J2[Len(J1) + x] = W[x]
      BY <1>16, Zenon
    <3>2. Len(J1) = 3
      BY <1>6, <1>10
    <3> QED  BY ONLY <2>1, <3>1, <3>2
  <2> QED  BY <2>2, <1>6, <1>10, Zenon
<1>19. \A i \in 1..3 : J2[i] = J1[i]
  BY <1>16, <1>6, <1>10
<1>20. /\ \A i \in 1..2 : J2[i] = P[i]
       /\ \A i \in 1..1 : J2[2 + i] = S[i]
       /\ \A i \in 1..2 : J2[3 + i] = W[i]
  BY <1>19, <1>18, <1>13
<1>21. J2 \in Seq(Entries) /\ R \in Seq(Entries)
  BY <1>17, <1>4
<1> DEFINE J3 == J2 \o R
<1>22. J3 = J2 \o R
  BY Zenon
<1> HIDE DEF J3
<1>23. /\ J3 \in Seq(Entries) /\ Len(J3) = Len(J2) + Len(R)
       /\ \A i \in 1..Len(J2) : J3[i] = J2[i]
       /\ \A i \in 1..Len(R) : J3[Len(J2) + i] = R[i]
  BY <1>21, <1>22, Joined
<1>24. J3 \in Seq(Entries) /\ Len(J3) = 7
  BY <1>23, <1>6, <1>17
<1>25. \A i \in 1..2 : J3[5 + i] = R[i]
  <2> TAKE i \in 1..2
  <2>1. i \in 1..Len(R)
    BY <1>6
  <2>2. J3[Len(J2) + i] = R[i]
    <3>1. \A x \in 1..Len(R) : J3[Len(J2) + x] = R[x]
      BY <1>23, Zenon
    <3>2. Len(J2) = 5
      BY <1>6, <1>17
    <3> QED  BY ONLY <2>1, <3>1, <3>2
  <2> QED  BY <2>2, <1>6, <1>17, Zenon
<1>26. \A i \in 1..5 : J3[i] = J2[i]
  BY <1>23, <1>6, <1>17
<1>27. /\ \A i \in 1..2 : J3[i] = P[i]
       /\ \A i \in 1..1 : J3[2 + i] = S[i]
       /\ \A i \in 1..2 : J3[3 + i] = W[i]
       /\ \A i \in 1..2 : J3[5 + i] = R[i]
  BY <1>26, <1>25, <1>20
<1>28. Measurement!startMeasurements = J3
  BY <1>5, <1>8, <1>15, <1>22, Zenon
<1>29. /\ J3[1] = P[1]
       /\ J3[2] = P[2]
  BY <1>27
<1>30. /\ J3[3] = S[1]
  BY <1>27
<1>31. /\ J3[4] = W[1]
       /\ J3[5] = W[2]
  BY <1>27
<1>32. /\ J3[6] = R[1]
       /\ J3[7] = R[2]
  BY <1>27
<1> QED  BY <1>28, <1>24, <1>1, <1>2, <1>3, <1>4, <1>29, <1>30, <1>31, <1>32

\* The transfers that read and convert them.
LEMMA GetTable ==
    /\ Measurement!getMeasurements \in Seq(Entries) /\ Len(Measurement!getMeasurements) = 4
    /\ Measurement!getMeasurements[1] = Measurement!Read("raw", 1, 30)
    /\ Measurement!getMeasurements[2] = Measurement!Read("raw", 2, 30)
    /\ Measurement!getMeasurements[3] = Measurement!Read("convert", 1, 0)
    /\ Measurement!getMeasurements[4] = Measurement!Read("convert", 2, 0)
<1> DEFINE P == Measurement!PerMonitor("raw", 30)
           C == Measurement!PerMonitor("convert", 0)
<1>1. /\ P \in Seq(Entries) /\ Len(P) = 2
      /\ P[1] = Measurement!Read("raw", 1, 30)
      /\ P[2] = Measurement!Read("raw", 2, 30)
  BY Numbers, EachMonitor DEF Names
<1>2. /\ C \in Seq(Entries) /\ Len(C) = 2
      /\ C[1] = Measurement!Read("convert", 1, 0)
      /\ C[2] = Measurement!Read("convert", 2, 0)
  BY Numbers, EachMonitor, Zenon DEF Names
<1>3. Measurement!getMeasurements = P \o C
  BY Zenon DEF Measurement!getMeasurements
<1> HIDE DEF P, C
<1>4. Len(P) = 2 /\ Len(C) = 2
  BY <1>1, <1>2
<1>5. P \in Seq(Entries) /\ C \in Seq(Entries)
  BY <1>1, <1>2
<1> DEFINE J1 == P \o C
<1>6. J1 = P \o C
  BY Zenon
<1> HIDE DEF J1
<1>7. /\ J1 \in Seq(Entries) /\ Len(J1) = Len(P) + Len(C)
      /\ \A i \in 1..Len(P) : J1[i] = P[i]
      /\ \A i \in 1..Len(C) : J1[Len(P) + i] = C[i]
  BY <1>5, <1>6, Joined
<1>8. J1 \in Seq(Entries) /\ Len(J1) = 4
  BY <1>7, <1>4
<1>9. \A i \in 1..2 : J1[2 + i] = C[i]
  <2> TAKE i \in 1..2
  <2>1. i \in 1..Len(C)
    BY <1>4
  <2>2. J1[Len(P) + i] = C[i]
    <3>1. \A x \in 1..Len(C) : J1[Len(P) + x] = C[x]
      BY <1>7, Zenon
    <3>2. Len(P) = 2
      BY <1>4
    <3> QED  BY ONLY <2>1, <3>1, <3>2
  <2> QED  BY <2>2, <1>4, Zenon
<1>10. \A i \in 1..2 : J1[i] = P[i]
  BY <1>7, <1>4
<1>11. /\ \A i \in 1..2 : J1[i] = P[i]
       /\ \A i \in 1..2 : J1[2 + i] = C[i]
  BY <1>10, <1>9
<1>12. Measurement!getMeasurements = J1
  BY <1>3, <1>6, Zenon
<1>13. /\ J1[1] = P[1]
       /\ J1[2] = P[2]
  BY <1>11
<1>14. /\ J1[3] = C[1]
       /\ J1[4] = C[2]
  BY <1>11
<1> QED  BY <1>12, <1>8, <1>1, <1>2, <1>13, <1>14

\* The transfers that read and clear the status of a monitor.
LEMMA StatusTable ==
    ASSUME NEW k \in 1..2
    PROVE  /\ Measurement!fault_GetStatus(k) \in Seq(Entries)
           /\ Len(Measurement!fault_GetStatus(k)) = 5
           /\ Measurement!fault_GetStatus(k)[1] = Measurement!Read("cells", k, 2)
           /\ Measurement!fault_GetStatus(k)[2] = Measurement!Read("terminals", k, 2)
           /\ Measurement!fault_GetStatus(k)[3] = Measurement!Read("analog", k, 2)
           /\ Measurement!fault_GetStatus(k)[4] = Measurement!Read("summary", k, 4)
           /\ Measurement!fault_GetStatus(k)[5] = Measurement!Read("clear", k, 0)
  BY DEF Measurement!fault_GetStatus, Measurement!Read, Entries, Names

\* The last three transfers of fault detection.
LEMMA CurrentTable ==
    LET t == <<Measurement!Read("live", 1, 1), Measurement!Read("counter", 1, 3),
               Measurement!Read("update", 0, 0)>>
    IN  /\ t \in Seq(Entries) /\ Len(t) = 3
        /\ t[1] = Measurement!Read("live", 1, 1)
        /\ t[2] = Measurement!Read("counter", 1, 3)
        /\ t[3] = Measurement!Read("update", 0, 0)
  BY DEF Measurement!Read, Entries, Names

\* The transfers of fault detection.
LEMMA DetectionTable ==
    /\ Measurement!faultDetection \in Seq(Entries) /\ Len(Measurement!faultDetection) = 13
    /\ Measurement!faultDetection[1] = Measurement!Read("cells", 1, 2)
    /\ Measurement!faultDetection[2] = Measurement!Read("terminals", 1, 2)
    /\ Measurement!faultDetection[3] = Measurement!Read("analog", 1, 2)
    /\ Measurement!faultDetection[4] = Measurement!Read("summary", 1, 4)
    /\ Measurement!faultDetection[5] = Measurement!Read("clear", 1, 0)
    /\ Measurement!faultDetection[6] = Measurement!Read("cells", 2, 2)
    /\ Measurement!faultDetection[7] = Measurement!Read("terminals", 2, 2)
    /\ Measurement!faultDetection[8] = Measurement!Read("analog", 2, 2)
    /\ Measurement!faultDetection[9] = Measurement!Read("summary", 2, 4)
    /\ Measurement!faultDetection[10] = Measurement!Read("clear", 2, 0)
    /\ Measurement!faultDetection[11] = Measurement!Read("live", 1, 1)
    /\ Measurement!faultDetection[12] = Measurement!Read("counter", 1, 3)
    /\ Measurement!faultDetection[13] = Measurement!Read("update", 0, 0)
<1> DEFINE F == Measurement!fault_GetStatus(1)
           G == Measurement!fault_GetStatus(2)
           T == <<Measurement!Read("live", 1, 1), Measurement!Read("counter", 1, 3),
                  Measurement!Read("update", 0, 0)>>
<1>1. /\ F \in Seq(Entries) /\ Len(F) = 5
      /\ F[1] = Measurement!Read("cells", 1, 2)
      /\ F[2] = Measurement!Read("terminals", 1, 2)
      /\ F[3] = Measurement!Read("analog", 1, 2)
      /\ F[4] = Measurement!Read("summary", 1, 4)
      /\ F[5] = Measurement!Read("clear", 1, 0)
  BY StatusTable
<1>2. /\ G \in Seq(Entries) /\ Len(G) = 5
      /\ G[1] = Measurement!Read("cells", 2, 2)
      /\ G[2] = Measurement!Read("terminals", 2, 2)
      /\ G[3] = Measurement!Read("analog", 2, 2)
      /\ G[4] = Measurement!Read("summary", 2, 4)
      /\ G[5] = Measurement!Read("clear", 2, 0)
  BY StatusTable
<1>3. /\ T \in Seq(Entries) /\ Len(T) = 3
      /\ T[1] = Measurement!Read("live", 1, 1)
      /\ T[2] = Measurement!Read("counter", 1, 3)
      /\ T[3] = Measurement!Read("update", 0, 0)
  BY CurrentTable
<1>4. Measurement!faultDetection = (F \o G) \o T
  BY Zenon DEF Measurement!faultDetection
<1> HIDE DEF F, G, T
<1>5. Len(F) = 5 /\ Len(G) = 5 /\ Len(T) = 3
  BY <1>1, <1>2, <1>3
<1>6. F \in Seq(Entries) /\ G \in Seq(Entries)
  BY <1>1, <1>2
<1> DEFINE J1 == F \o G
<1>7. J1 = F \o G
  BY Zenon
<1> HIDE DEF J1
<1>8. /\ J1 \in Seq(Entries) /\ Len(J1) = Len(F) + Len(G)
      /\ \A i \in 1..Len(F) : J1[i] = F[i]
      /\ \A i \in 1..Len(G) : J1[Len(F) + i] = G[i]
  BY <1>6, <1>7, Joined
<1>9. J1 \in Seq(Entries) /\ Len(J1) = 10
  BY <1>8, <1>5
<1>10. \A i \in 1..5 : J1[5 + i] = G[i]
  <2> TAKE i \in 1..5
  <2>1. i \in 1..Len(G)
    BY <1>5
  <2>2. J1[Len(F) + i] = G[i]
    <3>1. \A x \in 1..Len(G) : J1[Len(F) + x] = G[x]
      BY <1>8, Zenon
    <3>2. Len(F) = 5
      BY <1>5
    <3> QED  BY ONLY <2>1, <3>1, <3>2
  <2> QED  BY <2>2, <1>5, Zenon
<1>11. \A i \in 1..5 : J1[i] = F[i]
  BY <1>8, <1>5
<1>12. /\ \A i \in 1..5 : J1[i] = F[i]
       /\ \A i \in 1..5 : J1[5 + i] = G[i]
  BY <1>11, <1>10
<1>13. J1 \in Seq(Entries) /\ T \in Seq(Entries)
  BY <1>9, <1>3
<1> DEFINE J2 == J1 \o T
<1>14. J2 = J1 \o T
  BY Zenon
<1> HIDE DEF J2
<1>15. /\ J2 \in Seq(Entries) /\ Len(J2) = Len(J1) + Len(T)
       /\ \A i \in 1..Len(J1) : J2[i] = J1[i]
       /\ \A i \in 1..Len(T) : J2[Len(J1) + i] = T[i]
  BY <1>13, <1>14, Joined
<1>16. J2 \in Seq(Entries) /\ Len(J2) = 13
  BY <1>15, <1>5, <1>9
<1>17. \A i \in 1..3 : J2[10 + i] = T[i]
  <2> TAKE i \in 1..3
  <2>1. i \in 1..Len(T)
    BY <1>5
  <2>2. J2[Len(J1) + i] = T[i]
    <3>1. \A x \in 1..Len(T) : J2[Len(J1) + x] = T[x]
      BY <1>15, Zenon
    <3>2. Len(J1) = 10
      BY <1>5, <1>9
    <3> QED  BY ONLY <2>1, <3>1, <3>2
  <2> QED  BY <2>2, <1>5, <1>9, Zenon
<1>18. \A i \in 1..10 : J2[i] = J1[i]
  BY <1>15, <1>5, <1>9
<1>19. /\ \A i \in 1..5 : J2[i] = F[i]
       /\ \A i \in 1..5 : J2[5 + i] = G[i]
       /\ \A i \in 1..3 : J2[10 + i] = T[i]
  BY <1>18, <1>17, <1>12
<1>20. Measurement!faultDetection = J2
  BY <1>4, <1>7, <1>14, Zenon
<1>21. /\ J2[1] = F[1]
       /\ J2[2] = F[2]
       /\ J2[3] = F[3]
       /\ J2[4] = F[4]
       /\ J2[5] = F[5]
  BY <1>19
<1>22. /\ J2[6] = G[1]
       /\ J2[7] = G[2]
       /\ J2[8] = G[3]
       /\ J2[9] = G[4]
       /\ J2[10] = G[5]
  BY <1>19
<1>23. /\ J2[11] = T[1]
       /\ J2[12] = T[2]
       /\ J2[13] = T[3]
  BY <1>19
<1> QED  BY <1>20, <1>16, <1>1, <1>2, <1>3, <1>21, <1>22, <1>23

\* The transfers of a cycle that goes well.
LEMMA LoopTable ==
    /\ Measurement!runningLoop \in Seq(Entries) /\ Len(Measurement!runningLoop) = 28
    /\ Measurement!runningLoop[1] = Measurement!Read("pause", 1, 1)
    /\ Measurement!runningLoop[2] = Measurement!Read("pause", 2, 1)
    /\ Measurement!runningLoop[3] = Measurement!Read("soc", 0, 0)
    /\ Measurement!runningLoop[4] = Measurement!Read("wait", 1, 1)
    /\ Measurement!runningLoop[5] = Measurement!Read("wait", 2, 1)
    /\ Measurement!runningLoop[6] = Measurement!Read("resume", 1, 1)
    /\ Measurement!runningLoop[7] = Measurement!Read("resume", 2, 1)
    /\ Measurement!runningLoop[8] = Measurement!Read("raw", 1, 30)
    /\ Measurement!runningLoop[9] = Measurement!Read("raw", 2, 30)
    /\ Measurement!runningLoop[10] = Measurement!Read("convert", 1, 0)
    /\ Measurement!runningLoop[11] = Measurement!Read("convert", 2, 0)
    /\ Measurement!runningLoop[12] = Measurement!Read("request", 2, 1)
    /\ Measurement!runningLoop[13] = Measurement!Read("cells", 1, 2)
    /\ Measurement!runningLoop[14] = Measurement!Read("terminals", 1, 2)
    /\ Measurement!runningLoop[15] = Measurement!Read("analog", 1, 2)
    /\ Measurement!runningLoop[16] = Measurement!Read("summary", 1, 4)
    /\ Measurement!runningLoop[17] = Measurement!Read("clear", 1, 0)
    /\ Measurement!runningLoop[18] = Measurement!Read("cells", 2, 2)
    /\ Measurement!runningLoop[19] = Measurement!Read("terminals", 2, 2)
    /\ Measurement!runningLoop[20] = Measurement!Read("analog", 2, 2)
    /\ Measurement!runningLoop[21] = Measurement!Read("summary", 2, 4)
    /\ Measurement!runningLoop[22] = Measurement!Read("clear", 2, 0)
    /\ Measurement!runningLoop[23] = Measurement!Read("live", 1, 1)
    /\ Measurement!runningLoop[24] = Measurement!Read("counter", 1, 3)
    /\ Measurement!runningLoop[25] = Measurement!Read("update", 0, 0)
    /\ Measurement!runningLoop[26] = Measurement!Read("present", 1, 1)
    /\ Measurement!runningLoop[27] = Measurement!Read("present", 2, 1)
    /\ Measurement!runningLoop[28] = Measurement!Read("publish", 0, 0)
<1> DEFINE S == Measurement!startMeasurements
           M == Measurement!getMeasurements
           Q == <<Measurement!Read("request", 2, 1)>>
           D == Measurement!faultDetection
           N == Measurement!PerMonitor("present", 1)
           E == <<Measurement!Read("publish", 0, 0)>>
<1>1. /\ S \in Seq(Entries) /\ Len(S) = 7
      /\ S[1] = Measurement!Read("pause", 1, 1)
      /\ S[2] = Measurement!Read("pause", 2, 1)
      /\ S[3] = Measurement!Read("soc", 0, 0)
      /\ S[4] = Measurement!Read("wait", 1, 1)
      /\ S[5] = Measurement!Read("wait", 2, 1)
      /\ S[6] = Measurement!Read("resume", 1, 1)
      /\ S[7] = Measurement!Read("resume", 2, 1)
  BY StartTable
<1>2. /\ M \in Seq(Entries) /\ Len(M) = 4
      /\ M[1] = Measurement!Read("raw", 1, 30)
      /\ M[2] = Measurement!Read("raw", 2, 30)
      /\ M[3] = Measurement!Read("convert", 1, 0)
      /\ M[4] = Measurement!Read("convert", 2, 0)
  BY GetTable
<1>3. /\ Q \in Seq(Entries) /\ Len(Q) = 1
      /\ Q[1] = Measurement!Read("request", 2, 1)
  BY Numbers, OneTransfer, Zenon DEF Names
<1>4. /\ D \in Seq(Entries) /\ Len(D) = 13
      /\ D[1] = Measurement!Read("cells", 1, 2)
      /\ D[2] = Measurement!Read("terminals", 1, 2)
      /\ D[3] = Measurement!Read("analog", 1, 2)
      /\ D[4] = Measurement!Read("summary", 1, 4)
      /\ D[5] = Measurement!Read("clear", 1, 0)
      /\ D[6] = Measurement!Read("cells", 2, 2)
      /\ D[7] = Measurement!Read("terminals", 2, 2)
      /\ D[8] = Measurement!Read("analog", 2, 2)
      /\ D[9] = Measurement!Read("summary", 2, 4)
      /\ D[10] = Measurement!Read("clear", 2, 0)
      /\ D[11] = Measurement!Read("live", 1, 1)
      /\ D[12] = Measurement!Read("counter", 1, 3)
      /\ D[13] = Measurement!Read("update", 0, 0)
  BY DetectionTable
<1>5. /\ N \in Seq(Entries) /\ Len(N) = 2
      /\ N[1] = Measurement!Read("present", 1, 1)
      /\ N[2] = Measurement!Read("present", 2, 1)
  BY Numbers, EachMonitor, Zenon DEF Names
<1>6. /\ E \in Seq(Entries) /\ Len(E) = 1
      /\ E[1] = Measurement!Read("publish", 0, 0)
  BY Numbers, OneTransfer, Zenon DEF Names
<1>7. Measurement!runningLoop = ((((S \o M) \o Q) \o D) \o N) \o E
  BY Zenon DEF Measurement!runningLoop
<1> HIDE DEF S, M, Q, D, N, E
<1>8. Len(S) = 7 /\ Len(M) = 4 /\ Len(Q) = 1 /\ Len(D) = 13 /\ Len(N) = 2 /\ Len(E) = 1
  BY <1>1, <1>2, <1>3, <1>4, <1>5, <1>6
<1>9. S \in Seq(Entries) /\ M \in Seq(Entries)
  BY <1>1, <1>2
<1> DEFINE J1 == S \o M
<1>10. J1 = S \o M
  BY Zenon
<1> HIDE DEF J1
<1>11. /\ J1 \in Seq(Entries) /\ Len(J1) = Len(S) + Len(M)
       /\ \A i \in 1..Len(S) : J1[i] = S[i]
       /\ \A i \in 1..Len(M) : J1[Len(S) + i] = M[i]
  BY <1>9, <1>10, Joined
<1>12. J1 \in Seq(Entries) /\ Len(J1) = 11
  BY <1>11, <1>8
<1>13. \A i \in 1..4 : J1[7 + i] = M[i]
  <2> TAKE i \in 1..4
  <2>1. i \in 1..Len(M)
    BY <1>8
  <2>2. J1[Len(S) + i] = M[i]
    <3>1. \A x \in 1..Len(M) : J1[Len(S) + x] = M[x]
      BY <1>11, Zenon
    <3>2. Len(S) = 7
      BY <1>8
    <3> QED  BY ONLY <2>1, <3>1, <3>2
  <2> QED  BY <2>2, <1>8, Zenon
<1>14. \A i \in 1..7 : J1[i] = S[i]
  BY <1>11, <1>8
<1>15. /\ \A i \in 1..7 : J1[i] = S[i]
       /\ \A i \in 1..4 : J1[7 + i] = M[i]
  BY <1>14, <1>13
<1>16. J1 \in Seq(Entries) /\ Q \in Seq(Entries)
  BY <1>12, <1>3
<1> DEFINE J2 == J1 \o Q
<1>17. J2 = J1 \o Q
  BY Zenon
<1> HIDE DEF J2
<1>18. /\ J2 \in Seq(Entries) /\ Len(J2) = Len(J1) + Len(Q)
       /\ \A i \in 1..Len(J1) : J2[i] = J1[i]
       /\ \A i \in 1..Len(Q) : J2[Len(J1) + i] = Q[i]
  BY <1>16, <1>17, Joined
<1>19. J2 \in Seq(Entries) /\ Len(J2) = 12
  BY <1>18, <1>8, <1>12
<1>20. \A i \in 1..1 : J2[11 + i] = Q[i]
  <2> TAKE i \in 1..1
  <2>1. i \in 1..Len(Q)
    BY <1>8
  <2>2. J2[Len(J1) + i] = Q[i]
    <3>1. \A x \in 1..Len(Q) : J2[Len(J1) + x] = Q[x]
      BY <1>18, Zenon
    <3>2. Len(J1) = 11
      BY <1>8, <1>12
    <3> QED  BY ONLY <2>1, <3>1, <3>2
  <2> QED  BY <2>2, <1>8, <1>12, Zenon
<1>21. \A i \in 1..11 : J2[i] = J1[i]
  BY <1>18, <1>8, <1>12
<1>22. /\ \A i \in 1..7 : J2[i] = S[i]
       /\ \A i \in 1..4 : J2[7 + i] = M[i]
       /\ \A i \in 1..1 : J2[11 + i] = Q[i]
  BY <1>21, <1>20, <1>15
<1>23. J2 \in Seq(Entries) /\ D \in Seq(Entries)
  BY <1>19, <1>4
<1> DEFINE J3 == J2 \o D
<1>24. J3 = J2 \o D
  BY Zenon
<1> HIDE DEF J3
<1>25. /\ J3 \in Seq(Entries) /\ Len(J3) = Len(J2) + Len(D)
       /\ \A i \in 1..Len(J2) : J3[i] = J2[i]
       /\ \A i \in 1..Len(D) : J3[Len(J2) + i] = D[i]
  BY <1>23, <1>24, Joined
<1>26. J3 \in Seq(Entries) /\ Len(J3) = 25
  BY <1>25, <1>8, <1>19
<1>27. \A i \in 1..13 : J3[12 + i] = D[i]
  <2> TAKE i \in 1..13
  <2>1. i \in 1..Len(D)
    BY <1>8
  <2>2. J3[Len(J2) + i] = D[i]
    <3>1. \A x \in 1..Len(D) : J3[Len(J2) + x] = D[x]
      BY <1>25, Zenon
    <3>2. Len(J2) = 12
      BY <1>8, <1>19
    <3> QED  BY ONLY <2>1, <3>1, <3>2
  <2> QED  BY <2>2, <1>8, <1>19, Zenon
<1>28. \A i \in 1..12 : J3[i] = J2[i]
  BY <1>25, <1>8, <1>19
<1>29. /\ \A i \in 1..7 : J3[i] = S[i]
       /\ \A i \in 1..4 : J3[7 + i] = M[i]
       /\ \A i \in 1..1 : J3[11 + i] = Q[i]
       /\ \A i \in 1..13 : J3[12 + i] = D[i]
  BY <1>28, <1>27, <1>22
<1>30. J3 \in Seq(Entries) /\ N \in Seq(Entries)
  BY <1>26, <1>5
<1> DEFINE J4 == J3 \o N
<1>31. J4 = J3 \o N
  BY Zenon
<1> HIDE DEF J4
<1>32. /\ J4 \in Seq(Entries) /\ Len(J4) = Len(J3) + Len(N)
       /\ \A i \in 1..Len(J3) : J4[i] = J3[i]
       /\ \A i \in 1..Len(N) : J4[Len(J3) + i] = N[i]
  BY <1>30, <1>31, Joined
<1>33. J4 \in Seq(Entries) /\ Len(J4) = 27
  BY <1>32, <1>8, <1>26
<1>34. \A i \in 1..2 : J4[25 + i] = N[i]
  <2> TAKE i \in 1..2
  <2>1. i \in 1..Len(N)
    BY <1>8
  <2>2. J4[Len(J3) + i] = N[i]
    <3>1. \A x \in 1..Len(N) : J4[Len(J3) + x] = N[x]
      BY <1>32, Zenon
    <3>2. Len(J3) = 25
      BY <1>8, <1>26
    <3> QED  BY ONLY <2>1, <3>1, <3>2
  <2> QED  BY <2>2, <1>8, <1>26, Zenon
<1>35. \A i \in 1..25 : J4[i] = J3[i]
  BY <1>32, <1>8, <1>26
<1>36. /\ \A i \in 1..7 : J4[i] = S[i]
       /\ \A i \in 1..4 : J4[7 + i] = M[i]
       /\ \A i \in 1..1 : J4[11 + i] = Q[i]
       /\ \A i \in 1..13 : J4[12 + i] = D[i]
       /\ \A i \in 1..2 : J4[25 + i] = N[i]
  BY <1>35, <1>34, <1>29
<1>37. J4 \in Seq(Entries) /\ E \in Seq(Entries)
  BY <1>33, <1>6
<1> DEFINE J5 == J4 \o E
<1>38. J5 = J4 \o E
  BY Zenon
<1> HIDE DEF J5
<1>39. /\ J5 \in Seq(Entries) /\ Len(J5) = Len(J4) + Len(E)
       /\ \A i \in 1..Len(J4) : J5[i] = J4[i]
       /\ \A i \in 1..Len(E) : J5[Len(J4) + i] = E[i]
  BY <1>37, <1>38, Joined
<1>40. J5 \in Seq(Entries) /\ Len(J5) = 28
  BY <1>39, <1>8, <1>33
<1>41. \A i \in 1..1 : J5[27 + i] = E[i]
  <2> TAKE i \in 1..1
  <2>1. i \in 1..Len(E)
    BY <1>8
  <2>2. J5[Len(J4) + i] = E[i]
    <3>1. \A x \in 1..Len(E) : J5[Len(J4) + x] = E[x]
      BY <1>39, Zenon
    <3>2. Len(J4) = 27
      BY <1>8, <1>33
    <3> QED  BY ONLY <2>1, <3>1, <3>2
  <2> QED  BY <2>2, <1>8, <1>33, Zenon
<1>42. \A i \in 1..27 : J5[i] = J4[i]
  BY <1>39, <1>8, <1>33
<1>43. /\ \A i \in 1..7 : J5[i] = S[i]
       /\ \A i \in 1..4 : J5[7 + i] = M[i]
       /\ \A i \in 1..1 : J5[11 + i] = Q[i]
       /\ \A i \in 1..13 : J5[12 + i] = D[i]
       /\ \A i \in 1..2 : J5[25 + i] = N[i]
       /\ \A i \in 1..1 : J5[27 + i] = E[i]
  BY <1>42, <1>41, <1>36
<1>44. Measurement!runningLoop = J5
  BY <1>7, <1>10, <1>17, <1>24, <1>31, <1>38, Zenon
<1>45. /\ J5[1] = S[1]
       /\ J5[2] = S[2]
       /\ J5[3] = S[3]
       /\ J5[4] = S[4]
       /\ J5[5] = S[5]
       /\ J5[6] = S[6]
       /\ J5[7] = S[7]
  BY <1>43
<1>46. /\ J5[8] = M[1]
       /\ J5[9] = M[2]
       /\ J5[10] = M[3]
       /\ J5[11] = M[4]
  BY <1>43
<1>47. /\ J5[12] = Q[1]
  BY <1>43
<1>48. /\ J5[13] = D[1]
       /\ J5[14] = D[2]
       /\ J5[15] = D[3]
       /\ J5[16] = D[4]
       /\ J5[17] = D[5]
       /\ J5[18] = D[6]
       /\ J5[19] = D[7]
       /\ J5[20] = D[8]
       /\ J5[21] = D[9]
       /\ J5[22] = D[10]
       /\ J5[23] = D[11]
       /\ J5[24] = D[12]
       /\ J5[25] = D[13]
  BY <1>43
<1>49. /\ J5[26] = N[1]
       /\ J5[27] = N[2]
  BY <1>43
<1>50. /\ J5[28] = E[1]
  BY <1>43
<1> QED
  BY <1>44, <1>40, <1>1, <1>2, <1>3, <1>4, <1>5, <1>6, <1>45, <1>46, <1>47, <1>48, <1>49, <1>50

\* The transfers of a failed start.
LEMMA RecoveryTable ==
    /\ Measurement!Recovery \in Seq(Entries) /\ Len(Measurement!Recovery) = 3
    /\ Measurement!Recovery[1] = Measurement!Read("again", 1, 1)
    /\ Measurement!Recovery[2] = Measurement!Read("again", 2, 1)
    /\ Measurement!Recovery[3] = Measurement!Read("held", 0, 0)
<1> DEFINE P == Measurement!PerMonitor("again", 1)
           E == <<Measurement!Read("held", 0, 0)>>
<1>1. /\ P \in Seq(Entries) /\ Len(P) = 2
      /\ P[1] = Measurement!Read("again", 1, 1)
      /\ P[2] = Measurement!Read("again", 2, 1)
  BY Numbers, EachMonitor, Zenon DEF Names
<1>2. /\ E \in Seq(Entries) /\ Len(E) = 1
      /\ E[1] = Measurement!Read("held", 0, 0)
  BY Numbers, OneTransfer, Zenon DEF Names
<1>3. Measurement!Recovery = P \o E
  BY Zenon DEF Measurement!Recovery
<1> HIDE DEF P, E
<1>4. Len(P) = 2 /\ Len(E) = 1
  BY <1>1, <1>2
<1>5. P \in Seq(Entries) /\ E \in Seq(Entries)
  BY <1>1, <1>2
<1> DEFINE J1 == P \o E
<1>6. J1 = P \o E
  BY Zenon
<1> HIDE DEF J1
<1>7. /\ J1 \in Seq(Entries) /\ Len(J1) = Len(P) + Len(E)
      /\ \A i \in 1..Len(P) : J1[i] = P[i]
      /\ \A i \in 1..Len(E) : J1[Len(P) + i] = E[i]
  BY <1>5, <1>6, Joined
<1>8. J1 \in Seq(Entries) /\ Len(J1) = 3
  BY <1>7, <1>4
<1>9. \A i \in 1..1 : J1[2 + i] = E[i]
  <2> TAKE i \in 1..1
  <2>1. i \in 1..Len(E)
    BY <1>4
  <2>2. J1[Len(P) + i] = E[i]
    <3>1. \A x \in 1..Len(E) : J1[Len(P) + x] = E[x]
      BY <1>7, Zenon
    <3>2. Len(P) = 2
      BY <1>4
    <3> QED  BY ONLY <2>1, <3>1, <3>2
  <2> QED  BY <2>2, <1>4, Zenon
<1>10. \A i \in 1..2 : J1[i] = P[i]
  BY <1>7, <1>4
<1>11. /\ \A i \in 1..2 : J1[i] = P[i]
       /\ \A i \in 1..1 : J1[2 + i] = E[i]
  BY <1>10, <1>9
<1>12. Measurement!Recovery = J1
  BY <1>3, <1>6, Zenon
<1>13. /\ J1[1] = P[1]
       /\ J1[2] = P[2]
  BY <1>11
<1>14. /\ J1[3] = E[1]
  BY <1>11
<1> QED  BY <1>12, <1>8, <1>1, <1>2, <1>13, <1>14

\* The whole table.
LEMMA CycleTable ==
    /\ Measurement!Cycle \in Seq(Entries) /\ Len(Measurement!Cycle) = 31
    /\ Measurement!Cycle[1] = Measurement!Read("pause", 1, 1)
    /\ Measurement!Cycle[2] = Measurement!Read("pause", 2, 1)
    /\ Measurement!Cycle[3] = Measurement!Read("soc", 0, 0)
    /\ Measurement!Cycle[4] = Measurement!Read("wait", 1, 1)
    /\ Measurement!Cycle[5] = Measurement!Read("wait", 2, 1)
    /\ Measurement!Cycle[6] = Measurement!Read("resume", 1, 1)
    /\ Measurement!Cycle[7] = Measurement!Read("resume", 2, 1)
    /\ Measurement!Cycle[8] = Measurement!Read("raw", 1, 30)
    /\ Measurement!Cycle[9] = Measurement!Read("raw", 2, 30)
    /\ Measurement!Cycle[10] = Measurement!Read("convert", 1, 0)
    /\ Measurement!Cycle[11] = Measurement!Read("convert", 2, 0)
    /\ Measurement!Cycle[12] = Measurement!Read("request", 2, 1)
    /\ Measurement!Cycle[13] = Measurement!Read("cells", 1, 2)
    /\ Measurement!Cycle[14] = Measurement!Read("terminals", 1, 2)
    /\ Measurement!Cycle[15] = Measurement!Read("analog", 1, 2)
    /\ Measurement!Cycle[16] = Measurement!Read("summary", 1, 4)
    /\ Measurement!Cycle[17] = Measurement!Read("clear", 1, 0)
    /\ Measurement!Cycle[18] = Measurement!Read("cells", 2, 2)
    /\ Measurement!Cycle[19] = Measurement!Read("terminals", 2, 2)
    /\ Measurement!Cycle[20] = Measurement!Read("analog", 2, 2)
    /\ Measurement!Cycle[21] = Measurement!Read("summary", 2, 4)
    /\ Measurement!Cycle[22] = Measurement!Read("clear", 2, 0)
    /\ Measurement!Cycle[23] = Measurement!Read("live", 1, 1)
    /\ Measurement!Cycle[24] = Measurement!Read("counter", 1, 3)
    /\ Measurement!Cycle[25] = Measurement!Read("update", 0, 0)
    /\ Measurement!Cycle[26] = Measurement!Read("present", 1, 1)
    /\ Measurement!Cycle[27] = Measurement!Read("present", 2, 1)
    /\ Measurement!Cycle[28] = Measurement!Read("publish", 0, 0)
    /\ Measurement!Cycle[29] = Measurement!Read("again", 1, 1)
    /\ Measurement!Cycle[30] = Measurement!Read("again", 2, 1)
    /\ Measurement!Cycle[31] = Measurement!Read("held", 0, 0)
<1> DEFINE L == Measurement!runningLoop
           R == Measurement!Recovery
<1>1. /\ L \in Seq(Entries) /\ Len(L) = 28
      /\ L[1] = Measurement!Read("pause", 1, 1)
      /\ L[2] = Measurement!Read("pause", 2, 1)
      /\ L[3] = Measurement!Read("soc", 0, 0)
      /\ L[4] = Measurement!Read("wait", 1, 1)
      /\ L[5] = Measurement!Read("wait", 2, 1)
      /\ L[6] = Measurement!Read("resume", 1, 1)
      /\ L[7] = Measurement!Read("resume", 2, 1)
      /\ L[8] = Measurement!Read("raw", 1, 30)
      /\ L[9] = Measurement!Read("raw", 2, 30)
      /\ L[10] = Measurement!Read("convert", 1, 0)
      /\ L[11] = Measurement!Read("convert", 2, 0)
      /\ L[12] = Measurement!Read("request", 2, 1)
      /\ L[13] = Measurement!Read("cells", 1, 2)
      /\ L[14] = Measurement!Read("terminals", 1, 2)
      /\ L[15] = Measurement!Read("analog", 1, 2)
      /\ L[16] = Measurement!Read("summary", 1, 4)
      /\ L[17] = Measurement!Read("clear", 1, 0)
      /\ L[18] = Measurement!Read("cells", 2, 2)
      /\ L[19] = Measurement!Read("terminals", 2, 2)
      /\ L[20] = Measurement!Read("analog", 2, 2)
      /\ L[21] = Measurement!Read("summary", 2, 4)
      /\ L[22] = Measurement!Read("clear", 2, 0)
      /\ L[23] = Measurement!Read("live", 1, 1)
      /\ L[24] = Measurement!Read("counter", 1, 3)
      /\ L[25] = Measurement!Read("update", 0, 0)
      /\ L[26] = Measurement!Read("present", 1, 1)
      /\ L[27] = Measurement!Read("present", 2, 1)
      /\ L[28] = Measurement!Read("publish", 0, 0)
  BY LoopTable
<1>2. /\ R \in Seq(Entries) /\ Len(R) = 3
      /\ R[1] = Measurement!Read("again", 1, 1)
      /\ R[2] = Measurement!Read("again", 2, 1)
      /\ R[3] = Measurement!Read("held", 0, 0)
  BY RecoveryTable
<1>3. Measurement!Cycle = L \o R
  BY Zenon DEF Measurement!Cycle
<1> HIDE DEF L, R
<1>4. Len(L) = 28 /\ Len(R) = 3
  BY <1>1, <1>2
<1>5. L \in Seq(Entries) /\ R \in Seq(Entries)
  BY <1>1, <1>2
<1> DEFINE J1 == L \o R
<1>6. J1 = L \o R
  BY Zenon
<1> HIDE DEF J1
<1>7. /\ J1 \in Seq(Entries) /\ Len(J1) = Len(L) + Len(R)
      /\ \A i \in 1..Len(L) : J1[i] = L[i]
      /\ \A i \in 1..Len(R) : J1[Len(L) + i] = R[i]
  BY <1>5, <1>6, Joined
<1>8. J1 \in Seq(Entries) /\ Len(J1) = 31
  BY <1>7, <1>4
<1>9. \A i \in 1..3 : J1[28 + i] = R[i]
  <2> TAKE i \in 1..3
  <2>1. i \in 1..Len(R)
    BY <1>4
  <2>2. J1[Len(L) + i] = R[i]
    <3>1. \A x \in 1..Len(R) : J1[Len(L) + x] = R[x]
      BY <1>7, Zenon
    <3>2. Len(L) = 28
      BY <1>4
    <3> QED  BY ONLY <2>1, <3>1, <3>2
  <2> QED  BY <2>2, <1>4, Zenon
<1>10. \A i \in 1..28 : J1[i] = L[i]
  BY <1>7, <1>4
<1>11. /\ \A i \in 1..28 : J1[i] = L[i]
       /\ \A i \in 1..3 : J1[28 + i] = R[i]
  BY <1>10, <1>9
<1>12. Measurement!Cycle = J1
  BY <1>3, <1>6, Zenon
<1>13. /\ J1[1] = L[1]
       /\ J1[2] = L[2]
       /\ J1[3] = L[3]
       /\ J1[4] = L[4]
       /\ J1[5] = L[5]
       /\ J1[6] = L[6]
       /\ J1[7] = L[7]
       /\ J1[8] = L[8]
       /\ J1[9] = L[9]
       /\ J1[10] = L[10]
       /\ J1[11] = L[11]
       /\ J1[12] = L[12]
       /\ J1[13] = L[13]
       /\ J1[14] = L[14]
       /\ J1[15] = L[15]
       /\ J1[16] = L[16]
       /\ J1[17] = L[17]
       /\ J1[18] = L[18]
       /\ J1[19] = L[19]
       /\ J1[20] = L[20]
       /\ J1[21] = L[21]
       /\ J1[22] = L[22]
       /\ J1[23] = L[23]
       /\ J1[24] = L[24]
       /\ J1[25] = L[25]
       /\ J1[26] = L[26]
       /\ J1[27] = L[27]
       /\ J1[28] = L[28]
  BY <1>11
<1>14. /\ J1[29] = R[1]
       /\ J1[30] = R[2]
       /\ J1[31] = R[3]
  BY <1>11
<1> QED  BY <1>12, <1>8, <1>1, <1>2, <1>13, <1>14

\* The fields of an entry.
LEMMA Fields ==
    ASSUME NEW n, NEW k, NEW x
    PROVE  /\ Measurement!Read(n, k, x).name = n
           /\ Measurement!Read(n, k, x).monitor = k
           /\ Measurement!Read(n, k, x).words = x
  BY DEF Measurement!Read

\* The columns of the table.
LEMMA Columns ==
    ASSUME NEW i \in 1..31
    PROVE  /\ Measurement!Cycle[i].name = "pause" <=> i \in {1, 2}
           /\ Measurement!Cycle[i].name = "soc" <=> i \in {3}
           /\ Measurement!Cycle[i].name = "wait" <=> i \in {4, 5}
           /\ Measurement!Cycle[i].name = "resume" <=> i \in {6, 7}
           /\ Measurement!Cycle[i].name = "raw" <=> i \in {8, 9}
           /\ Measurement!Cycle[i].name = "convert" <=> i \in {10, 11}
           /\ Measurement!Cycle[i].name = "request" <=> i \in {12}
           /\ Measurement!Cycle[i].name = "cells" <=> i \in {13, 18}
           /\ Measurement!Cycle[i].name = "terminals" <=> i \in {14, 19}
           /\ Measurement!Cycle[i].name = "analog" <=> i \in {15, 20}
           /\ Measurement!Cycle[i].name = "summary" <=> i \in {16, 21}
           /\ Measurement!Cycle[i].name = "clear" <=> i \in {17, 22}
           /\ Measurement!Cycle[i].name = "live" <=> i \in {23}
           /\ Measurement!Cycle[i].name = "counter" <=> i \in {24}
           /\ Measurement!Cycle[i].name = "update" <=> i \in {25}
           /\ Measurement!Cycle[i].name = "present" <=> i \in {26, 27}
           /\ Measurement!Cycle[i].name = "publish" <=> i \in {28}
           /\ Measurement!Cycle[i].name = "again" <=> i \in {29, 30}
           /\ Measurement!Cycle[i].name = "held" <=> i \in {31}
           /\ Measurement!Cycle[i].monitor = 1 <=>
                  i \in {1, 4, 6, 8, 10, 13, 14, 15, 16, 17, 23, 24, 26, 29}
           /\ Measurement!Cycle[i].monitor = 2 <=>
                  i \in {2, 5, 7, 9, 11, 12, 18, 19, 20, 21, 22, 27, 30}
           /\ i \in {1, 2, 4, 5, 6, 7, 12, 23, 26, 27, 29, 30} =>
                  Measurement!Cycle[i].words = 1
           /\ i \in {13, 14, 15, 18, 19, 20} => Measurement!Cycle[i].words = 2
           /\ i \in {24} => Measurement!Cycle[i].words = 3
           /\ i \in {16, 21} => Measurement!Cycle[i].words = 4
           /\ i \in {8, 9} => Measurement!Cycle[i].words = 30
<1> DEFINE n(k) == Measurement!Cycle[k].name
           m(k) == Measurement!Cycle[k].monitor
           w(k) == Measurement!Cycle[k].words
<1>0. /\ Measurement!Cycle[1] = Measurement!Read("pause", 1, 1)
      /\ Measurement!Cycle[2] = Measurement!Read("pause", 2, 1)
      /\ Measurement!Cycle[3] = Measurement!Read("soc", 0, 0)
      /\ Measurement!Cycle[4] = Measurement!Read("wait", 1, 1)
      /\ Measurement!Cycle[5] = Measurement!Read("wait", 2, 1)
      /\ Measurement!Cycle[6] = Measurement!Read("resume", 1, 1)
      /\ Measurement!Cycle[7] = Measurement!Read("resume", 2, 1)
      /\ Measurement!Cycle[8] = Measurement!Read("raw", 1, 30)
      /\ Measurement!Cycle[9] = Measurement!Read("raw", 2, 30)
      /\ Measurement!Cycle[10] = Measurement!Read("convert", 1, 0)
      /\ Measurement!Cycle[11] = Measurement!Read("convert", 2, 0)
      /\ Measurement!Cycle[12] = Measurement!Read("request", 2, 1)
      /\ Measurement!Cycle[13] = Measurement!Read("cells", 1, 2)
      /\ Measurement!Cycle[14] = Measurement!Read("terminals", 1, 2)
      /\ Measurement!Cycle[15] = Measurement!Read("analog", 1, 2)
      /\ Measurement!Cycle[16] = Measurement!Read("summary", 1, 4)
      /\ Measurement!Cycle[17] = Measurement!Read("clear", 1, 0)
      /\ Measurement!Cycle[18] = Measurement!Read("cells", 2, 2)
      /\ Measurement!Cycle[19] = Measurement!Read("terminals", 2, 2)
      /\ Measurement!Cycle[20] = Measurement!Read("analog", 2, 2)
      /\ Measurement!Cycle[21] = Measurement!Read("summary", 2, 4)
      /\ Measurement!Cycle[22] = Measurement!Read("clear", 2, 0)
      /\ Measurement!Cycle[23] = Measurement!Read("live", 1, 1)
      /\ Measurement!Cycle[24] = Measurement!Read("counter", 1, 3)
      /\ Measurement!Cycle[25] = Measurement!Read("update", 0, 0)
      /\ Measurement!Cycle[26] = Measurement!Read("present", 1, 1)
      /\ Measurement!Cycle[27] = Measurement!Read("present", 2, 1)
      /\ Measurement!Cycle[28] = Measurement!Read("publish", 0, 0)
      /\ Measurement!Cycle[29] = Measurement!Read("again", 1, 1)
      /\ Measurement!Cycle[30] = Measurement!Read("again", 2, 1)
      /\ Measurement!Cycle[31] = Measurement!Read("held", 0, 0)
  BY CycleTable, Zenon
<1>1. /\ n(1) = "pause"
      /\ n(2) = "pause"
      /\ n(3) = "soc"
      /\ n(4) = "wait"
      /\ n(5) = "wait"
      /\ n(6) = "resume"
      /\ n(7) = "resume"
      /\ n(8) = "raw"
      /\ n(9) = "raw"
      /\ n(10) = "convert"
      /\ n(11) = "convert"
      /\ n(12) = "request"
      /\ n(13) = "cells"
      /\ n(14) = "terminals"
      /\ n(15) = "analog"
      /\ n(16) = "summary"
      /\ n(17) = "clear"
      /\ n(18) = "cells"
      /\ n(19) = "terminals"
      /\ n(20) = "analog"
      /\ n(21) = "summary"
      /\ n(22) = "clear"
      /\ n(23) = "live"
      /\ n(24) = "counter"
      /\ n(25) = "update"
      /\ n(26) = "present"
      /\ n(27) = "present"
      /\ n(28) = "publish"
      /\ n(29) = "again"
      /\ n(30) = "again"
      /\ n(31) = "held"
  BY ONLY <1>0, Fields
<1>2. /\ m(1) = 1
      /\ m(2) = 2
      /\ m(3) = 0
      /\ m(4) = 1
      /\ m(5) = 2
      /\ m(6) = 1
      /\ m(7) = 2
      /\ m(8) = 1
      /\ m(9) = 2
      /\ m(10) = 1
      /\ m(11) = 2
      /\ m(12) = 2
      /\ m(13) = 1
      /\ m(14) = 1
      /\ m(15) = 1
      /\ m(16) = 1
      /\ m(17) = 1
      /\ m(18) = 2
      /\ m(19) = 2
      /\ m(20) = 2
      /\ m(21) = 2
      /\ m(22) = 2
      /\ m(23) = 1
      /\ m(24) = 1
      /\ m(25) = 0
      /\ m(26) = 1
      /\ m(27) = 2
      /\ m(28) = 0
      /\ m(29) = 1
      /\ m(30) = 2
      /\ m(31) = 0
  BY ONLY <1>0, Fields
<1>3. /\ w(1) = 1
      /\ w(2) = 1
      /\ w(3) = 0
      /\ w(4) = 1
      /\ w(5) = 1
      /\ w(6) = 1
      /\ w(7) = 1
      /\ w(8) = 30
      /\ w(9) = 30
      /\ w(10) = 0
      /\ w(11) = 0
      /\ w(12) = 1
      /\ w(13) = 2
      /\ w(14) = 2
      /\ w(15) = 2
      /\ w(16) = 4
      /\ w(17) = 0
      /\ w(18) = 2
      /\ w(19) = 2
      /\ w(20) = 2
      /\ w(21) = 4
      /\ w(22) = 0
      /\ w(23) = 1
      /\ w(24) = 3
      /\ w(25) = 0
      /\ w(26) = 1
      /\ w(27) = 1
      /\ w(28) = 0
      /\ w(29) = 1
      /\ w(30) = 1
      /\ w(31) = 0
  BY ONLY <1>0, Fields
<1>4. \/ i = 1
      \/ i = 2
      \/ i = 3
      \/ i = 4
      \/ i = 5
      \/ i = 6
      \/ i = 7
      \/ i = 8
      \/ i = 9
      \/ i = 10
      \/ i = 11
      \/ i = 12
      \/ i = 13
      \/ i = 14
      \/ i = 15
      \/ i = 16
      \/ i = 17
      \/ i = 18
      \/ i = 19
      \/ i = 20
      \/ i = 21
      \/ i = 22
      \/ i = 23
      \/ i = 24
      \/ i = 25
      \/ i = 26
      \/ i = 27
      \/ i = 28
      \/ i = 29
      \/ i = 30
      \/ i = 31
  OBVIOUS
<1> HIDE DEF n, m, w
<1>5. n(i) = "pause" <=> i \in {1, 2}
  BY ONLY <1>1, <1>4
<1>6. n(i) = "soc" <=> i \in {3}
  BY ONLY <1>1, <1>4
<1>7. n(i) = "wait" <=> i \in {4, 5}
  BY ONLY <1>1, <1>4
<1>8. n(i) = "resume" <=> i \in {6, 7}
  BY ONLY <1>1, <1>4
<1>9. n(i) = "raw" <=> i \in {8, 9}
  BY ONLY <1>1, <1>4
<1>10. n(i) = "convert" <=> i \in {10, 11}
  BY ONLY <1>1, <1>4
<1>11. n(i) = "request" <=> i \in {12}
  BY ONLY <1>1, <1>4
<1>12. n(i) = "cells" <=> i \in {13, 18}
  BY ONLY <1>1, <1>4
<1>13. n(i) = "terminals" <=> i \in {14, 19}
  BY ONLY <1>1, <1>4
<1>14. n(i) = "analog" <=> i \in {15, 20}
  BY ONLY <1>1, <1>4
<1>15. n(i) = "summary" <=> i \in {16, 21}
  BY ONLY <1>1, <1>4
<1>16. n(i) = "clear" <=> i \in {17, 22}
  BY ONLY <1>1, <1>4
<1>17. n(i) = "live" <=> i \in {23}
  BY ONLY <1>1, <1>4
<1>18. n(i) = "counter" <=> i \in {24}
  BY ONLY <1>1, <1>4
<1>19. n(i) = "update" <=> i \in {25}
  BY ONLY <1>1, <1>4
<1>20. n(i) = "present" <=> i \in {26, 27}
  BY ONLY <1>1, <1>4
<1>21. n(i) = "publish" <=> i \in {28}
  BY ONLY <1>1, <1>4
<1>22. n(i) = "again" <=> i \in {29, 30}
  BY ONLY <1>1, <1>4
<1>23. n(i) = "held" <=> i \in {31}
  BY ONLY <1>1, <1>4
<1>24. m(i) = 1 <=> i \in {1, 4, 6, 8, 10, 13, 14, 15, 16, 17, 23, 24, 26, 29}
  BY ONLY <1>2, <1>4
<1>25. m(i) = 2 <=> i \in {2, 5, 7, 9, 11, 12, 18, 19, 20, 21, 22, 27, 30}
  BY ONLY <1>2, <1>4
<1>26. i \in {1, 2, 4, 5, 6, 7, 12, 23, 26, 27, 29, 30} => w(i) = 1
  BY ONLY <1>3, <1>4
<1>27. i \in {13, 14, 15, 18, 19, 20} => w(i) = 2
  BY ONLY <1>3, <1>4
<1>28. i \in {24} => w(i) = 3
  BY ONLY <1>3, <1>4
<1>29. i \in {16, 21} => w(i) = 4
  BY ONLY <1>3, <1>4
<1>30. i \in {8, 9} => w(i) = 30
  BY ONLY <1>3, <1>4
<1> QED  BY <1>5, <1>6, <1>7, <1>8, <1>9, <1>10, <1>11, <1>12, <1>13, <1>14, <1>15,
            <1>16, <1>17, <1>18, <1>19, <1>20, <1>21, <1>22, <1>23, <1>24, <1>25, <1>26,
            <1>27, <1>28, <1>29, <1>30, Zenon
            DEF n, m, w

-----------------------------------------------------------------------------
\* The chain's counts: without a disturbance a monitor that has answered is in
\* step with the driver, and if the cycle before was undisturbed, all are.
LinksInStep ==
    ~disturbed.now =>
        /\ transfer # 1 => lag[1] = 0
        /\ transfer \notin {1, 2, 29, 30} => lag[2] = 0
        /\ ~disturbed.before => lag[1] = 0 /\ lag[2] = 0 /\ transfer <= 28

\* The frame is one conversion's, not too old for the readings that are left out.
OfOneConversion(bound) ==
    \E age \in 0..bound :
        age + due <= bound /\ \A i \in 1..2 : working[i] = <<age, age>>

\* A complete set is of one conversion, except while it is being replaced.
FrameIsOfOneConversion ==
    complete =>
        /\ transfer <= 3 \/ transfer >= 12 => OfOneConversion(Period - 1)
        /\ transfer \in 4..8 => OfOneConversion(Period)

\* What has been read since the conversion is its own.
BuffersAreFresh ==
    /\ transfer \in {9, 10, 11} => raw[1] = <<0, 0>>
    /\ transfer \in {10, 11} => raw[2] = <<0, 0>>
    /\ transfer = 11 => working[1] = <<0, 0>>

\* The transfers that read the followed register, and clear it.
ReadAt ==
    (IF watched[1] = 1 THEN 12 ELSE 17)
      + (IF watched[2] = "cells" THEN 1 ELSE IF watched[2] = "terminals" THEN 2
         ELSE IF watched[2] = "analog" THEN 3 ELSE 4)
ClearAt == IF watched[1] = 1 THEN 17 ELSE 22

\* A lasting fault is latched until it has been read, then noted, then combined.
LastingFaultIsKept ==
    monitorFault.lasting =>
        /\ 4 <= transfer /\ transfer <= ReadAt => monitorFault.latched
        /\ ReadAt < transfer /\ transfer <= ClearAt => combined.read
        /\ ClearAt < transfer /\ transfer <= 25 => combined.all

MeasurementInv ==
    /\ Measurement!TypeOK
    /\ LinksInStep
    /\ FrameIsOfOneConversion
    /\ BuffersAreFresh
    /\ LastingFaultIsKept

\* The two halves of the type invariant.
MeasurementFlags ==
    /\ complete \in BOOLEAN
    /\ monitorFault \in [present : BOOLEAN, latched : BOOLEAN, lasting : BOOLEAN]
    /\ combined \in [read : BOOLEAN, all : BOOLEAN]
    /\ disturbed \in [now : BOOLEAN, before : BOOLEAN]
MeasurementPlace == transfer \in 1..31 /\ due \in 0..(Period - 1)
MeasurementLag == lag \in [1..2 -> 0..15]
MeasurementAges ==
    /\ raw \in [1..2 -> [1..2 -> 0..Period]]
    /\ working \in [1..2 -> [1..2 -> 0..Period]]
MeasurementWatched == watched \in (1..2) \X Measurement!StatusGroups

\* The parts of the type invariant.
LEMMA MeasurementParts ==
    Measurement!TypeOK <=>
        /\ MeasurementFlags
        /\ MeasurementPlace
        /\ MeasurementLag
        /\ MeasurementAges
        /\ MeasurementWatched
<1>1. DOMAIN Measurement!Cycle = 1..31
  BY CycleTable
<1>2. /\ Measurement!Monitors = 1..2
      /\ Measurement!Ages = 0..Period
      /\ Measurement!Counts - 1 = 15
  BY DEF Measurement!Monitors, Measurement!Ages, Measurement!Oldest, Measurement!Counts
<1> QED
  BY <1>1, <1>2, Zenon DEF Measurement!TypeOK, MeasurementFlags, MeasurementPlace,
         MeasurementLag, MeasurementAges, MeasurementWatched

\* An answered burst.
LEMMA AnsweredAt ==
    ASSUME transfer \in 1..31, Measurement!Transferred(TRUE)
    PROVE  /\ lag[Measurement!m] = 0
           /\ lag' = lag /\ disturbed' = disturbed
           /\ transfer \notin {8, 9} => raw' = raw
           /\ transfer \in {8, 9} =>
                raw' = [raw EXCEPT ![Measurement!m] = [half \in 1..2 |-> 0]]
<1>1. lag[Measurement!m] = 0 /\ lag' = lag /\ disturbed' = disturbed
  BY DEF Measurement!Transferred, Measurement!Answered
<1>2. Measurement!Stores(Measurement!Step.words)
  BY DEF Measurement!Transferred, Measurement!Answered
<1>3. Measurement!Step.name = "raw" <=> transfer \in {8, 9}
  BY Columns, Zenon DEF Measurement!Step
<1>4. CASE transfer \notin {8, 9}
  BY <1>1, <1>2, <1>3, <1>4, Zenon DEF Measurement!Stores
<1>5. CASE transfer \in {8, 9}
  <2>1. Measurement!Step.words = 30
    BY <1>5, Columns DEF Measurement!Step
  <2>2. \A half \in 1..2 : 15 * half <= 30
    OBVIOUS
  <2> QED
    BY <1>1, <1>2, <1>3, <2>1, <2>2, Zenon DEF Measurement!Stores
<1> QED  BY <1>4, <1>5

\* A burst that is not answered as it should.
LEMMA UnansweredAt ==
    ASSUME transfer \in 1..31, MeasurementLag, MeasurementAges, Measurement!m \in 1..2,
           Measurement!Transferred(FALSE)
    PROVE  /\ raw' \in [1..2 -> [1..2 -> 0..Period]]
           /\ MeasurementLag'
           /\ \A i \in 1..2 : i # Measurement!m => lag'[i] = lag[i]
           /\ \/ disturbed' = [disturbed EXCEPT !.now = TRUE]
              \/ /\ disturbed' = disturbed
                 /\ lag[Measurement!m] # 0
                 /\ transfer \in {1, 2, 29, 30} => lag'[Measurement!m] = 0
<1> DEFINE m == Measurement!m
           n == Measurement!Step.words
<1>1. n \in 0..30 /\ (transfer \in {1, 2, 29, 30} => n = 1)
  <2>1. Measurement!Cycle \in Seq(Entries) /\ Len(Measurement!Cycle) = 31
    BY CycleTable, Zenon
  <2>2. Measurement!Cycle[transfer] \in Entries
    <3>1. transfer \in 1..Len(Measurement!Cycle)
      BY <2>1
    <3> QED  BY <2>1, ElementOfSeq, Zenon
  <2>3. Measurement!Cycle[transfer].words \in 0..30
    BY <2>2 DEF Entries
  <2> QED  BY <2>3, Columns DEF Measurement!Step
<1>2. \A x \in Int : (x % Measurement!Counts) \in 0..15
  BY DEF Measurement!Counts
<1>3. \A x \in Int : [lag EXCEPT ![m] = x % Measurement!Counts] \in [1..2 -> 0..15]
  BY <1>2 DEF MeasurementLag
<1>4. \A frames : Measurement!Stores(frames) => raw' \in [1..2 -> [1..2 -> 0..Period]]
  BY MeasurementAssumption DEF Measurement!Stores, MeasurementAges
<1>5. ASSUME NEW x \in Int
      PROVE  /\ [lag EXCEPT ![m] = x % Measurement!Counts] \in [1..2 -> 0..15]
             /\ \A i \in 1..2 :
                  i # m => [lag EXCEPT ![m] = x % Measurement!Counts][i] = lag[i]
             /\ [lag EXCEPT ![m] = x % Measurement!Counts][m] = x % Measurement!Counts
  BY <1>3 DEF MeasurementLag
<1>6. lag[m] \in Int
  BY DEF MeasurementLag
<1>7. CASE Measurement!checkMsgCnt
  <2>1. lag' = [lag EXCEPT ![m] = (n - 1) % Measurement!Counts] /\ n - 1 \in Int
    BY <1>7, <1>1 DEF Measurement!checkMsgCnt
  <2>2. raw' = raw /\ disturbed' = disturbed /\ lag[m] # 0
    BY <1>7, Zenon DEF Measurement!checkMsgCnt
  <2>3. transfer \in {1, 2, 29, 30} => (n - 1) % Measurement!Counts = 0
    BY <1>1 DEF Measurement!Counts
  <2> QED  BY <1>5, <2>1, <2>2, <2>3, Zenon DEF MeasurementLag, MeasurementAges
<1>8. CASE Measurement!NoAnswer
  <2>1. \/ lag' = lag
        \/ lag' = [lag EXCEPT ![m] = (lag[m] + n) % Measurement!Counts]
    BY <1>8, Zenon DEF Measurement!NoAnswer
  <2>2. raw' = raw /\ disturbed' = [disturbed EXCEPT !.now = TRUE]
    BY <1>8, Zenon DEF Measurement!NoAnswer, Measurement!Disturb
  <2>3. lag[m] + n \in Int
    BY <1>1, <1>6
  <2> QED  BY <1>5, <2>1, <2>2, <2>3, Zenon DEF MeasurementLag, MeasurementAges
<1>9. CASE Measurement!checkCRC
  <2>1. PICK k \in {1, 2, 16} \cap 1..n :
          /\ Measurement!Stores(k - 1)
          /\ lag' = [lag EXCEPT ![m] = (lag[m] + n - (k - 1)) % Measurement!Counts]
    BY <1>9, Zenon DEF Measurement!checkCRC
  <2>2. disturbed' = [disturbed EXCEPT !.now = TRUE]
    BY <1>9, Zenon DEF Measurement!checkCRC, Measurement!Disturb
  <2>3. lag[m] + n - (k - 1) \in Int
    BY <1>1, <1>6, <2>1
  <2> QED  BY <1>4, <1>5, <2>1, <2>2, <2>3, Zenon DEF MeasurementLag
<1> QED  BY <1>7, <1>8, <1>9, Zenon DEF Measurement!Transferred

\* The transfers at which the steps are taken.
LEMMA Places ==
    ASSUME transfer \in 1..31
    PROVE  /\ Measurement!Is({"pause", "soc", "wait"}) <=> transfer \in 1..5
           /\ Measurement!Is({"request", "again"}) <=> transfer \in {12, 29, 30}
           /\ Measurement!Is({"pause", "soc", "wait", "resume", "raw"}) <=>
                  transfer \in 1..9
           /\ Measurement!Is({"raw"}) <=> transfer \in {8, 9}
           /\ Measurement!Is({"soc"}) <=> transfer = 3
           /\ Measurement!Is({"convert"}) <=> transfer \in {10, 11}
           /\ Measurement!Is({"request"}) <=> transfer = 12
           /\ Measurement!Is({"clear"}) <=> transfer \in {17, 22}
           /\ Measurement!Is({"update"}) <=> transfer = 25
           /\ Measurement!Is({"publish"}) <=> transfer = 28
           /\ Measurement!Is({"held"}) <=> transfer = 31
           /\ Measurement!Is(Measurement!StatusGroups) <=>
                  transfer \in {13, 14, 15, 16, 18, 19, 20, 21}
           /\ Measurement!Is(Measurement!Reads \ {"raw"}) <=>
                transfer \in {1, 2, 4, 5, 6, 7, 12, 23, 24, 26, 27, 29, 30}
           /\ Measurement!Is(Measurement!Reads \cup Measurement!StatusGroups) <=>
                transfer \in {1, 2, 4, 5, 6, 7, 8, 9, 12, 13, 14, 15, 16, 18, 19, 20, 21,
                              23, 24, 26, 27, 29, 30}
           /\ Measurement!m = 1 <=> transfer \in {1, 4, 6, 8, 10, 13, 14, 15, 16, 17, 23,
                  24, 26, 29}
           /\ Measurement!m = 2 <=> transfer \in {2, 5, 7, 9, 11, 12, 18, 19, 20, 21, 22,
                  27, 30}
<1>1. Measurement!Is({"pause", "soc", "wait"}) <=> transfer \in 1..5
  BY Columns DEF Measurement!Is, Measurement!Step
<1>2. Measurement!Is({"request", "again"}) <=> transfer \in {12, 29, 30}
  BY Columns DEF Measurement!Is, Measurement!Step
<1>3. Measurement!Is({"pause", "soc", "wait", "resume", "raw"}) <=> transfer \in 1..9
  BY Columns DEF Measurement!Is, Measurement!Step
<1>4. Measurement!Is({"raw"}) <=> transfer \in {8, 9}
  BY Columns DEF Measurement!Is, Measurement!Step
<1>5. Measurement!Is({"soc"}) <=> transfer = 3
  BY Columns DEF Measurement!Is, Measurement!Step
<1>6. Measurement!Is({"convert"}) <=> transfer \in {10, 11}
  BY Columns DEF Measurement!Is, Measurement!Step
<1>7. Measurement!Is({"request"}) <=> transfer = 12
  BY Columns DEF Measurement!Is, Measurement!Step
<1>8. Measurement!Is({"clear"}) <=> transfer \in {17, 22}
  BY Columns DEF Measurement!Is, Measurement!Step
<1>9. Measurement!Is({"update"}) <=> transfer = 25
  BY Columns DEF Measurement!Is, Measurement!Step
<1>10. Measurement!Is({"publish"}) <=> transfer = 28
  BY Columns DEF Measurement!Is, Measurement!Step
<1>11. Measurement!Is({"held"}) <=> transfer = 31
  BY Columns DEF Measurement!Is, Measurement!Step
<1>12. Measurement!Is(Measurement!StatusGroups) <=>
           transfer \in {13, 14, 15, 16, 18, 19, 20, 21}
  BY Columns DEF Measurement!Is, Measurement!Step, Measurement!StatusGroups
<1>13. Measurement!Is(Measurement!Reads \ {"raw"}) <=>
           transfer \in {1, 2, 4, 5, 6, 7, 12, 23, 24, 26, 27, 29, 30}
  BY Columns DEF Measurement!Is, Measurement!Step, Measurement!Reads
<1>14. Measurement!Is(Measurement!Reads \cup Measurement!StatusGroups) <=>
           transfer \in {1, 2, 4, 5, 6, 7, 8, 9, 12, 13, 14, 15, 16, 18, 19, 20, 21,
                             23, 24, 26, 27, 29, 30}
  BY Columns DEF Measurement!Is, Measurement!Step, Measurement!Reads,
         Measurement!StatusGroups
<1>15. Measurement!m = 1 <=> transfer \in {1, 4, 6, 8, 10, 13, 14, 15, 16, 17, 23, 24, 26,
           29}
  BY Columns, Zenon DEF Measurement!m, Measurement!Step
<1>16. Measurement!m = 2 <=> transfer \in {2, 5, 7, 9, 11, 12, 18, 19, 20, 21, 22, 27, 30}
  BY Columns, Zenon DEF Measurement!m, Measurement!Step
<1> QED  BY <1>1, <1>2, <1>3, <1>4, <1>5, <1>6, <1>7, <1>8, <1>9, <1>10, <1>11, <1>12,
            <1>13, <1>14, <1>15, <1>16, Zenon

\* Where the table has the first transfer of a name.
LEMMA Found ==
    ASSUME NEW k \in 1..31, NEW name, Measurement!Cycle[k].name = name,
           \A j \in 1..(k - 1) : Measurement!Cycle[j].name # name
    PROVE  Measurement!Find(name) = k
<1>1. DOMAIN Measurement!Cycle = 1..31
  BY CycleTable
<1> DEFINE First(i) == /\ i \in 1..31
                       /\ Measurement!Cycle[i].name = name
                       /\ \A j \in 1..(i - 1) : Measurement!Cycle[j].name # name
<1>2. First(k)
  OBVIOUS
<1>3. \A i : First(i) => i = k
  <2> SUFFICES ASSUME NEW i, First(i) PROVE i = k
    OBVIOUS
  <2>1. i \in 1..31
    OBVIOUS
  <2>2. ~(i < k)
    BY <2>1
  <2>3. ~(k < i)
    BY <2>1
  <2> QED  BY <2>1, <2>2, <2>3
<1>4. Measurement!Find(name) = CHOOSE i : First(i)
  BY <1>1, Zenon DEF Measurement!Find
<1> QED  BY <1>3, <1>4, Zenon

\* Where a failure, or a reading that is left out, leads.
LEMMA Targets ==
    /\ Measurement!RecoveryStart = 29
    /\ Measurement!HeldStart = 31
    /\ Measurement!AfterMeasurements = 12
<1>1. Measurement!Find("again") = 29
  BY Columns, Found
<1>2. Measurement!Find("held") = 31
  BY Columns, Found
<1>3. Measurement!Find("request") = 12
  BY Columns, Found
<1> QED
  BY <1>1, <1>2, <1>3 DEF Measurement!RecoveryStart, Measurement!HeldStart,
         Measurement!AfterMeasurements

\* The parts of the type invariant, after a step.
LEMMA MeasurementPartsNext ==
    Measurement!TypeOK' <=>
        /\ MeasurementFlags'
        /\ MeasurementPlace'
        /\ MeasurementLag'
        /\ MeasurementAges'
        /\ MeasurementWatched'
<1>1. DOMAIN Measurement!Cycle = 1..31
  BY CycleTable
<1>2. /\ Measurement!Monitors = 1..2
      /\ Measurement!Ages = 0..Period
      /\ Measurement!Counts - 1 = 15
  BY DEF Measurement!Monitors, Measurement!Ages, Measurement!Oldest, Measurement!Counts
<1> QED
  BY <1>1, <1>2, Zenon DEF Measurement!TypeOK, MeasurementFlags, MeasurementPlace,
         MeasurementLag, MeasurementAges, MeasurementWatched

\* A read with the answer it should have.
LEMMA KeptReadSucceeds ==
    ASSUME MeasurementInv, Measurement!ReadSucceeds
    PROVE  MeasurementInv'
<1>1. /\ MeasurementFlags /\ MeasurementPlace /\ MeasurementLag /\ MeasurementAges
      /\ MeasurementWatched /\ LinksInStep /\ FrameIsOfOneConversion
      /\ BuffersAreFresh /\ LastingFaultIsKept
  BY MeasurementParts, Zenon DEF MeasurementInv
<1>2. transfer \in 1..31
  BY <1>1, Zenon DEF MeasurementPlace
<1>3. transfer \in {1, 2, 4, 5, 6, 7, 9, 12, 23, 24, 26, 27, 29, 30}
  BY <1>2, Places DEF Measurement!ReadSucceeds
<1>4. /\ lag[Measurement!m] = 0
      /\ lag' = lag
      /\ disturbed' = disturbed
      /\ transfer # 9 => raw' = raw
      /\ transfer = 9 => raw' = [raw EXCEPT ![2] = [half \in 1..2 |-> 0]]
  BY <1>3, AnsweredAt, Places DEF Measurement!ReadSucceeds
<1>5. /\ Measurement!m = 1 <=> transfer \in {1, 4, 6, 23, 24, 26, 29}
      /\ Measurement!m = 2 <=> transfer \in {2, 5, 7, 9, 12, 27, 30}
  BY <1>3, Places
<1>6. /\ transfer' = transfer + 1
      /\ UNCHANGED <<due, complete, working, watched, monitorFault, combined>>
  BY Zenon DEF Measurement!ReadSucceeds, Measurement!faults
<1>7. MeasurementFlags'
  BY <1>1, <1>4, <1>6 DEF MeasurementFlags
<1>8. MeasurementPlace'
  BY <1>1, <1>3, <1>6 DEF MeasurementPlace
<1>9. MeasurementLag'
  BY <1>1, <1>4 DEF MeasurementLag
<1>10. MeasurementAges'
  BY <1>1, <1>4, <1>6 DEF MeasurementAges, BuffersAreFresh
<1>11. MeasurementWatched'
  BY <1>1, <1>6 DEF MeasurementWatched
<1>12. LinksInStep'
  BY <1>1, <1>3, <1>4, <1>5, <1>6 DEF LinksInStep
<1>13. FrameIsOfOneConversion'
  BY <1>1, <1>3, <1>6 DEF FrameIsOfOneConversion, OfOneConversion
<1>14. BuffersAreFresh'
  BY <1>1, <1>3, <1>4, <1>6 DEF BuffersAreFresh, MeasurementAges
<1>15. LastingFaultIsKept'
  BY <1>1, <1>3, <1>6 DEF LastingFaultIsKept, ReadAt, ClearAt
<1> QED
  BY <1>7, <1>8, <1>9, <1>10, <1>11, <1>12, <1>13, <1>14, <1>15, MeasurementPartsNext,
     Zenon
     DEF MeasurementInv

\* A read whose answer is missing or wrong.
LEMMA KeptReadFails ==
    ASSUME MeasurementInv, Measurement!ReadFails
    PROVE  MeasurementInv'
<1>1. /\ MeasurementFlags /\ MeasurementPlace /\ MeasurementLag /\ MeasurementAges
      /\ MeasurementWatched /\ LinksInStep /\ FrameIsOfOneConversion
      /\ BuffersAreFresh /\ LastingFaultIsKept
  BY MeasurementParts, Zenon DEF MeasurementInv
<1>2. transfer \in 1..31
  BY <1>1, Zenon DEF MeasurementPlace
<1>3. /\ transfer \in {1, 2, 4, 5, 6, 7, 8, 9, 12, 13, 14, 15, 16, 18, 19, 20, 21, 23, 24,
             26, 27, 29, 30}
      /\ Measurement!m \in 1..2
  BY <1>2, Places DEF Measurement!ReadFails
<1>4. /\ raw' \in [1..2 -> [1..2 -> 0..Period]]
      /\ MeasurementLag'
      /\ \A i \in 1..2 : i # Measurement!m => lag'[i] = lag[i]
      /\ \/ disturbed' = [disturbed EXCEPT !.now = TRUE]
         \/ /\ disturbed' = disturbed
            /\ lag[Measurement!m] # 0
            /\ transfer \in {1, 2, 29, 30} => lag'[Measurement!m] = 0
  BY <1>1, <1>2, <1>3, UnansweredAt, Zenon DEF Measurement!ReadFails
<1>5. /\ Measurement!m = 1 <=> transfer \in {1, 4, 6, 8, 13, 14, 15, 16, 23, 24, 26, 29}
      /\ Measurement!m = 2 <=> transfer \in {2, 5, 7, 9, 12, 18, 19, 20, 21, 27, 30}
  BY <1>3, Places
<1>6. /\ transfer' = (IF transfer \in 1..5 THEN 29 ELSE IF transfer \in {12, 29, 30}
             THEN transfer + 1 ELSE 31)
      /\ complete' = (IF transfer \in 1..9 THEN FALSE ELSE complete)
  BY <1>2, Places, Targets DEF Measurement!ReadFails, Measurement!Failed,
         Measurement!Incomplete
<1>7. UNCHANGED <<due, working, watched, monitorFault, combined>>
  BY Zenon DEF Measurement!ReadFails, Measurement!faults
<1>8. MeasurementFlags'
  BY <1>1, <1>4, <1>6, <1>7 DEF MeasurementFlags
<1>9. MeasurementPlace'
  BY <1>1, <1>6, <1>7 DEF MeasurementPlace
<1>10. MeasurementLag'
  BY <1>4
<1>11. MeasurementAges'
  BY <1>1, <1>4, <1>7 DEF MeasurementAges
<1>12. MeasurementWatched'
  BY <1>1, <1>7 DEF MeasurementWatched
<1>13. LinksInStep'
  BY <1>1, <1>3, <1>4, <1>5, <1>6 DEF LinksInStep, MeasurementFlags
<1>14. FrameIsOfOneConversion'
  <2>1. complete' => complete /\ transfer >= 12 /\ transfer' >= 12
    <3>1. CASE transfer \in 1..9
      BY <1>6, <3>1, Zenon
    <3>2. CASE transfer \notin 1..9
      <4>1. complete' = complete
        BY <1>6, <3>2, Zenon
      <4>2. transfer >= 12 /\ transfer' >= 12
        BY <1>3, <1>6, <3>2
      <4> QED  BY <4>1, <4>2, Zenon
    <3> QED  BY <3>1, <3>2
  <2>2. complete' => OfOneConversion(Period - 1)
    BY <1>1, <2>1, Zenon DEF FrameIsOfOneConversion
  <2>3. complete' => OfOneConversion(Period - 1)'
    BY <1>7, <2>2, Zenon DEF OfOneConversion
  <2>4. transfer' >= 12 => ~(transfer' \in 4..8)
    OBVIOUS
  <2> QED  BY <2>1, <2>3, <2>4, Zenon DEF FrameIsOfOneConversion
<1>15. BuffersAreFresh'
  BY <1>6 DEF BuffersAreFresh
<1>16. LastingFaultIsKept'
  BY <1>1, <1>6, <1>7 DEF LastingFaultIsKept, ReadAt, ClearAt
<1> QED
  BY <1>8, <1>9, <1>10, <1>11, <1>12, <1>13, <1>14, <1>15, <1>16, MeasurementPartsNext,
     Zenon
     DEF MeasurementInv

\* The global start of conversion.
LEMMA KeptStartConversion ==
    ASSUME MeasurementInv, Measurement!meas_StartConversionGlobal
    PROVE  MeasurementInv'
<1>1. /\ MeasurementFlags /\ MeasurementPlace /\ MeasurementLag /\ MeasurementAges
      /\ MeasurementWatched /\ LinksInStep /\ FrameIsOfOneConversion
      /\ BuffersAreFresh /\ LastingFaultIsKept
  BY MeasurementParts, Zenon DEF MeasurementInv
<1>2. transfer \in 1..31
  BY <1>1, Zenon DEF MeasurementPlace
<1>3. transfer = 3
  BY <1>2, Places DEF Measurement!meas_StartConversionGlobal
<1>4. /\ transfer' = transfer + 1
      /\ UNCHANGED <<due, complete, lag, watched, combined, disturbed>>
      /\ Measurement!Converted
  BY Zenon DEF Measurement!meas_StartConversionGlobal
<1>5. MeasurementFlags'
  BY <1>1, <1>4 DEF MeasurementFlags, Measurement!Converted
<1>6. MeasurementPlace'
  BY <1>1, <1>3, <1>4 DEF MeasurementPlace
<1>7. MeasurementLag'
  BY <1>1, <1>4 DEF MeasurementLag
<1>8. MeasurementAges'
  BY <1>1, <1>4, MeasurementAssumption DEF MeasurementAges, Measurement!Converted,
         Measurement!Older, Measurement!Oldest, Measurement!Monitors
<1>9. MeasurementWatched'
  BY <1>1, <1>4 DEF MeasurementWatched
<1>10. LinksInStep'
  BY <1>1, <1>3, <1>4 DEF LinksInStep
<1>11. FrameIsOfOneConversion'
  <2> SUFFICES ASSUME complete' PROVE OfOneConversion(Period)'
    BY <1>3, <1>4 DEF FrameIsOfOneConversion
  <2>1. OfOneConversion(Period - 1)
    BY <1>1, <1>3, <1>4 DEF FrameIsOfOneConversion
  <2>2. PICK age \in 0..(Period - 1) :
          age + due <= Period - 1 /\ \A i \in 1..2 : working[i] = <<age, age>>
    BY <2>1, Zenon DEF OfOneConversion
  <2>3. age + 1 \in 0..Period /\ age + 1 + due' <= Period /\ age < Period
    BY <1>1, <1>4, <2>2, MeasurementAssumption DEF MeasurementPlace
  <2>4. working' = [i \in 1..2 |->
                     [h \in 1..2 |-> IF working[i][h] < Period THEN working[i][h] + 1
                                      ELSE Period]]
    BY <1>4, Zenon DEF Measurement!Converted, Measurement!Older, Measurement!Oldest,
           Measurement!Monitors
  <2>5. \A i \in 1..2 : \A h \in 1..2 : working[i][h] = age
    BY <2>2
  <2>6. ASSUME NEW i \in 1..2 PROVE working'[i] = <<age + 1, age + 1>>
    BY <2>3, <2>4, <2>5
  <2> QED  BY <2>3, <2>6 DEF OfOneConversion
<1>12. BuffersAreFresh'
  BY <1>3, <1>4 DEF BuffersAreFresh
<1>13. LastingFaultIsKept'
  BY <1>1, <1>3, <1>4 DEF LastingFaultIsKept, ReadAt, ClearAt, MeasurementFlags,
         Measurement!Converted
<1> QED
  BY <1>5, <1>6, <1>7, <1>8, <1>9, <1>10, <1>11, <1>12, <1>13, MeasurementPartsNext,
     Zenon
     DEF MeasurementInv

\* A start whose echo was wrong.
LEMMA KeptStartFails ==
    ASSUME MeasurementInv, Measurement!StartFails
    PROVE  MeasurementInv'
<1>1. /\ MeasurementFlags /\ MeasurementPlace /\ MeasurementLag /\ MeasurementAges
      /\ MeasurementWatched /\ LinksInStep /\ FrameIsOfOneConversion
      /\ BuffersAreFresh /\ LastingFaultIsKept
  BY MeasurementParts, Zenon DEF MeasurementInv
<1>2. transfer \in 1..31
  BY <1>1, Zenon DEF MeasurementPlace
<1>3. transfer = 3
  BY <1>2, Places DEF Measurement!StartFails
<1>4. transfer' = 29 /\ complete' = FALSE
  BY <1>3, Places, Targets DEF Measurement!StartFails, Measurement!Failed,
         Measurement!Incomplete
<1>5. /\ UNCHANGED <<due, lag, watched, combined>>
      /\ disturbed' = [disturbed EXCEPT !.now = TRUE]
      /\ Measurement!Converted \/ UNCHANGED <<raw, working, monitorFault>>
  BY Zenon DEF Measurement!StartFails, Measurement!Disturb
<1>6. MeasurementFlags'
  BY <1>1, <1>4, <1>5 DEF MeasurementFlags, Measurement!Converted
<1>7. MeasurementPlace'
  BY <1>1, <1>4, <1>5 DEF MeasurementPlace
<1>8. MeasurementLag'
  BY <1>1, <1>5 DEF MeasurementLag
<1>9. MeasurementAges'
  BY <1>1, <1>5, MeasurementAssumption DEF MeasurementAges, Measurement!Converted,
         Measurement!Older, Measurement!Oldest, Measurement!Monitors
<1>10. MeasurementWatched'
  BY <1>1, <1>5 DEF MeasurementWatched
<1>11. LinksInStep'
  BY <1>5 DEF LinksInStep
<1>12. FrameIsOfOneConversion'
  BY <1>4 DEF FrameIsOfOneConversion
<1>13. BuffersAreFresh'
  BY <1>4 DEF BuffersAreFresh
<1>14. LastingFaultIsKept'
  BY <1>4 DEF LastingFaultIsKept, ReadAt, ClearAt
<1> QED
  BY <1>6, <1>7, <1>8, <1>9, <1>10, <1>11, <1>12, <1>13, <1>14, MeasurementPartsNext,
     Zenon
     DEF MeasurementInv

\* A cycle that leaves the readings out.
LEMMA KeptSkipMeasurements ==
    ASSUME MeasurementInv, Measurement!SkipMeasurements
    PROVE  MeasurementInv'
<1>1. /\ MeasurementFlags /\ MeasurementPlace /\ MeasurementLag /\ MeasurementAges
      /\ MeasurementWatched /\ LinksInStep /\ FrameIsOfOneConversion
      /\ BuffersAreFresh /\ LastingFaultIsKept
  BY MeasurementParts, Zenon DEF MeasurementInv
<1>2. transfer \in 1..31
  BY <1>1, Zenon DEF MeasurementPlace
<1>3. transfer = 8
  BY <1>2, Places DEF Measurement!SkipMeasurements
<1>4. transfer' = 12 /\ due' = due - 1 /\ due > 0
  BY Targets DEF Measurement!SkipMeasurements
<1>5. UNCHANGED <<complete, lag, raw, working, watched, monitorFault, combined, disturbed>>
  BY Zenon DEF Measurement!SkipMeasurements, Measurement!faults
<1>6. MeasurementFlags'
  BY <1>1, <1>5 DEF MeasurementFlags
<1>7. MeasurementPlace'
  BY <1>1, <1>4, MeasurementAssumption DEF MeasurementPlace
<1>8. MeasurementLag'
  BY <1>1, <1>5 DEF MeasurementLag
<1>9. MeasurementAges'
  BY <1>1, <1>5 DEF MeasurementAges
<1>10. MeasurementWatched'
  BY <1>1, <1>5 DEF MeasurementWatched
<1>11. LinksInStep'
  BY <1>1, <1>3, <1>4, <1>5 DEF LinksInStep
<1>12. FrameIsOfOneConversion'
  BY <1>1, <1>3, <1>4, <1>5, MeasurementAssumption DEF FrameIsOfOneConversion,
         OfOneConversion, MeasurementPlace
<1>13. BuffersAreFresh'
  BY <1>4 DEF BuffersAreFresh
<1>14. LastingFaultIsKept'
  BY <1>1, <1>3, <1>4, <1>5 DEF LastingFaultIsKept, ReadAt, ClearAt
<1> QED
  BY <1>6, <1>7, <1>8, <1>9, <1>10, <1>11, <1>12, <1>13, <1>14, MeasurementPartsNext,
     Zenon
     DEF MeasurementInv

\* The first reading.
LEMMA KeptReadMeasurements ==
    ASSUME MeasurementInv, Measurement!ReadMeasurements
    PROVE  MeasurementInv'
<1>1. /\ MeasurementFlags /\ MeasurementPlace /\ MeasurementLag /\ MeasurementAges
      /\ MeasurementWatched /\ LinksInStep /\ FrameIsOfOneConversion
      /\ BuffersAreFresh /\ LastingFaultIsKept
  BY MeasurementParts, Zenon DEF MeasurementInv
<1>2. transfer \in 1..31
  BY <1>1, Zenon DEF MeasurementPlace
<1>3. transfer = 8 /\ Measurement!m = 1
  BY <1>2, Places DEF Measurement!ReadMeasurements
<1>4. /\ lag' = lag
      /\ disturbed' = disturbed
      /\ raw' = [raw EXCEPT ![1] = [half \in 1..2 |-> 0]]
  BY <1>3, AnsweredAt DEF Measurement!ReadMeasurements
<1>5. /\ transfer' = transfer + 1
      /\ due' = (IF due = 0 THEN Period - 1 ELSE due)
      /\ UNCHANGED <<complete, working, watched, monitorFault, combined>>
  BY Zenon DEF Measurement!ReadMeasurements, Measurement!faults
<1>6. MeasurementFlags'
  BY <1>1, <1>4, <1>5 DEF MeasurementFlags
<1>7. MeasurementPlace'
  BY <1>1, <1>3, <1>5 DEF MeasurementPlace
<1>8. MeasurementLag'
  BY <1>1, <1>4 DEF MeasurementLag
<1>9. MeasurementAges'
  BY <1>1, <1>4, <1>5, MeasurementAssumption DEF MeasurementAges
<1>10. MeasurementWatched'
  BY <1>1, <1>5 DEF MeasurementWatched
<1>11. LinksInStep'
  BY <1>1, <1>3, <1>4, <1>5 DEF LinksInStep
<1>12. FrameIsOfOneConversion'
  BY <1>3, <1>5 DEF FrameIsOfOneConversion
<1>13. BuffersAreFresh'
  BY <1>1, <1>3, <1>4, <1>5 DEF BuffersAreFresh, MeasurementAges
<1>14. LastingFaultIsKept'
  BY <1>1, <1>3, <1>5 DEF LastingFaultIsKept, ReadAt, ClearAt
<1> QED
  BY <1>6, <1>7, <1>8, <1>9, <1>10, <1>11, <1>12, <1>13, <1>14, MeasurementPartsNext,
     Zenon
     DEF MeasurementInv

\* The conversion of a monitor's buffer.
LEMMA KeptConvert ==
    ASSUME MeasurementInv, Measurement!Convert
    PROVE  MeasurementInv'
<1>1. /\ MeasurementFlags /\ MeasurementPlace /\ MeasurementLag /\ MeasurementAges
      /\ MeasurementWatched /\ LinksInStep /\ FrameIsOfOneConversion
      /\ BuffersAreFresh /\ LastingFaultIsKept
  BY MeasurementParts, Zenon DEF MeasurementInv
<1>2. transfer \in 1..31
  BY <1>1, Zenon DEF MeasurementPlace
<1>3. transfer \in {10, 11}
  BY <1>2, Places DEF Measurement!Convert
<1>4. (Measurement!m = 1 <=> transfer = 10) /\ (Measurement!m = 2 <=> transfer = 11)
  BY <1>3, Places
<1>5. \/ /\ transfer = 10
         /\ transfer' = 11
         /\ working' = [working EXCEPT ![1] = raw[1]]
         /\ complete' = complete
         /\ disturbed' = disturbed
      \/ /\ transfer = 11
         /\ transfer' = 12
         /\ working' = [working EXCEPT ![2] = raw[2]]
         /\ complete' = TRUE
         /\ disturbed' = disturbed
      \/ /\ transfer' = 31
         /\ working' = working
         /\ complete' = FALSE
         /\ disturbed' = [disturbed EXCEPT !.now = TRUE]
  <2>0. 10 + 1 = 11 /\ 11 + 1 = 12 /\ 1 # 2 /\ 10 # 11
    OBVIOUS
  <2>1. CASE transfer = 10
    BY <1>4, <2>0, <2>1, Targets, Zenon DEF Measurement!Convert, Measurement!Disturb
  <2>2. CASE transfer = 11
    BY <1>4, <2>0, <2>2, Targets, Zenon DEF Measurement!Convert, Measurement!Disturb
  <2> QED  BY <1>3, <2>1, <2>2
<1>6. UNCHANGED <<due, lag, raw, watched, monitorFault, combined>>
  BY Zenon DEF Measurement!Convert, Measurement!faults
<1>7. MeasurementFlags'
  BY <1>1, <1>5, <1>6 DEF MeasurementFlags
<1>8. MeasurementPlace'
  BY <1>1, <1>5, <1>6 DEF MeasurementPlace
<1>9. MeasurementLag'
  BY <1>1, <1>6 DEF MeasurementLag
<1>10. MeasurementAges'
  BY <1>1, <1>5, <1>6 DEF MeasurementAges
<1>11. MeasurementWatched'
  BY <1>1, <1>6 DEF MeasurementWatched
<1>12. LinksInStep'
  BY <1>1, <1>5, <1>6 DEF LinksInStep, MeasurementFlags
<1>13. FrameIsOfOneConversion'
  <2>1. CASE transfer = 10 /\ transfer' = 11
    BY <2>1 DEF FrameIsOfOneConversion
  <2>2. CASE transfer' = 31 /\ complete' = FALSE
    BY <2>2, Zenon DEF FrameIsOfOneConversion
  <2>3. CASE transfer = 11 /\ transfer' = 12 /\ working' = [working EXCEPT ![2] = raw[2]]
    <3>1. \A i \in 1..2 : working'[i] = <<0, 0>>
      BY <1>1, <2>3 DEF BuffersAreFresh, MeasurementAges
    <3>2. 0 \in 0..(Period - 1) /\ 0 + due' <= Period - 1
      BY <1>1, <1>6, MeasurementAssumption DEF MeasurementPlace
    <3>3. OfOneConversion(Period - 1)'
      BY <3>1, <3>2, Zenon DEF OfOneConversion
    <3> QED  BY <2>3, <3>3 DEF FrameIsOfOneConversion
  <2> QED  BY <1>5, <2>1, <2>2, <2>3, Zenon
<1>14. BuffersAreFresh'
  BY <1>1, <1>5, <1>6 DEF BuffersAreFresh, MeasurementAges
<1>15. LastingFaultIsKept'
  BY <1>1, <1>5, <1>6 DEF LastingFaultIsKept, ReadAt, ClearAt
<1> QED
  BY <1>7, <1>8, <1>9, <1>10, <1>11, <1>12, <1>13, <1>14, <1>15, MeasurementPartsNext,
     Zenon
     DEF MeasurementInv

\* No register is requested.
LEMMA KeptNoRequest ==
    ASSUME MeasurementInv, Measurement!NoRequest
    PROVE  MeasurementInv'
<1>1. /\ MeasurementFlags /\ MeasurementPlace /\ MeasurementLag /\ MeasurementAges
      /\ MeasurementWatched /\ LinksInStep /\ FrameIsOfOneConversion
      /\ BuffersAreFresh /\ LastingFaultIsKept
  BY MeasurementParts, Zenon DEF MeasurementInv
<1>2. transfer \in 1..31
  BY <1>1, Zenon DEF MeasurementPlace
<1>3. transfer = 12
  BY <1>2, Places DEF Measurement!NoRequest
<1>4. /\ transfer' = transfer + 1
      /\ UNCHANGED <<due, complete, lag, raw, working, watched, monitorFault, combined,
             disturbed>>
  BY Zenon DEF Measurement!NoRequest, Measurement!faults
<1>5. MeasurementFlags'
  BY <1>1, <1>4 DEF MeasurementFlags
<1>6. MeasurementPlace'
  BY <1>1, <1>3, <1>4 DEF MeasurementPlace
<1>7. MeasurementLag'
  BY <1>1, <1>4 DEF MeasurementLag
<1>8. MeasurementAges'
  BY <1>1, <1>4 DEF MeasurementAges
<1>9. MeasurementWatched'
  BY <1>1, <1>4 DEF MeasurementWatched
<1>10. LinksInStep'
  BY <1>1, <1>3, <1>4 DEF LinksInStep
<1>11. FrameIsOfOneConversion'
  BY <1>1, <1>3, <1>4 DEF FrameIsOfOneConversion, OfOneConversion
<1>12. BuffersAreFresh'
  BY <1>3, <1>4 DEF BuffersAreFresh
<1>13. LastingFaultIsKept'
  BY <1>1, <1>3, <1>4 DEF LastingFaultIsKept, ReadAt, ClearAt
<1> QED
  BY <1>5, <1>6, <1>7, <1>8, <1>9, <1>10, <1>11, <1>12, <1>13, MeasurementPartsNext,
     Zenon
     DEF MeasurementInv

\* A status burst that is answered.
LEMMA KeptReadStatus ==
    ASSUME MeasurementInv, Measurement!ReadStatus
    PROVE  MeasurementInv'
<1>1. /\ MeasurementFlags /\ MeasurementPlace /\ MeasurementLag /\ MeasurementAges
      /\ MeasurementWatched /\ LinksInStep /\ FrameIsOfOneConversion
      /\ BuffersAreFresh /\ LastingFaultIsKept
  BY MeasurementParts, Zenon DEF MeasurementInv
<1>2. transfer \in 1..31
  BY <1>1, Zenon DEF MeasurementPlace
<1>3. transfer \in {13, 14, 15, 16, 18, 19, 20, 21}
  BY <1>2, Places DEF Measurement!ReadStatus
<1>4. lag' = lag /\ disturbed' = disturbed /\ raw' = raw
  BY <1>3, AnsweredAt DEF Measurement!ReadStatus
<1>5. /\ transfer' = transfer + 1
      /\ UNCHANGED <<due, complete, working, watched, monitorFault>>
      /\ combined' = (IF watched = <<Measurement!m, Measurement!Step.name>>
             THEN [combined EXCEPT !.read = monitorFault.latched] ELSE combined)
  BY Zenon DEF Measurement!ReadStatus
<1>6. watched = <<Measurement!m, Measurement!Step.name>> <=> transfer = ReadAt
  BY <1>1, <1>3, Columns, Places DEF Measurement!Step, ReadAt, MeasurementWatched,
         Measurement!StatusGroups
<1>7. MeasurementFlags'
  BY <1>1, <1>4, <1>5 DEF MeasurementFlags
<1>8. MeasurementPlace'
  BY <1>1, <1>3, <1>5 DEF MeasurementPlace
<1>9. MeasurementLag'
  BY <1>1, <1>4 DEF MeasurementLag
<1>10. MeasurementAges'
  BY <1>1, <1>4, <1>5 DEF MeasurementAges
<1>11. MeasurementWatched'
  BY <1>1, <1>5 DEF MeasurementWatched
<1>12. LinksInStep'
  BY <1>1, <1>3, <1>4, <1>5 DEF LinksInStep
<1>13. FrameIsOfOneConversion'
  BY <1>1, <1>3, <1>5 DEF FrameIsOfOneConversion, OfOneConversion
<1>14. BuffersAreFresh'
  BY <1>3, <1>5 DEF BuffersAreFresh
<1>15. LastingFaultIsKept'
  BY <1>1, <1>3, <1>5, <1>6 DEF LastingFaultIsKept, ReadAt, ClearAt
<1> QED
  BY <1>7, <1>8, <1>9, <1>10, <1>11, <1>12, <1>13, <1>14, <1>15, MeasurementPartsNext,
     Zenon
     DEF MeasurementInv

\* What a monitor showed is combined and cleared.
LEMMA KeptClearStatus ==
    ASSUME MeasurementInv, Measurement!fault_ClearStatus
    PROVE  MeasurementInv'
<1>1. /\ MeasurementFlags /\ MeasurementPlace /\ MeasurementLag /\ MeasurementAges
      /\ MeasurementWatched /\ LinksInStep /\ FrameIsOfOneConversion
      /\ BuffersAreFresh /\ LastingFaultIsKept
  BY MeasurementParts, Zenon DEF MeasurementInv
<1>2. transfer \in 1..31
  BY <1>1, Zenon DEF MeasurementPlace
<1>3. transfer \in {17, 22}
  BY <1>2, Places DEF Measurement!fault_ClearStatus
<1>4. watched[1] = Measurement!m <=> transfer = ClearAt
  BY <1>1, <1>3, Places DEF MeasurementWatched, ClearAt
<1>5. combined' = [read |-> IF transfer = ClearAt
          THEN FALSE ELSE combined.read,
              all |-> combined.all \/ (transfer = ClearAt /\ combined.read)]
  BY <1>4, Zenon DEF Measurement!fault_ClearStatus, Measurement!Combine
<1>6. \/ monitorFault' = monitorFault
      \/ /\ transfer = ClearAt
         /\ \E cleared \in BOOLEAN :
               monitorFault' = [monitorFault EXCEPT !.latched = @ /\ ~cleared]
  BY <1>4, Zenon DEF Measurement!fault_ClearStatus
<1>7. /\ transfer' = transfer + 1
      /\ UNCHANGED <<due, complete, lag, raw, working, watched, disturbed>>
  BY Zenon DEF Measurement!fault_ClearStatus
<1>8. MeasurementFlags'
  BY <1>1, <1>5, <1>6, <1>7 DEF MeasurementFlags
<1>9. MeasurementPlace'
  BY <1>1, <1>3, <1>7 DEF MeasurementPlace
<1>10. MeasurementLag'
  BY <1>1, <1>7 DEF MeasurementLag
<1>11. MeasurementAges'
  BY <1>1, <1>7 DEF MeasurementAges
<1>12. MeasurementWatched'
  BY <1>1, <1>7 DEF MeasurementWatched
<1>13. LinksInStep'
  BY <1>1, <1>3, <1>7 DEF LinksInStep
<1>14. FrameIsOfOneConversion'
  BY <1>1, <1>3, <1>7 DEF FrameIsOfOneConversion, OfOneConversion
<1>15. BuffersAreFresh'
  BY <1>3, <1>7 DEF BuffersAreFresh
<1>16. LastingFaultIsKept'
  BY <1>1, <1>3, <1>5, <1>6, <1>7 DEF LastingFaultIsKept, ReadAt, ClearAt,
         MeasurementFlags
<1> QED
  BY <1>8, <1>9, <1>10, <1>11, <1>12, <1>13, <1>14, <1>15, <1>16, MeasurementPartsNext,
     Zenon
     DEF MeasurementInv

\* The faults are reported.
LEMMA KeptUpdateFaults ==
    ASSUME MeasurementInv, Measurement!UpdateFaults
    PROVE  MeasurementInv'
<1>1. /\ MeasurementFlags /\ MeasurementPlace /\ MeasurementLag /\ MeasurementAges
      /\ MeasurementWatched /\ LinksInStep /\ FrameIsOfOneConversion
      /\ BuffersAreFresh /\ LastingFaultIsKept
  BY MeasurementParts, Zenon DEF MeasurementInv
<1>2. transfer \in 1..31
  BY <1>1, Zenon DEF MeasurementPlace
<1>3. transfer = 25
  BY <1>2, Places DEF Measurement!UpdateFaults
<1>4. /\ transfer' = transfer + 1
      /\ UNCHANGED <<due, complete, lag, raw, working, watched, monitorFault, combined,
             disturbed>>
  BY Zenon DEF Measurement!UpdateFaults
<1>5. MeasurementFlags'
  BY <1>1, <1>4 DEF MeasurementFlags
<1>6. MeasurementPlace'
  BY <1>1, <1>3, <1>4 DEF MeasurementPlace
<1>7. MeasurementLag'
  BY <1>1, <1>4 DEF MeasurementLag
<1>8. MeasurementAges'
  BY <1>1, <1>4 DEF MeasurementAges
<1>9. MeasurementWatched'
  BY <1>1, <1>4 DEF MeasurementWatched
<1>10. LinksInStep'
  BY <1>1, <1>3, <1>4 DEF LinksInStep
<1>11. FrameIsOfOneConversion'
  BY <1>1, <1>3, <1>4 DEF FrameIsOfOneConversion, OfOneConversion
<1>12. BuffersAreFresh'
  BY <1>3, <1>4 DEF BuffersAreFresh
<1>13. LastingFaultIsKept'
  BY <1>3, <1>4 DEF LastingFaultIsKept, ReadAt, ClearAt
<1> QED
  BY <1>5, <1>6, <1>7, <1>8, <1>9, <1>10, <1>11, <1>12, <1>13, MeasurementPartsNext,
     Zenon
     DEF MeasurementInv

\* The condition of the fault comes or goes.
LEMMA KeptCondition ==
    ASSUME MeasurementInv, Measurement!Condition
    PROVE  MeasurementInv'
<1>1. /\ MeasurementFlags /\ MeasurementPlace /\ MeasurementLag /\ MeasurementAges
      /\ MeasurementWatched /\ LinksInStep /\ FrameIsOfOneConversion
      /\ BuffersAreFresh /\ LastingFaultIsKept
  BY MeasurementParts, Zenon DEF MeasurementInv
<1>2. transfer \in 1..31
  BY <1>1, Zenon DEF MeasurementPlace
<1>3. /\ monitorFault' = [monitorFault EXCEPT !.present = IF monitorFault.present
             THEN FALSE ELSE TRUE, !.lasting = FALSE]
      /\ UNCHANGED <<transfer, due, complete, lag, raw, working, watched, combined,
             disturbed>>
  BY Zenon DEF Measurement!Condition
<1>4. MeasurementFlags'
  BY <1>1, <1>3 DEF MeasurementFlags
<1>5. MeasurementPlace'
  BY <1>1, <1>3 DEF MeasurementPlace
<1>6. MeasurementLag'
  BY <1>1, <1>3 DEF MeasurementLag
<1>7. MeasurementAges'
  BY <1>1, <1>3 DEF MeasurementAges
<1>8. MeasurementWatched'
  BY <1>1, <1>3 DEF MeasurementWatched
<1>9. LinksInStep'
  BY <1>1, <1>3 DEF LinksInStep
<1>10. FrameIsOfOneConversion'
  BY <1>1, <1>3 DEF FrameIsOfOneConversion, OfOneConversion
<1>11. BuffersAreFresh'
  BY <1>1, <1>3 DEF BuffersAreFresh
<1>12. LastingFaultIsKept'
  BY <1>3 DEF LastingFaultIsKept
<1> QED
  BY <1>4, <1>5, <1>6, <1>7, <1>8, <1>9, <1>10, <1>11, <1>12, MeasurementPartsNext,
     Zenon
     DEF MeasurementInv

\* A cycle ends with its snapshot.
LEMMA KeptPublish ==
    ASSUME MeasurementInv, Measurement!Publish
    PROVE  MeasurementInv'
<1>1. /\ MeasurementFlags /\ MeasurementPlace /\ MeasurementLag /\ MeasurementAges
      /\ MeasurementWatched /\ LinksInStep /\ FrameIsOfOneConversion
      /\ BuffersAreFresh /\ LastingFaultIsKept
  BY MeasurementParts, Zenon DEF MeasurementInv
<1>2. transfer \in 1..31
  BY <1>1, Zenon DEF MeasurementPlace
<1>3. transfer = 28
  BY <1>2, Places DEF Measurement!Publish
<1>4. /\ transfer' = 1
      /\ combined' = [read |-> FALSE, all |-> FALSE]
      /\ disturbed' = [now |-> FALSE, before |-> disturbed.now]
      /\ UNCHANGED <<due, complete, lag, raw, working, watched, monitorFault>>
  BY Zenon DEF Measurement!Publish, Measurement!NextCycle, Measurement!NoneCombined
<1>5. MeasurementFlags'
  BY <1>1, <1>4 DEF MeasurementFlags
<1>6. MeasurementPlace'
  BY <1>1, <1>4 DEF MeasurementPlace
<1>7. MeasurementLag'
  BY <1>1, <1>4 DEF MeasurementLag
<1>8. MeasurementAges'
  BY <1>1, <1>4 DEF MeasurementAges
<1>9. MeasurementWatched'
  BY <1>1, <1>4 DEF MeasurementWatched
<1>10. LinksInStep'
  BY <1>1, <1>3, <1>4 DEF LinksInStep
<1>11. FrameIsOfOneConversion'
  BY <1>1, <1>3, <1>4 DEF FrameIsOfOneConversion, OfOneConversion
<1>12. BuffersAreFresh'
  BY <1>4 DEF BuffersAreFresh
<1>13. LastingFaultIsKept'
  BY <1>4 DEF LastingFaultIsKept, ReadAt, ClearAt
<1> QED
  BY <1>5, <1>6, <1>7, <1>8, <1>9, <1>10, <1>11, <1>12, <1>13, MeasurementPartsNext,
     Zenon
     DEF MeasurementInv

\* A cycle ends with the last snapshot.
LEMMA KeptPublishHeld ==
    ASSUME MeasurementInv, Measurement!PublishHeld
    PROVE  MeasurementInv'
<1>1. /\ MeasurementFlags /\ MeasurementPlace /\ MeasurementLag /\ MeasurementAges
      /\ MeasurementWatched /\ LinksInStep /\ FrameIsOfOneConversion
      /\ BuffersAreFresh /\ LastingFaultIsKept
  BY MeasurementParts, Zenon DEF MeasurementInv
<1>2. transfer \in 1..31
  BY <1>1, Zenon DEF MeasurementPlace
<1>3. transfer = 31
  BY <1>2, Places DEF Measurement!PublishHeld
<1>4. /\ transfer' = 1
      /\ combined' = [read |-> FALSE, all |-> FALSE]
      /\ disturbed' = [now |-> FALSE, before |-> disturbed.now]
      /\ UNCHANGED <<due, complete, lag, raw, working, watched, monitorFault>>
  BY Zenon DEF Measurement!PublishHeld, Measurement!NextCycle, Measurement!NoneCombined
<1>5. MeasurementFlags'
  BY <1>1, <1>4 DEF MeasurementFlags
<1>6. MeasurementPlace'
  BY <1>1, <1>4 DEF MeasurementPlace
<1>7. MeasurementLag'
  BY <1>1, <1>4 DEF MeasurementLag
<1>8. MeasurementAges'
  BY <1>1, <1>4 DEF MeasurementAges
<1>9. MeasurementWatched'
  BY <1>1, <1>4 DEF MeasurementWatched
<1>10. LinksInStep'
  BY <1>1, <1>3, <1>4 DEF LinksInStep
<1>11. FrameIsOfOneConversion'
  BY <1>1, <1>3, <1>4 DEF FrameIsOfOneConversion, OfOneConversion
<1>12. BuffersAreFresh'
  BY <1>4 DEF BuffersAreFresh
<1>13. LastingFaultIsKept'
  BY <1>4 DEF LastingFaultIsKept, ReadAt, ClearAt
<1> QED
  BY <1>5, <1>6, <1>7, <1>8, <1>9, <1>10, <1>11, <1>12, <1>13, MeasurementPartsNext,
     Zenon
     DEF MeasurementInv

\* Nothing of the measuring cycle moves.
LEMMA KeptMeasurement ==
    ASSUME MeasurementInv, UNCHANGED measurementVars
    PROVE  MeasurementInv'
<1>1. /\ MeasurementFlags /\ MeasurementPlace /\ MeasurementLag /\ MeasurementAges
      /\ MeasurementWatched /\ LinksInStep /\ FrameIsOfOneConversion
      /\ BuffersAreFresh /\ LastingFaultIsKept
  BY MeasurementParts, Zenon DEF MeasurementInv
<1>2. /\ due' = due /\ complete' = complete /\ lag' = lag /\ raw' = raw
      /\ working' = working /\ watched' = watched /\ combined' = combined
      /\ disturbed' = disturbed /\ transfer' = transfer /\ monitorFault' = monitorFault
  BY Zenon DEF measurementVars
<1>3. MeasurementFlags'
  BY <1>1, <1>2, Zenon DEF MeasurementFlags
<1>4. MeasurementPlace' /\ MeasurementLag' /\ MeasurementAges' /\ MeasurementWatched'
  BY <1>1, <1>2, Zenon DEF MeasurementPlace, MeasurementLag, MeasurementAges,
         MeasurementWatched
<1>5. LinksInStep' /\ BuffersAreFresh'
  BY <1>1, <1>2, Zenon DEF LinksInStep, BuffersAreFresh
<1>6. FrameIsOfOneConversion'
  BY <1>1, <1>2, Zenon DEF FrameIsOfOneConversion, OfOneConversion
<1>7. LastingFaultIsKept'
  BY <1>1, <1>2, Zenon DEF LastingFaultIsKept, ReadAt, ClearAt
<1> QED
  BY <1>3, <1>4, <1>5, <1>6, <1>7, MeasurementPartsNext, Zenon DEF MeasurementInv

\* A step of the measuring cycle keeps it.
LEMMA MeasurementStep ==
    ASSUME MeasurementInv, Measurement!Next PROVE MeasurementInv'
  BY KeptReadSucceeds, KeptReadFails, KeptStartConversion, KeptStartFails,
     KeptSkipMeasurements, KeptReadMeasurements, KeptConvert, KeptNoRequest,
     KeptReadStatus, KeptClearStatus, KeptUpdateFaults, KeptCondition,
     KeptPublish, KeptPublishHeld, Zenon
     DEF Measurement!Next

\* It holds when the cycles begin.
LEMMA MeasurementStart ==
    ASSUME Measurement!Init PROVE MeasurementInv
<1>1. /\ transfer = 1 /\ due = 0 /\ complete = FALSE
      /\ monitorFault = [present |-> FALSE, latched |-> FALSE, lasting |-> FALSE]
      /\ combined = [read |-> FALSE, all |-> FALSE]
      /\ disturbed = [now |-> FALSE, before |-> TRUE]
  BY Zenon DEF Measurement!Init, Measurement!NoneCombined
<1>2. MeasurementFlags
  BY <1>1 DEF MeasurementFlags
<1>3. MeasurementPlace
  BY <1>1, MeasurementAssumption DEF MeasurementPlace
<1>4. MeasurementLag
  BY DEF MeasurementLag, Measurement!Init, Measurement!Monitors
<1>5. MeasurementAges
  BY MeasurementAssumption DEF MeasurementAges, Measurement!Init, Measurement!Monitors,
         Measurement!Oldest
<1>6. MeasurementWatched
  BY DEF MeasurementWatched, Measurement!Init, Measurement!StatusGroups
<1>7. LinksInStep /\ FrameIsOfOneConversion /\ BuffersAreFresh /\ LastingFaultIsKept
  BY <1>1 DEF LinksInStep, FrameIsOfOneConversion, BuffersAreFresh, LastingFaultIsKept
<1> QED
  BY <1>2, <1>3, <1>4, <1>5, <1>6, <1>7, MeasurementParts, Zenon DEF MeasurementInv

\* What a cycle publishes, counts as a failure and reports is what the invariant
\* says of the place where it does.
LEMMA MeasurementsKeepTheirWord ==
    ASSUME MeasurementInv
    PROVE  /\ Measurement!FreshFrameIsWhole
           /\ Measurement!LinkHeals
           /\ Measurement!LastingFaultIsReported
<1>1. /\ transfer \in 1..31 /\ LinksInStep /\ FrameIsOfOneConversion
      /\ LastingFaultIsKept
  BY MeasurementParts, Zenon DEF MeasurementInv, MeasurementPlace
<1>2. Measurement!FreshFrameIsWhole
  <2> SUFFICES ASSUME Measurement!Publish, complete
               PROVE  \E age \in 0..(Period - 1) :
                        \A i \in Measurement!Monitors : working[i] = <<age, age>>
    BY Zenon DEF Measurement!FreshFrameIsWhole
  <2>1. transfer >= 12
    BY <1>1, Places DEF Measurement!Publish
  <2>2. OfOneConversion(Period - 1)
    BY <1>1, <2>1, Zenon DEF FrameIsOfOneConversion
  <2> QED  BY <2>2, Zenon DEF OfOneConversion, Measurement!Monitors
<1>3. Measurement!LinkHeals
  <2> SUFFICES ASSUME Measurement!PublishHeld, ~disturbed.now, ~disturbed.before
               PROVE  FALSE
    BY Zenon DEF Measurement!LinkHeals
  <2>1. transfer = 31
    BY <1>1, Places DEF Measurement!PublishHeld
  <2> QED  BY <1>1, <2>1 DEF LinksInStep
<1>4. Measurement!LastingFaultIsReported
  <2> SUFFICES ASSUME Measurement!UpdateFaults, monitorFault.lasting
               PROVE  combined.all
    BY Zenon DEF Measurement!LastingFaultIsReported
  <2>1. transfer = 25
    BY <1>1, Places DEF Measurement!UpdateFaults
  <2>2. ClearAt < transfer /\ transfer <= 25
    BY <2>1 DEF ClearAt
  <2> QED  BY <1>1, <2>2, Zenon DEF LastingFaultIsKept
<1> QED  BY <1>2, <1>3, <1>4

-----------------------------------------------------------------------------
(* A step of AllNext is a step of one part and leaves the others alone.    *)

\* Each of the five parts takes its own step, or none.
LEMMA PartsStep ==
    [AllNext]_allVars =>
        /\ [Uart!Next]_(Uart!vars)
        /\ [Adc!Next]_(Adc!vars)
        /\ [Wifi!Next]_(Wifi!vars)
        /\ [Supervision!Next]_(Supervision!vars)
        /\ Measurement!Next \/ UNCHANGED measurementVars
<1> SUFFICES ASSUME [AllNext]_allVars
             PROVE  /\ Uart!Next \/ UNCHANGED uartVars
                    /\ Adc!Next \/ UNCHANGED adcVars
                    /\ Wifi!Next \/ UNCHANGED wifiVars
                    /\ Supervision!Next \/ UNCHANGED supervisionVars
                    /\ Measurement!Next \/ UNCHANGED measurementVars
  BY DEF uartVars, adcVars, wifiVars, supervisionVars, Uart!vars, Uart!mailbox, Adc!vars,
         Adc!scan, Adc!task, Adc!health, Wifi!vars, Wifi!programVars, Wifi!driverVars,
         Supervision!vars, Supervision!tasks, Supervision!counts, Supervision!times,
         Supervision!flags, Supervision!backup, Supervision!past
<1>1. CASE AllNext
  BY <1>1 DEF AllNext
<1>2. CASE UNCHANGED allVars
  BY <1>2 DEF allVars
<1> QED  BY <1>1, <1>2

\* The invariants hold when the exploration starts.
LEMMA PartsStart ==
    AllInit => MailboxIsPending /\ ScanInv /\ WifiInv /\ SupervisionInv /\ MeasurementInv
<1> SUFFICES ASSUME AllInit
             PROVE  MailboxIsPending /\ ScanInv /\ WifiInv /\ SupervisionInv /\ MeasurementInv
  OBVIOUS
<1>1. Uart!Init /\ Adc!Init /\ Wifi!Init /\ Supervision!Init /\ Measurement!Init
  BY DEF AllInit
<1>2. MailboxIsPending
  <2>1. Uart!ReadsGetTheirOwnAnswer
    BY <1>1 DEF Uart!Init, Uart!ReadsGetTheirOwnAnswer, Uart!NoAnswer
  <2>2. registerBusy \in BOOLEAN /\ ticket = 1
    BY <1>1 DEF Uart!Init
  <2>3. reading = Uart!NoRegister /\ pendingRegisterRead = Uart!NoRead
    BY <1>1 DEF Uart!Init
  <2>4. ticket \in Uart!Tickets
    BY <2>2 DEF Uart!Tickets
  <2> QED  BY <2>1, <2>2, <2>3, <2>4 DEF MailboxIsPending
<1>3. ScanInv
  <2>1. samples \in [Adc!Channels -> Adc!Scans] /\ values \in [Adc!Channels -> Adc!Scans]
    BY <1>1, NoValuesTyped DEF Adc!Init, Adc!Scans
  <2>2. Adc!TypeOK
    <3>1. result \in [valid : BOOLEAN, broken : BOOLEAN]
      BY <1>1 DEF Adc!Init, Adc!None
    <3>2. 0 \in 0..Adc!LongAgo /\ 0 \in 0..Adc!Attempts /\ 0 \in 0..Adc!FailureLimit
      BY DEF Adc!LongAgo, Adc!Stale, Adc!Attempts, Adc!FailureLimit
    <3>3. stopped \in BOOLEAN /\ fresh \in BOOLEAN /\ adcFault \in BOOLEAN
      BY <1>1 DEF Adc!Init
    <3>4. /\ sinceScan = 0 /\ timeRead = 0 /\ sinceCheck = 0 /\ attempt = 0 /\ moves = 0
          /\ failures = 0 /\ copied = {} /\ adcPc = "Loop"
      BY <1>1 DEF Adc!Init
    <3> QED  BY <2>1, <3>1, <3>2, <3>3, <3>4 DEF Adc!TypeOK
  <2>3. ScanTicks /\ ScanCounted
    BY <1>1 DEF Adc!Init, ScanTicks, ScanCounted, ScanChecking
  <2>4. ScanCopies
    BY <1>1 DEF Adc!Init, ScanCopies, Adc!None
  <2> QED  BY <2>2, <2>3, <2>4 DEF ScanInv
<1>4. WifiInv
  <2>1. WifiRecords
    BY <1>1, WifiAssumption DEF Wifi!Init, WifiRecords, Wifi!MainSteps, Wifi!None
  <2>2. WifiPlain
    <3>1. /\ candidate \in {"primary", "none"} /\ station \in {"idle", "connecting"}
          /\ retry \in {"none", "waiting"}
      BY <1>1 DEF Wifi!Init, Wifi!None, Wifi!Primary
    <3>2. events \in Seq(Wifi!Events) /\ Len(events) <= MaxEvents
      BY <1>1, StartAlone, WifiAssumption DEF Wifi!Init
    <3> QED  BY <1>1, <3>1, <3>2 DEF Wifi!Init, WifiPlain, Wifi!Networks, Wifi!Primary
  <2>3. LossIsTold /\ ResponderFollows /\ OneRecovery /\ ScansKnown
    <3>1. AddressesTrue(events, station = "ip")
      BY <1>1, StartAlone DEF Wifi!Init, AddressesTrue
    <3> QED  BY <1>1, <3>1 DEF Wifi!Init, LossIsTold, ResponderFollows, OneRecovery, ScansKnown
  <2>4. AttemptIsKept
    BY <1>1 DEF Wifi!Init, AttemptIsKept, Attempting, Wifi!None
  <2> QED  BY <2>1, <2>2, <2>3, <2>4 DEF WifiInv
<1>5. SupervisionInv /\ MeasurementInv
  BY <1>1, SupervisionStart, MeasurementStart
<1> QED  BY <1>2, <1>3, <1>4, <1>5

\* Every step of Wi-Fi keeps its invariant.
LEMMA WifiStep == WifiInv /\ [Wifi!Next]_(Wifi!vars) => WifiInv'
<1> SUFFICES ASSUME WifiInv, [Wifi!Next]_(Wifi!vars) PROVE WifiInv'
  OBVIOUS
<1>1. CASE \E visible \in SUBSET Wifi!Networks : Wifi!HandleEvent(visible)
  BY <1>1, WifiHears
<1>2. CASE Wifi!Tick
  BY <1>2, WifiTicks
<1>3. CASE \/ Wifi!RequestScan \/ Wifi!RequestMarks \/ Wifi!ConsumeResults \/ Wifi!Configure
           \/ Wifi!GotIp \/ Wifi!Lost \/ Wifi!ScanDone \/ Wifi!RetryDue \/ Wifi!ElapseAny
  BY <1>3, WifiElsewhere
<1>4. CASE UNCHANGED Wifi!vars
  BY <1>4 DEF Wifi!vars, Wifi!programVars, Wifi!driverVars, WifiInv, WifiPlain, WifiRecords,
              LossIsTold, ResponderFollows, OneRecovery, ScansKnown, AttemptIsKept, Attempting,
              LossIn, EndIn, AddressesTrue
<1> QED  BY <1>1, <1>2, <1>3, <1>4 DEF Wifi!Next

\* The invariants of the mailbox, of the ADC scan, of Wi-Fi, of the supervision and of the
\* measuring cycle hold in every reachable state.
THEOREM PartsInvariance ==
    AllSpec =>
      [](MailboxIsPending /\ ScanInv /\ WifiInv /\ SupervisionInv /\ MeasurementInv)
<1> DEFINE Inv ==
      MailboxIsPending /\ ScanInv /\ WifiInv /\ SupervisionInv /\ MeasurementInv
<1>1. AllInit => Inv
  BY PartsStart
<1>2. Inv /\ [AllNext]_allVars => Inv'
  BY PartsStep, MailboxStep, ScanStep, WifiStep, SupervisionStep, MeasurementStep,
     KeptMeasurement
<1> QED  BY <1>1, <1>2, PTL DEF AllSpec

\* A register read is answered with what was read for it, never with the late answer to a
\* read that was given up.
THEOREM ReadsAreAnsweredRightly ==
    AllSpec => [](explored = "uart" => Uart!ReadsGetTheirOwnAnswer)
<1>1. MailboxIsPending => (explored = "uart" => Uart!ReadsGetTheirOwnAnswer)
  BY DEF MailboxIsPending
<1> QED  BY <1>1, PartsInvariance, PTL

\* The voltages HV decisions rest on are of one scan, and a stopped converter is reported
\* before its age leaves the range in which it is counted.
THEOREM ScanCanBeTrusted == AllSpec => []ScanIsTrusted
<1>1. ScanInv => ScanIsTrusted
  <2> SUFFICES ASSUME ScanInv PROVE Adc!SamplesOfOneScan /\ Adc!StoppedScanIsReported
    BY DEF ScanIsTrusted
  <2>1. Adc!SamplesOfOneScan
    BY DEF ScanInv, ScanCopies, Adc!SamplesOfOneScan
  <2>2. ASSUME sinceScan = 15 PROVE adcFault
    <3>1. sinceCheck \in Nat /\ sinceCheck <= 2 /\ failures \in 0..3
      BY DEF ScanInv, ScanTicks, Adc!TypeOK, Adc!FailureLimit
    <3>2. failures >= 3
      BY <2>2, <3>1 DEF ScanInv, ScanCounted
    <3> QED  BY <3>1, <3>2 DEF ScanInv, ScanCounted
  <2> QED  BY <2>1, <2>2 DEF Adc!StoppedScanIsReported, Adc!LongAgo, Adc!Stale
<1> QED  BY <1>1, PartsInvariance, PTL

\* The gateway believes only in a link it has, withdraws its responder with it, goes on
\* trying while it has none, and does not count its recovery period anew.
THEOREM WifiIsRight == AllSpec => []WifiHolds
<1>1. WifiInv => WifiHolds
  <2> SUFFICES ASSUME WifiInv
               PROVE  /\ Wifi!ConnectedHasAddress /\ Wifi!MdnsFollowsTheLink
                      /\ Wifi!AttemptsGoOn /\ Wifi!RecoveryIsNotRestarted
    BY DEF WifiHolds
  <2>1. Wifi!ConnectedHasAddress
    BY DEF WifiInv, LossIsTold, LossIn, Wifi!ConnectedHasAddress
  <2>2. Wifi!MdnsFollowsTheLink
    BY DEF WifiInv, ResponderFollows, EndIn, Wifi!MdnsFollowsTheLink
  <2>3. Wifi!AttemptsGoOn
    <3>1. events = <<>> => ~EndIn(events)
      BY DEF EndIn
    <3> QED  BY <3>1 DEF WifiInv, AttemptIsKept, Attempting, Wifi!AttemptsGoOn, Wifi!Handled,
                         Wifi!None
  <2>4. Wifi!RecoveryIsNotRestarted
    BY DEF WifiInv, OneRecovery, Wifi!RecoveryIsNotRestarted
  <2> QED  BY <2>1, <2>2, <2>3, <2>4
<1> QED  BY <1>1, PartsInvariance, PTL

\* The watchdog resets a master one of whose tasks or transfers stands still, within its
\* bound; it resets no master whose tasks run, however their reports fall between the reading
\* and the remembering of the counters; and the next boot reports who stood still.
THEOREM SupervisionIsRight == AllSpec => []SupervisionHolds
<1>1. SupervisionInv => SupervisionHolds
  <2> SUFFICES ASSUME SupervisionInv
               PROVE  /\ Supervision!RunningIsNotReset /\ Supervision!HungIsReset
                      /\ Supervision!ReportNamesTheCulprit
    BY DEF SupervisionHolds
  <2> QED  BY SupervisionBounds DEF SupervisionInv
<1> QED  BY <1>1, PartsInvariance, PTL

\* A measuring cycle, whatever answers the line loses or damages, publishes as new only a
\* frame whose buffers are of one conversion; its message counting is in step again within a
\* cycle; and a fault that lasts is in the faults the master reports.
THEOREM MeasurementsStayWhole == AllSpec => MeasurementsAreWhole
<1> DEFINE Word == explored = "measurement" =>
             /\ Measurement!FreshFrameIsWhole
             /\ Measurement!LinkHeals
             /\ Measurement!LastingFaultIsReported
<1>1. MeasurementInv /\ [AllNext]_allVars => [Word]_allVars
  BY MeasurementsKeepTheirWord
<1> QED  BY <1>1, PartsInvariance, PTL DEF AllSpec, MeasurementsAreWhole

=============================================================================
