------------------------ MODULE CurrentLimits_proofs ------------------------
(***************************************************************************)
(* Proofs about CurrentLimits for every maximum current, and for every     *)
(* dwell that is longer than the period of the inverter's frames.          *)
(*                                                                         *)
(* Two arguments that hardly meet.  The offer: what is published never     *)
(* runs ahead of the time since nothing was offered, and what a held       *)
(* snapshot brings back was offered before.  The guard: its timer never    *)
(* runs ahead of the violation it measures, nor behind an unbroken chain   *)
(* of violating samples, and the CAN task keeps pace with both.            *)
(***************************************************************************)
EXTENDS CurrentLimits, TLAPS

\* The limit recovers in whole steps, and the dwell outlasts one period of the CAN task.
ParametersOK == MaxLimit \in Nat \ {0} /\ DwellS \in Nat /\ DwellS > PeriodS

\* A stop that is over was ended by a reading above the recovery temperature.
StopIsKnown == coldStopped \/ warmed

\* What the inverter is offered came with the last valid snapshot.
HeldIsOffered ==
    /\ snapshot.valid => lastValid.valid
    /\ Offered(snapshot) > 0 => Offered(lastValid) = Offered(snapshot)

\* Neither the offer nor the next limit is more than has had time to recover.
OfferIsGradual ==
    ~unslewed =>
        /\ Offered(snapshot) <= stoppedFor
        /\ published + Elapsed <= stoppedFor \/ stoppedFor = MaxLimit

\* A guard that tracks nothing has no past.
IdleTimer ==
    ~guard.tracking => guard = NoTimer /\ violatedFor = 0 /\ chain = 0 /\ ~toldMeanwhile

\* The timer never counts more than the time without compliance.
AccruedIsViolated ==
    guard.elapsed + guard.previous <= violatedFor \/ violatedFor = DwellS

\* A violation is not a period old before the CAN task has sent a limit in it.
ToldInTime ==
    /\ outgoing = "new" => guard.tracking
    /\ guard.tracking /\ ~toldMeanwhile =>
          violatedFor <= sinceSent \/ (outgoing = "new" /\ violatedFor <= PeriodS)

\* Nor does it count less than an unbroken chain of violating samples.
ChainAccrued ==
    guard.previousValid /\ guard.previous <= MaximumSampleGapS =>
        chain <= guard.elapsed + guard.previous

\* Monitors that are to be started have no failures behind them.
StartsAfresh == ~running => failures = 0

\* A guard that has tripped is seen by the fault manager in the same step.
TripIsActive == Trips(guard) => fault = "active"

Timing == IdleTimer /\ AccruedIsViolated /\ ToldInTime /\ ChainAccrued
Offering == StopIsKnown /\ HeldIsOffered /\ OfferIsGradual /\ OfferNeedsRecovery

LimitsInv == TypeOK /\ StartsAfresh /\ Timing /\ TripIsActive /\ Offering

-----------------------------------------------------------------------------
(* Types, in the parts the steps change *)

Guards == [tracking : BOOLEAN, elapsed : 0 .. DwellS,
           previous : 0 .. MaximumSampleGapS + 1, previousValid : BOOLEAN]

BmsTypes ==
    /\ running \in BOOLEAN /\ hv \in BOOLEAN
    /\ fault \in {"none", "active", "latched"} /\ failures \in 0 .. TripCount
TemperatureTypes == coldStopped \in BOOLEAN /\ inhibited \in BOOLEAN /\ warmed \in BOOLEAN
LimitTypes == published \in Currents /\ updated \in {Never} \cup Currents
SnapshotTypes ==
    /\ snapshot \in Snapshots /\ lastValid \in Snapshots
    /\ stoppedFor \in Currents /\ unslewed \in BOOLEAN
TimingTypes ==
    /\ guard \in Guards
    /\ outgoing \in {"none", "old", "new"} /\ sinceSent \in 0 .. PeriodS
    /\ violatedFor \in 0 .. DwellS /\ chain \in 0 .. DwellS /\ toldMeanwhile \in BOOLEAN

\* The type invariant is the sum of its parts.
LEMMA TypeParts ==
    /\ TypeOK <=> BmsTypes /\ TemperatureTypes /\ LimitTypes /\ SnapshotTypes /\ TimingTypes
    /\ TypeOK' <=> BmsTypes' /\ TemperatureTypes' /\ LimitTypes' /\ SnapshotTypes'
                     /\ TimingTypes'
  BY DEF TypeOK, BmsTypes, TemperatureTypes, LimitTypes, SnapshotTypes, TimingTypes, Guards

\* The guard's fields and the numbers they are compared with.
LEMMA GuardFields ==
    ASSUME ParametersOK, TimingTypes
    PROVE  /\ guard.tracking \in BOOLEAN /\ guard.previousValid \in BOOLEAN
           /\ guard.elapsed \in 0 .. DwellS /\ guard.previous \in 0 .. 2
           /\ DwellS \in Nat /\ DwellS >= 2 /\ violatedFor \in 0 .. DwellS
           /\ chain \in 0 .. DwellS /\ sinceSent \in 0 .. 1
           /\ MaximumSampleGapS = 1 /\ PeriodS = 1
  BY DEF ParametersOK, TimingTypes, Guards, MaximumSampleGapS, PeriodS

-----------------------------------------------------------------------------
(* The guard *)

\* What an update makes of the timer: nothing, the same without a valid sample, or the
\* time accrued so far.
LEMMA GuardedFacts ==
    ASSUME ParametersOK, TimingTypes, NEW armed \in BOOLEAN, NEW valid \in BOOLEAN,
           NEW violation \in BOOLEAN, NEW g, g = Guarded(armed, valid, violation)
    PROVE  /\ g \in Guards
           /\ \/ g = NoTimer
              \/ /\ armed /\ ~valid
                 /\ g.tracking = guard.tracking /\ g.elapsed = guard.elapsed
                 /\ g.previous = guard.previous /\ g.previousValid = FALSE
              \/ /\ armed /\ valid /\ violation
                 /\ g.tracking = TRUE /\ g.elapsed = Accrued(guard)
                 /\ g.previous = 0 /\ g.previousValid = TRUE
<1>0. guard \in Guards /\ DwellS \in Nat /\ DwellS >= 2 /\ MaximumSampleGapS = 1
      /\ guard.elapsed \in 0 .. DwellS /\ guard.previous \in 0 .. 2
  BY GuardFields DEF TimingTypes
<1>1. Accrued(guard) \in 0 .. DwellS
  BY <1>0 DEF Accrued, Least
<1>2. CASE ~armed \/ (valid /\ ~violation)
  <2>1. g = NoTimer
    BY <1>2 DEF Guarded
  <2>2. NoTimer \in Guards
    BY <1>0 DEF NoTimer, Guards
  <2> QED  BY <2>1, <2>2
<1>3. CASE armed /\ ~valid
  <2>1. g = [guard EXCEPT !.previousValid = FALSE]
    BY <1>3 DEF Guarded
  <2>2. g \in Guards
    BY <1>0, <2>1 DEF Guards
  <2>3. /\ g.tracking = guard.tracking /\ g.elapsed = guard.elapsed
        /\ g.previous = guard.previous /\ g.previousValid = FALSE
    BY <1>0, <2>1 DEF Guards
  <2> QED  BY <1>3, <2>2, <2>3
<1>4. CASE armed /\ valid /\ violation
  <2>1. g = [tracking |-> TRUE, elapsed |-> Accrued(guard), previous |-> 0,
             previousValid |-> TRUE]
    BY <1>4 DEF Guarded
  <2>2. g \in Guards
    BY <1>0, <1>1, <2>1 DEF Guards
  <2>3. g.tracking = TRUE /\ g.elapsed = Accrued(guard) /\ g.previous = 0
        /\ g.previousValid = TRUE
    BY <2>1
  <2> QED  BY <1>4, <2>2, <2>3
<1> QED  BY <1>2, <1>3, <1>4

\* An update of the guard keeps its timing, trips only for a violation that has lasted,
\* and does trip for a chain that has.
LEMMA WatchedKeeps ==
    ASSUME ParametersOK, TimingTypes, Timing, NEW armed \in BOOLEAN, NEW valid \in BOOLEAN,
           NEW violation \in BOOLEAN, Watched(armed, valid, violation), UNCHANGED sinceSent
    PROVE  /\ TimingTypes' /\ Timing'
           /\ Trips(guard') => violatedFor = DwellS /\ toldMeanwhile
           /\ Trips(guard') => armed /\ valid /\ violation
           /\ chain' = DwellS /\ guard'.previousValid => Trips(guard')
<1>0. /\ guard.tracking \in BOOLEAN /\ guard.previousValid \in BOOLEAN
      /\ guard.elapsed \in 0 .. DwellS /\ guard.previous \in 0 .. 2
      /\ DwellS \in Nat /\ DwellS >= 2 /\ violatedFor \in 0 .. DwellS
      /\ chain \in 0 .. DwellS /\ sinceSent \in 0 .. 1
      /\ MaximumSampleGapS = 1 /\ PeriodS = 1
  BY GuardFields
<1>1. /\ guard' = Guarded(armed, valid, violation)
      /\ violatedFor' = IF guard'.tracking THEN violatedFor ELSE 0
      /\ chain' = IF /\ guard'.previousValid /\ guard.previousValid
                     /\ guard.previous <= MaximumSampleGapS THEN chain ELSE 0
      /\ toldMeanwhile' = (toldMeanwhile /\ guard'.tracking)
      /\ outgoing' = IF outgoing = "new" /\ ~guard'.tracking THEN "old" ELSE outgoing
      /\ sinceSent' = sinceSent
  BY DEF Watched
<1>2. /\ guard' \in Guards
      /\ \/ guard' = NoTimer
         \/ /\ armed /\ ~valid
            /\ guard'.tracking = guard.tracking /\ guard'.elapsed = guard.elapsed
            /\ guard'.previous = guard.previous /\ guard'.previousValid = FALSE
         \/ /\ armed /\ valid /\ violation
            /\ guard'.tracking = TRUE /\ guard'.elapsed = Accrued(guard)
            /\ guard'.previous = 0 /\ guard'.previousValid = TRUE
  BY <1>1, GuardedFacts
<1>3. TimingTypes'
  <2>1. toldMeanwhile' \in BOOLEAN
    BY <1>1
  <2> QED  BY <1>0, <1>1, <1>2, <2>1 DEF TimingTypes
<1>4. /\ outgoing \in {"none", "old", "new"} /\ toldMeanwhile \in BOOLEAN
  BY DEF TimingTypes
<1>5. CASE guard' = NoTimer
  <2>1. /\ guard'.tracking = FALSE /\ guard'.elapsed = 0 /\ guard'.previous = 0
        /\ guard'.previousValid = FALSE
    BY <1>5 DEF NoTimer
  <2>2. violatedFor' = 0 /\ chain' = 0 /\ toldMeanwhile' = FALSE /\ outgoing' # "new"
    BY <1>1, <1>4, <2>1
  <2> QED
    BY <1>0, <1>3, <1>5, <2>1, <2>2
       DEF Timing, IdleTimer, AccruedIsViolated, ToldInTime, ChainAccrued, Trips
<1>6. CASE /\ guard'.tracking = guard.tracking /\ guard'.elapsed = guard.elapsed
           /\ guard'.previous = guard.previous /\ guard'.previousValid = FALSE
           /\ guard' # NoTimer
  <2>1. guard.tracking
    <3>1. SUFFICES ASSUME ~guard.tracking PROVE FALSE
      OBVIOUS
    <3>2. guard = NoTimer
      BY <3>1 DEF Timing, IdleTimer
    <3>3. guard'.tracking = NoTimer.tracking /\ guard'.elapsed = NoTimer.elapsed
          /\ guard'.previous = NoTimer.previous
          /\ guard'.previousValid = NoTimer.previousValid
      BY <1>6, <3>2 DEF NoTimer
    <3>4. guard' = NoTimer
      BY <1>2, <3>3 DEF Guards, NoTimer
    <3> QED  BY <1>6, <3>4
  <2>2. violatedFor' = violatedFor /\ toldMeanwhile' = toldMeanwhile /\ outgoing' = outgoing
        /\ guard'.tracking /\ chain' = 0
    BY <1>1, <1>4, <1>6, <2>1
  <2>3. IdleTimer' /\ AccruedIsViolated' /\ ToldInTime' /\ ChainAccrued'
    BY <1>0, <1>1, <1>6, <2>1, <2>2
       DEF Timing, IdleTimer, AccruedIsViolated, ToldInTime, ChainAccrued
  <2> QED  BY <1>3, <1>6, <2>3 DEF Timing, Trips
<1>7. CASE /\ armed /\ valid /\ violation
           /\ guard'.tracking = TRUE /\ guard'.elapsed = Accrued(guard)
           /\ guard'.previous = 0 /\ guard'.previousValid = TRUE
  <2>1. violatedFor' = violatedFor /\ toldMeanwhile' = toldMeanwhile /\ outgoing' = outgoing
    BY <1>1, <1>4, <1>7
  <2>2. guard.tracking = FALSE => guard.elapsed = 0 /\ guard.previous = 0
           /\ guard.previousValid = FALSE /\ violatedFor = 0 /\ toldMeanwhile = FALSE
    BY <1>4 DEF Timing, IdleTimer, NoTimer
  <2>3. /\ guard'.elapsed \in 0 .. DwellS
        /\ guard'.elapsed <= guard.elapsed + guard.previous
    BY <1>0, <1>7 DEF Accrued, Least
  <2>4. AccruedIsViolated'
    BY <1>0, <1>7, <2>1, <2>3 DEF Timing, AccruedIsViolated
  <2>5. ToldInTime'
    <3>1. CASE guard.tracking
      BY <1>0, <1>1, <1>7, <2>1, <3>1 DEF Timing, ToldInTime
    <3>2. CASE ~guard.tracking
      <4>1. outgoing # "new" /\ violatedFor = 0 /\ 0 <= sinceSent
        BY <1>0, <2>2, <3>2 DEF Timing, ToldInTime
      <4> QED  BY <1>1, <1>7, <2>1, <4>1 DEF ToldInTime
    <3> QED  BY <3>1, <3>2
  <2>6. chain' <= guard'.elapsed
    <3>1. CASE guard.previousValid /\ guard.previous <= 1
      <4>1. chain' = chain /\ chain <= guard.elapsed + guard.previous
        BY <1>0, <1>1, <1>7, <3>1 DEF Timing, ChainAccrued
      <4>2. guard'.elapsed = Least(DwellS, guard.elapsed + guard.previous)
        BY <1>0, <1>7, <3>1 DEF Accrued
      <4> QED  BY <1>0, <4>1, <4>2 DEF Least
    <3>2. CASE ~(guard.previousValid /\ guard.previous <= 1)
      BY <1>0, <1>1, <2>3, <3>2
    <3> QED  BY <3>1, <3>2
  <2>7. ChainAccrued' /\ IdleTimer'
    BY <1>7, <2>3, <2>6 DEF ChainAccrued, IdleTimer
  <2>8. Trips(guard') => violatedFor = DwellS /\ toldMeanwhile
    <3>1. SUFFICES ASSUME guard'.elapsed = DwellS PROVE violatedFor = DwellS /\ toldMeanwhile
      BY DEF Trips
    <3>2. violatedFor = DwellS
      BY <1>0, <2>3, <3>1 DEF Timing, AccruedIsViolated
    <3>3. guard.tracking
      BY <1>0, <2>2, <3>2
    <3> QED  BY <1>0, <1>4, <3>2, <3>3 DEF Timing, ToldInTime
  <2>9. chain' = DwellS => Trips(guard')
    BY <1>0, <1>7, <2>3, <2>6 DEF Trips
  <2> QED  BY <1>3, <1>7, <2>4, <2>5, <2>7, <2>8, <2>9 DEF Timing
<1> QED  BY <1>2, <1>5, <1>6, <1>7

-----------------------------------------------------------------------------
(* The offer *)

\* What the inverter reads of a snapshot is a current.
LEMMA OfferedFacts ==
    ASSUME ParametersOK, NEW s \in Snapshots
    PROVE  /\ Offered(s) \in Currents /\ Offered(s) \in 0 .. MaxLimit /\ s.current \in Currents
           /\ s.valid \in BOOLEAN /\ s.fresh \in BOOLEAN /\ s.allowed \in BOOLEAN
           /\ ~s.valid => Offered(s) = 0
  BY DEF ParametersOK, Snapshots, Offered, Currents

\* A limit that has been computed is offered as it is, or not at all.
LEMMA ComputedOffer ==
    ASSUME ParametersOK, LimitTypes, SnapshotTypes, OfferIsGradual, NEW s \in Snapshots,
           Offers(s, TRUE), published' \in Currents, updated' = 0,
           published' <= published + Elapsed, Offered(s) \in {0, published'}
    PROVE  /\ snapshot' = s /\ stoppedFor' \in Currents /\ unslewed' \in BOOLEAN
           /\ OfferIsGradual'
<1>0. /\ MaxLimit \in Nat /\ published \in 0 .. MaxLimit /\ Elapsed \in 0 .. MaxLimit
      /\ stoppedFor \in 0 .. MaxLimit /\ unslewed \in BOOLEAN
      /\ published' \in 0 .. MaxLimit /\ Elapsed' = 0
  BY DEF ParametersOK, LimitTypes, SnapshotTypes, Currents, Elapsed, Never
<1>3. published' + Elapsed' = published'
  <2>1. \A n \in 0 .. MaxLimit : n + 0 = n
    BY <1>0
  <2> QED  BY <1>0, <2>1, Zenon
<1>1. CASE Offered(s) = 0
  <2>1. snapshot' = s /\ stoppedFor' = 0 /\ unslewed' = (published' # 0)
    BY <1>1 DEF Offers
  <2>2. unslewed' \in BOOLEAN
    BY <2>1
  <2>3. ~unslewed' => published' = 0
    BY <2>1
  <2>4. 0 \in Currents /\ Offered(snapshot') <= stoppedFor'
    BY <1>0, <1>1, <2>1 DEF Currents
  <2>5. ~unslewed' => published' + Elapsed' <= stoppedFor'
    BY <1>0, <2>1, <2>3
  <2> QED  BY <2>1, <2>2, <2>4, <2>5 DEF OfferIsGradual
<1>2. CASE Offered(s) # 0
  <2>1. snapshot' = s /\ stoppedFor' = stoppedFor /\ unslewed' = unslewed
        /\ Offered(s) = published'
    BY <1>0, <1>2 DEF Offers
  <2>2. ~unslewed => published' <= stoppedFor
    BY <1>0 DEF OfferIsGradual
  <2>3. ASSUME ~unslewed
        PROVE  Offered(snapshot') <= stoppedFor' /\ published' + Elapsed' <= stoppedFor'
    <3>1. published' <= stoppedFor'
      BY <2>1, <2>2, <2>3
    <3>2. Offered(snapshot') = published'
      BY <2>1
    <3> QED  BY <1>3, <3>1, <3>2
  <2>4. stoppedFor' \in Currents /\ unslewed' \in BOOLEAN
    BY <1>0, <2>1 DEF Currents
  <2>5. OfferIsGradual'
    BY <2>1, <2>3 DEF OfferIsGradual
  <2> QED  BY <2>1, <2>4, <2>5
<1> QED  BY <1>1, <1>2

\* A held snapshot brings back what was offered, and is not fresh.
LEMMA HeldOffer ==
    ASSUME ParametersOK, LimitTypes, SnapshotTypes, HeldIsOffered, OfferIsGradual,
           publishHeldBatteryCanSnapshot, UNCHANGED <<published, updated, lastValid>>
    PROVE  /\ SnapshotTypes' /\ HeldIsOffered' /\ OfferIsGradual'
           /\ ~(snapshot'.fresh /\ Offered(snapshot') > 0)
<1>0. /\ MaxLimit \in Nat /\ stoppedFor \in 0 .. MaxLimit /\ unslewed \in BOOLEAN
      /\ snapshot \in Snapshots /\ lastValid \in Snapshots
      /\ Offered(snapshot) \in 0 .. MaxLimit /\ Offered(lastValid) \in 0 .. MaxLimit
  BY OfferedFacts DEF ParametersOK, SnapshotTypes, Currents
<1>1. CASE ~lastValid.valid
  <2>1. UNCHANGED <<snapshot, stoppedFor, unslewed>>
    BY <1>1 DEF publishHeldBatteryCanSnapshot
  <2>2. Offered(snapshot) = 0
    BY <1>0, <1>1 DEF HeldIsOffered, Offered
  <2> QED
    BY <1>0, <2>1, <2>2 DEF SnapshotTypes, HeldIsOffered, OfferIsGradual, Elapsed
<1>2. CASE lastValid.valid
  <2> DEFINE allowed == lastValid.allowed /\ hv /\ fault = "none" /\ ~inhibited'
             s == [lastValid EXCEPT !.fresh = FALSE, !.allowed = allowed,
                                    !.current = IF allowed THEN @ ELSE 0]
  <2>1. Offers(s, FALSE)
    BY <1>2 DEF publishHeldBatteryCanSnapshot
  <2>2. allowed \in BOOLEAN /\ 0 \in Currents
    BY <1>0 DEF Currents
  <2>3. /\ s \in Snapshots /\ s.valid = TRUE /\ s.fresh = FALSE
        /\ s.allowed = allowed
        /\ s.current = IF allowed THEN lastValid.current ELSE 0
    BY <1>0, <1>2, <2>2 DEF Snapshots
  <2>4. Offered(s) \in {0, Offered(lastValid)}
    BY <1>2, <2>3 DEF Offered
  <2> HIDE DEF s
  <2>5. /\ snapshot' = s
        /\ (Offered(s) = 0) = (Offered(snapshot) = 0) =>
              stoppedFor' = stoppedFor /\ unslewed' = unslewed
        /\ stoppedFor' \in {0, stoppedFor}
        /\ (Offered(s) = 0) # (Offered(snapshot) = 0) => unslewed' = TRUE
    BY <1>0, <2>1 DEF Offers
  <2>6. SnapshotTypes'
    BY <1>0, <2>2, <2>3, <2>5 DEF SnapshotTypes, Currents
  <2>7. HeldIsOffered'
    BY <1>0, <1>2, <2>4, <2>5 DEF HeldIsOffered
  <2>8. OfferIsGradual'
    <3>1. CASE (Offered(s) = 0) = (Offered(snapshot) = 0)
      <4>1. Offered(s) \in {0, Offered(snapshot)}
        BY <1>0, <2>4, <3>1 DEF HeldIsOffered
      <4> QED  BY <1>0, <2>5, <3>1, <4>1 DEF OfferIsGradual, Elapsed
    <3>2. CASE (Offered(s) = 0) # (Offered(snapshot) = 0)
      BY <2>5, <3>2 DEF OfferIsGradual
    <3> QED  BY <3>1, <3>2
  <2> QED  BY <2>3, <2>5, <2>6, <2>7, <2>8
<1> QED  BY <1>0, <1>1, <1>2, OfferedFacts

\* A stop ends with a reading above the recovery temperature.
LEMMA TemperatureKeeps ==
    ASSUME TemperatureTypes, StopIsKnown, NEW reading \in Readings, Temperature(reading)
    PROVE  /\ TemperatureTypes' /\ StopIsKnown' /\ inhibited' = coldStopped'
<1>1. Stopped(reading) \in BOOLEAN
      /\ (reading = "clear" \/ (warmed /\ reading = "between")) \in BOOLEAN
  BY DEF Stopped
<1> QED
  BY <1>1 DEF Temperature, TemperatureTypes, StopIsKnown, Stopped, Readings

-----------------------------------------------------------------------------
(* The steps *)

\* A cycle that publishes: the limit, the offer and the guard in one.
LEMMA PublishKeeps ==
    ASSUME ParametersOK, LimitsInv, NEW reading \in Readings, Temperature(reading),
           Publish(reading # "none"), UNCHANGED <<hv, sinceSent>>
    PROVE  /\ TemperatureTypes' /\ LimitTypes' /\ SnapshotTypes' /\ TimingTypes'
           /\ fault' \in {"none", "active", "latched"}
           /\ Timing' /\ TripIsActive' /\ Offering'
           /\ fault' = "active" /\ fault # "active" => violatedFor = DwellS /\ toldMeanwhile
<1> DEFINE valid == reading # "none"
           allowed == hv /\ fault = "none" /\ ~inhibited'
<1>0. /\ BmsTypes /\ TemperatureTypes /\ LimitTypes /\ SnapshotTypes /\ TimingTypes
      /\ Timing /\ StopIsKnown /\ HeldIsOffered /\ OfferIsGradual
      /\ hv \in BOOLEAN /\ valid \in BOOLEAN
      /\ MaxLimit \in Nat /\ fault \in {"none", "active", "latched"}
  BY TypeParts DEF LimitsInv, Offering, BmsTypes, ParametersOK
<1>1. TemperatureTypes' /\ StopIsKnown' /\ inhibited' = coldStopped'
  BY <1>0, TemperatureKeeps
<1>2. PICK requested \in IF valid /\ allowed THEN Currents ELSE {0},
           violation \in IF valid /\ hv THEN BOOLEAN ELSE {FALSE},
           locked \in IF valid THEN BOOLEAN ELSE {FALSE} :
        /\ Watched(hv, valid, violation)
        /\ fault' = IF Trips(guard') THEN "active"
                    ELSE IF fault = "active" THEN "latched" ELSE fault
        /\ published' = IF Trips(guard') THEN 0
                        ELSE applyRecoverySlew(published, requested, Elapsed)
        /\ updated' = 0
        /\ IF locked
           THEN Offers([valid |-> TRUE, fresh |-> FALSE, allowed |-> FALSE, current |-> 0], TRUE)
           ELSE Offers([valid |-> valid, fresh |-> TRUE,
                        allowed |-> allowed /\ ~Trips(guard'), current |-> published'], TRUE)
        /\ lastValid' = IF valid THEN snapshot' ELSE lastValid
  BY DEF Publish
<1> HIDE DEF valid, allowed
<1>3. violation \in BOOLEAN /\ locked \in BOOLEAN /\ requested \in 0 .. MaxLimit
      /\ (locked => valid)
  <2>1. violation \in BOOLEAN /\ locked \in BOOLEAN
    BY <1>2
  <2>2. requested \in 0 .. MaxLimit
    <3>1. Currents = 0 .. MaxLimit /\ 0 \in 0 .. MaxLimit
      BY <1>0 DEF Currents
    <3> QED  BY <1>2, <3>1
  <2>3. locked => valid
    BY <1>2
  <2> QED  BY <2>1, <2>2, <2>3
<1>4. /\ TimingTypes' /\ Timing'
      /\ Trips(guard') => violatedFor = DwellS /\ toldMeanwhile
  BY <1>0, <1>2, <1>3, WatchedKeeps
<1>5. TripIsActive' /\ fault' \in {"none", "active", "latched"}
      /\ (fault' = "active" /\ fault # "active" => violatedFor = DwellS /\ toldMeanwhile)
  BY <1>0, <1>2, <1>4 DEF TripIsActive
<1>6. /\ published' \in 0 .. MaxLimit /\ published' \in Currents
      /\ published' <= published + Elapsed
      /\ LimitTypes'
  <2>1. published \in 0 .. MaxLimit /\ Elapsed \in 0 .. MaxLimit
    BY <1>0 DEF LimitTypes, Currents, Elapsed, Never
  <2>2. /\ published' \in 0 .. MaxLimit /\ published' <= published + Elapsed
    <3>1. CASE Trips(guard')
      BY <1>0, <1>2, <2>1, <3>1
    <3>2. CASE ~Trips(guard')
      BY <1>0, <1>2, <1>3, <2>1, <3>2 DEF applyRecoverySlew, Least
    <3> QED  BY <3>1, <3>2
  <2>3. 0 \in Currents
    BY <1>0 DEF Currents
  <2> QED  BY <1>2, <2>2, <2>3 DEF LimitTypes, Currents
<1>7. PICK s \in Snapshots :
        /\ Offers(s, TRUE) /\ Offered(s) \in {0, published'}
        /\ s.fresh /\ Offered(s) > 0 => ~inhibited'
        /\ s.valid => valid
  <2>1. CASE locked
    <3> DEFINE s == [valid |-> TRUE, fresh |-> FALSE, allowed |-> FALSE, current |-> 0]
    <3>1. 0 \in Currents
      BY <1>0 DEF Currents
    <3>2. s \in Snapshots /\ Offered(s) = 0 /\ s.fresh = FALSE
      BY <3>1 DEF Snapshots, Offered
    <3> QED  BY <1>2, <1>3, <2>1, <3>2
  <2>2. CASE ~locked
    <3> DEFINE a == allowed /\ ~Trips(guard')
               s == [valid |-> valid, fresh |-> TRUE, allowed |-> a, current |-> published']
    <3>1. a \in BOOLEAN /\ (a => ~inhibited')
      BY DEF allowed
    <3>2. Offers(s, TRUE)
      BY <1>2, <2>2
    <3> HIDE DEF a
    <3>3. s \in Snapshots /\ s.valid = valid
      BY <1>0, <1>6, <3>1 DEF Snapshots
    <3>4. Offered(s) = IF valid /\ a THEN published' ELSE 0
      BY DEF Offered
    <3>5. Offered(s) \in {0, published'} /\ (Offered(s) > 0 => ~inhibited')
      BY <1>6, <3>1, <3>4
    <3> QED  BY <3>2, <3>3, <3>5
  <2> QED  BY <2>1, <2>2, <1>3
<1>8. /\ snapshot' = s /\ stoppedFor' \in Currents /\ unslewed' \in BOOLEAN
      /\ OfferIsGradual'
  BY <1>0, <1>2, <1>6, <1>7, ComputedOffer
<1>9. SnapshotTypes'
  BY <1>0, <1>2, <1>7, <1>8 DEF SnapshotTypes
<1>10. HeldIsOffered'
  <2>1. CASE valid
    BY <1>2, <1>8, <2>1 DEF HeldIsOffered
  <2>2. CASE ~valid
    <3>1. ~snapshot'.valid /\ Offered(snapshot') = 0
      BY <1>7, <1>8, <2>2 DEF Offered
    <3> QED  BY <3>1 DEF HeldIsOffered
  <2> QED  BY <2>1, <2>2
<1>11. OfferNeedsRecovery'
  BY <1>1, <1>7, <1>8 DEF OfferNeedsRecovery, StopIsKnown
<1> QED
  BY <1>1, <1>4, <1>5, <1>6, <1>8, <1>9, <1>10, <1>11 DEF Offering

\* The steps of the BMS task that publish a limit, and those that do not.
Publishes ==
    \E reading \in Readings : Cycle(reading) \/ Start(reading)
Holds ==
    FailEarly \/ \E reading \in Readings : FailLate(reading) \/ StartFails(reading)

\* A published cycle keeps the invariant, and a trip in it comes after the dwell.
LEMMA PublishesStep ==
    ASSUME ParametersOK, LimitsInv, Publishes
    PROVE  LimitsInv' /\ TripsOnlyAfterDwell
<1>1. PICK reading \in Readings : Cycle(reading) \/ Start(reading)
  BY DEF Publishes
<1>2. /\ Temperature(reading) /\ Publish(reading # "none") /\ UNCHANGED <<hv, sinceSent>>
      /\ failures' = 0 /\ running' \in {running, TRUE}
  BY <1>1 DEF Cycle, Start
<1>3. BmsTypes' /\ StartsAfresh'
  <2>1. BmsTypes /\ fault' \in {"none", "active", "latched"}
    BY <1>2, PublishKeeps, TypeParts DEF LimitsInv
  <2>2. running' \in BOOLEAN /\ 0 \in 0 .. TripCount
    <3>1. running \in BOOLEAN /\ 0 \in 0 .. TripCount
      BY <2>1 DEF BmsTypes, TripCount
    <3> QED  BY <1>2, <3>1
  <2> QED  BY <1>2, <2>1, <2>2 DEF BmsTypes, StartsAfresh
<1> QED
  BY <1>2, <1>3, PublishKeeps, TypeParts DEF LimitsInv, TripsOnlyAfterDwell

\* A cycle that holds the last snapshot keeps the invariant, and decides no trip.
LEMMA HoldsStep ==
    ASSUME ParametersOK, LimitsInv, Holds
    PROVE  LimitsInv' /\ fault' = fault
<1>0. /\ BmsTypes /\ TemperatureTypes /\ LimitTypes /\ SnapshotTypes /\ TimingTypes
      /\ Timing /\ TripIsActive /\ StopIsKnown /\ HeldIsOffered /\ OfferIsGradual
      /\ hv \in BOOLEAN
  BY TypeParts DEF LimitsInv, Offering, BmsTypes
<1>1. /\ publishHeldBatteryCanSnapshot
      /\ UNCHANGED <<hv, fault, published, updated, lastValid, sinceSent>>
  BY DEF Holds, FailEarly, FailLate, StartFails, canVars
<1>2. SnapshotTypes' /\ HeldIsOffered' /\ OfferIsGradual' /\ OfferNeedsRecovery'
  <2>1. /\ SnapshotTypes' /\ HeldIsOffered' /\ OfferIsGradual'
        /\ ~(snapshot'.fresh /\ Offered(snapshot') > 0)
    BY <1>0, <1>1, HeldOffer
  <2> QED  BY <2>1 DEF OfferNeedsRecovery
<1>3. BmsTypes' /\ StartsAfresh'
  <2>1. /\ failures' = failures + 1 /\ (failures + 1 < TripCount \/ ~running)
        /\ running' = TRUE
    <3>1. CASE Fails /\ UNCHANGED running
      BY <1>0, <3>1 DEF Fails, BmsTypes
    <3>2. CASE ~running /\ running' = TRUE /\ failures' = failures + 1
      BY <3>2
    <3> QED  BY <3>1, <3>2 DEF Holds, FailEarly, FailLate, StartFails
  <2>2. failures' \in 0 .. TripCount
    BY <1>0, <2>1 DEF BmsTypes, TripCount, LimitsInv, StartsAfresh
  <2> QED  BY <1>0, <1>1, <2>1, <2>2 DEF BmsTypes, StartsAfresh
<1>4. LimitTypes'
  BY <1>0, <1>1 DEF LimitTypes
<1>5. TemperatureTypes' /\ StopIsKnown'
  <2>1. CASE FailEarly
    BY <1>0, <2>1 DEF FailEarly, TemperatureTypes, StopIsKnown
  <2>2. CASE \E reading \in Readings : Temperature(reading)
    BY <1>0, <2>2, TemperatureKeeps
  <2>3. CASE UNCHANGED <<coldStopped, inhibited, warmed>>
    BY <1>0, <2>3 DEF TemperatureTypes, StopIsKnown
  <2> QED  BY <2>1, <2>2, <2>3 DEF Holds, FailLate, StartFails
<1>6. TimingTypes' /\ Timing' /\ TripIsActive'
  <2>1. CASE FailEarly
    BY <1>0, <1>1, <2>1, WatchedKeeps DEF FailEarly, TripIsActive
  <2>2. CASE ~FailEarly
    <3>1. UNCHANGED <<guard, outgoing, violatedFor, chain, toldMeanwhile>>
      BY <2>2 DEF Holds, FailLate, StartFails, canVars
    <3> QED
      BY <1>0, <1>1, <3>1
         DEF TimingTypes, Timing, IdleTimer, AccruedIsViolated, ToldInTime, ChainAccrued,
             TripIsActive
  <2> QED  BY <2>1, <2>2
<1> QED
  BY <1>1, <1>2, <1>3, <1>4, <1>5, <1>6, TypeParts DEF LimitsInv, Offering

\* The chain is to be started anew: nothing is offered and nothing is tracked.
LEMMA RestartStep ==
    ASSUME ParametersOK, LimitsInv, NEW publishes \in BOOLEAN, Restart(publishes)
    PROVE  LimitsInv' /\ (fault' = "active" => fault = "active")
<1>0. /\ BmsTypes /\ TemperatureTypes /\ LimitTypes /\ SnapshotTypes /\ TimingTypes
      /\ Timing /\ MaxLimit \in Nat /\ 0 \in Currents
  BY TypeParts DEF LimitsInv, ParametersOK, Currents
<1>1. /\ Watched(FALSE, FALSE, FALSE) /\ UNCHANGED <<hv, inhibited, sinceSent>>
      /\ running' = FALSE /\ failures' = 0 /\ published' = 0 /\ updated' \in {0, Never}
      /\ coldStopped' = TRUE /\ warmed' = FALSE
      /\ snapshot' = NoSnapshot /\ lastValid' = NoSnapshot
      /\ stoppedFor' = 0 /\ unslewed' = FALSE
      /\ fault' = "latched" \/ fault' = fault
  BY DEF Restart
<1>2. TimingTypes' /\ Timing' /\ ~Trips(guard')
  BY <1>0, <1>1, WatchedKeeps
<1>3. BmsTypes' /\ StartsAfresh'
  <2>1. running' \in BOOLEAN /\ hv' \in BOOLEAN
    BY <1>0, <1>1 DEF BmsTypes
  <2>2. fault' \in {"none", "active", "latched"}
    BY <1>0, <1>1 DEF BmsTypes
  <2>3. failures' \in 0 .. TripCount /\ failures' = 0
    BY <1>1 DEF TripCount
  <2> QED  BY <2>1, <2>2, <2>3 DEF BmsTypes, StartsAfresh
<1>4. TemperatureTypes' /\ LimitTypes'
  BY <1>0, <1>1 DEF TemperatureTypes, LimitTypes
<1>5. NoSnapshot \in Snapshots /\ Offered(NoSnapshot) = 0 /\ NoSnapshot.valid = FALSE
  BY <1>0 DEF NoSnapshot, Snapshots, Offered
<1>6. SnapshotTypes'
  BY <1>0, <1>1, <1>5 DEF SnapshotTypes
<1>7. Offering'
  <2>1. Elapsed' = 0
    BY <1>1 DEF Elapsed, Never
  <2>2. Offered(snapshot') = 0 /\ ~(Offered(snapshot') > 0)
    BY <1>1, <1>5
  <2>3. OfferIsGradual'
    BY <1>1, <2>1, <2>2 DEF OfferIsGradual
  <2>4. HeldIsOffered' /\ OfferNeedsRecovery' /\ StopIsKnown'
    BY <1>1, <1>5, <2>2 DEF HeldIsOffered, OfferNeedsRecovery, StopIsKnown
  <2> QED  BY <2>3, <2>4 DEF Offering
<1> QED
  BY <1>1, <1>2, <1>3, <1>4, <1>6, <1>7, TypeParts DEF LimitsInv, TripIsActive

\* The CAN task.
LEMMA CanStep ==
    ASSUME ParametersOK, LimitsInv, makeCodecData \/ sendEncodedFrame
    PROVE  LimitsInv' /\ fault' = fault
<1>0. /\ BmsTypes /\ TemperatureTypes /\ LimitTypes /\ SnapshotTypes /\ TimingTypes
      /\ Timing /\ Offering /\ TripIsActive /\ StartsAfresh
      /\ guard.tracking \in BOOLEAN /\ violatedFor \in 0 .. DwellS /\ DwellS \in Nat
      /\ sinceSent \in 0 .. 1 /\ PeriodS = 1 /\ toldMeanwhile \in BOOLEAN
      /\ snapshot.valid \in BOOLEAN
  BY TypeParts, GuardFields, OfferedFacts DEF LimitsInv, TimingTypes, SnapshotTypes
<1>1. UNCHANGED <<bmsVars, limitVars, snapshotVars, violatedFor, chain, warmed, stoppedFor,
                  unslewed>>
  BY DEF makeCodecData, sendEncodedFrame
<1>2. BmsTypes' /\ TemperatureTypes' /\ LimitTypes' /\ SnapshotTypes' /\ StartsAfresh'
      /\ TripIsActive'
  BY <1>0, <1>1
     DEF bmsVars, limitVars, snapshotVars, BmsTypes, TemperatureTypes, LimitTypes,
         SnapshotTypes, TripIsActive, StartsAfresh
<1>3. Offering'
  BY <1>0, <1>1
     DEF bmsVars, limitVars, snapshotVars, Offering, StopIsKnown, HeldIsOffered,
         OfferIsGradual, OfferNeedsRecovery, Elapsed
<1>4. guard' = guard /\ violatedFor' = violatedFor /\ chain' = chain
  BY <1>1 DEF limitVars
<1>5. /\ toldMeanwhile' \in BOOLEAN /\ (guard.tracking = FALSE => toldMeanwhile' = FALSE)
      /\ outgoing' \in {"none", "old", "new"} /\ sinceSent' \in 0 .. 1
      /\ ToldInTime'
  <2>1. CASE makeCodecData
    <3>1. /\ outgoing = "none" /\ sinceSent' = 0
          /\ outgoing' = IF ~snapshot.valid THEN "none"
                         ELSE IF guard.tracking THEN "new" ELSE "old"
          /\ toldMeanwhile' = (toldMeanwhile \/ (~snapshot.valid /\ guard.tracking))
      BY <2>1 DEF makeCodecData
    <3>2. toldMeanwhile' \in BOOLEAN /\ (guard.tracking = FALSE => toldMeanwhile' = FALSE)
      BY <1>0, <3>1 DEF Timing, IdleTimer
    <3>3. ToldInTime'
      <4>1. CASE guard.tracking /\ ~toldMeanwhile
        <5>1. violatedFor <= 1
          BY <1>0, <3>1, <4>1 DEF Timing, ToldInTime
        <5>2. toldMeanwhile' \/ outgoing' = "new"
          BY <3>1, <4>1
        <5> QED  BY <1>0, <1>4, <4>1, <5>1, <5>2 DEF ToldInTime
      <4>2. CASE guard.tracking /\ toldMeanwhile
        BY <1>4, <3>1, <4>2 DEF ToldInTime
      <4>3. CASE ~guard.tracking
        BY <1>4, <3>1, <4>3 DEF ToldInTime
      <4> QED  BY <4>1, <4>2, <4>3
    <3> QED  BY <1>0, <3>1, <3>2, <3>3
  <2>2. CASE sendEncodedFrame
    <3>1. /\ outgoing' = "none" /\ sinceSent' = sinceSent
          /\ toldMeanwhile' = (toldMeanwhile \/ outgoing = "new")
      BY <2>2 DEF sendEncodedFrame
    <3>2. toldMeanwhile' \in BOOLEAN /\ (guard.tracking = FALSE => toldMeanwhile' = FALSE)
      BY <1>0, <3>1 DEF Timing, IdleTimer, ToldInTime
    <3>3. ToldInTime'
      <4>1. ASSUME guard.tracking, ~toldMeanwhile' PROVE violatedFor <= sinceSent
        <5>1. ~toldMeanwhile /\ outgoing # "new"
          BY <1>0, <3>1, <4>1
        <5> QED  BY <1>0, <4>1, <5>1 DEF Timing, ToldInTime
      <4> QED  BY <1>4, <3>1, <4>1 DEF ToldInTime
    <3> QED  BY <1>0, <3>1, <3>2, <3>3
  <2> QED  BY <2>1, <2>2
<1>6. TimingTypes'
  BY <1>0, <1>4, <1>5 DEF TimingTypes
<1>7. Timing'
  BY <1>0, <1>4, <1>5 DEF Timing, IdleTimer, AccruedIsViolated, ChainAccrued
<1> QED
  BY <1>1, <1>2, <1>3, <1>6, <1>7, TypeParts DEF LimitsInv, bmsVars

\* The high voltage and the operator's acknowledgement.
LEMMA HvStep ==
    ASSUME ParametersOK, LimitsInv, HvCloses \/ HvOpens \/ Acknowledge
    PROVE  LimitsInv' /\ (fault' = "active" => fault = "active")
<1>1. /\ UNCHANGED <<running, failures, limitVars, snapshotVars, canVars, historyVars>>
      /\ hv' \in BOOLEAN /\ fault' \in {"none", "active", "latched"}
      /\ fault' = fault \/ (fault = "latched" /\ fault' = "none")
  BY TypeParts DEF HvCloses, HvOpens, Acknowledge, LimitsInv, BmsTypes
<1>2. /\ BmsTypes /\ TemperatureTypes /\ LimitTypes /\ SnapshotTypes /\ TimingTypes
  BY TypeParts DEF LimitsInv
<1>3. BmsTypes' /\ TemperatureTypes' /\ LimitTypes' /\ SnapshotTypes' /\ TimingTypes'
  BY <1>1, <1>2
     DEF limitVars, snapshotVars, canVars, historyVars, BmsTypes, TemperatureTypes,
         LimitTypes, SnapshotTypes, TimingTypes
<1>4. Offering' /\ Timing' /\ StartsAfresh'
  BY <1>1
     DEF limitVars, snapshotVars, canVars, historyVars, LimitsInv, Offering, StopIsKnown,
         HeldIsOffered, OfferIsGradual, OfferNeedsRecovery, Elapsed, Timing, IdleTimer,
         AccruedIsViolated, ToldInTime, ChainAccrued, StartsAfresh
<1>5. TripIsActive'
  BY <1>1 DEF limitVars, LimitsInv, TripIsActive
<1> QED  BY <1>1, <1>3, <1>4, <1>5, TypeParts DEF LimitsInv

\* A second passes.
LEMMA ElapseStep ==
    ASSUME ParametersOK, LimitsInv, Elapse
    PROVE  LimitsInv' /\ fault' = fault
<1>0. /\ BmsTypes /\ TemperatureTypes /\ LimitTypes /\ SnapshotTypes /\ TimingTypes
      /\ Timing /\ Offering /\ TripIsActive /\ StartsAfresh
      /\ guard.tracking \in BOOLEAN /\ guard.previousValid \in BOOLEAN
      /\ guard.elapsed \in 0 .. DwellS /\ guard.previous \in 0 .. 2
      /\ DwellS \in Nat /\ DwellS >= 2 /\ violatedFor \in 0 .. DwellS
      /\ chain \in 0 .. DwellS /\ sinceSent \in 0 .. 1
      /\ MaximumSampleGapS = 1 /\ PeriodS = 1
      /\ guard \in Guards /\ MaxLimit \in Nat
  BY TypeParts, GuardFields DEF LimitsInv, TimingTypes, ParametersOK
<1>1. /\ sinceSent = 0 /\ sinceSent' = 1 /\ outgoing = "none" /\ outgoing' = "none"
      /\ updated' = IF updated = Never THEN Never ELSE Least(MaxLimit, updated + 1)
      /\ guard' = [guard EXCEPT !.previous =
                      IF guard.tracking THEN Least(MaximumSampleGapS + 1, @ + 1) ELSE 0]
      /\ violatedFor' = IF guard.tracking THEN Least(DwellS, violatedFor + 1) ELSE 0
      /\ chain' = IF guard.tracking THEN Least(DwellS, chain + 1) ELSE 0
      /\ stoppedFor' = Least(MaxLimit, stoppedFor + 1)
      /\ UNCHANGED <<bmsVars, published, coldStopped, inhibited, snapshotVars, toldMeanwhile,
                     warmed, unslewed>>
  BY <1>0 DEF Elapse
<1>2. /\ guard'.tracking = guard.tracking /\ guard'.elapsed = guard.elapsed
      /\ guard'.previousValid = guard.previousValid
      /\ guard'.previous = IF guard.tracking THEN Least(2, guard.previous + 1) ELSE 0
  BY <1>0, <1>1 DEF Guards
<1>3. TimingTypes'
  <2>1. (IF guard.tracking THEN Least(2, guard.previous + 1) ELSE 0) \in 0 .. 2
    BY <1>0 DEF Least
  <2>2. guard' \in Guards
    BY <1>0, <1>1, <2>1 DEF Guards
  <2>3. violatedFor' \in 0 .. DwellS /\ chain' \in 0 .. DwellS
    BY <1>0, <1>1 DEF Least
  <2>4. outgoing' \in {"none", "old", "new"} /\ sinceSent' \in 0 .. PeriodS
    BY <1>0, <1>1
  <2> QED  BY <1>0, <1>1, <2>2, <2>3, <2>4 DEF TimingTypes
<1>4. ASSUME ~guard.tracking PROVE Timing'
  <2>1. guard = NoTimer /\ violatedFor = 0 /\ chain = 0 /\ ~toldMeanwhile
    BY <1>0, <1>4 DEF Timing, IdleTimer
  <2>2. guard' = NoTimer
    BY <1>1, <1>4, <2>1 DEF NoTimer
  <2>3. violatedFor' = 0 /\ chain' = 0 /\ ~toldMeanwhile' /\ ~guard'.tracking
        /\ guard'.previousValid = FALSE /\ guard'.elapsed = 0 /\ guard'.previous = 0
    BY <1>1, <1>2, <1>4, <2>1, <2>2 DEF NoTimer
  <2> QED
    BY <1>1, <2>2, <2>3
       DEF Timing, IdleTimer, AccruedIsViolated, ToldInTime, ChainAccrued
<1>5. ASSUME guard.tracking PROVE Timing'
  <2>1. /\ guard'.previous = Least(2, guard.previous + 1)
        /\ violatedFor' = Least(DwellS, violatedFor + 1)
        /\ chain' = Least(DwellS, chain + 1)
        /\ guard'.tracking
    BY <1>1, <1>2, <1>5
  <2>2. AccruedIsViolated'
    <3>1. guard'.previous <= guard.previous + 1
      BY <1>0, <2>1 DEF Least
    <3> QED  BY <1>0, <1>2, <2>1, <3>1 DEF Timing, AccruedIsViolated, Least
  <2>3. ToldInTime'
    <3>1. ASSUME ~toldMeanwhile PROVE violatedFor' <= sinceSent'
      <4>1. violatedFor <= 0
        BY <1>0, <1>1, <1>5, <3>1 DEF Timing, ToldInTime
      <4> QED  BY <1>0, <1>1, <2>1, <4>1 DEF Least
    <3> QED  BY <1>1, <3>1 DEF ToldInTime
  <2>4. ChainAccrued'
    <3>1. SUFFICES ASSUME guard.previousValid, guard'.previous <= 1
                   PROVE  chain' <= guard.elapsed + guard'.previous
      BY <1>0, <1>2 DEF ChainAccrued
    <3>2. guard.previous = 0 /\ guard'.previous = 1
      BY <1>0, <2>1, <3>1 DEF Least
    <3>3. chain <= guard.elapsed
      BY <1>0, <3>1, <3>2 DEF Timing, ChainAccrued
    <3> QED  BY <1>0, <2>1, <3>2, <3>3 DEF Least
  <2> QED  BY <2>1, <2>2, <2>3, <2>4 DEF Timing, IdleTimer
<1>6. BmsTypes' /\ TemperatureTypes' /\ StartsAfresh' /\ fault' = fault
  BY <1>0, <1>1 DEF bmsVars, BmsTypes, TemperatureTypes, StartsAfresh
<1>7. /\ published \in 0 .. MaxLimit /\ stoppedFor \in 0 .. MaxLimit
      /\ Elapsed \in 0 .. MaxLimit /\ Elapsed' \in 0 .. MaxLimit /\ Elapsed' <= Elapsed + 1
      /\ updated' \in {Never} \cup Currents
      /\ stoppedFor' \in 0 .. MaxLimit /\ stoppedFor' = Least(MaxLimit, stoppedFor + 1)
      /\ unslewed \in BOOLEAN
  <2>1. /\ published \in 0 .. MaxLimit /\ stoppedFor \in 0 .. MaxLimit
        /\ updated \in {-1} \cup 0 .. MaxLimit /\ unslewed \in BOOLEAN
    BY <1>0 DEF LimitTypes, SnapshotTypes, Currents, Never
  <2>2. updated' \in {Never} \cup Currents
        /\ (updated = -1 => updated' = -1)
        /\ (updated # -1 => updated' \in 0 .. MaxLimit /\ updated' <= updated + 1)
    BY <1>0, <1>1, <2>1 DEF Least, Currents, Never
  <2>3. Elapsed \in 0 .. MaxLimit /\ Elapsed' \in 0 .. MaxLimit /\ Elapsed' <= Elapsed + 1
    BY <1>0, <2>1, <2>2 DEF Elapsed, Never
  <2>4. stoppedFor' \in 0 .. MaxLimit /\ stoppedFor' = Least(MaxLimit, stoppedFor + 1)
    BY <1>0, <1>1, <2>1 DEF Least
  <2> QED  BY <2>1, <2>2, <2>3, <2>4
<1>8. LimitTypes' /\ SnapshotTypes'
  BY <1>0, <1>1, <1>7 DEF LimitTypes, SnapshotTypes, Currents, snapshotVars
<1>9. Offering'
  <2>1. snapshot' = snapshot /\ lastValid' = lastValid /\ published' = published
        /\ unslewed' = unslewed /\ warmed' = warmed /\ coldStopped' = coldStopped
    BY <1>1 DEF snapshotVars
  <2>2. StopIsKnown' /\ HeldIsOffered' /\ OfferNeedsRecovery'
    BY <1>0, <2>1 DEF Offering, StopIsKnown, HeldIsOffered, OfferNeedsRecovery
  <2>3. Offered(snapshot) \in 0 .. MaxLimit
    BY <1>0, OfferedFacts DEF SnapshotTypes
  <2>4. ASSUME ~unslewed
        PROVE  /\ Offered(snapshot) <= stoppedFor'
               /\ published + Elapsed' <= stoppedFor' \/ stoppedFor' = MaxLimit
    <3>1. /\ Offered(snapshot) <= stoppedFor
          /\ published + Elapsed <= stoppedFor \/ stoppedFor = MaxLimit
      BY <1>0, <2>4 DEF Offering, OfferIsGradual
    <3>2. \/ stoppedFor' = stoppedFor + 1 /\ stoppedFor + 1 <= MaxLimit
          \/ stoppedFor' = MaxLimit /\ stoppedFor <= MaxLimit
      BY <1>0, <1>7 DEF Least
    <3>3. Offered(snapshot) <= stoppedFor'
      BY <1>0, <1>7, <2>3, <3>1, <3>2
    <3>4. published + Elapsed' <= stoppedFor' \/ stoppedFor' = MaxLimit
      <4>1. CASE stoppedFor = MaxLimit
        BY <1>0, <3>2, <4>1
      <4>2. CASE published + Elapsed <= stoppedFor
        <5>0. \A p, e, f, s \in 0 .. MaxLimit :
                 f <= e + 1 /\ p + e <= s => p + f <= s + 1
          BY <1>0
        <5>1. published + Elapsed' <= stoppedFor + 1
          BY <1>7, <4>2, <5>0, Zenon
        <5> QED  BY <3>2, <5>1
      <4> QED  BY <3>1, <4>1, <4>2
    <3> QED  BY <3>3, <3>4
  <2>5. OfferIsGradual'
    BY <2>1, <2>4 DEF OfferIsGradual
  <2> QED  BY <2>2, <2>5 DEF Offering
<1>10. TripIsActive'
  BY <1>0, <1>2, <1>6 DEF TripIsActive, Trips
<1> QED
  BY <1>3, <1>4, <1>5, <1>6, <1>8, <1>9, <1>10, TypeParts DEF LimitsInv

-----------------------------------------------------------------------------
(* The theorems *)

\* The chain is being started, nothing is offered, and nothing is violated.
LEMMA LimitsInit ==
    ASSUME ParametersOK, Init PROVE LimitsInv
<1>0. 0 \in Currents /\ 0 \in 0 .. DwellS /\ DwellS # 0 /\ MaxLimit \in Nat
      /\ 0 \in 0 .. PeriodS /\ 0 \in 0 .. TripCount /\ 0 \in 0 .. MaximumSampleGapS + 1
  BY DEF ParametersOK, Currents, PeriodS, TripCount, MaximumSampleGapS
<1>1. NoSnapshot \in Snapshots /\ Offered(NoSnapshot) = 0 /\ NoSnapshot.valid = FALSE
  BY <1>0 DEF NoSnapshot, Snapshots, Offered
<1>2. NoTimer \in Guards /\ NoTimer.tracking = FALSE /\ NoTimer.elapsed = 0
      /\ NoTimer.previous = 0 /\ NoTimer.previousValid = FALSE
  BY <1>0 DEF NoTimer, Guards
<1>3. BmsTypes /\ TemperatureTypes /\ LimitTypes /\ StartsAfresh
  BY <1>0 DEF Init, BmsTypes, TemperatureTypes, LimitTypes, StartsAfresh
<1>4. SnapshotTypes
  BY <1>0, <1>1 DEF Init, SnapshotTypes
<1>5. TimingTypes
  BY <1>0, <1>2 DEF Init, TimingTypes
<1>6. Timing /\ TripIsActive
  BY <1>2 DEF Init, Timing, IdleTimer, AccruedIsViolated, ToldInTime, ChainAccrued,
              TripIsActive, Trips
<1>7. Offering
  <2>1. Elapsed = 0
    BY DEF Init, Elapsed
  <2> QED
    BY <1>1, <2>1 DEF Init, Offering, StopIsKnown, HeldIsOffered, OfferIsGradual,
                      OfferNeedsRecovery
<1> QED  BY <1>3, <1>4, <1>5, <1>6, <1>7, TypeParts DEF LimitsInv

\* Every step keeps the invariant, and trips only for a violation that has lasted.
LEMMA LimitsStep ==
    ASSUME ParametersOK, LimitsInv, [Next]_vars
    PROVE  LimitsInv' /\ TripsOnlyAfterDwell
<1>1. CASE Publishes
  BY <1>1, PublishesStep
<1>2. CASE Holds
  BY <1>2, HoldsStep DEF TripsOnlyAfterDwell
<1>3. CASE \E publishes \in BOOLEAN : Restart(publishes)
  BY <1>3, RestartStep DEF TripsOnlyAfterDwell
<1>4. CASE makeCodecData \/ sendEncodedFrame
  BY <1>4, CanStep DEF TripsOnlyAfterDwell
<1>5. CASE HvCloses \/ HvOpens \/ Acknowledge
  BY <1>5, HvStep DEF TripsOnlyAfterDwell
<1>6. CASE Elapse
  BY <1>6, ElapseStep DEF TripsOnlyAfterDwell
<1>7. CASE UNCHANGED vars
  <2>1. BmsTypes /\ TemperatureTypes /\ LimitTypes /\ SnapshotTypes /\ TimingTypes
    BY TypeParts DEF LimitsInv
  <2>2. UNCHANGED <<bmsVars, limitVars, snapshotVars, canVars, historyVars>>
    BY <1>7 DEF vars
  <2>3. BmsTypes' /\ TemperatureTypes' /\ LimitTypes' /\ SnapshotTypes' /\ TimingTypes'
        /\ StartsAfresh'
    BY <2>1, <2>2
       DEF bmsVars, limitVars, snapshotVars, canVars, historyVars, BmsTypes,
           TemperatureTypes, LimitTypes, SnapshotTypes, TimingTypes, LimitsInv, StartsAfresh
  <2>4. Offering' /\ Timing' /\ TripIsActive' /\ fault' = fault
    BY <2>2
       DEF bmsVars, limitVars, snapshotVars, canVars, historyVars, LimitsInv, Offering,
           StopIsKnown, HeldIsOffered, OfferIsGradual, OfferNeedsRecovery, Elapsed, Timing,
           IdleTimer, AccruedIsViolated, ToldInTime, ChainAccrued, TripIsActive
  <2> QED  BY <2>3, <2>4, TypeParts DEF LimitsInv, TripsOnlyAfterDwell
<1> QED
  BY <1>1, <1>2, <1>3, <1>4, <1>5, <1>6, <1>7 DEF Next, Publishes, Holds

\* In a state of the invariant the history of a full chain is a tripped guard.
LEMMA ChainTrips ==
    ASSUME ParametersOK, LimitsInv, chain = DwellS, guard.previousValid, guard.previous = 0
    PROVE  fault # "none"
<1>1. guard.elapsed \in 0 .. DwellS /\ DwellS \in Nat /\ MaximumSampleGapS = 1
  BY GuardFields, TypeParts DEF LimitsInv
<1>2. guard.elapsed = DwellS
  BY <1>1 DEF LimitsInv, Timing, ChainAccrued
<1> QED  BY <1>2 DEF LimitsInv, TripIsActive, Trips

\* The inductive invariant of the limits and the guard holds in every reachable state.
THEOREM LimitsInvariance == ASSUME ParametersOK PROVE Spec => []LimitsInv
<1>1. Init => LimitsInv
  BY LimitsInit
<1>2. LimitsInv /\ [Next]_vars => LimitsInv'
  BY LimitsStep
<1> QED  BY <1>1, <1>2, PTL DEF Spec

\* Every variable of the limits and the guard keeps its type.
THEOREM LimitsTypes == ASSUME ParametersOK PROVE Spec => []TypeOK
<1>1. LimitsInv => TypeOK
  BY DEF LimitsInv
<1> QED  BY <1>1, LimitsInvariance, PTL

\* A current is newly offered only after a reading above the recovery temperature.
THEOREM OfferFollowsRecovery == ASSUME ParametersOK PROVE Spec => []OfferNeedsRecovery
<1>1. LimitsInv => OfferNeedsRecovery
  BY DEF LimitsInv, Offering
<1> QED  BY <1>1, LimitsInvariance, PTL

\* An offer is no more than has had time to recover since nothing was offered, unless a held
\* or a locked snapshot made it come or go.
THEOREM OfferRecoversGradually == ASSUME ParametersOK PROVE Spec => []RecoveryIsGradual
<1>1. LimitsInv => RecoveryIsGradual
  BY DEF LimitsInv, Offering, OfferIsGradual, RecoveryIsGradual
<1> QED  BY <1>1, LimitsInvariance, PTL

\* In every step the invariant makes, also one that changes nothing here, the guard is right.
LEMMA GuardIsRight ==
    ASSUME ParametersOK
    PROVE  LimitsInv /\ LimitsInv' /\ [Next]_vars
             => TripsOnlyAfterDwell /\ SustainedViolationTrips
<1>1. LimitsInv /\ chain = DwellS /\ guard.previousValid /\ guard.previous = 0
        => fault # "none"
  BY ChainTrips
<1>2. (LimitsInv /\ chain = DwellS /\ guard.previousValid /\ guard.previous = 0
         => fault # "none")'
  BY <1>1, PTL
<1> QED  BY <1>2, LimitsStep DEF SustainedViolationTrips

\* The guard trips only after a dwell without compliance in which the inverter was told, and
\* it does trip when the samples of a whole dwell violate.
THEOREM GuardTripsRightly ==
    ASSUME ParametersOK
    PROVE  Spec => [][TripsOnlyAfterDwell /\ SustainedViolationTrips]_vars
<1>1. LimitsInv /\ LimitsInv' /\ [Next]_vars
        => [TripsOnlyAfterDwell /\ SustainedViolationTrips]_vars
  BY GuardIsRight
<1> QED  BY <1>1, LimitsInvariance, PTL DEF Spec

=============================================================================
