---------------------------- MODULE CurrentLimits ----------------------------
(***************************************************************************)
(* The charging current the inverter is offered, and the guard that opens  *)
(* the contactors when it takes more.  The BCC task computes the limit in  *)
(* each measuring cycle, judges the measured current by it, and leaves it  *)
(* in a snapshot that the CAN task sends once a second.  Cycles that fail  *)
(* hold the last snapshot; the third in a row starts the monitors again.   *)
(*                                                                         *)
(* A unit of current is what a limit recovers in a second, a tenth of the  *)
(* configured maximum; tolerances and rounding are less than a unit.  Time *)
(* passes in seconds and cycles take none.  Discharging goes as charging   *)
(* does, with a timer of its own, and the hot stop as the cold one; they   *)
(* are not here.  External: the current, the temperature, and which cycles *)
(* fail.  The high voltage closes again only after a cycle has seen it     *)
(* open: precharging takes seconds.                                        *)
(***************************************************************************)
EXTENDS Integers

CONSTANTS MaxLimit,     \* CHARGE_CURRENT_LIMIT, in units
          DwellS        \* DwellMs, in seconds

MaximumSampleGapS == 1
PeriodS == 1            \* GOODWE_CAN_PERIOD_MS
TripCount == 3          \* kCommunicationFailureTripCount

VARIABLES
    running,        \* currentState is RUNNING
    hv,             \* PCC::getPCCState() is RUN
    fault,          \* InverterCurrentLimit, in the FaultManager
    failures,       \* consecutiveCommunicationFailures
    published,      \* publishedChargeCurrentLimitA
    updated,        \* seconds since currentLimitUpdatedAtMs, Never before the first
    coldStopped,    \* of temperatureController
    inhibited,      \* chargeTemperatureInhibit
    guard,          \* the Timer; previous is in seconds ago
    snapshot,       \* latestBatteryCanSnapshot
    lastValid,      \* lastValidBatteryCanSnapshot
    outgoing,       \* the CAN task's copy of the snapshot
    sinceSent,      \* seconds since it last made one
    \* history
    violatedFor,    \* seconds since the last valid sample that complied
    chain,          \* seconds covered by violating samples without a gap
    toldMeanwhile,  \* the CAN task has sent a limit published since, or fallen silent
    warmed,         \* a good reading has cleared the last cold stop
    stoppedFor,     \* seconds since nothing was offered, at the last computation
    unslewed        \* the offer went or came back beside publishedChargeCurrentLimitA

bmsVars == <<running, hv, fault, failures>>
limitVars == <<published, updated, coldStopped, inhibited, guard>>
snapshotVars == <<snapshot, lastValid>>
canVars == <<outgoing, sinceSent>>
historyVars == <<violatedFor, chain, toldMeanwhile, warmed, stoppedFor, unslewed>>
vars == <<bmsVars, limitVars, snapshotVars, canVars, historyVars>>

Least(a, b) == IF a <= b THEN a ELSE b
Never == -1
Currents == 0 .. MaxLimit
Snapshots == [valid : BOOLEAN, fresh : BOOLEAN, allowed : BOOLEAN, current : Currents]
NoSnapshot == [valid |-> FALSE, fresh |-> FALSE, allowed |-> FALSE, current |-> 0]
NoTimer == [tracking |-> FALSE, elapsed |-> 0, previous |-> 0, previousValid |-> FALSE]
\* effectiveChargeCurrent: what the inverter reads of a snapshot.
Offered(s) == IF s.valid /\ s.allowed THEN s.current ELSE 0

TypeOK ==
    /\ running \in BOOLEAN /\ hv \in BOOLEAN
    /\ fault \in {"none", "active", "latched"}
    /\ failures \in 0 .. TripCount
    /\ published \in Currents /\ updated \in {Never} \cup Currents
    /\ coldStopped \in BOOLEAN /\ inhibited \in BOOLEAN
    /\ guard \in [tracking : BOOLEAN, elapsed : 0 .. DwellS,
                  previous : 0 .. MaximumSampleGapS + 1, previousValid : BOOLEAN]
    /\ snapshot \in Snapshots /\ lastValid \in Snapshots
    /\ outgoing \in {"none", "old", "new"} /\ sinceSent \in 0 .. PeriodS
    /\ violatedFor \in 0 .. DwellS /\ chain \in 0 .. DwellS
    /\ toldMeanwhile \in BOOLEAN /\ warmed \in BOOLEAN
    /\ stoppedFor \in Currents /\ unslewed \in BOOLEAN

Init ==
    /\ running = FALSE /\ hv = FALSE /\ fault = "none" /\ failures = 0
    /\ published = 0 /\ updated = Never
    /\ coldStopped = TRUE /\ inhibited = FALSE /\ guard = NoTimer
    /\ snapshot = NoSnapshot /\ lastValid = NoSnapshot
    /\ outgoing = "none" /\ sinceSent = 0
    /\ violatedFor = 0 /\ chain = 0 /\ toldMeanwhile = FALSE
    /\ warmed = FALSE /\ stoppedFor = 0 /\ unslewed = FALSE

-----------------------------------------------------------------------------
(* TemperatureLimits::Controller                                           *)

\* The stop begins at 0 degrees and ends above 2; without any NTC it begins as well.
Readings == {"stops", "between", "clear", "none"}

\* Between the two a stop goes on, and no other begins.
Stopped(reading) == reading \in {"stops", "none"} \/ (coldStopped /\ reading # "clear")

-----------------------------------------------------------------------------
(* CurrentLimitGuard::Timer                                                *)

\* Only the time between two violating samples, neither invalid nor far apart.
Accrued(timer) ==
    IF timer.previousValid /\ timer.previous <= MaximumSampleGapS
    THEN Least(DwellS, timer.elapsed + timer.previous)
    ELSE timer.elapsed

\* Controller::update: disarmed, without a valid sample, or with one.
Guarded(armed, valid, violation) ==
    IF ~armed \/ (valid /\ ~violation) THEN NoTimer
    ELSE IF ~valid THEN [guard EXCEPT !.previousValid = FALSE]
    ELSE [tracking |-> TRUE, elapsed |-> Accrued(guard), previous |-> 0,
          previousValid |-> TRUE]

Trips(timer) == timer.previousValid /\ timer.elapsed = DwellS

\* The history goes with the guard.
Watched(armed, valid, violation) ==
    /\ guard' = Guarded(armed, valid, violation)
    /\ violatedFor' = IF guard'.tracking THEN violatedFor ELSE 0
    /\ chain' = IF /\ guard'.previousValid /\ guard.previousValid
                   /\ guard.previous <= MaximumSampleGapS THEN chain ELSE 0
    /\ toldMeanwhile' = (toldMeanwhile /\ guard'.tracking)
    /\ outgoing' = IF outgoing = "new" /\ ~guard'.tracking THEN "old" ELSE outgoing

-----------------------------------------------------------------------------
(* The measuring cycles of the BCC task.                                   *)

\* At once down, slowly up.
applyRecoverySlew(previous, requested, elapsed) ==
    IF requested <= previous THEN requested ELSE Least(requested, previous + elapsed)

Elapsed == IF updated = Never THEN 0 ELSE updated

Offers(s, computed) ==
    LET stops == Offered(s) = 0 /\ (computed \/ Offered(snapshot) # 0)
        turns == (Offered(s) = 0) # (Offered(snapshot) = 0)
    IN  /\ snapshot' = s
        /\ stoppedFor' = IF stops THEN 0 ELSE stoppedFor
        /\ unslewed' = IF computed /\ stops THEN published' # 0
                       ELSE unslewed \/ (~computed /\ turns)

(* publishBatteryCanSnapshot, after a cycle without failures; hv is read   *)
(* once.  What the cells and their temperature request, whether the        *)
(* current is above its ceiling, and whether a reader has the frame locked *)
(* are free where they matter.  A violation takes the limit away; a locked *)
(* frame the offer of this cycle.                                          *)
Publish(valid) ==
    LET allowed == hv /\ fault = "none" /\ ~inhibited'
    IN  \E requested \in IF valid /\ allowed THEN Currents ELSE {0},
           violation \in IF valid /\ hv THEN BOOLEAN ELSE {FALSE},
           locked \in IF valid THEN BOOLEAN ELSE {FALSE} :
          /\ Watched(hv, valid, violation)
          /\ fault' = IF Trips(guard') THEN "active"
                      ELSE IF fault = "active" THEN "latched" ELSE fault
          /\ published' = IF Trips(guard') THEN 0
                          ELSE applyRecoverySlew(published, requested, Elapsed)
          /\ updated' = 0
          /\ IF locked
             THEN Offers([valid |-> TRUE, fresh |-> FALSE, allowed |-> FALSE, current |-> 0], TRUE)
             ELSE Offers([valid |-> valid, fresh |-> TRUE,
                          allowed |-> allowed /\ ~Trips(guard'), current |-> published'], TRUE)
          /\ lastValid' = IF valid THEN snapshot' ELSE lastValid

\* faultDetection, as far as the temperature goes.
Temperature(reading) ==
    /\ coldStopped' = Stopped(reading)
    /\ inhibited' = coldStopped'
    /\ warmed' = (reading = "clear" \/ (warmed /\ reading = "between"))

Cycle(reading) ==
    /\ running
    /\ Temperature(reading)
    /\ failures' = 0
    /\ Publish(reading # "none")
    /\ UNCHANGED <<running, hv, sinceSent>>

\* The start-up ends with such a cycle, or with a first failure.
Start(reading) ==
    /\ ~running /\ running' = TRUE
    /\ Temperature(reading)
    /\ failures' = 0
    /\ Publish(reading # "none")
    /\ UNCHANGED <<hv, sinceSent>>

\* The last snapshot goes on being sent, as far as it is still permitted.
publishHeldBatteryCanSnapshot ==
    LET allowed == lastValid.allowed /\ hv /\ fault = "none" /\ ~inhibited'
    IN  IF lastValid.valid
        THEN Offers([lastValid EXCEPT !.fresh = FALSE, !.allowed = allowed,
                                      !.current = IF allowed THEN @ ELSE 0], FALSE)
        ELSE UNCHANGED <<snapshot, stoppedFor, unslewed>>

Fails == running /\ failures + 1 < TripCount /\ failures' = failures + 1

\* The stop is remembered as it was (for mutation).
FailWithoutReset ==
    /\ Fails
    /\ warmed' = FALSE
    /\ Watched(hv, FALSE, FALSE)
    /\ UNCHANGED <<running, hv, fault, published, updated, coldStopped, inhibited, lastValid,
                   sinceSent>>
    /\ publishHeldBatteryCanSnapshot

(* No measurement or no fault status: the stop must be cleared anew and    *)
(* the guard has no sample.                                                *)
FailEarly ==
    /\ Fails
    /\ coldStopped' = TRUE /\ warmed' = FALSE
    /\ Watched(hv, FALSE, FALSE)
    /\ UNCHANGED <<running, hv, fault, published, updated, inhibited, lastValid, sinceSent>>
    /\ publishHeldBatteryCanSnapshot

\* The balancing or the presence check fails: the guard is not called.
FailLate(reading) ==
    /\ Fails
    /\ Temperature(reading)
    /\ UNCHANGED <<running, hv, fault, published, updated, guard, lastValid, canVars,
                   violatedFor, chain, toldMeanwhile>>
    /\ publishHeldBatteryCanSnapshot

StartFails(reading) ==
    /\ ~running /\ running' = TRUE
    /\ failures' = failures + 1
    /\ Temperature(reading) \/ UNCHANGED <<coldStopped, inhibited, warmed>>
    /\ publishHeldBatteryCanSnapshot
    /\ UNCHANGED <<hv, fault, published, updated, guard, lastValid, canVars, violatedFor, chain,
                   toldMeanwhile>>

(* The third failure, or another way out of RUNNING:                       *)
(* invalidateBatteryCanSnapshot.  Only a failure after the measurement is  *)
(* followed by a publication, which finds no valid data.                   *)
Restart(publishes) ==
    /\ running /\ running' = FALSE
    /\ failures' = 0 /\ published' = 0
    /\ updated' = IF publishes THEN 0 ELSE Never
    /\ fault' = IF publishes /\ fault = "active" THEN "latched" ELSE fault
    /\ coldStopped' = TRUE /\ warmed' = FALSE
    /\ Watched(FALSE, FALSE, FALSE)
    /\ snapshot' = NoSnapshot /\ lastValid' = NoSnapshot
    /\ stoppedFor' = 0 /\ unslewed' = FALSE
    /\ UNCHANGED <<hv, inhibited, sinceSent>>

-----------------------------------------------------------------------------
(* The CAN task: a copy of the snapshot, then its frames, two milliseconds *)
(* apart; the one with the limits may fail to go out.                      *)

makeCodecData ==
    /\ outgoing = "none" /\ sinceSent' = 0
    /\ outgoing' = IF ~snapshot.valid THEN "none"
                   ELSE IF guard.tracking THEN "new" ELSE "old"
    /\ toldMeanwhile' = (toldMeanwhile \/ (~snapshot.valid /\ guard.tracking))
    /\ UNCHANGED <<bmsVars, limitVars, snapshotVars, violatedFor, chain, warmed, stoppedFor,
                   unslewed>>

sendEncodedFrame ==
    /\ outgoing # "none" /\ outgoing' = "none"
    /\ toldMeanwhile' = (toldMeanwhile \/ outgoing = "new")
    /\ UNCHANGED <<bmsVars, limitVars, snapshotVars, sinceSent, violatedFor, chain, warmed,
                   stoppedFor, unslewed>>

-----------------------------------------------------------------------------
HvCloses ==
    /\ ~hv /\ hv' = TRUE
    /\ running /\ fault = "none" /\ ~snapshot.allowed /\ published = 0
    /\ UNCHANGED <<running, fault, failures, limitVars, snapshotVars, canVars, historyVars>>

HvOpens ==
    /\ hv /\ hv' = FALSE
    /\ UNCHANGED <<running, fault, failures, limitVars, snapshotVars, canVars, historyVars>>

Acknowledge ==
    /\ fault = "latched" /\ fault' = "none" /\ ~hv
    /\ UNCHANGED <<running, hv, failures, limitVars, snapshotVars, canVars, historyVars>>

\* A second passes; the CAN task is not late by as much.
Elapse ==
    /\ sinceSent < PeriodS /\ outgoing = "none"
    /\ sinceSent' = sinceSent + 1
    /\ updated' = IF updated = Never THEN Never ELSE Least(MaxLimit, updated + 1)
    /\ guard' = [guard EXCEPT !.previous =
                    IF guard.tracking THEN Least(MaximumSampleGapS + 1, @ + 1) ELSE 0]
    /\ violatedFor' = IF guard.tracking THEN Least(DwellS, violatedFor + 1) ELSE 0
    /\ chain' = IF guard.tracking THEN Least(DwellS, chain + 1) ELSE 0
    /\ stoppedFor' = Least(MaxLimit, stoppedFor + 1)
    /\ UNCHANGED <<bmsVars, published, coldStopped, inhibited, snapshotVars, outgoing,
                   toldMeanwhile, warmed, unslewed>>

Next ==
    \/ \E reading \in Readings :
         Cycle(reading) \/ Start(reading) \/ FailLate(reading) \/ StartFails(reading)
    \/ FailEarly
    \/ \E publishes \in BOOLEAN : Restart(publishes)
    \/ makeCodecData \/ sendEncodedFrame
    \/ HvCloses \/ HvOpens \/ Acknowledge \/ Elapse

Spec == Init /\ [][Next]_vars

-----------------------------------------------------------------------------
(* temperature-derating-plan.md: "continuously for 5 s", "invalid samples  *)
(* cannot count as compliance or establish a new valid interval".  The     *)
(* guard trips only if no valid sample has complied for five seconds, and  *)
(* the inverter has been sent a limit meanwhile, or nothing.               *)
TripsOnlyAfterDwell ==
    fault' = "active" /\ fault # "active" => violatedFor = DwellS /\ toldMeanwhile

(* And it trips whenever the samples of five seconds violate, whatever the *)
(* limit did meanwhile.                                                    *)
SustainedViolationTrips ==
    chain' = DwellS /\ guard'.previousValid /\ guard'.previous = 0 => fault' # "none"

(* The temperature policy: "Boot, monitor reinitialization and invalid     *)
(* measurements start in the inhibited state", so that a current is newly  *)
(* offered only after a reading above the recovery temperature.            *)
OfferNeedsRecovery == snapshot.fresh /\ Offered(snapshot) > 0 => warmed

(* "Lower current limits take effect immediately; increases recover at 10% *)
(* of the configured maximum per second" (main.typ), however often cycles  *)
(* fail or the monitors start again in between.                            *)
RecoveryIsGradual == unslewed \/ Offered(snapshot) <= stoppedFor

(* The same, when the zero came from a held or a locked snapshot as well.  *)
RecoveryIsAlwaysGradual == Offered(snapshot) <= stoppedFor
=============================================================================
