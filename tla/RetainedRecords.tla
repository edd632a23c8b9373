---------------------------- MODULE RetainedRecords ----------------------------
(***************************************************************************)
(* The records the master keeps in the RTC backup registers, which survive *)
(* a reset: the charge counter (bcc.cpp) and the last full-charge          *)
(* calibration, with its time (SlaveController.cpp).  The BMS task writes  *)
(* them one register at a time, a reset may fall between any two stores,   *)
(* and the UART task, of the same priority, reads the calibration one      *)
(* register at a time and without a lock.                                  *)
(*                                                                         *)
(* A marker is clear until its record is whole, and a checksum, here the   *)
(* tuple of what it covers, tells a mixed record.  Calibrations are        *)
(* numbered, and what a calibration stores carries its number; a UTC of 0  *)
(* is none.  The dwell time stands with the previous time.                 *)
(***************************************************************************)
EXTENDS Integers, Sequences

CONSTANTS
  Levels,           \* of charge
  Full,             \* the one a full-charge calibration sets
  MaxCalibrations   \* bound: the calibrations of a behaviour

VARIABLES
  store,      \* the backup registers
  program,    \* the stores the BMS task has yet to make
  calibrated, \* the calibration whose stores these are, 0 for none
  interval,   \* selfDischargeInterval.complete_
  words,      \* what the UART task has read of the record it reads
  reading,    \* "details", "time" or "idle"
  calibrations, levels, written, kept  \* for the properties, see below

vars == <<store, program, calibrated, interval, words, reading,
          calibrations, levels, written, kept>>

Complete == 2                 \* markers: clear is 0
Incomplete == 1
Set == 1

-----------------------------------------------------------------------------
(* Programs of stores. *)

\* BCC::setAhCounter: a double is two registers.
setAhCounter(level) ==
  << <<"ahMarker", 0>>, <<"ahLo", level>>, <<"ahHi", level>>,
     <<"ahSum", <<level, level>> >>, <<"ahMarker", Set>> >>

ahCounterIsValid ==
  store.ahMarker = Set /\ store.ahSum = <<store.ahLo, store.ahHi>>

invalidateAhCounter ==
  << <<"ahMarker", 0>>, <<"ahLo", 0>>, <<"ahHi", 0>>, <<"ahSum", <<>> >> >>

\* getLastSoCCalibrationUnixTime, 0 when it has none; the marker is read after the
\* time, the checksum last.
CalibrationTime(time, marker, sum) == IF marker = Set /\ sum = time THEN time ELSE 0

storeTime(utc) ==
  << <<"timeMarker", 0>> >> \o
  IF utc = 0 THEN <<>>
  ELSE << <<"time", utc>>, <<"timeSum", utc>>, <<"timeMarker", Set>> >>

socCalibrationDetailsChecksum(d) ==
  <<d.soc, d.utc, d.previous, d.loss, d.marker>>

storeDetails(d) ==
  << <<"dSoc", d.soc>>, <<"dUtc", d.utc>>, <<"dPrevious", d.previous>>,
     <<"dLoss", d.loss>>, <<"dSum", socCalibrationDetailsChecksum(d)>>,
     <<"dMarker", d.marker>> >>

\* The old details end before anything they describe changes.
EndDetails == << <<"dMarker", 0>> >>

-----------------------------------------------------------------------------
(* The BMS task. *)

Idle == program = <<>>

Uncounted == UNCHANGED <<words, reading>>

StoreNext ==
  /\ ~Idle
  /\ store' = [store EXCEPT ![Head(program)[1]] = Head(program)[2]]
  /\ program' = Tail(program)
  /\ LET ends == Tail(program) = <<>> /\ calibrated # 0
     IN /\ interval' = (ends \/ interval)       \* beginSelfDischargeCalibrationInterval
        /\ kept' = (ends \/ kept)
        /\ calibrated' = IF Tail(program) = <<>> THEN 0 ELSE calibrated
  /\ Uncounted /\ UNCHANGED <<calibrations, levels, written>>

\* An uncalibrated counter is made valid by counting (for mutation).
CountAlways(level) == setAhCounter(level)

\* The end of meas_GetAmpHourAndIAvg, and the loss in updateSelfDischarge.
CountInto(level) ==
  IF ahCounterIsValid THEN setAhCounter(level)
  ELSE << <<"ahLo", level>>, <<"ahHi", level>> >>

Count(level) ==
  /\ Idle
  /\ program' = CountInto(level)
  /\ levels' = IF ahCounterIsValid THEN {store.ahLo, level} ELSE {}
  /\ Uncounted
  /\ UNCHANGED <<store, calibrated, interval, calibrations, written, kept>>

\* updateSelfDischarge and updateFullSocCalibration, once the conditions of a full
\* charge have lasted; utc is what RtcTime::getUnixTime answers, level what the
\* modelled self discharge leaves.
Calibrate(utc, level) ==
  LET valid == ahCounterIsValid
      n == calibrations + 1
      details ==
        [soc |-> IF valid THEN <<level, TRUE>> ELSE <<0, FALSE>>,
         utc |-> utc,
         previous |-> CalibrationTime(store.time, store.timeMarker, store.timeSum),
         loss |-> n,
         marker |-> IF valid /\ interval THEN Complete ELSE Incomplete,
         kept |-> kept]
  IN /\ Idle /\ n <= MaxCalibrations /\ utc \in {0, n}
     /\ calibrations' = n /\ calibrated' = n
     /\ program' = EndDetails \o (IF valid THEN setAhCounter(level) ELSE <<>>)
                     \o setAhCounter(Full) \o storeTime(utc) \o storeDetails(details)
     /\ levels' = {Full, level} \cup (IF valid THEN {store.ahLo} ELSE {})
     /\ interval' = (interval /\ valid)
     /\ written' = [written EXCEPT ![n] = details]
     /\ Uncounted /\ UNCHANGED <<store, kept>>

\* A reset between any two stores, and the check of the charge counter in setup.
Reset ==
  /\ program' = IF ahCounterIsValid THEN <<>> ELSE invalidateAhCounter
  /\ levels' = IF ahCounterIsValid THEN {store.ahLo} ELSE {}
  /\ calibrated' = 0 /\ interval' = FALSE /\ kept' = FALSE
  /\ words' = <<>> /\ reading' = "idle"
  /\ UNCHANGED <<store, calibrations, written>>

-----------------------------------------------------------------------------
(* The UART task. *)

Order == [details |-> <<"dMarker", "dSoc", "dUtc", "dPrevious", "dSum", "dLoss", "dMarker">>,
          time |-> <<"time", "timeMarker", "timeSum">>,
          idle |-> <<>>]

\* getLastSoCCalibrationDetails: the marker is read first and last.
DetailsHold(read) ==
  /\ read[1] # 0 /\ read[7] = read[1]
  /\ read[5] = <<read[2], read[3], read[4], read[6], read[1]>>

Answer(read) ==
  IF reading = "time"
  THEN {[time |-> t] : t \in {CalibrationTime(read[1], read[2], read[3])} \ {0}}
  ELSE IF DetailsHold(read)
       THEN {[soc |-> read[2], utc |-> read[3], previous |-> read[4],
              loss |-> read[6], marker |-> read[1]]}
       ELSE {}

StartReading(record) ==
  /\ reading = "idle" /\ reading' = record
  /\ words' = <<>>
  /\ UNCHANGED <<store, program, calibrated, interval,
                 calibrations, levels, written, kept>>

Read == Append(words, store[Order[reading][Len(words) + 1]])
Whole == reading # "idle" /\ Len(words) + 1 = Len(Order[reading])

\* The last read answers the request.
ReadNext ==
  /\ reading # "idle"
  /\ words' = IF Whole THEN <<>> ELSE Read
  /\ reading' = IF Whole THEN "idle" ELSE reading
  /\ UNCHANGED <<store, program, calibrated, interval,
                 calibrations, levels, written, kept>>

-----------------------------------------------------------------------------

Registers ==
  {"ahMarker", "ahLo", "ahHi", "ahSum", "timeMarker", "time", "timeSum",
   "dMarker", "dSoc", "dUtc", "dPrevious", "dSum", "dLoss"}

\* A board that has never run: no record.
Init ==
  /\ store = [r \in Registers |-> IF r \in {"ahSum", "dSoc", "dSum"} THEN <<>> ELSE 0]
  /\ program = invalidateAhCounter
  /\ calibrated = 0 /\ interval = FALSE
  /\ words = <<>> /\ reading = "idle"
  /\ calibrations = 0 /\ levels = {} /\ kept = FALSE
  /\ written = [n \in 1..MaxCalibrations |-> <<>>]

Next ==
  \/ StoreNext \/ Reset \/ ReadNext
  \/ \E level \in Levels : Count(level)
  \/ \E utc \in 0..MaxCalibrations, level \in Levels : Calibrate(utc, level)
  \/ \E record \in {"details", "time"} : StartReading(record)

Spec == Init /\ [][Next]_vars

-----------------------------------------------------------------------------

TypeOK ==
  /\ DOMAIN store = Registers
  /\ calibrated \in 0..calibrations /\ calibrations \in 0..MaxCalibrations
  /\ interval \in BOOLEAN /\ kept \in BOOLEAN /\ levels \subseteq Levels
  /\ reading \in DOMAIN Order /\ Len(words) < 7

\* A valid charge counter goes back to a calibration and holds what was last
\* counted, whenever the reset came; one that was never calibrated, or was torn,
\* stays invalid through all counting.
CounterIsTrusted ==
  ahCounterIsValid => store.ahLo = store.ahHi /\ store.ahLo \in levels

ValidTime == CalibrationTime(store.time, store.timeMarker, store.timeSum)
StoredDetails == [i \in 1..7 |-> store[Order.details[i]]]

\* The details in force describe the calibration whose time is in force: after
\* any reset the two records are of one calibration, or one of them is invalid.
DetailsMatchTime ==
  DetailsHold(StoredDetails) => ValidTime = 0 \/ ValidTime = store.dUtc

\* What the UART task reports is a calibration that took place, never a mix of
\* two, and its modelled loss counts as complete only if nothing interrupted the
\* interval since the calibration before.
ReportedTookPlace ==
  Whole => \A r \in Answer(Read) :
    IF "time" \in DOMAIN r THEN \E n \in 1..calibrations : written[n].utc = r.time
    ELSE \E n \in 1..calibrations :
           /\ \A f \in DOMAIN r : written[n][f] = r[f]
           /\ r.marker = Complete => written[n].kept

=================================================================================
