----------------------------- MODULE BccMeasurement -----------------------------
(***************************************************************************)
(* One measuring cycle after another of the chain while RUNNING: the       *)
(* transfers of runningLoop, in their order, with the driver's check of    *)
(* every answer.  A burst of n registers is answered by n frames, each     *)
(* with the monitor's next message count; the driver remembers the last    *)
(* count it saw, so a lost answer makes the next one look wrong, and a     *)
(* refused burst leaves it behind by the rest of the burst.  Registers are *)
(* stored frame by frame, so a burst that fails half way leaves a buffer   *)
(* of two conversions.                                                     *)
(*                                                                         *)
(* The monitors are external: they count their frames modulo 16, convert   *)
(* at the global start of conversion and latch a fault whose condition is  *)
(* there at a conversion.  What the driver compares is only the distance   *)
(* `lag` between a monitor's count and the driver's.  The age of a value   *)
(* is the number of conversions started since it was working.             *)
(***************************************************************************)
EXTENDS BccMeasurementCycle

VARIABLES
  at,          \* next transfer of the cycle
  due,         \* loopCount: cycles until the measurements are read again
  complete,    \* completeMeasurementSetValid
  lag,         \* per monitor: its message count minus mMsgCnt, modulo 16
  raw,         \* mRawMeasurements of each monitor: the ages of its two halves
  working,     \* workingMeasurementFrame: the ages of each monitor's values
  watched,     \* the monitor and status registers of the fault that is followed
  fault,       \* external: its condition is present, latched, lasting since the conversion
  combined,    \* combinedFaults has it
  disturbed    \* a transfer of this cycle, of the previous one, was disturbed

vars == <<at, due, complete, lag, raw, working, watched, fault, combined, disturbed>>

Step == Cycle[at]
Is(names) == Step.name \in names
m == Step.monitor

Older(a) == IF a < Oldest THEN a + 1 ELSE Oldest

-----------------------------------------------------------------------------
(* A burst read: regRead with checkEchoFrame, checkCRC and checkMsgCnt.       *)

Disturb == disturbed' = [disturbed EXCEPT !.now = TRUE]

Stores(frames) ==
  raw' = IF Step.name = "raw"
         THEN [raw EXCEPT ![m] = [half \in 1..2 |-> IF 15 * half <= frames THEN 0 ELSE @[half]]]
         ELSE raw

\* Every frame arrived and counts on from the last one.
Answered == lag[m] = 0 /\ Stores(Step.words) /\ UNCHANGED <<lag, disturbed>>

\* The driver keeps counting from the last good frame (for mutation).
checkMsgCntKept ==
  /\ lag[m] # 0
  /\ lag' = [lag EXCEPT ![m] = (@ + Step.words) % Counts]
  /\ UNCHANGED <<raw, disturbed>>

\* The first frame has an unexpected count, which the driver takes over.
checkMsgCnt ==
  /\ lag[m] # 0
  /\ lag' = [lag EXCEPT ![m] = (Step.words - 1) % Counts]
  /\ UNCHANGED <<raw, disturbed>>

\* Nothing was sent, or nothing heard: the monitor may or may not have answered.
NoAnswer ==
  /\ \/ UNCHANGED lag
     \/ lag' = [lag EXCEPT ![m] = (@ + Step.words) % Counts]
  /\ UNCHANGED raw /\ Disturb

\* A frame is damaged; the frames before it have been stored.
checkCRC ==
  /\ \E k \in {1, 2, 16} \cap 1..Step.words :
       /\ lag[m] # 0 => k = 1
       /\ Stores(k - 1)
       /\ lag' = [lag EXCEPT ![m] = (@ + Step.words - (k - 1)) % Counts]
  /\ Disturb

Transferred(ok) == IF ok THEN Answered ELSE checkMsgCnt \/ NoAnswer \/ checkCRC

-----------------------------------------------------------------------------
(* The cycle. *)

faults == <<watched, fault, combined>>

\* Where a failed transfer leads: the start of a cycle resumes balancing, a
\* register request is answered with its error, anything else ends the cycle.
Failed ==
  at' = IF Is({"pause", "soc", "wait"}) THEN RecoveryStart
        ELSE IF Is({"request", "again"}) THEN at + 1 ELSE HeldStart

\* A failed start or reading of the measurements makes the set incomplete.
Incomplete ==
  complete' = IF Is({"pause", "soc", "wait", "resume", "raw"}) THEN FALSE ELSE complete

Reads == {"pause", "wait", "resume", "raw", "request", "live", "counter", "present", "again"}

ReadSucceeds ==
  /\ Is(Reads \ {"raw"}) \/ (Is({"raw"}) /\ m = 2)
  /\ Transferred(TRUE) /\ at' = at + 1
  /\ UNCHANGED <<due, complete, working, faults>>

ReadFails ==
  /\ Is(Reads \cup StatusGroups) /\ Transferred(FALSE)
  /\ Failed /\ Incomplete
  /\ UNCHANGED <<due, working, faults>>

\* Every monitor converts, and latches what is out of limits.
Converted ==
  /\ raw' = [i \in Monitors |-> [h \in 1..2 |-> Older(raw[i][h])]]
  /\ working' = [i \in Monitors |-> [h \in 1..2 |-> Older(working[i][h])]]
  /\ fault' = [fault EXCEPT !.latched = @ \/ fault.present, !.lasting = fault.present]

meas_StartConversionGlobal ==
  /\ Is({"soc"}) /\ Converted
  /\ at' = at + 1
  /\ UNCHANGED <<due, complete, lag, watched, combined, disturbed>>

\* Its echo was wrong, whatever the monitors received.
StartFails ==
  /\ Is({"soc"}) /\ Disturb /\ Failed /\ Incomplete
  /\ Converted \/ UNCHANGED <<raw, working, fault>>
  /\ UNCHANGED <<due, lag, watched, combined>>

\* getMeasurements is left out of most cycles, unless the set is incomplete.
SkipMeasurements ==
  /\ Is({"raw"}) /\ m = 1 /\ complete /\ due > 0
  /\ due' = due - 1 /\ at' = AfterMeasurements
  /\ UNCHANGED <<complete, lag, raw, working, faults, disturbed>>

ReadMeasurements ==
  /\ Is({"raw"}) /\ m = 1 /\ (~complete \/ due = 0)
  /\ Transferred(TRUE) /\ at' = at + 1
  /\ due' = IF due = 0 THEN Period - 1 ELSE due
  /\ UNCHANGED <<complete, working, faults>>

\* The frame is converted from the buffers; a register without DATA_RDY ends it.
Convert ==
  /\ Is({"convert"})
  /\ \/ /\ working' = [working EXCEPT ![m] = raw[m]]
        /\ complete' = IF m = 2 THEN TRUE ELSE complete
        /\ at' = at + 1 /\ UNCHANGED disturbed
     \/ /\ complete' = FALSE /\ at' = HeldStart /\ Disturb /\ UNCHANGED working
  /\ UNCHANGED <<due, lag, raw, faults>>

NoRequest ==
  /\ Is({"request"}) /\ at' = at + 1
  /\ UNCHANGED <<due, complete, lag, raw, working, faults, disturbed>>

-----------------------------------------------------------------------------
(* faultDetection. *)

ReadStatus ==
  /\ Is(StatusGroups) /\ Transferred(TRUE)
  /\ combined' = IF watched = <<m, Step.name>>
                 THEN [combined EXCEPT !.read = fault.latched] ELSE combined
  /\ at' = at + 1
  /\ UNCHANGED <<due, complete, working, watched, fault>>

Combine == combined.all \/ (watched[1] = m /\ combined.read)

\* All four bursts are in: what they showed is combined and its register cleared,
\* whether or not the write arrives.
fault_ClearStatus ==
  /\ Is({"clear"})
  /\ combined' = [read |-> IF watched[1] = m THEN FALSE ELSE combined.read, all |-> Combine]
  /\ IF watched[1] = m /\ combined.read
     THEN \E cleared \in BOOLEAN :
               fault' = [fault EXCEPT !.latched = @ /\ ~cleared]
     ELSE UNCHANGED fault
  /\ at' = at + 1
  /\ UNCHANGED <<due, complete, lag, raw, working, watched, disturbed>>

UpdateFaults ==
  /\ Is({"update"})
  /\ at' = at + 1
  /\ UNCHANGED <<due, complete, lag, raw, working, watched, fault, combined, disturbed>>

\* combinedFaults is a local variable: a pass that failed has forgotten it.
NoneCombined == [read |-> FALSE, all |-> FALSE]

\* The condition comes and goes by itself.
Condition ==
  /\ fault' = [fault EXCEPT !.present = IF fault.present THEN FALSE ELSE TRUE, !.lasting = FALSE]
  /\ UNCHANGED <<at, due, complete, lag, raw, working, watched, combined, disturbed>>

-----------------------------------------------------------------------------
(* The end of a cycle. *)

NextCycle ==
  /\ at' = 1 /\ combined' = NoneCombined
  /\ disturbed' = [now |-> FALSE, before |-> disturbed.now]

Publish ==
  /\ Is({"publish"})
  /\ NextCycle
  /\ UNCHANGED <<due, complete, lag, raw, working, watched, fault>>

\* doCommunicationCheck counts a failure; the last snapshot stays, not fresh.
PublishHeld ==
  /\ Is({"held"})
  /\ NextCycle
  /\ UNCHANGED <<due, complete, lag, raw, working, watched, fault>>

Init ==
  /\ at = 1 /\ due = 0 /\ complete = FALSE
  /\ lag \in [Monitors -> {0, 5}]
  /\ raw = [i \in Monitors |-> <<Oldest, Oldest>>] /\ working = raw
  /\ watched \in {<<1, "cells">>, <<2, "summary">>}
  /\ fault = [present |-> FALSE, latched |-> FALSE, lasting |-> FALSE]
  /\ combined = NoneCombined
  /\ disturbed = [now |-> FALSE, before |-> TRUE]

Next ==
  \/ ReadSucceeds \/ ReadFails \/ meas_StartConversionGlobal \/ StartFails
  \/ SkipMeasurements \/ ReadMeasurements \/ Convert \/ NoRequest
  \/ ReadStatus \/ fault_ClearStatus \/ UpdateFaults \/ Condition
  \/ Publish \/ PublishHeld

Spec == Init /\ [][Next]_vars

-----------------------------------------------------------------------------
(* Properties: of states, or of steps (MCTasks). *)

Ages == 0..Oldest

TypeOK ==
  /\ at \in DOMAIN Cycle /\ due \in 0..(Period - 1) /\ complete \in BOOLEAN
  /\ lag \in [Monitors -> 0..(Counts - 1)]
  /\ raw \in [Monitors -> [1..2 -> Ages]] /\ working \in [Monitors -> [1..2 -> Ages]]
  /\ watched \in Monitors \X StatusGroups
  /\ fault \in [present : BOOLEAN, latched : BOOLEAN, lasting : BOOLEAN]
  /\ combined \in [read : BOOLEAN, all : BOOLEAN]
  /\ disturbed \in [now : BOOLEAN, before : BOOLEAN]

\* A frame published as fresh is of one conversion on all monitors, in all of its
\* values, and not older than the reading period, whatever bursts failed half way.
FreshFrameIsWhole ==
  (Publish /\ complete) =>
    \E age \in 0..(Period - 1) : \A i \in Monitors : working[i] = <<age, age>>

\* A lost or damaged answer costs its own cycle and at most the next one: message
\* counting recovers, so two undisturbed cycles in a row do not both fail.
LinkHeals ==
  PublishHeld => (disturbed.now \/ disturbed.before)

\* A completed fault detection has reported every fault whose condition lasted
\* since the conversion.
LastingFaultIsReported == UpdateFaults => (fault.lasting => combined.all)

=================================================================================
