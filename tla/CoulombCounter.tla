----------------------------- MODULE CoulombCounter -----------------------------
(***************************************************************************)
(* Counting charge: the monitor adds up its current samples in registers   *)
(* that wrap, the driver reads them now and then and integrates the        *)
(* difference to the last reading (CoulombCounterDelta.h), dropping every  *)
(* interval it cannot be sure of.  The hardware counters are cleared by    *)
(* CC_RST, by a reset and by entering the diagnostic mode; the driver      *)
(* forgets its baseline when it sends such a write, whether or not the     *)
(* write arrives.  A monitor that resets by itself also loses its address, *)
(* so that it answers nothing before it has been initialised again.        *)
(*                                                                         *)
(* Time is counted in samples.  A silence of MaxGap is a communication     *)
(* failure, after which the chain is initialised anew.                     *)
(***************************************************************************)
EXTENDS Integers

CONSTANTS
  SampleSize, ChargeSize,  \* where the registers wrap: 2^16 and 2^32
  MaxCurrent,              \* of a sample: 250000
  MaxSamples, MaxElapsed,  \* of an interval that is trusted: 8000, and those of a second
  MaxGap

VARIABLES
  samples, charge,     \* external: CC_NB_SAMPLES, COULOMB_CNT
  answering,           \* external: the monitor has its address
  flowed,              \* charge since the last baseline, for the properties
  gap,                 \* time since then, up to MaxGap
  tracker,             \* mCounterTracker: initialized, previous samples and accumulator
  counted              \* the charge this step adds to the total: {sum}, or {}

vars == <<samples, charge, answering, flowed, gap, tracker, counted>>

NoBaseline == [initialized |-> FALSE, samples |-> 0, charge |-> 0]
resetCurrentBaseline == tracker' = NoBaseline

-----------------------------------------------------------------------------
(* The monitor: external. *)

\* Time passes, with a sample of the current.
Sample ==
  /\ gap < MaxGap
  /\ \E current \in -MaxCurrent..MaxCurrent :
       /\ samples' = (samples + 1) % SampleSize
       /\ charge' = (charge + current) % ChargeSize
       /\ flowed' = flowed + current
  /\ gap' = gap + 1
  /\ UNCHANGED <<answering, tracker>>
  /\ counted' = {}

Cleared == samples' = 0 /\ charge' = 0

\* Brown-out, or nothing heard for the communication timeout of the monitor.
MonitorResets ==
  /\ Cleared /\ answering' = FALSE
  /\ UNCHANGED <<flowed, gap, tracker>>
  /\ counted' = {}

-----------------------------------------------------------------------------
(* The driver. *)

\* A write of CC_RST, SOFT_RST or GO2DIAG, which may be lost.
ResetWritten ==
  /\ resetCurrentBaseline
  /\ Cleared \/ UNCHANGED <<samples, charge>>
  /\ UNCHANGED <<answering, flowed, gap>>
  /\ counted' = {}

\* InitDevices and initializeRegisters: an address, and no baseline.
Initialize ==
  /\ answering' = TRUE /\ resetCurrentBaseline
  /\ UNCHANGED <<samples, charge, flowed, gap>>
  /\ counted' = {}

\* Two's complement.
Signed(bits) == IF bits < ChargeSize \div 2 THEN bits ELSE bits - ChargeSize

\* CoulombCounterDelta: the limits of an interval that hides no wrap.
Sure(elapsed, count, sum) ==
  /\ elapsed # 0 /\ elapsed <= MaxElapsed
  /\ count # 0 /\ count <= MaxSamples
  /\ sum <= count * MaxCurrent /\ -sum <= count * MaxCurrent

\* Tracker::sample on what a burst of the three registers returned.
Track(read, elapsed) ==
  LET count == (read[1] - tracker.samples) % SampleSize
      sum == Signed((read[2] - tracker.charge) % ChargeSize)
      duplicate == elapsed = 0 /\ count = 0 /\ sum = 0
      valid == tracker.initialized /\ ~duplicate /\ Sure(elapsed, count, sum)
  IN /\ tracker' = IF tracker.initialized /\ duplicate THEN tracker
                   ELSE [initialized |-> TRUE, samples |-> read[1], charge |-> read[2]]
     /\ counted' = IF valid THEN {sum} ELSE {}

\* A read of another register first releases the snapshot the hardware shows since
\* the last burst.
meas_GetAmpHourAndIAvg ==
  /\ answering
  /\ Track(<<samples, charge>>, gap)
  /\ flowed' = 0 /\ gap' = 0
  /\ UNCHANGED <<samples, charge, answering>>

Init ==
  /\ samples = 0 /\ charge = 0
  /\ answering = FALSE /\ flowed = 0 /\ gap = 0
  /\ tracker = NoBaseline /\ counted = {}

\* A silence of MaxGap: the driver starts over with the chain.
GiveUp ==
  /\ gap = MaxGap /\ resetCurrentBaseline
  /\ flowed' = 0 /\ gap' = 0
  /\ UNCHANGED <<samples, charge, answering>>
  /\ counted' = {}

Next ==
  \/ Sample \/ MonitorResets \/ ResetWritten \/ Initialize
  \/ meas_GetAmpHourAndIAvg \/ GiveUp

Spec == Init /\ [][Next]_vars

-----------------------------------------------------------------------------

TypeOK ==
  /\ samples \in 0..(SampleSize - 1) /\ charge \in 0..(ChargeSize - 1)
  /\ answering \in BOOLEAN /\ gap \in 0..MaxGap
  /\ flowed \in -(MaxGap * MaxCurrent)..(MaxGap * MaxCurrent)
  /\ tracker \in [initialized : BOOLEAN, samples : 0..(SampleSize - 1),
                   charge : 0..(ChargeSize - 1)]

\* Charge is counted once: an interval that is counted at all is counted with
\* exactly the charge that flowed in it, across register wraps, hardware resets
\* and lost reset commands.
CountedIsWhatFlowed == meas_GetAmpHourAndIAvg => counted' \subseteq {flowed}

=================================================================================
