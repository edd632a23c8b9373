----------------------------- MODULE MCRetained -----------------------------
(***************************************************************************)
(* What the master keeps over a reset: the configuration in its flash      *)
(* pages, the calibration and charge records and the energy counters in    *)
(* the backup registers, and the coulomb counter of the monitors that      *)
(* feeds them.                                                             *)
(*                                                                         *)
(* The four share no state: each is written by its own code to its own     *)
(* registers.  They are explored side by side, one of them in a behaviour, *)
(* while the others rest in an initial state.                              *)
(***************************************************************************)
EXTENDS RuntimeConfigStore, Integers

CONSTANTS
    Levels, Full, MaxCalibrations,                  \* RetainedRecords
    Denominator, MaxInterval, MaxCounter,
    MaxPause, Products,                             \* EnergyCounter
    SampleSize, ChargeSize, MaxCurrent,
    MaxSamples, MaxElapsed, MaxGap                  \* CoulombCounter

ASSUME RecordsAssumption == Full \in Levels /\ MaxCalibrations \in Nat

ASSUME EnergyAssumption ==
    /\ Denominator \in Nat \ {0}
    /\ MaxInterval \in Nat /\ MaxCounter \in Nat /\ MaxPause \in Nat
    /\ Products \subseteq Nat

\* An interval that is trusted is too short for a register to wrap unseen.
ASSUME CoulombAssumption ==
    /\ SampleSize \in Nat /\ MaxElapsed \in Nat /\ MaxElapsed < SampleSize
    /\ MaxCurrent \in Nat /\ MaxSamples \in Nat /\ MaxGap \in Nat
    /\ ChargeSize \in Nat /\ ChargeSize % 2 = 0
    /\ MaxSamples * MaxCurrent < ChargeSize \div 2

VARIABLES
    explored,                                       \* the part that runs
    store, program, calibrated, interval, words, reading,
    calibrations, levels, written, kept,            \* RetainedRecords
    energyStore, energyProgram, counter, remainder,
    previous, sinceUpdate, restorable,              \* EnergyCounter
    samples, charge, answering, flowed, gap,
    tracker, counted                                \* CoulombCounter

Retained == INSTANCE RetainedRecords
Energy == INSTANCE EnergyCounter
    WITH store <- energyStore, program <- energyProgram, gap <- sinceUpdate
Coulomb == INSTANCE CoulombCounter

recordVars == <<store, program, calibrated, interval, words, reading,
                calibrations, levels, written, kept>>
energyVars == <<energyStore, energyProgram, counter, remainder, previous,
                sinceUpdate, restorable>>
coulombVars == <<samples, charge, answering, flowed, gap, tracker, counted>>

allVars == <<explored, vars, recordVars, energyVars, coulombVars>>

AllInit ==
    /\ explored \in {"configuration", "records", "energy", "coulomb"}
    /\ IF explored = "configuration" THEN Init
       ELSE Init /\ slots = [i \in 1..2 |-> Blank]
    /\ Retained!Init /\ Energy!Init /\ Coulomb!Init

AllNext ==
    /\ UNCHANGED explored
    /\ \/ /\ explored = "configuration" /\ Next
          /\ UNCHANGED <<recordVars, energyVars, coulombVars>>
       \/ /\ explored = "records" /\ Retained!Next
          /\ UNCHANGED <<vars, energyVars, coulombVars>>
       \/ /\ explored = "energy" /\ Energy!Next
          /\ UNCHANGED <<vars, recordVars, coulombVars>>
       \/ /\ explored = "coulomb" /\ Coulomb!Next
          /\ UNCHANGED <<vars, recordVars, energyVars>>

AllSpec == AllInit /\ [][AllNext]_allVars

-----------------------------------------------------------------------------
\* Type correctness of the four parts.
AllTypeOK ==
    CASE explored = "configuration" -> TypeOK
      [] explored = "records" -> Retained!TypeOK
      [] explored = "energy" -> Energy!TypeOK
      [] explored = "coulomb" -> Coulomb!TypeOK

\* The backup registers tell the truth after any reset.  A charge counter that
\* is valid goes back to a calibration; the calibration's details and time are
\* of one calibration or one of them is invalid; and what the UART task reads
\* of them, register by register, is never a mix of two.
RecordsTellTheTruth ==
    explored = "records" =>
    /\ Retained!CounterIsTrusted
    /\ Retained!DetailsMatchTime
    /\ Retained!ReportedTookPlace

\* Charge and energy are counted once.  An interval of the coulomb counter is
\* counted with exactly what flowed in it or not at all, across register wraps,
\* resets of the monitor and lost commands; energy is the exact sum, and a reset
\* leaves its counters as they were before or after the update, or at zero.
CountedOnce ==
    [][/\ explored = "coulomb" => Coulomb!CountedIsWhatFlowed
       /\ explored = "energy" => Energy!EnergyIsExact /\ Energy!CountersSurvive]_allVars

=============================================================================
