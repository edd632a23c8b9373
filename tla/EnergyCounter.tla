----------------------------- MODULE EnergyCounter -----------------------------
(***************************************************************************)
(* EnergyCounter.cpp: the energy charged and discharged, integrated from   *)
(* one measurement to the next with an exact remainder, and kept in backup *)
(* registers that survive a reset.  A reset may fall between any two       *)
(* stores of persist.                                                      *)
(*                                                                         *)
(* A microwatt-hour is Denominator products of voltage, current and time.  *)
(* A counter is two registers.                                             *)
(***************************************************************************)
EXTENDS Integers, Sequences

CONSTANTS
  Denominator,  \* 3.6e15
  MaxInterval,  \* the longest interval that is integrated: 1 s
  MaxCounter,   \* where the counters saturate: 2^64 - 1
  MaxPause,     \* bound: what lies between two measurements
  Products      \* of voltage and current

VARIABLES
  store,      \* the backup registers
  program,    \* the stores persist has yet to make
  counter,    \* chargedEnergyUWh, dischargedEnergyUWh
  remainder,  \* chargedRemainder, dischargedRemainder
  previous,   \* havePreviousMeasurement
  gap,        \* time since previousTimestampUs
  restorable  \* the counters a reset may restore, for the properties

vars == <<store, program, counter, remainder, previous, gap, restorable>>

Directions == {"charged", "discharged"}
kRecordMarker == 1

Zero == [d \in Directions |-> 0]
Low == [charged |-> "chargedLow", discharged |-> "dischargedLow"]
High == [charged |-> "chargedHigh", discharged |-> "dischargedHigh"]

-----------------------------------------------------------------------------

writeCounter(d, value) == << <<Low[d], value>>, <<High[d], value>> >>

\* The checksum stands for what it covers.
recordChecksum(words) ==
  <<words.chargedLow, words.chargedHigh, words.dischargedLow, words.dischargedHigh>>

persist(c) ==
  << <<"marker", 0>> >> \o writeCounter("charged", c.charged)
     \o writeCounter("discharged", c.discharged)
     \o << <<"checksum", <<c.charged, c.charged, c.discharged, c.discharged>> >>,
           <<"marker", kRecordMarker>> >>

recordIsValid ==
  store.marker = kRecordMarker /\ store.checksum = recordChecksum(store)

saturatingAdd(value, increment) ==
  IF MaxCounter - value < increment THEN MaxCounter ELSE value + increment

\* The loop over the bits of elapsed from the highest one, so that no product is
\* wider than a counter: the increment and the residual after each prefix of them.
Summed(product, elapsed) ==
  LET After[prefix \in 0..elapsed] ==
        IF prefix = 0 THEN <<0, 0>>
        ELSE LET acc == After[prefix \div 2]
                 on == prefix % 2
                 residual == 2 * acc[2] + on * (product % Denominator)
             IN <<2 * acc[1] + on * (product \div Denominator) + residual \div Denominator,
                  residual % Denominator>>
  IN After[elapsed]

integrateMicroWh(value, rest, product, elapsed) ==
  LET all == Summed(product, elapsed)
      last == all[2] + rest
  IN [counter |-> saturatingAdd(value, all[1] + last \div Denominator),
      remainder |-> last % Denominator]

-----------------------------------------------------------------------------

Tick ==
  /\ gap < MaxPause /\ gap' = gap + 1
  /\ UNCHANGED <<store, program, counter, remainder, previous, restorable>>

StoreNext ==
  /\ program # <<>>
  /\ store' = [store EXCEPT ![program[1][1]] = program[1][2]]
  /\ program' = Tail(program)
  /\ restorable' = IF Tail(program) = <<>> THEN {counter} ELSE restorable
  /\ UNCHANGED <<counter, remainder, previous, gap>>

\* update with an invalid measurement: the interval ends.
EndInterval ==
  /\ program = <<>> /\ previous' = FALSE
  /\ UNCHANGED <<store, program, counter, remainder, gap, restorable>>

Integrable(elapsed) == previous /\ elapsed # 0 /\ elapsed <= MaxInterval

\* The counters are stored before they are updated (for mutation).
StoredBefore(old, new) == old

Stored(old, new) == new

\* update with a valid measurement.
update(direction, product) ==
  /\ program = <<>>
  /\ previous' = TRUE /\ gap' = 0
  /\ IF Integrable(gap)
     THEN LET next == integrateMicroWh(counter[direction], remainder[direction], product, gap)
          IN /\ counter' = [counter EXCEPT ![direction] = next.counter]
             /\ remainder' = [remainder EXCEPT ![direction] = next.remainder]
             /\ program' = persist(Stored(counter, counter'))
             /\ restorable' = {counter, counter'}
     ELSE UNCHANGED <<program, counter, remainder, restorable>>
  /\ UNCHANGED store

\* A reset between any two stores, then setup.
setup ==
  /\ counter' = IF recordIsValid THEN [d \in Directions |-> store[Low[d]]] ELSE Zero
  /\ program' = IF recordIsValid THEN <<>> ELSE persist(Zero)
  /\ remainder' = Zero /\ previous' = FALSE
  /\ restorable' = {counter'}
  /\ UNCHANGED <<store, gap>>

\* A board that has never run.
Init ==
  /\ store = [chargedLow |-> 0, chargedHigh |-> 0, dischargedLow |-> 0, dischargedHigh |-> 0,
               checksum |-> <<>>, marker |-> 0]
  /\ program = persist(Zero) /\ counter = Zero /\ remainder = Zero
  /\ previous = FALSE /\ gap = 0 /\ restorable = {Zero}

Next ==
  \/ Tick \/ StoreNext \/ EndInterval \/ setup
  \/ \E d \in Directions, product \in Products : update(d, product)

Spec == Init /\ [][Next]_vars

-----------------------------------------------------------------------------

TypeOK ==
  /\ counter \in [Directions -> 0..MaxCounter]
  /\ remainder \in [Directions -> 0..(Denominator - 1)]
  /\ gap \in 0..MaxPause /\ previous \in BOOLEAN /\ Len(program) <= 7

\* The counters survive every reset: between updates unchanged, within one as they
\* were before or after it or, where the record is torn, as zero, never mixed.
CountersSurvive ==
  setup => IF program = <<>> THEN counter' = counter
           ELSE counter' \in restorable \cup {Zero}

Exact(d) == counter[d] * Denominator + remainder[d]

\* Energy is counted exactly: what a measurement adds to a counter and its remainder
\* is the product over the time since the measurement before, nothing is lost to
\* rounding, and only a full counter stops.
EnergyIsExact ==
  \A d \in Directions, product \in Products :
    update(d, product) /\ Integrable(gap)
      => \/ Exact(d)' = Exact(d) + product * gap
         \/ counter'[d] = MaxCounter

=================================================================================
