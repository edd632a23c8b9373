----------------------------- MODULE EnergyMeters -----------------------------
(***************************************************************************)
(* The gateway's RS485 energy meters.  One worker owns the bus and reads   *)
(* the enabled meters in turn; the HTTP task stores a new configuration at *)
(* any time; the main task publishes what was read for Home Assistant.     *)
(* They share one State behind a mutex, which each takes only to copy it   *)
(* or to write one thing: a read of half a second is in flight while the   *)
(* meter's address may change.  The generation of the configuration is     *)
(* what keeps its result from the slot of another meter.                   *)
(*                                                                         *)
(* A configuration says which meter a slot reads; the rest of it (name,    *)
(* direction, line settings) goes the same way.  Of a sample there is when *)
(* it was taken, 0 for an invalid one, and, as history, of which meter.    *)
(* Identity reads gate nothing and are left out, and so is the publication *)
(* of energy, which goes as that of electrical samples does.  External: a  *)
(* meter answers, or not; opening the bus and storing may fail.            *)
(***************************************************************************)
EXTENDS Naturals

CONSTANTS Slots,            \* kMeterCount
          Meters,           \* the meters on the bus
          MaxGeneration,    \* bound: configurations of a behaviour
          MaxTime           \* bound: time, in lifetimes of an electrical sample

VARIABLES
    configuration, generation, readings, busReady,  \* the fields of shared
    notified,       \* the worker's task notification
    place,          \* where the worker is
    mine,           \* its copy: configuration, and generation
    bus,            \* controller: 0, or the generation it was opened for
    slot,           \* the slot it reads
    reading,        \* the reading it prepares
    published,      \* the publisher: meterGeneration, meterElectricalUs, meterOnline
    announced,      \* what the broker retains: the meter each slot stands for
    time            \* esp_timer_get_time

sharedVars == <<configuration, generation, readings, busReady>>
workerVars == <<place, mine, bus, slot, reading>>
mainVars == <<published, announced>>
vars == <<sharedVars, notified, workerVars, mainVars, time>>

Off == "off"
Times == 0 .. MaxTime
\* Two enabled slots never share an address.
Configurations ==
    {c \in [Slots -> Meters \cup {Off}] :
        \A s, t \in Slots : s # t /\ c[s] # Off => c[s] # c[t]}
Sample == [at : Times, of : Meters \cup {Off}]
Reading == [electrical : Sample, energy : Sample]
Invalid == [at |-> 0, of |-> Off]
NoReading == [electrical |-> Invalid, energy |-> Invalid]
NoReadings == [s \in Slots |-> NoReading]
Fresh(sample, at, lifetime) ==
    sample # Invalid /\ at >= sample.at /\ at - sample.at < lifetime

AnyEnabled(c) == \E s \in Slots : c[s] # Off

TypeOK ==
    /\ configuration \in Configurations /\ generation \in 1 .. MaxGeneration
    /\ readings \in [Slots -> Reading] /\ busReady \in BOOLEAN
    /\ notified \in BOOLEAN
    /\ place \in {"none", "top", "dormant", "open", "opened", "slot", "electrical",
                  "measured", "energy", "counted", "rest"}
    /\ mine \in [configuration : Configurations, generation : 0 .. MaxGeneration]
    /\ bus \in 0 .. MaxGeneration /\ slot \in Slots /\ reading \in Reading
    /\ published \in [generation : 0 .. MaxGeneration, electrical : [Slots -> Times],
                      online : [Slots -> {"unknown", "online", "offline"}]]
    /\ announced \in [Slots -> Meters \cup {Off}]
    /\ time \in Times

NothingPublished ==
    [generation |-> 0, electrical |-> [s \in Slots |-> 0],
     online |-> [s \in Slots |-> "unknown"]]

\* start(): the stored configuration, and a worker if it enables a meter.
Init ==
    /\ configuration \in Configurations /\ generation = 1
    /\ readings = NoReadings /\ busReady = FALSE
    /\ notified = FALSE
    /\ place = IF AnyEnabled(configuration) THEN "top" ELSE "none"
    /\ mine = [configuration |-> configuration, generation |-> 0]
    /\ bus = 0 /\ slot = (CHOOSE s \in Slots : TRUE) /\ reading = NoReading
    /\ published = NothingPublished
    /\ announced = [s \in Slots |-> Off]
    /\ time = 1

-----------------------------------------------------------------------------
(* The HTTP task: configure(), under the mutex.                            *)

Enlisted(c) == IF place = "none" /\ AnyEnabled(c) THEN "top" ELSE place

\* Nobody is told of a configuration (for mutation).
ConfigureSilently(c) ==
    /\ generation < MaxGeneration
    /\ configuration' = c /\ generation' = generation + 1
    /\ readings' = NoReadings /\ busReady' = FALSE
    /\ place' = Enlisted(c)
    /\ UNCHANGED <<notified, mine, bus, slot, reading, mainVars, time>>

Configure(c) ==
    /\ generation < MaxGeneration
    /\ configuration' = c /\ generation' = generation + 1
    /\ readings' = NoReadings /\ busReady' = FALSE
    /\ place' = Enlisted(c)
    /\ notified' = (place' # "none")
    /\ UNCHANGED <<mine, bus, slot, reading, mainVars, time>>

\* It could not be stored: the worker may have been created, and is notified.
StoreFails(c) ==
    /\ place' = Enlisted(c)
    /\ notified' = (place' # "none")
    /\ UNCHANGED <<sharedVars, mine, bus, slot, reading, mainVars, time>>

-----------------------------------------------------------------------------
(* The worker.                                                             *)

At(p) == place = p
Goto(p) == place' = p

\* getState at the top: a new generation closes the bus.
Top ==
    /\ At("top")
    /\ mine' = [configuration |-> configuration, generation |-> generation]
    /\ bus' = IF mine.generation # generation THEN 0 ELSE bus
    /\ Goto(IF ~AnyEnabled(configuration) THEN "dormant"
            ELSE IF bus' = 0 THEN "open" ELSE "slot")
    /\ slot' = CHOOSE s \in Slots : TRUE
    /\ UNCHANGED <<sharedVars, notified, reading, mainVars, time>>

\* ulTaskNotifyTake(portMAX_DELAY)
Wake ==
    /\ At("dormant") /\ notified
    /\ notified' = FALSE /\ Goto("top")
    /\ UNCHANGED <<sharedVars, mine, bus, slot, reading, mainVars, time>>

\* The bus is not tried again yet: wait, or be notified.
NotYet ==
    /\ At("open") /\ Goto("top")
    /\ notified' = FALSE
    /\ UNCHANGED <<sharedVars, mine, bus, slot, reading, mainVars, time>>

OpenBus ==
    /\ At("open") /\ Goto("opened")
    /\ bus' \in {0, mine.generation}
    /\ UNCHANGED <<sharedVars, notified, mine, slot, reading, mainVars, time>>

Opened ==
    /\ At("opened") /\ Goto(IF bus = 0 THEN "top" ELSE "slot")
    /\ busReady' = IF generation = mine.generation THEN bus # 0 ELSE busReady
    /\ UNCHANGED <<configuration, generation, readings, notified, mine, bus, slot,
                   reading, mainVars, time>>

Later(s) == {t \in Slots : t > s}
NextSlot ==
    /\ reading' = NoReading
    /\ IF Later(slot) = {} THEN Goto("rest") /\ UNCHANGED slot
       ELSE Goto("slot") /\ slot' = CHOOSE t \in Later(slot) : \A u \in Later(slot) : t <= u

\* The copy taken for each slot must still be of this generation.
Slot ==
    /\ At("slot")
    /\ \/ /\ generation # mine.generation
          /\ Goto("rest") /\ UNCHANGED <<mine, slot, reading>>
       \/ /\ generation = mine.generation
          /\ NextSlot                           \* not enabled, or not due
          /\ UNCHANGED mine
       \/ /\ generation = mine.generation /\ configuration[slot] # Off
          /\ reading' = readings[slot]
          /\ Goto("electrical") /\ UNCHANGED <<mine, slot>>
    /\ UNCHANGED <<sharedVars, notified, bus, mainVars, time>>

Taken == [at |-> time, of |-> mine.configuration[slot]]

\* Three requests; one of them without a good answer spoils the sample.
ReadElectrical ==
    /\ At("electrical") /\ Goto("measured")
    /\ reading' \in {[reading EXCEPT !.electrical = Taken],
                     [reading EXCEPT !.electrical = Invalid]}
    /\ UNCHANGED <<sharedVars, notified, mine, bus, slot, mainVars, time>>

\* Whatever was configured in the meantime (for mutation).
CommitAnyway == readings' = [readings EXCEPT ![slot] = reading]

commitReading ==
    readings' = IF generation = mine.generation
                THEN [readings EXCEPT ![slot] = reading] ELSE readings

CommitElectrical ==
    /\ At("measured")
    /\ commitReading
    /\ IF reading.electrical # Invalid
       THEN Goto("energy") /\ UNCHANGED <<slot, reading>>
       ELSE NextSlot
    /\ UNCHANGED <<configuration, generation, busReady, notified, mine, bus, mainVars, time>>

EnergyNotDue ==
    /\ At("energy") /\ NextSlot
    /\ UNCHANGED <<sharedVars, notified, mine, bus, mainVars, time>>

ReadEnergy ==
    /\ At("energy") /\ Goto("counted")
    /\ reading' \in {[reading EXCEPT !.energy = Taken],
                     [reading EXCEPT !.energy = Invalid]}
    /\ UNCHANGED <<sharedVars, notified, mine, bus, slot, mainVars, time>>

CommitEnergy ==
    /\ At("counted")
    /\ commitReading
    /\ NextSlot
    /\ UNCHANGED <<configuration, generation, busReady, notified, mine, bus, mainVars, time>>

\* 20 ms, or a notification.
Rest ==
    /\ At("rest") /\ Goto("top")
    /\ notified' = FALSE
    /\ UNCHANGED <<sharedVars, mine, bus, slot, reading, mainVars, time>>

-----------------------------------------------------------------------------
(* The main task, while the MQTT client is connected: Mqtt::tick takes the *)
(* time, then copies the state, and Publisher::tick works on the copy, so  *)
(* that nothing comes between its steps.  The copy may be newer than the   *)
(* time.  Each message is queued, or there is no room for it.              *)

Announced(sent) == [s \in Slots |-> IF s \in sent THEN configuration[s] ELSE announced[s]]

Online(s, now) ==
    /\ configuration[s] # Off /\ busReady
    /\ Fresh(readings[s].electrical, now, 1)

Published(before, sent, now) ==
    [before EXCEPT
        !.online = [s \in Slots |-> IF s \in sent
                      THEN IF Online(s, now) THEN "online" ELSE "offline" ELSE @[s]],
        !.electrical = [s \in Slots |-> IF s \in sent /\ Online(s, now)
                          THEN readings[s].electrical.at ELSE @[s]]]

(* A new session, Home Assistant's return or a new generation: all slots   *)
(* are announced first; what was not sent is tried again in the next tick. *)
Rediscover(announces, sent, now) ==
    /\ announced' = Announced(announces)
    /\ published' = IF announces = Slots
          THEN Published([NothingPublished EXCEPT !.generation = generation], sent, now)
          ELSE NothingPublished
    /\ UNCHANGED <<sharedVars, notified, workerVars, time>>

Publish(sent, now) ==
    /\ published.generation = generation
    /\ published' = Published(published, sent, now)
    /\ UNCHANGED <<sharedVars, notified, workerVars, announced, time>>

Elapse ==
    /\ time < MaxTime /\ time' = time + 1
    /\ UNCHANGED <<sharedVars, notified, workerVars, mainVars>>

Reads == ReadElectrical \/ CommitElectrical \/ EnergyNotDue \/ ReadEnergy \/ CommitEnergy
Worker == Top \/ Wake \/ NotYet \/ OpenBus \/ Opened \/ Slot \/ Reads \/ Rest

Next ==
    \/ \E c \in Configurations : Configure(c) \/ StoreFails(c)
    \/ Worker
    \/ \E sent \in SUBSET Slots, now \in 1 .. time :
         \/ Publish(sent, now)
         \/ Rediscover(Slots, sent, now)
         \/ \E announces \in SUBSET Slots : Rediscover(announces, {}, now)
    \/ Elapse

Spec == Init /\ [][Next]_vars

\* The worker's task runs.
FairSpec == Spec /\ WF_vars(Worker)

-----------------------------------------------------------------------------
(* rs485-energy-meters.md: "A configuration generation prevents an         *)
(* in-flight read from appearing under a changed name or address".  Also,  *)
(* the bus is open only with the settings of the worker's generation.      *)
ReadingsBelong ==
    /\ \A s \in Slots :
        LET r == readings[s]
        IN  /\ r.electrical # Invalid => r.electrical.of = configuration[s]
            /\ r.energy # Invalid => r.energy.of = configuration[s]
    /\ bus # 0 => bus = mine.generation

(* A sample reaches the broker only under the discovery of the meter it    *)
(* was taken of.                                                           *)
PublishedBelong ==
    \A s \in Slots :
        published'.electrical[s] \notin {0, published.electrical[s]} =>
            readings[s].electrical.of = announced'[s]

(* Nothing the user configures is slept over: the worker comes to work on  *)
(* the newest configuration, and gives up the bus when no meter is left.   *)
UpToDate ==
    \/ place = "none"
    \/ mine.generation = generation /\ (AnyEnabled(configuration) \/ bus = 0)
ConfigurationApplies == []<>UpToDate

(* The availability: "online only for a complete electrical sample less    *)
(* than 3 s old; otherwise offline".  A meter is called offline only if no *)
(* such sample is held.                                                    *)
OfflineIsTrue ==
    \A s \in Slots :
        published'.online[s] = "offline" /\ published.online[s] # "offline" =>
            ~(busReady /\ Fresh(readings[s].electrical, time, 1))
=============================================================================
