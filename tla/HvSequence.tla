----------------------------- MODULE HvSequence -----------------------------
(***************************************************************************)
(* What the HV supervisor promises to the rest of the installation: the    *)
(* contactor closes only through self-test and precharge, each stage has   *)
(* its own drive, a stage is left upwards one at a time and only under a   *)
(* run request, and shutting off always goes back to the beginning.        *)
(*                                                                         *)
(* A trip drops the two drivers at once, but a stage under way may go on   *)
(* driving one or both, and even pass to the next stage, until the trip    *)
(* gets hold of the sequence.  One driver without the other is seen only   *)
(* then, and a trip ends only with everything off.                         *)
(*                                                                         *)
(* Faults, tasks and the mutex do not appear: HvControl implements this    *)
(* specification.                                                          *)
(***************************************************************************)
EXTENDS Naturals

VARIABLES
    stage,     \* where the sequence is
    request,   \* somebody wants high voltage
    tripping,  \* a trip has begun and not ended
    relay,     \* precharge relay driven
    duty       \* contactor drive

svars == <<stage, request, tripping, relay, duty>>

Stages == <<"OFF", "SELF_TEST", "PRECHARGE", "CONTACTOR_CLOSE", "RUN">>

Off == [relay |-> FALSE, duty |-> "off"]

\* The drives of a stage.
Drives(s) ==
    CASE s = "PRECHARGE"       -> {[relay |-> TRUE,  duty |-> "off"]}
      [] s = "CONTACTOR_CLOSE" -> {[relay |-> TRUE,  duty |-> "full"],
                                   [relay |-> FALSE, duty |-> "hold"]}
      [] s = "RUN"             -> {[relay |-> FALSE, duty |-> "hold"]}
      [] OTHER                 -> {Off}

\* What a trip leaves of a drive: one driver, or none.
Dropped(s) ==
    {Off} \cup {[relay |-> FALSE, duty |-> d.duty] : d \in Drives(s)}
          \cup {[relay |-> d.relay, duty |-> "off"] : d \in Drives(s)}

Drive == [relay |-> relay, duty |-> duty]

\* The drive belongs to the stage, as far as a trip has left it.
Shows(s) == Drive' \in Drives(s) \cup (IF tripping THEN Dropped(s) ELSE {})

SInit ==
    /\ stage = "OFF" /\ request = FALSE /\ tripping = FALSE
    /\ relay = FALSE /\ duty = "off"

Ask ==
    /\ request' = TRUE
    /\ UNCHANGED <<stage, tripping, relay, duty>>

\* One stage up, with the drive of the new stage.
Advance ==
    /\ request
    /\ \E i \in 1..4 : stage = Stages[i] /\ stage' = Stages[i + 1]
    /\ Shows(stage')
    /\ UNCHANGED <<request, tripping>>

\* Within a stage: its next drive, what a trip takes away, what the stage gives back.
Redrive ==
    /\ Shows(stage)
    /\ Drive' = Off \/ request
    /\ tripping' \in {tripping, TRUE}
    /\ UNCHANGED <<stage, request>>

ShutOff ==
    /\ stage' = "OFF"
    /\ Drive' = Off
    /\ request' \in {request, FALSE}
    /\ tripping' \in BOOLEAN

SNext == Ask \/ Advance \/ Redrive \/ ShutOff

SSpec == SInit /\ [][SNext]_svars
=============================================================================
