------------------------- MODULE RuntimeConfigStore -------------------------
(***************************************************************************)
(* The runtime configuration of the master in its two flash slots          *)
(* (RuntimeConfiguration.cpp), the two services that rewrite it            *)
(* (BmsUart.cpp, SET_CONFIG and SET_BALANCING_ENABLED) and the boot that   *)
(* reads it back (SlaveController::loadConfig), with flash errors and the  *)
(* loss of power at every step.                                            *)
(*                                                                         *)
(* A slot is one flash page.  Its CRC makes a record that is not complete  *)
(* worth the same as garbage, so that contents are blank, torn, or a       *)
(* record.  The fields of the configuration are grouped by how a request   *)
(* may treat them: "main" and "balance" come with every SET_CONFIG, the    *)
(* self-discharge rate and the cold allowance were added later and are     *)
(* missing from short frames and old records.                              *)
(***************************************************************************)
EXTENDS Naturals

CONSTANTS
    Mains,          \* values of the main fields that validate() accepts
    Runnable,       \* those that validateRuntimeConfiguration() accepts too
    BadMain,        \* stands for the main fields it rejects
    DefaultMain,
    Rates, DefaultRate,
    Allowances, DefaultAllowance,
    None,
    MaxGeneration,  \* bound: 2^32 - 1 in the code, beyond the flash's life
    FirstVersions,  \* versions and generations of the records that are
    FirstGenerations  \* found at the first boot

ASSUME ConfigAssumption ==
    /\ Runnable \subseteq Mains
    /\ BadMain \notin Mains
    /\ DefaultMain \in Runnable
    /\ DefaultRate \in Rates
    /\ DefaultAllowance \in Allowances
    /\ MaxGeneration \in Nat
    /\ FirstVersions \subseteq 2..6
    /\ FirstGenerations \subseteq 1..MaxGeneration

VARIABLES
    slots,      \* contents of the two pages
    frame,      \* request taken from the queue, or None
    phase,      \* where its handler is
    part,       \* doubleword programmed next
    record,     \* record being written
    target,     \* slot being rewritten
    result,     \* result about to be sent
    answer,     \* last result sent since the boot
    running,    \* configuration in force since the boot, or None (CRITICAL)
    balancing   \* automatic balancing enabled

flash  == <<slots>>
job    == <<part, record, target>>
memory == <<running, balancing>>
vars   == <<slots, frame, phase, part, record, target, result, answer,
            running, balancing>>

Fields == [main : Mains, balance : BOOLEAN, rate : Rates, cold : Allowances]

Defaults == [main |-> DefaultMain, balance |-> TRUE,
             rate |-> DefaultRate, cold |-> DefaultAllowance]

Supported == {2, 3, 4, 5}
Current == 5

Record(v, g, x) == [form |-> "record", version |-> v, generation |-> g,
                    fields |-> x]
Blank == [form |-> "blank", version |-> 0, generation |-> 0,
          fields |-> Defaults]
Torn  == [form |-> "torn", version |-> 0, generation |-> 0,
          fields |-> Defaults]

RecordFields == [main : Mains \cup {BadMain}, balance : BOOLEAN,
                 rate : Rates, cold : Allowances]

\* Version 6 stands for the records of later firmware.
Records == [form : {"record"}, version : 2..6,
            generation : 1..MaxGeneration, fields : RecordFields]
Contents == {Blank, Torn} \cup Records

-----------------------------------------------------------------------------
\* Reading.

ValuesFromRecord(c) ==
    [c.fields EXCEPT
        !.rate = IF c.version >= 4 THEN c.fields.rate ELSE DefaultRate,
        !.cold = IF c.version >= 5 THEN c.fields.cold ELSE DefaultAllowance]

Valid(c) ==
    /\ c.form = "record"
    /\ c.version \in Supported
    /\ c.fields.main \in Mains

FirstWins(s) ==
    Valid(s[1]) /\ (~Valid(s[2]) \/ s[1].generation >= s[2].generation)

\* The configuration load() returns, None unless its status is Valid.
Load(s) ==
    IF FirstWins(s) THEN ValuesFromRecord(s[1])
    ELSE IF Valid(s[2]) THEN ValuesFromRecord(s[2])
    ELSE None

-----------------------------------------------------------------------------
\* Writing: save() erases the slot that load() does not pick.

\* The new record does not outrank the old one (for mutation).
NextGenerationSame(s) ==
    IF FirstWins(s) THEN s[1].generation
    ELSE IF Valid(s[2]) THEN s[2].generation ELSE 1

NextGeneration(s) ==
    IF FirstWins(s) THEN s[1].generation + 1
    ELSE IF Valid(s[2]) THEN s[2].generation + 1
    ELSE 1

\* The slot that load() picks (for mutation).
TargetNewest(s) == IF FirstWins(s) THEN 1 ELSE 2

TargetSlot(s) ==
    IF FirstWins(s) THEN 2
    ELSE IF Valid(s[2]) THEN 1
    ELSE IF s[1].form # "blank" /\ s[2].form = "blank" THEN 2
    ELSE 1

\* A request names some fields and keeps the others; the kept ones are
\* normalised in what it carries.
Keeping == {{}, {"cold"}, {"rate", "cold"}, {"main", "rate", "cold"}}
OnlyBalance(r) == "main" \in r.keeps

Requests ==
    {r \in [keeps : Keeping, to : RecordFields] :
        /\ "main" \in r.keeps => r.to.main = DefaultMain
        /\ "rate" \in r.keeps => r.to.rate = DefaultRate
        /\ "cold" \in r.keeps => r.to.cold = DefaultAllowance}

ASSUME NoneAssumption == None \notin Fields /\ None \notin Requests

Base(s) == IF Load(s) = None THEN Defaults ELSE Load(s)

\* The values the handler saves: SET_CONFIG takes what its frame is too short
\* for, and SET_BALANCING_ENABLED all but one flag, from the stored record.
Requested(s, r) ==
    [main    |-> IF "main" \in r.keeps THEN Base(s).main ELSE r.to.main,
     balance |-> r.to.balance,
     rate    |-> IF "rate" \in r.keeps THEN Base(s).rate ELSE r.to.rate,
     cold    |-> IF "cold" \in r.keeps THEN Base(s).cold ELSE r.to.cold]

\* The locals of the handlers and of save() between two requests.
NoJob == part = 1 /\ target = 1 /\ record = Blank /\ result = "none"
ForgetJob ==
    part' = 1 /\ target' = 1 /\ record' = Blank /\ result' = "none"

-----------------------------------------------------------------------------
\* The handlers of the two requests, in the task of the UART.

Receive ==
    /\ phase = "idle" /\ frame = None
    /\ frame' \in Requests
    /\ answer' = "none"
    /\ UNCHANGED <<flash, memory, phase, job, result>>

Conclude(r) ==
    /\ phase' = "reply"
    /\ result' = r

BeginSave ==
    /\ phase' = "erase"
    /\ NextGeneration(slots) <= MaxGeneration
    /\ record' = Record(Current, NextGeneration(slots), Requested(slots, frame))
    /\ target' = TargetSlot(slots)
    /\ part' = 1
    /\ UNCHANGED result

\* configurationWriteAllowed() asks the HV supervisor and may say no.
SetConfig ==
    /\ phase = "idle" /\ frame # None /\ ~OnlyBalance(frame)
    /\ LET values == Requested(slots, frame) IN
        \/ values.main \notin Runnable /\ Conclude("invalid") /\ UNCHANGED job
        \/ values.main \in Runnable /\ Conclude("denied") /\ UNCHANGED job
        \/ values.main \in Runnable /\ BeginSave
    /\ UNCHANGED <<flash, memory, frame, answer>>

SetBalancingEnabled ==
    /\ phase = "idle" /\ frame # None /\ OnlyBalance(frame)
    /\ LET current == Load(slots) IN
        \/ current = None /\ Conclude("denied") /\ UNCHANGED job
        \/ /\ current # None /\ current.balance = frame.to.balance
           /\ Conclude("ok") /\ UNCHANGED job
        \/ /\ current # None /\ current.balance # frame.to.balance
           /\ BeginSave
    /\ UNCHANGED <<flash, memory, frame, answer>>

Put(c) == slots' = [slots EXCEPT ![target] = c]

EraseSlot ==
    /\ phase = "erase"
    /\ \/ Put(Blank) /\ phase' = "program" /\ UNCHANGED result
       \/ \E c \in {slots[target], Blank, Torn} : Put(c) /\ Conclude("denied")
    /\ UNCHANGED <<memory, frame, job, answer>>

\* One doubleword too many (for mutation).
DoublewordsPlusOne == 5

Doublewords == 4

\* What a doubleword leaves behind when it is not programmed properly; with
\* the last one, which holds the CRC, the record may be complete.
Outcomes == {slots[target], Torn} \cup (IF part = Doublewords THEN {record} ELSE {})

ProgramDoubleword ==
    /\ phase = "program"
    /\ \/ /\ part < Doublewords
          /\ Put(Torn)
          /\ part' = part + 1
          /\ UNCHANGED <<phase, result>>
       \/ /\ part = Doublewords
          /\ \E c \in {Torn, record} : Put(c)
          /\ phase' = "verify"
          /\ UNCHANGED <<part, result>>
       \/ /\ \E c \in Outcomes : Put(c)
          /\ Conclude("denied")
          /\ UNCHANGED part
    /\ UNCHANGED <<memory, frame, record, target, answer>>

\* The comparison at the end of programRecord().
Verify ==
    /\ phase = "verify"
    /\ Conclude(IF slots[target] = record THEN "ok" ELSE "denied")
    /\ UNCHANGED <<flash, memory, frame, job, answer>>

\* The flag is only set when a record was written for it (for mutation).
ReplyAfterSave ==
    /\ phase = "reply"
    /\ answer' = result
    /\ frame' = None
    /\ phase' = IF result = "ok" /\ ~OnlyBalance(frame) THEN "reset" ELSE "idle"
    /\ balancing' = IF result = "ok" /\ OnlyBalance(frame) /\ record # Blank
                    THEN frame.to.balance ELSE balancing
    /\ ForgetJob
    /\ UNCHANGED <<flash, running>>

Reply ==
    /\ phase = "reply"
    /\ answer' = result
    /\ frame' = None
    /\ phase' = IF result = "ok" /\ ~OnlyBalance(frame) THEN "reset" ELSE "idle"
    /\ balancing' = IF result = "ok" /\ OnlyBalance(frame)
                    THEN frame.to.balance ELSE balancing
    /\ ForgetJob
    /\ UNCHANGED <<flash, running>>

\* loadConfig(): only a runnable configuration comes into force.
Runs(x) == IF x # None /\ x.main \in Runnable THEN x ELSE None

Boot(s) ==
    /\ running' = Runs(Load(s))
    /\ balancing' = IF Runs(Load(s)) = None THEN TRUE ELSE Load(s).balance
    /\ phase' = "idle"
    /\ frame' = None
    /\ answer' = "none"
    /\ ForgetJob

\* The reset 100 ms after an accepted SET_CONFIG.
Reset ==
    /\ phase = "reset"
    /\ Boot(slots)
    /\ UNCHANGED slots

\* Power fails and returns, in the middle of an erase or a doubleword as well.
PowerLoss ==
    /\ CASE phase = "erase"   -> \E c \in {slots[target], Blank, Torn} : Put(c)
         [] phase = "program" -> \E c \in Outcomes : Put(c)
         [] OTHER             -> UNCHANGED slots
    /\ Boot(slots')

\* What earlier or later firmware may have left in a slot.
Found == {Blank, Torn} \cup [form : {"record"}, version : FirstVersions,
                            generation : FirstGenerations,
                            fields : RecordFields]

Init ==
    /\ slots \in [1..2 -> Found]
    /\ Valid(slots[1]) /\ Valid(slots[2])
        => slots[1].generation # slots[2].generation
    /\ running = Runs(Load(slots))
    /\ balancing = IF running = None THEN TRUE ELSE running.balance
    /\ frame = None /\ phase = "idle" /\ answer = "none"
    /\ NoJob

Next ==
    \/ Receive
    \/ SetConfig
    \/ SetBalancingEnabled
    \/ EraseSlot
    \/ ProgramDoubleword
    \/ Verify
    \/ Reply
    \/ Reset
    \/ PowerLoss

Spec == Init /\ [][Next]_vars

-----------------------------------------------------------------------------
\* Type correctness of the store, its handlers and the booted configuration.
TypeOK ==
    /\ slots \in [1..2 -> Contents]
    /\ frame \in Requests \cup {None}
    /\ phase \in {"idle", "erase", "program", "verify", "reply", "reset"}
    /\ part \in 1..4
    /\ record \in Contents
    /\ target \in 1..2
    /\ result \in {"none", "ok", "denied", "invalid"}
    /\ answer \in {"none", "ok", "denied", "invalid"}
    /\ running \in Fields \cup {None}
    /\ balancing \in BOOLEAN

\* Two usable records never have the same generation, whatever was interrupted
\* between them: with a tie, load() would fall back to the first slot and an
\* accepted configuration could be replaced by the one before it.
GenerationsDiffer ==
    Valid(slots[1]) /\ Valid(slots[2])
        => slots[1].generation # slots[2].generation

\* After SET_BALANCING_ENABLED or SET_CONFIG is answered "ok" the stored flag
\* and the one in force are the same (once a SET_CONFIG has reset the master),
\* so that the next boot does not undo what the Companion was told.
AcceptedFlagIsInForce ==
    phase = "idle" /\ frame = None /\ answer = "ok"
        => Load(slots) # None /\ Load(slots).balance = balancing

\* The slots implement one register that changes as a whole, keeps what a
\* request does not name, survives power losses and flash errors, and answers
\* "ok" only for what is stored (save(), updateBalanceEnabled(), SET_CONFIG).
Register == INSTANCE ConfigRegister WITH
    Values <- Fields, Factory <- Defaults, stored <- Load(slots), asked <- frame

ImplementsRegister == Register!RSpec
=============================================================================
