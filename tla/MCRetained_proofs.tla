----------------------------- MODULE MCRetained_proofs -----------------------------
(***************************************************************************)
(* Proofs about what outlives a reset, for every value of the constants.   *)
(*                                                                         *)
(* The configuration store implements one register, generations never tie, *)
(* and an accepted balancing flag is the one in force: the slot being      *)
(* rewritten is never the one load() would pick, the record being written  *)
(* outranks the other slot, and its fields are those the request asks for. *)
(*                                                                         *)
(* The coulomb counter counts an interval as what flowed in it: the        *)
(* registers have moved by it since the baseline, modulo their sizes.  The *)
(* energy counters are exact: the loop over the bits of the time is the    *)
(* division with remainder, by the least-number principle.  Of the records *)
(* the invariant says where among its stores the BMS task is: a marker is  *)
(* clear until its record is whole, and a checksum is of a calibration.    *)
(***************************************************************************)
EXTENDS MCRetained, SequenceTheorems, WellFoundedInduction, TLAPS

-----------------------------------------------------------------------------
\* The configuration store.

Other == 3 - target

\* What holds while save() works on a slot.
Saving == phase \in {"erase", "program", "verify"}

RecordIsRequest ==
    Saving =>
        /\ frame \in Requests
        /\ record.form = "record" /\ record.version = Current
        /\ record.fields \in Fields
        /\ record.fields = Requested(slots, frame)

RecordOutranks ==
    Saving /\ Valid(slots[Other]) => slots[Other].generation < record.generation

TargetIsSpare ==
    /\ phase = "erase" /\ Valid(slots[target]) =>
        /\ Valid(slots[Other])
        /\ slots[target].generation < slots[Other].generation
    /\ phase = "program" => ~Valid(slots[target])
    /\ phase = "verify" => slots[target] = record \/ ~Valid(slots[target])

ReplyIsTrue ==
    phase = "reply" =>
        /\ frame \in Requests
        /\ result # "none"
        /\ result = "ok" => /\ Load(slots) # None
                            /\ Load(slots) = Requested(slots, frame)

StoreInv ==
    /\ TypeOK
    /\ GenerationsDiffer
    /\ RecordIsRequest
    /\ RecordOutranks
    /\ TargetIsSpare
    /\ ReplyIsTrue
    /\ AcceptedFlagIsInForce

-----------------------------------------------------------------------------
\* Facts about load().

Slots == [1..2 -> Contents]

\* A record load() accepts has a generation and well-formed fields, and one of the
\* present version has the fields it was written with.
LEMMA ValidTypes ==
    ASSUME NEW c \in Contents, Valid(c)
    PROVE  /\ c.generation \in Nat /\ c.generation <= MaxGeneration
           /\ c.fields \in Fields
           /\ ValuesFromRecord(c) \in Fields
           /\ ValuesFromRecord(c) # None
           /\ c.version = Current => ValuesFromRecord(c) = c.fields
<1>1. c \in Records
  BY DEF Contents, Valid, Blank, Torn
<1>2. c.fields \in RecordFields /\ c.generation \in 1..MaxGeneration
  BY <1>1 DEF Records
<1>3. c.fields \in Fields
  BY <1>2, Zenon DEF RecordFields, Fields, Valid
<1>4. ValuesFromRecord(c) \in Fields
  BY <1>3, ConfigAssumption DEF ValuesFromRecord, Fields
<1>5. c.version = Current => ValuesFromRecord(c) = c.fields
  <2>1. \A f \in Fields : [f EXCEPT !.rate = f.rate, !.cold = f.cold] = f
    BY DEF Fields
  <2>2. c.version = Current =>
          ValuesFromRecord(c) =
            [c.fields EXCEPT !.rate = c.fields.rate, !.cold = c.fields.cold]
    <3> SUFFICES ASSUME c.version = 5 PROVE
          ValuesFromRecord(c) =
            [c.fields EXCEPT !.rate = c.fields.rate, !.cold = c.fields.cold]
      BY DEF Current
    <3>1. (IF c.version >= 4 THEN c.fields.rate ELSE DefaultRate) = c.fields.rate
      OBVIOUS
    <3>2. (IF c.version >= 5 THEN c.fields.cold ELSE DefaultAllowance)
            = c.fields.cold
      OBVIOUS
    <3> QED
      BY <3>1, <3>2, Zenon DEF ValuesFromRecord
  <2> QED
    BY <1>3, <2>1, <2>2
<1> QED
  BY <1>2, <1>3, <1>4, <1>5, NoneAssumption, ConfigAssumption

\* A slot without a usable record does not count.
LEMMA LoadOther ==
    ASSUME NEW s \in Slots, NEW t \in 1..2, ~Valid(s[t])
    PROVE  Load(s) = IF Valid(s[3 - t]) THEN ValuesFromRecord(s[3 - t]) ELSE None
  BY DEF Load, FirstWins, Slots

\* The higher generation wins.
LEMMA LoadNewest ==
    ASSUME NEW s \in Slots, NEW t \in 1..2, Valid(s[t]),
           Valid(s[3 - t]) => s[3 - t].generation < s[t].generation
    PROVE  Load(s) = ValuesFromRecord(s[t])
<1>1. Valid(s[3 - t]) => /\ s[t].generation \in Nat
                         /\ s[3 - t].generation \in Nat
  BY ValidTypes DEF Slots
<1> QED
  BY <1>1 DEF Load, FirstWins

\* load() finds a configuration exactly when one of the slots is valid.
LEMMA LoadType ==
    ASSUME NEW s \in Slots
    PROVE  /\ Load(s) \in Fields \cup {None}
           /\ Load(s) # None <=> Valid(s[1]) \/ Valid(s[2])
<1>1. s[1] \in Contents /\ s[2] \in Contents
  BY DEF Slots
<1> QED
  BY <1>1, ValidTypes DEF Load, FirstWins

\* Rewriting a spare slot with something unusable changes nothing.
LEMMA SpareSlot ==
    ASSUME NEW s \in Slots, NEW t \in 1..2, NEW c \in Contents, ~Valid(c),
           Valid(s[t]) => /\ Valid(s[3 - t])
                          /\ s[t].generation < s[3 - t].generation
    PROVE  Load([s EXCEPT ![t] = c]) = Load(s)
<1> DEFINE z == [s EXCEPT ![t] = c]
<1>1. z \in Slots /\ z[t] = c /\ z[3 - t] = s[3 - t] /\ 3 - t \in 1..2 /\ 3 - (3 - t) = t
  BY DEF Slots
<1>2. Load(z) = IF Valid(s[3 - t]) THEN ValuesFromRecord(s[3 - t]) ELSE None
  BY <1>1, LoadOther
<1>3. CASE Valid(s[t])
  BY <1>1, <1>2, <1>3, LoadNewest
<1>4. CASE ~Valid(s[t])
  BY <1>2, <1>4, LoadOther
<1> QED
  BY <1>3, <1>4

\* A record that outranks the other slot is what load() returns.
LEMMA NewRecord ==
    ASSUME NEW s \in Slots, NEW t \in 1..2, NEW c \in Contents, Valid(c),
           c.version = Current,
           Valid(s[3 - t]) => s[3 - t].generation < c.generation
    PROVE  Load([s EXCEPT ![t] = c]) = c.fields
<1> DEFINE z == [s EXCEPT ![t] = c]
<1>1. z \in Slots /\ z[t] = c /\ z[3 - t] = s[3 - t]
  BY DEF Slots
<1>2. Load(z) = ValuesFromRecord(z[t])
  BY <1>1, LoadNewest
<1> QED
  BY <1>1, <1>2, ValidTypes

\* Asking again for what is stored asks for nothing.
LEMMA RequestIsIdempotent ==
    ASSUME NEW s \in Slots, NEW z \in Slots, NEW r \in Requests,
           Load(z) = Requested(s, r), Load(z) # None
    PROVE  Requested(z, r) = Load(z)
<1>1. Load(z) \in Fields
  BY LoadType
<1>2. Base(z) = Requested(s, r)
  BY DEF Base
<1> QED
  BY <1>1, <1>2 DEF Requested

\* What a request asks for depends on the slots only through what load() finds in them.
LEMMA SameLoadSameRequest ==
    ASSUME NEW s, NEW z, NEW r, Load(z) = Load(s)
    PROVE  Requested(z, r) = Requested(s, r)
  BY DEF Requested, Base

\* A request asks for fields a record can hold.
LEMMA RequestedType ==
    ASSUME NEW s \in Slots, NEW r \in Requests
    PROVE  /\ Requested(s, r) \in RecordFields
           /\ Requested(s, r).main \in Mains => Requested(s, r) \in Fields
<1>1. r.to \in RecordFields
  BY DEF Requests
<1>2. Base(s) \in Fields
  BY LoadType, ConfigAssumption DEF Base, Fields, Defaults
<1> QED
  BY <1>1, <1>2 DEF Requested, RecordFields, Fields

\* The generation of a new record is beyond that of every valid one.
LEMMA NextGenerationOutranks ==
    ASSUME NEW s \in Slots
    PROVE  /\ NextGeneration(s) \in Nat \ {0}
           /\ Valid(s[1]) => s[1].generation < NextGeneration(s)
           /\ Valid(s[2]) => s[2].generation < NextGeneration(s)
<1>1. s[1] \in Contents /\ s[2] \in Contents
  BY DEF Slots
<1>2. /\ Valid(s[1]) => s[1].generation \in Nat
      /\ Valid(s[2]) => s[2].generation \in Nat
  BY <1>1, ValidTypes
<1> QED
  BY <1>2 DEF NextGeneration, FirstWins

\* An erased or torn slot is no valid record.
LEMMA UnusableContents == /\ Blank \in Contents /\ ~Valid(Blank)
                          /\ Torn \in Contents /\ ~Valid(Torn)
  BY DEF Contents, Valid, Blank, Torn

-----------------------------------------------------------------------------
\* Every action keeps the type invariant.

\* save() starts with the record the request asks for.
LEMMA BeginSaveTypes ==
    ASSUME TypeOK, frame \in Requests, BeginSave
    PROVE  /\ record' \in Contents /\ target' \in 1..2 /\ part' \in 1..4
           /\ phase' = "erase" /\ result' = result
           /\ record'.form = "record" /\ record'.version = Current
           /\ record'.fields = Requested(slots, frame)
           /\ record'.generation = NextGeneration(slots)
<1>1. slots \in Slots
  BY DEF TypeOK, Slots
<1>2. Requested(slots, frame) \in RecordFields
  BY <1>1, RequestedType
<1>3. NextGeneration(slots) \in 1..MaxGeneration
  BY <1>1, NextGenerationOutranks, ConfigAssumption DEF BeginSave
<1>4. record' \in Records
  BY <1>2, <1>3 DEF BeginSave, Record, Records, Current
<1> QED
  BY <1>4 DEF BeginSave, Contents, Record, TargetSlot

\* A boot forgets the request and what was left of its save.
LEMMA BootTypes ==
    ASSUME NEW s \in Slots, Boot(s)
    PROVE  /\ running' \in Fields \cup {None} /\ balancing' \in BOOLEAN
           /\ phase' = "idle" /\ frame' = None /\ answer' = "none"
           /\ part' = 1 /\ target' = 1 /\ record' = Blank /\ result' = "none"
<1>1. Load(s) \in Fields \cup {None}
  BY LoadType
<1> QED
  BY <1>1 DEF Boot, Runs, ForgetJob, Fields

\* Every step keeps the types.
LEMMA TypeStep ==
    ASSUME TypeOK, phase = "reply" => frame \in Requests, [Next]_vars
    PROVE  TypeOK'
<1> USE DEF TypeOK
<1>s. slots \in Slots
  BY DEF Slots
<1>1. CASE Receive
  BY <1>1 DEF Receive, flash, memory, job
<1>2. CASE SetConfig
  <2>1. frame \in Requests
    BY <1>2 DEF SetConfig
  <2>2. CASE BeginSave
    BY <1>2, <2>1, <2>2, BeginSaveTypes DEF SetConfig, flash, memory
  <2>3. CASE ~BeginSave
    <3>1. /\ phase' = "reply" /\ UNCHANGED job
          /\ result' \in {"ok", "denied", "invalid"}
      BY <1>2, <2>3 DEF SetConfig, Conclude
    <3> QED
      BY <1>2, <3>1 DEF SetConfig, flash, memory, job
  <2> QED
    BY <2>2, <2>3
<1>3. CASE SetBalancingEnabled
  <2>1. frame \in Requests
    BY <1>3 DEF SetBalancingEnabled
  <2>2. CASE BeginSave
    BY <1>3, <2>1, <2>2, BeginSaveTypes DEF SetBalancingEnabled, flash, memory
  <2>3. CASE ~BeginSave
    <3>1. /\ phase' = "reply" /\ UNCHANGED job
          /\ result' \in {"ok", "denied", "invalid"}
      BY <1>3, <2>3 DEF SetBalancingEnabled, Conclude
    <3> QED
      BY <1>3, <3>1 DEF SetBalancingEnabled, flash, memory, job
  <2> QED
    BY <2>2, <2>3
<1>4. CASE EraseSlot
  <2>1. slots' \in [1..2 -> Contents]
    BY <1>4, UnusableContents DEF EraseSlot, Put
  <2> QED
    BY <1>4, <2>1 DEF EraseSlot, Conclude, memory, job
<1>5. CASE ProgramDoubleword
  <2>1. slots' \in [1..2 -> Contents]
    BY <1>5, UnusableContents DEF ProgramDoubleword, Put, Outcomes
  <2> QED
    BY <1>5, <2>1 DEF ProgramDoubleword, Conclude, memory, Doublewords
<1>6. CASE Verify
  BY <1>6 DEF Verify, Conclude, flash, memory, job
<1>7. CASE Reply
  <2>1. frame' = None /\ balancing' \in BOOLEAN
    BY <1>7 DEF Reply, Requests, RecordFields
  <2> QED
    BY <1>7, <2>1, UnusableContents DEF Reply, ForgetJob, flash
<1>8. CASE Reset
  BY <1>8, <1>s, BootTypes, UnusableContents DEF Reset
<1>9. CASE PowerLoss
  <2>1. slots' \in [1..2 -> Contents]
    BY <1>9, UnusableContents DEF PowerLoss, Put, Outcomes
  <2>2. slots' \in Slots
    BY <2>1 DEF Slots
  <2>3. Boot(slots')
    BY <1>9 DEF PowerLoss
  <2> HIDE DEF TypeOK
  <2> QED
    BY <2>1, <2>2, <2>3, BootTypes, UnusableContents DEF TypeOK
<1>10. CASE UNCHANGED vars
  BY <1>10 DEF vars
<1> QED
  BY <1>1, <1>2, <1>3, <1>4, <1>5, <1>6, <1>7, <1>8, <1>9, <1>10 DEF Next

-----------------------------------------------------------------------------
\* What the steps on the flash do to the configuration that load() returns.

\* The record being saved is valid.
LEMMA RecordIsValid ==
    ASSUME StoreInv, Saving
    PROVE  record \in Contents /\ Valid(record)
  BY DEF StoreInv, TypeOK, RecordIsRequest, Valid, Fields, Supported, Current

\* A write changes the target slot and no other.
LEMMA PutSlots ==
    ASSUME TypeOK, NEW c \in Contents, Put(c)
    PROVE  /\ slots \in Slots /\ slots' \in Slots /\ target \in 1..2
           /\ Other \in 1..2 /\ Other # target
           /\ slots' = [slots EXCEPT ![target] = c]
           /\ slots'[target] = c /\ slots'[Other] = slots[Other]
           /\ {1, 2} = {target, Other}
  BY DEF TypeOK, Put, Slots, Other

\* GenerationsDiffer, read from the target's side.
LEMMA DifferByTarget ==
    ASSUME TypeOK, NEW s \in Slots
    PROVE  (Valid(s[1]) /\ Valid(s[2]) => s[1].generation # s[2].generation)
           <=> (Valid(s[target]) /\ Valid(s[Other])
                  => s[target].generation # s[Other].generation)
  BY DEF TypeOK, Other

\* Whatever an erase leaves in the spare slot, load() finds what it found before.
LEMMA EraseEffect ==
    ASSUME StoreInv, phase = "erase",
           NEW c \in {slots[target], Blank, Torn}, Put(c)
    PROVE  /\ slots' \in Slots
           /\ Load(slots') = Load(slots)
           /\ GenerationsDiffer'
           /\ slots'[Other] = slots[Other]
           /\ slots'[target] = c
<1>1. TypeOK /\ c \in Contents
  BY UnusableContents DEF StoreInv, TypeOK
<1>2. CASE c = slots[target]
  <2>1. slots' = slots
    BY <1>1, <1>2 DEF Put, TypeOK
  <2> QED
    BY <1>1, <1>2, <2>1, PutSlots DEF StoreInv, GenerationsDiffer
<1>3. CASE ~Valid(c)
  <2>1. Load(slots') = Load(slots)
    BY <1>1, <1>3, PutSlots, SpareSlot DEF StoreInv, TargetIsSpare, Other
  <2>2. GenerationsDiffer'
    BY <1>1, <1>3, PutSlots, DifferByTarget DEF GenerationsDiffer
  <2> QED
    BY <1>1, <2>1, <2>2, PutSlots
<1> QED
  BY <1>2, <1>3, UnusableContents

\* Programming leaves load() what it found before, until the record is complete.
LEMMA ProgramEffect ==
    ASSUME StoreInv, phase = "program",
           NEW c \in {slots[target], Torn, record}, Put(c)
    PROVE  /\ slots' \in Slots
           /\ \/ c = record /\ Load(slots') = record.fields
              \/ ~Valid(c) /\ Load(slots') = Load(slots)
           /\ GenerationsDiffer'
           /\ slots'[Other] = slots[Other]
           /\ slots'[target] = c
<1>1. TypeOK /\ Saving /\ c \in Contents
  BY UnusableContents, RecordIsValid DEF StoreInv, TypeOK, Saving
<1>2. ~Valid(slots[target])
  BY DEF StoreInv, TargetIsSpare
<1>3. CASE c = record
  <2>1. Load(slots') = record.fields
    BY <1>1, <1>3, PutSlots, NewRecord, RecordIsValid
    DEF StoreInv, RecordOutranks, RecordIsRequest, Other
  <2>2. Valid(slots'[Other]) => slots'[Other].generation < record.generation
    BY <1>1, PutSlots DEF StoreInv, RecordOutranks
  <2>3. Valid(slots'[Other]) => slots'[Other].generation \in Nat
    BY <1>1, PutSlots, ValidTypes DEF Slots
  <2>4. record.generation \in Nat
    BY <1>1, RecordIsValid, ValidTypes
  <2>5. GenerationsDiffer'
    BY <1>1, <1>3, <2>2, <2>3, <2>4, PutSlots, DifferByTarget
    DEF GenerationsDiffer
  <2> QED
    BY <1>1, <1>3, <2>1, <2>5, PutSlots
<1>4. CASE ~Valid(c)
  <2>1. Load(slots') = Load(slots)
    BY <1>1, <1>2, <1>4, PutSlots, SpareSlot
  <2>2. GenerationsDiffer'
    BY <1>1, <1>4, PutSlots, DifferByTarget DEF GenerationsDiffer
  <2> QED
    BY <1>1, <1>4, <2>1, <2>2, PutSlots
<1> QED
  BY <1>2, <1>3, <1>4, UnusableContents

\* Where save() starts, the target is the slot load() does not pick.
LEMMA TargetSlotIsSpare ==
    ASSUME NEW s \in Slots, NEW t, t = TargetSlot(s), Valid(s[t]),
           Valid(s[1]) /\ Valid(s[2]) => s[1].generation # s[2].generation
    PROVE  /\ t \in 1..2
           /\ Valid(s[3 - t]) /\ s[t].generation < s[3 - t].generation
<1>1. /\ Valid(s[1]) => s[1].generation \in Nat
      /\ Valid(s[2]) => s[2].generation \in Nat
  BY ValidTypes DEF Slots
<1> QED
  BY <1>1 DEF TargetSlot, FirstWins

-----------------------------------------------------------------------------
\* The inductive invariant.

\* The invariant holds with the slots the first boot finds.
LEMMA StoreInvInit == Init => StoreInv
<1> SUFFICES ASSUME Init PROVE StoreInv
  OBVIOUS
<1>1. slots \in Slots
  <2>1. Found \subseteq Contents
    BY ConfigAssumption DEF Found, Contents, Records
  <2> QED
    BY <2>1 DEF Init, Slots
<1>2. running \in Fields \cup {None}
  BY <1>1, LoadType DEF Init, Runs
<1>3. balancing \in BOOLEAN
  BY <1>2 DEF Init, Fields
<1>4. TypeOK
  <2>1. slots \in [1..2 -> Contents]
    BY <1>1 DEF Slots
  <2>2. 1 \in 1..4 /\ 1 \in 1..2
    OBVIOUS
  <2> QED
    BY <1>2, <1>3, <2>1, <2>2, UnusableContents, Zenon DEF Init, NoJob, TypeOK
<1>5. GenerationsDiffer
  BY DEF Init, GenerationsDiffer
<1> QED
  BY <1>4, <1>5 DEF Init, StoreInv, RecordIsRequest, RecordOutranks,
    TargetIsSpare, ReplyIsTrue, AcceptedFlagIsInForce, Saving

\* The two handlers leave the flash alone and either conclude or begin.
LEMMA BeginSaveStep ==
    ASSUME StoreInv, TypeOK', frame \in Requests, BeginSave,
           Requested(slots, frame).main \in Mains,
           UNCHANGED <<slots, frame>>, phase = "idle"
    PROVE  StoreInv'
<1>1. slots \in Slots /\ TypeOK
  BY DEF StoreInv, TypeOK, Slots
<1>2. /\ phase' = "erase" /\ target' = TargetSlot(slots)
      /\ record'.form = "record" /\ record'.version = Current
      /\ record'.fields = Requested(slots, frame)
      /\ record'.generation = NextGeneration(slots)
      /\ target' \in 1..2
  BY <1>1, BeginSaveTypes DEF BeginSave
<1>3. GenerationsDiffer'
  BY DEF StoreInv, GenerationsDiffer
<1>4. RecordIsRequest'
  BY <1>1, <1>2, RequestedType, SameLoadSameRequest DEF RecordIsRequest
<1>5. RecordOutranks'
  <2>1. Other' \in 1..2 /\ Other' = 3 - target'
    BY <1>2 DEF Other
  <2> QED
    BY <1>1, <1>2, <2>1, NextGenerationOutranks DEF RecordOutranks
<1>6. TargetIsSpare'
  BY <1>1, <1>2, TargetSlotIsSpare
  DEF TargetIsSpare, Other, StoreInv, GenerationsDiffer
<1> QED
  BY <1>2, <1>3, <1>4, <1>5, <1>6
  DEF StoreInv, ReplyIsTrue, AcceptedFlagIsInForce

\* A conclusion that only says "ok" of what is stored.
LEMMA ConcludeStep ==
    ASSUME StoreInv, TypeOK', GenerationsDiffer', frame \in Requests,
           frame' = frame, phase' = "reply", result' # "none",
           result' = "ok" => /\ Load(slots') # None
                             /\ Load(slots') = Requested(slots', frame)
    PROVE  StoreInv'
  BY DEF StoreInv, RecordIsRequest, RecordOutranks, TargetIsSpare,
    ReplyIsTrue, AcceptedFlagIsInForce, Saving

\* The handlers choose the spare slot and outrank the other.
LEMMA HandlerStep ==
    ASSUME StoreInv, TypeOK', SetConfig \/ SetBalancingEnabled
    PROVE  StoreInv'
<1>1. /\ TypeOK /\ phase = "idle" /\ frame \in Requests
      /\ slots' = slots /\ frame' = frame /\ slots \in Slots
  BY DEF StoreInv, TypeOK, SetConfig, SetBalancingEnabled, flash, Slots
<1>2. GenerationsDiffer'
  BY <1>1 DEF StoreInv, GenerationsDiffer
<1>3. CASE SetConfig
  <2>1. CASE BeginSave /\ Requested(slots, frame).main \in Runnable
    BY <1>1, <2>1, BeginSaveStep, ConfigAssumption
  <2>2. CASE Conclude("invalid") \/ Conclude("denied")
    BY <1>1, <1>2, <2>2, ConcludeStep DEF Conclude
  <2> QED
    BY <1>3, <2>1, <2>2 DEF SetConfig
<1>4. CASE SetBalancingEnabled
  <2> DEFINE current == Load(slots)
  <2>0. current \in Fields \cup {None}
    BY <1>1, LoadType
  <2>1. OnlyBalance(frame) /\ frame.keeps = {"main", "rate", "cold"}
    BY <1>1, <1>4 DEF SetBalancingEnabled, OnlyBalance, Requests, Keeping
  <2>2. current # None => Requested(slots, frame).main = current.main
    BY <2>1 DEF Requested, Base
  <2>3. CASE BeginSave /\ current # None
    BY <1>1, <2>0, <2>2, <2>3, BeginSaveStep DEF Fields
  <2>4. CASE Conclude("denied")
    BY <1>1, <1>2, <2>4, ConcludeStep DEF Conclude
  <2>5. CASE Conclude("ok") /\ current # None /\ current.balance = frame.to.balance
    <3>1. Requested(slots, frame) = current
      BY <2>0, <2>1, <2>5 DEF Requested, Base, Fields
    <3> QED
      BY <1>1, <1>2, <2>5, <3>1, ConcludeStep DEF Conclude
  <2> QED
    BY <1>4, <2>3, <2>4, <2>5 DEF SetBalancingEnabled
<1> QED
  BY <1>3, <1>4

\* An erase keeps the invariant and the configuration.
LEMMA EraseStep ==
    ASSUME StoreInv, TypeOK', EraseSlot
    PROVE  StoreInv' /\ Load(slots') = Load(slots)
<1>1. phase = "erase" /\ Saving /\ frame' = frame /\ UNCHANGED job
  BY DEF EraseSlot, Saving
<1>2. PICK c \in {slots[target], Blank, Torn} :
        /\ Put(c)
        /\ \/ c = Blank /\ phase' = "program"
           \/ phase' = "reply" /\ result' = "denied"
  BY DEF EraseSlot, Conclude
<1>3. /\ Load(slots') = Load(slots) /\ GenerationsDiffer'
      /\ slots'[Other] = slots[Other] /\ slots'[target] = c
  BY <1>1, <1>2, EraseEffect
<1>4. /\ frame \in Requests
      /\ Requested(slots', frame) = Requested(slots, frame)
  BY <1>1, <1>3, SameLoadSameRequest DEF StoreInv, RecordIsRequest
<1>5. CASE phase' = "reply" /\ result' = "denied"
  BY <1>1, <1>3, <1>4, <1>5, ConcludeStep
<1>6. CASE c = Blank /\ phase' = "program"
  <2>1. RecordIsRequest'
    BY <1>1, <1>4 DEF StoreInv, RecordIsRequest, job
  <2>2. RecordOutranks'
    BY <1>1, <1>3 DEF StoreInv, RecordOutranks, Other, job
  <2>3. TargetIsSpare'
    BY <1>1, <1>3, <1>6, UnusableContents DEF TargetIsSpare, job
  <2> QED
    BY <1>3, <1>6, <2>1, <2>2, <2>3
    DEF StoreInv, ReplyIsTrue, AcceptedFlagIsInForce
<1> QED
  BY <1>2, <1>3, <1>5, <1>6

\* Programming keeps the invariant; the configuration is the old or the requested one.
LEMMA ProgramStep ==
    ASSUME StoreInv, TypeOK', ProgramDoubleword
    PROVE  /\ StoreInv'
           /\ \/ Load(slots') = Load(slots)
              \/ Load(slots') = Requested(slots, frame)
<1>1. /\ phase = "program" /\ Saving /\ frame' = frame
      /\ record' = record /\ target' = target
  BY DEF ProgramDoubleword, Saving
<1>2. PICK c \in {slots[target], Torn, record} :
        /\ Put(c)
        /\ \/ phase' = "program" /\ c = Torn
           \/ phase' = "verify" /\ c \in {Torn, record}
           \/ phase' = "reply" /\ result' = "denied"
  BY <1>1 DEF ProgramDoubleword, Conclude, Outcomes
<1>3. /\ slots' \in Slots /\ slots \in Slots /\ GenerationsDiffer'
      /\ slots'[Other] = slots[Other] /\ slots'[target] = c
      /\ \/ Load(slots') = record.fields
         \/ Load(slots') = Load(slots)
  BY <1>1, <1>2, ProgramEffect DEF StoreInv, TypeOK, Slots
<1>4. /\ frame \in Requests /\ record.fields = Requested(slots, frame)
      /\ record.fields \in Fields
  BY <1>1 DEF StoreInv, RecordIsRequest
<1>5. Requested(slots', frame) = Requested(slots, frame)
  BY <1>3, <1>4, SameLoadSameRequest, RequestIsIdempotent, NoneAssumption
<1>6. CASE phase' = "reply" /\ result' = "denied"
  BY <1>1, <1>3, <1>4, <1>6, ConcludeStep
<1>7. CASE phase' \in {"program", "verify"}
  <2>1. RecordIsRequest'
    BY <1>1, <1>4, <1>5 DEF StoreInv, RecordIsRequest
  <2>2. RecordOutranks'
    BY <1>1, <1>3 DEF StoreInv, RecordOutranks, Other
  <2>3. TargetIsSpare'
    BY <1>1, <1>2, <1>3, <1>7, UnusableContents DEF TargetIsSpare
  <2>4. ReplyIsTrue' /\ AcceptedFlagIsInForce'
    BY <1>7 DEF ReplyIsTrue, AcceptedFlagIsInForce
  <2>5. GenerationsDiffer'
    BY <1>3
  <2> QED
    BY <1>3, <1>4, <2>1, <2>2, <2>3, <2>4, <2>5 DEF StoreInv
<1> QED
  BY <1>2, <1>3, <1>4, <1>6, <1>7

\* The comparison after the write keeps the invariant.
LEMMA VerifyStep ==
    ASSUME StoreInv, TypeOK', Verify
    PROVE  StoreInv'
<1>1. /\ phase = "verify" /\ Saving /\ frame' = frame /\ slots' = slots
      /\ phase' = "reply"
      /\ result' = "ok" => slots[target] = record
  BY DEF Verify, Saving, flash, Conclude
<1>2. /\ frame \in Requests /\ record.fields = Requested(slots, frame)
      /\ record.fields \in Fields /\ record.version = Current
  BY <1>1 DEF StoreInv, RecordIsRequest
<1>3. /\ slots \in Slots /\ target \in 1..2 /\ GenerationsDiffer'
  BY <1>1 DEF StoreInv, TypeOK, Slots, GenerationsDiffer
<1>4. slots[target] = record => Load(slots) = record.fields
  <2>1. record \in Contents /\ Valid(record)
    BY <1>1, RecordIsValid
  <2> QED
    BY <1>1, <1>2, <1>3, <2>1, LoadNewest, ValidTypes
    DEF StoreInv, RecordOutranks, Other
<1>5. result' # "none"
  BY DEF Verify, Conclude
<1> QED
  BY <1>1, <1>2, <1>3, <1>4, <1>5, ConcludeStep, NoneAssumption

\* The answer keeps the invariant.
LEMMA ReplyStep ==
    ASSUME StoreInv, TypeOK', Reply
    PROVE  StoreInv'
<1>1. /\ phase = "reply" /\ frame \in Requests /\ frame' = None
      /\ slots' = slots /\ answer' = result /\ phase' \in {"reset", "idle"}
  BY DEF StoreInv, Reply, ReplyIsTrue, flash
<1>2. AcceptedFlagIsInForce'
  <2> SUFFICES ASSUME result = "ok", phase' = "idle"
               PROVE  Load(slots) # None /\ Load(slots).balance = balancing'
    BY <1>1 DEF AcceptedFlagIsInForce
  <2>1. OnlyBalance(frame) /\ balancing' = frame.to.balance
    BY DEF Reply
  <2>2. Load(slots) # None /\ Load(slots) = Requested(slots, frame)
    BY <1>1 DEF StoreInv, ReplyIsTrue
  <2>3. Requested(slots, frame).balance = frame.to.balance
    BY DEF Requested
  <2> QED
    BY <2>1, <2>2, <2>3
<1> QED
  BY <1>1, <1>2 DEF StoreInv, GenerationsDiffer, RecordIsRequest,
    RecordOutranks, TargetIsSpare, ReplyIsTrue, Saving

\* A restart at any moment keeps the invariant; the configuration is the old or the
\* requested one.
LEMMA BootStep ==
    ASSUME StoreInv, TypeOK', Reset \/ PowerLoss
    PROVE  /\ StoreInv'
           /\ frame' = None /\ answer' = "none"
           /\ \/ Load(slots') = Load(slots)
              \/ frame \in Requests /\ Load(slots') = Requested(slots, frame)
<1>1. phase' = "idle" /\ frame' = None /\ answer' = "none"
  BY DEF Reset, PowerLoss, Boot
<1>2. /\ GenerationsDiffer'
      /\ \/ Load(slots') = Load(slots)
         \/ frame \in Requests /\ Load(slots') = Requested(slots, frame)
  <2>1. CASE slots' = slots
    BY <2>1 DEF StoreInv, GenerationsDiffer
  <2>2. CASE PowerLoss /\ phase = "erase"
    <3>1. PICK c \in {slots[target], Blank, Torn} : Put(c)
      BY <2>2 DEF PowerLoss
    <3> QED
      BY <2>2, <3>1, EraseEffect
  <2>3. CASE PowerLoss /\ phase = "program"
    <3>1. PICK c \in {slots[target], Torn, record} : Put(c)
      BY <2>3 DEF PowerLoss, Outcomes
    <3>2. /\ GenerationsDiffer'
          /\ Load(slots') = Load(slots) \/ Load(slots') = record.fields
      BY <2>3, <3>1, ProgramEffect
    <3> QED
      BY <2>3, <3>2 DEF StoreInv, RecordIsRequest, Saving
  <2> QED
    BY <2>1, <2>2, <2>3 DEF Reset, PowerLoss
<1> QED
  BY <1>1, <1>2 DEF StoreInv, RecordIsRequest, RecordOutranks, TargetIsSpare,
    ReplyIsTrue, AcceptedFlagIsInForce, Saving

\* The arrival of a request keeps the invariant.
LEMMA ReceiveStep ==
    ASSUME StoreInv, TypeOK', Receive
    PROVE  StoreInv'
  BY NoneAssumption DEF Receive, flash, StoreInv, GenerationsDiffer,
    RecordIsRequest, RecordOutranks, TargetIsSpare, ReplyIsTrue,
    AcceptedFlagIsInForce, Saving

\* A step of nothing keeps the invariant.
LEMMA StutterStep ==
    ASSUME StoreInv, UNCHANGED vars
    PROVE  StoreInv'
  BY DEF vars, StoreInv, TypeOK, GenerationsDiffer, RecordIsRequest,
    RecordOutranks, TargetIsSpare, ReplyIsTrue, AcceptedFlagIsInForce,
    Saving, Other, OnlyBalance

\* The spare slot, the outranking record and the truthful reply hold together
\* in every state that save(), the two services, a reset or a power loss reach.
THEOREM Inductive == Spec => []StoreInv
<1>1. StoreInv /\ [Next]_vars => StoreInv'
  <2> SUFFICES ASSUME StoreInv, [Next]_vars PROVE StoreInv'
    OBVIOUS
  <2>1. TypeOK'
    BY TypeStep DEF StoreInv, ReplyIsTrue
  <2> QED
    BY <2>1, ReceiveStep, HandlerStep, EraseStep, ProgramStep, VerifyStep,
      ReplyStep, BootStep, StutterStep DEF Next
<1> QED
  BY <1>1, StoreInvInit, PTL DEF Spec

\* No two usable records ever tie, so that load() always picks the newest.
THEOREM NoTie == Spec => []GenerationsDiffer
  BY Inductive, PTL DEF StoreInv

\* The store's variables keep their types.
THEOREM TypeCorrect == Spec => []TypeOK
  BY Inductive, PTL DEF StoreInv

\* After "ok" the balancing flag in force is the stored one.
THEOREM FlagInForce == Spec => []AcceptedFlagIsInForce
  BY Inductive, PTL DEF StoreInv

-----------------------------------------------------------------------------
\* Refinement.

\* What the register would hold after a request is what the record of the request holds.
LEMMA MergeIsRequested ==
    ASSUME NEW r \in Requests
    PROVE  Register!Merge(Load(slots), r) = Requested(slots, r)
<1>1. "balance" \notin r.keeps
  BY DEF Requests, Keeping
<1> QED
  BY <1>1 DEF Register!Merge, Register!Base, Requested, Base

\* Initially the slots hold what the register holds.
LEMMA RegisterInit == Init => Register!RInit
<1> SUFFICES ASSUME Init PROVE Register!RInit
  OBVIOUS
<1>1. slots \in Slots
  BY StoreInvInit DEF StoreInv, TypeOK, Slots
<1> QED
  BY <1>1, LoadType DEF Init, Register!RInit

\* Every step of the store is one of the register, or leaves it alone.
LEMMA RegisterStep ==
    ASSUME StoreInv, StoreInv', [Next]_vars
    PROVE  [Register!RNext]_(Register!rvars)
<1> USE DEF Register!rvars
<1>t. TypeOK'
  BY DEF StoreInv
<1>1. CASE Receive
  BY <1>1 DEF Receive, flash, Register!RNext, Register!Ask
<1>2. CASE SetConfig \/ SetBalancingEnabled
  BY <1>2 DEF SetConfig, SetBalancingEnabled, flash
<1>3. CASE EraseSlot
  BY <1>3, <1>t, EraseStep DEF EraseSlot
<1>4. CASE ProgramDoubleword
  <2>1. frame \in Requests
    BY <1>4 DEF ProgramDoubleword, StoreInv, RecordIsRequest, Saving
  <2>2. \/ Load(slots') = Load(slots)
        \/ Load(slots') = Register!Merge(Load(slots), frame)
    BY <1>4, <1>t, <2>1, ProgramStep, MergeIsRequested
  <2> QED
    BY <1>4, <2>1, <2>2, NoneAssumption
    DEF ProgramDoubleword, Register!RNext, Register!Apply
<1>5. CASE Verify
  BY <1>5 DEF Verify, flash
<1>6. CASE Reply
  <2>1. /\ frame \in Requests /\ frame' = None /\ slots' = slots
        /\ answer' = result
        /\ result = "ok" => Load(slots) = Requested(slots, frame)
    BY <1>6 DEF Reply, StoreInv, ReplyIsTrue, flash
  <2>2. frame # None /\ Load(slots') = Load(slots)
    BY <2>1, NoneAssumption
  <2>3. result = "ok" => Load(slots) = Register!Merge(Load(slots), frame)
    BY <2>1, MergeIsRequested
  <2>4. result \in {"ok", "denied", "invalid"}
    BY <1>6 DEF StoreInv, ReplyIsTrue, TypeOK, Reply
  <2> QED
    BY <2>1, <2>2, <2>3, <2>4 DEF Register!RNext, Register!Reply
<1>7. CASE Reset \/ PowerLoss
  <2>1. /\ frame' = None /\ answer' = "none"
        /\ \/ Load(slots') = Load(slots)
           \/ frame \in Requests /\ Load(slots') = Requested(slots, frame)
    BY <1>7, <1>t, BootStep
  <2>2. \/ Load(slots') = Load(slots)
        \/ frame # None /\ Load(slots') = Register!Merge(Load(slots), frame)
    BY <2>1, MergeIsRequested, NoneAssumption
  <2> QED
    BY <2>1, <2>2 DEF Register!RNext, Register!PowerLoss
<1>8. CASE UNCHANGED vars
  BY <1>8 DEF vars
<1> QED
  BY <1>1, <1>2, <1>3, <1>4, <1>5, <1>6, <1>7, <1>8 DEF Next

\* The two slots implement the register: requests take effect as a whole or
\* not at all, keep what they do not name, and survive the loss of power.
THEOREM StoreImplementsRegister == Spec => ImplementsRegister
<1>1. StoreInv /\ StoreInv' /\ [Next]_vars => [Register!RNext]_(Register!rvars)
  BY RegisterStep
<1> QED
  BY <1>1, RegisterInit, Inductive, PTL
  DEF Spec, ImplementsRegister, Register!RSpec

LEMMA DivMod ==
    ASSUME NEW a \in Int, NEW n \in Nat \ {0}
    PROVE  /\ a \div n \in Int /\ a % n \in Int
           /\ a = (a \div n) * n + (a % n)
           /\ 0 <= a % n /\ a % n < n
<1>1. n \in Int /\ n > 0
  OBVIOUS
<1> QED
  BY <1>1

LEMMA Multiple ==
    ASSUME NEW k \in Int, NEW n \in Nat \ {0}
    PROVE  /\ k * n \in Int
           /\ k >= 1 => k * n >= n
           /\ k <= -1 => k * n <= -n
           /\ k = 0 => k * n = 0
  OBVIOUS

LEMMA Distribute ==
    ASSUME NEW a \in Int, NEW b \in Int, NEW n \in Int
    PROVE  (a + b) * n = a * n + b * n /\ (a - b) * n = a * n - b * n
  OBVIOUS

LEMMA ModUnique ==
    ASSUME NEW a \in Int, NEW n \in Nat \ {0}, NEW q \in Int, NEW r \in Int,
           a = q * n + r, 0 <= r, r < n
    PROVE  a % n = r /\ a \div n = q
<1>1. /\ a \div n \in Int /\ a % n \in Int
      /\ a = (a \div n) * n + (a % n)
      /\ 0 <= a % n /\ a % n < n
  BY DivMod
<1> DEFINE p == a \div n
           s == a % n
<1>2. p \in Int /\ s \in Int /\ a = p * n + s /\ 0 <= s /\ s < n
  BY <1>1
<1> HIDE DEF p, s
<1>3. (p - q) * n = p * n - q * n
  BY <1>2, Distribute
<1>4. /\ p - q >= 1 => (p - q) * n >= n
      /\ p - q <= -1 => (p - q) * n <= -n
  BY <1>2, Multiple
<1>5. p * n \in Int /\ q * n \in Int
  BY <1>2, Multiple
<1>6. p * n - q * n = r - s
  BY <1>2, <1>5
<1>7. ~(p - q >= 1) /\ ~(p - q <= -1)
  BY <1>2, <1>3, <1>4, <1>6
<1>8. p = q
  BY <1>2, <1>7
<1>9. s = r
  BY <1>2, <1>5, <1>8
<1> QED
  BY <1>8, <1>9 DEF p, s

LEMMA AddMod ==
    ASSUME NEW a \in Int, NEW b \in Int, NEW n \in Nat \ {0}
    PROVE  ((a % n) + b) % n = (a + b) % n
<1> DEFINE p == a \div n
           s == a % n
           q == (s + b) \div n
           r == (s + b) % n
<1>1. p \in Int /\ s \in Int /\ a = p * n + s
  BY DivMod
<1>2. q \in Int /\ r \in Int /\ s + b = q * n + r /\ 0 <= r /\ r < n
  BY <1>1, DivMod
<1> HIDE DEF p, q, r, s
<1>3. (p + q) * n = p * n + q * n /\ p * n \in Int /\ q * n \in Int
  BY <1>1, <1>2, Distribute, Multiple
<1>4. a + b = (p + q) * n + r
  BY <1>1, <1>2, <1>3
<1>5. (a + b) % n = r
  BY <1>1, <1>2, <1>4, a + b \in Int, p + q \in Int, ModUnique
<1> QED
  BY <1>5 DEF r, s

LEMMA SubMod ==
    ASSUME NEW a \in Int, NEW b \in Int, NEW n \in Nat \ {0}
    PROVE  (((a + b) % n) - a) % n = b % n
<1> DEFINE p == (a + b) \div n
           s == (a + b) % n
           q == b \div n
           r == b % n
<1>1. p \in Int /\ s \in Int /\ a + b = p * n + s
  BY DivMod
<1>2. q \in Int /\ r \in Int /\ b = q * n + r /\ 0 <= r /\ r < n
  BY <1>1, DivMod
<1> HIDE DEF p, q, r, s
<1>3. (q - p) * n = q * n - p * n /\ p * n \in Int /\ q * n \in Int
  BY <1>1, <1>2, Distribute, Multiple
<1>4. s - a = (q - p) * n + r
  BY <1>1, <1>2, <1>3
<1>5. (s - a) % n = r
  BY <1>1, <1>2, <1>4, ModUnique
<1> QED
  BY <1>5 DEF r, s

-----------------------------------------------------------------------------
\* The least-number principle: what holds of all numbers is proved from the least
\* of which it would not.
LEMMA Least ==
    ASSUME NEW T, T \subseteq Nat, T # {}
    PROVE  \E m \in T : \A n \in T : m <= n
<1> DEFINE R == OpToRel(<, Nat)
<1>1. IsWellFoundedOn(R, Nat)
  BY NatLessThanWellFounded
<1>2. \A x, y \in Nat : y < x => <<y, x>> \in R
  BY DEF OpToRel
<1> HIDE DEF R
<1>3. \E x \in T : \A y \in T : ~(<<y, x>> \in R)
  BY <1>1, WFMin
<1>4. PICK m \in T : \A y \in T : ~(<<y, m>> \in R)
  BY <1>3
<1>5. ASSUME NEW n \in T PROVE m <= n
  <2>1. m \in Nat /\ n \in Nat
    OBVIOUS
  <2>2. ~(n < m)
    BY <1>2, <1>4, <2>1, Zenon
  <2> QED
    BY <2>1, <2>2
<1> QED
  BY <1>5

-----------------------------------------------------------------------------
\* Programs of stores.

\* What is left of a program after its first k stores.
Left(program_, k) == [i \in 1..(Len(program_) - k) |-> program_[i + k]]

\* Nothing is done at the start, and nothing left at the end.
LEMMA LeftEnds ==
    ASSUME NEW S, NEW W \in Seq(S)
    PROVE  Left(W, 0) = W /\ Left(W, Len(W)) = <<>>
  BY LenProperties DEF Left

\* The next store of a program.
LEMMA LeftNext ==
    ASSUME NEW S, NEW W \in Seq(S), NEW k \in 0..(Len(W) - 1)
    PROVE  /\ Left(W, k) # <<>>
           /\ Head(Left(W, k)) = W[k + 1] /\ Left(W, k)[1] = W[k + 1]
           /\ Tail(Left(W, k)) = Left(W, k + 1)
           /\ Tail(Left(W, k)) = <<>> <=> k + 1 = Len(W)
<1>1. Len(W) \in Nat
  BY LenProperties
<1>2. Left(W, k) \in Seq(S) /\ Len(Left(W, k)) = Len(W) - k
  BY <1>1 DEF Left
<1>3. Left(W, k + 1) \in Seq(S) /\ Len(Left(W, k + 1)) = Len(W) - (k + 1)
  BY <1>1 DEF Left
<1>4. Left(W, k) # <<>>
  BY <1>1, <1>2
<1>5. 1 \in 1..(Len(W) - k) /\ 1 + k = k + 1
  BY <1>1
<1>6. Left(W, k)[1] = W[k + 1]
  BY <1>5 DEF Left
<1>7. Head(Left(W, k)) = Left(W, k)[1]
  BY <1>2, <1>4
<1>8. Tail(Left(W, k)) = Left(W, k + 1)
  BY <1>1, <1>2, <1>3 DEF Left
<1>9. Left(W, k + 1) = <<>> <=> k + 1 = Len(W)
  BY <1>1, <1>3
<1> QED
  BY <1>4, <1>6, <1>7, <1>8, <1>9

-----------------------------------------------------------------------------
\* The coulomb counter.

\* While the monitor has answered since the baseline was taken, its registers
\* are the baseline's moved by what has passed since.
FollowsBaseline ==
    tracker.initialized /\ answering =>
        /\ samples = (tracker.samples + gap) % SampleSize
        /\ charge = (tracker.charge + flowed) % ChargeSize

FlowBound == -(gap * MaxCurrent) <= flowed /\ flowed <= gap * MaxCurrent

CoulombInv ==
    /\ Coulomb!TypeOK
    /\ FlowBound
    /\ FollowsBaseline

\* Sizes of the registers.
LEMMA CoulombSizes ==
    /\ SampleSize \in Nat \ {0} /\ ChargeSize \in Nat \ {0}
    /\ MaxCurrent \in Nat /\ MaxGap \in Nat /\ MaxElapsed \in Nat
    /\ MaxSamples \in Nat /\ MaxElapsed < SampleSize
<1>1. SampleSize \in Nat \ {0}
  BY CoulombAssumption
<1>2. MaxSamples * MaxCurrent \in Nat
  BY CoulombAssumption
<1>3. ChargeSize # 0
  BY <1>2, CoulombAssumption
<1> QED
  BY <1>1, <1>3, CoulombAssumption

\* More time allows more charge.
LEMMA FlowGrows ==
    ASSUME NEW a \in Nat, NEW b \in Nat, NEW m \in Nat, a <= b
    PROVE  a * m <= b * m /\ a * m \in Nat /\ b * m \in Nat
<1>1. (b - a) * m = b * m - a * m
  BY Distribute
<1>2. b - a \in Nat /\ (b - a) * m >= 0 /\ a * m \in Nat /\ b * m \in Nat
  OBVIOUS
<1> QED
  BY <1>1, <1>2

\* The types at the start.
LEMMA CoulombInit == Coulomb!Init => CoulombInv
<1> SUFFICES ASSUME Coulomb!Init PROVE CoulombInv
  OBVIOUS
<1>1. 0 \in 0..(SampleSize - 1) /\ 0 \in 0..(ChargeSize - 1) /\ 0 \in 0..MaxGap
  BY CoulombSizes
<1>2. MaxGap * MaxCurrent \in Nat /\ 0 * MaxCurrent = 0
  BY CoulombSizes
<1>3. 0 \in -(MaxGap * MaxCurrent)..(MaxGap * MaxCurrent)
  BY <1>2
<1>4. Coulomb!TypeOK
  BY <1>1, <1>3 DEF Coulomb!Init, Coulomb!TypeOK, Coulomb!NoBaseline
<1>5. FlowBound
  BY <1>2 DEF Coulomb!Init, FlowBound
<1>6. FollowsBaseline
  BY DEF Coulomb!Init, FollowsBaseline, Coulomb!NoBaseline
<1> QED
  BY <1>4, <1>5, <1>6 DEF CoulombInv

\* What is within the bound has the type.
LEMMA FlowType ==
    ASSUME NEW g \in 0..MaxGap, NEW f \in Int,
           -(g * MaxCurrent) <= f, f <= g * MaxCurrent
    PROVE  f \in -(MaxGap * MaxCurrent)..(MaxGap * MaxCurrent)
<1>1. /\ g * MaxCurrent <= MaxGap * MaxCurrent
      /\ g * MaxCurrent \in Nat /\ MaxGap * MaxCurrent \in Nat
  BY CoulombSizes, FlowGrows
<1> QED
  BY <1>1

\* A sample moves the registers and what has passed alike.
LEMMA SampleStep == CoulombInv /\ Coulomb!Sample => CoulombInv'
<1> SUFFICES ASSUME CoulombInv, Coulomb!Sample PROVE CoulombInv'
  OBVIOUS
<1>1. PICK current \in -MaxCurrent..MaxCurrent :
        /\ samples' = (samples + 1) % SampleSize
        /\ charge' = (charge + current) % ChargeSize
        /\ flowed' = flowed + current
  BY DEF Coulomb!Sample
<1>2. /\ gap \in 0..MaxGap /\ gap < MaxGap /\ gap' = gap + 1
      /\ tracker' = tracker /\ answering' = answering
  BY DEF Coulomb!Sample, CoulombInv, Coulomb!TypeOK
<1>3. /\ samples \in Int /\ charge \in Int /\ flowed \in Int
      /\ tracker \in [initialized : BOOLEAN, samples : 0..(SampleSize - 1),
                      charge : 0..(ChargeSize - 1)]
      /\ answering \in BOOLEAN
  BY CoulombSizes DEF CoulombInv, Coulomb!TypeOK
<1>4. current \in Int /\ -MaxCurrent <= current /\ current <= MaxCurrent
  BY CoulombSizes
<1>5. /\ (gap + 1) * MaxCurrent = gap * MaxCurrent + MaxCurrent
      /\ gap * MaxCurrent \in Int /\ gap \in Int
  <2>1. gap \in Int /\ MaxCurrent \in Int
    BY <1>2, CoulombSizes
  <2>2. (gap + 1) * MaxCurrent = gap * MaxCurrent + 1 * MaxCurrent
    BY <2>1, Distribute
  <2> QED
    BY <2>1, <2>2
<1>6. FlowBound'
  <2>1. -(gap * MaxCurrent) <= flowed /\ flowed <= gap * MaxCurrent
    BY DEF CoulombInv, FlowBound
  <2>2. /\ -((gap + 1) * MaxCurrent) <= flowed + current
        /\ flowed + current <= (gap + 1) * MaxCurrent
    BY <1>3, <1>4, <1>5, <2>1, CoulombSizes
  <2> QED
    BY <1>1, <1>2, <2>2 DEF FlowBound
<1>7. gap' \in 0..MaxGap /\ flowed' \in Int
  BY <1>1, <1>2, <1>3, <1>4, CoulombSizes
<1>8. flowed' \in -(MaxGap * MaxCurrent)..(MaxGap * MaxCurrent)
  BY <1>6, <1>7, FlowType DEF FlowBound
<1>9. samples' \in 0..(SampleSize - 1) /\ charge' \in 0..(ChargeSize - 1)
  <2>1. samples + 1 \in Int /\ charge + current \in Int
    BY <1>3, <1>4
  <2>2. /\ (samples + 1) % SampleSize \in Int
        /\ 0 <= (samples + 1) % SampleSize
        /\ (samples + 1) % SampleSize < SampleSize
        /\ (charge + current) % ChargeSize \in Int
        /\ 0 <= (charge + current) % ChargeSize
        /\ (charge + current) % ChargeSize < ChargeSize
    BY <2>1, CoulombSizes, DivMod
  <2> QED
    BY <1>1, <2>2, CoulombSizes
<1>10. Coulomb!TypeOK'
  BY <1>2, <1>3, <1>7, <1>8, <1>9 DEF Coulomb!TypeOK
<1>11. FollowsBaseline'
  <2> SUFFICES ASSUME tracker.initialized, answering
               PROVE  /\ samples' = (tracker.samples + (gap + 1)) % SampleSize
                      /\ charge' = (tracker.charge + (flowed + current)) % ChargeSize
    BY <1>1, <1>2 DEF FollowsBaseline
  <2>1. /\ samples = (tracker.samples + gap) % SampleSize
        /\ charge = (tracker.charge + flowed) % ChargeSize
    BY DEF CoulombInv, FollowsBaseline
  <2>2. tracker.samples \in Int /\ tracker.charge \in Int /\ gap \in Int
    BY <1>2, <1>3, CoulombSizes
  <2>3. tracker.samples + gap \in Int /\ tracker.charge + flowed \in Int
    BY <1>3, <2>2
  <2> DEFINE before == tracker.samples + gap
             after == tracker.samples + (gap + 1)
             held == tracker.charge + flowed
             holds == tracker.charge + (flowed + current)
  <2>4. after = before + 1 /\ holds = held + current
    BY <1>3, <1>4, <2>2
  <2> HIDE DEF before, after, held, holds
  <2>5. before \in Int /\ held \in Int
    BY <2>3 DEF before, held
  <2>6. /\ ((before % SampleSize) + 1) % SampleSize = (before + 1) % SampleSize
        /\ ((held % ChargeSize) + current) % ChargeSize = (held + current) % ChargeSize
    <3>1. /\ SampleSize \in Nat \ {0} /\ ChargeSize \in Nat \ {0}
          /\ 1 \in Int /\ current \in Int
      BY <1>4, CoulombSizes
    <3> QED
      BY ONLY <2>5, <3>1, AddMod
  <2>7. samples = before % SampleSize /\ charge = held % ChargeSize
    BY <2>1 DEF before, held
  <2>8. samples' = after % SampleSize /\ charge' = holds % ChargeSize
    BY <1>1, <2>4, <2>6, <2>7, Zenon
  <2> QED
    BY <2>8 DEF after, holds
<1> QED
  BY <1>6, <1>10, <1>11 DEF CoulombInv

\* No baseline is a tracker.
LEMMA NoBaselineType ==
    Coulomb!NoBaseline \in [initialized : BOOLEAN, samples : 0..(SampleSize - 1),
                            charge : 0..(ChargeSize - 1)]
<1>1. 0 \in 0..(SampleSize - 1) /\ 0 \in 0..(ChargeSize - 1)
  BY CoulombSizes
<1> QED
  BY <1>1, Zenon DEF Coulomb!NoBaseline

\* Whatever ends the baseline or the monitor's address keeps the invariant.
LEMMA BaselineEnds ==
    ASSUME CoulombInv, flowed' = flowed, gap' = gap,
           samples' \in {0, samples}, charge' \in {0, charge},
           answering' \in BOOLEAN,
           \/ tracker' = Coulomb!NoBaseline
           \/ tracker' = tracker /\ answering' = FALSE
    PROVE  CoulombInv'
<1>1. 0 \in 0..(SampleSize - 1) /\ 0 \in 0..(ChargeSize - 1)
  BY CoulombSizes
<1>2. Coulomb!TypeOK'
  <2>1. /\ samples' \in 0..(SampleSize - 1) /\ charge' \in 0..(ChargeSize - 1)
        /\ gap' \in 0..MaxGap
        /\ flowed' \in -(MaxGap * MaxCurrent)..(MaxGap * MaxCurrent)
    BY <1>1 DEF CoulombInv, Coulomb!TypeOK
  <2>2. tracker' \in [initialized : BOOLEAN, samples : 0..(SampleSize - 1),
                      charge : 0..(ChargeSize - 1)]
    <3>1. CASE tracker' = Coulomb!NoBaseline
      BY <1>1, <3>1, NoBaselineType
    <3>2. CASE tracker' = tracker
      BY <3>2 DEF CoulombInv, Coulomb!TypeOK
    <3> QED
      BY <3>1, <3>2
  <2> QED
    BY <2>1, <2>2 DEF Coulomb!TypeOK
<1>3. FlowBound'
  BY DEF CoulombInv, FlowBound
<1>4. FollowsBaseline'
  BY DEF FollowsBaseline, Coulomb!NoBaseline
<1> QED
  BY <1>2, <1>3, <1>4 DEF CoulombInv

\* A reading starts from nothing, and so does giving up.
LEMMA BaselineStarts ==
    ASSUME CoulombInv, flowed' = 0, gap' = 0,
           samples' = samples, charge' = charge, answering' = answering,
           \/ tracker' = Coulomb!NoBaseline
           \/ tracker' = [initialized |-> TRUE, samples |-> samples, charge |-> charge]
    PROVE  CoulombInv'
<1>1. 0 \in 0..(SampleSize - 1) /\ 0 \in 0..(ChargeSize - 1) /\ 0 \in 0..MaxGap
  BY CoulombSizes
<1>2. 0 * MaxCurrent = 0
  BY CoulombSizes
<1>3. FlowBound'
  BY <1>2 DEF FlowBound
<1>4. flowed' \in -(MaxGap * MaxCurrent)..(MaxGap * MaxCurrent)
  BY <1>1, <1>2, FlowType
<1>5. Coulomb!TypeOK'
  <2>1. tracker' \in [initialized : BOOLEAN, samples : 0..(SampleSize - 1),
                      charge : 0..(ChargeSize - 1)]
    <3>1. CASE tracker' = Coulomb!NoBaseline
      BY <1>1, <3>1, NoBaselineType
    <3>2. CASE tracker' = [initialized |-> TRUE, samples |-> samples, charge |-> charge]
      <4>1. samples \in 0..(SampleSize - 1) /\ charge \in 0..(ChargeSize - 1)
        BY DEF CoulombInv, Coulomb!TypeOK
      <4> QED
        BY <3>2, <4>1, Zenon
    <3> QED
      BY <3>1, <3>2
  <2> QED
    BY <1>1, <1>4, <2>1 DEF CoulombInv, Coulomb!TypeOK
<1>6. FollowsBaseline'
  <2>1. CASE tracker' = Coulomb!NoBaseline
    BY <2>1 DEF FollowsBaseline, Coulomb!NoBaseline
  <2>2. CASE tracker' = [initialized |-> TRUE, samples |-> samples, charge |-> charge]
    <3>1. /\ samples \in Int /\ 0 <= samples /\ samples < SampleSize
          /\ charge \in Int /\ 0 <= charge /\ charge < ChargeSize
      BY CoulombSizes DEF CoulombInv, Coulomb!TypeOK
    <3>2. samples + 0 = samples /\ charge + 0 = charge
      BY <3>1
    <3>3. samples = 0 * SampleSize + samples /\ charge = 0 * ChargeSize + charge
      BY <3>1, CoulombSizes
    <3>4. samples % SampleSize = samples /\ charge % ChargeSize = charge
      BY <3>1, <3>3, CoulombSizes, ModUnique
    <3>5. tracker'.samples = samples /\ tracker'.charge = charge
      BY <2>2
    <3> QED
      BY <3>2, <3>4, <3>5 DEF FollowsBaseline
  <2> QED
    BY <2>1, <2>2
<1> QED
  BY <1>3, <1>5, <1>6 DEF CoulombInv

\* What the driver takes for the charge of a trusted interval is what flowed.
LEMMA TrustedInterval ==
    ASSUME CoulombInv, tracker.initialized, answering,
           NEW count, count = (samples - tracker.samples) % SampleSize,
           NEW sum, sum = Coulomb!Signed((charge - tracker.charge) % ChargeSize),
           Coulomb!Sure(gap, count, sum)
    PROVE  sum = flowed
<1>1. /\ samples = (tracker.samples + gap) % SampleSize
      /\ charge = (tracker.charge + flowed) % ChargeSize
  BY DEF CoulombInv, FollowsBaseline
<1>2. /\ tracker.samples \in Int /\ tracker.charge \in Int
      /\ gap \in Nat /\ flowed \in Int
  BY CoulombSizes DEF CoulombInv, Coulomb!TypeOK
<1>3. gap <= MaxElapsed /\ count <= MaxSamples
  BY DEF Coulomb!Sure
<1>4. count = gap
  <2>1. count = gap % SampleSize
    BY <1>1, <1>2, CoulombSizes, SubMod
  <2>2. gap = 0 * SampleSize + gap /\ 0 <= gap /\ gap < SampleSize
    BY <1>2, <1>3, CoulombSizes
  <2>3. gap % SampleSize = gap
    BY <1>2, <2>2, CoulombSizes, ModUnique
  <2> QED
    BY <2>1, <2>3
<1>5. /\ gap * MaxCurrent <= MaxSamples * MaxCurrent
      /\ gap * MaxCurrent \in Nat /\ MaxSamples * MaxCurrent \in Nat
  BY <1>2, <1>3, <1>4, CoulombSizes, FlowGrows
<1> DEFINE half == ChargeSize \div 2
<1>6. half \in Int /\ ChargeSize = 2 * half
  BY CoulombSizes, CoulombAssumption
<1>7. MaxSamples * MaxCurrent < half
  BY CoulombAssumption
<1> HIDE DEF half
<1>8. -half < flowed /\ flowed < half
  BY <1>2, <1>5, <1>6, <1>7 DEF CoulombInv, FlowBound
<1>9. (charge - tracker.charge) % ChargeSize = flowed % ChargeSize
  BY <1>1, <1>2, CoulombSizes, SubMod
<1>10. CASE flowed >= 0
  <2>0. ChargeSize \in Nat \ {0} /\ 0 \in Int
    BY CoulombSizes
  <2>1. flowed = 0 * ChargeSize + flowed /\ flowed < ChargeSize
    BY <1>2, <1>6, <1>8, CoulombSizes, <1>10
  <2>2. flowed % ChargeSize = flowed
    BY ONLY <1>2, <1>10, <2>1, <2>0, ModUnique
  <2> QED
    BY <1>8, <1>9, <2>2 DEF Coulomb!Signed, half
<1>11. CASE flowed < 0
  <2>0. ChargeSize \in Nat \ {0}
    BY CoulombSizes
  <2> DEFINE wrapped == flowed + ChargeSize
  <2>1. /\ wrapped \in Int /\ 0 <= wrapped /\ wrapped < ChargeSize /\ ~(wrapped < half)
        /\ wrapped - ChargeSize = flowed
    BY <1>2, <1>6, <1>8, <1>11, CoulombSizes
  <2>2. flowed = (-1) * ChargeSize + wrapped
    BY <1>2, CoulombSizes
  <2> HIDE DEF wrapped
  <2>3. flowed % ChargeSize = wrapped
    BY ONLY <1>2, <2>1, <2>2, <2>0, -1 \in Int, ModUnique
  <2> QED
    BY <1>9, <2>1, <2>3 DEF Coulomb!Signed, half
<1> QED
  BY <1>2, <1>10, <1>11

\* A reading counts exactly what flowed, or nothing.
LEMMA ReadingStep ==
    CoulombInv /\ Coulomb!meas_GetAmpHourAndIAvg => CoulombInv' /\ counted' \subseteq {flowed}
<1> SUFFICES ASSUME CoulombInv, Coulomb!meas_GetAmpHourAndIAvg
             PROVE  CoulombInv' /\ counted' \subseteq {flowed}
  OBVIOUS
<1> DEFINE count == (samples - tracker.samples) % SampleSize
           sum == Coulomb!Signed((charge - tracker.charge) % ChargeSize)
           duplicate == gap = 0 /\ count = 0 /\ sum = 0
<1>1. /\ tracker' = IF tracker.initialized /\ duplicate THEN tracker
                    ELSE [initialized |-> TRUE, samples |-> samples, charge |-> charge]
      /\ counted' = IF tracker.initialized /\ ~duplicate /\ Coulomb!Sure(gap, count, sum)
                    THEN {sum} ELSE {}
      /\ flowed' = 0 /\ gap' = 0 /\ answering
      /\ samples' = samples /\ charge' = charge /\ answering' = answering
  BY Zenon DEF Coulomb!meas_GetAmpHourAndIAvg, Coulomb!Track
<1> HIDE DEF count, sum
<1>2. counted' \subseteq {flowed}
  <2>1. CASE tracker.initialized /\ Coulomb!Sure(gap, count, sum)
    <3>1. sum = flowed
      BY <1>1, <2>1, TrustedInterval DEF count, sum
    <3> QED
      BY <1>1, <3>1
  <2>2. CASE ~(tracker.initialized /\ Coulomb!Sure(gap, count, sum))
    BY <1>1, <2>2
  <2> QED
    BY <2>1, <2>2
<1>3. CASE tracker.initialized /\ duplicate
  <2>1. gap = 0 /\ tracker' = tracker
    BY <1>1, <1>3
  <2>2. 0 * MaxCurrent = 0
    BY CoulombSizes
  <2>3. flowed = 0
    BY <2>1, <2>2 DEF CoulombInv, FlowBound, Coulomb!TypeOK
  <2> QED
    BY <1>1, <1>2, <2>1, <2>3
       DEF CoulombInv, Coulomb!TypeOK, FlowBound, FollowsBaseline
<1>4. CASE ~(tracker.initialized /\ duplicate)
  <2>1. tracker' = [initialized |-> TRUE, samples |-> samples, charge |-> charge]
    BY <1>1, <1>4
  <2> QED
    BY <1>1, <1>2, <2>1, BaselineStarts
<1> QED
  BY <1>3, <1>4

\* Every step keeps the invariant.
LEMMA CoulombStep == CoulombInv /\ [Coulomb!Next]_coulombVars => CoulombInv'
<1> SUFFICES ASSUME CoulombInv, [Coulomb!Next]_coulombVars PROVE CoulombInv'
  OBVIOUS
<1>0. answering \in BOOLEAN
  BY DEF CoulombInv, Coulomb!TypeOK
<1>1. CASE Coulomb!Sample
  BY <1>1, SampleStep
<1>2. CASE Coulomb!MonitorResets
  BY <1>2, BaselineEnds DEF Coulomb!MonitorResets, Coulomb!Cleared
<1>3. CASE Coulomb!ResetWritten
  BY <1>0, <1>3, BaselineEnds
     DEF Coulomb!ResetWritten, Coulomb!Cleared, Coulomb!resetCurrentBaseline
<1>4. CASE Coulomb!Initialize
  BY <1>4, BaselineEnds DEF Coulomb!Initialize, Coulomb!resetCurrentBaseline
<1>5. CASE Coulomb!meas_GetAmpHourAndIAvg
  BY <1>5, ReadingStep
<1>6. CASE Coulomb!GiveUp
  BY <1>6, BaselineStarts DEF Coulomb!GiveUp, Coulomb!resetCurrentBaseline
<1>7. CASE UNCHANGED coulombVars
  BY <1>7 DEF coulombVars, CoulombInv, Coulomb!TypeOK, FlowBound, FollowsBaseline
<1> QED
  BY <1>1, <1>2, <1>3, <1>4, <1>5, <1>6, <1>7 DEF Coulomb!Next

-----------------------------------------------------------------------------
\* The exact division of the energy counters.

\* One turn of the loop of integrateMicroWh, and the function of all its prefixes.
Bit(product, acc, on) ==
    LET residual == 2 * acc[2] + on * (product % Denominator)
    IN  <<2 * acc[1] + on * (product \div Denominator) + (residual \div Denominator),
          residual % Denominator>>

Prefixes(product, elapsed, after) ==
    [prefix \in 0..elapsed |->
        IF prefix = 0 THEN <<0, 0>>
        ELSE Bit(product, after[prefix \div 2], prefix % 2)]

\* Halving a number leaves a smaller one and a bit.
LEMMA Halving ==
    ASSUME NEW p \in Nat
    PROVE  /\ p \div 2 \in Nat /\ p % 2 \in {0, 1}
           /\ p = 2 * (p \div 2) + (p % 2)
           /\ p # 0 => p \div 2 < p
  OBVIOUS

\* The loop has a result for every time that elapsed.
LEMMA LoopEnds ==
    ASSUME NEW product, NEW elapsed \in Nat
    PROVE  \E after : after = Prefixes(product, elapsed, after)
<1> DEFINE T == {m \in Nat : ~\E after : after = Prefixes(product, m, after)}
<1> SUFFICES ASSUME T # {} PROVE FALSE
  OBVIOUS
<1>1. PICK m \in T : \A n \in T : m <= n
  BY Least
<1>2. m \in Nat /\ ~\E after : after = Prefixes(product, m, after)
  OBVIOUS
<1>3. CASE m = 0
  <2> DEFINE f == [prefix \in 0..0 |-> <<0, 0>>]
  <2>1. f = Prefixes(product, 0, f)
    BY DEF Prefixes
  <2> QED
    BY <1>2, <1>3, <2>1
<1>4. CASE m # 0
  <2>1. m - 1 \in Nat /\ ~(m <= m - 1)
    BY <1>2, <1>4
  <2>2. m - 1 \notin T
    BY <1>1, <2>1
  <2>3. PICK g : g = Prefixes(product, m - 1, g)
    BY <2>1, <2>2
  <2> DEFINE f == Prefixes(product, m, g)
  <2>4. \A q \in 0..(m - 1) : f[q] = g[q]
    <3> SUFFICES ASSUME NEW q \in 0..(m - 1) PROVE f[q] = g[q]
      OBVIOUS
    <3>1. q \in 0..m
      BY <1>2, <2>1
    <3>2. f[q] = IF q = 0 THEN <<0, 0>> ELSE Bit(product, g[q \div 2], q % 2)
      BY <3>1 DEF Prefixes
    <3>3. Prefixes(product, m - 1, g)[q] =
            IF q = 0 THEN <<0, 0>> ELSE Bit(product, g[q \div 2], q % 2)
      BY DEF Prefixes
    <3> QED
      BY <2>3, <3>2, <3>3, Zenon
  <2>5. ASSUME NEW p \in 0..m, p # 0 PROVE f[p \div 2] = g[p \div 2]
    <3>1. p \in Nat /\ p <= m
      BY <1>2
    <3>2. p \div 2 \in 0..(m - 1)
      BY <1>2, <2>1, <2>5, <3>1, Halving
    <3> QED
      BY <2>4, <3>2
  <2>6. \A p \in 0..m :
          (IF p = 0 THEN <<0, 0>> ELSE Bit(product, g[p \div 2], p % 2))
            = (IF p = 0 THEN <<0, 0>> ELSE Bit(product, f[p \div 2], p % 2))
    BY <2>5, Zenon
  <2>7. f = [p \in 0..m |-> IF p = 0 THEN <<0, 0>> ELSE Bit(product, g[p \div 2], p % 2)]
    BY DEF Prefixes
  <2> HIDE DEF f
  <2>8. Prefixes(product, m, f)
          = [p \in 0..m |-> IF p = 0 THEN <<0, 0>> ELSE Bit(product, f[p \div 2], p % 2)]
    BY DEF Prefixes
  <2>9. f = Prefixes(product, m, f)
    BY <2>6, <2>7, <2>8
  <2> QED
    BY <1>2, <2>9
<1> QED
  BY <1>3, <1>4

\* A turn doubles the exact sum and adds the product if the bit is set.
LEMMA BitIsExact ==
    ASSUME NEW product \in Nat, NEW whole \in Nat, NEW rest \in 0..(Denominator - 1),
           NEW on \in {0, 1}
    PROVE  \E m \in Nat, r \in 0..(Denominator - 1) :
             /\ Bit(product, <<whole, rest>>, on) = <<m, r>>
             /\ m * Denominator + r = 2 * (whole * Denominator + rest) + on * product
<1> DEFINE w == product \div Denominator
           f == product % Denominator
           residual == 2 * rest + on * f
           a == residual \div Denominator
           b == residual % Denominator
<1>1. Denominator \in Nat \ {0}
  BY EnergyAssumption
<1>2. /\ w \in Int /\ f \in Int /\ product = w * Denominator + f
      /\ 0 <= f /\ f < Denominator
  BY <1>1, DivMod
<1>3. w \in Nat
  <2>1. CASE w <= -1
    <3>1. w * Denominator <= -Denominator
      BY <1>1, <1>2, <2>1, Multiple
    <3> QED
      BY <1>1, <1>2, <3>1
  <2> QED
    BY <1>2, <2>1
<1> HIDE DEF w, f
<1>4. rest \in Nat /\ residual \in Nat
  BY <1>1, <1>2
<1>5. /\ a \in Int /\ b \in Int /\ residual = a * Denominator + b
      /\ 0 <= b /\ b < Denominator
  <2>1. residual \in Int
    BY <1>4
  <2> HIDE DEF residual
  <2> QED
    BY ONLY <1>1, <2>1, DivMod
<1>6. a \in Nat
  <2>1. CASE a <= -1
    <3>1. a * Denominator <= -Denominator
      BY <1>1, <1>5, <2>1, Multiple
    <3> QED
      BY <1>1, <1>4, <1>5, <3>1
  <2> QED
    BY <1>5, <2>1
<1>7. Bit(product, <<whole, rest>>, on) = <<2 * whole + on * w + a, b>>
  BY DEF Bit, w, f
<1> HIDE DEF residual, a, b
<1>8. on \in Nat /\ 2 * whole + on * w + a \in Nat /\ b \in 0..(Denominator - 1)
  <2>1. on \in Nat
    OBVIOUS
  <2>2. on * w \in Nat
    BY <1>3, <2>1
  <2> QED
    BY <1>1, <1>5, <1>6, <2>1, <2>2
<1>9. (2 * whole + on * w + a) * Denominator + b
        = 2 * (whole * Denominator + rest) + on * product
  <2>1. /\ on * w \in Nat
        /\ (2 * whole + on * w + a) * Denominator
             = (2 * whole + on * w) * Denominator + a * Denominator
        /\ (2 * whole + on * w) * Denominator
             = (2 * whole) * Denominator + (on * w) * Denominator
    <3>1. on * w \in Nat
      BY <1>3, <1>8
    <3>2. /\ 2 * whole + on * w \in Int /\ a \in Int /\ Denominator \in Int
          /\ 2 * whole \in Int /\ on * w \in Int
      BY <1>1, <1>6, <3>1
    <3> QED
      BY ONLY <3>1, <3>2, Distribute
  <2>2. (2 * whole) * Denominator = 2 * (whole * Denominator)
    BY <1>1
  <2>3. CASE on = 0
    <3>1. (on * w) * Denominator = 0 /\ on * product = 0 /\ residual = 2 * rest
      BY <1>1, <1>2, <1>3, <1>4, <2>3 DEF residual
    <3>2. whole * Denominator \in Nat /\ a * Denominator \in Nat
      BY <1>1, <1>6
    <3> DEFINE x == whole * Denominator
               z == a * Denominator
    <3> HIDE DEF x, z
    <3>3. /\ x \in Nat /\ z \in Nat /\ b \in Nat /\ rest \in Nat
          /\ (2 * whole + on * w + a) * Denominator = 2 * x + z
          /\ 2 * rest = z + b /\ on * product = 0
      BY <1>4, <1>5, <2>1, <2>2, <3>1, <3>2 DEF x, z
    <3>4. (2 * x + z) + b = 2 * (x + rest) + 0
      BY ONLY <3>3
    <3> QED
      BY <3>3, <3>4 DEF x
  <2>4. CASE on = 1
    <3>1. /\ (on * w) * Denominator = w * Denominator /\ on * product = product
          /\ residual = 2 * rest + f
      BY <1>1, <1>2, <1>3, <1>4, <2>4 DEF residual
    <3>2. /\ w * Denominator \in Nat /\ whole * Denominator \in Nat
          /\ a * Denominator \in Nat
      BY <1>1, <1>3, <1>6
    <3>3. (2 * whole + on * w + a) * Denominator
            = 2 * (whole * Denominator) + w * Denominator + a * Denominator
      BY <2>1, <2>2, <3>1
    <3> DEFINE x == whole * Denominator
               y == w * Denominator
               z == a * Denominator
    <3> HIDE DEF x, y, z
    <3>4. /\ x \in Nat /\ y \in Nat /\ z \in Nat /\ b \in Nat /\ rest \in Nat /\ f \in Nat
          /\ (2 * whole + on * w + a) * Denominator = 2 * x + y + z
          /\ 2 * rest + f = z + b /\ on * product = y + f
      BY <1>1, <1>2, <1>4, <1>5, <3>1, <3>2, <3>3 DEF x, y, z
    <3>5. (2 * x + y + z) + b = 2 * (x + rest) + (y + f)
      BY ONLY <3>4
    <3> QED
      BY <3>4, <3>5 DEF x
  <2> QED
    BY <2>3, <2>4
<1> QED
  BY <1>7, <1>8, <1>9

\* The loop sums exactly the product over the time.
LEMMA SummedIsExact ==
    ASSUME NEW product \in Nat, NEW elapsed \in Nat
    PROVE  \E whole \in Nat, rest \in 0..(Denominator - 1) :
             /\ Energy!Summed(product, elapsed) = <<whole, rest>>
             /\ whole * Denominator + rest = product * elapsed
<1> DEFINE after == CHOOSE f : f = Prefixes(product, elapsed, f)
           Good(p) == \E whole \in Nat, rest \in 0..(Denominator - 1) :
                        /\ after[p] = <<whole, rest>>
                        /\ whole * Denominator + rest = product * p
<1>1. after = Prefixes(product, elapsed, after)
  BY LoopEnds
<1>2. Energy!Summed(product, elapsed) = after[elapsed]
  BY DEF Energy!Summed, Prefixes, Bit
<1> HIDE DEF after
<1>3. \A p \in 0..elapsed :
        after[p] = IF p = 0 THEN <<0, 0>> ELSE Bit(product, after[p \div 2], p % 2)
  <2>1. \A p \in 0..elapsed :
          Prefixes(product, elapsed, after)[p]
            = IF p = 0 THEN <<0, 0>> ELSE Bit(product, after[p \div 2], p % 2)
    BY DEF Prefixes
  <2> QED
    BY <1>1, <2>1, Zenon
<1>4. \A p \in 0..elapsed : Good(p)
  <2> DEFINE T == {p \in 0..elapsed : ~Good(p)}
  <2> SUFFICES ASSUME T # {} PROVE FALSE
    OBVIOUS
  <2>1. T \subseteq Nat
    OBVIOUS
  <2>2. PICK p \in T : \A n \in T : p <= n
    BY <2>1, Least
  <2>3. p \in 0..elapsed /\ p \in Nat /\ ~Good(p)
    OBVIOUS
  <2>4. CASE p = 0
    <3>1. 0 \in 0..(Denominator - 1) /\ 0 * Denominator + 0 = product * 0
      BY EnergyAssumption
    <3>2. after[0] = <<0, 0>>
      BY <1>3, <2>3, <2>4
    <3> QED
      BY <2>3, <2>4, <3>1, <3>2
  <2>5. CASE p # 0
    <3> DEFINE q == p \div 2
               on == p % 2
    <3>1. q \in Nat /\ on \in {0, 1} /\ p = 2 * q + on /\ q < p
      BY <2>3, <2>5, Halving
    <3>2. after[p] = Bit(product, after[q], on)
      BY <1>3, <2>3, <2>5
    <3> HIDE DEF q, on
    <3>3. q \in 0..elapsed /\ ~(p <= q)
      BY <2>3, <3>1
    <3>4. Good(q)
      BY <2>2, <3>3
    <3>5. PICK whole \in Nat, rest \in 0..(Denominator - 1) :
            after[q] = <<whole, rest>> /\ whole * Denominator + rest = product * q
      BY <3>4
    <3>6. PICK m \in Nat, r \in 0..(Denominator - 1) :
            /\ Bit(product, <<whole, rest>>, on) = <<m, r>>
            /\ m * Denominator + r = 2 * (whole * Denominator + rest) + on * product
      BY <3>1, BitIsExact
    <3>7. after[p] = <<m, r>>
      BY <3>2, <3>5, <3>6
    <3>8. 2 * (product * q) + on * product = product * p
      <4>1. product * (2 * q) = 2 * (product * q) /\ 2 * q \in Nat
        BY <3>1
      <4>2. (2 * q + on) * product = (2 * q) * product + on * product
        BY <3>1, <4>1, Distribute
      <4>3. /\ (2 * q) * product = product * (2 * q)
            /\ (2 * q + on) * product = product * (2 * q + on)
        BY <3>1, <4>1
      <4> QED
        BY <3>1, <4>1, <4>2, <4>3
    <3>9. m * Denominator + r = product * p
      BY <3>5, <3>6, <3>8
    <3> QED
      BY <2>3, <3>7, <3>9
  <2> QED
    BY <2>4, <2>5
<1>5. Good(elapsed)
  BY <1>4
<1> QED
  BY <1>2, <1>5

-----------------------------------------------------------------------------
\* The energy counters.

Counters == [Energy!Directions -> 0..MaxCounter]

\* The record holds a pair of counters, its marker aside.
Holds(c) ==
    /\ energyStore.chargedLow = c["charged"] /\ energyStore.chargedHigh = c["charged"]
    /\ energyStore.dischargedLow = c["discharged"]
    /\ energyStore.dischargedHigh = c["discharged"]
    /\ energyStore.checksum = <<c["charged"], c["charged"], c["discharged"], c["discharged"]>>

EnergyRegisters == {"chargedLow", "chargedHigh", "dischargedLow", "dischargedHigh",
                    "checksum", "marker"}

\* After k stores of persist the marker is clear, until the last one, and the
\* registers stored so far hold the counters; before the first store the record,
\* if it is valid, is one that may be restored.
StoredUpTo(k) ==
    /\ k = 0 /\ Energy!recordIsValid => \E c \in restorable : Holds(c)
    /\ k \in 1..6 => energyStore.marker = 0
    /\ k >= 2 => energyStore.chargedLow = counter["charged"]
    /\ k >= 3 => energyStore.chargedHigh = counter["charged"]
    /\ k >= 4 => energyStore.dischargedLow = counter["discharged"]
    /\ k >= 5 => energyStore.dischargedHigh = counter["discharged"]
    /\ k >= 6 => energyStore.checksum = <<counter["charged"], counter["charged"],
                                          counter["discharged"], counter["discharged"]>>
    /\ k = 7 => energyStore.marker = 1

EnergyInv ==
    /\ Energy!TypeOK
    /\ DOMAIN energyStore = EnergyRegisters /\ energyStore = [r \in EnergyRegisters |-> energyStore[r]]
    /\ restorable \subseteq Counters
    /\ \E k \in 0..7 : /\ energyProgram = Left(Energy!persist(counter), k)
                       /\ StoredUpTo(k)

\* The stores of persist, one by one.
LEMMA PersistStores ==
    ASSUME NEW c
    PROVE  LET W == Energy!persist(c) IN
           /\ \E S : W \in Seq(S)
           /\ Len(W) = 7
           /\ W[1] = <<"marker", 0>> /\ W[7] = <<"marker", 1>>
           /\ W[2] = <<"chargedLow", c["charged"]>> /\ W[3] = <<"chargedHigh", c["charged"]>>
           /\ W[4] = <<"dischargedLow", c["discharged"]>>
           /\ W[5] = <<"dischargedHigh", c["discharged"]>>
           /\ W[6] = <<"checksum",
                       <<c["charged"], c["charged"], c["discharged"], c["discharged"]>> >>
<1> DEFINE a == <<"marker", 0>>
           b == <<"chargedLow", c["charged"]>>
           d == <<"chargedHigh", c["charged"]>>
           e == <<"dischargedLow", c["discharged"]>>
           f == <<"dischargedHigh", c["discharged"]>>
           g == <<"checksum",
                  <<c["charged"], c["charged"], c["discharged"], c["discharged"]>> >>
           h == <<"marker", 1>>
           S == {a, b, d, e, f, g, h}
<1>1. Energy!persist(c) = <<a>> \o <<b, d>> \o <<e, f>> \o <<g, h>>
  BY DEF Energy!persist, Energy!kRecordMarker, Energy!writeCounter, Energy!Low, Energy!High
<1> HIDE DEF a, b, d, e, f, g, h
<1>2. /\ <<a>> \in Seq(S) /\ <<b, d>> \in Seq(S) /\ <<e, f>> \in Seq(S) /\ <<g, h>> \in Seq(S)
      /\ Len(<<a>>) = 1 /\ Len(<<b, d>>) = 2 /\ Len(<<e, f>>) = 2 /\ Len(<<g, h>>) = 2
  OBVIOUS
<1> HIDE DEF S
<1>3. /\ <<a>> \o <<b, d>> \in Seq(S) /\ Len(<<a>> \o <<b, d>>) = 3
      /\ \A i \in 1..3 : (<<a>> \o <<b, d>>)[i] = IF i <= 1 THEN <<a>>[i] ELSE <<b, d>>[i - 1]
  BY <1>2, ConcatProperties
<1> DEFINE X == <<a>> \o <<b, d>>
<1>4. X[1] = a /\ X[2] = b /\ X[3] = d
  BY <1>3
<1> HIDE DEF X
<1>5. /\ X \o <<e, f>> \in Seq(S) /\ Len(X \o <<e, f>>) = 5
      /\ \A i \in 1..5 : (X \o <<e, f>>)[i] = IF i <= 3 THEN X[i] ELSE <<e, f>>[i - 3]
  BY <1>2, <1>3, ConcatProperties DEF X
<1> DEFINE Y == X \o <<e, f>>
<1>6. Y[1] = a /\ Y[2] = b /\ Y[3] = d /\ Y[4] = e /\ Y[5] = f
  BY <1>4, <1>5
<1> HIDE DEF Y
<1>7. /\ Y \o <<g, h>> \in Seq(S) /\ Len(Y \o <<g, h>>) = 7
      /\ \A i \in 1..7 : (Y \o <<g, h>>)[i] = IF i <= 5 THEN Y[i] ELSE <<g, h>>[i - 5]
  BY <1>2, <1>5, ConcatProperties DEF Y
<1> DEFINE Z == Y \o <<g, h>>
<1>8. /\ Z[1] = a /\ Z[2] = b /\ Z[3] = d /\ Z[4] = e /\ Z[5] = f /\ Z[6] = g /\ Z[7] = h
  BY <1>6, <1>7
<1>9. Energy!persist(c) = Z
  BY <1>1 DEF X, Y
<1> QED
  BY <1>7, <1>8, <1>9 DEF a, b, d, e, f, g, h

\* Zero counters are counters.
LEMMA ZeroCounters ==
    /\ Energy!Zero \in Counters
    /\ Energy!Zero \in [Energy!Directions -> 0..(Denominator - 1)]
<1>1. 0 \in 0..MaxCounter /\ 0 \in 0..(Denominator - 1)
  BY EnergyAssumption
<1> QED
  BY <1>1 DEF Energy!Zero, Counters

\* A board that has never run has no record.
LEMMA EnergyInit == Energy!Init => EnergyInv
<1> SUFFICES ASSUME Energy!Init PROVE EnergyInv
  OBVIOUS
<1> USE DEF Energy!Init
<1>0. sinceUpdate = 0 /\ previous = FALSE
  BY Zenon
<1>1. Energy!TypeOK
  <2>1. 0 \in 0..MaxPause
    BY EnergyAssumption
  <2>2. Len(energyProgram) = 7
    BY PersistStores
  <2>3. /\ counter \in [Energy!Directions -> 0..MaxCounter]
        /\ remainder \in [Energy!Directions -> 0..(Denominator - 1)]
    BY ZeroCounters DEF Counters
  <2>4. previous \in BOOLEAN
    BY <1>0, Zenon
  <2>5. sinceUpdate \in 0..MaxPause
    BY <1>0, <2>1, Zenon
  <2>6. Len(energyProgram) <= 7
    BY <2>2
  <2> QED
    BY <2>3, <2>4, <2>5, <2>6 DEF Energy!TypeOK
<1>2. /\ DOMAIN energyStore = EnergyRegisters
      /\ energyStore = [r \in EnergyRegisters |-> energyStore[r]]
      /\ energyStore.marker = 0
  BY DEF EnergyRegisters
<1>3. restorable \subseteq Counters
  BY ZeroCounters
<1>4. energyProgram = Left(Energy!persist(counter), 0)
  BY PersistStores, LeftEnds
<1>5. StoredUpTo(0)
  BY <1>2 DEF StoredUpTo, Energy!recordIsValid, Energy!kRecordMarker
<1> QED
  BY <1>1, <1>2, <1>3, <1>4, <1>5 DEF EnergyInv

\* What an interval adds: exact, unless the counter is full.
LEMMA IntegralIsExact ==
    ASSUME NEW value \in 0..MaxCounter, NEW rest \in 0..(Denominator - 1),
           NEW product \in Nat, NEW elapsed \in Nat
    PROVE  LET next == Energy!integrateMicroWh(value, rest, product, elapsed) IN
           /\ next.counter \in 0..MaxCounter
           /\ next.remainder \in 0..(Denominator - 1)
           /\ \/ next.counter * Denominator + next.remainder
                   = value * Denominator + rest + product * elapsed
              \/ next.counter = MaxCounter
<1>1. PICK m \in Nat, r \in 0..(Denominator - 1) :
        /\ Energy!Summed(product, elapsed) = <<m, r>>
        /\ m * Denominator + r = product * elapsed
  BY SummedIsExact
<1> DEFINE last == r + rest
           a == last \div Denominator
           b == last % Denominator
           next == Energy!integrateMicroWh(value, rest, product, elapsed)
<1>2. Denominator \in Nat \ {0} /\ MaxCounter \in Nat /\ r \in Nat /\ rest \in Nat /\ value \in Nat
  BY EnergyAssumption
<1>3. last \in Nat
  BY <1>2
<1>4. next = [counter |-> Energy!saturatingAdd(value, m + a), remainder |-> b]
  BY <1>1 DEF Energy!integrateMicroWh
<1>5. /\ a \in Int /\ b \in Int /\ last = a * Denominator + b
      /\ 0 <= b /\ b < Denominator
  <2> HIDE DEF last
  <2> QED
    BY <1>2, <1>3, DivMod
<1> HIDE DEF a, b, next
<1>6. a \in Nat
  <2>1. CASE a <= -1
    <3>1. a * Denominator <= -Denominator
      BY <1>2, <1>5, <2>1, Multiple
    <3> QED
      BY <1>2, <1>3, <1>5, <3>1
  <2> QED
    BY <1>5, <2>1
<1>7. b \in 0..(Denominator - 1)
  BY <1>2, <1>5
<1>8. CASE MaxCounter - value < m + a
  <2>1. next = [counter |-> MaxCounter, remainder |-> b]
    BY <1>4, <1>8, Zenon DEF Energy!saturatingAdd
  <2>2. MaxCounter \in 0..MaxCounter
    BY <1>2
  <2> QED
    BY <1>7, <2>1, <2>2 DEF next
<1>9. CASE ~(MaxCounter - value < m + a)
  <2>1. next = [counter |-> value + (m + a), remainder |-> b]
    BY <1>4, <1>9, Zenon DEF Energy!saturatingAdd
  <2>2. value + (m + a) \in 0..MaxCounter
    BY <1>2, <1>6, <1>9
  <2>3. /\ (value + (m + a)) * Denominator = value * Denominator + (m + a) * Denominator
        /\ (m + a) * Denominator = m * Denominator + a * Denominator
    BY <1>2, <1>6, Distribute
  <2> DEFINE x == value * Denominator
             y == m * Denominator
             z == a * Denominator
             w == product * elapsed
  <2>4. x \in Nat /\ y \in Nat /\ z \in Nat /\ w \in Nat
    BY <1>2, <1>6
  <2>5. (value + (m + a)) * Denominator = x + (y + z) /\ y + r = w /\ r + rest = z + b
    BY <1>1, <1>5, <2>3
  <2> HIDE DEF x, y, z, w
  <2>6. (x + (y + z)) + b = x + rest + w
    BY <1>2, <1>5, <2>4, <2>5
  <2>7. (value + (m + a)) * Denominator + b = value * Denominator + rest + product * elapsed
    BY <2>5, <2>6 DEF x, w
  <2> QED
    BY <1>7, <2>1, <2>2, <2>7 DEF next
<1> QED
  BY <1>8, <1>9

\* Stores of persist.
LEMMA PersistStep == EnergyInv /\ Energy!StoreNext => EnergyInv'
<1> SUFFICES ASSUME EnergyInv, Energy!StoreNext PROVE EnergyInv'
  OBVIOUS
<1> DEFINE W == Energy!persist(counter)
<1>1. PICK k \in 0..7 : energyProgram = Left(W, k) /\ StoredUpTo(k)
  BY DEF EnergyInv
<1>2. /\ \E S : W \in Seq(S)
      /\ Len(W) = 7
  BY PersistStores
<1>3. PICK S : W \in Seq(S)
  BY <1>2
<1>4. /\ energyProgram # <<>> /\ energyProgram' = Tail(energyProgram)
      /\ energyStore' = [energyStore EXCEPT ![energyProgram[1][1]] = energyProgram[1][2]]
      /\ restorable' = IF Tail(energyProgram) = <<>> THEN {counter} ELSE restorable
      /\ counter' = counter /\ remainder' = remainder /\ previous' = previous
      /\ sinceUpdate' = sinceUpdate
  BY DEF Energy!StoreNext
<1>5. k \in 0..6
  <2>1. CASE k = 7
    BY <1>1, <1>2, <1>3, <1>4, <2>1, LeftEnds
  <2> QED
    BY <2>1
<1> DEFINE key == W[k + 1][1]
           value == W[k + 1][2]
<1>6. /\ energyStore' = [energyStore EXCEPT ![key] = value]
      /\ energyProgram' = Left(W, k + 1)
  <2> HIDE DEF W
  <2>1. k \in 0..(Len(W) - 1)
    BY <1>2, <1>5
  <2>2. Left(W, k)[1] = W[k + 1] /\ Tail(Left(W, k)) = Left(W, k + 1)
    BY <1>3, <2>1, LeftNext
  <2> QED
    BY <1>1, <1>4, <2>2, Zenon
<1>7. /\ k = 0 => key = "marker" /\ value = 0
      /\ k = 1 => key = "chargedLow" /\ value = counter["charged"]
      /\ k = 2 => key = "chargedHigh" /\ value = counter["charged"]
      /\ k = 3 => key = "dischargedLow" /\ value = counter["discharged"]
      /\ k = 4 => key = "dischargedHigh" /\ value = counter["discharged"]
      /\ k = 5 => key = "checksum" /\ value = <<counter["charged"], counter["charged"],
                                              counter["discharged"], counter["discharged"]>>
      /\ k = 6 => key = "marker" /\ value = 1
  <2>1. /\ W[1] = <<"marker", 0>> /\ W[7] = <<"marker", 1>>
        /\ W[2] = <<"chargedLow", counter["charged"]>>
        /\ W[3] = <<"chargedHigh", counter["charged"]>>
        /\ W[4] = <<"dischargedLow", counter["discharged"]>>
        /\ W[5] = <<"dischargedHigh", counter["discharged"]>>
        /\ W[6] = <<"checksum", <<counter["charged"], counter["charged"],
                                 counter["discharged"], counter["discharged"]>> >>
    BY PersistStores
  <2> HIDE DEF W
  <2> QED
    BY <2>1
<1> HIDE DEF W, key, value
<1>8. key \in EnergyRegisters
  BY <1>5, <1>7 DEF EnergyRegisters
<1>9. \A r \in EnergyRegisters :
        energyStore'[r] = IF r = key THEN value ELSE energyStore[r]
  BY <1>6 DEF EnergyInv
<1>10. /\ (DOMAIN energyStore = EnergyRegisters)'
       /\ (energyStore = [r \in EnergyRegisters |-> energyStore[r]])'
  BY <1>6 DEF EnergyInv
<1>12. restorable' \subseteq Counters
  BY <1>4 DEF EnergyInv, Energy!TypeOK, Counters
<1>13. Energy!TypeOK'
  <2>1. Len(energyProgram') <= 7
    <3>1. Left(W, k + 1) = [i \in 1..(7 - (k + 1)) |-> W[i + (k + 1)]]
      BY <1>2 DEF Left, W
    <3>2. 7 - (k + 1) \in 0..7
      BY <1>5
    <3>3. Len(Left(W, k + 1)) = 7 - (k + 1)
      BY <3>1, <3>2
    <3> QED
      BY <1>6, <3>2, <3>3
  <2> QED
    BY <1>4, <2>1 DEF EnergyInv, Energy!TypeOK
<1>14. StoredUpTo(k + 1)'
  <2> USE DEF StoredUpTo, EnergyRegisters
  <2>1. CASE k = 0
    BY <1>4, <1>7, <1>9, <2>1
  <2>2. CASE k = 1
    BY <1>1, <1>4, <1>7, <1>9, <2>2
  <2>3. CASE k = 2
    BY <1>1, <1>4, <1>7, <1>9, <2>3
  <2>4. CASE k = 3
    BY <1>1, <1>4, <1>7, <1>9, <2>4
  <2>5. CASE k = 4
    BY <1>1, <1>4, <1>7, <1>9, <2>5
  <2>6. CASE k = 5
    BY <1>1, <1>4, <1>7, <1>9, <2>6
  <2>7. CASE k = 6
    BY <1>1, <1>4, <1>7, <1>9, <2>7
  <2> QED
    BY <1>5, <2>1, <2>2, <2>3, <2>4, <2>5, <2>6, <2>7
<1>15. k + 1 \in 0..7 /\ energyProgram' = Left(Energy!persist(counter'), k + 1)
  BY <1>4, <1>5, <1>6 DEF W
<1> QED
  BY <1>10, <1>12, <1>13, <1>14, <1>15 DEF EnergyInv

\* Between updates the record is the counters.
LEMMA PersistDone ==
    ASSUME EnergyInv, energyProgram = <<>>
    PROVE  /\ Holds(counter) /\ energyStore.marker = 1
           /\ Energy!recordIsValid
<1> DEFINE W == Energy!persist(counter)
<1>1. PICK k \in 0..7 : energyProgram = Left(W, k) /\ StoredUpTo(k)
  BY DEF EnergyInv
<1>2. Len(W) = 7
  BY PersistStores
<1>3. PICK S : W \in Seq(S)
  BY PersistStores
<1>4. k = 7
  <2>1. CASE k \in 0..6
    BY <1>1, <1>2, <1>3, <2>1, LeftNext
  <2> QED
    BY <2>1
<1>5. Holds(counter) /\ energyStore.marker = 1
  BY <1>1, <1>4 DEF StoredUpTo, Holds
<1> QED
  BY <1>5 DEF Holds, Energy!recordIsValid, Energy!kRecordMarker, Energy!recordChecksum

\* A valid record holds counters that may be restored, whenever the reset comes.
LEMMA ValidRecord ==
    ASSUME EnergyInv, Energy!recordIsValid
    PROVE  /\ energyProgram = <<>> => Holds(counter)
           /\ energyProgram # <<>> => \E c \in restorable : Holds(c)
<1>1. CASE energyProgram = <<>>
  BY <1>1, PersistDone
<1>2. CASE energyProgram # <<>>
  <2> DEFINE W == Energy!persist(counter)
  <2>1. PICK k \in 0..7 : energyProgram = Left(W, k) /\ StoredUpTo(k)
    BY DEF EnergyInv
  <2>2. energyStore.marker # 0
    BY DEF Energy!recordIsValid, Energy!kRecordMarker
  <2>3. k \notin 1..6
    BY <2>1, <2>2 DEF StoredUpTo
  <2>4. k = 0 \/ k = 7
    BY <2>3
  <2>5. k # 7
    <3>1. Len(W) = 7
      BY PersistStores
    <3>2. PICK S : W \in Seq(S)
      BY PersistStores
    <3> QED
      BY <1>2, <2>1, <3>1, <3>2, LeftEnds
  <2> QED
    BY <1>2, <2>1, <2>4, <2>5 DEF StoredUpTo
<1> QED
  BY <1>1, <1>2

\* A new program starts.
LEMMA PersistStarts ==
    ASSUME EnergyInv, UNCHANGED energyStore,
           energyProgram' = Energy!persist(counter'),
           counter' \in Counters, restorable' \subseteq Counters,
           remainder' \in [Energy!Directions -> 0..(Denominator - 1)],
           sinceUpdate' \in 0..MaxPause, previous' \in BOOLEAN,
           Energy!recordIsValid => \E c \in restorable' : Holds(c)
    PROVE  EnergyInv'
<1>1. Len(energyProgram') = 7
  BY PersistStores
<1>2. energyProgram' = Left(Energy!persist(counter'), 0)
  <2>1. PICK S : Energy!persist(counter') \in Seq(S)
    BY PersistStores
  <2> QED
    BY <2>1, LeftEnds
<1>3. StoredUpTo(0)'
  BY DEF StoredUpTo, Energy!recordIsValid, Energy!kRecordMarker, Energy!recordChecksum, Holds
<1>4. Energy!TypeOK'
  BY <1>1 DEF Energy!TypeOK, Counters
<1> QED
  BY <1>2, <1>3, <1>4 DEF EnergyInv

\* Time passes, or an interval ends.
LEMMA EnergyRests ==
    ASSUME EnergyInv, UNCHANGED <<energyStore, energyProgram, counter, remainder, restorable>>,
           sinceUpdate' \in 0..MaxPause, previous' \in BOOLEAN
    PROVE  EnergyInv'
<1>1. Energy!TypeOK'
  BY DEF EnergyInv, Energy!TypeOK
<1> QED
  BY <1>1 DEF EnergyInv, StoredUpTo, Holds, Energy!recordIsValid, Energy!kRecordMarker, Energy!recordChecksum

\* An update starts a program for the counters it leaves.
LEMMA UpdateStep ==
    ASSUME EnergyInv, NEW d \in Energy!Directions, NEW product \in Products,
           Energy!update(d, product)
    PROVE  /\ EnergyInv'
           /\ Energy!Integrable(sinceUpdate) =>
                \/ Energy!Exact(d)' = Energy!Exact(d) + product * sinceUpdate
                \/ counter'[d] = MaxCounter
<1>1. energyProgram = <<>> /\ previous' = TRUE /\ sinceUpdate' = 0 /\ energyStore' = energyStore
  BY DEF Energy!update
<1>2. /\ counter \in Counters /\ remainder \in [Energy!Directions -> 0..(Denominator - 1)]
      /\ sinceUpdate \in Nat /\ product \in Nat /\ sinceUpdate' \in 0..MaxPause
      /\ previous' \in BOOLEAN
  BY <1>1, EnergyAssumption DEF EnergyInv, Energy!TypeOK, Counters
<1>3. Holds(counter)
  BY <1>1, PersistDone
<1>4. CASE Energy!Integrable(sinceUpdate)
  <2> DEFINE next == Energy!integrateMicroWh(counter[d], remainder[d], product, sinceUpdate)
  <2>1. /\ counter' = [counter EXCEPT ![d] = next.counter]
        /\ remainder' = [remainder EXCEPT ![d] = next.remainder]
        /\ energyProgram' = Energy!persist(Energy!Stored(counter, counter'))
        /\ restorable' = {counter, counter'}
    BY <1>4 DEF Energy!update
  <2>2. energyProgram' = Energy!persist(counter')
    BY <2>1, Zenon DEF Energy!Stored
  <2>3. counter[d] \in 0..MaxCounter /\ remainder[d] \in 0..(Denominator - 1)
    BY <1>2 DEF Counters
  <2>4. /\ next.counter \in 0..MaxCounter
        /\ next.remainder \in 0..(Denominator - 1)
        /\ \/ next.counter * Denominator + next.remainder
                = counter[d] * Denominator + remainder[d] + product * sinceUpdate
           \/ next.counter = MaxCounter
    BY <1>2, <2>3, IntegralIsExact
  <2> HIDE DEF next
  <2>5. counter' \in Counters /\ remainder' \in [Energy!Directions -> 0..(Denominator - 1)]
    BY <1>2, <2>1, <2>4 DEF Counters
  <2>6. counter'[d] = next.counter /\ remainder'[d] = next.remainder
    BY <1>2, <2>1 DEF Counters
  <2>7. \/ Energy!Exact(d)' = Energy!Exact(d) + product * sinceUpdate
        \/ counter'[d] = MaxCounter
    BY <2>4, <2>6 DEF Energy!Exact
  <2>8. restorable' \subseteq Counters /\ counter \in restorable'
    BY <1>2, <2>1, <2>5
  <2> QED
    BY <1>1, <1>2, <1>3, <2>2, <2>5, <2>7, <2>8, PersistStarts
<1>5. CASE ~Energy!Integrable(sinceUpdate)
  <2>1. UNCHANGED <<energyProgram, counter, remainder, restorable>>
    BY <1>5 DEF Energy!update
  <2>3. EnergyInv'
    BY <1>1, <1>2, <2>1, EnergyRests
  <2> QED
    BY <1>5, <2>3
<1> QED
  BY <1>4, <1>5

\* After a reset the counters are those of a valid record, or zero.
LEMMA SetupStep ==
    ASSUME EnergyInv, Energy!setup
    PROVE  /\ EnergyInv'
           /\ IF energyProgram = <<>> THEN counter' = counter
              ELSE counter' \in restorable \cup {Energy!Zero}
<1>1. /\ energyStore' = energyStore /\ remainder' = Energy!Zero /\ previous' = FALSE
      /\ restorable' = {counter'} /\ sinceUpdate' = sinceUpdate
  BY DEF Energy!setup
<1>2. counter \in Counters /\ restorable \subseteq Counters /\ sinceUpdate \in 0..MaxPause
  BY DEF EnergyInv, Energy!TypeOK, Counters
<1>3. remainder' \in [Energy!Directions -> 0..(Denominator - 1)]
  BY <1>1, ZeroCounters
<1>4. CASE Energy!recordIsValid
  <2>1. /\ counter' = [d \in Energy!Directions |-> energyStore[Energy!Low[d]]]
        /\ energyProgram' = <<>>
    BY <1>4 DEF Energy!setup
  <2>2. ASSUME NEW c \in Counters, Holds(c) PROVE counter' = c
    BY <2>1, <2>2 DEF Counters, Holds, Energy!Directions, Energy!Low
  <2>3. PICK c \in restorable \cup {counter} :
            Holds(c) /\ (energyProgram # <<>> => c \in restorable)
    BY <1>4, ValidRecord
  <2>4. counter' = c /\ c \in Counters
    BY <1>2, <2>2, <2>3
  <2>5. energyProgram = <<>> => counter' = counter
    BY <1>2, <1>4, <2>2, ValidRecord
  <2>6. energyProgram' = Left(Energy!persist(counter'), 7)
    <3>1. Len(Energy!persist(counter')) = 7
      BY PersistStores
    <3>2. PICK S : Energy!persist(counter') \in Seq(S)
      BY PersistStores
    <3> QED
      BY <2>1, <3>1, <3>2, LeftEnds
  <2>7. energyStore.marker = 1
    BY <1>4 DEF Energy!recordIsValid, Energy!kRecordMarker, EnergyInv
  <2>8. StoredUpTo(7)'
    BY <1>1, <2>3, <2>4, <2>7 DEF StoredUpTo, Holds
  <2>9. Energy!TypeOK'
    <3>1. Len(energyProgram') <= 7
      BY <2>1
    <3> QED
      BY <1>1, <1>2, <1>3, <2>4, <3>1 DEF Energy!TypeOK, Counters
  <2>10. EnergyInv'
    BY <1>1, <2>4, <2>6, <2>8, <2>9 DEF EnergyInv
  <2> QED
    BY <2>3, <2>4, <2>5, <2>10
<1>5. CASE ~Energy!recordIsValid
  <2>1. counter' = Energy!Zero /\ energyProgram' = Energy!persist(Energy!Zero)
    BY <1>5 DEF Energy!setup
  <2>2. energyProgram # <<>>
    BY <1>5, PersistDone
  <2>3. EnergyInv'
    BY <1>1, <1>2, <1>3, <1>5, <2>1, ZeroCounters, PersistStarts
  <2> QED
    BY <2>1, <2>2, <2>3
<1> QED
  BY <1>4, <1>5

\* Every step keeps the invariant.
LEMMA EnergyStep == EnergyInv /\ [Energy!Next]_energyVars => EnergyInv'
<1> SUFFICES ASSUME EnergyInv, [Energy!Next]_energyVars PROVE EnergyInv'
  OBVIOUS
<1>0. sinceUpdate \in 0..MaxPause /\ previous \in BOOLEAN
  BY DEF EnergyInv, Energy!TypeOK
<1>1. CASE Energy!Tick
  <2>1. sinceUpdate' \in 0..MaxPause
    BY <1>0, <1>1, EnergyAssumption DEF Energy!Tick
  <2> QED
    BY <1>0, <1>1, <2>1, EnergyRests DEF Energy!Tick
<1>2. CASE Energy!StoreNext
  BY <1>2, PersistStep
<1>3. CASE Energy!EndInterval
  BY <1>0, <1>3, EnergyRests DEF Energy!EndInterval
<1>4. CASE Energy!setup
  BY <1>4, SetupStep
<1>5. CASE \E d \in Energy!Directions, product \in Products : Energy!update(d, product)
  BY <1>5, UpdateStep
<1>6. CASE UNCHANGED energyVars
  BY <1>0, <1>6, EnergyRests DEF energyVars
<1> QED
  BY <1>1, <1>2, <1>3, <1>4, <1>5, <1>6 DEF Energy!Next

-----------------------------------------------------------------------------
\* The records in the backup registers.

IsProgram(p) == \E S : p \in Seq(S)

Now == written[calibrated]

TimeThenDetails == Retained!storeTime(Now.utc) \o Retained!storeDetails(Now)
FullThenTime == Retained!setAhCounter(Full) \o TimeThenDetails

\* The first k stores of setAhCounter are made.
CounterStored(level, k) ==
    /\ k \in 1..4 => store.ahMarker = 0
    /\ k >= 2 => store.ahLo = level
    /\ k >= 3 => store.ahHi = level
    /\ k >= 4 => store.ahSum = <<level, level>>

\* The first k stores of storeTime are made.
TimeStored(k) ==
    /\ k >= 1 => store.timeMarker = 0
    /\ k >= 2 => store.time = Now.utc
    /\ k >= 3 => store.timeSum = Now.utc

\* Where the BMS task is in a calibration: about to end the old details, or
\* with none in force while it stores the counter, the time and the details.
AtEnd ==
    \/ program = Retained!EndDetails \o FullThenTime
    \/ \E level \in levels :
         program = Retained!EndDetails \o (Retained!setAhCounter(level) \o FullThenTime)

AtLevel ==
    /\ store.dMarker = 0
    /\ \E level \in levels, k \in 0..4 :
         /\ program = Left(Retained!setAhCounter(level), k) \o FullThenTime
         /\ CounterStored(level, k)

AtFull ==
    /\ store.dMarker = 0
    /\ \E k \in 0..4 :
         /\ program = Left(Retained!setAhCounter(Full), k) \o TimeThenDetails
         /\ CounterStored(Full, k)

AtTime ==
    /\ store.dMarker = 0
    /\ \E k \in 0..(Len(Retained!storeTime(Now.utc)) - 1) :
         /\ program = Left(Retained!storeTime(Now.utc), k) \o Retained!storeDetails(Now)
         /\ TimeStored(k)

AtDetails ==
    /\ store.dMarker = 0
    /\ Retained!ValidTime = Now.utc
    /\ \E k \in 0..5 :
         /\ program = Left(Retained!storeDetails(Now), k)
         /\ k >= 2 => store.dUtc = Now.utc

\* Where it is otherwise: in a count, or with a counter that is not valid.
AtCount ==
    \E level \in levels, k \in 0..4 :
      /\ program = Left(Retained!setAhCounter(level), k)
      /\ CounterStored(level, k)

BareStores(level) == << <<"ahLo", level>>, <<"ahHi", level>> >>

AtBare ==
    /\ store.ahMarker = 0
    /\ \/ \E level \in Levels, k \in 0..1 : program = Left(BareStores(level), k)
       \/ \E k \in 0..3 : program = Left(Retained!invalidateAhCounter, k)

Progress ==
    IF calibrated = 0 THEN program = <<>> \/ AtCount \/ AtBare
    ELSE /\ Full \in levels
         /\ AtEnd \/ AtLevel \/ AtFull \/ AtTime \/ AtDetails

\* A marked charge counter is whole and holds what was last counted.
CounterSound ==
    /\ store.ahMarker \in {0, Retained!Set}
    /\ store.ahMarker = Retained!Set =>
         /\ store.ahSum = <<store.ahLo, store.ahHi>>
         /\ store.ahLo = store.ahHi /\ store.ahLo \in levels

\* Marked details are of the time in force.
DetailsSound ==
    store.dMarker # 0 => Retained!ValidTime \in {0, store.dUtc}

\* A checksum or a time, wherever it has got to, is of a calibration.
SumOfCalibration(x) ==
    \/ x = <<>>
    \/ \E n \in 1..calibrations : x = Retained!socCalibrationDetailsChecksum(written[n])
TimeOfCalibration(x) ==
    \/ x = 0
    \/ \E n \in 1..calibrations : x = written[n].utc

ValuesTrue ==
    /\ SumOfCalibration(store.dSum)
    /\ TimeOfCalibration(store.time)
    /\ reading = "details" /\ Len(words) >= 5 => SumOfCalibration(words[5])
    /\ reading = "time" /\ Len(words) >= 1 => TimeOfCalibration(words[1])
    /\ \A n \in 1..calibrations :
         written[n].marker = Retained!Complete => written[n].kept = TRUE

RecordTypes ==
    /\ DOMAIN store = Retained!Registers
    /\ store = [r \in Retained!Registers |-> store[r]]
    /\ calibrations \in 0..MaxCalibrations /\ calibrated \in {0, calibrations}
    /\ DOMAIN written = 1..MaxCalibrations
    /\ written = [n \in 1..MaxCalibrations |-> written[n]]
    /\ interval \in BOOLEAN /\ kept \in BOOLEAN /\ (interval = TRUE => kept = TRUE)
    /\ levels \subseteq Levels
    /\ \/ reading = "idle" /\ words = <<>>
       \/ reading = "details" /\ Len(words) \in 0..6
       \/ reading = "time" /\ Len(words) \in 0..2


RecordsInv ==
    /\ RecordTypes
    /\ IsProgram(words)
    /\ CounterSound
    /\ DetailsSound
    /\ ValuesTrue
    /\ Progress

-----------------------------------------------------------------------------
\* The shapes of the programs.

\* A short list of stores is a program.
LEMMA ProgramConcat ==
    ASSUME NEW p, NEW q, IsProgram(p), IsProgram(q)
    PROVE  IsProgram(p \o q)
<1>1. PICK S : p \in Seq(S)
  BY DEF IsProgram
<1>2. PICK T : q \in Seq(T)
  BY DEF IsProgram
<1>3. p \in Seq(S \cup T) /\ q \in Seq(S \cup T)
  BY <1>1, <1>2, SeqMonotonic
<1>4. p \o q \in Seq(S \cup T)
  BY <1>3, ConcatProperties
<1> QED
  BY <1>4 DEF IsProgram

\* Programs may be put together in any order.
LEMMA ProgramAssociative ==
    ASSUME NEW p, NEW q, NEW r, IsProgram(p), IsProgram(q), IsProgram(r)
    PROVE  (p \o q) \o r = p \o (q \o r)
<1>1. PICK A : p \in Seq(A)
  BY DEF IsProgram
<1>2. PICK B : q \in Seq(B)
  BY DEF IsProgram
<1>3. PICK C : r \in Seq(C)
  BY DEF IsProgram
<1>4. p \in Seq(A \cup B \cup C) /\ q \in Seq(A \cup B \cup C) /\ r \in Seq(A \cup B \cup C)
  BY <1>1, <1>2, <1>3, SeqMonotonic
<1> QED
  BY <1>4, ConcatAssociative

\* Five groups of stores, from the first to the rest.
InTurn(a, b, c, d, e) == a \o (b \o (c \o (d \o e)))

\* However they were put together.
LEMMA FiveGroups ==
    ASSUME NEW a, NEW b, NEW c, NEW d, NEW e,
           IsProgram(a), IsProgram(b), IsProgram(c), IsProgram(d), IsProgram(e)
    PROVE  (((a \o b) \o c) \o d) \o e = InTurn(a, b, c, d, e)
<1> DEFINE ab == a \o b
           abc == ab \o c
           de == d \o e
           cde == c \o de
<1>1. IsProgram(ab) /\ IsProgram(de)
  BY ProgramConcat
<1> HIDE DEF ab, de
<1>2. IsProgram(abc) /\ IsProgram(cde)
  BY <1>1, ProgramConcat
<1> HIDE DEF abc, cde
<1>3. (abc \o d) \o e = abc \o (d \o e)
  BY <1>2, ProgramAssociative, SMTT(30)
<1>4. (ab \o c) \o de = ab \o (c \o de)
  BY <1>1, ProgramAssociative, SMTT(30)
<1>5. (a \o b) \o cde = a \o (b \o cde)
  BY <1>2, ProgramAssociative, SMTT(30)
<1> QED
  BY <1>3, <1>4, <1>5 DEF ab, abc, de, cde, InTurn

\* The next store of a program whose first group has k of its stores behind it.
LEMMA GroupNext ==
    ASSUME NEW G, NEW R, IsProgram(G), IsProgram(R), NEW k \in 0..(Len(G) - 1)
    PROVE  /\ Left(G, k) \o R # <<>>
           /\ Head(Left(G, k) \o R) = G[k + 1]
           /\ Tail(Left(G, k) \o R) = Left(G, k + 1) \o R
           /\ R # <<>> => Tail(Left(G, k) \o R) # <<>>
<1>1. PICK S : G \in Seq(S) /\ R \in Seq(S)
  <2>1. PICK A : G \in Seq(A)
    BY DEF IsProgram
  <2>2. PICK B : R \in Seq(B)
    BY DEF IsProgram
  <2>3. G \in Seq(A \cup B) /\ R \in Seq(A \cup B)
    BY <2>1, <2>2, SeqMonotonic
  <2> QED
    BY <2>3
<1>2. Len(G) \in Nat /\ Len(R) \in Nat
  BY <1>1, LenProperties
<1> DEFINE L == Left(G, k)
           M == Left(G, k + 1)
<1>3. L \in Seq(S) /\ Len(L) = Len(G) - k /\ L # <<>> /\ Len(L) > 0
  <2>1. L \in Seq(S) /\ Len(L) = Len(G) - k
    BY <1>1, <1>2 DEF Left
  <2>2. Len(L) > 0
    BY <1>2, <2>1
  <2>3. L # <<>>
    BY <1>1, LeftNext
  <2> QED
    BY <2>1, <2>2, <2>3
<1>4. M \in Seq(S) /\ Len(M) = Len(G) - (k + 1)
  BY <1>1, <1>2 DEF Left
<1>5. L[1] = G[k + 1] /\ \A i \in 1..Len(M) : L[i + 1] = M[i]
  <2>1. L[1] = G[k + 1] /\ Tail(L) = M
    BY <1>1, LeftNext
  <2>2. \A i \in 1..Len(Tail(L)) : Tail(L)[i] = L[i + 1]
    BY <1>3, HeadTailProperties
  <2> QED
    BY <2>1, <2>2
<1> HIDE DEF L, M
<1>6. /\ L \o R \in Seq(S) /\ Len(L \o R) = Len(L) + Len(R)
      /\ \A i \in 1..(Len(L) + Len(R)) :
           (L \o R)[i] = IF i <= Len(L) THEN L[i] ELSE R[i - Len(L)]
  BY <1>1, <1>3, ConcatProperties
<1>7. /\ M \o R \in Seq(S) /\ Len(M \o R) = Len(M) + Len(R)
      /\ \A i \in 1..(Len(M) + Len(R)) :
           (M \o R)[i] = IF i <= Len(M) THEN M[i] ELSE R[i - Len(M)]
  BY <1>1, <1>4, ConcatProperties
<1>8. L \o R # <<>> /\ Len(L \o R) > 0
  BY <1>2, <1>3, <1>6
<1> DEFINE P == L \o R
           Q == M \o R
<1>9. /\ Tail(P) \in Seq(S) /\ Len(Tail(P)) = Len(P) - 1
      /\ \A i \in 1..Len(Tail(P)) : Tail(P)[i] = P[i + 1]
  BY <1>6, <1>8, HeadTailProperties
<1>10. Head(P) = G[k + 1]
  <2>1. Head(P) = P[1]
    BY <1>6, <1>8
  <2>2. P[1] = L[1]
    BY <1>2, <1>3, <1>6
  <2> QED
    BY <1>5, <2>1, <2>2
<1>11. Tail(P) = Q
  <2>1. Len(Tail(P)) = Len(Q)
    BY <1>2, <1>3, <1>4, <1>6, <1>7, <1>9
  <2>2. ASSUME NEW i \in 1..Len(Q) PROVE Tail(P)[i] = Q[i]
    <3>1. i \in 1..(Len(M) + Len(R)) /\ i + 1 \in 1..(Len(L) + Len(R)) /\ i \in Nat
      BY <1>2, <1>3, <1>4, <1>7
    <3>2. Tail(P)[i] = P[i + 1]
      BY <1>9, <2>1
    <3>3. Len(L) = Len(M) + 1 /\ Len(M) \in Nat
      BY <1>2, <1>3, <1>4
    <3>4. CASE i <= Len(M)
      <4>1. P[i + 1] = L[i + 1] /\ Q[i] = M[i] /\ i \in 1..Len(M)
        BY <1>6, <1>7, <3>1, <3>3, <3>4
      <4> QED
        BY <1>5, <3>2, <4>1
    <3>5. CASE ~(i <= Len(M))
      <4>1. P[i + 1] = R[(i + 1) - Len(L)] /\ Q[i] = R[i - Len(M)]
        BY <1>6, <1>7, <3>1, <3>3, <3>5
      <4>2. (i + 1) - Len(L) = i - Len(M)
        BY <3>1, <3>3
      <4> QED
        BY <3>2, <4>1, <4>2
    <3> QED
      BY <3>4, <3>5
  <2> HIDE DEF P, Q
  <2>3. Tail(P) \in Seq(S) /\ Q \in Seq(S)
    BY <1>7, <1>9 DEF Q
  <2> QED
    BY <2>1, <2>2, <2>3, SeqEqual
<1>12. R # <<>> => Q # <<>>
  <2> SUFFICES ASSUME R # <<>> PROVE Q # <<>>
    OBVIOUS
  <2>1. Len(R) # 0
    BY <1>1, <1>2
  <2> QED
    BY <1>2, <1>4, <1>7, <2>1
<1> QED
  BY <1>8, <1>10, <1>11, <1>12 DEF L, M

\* A group that is done leaves the rest, and one not begun is whole.
LEMMA GroupEnds ==
    ASSUME NEW G, NEW R, IsProgram(G), IsProgram(R)
    PROVE  Left(G, Len(G)) \o R = R /\ Left(G, 0) \o R = G \o R
<1>1. PICK S : G \in Seq(S)
  BY DEF IsProgram
<1>2. PICK T : R \in Seq(T)
  BY DEF IsProgram
<1>3. <<>> \o R = R
  BY <1>2, ConcatEmptySeq
<1> QED
  BY <1>1, <1>3, LeftEnds

\* A group that stands alone.
LEMMA AloneNext ==
    ASSUME NEW G, IsProgram(G), NEW k \in 0..(Len(G) - 1)
    PROVE  /\ Left(G, k) # <<>> /\ Head(Left(G, k)) = G[k + 1]
           /\ Tail(Left(G, k)) = Left(G, k + 1)
           /\ Tail(Left(G, k)) = <<>> <=> k + 1 = Len(G)
<1>1. PICK S : G \in Seq(S)
  BY DEF IsProgram
<1> QED
  BY <1>1, LeftNext

\* setAhCounter, store by store.
LEMMA CounterProgram ==
    ASSUME NEW level
    PROVE  LET W == Retained!setAhCounter(level) IN
           /\ IsProgram(W) /\ Len(W) = 5 /\ W # <<>>
           /\ W[1] = <<"ahMarker", 0>> /\ W[2] = <<"ahLo", level>> /\ W[3] = <<"ahHi", level>>
           /\ W[4] = <<"ahSum", <<level, level>> >> /\ W[5] = <<"ahMarker", Retained!Set>>
<1> DEFINE a == <<"ahMarker", 0>>
           b == <<"ahLo", level>>
           c == <<"ahHi", level>>
           d == <<"ahSum", <<level, level>> >>
           e == <<"ahMarker", Retained!Set>>
           W == <<a, b, c, d, e>>
<1>1. Retained!setAhCounter(level) = W
  BY Zenon DEF Retained!setAhCounter
<1> HIDE DEF a, b, c, d, e
<1>2. /\ W \in Seq({a, b, c, d, e}) /\ Len(W) = 5 /\ W # <<>>
      /\ W[1] = a /\ W[2] = b /\ W[3] = c /\ W[4] = d /\ W[5] = e
  OBVIOUS
<1> HIDE DEF W
<1> QED
  BY <1>1, <1>2 DEF a, b, c, d, e, IsProgram

\* invalidateAhCounter, and a count while the counter is not valid.
LEMMA OtherPrograms ==
    /\ LET W == Retained!invalidateAhCounter IN
       /\ IsProgram(W) /\ Len(W) = 4
       /\ W[1] = <<"ahMarker", 0>> /\ W[2] = <<"ahLo", 0>> /\ W[3] = <<"ahHi", 0>>
       /\ W[4] = <<"ahSum", <<>> >>
    /\ \A level : LET W == BareStores(level) IN
       /\ IsProgram(W) /\ Len(W) = 2
       /\ W[1] = <<"ahLo", level>> /\ W[2] = <<"ahHi", level>>
    /\ LET W == Retained!EndDetails IN
       /\ IsProgram(W) /\ Len(W) = 1 /\ W[1] = <<"dMarker", 0>>
<1>1. ASSUME NEW a, NEW b, NEW c, NEW d, NEW W, W = <<a, b, c, d>>
      PROVE  IsProgram(W) /\ Len(W) = 4 /\ W[1] = a /\ W[2] = b /\ W[3] = c /\ W[4] = d
  <2>1. W \in Seq({a, b, c, d})
    BY <1>1
  <2> QED
    BY <1>1, <2>1 DEF IsProgram
<1>2. ASSUME NEW a, NEW b, NEW W, W = <<a, b>>
      PROVE  IsProgram(W) /\ Len(W) = 2 /\ W[1] = a /\ W[2] = b
  <2>1. W \in Seq({a, b})
    BY <1>2
  <2> QED
    BY <1>2, <2>1 DEF IsProgram
<1>3. ASSUME NEW a, NEW W, W = <<a>>
      PROVE  IsProgram(W) /\ Len(W) = 1 /\ W[1] = a
  <2>1. W \in Seq({a})
    BY <1>3
  <2> QED
    BY <1>3, <2>1 DEF IsProgram
<1>4. LET W == Retained!invalidateAhCounter IN
       /\ IsProgram(W) /\ Len(W) = 4
       /\ W[1] = <<"ahMarker", 0>> /\ W[2] = <<"ahLo", 0>> /\ W[3] = <<"ahHi", 0>>
       /\ W[4] = <<"ahSum", <<>> >>
  <2> DEFINE a == <<"ahMarker", 0>>
             b == <<"ahLo", 0>>
             c == <<"ahHi", 0>>
             d == <<"ahSum", <<>> >>
             V == <<a, b, c, d>>
  <2>1. Retained!invalidateAhCounter = V
    BY Zenon DEF Retained!invalidateAhCounter
  <2> HIDE DEF a, b, c, d
  <2>2. IsProgram(V) /\ Len(V) = 4 /\ V[1] = a /\ V[2] = b /\ V[3] = c /\ V[4] = d
    BY <1>1
  <2> HIDE DEF V
  <2> QED
    BY <2>1, <2>2 DEF a, b, c, d
<1>5. ASSUME NEW level
      PROVE  LET W == BareStores(level) IN
             /\ IsProgram(W) /\ Len(W) = 2
             /\ W[1] = <<"ahLo", level>> /\ W[2] = <<"ahHi", level>>
  BY <1>2, Zenon DEF BareStores
<1>6. LET W == Retained!EndDetails IN
       /\ IsProgram(W) /\ Len(W) = 1 /\ W[1] = <<"dMarker", 0>>
  BY <1>3, Zenon DEF Retained!EndDetails
<1> QED
  BY <1>4, <1>5, <1>6

\* storeTime: a time of 0 is none.
LEMMA TimeProgram ==
    ASSUME NEW utc
    PROVE  LET W == Retained!storeTime(utc) IN
           /\ IsProgram(W) /\ W # <<>>
           /\ Len(W) = (IF utc = 0 THEN 1 ELSE 4)
           /\ W[1] = <<"timeMarker", 0>>
           /\ utc # 0 => /\ W[2] = <<"time", utc>> /\ W[3] = <<"timeSum", utc>>
                         /\ W[4] = <<"timeMarker", Retained!Set>>
<1> DEFINE a == <<"timeMarker", 0>>
           b == <<"time", utc>>
           c == <<"timeSum", utc>>
           d == <<"timeMarker", Retained!Set>>
           S == {a, b, c, d}
           W == Retained!storeTime(utc)
<1>1. W = <<a>> \o (IF utc = 0 THEN <<>> ELSE <<b, c, d>>)
  BY Zenon DEF Retained!storeTime
<1> HIDE DEF a, b, c, d, W
<1>2. /\ <<a>> \in Seq(S) /\ <<b, c, d>> \in Seq(S) /\ Len(<<a>>) = 1 /\ Len(<<b, c, d>>) = 3
  OBVIOUS
<1> HIDE DEF S
<1>3. CASE utc = 0
  <2>1. W = <<a>>
    BY <1>1, <1>2, <1>3, ConcatEmptySeq
  <2>2. <<a>> # <<>> /\ <<a>>[1] = a
    OBVIOUS
  <2>3. IsProgram(W) /\ W # <<>> /\ Len(W) = 1 /\ W[1] = a
    BY <1>2, <2>1, <2>2 DEF IsProgram
  <2> QED
    BY <1>3, <2>3 DEF a, W
<1>4. CASE utc # 0
  <2>1. W = <<a>> \o <<b, c, d>>
    BY <1>1, <1>4
  <2>2. /\ W \in Seq(S) /\ Len(W) = 4
        /\ \A i \in 1..4 : W[i] = IF i <= 1 THEN <<a>>[i] ELSE <<b, c, d>>[i - 1]
    BY <1>2, <2>1, ConcatProperties
  <2>3. W[1] = a /\ W[2] = b /\ W[3] = c /\ W[4] = d /\ W # <<>>
    BY <2>2
  <2>4. IsProgram(W)
    BY <2>2 DEF IsProgram
  <2> QED
    BY <1>4, <2>2, <2>3, <2>4 DEF a, b, c, d, W
<1> QED
  BY <1>3, <1>4

\* storeDetails, store by store.
LEMMA DetailsProgram ==
    ASSUME NEW d
    PROVE  LET W == Retained!storeDetails(d) IN
           /\ IsProgram(W) /\ W # <<>> /\ Len(W) = 6
           /\ W[1] = <<"dSoc", d.soc>> /\ W[2] = <<"dUtc", d.utc>>
           /\ W[3] = <<"dPrevious", d.previous>> /\ W[4] = <<"dLoss", d.loss>>
           /\ W[5] = <<"dSum", Retained!socCalibrationDetailsChecksum(d)>>
           /\ W[6] = <<"dMarker", d.marker>>
<1>1. ASSUME NEW a, NEW b, NEW c, NEW e, NEW f, NEW g, NEW W, W = <<a, b, c, e, f, g>>
      PROVE  /\ IsProgram(W) /\ W # <<>> /\ Len(W) = 6
             /\ W[1] = a /\ W[2] = b /\ W[3] = c /\ W[4] = e /\ W[5] = f /\ W[6] = g
  <2>1. W \in Seq({a, b, c, e, f, g})
    BY <1>1
  <2> QED
    BY <1>1, <2>1 DEF IsProgram
<1> DEFINE a == <<"dSoc", d.soc>>
           b == <<"dUtc", d.utc>>
           c == <<"dPrevious", d.previous>>
           e == <<"dLoss", d.loss>>
           f == <<"dSum", Retained!socCalibrationDetailsChecksum(d)>>
           g == <<"dMarker", d.marker>>
           V == <<a, b, c, e, f, g>>
<1>2. Retained!storeDetails(d) = V
  BY Zenon DEF Retained!storeDetails
<1> HIDE DEF a, b, c, e, f, g
<1>3. /\ IsProgram(V) /\ V # <<>> /\ Len(V) = 6
      /\ V[1] = a /\ V[2] = b /\ V[3] = c /\ V[4] = e /\ V[5] = f /\ V[6] = g
  BY <1>1
<1> HIDE DEF V
<1> QED
  BY <1>2, <1>3 DEF a, b, c, e, f, g


-----------------------------------------------------------------------------
\* One store.

CounterRegisters == {"ahMarker", "ahLo", "ahHi", "ahSum"}
MatchRegisters == {"dMarker", "dUtc", "timeMarker", "time", "timeSum"}

\* What a store of the value in the register leaves.
Puts(key, value) ==
    /\ key \in Retained!Registers
    /\ \A r \in Retained!Registers : store'[r] = IF r = key THEN value ELSE store[r]

\* The effect of StoreNext, whatever it stores.
LEMMA StoreEffect ==
    ASSUME RecordsInv, Retained!StoreNext,
           NEW key \in Retained!Registers, NEW value, Head(program) = <<key, value>>,
           key = "dSum" => SumOfCalibration(value),
           key = "time" => TimeOfCalibration(value)
    PROVE  /\ Puts(key, value)
           /\ RecordTypes' /\ IsProgram(words)' /\ ValuesTrue'
           /\ levels' = levels /\ written' = written /\ program' = Tail(program)
           /\ calibrated' = IF Tail(program) = <<>> THEN 0 ELSE calibrated
<1>1. /\ store' = [store EXCEPT ![key] = value]
      /\ program' = Tail(program)
      /\ calibrated' = IF Tail(program) = <<>> THEN 0 ELSE calibrated
      /\ words' = words /\ reading' = reading
      /\ calibrations' = calibrations /\ levels' = levels /\ written' = written
  <2>1. Head(program)[1] = key /\ Head(program)[2] = value
    OBVIOUS
  <2>2. /\ store' = [store EXCEPT ![Head(program)[1]] = Head(program)[2]]
        /\ program' = Tail(program)
        /\ calibrated' = IF Tail(program) = <<>> THEN 0 ELSE calibrated
        /\ words' = words /\ reading' = reading
        /\ calibrations' = calibrations /\ levels' = levels /\ written' = written
    BY Zenon DEF Retained!StoreNext, Retained!Uncounted
  <2> QED
    BY <2>1, <2>2, Zenon
<1>2. /\ interval \in BOOLEAN /\ kept \in BOOLEAN /\ (interval = TRUE => kept = TRUE)
  BY DEF RecordsInv, RecordTypes
<1>3. \E ends \in BOOLEAN : interval' = (ends \/ interval) /\ kept' = (ends \/ kept)
  BY Zenon DEF Retained!StoreNext
<1>4. interval' \in BOOLEAN /\ kept' \in BOOLEAN /\ (interval' = TRUE => kept' = TRUE)
  BY <1>2, <1>3
<1>5. /\ Puts(key, value)
      /\ (DOMAIN store = Retained!Registers)'
      /\ (store = [r \in Retained!Registers |-> store[r]])'
  BY <1>1 DEF Puts, RecordsInv, RecordTypes
<1>6. RecordTypes'
  <2>1. calibrated' \in {0, calibrations}
    BY <1>1 DEF RecordsInv, RecordTypes
  <2> QED
    BY <1>1, <1>4, <1>5, <2>1 DEF RecordsInv, RecordTypes
<1>7. IsProgram(words)'
  BY <1>1 DEF RecordsInv, IsProgram
<1>8. ValuesTrue'
  <2>1. store'.dSum = IF key = "dSum" THEN value ELSE store.dSum
    BY <1>5 DEF Puts, Retained!Registers
  <2>2. store'.time = IF key = "time" THEN value ELSE store.time
    BY <1>5 DEF Puts, Retained!Registers
  <2>3. SumOfCalibration(store.dSum)'
    BY <1>1, <2>1 DEF RecordsInv, ValuesTrue, SumOfCalibration
  <2>4. TimeOfCalibration(store.time)'
    BY <1>1, <2>2 DEF RecordsInv, ValuesTrue, TimeOfCalibration
  <2> QED
    BY <1>1, <2>3, <2>4 DEF RecordsInv, ValuesTrue, SumOfCalibration, TimeOfCalibration
<1> QED
  BY <1>1, <1>5, <1>6, <1>7, <1>8

\* Stores elsewhere leave the counter as it is.
LEMMA CounterKept ==
    ASSUME CounterSound, NEW key \in Retained!Registers \ CounterRegisters, NEW value,
           Puts(key, value), levels' = levels
    PROVE  CounterSound'
<1>1. /\ store'.ahMarker = store.ahMarker /\ store'.ahLo = store.ahLo
      /\ store'.ahHi = store.ahHi /\ store'.ahSum = store.ahSum
  BY DEF Puts, Retained!Registers, CounterRegisters
<1> QED
  BY <1>1 DEF CounterSound

\* Stores of a counter that is not marked leave it so.
LEMMA CounterUnmarked ==
    ASSUME CounterSound, store.ahMarker = 0, NEW key \in Retained!Registers, NEW value,
           key = "ahMarker" => value = 0, Puts(key, value)
    PROVE  CounterSound' /\ store'.ahMarker = 0
<1>1. store'.ahMarker = 0
  BY DEF Puts, Retained!Registers
<1> QED
  BY <1>1 DEF CounterSound, Retained!Set

\* So do stores elsewhere, and stores to details that are not in force.
LEMMA DetailsKept ==
    ASSUME DetailsSound, NEW key \in Retained!Registers, NEW value, Puts(key, value),
           \/ key \notin MatchRegisters
           \/ store.dMarker = 0 /\ key # "dMarker"
           \/ key = "dMarker" /\ value = 0
    PROVE  DetailsSound' /\ (store.dMarker = 0 => store'.dMarker = 0)
<1>1. CASE key \notin MatchRegisters
  <2>1. /\ store'.dMarker = store.dMarker /\ store'.dUtc = store.dUtc /\ store'.time = store.time
        /\ store'.timeMarker = store.timeMarker /\ store'.timeSum = store.timeSum
    BY <1>1 DEF Puts, Retained!Registers, MatchRegisters
  <2> QED
    BY <2>1 DEF DetailsSound, Retained!ValidTime, Retained!CalibrationTime
<1>2. CASE store.dMarker = 0 /\ key # "dMarker"
  <2>1. store'.dMarker = 0
    BY <1>2 DEF Puts, Retained!Registers
  <2> QED
    BY <2>1 DEF DetailsSound
<1>3. CASE key = "dMarker" /\ value = 0
  <2>1. store'.dMarker = 0
    BY <1>3 DEF Puts, Retained!Registers
  <2> QED
    BY <2>1 DEF DetailsSound
<1> QED
  BY <1>1, <1>2, <1>3

\* A store of setAhCounter.
LEMMA CounterStep ==
    ASSUME CounterSound, NEW level \in levels, NEW k \in 0..4, CounterStored(level, k),
           NEW key, NEW value, Retained!setAhCounter(level)[k + 1] = <<key, value>>,
           Puts(key, value), levels' = levels
    PROVE  /\ CounterSound'
           /\ k < 4 => CounterStored(level, k + 1)'
<1>1. /\ k = 0 => key = "ahMarker" /\ value = 0
      /\ k = 1 => key = "ahLo" /\ value = level
      /\ k = 2 => key = "ahHi" /\ value = level
      /\ k = 3 => key = "ahSum" /\ value = <<level, level>>
      /\ k = 4 => key = "ahMarker" /\ value = Retained!Set
  <2> DEFINE W == Retained!setAhCounter(level)
  <2>1. /\ W[1] = <<"ahMarker", 0>> /\ W[2] = <<"ahLo", level>> /\ W[3] = <<"ahHi", level>>
        /\ W[4] = <<"ahSum", <<level, level>> >> /\ W[5] = <<"ahMarker", Retained!Set>>
    BY CounterProgram
  <2>2. W[k + 1] = <<key, value>>
    OBVIOUS
  <2> HIDE DEF W
  <2> QED
    BY <2>1, <2>2
<1>2. /\ store'.ahMarker = IF key = "ahMarker" THEN value ELSE store.ahMarker
      /\ store'.ahLo = IF key = "ahLo" THEN value ELSE store.ahLo
      /\ store'.ahHi = IF key = "ahHi" THEN value ELSE store.ahHi
      /\ store'.ahSum = IF key = "ahSum" THEN value ELSE store.ahSum
  BY DEF Puts, Retained!Registers
<1> USE DEF CounterSound, CounterStored, Retained!Set
<1>3. CASE k = 0
  BY <1>1, <1>2, <1>3
<1>4. CASE k = 1
  BY <1>1, <1>2, <1>4
<1>5. CASE k = 2
  BY <1>1, <1>2, <1>5
<1>6. CASE k = 3
  BY <1>1, <1>2, <1>6
<1>7. CASE k = 4
  BY <1>1, <1>2, <1>7
<1> QED
  BY <1>3, <1>4, <1>5, <1>6, <1>7

\* The registers of setAhCounter.
LEMMA CounterKeys ==
    ASSUME NEW level, NEW k \in 0..4
    PROVE  \E key \in CounterRegisters : \E value :
             Retained!setAhCounter(level)[k + 1] = <<key, value>>
<1> DEFINE W == Retained!setAhCounter(level)
<1>1. /\ W[1] = <<"ahMarker", 0>> /\ W[2] = <<"ahLo", level>> /\ W[3] = <<"ahHi", level>>
      /\ W[4] = <<"ahSum", <<level, level>> >> /\ W[5] = <<"ahMarker", Retained!Set>>
  BY CounterProgram
<1> HIDE DEF W
<1>2. k = 0 \/ k = 1 \/ k = 2 \/ k = 3 \/ k = 4
  OBVIOUS
<1>3. W[k + 1] \in {<<"ahMarker", 0>>, <<"ahLo", level>>, <<"ahHi", level>>,
                    <<"ahSum", <<level, level>> >>, <<"ahMarker", Retained!Set>>}
  BY <1>1, <1>2
<1> QED
  BY <1>3, Zenon DEF W, CounterRegisters


-----------------------------------------------------------------------------
\* The stores of each program.

\* While a calibration goes on, what it has to store stays the same.
LEMMA SameCalibration ==
    ASSUME calibrated' = calibrated, written' = written
    PROVE  /\ Now' = Now /\ FullThenTime' = FullThenTime
           /\ TimeThenDetails' = TimeThenDetails
           /\ Retained!storeTime(Now.utc)' = Retained!storeTime(Now.utc)
           /\ Retained!storeDetails(Now)' = Retained!storeDetails(Now)
<1>1. Now' = Now
  BY DEF Now
<1>2. /\ Retained!storeTime(Now.utc)' = Retained!storeTime(Now.utc)
      /\ Retained!storeDetails(Now)' = Retained!storeDetails(Now)
  BY <1>1 DEF Retained!storeTime, Retained!storeDetails,
              Retained!socCalibrationDetailsChecksum
<1>3. TimeThenDetails' = TimeThenDetails
  BY <1>2 DEF TimeThenDetails
<1>4. FullThenTime' = FullThenTime
  BY <1>3 DEF FullThenTime, Retained!setAhCounter
<1> QED
  BY <1>1, <1>2, <1>3, <1>4

\* What is left of a calibration is a program.
LEMMA RestPrograms ==
    /\ IsProgram(TimeThenDetails) /\ TimeThenDetails # <<>>
    /\ IsProgram(FullThenTime) /\ FullThenTime # <<>>
    /\ \A level : /\ IsProgram(Retained!setAhCounter(level) \o FullThenTime)
                  /\ Retained!setAhCounter(level) \o FullThenTime # <<>>
<1>1. /\ IsProgram(Retained!storeTime(Now.utc)) /\ Len(Retained!storeTime(Now.utc)) > 0
      /\ IsProgram(Retained!storeDetails(Now))
      /\ Len(Retained!storeTime(Now.utc)) \in Nat
  <2>1. /\ IsProgram(Retained!storeTime(Now.utc))
        /\ Len(Retained!storeTime(Now.utc)) = (IF Now.utc = 0 THEN 1 ELSE 4)
    BY TimeProgram
  <2> QED
    BY <2>1, DetailsProgram
<1>2. ASSUME NEW G, NEW R, IsProgram(G), IsProgram(R), Len(G) \in Nat, Len(G) > 0
      PROVE  IsProgram(G \o R) /\ G \o R # <<>>
  <2>1. 0 \in 0..(Len(G) - 1)
    BY <1>2
  <2>2. Left(G, 0) \o R # <<>>
    BY <1>2, <2>1, GroupNext
  <2> QED
    BY <1>2, <2>2, GroupEnds, ProgramConcat
<1>3. IsProgram(TimeThenDetails) /\ TimeThenDetails # <<>>
  BY <1>1, <1>2 DEF TimeThenDetails
<1>4. \A level : IsProgram(Retained!setAhCounter(level)) /\ Len(Retained!setAhCounter(level)) = 5
  BY CounterProgram
<1>5. IsProgram(FullThenTime) /\ FullThenTime # <<>>
  BY <1>2, <1>3, <1>4 DEF FullThenTime
<1> QED
  BY <1>2, <1>3, <1>4, <1>5

\* A store of a count.
LEMMA CountStores ==
    ASSUME RecordsInv, Retained!StoreNext, calibrated = 0, AtCount PROVE RecordsInv'
<1>1. PICK level \in levels, k \in 0..4 :
        program = Left(Retained!setAhCounter(level), k) /\ CounterStored(level, k)
  BY DEF AtCount
<1> DEFINE W == Retained!setAhCounter(level)
<1>2. PICK key \in CounterRegisters : \E value : W[k + 1] = <<key, value>>
  BY CounterKeys
<1>3. PICK value : W[k + 1] = <<key, value>>
  BY <1>2
<1>4. key \in Retained!Registers /\ key \notin MatchRegisters /\ key # "dSum" /\ key # "time"
  BY DEF CounterRegisters, Retained!Registers, MatchRegisters
<1>5. IsProgram(W) /\ Len(W) = 5
  BY CounterProgram
<1>6. /\ Head(program) = <<key, value>> /\ Tail(program) = Left(W, k + 1)
      /\ Tail(program) = <<>> <=> k + 1 = 5
  <2> HIDE DEF W
  <2>1. k \in 0..(Len(W) - 1)
    BY <1>5
  <2>2. /\ Head(Left(W, k)) = W[k + 1] /\ Tail(Left(W, k)) = Left(W, k + 1)
        /\ Tail(Left(W, k)) = <<>> <=> k + 1 = Len(W)
    BY <1>5, <2>1, AloneNext
  <2> QED
    BY <1>1, <1>3, <1>5, <2>2 DEF W
<1>7. /\ Puts(key, value) /\ RecordTypes' /\ IsProgram(words)' /\ ValuesTrue'
      /\ levels' = levels /\ program' = Left(W, k + 1) /\ calibrated' = 0
      /\ program' = Tail(program)
  BY <1>4, <1>6, StoreEffect
<1>8. CounterSound' /\ (k < 4 => CounterStored(level, k + 1)')
  BY <1>1, <1>3, <1>7, CounterStep DEF RecordsInv
<1>9. DetailsSound'
  BY <1>4, <1>7, DetailsKept DEF RecordsInv
<1>10. Progress'
  <2>1. CASE k = 4
    <3>1. k + 1 = 5
      BY <2>1
    <3>2. program' = <<>>
      BY ONLY <1>6, <1>7, <3>1
    <3> QED
      BY <1>7, <3>2 DEF Progress
  <2>2. CASE k # 4
    <3>1. k < 4 /\ k + 1 \in 0..4
      BY <2>2
    <3>2. program' = Left(Retained!setAhCounter(level)', k + 1)
      BY <1>7 DEF Retained!setAhCounter
    <3>3. AtCount'
      BY <1>7, <1>8, <3>1, <3>2 DEF AtCount
    <3> QED
      BY <1>7, <3>3 DEF Progress
  <2> QED
    BY <2>1, <2>2
<1> QED
  BY <1>7, <1>8, <1>9, <1>10 DEF RecordsInv

\* A store while the counter is not valid.
LEMMA BareStoresStep ==
    ASSUME RecordsInv, Retained!StoreNext, calibrated = 0, AtBare PROVE RecordsInv'
<1>1. store.ahMarker = 0
  BY DEF AtBare
<1>2. ASSUME NEW G, IsProgram(G), NEW k \in 0..(Len(G) - 1), program = Left(G, k),
             \A i \in 1..Len(G) : G[i][1] \in CounterRegisters /\ (G[i][1] = "ahMarker" => G[i][2] = 0)
                                  /\ G[i] = <<G[i][1], G[i][2]>>,
             Len(G) \in Nat
      PROVE  /\ RecordTypes' /\ IsProgram(words)' /\ ValuesTrue' /\ CounterSound'
             /\ DetailsSound' /\ store'.ahMarker = 0 /\ calibrated' = 0
             /\ program' = Left(G, k + 1)
             /\ k + 1 = Len(G) => program' = <<>>
  <2> DEFINE key == G[k + 1][1]
             value == G[k + 1][2]
  <2>1. k + 1 \in 1..Len(G)
    BY <1>2
  <2>2. key \in CounterRegisters /\ (key = "ahMarker" => value = 0) /\ G[k + 1] = <<key, value>>
    BY <1>2, <2>1
  <2>3. /\ Head(program) = <<key, value>> /\ Tail(program) = Left(G, k + 1)
        /\ Tail(program) = <<>> <=> k + 1 = Len(G)
    BY <1>2, <2>2, AloneNext
  <2> HIDE DEF key, value
  <2>4. key \in Retained!Registers /\ key \notin MatchRegisters /\ key # "dSum" /\ key # "time"
    BY <2>2 DEF CounterRegisters, Retained!Registers, MatchRegisters
  <2>5. /\ Puts(key, value) /\ RecordTypes' /\ IsProgram(words)' /\ ValuesTrue'
        /\ levels' = levels /\ program' = Left(G, k + 1) /\ calibrated' = 0
    BY <2>3, <2>4, StoreEffect
  <2>6. CounterSound' /\ store'.ahMarker = 0
    BY <1>1, <2>2, <2>4, <2>5, CounterUnmarked DEF RecordsInv
  <2>7. DetailsSound'
    BY <2>4, <2>5, DetailsKept DEF RecordsInv
  <2> QED
    BY <2>3, <2>5, <2>6, <2>7
<1>3. ASSUME NEW level \in Levels, NEW k \in 0..1, program = Left(BareStores(level), k)
      PROVE  RecordsInv'
  <2> DEFINE G == BareStores(level)
  <2>1. /\ IsProgram(G) /\ Len(G) = 2 /\ G[1] = <<"ahLo", level>> /\ G[2] = <<"ahHi", level>>
    BY OtherPrograms
  <2> HIDE DEF G
  <2>2. /\ k \in 0..(Len(G) - 1) /\ Len(G) \in Nat
        /\ \A i \in 1..Len(G) :
             /\ G[i][1] \in CounterRegisters /\ (G[i][1] = "ahMarker" => G[i][2] = 0)
             /\ G[i] = <<G[i][1], G[i][2]>>
    BY <2>1 DEF CounterRegisters
  <2>3. program = Left(G, k)
    BY <1>3 DEF G
  <2>4. /\ RecordTypes' /\ IsProgram(words)' /\ ValuesTrue' /\ CounterSound'
        /\ DetailsSound' /\ store'.ahMarker = 0 /\ calibrated' = 0
        /\ program' = Left(G, k + 1)
        /\ k + 1 = Len(G) => program' = <<>>
    BY <1>2, <2>1, <2>2, <2>3
  <2>5. Progress'
    <3>1. CASE k = 1
      BY <2>1, <2>4, <3>1 DEF Progress
    <3>2. CASE k = 0
      <4>1. program' = Left(BareStores(level), 1)
        BY <2>4, <3>2 DEF G
      <4>2. AtBare'
        BY <2>4, <4>1 DEF AtBare
      <4> QED
        BY <2>4, <4>2 DEF Progress
    <3> QED
      BY <3>1, <3>2
  <2> QED
    BY <2>4, <2>5 DEF RecordsInv
<1>4. ASSUME NEW k \in 0..3, program = Left(Retained!invalidateAhCounter, k)
      PROVE  RecordsInv'
  <2> DEFINE G == Retained!invalidateAhCounter
  <2>1. /\ IsProgram(G) /\ Len(G) = 4
        /\ G[1] = <<"ahMarker", 0>> /\ G[2] = <<"ahLo", 0>> /\ G[3] = <<"ahHi", 0>>
        /\ G[4] = <<"ahSum", <<>> >>
    BY OtherPrograms
  <2> HIDE DEF G
  <2>2. /\ k \in 0..(Len(G) - 1) /\ Len(G) \in Nat
        /\ \A i \in 1..Len(G) :
             /\ G[i][1] \in CounterRegisters /\ (G[i][1] = "ahMarker" => G[i][2] = 0)
             /\ G[i] = <<G[i][1], G[i][2]>>
    BY <2>1 DEF CounterRegisters
  <2>3. program = Left(G, k)
    BY <1>4 DEF G
  <2>4. /\ RecordTypes' /\ IsProgram(words)' /\ ValuesTrue' /\ CounterSound'
        /\ DetailsSound' /\ store'.ahMarker = 0 /\ calibrated' = 0
        /\ program' = Left(G, k + 1)
        /\ k + 1 = Len(G) => program' = <<>>
    BY <1>2, <2>1, <2>2, <2>3
  <2>5. Progress'
    <3>1. CASE k = 3
      BY <2>1, <2>4, <3>1 DEF Progress
    <3>2. CASE k # 3
      <4>1. k + 1 \in 0..3
        BY <3>2
      <4>2. program' = Left(Retained!invalidateAhCounter, k + 1)
        BY <2>4 DEF G
      <4>3. AtBare'
        BY <2>4, <4>1, <4>2 DEF AtBare
      <4> QED
        BY <2>4, <4>3 DEF Progress
    <3> QED
      BY <3>1, <3>2
  <2> QED
    BY <2>4, <2>5 DEF RecordsInv
<1> QED
  BY <1>3, <1>4 DEF AtBare


\* The facts all the steps of a calibration share.
LEMMA CalibrationStores ==
    ASSUME RecordsInv, Retained!StoreNext, calibrated # 0,
           NEW G, NEW R, IsProgram(G), IsProgram(R), NEW k \in 0..(Len(G) - 1),
           program = Left(G, k) \o R, R # <<>>,
           NEW key \in Retained!Registers, NEW value, G[k + 1] = <<key, value>>,
           key = "dSum" => SumOfCalibration(value),
           key = "time" => TimeOfCalibration(value)
    PROVE  /\ Puts(key, value) /\ RecordTypes' /\ IsProgram(words)' /\ ValuesTrue'
           /\ levels' = levels /\ written' = written /\ calibrated' = calibrated
           /\ program' = Left(G, k + 1) \o R
<1>1. /\ Head(program) = <<key, value>> /\ Tail(program) = Left(G, k + 1) \o R
      /\ Tail(program) # <<>>
  BY GroupNext
<1> QED
  BY <1>1, StoreEffect

\* A calibration ends the old details.
LEMMA EndStores ==
    ASSUME RecordsInv, Retained!StoreNext, calibrated # 0, AtEnd PROVE RecordsInv'
<1> DEFINE G == Retained!EndDetails
           Rests == {FullThenTime} \cup
                    {Retained!setAhCounter(level) \o FullThenTime : level \in levels}
<1>1. PICK R \in Rests : program = G \o R
  BY DEF AtEnd
<1>2. IsProgram(R) /\ R # <<>>
  BY RestPrograms
<1>3. IsProgram(G) /\ Len(G) = 1 /\ G[1] = <<"dMarker", 0>>
  BY OtherPrograms
<1>4. program = Left(G, 0) \o R /\ Left(G, 1) \o R = R
  <2> HIDE DEF G, Rests
  <2>1. Left(G, Len(G)) \o R = R /\ Left(G, 0) \o R = G \o R
    BY <1>2, <1>3, GroupEnds
  <2> QED
    BY <1>1, <1>3, <2>1
<1>5. "dMarker" \in Retained!Registers \ CounterRegisters
  BY DEF Retained!Registers, CounterRegisters
<1>6. /\ Puts("dMarker", 0) /\ RecordTypes' /\ IsProgram(words)' /\ ValuesTrue'
      /\ levels' = levels /\ written' = written /\ calibrated' = calibrated
      /\ program' = R
  <2> HIDE DEF G, Rests
  <2>1. 0 \in 0..(Len(G) - 1) /\ G[0 + 1] = <<"dMarker", 0>> /\ 0 + 1 = 1
    BY <1>3
  <2> QED
    BY <1>2, <1>3, <1>4, <1>5, <2>1, CalibrationStores
<1>7. CounterSound'
  BY <1>5, <1>6, CounterKept DEF RecordsInv
<1>8. store'.dMarker = 0
  BY <1>5, <1>6 DEF Puts
<1>9. DetailsSound'
  BY <1>5, <1>6, DetailsKept DEF RecordsInv
<1>10. FullThenTime' = FullThenTime /\ TimeThenDetails' = TimeThenDetails /\ Full \in levels
  BY <1>6, SameCalibration DEF RecordsInv, Progress
<1>11. AtLevel' \/ AtFull'
  <2>1. ASSUME NEW level \in levels, R = Retained!setAhCounter(level) \o FullThenTime
        PROVE  AtLevel'
    <3>1. program' = Left(Retained!setAhCounter(level), 0) \o FullThenTime
      BY <1>6, <2>1, CounterProgram, RestPrograms, GroupEnds
    <3>2. program' = Left(Retained!setAhCounter(level)', 0) \o FullThenTime'
      BY <1>10, <3>1 DEF Retained!setAhCounter
    <3>3. CounterStored(level, 0)'
      BY DEF CounterStored
    <3> QED
      BY <1>6, <1>8, <3>2, <3>3 DEF AtLevel
  <2>2. ASSUME R = FullThenTime PROVE AtFull'
    <3>1. program' = Left(Retained!setAhCounter(Full), 0) \o TimeThenDetails
      BY <1>6, <2>2, CounterProgram, RestPrograms, GroupEnds DEF FullThenTime
    <3>2. program' = Left(Retained!setAhCounter(Full)', 0) \o TimeThenDetails'
      BY <1>10, <3>1 DEF Retained!setAhCounter
    <3>3. CounterStored(Full, 0)'
      BY DEF CounterStored
    <3> QED
      BY <1>8, <3>2, <3>3 DEF AtFull
  <2> QED
    BY <2>1, <2>2
<1>12. Progress'
  BY <1>6, <1>10, <1>11 DEF Progress
<1> QED
  BY <1>6, <1>7, <1>9, <1>12 DEF RecordsInv

\* It stores the counter twice: what the self discharge leaves, then full.
LEMMA LevelStores ==
    ASSUME RecordsInv, Retained!StoreNext, calibrated # 0, AtLevel PROVE RecordsInv'
<1>1. PICK level \in levels, k \in 0..4 :
        /\ program = Left(Retained!setAhCounter(level), k) \o FullThenTime
        /\ CounterStored(level, k)
  BY DEF AtLevel
<1> DEFINE G == Retained!setAhCounter(level)
<1>2. PICK key \in CounterRegisters : \E value : G[k + 1] = <<key, value>>
  BY CounterKeys
<1>3. PICK value : G[k + 1] = <<key, value>>
  BY <1>2
<1>4. key \in Retained!Registers /\ key \notin MatchRegisters /\ key # "dSum" /\ key # "time"
  BY DEF CounterRegisters, Retained!Registers, MatchRegisters
<1>5. IsProgram(G) /\ Len(G) = 5 /\ IsProgram(FullThenTime) /\ FullThenTime # <<>>
  BY CounterProgram, RestPrograms
<1>6. /\ Puts(key, value) /\ RecordTypes' /\ IsProgram(words)' /\ ValuesTrue'
      /\ levels' = levels /\ written' = written /\ calibrated' = calibrated
      /\ program' = Left(G, k + 1) \o FullThenTime
  <2>1. program = Left(G, k) \o FullThenTime
    BY <1>1
  <2> HIDE DEF G
  <2>2. k \in 0..(Len(G) - 1)
    BY <1>5
  <2> QED
    BY <1>3, <1>4, <1>5, <2>1, <2>2, CalibrationStores
<1>7. CounterSound' /\ (k < 4 => CounterStored(level, k + 1)')
  BY <1>1, <1>3, <1>6, CounterStep DEF RecordsInv
<1>8. DetailsSound' /\ store'.dMarker = 0
  BY <1>4, <1>6, DetailsKept DEF RecordsInv, AtLevel
<1>9. FullThenTime' = FullThenTime /\ TimeThenDetails' = TimeThenDetails /\ Full \in levels
  BY <1>6, SameCalibration DEF RecordsInv, Progress
<1>10. AtLevel' \/ AtFull'
  <2>1. CASE k # 4
    <3>1. k < 4 /\ k + 1 \in 0..4
      BY <2>1
    <3>2. program' = Left(Retained!setAhCounter(level)', k + 1) \o FullThenTime'
      BY <1>6, <1>9 DEF Retained!setAhCounter
    <3> QED
      BY <1>6, <1>7, <1>8, <3>1, <3>2 DEF AtLevel
  <2>2. CASE k = 4
    <3>1. Left(G, 5) \o FullThenTime = FullThenTime
      <4> HIDE DEF G
      <4>1. Left(G, Len(G)) \o FullThenTime = FullThenTime
        BY <1>5, GroupEnds
      <4> QED
        BY <1>5, <4>1
    <3>2. k + 1 = 5
      BY <2>2
    <3>3. program' = FullThenTime
      BY ONLY <1>6, <3>1, <3>2
    <3>4. program' = Left(Retained!setAhCounter(Full), 0) \o TimeThenDetails
      BY <3>3, CounterProgram, RestPrograms, GroupEnds DEF FullThenTime
    <3>5. program' = Left(Retained!setAhCounter(Full)', 0) \o TimeThenDetails'
      BY <1>9, <3>4 DEF Retained!setAhCounter
    <3>6. CounterStored(Full, 0)'
      BY DEF CounterStored
    <3> QED
      BY <1>8, <3>5, <3>6 DEF AtFull
  <2> QED
    BY <2>1, <2>2
<1>11. Progress'
  BY <1>6, <1>9, <1>10 DEF Progress
<1> QED
  BY <1>6, <1>7, <1>8, <1>11 DEF RecordsInv

\* Full is stored the same way, and the time follows.
LEMMA FullStores ==
    ASSUME RecordsInv, Retained!StoreNext, calibrated # 0, AtFull PROVE RecordsInv'
<1>1. PICK k \in 0..4 :
        /\ program = Left(Retained!setAhCounter(Full), k) \o TimeThenDetails
        /\ CounterStored(Full, k)
  BY DEF AtFull
<1> DEFINE G == Retained!setAhCounter(Full)
<1>2. PICK key \in CounterRegisters : \E value : G[k + 1] = <<key, value>>
  BY CounterKeys
<1>3. PICK value : G[k + 1] = <<key, value>>
  BY <1>2
<1>4. key \in Retained!Registers /\ key \notin MatchRegisters /\ key # "dSum" /\ key # "time"
  BY DEF CounterRegisters, Retained!Registers, MatchRegisters
<1>5. IsProgram(G) /\ Len(G) = 5 /\ IsProgram(TimeThenDetails) /\ TimeThenDetails # <<>>
  BY CounterProgram, RestPrograms
<1>6. /\ Puts(key, value) /\ RecordTypes' /\ IsProgram(words)' /\ ValuesTrue'
      /\ levels' = levels /\ written' = written /\ calibrated' = calibrated
      /\ program' = Left(G, k + 1) \o TimeThenDetails
  <2>1. program = Left(G, k) \o TimeThenDetails
    BY <1>1
  <2> HIDE DEF G
  <2>2. k \in 0..(Len(G) - 1)
    BY <1>5
  <2> QED
    BY <1>3, <1>4, <1>5, <2>1, <2>2, CalibrationStores
<1>7. Full \in levels
  BY DEF RecordsInv, Progress
<1>8. CounterSound' /\ (k < 4 => CounterStored(Full, k + 1)')
  BY <1>1, <1>3, <1>6, <1>7, CounterStep DEF RecordsInv
<1>9. DetailsSound' /\ store'.dMarker = 0
  BY <1>4, <1>6, DetailsKept DEF RecordsInv, AtFull
<1>10. /\ TimeThenDetails' = TimeThenDetails /\ Now' = Now
       /\ Retained!storeTime(Now.utc)' = Retained!storeTime(Now.utc)
       /\ Retained!storeDetails(Now)' = Retained!storeDetails(Now)
  BY <1>6, SameCalibration
<1>11. AtFull' \/ AtTime'
  <2>1. CASE k # 4
    <3>1. k < 4 /\ k + 1 \in 0..4
      BY <2>1
    <3>2. program' = Left(Retained!setAhCounter(Full)', k + 1) \o TimeThenDetails'
      BY <1>6, <1>10 DEF Retained!setAhCounter
    <3> QED
      BY <1>8, <1>9, <3>1, <3>2 DEF AtFull
  <2>2. CASE k = 4
    <3>1. Left(G, 5) \o TimeThenDetails = TimeThenDetails
      <4> HIDE DEF G
      <4>1. Left(G, Len(G)) \o TimeThenDetails = TimeThenDetails
        BY <1>5, GroupEnds
      <4> QED
        BY <1>5, <4>1
    <3>2. k + 1 = 5
      BY <2>2
    <3>3. program' = TimeThenDetails
      BY ONLY <1>6, <3>1, <3>2
    <3> DEFINE T == Retained!storeTime(Now.utc)
               D == Retained!storeDetails(Now)
    <3>4. IsProgram(T) /\ IsProgram(D) /\ Len(T) \in {1, 4}
      BY TimeProgram, DetailsProgram
    <3>5. program' = Left(T, 0) \o D
      BY <3>3, <3>4, GroupEnds DEF TimeThenDetails
    <3>6. T' = T /\ D' = D
      BY <1>10
    <3>7. 0 \in 0..(Len(T) - 1)
      BY <3>4
    <3>8. TimeStored(0)'
      BY DEF TimeStored
    <3> HIDE DEF T, D
    <3>9. program' = Left(T', 0) \o D' /\ 0 \in 0..(Len(T') - 1)
      BY <3>5, <3>6, <3>7
    <3> QED
      BY <1>9, <3>8, <3>9 DEF AtTime, T, D
  <2> QED
    BY <2>1, <2>2
<1>12. Progress'
  BY <1>6, <1>7, <1>11 DEF Progress
<1> QED
  BY <1>6, <1>8, <1>9, <1>12 DEF RecordsInv

\* Then the time.
LEMMA TimeStores ==
    ASSUME RecordsInv, Retained!StoreNext, calibrated # 0, AtTime PROVE RecordsInv'
<1> DEFINE utc == Now.utc
           T == Retained!storeTime(utc)
           D == Retained!storeDetails(Now)
<1>1. PICK k \in 0..(Len(T) - 1) : program = Left(T, k) \o D /\ TimeStored(k)
  BY DEF AtTime
<1>2. /\ IsProgram(T) /\ IsProgram(D) /\ D # <<>>
      /\ Len(T) = (IF utc = 0 THEN 1 ELSE 4)
      /\ T[1] = <<"timeMarker", 0>>
      /\ utc # 0 => /\ T[2] = <<"time", utc>> /\ T[3] = <<"timeSum", utc>>
                    /\ T[4] = <<"timeMarker", Retained!Set>>
  BY TimeProgram, DetailsProgram
<1> HIDE DEF T, D, utc
<1> DEFINE key == IF k = 1 THEN "time" ELSE IF k = 2 THEN "timeSum" ELSE "timeMarker"
           value == IF k = 0 THEN 0 ELSE IF k = 3 THEN Retained!Set ELSE utc
<1>3. k = 0 \/ (utc # 0 /\ k \in 1..3)
  BY <1>2
<1>4. T[k + 1] = <<key, value>>
  BY <1>2, <1>3
<1>5. /\ key \in Retained!Registers \ CounterRegisters /\ key # "dSum" /\ key # "dMarker"
      /\ key = "time" => value = utc
  BY <1>3 DEF Retained!Registers, CounterRegisters
<1>6. TimeOfCalibration(utc)
  <2>1. calibrated \in 1..calibrations
    BY DEF RecordsInv, RecordTypes
  <2> QED
    BY <2>1 DEF TimeOfCalibration, utc, Now
<1> HIDE DEF key, value
<1>7. /\ Puts(key, value) /\ RecordTypes' /\ IsProgram(words)' /\ ValuesTrue'
      /\ levels' = levels /\ written' = written /\ calibrated' = calibrated
      /\ program' = Left(T, k + 1) \o D
  BY <1>1, <1>2, <1>4, <1>5, <1>6, CalibrationStores
<1>8. CounterSound'
  BY <1>5, <1>7, CounterKept DEF RecordsInv
<1>9. DetailsSound' /\ store'.dMarker = 0
  BY <1>5, <1>7, DetailsKept DEF RecordsInv, AtTime
<1>10. Now' = Now /\ T' = T /\ D' = D /\ utc' = utc
  BY <1>7, SameCalibration DEF T, D, utc
<1>11. /\ store'.time = IF k = 1 THEN utc ELSE store.time
       /\ store'.timeSum = IF k = 2 THEN utc ELSE store.timeSum
       /\ store'.timeMarker = IF k = 0 THEN 0 ELSE IF k = 3 THEN Retained!Set
                              ELSE store.timeMarker
  BY <1>3, <1>7 DEF Puts, Retained!Registers, key, value
<1>12. AtTime' \/ AtDetails'
  <2>1. CASE k + 1 # Len(T)
    <3>1. k + 1 \in 0..(Len(T) - 1) /\ k < 3 /\ k \in Nat /\ utc # 0
      BY <1>2, <1>3, <2>1
    <3>2. TimeStored(k + 1)'
      BY <1>1, <1>3, <1>10, <1>11, <3>1 DEF TimeStored, utc
    <3>3. program' = Left(T', k + 1) \o D' /\ k + 1 \in 0..(Len(T') - 1)
      BY <1>7, <1>10, <3>1
    <3> QED
      BY <1>9, <3>2, <3>3 DEF AtTime, T, D, utc
  <2>2. CASE k + 1 = Len(T)
    <3>1. program' = Left(T, Len(T)) \o D
      BY <1>7, <2>2
    <3>2. program' = D
      BY <1>2, <3>1, GroupEnds
    <3>3. program' = Left(D, 0)
      BY <1>2, <3>2, LeftEnds DEF IsProgram
    <3>4. Retained!ValidTime' = utc
      <4>1. CASE utc = 0
        <5>1. store'.timeMarker = 0
          BY <1>2, <1>3, <1>11, <2>2, <4>1
        <5> QED
          BY <4>1, <5>1 DEF Retained!ValidTime, Retained!CalibrationTime, Retained!Set
      <4>2. CASE utc # 0
        <5>1. k = 3
          BY <1>2, <2>2, <4>2
        <5>2. store'.time = utc /\ store'.timeSum = utc /\ store'.timeMarker = Retained!Set
          BY <1>1, <1>11, <5>1 DEF TimeStored, utc
        <5> QED
          BY <5>2 DEF Retained!ValidTime, Retained!CalibrationTime
      <4> QED
        BY <4>1, <4>2
    <3>5. program' = Left(D', 0)
      BY <1>10, <3>3
    <3>6. Retained!ValidTime' = Now'.utc
      BY <1>10, <3>4 DEF utc
    <3> QED
      BY <1>9, <3>5, <3>6 DEF AtDetails, D
  <2> QED
    BY <2>1, <2>2
<1>13. Progress'
  BY <1>7, <1>12 DEF Progress, RecordsInv
<1> QED
  BY <1>7, <1>8, <1>9, <1>13 DEF RecordsInv

\* And last the details, with their marker.
LEMMA DetailsStores ==
    ASSUME RecordsInv, Retained!StoreNext, calibrated # 0, AtDetails PROVE RecordsInv'
<1> DEFINE D == Retained!storeDetails(Now)
<1>1. PICK k \in 0..5 : program = Left(D, k) /\ (k >= 2 => store.dUtc = Now.utc)
  BY DEF AtDetails
<1>2. /\ IsProgram(D) /\ Len(D) = 6
      /\ D[1] = <<"dSoc", Now.soc>> /\ D[2] = <<"dUtc", Now.utc>>
      /\ D[3] = <<"dPrevious", Now.previous>> /\ D[4] = <<"dLoss", Now.loss>>
      /\ D[5] = <<"dSum", Retained!socCalibrationDetailsChecksum(Now)>>
      /\ D[6] = <<"dMarker", Now.marker>>
  BY DetailsProgram
<1> HIDE DEF D
<1> DEFINE key == D[k + 1][1]
           value == D[k + 1][2]
<1>3. /\ D[k + 1] = <<key, value>>
      /\ k = 0 => key = "dSoc"
      /\ k = 1 => key = "dUtc" /\ value = Now.utc
      /\ k = 2 => key = "dPrevious"
      /\ k = 3 => key = "dLoss"
      /\ k = 4 => key = "dSum" /\ value = Retained!socCalibrationDetailsChecksum(Now)
      /\ k = 5 => key = "dMarker" /\ value = Now.marker
  BY <1>2
<1> HIDE DEF key, value
<1>4. k = 0 \/ k = 1 \/ k = 2 \/ k = 3 \/ k = 4 \/ k = 5
  OBVIOUS
<1>5. /\ key \in Retained!Registers \ CounterRegisters /\ key # "time"
      /\ key \notin {"timeMarker", "timeSum"}
      /\ key = "dMarker" => k = 5
      /\ key = "dUtc" => value = Now.utc
      /\ key = "dSum" => value = Retained!socCalibrationDetailsChecksum(Now)
  BY <1>3, <1>4 DEF Retained!Registers, CounterRegisters
<1>6. SumOfCalibration(Retained!socCalibrationDetailsChecksum(Now))
  <2>1. calibrated \in 1..calibrations
    BY DEF RecordsInv, RecordTypes
  <2> QED
    BY <2>1 DEF SumOfCalibration, Now
<1>7. /\ Head(program) = <<key, value>> /\ Tail(program) = Left(D, k + 1)
      /\ Tail(program) = <<>> <=> k + 1 = 6
  <2>1. k \in 0..(Len(D) - 1)
    BY <1>2
  <2>2. /\ Head(Left(D, k)) = D[k + 1] /\ Tail(Left(D, k)) = Left(D, k + 1)
        /\ Tail(Left(D, k)) = <<>> <=> k + 1 = Len(D)
    BY <1>2, <2>1, AloneNext
  <2> QED
    BY <1>1, <1>2, <1>3, <2>2
<1>8. /\ Puts(key, value) /\ RecordTypes' /\ IsProgram(words)' /\ ValuesTrue'
      /\ levels' = levels /\ written' = written /\ program' = Left(D, k + 1)
      /\ program' = Tail(program)
      /\ calibrated' = IF Tail(program) = <<>> THEN 0 ELSE calibrated
  BY <1>5, <1>6, <1>7, StoreEffect
<1>9. CounterSound'
  BY <1>5, <1>8, CounterKept DEF RecordsInv
<1>10. Retained!ValidTime' = Now.utc
  <2>1. /\ store'.time = store.time /\ store'.timeSum = store.timeSum
        /\ store'.timeMarker = store.timeMarker
    BY <1>5, <1>8 DEF Puts, Retained!Registers
  <2> QED
    BY <2>1 DEF AtDetails, Retained!ValidTime, Retained!CalibrationTime
<1>11. k >= 1 => store'.dUtc = Now.utc
  <2>1. store'.dUtc = IF key = "dUtc" THEN value ELSE store.dUtc
    BY <1>8 DEF Puts, Retained!Registers
  <2> QED
    BY <1>1, <1>3, <1>4, <1>5, <2>1
<1>12. CASE k = 5
  <2>1. k + 1 = 6
    BY <1>12
  <2>2. program' = <<>> /\ calibrated' = 0
    BY ONLY <1>7, <1>8, <2>1
  <2>3. DetailsSound'
    BY <1>10, <1>11, <1>12 DEF DetailsSound
  <2>4. Progress'
    BY <2>2 DEF Progress
  <2> QED
    BY <1>8, <1>9, <2>3, <2>4 DEF RecordsInv
<1>13. CASE k # 5
  <2>1. k + 1 \in 0..5 /\ k + 1 # 6 /\ (k + 1 >= 2 => k >= 1)
    BY <1>13
  <2>2. calibrated' = calibrated
    BY ONLY <1>7, <1>8, <2>1
  <2>3. DetailsSound' /\ store'.dMarker = 0
    BY <1>5, <1>8, <1>13, DetailsKept DEF RecordsInv, AtDetails
  <2>4. Now' = Now /\ D' = D
    BY <1>8, <2>2, SameCalibration DEF D
  <2>5. AtDetails'
    <3>1. Retained!ValidTime' = Now'.utc
      BY <1>10, <2>4
    <3>2. program' = Left(D', k + 1)
      BY <1>8, <2>4
    <3>3. k + 1 >= 2 => store'.dUtc = Now'.utc
      BY <1>11, <2>1, <2>4
    <3> QED
      BY <2>1, <2>3, <3>1, <3>2, <3>3 DEF AtDetails, D
  <2>6. Progress'
    BY <1>8, <2>2, <2>5 DEF Progress, RecordsInv
  <2> QED
    BY <1>8, <1>9, <2>3, <2>6 DEF RecordsInv
<1> QED
  BY <1>12, <1>13

\* Every store of the BMS task keeps the invariant.
LEMMA StoreStep ==
    ASSUME RecordsInv, Retained!StoreNext PROVE RecordsInv'
<1>1. program # <<>>
  BY Zenon DEF Retained!StoreNext, Retained!Idle
<1>2. CASE calibrated = 0
  BY <1>1, <1>2, CountStores, BareStoresStep DEF RecordsInv, Progress
<1>3. CASE calibrated # 0
  <2>1. AtEnd \/ AtLevel \/ AtFull \/ AtTime \/ AtDetails
    BY <1>3 DEF RecordsInv, Progress
  <2> QED
    BY <1>3, <2>1, EndStores, LevelStores, FullStores, TimeStores, DetailsStores
<1> QED
  BY <1>2, <1>3

\* With nothing left to store, no calibration goes on.
LEMMA IdleIsDone ==
    ASSUME RecordsInv, program = <<>> PROVE calibrated = 0
<1> SUFFICES ASSUME calibrated # 0 PROVE FALSE
  OBVIOUS
<1>1. ~AtEnd
  <2>1. ASSUME NEW R, IsProgram(R) PROVE Retained!EndDetails \o R # <<>>
    <3> DEFINE G == Retained!EndDetails
    <3>1. IsProgram(G) /\ Len(G) = 1
      BY OtherPrograms
    <3> HIDE DEF G
    <3>2. 0 \in 0..(Len(G) - 1)
      BY <3>1
    <3>3. Left(G, 0) \o R # <<>>
      BY <2>1, <3>1, <3>2, GroupNext
    <3>4. Left(G, 0) \o R = G \o R
      BY <2>1, <3>1, GroupEnds
    <3> QED
      BY <3>3, <3>4 DEF G
  <2> QED
    BY <2>1, RestPrograms DEF AtEnd
<1>2. ASSUME NEW level, NEW k \in 0..4, NEW R, IsProgram(R)
      PROVE  Left(Retained!setAhCounter(level), k) \o R # <<>>
  <2> DEFINE G == Retained!setAhCounter(level)
  <2>1. IsProgram(G) /\ Len(G) = 5
    BY CounterProgram
  <2> HIDE DEF G
  <2>2. k \in 0..(Len(G) - 1)
    BY <2>1
  <2>3. Left(G, k) \o R # <<>>
    BY <1>2, <2>1, <2>2, GroupNext
  <2> QED
    BY <2>3 DEF G
<1>3. ~AtLevel /\ ~AtFull
  BY <1>2, RestPrograms DEF AtLevel, AtFull
<1>4. ~AtTime
  <2> SUFFICES ASSUME NEW k \in 0..(Len(Retained!storeTime(Now.utc)) - 1)
               PROVE  Left(Retained!storeTime(Now.utc), k) \o Retained!storeDetails(Now) # <<>>
    BY DEF AtTime
  <2> DEFINE T == Retained!storeTime(Now.utc)
             D == Retained!storeDetails(Now)
  <2>1. IsProgram(T) /\ IsProgram(D)
    BY TimeProgram, DetailsProgram
  <2> HIDE DEF T, D
  <2>2. k \in 0..(Len(T) - 1)
    BY DEF T
  <2>3. Left(T, k) \o D # <<>>
    BY <2>1, <2>2, GroupNext
  <2> QED
    BY <2>3 DEF T, D
<1>5. ~AtDetails
  <2> SUFFICES ASSUME NEW k \in 0..5 PROVE Left(Retained!storeDetails(Now), k) # <<>>
    BY DEF AtDetails
  <2> DEFINE D == Retained!storeDetails(Now)
  <2>1. IsProgram(D) /\ Len(D) = 6
    BY DetailsProgram
  <2> HIDE DEF D
  <2>2. k \in 0..(Len(D) - 1)
    BY <2>1
  <2>3. Left(D, k) # <<>>
    BY <2>1, <2>2, AloneNext
  <2> QED
    BY <2>3 DEF D
<1> QED
  BY <1>1, <1>3, <1>4, <1>5 DEF RecordsInv, Progress

\* A counter is valid when it is marked, for a torn one never is.
LEMMA ValidIsMarked ==
    ASSUME RecordsInv
    PROVE  /\ Retained!ahCounterIsValid <=> store.ahMarker = Retained!Set
           /\ store.ahMarker = Retained!Set => store.ahLo \in levels /\ store.ahLo \in Levels
           /\ store.ahMarker # Retained!Set => store.ahMarker = 0
  BY DEF RecordsInv, RecordTypes, CounterSound, Retained!ahCounterIsValid

\* What no store changes.
LEMMA StoreUnchanged ==
    ASSUME store' = store
    PROVE  /\ DetailsSound => DetailsSound'
           /\ RecordTypes => /\ (DOMAIN store = Retained!Registers)'
                             /\ (store = [r \in Retained!Registers |-> store[r]])'
           /\ CounterSound /\ (store.ahMarker = Retained!Set => store.ahLo \in levels') => CounterSound'
  BY DEF DetailsSound, RecordTypes, CounterSound, Retained!ValidTime, Retained!CalibrationTime,
         Retained!Registers, Retained!Set

\* A count begins.
LEMMA CountBegins ==
    ASSUME RecordsInv, NEW level \in Levels, Retained!Count(level) PROVE RecordsInv'
<1>1. /\ program = <<>> /\ program' = Retained!CountInto(level)
      /\ levels' = IF Retained!ahCounterIsValid THEN {store.ahLo, level} ELSE {}
      /\ words' = words /\ reading' = reading /\ store' = store /\ calibrated' = calibrated
      /\ interval' = interval /\ calibrations' = calibrations
      /\ written' = written /\ kept' = kept
  BY Zenon DEF Retained!Count, Retained!Uncounted, Retained!Idle
<1>2. calibrated' = 0
  BY <1>1, IdleIsDone
<1>3. levels' \subseteq Levels
  BY <1>1, ValidIsMarked
<1>4. RecordTypes'
  <2>1. (DOMAIN store = Retained!Registers)' /\ (store = [r \in Retained!Registers |-> store[r]])'
    BY <1>1, StoreUnchanged DEF RecordsInv
  <2>2. /\ calibrations \in 0..MaxCalibrations /\ calibrated \in {0, calibrations}
        /\ DOMAIN written = 1..MaxCalibrations
        /\ written = [n \in 1..MaxCalibrations |-> written[n]]
        /\ interval \in BOOLEAN /\ kept \in BOOLEAN /\ (interval = TRUE => kept = TRUE)
        /\ \/ reading = "idle" /\ words = <<>>
           \/ reading = "details" /\ Len(words) \in 0..6
           \/ reading = "time" /\ Len(words) \in 0..2
    BY Zenon DEF RecordsInv, RecordTypes
  <2> QED
    BY <1>1, <1>3, <2>1, <2>2 DEF RecordTypes
<1>5. IsProgram(words)' /\ ValuesTrue'
  BY <1>1 DEF RecordsInv, ValuesTrue, SumOfCalibration, TimeOfCalibration, IsProgram,
              Retained!socCalibrationDetailsChecksum, Retained!Complete
<1>6. CounterSound' /\ DetailsSound'
  <2>1. store.ahMarker = Retained!Set => store.ahLo \in levels'
    BY <1>1, ValidIsMarked
  <2> QED
    BY <1>1, <2>1, StoreUnchanged DEF RecordsInv
<1>7. Progress'
  <2>1. CASE store.ahMarker = Retained!Set
    <3>1. program' = Retained!setAhCounter(level) /\ level \in levels'
      BY <1>1, <2>1, ValidIsMarked DEF Retained!CountInto
    <3>2. program' = Left(Retained!setAhCounter(level), 0)
      BY <3>1, CounterProgram, LeftEnds DEF IsProgram
    <3>3. program' = Left(Retained!setAhCounter(level)', 0)
      BY <3>2 DEF Retained!setAhCounter
    <3>4. CounterStored(level, 0)'
      BY DEF CounterStored
    <3>5. AtCount'
      BY <3>1, <3>3, <3>4 DEF AtCount
    <3> QED
      BY <1>2, <3>5 DEF Progress
  <2>2. CASE store.ahMarker # Retained!Set
    <3>1. program' = BareStores(level) /\ store'.ahMarker = 0
      BY <1>1, <2>2, ValidIsMarked DEF Retained!CountInto, BareStores
    <3>2. program' = Left(BareStores(level), 0)
      BY <3>1, OtherPrograms, LeftEnds DEF IsProgram
    <3>3. AtBare'
      BY <3>1, <3>2 DEF AtBare
    <3> QED
      BY <1>2, <3>3 DEF Progress
  <2> QED
    BY <2>1, <2>2
<1> QED
  BY <1>4, <1>5, <1>6, <1>7 DEF RecordsInv

\* A reset, and what setup makes of the counter.
LEMMA ResetStep ==
    ASSUME RecordsInv, Retained!Reset PROVE RecordsInv'
<1>1. /\ program' = IF Retained!ahCounterIsValid THEN <<>> ELSE Retained!invalidateAhCounter
      /\ levels' = IF Retained!ahCounterIsValid THEN {store.ahLo} ELSE {}
      /\ calibrated' = 0 /\ interval' = FALSE /\ kept' = FALSE
      /\ words' = <<>> /\ reading' = "idle"
      /\ store' = store /\ calibrations' = calibrations /\ written' = written
  BY Zenon DEF Retained!Reset
<1>2. levels' \subseteq Levels
  BY <1>1, ValidIsMarked
<1>3. RecordTypes'
  <2>1. (DOMAIN store = Retained!Registers)' /\ (store = [r \in Retained!Registers |-> store[r]])'
    BY <1>1, StoreUnchanged DEF RecordsInv
  <2>2. /\ calibrations \in 0..MaxCalibrations
        /\ DOMAIN written = 1..MaxCalibrations
        /\ written = [n \in 1..MaxCalibrations |-> written[n]]
    BY Zenon DEF RecordsInv, RecordTypes
  <2> QED
    BY <1>1, <1>2, <2>1, <2>2 DEF RecordTypes
<1>4. IsProgram(words)' /\ ValuesTrue'
  <2>1. IsProgram(words)'
    <3>1. <<>> \in Seq({})
      OBVIOUS
    <3> QED
      BY <1>1, <3>1 DEF IsProgram
  <2> QED
    BY <1>1, <2>1 DEF RecordsInv, ValuesTrue, SumOfCalibration, TimeOfCalibration,
              Retained!socCalibrationDetailsChecksum, Retained!Complete
<1>5. CounterSound' /\ DetailsSound'
  <2>1. store.ahMarker = Retained!Set => store.ahLo \in levels'
    BY <1>1, ValidIsMarked
  <2> QED
    BY <1>1, <2>1, StoreUnchanged DEF RecordsInv
<1>6. Progress'
  <2>1. CASE store.ahMarker = Retained!Set
    <3>1. program' = <<>>
      BY <1>1, <2>1, ValidIsMarked
    <3> QED
      BY <1>1, <3>1 DEF Progress
  <2>2. CASE store.ahMarker # Retained!Set
    <3>1. program' = Retained!invalidateAhCounter /\ store'.ahMarker = 0
      BY <1>1, <2>2, ValidIsMarked
    <3>2. program' = Left(Retained!invalidateAhCounter, 0)
      BY <3>1, OtherPrograms, LeftEnds DEF IsProgram
    <3>3. AtBare'
      BY <3>1, <3>2 DEF AtBare
    <3> QED
      BY <1>1, <3>3 DEF Progress
  <2> QED
    BY <2>1, <2>2
<1> QED
  BY <1>3, <1>4, <1>5, <1>6 DEF RecordsInv

\* A board that has never run.
LEMMA RecordsInit ==
    ASSUME RecordsAssumption, Retained!Init PROVE RecordsInv
<1>1. /\ store = [r \in Retained!Registers |->
                    IF r \in {"ahSum", "dSoc", "dSum"} THEN <<>> ELSE 0]
      /\ program = Retained!invalidateAhCounter
      /\ calibrated = 0 /\ interval = FALSE
      /\ words = <<>> /\ reading = "idle"
      /\ calibrations = 0 /\ levels = {} /\ kept = FALSE
      /\ written = [n \in 1..MaxCalibrations |-> <<>>]
  BY Zenon DEF Retained!Init
<1>2. /\ store.ahMarker = 0 /\ store.dMarker = 0 /\ store.dSum = <<>> /\ store.time = 0
  BY <1>1 DEF Retained!Registers
<1>3. RecordTypes
  <2>1. DOMAIN store = Retained!Registers /\ store = [r \in Retained!Registers |-> store[r]]
    BY <1>1
  <2>2. /\ DOMAIN written = 1..MaxCalibrations
        /\ written = [n \in 1..MaxCalibrations |-> written[n]]
    BY <1>1
  <2>3. calibrations \in 0..MaxCalibrations
    BY <1>1, RecordsAssumption DEF RecordsAssumption
  <2>4. levels \subseteq Levels
    BY <1>1
  <2> QED
    BY <1>1, <2>1, <2>2, <2>3, <2>4 DEF RecordTypes
<1>4. IsProgram(words)
  <2>1. <<>> \in Seq({})
    OBVIOUS
  <2> QED
    BY <1>1, <2>1 DEF IsProgram
<1>5. CounterSound /\ DetailsSound /\ ValuesTrue
  BY <1>1, <1>2 DEF CounterSound, DetailsSound, ValuesTrue, SumOfCalibration,
                    TimeOfCalibration, Retained!Set
<1>6. Progress
  <2>1. program = Left(Retained!invalidateAhCounter, 0)
    BY <1>1, OtherPrograms, LeftEnds DEF IsProgram
  <2>2. AtBare
    BY <1>2, <2>1 DEF AtBare
  <2> QED
    BY <1>1, <2>2 DEF Progress
<1> QED
  BY <1>3, <1>4, <1>5, <1>6 DEF RecordsInv

\* A calibration begins: the details it will store are written down.
LEMMA CalibrationBegins ==
    ASSUME RecordsAssumption, RecordsInv,
           NEW utc, NEW level \in Levels, Retained!Calibrate(utc, level)
    PROVE  RecordsInv'
<1> DEFINE valid == Retained!ahCounterIsValid
           n == calibrations + 1
           details ==
             [soc |-> IF valid THEN <<level, TRUE>> ELSE <<0, FALSE>>,
              utc |-> utc,
              previous |-> Retained!CalibrationTime(store.time, store.timeMarker, store.timeSum),
              loss |-> n,
              marker |-> IF valid /\ interval THEN Retained!Complete ELSE Retained!Incomplete,
              kept |-> kept]
           X == IF valid THEN Retained!setAhCounter(level) ELSE <<>>
           Fulls == Retained!setAhCounter(Full)
           Times == Retained!storeTime(utc)
           D == Retained!storeDetails(details)
           E == Retained!EndDetails
<1>1. /\ program = <<>> /\ n <= MaxCalibrations
      /\ calibrations' = n /\ calibrated' = n
      /\ program' = E \o X \o Fulls \o Times \o D
      /\ levels' = {Full, level} \cup (IF valid THEN {store.ahLo} ELSE {})
      /\ interval' = (interval /\ valid)
      /\ written' = [written EXCEPT ![n] = details]
      /\ words' = words /\ reading' = reading /\ store' = store /\ kept' = kept
  BY Zenon DEF Retained!Calibrate, Retained!Uncounted, Retained!Idle
<1>2. details.utc = utc /\ details.kept = kept
      /\ details.marker = IF valid /\ interval THEN Retained!Complete ELSE Retained!Incomplete
  OBVIOUS
<1> HIDE DEF details
<1>3. calibrations \in Nat /\ n \in 1..MaxCalibrations /\ n # 0
  BY <1>1, RecordsAssumption DEF RecordsInv, RecordTypes, RecordsAssumption
<1>4. written'[n] = details /\ \A m \in 1..calibrations : written'[m] = written[m]
  <2>1. DOMAIN written = 1..MaxCalibrations
    BY Zenon DEF RecordsInv, RecordTypes
  <2>2. \A m \in 1..calibrations : m \in 1..MaxCalibrations /\ m # n
    BY <1>1, <1>3, RecordsAssumption DEF RecordsAssumption
  <2> HIDE DEF n
  <2> QED
    BY <1>1, <1>3, <2>1, <2>2
<1>5. RecordTypes'
  <2>1. (DOMAIN store = Retained!Registers)' /\ (store = [r \in Retained!Registers |-> store[r]])'
    BY <1>1, StoreUnchanged DEF RecordsInv
  <2>2. /\ DOMAIN written' = 1..MaxCalibrations
        /\ written' = [m \in 1..MaxCalibrations |-> written'[m]]
    BY <1>1 DEF RecordsInv, RecordTypes
  <2>3. levels' \subseteq Levels
    BY <1>1, ValidIsMarked, RecordsAssumption DEF RecordsAssumption
  <2>4. interval' \in BOOLEAN /\ kept' \in BOOLEAN /\ (interval' = TRUE => kept' = TRUE)
    <3>1. interval \in BOOLEAN /\ kept \in BOOLEAN /\ (interval = TRUE => kept = TRUE)
      BY Zenon DEF RecordsInv, RecordTypes
    <3>2. interval' \in BOOLEAN /\ (interval' = TRUE => interval = TRUE)
      BY <1>1, <3>1, Zenon
    <3> QED
      BY <1>1, <3>1, <3>2, Zenon
  <2>5. calibrations' \in 0..MaxCalibrations /\ calibrated' \in {0, calibrations'}
    BY <1>1, <1>3
  <2>6. \/ reading = "idle" /\ words = <<>>
        \/ reading = "details" /\ Len(words) \in 0..6
        \/ reading = "time" /\ Len(words) \in 0..2
    BY Zenon DEF RecordsInv, RecordTypes
  <2> HIDE DEF n
  <2> QED
    BY <1>1, <2>1, <2>2, <2>3, <2>4, <2>5, <2>6 DEF RecordTypes
<1>6. IsProgram(words)' /\ ValuesTrue'
  <2>1. \A m \in 1..calibrations : m \in 1..calibrations' /\ written'[m] = written[m]
    BY <1>1, <1>3, <1>4
  <2>2. \A x : SumOfCalibration(x) => SumOfCalibration(x)'
    BY <2>1 DEF SumOfCalibration, Retained!socCalibrationDetailsChecksum
  <2>3. \A x : TimeOfCalibration(x) => TimeOfCalibration(x)'
    BY <2>1 DEF TimeOfCalibration
  <2>4. ASSUME NEW m \in 1..calibrations', written'[m].marker = Retained!Complete
        PROVE  written'[m].kept = TRUE
    <3>1. CASE m = n
      <4>1. details.marker = Retained!Complete
        BY <1>4, <2>4, <3>1
      <4>2. interval
        <5>1. ~interval => details.marker = Retained!Incomplete
          BY <1>2, Zenon
        <5>2. Retained!Complete # Retained!Incomplete
          BY DEF Retained!Complete, Retained!Incomplete
        <5> QED
          BY <4>1, <5>1, <5>2, Zenon
      <4>3. kept = TRUE
        BY <4>2 DEF RecordsInv, RecordTypes
      <4> QED
        BY <1>2, <1>4, <3>1, <4>3
    <3>2. CASE m # n
      <4>1. m \in 1..calibrations
        BY <1>1, <1>3, <3>2
      <4> QED
        BY <1>4, <2>4, <4>1 DEF RecordsInv, ValuesTrue
    <3> QED
      BY <3>1, <3>2
  <2>5. SumOfCalibration(store.dSum)' /\ TimeOfCalibration(store.time)'
    <3>1. SumOfCalibration(store.dSum) /\ TimeOfCalibration(store.time)
      BY Zenon DEF RecordsInv, ValuesTrue
    <3> DEFINE s == store.dSum
               t == store.time
    <3>2. s' = s /\ t' = t
      BY <1>1
    <3>3. (\E m \in 1..calibrations' : s = Retained!socCalibrationDetailsChecksum(written'[m])) \/ s = <<>>
      BY <3>1, <2>1 DEF SumOfCalibration, Retained!socCalibrationDetailsChecksum
    <3>4. (\E m \in 1..calibrations' : t = written'[m].utc) \/ t = 0
      BY <3>1, <2>1 DEF TimeOfCalibration
    <3> QED
      BY <1>1, <3>3, <3>4 DEF SumOfCalibration, TimeOfCalibration,
                              Retained!socCalibrationDetailsChecksum
  <2>6. (reading = "details" /\ Len(words) >= 5 => SumOfCalibration(words[5]))'
    BY <1>1, <2>1 DEF RecordsInv, ValuesTrue, SumOfCalibration, Retained!socCalibrationDetailsChecksum
  <2>7. (reading = "time" /\ Len(words) >= 1 => TimeOfCalibration(words[1]))'
    BY <1>1, <2>1 DEF RecordsInv, ValuesTrue, TimeOfCalibration
  <2>8. IsProgram(words)'
    BY <1>1 DEF RecordsInv, IsProgram
  <2> QED
    BY <2>4, <2>5, <2>6, <2>7, <2>8 DEF ValuesTrue, Retained!Complete
<1>7. CounterSound' /\ DetailsSound'
  <2>1. store.ahMarker = Retained!Set => store.ahLo \in levels'
    BY <1>1, ValidIsMarked
  <2> QED
    BY <1>1, <2>1, StoreUnchanged DEF RecordsInv
<1>8. Now' = details
  BY <1>1, <1>4 DEF Now
<1>9. /\ TimeThenDetails' = Times \o D /\ FullThenTime' = Fulls \o (Times \o D)
  <2>1. Retained!storeTime(Now.utc)' = Times
    BY <1>2, <1>8 DEF Retained!storeTime
  <2>2. Retained!storeDetails(Now)' = D
    BY <1>8 DEF Retained!storeDetails, Retained!socCalibrationDetailsChecksum
  <2>3. TimeThenDetails' = Times \o D
    BY <2>1, <2>2 DEF TimeThenDetails
  <2> QED
    BY <2>3 DEF FullThenTime, Retained!setAhCounter
<1>10. IsProgram(E) /\ IsProgram(X) /\ IsProgram(Fulls) /\ IsProgram(Times) /\ IsProgram(D)
  <2>1. IsProgram(<<>>)
    <3>1. <<>> \in Seq({})
      OBVIOUS
    <3> QED
      BY <3>1 DEF IsProgram
  <2>2. IsProgram(Fulls) /\ IsProgram(Retained!setAhCounter(level))
    BY CounterProgram
  <2> QED
    BY <2>1, <2>2, OtherPrograms, TimeProgram, DetailsProgram
<1>11. program' = E \o (X \o (Fulls \o (Times \o D)))
  <2> HIDE DEF E, X, Fulls, Times, D
  <2>1. program' = (((E \o X) \o Fulls) \o Times) \o D
    BY <1>1
  <2>2. (((E \o X) \o Fulls) \o Times) \o D = InTurn(E, X, Fulls, Times, D)
    BY <1>10, FiveGroups
  <2> QED
    BY <2>1, <2>2, Zenon DEF InTurn
<1>12. AtEnd'
  <2>1. CASE valid
    <3>1. program' = E \o (Retained!setAhCounter(level) \o FullThenTime')
      BY <1>9, <1>11, <2>1
    <3>2. program' = Retained!EndDetails' \o (Retained!setAhCounter(level)' \o FullThenTime')
      BY <3>1 DEF Retained!setAhCounter, Retained!EndDetails
    <3>3. level \in levels'
      BY <1>1
    <3> QED
      BY <3>2, <3>3 DEF AtEnd
  <2>2. CASE ~valid
    <3>1. <<>> \o FullThenTime' = FullThenTime'
      <4>1. IsProgram(Fulls \o (Times \o D))
        BY <1>10, ProgramConcat
      <4>2. PICK A : Fulls \o (Times \o D) \in Seq(A)
        BY <4>1 DEF IsProgram
      <4> QED
        BY <1>9, <4>2, ConcatEmptySeq
    <3>2. X = <<>>
      BY <2>2
    <3>3. program' = E \o FullThenTime'
      BY <1>9, <1>11, <3>1, <3>2
    <3> QED
      BY <3>3 DEF AtEnd, Retained!EndDetails
  <2> QED
    BY <2>1, <2>2
<1>13. Progress'
  BY <1>1, <1>3, <1>12 DEF Progress
<1> QED
  BY <1>5, <1>6, <1>7, <1>13 DEF RecordsInv

\* A read of the UART task adds a word to those it has.
LEMMA WordsRead ==
    ASSUME NEW v, IsProgram(words), words' = Append(words, v)
    PROVE  /\ IsProgram(words)'
           /\ Len(words') = Len(words) + 1 /\ Len(words) \in Nat
           /\ words'[Len(words) + 1] = v
           /\ \A i \in 1..Len(words) : words'[i] = words[i]
<1>1. PICK S : words \in Seq(S)
  BY DEF IsProgram
<1>2. words \in Seq(S \cup {v}) /\ v \in S \cup {v}
  BY <1>1, SeqMonotonic
<1>3. /\ Append(words, v) \in Seq(S \cup {v}) /\ Len(Append(words, v)) = Len(words) + 1
      /\ \A i \in 1..Len(words) : Append(words, v)[i] = words[i]
      /\ Append(words, v)[Len(words) + 1] = v
  BY <1>2, AppendProperties
<1>4. Len(words) \in Nat
  BY <1>1, LenProperties
<1> QED
  BY <1>3, <1>4 DEF IsProgram

\* What a step of the UART task leaves alone, and so what it leaves true.
LEMMA ReadingKeeps ==
    ASSUME RecordsInv, store' = store, program' = program, calibrated' = calibrated,
           interval' = interval, calibrations' = calibrations, levels' = levels,
           written' = written, kept' = kept
    PROVE  /\ CounterSound' /\ DetailsSound' /\ Progress'
           /\ (DOMAIN store = Retained!Registers)'
           /\ (store = [r \in Retained!Registers |-> store[r]])'
           /\ \A x : (SumOfCalibration(x))' <=> SumOfCalibration(x)
           /\ \A x : (TimeOfCalibration(x))' <=> TimeOfCalibration(x)
<1>1. CounterSound' /\ DetailsSound' /\ (DOMAIN store = Retained!Registers)'
      /\ (store = [r \in Retained!Registers |-> store[r]])'
  BY StoreUnchanged DEF RecordsInv, CounterSound
<1>2. Progress'
  <2>1. /\ AtEnd => AtEnd'
    BY SameCalibration DEF AtEnd, Retained!EndDetails, Retained!setAhCounter
  <2>2. AtLevel => AtLevel'
    BY SameCalibration DEF AtLevel, Retained!setAhCounter, CounterStored, Left
  <2>3. AtFull => AtFull'
    BY SameCalibration DEF AtFull, Retained!setAhCounter, CounterStored, Left
  <2>4. AtTime => AtTime'
    <3> DEFINE T == Retained!storeTime(Now.utc)
               D == Retained!storeDetails(Now)
    <3>1. T' = T /\ D' = D /\ Now' = Now
      BY SameCalibration
    <3>2. ASSUME NEW k PROVE TimeStored(k) => TimeStored(k)'
      BY <3>1 DEF TimeStored
    <3> HIDE DEF T, D
    <3>3. \A k : Left(T, k)' = Left(T, k)
      BY <3>1 DEF Left
    <3> QED
      BY <3>1, <3>2, <3>3 DEF AtTime, T, D
  <2>5. AtDetails => AtDetails'
    <3> DEFINE D == Retained!storeDetails(Now)
    <3>1. D' = D /\ Now' = Now
      BY SameCalibration
    <3> HIDE DEF D
    <3>2. \A k : Left(D, k)' = Left(D, k)
      BY <3>1 DEF Left
    <3> QED
      BY <3>1, <3>2 DEF AtDetails, D, Retained!ValidTime, Retained!CalibrationTime
  <2>6. AtCount => AtCount'
    BY DEF AtCount, Retained!setAhCounter, CounterStored, Left
  <2>7. AtBare => AtBare'
    BY DEF AtBare, BareStores, Retained!invalidateAhCounter, Left
  <2> QED
    BY <2>1, <2>2, <2>3, <2>4, <2>5, <2>6, <2>7 DEF RecordsInv, Progress
<1>3. \A x : (SumOfCalibration(x))' <=> SumOfCalibration(x)
  BY DEF SumOfCalibration, Retained!socCalibrationDetailsChecksum
<1>4. \A x : (TimeOfCalibration(x))' <=> TimeOfCalibration(x)
  BY DEF TimeOfCalibration
<1> QED
  BY <1>1, <1>2, <1>3, <1>4

\* The registers the UART task reads, in their order.
LEMMA ReadOrder ==
    /\ Len(Retained!Order["details"]) = 7 /\ Len(Retained!Order["time"]) = 3
    /\ Retained!Order["details"][5] = "dSum" /\ Retained!Order["details"][7] = "dMarker"
    /\ Retained!Order["time"][1] = "time"
    /\ DOMAIN Retained!Order = {"details", "time", "idle"}
<1>1. /\ Retained!Order["details"] =
           <<"dMarker", "dSoc", "dUtc", "dPrevious", "dSum", "dLoss", "dMarker">>
      /\ Retained!Order["time"] = <<"time", "timeMarker", "timeSum">>
      /\ DOMAIN Retained!Order = {"details", "time", "idle"}
  BY DEF Retained!Order
<1>2. \A a, b, c, d, e, f, g :
        /\ Len(<<a, b, c, d, e, f, g>>) = 7
        /\ <<a, b, c, d, e, f, g>>[5] = e /\ <<a, b, c, d, e, f, g>>[7] = g
  OBVIOUS
<1>3. \A a, b, c : Len(<<a, b, c>>) = 3 /\ <<a, b, c>>[1] = a
  OBVIOUS
<1> QED
  BY ONLY <1>1, <1>2, <1>3

\* How far the UART task has read.
LEMMA ReadingAt ==
    ASSUME RecordsInv
    PROVE  \/ reading = "idle" /\ words = <<>>
           \/ /\ reading = "details" /\ Len(words) \in 0..6
              /\ Retained!Whole <=> Len(words) = 6
           \/ /\ reading = "time" /\ Len(words) \in 0..2
              /\ Retained!Whole <=> Len(words) = 2
<1>1. \/ reading = "idle" /\ words = <<>>
      \/ reading = "details" /\ Len(words) \in 0..6
      \/ reading = "time" /\ Len(words) \in 0..2
  BY Zenon DEF RecordsInv, RecordTypes
<1>2. CASE reading = "details" /\ Len(words) \in 0..6
  <2>1. Retained!Whole <=> Len(words) + 1 = 7
    BY <1>2, ReadOrder DEF Retained!Whole
  <2>2. ASSUME NEW l \in 0..6 PROVE l + 1 = 7 <=> l = 6
    OBVIOUS
  <2>3. Len(words) + 1 = 7 <=> Len(words) = 6
    BY <1>2, <2>2
  <2> QED
    BY <1>2, <2>1, <2>3, Zenon
<1>3. CASE reading = "time" /\ Len(words) \in 0..2
  <2>1. Retained!Whole <=> Len(words) + 1 = 3
    BY <1>3, ReadOrder DEF Retained!Whole
  <2>2. ASSUME NEW l \in 0..2 PROVE l + 1 = 3 <=> l = 2
    OBVIOUS
  <2>3. Len(words) + 1 = 3 <=> Len(words) = 2
    BY <1>3, <2>2
  <2> QED
    BY <1>3, <2>1, <2>3, Zenon
<1> QED
  BY <1>1, <1>2, <1>3

\* The UART task starts to read.
LEMMA ReadingStarts ==
    ASSUME RecordsInv, NEW rec \in {"details", "time"}, Retained!StartReading(rec)
    PROVE  RecordsInv'
<1>1. /\ reading' = rec /\ words' = <<>>
      /\ store' = store /\ program' = program /\ calibrated' = calibrated
      /\ interval' = interval /\ calibrations' = calibrations /\ levels' = levels
      /\ written' = written /\ kept' = kept
  BY Zenon DEF Retained!StartReading
<1>2. /\ CounterSound' /\ DetailsSound' /\ Progress'
      /\ (DOMAIN store = Retained!Registers)'
      /\ (store = [r \in Retained!Registers |-> store[r]])'
  BY <1>1, ReadingKeeps
<1>3. words' \in Seq({}) /\ Len(words') = 0
  BY <1>1
<1>4. RecordTypes'
  <2>1. /\ calibrations \in 0..MaxCalibrations /\ calibrated \in {0, calibrations}
        /\ DOMAIN written = 1..MaxCalibrations
        /\ written = [n \in 1..MaxCalibrations |-> written[n]]
        /\ interval \in BOOLEAN /\ kept \in BOOLEAN /\ (interval = TRUE => kept = TRUE)
        /\ levels \subseteq Levels
    BY Zenon DEF RecordsInv, RecordTypes
  <2> QED
    BY <1>1, <1>2, <1>3, <2>1 DEF RecordTypes
<1>5. ValuesTrue'
  <2>1. /\ SumOfCalibration(store.dSum) /\ TimeOfCalibration(store.time)
        /\ \A n \in 1..calibrations :
             written[n].marker = Retained!Complete => written[n].kept = TRUE
    BY Zenon DEF RecordsInv, ValuesTrue
  <2>2. SumOfCalibration(store.dSum)' /\ TimeOfCalibration(store.time)'
    BY <1>1, <2>1 DEF SumOfCalibration, TimeOfCalibration, Retained!socCalibrationDetailsChecksum
  <2> QED
    BY <1>1, <1>3, <2>1, <2>2 DEF ValuesTrue, Retained!Complete
<1> QED
  BY <1>2, <1>3, <1>4, <1>5 DEF RecordsInv, IsProgram

\* It reads the next register, or has read them all.
LEMMA RegisterReads ==
    ASSUME RecordsInv, Retained!ReadNext PROVE RecordsInv'
<1>1. /\ reading # "idle"
      /\ words' = IF Retained!Whole THEN <<>> ELSE Retained!Read
      /\ reading' = IF Retained!Whole THEN "idle" ELSE reading
      /\ store' = store /\ program' = program /\ calibrated' = calibrated
      /\ interval' = interval /\ calibrations' = calibrations /\ levels' = levels
      /\ written' = written /\ kept' = kept
  BY Zenon DEF Retained!ReadNext
<1>2. /\ CounterSound' /\ DetailsSound' /\ Progress'
      /\ (DOMAIN store = Retained!Registers)'
      /\ (store = [r \in Retained!Registers |-> store[r]])'
  BY <1>1, ReadingKeeps
<1>3. /\ calibrations \in 0..MaxCalibrations /\ calibrated \in {0, calibrations}
      /\ DOMAIN written = 1..MaxCalibrations
      /\ written = [n \in 1..MaxCalibrations |-> written[n]]
      /\ interval \in BOOLEAN /\ kept \in BOOLEAN /\ (interval = TRUE => kept = TRUE)
      /\ levels \subseteq Levels
  BY Zenon DEF RecordsInv, RecordTypes
<1>4. /\ SumOfCalibration(store.dSum) /\ TimeOfCalibration(store.time)
      /\ \A n \in 1..calibrations :
           written[n].marker = Retained!Complete => written[n].kept = TRUE
  BY Zenon DEF RecordsInv, ValuesTrue
<1>5. SumOfCalibration(store.dSum)' /\ TimeOfCalibration(store.time)'
  BY <1>1, <1>4 DEF SumOfCalibration, TimeOfCalibration, Retained!socCalibrationDetailsChecksum
<1>6. CASE Retained!Whole
  <2>1. words' \in Seq({}) /\ Len(words') = 0 /\ words' = <<>> /\ reading' = "idle"
    BY <1>1, <1>6
  <2>2. RecordTypes'
    BY <1>1, <1>2, <1>3, <2>1 DEF RecordTypes
  <2>3. ValuesTrue'
    BY <1>1, <1>4, <1>5, <2>1 DEF ValuesTrue, Retained!Complete
  <2> QED
    BY <1>2, <2>1, <2>2, <2>3 DEF RecordsInv, IsProgram
<1>7. CASE ~Retained!Whole
  <2> DEFINE v == store[Retained!Order[reading][Len(words) + 1]]
  <2>1. words' = Append(words, v) /\ reading' = reading
    BY <1>1, <1>7 DEF Retained!Read
  <2>2. v = store[Retained!Order[reading][Len(words) + 1]]
    OBVIOUS
  <2> HIDE DEF v
  <2>3. /\ IsProgram(words)'
        /\ Len(words') = Len(words) + 1 /\ Len(words) \in Nat
        /\ words'[Len(words) + 1] = v
        /\ \A i \in 1..Len(words) : words'[i] = words[i]
    BY <2>1, WordsRead DEF RecordsInv
  <2>4. \/ reading = "details" /\ Len(words) \in 0..5
        \/ reading = "time" /\ Len(words) \in 0..1
    BY <1>1, <1>7, ReadingAt
  <2>5. RecordTypes'
    <3>1. \/ reading' = "details" /\ Len(words') \in 0..6
          \/ reading' = "time" /\ Len(words') \in 0..2
      <4>1. ASSUME NEW l \in 0..5 PROVE l + 1 \in 0..6
        OBVIOUS
      <4>2. ASSUME NEW l \in 0..1 PROVE l + 1 \in 0..2
        OBVIOUS
      <4> QED
        BY <2>1, <2>3, <2>4, <4>1, <4>2, Zenon
    <3> QED
      BY <1>1, <1>2, <1>3, <3>1 DEF RecordTypes
  <2>6. (reading = "details" /\ Len(words) >= 5 => SumOfCalibration(words[5]))'
    <3>1. CASE reading = "details" /\ Len(words) = 4
      <4>1. words'[5] = store.dSum
        BY <2>2, <2>3, <3>1, ReadOrder
      <4>2. SumOfCalibration(words'[5])
        BY <1>4, <4>1
      <4> QED
        BY <1>1, <4>2 DEF SumOfCalibration, Retained!socCalibrationDetailsChecksum
    <3>2. CASE reading = "details" /\ Len(words) = 5
      <4>1. words'[5] = words[5]
        BY <2>3, <3>2
      <4>2. SumOfCalibration(words'[5])
        BY <3>2, <4>1 DEF RecordsInv, ValuesTrue
      <4> QED
        BY <1>1, <4>2 DEF SumOfCalibration, Retained!socCalibrationDetailsChecksum
    <3> QED
      <4>1. reading' = "details" /\ Len(words') >= 5 =>
              reading = "details" /\ (Len(words) = 4 \/ Len(words) = 5)
        <5>1. ASSUME NEW l \in 0..5, l + 1 >= 5 PROVE l = 4 \/ l = 5
          BY <5>1
        <5>2. "time" # "details"
          OBVIOUS
        <5> QED
          BY <2>1, <2>3, <2>4, <5>1, <5>2, Zenon
      <4> QED
        BY <3>1, <3>2, <4>1, Zenon
  <2>7. (reading = "time" /\ Len(words) >= 1 => TimeOfCalibration(words[1]))'
    <3>1. CASE reading = "time" /\ Len(words) = 0
      <4>1. words'[1] = store.time
        BY <2>2, <2>3, <3>1, ReadOrder
      <4>2. TimeOfCalibration(words'[1])
        BY <1>4, <4>1
      <4> QED
        BY <1>1, <4>2 DEF TimeOfCalibration
    <3>2. CASE reading = "time" /\ Len(words) = 1
      <4>1. words'[1] = words[1]
        BY <2>3, <3>2
      <4>2. TimeOfCalibration(words'[1])
        BY <3>2, <4>1 DEF RecordsInv, ValuesTrue
      <4> QED
        BY <1>1, <4>2 DEF TimeOfCalibration
    <3> QED
      BY <2>1, <2>3, <2>4, <3>1, <3>2
  <2>8. ValuesTrue'
    BY <1>1, <1>4, <1>5, <2>6, <2>7 DEF ValuesTrue, Retained!Complete
  <2> QED
    BY <1>2, <2>3, <2>5, <2>8 DEF RecordsInv
<1> QED
  BY <1>6, <1>7

\* The records' own invariant is inductive.
LEMMA RecordsStep ==
    ASSUME RecordsAssumption, RecordsInv, [Retained!Next]_recordVars PROVE RecordsInv'
<1>1. CASE Retained!Next
  <2>1. ASSUME NEW level \in Levels, Retained!Count(level) PROVE RecordsInv'
    BY <2>1, CountBegins
  <2>2. ASSUME NEW utc \in 0..MaxCalibrations, NEW level \in Levels,
               Retained!Calibrate(utc, level)
        PROVE  RecordsInv'
    BY <2>2, CalibrationBegins
  <2>3. ASSUME NEW rec \in {"details", "time"}, Retained!StartReading(rec)
        PROVE  RecordsInv'
    BY <2>3, ReadingStarts
  <2> QED
    BY <1>1, <2>1, <2>2, <2>3, StoreStep, ResetStep, RegisterReads, Zenon DEF Retained!Next
<1>2. CASE UNCHANGED recordVars
  <2>1. /\ store' = store /\ program' = program /\ calibrated' = calibrated
        /\ interval' = interval /\ calibrations' = calibrations /\ levels' = levels
        /\ written' = written /\ kept' = kept /\ words' = words /\ reading' = reading
    BY <1>2 DEF recordVars
  <2>2. /\ CounterSound' /\ DetailsSound' /\ Progress'
        /\ (DOMAIN store = Retained!Registers)'
        /\ (store = [r \in Retained!Registers |-> store[r]])'
    BY <2>1, ReadingKeeps
  <2>3. RecordTypes' /\ IsProgram(words)'
    <3>1. IsProgram(words)'
      BY <2>1 DEF RecordsInv, IsProgram
    <3>2. /\ calibrations \in 0..MaxCalibrations /\ calibrated \in {0, calibrations}
          /\ DOMAIN written = 1..MaxCalibrations
          /\ written = [n \in 1..MaxCalibrations |-> written[n]]
          /\ interval \in BOOLEAN /\ kept \in BOOLEAN /\ (interval = TRUE => kept = TRUE)
          /\ levels \subseteq Levels
          /\ \/ reading = "idle" /\ words = <<>>
             \/ reading = "details" /\ Len(words) \in 0..6
             \/ reading = "time" /\ Len(words) \in 0..2
      BY Zenon DEF RecordsInv, RecordTypes
    <3> QED
      BY <2>1, <2>2, <3>1, <3>2 DEF RecordTypes
  <2>4. ValuesTrue'
    BY <2>1 DEF RecordsInv, ValuesTrue, SumOfCalibration, TimeOfCalibration,
                Retained!socCalibrationDetailsChecksum, Retained!Complete
  <2> QED
    BY <2>2, <2>3, <2>4 DEF RecordsInv
<1> QED
  BY <1>1, <1>2

\* Where the invariant holds, the records tell the truth: a mixed record never
\* has the checksum of a calibration.
LEMMA RecordsAreTrue ==
    ASSUME RecordsInv
    PROVE  /\ Retained!TypeOK /\ Retained!CounterIsTrusted
           /\ Retained!DetailsMatchTime /\ Retained!ReportedTookPlace
<1>1. Retained!TypeOK
  <2>1. /\ DOMAIN store = Retained!Registers
        /\ calibrations \in 0..MaxCalibrations /\ calibrated \in {0, calibrations}
        /\ interval \in BOOLEAN /\ kept \in BOOLEAN /\ levels \subseteq Levels
    BY Zenon DEF RecordsInv, RecordTypes
  <2>2. calibrated \in 0..calibrations
    BY <2>1
  <2>3. reading \in {"details", "time", "idle"} /\ Len(words) < 7
    <3>1. CASE reading = "idle" /\ words = <<>>
      <4>1. Len(words) = 0
        BY <3>1
      <4> QED
        BY <3>1, <4>1
    <3>2. CASE reading = "details" /\ Len(words) \in 0..6
      <4>1. \A l \in 0..6 : l < 7
        OBVIOUS
      <4> QED
        BY <3>2, <4>1, Zenon
    <3>3. CASE reading = "time" /\ Len(words) \in 0..2
      BY <3>3
    <3>4. \/ reading = "idle" /\ words = <<>>
          \/ reading = "details" /\ Len(words) \in 0..6
          \/ reading = "time" /\ Len(words) \in 0..2
      BY Zenon DEF RecordsInv, RecordTypes
    <3> QED
      BY ONLY <3>1, <3>2, <3>3, <3>4
  <2> QED
    BY <2>1, <2>2, <2>3, ReadOrder, Zenon DEF Retained!TypeOK
<1>2. Retained!CounterIsTrusted
  BY ValidIsMarked DEF RecordsInv, CounterSound, Retained!CounterIsTrusted
<1>3. Retained!DetailsMatchTime
  <2>1. SUFFICES ASSUME Retained!DetailsHold(Retained!StoredDetails)
                 PROVE  Retained!ValidTime = 0 \/ Retained!ValidTime = store.dUtc
    BY DEF Retained!DetailsMatchTime
  <2>2. Retained!StoredDetails[7] = store.dMarker
    BY ReadOrder DEF Retained!StoredDetails
  <2>3. store.dMarker # 0
    BY <2>1, <2>2 DEF Retained!DetailsHold
  <2> QED
    BY <2>3 DEF RecordsInv, DetailsSound
<1>4. Retained!ReportedTookPlace
  <2> SUFFICES ASSUME Retained!Whole, NEW r \in Retained!Answer(Retained!Read)
               PROVE  IF "time" \in DOMAIN r
                      THEN \E n \in 1..calibrations : written[n].utc = r.time
                      ELSE \E n \in 1..calibrations :
                             /\ \A f \in DOMAIN r : written[n][f] = r[f]
                             /\ r.marker = Retained!Complete => written[n].kept
    BY DEF Retained!ReportedTookPlace
  <2> DEFINE read == Retained!Read
  <2>1. PICK v : read = Append(words, v)
    BY DEF Retained!Read
  <2>2. /\ Len(words) \in Nat /\ \A i \in 1..Len(words) : read[i] = words[i]
    <3>1. PICK S : words \in Seq(S)
      BY DEF RecordsInv, IsProgram
    <3>2. words \in Seq(S \cup {v}) /\ v \in S \cup {v}
      BY <3>1, SeqMonotonic
    <3> HIDE DEF read
    <3> QED
      BY <2>1, <3>1, <3>2, AppendProperties, LenProperties
  <2>3. r \in Retained!Answer(read)
    OBVIOUS
  <2> HIDE DEF read
  <2>4. CASE reading = "time"
    <3>1. Len(words) = 2
      BY <2>4, ReadingAt
    <3>2. PICK t : r = [time |-> t] /\ t = Retained!CalibrationTime(read[1], read[2], read[3]) /\ t # 0
      BY <2>3, <2>4 DEF Retained!Answer
    <3>3. r.time = read[1] /\ r.time # 0 /\ "time" \in DOMAIN r
      BY <3>2 DEF Retained!CalibrationTime
    <3>4. read[1] = words[1]
      BY <2>2, <3>1
    <3>5. TimeOfCalibration(words[1])
      BY <2>4, <3>1 DEF RecordsInv, ValuesTrue
    <3>6. \E n \in 1..calibrations : written[n].utc = r.time
      BY <3>3, <3>4, <3>5 DEF TimeOfCalibration
    <3> QED
      BY <3>3, <3>6
  <2>5. CASE reading # "time"
    <3>1. reading = "details" /\ Len(words) = 6
      <4>1. reading # "idle"
        BY DEF Retained!Whole
      <4> QED
        BY <2>5, <4>1, ReadingAt
    <3>2. /\ Retained!DetailsHold(read)
          /\ r = [soc |-> read[2], utc |-> read[3], previous |-> read[4],
                  loss |-> read[6], marker |-> read[1]]
      BY <2>3, <3>1, Zenon DEF Retained!Answer
    <3>3. read[5] = <<read[2], read[3], read[4], read[6], read[1]>>
      BY <3>2 DEF Retained!DetailsHold
    <3>4. SumOfCalibration(read[5])
      BY <2>2, <3>1 DEF RecordsInv, ValuesTrue
    <3>5. read[5] # <<>>
      BY <3>3
    <3>6. PICK n \in 1..calibrations :
            read[5] = Retained!socCalibrationDetailsChecksum(written[n])
      BY <3>4, <3>5 DEF SumOfCalibration
    <3>7. /\ written[n].soc = read[2] /\ written[n].utc = read[3]
          /\ written[n].previous = read[4] /\ written[n].loss = read[6]
          /\ written[n].marker = read[1]
      <4>1. <<written[n].soc, written[n].utc, written[n].previous, written[n].loss,
              written[n].marker>> = <<read[2], read[3], read[4], read[6], read[1]>>
        BY <3>3, <3>6 DEF Retained!socCalibrationDetailsChecksum
      <4> QED
        BY ONLY <4>1
    <3>8. DOMAIN r = {"soc", "utc", "previous", "loss", "marker"} /\ r.marker = read[1]
      BY <3>2
    <3>9. \A f \in DOMAIN r : written[n][f] = r[f]
      BY <3>2, <3>7, <3>8
    <3>10. r.marker = Retained!Complete => written[n].kept
      <4>1. r.marker = Retained!Complete => written[n].kept = TRUE
        BY <3>7, <3>8 DEF RecordsInv, ValuesTrue
      <4> QED
        BY <4>1, Zenon
    <3>11. "time" \notin DOMAIN r
      BY <3>8
    <3> QED
      BY <3>9, <3>10, <3>11
  <2> QED
    BY <2>4, <2>5
<1> QED
  BY <1>1, <1>2, <1>3, <1>4

-----------------------------------------------------------------------------
\* The four parts side by side.

AllInv ==
    /\ explored \in {"configuration", "records", "energy", "coulomb"}
    /\ StoreInv /\ RecordsInv /\ EnergyInv /\ CoulombInv

\* A behaviour of the four is one of each, the others at rest.
LEMMA PartsInit == AllInit => Init /\ Retained!Init /\ Energy!Init /\ Coulomb!Init
  BY DEF AllInit

\* So is every step.
LEMMA PartsStep ==
    [AllNext]_allVars =>
      [Next]_vars /\ [Retained!Next]_recordVars /\ [Energy!Next]_energyVars
        /\ [Coulomb!Next]_coulombVars
  BY Zenon DEF AllNext, allVars

\* The configuration store as it runs beside the rest is the store proved above.
THEOREM StoreRunsInRetained == AllSpec => Spec
  BY PartsInit, PartsStep, PTL DEF AllSpec, Spec

\* Every step of the configuration store, as a step of its inductive invariant.
LEMMA StoreInvStep == StoreInv /\ [Next]_vars => StoreInv'
<1> SUFFICES ASSUME StoreInv, [Next]_vars PROVE StoreInv'
  OBVIOUS
<1>1. TypeOK'
  BY TypeStep DEF StoreInv, ReplyIsTrue
<1> QED
  BY <1>1, ReceiveStep, HandlerStep, EraseStep, ProgramStep, VerifyStep,
    ReplyStep, BootStep, StutterStep DEF Next

\* The invariants of the four parts hold together.
THEOREM RetainedInductive == AllSpec => []AllInv
<1>1. AllInit => AllInv
  <2> SUFFICES ASSUME AllInit PROVE AllInv
    OBVIOUS
  <2>1. explored \in {"configuration", "records", "energy", "coulomb"}
    BY DEF AllInit
  <2>2. StoreInv /\ EnergyInv /\ CoulombInv
    BY PartsInit, StoreInvInit, EnergyInit, CoulombInit
  <2>3. RecordsInv
    BY PartsInit, RecordsInit, RecordsAssumption
  <2> QED
    BY <2>1, <2>2, <2>3 DEF AllInv
<1>2. AllInv /\ [AllNext]_allVars => AllInv'
  <2> SUFFICES ASSUME AllInv, [AllNext]_allVars PROVE AllInv'
    OBVIOUS
  <2>1. explored' = explored
    BY DEF AllNext, allVars
  <2>2. /\ [Next]_vars /\ [Retained!Next]_recordVars
        /\ [Energy!Next]_energyVars /\ [Coulomb!Next]_coulombVars
    BY PartsStep
  <2>3. StoreInv'
    BY <2>2, StoreInvStep DEF AllInv
  <2>4. RecordsInv'
    BY <2>2, RecordsStep, RecordsAssumption DEF AllInv
  <2>5. EnergyInv' /\ CoulombInv'
    BY <2>2, EnergyStep, CoulombStep DEF AllInv
  <2> QED
    BY <2>1, <2>3, <2>4, <2>5 DEF AllInv
<1> QED
  BY <1>1, <1>2, PTL DEF AllSpec

\* The variables of the four parts keep their types.
THEOREM RetainedTypeCorrect == AllSpec => []AllTypeOK
<1>1. AllInv => AllTypeOK
  <2> SUFFICES ASSUME AllInv PROVE AllTypeOK
    OBVIOUS
  <2>1. TypeOK /\ Retained!TypeOK /\ Energy!TypeOK /\ Coulomb!TypeOK
    BY RecordsAreTrue DEF AllInv, StoreInv, EnergyInv, CoulombInv
  <2>2. explored \in {"configuration", "records", "energy", "coulomb"}
    BY DEF AllInv
  <2> QED
    BY <2>1, <2>2 DEF AllTypeOK
<1> QED
  BY <1>1, RetainedInductive, PTL

\* After a reset between any two stores, a charge counter that is valid goes back to
\* a calibration, the details and the time are of one calibration, and what the UART
\* task reads, register by register, took place.
THEOREM RecordsTrue == AllSpec => []RecordsTellTheTruth
<1>1. AllInv => RecordsTellTheTruth
  BY RecordsAreTrue DEF AllInv, RecordsTellTheTruth
<1> QED
  BY <1>1, RetainedInductive, PTL

\* Charge is counted once and whole, energy exactly, for every size of the registers
\* and every product and interval.
THEOREM Counted == AllSpec => CountedOnce
<1>1. AllInv /\ [AllNext]_allVars =>
        [/\ explored = "coulomb" => Coulomb!CountedIsWhatFlowed
         /\ explored = "energy" => Energy!EnergyIsExact /\ Energy!CountersSurvive]_allVars
  <2> SUFFICES ASSUME AllInv
               PROVE  /\ Coulomb!CountedIsWhatFlowed
                      /\ Energy!EnergyIsExact /\ Energy!CountersSurvive
    BY Zenon
  <2>1. Coulomb!CountedIsWhatFlowed
    BY ReadingStep DEF AllInv, Coulomb!CountedIsWhatFlowed
  <2>2. Energy!EnergyIsExact
    BY UpdateStep DEF AllInv, Energy!EnergyIsExact
  <2>3. Energy!CountersSurvive
    BY SetupStep DEF AllInv, Energy!CountersSurvive
  <2> QED
    BY <2>1, <2>2, <2>3
<1> QED
  BY <1>1, RetainedInductive, PTL DEF AllSpec, CountedOnce

=============================================================================
