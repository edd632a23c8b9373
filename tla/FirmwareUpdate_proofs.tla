----------------------- MODULE FirmwareUpdate_proofs -----------------------
(***************************************************************************)
(* Proofs about FirmwareUpdate for all images, sizes and line capacities:  *)
(* the UART is always given back, a broken STM32 image is remembered, and  *)
(* completion is reported only for an image that is installed.             *)
(*                                                                         *)
(* The argument is about one hand-off: of PREPARE, its answer and COMMIT   *)
(* at most one is under way, so the STM32 enters its loader at most once   *)
(* per installation, and what it said as an application before has been    *)
(* thrown away when its flash is erased.                                   *)
(***************************************************************************)
EXTENDS FirmwareUpdate, TLAPS

Carries(line, frame)   == \E k \in 1..Len(line) : line[k] = frame
AtMostOne(line, frame) ==
    \A j, k \in 1..Len(line) : line[j] = frame /\ line[k] = frame => j = k

\* Operations of the loader, and those that follow a loader that answered.
RomOperation    == {"RomBootloader", "Erase", "Program", "Verify", "StartApplication"}
LoaderAnswered  == {"Erase", "Program", "Verify", "StartApplication", "AwaitHeartbeat"}
ProgramsOrLater == {"Program", "Verify", "StartApplication", "AwaitHeartbeat"}

\* The frames the main loop still has to handle are at the front of the line.
FramesAreRead ==
    /\ at # "Frames" => frames = 0
    /\ frames <= Len(toGw)

\* An STM32 upload and its installation have an image.
ImageIsKnown ==
    target = "Stm32" /\ phase \in {"Uploading", "Installing"} => declared \in Images

\* The stages of an installation, and what belongs to each.
StagesInOrder ==
    /\ uartOwned \/ romStarted \/ awaitingHeartbeat \/ operation # "Idle" =>
          Installing /\ handoffSent
    /\ romStarted => uartOwned /\ operation = "Idle"
    /\ operation \in RomOperation => uartOwned
    /\ awaitingHeartbeat => operation = "AwaitHeartbeat"

\* Of PREPARE, an acceptance and COMMIT at most one is under way, and which of them it may
\* be is known.
OneHandoff ==
    Installing =>
        /\ ~handoffSent => toStm = <<>> /\ ~Carries(toGw, "OK")
        /\ toStm # <<>> => Len(toStm) = 1 /\ ~Carries(toGw, "OK")
        /\ AtMostOne(toGw, "OK")
        /\ uartOwned \/ operation # "Idle" =>
              ~Carries(toStm, "PREPARE") /\ ~Carries(toGw, "OK")
        /\ stm = "Rom" => ~Carries(toStm, "COMMIT") /\ ~Carries(toGw, "OK")
        /\ operation \in LoaderAnswered => toStm = <<>>

\* An application that runs, or has been heard, is in flash.
AppIsBootable ==
    /\ stm = "App" => Bootable(flash)
    /\ Carries(toGw, "HEARTBEAT") => Bootable(flash)

\* A loader that erases or programs has been heard since the last heartbeat, and a
\* programmed flash is one that was erased with the memory of it.
LoaderIsAlone ==
    stm = "Rom" /\ operation \in LoaderAnswered =>
        /\ ~Carries(toGw, "HEARTBEAT")
        /\ operation \in ProgramsOrLater => eraseMayHaveStarted

\* What has been read back, and what is therefore in flash.
VerifiedIsInFlash ==
    /\ operation = "Verify" /\ readbackClean =>
          \A b \in Block : b <= offset => flash[b] = declared
    /\ operation \in {"StartApplication", "AwaitHeartbeat"} => Holds(flash, declared)

UpdateInv ==
    /\ TypeOK
    /\ FramesAreRead
    /\ ImageIsKnown
    /\ StagesInOrder
    /\ OneHandoff
    /\ AppIsBootable
    /\ LoaderIsAlone
    /\ VerifiedIsInFlash
    /\ BrokenImageIsRemembered

-----------------------------------------------------------------------------
(* Lines and flash *)

Commands == {"PREPARE", "COMMIT"}
Answers  == {"OK", "REFUSED", "COMMIT_DENIED", "HEARTBEAT"}

\* What is taken off the front of a line, or cut off it, carries nothing new.
LEMMA TailCarries ==
    ASSUME NEW S, NEW line \in Seq(S), line # <<>>
    PROVE  /\ Tail(line) \in Seq(S) /\ Len(Tail(line)) = Len(line) - 1
           /\ \A f : Carries(Tail(line), f) => Carries(line, f)
           /\ \A f : AtMostOne(line, f) => AtMostOne(Tail(line), f)
           /\ Carries(line, Head(line))
           /\ \A f : AtMostOne(line, f) /\ Head(line) = f => ~Carries(Tail(line), f)
<1>1. /\ Tail(line) \in Seq(S) /\ Len(Tail(line)) = Len(line) - 1
      /\ Len(line) \in Nat /\ Len(line) > 0 /\ Head(line) = line[1]
      /\ \A k \in 1..Len(line) - 1 : Tail(line)[k] = line[k + 1]
  OBVIOUS
<1> QED  BY <1>1 DEF Carries, AtMostOne

\* A line that loses its end carries no frame it did not carry.
LEMMA CutCarries ==
    ASSUME NEW S, NEW line \in Seq(S), NEW k \in 0..Len(line)
    PROVE  /\ SubSeq(line, 1, k) \in Seq(S) /\ Len(SubSeq(line, 1, k)) = k
           /\ \A f : Carries(SubSeq(line, 1, k), f) => Carries(line, f)
           /\ \A f : AtMostOne(line, f) => AtMostOne(SubSeq(line, 1, k), f)
<1>1. /\ SubSeq(line, 1, k) \in Seq(S) /\ Len(SubSeq(line, 1, k)) = k
      /\ \A j \in 1..k : SubSeq(line, 1, k)[j] = line[j]
  OBVIOUS
<1> QED  BY <1>1 DEF Carries, AtMostOne

\* A line that gains a frame carries that one and what it carried.
LEMMA AppendCarries ==
    ASSUME NEW S, NEW line \in Seq(S), NEW g \in S
    PROVE  /\ Append(line, g) \in Seq(S) /\ Len(Append(line, g)) = Len(line) + 1
           /\ \A f : Carries(Append(line, g), f) => Carries(line, f) \/ f = g
           /\ \A f : AtMostOne(line, f) /\ (f = g => ~Carries(line, f))
                       => AtMostOne(Append(line, g), f)
<1>1. /\ Append(line, g) \in Seq(S) /\ Len(Append(line, g)) = Len(line) + 1
      /\ Len(line) \in Nat
      /\ \A j \in 1..Len(line) + 1 :
            Append(line, g)[j] = IF j = Len(line) + 1 THEN g ELSE line[j]
  OBVIOUS
<1> QED  BY <1>1 DEF Carries, AtMostOne

\* An empty line carries nothing.
LEMMA NothingCarried ==
    /\ \A f : ~Carries(<<>>, f) /\ AtMostOne(<<>>, f)
    /\ \A S : <<>> \in Seq(S)
  BY DEF Carries, AtMostOne

\* A frame that is sent arrives behind the others, or not at all.
LEMMA PutFacts ==
    ASSUME NEW S, NEW line \in Seq(S), NEW g \in S, NEW after \in Put(line, g),
           Len(line) <= LineCap
    PROVE  /\ after \in Seq(S) /\ Len(after) <= LineCap
           /\ Len(after) \in {Len(line), Len(line) + 1}
           /\ \A f : Carries(after, f) => Carries(line, f) \/ f = g
           /\ \A f : AtMostOne(line, f) /\ (f = g => ~Carries(line, f))
                       => AtMostOne(after, f)
<1>1. after = line \/ (after = Append(line, g) /\ Len(after) <= LineCap)
  BY DEF Put
<1>2. CASE after = line
  BY <1>2
<1>3. CASE after = Append(line, g) /\ Len(after) <= LineCap
  BY <1>3, AppendCarries
<1> QED  BY <1>1, <1>2, <1>3

\* What starts as an application is bootable.
LEMMA StartsFacts ==
    ASSUME NEW f, NEW s \in Starts(f)
    PROVE  s \in {"App", "None"} /\ (s = "App" => Bootable(f))
  BY DEF Starts

\* A whole image is bootable.
LEMMA HoldsBootable ==
    ASSUME NEW f, NEW i \in Images, Holds(f, i)
    PROVE  Bootable(f)
  BY DEF Holds, Bootable

-----------------------------------------------------------------------------
(* Type correctness *)

Cell == Images \cup {"blank", "damaged"}

LineTypes ==
    /\ toStm \in Seq(Commands) /\ Len(toStm) <= LineCap
    /\ toGw \in Seq(Answers) /\ Len(toGw) <= LineCap
ChipTypes ==
    stm \in {"App", "Rom", "None"} /\ prepared \in BOOLEAN /\ flash \in [Block -> Cell]
WorkTypes ==
    /\ phase \in {"Idle", "Uploading", "Installing", "Complete", "Failed"}
    /\ target \in {"Gateway", "Stm32"}
    /\ declared \in Images \cup {"none"}
    /\ received \in {"part", "whole", "damaged"}
    /\ uartOwned \in BOOLEAN /\ handoffSent \in BOOLEAN /\ romStarted \in BOOLEAN
    /\ awaitingHeartbeat \in BOOLEAN /\ eraseMayHaveStarted \in BOOLEAN
    /\ readbackClean \in BOOLEAN
    /\ operation \in Operation /\ offset \in 0..Blocks
TimerTypes ==
    timer \in [Timer -> {"off", "armed", "passed"}]
LoopTypes ==
    /\ at \in {"Start", "Read", "Frames", "Poll"} /\ frames \in 0..LineCap
    /\ station \in BOOLEAN /\ stableSince \in BOOLEAN /\ newSlot \in BOOLEAN
    /\ forgot \in BOOLEAN /\ boot \in {"Confirmed", "Pending"}

\* The type invariant in the parts the proofs of it use.
LEMMA TypeParts ==
    /\ TypeOK <=> LineTypes /\ ChipTypes /\ WorkTypes /\ TimerTypes /\ LoopTypes
    /\ TypeOK' <=> LineTypes' /\ ChipTypes' /\ WorkTypes' /\ TimerTypes' /\ LoopTypes'
  BY DEF TypeOK, PortTypeOK, LineTypes, ChipTypes, WorkTypes, TimerTypes, LoopTypes,
         Commands, Answers, Cell

\* Setting timers leaves timers.
LEMMA SetTypes ==
    ASSUME TimerTypes, NEW ts, NEW v \in {"off", "armed", "passed"}
    PROVE  Set(ts, v) \in [Timer -> {"off", "armed", "passed"}]
  BY DEF TimerTypes, Set

\* Zero is a block and a length of a line.
LEMMA WorkNumbers == 0 \in 0..Blocks /\ 0 \in 0..LineCap
  BY PortAssumption

\* What fail() does.
LEMMA FailFacts ==
    ASSUME NEW erase \in BOOLEAN, FailAfter(erase)
    PROVE  /\ phase' = "Failed" /\ operation' = "Idle" /\ declared' = "none"
           /\ uartOwned' = FALSE /\ handoffSent' = FALSE /\ romStarted' = FALSE
           /\ awaitingHeartbeat' = FALSE /\ eraseMayHaveStarted' = erase
           /\ target' = target
           /\ TimerTypes => TimerTypes'
           /\ WorkTypes => WorkTypes'
  BY SetTypes, WorkNumbers
     DEF FailAfter, WorkForgotten, UartReleased, WorkTypes, TimerTypes, Operation

\* A restart of the gateway keeps the types.
LEMMA RestartFacts ==
    ASSUME TypeOK, Restart PROVE TypeOK'
<1>1. timer' \in [Timer -> {"off", "armed", "passed"}]
  BY DEF Restart
<1>2. WorkTypes'
  BY WorkNumbers DEF Restart, WorkForgotten, WorkTypes, Operation
<1>3. LineTypes' /\ ChipTypes'
  BY TypeParts, NothingCarried, WorkNumbers DEF Restart, LineTypes, ChipTypes
<1>4. LoopTypes'
  BY TypeParts, WorkNumbers DEF Restart, LoopTypes
<1> QED  BY <1>1, <1>2, <1>3, <1>4, TypeParts DEF TimerTypes

\* Flushing a line leaves the frames already read, and adds none.
LEMMA FlushedFacts ==
    ASSUME NEW line \in Seq(Answers), Len(line) <= LineCap, NEW k \in 0..Len(line)
    PROVE  /\ Flushed(line, k) \in Seq(Answers) /\ Len(Flushed(line, k)) <= LineCap
           /\ k <= Len(Flushed(line, k))
           /\ \A f : Carries(Flushed(line, k), f) => Carries(line, f)
           /\ \A f : AtMostOne(line, f) => AtMostOne(Flushed(line, k), f)
<1>1. k <= LineCap /\ k <= Len(line) /\ k <= k
  BY PortAssumption
<1>2. CASE uartOwned
  BY <1>1, <1>2, CutCarries DEF Flushed
<1>3. CASE ~uartOwned
  BY <1>1, <1>3 DEF Flushed
<1> QED  BY <1>2, <1>3

\* The HTTP task's calls keep the types.
LEMMA HttpTypes ==
    ASSUME TypeOK, Http PROVE TypeOK'
<1> USE TypeParts
<1>1. ASSUME NEW t \in {"Gateway", "Stm32"}, NEW i \in Images \cup {"none"}, BeginUpload(t, i)
      PROVE  TypeOK'
  <2>1. TimerTypes'
    BY <1>1, SetTypes DEF BeginUpload, TimerTypes
  <2>2. WorkTypes'
    BY <1>1 DEF BeginUpload, WorkTypes, Operation
  <2>3. LineTypes' /\ ChipTypes' /\ LoopTypes'
    BY <1>1 DEF BeginUpload, httpUnchanged, portVars, wifiVars, LineTypes, ChipTypes,
                LoopTypes
  <2> QED  BY <2>1, <2>2, <2>3
<1>2. CASE WriteUpload
  BY <1>2 DEF WriteUpload, httpUnchanged, portVars, wifiVars, LineTypes, ChipTypes,
              WorkTypes, TimerTypes, LoopTypes
<1>3. CASE AbortUpload
  <2>1. WorkTypes' /\ TimerTypes'
    BY <1>3, FailFacts DEF AbortUpload, Fail, WorkTypes
  <2> QED
    BY <1>3, <2>1 DEF AbortUpload, httpUnchanged, portVars, wifiVars, LineTypes, ChipTypes,
                      LoopTypes
<1>4. CASE FinishUpload
  <2>1. LineTypes' /\ ChipTypes'
    BY <1>4 DEF FinishUpload, portVars, LineTypes, ChipTypes
  <2>2. newSlot' \in BOOLEAN
    BY <1>4 DEF FinishUpload, LoopTypes
  <2>3. LoopTypes'
    BY <1>4, <2>2 DEF FinishUpload, wifiVars, LoopTypes
  <2>4. WorkTypes' /\ TimerTypes'
    <3>1. CASE Fail
      BY <3>1, FailFacts DEF Fail, WorkTypes
    <3>2. CASE phase' = "Installing"
      BY <1>4, <3>2, FailFacts, SetTypes DEF FinishUpload, Fail, WorkTypes, TimerTypes
    <3> QED  BY <1>4, <3>1, <3>2 DEF FinishUpload
  <2> QED  BY <2>1, <2>2, <2>3, <2>4
<1> QED
  BY <1>1, <1>2, <1>3, <1>4 DEF Http

\* The next frame of the chunk that was read.
LEMMA ReadingFacts ==
    ASSUME TypeOK, FramesAreRead, NEW f, NextFrame(f)
    PROVE  /\ toGw # <<>> /\ Head(toGw) = f /\ Carries(toGw, f)
           /\ Tail(toGw) \in Seq(Answers) /\ Len(Tail(toGw)) <= LineCap
           /\ frames' \in 0..LineCap /\ frames' \in 0..Len(Tail(toGw))
           /\ ChipTypes' /\ LoopTypes' /\ at' = "Frames"
<1>1. toGw \in Seq(Answers) /\ Len(toGw) <= LineCap /\ frames \in 0..LineCap
      /\ frames <= Len(toGw)
  BY TypeParts DEF LineTypes, LoopTypes, FramesAreRead
<1>2. frames > 0 /\ frames' = frames - 1 /\ at = "Frames" /\ Head(toGw) = f
  BY DEF NextFrame
<1>3. toGw # <<>>
  BY <1>1, <1>2
<1>4. /\ Tail(toGw) \in Seq(Answers) /\ Len(Tail(toGw)) = Len(toGw) - 1
      /\ Carries(toGw, f)
  BY <1>1, <1>2, <1>3, TailCarries
<1>5. frames' \in 0..LineCap /\ frames' \in 0..Len(Tail(toGw)) /\ Len(Tail(toGw)) <= LineCap
  BY <1>1, <1>2, <1>4, PortAssumption
<1> QED
  BY <1>2, <1>3, <1>4, <1>5, TypeParts DEF NextFrame, wifiVars, ChipTypes, LoopTypes

\* A frame keeps the types, and no more of the chunk is left than the line holds.
LEMMA OnFrameTypes ==
    ASSUME TypeOK, FramesAreRead, OnFrame PROVE TypeOK' /\ frames' <= Len(toGw')
<1> USE TypeParts
<1>0. toStm \in Seq(Commands) /\ Len(toStm) <= LineCap
  BY DEF LineTypes
<1>1. CASE OnPrepareAccepted
  <2>0. /\ Tail(toGw) \in Seq(Answers) /\ Len(Tail(toGw)) <= LineCap
        /\ frames' \in 0..Len(Tail(toGw)) /\ ChipTypes' /\ LoopTypes'
    BY <1>1, ReadingFacts DEF OnPrepareAccepted
  <2>1. CASE Fail /\ toGw' = Flushed(Tail(toGw), frames') /\ UNCHANGED toStm
    <3>1. WorkTypes' /\ TimerTypes'
      BY <2>1, FailFacts DEF Fail, WorkTypes
    <3>2. LineTypes'
      BY <1>0, <2>0, <2>1, FlushedFacts DEF LineTypes
    <3>3. frames' <= Len(toGw')
      BY <2>0, <2>1, FlushedFacts
    <3> QED  BY <2>0, <3>1, <3>2, <3>3
  <2>2. CASE toStm' \in Put(toStm, "COMMIT") /\ toGw' = Tail(toGw) /\ romStarted'
    <3>1. LineTypes'
      BY <1>0, <2>0, <2>2, PutFacts DEF LineTypes, Commands
    <3>2. TimerTypes'
      BY <1>1, <2>2, FailFacts DEF OnPrepareAccepted, Fail, TimerTypes, WorkTypes
    <3>3. WorkTypes'
      BY <1>1, <2>2, FailFacts DEF OnPrepareAccepted, Fail, WorkTypes
    <3> QED  BY <2>0, <2>2, <3>1, <3>2, <3>3
  <2> QED  BY <1>1, <2>1, <2>2 DEF OnPrepareAccepted
<1>2. CASE OnPrepareRefused
  <2>0. /\ Tail(toGw) \in Seq(Answers) /\ Len(Tail(toGw)) <= LineCap
        /\ frames' \in 0..Len(Tail(toGw)) /\ ChipTypes' /\ LoopTypes'
    BY <1>2, ReadingFacts DEF OnPrepareRefused
  <2>1. WorkTypes' /\ TimerTypes'
    BY <1>2, FailFacts DEF OnPrepareRefused, Fail, WorkTypes
  <2>2. LineTypes'
    BY <1>0, <1>2, <2>0, FlushedFacts DEF OnPrepareRefused, LineTypes
  <2>3. frames' <= Len(toGw')
    BY <1>2, <2>0, FlushedFacts DEF OnPrepareRefused
  <2> QED  BY <2>0, <2>1, <2>2, <2>3
<1>3. CASE OnHeartbeat
  <2>0. /\ Tail(toGw) \in Seq(Answers) /\ Len(Tail(toGw)) <= LineCap
        /\ frames' \in 0..Len(Tail(toGw)) /\ ChipTypes' /\ LoopTypes'
    BY <1>3, ReadingFacts DEF OnHeartbeat
  <2>1. LineTypes' /\ frames' <= Len(toGw')
    BY <1>0, <1>3, <2>0 DEF OnHeartbeat, LineTypes
  <2>2. TimerTypes'
    BY <1>3, SetTypes DEF OnHeartbeat, TimerTypes
  <2>3. WorkTypes'
    BY <1>3, WorkNumbers DEF OnHeartbeat, WorkForgotten, WorkTypes, Operation
  <2> QED  BY <2>0, <2>1, <2>2, <2>3
<1>4. CASE OnOtherFrame
  <2>0. /\ Tail(toGw) \in Seq(Answers) /\ Len(Tail(toGw)) <= LineCap
        /\ frames' \in 0..Len(Tail(toGw)) /\ ChipTypes' /\ LoopTypes'
    BY <1>4, ReadingFacts DEF OnOtherFrame
  <2> QED
    BY <1>0, <1>4, <2>0 DEF OnOtherFrame, updateVars, LineTypes, WorkTypes, TimerTypes
<1> QED
  BY <1>1, <1>2, <1>3, <1>4 DEF OnFrame

\* A step of poll() happens between two chunks of frames.
LEMMA PollStepFacts ==
    ASSUME TypeOK, FramesAreRead, PollStep
    PROVE  LoopTypes' /\ at' = "Read" /\ frames' = 0
  BY TypeParts DEF PollStep, wifiVars, LoopTypes, FramesAreRead

\* A step that fails leaves the update failed and the line flushed if it was owned.
LEMMA PollFailsFacts ==
    ASSUME TypeOK, FramesAreRead, NEW erase \in BOOLEAN, NEW f \in [Block -> Cell],
           PollFailsAfter(erase, f)
    PROVE  /\ LineTypes' /\ WorkTypes' /\ TimerTypes' /\ LoopTypes'
           /\ flash' = f /\ prepared' = prepared /\ toStm' = toStm /\ frames' = 0
           /\ stm' \in {"App", "Rom", "None"} => ChipTypes'
<1>1. WorkTypes' /\ TimerTypes'
  BY FailFacts, TypeParts DEF PollFailsAfter
<1>2. LineTypes'
  <2>1. toGw \in Seq(Answers) /\ Len(toGw) <= LineCap /\ 0 \in 0..Len(toGw)
    BY TypeParts DEF LineTypes
  <2> QED  BY <2>1, FlushedFacts, TypeParts DEF PollFailsAfter, portBut, LineTypes
<1>3. LoopTypes' /\ frames' = 0
  BY PollStepFacts DEF PollFailsAfter
<1> QED
  BY <1>1, <1>2, <1>3, TypeParts DEF PollFailsAfter, portBut, ChipTypes

\* Any part of the flash erased, or the next block written, is still a flash.
LEMMA FlashTypes ==
    ASSUME TypeOK
    PROVE  /\ \A S : Without(S) \in [Block -> Cell]
           /\ \A v \in Cell : WithNext(v) \in [Block -> Cell]
           /\ BlocksLeft => offset + 1 \in 0..Blocks /\ offset + 1 \in Block
<1>1. flash \in [Block -> Cell] /\ offset \in 0..Blocks
  BY TypeParts DEF ChipTypes, WorkTypes
<1>2. \A S : Without(S) \in [Block -> Cell]
  BY <1>1 DEF Without, Cell
<1>3. \A v \in Cell : WithNext(v) \in [Block -> Cell]
  BY <1>1 DEF WithNext
<1>4. BlocksLeft => offset + 1 \in 0..Blocks /\ offset + 1 \in Block
  BY <1>1, PortAssumption DEF BlocksLeft, Block
<1> QED  BY <1>2, <1>3, <1>4

\* A loader command that ends well, with what the command itself changes.
LEMMA RomStepFacts ==
    ASSUME TypeOK, FramesAreRead, NEW o \in Operation, NEW k \in 0..Blocks,
           NEW clean \in BOOLEAN, NEW f \in [Block -> Cell], RomStep(o, k, clean, f),
           uartOwned' \in BOOLEAN, awaitingHeartbeat' \in BOOLEAN,
           eraseMayHaveStarted' \in BOOLEAN, stm' \in {"App", "Rom", "None"},
           toGw' = toGw \/ toGw' = <<>>
    PROVE  LineTypes' /\ ChipTypes' /\ WorkTypes' /\ LoopTypes'
<1>1. LineTypes'
  <2>1. LineTypes /\ toStm' = toStm
    BY TypeParts DEF RomStep
  <2>2. <<>> \in Seq(Answers) /\ Len(<<>>) <= LineCap
    BY NothingCarried, PortAssumption
  <2> QED  BY <2>1, <2>2 DEF LineTypes
<1>2. ChipTypes' /\ WorkTypes'
  BY TypeParts DEF RomStep, ChipTypes, WorkTypes
<1>3. LoopTypes'
  BY PollStepFacts DEF RomStep
<1> QED  BY <1>1, <1>2, <1>3

\* The steps before the loader is spoken to, and the passes without a step.
Handoff ==
    SendPrepare \/ HandoffTimesOut \/ HeartbeatTimesOut \/ RomReady \/ NothingDue

\* The hand-off to the ROM loader keeps the types.
LEMMA HandoffTypes ==
    ASSUME TypeOK, FramesAreRead, Handoff PROVE TypeOK'
<1> USE TypeParts
<1>0. /\ eraseMayHaveStarted \in BOOLEAN /\ flash \in [Block -> Cell]
      /\ stm \in {"App", "Rom", "None"} /\ toStm \in Seq(Commands) /\ Len(toStm) <= LineCap
  BY DEF WorkTypes, ChipTypes, LineTypes
<1>1. CASE PollFails(flash) /\ UNCHANGED stm
  BY <1>0, <1>1, PollFailsFacts DEF PollFails
<1>2. CASE SendPrepare
  <2>1. CASE PollStep /\ handoffSent' = TRUE /\ timer' = HandoffTimed
             /\ toStm' \in Put(toStm, "PREPARE")
             /\ UNCHANGED <<phase, target, declared, received, uartOwned, romStarted,
                            awaitingHeartbeat, eraseMayHaveStarted, operation, offset,
                            readbackClean, stm, prepared, flash, toGw>>
    <3>1. LineTypes'
      BY <1>0, <2>1, PutFacts DEF LineTypes, Commands
    <3>2. TimerTypes'
      BY <2>1, SetTypes DEF HandoffTimed, TimerTypes
    <3>3. ChipTypes' /\ WorkTypes'
      BY <2>1 DEF ChipTypes, WorkTypes
    <3>4. LoopTypes'
      BY <2>1, PollStepFacts
    <3> QED  BY <3>1, <3>2, <3>3, <3>4
  <2> QED  BY <1>1, <1>2, <2>1 DEF SendPrepare
<1>3. CASE RomReady
  <2>1. TimerTypes'
    BY <1>3, SetTypes DEF RomReady, TimerTypes
  <2>2. LineTypes' /\ ChipTypes' /\ WorkTypes'
    <3>1. LineTypes' /\ ChipTypes'
      BY <1>3 DEF RomReady, portVars, LineTypes, ChipTypes
    <3>2. WorkTypes'
      BY <1>3 DEF RomReady, WorkTypes, Operation
    <3> QED  BY <3>1, <3>2
  <2>3. LoopTypes'
    BY <1>3, PollStepFacts DEF RomReady
  <2> QED  BY <2>1, <2>2, <2>3
<1>4. CASE NothingDue
  <2>1. LoopTypes'
    BY <1>4, PollStepFacts DEF NothingDue
  <2> QED
    BY <1>4, <2>1 DEF NothingDue, portVars, updateVars, LineTypes, ChipTypes, WorkTypes,
                      TimerTypes
<1> QED
  BY <1>1, <1>2, <1>3, <1>4 DEF Handoff, HandoffTimesOut, HeartbeatTimesOut

\* The steps of the loader protocol.
Loading == EnterRom \/ Erase \/ Program \/ ProgramEnds \/ Verify \/ VerifyEnds
              \/ StartApplication

\* The ROM loader's operations keep the types.
LEMMA LoadingTypes ==
    ASSUME TypeOK, FramesAreRead, ImageIsKnown, Loading PROVE TypeOK'
<1> USE TypeParts
<1>0. /\ eraseMayHaveStarted \in BOOLEAN /\ flash \in [Block -> Cell]
      /\ stm \in {"App", "Rom", "None"} /\ uartOwned \in BOOLEAN
      /\ awaitingHeartbeat \in BOOLEAN /\ readbackClean \in BOOLEAN /\ offset \in 0..Blocks
  BY DEF WorkTypes, ChipTypes
<1>1. CASE PollFails(flash) /\ stm' \in {"App", "Rom", "None"}
  BY <1>0, <1>1, PollFailsFacts DEF PollFails
<1>2. CASE EnterRom
  <2>1. CASE RomStep("Erase", offset, readbackClean, flash) /\ toGw' = <<>>
             /\ UNCHANGED <<uartOwned, awaitingHeartbeat, eraseMayHaveStarted, timer, stm>>
    BY <1>0, <2>1, RomStepFacts DEF Operation, TimerTypes
  <2> QED  BY <1>0, <1>1, <1>2, <2>1 DEF EnterRom
<1>3. CASE Erase
  <2>1. CASE RomStep("Program", 0, readbackClean, Without(Block))
             /\ eraseMayHaveStarted' = TRUE
             /\ UNCHANGED <<uartOwned, awaitingHeartbeat, timer, stm, toGw>>
    BY <1>0, <2>1, RomStepFacts, FlashTypes, WorkNumbers DEF Operation, TimerTypes
  <2>2. CASE \E S : PollFailsAfter(TRUE, Without(S)) /\ UNCHANGED stm
    BY <1>0, <2>2, PollFailsFacts, FlashTypes
  <2> QED  BY <1>3, <2>1, <2>2 DEF Erase, FlagBeforeErase
<1>4. CASE Program
  <2>0. declared \in Cell /\ "damaged" \in Cell /\ "blank" \in Cell
    BY <1>4 DEF Program, InOperation, Installing, ImageIsKnown, Cell
  <2>1. offset + 1 \in 0..Blocks /\ offset + 1 \in Block
    BY <1>4, FlashTypes DEF Program
  <2>2. flash[offset + 1] \in Cell
    BY <1>0, <2>1
  <2>3. CASE \E v \in {declared, "damaged"} :
               /\ RomStep("Program", offset + 1, readbackClean, WithNext(v))
               /\ UNCHANGED <<uartOwned, awaitingHeartbeat, eraseMayHaveStarted, timer, stm,
                              toGw>>
    BY <1>0, <2>0, <2>1, <2>3, RomStepFacts, FlashTypes DEF Operation, TimerTypes
  <2>4. CASE \E v \in Cell : PollFails(WithNext(v)) /\ UNCHANGED stm
    BY <1>0, <2>4, PollFailsFacts, FlashTypes DEF PollFails
  <2> QED  BY <1>4, <2>0, <2>2, <2>3, <2>4 DEF Program
<1>5. CASE ProgramEnds
  <2>1. LoopTypes'
    BY <1>5, PollStepFacts DEF ProgramEnds
  <2> QED
    BY <1>5, <2>1, WorkNumbers
       DEF ProgramEnds, portVars, LineTypes, ChipTypes, WorkTypes, TimerTypes, Operation
<1>6. CASE Verify
  <2>1. offset + 1 \in 0..Blocks
    BY <1>6, FlashTypes DEF Verify
  <2>2. CASE \E misread \in BOOLEAN :
               /\ RomStep("Verify", offset + 1,
                          readbackClean /\ ReadsAsStaged(misread), flash)
               /\ UNCHANGED <<uartOwned, awaitingHeartbeat, eraseMayHaveStarted, timer, stm,
                              toGw>>
    <3>1. PICK misread \in BOOLEAN :
            /\ RomStep("Verify", offset + 1,
                       readbackClean /\ ReadsAsStaged(misread), flash)
            /\ UNCHANGED <<uartOwned, awaitingHeartbeat, eraseMayHaveStarted, timer, stm,
                           toGw>>
      BY <2>2
    <3>2. (readbackClean /\ ReadsAsStaged(misread)) \in BOOLEAN
      OBVIOUS
    <3> QED  BY <1>0, <2>1, <3>1, <3>2, RomStepFacts DEF Operation, TimerTypes
  <2> QED  BY <1>0, <1>1, <1>6, <2>2 DEF Verify
<1>7. CASE VerifyEnds
  <2>1. CASE PollStep /\ operation' = "StartApplication"
             /\ UNCHANGED <<phase, target, declared, received, uartOwned, handoffSent,
                            romStarted, awaitingHeartbeat, eraseMayHaveStarted, offset,
                            readbackClean, timer, portVars>>
    <3>1. LoopTypes'
      BY <2>1, PollStepFacts
    <3> QED
      BY <2>1, <3>1 DEF portVars, LineTypes, ChipTypes, WorkTypes, TimerTypes, Operation
  <2> QED  BY <1>0, <1>1, <1>7, <2>1 DEF VerifyEnds
<1>8. CASE StartApplication
  <2>1. \A s \in Starts(flash) : s \in {"App", "Rom", "None"}
    BY StartsFacts
  <2>2. CASE RomStep("AwaitHeartbeat", offset, readbackClean, flash)
             /\ stm' \in Starts(flash) /\ toGw' = <<>> /\ uartOwned' = FALSE
             /\ awaitingHeartbeat' = TRUE /\ timer' = Set({"heartbeat"}, "armed")
             /\ UNCHANGED eraseMayHaveStarted
    <3>1. TimerTypes'
      BY <2>2, SetTypes DEF TimerTypes
    <3> QED  BY <1>0, <2>1, <2>2, <3>1, RomStepFacts DEF Operation
  <2> QED  BY <1>0, <1>1, <1>8, <2>1, <2>2 DEF StartApplication
<1> QED
  BY <1>2, <1>3, <1>4, <1>5, <1>6, <1>7, <1>8 DEF Loading

\* What the STM32 itself does to the line.
LEMMA ServiceFacts ==
    ASSUME TypeOK, Stm32
    PROVE  LineTypes' /\ ChipTypes' /\ Len(toGw) <= Len(toGw')
<1>0. /\ toStm \in Seq(Commands) /\ Len(toStm) <= LineCap
      /\ toGw \in Seq(Answers) /\ Len(toGw) <= LineCap
      /\ stm \in {"App", "Rom", "None"} /\ prepared \in BOOLEAN /\ flash \in [Block -> Cell]
      /\ Len(toStm) \in Nat /\ Len(toGw) \in Nat /\ LineCap \in Nat
  BY TypeParts, PortAssumption DEF LineTypes, ChipTypes
<1>1. toStm # <<>> /\ toStm' = Tail(toStm) => toStm' \in Seq(Commands) /\ Len(toStm') <= LineCap
  BY <1>0, TailCarries
<1>2. ASSUME NEW f \in Answers, toGw' \in Put(toGw, f)
      PROVE  toGw' \in Seq(Answers) /\ Len(toGw') <= LineCap /\ Len(toGw) <= Len(toGw')
  BY <1>0, <1>2, PutFacts
<1>3. "OK" \in Answers /\ "REFUSED" \in Answers /\ "COMMIT_DENIED" \in Answers
      /\ "HEARTBEAT" \in Answers
  BY DEF Answers
<1>4. CASE ServePrepare
  <2>1. toStm' \in Seq(Commands) /\ Len(toStm') <= LineCap
    BY <1>1, <1>4 DEF ServePrepare
  <2>2. toGw' \in Seq(Answers) /\ Len(toGw') <= LineCap /\ Len(toGw) <= Len(toGw')
    BY <1>2, <1>3, <1>4 DEF ServePrepare
  <2>3. ChipTypes'
    BY <1>0, <1>4 DEF ServePrepare, ChipTypes
  <2> QED  BY <2>1, <2>2, <2>3 DEF LineTypes
<1>5. CASE ServeCommit
  <2>1. toStm' \in Seq(Commands) /\ Len(toStm') <= LineCap
    BY <1>1, <1>5 DEF ServeCommit
  <2>2. toGw' = toGw \/ toGw' \in Put(toGw, "COMMIT_DENIED")
    BY <1>5 DEF ServeCommit
  <2>3. toGw' \in Seq(Answers) /\ Len(toGw') <= LineCap /\ Len(toGw) <= Len(toGw')
    BY <1>0, <1>2, <1>3, <2>2
  <2>4. ChipTypes'
    BY <1>0, <1>5 DEF ServeCommit, ChipTypes
  <2> QED  BY <2>1, <2>3, <2>4 DEF LineTypes
<1>6. CASE ExpirePrepared
  <2>1. ChipTypes' /\ toStm' = toStm /\ toGw' = toGw
    BY <1>0, <1>6 DEF ExpirePrepared, ChipTypes
  <2>2. Len(toGw) <= Len(toGw)
    BY <1>0
  <2> QED  BY <1>0, <2>1, <2>2 DEF LineTypes
<1>7. CASE SendHeartbeat
  <2>1. Append(toGw, "HEARTBEAT") \in Seq(Answers)
        /\ Len(Append(toGw, "HEARTBEAT")) = Len(toGw) + 1
    BY <1>0, <1>3, AppendCarries
  <2> QED  BY <1>0, <1>7, <2>1 DEF SendHeartbeat, LineTypes, ChipTypes
<1>8. CASE IgnoreFrame
  BY <1>0, <1>1, <1>8 DEF IgnoreFrame, LineTypes, ChipTypes
<1> QED
  BY <1>4, <1>5, <1>6, <1>7, <1>8 DEF Stm32

\* Steps that change neither line nor chip nor the update itself.
Quiet ==
    StartUp \/ ReadUart \/ NoBootCheck \/ ConfirmBoot \/ WaitForStation \/ SetStation
        \/ \E t \in Timer : Elapse(t)

\* Steps of the main loop that only read or confirm, and the passing of time, leave the
\* update alone.
LEMMA QuietFacts ==
    ASSUME TypeOK, FramesAreRead, Quiet
    PROVE  /\ TypeOK' /\ FramesAreRead'
           /\ UNCHANGED <<portVars, updateVars, forgot>>
<1> USE TypeParts
<1>1. UNCHANGED <<portVars, updateVars, forgot, newSlot>>
  BY DEF Quiet, StartUp, ReadUart, NoBootCheck, ConfirmBoot, WaitForStation, BootStep,
         SetStation, Elapse
<1>2. LineTypes' /\ ChipTypes' /\ WorkTypes'
  BY <1>1 DEF portVars, updateVars, LineTypes, ChipTypes, WorkTypes
<1>3. TimerTypes'
  <2>1. CASE \E t \in Timer : Elapse(t)
    BY <2>1 DEF Elapse, TimerTypes
  <2>2. CASE ConfirmBoot
    BY <2>2, SetTypes DEF ConfirmBoot, BootStep, TimerTypes
  <2>3. CASE UNCHANGED timer
    BY <2>3 DEF TimerTypes
  <2> QED
    BY <2>1, <2>2, <2>3 DEF Quiet, StartUp, ReadUart, NoBootCheck, WaitForStation,
                            BootStep, SetStation
<1>4. LoopTypes' /\ FramesAreRead'
  <2>0. /\ Len(toGw) \in 0..LineCap /\ Len(toGw) \in Nat /\ 0 \in 0..LineCap
        /\ toGw' = toGw /\ frames \in 0..LineCap
    BY <1>1, PortAssumption DEF LineTypes, LoopTypes, portVars
  <2>1. CASE StartUp
    BY <2>0, <2>1 DEF StartUp, wifiVars, LoopTypes, FramesAreRead
  <2>2. CASE ReadUart
    BY <2>0, <2>2 DEF ReadUart, wifiVars, LoopTypes, FramesAreRead
  <2>3. CASE NoBootCheck
    BY <2>0, <2>3 DEF NoBootCheck, BootStep, FramesDone, LoopTypes, FramesAreRead
  <2>4. CASE ConfirmBoot
    BY <2>0, <2>4 DEF ConfirmBoot, BootStep, FramesDone, LoopTypes, FramesAreRead
  <2>5. CASE WaitForStation
    BY <2>0, <2>5 DEF WaitForStation, BootStep, FramesDone, LoopTypes, FramesAreRead
  <2>6. CASE SetStation
    <3>1. (~station) \in BOOLEAN
      BY DEF LoopTypes
    <3> QED  BY <2>0, <2>6, <3>1 DEF SetStation, LoopTypes, FramesAreRead
  <2>7. CASE \E t \in Timer : Elapse(t)
    BY <2>0, <2>7 DEF Elapse, wifiVars, LoopTypes, FramesAreRead
  <2> QED  BY <2>1, <2>2, <2>3, <2>4, <2>5, <2>6, <2>7 DEF Quiet
<1> QED  BY <1>1, <1>2, <1>3, <1>4

\* The steps of Next, grouped by what they do to the invariant.
LEMMA NextActions ==
    ASSUME Next
    PROVE  \/ Http \/ OnFrame \/ Handoff \/ Loading \/ Master \/ Quiet
           \/ Restart \/ PowerCycleMaster \/ Recover
  BY DEF Next, MainLoop, Poll, BootCheck, Handoff, Loading, Quiet, StartUpFails, RollBack,
         RestartGateway, PowerCycleGateway

\* Types, and the frames still to be handled, along every step.
LEMMA TypesKept ==
    ASSUME TypeOK, FramesAreRead, ImageIsKnown, [Next]_vars
    PROVE  TypeOK' /\ FramesAreRead'
<1> USE TypeParts
<1>0. /\ LineTypes /\ ChipTypes /\ WorkTypes /\ TimerTypes /\ LoopTypes
      /\ frames \in 0..LineCap /\ Len(toGw) \in Nat /\ LineCap \in Nat
  BY PortAssumption DEF LoopTypes, LineTypes
<1>1. CASE Http
  <2>1. UNCHANGED <<toGw, at, frames>>
    BY <1>1 DEF Http, BeginUpload, WriteUpload, AbortUpload, FinishUpload, httpUnchanged,
                portVars
  <2> QED  BY <1>1, <2>1, HttpTypes DEF FramesAreRead
<1>2. CASE OnFrame
  <2>1. at' = "Frames"
    BY <1>2 DEF OnFrame, OnPrepareAccepted, OnPrepareRefused, OnHeartbeat, OnOtherFrame,
                NextFrame
  <2> QED  BY <1>2, <2>1, OnFrameTypes DEF FramesAreRead
<1>3. CASE Handoff \/ Loading
  <2>1. PollStep
    BY <1>3 DEF Handoff, Loading, SendPrepare, HandoffTimesOut, HeartbeatTimesOut, RomReady,
                NothingDue, EnterRom, Erase, Program, ProgramEnds, Verify, VerifyEnds,
                StartApplication, PollFails, PollFailsAfter, RomStep
  <2>2. at' = "Read" /\ frames' = 0
    BY <2>1, PollStepFacts
  <2>3. TypeOK'
    BY <1>3, HandoffTypes, LoadingTypes
  <2>4. Len(toGw') \in Nat
    BY <2>3 DEF LineTypes
  <2> QED  BY <2>2, <2>3, <2>4 DEF FramesAreRead
<1>4. CASE Master
  <2>1. LineTypes' /\ ChipTypes' /\ Len(toGw) <= Len(toGw')
    BY <1>4, ServiceFacts DEF Master
  <2>2. WorkTypes' /\ TimerTypes' /\ LoopTypes'
    BY <1>0, <1>4 DEF Master, updateVars, wifiVars, WorkTypes, TimerTypes, LoopTypes
  <2>3. FramesAreRead'
    <3>1. Len(toGw') \in Nat /\ frames' = frames /\ at' = at
      BY <1>4, <2>1 DEF Master, LineTypes
    <3> QED  BY <1>0, <2>1, <3>1 DEF FramesAreRead
  <2> QED  BY <2>1, <2>2, <2>3
<1>5. CASE Quiet
  BY <1>5, QuietFacts
<1>6. CASE Restart
  <2>1. at' = "Start" /\ frames' = 0 /\ toGw' = <<>>
    BY <1>6 DEF Restart
  <2> QED  BY <1>6, <2>1, RestartFacts DEF FramesAreRead
<1>7. CASE PowerCycleMaster
  <2>1. stm' \in {"App", "Rom", "None"}
    BY <1>7, StartsFacts DEF PowerCycleMaster, PowerCycleStm32
  <2>2. LineTypes'
    BY <1>0, <1>7, NothingCarried, WorkNumbers DEF PowerCycleMaster, PowerCycleStm32, LineTypes
  <2>3. ChipTypes'
    BY <1>0, <1>7, <2>1 DEF PowerCycleMaster, PowerCycleStm32, ChipTypes
  <2>4. WorkTypes' /\ TimerTypes' /\ LoopTypes' /\ FramesAreRead'
    BY <1>0, <1>7 DEF PowerCycleMaster, PowerCycleStm32, updateVars, wifiVars, WorkTypes,
                      TimerTypes, LoopTypes, FramesAreRead
  <2> QED  BY <2>2, <2>3, <2>4
<1>8. CASE Recover
  <2>1. LineTypes'
    BY <1>0, <1>8, NothingCarried, WorkNumbers DEF Recover, WiredRecovery, LineTypes
  <2>2. ChipTypes'
    BY <1>0, <1>8 DEF Recover, WiredRecovery, ChipTypes, Cell
  <2>3. WorkTypes' /\ TimerTypes' /\ FramesAreRead'
    BY <1>0, <1>8 DEF Recover, WiredRecovery, updateVars, WorkTypes, TimerTypes,
                      FramesAreRead
  <2>4. LoopTypes'
    BY <1>0, <1>8 DEF Recover, wifiVars, LoopTypes
  <2> QED  BY <2>1, <2>2, <2>3, <2>4
<1>9. CASE UNCHANGED vars
  BY <1>0, <1>9 DEF vars, portVars, updateVars, wifiVars, LineTypes, ChipTypes, WorkTypes,
                    TimerTypes, LoopTypes, FramesAreRead
<1> QED
  BY <1>1, <1>2, <1>3, <1>4, <1>5, <1>6, <1>7, <1>8, <1>9, NextActions

-----------------------------------------------------------------------------
(* The hand-off and the flash, group by group *)

\* The parts of UpdateInv that are about the update, the line and the chip.
Parts ==
    /\ ImageIsKnown /\ StagesInOrder /\ OneHandoff
    /\ AppIsBootable /\ LoaderIsAlone /\ VerifiedIsInFlash
    /\ BrokenImageIsRemembered

\* Without an installation only the image, the flash and the memory of it count.
LEMMA NotInstalling ==
    ASSUME ~Installing', uartOwned' = FALSE, romStarted' = FALSE,
           awaitingHeartbeat' = FALSE, operation' = "Idle",
           ImageIsKnown', AppIsBootable', BrokenImageIsRemembered'
    PROVE  Parts'
  BY DEF Parts, StagesInOrder, OneHandoff, LoaderIsAlone, VerifiedIsInFlash, RomOperation,
         LoaderAnswered, ProgramsOrLater

\* While nothing is installed, the stages say so.
LEMMA NothingStarted ==
    ASSUME TypeOK, StagesInOrder, ~Installing
    PROVE  uartOwned = FALSE /\ romStarted = FALSE /\ awaitingHeartbeat = FALSE
           /\ operation = "Idle"
  BY TypeParts DEF StagesInOrder, WorkTypes

\* Shorter lines to the gateway keep what was said of it.
LEMMA SameChip ==
    ASSUME AppIsBootable, stm' = stm, flash' = flash,
           \A f : Carries(toGw', f) => Carries(toGw, f)
    PROVE  AppIsBootable'
  BY DEF AppIsBootable

\* fail() leaves nothing but the memory of a begun erase.
LEMMA FailParts ==
    ASSUME NEW erase \in BOOLEAN, FailAfter(erase), AppIsBootable', BrokenImageIsRemembered'
    PROVE  Parts'
  BY FailFacts, NotInstalling DEF ImageIsKnown, Installing

\* The HTTP task's calls keep the parts.
LEMMA HttpParts ==
    ASSUME TypeOK, Parts, Http PROVE Parts'
<1>0. eraseMayHaveStarted \in BOOLEAN
  BY TypeParts DEF WorkTypes
<1>1. UNCHANGED <<stm, prepared, flash, toStm, toGw, forgot>>
  BY DEF Http, BeginUpload, WriteUpload, AbortUpload, FinishUpload, httpUnchanged, portVars
<1>2. AppIsBootable'
  BY <1>1 DEF Parts, AppIsBootable
<1>3. eraseMayHaveStarted' = eraseMayHaveStarted => BrokenImageIsRemembered'
  BY <1>1 DEF Parts, BrokenImageIsRemembered
<1>4. CASE Fail
  BY <1>0, <1>2, <1>3, <1>4, FailParts, FailFacts DEF Fail
<1>5. ASSUME NEW t \in {"Gateway", "Stm32"}, NEW i \in Images \cup {"none"},
             t = "Stm32" => i \in Images, BeginUpload(t, i)
      PROVE  Parts'
  <2>1. ~Installing /\ ~Installing'
    BY <1>5 DEF BeginUpload, IsAvailable, Installing
  <2>2. uartOwned' = FALSE /\ romStarted' = FALSE /\ awaitingHeartbeat' = FALSE
        /\ operation' = "Idle" /\ eraseMayHaveStarted' = eraseMayHaveStarted
    BY <1>5, <2>1, NothingStarted DEF BeginUpload, Parts
  <2>3. ImageIsKnown'
    BY <1>5 DEF BeginUpload, ImageIsKnown
  <2> QED  BY <1>2, <1>3, <2>1, <2>2, <2>3, NotInstalling
<1>6. CASE WriteUpload
  BY <1>1, <1>2, <1>3, <1>6
     DEF WriteUpload, Parts, ImageIsKnown, StagesInOrder, OneHandoff, LoaderIsAlone,
         VerifiedIsInFlash, Installing
<1>7. CASE FinishUpload /\ phase' = "Installing"
  <2>0. ~Fail
    BY <1>0, <1>7, FailFacts DEF Fail
  <2>1. UNCHANGED <<target, declared, uartOwned, handoffSent, romStarted, awaitingHeartbeat,
                    eraseMayHaveStarted, operation, offset, readbackClean>>
        /\ ~Installing /\ phase = "Uploading"
    BY <1>7, <2>0 DEF FinishUpload, Installing
  <2>2. uartOwned' = FALSE /\ romStarted' = FALSE /\ awaitingHeartbeat' = FALSE
        /\ operation' = "Idle"
    BY <2>1, NothingStarted DEF Parts
  <2>3. toStm = <<>> /\ ~Carries(toGw, "OK") /\ AtMostOne(toGw, "OK")
    <3>1. toStm = <<>> /\ \A k \in 1..Len(toGw) : toGw[k] = "HEARTBEAT"
      BY <1>7 DEF FinishUpload, UploadOutlastsLine
    <3> QED  BY <3>1 DEF Carries, AtMostOne
  <2>4. \A f : ~Carries(toStm', f)
    BY <1>1, <2>3, NothingCarried
  <2>5. OneHandoff'
    BY <1>1, <2>2, <2>3, <2>4 DEF OneHandoff, LoaderAnswered
  <2>6. ImageIsKnown'
    BY <2>1 DEF Parts, ImageIsKnown
  <2>7. StagesInOrder' /\ LoaderIsAlone' /\ VerifiedIsInFlash'
    BY <2>2 DEF StagesInOrder, LoaderIsAlone, VerifiedIsInFlash, RomOperation, LoaderAnswered
  <2> QED  BY <1>2, <1>3, <2>1, <2>5, <2>6, <2>7 DEF Parts
<1> QED
  BY <1>4, <1>5, <1>6, <1>7 DEF Http, AbortUpload, FinishUpload

\* A frame keeps the parts.
LEMMA OnFrameParts ==
    ASSUME TypeOK, FramesAreRead, Parts, OnFrame PROVE Parts'
<1>0. /\ toStm \in Seq(Commands) /\ Len(toStm) <= LineCap
      /\ eraseMayHaveStarted \in BOOLEAN
      /\ toGw \in Seq(Answers)
  BY TypeParts DEF LineTypes, WorkTypes
<1>1. ASSUME NEW f, NextFrame(f)
      PROVE  /\ Carries(toGw, f) /\ UNCHANGED <<stm, prepared, flash, forgot>>
             /\ \A g : Carries(Tail(toGw), g) => Carries(toGw, g)
             /\ \A g : AtMostOne(toGw, g) => AtMostOne(Tail(toGw), g)
             /\ AtMostOne(toGw, f) => ~Carries(Tail(toGw), f)
             /\ \A g : Carries(Flushed(Tail(toGw), frames'), g) => Carries(toGw, g)
  <2>1. toGw # <<>> /\ Head(toGw) = f /\ Carries(toGw, f)
        /\ Tail(toGw) \in Seq(Answers) /\ Len(Tail(toGw)) <= LineCap
        /\ frames' \in 0..Len(Tail(toGw))
    BY <1>1, ReadingFacts
  <2>2. /\ \A g : Carries(Tail(toGw), g) => Carries(toGw, g)
        /\ \A g : AtMostOne(toGw, g) => AtMostOne(Tail(toGw), g)
        /\ AtMostOne(toGw, f) => ~Carries(Tail(toGw), f)
    BY <1>0, <2>1, TailCarries
  <2>3. \A g : Carries(Flushed(Tail(toGw), frames'), g) => Carries(Tail(toGw), g)
    BY <2>1, FlushedFacts
  <2> QED  BY <1>1, <2>1, <2>2, <2>3 DEF NextFrame
<1>2. ASSUME NEW f, NextFrame(f), Fail, toGw' = Flushed(Tail(toGw), frames')
      PROVE  Parts'
  <2>1. AppIsBootable'
    BY <1>1, <1>2, SameChip DEF Parts
  <2>2. eraseMayHaveStarted' = eraseMayHaveStarted
    BY <1>0, <1>2, FailFacts DEF Fail
  <2>3. BrokenImageIsRemembered'
    BY <1>1, <1>2, <2>2 DEF Parts, BrokenImageIsRemembered
  <2> QED  BY <1>0, <1>2, <2>1, <2>3, FailParts DEF Fail
<1>3. CASE OnPrepareRefused
  BY <1>2, <1>3 DEF OnPrepareRefused
<1>4. CASE OnPrepareAccepted
  <2>0. NextFrame("OK") /\ Installing
    BY <1>4 DEF OnPrepareAccepted
  <2>1. /\ toStm = <<>> /\ handoffSent /\ AtMostOne(toGw, "OK") /\ ~uartOwned
        /\ operation = "Idle" /\ stm # "Rom"
    BY <1>1, <2>0 DEF Parts, OneHandoff
  <2>2. CASE /\ toStm' \in Put(toStm, "COMMIT") /\ uartOwned' = TRUE /\ romStarted' = TRUE
             /\ toGw' = Tail(toGw)
             /\ UNCHANGED <<phase, target, declared, received, handoffSent,
                            awaitingHeartbeat, eraseMayHaveStarted, operation, offset,
                            readbackClean>>
    <3>1. ~Carries(toGw', "OK") /\ AtMostOne(toGw', "OK")
      BY <1>1, <2>0, <2>1, <2>2
    <3>2. Len(toStm') \in {0, 1} /\ toStm' \in Seq(Commands)
          /\ ~Carries(toStm', "PREPARE")
      <4>1. Len(toStm) = 0 /\ \A f : ~Carries(toStm, f)
        BY <2>1, NothingCarried
      <4>2. "COMMIT" \in Commands
        BY DEF Commands
      <4>3. /\ Len(toStm') \in {Len(toStm), Len(toStm) + 1} /\ toStm' \in Seq(Commands)
            /\ \A f : Carries(toStm', f) => Carries(toStm, f) \/ f = "COMMIT"
        BY <1>0, <2>2, <4>2, PutFacts
      <4> QED  BY <4>1, <4>3
    <3>3. OneHandoff'
      <4>1. toStm' # <<>> => Len(toStm') = 1
        BY <3>2
      <4>2. stm' # "Rom" /\ handoffSent' /\ operation' \notin LoaderAnswered
        BY <1>1, <2>0, <2>1, <2>2 DEF LoaderAnswered
      <4> QED  BY <3>1, <3>2, <4>1, <4>2 DEF OneHandoff
    <3>4. AppIsBootable'
      BY <1>1, <2>0, <2>2, SameChip DEF Parts
    <3>5. StagesInOrder' /\ ImageIsKnown'
      BY <2>0, <2>1, <2>2
         DEF Parts, StagesInOrder, ImageIsKnown, Installing, RomOperation
    <3>6. LoaderIsAlone' /\ VerifiedIsInFlash'
      BY <2>1, <2>2 DEF LoaderIsAlone, VerifiedIsInFlash, LoaderAnswered
    <3>7. BrokenImageIsRemembered'
      BY <1>1, <2>0, <2>2 DEF Parts, BrokenImageIsRemembered
    <3> QED  BY <3>3, <3>4, <3>5, <3>6, <3>7 DEF Parts
  <2> QED  BY <1>2, <1>4, <2>0, <2>2 DEF OnPrepareAccepted
<1>5. ASSUME NEW f, NextFrame(f), toGw' = Tail(toGw), UNCHANGED toStm,
             UNCHANGED <<phase, target, declared, uartOwned, handoffSent, romStarted,
                         awaitingHeartbeat, operation, offset, readbackClean>>,
             \/ eraseMayHaveStarted' = eraseMayHaveStarted
             \/ f = "HEARTBEAT"
      PROVE  Parts'
  <2>1. AppIsBootable'
    BY <1>1, <1>5, SameChip DEF Parts
  <2>2. OneHandoff' /\ ImageIsKnown' /\ StagesInOrder' /\ VerifiedIsInFlash'
    BY <1>1, <1>5
       DEF Parts, OneHandoff, ImageIsKnown, StagesInOrder, VerifiedIsInFlash, Installing
  <2>3. LoaderIsAlone'
    BY <1>1, <1>5 DEF Parts, LoaderIsAlone
  <2>4. BrokenImageIsRemembered'
    BY <1>1, <1>5 DEF Parts, BrokenImageIsRemembered, AppIsBootable
  <2> QED  BY <2>1, <2>2, <2>3, <2>4 DEF Parts
<1>6. CASE OnHeartbeat
  <2>1. NextFrame("HEARTBEAT") /\ toGw' = Tail(toGw) /\ UNCHANGED toStm
    BY <1>6 DEF OnHeartbeat
  <2>2. CASE Installing /\ awaitingHeartbeat
    <3>1. romStarted = FALSE
      BY <2>2, TypeParts DEF Parts, StagesInOrder, WorkTypes
    <3>2. /\ phase' = "Complete" /\ uartOwned' = FALSE /\ awaitingHeartbeat' = FALSE
          /\ operation' = "Idle" /\ romStarted' = FALSE
      BY <1>6, <2>2, <3>1 DEF OnHeartbeat
    <3>3. AppIsBootable'
      BY <1>1, <2>1, SameChip DEF Parts
    <3>4. BrokenImageIsRemembered'
      BY <1>1, <2>1 DEF Parts, BrokenImageIsRemembered, AppIsBootable
    <3> QED  BY <3>2, <3>3, <3>4, NotInstalling DEF Installing, ImageIsKnown
  <2>3. CASE ~(Installing /\ awaitingHeartbeat)
    BY <1>5, <1>6, <2>1, <2>3 DEF OnHeartbeat
  <2> QED  BY <2>2, <2>3
<1>7. CASE OnOtherFrame
  BY <1>5, <1>7 DEF OnOtherFrame, updateVars
<1> QED
  BY <1>3, <1>4, <1>6, <1>7 DEF OnFrame

\* A failing step of poll(): the chip as it then is must still tell the truth.
LEMMA PollFailsParts ==
    ASSUME TypeOK, FramesAreRead, Parts, NEW erase \in BOOLEAN, NEW f \in [Block -> Cell],
           PollFailsAfter(erase, f),
           stm' = "App" => Bootable(f),
           Carries(toGw, "HEARTBEAT") => Bootable(f),
           ~Bootable(f) /\ ~forgot => erase
    PROVE  Parts'
<1>1. \A g : Carries(toGw', g) => Carries(toGw, g)
  <2>1. toGw \in Seq(Answers) /\ Len(toGw) <= LineCap /\ 0 \in 0..Len(toGw)
    BY TypeParts DEF LineTypes
  <2> QED  BY <2>1, FlushedFacts DEF PollFailsAfter
<1>2. FailAfter(erase) /\ flash' = f /\ forgot' = forgot
  BY DEF PollFailsAfter, PollStep
<1>3. AppIsBootable'
  BY <1>1, <1>2 DEF AppIsBootable
<1>4. BrokenImageIsRemembered'
  BY <1>2, FailFacts DEF BrokenImageIsRemembered
<1> QED  BY <1>2, <1>3, <1>4, FailParts

\* Failing with the flash as it is.
LEMMA PlainFailParts ==
    ASSUME TypeOK, FramesAreRead, Parts, PollFails(flash),
           stm' = stm \/ stm' = "Rom" \/ stm' \in Starts(flash)
    PROVE  Parts'
<1>1. eraseMayHaveStarted \in BOOLEAN /\ flash \in [Block -> Cell]
  BY TypeParts DEF WorkTypes, ChipTypes
<1>2. stm' = "App" => Bootable(flash)
  BY StartsFacts DEF Parts, AppIsBootable
<1>3. /\ Carries(toGw, "HEARTBEAT") => Bootable(flash)
      /\ ~Bootable(flash) /\ ~forgot => eraseMayHaveStarted
  BY DEF Parts, AppIsBootable, BrokenImageIsRemembered
<1> QED  BY <1>1, <1>2, <1>3, PollFailsParts DEF PollFails

\* The hand-off keeps the parts.
LEMMA HandoffParts ==
    ASSUME TypeOK, FramesAreRead, Parts, Handoff PROVE Parts'
<1>1. CASE PollFails(flash) /\ UNCHANGED stm
  BY <1>1, PlainFailParts
<1>2. CASE SendPrepare
  <2>1. CASE PollStep /\ handoffSent' = TRUE /\ timer' = HandoffTimed
             /\ toStm' \in Put(toStm, "PREPARE")
             /\ UNCHANGED <<phase, target, declared, received, uartOwned, romStarted,
                            awaitingHeartbeat, eraseMayHaveStarted, operation, offset,
                            readbackClean, stm, prepared, flash, toGw>>
    <3>0. Installing /\ ~handoffSent
      BY <1>2 DEF SendPrepare
    <3>1. /\ toStm = <<>> /\ ~Carries(toGw, "OK") /\ AtMostOne(toGw, "OK")
          /\ ~uartOwned /\ ~romStarted /\ ~awaitingHeartbeat /\ operation = "Idle"
      BY <3>0 DEF Parts, OneHandoff, StagesInOrder
    <3>2. Len(toStm') \in {0, 1} /\ ~Carries(toStm', "COMMIT")
      <4>1. Len(toStm) = 0 /\ \A f : ~Carries(toStm, f)
        BY <3>1, NothingCarried
      <4>2. "PREPARE" \in Commands /\ toStm \in Seq(Commands) /\ Len(toStm) <= LineCap
        BY TypeParts DEF Commands, LineTypes
      <4>3. /\ Len(toStm') \in {Len(toStm), Len(toStm) + 1} /\ toStm' \in Seq(Commands)
            /\ \A f : Carries(toStm', f) => Carries(toStm, f) \/ f = "PREPARE"
        BY <2>1, <4>2, PutFacts
      <4> QED  BY <4>1, <4>3
    <3>3. toStm' # <<>> => Len(toStm') = 1
      <4>1. toStm' \in Seq(Commands)
        BY <1>2, HandoffTypes, TypeParts DEF Handoff, LineTypes
      <4> QED  BY <3>2, <4>1
    <3>4. OneHandoff'
      BY <2>1, <3>1, <3>2, <3>3 DEF OneHandoff, LoaderAnswered
    <3>5. ImageIsKnown' /\ StagesInOrder' /\ LoaderIsAlone' /\ VerifiedIsInFlash'
      BY <2>1, <3>1
         DEF Parts, ImageIsKnown, StagesInOrder, LoaderIsAlone, VerifiedIsInFlash,
             RomOperation, LoaderAnswered
    <3>6. AppIsBootable' /\ BrokenImageIsRemembered'
      BY <2>1 DEF Parts, AppIsBootable, BrokenImageIsRemembered, PollStep
    <3> QED  BY <3>4, <3>5, <3>6 DEF Parts
  <2> QED  BY <1>1, <1>2, <2>1 DEF SendPrepare
<1>3. CASE RomReady
  <2>1. /\ Installing /\ handoffSent /\ romStarted
        /\ romStarted' = FALSE /\ operation' = "RomBootloader"
        /\ UNCHANGED <<phase, target, declared, received, uartOwned, handoffSent,
                       awaitingHeartbeat, eraseMayHaveStarted, offset, readbackClean,
                       stm, prepared, flash, toStm, toGw, forgot>>
    BY <1>3 DEF RomReady, portVars, PollStep
  <2>2. uartOwned /\ operation = "Idle"
    BY <2>1 DEF Parts, StagesInOrder
  <2>3. awaitingHeartbeat = FALSE
    BY <2>2, TypeParts DEF Parts, StagesInOrder, WorkTypes
  <2>4. StagesInOrder'
    BY <2>1, <2>2, <2>3 DEF StagesInOrder, Installing
  <2>5. OneHandoff'
    BY <2>1, <2>2 DEF Parts, OneHandoff, Installing, LoaderAnswered
  <2>6. LoaderIsAlone' /\ VerifiedIsInFlash'
    BY <2>1 DEF LoaderIsAlone, VerifiedIsInFlash, LoaderAnswered
  <2>7. ImageIsKnown' /\ AppIsBootable' /\ BrokenImageIsRemembered'
    BY <2>1 DEF Parts, ImageIsKnown, AppIsBootable, BrokenImageIsRemembered
  <2> QED  BY <2>4, <2>5, <2>6, <2>7 DEF Parts
<1>4. CASE NothingDue
  BY <1>4 DEF NothingDue, PollStep, portVars, updateVars, Parts, ImageIsKnown, StagesInOrder,
              OneHandoff, AppIsBootable, LoaderIsAlone, VerifiedIsInFlash,
              BrokenImageIsRemembered, Installing
<1> QED
  BY <1>1, <1>2, <1>3, <1>4 DEF Handoff, HandoffTimesOut, HeartbeatTimesOut

\* While the loader is spoken to, nothing is under way to the STM32.
LEMMA NothingUnderWay ==
    ASSUME TypeOK, Parts, Installing, uartOwned, stm = "Rom"
    PROVE  toStm = <<>>
<1>1. ~Carries(toStm, "PREPARE") /\ ~Carries(toStm, "COMMIT")
  BY DEF Parts, OneHandoff
<1>2. toStm \in Seq({"PREPARE", "COMMIT"})
  BY TypeParts DEF LineTypes, Commands
<1>3. SUFFICES ASSUME toStm # <<>> PROVE FALSE
  OBVIOUS
<1>4. 1 \in 1..Len(toStm) /\ toStm[1] \in {"PREPARE", "COMMIT"}
  BY <1>2, <1>3
<1> QED  BY <1>1, <1>4 DEF Carries

\* A loader command that ends well keeps the hand-off, whatever it does to the flash.
LEMMA RomStepParts ==
    ASSUME TypeOK, Parts, Installing, handoffSent, operation \in RomOperation,
           NEW o \in LoaderAnswered, o # "AwaitHeartbeat",
           NEW k, NEW clean, NEW f, RomStep(o, k, clean, f),
           UNCHANGED <<uartOwned, awaitingHeartbeat, stm>>,
           toGw' = toGw \/ toGw' = <<>>
    PROVE  ImageIsKnown' /\ StagesInOrder' /\ OneHandoff'
<1>1. uartOwned /\ ~romStarted /\ ~awaitingHeartbeat
  BY DEF Parts, StagesInOrder, RomOperation
<1>2. toStm = <<>> /\ toStm' = toStm /\ stm = "Rom"
  BY <1>1, NothingUnderWay DEF RomStep
<1>3. UNCHANGED <<phase, target, declared, received, handoffSent, romStarted>>
      /\ operation' = o
  BY DEF RomStep
<1>4. ImageIsKnown'
  BY <1>3 DEF Parts, ImageIsKnown
<1>5. StagesInOrder'
  BY <1>1, <1>3 DEF Parts, StagesInOrder, Installing, LoaderAnswered
<1>6. ~Carries(toGw', "OK") /\ AtMostOne(toGw', "OK")
  BY <1>1, NothingCarried DEF Parts, OneHandoff
<1>7. \A g : ~Carries(toStm', g)
  BY <1>2, NothingCarried
<1>8. OneHandoff'
  BY <1>1, <1>2, <1>3, <1>6, <1>7 DEF OneHandoff
<1> QED  BY <1>4, <1>5, <1>8

\* A loader that has been told to erase or program, and what must still hold of it.
LEMMA LoaderParts ==
    ASSUME TypeOK, Parts, stm = "Rom", operation \in LoaderAnswered, stm' = stm,
           toGw' = toGw, eraseMayHaveStarted' = TRUE
    PROVE  AppIsBootable' /\ LoaderIsAlone' /\ BrokenImageIsRemembered'
  BY DEF Parts, AppIsBootable, LoaderIsAlone, BrokenImageIsRemembered

\* The ROM loader's operations keep the parts.
LEMMA LoadingParts ==
    ASSUME TypeOK, FramesAreRead, Parts, Loading PROVE Parts'
<1>0. /\ eraseMayHaveStarted \in BOOLEAN /\ flash \in [Block -> Cell]
      /\ offset \in 0..Blocks /\ readbackClean \in BOOLEAN
  BY TypeParts DEF WorkTypes, ChipTypes
<1>1. Installing /\ handoffSent /\ operation \in RomOperation
  BY DEF Loading, EnterRom, Erase, Program, ProgramEnds, Verify, VerifyEnds,
         StartApplication, InOperation, RomOperation
<1>2. declared \in Images
  BY <1>1 DEF Parts, ImageIsKnown, Installing
<1>3. CASE PollFails(flash)
           /\ (stm' = stm \/ stm' = "Rom" \/ stm' \in Starts(flash))
  BY <1>3, PlainFailParts
<1>4. CASE EnterRom
  <2>0. operation = "RomBootloader"
    BY <1>4 DEF EnterRom, InOperation
  <2>1. CASE RomStep("Erase", offset, readbackClean, flash) /\ toGw' = <<>>
             /\ UNCHANGED <<uartOwned, awaitingHeartbeat, eraseMayHaveStarted, timer, stm>>
    <3>1. ImageIsKnown' /\ StagesInOrder' /\ OneHandoff'
      BY <1>1, <2>1, RomStepParts DEF LoaderAnswered
    <3>2. operation' = "Erase" /\ flash' = flash /\ forgot' = forgot
      BY <2>1 DEF RomStep, PollStep
    <3>3. AppIsBootable' /\ LoaderIsAlone' /\ VerifiedIsInFlash'
      BY <2>1, <3>2, NothingCarried
         DEF Parts, AppIsBootable, LoaderIsAlone, VerifiedIsInFlash, ProgramsOrLater
    <3>4. BrokenImageIsRemembered'
      BY <2>1, <3>2 DEF Parts, BrokenImageIsRemembered
    <3> QED  BY <3>1, <3>3, <3>4 DEF Parts
  <2> QED  BY <1>3, <1>4, <2>1 DEF EnterRom
<1>5. CASE Erase
  <2>0. operation = "Erase" /\ operation \in LoaderAnswered
    BY <1>5 DEF Erase, InOperation, LoaderAnswered
  <2>1. CASE RomStep("Program", 0, readbackClean, Without(Block))
             /\ eraseMayHaveStarted' = TRUE
             /\ UNCHANGED <<uartOwned, awaitingHeartbeat, timer, stm, toGw>>
    <3>1. ImageIsKnown' /\ StagesInOrder' /\ OneHandoff'
      BY <1>1, <2>1, RomStepParts DEF LoaderAnswered
    <3>2. AppIsBootable' /\ LoaderIsAlone' /\ BrokenImageIsRemembered'
      BY <2>0, <2>1, LoaderParts DEF RomStep
    <3>3. VerifiedIsInFlash'
      BY <2>1 DEF RomStep, VerifiedIsInFlash
    <3> QED  BY <3>1, <3>2, <3>3 DEF Parts
  <2>2. CASE \E S \in IF stm = "Rom" THEN SUBSET Block ELSE {{}} :
               PollFailsAfter(TRUE, Without(S)) /\ UNCHANGED stm
    <3>1. PICK S : /\ PollFailsAfter(TRUE, Without(S)) /\ UNCHANGED stm
                   /\ stm # "Rom" => S = {}
      BY <2>2
    <3>2. Without(S) \in [Block -> Cell]
      BY FlashTypes
    <3>3. S = {} => Without(S) = flash
      BY <1>0 DEF Without
    <3>4. stm' = "App" => Bootable(Without(S))
      BY <3>1, <3>3 DEF Parts, AppIsBootable
    <3>5. Carries(toGw, "HEARTBEAT") => Bootable(Without(S))
      BY <2>0, <3>1, <3>3 DEF Parts, AppIsBootable, LoaderIsAlone
    <3> QED  BY <3>1, <3>2, <3>4, <3>5, PollFailsParts
  <2> QED  BY <1>5, <2>1, <2>2 DEF Erase, FlagBeforeErase
<1>6. CASE Program
  <2>0. operation = "Program" /\ operation \in LoaderAnswered
    BY <1>6 DEF Program, InOperation, LoaderAnswered
  <2>1. stm = "Rom" => eraseMayHaveStarted = TRUE /\ ~Carries(toGw, "HEARTBEAT")
    BY <1>0, <2>0 DEF Parts, LoaderIsAlone, ProgramsOrLater
  <2>2. offset + 1 \in Block /\ declared \in Cell /\ "damaged" \in Cell /\ "blank" \in Cell
    BY <1>2, <1>6, FlashTypes DEF Program, Cell
  <2>3. CASE \E v \in {declared, "damaged"} :
               /\ RomStep("Program", offset + 1, readbackClean, WithNext(v))
               /\ UNCHANGED <<uartOwned, awaitingHeartbeat, eraseMayHaveStarted, timer, stm,
                              toGw>>
    <3>1. PICK v : /\ RomStep("Program", offset + 1, readbackClean, WithNext(v))
                   /\ UNCHANGED <<uartOwned, awaitingHeartbeat, eraseMayHaveStarted, timer,
                                  stm, toGw>>
      BY <2>3
    <3>2. ImageIsKnown' /\ StagesInOrder' /\ OneHandoff'
      BY <1>1, <3>1, RomStepParts DEF LoaderAnswered
    <3>3. AppIsBootable' /\ LoaderIsAlone' /\ BrokenImageIsRemembered'
      BY <2>0, <2>1, <3>1, LoaderParts DEF RomStep
    <3>4. VerifiedIsInFlash'
      BY <3>1 DEF RomStep, VerifiedIsInFlash
    <3> QED  BY <3>2, <3>3, <3>4 DEF Parts
  <2>4. CASE \E v \in IF stm = "Rom" THEN {declared, "blank"} ELSE {flash[offset + 1]} :
               PollFails(WithNext(v)) /\ UNCHANGED stm
    <3>1. PICK v \in IF stm = "Rom" THEN {declared, "blank"} ELSE {flash[offset + 1]} :
            PollFails(WithNext(v)) /\ UNCHANGED stm
      BY <2>4
    <3>2. v \in Cell
      BY <1>0, <2>2, <3>1
    <3>3. WithNext(v) \in [Block -> Cell]
      BY <3>2, FlashTypes
    <3>4. stm # "Rom" => WithNext(v) = flash
      BY <1>0, <2>2, <3>1 DEF WithNext
    <3>5. stm' = "App" => Bootable(WithNext(v))
      BY <3>1, <3>4 DEF Parts, AppIsBootable
    <3>6. Carries(toGw, "HEARTBEAT") => Bootable(WithNext(v))
      BY <2>1, <3>4 DEF Parts, AppIsBootable
    <3>7. ~Bootable(WithNext(v)) /\ ~forgot => eraseMayHaveStarted
      BY <2>1, <3>4 DEF Parts, BrokenImageIsRemembered
    <3> QED  BY <1>0, <3>1, <3>3, <3>5, <3>6, <3>7, PollFailsParts DEF PollFails
  <2> QED  BY <1>6, <2>3, <2>4 DEF Program
<1>7. CASE ProgramEnds
  <2>1. /\ operation = "Program" /\ operation' = "Verify" /\ offset' = 0
        /\ UNCHANGED <<phase, target, declared, uartOwned, handoffSent, romStarted,
                       awaitingHeartbeat, eraseMayHaveStarted, stm, flash, toStm, toGw,
                       forgot>>
    BY <1>7 DEF ProgramEnds, InOperation, PollStep, portVars
  <2>2. \A b \in Block : ~(b <= 0)
    BY PortAssumption DEF Block
  <2>3. VerifiedIsInFlash'
    BY <2>1, <2>2 DEF VerifiedIsInFlash
  <2>4. StagesInOrder' /\ OneHandoff' /\ LoaderIsAlone'
    BY <2>1 DEF Parts, StagesInOrder, OneHandoff, LoaderIsAlone, Installing, RomOperation,
                LoaderAnswered, ProgramsOrLater
  <2>5. ImageIsKnown' /\ AppIsBootable' /\ BrokenImageIsRemembered'
    BY <2>1 DEF Parts, ImageIsKnown, AppIsBootable, BrokenImageIsRemembered
  <2> QED  BY <2>3, <2>4, <2>5 DEF Parts
<1>8. CASE Verify
  <2>0. operation = "Verify" /\ operation \in LoaderAnswered /\ operation \in ProgramsOrLater
    BY <1>8 DEF Verify, InOperation, LoaderAnswered, ProgramsOrLater
  <2>1. CASE \E misread \in BOOLEAN :
               /\ RomStep("Verify", offset + 1,
                          readbackClean /\ ReadsAsStaged(misread), flash)
               /\ UNCHANGED <<uartOwned, awaitingHeartbeat, eraseMayHaveStarted, timer, stm,
                              toGw>>
    <3>1. PICK misread \in BOOLEAN :
            /\ RomStep("Verify", offset + 1,
                       readbackClean /\ ReadsAsStaged(misread), flash)
            /\ UNCHANGED <<uartOwned, awaitingHeartbeat, eraseMayHaveStarted, timer, stm,
                           toGw>>
      BY <2>1
    <3>2. ImageIsKnown' /\ StagesInOrder' /\ OneHandoff'
      BY <1>1, <3>1, RomStepParts DEF LoaderAnswered
    <3>3. eraseMayHaveStarted' = TRUE
      BY <1>0, <2>0, <3>1 DEF Parts, LoaderIsAlone, RomStep
    <3>4. AppIsBootable' /\ LoaderIsAlone' /\ BrokenImageIsRemembered'
      BY <2>0, <3>1, <3>3, LoaderParts DEF RomStep
    <3>5. /\ operation' = "Verify" /\ offset' = offset + 1 /\ flash' = flash
          /\ declared' = declared
          /\ readbackClean' => readbackClean /\ flash[offset + 1] = declared
      BY <3>1 DEF RomStep, ReadsAsStaged
    <3>6. \A b \in Block : b <= offset + 1 => b <= offset \/ b = offset + 1
      BY <1>0, PortAssumption DEF Block
    <3>7. VerifiedIsInFlash'
      BY <2>0, <3>5, <3>6 DEF Parts, VerifiedIsInFlash
    <3> QED  BY <3>2, <3>4, <3>7 DEF Parts
  <2> QED  BY <1>3, <1>8, <2>1 DEF Verify
<1>9. CASE VerifyEnds
  <2>1. CASE /\ PollStep /\ operation' = "StartApplication" /\ readbackClean
             /\ UNCHANGED <<phase, target, declared, received, uartOwned, handoffSent,
                            romStarted, awaitingHeartbeat, eraseMayHaveStarted, offset,
                            readbackClean, timer, portVars>>
    <3>1. /\ operation = "Verify" /\ ~BlocksLeft
          /\ UNCHANGED <<stm, flash, toStm, toGw, forgot>>
      BY <1>9, <2>1 DEF VerifyEnds, InOperation, PollStep, portVars
    <3>2. \A b \in Block : b <= offset
      BY <1>0, <3>1, PortAssumption DEF BlocksLeft, Block
    <3>3. VerifiedIsInFlash'
      BY <2>1, <3>1, <3>2 DEF Parts, VerifiedIsInFlash, Holds
    <3>4. StagesInOrder' /\ OneHandoff' /\ LoaderIsAlone'
      BY <2>1, <3>1 DEF Parts, StagesInOrder, OneHandoff, LoaderIsAlone, Installing,
                        RomOperation, LoaderAnswered, ProgramsOrLater
    <3>5. ImageIsKnown' /\ AppIsBootable' /\ BrokenImageIsRemembered'
      BY <2>1, <3>1 DEF Parts, ImageIsKnown, AppIsBootable, BrokenImageIsRemembered
    <3> QED  BY <3>3, <3>4, <3>5 DEF Parts
  <2> QED  BY <1>3, <1>9, <2>1 DEF VerifyEnds
<1>10. CASE StartApplication
  <2>0. operation = "StartApplication"
    BY <1>10 DEF StartApplication, InOperation
  <2>1. CASE RomStep("AwaitHeartbeat", offset, readbackClean, flash)
             /\ stm' \in Starts(flash) /\ toGw' = <<>> /\ uartOwned' = FALSE
             /\ awaitingHeartbeat' = TRUE /\ timer' = Set({"heartbeat"}, "armed")
             /\ UNCHANGED eraseMayHaveStarted
    <3>1. /\ operation' = "AwaitHeartbeat" /\ flash' = flash /\ forgot' = forgot
          /\ UNCHANGED <<phase, target, declared, handoffSent, romStarted, toStm>>
          /\ stm = "Rom"
      BY <2>1 DEF RomStep, PollStep
    <3>2. stm' # "Rom" /\ (stm' = "App" => Bootable(flash))
      BY <2>1, StartsFacts
    <3>3. uartOwned /\ ~romStarted
      BY <2>0 DEF Parts, StagesInOrder, RomOperation
    <3>4. toStm = <<>>
      BY <1>1, <3>1, <3>3, NothingUnderWay
    <3>5. \A g : ~Carries(toStm', g) /\ ~Carries(toGw', g) /\ AtMostOne(toGw', g)
      BY <2>1, <3>1, <3>4, NothingCarried
    <3>6. OneHandoff'
      BY <1>1, <3>1, <3>4, <3>5 DEF OneHandoff
    <3>7. StagesInOrder' /\ ImageIsKnown'
      BY <1>1, <2>1, <3>1, <3>3
         DEF Parts, StagesInOrder, ImageIsKnown, Installing, RomOperation
    <3>8. AppIsBootable' /\ LoaderIsAlone'
      BY <3>1, <3>2, <3>5 DEF AppIsBootable, LoaderIsAlone
    <3>9. VerifiedIsInFlash' /\ BrokenImageIsRemembered'
      BY <2>0, <2>1, <3>1 DEF Parts, VerifiedIsInFlash, BrokenImageIsRemembered
    <3> QED  BY <3>6, <3>7, <3>8, <3>9 DEF Parts
  <2> QED  BY <1>3, <1>10, <2>1 DEF StartApplication
<1> QED
  BY <1>4, <1>5, <1>6, <1>7, <1>8, <1>9, <1>10 DEF Loading

\* A command the application takes was the only one under way.
LEMMA CommandTaken ==
    ASSUME TypeOK, Parts, toStm # <<>>, toStm' = Tail(toStm)
    PROVE  /\ Carries(toStm, Head(toStm))
           /\ \A f : Carries(toStm', f) => Carries(toStm, f)
           /\ Installing => toStm' = <<>> /\ handoffSent /\ ~Carries(toGw, "OK")
                            /\ operation \notin LoaderAnswered
<1>1. toStm \in Seq(Commands)
  BY TypeParts DEF LineTypes
<1>2. /\ Carries(toStm, Head(toStm)) /\ \A f : Carries(toStm', f) => Carries(toStm, f)
      /\ toStm' \in Seq(Commands) /\ Len(toStm') = Len(toStm) - 1
  BY <1>1, TailCarries
<1>3. ASSUME Installing
      PROVE  Len(toStm) = 1 /\ handoffSent /\ ~Carries(toGw, "OK")
             /\ operation \notin LoaderAnswered
  BY <1>3 DEF Parts, OneHandoff
<1> QED  BY <1>2, <1>3

\* What the master does by itself keeps the parts.
LEMMA MasterParts ==
    ASSUME TypeOK, Parts, Master PROVE Parts'
<1>0. /\ UNCHANGED <<phase, target, declared, uartOwned, handoffSent, romStarted,
                     awaitingHeartbeat, eraseMayHaveStarted, operation, offset,
                     readbackClean, forgot>>
      /\ flash' = flash
      /\ toGw \in Seq(Answers) /\ Len(toGw) <= LineCap
  BY TypeParts
     DEF Master, updateVars, Stm32, ServePrepare, ServeCommit, ExpirePrepared, SendHeartbeat,
         IgnoreFrame, LineTypes
<1>1. ImageIsKnown' /\ StagesInOrder' /\ VerifiedIsInFlash' /\ BrokenImageIsRemembered'
  BY <1>0 DEF Parts, ImageIsKnown, StagesInOrder, VerifiedIsInFlash,
              BrokenImageIsRemembered, Installing
<1>2. ASSUME NEW g \in Answers, toGw' \in Put(toGw, g)
      PROVE  /\ \A f : Carries(toGw', f) => Carries(toGw, f) \/ f = g
             /\ \A f : AtMostOne(toGw, f) /\ (f = g => ~Carries(toGw, f))
                         => AtMostOne(toGw', f)
  BY <1>0, <1>2, PutFacts
<1>3. "OK" \in Answers /\ "REFUSED" \in Answers /\ "COMMIT_DENIED" \in Answers
  BY DEF Answers
<1>4. ~Installing => operation \notin LoaderAnswered
  BY DEF Parts, StagesInOrder, LoaderAnswered
<1>5. CASE ServePrepare
  <2>1. /\ stm = "App" /\ stm' = "App" /\ toStm # <<>> /\ Head(toStm) = "PREPARE"
        /\ toStm' = Tail(toStm)
        /\ toGw' \in Put(toGw, "OK") \/ toGw' \in Put(toGw, "REFUSED")
    BY <1>5 DEF ServePrepare
  <2>2. \A f : f \notin {"OK", "REFUSED"} /\ Carries(toGw', f) => Carries(toGw, f)
    BY <1>2, <1>3, <2>1
  <2>3. AppIsBootable' /\ LoaderIsAlone'
    BY <1>0, <2>1, <2>2 DEF Parts, AppIsBootable, LoaderIsAlone
  <2>4. ASSUME Installing PROVE OneHandoff'
    <3>1. /\ Carries(toStm, "PREPARE") /\ toStm' = <<>> /\ handoffSent
          /\ ~Carries(toGw, "OK") /\ operation \notin LoaderAnswered
      BY <2>1, <2>4, CommandTaken
    <3>2. ~uartOwned /\ operation = "Idle" /\ AtMostOne(toGw, "OK")
      BY <2>4, <3>1 DEF Parts, OneHandoff
    <3>3. AtMostOne(toGw', "OK")
      BY <1>2, <1>3, <2>1, <3>1, <3>2
    <3> QED  BY <1>0, <2>1, <3>1, <3>2, <3>3 DEF OneHandoff
  <2>5. ASSUME ~Installing PROVE OneHandoff'
    BY <1>0, <2>5 DEF OneHandoff, Installing
  <2> QED  BY <1>1, <2>3, <2>4, <2>5 DEF Parts
<1>6. CASE ServeCommit
  <2>1. /\ stm = "App" /\ toStm # <<>> /\ Head(toStm) = "COMMIT" /\ toStm' = Tail(toStm)
        /\ toGw' = toGw \/ toGw' \in Put(toGw, "COMMIT_DENIED")
        /\ stm' \in {"App", "Rom"}
    BY <1>6 DEF ServeCommit
  <2>2. \A f : f # "COMMIT_DENIED" /\ Carries(toGw', f) => Carries(toGw, f)
    BY <1>2, <1>3, <2>1
  <2>3. AtMostOne(toGw, "OK") => AtMostOne(toGw', "OK")
    BY <1>2, <1>3, <2>1
  <2>4. operation \notin LoaderAnswered
    BY <1>4, <2>1, CommandTaken
  <2>5. AppIsBootable' /\ LoaderIsAlone'
    BY <1>0, <2>1, <2>2, <2>4 DEF Parts, AppIsBootable, LoaderIsAlone
  <2>6. ASSUME Installing PROVE OneHandoff'
    <3>1. toStm' = <<>> /\ handoffSent /\ ~Carries(toGw, "OK")
      BY <2>1, <2>6, CommandTaken
    <3>2. \A f : ~Carries(toStm', f)
      BY <3>1, NothingCarried
    <3>3. AtMostOne(toGw', "OK") /\ ~Carries(toGw', "OK")
      BY <2>2, <2>3, <2>6, <3>1 DEF Parts, OneHandoff
    <3> QED  BY <1>0, <3>1, <3>2, <3>3 DEF OneHandoff
  <2>7. ASSUME ~Installing PROVE OneHandoff'
    BY <1>0, <2>7 DEF OneHandoff, Installing
  <2> QED  BY <1>1, <2>5, <2>6, <2>7 DEF Parts
<1>7. CASE ExpirePrepared
  <2>1. UNCHANGED <<stm, toStm, toGw>>
    BY <1>7 DEF ExpirePrepared
  <2> QED
    BY <1>0, <1>1, <2>1 DEF Parts, OneHandoff, AppIsBootable, LoaderIsAlone, Installing
<1>8. CASE SendHeartbeat
  <2>1. /\ stm = "App" /\ stm' = "App" /\ toStm' = toStm
        /\ toGw' = Append(toGw, "HEARTBEAT")
    BY <1>8 DEF SendHeartbeat
  <2>2. /\ \A f : Carries(toGw', f) => Carries(toGw, f) \/ f = "HEARTBEAT"
        /\ AtMostOne(toGw, "OK") => AtMostOne(toGw', "OK")
    BY <1>0, <2>1, AppendCarries DEF Answers
  <2>3. ~Carries(toGw, "OK") => ~Carries(toGw', "OK")
    BY <2>2
  <2>4. AppIsBootable' /\ LoaderIsAlone'
    BY <1>0, <2>1, <2>2 DEF Parts, AppIsBootable, LoaderIsAlone
  <2>5. OneHandoff'
    BY <1>0, <2>1, <2>2, <2>3 DEF Parts, OneHandoff, Installing
  <2> QED  BY <1>1, <2>4, <2>5 DEF Parts
<1>9. CASE IgnoreFrame
  <2>1. stm' = stm /\ toGw' = toGw /\ toStm # <<>> /\ toStm' = Tail(toStm)
    BY <1>9 DEF IgnoreFrame
  <2>2. AppIsBootable' /\ LoaderIsAlone'
    BY <1>0, <2>1 DEF Parts, AppIsBootable, LoaderIsAlone
  <2>3. ASSUME Installing PROVE OneHandoff'
    <3>1. /\ toStm' = <<>> /\ handoffSent /\ ~Carries(toGw, "OK")
          /\ \A f : ~Carries(toStm', f)
      BY <2>1, <2>3, CommandTaken, NothingCarried
    <3> QED  BY <1>0, <2>1, <2>3, <3>1 DEF Parts, OneHandoff
  <2>4. ASSUME ~Installing PROVE OneHandoff'
    BY <1>0, <2>4 DEF OneHandoff, Installing
  <2> QED  BY <1>1, <2>2, <2>3, <2>4 DEF Parts
<1> QED
  BY <1>5, <1>6, <1>7, <1>8, <1>9 DEF Master, Stm32

\* Restarts of either side, a rescue by wire, and the steps that change nothing here.
LEMMA OtherParts ==
    ASSUME TypeOK, Parts,
           Restart \/ PowerCycleMaster \/ Recover \/ UNCHANGED <<portVars, updateVars, forgot>>
    PROVE  Parts'
<1>1. CASE Restart
  <2>1. AppIsBootable' /\ BrokenImageIsRemembered'
    BY <1>1, NothingCarried DEF Restart, Parts, AppIsBootable, BrokenImageIsRemembered
  <2> QED  BY <1>1, <2>1, NotInstalling DEF Restart, Installing, ImageIsKnown
<1>2. CASE PowerCycleMaster
  <2>1. /\ UNCHANGED <<phase, target, declared, uartOwned, handoffSent, romStarted,
                       awaitingHeartbeat, eraseMayHaveStarted, operation, offset,
                       readbackClean, forgot, flash, toGw>>
        /\ toStm' = <<>> /\ stm' # "Rom" /\ (stm' = "App" => Bootable(flash))
    BY <1>2, StartsFacts DEF PowerCycleMaster, PowerCycleStm32, updateVars
  <2>2. \A f : ~Carries(toStm', f)
    BY <2>1, NothingCarried
  <2>3. OneHandoff' /\ AppIsBootable' /\ LoaderIsAlone'
    BY <2>1, <2>2 DEF Parts, OneHandoff, AppIsBootable, LoaderIsAlone, Installing
  <2>4. ImageIsKnown' /\ StagesInOrder' /\ VerifiedIsInFlash' /\ BrokenImageIsRemembered'
    BY <2>1 DEF Parts, ImageIsKnown, StagesInOrder, VerifiedIsInFlash,
                BrokenImageIsRemembered, Installing
  <2> QED  BY <2>3, <2>4 DEF Parts
<1>3. CASE Recover
  <2>1. /\ ~Installing /\ UNCHANGED <<phase, target, declared, uartOwned, romStarted,
                                      awaitingHeartbeat, operation>>
        /\ \E i \in Images : flash' = [b \in Block |-> i]
    BY <1>3 DEF Recover, WiredRecovery, updateVars
  <2>2. Bootable(flash')
    BY <2>1 DEF Bootable
  <2>3. AppIsBootable' /\ BrokenImageIsRemembered'
    BY <2>2 DEF AppIsBootable, BrokenImageIsRemembered
  <2>4. ImageIsKnown' /\ ~Installing'
    BY <2>1 DEF Parts, ImageIsKnown, Installing
  <2> QED  BY <2>1, <2>3, <2>4, NothingStarted, NotInstalling DEF Parts
<1>4. CASE UNCHANGED <<portVars, updateVars, forgot>>
  BY <1>4 DEF portVars, updateVars, Parts, ImageIsKnown, StagesInOrder, OneHandoff,
              AppIsBootable, LoaderIsAlone, VerifiedIsInFlash, BrokenImageIsRemembered,
              Installing
<1> QED  BY <1>1, <1>2, <1>3, <1>4

-----------------------------------------------------------------------------
(* The theorems *)

\* Nothing has been uploaded, sent or broken when both sides come up.
LEMMA UpdateInit == Init => UpdateInv
<1> SUFFICES ASSUME Init PROVE UpdateInv
  OBVIOUS
<1>1. LineTypes /\ ChipTypes
  <2>1. LineTypes
    BY NothingCarried, PortAssumption DEF Init, PortInit, LineTypes
  <2>2. ChipTypes
    BY DEF Init, PortInit, ChipTypes, Cell
  <2> QED  BY <2>1, <2>2
<1>2. WorkTypes /\ TimerTypes /\ LoopTypes
  BY WorkNumbers DEF Init, WorkTypes, TimerTypes, LoopTypes, Operation
<1>3. TypeOK
  BY <1>1, <1>2, TypeParts
<1>4. FramesAreRead /\ ImageIsKnown
  BY <1>1 DEF Init, FramesAreRead, ImageIsKnown, LineTypes, PortInit
<1>5. ~Installing
  BY DEF Init, Installing
<1>6. Bootable(flash)
  BY DEF Init, PortInit, Bootable
<1>7. AppIsBootable /\ BrokenImageIsRemembered
  BY <1>6 DEF AppIsBootable, BrokenImageIsRemembered
<1>8. StagesInOrder /\ OneHandoff /\ LoaderIsAlone /\ VerifiedIsInFlash
  BY <1>5 DEF Init, StagesInOrder, OneHandoff, LoaderIsAlone, VerifiedIsInFlash,
              RomOperation, LoaderAnswered
<1> QED  BY <1>3, <1>4, <1>7, <1>8 DEF UpdateInv

\* Every step keeps it.
LEMMA UpdateStep == UpdateInv /\ [Next]_vars => UpdateInv'
<1> SUFFICES ASSUME UpdateInv, [Next]_vars PROVE UpdateInv'
  OBVIOUS
<1>0. TypeOK /\ FramesAreRead /\ Parts
  BY DEF UpdateInv, Parts
<1>1. TypeOK' /\ FramesAreRead'
  BY <1>0, TypesKept DEF Parts
<1>2. Parts'
  <2>1. CASE Http
    BY <1>0, <2>1, HttpParts
  <2>2. CASE OnFrame
    BY <1>0, <2>2, OnFrameParts
  <2>3. CASE Handoff
    BY <1>0, <2>3, HandoffParts
  <2>4. CASE Loading
    BY <1>0, <2>4, LoadingParts
  <2>5. CASE Master
    BY <1>0, <2>5, MasterParts
  <2>6. CASE Quiet
    BY <1>0, <2>6, QuietFacts, OtherParts
  <2>7. CASE Restart \/ PowerCycleMaster \/ Recover
    BY <1>0, <2>7, OtherParts
  <2>8. CASE UNCHANGED vars
    <3>1. UNCHANGED <<portVars, updateVars, forgot>>
      BY <2>8 DEF vars
    <3> QED  BY <1>0, <3>1, OtherParts
  <2> QED
    BY <2>1, <2>2, <2>3, <2>4, <2>5, <2>6, <2>7, <2>8, NextActions
<1> QED  BY <1>1, <1>2 DEF UpdateInv, Parts

\* The inductive invariant holds in every reachable state, for every set of images, image
\* size and line capacity.
THEOREM UpdateInvariance == Spec => []UpdateInv
  BY UpdateInit, UpdateStep, PTL DEF Spec

\* Every variable of the update, the line and the STM32 keeps its type.
THEOREM UpdateTypes == Spec => []TypeOK
<1>1. UpdateInv => TypeOK
  BY DEF UpdateInv
<1> QED  BY <1>1, UpdateInvariance, PTL

\* However an installation ends, the framed protocol has the UART back, and an STM32 that
\* may have lost its image is remembered until an application has been heard or the gateway
\* restarts.
THEOREM InstallationAccounted == Spec => []InstallationIsAccountedFor
<1>1. UpdateInv => InstallationIsAccountedFor
  BY DEF UpdateInv, InstallationIsAccountedFor, OwnershipOnlyWhileInstalling, StagesInOrder
<1> QED  BY <1>1, UpdateInvariance, PTL

\* Completion is reported only by the heartbeat that follows a verified image, and then the
\* STM32 holds the image the manifest announced.
THEOREM CompletionIsInstallation == Spec => CompleteMeansInstalled
<1>1. ASSUME UpdateInv, [Next]_vars
      PROVE  [phase' = "Complete" /\ phase # "Complete" => Holds(flash, declared)]_vars
  <2> SUFFICES ASSUME phase' = "Complete", phase # "Complete"
               PROVE  Holds(flash, declared)
    OBVIOUS
  <2>0. /\ TypeOK /\ FramesAreRead /\ Parts
        /\ \A erase \in BOOLEAN : ~FailAfter(erase)
        /\ eraseMayHaveStarted \in BOOLEAN
    <3>1. TypeOK /\ FramesAreRead /\ Parts
      BY <1>1 DEF UpdateInv, Parts
    <3>2. \A erase \in BOOLEAN : ~FailAfter(erase)
      BY FailFacts
    <3> QED  BY <3>1, <3>2, TypeParts DEF WorkTypes
  <2>1. ~Http
    BY <2>0 DEF Http, BeginUpload, WriteUpload, AbortUpload, FinishUpload, Fail
  <2>2. ~Handoff
    BY <2>0 DEF Handoff, SendPrepare, HandoffTimesOut, HeartbeatTimesOut, RomReady,
                NothingDue, PollFails, PollFailsAfter, updateVars
  <2>3. ~Loading
    BY <2>0 DEF Loading, EnterRom, Erase, FlagBeforeErase, Program, ProgramEnds, Verify,
                VerifyEnds, StartApplication, PollFails, PollFailsAfter, RomStep
  <2>4. ~Master /\ ~Restart /\ ~PowerCycleMaster /\ ~Recover
    BY DEF Master, Restart, PowerCycleMaster, Recover, updateVars
  <2>5. ~Quiet /\ ~UNCHANGED vars
    BY <2>0, QuietFacts DEF updateVars, vars
  <2>6. OnFrame
    <3>1. Next
      BY <1>1, <2>5
    <3> QED  BY <3>1, <2>1, <2>2, <2>3, <2>4, <2>5, NextActions
  <2>7. Installing /\ awaitingHeartbeat
    BY <2>0, <2>6 DEF OnFrame, OnPrepareAccepted, OnPrepareRefused, OnHeartbeat,
                      OnOtherFrame, Fail, updateVars
  <2> QED  BY <2>0, <2>7 DEF Parts, StagesInOrder, VerifiedIsInFlash
<1> QED  BY <1>1, UpdateInvariance, PTL DEF Spec, CompleteMeansInstalled

=============================================================================
