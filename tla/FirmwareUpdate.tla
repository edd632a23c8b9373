--------------------------- MODULE FirmwareUpdate ---------------------------
(***************************************************************************)
(* The gateway's firmware update (FirmwareUpdate.cpp) with the two places  *)
(* that drive it: the HTTP task, whose handler streams an image into flash *)
(* (GatewayApi.cpp), and the main loop, which reads the UART, confirms or  *)
(* rolls back a new gateway image and advances the update                  *)
(* (GatewayMain.cpp).  It is composed with the STM32 at the other end of   *)
(* the line (Stm32Port).                                                   *)
(*                                                                         *)
(* One call of beginUpload, writeUpload, finishUpload, onFrame or poll is  *)
(* one step: the two tasks share one core, and each function writes only   *)
(* in phases in which the other task's functions return at once.           *)
(*                                                                         *)
(* Time is a set of timers: armed, then passed at some later moment.       *)
(***************************************************************************)
EXTENDS Stm32Port

CONSTANT
    ExternalResets  \* may power of gateway or STM32 be cycled

ASSUME ResetsAssumption == ExternalResets \in BOOLEAN

Timer == {"handoff", "romReady", "heartbeat", "restart", "confirm"}

VARIABLES
    phase, target,          \* Status
    declared,               \* expectedCrc: the image the manifest announces
    received,               \* what the upload has stored so far
    uartOwned, handoffSent, romStarted, awaitingHeartbeat,
    eraseMayHaveStarted,
    operation, offset,      \* Stm32Operation and the block it is at
    readbackClean,          \* stm32ReadbackCrc: all blocks read back as staged
    timer,
    at, frames,             \* main loop: its place, frames left of the chunk read
    station, stableSince,   \* connected to the station network; the loop has seen it
    boot, newSlot,          \* running image confirmed?  other slot selected?
    forgot                  \* history: restarted while the STM32 had no image

updateVars == <<phase, target, declared, received, uartOwned, handoffSent, romStarted,
                awaitingHeartbeat, eraseMayHaveStarted, operation, offset, readbackClean>>
wifiVars == <<station, stableSince>>
vars == <<portVars, updateVars, timer, at, frames, wifiVars, boot, newSlot, forgot>>

Operation == {"Idle", "RomBootloader", "Erase", "Program", "Verify",
              "StartApplication", "AwaitHeartbeat"}

TypeOK ==
    /\ PortTypeOK
    /\ Len(toStm) <= LineCap /\ Len(toGw) <= LineCap
    /\ phase \in {"Idle", "Uploading", "Installing", "Complete", "Failed"}
    /\ target \in {"Gateway", "Stm32"}
    /\ declared \in Images \cup {"none"}
    /\ received \in {"part", "whole", "damaged"}
    /\ {uartOwned, handoffSent, romStarted, awaitingHeartbeat, eraseMayHaveStarted,
        readbackClean, station, stableSince, newSlot, forgot} \subseteq BOOLEAN
    /\ operation \in Operation
    /\ offset \in 0..Blocks
    /\ timer \in [Timer -> {"off", "armed", "passed"}]
    /\ at \in {"Start", "Read", "Frames", "Poll"}
    /\ frames \in 0..LineCap
    /\ boot \in {"Confirmed", "Pending"}

Init ==
    /\ PortInit
    /\ phase = "Idle" /\ target = "Gateway"
    /\ declared = "none" /\ received = "part"
    /\ uartOwned = FALSE /\ handoffSent = FALSE
    /\ romStarted = FALSE /\ awaitingHeartbeat = FALSE
    /\ eraseMayHaveStarted = FALSE
    /\ operation = "Idle" /\ offset = 0 /\ readbackClean = TRUE
    /\ timer = [t \in Timer |-> "off"]
    /\ at = "Start" /\ frames = 0
    /\ station = FALSE /\ stableSince = FALSE
    /\ boot = "Confirmed" /\ newSlot = FALSE
    /\ forgot = FALSE

Set(ts, v) == [t \in Timer |-> IF t \in ts THEN v ELSE timer[t]]

InstallTimers == {"handoff", "romReady", "heartbeat"}

-----------------------------------------------------------------------------
(* Shared by the handlers.                                                 *)

\* The image in work, its transfer state and CRC.  The code leaves the old values
\* and sets them anew before it reads them again.
WorkForgotten ==
    /\ declared' = "none" /\ received' = "part"
    /\ offset' = 0 /\ readbackClean' = TRUE

\* isAvailable(target): an image for the gateway also from the setup AP, which may
\* be up whenever the station is not (it is not kept here); one for the STM32 only
\* in the station network and not after an erase.
IsAvailable(t) ==
    /\ phase \notin {"Uploading", "Installing"}
    /\ t = "Stm32" => station /\ ~eraseMayHaveStarted

\* The normal UART configuration is restored and the main loop reads frames again.
UartReleasedBeforeSync == uartOwned' = (uartOwned /\ ~romStarted)
UartReleased == uartOwned' = FALSE

\* fail(), with the memory of the erase as it then is: the rest of the update is
\* reset, and an owned UART is flushed and given back.
FailAfter(erase) ==
    /\ phase' = "Failed"
    /\ handoffSent' = FALSE
    /\ romStarted' = FALSE
    /\ awaitingHeartbeat' = FALSE
    /\ operation' = "Idle"
    /\ timer' = Set(InstallTimers, "off")
    /\ UartReleased
    /\ eraseMayHaveStarted' = erase
    /\ WorkForgotten
    /\ UNCHANGED target

Fail == FailAfter(eraseMayHaveStarted)

\* The receive buffer after fail(): configureNormalUart flushes an owned UART,
\* but not the k frames the loop has already read.
Flushed(line, k) == IF uartOwned THEN SubSeq(line, 1, k) ELSE line

\* esp_restart() and power cycles.  A selected new slot boots as pending; a
\* pending image that restarts unconfirmed gives way to the confirmed one
\* (external: the ESP-IDF boot loader).
Restart ==
    /\ phase' = "Idle" /\ target' = "Gateway"
    /\ WorkForgotten
    /\ uartOwned' = FALSE /\ handoffSent' = FALSE
    /\ romStarted' = FALSE /\ awaitingHeartbeat' = FALSE
    /\ eraseMayHaveStarted' = FALSE
    /\ operation' = "Idle"
    /\ at' = "Start" /\ frames' = 0
    /\ station' = FALSE /\ stableSince' = FALSE
    /\ boot' = IF newSlot THEN "Pending" ELSE "Confirmed"
    /\ newSlot' = FALSE
    /\ timer' = [t \in Timer |-> IF t = "confirm" /\ newSlot THEN "armed" ELSE "off"]
    /\ forgot' = (forgot \/ ~Bootable(flash))
    /\ toGw' = <<>>
    /\ UNCHANGED <<stm, prepared, flash, toStm>>

-----------------------------------------------------------------------------
(* HTTP task: firmwareHandler.                                             *)

httpUnchanged == <<portVars, at, frames, wifiVars, boot, newSlot, forgot>>

\* Also the failure to open the slot or the staging area; a gateway image that
\* is itself unconfirmed cannot open one (external: esp_ota_begin).
BeginUpload(t, i) ==
    /\ IsAvailable(t)
    /\ target' = t
    /\ received' = "part"
    /\ handoffSent' = FALSE /\ romStarted' = FALSE /\ awaitingHeartbeat' = FALSE
    /\ operation' = "Idle"
    /\ timer' = Set(InstallTimers, "off")
    /\ \/ phase' = "Uploading" /\ declared' = i /\ (t = "Gateway" => boot = "Confirmed")
       \/ phase' = "Failed" /\ declared' = "none"
    /\ UNCHANGED <<uartOwned, eraseMayHaveStarted, offset, readbackClean>>
    /\ UNCHANGED httpUnchanged

\* The rest of the body arrives, as announced or not.
WriteUpload ==
    /\ phase = "Uploading" /\ received = "part"
    /\ received' \in {"whole", "damaged"}
    /\ UNCHANGED <<phase, target, declared, uartOwned, handoffSent, romStarted,
                   awaitingHeartbeat, eraseMayHaveStarted, operation, offset, readbackClean>>
    /\ UNCHANGED timer /\ UNCHANGED httpUnchanged

\* The client goes away or stalls, or a flash write fails.
AbortUpload ==
    /\ phase = "Uploading"
    /\ Fail
    /\ UNCHANGED httpUnchanged

\* An upload lasts seconds, a frame stays milliseconds on the line: no answer
\* to an earlier attempt is still under way when an upload ends (assumption).
UploadOutlastsLine ==
    /\ \A k \in 1..Len(toGw) : toGw[k] = "HEARTBEAT"
    /\ toStm = <<>>

FinishUpload ==
    /\ phase = "Uploading" /\ received # "part"
    /\ UploadOutlastsLine
    /\ \/ /\ received = "whole"
          /\ phase' = "Installing"
          /\ timer' = IF target = "Gateway" THEN Set({"restart"}, "armed") ELSE timer
          /\ newSlot' = (target = "Gateway")
          /\ UNCHANGED <<target, declared, received, uartOwned, handoffSent, romStarted,
                         awaitingHeartbeat, eraseMayHaveStarted, operation, offset,
                         readbackClean>>
       \/ /\ received = "damaged" \/ target = "Gateway"
          /\ Fail
          /\ UNCHANGED newSlot
    /\ UNCHANGED <<portVars, at, frames, wifiVars, boot, forgot>>

Http ==
    \/ BeginUpload("Gateway", "none")
    \/ \E i \in Images : BeginUpload("Stm32", i)
    \/ WriteUpload
    \/ AbortUpload
    \/ FinishUpload

-----------------------------------------------------------------------------
(* Main loop, in the order of GatewayMain.cpp: UART, boot check, poll().   *)

StartUp ==
    /\ at = "Start"
    /\ at' = "Read"
    /\ UNCHANGED <<portVars, updateVars, timer, frames, wifiVars, boot, newSlot, forgot>>

\* Wi-Fi, the HTTP server or MQTT does not start: roll back.
StartUpFails ==
    /\ at = "Start" /\ boot = "Pending"
    /\ Restart

\* One read takes the frames that have arrived; none while ROM bytes flow.
ReadUart ==
    /\ at = "Read"
    /\ at' = "Frames"
    /\ frames' = IF uartOwned THEN 0 ELSE Len(toGw)
    /\ UNCHANGED <<portVars, updateVars, timer, wifiVars, boot, newSlot, forgot>>

Installing == phase = "Installing" /\ target = "Stm32"

\* Every frame of the chunk goes to onFrame(), also after one of them has made
\* the update the owner of the UART.
NextFrame(f) ==
    /\ at = "Frames" /\ frames > 0
    /\ Head(toGw) = f
    /\ frames' = frames - 1
    /\ UNCHANGED <<at, wifiVars, boot, newSlot, forgot, stm, prepared, flash>>

\* An accepted PREPARE is answered by COMMIT, and COMMIT by nothing: from here
\* the UART belongs to the ROM protocol.
OnPrepareAccepted ==
    /\ NextFrame("OK")
    /\ Installing
    /\ \/ /\ toStm' \in Put(toStm, "COMMIT")
          /\ uartOwned' = TRUE
          /\ romStarted' = TRUE
          /\ timer' = [timer EXCEPT !["handoff"] = "off", !["romReady"] = "armed"]
          /\ toGw' = Tail(toGw)
          /\ UNCHANGED <<phase, target, declared, received, handoffSent, awaitingHeartbeat,
                         eraseMayHaveStarted, operation, offset, readbackClean>>
       \/ /\ Fail
          /\ toGw' = Flushed(Tail(toGw), frames')
          /\ UNCHANGED toStm

OnPrepareRefused ==
    /\ NextFrame("REFUSED")
    /\ Installing
    /\ Fail
    /\ toGw' = Flushed(Tail(toGw), frames')
    /\ UNCHANGED toStm

\* A heartbeat is proof of a running application, whoever installed it.
OnHeartbeat ==
    /\ NextFrame("HEARTBEAT")
    /\ toGw' = Tail(toGw)
    /\ eraseMayHaveStarted' = FALSE
    /\ IF Installing /\ awaitingHeartbeat
       THEN /\ phase' = "Complete"
            /\ uartOwned' = FALSE
            /\ awaitingHeartbeat' = FALSE
            /\ operation' = "Idle"
            /\ timer' = Set({"heartbeat"}, "off")
            /\ WorkForgotten
       ELSE UNCHANGED <<phase, uartOwned, awaitingHeartbeat, operation, timer,
                        declared, received, offset, readbackClean>>
    /\ UNCHANGED <<target, handoffSent, romStarted, toStm>>

\* An answer nobody waits for any more, and the denial of a COMMIT.
OnOtherFrame ==
    /\ \/ NextFrame("COMMIT_DENIED")
       \/ ~Installing /\ (NextFrame("OK") \/ NextFrame("REFUSED"))
    /\ toGw' = Tail(toGw)
    /\ UNCHANGED <<updateVars, timer, toStm>>

OnFrame == OnPrepareAccepted \/ OnPrepareRefused \/ OnHeartbeat \/ OnOtherFrame

\* A new gateway image is confirmed after ten seconds in the station network and
\* rolled back when it has not been after three minutes.
\* The ten seconds may have passed as soon as the loop has seen the station.
Stable == station /\ stableSince

FramesDone == at = "Frames" /\ frames = 0

OverdueOffline == timer["confirm"] = "passed" /\ ~station
Overdue == timer["confirm"] = "passed"

BootStep(timer1) ==
    /\ FramesDone
    /\ at' = "Poll"
    /\ timer' = timer1
    /\ UNCHANGED <<portVars, updateVars, frames, station, newSlot, forgot>>

NoBootCheck ==
    /\ boot = "Confirmed"
    /\ BootStep(timer)
    /\ UNCHANGED <<boot, stableSince>>

\* External: ESP-IDF may refuse to commit the image, the next loop tries again.
ConfirmBoot ==
    /\ boot = "Pending" /\ Stable
    /\ BootStep(Set({"confirm"}, "off"))
    /\ boot' = "Confirmed"
    /\ stableSince' = FALSE

WaitForStation ==
    /\ boot = "Pending" /\ ~Overdue
    /\ BootStep(timer)
    /\ stableSince' = station
    /\ UNCHANGED boot

RollBack ==
    /\ FramesDone
    /\ boot = "Pending" /\ Overdue
    /\ Restart

BootCheck == NoBootCheck \/ ConfirmBoot \/ WaitForStation \/ RollBack

-----------------------------------------------------------------------------
(* poll(): one step of the update per pass of the loop.                    *)

PollStep ==
    /\ at = "Poll"
    /\ at' = "Read"
    /\ UNCHANGED <<frames, wifiVars, boot, newSlot, forgot>>

\* What the ROM loader does with a command is in flash' and stm'; the frames that
\* the other side cannot have sent meanwhile stay away.
portBut == <<prepared, toStm>>

PollFailsAfter(erase, f) ==
    /\ PollStep
    /\ FailAfter(erase)
    /\ toGw' = Flushed(toGw, 0)
    /\ flash' = f
    /\ UNCHANGED portBut

PollFails(f) == PollFailsAfter(eraseMayHaveStarted, f)

RestartGateway ==
    /\ at = "Poll"
    /\ target = "Gateway" /\ phase = "Installing" /\ timer["restart"] = "passed"
    /\ Restart

HandoffUntimed == timer
HandoffTimed == Set({"handoff"}, "armed")

SendPrepare ==
    /\ Installing /\ ~handoffSent
    /\ \/ /\ PollStep
          /\ handoffSent' = TRUE
          /\ timer' = HandoffTimed
          /\ toStm' \in Put(toStm, "PREPARE")
          /\ UNCHANGED <<phase, target, declared, received, uartOwned, romStarted,
                         awaitingHeartbeat, eraseMayHaveStarted, operation, offset,
                         readbackClean, stm, prepared, flash, toGw>>
       \/ PollFails(flash) /\ UNCHANGED stm

HandoffTimesOut ==
    /\ Installing /\ handoffSent
    /\ ~romStarted /\ timer["handoff"] = "passed"
    /\ PollFails(flash) /\ UNCHANGED stm

HeartbeatTimesOut ==
    /\ Installing /\ awaitingHeartbeat /\ timer["heartbeat"] = "passed"
    /\ PollFails(flash) /\ UNCHANGED stm

\* The loader has had its 200 ms to start.
RomReady ==
    /\ Installing /\ handoffSent /\ romStarted /\ timer["romReady"] = "passed"
    /\ PollStep
    /\ romStarted' = FALSE
    /\ operation' = "RomBootloader"
    /\ timer' = Set({"romReady"}, "off")
    /\ UNCHANGED <<phase, target, declared, received, uartOwned, handoffSent,
                   awaitingHeartbeat, eraseMayHaveStarted, offset, readbackClean, portVars>>

\* A loader command that ends well moves on to operation o at block k.
RomStep(o, k, clean, f) ==
    /\ PollStep
    /\ stm = "Rom"
    /\ operation' = o
    /\ offset' = k
    /\ readbackClean' = clean
    /\ flash' = f
    /\ UNCHANGED <<phase, target, declared, received, handoffSent, romStarted,
                   prepared, toStm>>

InOperation(o) == Installing /\ handoffSent /\ operation = o

\* Blocks S of the flash erased.
Without(S) == [b \in Block |-> IF b \in S THEN "blank" ELSE flash[b]]

EnterRom ==
    /\ InOperation("RomBootloader")
    /\ \/ /\ RomStep("Erase", offset, readbackClean, flash)
          /\ toGw' = <<>>
          /\ UNCHANGED <<uartOwned, awaitingHeartbeat, eraseMayHaveStarted, timer, stm>>
       \/ PollFails(flash) /\ UNCHANGED stm

\* The flag is up before the first byte of the command; a failed erase may have
\* lost any part of the flash, if the loader heard it.
FlagOnceErased == eraseMayHaveStarted
FlagBeforeErase == TRUE

Erase ==
    /\ InOperation("Erase")
    /\ \/ /\ RomStep("Program", 0, readbackClean, Without(Block))
          /\ eraseMayHaveStarted' = TRUE
          /\ UNCHANGED <<uartOwned, awaitingHeartbeat, timer, stm, toGw>>
       \/ /\ \E S \in IF stm = "Rom" THEN SUBSET Block ELSE {{}} :
                PollFailsAfter(FlagBeforeErase, Without(S))
          /\ UNCHANGED stm

\* Blocks of the image that are still to be written, or read back.
BlocksLeft == offset < Blocks

\* The loader checks the bytes of the command, not those in the flash cells.
WithNext(v) == [flash EXCEPT ![offset + 1] = v]

Program ==
    /\ InOperation("Program") /\ BlocksLeft
    /\ \/ \E v \in {declared, "damaged"} :
            /\ RomStep("Program", offset + 1, readbackClean, WithNext(v))
            /\ UNCHANGED <<uartOwned, awaitingHeartbeat, eraseMayHaveStarted, timer, stm, toGw>>
       \/ /\ \E v \in IF stm = "Rom" THEN {declared, "blank"} ELSE {flash[offset + 1]} :
                PollFails(WithNext(v))
          /\ UNCHANGED stm

ProgramEnds ==
    /\ InOperation("Program") /\ ~BlocksLeft
    /\ PollStep
    /\ operation' = "Verify" /\ offset' = 0 /\ readbackClean' = TRUE
    /\ UNCHANGED <<phase, target, declared, received, uartOwned, handoffSent, romStarted,
                   awaitingHeartbeat, eraseMayHaveStarted, timer, portVars>>

\* The read-back block enters the CRC; misread, it spoils it.
CountsAsStaged(misread) == TRUE
ReadsAsStaged(misread) == ~misread /\ flash[offset + 1] = declared

Verify ==
    /\ InOperation("Verify") /\ BlocksLeft
    /\ \/ \E misread \in BOOLEAN :
            /\ RomStep("Verify", offset + 1,
                       readbackClean /\ ReadsAsStaged(misread), flash)
            /\ UNCHANGED <<uartOwned, awaitingHeartbeat, eraseMayHaveStarted, timer, stm, toGw>>
       \/ PollFails(flash) /\ UNCHANGED stm

VerifyEnds ==
    /\ InOperation("Verify") /\ ~BlocksLeft
    /\ IF readbackClean
       THEN /\ PollStep
            /\ operation' = "StartApplication"
            /\ UNCHANGED <<phase, target, declared, received, uartOwned, handoffSent,
                           romStarted, awaitingHeartbeat, eraseMayHaveStarted, offset,
                           readbackClean, timer, portVars>>
       ELSE PollFails(flash) /\ UNCHANGED stm

\* Go: the loader jumps to the application, and may do so without being heard.
StartApplication ==
    /\ InOperation("StartApplication")
    /\ \/ /\ RomStep("AwaitHeartbeat", offset, readbackClean, flash)
          /\ stm' \in Starts(flash)
          /\ toGw' = <<>>
          /\ uartOwned' = FALSE
          /\ awaitingHeartbeat' = TRUE
          /\ timer' = Set({"heartbeat"}, "armed")
          /\ UNCHANGED eraseMayHaveStarted
       \/ /\ PollFails(flash)
          /\ stm' \in IF stm = "Rom" THEN {"Rom"} \cup Starts(flash) ELSE {stm}

\* Nothing is due: no installation, or a deadline that is still to pass.
NothingDue ==
    /\ ~(target = "Gateway" /\ phase = "Installing" /\ timer["restart"] = "passed")
    /\ Installing =>
        /\ handoffSent
        /\ operation \in {"Idle", "AwaitHeartbeat"}
        /\ "passed" \notin {timer[t] : t \in InstallTimers}
    /\ PollStep
    /\ UNCHANGED <<portVars, updateVars, timer>>

Poll ==
    \/ RestartGateway
    \/ SendPrepare \/ HandoffTimesOut \/ HeartbeatTimesOut \/ RomReady
    \/ EnterRom \/ Erase \/ Program \/ ProgramEnds \/ Verify \/ VerifyEnds
    \/ StartApplication
    \/ NothingDue

MainLoop == StartUp \/ StartUpFails \/ ReadUart \/ OnFrame \/ BootCheck \/ Poll

-----------------------------------------------------------------------------
(* Time, Wi-Fi and power.                                                  *)

Elapse(t) ==
    /\ timer[t] = "armed"
    /\ timer' = [timer EXCEPT ![t] = "passed"]
    /\ UNCHANGED <<portVars, updateVars, at, frames, wifiVars, boot, newSlot, forgot>>

\* External: the station connects and drops.
SetStation ==
    /\ at # "Start"
    /\ station' = ~station
    /\ UNCHANGED <<portVars, updateVars, timer, at, frames, stableSince, boot, newSlot, forgot>>

PowerCycleGateway ==
    /\ ExternalResets
    /\ Restart

PowerCycleMaster ==
    /\ ExternalResets
    /\ PowerCycleStm32
    /\ UNCHANGED <<updateVars, timer, at, frames, wifiVars, boot, newSlot, forgot>>

\* Nobody flashes by wire while an installation runs (assumption).
Recover ==
    /\ ~Installing
    /\ WiredRecovery
    /\ forgot' = FALSE
    /\ UNCHANGED <<updateVars, timer, at, frames, wifiVars, boot, newSlot>>

Master ==
    /\ Stm32
    /\ UNCHANGED <<updateVars, timer, at, frames, wifiVars, boot, newSlot, forgot>>

Next ==
    \/ Http
    \/ MainLoop
    \/ Master
    \/ \E t \in Timer : Elapse(t)
    \/ SetStation
    \/ PowerCycleGateway \/ PowerCycleMaster \/ Recover

Spec == Init /\ [][Next]_vars

\* The main loop is a task that never blocks for good, and time passes: of an
\* installation one timer is armed at a time.  Nothing is assumed of clients, the
\* network, the line or the STM32, nor that the network ever stays stable.
Fairness ==
    /\ WF_vars(MainLoop)
    /\ WF_vars(\E t \in InstallTimers \cup {"restart"} : Elapse(t))
    /\ WF_vars(Elapse("confirm"))

FairSpec == Spec /\ Fairness

-----------------------------------------------------------------------------
(* Properties.                                                             *)

\* The framed protocol is without the UART only while an STM32 image is being
\* installed: every way out of an installation, failed or not, gives it back.
\* Otherwise the main loop would never read a frame again.
OwnershipOnlyWhileInstalling == uartOwned => Installing

\* While the STM32 holds no bootable image the gateway remembers that an erase
\* may have begun, unless it has itself restarted since: no failure, late
\* heartbeat or power cycle of the STM32 clears the memory too early.
BrokenImageIsRemembered == ~Bootable(flash) /\ ~forgot => eraseMayHaveStarted

\* The two together: what an installation borrowed or broke is accounted for on
\* every way out of it.
InstallationIsAccountedFor ==
    OwnershipOnlyWhileInstalling /\ BrokenImageIsRemembered

\* The gateway reports completion only when the STM32 holds the uploaded image,
\* whole, however the blocks were damaged or misread on the way.
CompleteMeansInstalled ==
    [][phase' = "Complete" /\ phase # "Complete" => Holds(flash, declared)]_vars

\* An accepted upload does not stay in "Installing": lost answers, a dead loader
\* and an application that never speaks all end it.
InstallationEnds == phase = "Installing" ~> phase # "Installing"

\* A new gateway image is confirmed or rolled back, however the network behaves.
PendingBootEnds == boot = "Pending" ~> boot = "Confirmed"

\* uart-v1.md: after a failure the gateway rejects further STM32 updates until it
\* observes a heartbeat of the application.
RejectsUntilRecovered == ~Bootable(flash) => ~IsAvailable("Stm32")

=============================================================================
