-------------------------------- MODULE BmsUart --------------------------------
(***************************************************************************)
(* The services of the master's UART task (BmsUart.cpp) over its two       *)
(* links, the Gateway's UART and a USB host, and the register mailbox to   *)
(* the BMS task (SlaveController.cpp).  The interrupts put valid frames    *)
(* into one queue; the task answers each at once, but a register read is   *)
(* left pending until the BMS task, which reads registers only while it    *)
(* runs, has answered through the mailbox or the deadline has passed.      *)
(*                                                                         *)
(* A read accepted gets a ticket, which stands for its register: what the  *)
(* monitor is read for carries the ticket.  Tickets repeat after Tickets   *)
(* reads.  Times count in ticks, the register deadline is ReadTimeout and  *)
(* the USB host is alive for UsbLoss after a heartbeat.                    *)
(***************************************************************************)
EXTENDS Integers, Sequences

VARIABLES
  rxQueue,       \* of frames
  pending,       \* pendingRegisterRead
  timer,         \* ticks until its deadline, down to 0
  usbTimer,      \* ticks the USB host is still alive
  registerRequest, registerBusy, registerResponse,   \* the mailbox
  reading,       \* the register the BMS task is reading, NoRegister for none
  update,        \* "none", "prepared" or "locked": PCC's firmware update
  ticket,        \* of the next read
  sent           \* the answer sent in this step, for the properties

vars == <<rxQueue, pending, timer, usbTimer, registerRequest, registerBusy,
          registerResponse, reading, update, ticket, sent>>

Links == {"Uart", "Usb"}
Tickets == 1..3
NoRegister == 0
Failed == 4                 \* a read the monitor did not answer
RX_QUEUE_DEPTH == 2         \* 3
ReadTimeout == 1            \* REGISTER_READ_TIMEOUT_MS, 500
UsbLoss == 2                \* USB_COMPANION_LOSS_MS, 1500

\* What a frame asks for: READ_REGISTER, or any service that is answered at once.
Services == {"read", "other"}
Requests == [link : Links, service : Services]
Heartbeat == [link |-> "Usb", service |-> "heartbeat"]
NoRead == [link |-> "Uart", ticket |-> NoRegister]
NoAnswer == [link |-> "Uart", result |-> "none", value |-> NoRegister, asked |-> NoRegister]

mailbox == <<registerRequest, registerBusy, registerResponse, reading>>

-----------------------------------------------------------------------------
(* The interrupts: enqueueFrameFromIsr, enqueueUsbCandidateFromIsr.  A frame that *)
(* finds the queue full is dropped, whatever it is.                               *)

Enqueue(frame) ==
  rxQueue' = IF Len(rxQueue) < RX_QUEUE_DEPTH THEN Append(rxQueue, frame) ELSE rxQueue

ReceiveRequest(request) ==
  /\ Enqueue(request) /\ sent' = NoAnswer
  /\ UNCHANGED <<pending, timer, usbTimer, mailbox, update, ticket>>

ReceiveHeartbeat ==
  /\ Enqueue(Heartbeat) /\ sent' = NoAnswer
  /\ UNCHANGED <<pending, timer, usbTimer, mailbox, update, ticket>>

-----------------------------------------------------------------------------
(* The UART task. *)

\* sendServiceResponse
Answer(link, result, value, asked) ==
  sent' = [link |-> link, result |-> result, value |-> value, asked |-> asked]

Refuse(link, result) == Answer(link, result, NoRegister, NoRegister)

\* The last answer stays ready (for mutation).
KeepResponse == registerResponse

EmptyResponse == NoRegister

\* SlaveController::requestRegister, once the mailbox is free.
requestRegister(register) ==
  /\ registerRequest' = register /\ registerBusy' = TRUE
  /\ registerResponse' = EmptyResponse
  /\ UNCHANGED reading

\* A frame from the queue; processPendingRegisterRead waits until it is empty.
Take(frame) == rxQueue # <<>> /\ Head(rxQueue) = frame /\ rxQueue' = Tail(rxQueue)

TakeHeartbeat ==
  /\ Take(Heartbeat) /\ usbTimer' = UsbLoss /\ sent' = NoAnswer
  /\ UNCHANGED <<pending, timer, mailbox, update, ticket>>

\* What a request is refused for: an update that is committed or prepared, a pending
\* read and, for a read, a mailbox that still holds one.
Refusal(service) ==
  IF update = "locked" THEN "DENIED"
  ELSE IF update = "prepared" \/ pending # NoRead THEN "BUSY"
  ELSE IF service = "read" /\ registerBusy THEN "DENIED" ELSE "none"

\* processServiceRequest: a USB host that is not alive is not answered.
TakeRequest(request) ==
  /\ Take(request)
  /\ UNCHANGED <<usbTimer, update>>
  /\ IF request.link = "Usb" /\ usbTimer = 0
     THEN sent' = NoAnswer /\ UNCHANGED <<pending, timer, mailbox, ticket>>
     ELSE IF Refusal(request.service) # "none"
     THEN Refuse(request.link, Refusal(request.service)) /\ UNCHANGED <<pending, timer, mailbox, ticket>>
     ELSE IF request.service = "read"
     THEN /\ requestRegister(ticket) /\ ticket' = (ticket % 3) + 1
          /\ pending' = [link |-> request.link, ticket |-> ticket]
          /\ timer' = ReadTimeout /\ sent' = NoAnswer
     ELSE Refuse(request.link, "OK") /\ UNCHANGED <<pending, timer, mailbox, ticket>>

\* takeRegisterResponse, and the answer.
TakeResponse ==
  /\ rxQueue = <<>> /\ pending # NoRead /\ registerResponse # NoRegister
  /\ IF registerResponse = Failed THEN Refuse(pending.link, "DENIED")
     ELSE Answer(pending.link, "OK", registerResponse, pending.ticket)
  /\ registerResponse' = NoRegister /\ pending' = NoRead
  /\ UNCHANGED <<rxQueue, timer, usbTimer, registerRequest, registerBusy, reading, update, ticket>>

\* The deadline: the mailbox keeps the request.
GiveUp ==
  /\ rxQueue = <<>> /\ pending # NoRead /\ registerResponse = NoRegister /\ timer = 0
  /\ Refuse(pending.link, "DENIED") /\ pending' = NoRead
  /\ UNCHANGED <<rxQueue, timer, usbTimer, mailbox, update, ticket>>

-----------------------------------------------------------------------------
(* The BMS task: handleRegisterRequests, in two critical sections around the read. *)

BeginRead ==
  /\ registerBusy /\ reading = NoRegister /\ reading' = registerRequest
  /\ sent' = NoAnswer
  /\ UNCHANGED <<rxQueue, pending, timer, usbTimer, registerRequest, registerBusy,
                 registerResponse, update, ticket>>

EndRead(value) ==
  /\ reading # NoRegister /\ value \in {reading, Failed}
  /\ registerResponse' = value /\ registerRequest' = NoRegister /\ registerBusy' = FALSE
  /\ reading' = NoRegister /\ sent' = NoAnswer
  /\ UNCHANGED <<rxQueue, pending, timer, usbTimer, update, ticket>>

-----------------------------------------------------------------------------

Tick ==
  /\ timer > 0 \/ usbTimer > 0
  /\ timer' = IF timer > 0 THEN timer - 1 ELSE 0
  /\ usbTimer' = IF usbTimer > 0 THEN usbTimer - 1 ELSE 0
  /\ sent' = NoAnswer
  /\ UNCHANGED <<rxQueue, pending, mailbox, update, ticket>>

\* PCC prepares, commits or gives up an update.
SetUpdate(state) ==
  /\ update' = state /\ sent' = NoAnswer
  /\ UNCHANGED <<rxQueue, pending, timer, usbTimer, mailbox, ticket>>

Init ==
  /\ rxQueue = <<>> /\ pending = NoRead /\ timer = 0 /\ usbTimer = 0
  /\ registerRequest = NoRegister /\ registerBusy = FALSE /\ registerResponse = NoRegister
  /\ reading = NoRegister /\ update = "none"
  /\ ticket = 1 /\ sent = NoAnswer

Next ==
  \/ \E r \in Requests : ReceiveRequest(r) \/ TakeRequest(r)
  \/ ReceiveHeartbeat \/ TakeHeartbeat \/ TakeResponse \/ GiveUp
  \/ BeginRead \/ \E v \in Tickets \cup {Failed} : EndRead(v)
  \/ Tick \/ \E u \in {"none", "prepared", "locked"} : SetUpdate(u)

Spec == Init /\ [][Next]_vars

-----------------------------------------------------------------------------

TypeOK ==
  /\ Len(rxQueue) <= RX_QUEUE_DEPTH /\ timer \in 0..ReadTimeout /\ usbTimer \in 0..UsbLoss
  /\ {registerRequest, reading, pending.ticket} \subseteq Tickets \cup {NoRegister}
  /\ registerResponse \in Tickets \cup {NoRegister, Failed}

\* A register read is answered with what was read for it, never with the late answer
\* to a read that was given up.
ReadsGetTheirOwnAnswer == sent.value = sent.asked

=================================================================================
