------------------------------ MODULE BmsUartLink ------------------------------
(***************************************************************************)
(* The receiving side of BmsUart.cpp: the interrupts that end a reception, *)
(* count a valid frame as a sign of life and arm the DMA again, and the    *)
(* UART task, which recovers a receiver that failed or a link that is      *)
(* silent.  The interrupts run between any two steps of the task, and      *)
(* other tasks of its priority may hold it up for MaxPreempted ticks.      *)
(*                                                                         *)
(* Times are kept as ages in ticks of the interrupt timer, up to the age   *)
(* where they no longer matter; a difference of 32-bit times that is       *)
(* negative is a huge one.                                                 *)
(***************************************************************************)
EXTENDS Integers

VARIABLES
  armed,        \* external: the DMA receives
  rxRecoveryRequested,
  hasValidGatewayFrame,
  sinceFrame,   \* the age of lastValidGatewayFrameMs
  sinceStart,   \* the age of uartStartedMs
  untilAttempt, \* nextRxRecoveryAttemptMs less the time
  pc,           \* of the task: "idle", "check", "clear", "abort", "arm"
  sinceNow,     \* the age of the task's sample of the clock
  why,          \* what the task recovers from: "request" or "silence"
  wasSilent     \* the link has been silent for GATEWAY_LOSS_MS, for the properties

vars == <<armed, rxRecoveryRequested, hasValidGatewayFrame, sinceFrame, sinceStart,
          untilAttempt, pc, sinceNow, why, wasSilent>>

GATEWAY_LOSS_MS == 3         \* 1500
RX_RECOVERY_RETRY_MS == 2    \* 1000
MaxPreempted == 1
MaxAge == GATEWAY_LOSS_MS + MaxPreempted
MinUntil == -MaxPreempted

AtMost(a, b) == IF a < b THEN a ELSE b
AtLeast(a, b) == IF a > b THEN a ELSE b

Tick ==
  /\ pc # "idle" => sinceNow < MaxPreempted
  /\ sinceNow' = IF pc = "idle" THEN 0 ELSE sinceNow + 1
  /\ sinceFrame' = AtMost(sinceFrame + 1, MaxAge)
  /\ sinceStart' = AtMost(sinceStart + 1, MaxAge)
  /\ wasSilent' = (wasSilent \/ sinceFrame' >= GATEWAY_LOSS_MS)
  /\ untilAttempt' = AtLeast(untilAttempt - 1, MinUntil)
  /\ UNCHANGED <<armed, rxRecoveryRequested, hasValidGatewayFrame, pc, why>>

-----------------------------------------------------------------------------
(* The interrupts. *)

\* armReceiveDma; whether the HAL takes the reception is external.
armReceiveDma(taken) ==
  /\ armed' = taken
  /\ rxRecoveryRequested' = (~taken \/ rxRecoveryRequested)

\* onHalRxEvent: a burst of bytes, which completes a valid frame or does not.
onHalRxEvent(complete, taken) ==
  /\ armed /\ armReceiveDma(taken)
  /\ hasValidGatewayFrame' = (complete \/ hasValidGatewayFrame)
  /\ sinceFrame' = IF complete THEN 0 ELSE sinceFrame
  /\ UNCHANGED <<sinceStart, untilAttempt, pc, sinceNow, why, wasSilent>>

\* onError: the HAL has ended the reception.
onError ==
  /\ armed /\ armed' = FALSE /\ rxRecoveryRequested' = TRUE
  /\ UNCHANGED <<hasValidGatewayFrame, sinceFrame, sinceStart, untilAttempt, pc, sinceNow, why,
                 wasSilent>>

-----------------------------------------------------------------------------
(* The task. *)

Elapsed(age, limit) == age - sinceNow < 0 \/ age - sinceNow >= limit

gatewayLinkLostAt ==
  /\ Elapsed(sinceStart, GATEWAY_LOSS_MS)
  /\ ~hasValidGatewayFrame \/ Elapsed(sinceFrame, GATEWAY_LOSS_MS)

Sample ==
  /\ pc = "idle" /\ pc' = "check" /\ sinceNow' = 0
  /\ UNCHANGED <<armed, rxRecoveryRequested, hasValidGatewayFrame, sinceFrame, sinceStart,
                 untilAttempt, why, wasSilent>>

Due == sinceNow + untilAttempt <= 0

NextAttempt(needed) == IF needed THEN RX_RECOVERY_RETRY_MS - sinceNow ELSE untilAttempt

NeedsRecovery == (rxRecoveryRequested \/ gatewayLinkLostAt) /\ Due

\* processReceiveRecovery, its checks.
Check ==
  /\ pc = "check"
  /\ why' = IF rxRecoveryRequested THEN "request" ELSE "silence"
  /\ pc' = IF NeedsRecovery THEN "clear" ELSE "idle"
  /\ untilAttempt' = NextAttempt(NeedsRecovery)
  /\ UNCHANGED <<armed, rxRecoveryRequested, hasValidGatewayFrame, sinceFrame, sinceStart, sinceNow,
                 wasSilent>>

\* The request is cleared before the abort.
Clear ==
  /\ pc = "clear" /\ pc' = "abort" /\ rxRecoveryRequested' = FALSE
  /\ UNCHANGED <<armed, hasValidGatewayFrame, sinceFrame, sinceStart, untilAttempt, sinceNow, why,
                 wasSilent>>

Abort(done) ==
  /\ pc = "abort"
  /\ IF done THEN armed' = FALSE /\ pc' = "arm" /\ UNCHANGED rxRecoveryRequested
     ELSE rxRecoveryRequested' = TRUE /\ pc' = "idle" /\ UNCHANGED armed
  /\ UNCHANGED <<hasValidGatewayFrame, sinceFrame, sinceStart, untilAttempt, sinceNow, why,
                 wasSilent>>

Arm(taken) ==
  /\ pc = "arm" /\ pc' = "idle" /\ armReceiveDma(taken)
  /\ UNCHANGED <<hasValidGatewayFrame, sinceFrame, sinceStart, untilAttempt, sinceNow, why,
                 wasSilent>>

\* setup, and the task's first armReceiveDma.
Init ==
  /\ armed \in BOOLEAN /\ rxRecoveryRequested = ~armed
  /\ hasValidGatewayFrame = FALSE /\ sinceFrame = 0 /\ sinceStart = 0
  /\ untilAttempt = 0 /\ pc = "idle" /\ sinceNow = 0 /\ why = "request"
  /\ wasSilent = FALSE

Task == Sample \/ Check \/ Clear \/ \E done \in BOOLEAN : Abort(done) \/ Arm(done)

Next ==
  \/ Tick \/ onError \/ Task
  \/ \E complete, taken \in BOOLEAN : onHalRxEvent(complete, taken)

Spec == Init /\ [][Next]_vars

\* The task and the clock go on, and the HAL does not refuse forever.
Fairness ==
  /\ WF_vars(Tick) /\ WF_vars(Task)
  /\ SF_vars(Abort(TRUE)) /\ SF_vars(Arm(TRUE))

FairSpec == Spec /\ Fairness

-----------------------------------------------------------------------------

TypeOK ==
  /\ sinceFrame \in 0..MaxAge /\ sinceStart \in 0..MaxAge /\ sinceNow \in 0..MaxPreempted
  /\ untilAttempt \in MinUntil..RX_RECOVERY_RETRY_MS

\* A receiver that an error, a failed arming or an abort left without DMA is armed
\* again, whatever the interrupts do to the task's recovery meanwhile.
ReceiverRecovers == []<>armed

\* uart-v1.md: a peer is lost after 1.5 s without a complete CRC-valid frame, so a
\* recovery from silence, which drops what is being received, follows a silence.
SilenceIsReal ==
  [][Check /\ pc' = "clear" /\ why' = "silence" =>
       wasSilent]_vars

=================================================================================
