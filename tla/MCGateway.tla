------------------------------ MODULE MCGateway ------------------------------
(***************************************************************************)
(* The gateway between a browser, a broker and the BMS: its services, the  *)
(* delivery of its messages to the WebSockets, its MQTT client and its     *)
(* energy meters, the master's recovery of their UART, and the Companion's *)
(* end of the WebSocket.                                                   *)
(*                                                                         *)
(* They share no state, and what each assumes of the others is in its      *)
(* module: a service is answered with a message that is delivered like any *)
(* other, a frame that the UART loses is one that is dropped, the station  *)
(* that the MQTT client sees comes and goes at any time, and an answer for *)
(* the Companion may be late or lost.  They are explored side by side, one *)
(* of them in a behaviour, while the others rest in an initial state.      *)
(***************************************************************************)
EXTENDS GatewayServices

CONSTANTS
    TopicCount, Capacity, MaxReplies, MaxConnections,   \* GatewayDelivery
    Slots, Meters, MaxGeneration, MaxTime,              \* EnergyMeters
    MaxQueued, MaxAttempts, MaxCalls, MaxSockets, MaxForeign   \* GatewayTransport

ASSUME DeliveryAssumption ==
    /\ TopicCount \in Nat \ {0} /\ Capacity \in Nat \ {0}
    /\ MaxReplies \in Nat /\ MaxConnections \in Nat

ASSUME MetersAssumption ==
    /\ Slots \subseteq Nat /\ Slots # {}
    /\ MaxGeneration \in Nat \ {0} /\ MaxTime \in Nat \ {0}

ASSUME TransportAssumption ==
    MaxQueued \in Nat \ {0} /\ MaxAttempts \in Nat
        /\ MaxCalls \in Nat \ {0} /\ MaxSockets \in Nat \ {0} /\ MaxForeign \in Nat

VARIABLES
    explored,   \* the part that runs
    \* BmsUartLink
    armed, rxRecoveryRequested, hasValidGatewayFrame, sinceFrame, sinceStart,
    untilAttempt, pc, sinceNow, why, wasSilent,
    \* GatewayDelivery
    connections, open, closing, replies, state, nextState, task, work,
    accepted, received, socket,
    \* MqttClient
    mqttConfigured, stationSeen, mqttClient, session, mqtt, holdOff,
    resetRequested, publication, measured, discovery, mqttPlace, mqttTopic,
    configuring,
    \* EnergyMeters
    configuration, configurationGeneration, readings, busReady, notified,
    worker, mine, bus, meterSlot, reading, published, announced, time,
    \* GatewayTransport
    sockets, tabSocket, shownState, explicitlyDisconnected, reconnectTimer,
    calls, serviceTail, nextRequestId, unanswered, foreign

Link == INSTANCE BmsUartLink
Delivery == INSTANCE GatewayDelivery
    WITH delivery <- socket
Broker == INSTANCE MqttClient
    WITH configured <- mqttConfigured, station <- stationSeen,
         client <- mqttClient, place <- mqttPlace, topic <- mqttTopic,
         http <- configuring
Meter == INSTANCE EnergyMeters
    WITH generation <- configurationGeneration, place <- worker,
         slot <- meterSlot
Tab == INSTANCE GatewayTransport
    WITH socket <- tabSocket, state <- shownState

linkVars == <<armed, rxRecoveryRequested, hasValidGatewayFrame, sinceFrame,
              sinceStart, untilAttempt, pc, sinceNow, why, wasSilent>>
deliveryVars == <<connections, open, closing, replies, state, nextState,
                  task, work, accepted, received, socket>>
brokerVars == <<mqttConfigured, stationSeen, mqttClient, session, mqtt,
                holdOff, resetRequested, publication, measured, discovery,
                mqttPlace, mqttTopic, configuring>>
meterVars == <<configuration, configurationGeneration, readings, busReady,
               notified, worker, mine, bus, meterSlot, reading, published,
               announced, time>>
tabVars == <<sockets, tabSocket, shownState, explicitlyDisconnected,
             reconnectTimer, calls, serviceTail, nextRequestId, unanswered, foreign>>

allVars == <<explored, vars, linkVars, deliveryVars, brokerVars,
             meterVars, tabVars>>

AllInit ==
    /\ explored \in {"services", "link", "delivery", "mqtt", "meters", "tab"}
    /\ Init
    /\ Link!Init
    /\ explored # "link" => armed
    /\ Delivery!Init
    /\ Broker!Init
    /\ explored # "mqtt" => ~mqttConfigured
    /\ Meter!Init
    /\ explored # "meters" => ~Meter!AnyEnabled(configuration)
    /\ Tab!Init

\* The other parts rest.
OthersRest ==
    /\ UNCHANGED explored
    /\ explored # "services" => UNCHANGED vars
    /\ explored # "link" => UNCHANGED linkVars
    /\ explored # "delivery" => UNCHANGED deliveryVars
    /\ explored # "mqtt" => UNCHANGED brokerVars
    /\ explored # "meters" => UNCHANGED meterVars
    /\ explored # "tab" => UNCHANGED tabVars

AllNext ==
    /\ OthersRest
    /\ \/ explored = "services" /\ Next
       \/ explored = "link" /\ Link!Next
       \/ explored = "delivery" /\ Delivery!Next
       \/ explored = "mqtt" /\ Broker!Next
       \/ explored = "meters" /\ Meter!Next
       \/ explored = "tab" /\ Tab!Next

AllSpec == AllInit /\ [][AllNext]_allVars

\* The fairness that the modules state, each for its part.  One part runs in a
\* behaviour, so that one condition on a disjunction says what a condition on each
\* disjunct would.
FairMain ==
    /\ \/ explored = "services" /\ MainLoop
       \/ explored = "link" /\ Link!Tick
       \/ explored = "mqtt" /\ Broker!MainTask
       \/ explored = "meters" /\ Meter!Worker
       \/ explored = "tab" /\ (Tab!Running \/ Tab!Timers \/ Tab!Closing)
    /\ OthersRest
FairSide ==
    /\ \/ explored = "link" /\ Link!Task
       \/ explored = "mqtt" /\ Broker!HoldOffEnds
       \/ explored = "tab" /\ Tab!Reconnect
    /\ OthersRest
FairTimer ==
    /\ \/ explored = "services" /\ Expire
       \/ explored = "link" /\ Link!Abort(TRUE)
       \/ explored = "mqtt" /\ Broker!Tick
    /\ OthersRest
FairRestart ==
    /\ \/ explored = "link" /\ Link!Arm(TRUE)
       \/ explored = "mqtt" /\ Broker!Create
    /\ OthersRest
FairLaunch == explored = "mqtt" /\ Broker!Launch /\ OthersRest

AllFairSpec ==
    /\ AllSpec
    /\ WF_allVars(FairMain) /\ WF_allVars(FairSide)
    /\ SF_allVars(FairTimer) /\ SF_allVars(FairRestart) /\ SF_allVars(FairLaunch)

-----------------------------------------------------------------------------
\* Type correctness of the parts.
AllTypeOK ==
    CASE explored = "services" -> TypeOK
      [] explored = "link" -> Link!TypeOK
      [] explored = "delivery" -> Delivery!TypeOK
      [] explored = "mqtt" -> Broker!TypeOK
      [] explored = "meters" -> Meter!TypeOK
      [] explored = "tab" -> Tab!TypeOK

\* An answer goes where the code can send it.  "ok" is sent only for a service that the
\* STM32 has carried out, to the browser that asked and waits for it or, when that one
\* has left, to whoever has its socket by then; nothing else comes between a browser and
\* the answer to what was accepted from it, and a time counts as delivered only if the
\* STM32 has set its clock to it.  What is accepted for a WebSocket reaches it once and
\* in order, with one send under way.  The Companion repeats no request but one answered
\* "busy", on no later socket than its own, settles its promises with their own answers
\* but for the few that were meant for an earlier browser, and keeps a single loop that
\* reconnects.
AnswersReachTheirBrowser ==
    /\ [](explored = "services" =>
            AcceptedHasTheSlot /\ SyncHasTheSlot /\ ReportedSyncIsReal)
    /\ [](explored = "delivery" =>
            Delivery!RepliesInOrder /\ Delivery!OneSendUnderWay)
    /\ [](explored = "tab" => Tab!OneReconnectLoop)
    /\ [][explored = "services" => OkMeansServed /\ SlotIsFreedByItsOwn]_allVars
    /\ [][explored = "tab" => Tab!NeverReplayed /\ Tab!AnswersAreOwn]_allVars

\* What the broker gets is true.  Nothing acquired before a reset was asked for is
\* chosen to be published, and at most the one message that was chosen already is sent
\* in spite of it; no sample is sent twice; the state that gates publishing is that of
\* the session; and a reading appears under no other meter than the one it was taken of.
PublishedIsTrue ==
    /\ [](explored = "mqtt" => Broker!StateIsReal /\ Broker!NothingOldIsDue
                               /\ Broker!LateAtMostOnce)
    /\ [](explored = "meters" => Meter!ReadingsBelong)
    /\ [][explored = "mqtt" => Broker!OnlyNewAcquisitions]_allVars
    /\ [][explored = "meters" => Meter!PublishedBelong]_allVars

\* Every request taken from a browser is answered in the end, a UART receiver that
\* an error or a failed attempt left without DMA is armed again, a broker with
\* credentials gets a client, a configuration of the meters is taken up, and every
\* promise of the Companion is settled.
NothingWaitsForever ==
    \A c \in Clients : []<>
        CASE explored = "services" -> asked[c] = 0
          [] explored = "link" -> armed
          [] explored = "delivery" -> TRUE
          [] explored = "mqtt" -> Broker!Serving
          [] explored = "meters" -> Meter!UpToDate
          [] explored = "tab" -> Tab!Settles

=============================================================================
