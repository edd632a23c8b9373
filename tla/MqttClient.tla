------------------------------ MODULE MqttClient ------------------------------
(***************************************************************************)
(* The gateway's MQTT client: its life cycle, and the publication of what  *)
(* was acquired from the BMS.                                              *)
(*                                                                         *)
(* Three tasks share its variables without a lock.  The main task calls    *)
(* tick and publishFrame; the library's task calls back when the session   *)
(* with the broker comes and goes; the HTTP task stores new credentials    *)
(* and stops the client.  The last two preempt the main task, so it is     *)
(* cut wherever it reads or writes what they write; they are cut where     *)
(* they block.  Energy is handled like pack, and only pack is here.  The   *)
(* retained diagnostic state and the events are left out, and with them    *)
(* stateDirty: when the state is due is a choice.                          *)
(***************************************************************************)
EXTENDS Naturals

VARIABLES
    configured,     \* credentials.configured
    station,        \* stationConnected
    client,         \* the client: none, created, running, or destroyed with
                    \* the pointer still set
    session,        \* the library's connection to the broker
    mqtt,           \* state
    holdOff,        \* startNotBeforeUs is ahead
    resetRequested, \* acquisitionResetRequested
    publication,    \* what each topic may publish, see Acquisitions
    measured,       \* the last STATUS said the measurements are fresh
    discovery,      \* discoveryDirty
    place,          \* where the main task is
    topic,          \* the topic publishAcquired works on, or the frame's kind
    http            \* where configure() is

lifeVars == <<configured, station, client, session, mqtt, holdOff>>
sampleVars == <<resetRequested, publication, measured>>
vars == <<lifeVars, sampleVars, discovery, place, topic, http>>

Topics == {"status", "pack"}
\* fresh and pending as in AcquiredPublication; the rest is history: a reset was
\* requested after the sample came, it was published, and in this order.
Acquisitions == [fresh : BOOLEAN, pending : BOOLEAN, old : BOOLEAN, sent : BOOLEAN,
                 late : BOOLEAN]
NoSample ==
    [fresh |-> FALSE, pending |-> FALSE, old |-> FALSE, sent |-> FALSE, late |-> FALSE]
NewSample ==
    [fresh |-> TRUE, pending |-> TRUE, old |-> FALSE, sent |-> FALSE, late |-> FALSE]
Due(sample) == sample.pending /\ sample.fresh
Published(sample) ==
    [fresh |-> sample.fresh, pending |-> FALSE, old |-> sample.old, sent |-> TRUE,
     late |-> sample.old]

TypeOK ==
    /\ configured \in BOOLEAN /\ station \in BOOLEAN
    /\ client \in {"none", "created", "running", "destroyed"}
    /\ session \in BOOLEAN
    /\ mqtt \in {"unavailable", "connecting", "connected", "lost"}
    /\ holdOff \in BOOLEAN /\ resetRequested \in BOOLEAN
    /\ publication \in [Topics -> Acquisitions]
    /\ measured \in BOOLEAN /\ discovery \in BOOLEAN
    /\ place \in {"idle", "station", "stopping", "stopped", "start", "register", "launch",
                  "discovery", "announce", "announced", "check", "send", "frame"}
    /\ topic \in Topics
    /\ http \in {"idle", "saved", "stopping"}

Init ==
    /\ configured \in BOOLEAN
    /\ station = FALSE /\ client = "none" /\ session = FALSE
    /\ mqtt = IF configured THEN "lost" ELSE "unavailable"
    /\ holdOff = FALSE /\ resetRequested = FALSE
    /\ publication = [t \in Topics |-> NoSample]
    /\ measured = FALSE /\ discovery = FALSE
    /\ place = "idle" /\ topic = "status" /\ http = "idle"

-----------------------------------------------------------------------------
(* Resets of the acquisitions: whoever notices asks, the main task applies. *)

RequestReset ==
    /\ resetRequested' = TRUE
    /\ publication' = [t \in Topics |-> [publication[t] EXCEPT !.old = TRUE]]

\* The request is taken and nothing forgotten (for mutation).
ForgetsReset ==
    /\ resetRequested' = FALSE
    /\ UNCHANGED publication

\* applyAcquisitionReset
ApplyReset ==
    /\ resetRequested' = FALSE
    /\ publication' = IF resetRequested THEN [t \in Topics |-> NoSample] ELSE publication

\* 3 s pass since a sample came; each handler reads the clock once.
Ages(t) ==
    /\ place = "idle" /\ publication[t].fresh
    /\ publication' = [publication EXCEPT ![t].fresh = FALSE]
    /\ UNCHANGED <<lifeVars, resetRequested, measured, discovery, place, topic, http>>

-----------------------------------------------------------------------------
(* The library's task.                                                     *)

Connected ==
    /\ client = "running" /\ ~session /\ session' = TRUE
    /\ mqtt' = "connected" /\ holdOff' = FALSE
    /\ RequestReset
    /\ discovery' = TRUE
    /\ UNCHANGED <<configured, station, client, measured, place, topic, http>>

\* The session ends, or could not be set up.
Disconnected ==
    /\ client = "running" /\ session' = FALSE
    /\ mqtt' = "lost"
    /\ RequestReset
    /\ UNCHANGED <<configured, station, client, holdOff, measured, discovery,
                   place, topic, http>>

\* "homeassistant/status" says online.
HomeAssistantOnline ==
    /\ session
    /\ RequestReset
    /\ discovery' = TRUE
    /\ UNCHANGED <<lifeVars, measured, place, topic, http>>

-----------------------------------------------------------------------------
(* The HTTP task: configure().                                             *)

WithoutClient == IF configured THEN "lost" ELSE "unavailable"

\* The credentials in use are changed before they are stored.
Configure ==
    /\ http = "idle" /\ http' \in {"saved", "idle"}
    /\ configured' = TRUE
    /\ UNCHANGED <<station, client, session, mqtt, holdOff, sampleVars, discovery,
                   place, topic>>

\* stopClient: esp_mqtt_client_stop waits for the library's task to end.
ConfigureStop ==
    /\ http = "saved"
    /\ RequestReset
    /\ http' = IF client = "none" THEN "idle" ELSE "stopping"
    /\ UNCHANGED <<lifeVars, measured, discovery, place, topic>>

ConfigureStopped ==
    /\ http = "stopping" /\ http' = "idle"
    /\ client' = "none" /\ session' = FALSE
    /\ mqtt' = WithoutClient /\ holdOff' = FALSE
    /\ UNCHANGED <<configured, station, sampleVars, discovery, place, topic>>

-----------------------------------------------------------------------------
(* The main task: tick().                                                  *)

At(p) == place = p

\* The Wi-Fi station is, or is not, connected.
Tick ==
    /\ At("idle") /\ place' = "station"
    /\ ApplyReset
    /\ UNCHANGED <<lifeVars, measured, discovery, topic, http>>

StationSame ==
    /\ At("station")
    /\ place' = IF station THEN "start" ELSE "discovery"
    /\ UNCHANGED <<lifeVars, sampleVars, discovery, topic, http>>

StationFound ==
    /\ At("station") /\ ~station
    /\ station' = TRUE /\ place' = "start"
    /\ UNCHANGED <<configured, client, session, mqtt, holdOff, sampleVars, discovery, topic, http>>

StationLost ==
    /\ At("station") /\ station
    /\ station' = FALSE
    /\ RequestReset
    /\ place' = IF client = "none" THEN "discovery" ELSE "stopping"
    /\ UNCHANGED <<configured, client, session, mqtt, holdOff, measured, discovery, topic, http>>

\* The client is destroyed, then the pointer cleared.
Destroy ==
    /\ At("stopping") /\ place' = "stopped"
    /\ client' = IF client = "none" THEN "none" ELSE "destroyed"
    /\ session' = FALSE
    /\ UNCHANGED <<configured, station, mqtt, holdOff, sampleVars, discovery, topic, http>>

Stopped ==
    /\ At("stopped") /\ place' = "discovery"
    /\ client' = "none" /\ mqtt' = WithoutClient /\ holdOff' = FALSE
    /\ UNCHANGED <<configured, station, session, sampleVars, discovery, topic, http>>

(* startClient.                                                            *)
StartRefused ==
    /\ At("start") /\ (client # "none" \/ ~configured \/ holdOff)
    /\ place' = "discovery"
    /\ UNCHANGED <<lifeVars, sampleVars, discovery, topic, http>>

MayStart == At("start") /\ client = "none" /\ configured /\ ~holdOff

\* deferClientStart
Defer ==
    /\ mqtt' = "lost" /\ holdOff' = TRUE
    /\ place' = "discovery"

NoMemory ==
    /\ MayStart
    /\ Defer
    /\ UNCHANGED <<configured, station, client, session, sampleVars, discovery, topic, http>>

Create ==
    /\ MayStart
    /\ client' = "created" /\ place' = "register"
    /\ UNCHANGED <<configured, station, session, mqtt, holdOff, sampleVars, discovery, topic, http>>

Register ==
    /\ At("register") /\ place' = "launch"
    /\ mqtt' = "connecting"
    /\ UNCHANGED <<configured, station, client, session, holdOff, sampleVars, discovery, topic, http>>

Launch ==
    /\ At("launch") /\ client = "created"
    /\ client' = "running" /\ place' = "discovery"
    /\ UNCHANGED <<configured, station, session, mqtt, holdOff, sampleVars, discovery, topic, http>>

\* No task for it, or configure() destroyed it in the meantime.
LaunchFails ==
    /\ At("launch")
    /\ client' = "none" /\ Defer
    /\ UNCHANGED <<configured, station, session, sampleVars, discovery, topic, http>>

\* startNotBeforeUs passes.
HoldOffEnds ==
    /\ holdOff /\ holdOff' = FALSE
    /\ UNCHANGED <<configured, station, client, session, mqtt, sampleVars, discovery,
                   place, topic, http>>

(* The discovery is published, then marked as done.                        *)
Discover ==
    /\ At("discovery")
    /\ place' = IF mqtt = "connected" /\ discovery THEN "announce" ELSE "announced"
    /\ UNCHANGED <<lifeVars, sampleVars, discovery, topic, http>>

Announce ==
    /\ At("announce") /\ place' = "announced"
    /\ discovery' = FALSE
    /\ UNCHANGED <<lifeVars, sampleVars, topic, http>>

\* publishState, once a second and while connected.
PublishState ==
    /\ At("announced") /\ topic' = "status"
    /\ \/ mqtt = "connected" /\ place' = "check"
       \/ place' = "idle"
    /\ UNCHANGED <<lifeVars, sampleVars, discovery, http>>

\* What publishAcquired asks before it collects a topic's values; the pack's
\* values are there only while the measurements are fresh.
Acquired(t) ==
    /\ Due(publication[t]) /\ ~resetRequested
    /\ t = "pack" => publication["status"].fresh /\ measured

NextTopic ==
    IF topic = "status" THEN topic' = "pack" /\ place' = "check"
                        ELSE topic' = topic /\ place' = "idle"

Check ==
    /\ At("check")
    /\ IF Acquired(topic) THEN place' = "send" /\ UNCHANGED topic ELSE NextTopic
    /\ UNCHANGED <<lifeVars, sampleVars, discovery, http>>

\* QoS 0: sent now or not at all.
Send ==
    /\ At("send") /\ mqtt = "connected" /\ session
    /\ publication' = [publication EXCEPT ![topic] = Published(@)]
    /\ NextTopic
    /\ UNCHANGED <<lifeVars, resetRequested, measured, discovery, http>>

SendFails ==
    /\ At("send") /\ NextTopic
    /\ UNCHANGED <<lifeVars, sampleVars, discovery, http>>

-----------------------------------------------------------------------------
(* The main task: publishFrame() and setUartHealthy().                     *)

PublishFrame(kind) ==
    /\ At("idle") /\ place' = "frame" /\ topic' = kind
    /\ ApplyReset
    /\ UNCHANGED <<lifeVars, measured, discovery, http>>

Received(t, takes) == IF takes THEN [publication EXCEPT ![t] = NewSample] ELSE publication

StatusFrame(measures) ==
    /\ At("frame") /\ topic = "status" /\ place' = "idle"
    /\ measured' = measures
    /\ LET received == Received("status", mqtt = "connected")
       IN  publication' = IF measures THEN received ELSE [received EXCEPT !["pack"] = NoSample]
    /\ UNCHANGED <<lifeVars, resetRequested, discovery, topic, http>>

PackFrame ==
    /\ At("frame") /\ topic = "pack" /\ place' = "idle"
    /\ publication' =
        Received("pack", mqtt = "connected" /\ publication["status"].fresh /\ measured)
    /\ UNCHANGED <<lifeVars, resetRequested, measured, discovery, topic, http>>

UartLost ==
    /\ At("idle")
    /\ publication' = [t \in Topics |-> NoSample]
    /\ UNCHANGED <<lifeVars, resetRequested, measured, discovery, place, topic, http>>

-----------------------------------------------------------------------------
(* A client is used that another task has destroyed: what follows is not   *)
(* defined.  The call fails, as above, or the gateway crashes and starts   *)
(* again with the credentials it has stored.                               *)
UsesDestroyed ==
    \/ http = "stopping" /\ client = "destroyed"
    \/ place \in {"stopping", "announce", "send"} /\ client = "none"

Crash ==
    /\ UsesDestroyed
    /\ UNCHANGED configured
    /\ station' = FALSE /\ client' = "none" /\ session' = FALSE
    /\ mqtt' = WithoutClient
    /\ holdOff' = FALSE /\ resetRequested' = FALSE
    /\ publication' = [t \in Topics |-> NoSample]
    /\ measured' = FALSE /\ discovery' = FALSE
    /\ place' = "idle" /\ topic' = "status" /\ http' = "idle"

LibraryTask == Connected \/ Disconnected \/ HomeAssistantOnline
HttpTask == Configure \/ ConfigureStop \/ ConfigureStopped
Lifecycle ==
    \/ Tick \/ StationSame \/ StationFound \/ StationLost \/ Destroy \/ Stopped
    \/ StartRefused \/ NoMemory \/ Create \/ Register \/ Launch \/ LaunchFails
Publication ==
    \/ Discover \/ Announce \/ PublishState \/ Check \/ Send \/ SendFails
    \/ \E measures \in BOOLEAN : StatusFrame(measures)
    \/ PackFrame
MainTask == Lifecycle \/ Publication

Next ==
    \/ LibraryTask \/ HttpTask \/ MainTask \/ Crash \/ HoldOffEnds
    \/ \E t \in Topics : Ages(t) \/ PublishFrame(t)
    \/ UartLost

Spec == Init /\ [][Next]_vars

(* The main task keeps calling tick and ends what it began, time passes,   *)
(* and there is memory for a client in the end.                            *)
FairSpec ==
    /\ Spec
    /\ WF_vars(MainTask)
    /\ SF_vars(Tick)
    /\ SF_vars(Create)
    /\ SF_vars(Launch)
    /\ WF_vars(HoldOffEnds)

-----------------------------------------------------------------------------
(* AcquiredPublication.h: "MQTT lifecycle callbacks only request a reset;  *)
(* they must never publish a cached sample as a new acquisition".  What    *)
(* publishAcquired decides to send was received after the last reset that  *)
(* anybody asked for.  The reset may still be asked for between that       *)
(* decision and the sending (LateAtMostOnce); but what is sent was not     *)
(* sent before and is fresh, and a pack is sent only beside a status that  *)
(* is itself fresh and says the measurements are.                          *)
Sends(t) == publication[t].pending /\ ~publication'[t].pending /\ publication'[t].sent
OnlyNewAcquisitions ==
    /\ place = "check" /\ place' = "send" => ~publication[topic].old
    /\ \A t \in Topics :
        Sends(t) => /\ ~publication[t].sent /\ publication[t].fresh
                    /\ t = "pack" => publication["status"].fresh /\ measured

(* At most one message, the one that was being put together when the reset *)
(* was asked for, is sent after that; and the reset is then still to come. *)
LateAtMostOnce ==
    \A t \in Topics :
        publication[t].late => resetRequested /\ \A u \in Topics \ {t} : ~publication[u].late

(* Nothing old is sent at all.  It is, when the reset is asked for between *)
(* the test of publishAcquired and its publish.                            *)
NothingOldIsSent == \A t \in Topics : ~publication[t].late

(* The state that gates every publication and is shown to the user is      *)
(* "connected" exactly while there is a session with the broker, whoever   *)
(* of the three tasks wrote it last.  (Between Destroy and Stopped it is   *)
(* the pointer that is behind.)                                            *)
StateIsReal == place # "stopped" => (mqtt = "connected" <=> session)

(* A sample that was asked for and has not been sent does not outlive the  *)
(* reset: with nothing requested, nothing old is due.                      *)
NothingOldIsDue == \A t \in Topics : Due(publication[t]) /\ publication[t].old => resetRequested

(* While there are credentials and the station stays connected, a client   *)
(* runs again and again: no failed start and no configure() leaves the     *)
(* gateway without one for good.                                           *)
Serving == configured /\ station /\ http = "idle" => client = "running"
ClientRuns == []<>Serving
=============================================================================
