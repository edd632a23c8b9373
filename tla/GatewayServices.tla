--------------------------- MODULE GatewayServices ---------------------------
(***************************************************************************)
(* The one service the gateway may have outstanding at the STM32, and the  *)
(* delivery of network time that uses it.                                  *)
(*                                                                         *)
(* A browser's request is taken by the HTTP task (wsHandler), a run        *)
(* request from the broker by the MQTT client's task: the slot is reserved *)
(* under a mutex, the request is written to the UART outside it.  Answers, *)
(* time-outs and TimeSync's SET_RTC belong to the main task, which runs    *)
(* its loop in a fixed order; only its answers and time-outs free the slot *)
(* of another, so its own request may be one step.  Network time arrives   *)
(* in a fourth task, between any two accesses of the others.               *)
(*                                                                         *)
(* The slot keeps the socket number of the browser that asked.  Nothing    *)
(* takes it back when that browser leaves, and the next one may get the    *)
(* same number: the answer then goes to whoever has the socket.            *)
(*                                                                         *)
(* External: the STM32 serves what was written, in any order and as late   *)
(* as it likes, or never.  The UART may refuse a write.  Browsers come and *)
(* go, and number their requests.                                          *)
(***************************************************************************)
EXTENDS Naturals, FiniteSets

CONSTANTS Clients,      \* the socket numbers of browsers
          MaxSequence,  \* 255 in the code: the sequence counts 1 .. MaxSequence
          MaxBrowsers,  \* bound: the browsers that have had a socket number
          MaxSample     \* bound: the NTP answers of a behaviour

ASSUME ClientsAssumption ==
    IsFiniteSet(Clients) /\ Clients # {} /\ Clients \cap {"time_sync", "mqtt"} = {}
ASSUME SequenceAssumption == MaxSequence \in Nat /\ MaxSequence >= 2
ASSUME SampleAssumption == MaxSample \in Nat
ASSUME BrowsersAssumption == MaxBrowsers \in Nat

VARIABLES
    healthy,    \* uartHealthy
    slot,       \* serviceInFlight and the pending* variables of GatewayApi
    sequence,   \* nextServiceSequence
    writing,    \* the request the HTTP task and the MQTT task are writing
    here,       \* the sockets that are a WebSocket session now
    browser,    \* the browsers each socket has had: the number of the latest
    asked,      \* the request accepted from it that it waits for, 0 for none
    reply,      \* the answer it was sent since, and to whose request
    telling,    \* the answer the main task has taken from the slot and not sent
    wire,       \* what the STM32 has received and not answered
    loop,       \* the place of the main task in its loop
    connected,  \* TimeSync's stationConnected, with its SNTP client
    sntp,       \* the place of onSntpSync, 0 when it is not running
    sample,     \* the newest answer of the time servers
    pending,    \* pendingUnixTime, pendingGeneration, pending, and whether
                \* nextDeliveryAttemptUs has passed
    taken,      \* the time pendingStm32Sync returned to the main task
    inFlight,   \* deliveryInFlight, inFlightUnixTime, inFlightGeneration
    lastSync,   \* lastSyncUnixTime, 0 while hasLastSync is clear
    shown,      \* the state shown to the browsers
    clock       \* the samples the STM32 has set its clock to

slotVars == <<slot, sequence>>
socketVars == <<here, browser>>
browserVars == <<writing, asked, reply, telling, socketVars>>
timeVars == <<connected, sntp, sample, pending, taken, inFlight, lastSync, shown>>
vars == <<healthy, slotVars, browserVars, wire, loop, timeVars, clock>>

TimeSync == "time_sync"
Mqtt == "mqtt"
Writers == {"http", "mqtt"}
Owners == Clients \cup {TimeSync, Mqtt}
Browsers == 0 .. MaxBrowsers
\* A browser's requests, told apart while the STM32 may still hold them.
Requests == 1 .. MaxSequence + 1
Tags == 0 .. MaxSample + MaxSequence + 1
Messages == [sequence : 1 .. MaxSequence, owner : Owners, browser : Browsers, request : Tags]
NoSlot == [busy |-> FALSE, sequence |-> 0, owner |-> Mqtt, browser |-> 0, request |-> 0]
NoWrite == [owner |-> Mqtt, browser |-> 0, sequence |-> 0, request |-> 0]
NoReply == [result |-> "none", browser |-> 0, request |-> 0]
NoTelling == [owner |-> Mqtt, browser |-> 0, request |-> 0, result |-> "none"]

TypeOK ==
    /\ healthy \in BOOLEAN
    /\ slot \in [busy : BOOLEAN, sequence : 0 .. MaxSequence, owner : Owners,
                 browser : Browsers, request : Tags]
    /\ sequence \in 1 .. MaxSequence
    /\ writing \in [Writers -> [owner : Clients \cup {Mqtt}, browser : Browsers,
                                sequence : 0 .. MaxSequence, request : {0} \cup Requests]]
    /\ here \subseteq Clients /\ browser \in [Clients -> Browsers]
    /\ asked \in [Clients -> {0} \cup Requests]
    /\ reply \in [Clients -> [result : {"none", "ok", "refused"}, browser : Browsers,
                              request : {0} \cup Requests]]
    /\ telling \in [owner : Clients \cup {Mqtt}, browser : Browsers,
                    request : {0} \cup Requests, result : {"none", "ok", "refused"}]
    /\ wire \subseteq Messages
    /\ loop \in {"frames", "tell", "settle", "time", "begin", "started", "poll"}
    /\ connected \in BOOLEAN /\ sntp \in 0 .. 2 /\ sample \in 0 .. MaxSample
    /\ pending \in [time : 0 .. MaxSample, generation : 0 .. MaxSample,
                    is : BOOLEAN, due : BOOLEAN]
    /\ taken \in 0 .. MaxSample
    /\ inFlight \in [is : BOOLEAN, time : 0 .. MaxSample, generation : 0 .. MaxSample]
    /\ lastSync \in 0 .. MaxSample
    /\ shown \in {"network", "ntp", "stm32", "synchronized"}
    /\ clock \subseteq 1 .. MaxSample

-----------------------------------------------------------------------------
(* The slot.                                                               *)

\* Zero is not skipped (for mutation).
FollowingZero(s) == (s + 1) % (MaxSequence + 1)

\* nextServiceSequence++, which skips zero.
Following(s) == IF s = MaxSequence THEN 1 ELSE s + 1

\* A sequence comes round only after MaxSequence more services: the STM32 has
\* answered or dropped the request that had it.
NotOutstanding(s) ==
    /\ \A t \in Writers : writing[t].sequence # s
    /\ \A w \in wire : w.sequence # s

Reserve(owner, number, request) ==
    /\ NotOutstanding(sequence)
    /\ slot' = [busy |-> TRUE, sequence |-> sequence, owner |-> owner, browser |-> number,
                request |-> request]
    /\ sequence' = Following(sequence)

(* sendServiceResult: it reaches whoever has the socket now.  A browser    *)
(* that is answered what it asked waits no longer.                         *)
Answer(client, number, request, result) ==
    /\ reply' = IF client \in here
                THEN [reply EXCEPT ![client] = [result |-> result, browser |-> number,
                                                request |-> request]]
                ELSE reply
    /\ asked' = IF number = browser[client] THEN [asked EXCEPT ![client] = 0] ELSE asked

-----------------------------------------------------------------------------
(* The HTTP task and the MQTT client's task.                               *)

Begin(t, owner, number, request) ==
    /\ Reserve(owner, number, request)
    /\ writing' = [writing EXCEPT ![t] = [owner |-> owner, browser |-> number,
                                         sequence |-> sequence, request |-> request]]

(* The server runs one handler at a time, and opens and closes sockets     *)
(* between them.  A close leaves the slot as it is.                        *)
Arrive(client) ==
    /\ writing["http"] = NoWrite /\ client \notin here /\ browser[client] < MaxBrowsers
    /\ here' = here \cup {client}
    /\ browser' = [browser EXCEPT ![client] = @ + 1]
    /\ UNCHANGED <<healthy, slotVars, writing, asked, reply, telling, wire, loop, timeVars, clock>>

Leave(client) ==
    /\ writing["http"] = NoWrite /\ client \in here
    /\ here' = here \ {client}
    /\ asked' = [asked EXCEPT ![client] = 0]
    /\ reply' = [reply EXCEPT ![client] = NoReply]
    /\ UNCHANGED <<healthy, slotVars, writing, telling, browser, wire, loop, timeVars, clock>>

Outstanding(client) ==
    {w.request : w \in {v \in wire : v.owner = client /\ v.browser = browser[client]}}

(* Wi-Fi and the firmware update decide whether services are allowed.      *)
(* Denied, busy and transport error are all a refusal here.                *)
Ask(client, allowed, request) ==
    /\ writing["http"] = NoWrite /\ client \in here /\ asked[client] = 0
    /\ request \notin Outstanding(client) /\ 1 .. request - 1 \subseteq Outstanding(client)
    /\ IF allowed /\ ~slot.busy /\ healthy
       THEN /\ Begin("http", client, browser[client], request)
            /\ asked' = [asked EXCEPT ![client] = request]
            /\ reply' = [reply EXCEPT ![client] = NoReply]
       ELSE /\ Answer(client, browser[client], request, "refused")
            /\ UNCHANGED <<slotVars, writing>>
    /\ UNCHANGED <<healthy, telling, socketVars, wire, loop, timeVars, clock>>

\* sendMqttRunRequest: a refusal changes nothing, the answer is not waited for.
RunRequest ==
    /\ writing["mqtt"] = NoWrite
    /\ ~slot.busy /\ healthy
    /\ Begin("mqtt", Mqtt, 0, 0)
    /\ UNCHANGED <<healthy, asked, reply, telling, socketVars, wire, loop, timeVars, clock>>

\* sendService, after the unlock.  Nothing follows a write that succeeds.
Write(t) ==
    /\ writing[t] # NoWrite
    /\ wire' = wire \cup {writing[t]}
    /\ writing' = [writing EXCEPT ![t] = NoWrite]
    /\ UNCHANGED <<healthy, slotVars, asked, reply, telling, socketVars, loop, timeVars, clock>>

StillMine(t) == slot.busy /\ slot.sequence = writing[t].sequence

(* A refused write gives the slot back, unless it was taken from this      *)
(* request in the meantime: that answer was then its only one.             *)
WriteFails(t) ==
    /\ writing[t] # NoWrite
    /\ writing' = [writing EXCEPT ![t] = NoWrite]
    /\ slot' = IF StillMine(t) THEN NoSlot ELSE slot
    /\ IF StillMine(t) /\ t = "http"
       THEN Answer(writing[t].owner, writing[t].browser, writing[t].request, "refused")
       ELSE UNCHANGED <<asked, reply>>
    /\ UNCHANGED <<healthy, sequence, telling, socketVars, wire, loop, timeVars, clock>>

-----------------------------------------------------------------------------
(* onSntpSync: the time, its generation and the mark are separate atomics, *)
(* written in this order; the retry time follows the mark, and nothing     *)
(* can be told from what the main task sees between those two.             *)

Waiting == IF connected THEN "stm32" ELSE "network"

SntpTime ==
    /\ sntp = 0 /\ connected /\ sample < MaxSample
    /\ sample' = sample + 1
    /\ pending' = [pending EXCEPT !.time = sample']
    /\ sntp' = 1
    /\ UNCHANGED <<connected, taken, inFlight, lastSync, shown>>

SntpGeneration ==
    /\ sntp = 1 /\ sntp' = 2
    /\ pending' = [pending EXCEPT !.generation = @ + 1]
    /\ UNCHANGED <<connected, sample, taken, inFlight, lastSync, shown>>

SntpPending ==
    /\ sntp = 2 /\ sntp' = 0
    /\ pending' = [pending EXCEPT !.is = TRUE, !.due = TRUE]
    /\ shown' = "stm32"
    /\ UNCHANGED <<connected, sample, taken, inFlight, lastSync>>

OnSntpSync ==
    /\ SntpTime \/ SntpGeneration \/ SntpPending
    /\ UNCHANGED <<healthy, slotVars, browserVars, wire, loop, clock>>

\* nextDeliveryAttemptUs passes.
RetryDue ==
    /\ ~pending.due
    /\ pending' = [pending EXCEPT !.due = TRUE]
    /\ UNCHANGED <<healthy, slotVars, browserVars, wire, loop, connected, sntp,
                   sample, taken, inFlight, lastSync, shown, clock>>

-----------------------------------------------------------------------------
(* The main task.                                                          *)

(* completeStm32Sync.  When the generation is still the one in flight, the *)
(* mark is cleared in a step of its own.                                   *)
CompleteSync(success) ==
    /\ inFlight' = [inFlight EXCEPT !.is = FALSE]
    /\ IF success
       THEN /\ lastSync' = inFlight.time
            /\ UNCHANGED pending
            /\ IF pending.generation = inFlight.generation
               THEN loop' = "settle" /\ UNCHANGED shown
               ELSE loop' = "frames" /\ shown' = Waiting
       ELSE /\ pending' = [pending EXCEPT !.due = FALSE]
            /\ shown' = Waiting
            /\ loop' = "frames"
            /\ UNCHANGED lastSync
    /\ UNCHANGED <<connected, sntp, sample, taken>>

Settle ==
    /\ loop = "settle" /\ loop' = "frames"
    /\ pending' = [pending EXCEPT !.is = FALSE]
    /\ shown' = "synchronized"
    /\ UNCHANGED <<healthy, slotVars, browserVars, wire, connected, sntp, sample,
                   taken, inFlight, lastSync, clock>>

(* The slot is cleared under the mutex.  What completes TimeSync's or the   *)
(* broker's request is the main task's own; a browser is told afterwards,  *)
(* in a step of its own.                                                   *)
Conclude(result) ==
    /\ slot' = NoSlot
    /\ CASE slot.owner = TimeSync -> CompleteSync(result = "ok") /\ UNCHANGED telling
         [] slot.owner = Mqtt -> loop' = "frames" /\ UNCHANGED <<telling, timeVars>>
         [] OTHER -> /\ telling' = [owner |-> slot.owner, browser |-> slot.browser,
                                    request |-> slot.request, result |-> result]
                     /\ loop' = "tell"
                     /\ UNCHANGED timeVars

\* Whoever is on the socket by now is told.
Tell ==
    /\ loop = "tell" /\ loop' = "frames"
    /\ Answer(telling.owner, telling.browser, telling.request, telling.result)
    /\ telling' = NoTelling
    /\ UNCHANGED <<healthy, slotVars, writing, socketVars, wire, timeVars, clock>>

\* Any answer completes the outstanding service (for mutation).
CompletesAny(w) == slot.busy /\ w.sequence \in 1 .. MaxSequence

Completes(w) == slot.busy /\ w.sequence = slot.sequence

(* A SERVICE_RESPONSE arrives.  The STM32 served the request, or refused   *)
(* it (denied, busy, USB host active).                                     *)
CompleteService(w, result) ==
    /\ loop = "frames" /\ w \in wire
    /\ wire' = wire \ {w}
    /\ clock' = IF w.owner = TimeSync /\ result = "ok" THEN clock \cup {w.request} ELSE clock
    /\ IF Completes(w)
       THEN Conclude(result)
       ELSE UNCHANGED <<slot, telling, loop, timeVars>>
    /\ UNCHANGED <<healthy, sequence, writing, asked, reply, socketVars>>

\* The rest of the loop follows with the link state of this round.
SetUartHealthy ==
    /\ loop = "frames" /\ loop' = "time"
    /\ healthy' \in BOOLEAN
    /\ UNCHANGED <<slotVars, browserVars, wire, timeVars, clock>>

SyncPending == connected' /\ pending.is /\ ~inFlight.is /\ pending.due

(* setStationConnected, then pendingStm32Sync.                             *)
SetStationConnected ==
    /\ loop = "time"
    /\ connected' \in BOOLEAN
    /\ shown' = IF connected' = connected THEN shown
                ELSE IF ~connected' THEN "network"
                ELSE IF pending.is THEN "stm32" ELSE "ntp"
    /\ taken' = IF SyncPending THEN pending.time ELSE 0
    /\ loop' = IF SyncPending THEN "begin" ELSE "poll"
    /\ UNCHANGED <<healthy, slotVars, browserVars, wire, sntp, sample, pending,
                   inFlight, lastSync, clock>>

(* beginInternalService for TimeSync; the write follows at once, and may   *)
(* fail.  A refusal (not allowed, not healthy, busy) changes nothing.      *)
BeginSync ==
    /\ loop = "begin"
    /\ \/ /\ healthy /\ ~slot.busy
          /\ Reserve(TimeSync, 0, taken)
          /\ wire' = wire \cup {[sequence |-> sequence, owner |-> TimeSync, browser |-> 0,
                                 request |-> taken]}
          /\ loop' = "started"
       \/ /\ healthy /\ ~slot.busy
          /\ NotOutstanding(sequence)
          /\ sequence' = Following(sequence)
          /\ loop' = "poll"
          /\ UNCHANGED <<slot, wire>>
       \/ loop' = "poll" /\ UNCHANGED <<slotVars, wire>>
    /\ UNCHANGED <<healthy, browserVars, timeVars, clock>>

\* stm32SyncStarted: the generation is read here, the time was before.
SyncStarted ==
    /\ loop = "started" /\ loop' = "poll"
    /\ inFlight' = [is |-> TRUE, time |-> taken, generation |-> pending.generation]
    /\ taken' = 0
    /\ UNCHANGED <<healthy, slotVars, browserVars, wire, connected, sntp, sample,
                   pending, lastSync, shown, clock>>

\* The slot is freed and nobody told (for mutation).
ExpireSilently ==
    /\ loop = "poll" /\ slot.busy
    /\ slot' = NoSlot /\ loop' = "frames"
    /\ UNCHANGED <<healthy, sequence, browserVars, wire, timeVars, clock>>

\* poll: a service without an answer for three seconds is given up.
Expire ==
    /\ loop = "poll" /\ slot.busy
    /\ Conclude("refused")
    /\ UNCHANGED <<healthy, sequence, writing, asked, reply, socketVars, wire, clock>>

Poll ==
    /\ loop = "poll" /\ loop' = "frames"
    /\ UNCHANGED <<healthy, slotVars, browserVars, wire, timeVars, clock>>

-----------------------------------------------------------------------------
\* The STM32 never answers this one.
Drop(w) ==
    /\ w \in wire /\ wire' = wire \ {w}
    /\ UNCHANGED <<healthy, slotVars, browserVars, loop, timeVars, clock>>

Init ==
    /\ healthy = FALSE
    /\ slot = NoSlot /\ sequence = 1
    /\ writing = [t \in Writers |-> NoWrite]
    /\ here = {} /\ browser = [c \in Clients |-> 0]
    /\ asked = [c \in Clients |-> 0]
    /\ reply = [c \in Clients |-> NoReply] /\ telling = NoTelling
    /\ wire = {} /\ loop = "frames"
    /\ connected = FALSE /\ sntp = 0 /\ sample = 0
    /\ pending = [time |-> 0, generation |-> 0, is |-> FALSE, due |-> TRUE]
    /\ taken = 0
    /\ inFlight = [is |-> FALSE, time |-> 0, generation |-> 0]
    /\ lastSync = 0 /\ shown = "network" /\ clock = {}

MainLoop ==
    \/ Tell \/ Settle \/ SetUartHealthy \/ SetStationConnected
    \/ BeginSync \/ SyncStarted \/ Poll

Next ==
    \/ \E c \in Clients : Arrive(c) \/ Leave(c)
    \/ \E c \in Clients, allowed \in BOOLEAN, request \in Requests : Ask(c, allowed, request)
    \/ RunRequest
    \/ \E t \in Writers : Write(t) \/ WriteFails(t)
    \/ OnSntpSync \/ RetryDue
    \/ \E w \in wire, result \in {"ok", "refused"} : CompleteService(w, result)
    \/ MainLoop \/ Expire
    \/ \E w \in wire : Drop(w)

Spec == Init /\ [][Next]_vars

(* The main task keeps running its loop; a frame that is kept waiting is   *)
(* answered, dropped, or its three seconds pass.                           *)
FairSpec ==
    /\ Spec
    /\ WF_vars(MainLoop)
    /\ SF_vars(Expire)

-----------------------------------------------------------------------------
\* The browser of now has the slot.
HasTheSlot(c) ==
    c \in here /\ slot.busy /\ slot.owner = c /\ slot.browser = browser[c]

\* The browser of now is about to be told.
IsBeingTold(c) == c \in here /\ telling.owner = c /\ telling.browser = browser[c]

(* A browser waits exactly for its request that has the slot, or whose     *)
(* answer is on its way: no answer, time-out or failed write of somebody   *)
(* else's, and nobody who leaves or arrives, comes between a browser and   *)
(* the answer to what was accepted.                                        *)
AcceptedHasTheSlot ==
    \A c \in Clients : asked[c] = IF HasTheSlot(c) THEN slot.request
                                  ELSE IF IsBeingTold(c) THEN telling.request ELSE 0

(* An "ok" is taken from the slot only when the STM32 has just served that *)
(* very request, and only then sent.  If its browser is still there, it is *)
(* the one that this browser waits for.                                    *)
OkMeansServed ==
    /\ telling' # telling /\ telling'.result = "ok" =>
           \E w \in wire \ wire' : /\ w.owner = telling'.owner /\ w.browser = telling'.browser
                                   /\ w.request = telling'.request
    /\ \A c \in Clients : reply'[c] # reply[c] /\ reply'[c].result = "ok" =>
           /\ telling = [owner |-> c, browser |-> reply'[c].browser,
                         request |-> reply'[c].request, result |-> "ok"]
           /\ telling.browser = browser[c] => asked[c] = telling.request

IsTheSlots(r) ==
    /\ r.sequence = slot.sequence /\ r.owner = slot.owner
    /\ r.browser = slot.browser /\ r.request = slot.request

(* The slot is freed by the answer to its own request, by its own failed   *)
(* write, or by its time-out: a browser that is lost frees neither         *)
(* somebody else's slot nor its own.                                       *)
SlotIsFreedByItsOwn ==
    slot.busy /\ slot' # slot =>
        \/ \E w \in wire \ wire' : IsTheSlots(w)
        \/ \E t \in Writers : /\ writing'[t] # writing[t] /\ wire' = wire
                              /\ IsTheSlots(writing[t])
        \/ loop = "poll" /\ loop' # "poll" /\ UNCHANGED <<wire, writing, socketVars>>

(* TimeSync believes a delivery in flight exactly while its service has    *)
(* the slot: nobody else's time-out, answer or failed write frees it, or   *)
(* the network time would never be sent again.                             *)
SyncHasTheSlot ==
    slot.busy /\ slot.owner = TimeSync <=> inFlight.is \/ loop = "started"

(* A time is reported as delivered only if the STM32 has set its clock to  *)
(* it.                                                                     *)
ReportedSyncIsReal == lastSync # 0 => lastSync \in clock

(* Every request taken from a browser is answered in the end, or the       *)
(* browser has left.                                                       *)
RequestsAreAnswered == \A c \in Clients : []<>(asked[c] = 0)

(* An answer goes to the browser that asked.  It does not: the gateway     *)
(* knows that one by its socket number alone.                              *)
AnswersReachTheirAsker ==
    \A c \in Clients : reply[c].result # "none" => reply[c].browser = browser[c]

(* TimeSync.h: "a completed NTP sample remains pending until the STM32     *)
(* acknowledges its SET_RTC request".                                      *)
SampleStaysPending == sntp = 0 /\ sample # 0 => pending.is \/ sample \in clock
=============================================================================
