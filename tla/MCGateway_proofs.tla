-------------------------- MODULE MCGateway_proofs --------------------------
(***************************************************************************)
(* What is proved of the parts of the gateway that MCGateway explores side *)
(* by side. An answer goes where the code can send it: to the browser that *)
(* asked, or to whoever has its socket after it; a reported time was set,  *)
(* a browser's replies come once and in order, and the Companion sends a   *)
(* command once, on its own socket. What the MQTT client chooses to        *)
(* publish was acquired after the last reset it knows of, and the one      *)
(* message chosen before a reset is all that can be late; what the energy  *)
(* meters publish is of the meter it is announced for. And every part is   *)
(* of its types, what it counts within the bounds of what it is asked for. *)
(*                                                                         *)
(* An invariant of a part is one of AllSpec, because a step of AllNext is  *)
(* a step of the part or leaves its variables alone.                       *)
(***************************************************************************)
EXTENDS MCGateway, FiniteSetTheorems, SequenceTheorems, WellFoundedInduction, TLAPS

-----------------------------------------------------------------------------
(* The services *)

\* A request that is being written, or that the STM32 still holds, is the slot's if it has
\* the slot's sequence.
RequestIsTheSlots(r) ==
    slot.busy /\ r.sequence = slot.sequence =>
        r.owner = slot.owner /\ r.browser = slot.browser /\ r.request = slot.request
SlotIsOneRequest ==
    /\ slot.busy => slot.sequence # 0
    /\ slot.busy /\ slot.owner \in Clients => slot.request \in Requests
    /\ \A t \in Writers : RequestIsTheSlots(writing[t])
    /\ \A w \in wire : RequestIsTheSlots(w)

\* A request that is being written has a number, and a time sent to the STM32 is one.
RequestsAreNumbered ==
    /\ \A t \in Writers : writing[t] # NoWrite => writing[t].sequence # 0
    /\ writing["http"] # NoWrite => writing["http"].owner \in Clients
    /\ writing["mqtt"].owner = Mqtt
    /\ \A w \in wire : w.owner = TimeSync => w.request \in 1 .. MaxSample

\* The browser of the slot, and the one of the answer on its way, has its socket or had it
\* before; the one that has it now waits for one of the two, which are never both its own.
BrowsersHold ==
    /\ slot.busy /\ slot.owner \in Clients => slot.browser <= browser[slot.owner]
    /\ telling.owner \in Clients =>
          telling.browser <= browser[telling.owner] /\ telling.request # 0
    /\ AcceptedHasTheSlot
    /\ \A c \in Clients : ~(HasTheSlot(c) /\ IsBeingTold(c))

\* An answer is on its way only while the main task is at it.
TellingHolds ==
    IF loop = "tell"
    THEN telling.owner \in Clients /\ telling.result \in {"ok", "refused"}
    ELSE telling = NoTelling

\* The time of the slot is the one in flight, or the one about to be.
SlotHasTheTime ==
    /\ loop \in {"begin", "started"} => ~inFlight.is /\ taken # 0
    /\ slot.busy /\ slot.owner = TimeSync =>
          slot.request = IF inFlight.is THEN inFlight.time ELSE taken

\* The last answer of the time servers is the one that waits, and its generation counts it.
SamplesAreCounted ==
    /\ pending.time = sample
    /\ pending.generation = IF sntp = 1 THEN sample - 1 ELSE sample
    /\ sntp # 0 \/ pending.is => sample # 0

\* The types, in the parts the steps change.
SlotTypes ==
    /\ slot \in [busy : BOOLEAN, sequence : 0 .. MaxSequence, owner : Owners,
                 browser : Browsers, request : Tags]
    /\ sequence \in 1 .. MaxSequence
WriteTypes ==
    writing \in [Writers -> [owner : Clients \cup {Mqtt}, browser : Browsers,
                             sequence : 0 .. MaxSequence, request : {0} \cup Requests]]
WireTypes == wire \subseteq Messages
BrowserTypes ==
    /\ asked \in [Clients -> {0} \cup Requests]
    /\ reply \in [Clients -> [result : {"none", "ok", "refused"}, browser : Browsers,
                              request : {0} \cup Requests]]
    /\ telling \in [owner : Clients \cup {Mqtt}, browser : Browsers,
                    request : {0} \cup Requests, result : {"none", "ok", "refused"}]
    /\ here \subseteq Clients /\ browser \in [Clients -> Browsers]
MainTypes ==
    /\ healthy \in BOOLEAN
    /\ loop \in {"frames", "tell", "settle", "time", "begin", "started", "poll"}
    /\ connected \in BOOLEAN /\ sntp \in 0 .. 2 /\ sample \in 0 .. MaxSample
    /\ taken \in 0 .. MaxSample
    /\ lastSync \in 0 .. MaxSample
    /\ shown \in {"network", "ntp", "stm32", "synchronized"}
    /\ clock \subseteq 1 .. MaxSample
PendingTypes ==
    pending \in [time : 0 .. MaxSample, generation : 0 .. MaxSample, is : BOOLEAN,
                 due : BOOLEAN]
FlightTypes == inFlight \in [is : BOOLEAN, time : 0 .. MaxSample, generation : 0 .. MaxSample]

RequestsHold == SlotTypes /\ WriteTypes /\ WireTypes /\ SlotIsOneRequest /\ RequestsAreNumbered
TimeHolds == MainTypes /\ PendingTypes /\ FlightTypes /\ SamplesAreCounted
LinkHolds == SlotHasTheTime /\ SyncHasTheSlot /\ ReportedSyncIsReal

\* The inductive invariant of the services.
ServicesInv ==
    RequestsHold /\ BrowserTypes /\ BrowsersHold /\ TellingHolds /\ TimeHolds /\ LinkHolds

\* What a step of the services tells and frees.
ServicesPromise == OkMeansServed /\ SlotIsFreedByItsOwn

\* Owners and numbers.
LEMMA NamesFacts ==
    /\ TimeSync \in Owners /\ Mqtt \in Owners /\ Clients \subseteq Owners
    /\ TimeSync \notin Clients /\ Mqtt \notin Clients /\ TimeSync # Mqtt
    /\ TimeSync \notin Clients \cup {Mqtt}
    /\ Writers = {"http", "mqtt"}
    /\ MaxSequence \in Nat /\ MaxSequence >= 2 /\ MaxSample \in Nat
    /\ Requests \subseteq Tags /\ 0 \in Tags /\ 0 .. MaxSample \subseteq Tags
    /\ 0 \notin Requests
    /\ {0} \cup Requests \subseteq Tags
    /\ Browsers \subseteq Nat /\ 0 \in Browsers /\ MaxBrowsers \in Nat
  BY ClientsAssumption, SequenceAssumption, SampleAssumption, BrowsersAssumption
     DEF Owners, TimeSync, Mqtt, Writers, Requests, Tags, Browsers

\* An empty slot, and nothing to write.
LEMMA NothingFacts ==
    /\ NoSlot \in [busy : BOOLEAN, sequence : 0 .. MaxSequence, owner : Owners,
                   browser : Browsers, request : Tags]
    /\ ~NoSlot.busy
    /\ NoWrite \in [owner : Clients \cup {Mqtt}, browser : Browsers,
                    sequence : 0 .. MaxSequence, request : {0} \cup Requests]
    /\ NoWrite.sequence = 0 /\ NoWrite.owner = Mqtt
    /\ NoReply \in [result : {"none", "ok", "refused"}, browser : Browsers,
                    request : {0} \cup Requests]
    /\ NoReply.result = "none"
    /\ NoTelling \in [owner : Clients \cup {Mqtt}, browser : Browsers,
                      request : {0} \cup Requests, result : {"none", "ok", "refused"}]
    /\ NoTelling.owner = Mqtt /\ NoTelling.owner \notin Clients /\ NoTelling.result = "none"
  BY NamesFacts DEF NoSlot, NoWrite, NoReply, NoTelling

\* The sequence comes round within its range.
LEMMA FollowingFacts == \A s \in 1 .. MaxSequence : Following(s) \in 1 .. MaxSequence
  BY NamesFacts DEF Following

\* What a free slot that is reserved becomes.
LEMMA ReserveFacts ==
    ASSUME SlotTypes, NEW owner \in Owners, NEW number \in Browsers, NEW request \in Tags,
           Reserve(owner, number, request)
    PROVE  /\ SlotTypes'
           /\ slot'.busy /\ slot'.sequence = sequence /\ slot'.owner = owner
           /\ slot'.browser = number /\ slot'.request = request /\ sequence # 0
           /\ \A t \in Writers : writing[t].sequence # sequence
           /\ \A w \in wire : w.sequence # sequence
<1>1. sequence \in 1 .. MaxSequence /\ sequence \in 0 .. MaxSequence /\ sequence # 0
  BY NamesFacts DEF SlotTypes
<1>2. slot' \in [busy : BOOLEAN, sequence : 0 .. MaxSequence, owner : Owners,
                 browser : Browsers, request : Tags]
  BY <1>1 DEF Reserve
<1>3. sequence' \in 1 .. MaxSequence
  BY <1>1, FollowingFacts DEF Reserve
<1> QED  BY <1>1, <1>2, <1>3 DEF SlotTypes, Reserve, NotOutstanding

\* A slot that is given back breaks no promise to a request.
LEMMA FreedSlot ==
    ASSUME RequestsHold, slot' = NoSlot, sequence' = sequence,
           writing' = writing, wire' \subseteq wire
    PROVE  RequestsHold'
<1>1. SlotTypes'
  BY NothingFacts DEF RequestsHold, SlotTypes
<1>2. WriteTypes' /\ WireTypes' /\ RequestsAreNumbered'
  BY DEF RequestsHold, WriteTypes, WireTypes, RequestsAreNumbered
<1>3. SlotIsOneRequest'
  BY NothingFacts DEF SlotIsOneRequest, RequestIsTheSlots
<1> QED  BY <1>1, <1>2, <1>3 DEF RequestsHold

\* So does a request that leaves the line.
LEMMA LeftTheLine ==
    ASSUME RequestsHold, UNCHANGED <<slot, sequence, writing>>, wire' \subseteq wire
    PROVE  RequestsHold'
  BY DEF RequestsHold, SlotTypes, WriteTypes, WireTypes, RequestsAreNumbered,
         SlotIsOneRequest, RequestIsTheSlots

\* An answer to a browser is one, and reaches whoever has the socket.
AnswerTells(client, number, request, result) ==
    \A c \in Clients :
        /\ reply'[c] # reply[c] =>
              /\ c = client /\ c \in here
              /\ reply'[c] = [result |-> result, browser |-> number, request |-> request]
        /\ asked'[c] = IF c = client /\ number = browser[c] THEN 0 ELSE asked[c]

\* So an answer tells no other socket, and leaves nobody waiting whom it answered.
LEMMA AnswerFacts ==
    ASSUME BrowserTypes, UNCHANGED socketVars, telling' = telling \/ telling' = NoTelling,
           NEW client, NEW number, NEW request, NEW result,
           client \in Clients /\ number \in Browsers /\ request \in {0} \cup Requests
               /\ result \in {"ok", "refused"},
           Answer(client, number, request, result)
    PROVE  BrowserTypes' /\ AnswerTells(client, number, request, result)
<1>1. asked' \in [Clients -> {0} \cup Requests]
  BY DEF BrowserTypes, Answer
<1>2. [result |-> result, browser |-> number, request |-> request] \in
          [result : {"none", "ok", "refused"}, browser : Browsers, request : {0} \cup Requests]
  OBVIOUS
<1>3. reply' \in [Clients -> [result : {"none", "ok", "refused"}, browser : Browsers,
                              request : {0} \cup Requests]]
  BY <1>2 DEF BrowserTypes, Answer
<1>4. \A c \in Clients : reply'[c] # reply[c] =>
         /\ c = client /\ c \in here
         /\ reply'[c] = [result |-> result, browser |-> number, request |-> request]
  BY DEF BrowserTypes, Answer
<1>5. \A c \in Clients :
         asked'[c] = IF c = client /\ number = browser[c] THEN 0 ELSE asked[c]
  BY DEF BrowserTypes, Answer
<1>6. telling' \in [owner : Clients \cup {Mqtt}, browser : Browsers,
                    request : {0} \cup Requests, result : {"none", "ok", "refused"}]
  BY NothingFacts DEF BrowserTypes
<1> QED  BY <1>1, <1>3, <1>4, <1>5, <1>6 DEF BrowserTypes, socketVars, AnswerTells

\* A step that leaves the browsers and the slot alone.
LEMMA BrowsersKept ==
    ASSUME BrowserTypes, BrowsersHold, UNCHANGED <<slot, asked, reply, telling, here, browser>>
    PROVE  BrowserTypes' /\ BrowsersHold'
  BY DEF BrowserTypes, BrowsersHold, AcceptedHasTheSlot, HasTheSlot, IsBeingTold

\* A step that leaves the answer on its way alone, or is not about one.
LEMMA TellingKept ==
    ASSUME TellingHolds, telling' = telling,
           loop' = loop \/ (loop # "tell" /\ loop' # "tell")
    PROVE  TellingHolds'
  BY DEF TellingHolds

\* What a browser waits for while it does not have the slot.
ToldNext(c) == IF IsBeingTold(c) THEN telling.request ELSE 0

\* Nobody waits for a slot that is free or that no browser has.
LEMMA NobodyWaits ==
    ASSUME AcceptedHasTheSlot, ~slot.busy \/ slot.owner \notin Clients
    PROVE  \A c \in Clients : asked[c] = ToldNext(c)
  BY DEF AcceptedHasTheSlot, HasTheSlot, ToldNext

\* A slot that no browser had, or nobody, and that no browser gets.
LEMMA NoBrowsersSlot ==
    ASSUME BrowsersHold, ~slot.busy \/ slot.owner \notin Clients,
           ~slot'.busy \/ slot'.owner \notin Clients,
           UNCHANGED <<asked, telling, here, browser>>
    PROVE  BrowsersHold'
  BY DEF BrowsersHold, AcceptedHasTheSlot, HasTheSlot, IsBeingTold

\* When the request that has the slot is refused to its browser, that one waits no longer.
LEMMA FreedBrowsers ==
    ASSUME BrowsersHold, slot.busy, slot.owner \in Clients, ~slot'.busy,
           UNCHANGED <<telling, here, browser>>,
           \A c \in Clients :
               asked'[c] = IF c = slot.owner /\ slot.browser = browser[c] THEN 0 ELSE asked[c]
    PROVE  BrowsersHold'
<1>1. \A c \in Clients : asked'[c] = ToldNext(c)
  BY DEF BrowsersHold, AcceptedHasTheSlot, HasTheSlot, IsBeingTold, ToldNext
<1>2. \A c \in Clients : IsBeingTold(c)' = IsBeingTold(c) /\ ~HasTheSlot(c)'
  BY DEF HasTheSlot, IsBeingTold
<1>3. AcceptedHasTheSlot'
  BY <1>1, <1>2 DEF AcceptedHasTheSlot, ToldNext
<1> QED  BY <1>2, <1>3 DEF BrowsersHold

\* A step that tells no browser and frees no slot keeps the promise.
LEMMA PromiseKept ==
    ASSUME ~slot.busy \/ slot' = slot, telling' = telling,
           \A c \in Clients : reply'[c] # reply[c] => reply'[c].result # "ok"
    PROVE  ServicesPromise
  BY DEF ServicesPromise, OkMeansServed, SlotIsFreedByItsOwn

\* The invariant of the services has their types.
LEMMA ServicesTyped == ServicesInv => TypeOK
  BY DEF ServicesInv, RequestsHold, TimeHolds, LinkHolds, SlotTypes, WriteTypes, WireTypes,
         BrowserTypes, TellingHolds, MainTypes, PendingTypes, FlightTypes, TypeOK

-----------------------------------------------------------------------------
\* The task of a browser or of the broker begins a request.
LEMMA BeginStep ==
    ASSUME RequestsHold, NEW t \in Writers, NEW owner \in Clients \cup {Mqtt},
           NEW number \in Browsers,
           NEW request \in {0} \cup Requests, owner \in Clients => request \in Requests,
           t = "http" => owner \in Clients, t = "mqtt" => owner = Mqtt,
           writing[t] = NoWrite, Begin(t, owner, number, request), wire' = wire
    PROVE  /\ RequestsHold' /\ slot'.owner # TimeSync
           /\ slot'.busy /\ slot'.owner = owner /\ slot'.browser = number
           /\ slot'.request = request
<1>1. owner \in Owners /\ owner # TimeSync /\ request \in Tags
  BY NamesFacts DEF Owners
<1>2. Reserve(owner, number, request)
  BY DEF Begin
<1>3. /\ SlotTypes' /\ slot'.busy /\ slot'.sequence = sequence /\ slot'.owner = owner
      /\ slot'.browser = number /\ slot'.request = request /\ sequence # 0
      /\ \A u \in Writers : writing[u].sequence # sequence
      /\ \A w \in wire : w.sequence # sequence
  BY <1>1, <1>2, ReserveFacts DEF RequestsHold
<1>4. /\ writing' = [writing EXCEPT ![t] = [owner |-> owner, browser |-> number,
                                           sequence |-> sequence, request |-> request]]
      /\ writing \in [Writers -> [owner : Clients \cup {Mqtt}, browser : Browsers,
                                  sequence : 0 .. MaxSequence, request : {0} \cup Requests]]
      /\ sequence \in 0 .. MaxSequence
  BY NamesFacts DEF Begin, RequestsHold, WriteTypes, SlotTypes
<1>5. WriteTypes'
  BY <1>4 DEF WriteTypes
<1>6. WireTypes'
  BY DEF RequestsHold, WireTypes
<1>7. /\ writing'[t] = [owner |-> owner, browser |-> number, sequence |-> sequence,
                        request |-> request]
      /\ \A u \in Writers : u # t => writing'[u] = writing[u]
  BY <1>4
<1>8. SlotIsOneRequest'
  BY <1>3, <1>7 DEF SlotIsOneRequest, RequestIsTheSlots
<1>9. RequestsAreNumbered'
  <2>1. \A u \in Writers : writing'[u] # NoWrite => writing'[u].sequence # 0
    BY <1>3, <1>7 DEF RequestsHold, RequestsAreNumbered
  <2>2. writing'["http"] # NoWrite => writing'["http"].owner \in Clients
    BY <1>7, NamesFacts DEF RequestsHold, RequestsAreNumbered
  <2>3. writing'["mqtt"].owner = Mqtt
    BY <1>7, NamesFacts DEF RequestsHold, RequestsAreNumbered
  <2>4. \A w \in wire' : w.owner = TimeSync => w.request \in 1 .. MaxSample
    BY DEF RequestsHold, RequestsAreNumbered
  <2> QED  BY <2>1, <2>2, <2>3, <2>4 DEF RequestsAreNumbered
<1> QED  BY <1>1, <1>3, <1>5, <1>6, <1>8, <1>9 DEF RequestsHold

\* What the HTTP task and the MQTT task do leaves the main task's state alone.
LEMMA TimeUntouched ==
    ASSUME TimeHolds, UNCHANGED <<loop, timeVars, clock>>, healthy' = healthy
    PROVE  TimeHolds'
  BY DEF TimeHolds, MainTypes, PendingTypes, FlightTypes, SamplesAreCounted, timeVars

\* A step of the other tasks keeps the slot's link with the time in flight when it takes a
\* free slot, or frees one, for somebody else.
LEMMA LinkKept ==
    ASSUME LinkHolds, UNCHANGED <<loop, timeVars, clock>>,
           \/ slot' = slot
           \/ ~slot.busy /\ slot'.owner # TimeSync
           \/ slot.owner # TimeSync /\ ~slot'.busy
    PROVE  LinkHolds'
  BY DEF LinkHolds, SlotHasTheTime, SyncHasTheSlot, ReportedSyncIsReal, timeVars

\* A browser gets a socket.
LEMMA ArriveStep ==
    ASSUME ServicesInv, NEW client \in Clients, Arrive(client)
    PROVE  ServicesInv' /\ ServicesPromise
<1>1. /\ client \notin here /\ browser[client] < MaxBrowsers
      /\ here' = here \cup {client} /\ browser' = [browser EXCEPT ![client] = @ + 1]
      /\ UNCHANGED <<slot, sequence, writing, asked, reply, wire, loop, timeVars, clock>>
      /\ UNCHANGED <<healthy, telling>>
  BY DEF Arrive, slotVars
<1>2. BrowserTypes /\ BrowsersHold /\ browser \in [Clients -> Browsers]
  BY DEF ServicesInv, BrowserTypes
<1>3. /\ browser[client] \in Nat /\ browser[client] + 1 \in Browsers
      /\ browser[client] < browser[client] + 1
  BY <1>1, <1>2, NamesFacts DEF Browsers
<1>4. BrowserTypes'
  BY <1>1, <1>2, <1>3 DEF BrowserTypes
<1>5. /\ browser'[client] = browser[client] + 1
      /\ \A c \in Clients : c # client => browser'[c] = browser[c]
  BY <1>1, <1>2
<1>6. slot.browser \in Nat
  BY NamesFacts DEF ServicesInv, RequestsHold, SlotTypes
<1>7. \A n \in Nat, c \in Clients :
         n <= browser[c] => n <= browser'[c] /\ (c = client => n # browser'[client])
  <2> SUFFICES ASSUME NEW n \in Nat, NEW c \in Clients, n <= browser[c]
               PROVE  n <= browser'[c] /\ (c = client => n # browser'[client])
    OBVIOUS
  <2>1. CASE c = client
    BY <1>3, <1>5, <2>1
  <2>2. CASE c # client
    BY <1>5, <2>2
  <2> QED  BY <2>1, <2>2
<1>8. telling.browser \in Nat
  BY <1>2, NamesFacts DEF BrowserTypes
<1>9. /\ slot.busy /\ slot.owner \in Clients =>
            /\ slot.browser <= browser'[slot.owner]
            /\ slot.owner = client => slot.browser # browser'[client]
      /\ telling.owner \in Clients =>
            /\ telling.browser <= browser'[telling.owner]
            /\ telling.owner = client => telling.browser # browser'[client]
  BY <1>2, <1>6, <1>7, <1>8 DEF BrowsersHold
<1>10. \A c \in Clients : HasTheSlot(c)' = HasTheSlot(c) /\ IsBeingTold(c)' = IsBeingTold(c)
  <2> TAKE c \in Clients
  <2>1. CASE c = client
    BY <1>1, <1>9, <2>1 DEF HasTheSlot, IsBeingTold
  <2>2. CASE c # client
    BY <1>1, <1>5, <2>2 DEF HasTheSlot, IsBeingTold
  <2> QED  BY <2>1, <2>2
<1>11. BrowsersHold'
  <2>1. AcceptedHasTheSlot'
    BY <1>1, <1>2, <1>10 DEF BrowsersHold, AcceptedHasTheSlot
  <2>2. \A c \in Clients : ~(HasTheSlot(c)' /\ IsBeingTold(c)')
    BY <1>2, <1>10 DEF BrowsersHold
  <2>3. telling.owner \in Clients => telling.request # 0
    BY <1>2 DEF BrowsersHold
  <2> QED  BY <1>1, <1>9, <2>1, <2>2, <2>3 DEF BrowsersHold
<1>12. RequestsHold' /\ TellingHolds' /\ TimeHolds' /\ LinkHolds'
  BY <1>1, LeftTheLine, TellingKept, TimeUntouched, LinkKept DEF ServicesInv
<1> QED  BY <1>1, <1>4, <1>11, <1>12, PromiseKept DEF ServicesInv

\* A browser leaves its socket.
LEMMA LeaveStep ==
    ASSUME ServicesInv, NEW client \in Clients, Leave(client)
    PROVE  ServicesInv' /\ ServicesPromise
<1>1. /\ here' = here \ {client} /\ asked' = [asked EXCEPT ![client] = 0]
      /\ reply' = [reply EXCEPT ![client] = NoReply]
      /\ UNCHANGED <<slot, sequence, writing, browser, wire, loop, timeVars, clock>>
      /\ UNCHANGED <<healthy, telling>>
  BY DEF Leave, slotVars
<1>2. BrowserTypes /\ BrowsersHold
  BY DEF ServicesInv
<1>3. /\ asked'[client] = 0 /\ reply'[client] = NoReply
      /\ \A c \in Clients : c # client => asked'[c] = asked[c] /\ reply'[c] = reply[c]
  BY <1>1, <1>2 DEF BrowserTypes
<1>4. BrowserTypes'
  BY <1>1, <1>2, NothingFacts DEF BrowserTypes
<1>5. \A c \in Clients : /\ HasTheSlot(c)' = (c # client /\ HasTheSlot(c))
                          /\ IsBeingTold(c)' = (c # client /\ IsBeingTold(c))
  BY <1>1 DEF HasTheSlot, IsBeingTold
<1>6. AcceptedHasTheSlot'
  <2> SUFFICES ASSUME NEW c \in Clients
               PROVE  asked'[c] = (IF HasTheSlot(c) THEN slot.request
                                   ELSE IF IsBeingTold(c) THEN telling.request ELSE 0)'
    BY DEF AcceptedHasTheSlot
  <2>1. CASE c = client
    BY <1>3, <1>5, <2>1
  <2>2. CASE c # client
    BY <1>1, <1>2, <1>3, <1>5, <2>2 DEF BrowsersHold, AcceptedHasTheSlot
  <2> QED  BY <2>1, <2>2
<1>7. BrowsersHold'
  BY <1>1, <1>2, <1>5, <1>6 DEF BrowsersHold
<1>8. RequestsHold' /\ TellingHolds' /\ TimeHolds' /\ LinkHolds'
  BY <1>1, LeftTheLine, TellingKept, TimeUntouched, LinkKept DEF ServicesInv
<1>9. \A c \in Clients : reply'[c] # reply[c] => reply'[c].result # "ok"
  BY <1>3, NothingFacts
<1> QED  BY <1>1, <1>4, <1>7, <1>8, <1>9, PromiseKept DEF ServicesInv

\* A browser asks.
LEMMA AskStep ==
    ASSUME ServicesInv, NEW client \in Clients, NEW allowed \in BOOLEAN,
           NEW request \in Requests, Ask(client, allowed, request)
    PROVE  ServicesInv' /\ ServicesPromise
<1>1. /\ BrowserTypes /\ BrowsersHold /\ client \in here /\ asked[client] = 0
      /\ browser[client] \in Browsers
      /\ UNCHANGED <<healthy, here, browser, telling, wire, loop, timeVars, clock>>
  BY DEF ServicesInv, BrowserTypes, Ask, socketVars
<1>2. TimeHolds' /\ TellingHolds'
  BY <1>1, TimeUntouched, TellingKept DEF ServicesInv
<1>3. CASE allowed /\ ~slot.busy /\ healthy
  <2>1. /\ Begin("http", client, browser[client], request) /\ writing["http"] = NoWrite
        /\ asked' = [asked EXCEPT ![client] = request]
        /\ reply' = [reply EXCEPT ![client] = NoReply]
    BY <1>3 DEF Ask
  <2>2. /\ RequestsHold' /\ slot'.owner # TimeSync
        /\ slot'.busy /\ slot'.owner = client /\ slot'.browser = browser[client]
        /\ slot'.request = request
    BY <1>1, <2>1, BeginStep, NamesFacts DEF ServicesInv
  <2>3. BrowserTypes'
    BY <1>1, <2>1, NothingFacts DEF BrowserTypes
  <2>4. \A c \in Clients : asked'[c] = IF c = client THEN request ELSE ToldNext(c)
    BY <1>1, <1>3, <2>1, NobodyWaits DEF BrowsersHold, BrowserTypes
  <2>5. ~IsBeingTold(client)
    <3>1. asked[client] = ToldNext(client)
      BY <1>1, <1>3, NobodyWaits DEF BrowsersHold
    <3> QED  BY <1>1, <3>1 DEF BrowsersHold, IsBeingTold, ToldNext
  <2>6. \A c \in Clients : HasTheSlot(c)' = (c = client) /\ IsBeingTold(c)' = IsBeingTold(c)
    BY <1>1, <2>2 DEF HasTheSlot, IsBeingTold
  <2>7. BrowsersHold'
    <3>1. browser[client] \in Nat
      BY <1>1, NamesFacts
    <3>2. slot'.browser = browser[client] /\ browser'[slot'.owner] = browser[client]
      BY <1>1, <2>2
    <3>3. slot'.browser <= browser'[slot'.owner]
      BY <3>1, <3>2
    <3>4. AcceptedHasTheSlot'
      BY <1>1, <2>2, <2>4, <2>6 DEF AcceptedHasTheSlot, ToldNext
    <3>5. \A c \in Clients : ~(HasTheSlot(c)' /\ IsBeingTold(c)')
      BY <2>5, <2>6
    <3> QED  BY <1>1, <3>3, <3>4, <3>5 DEF BrowsersHold
  <2>8. LinkHolds'
    BY <1>1, <1>3, <2>2, LinkKept DEF ServicesInv
  <2>9. \A c \in Clients : reply'[c] # reply[c] => reply'[c].result # "ok"
    BY <1>1, <2>1, NothingFacts DEF BrowserTypes
  <2> QED  BY <1>1, <1>2, <1>3, <2>2, <2>3, <2>7, <2>8, <2>9, PromiseKept DEF ServicesInv
<1>4. CASE ~(allowed /\ ~slot.busy /\ healthy)
  <2>1. /\ Answer(client, browser[client], request, "refused")
        /\ UNCHANGED <<slot, sequence, writing>>
    BY <1>4 DEF Ask, slotVars
  <2>2. /\ BrowserTypes'
        /\ \A c \in Clients : reply'[c] # reply[c] => reply'[c].result = "refused"
        /\ \A c \in Clients : asked'[c] = asked[c]
    <3>1. UNCHANGED socketVars /\ request \in {0} \cup Requests
          /\ (telling' = telling \/ telling' = NoTelling)
      BY <1>1 DEF socketVars
    <3>2. "refused" \in {"ok", "refused"} /\ \A c \in Clients : c = client => asked[c] = 0
      BY <1>1
    <3>3. BrowserTypes' /\ AnswerTells(client, browser[client], request, "refused")
      BY <1>1, <2>1, <3>1, <3>2, AnswerFacts, Zenon
    <3> QED  BY <3>2, <3>3 DEF AnswerTells
  <2>3. RequestsHold' /\ LinkHolds'
    BY <1>1, <2>1, LeftTheLine, LinkKept DEF ServicesInv
  <2>4. BrowsersHold'
    BY <1>1, <2>1, <2>2 DEF BrowsersHold, AcceptedHasTheSlot, HasTheSlot, IsBeingTold
  <2> QED  BY <1>1, <1>2, <2>1, <2>2, <2>3, <2>4, PromiseKept DEF ServicesInv
<1> QED  BY <1>3, <1>4

\* So does the broker.
LEMMA RunRequestStep == ServicesInv /\ RunRequest => ServicesInv' /\ ServicesPromise
<1> SUFFICES ASSUME ServicesInv, RunRequest PROVE ServicesInv' /\ ServicesPromise
  OBVIOUS
<1>1. /\ Begin("mqtt", Mqtt, 0, 0) /\ writing["mqtt"] = NoWrite /\ ~slot.busy
      /\ UNCHANGED <<asked, reply, here, browser, wire, loop, timeVars, clock>>
      /\ UNCHANGED <<healthy, telling>>
  BY DEF RunRequest, socketVars
<1>2. /\ RequestsHold' /\ slot'.owner # TimeSync /\ slot'.owner = Mqtt
  BY <1>1, BeginStep, NamesFacts DEF ServicesInv
<1>3. BrowserTypes'
  BY <1>1 DEF ServicesInv, BrowserTypes
<1>4. BrowsersHold'
  <2>1. ~slot.busy \/ slot.owner \notin Clients
    BY <1>1
  <2>2. ~slot'.busy \/ slot'.owner \notin Clients
    BY <1>2, NamesFacts
  <2> QED  BY <1>1, <2>1, <2>2, NoBrowsersSlot DEF ServicesInv
<1>5. TimeHolds' /\ TellingHolds' /\ LinkHolds'
  BY <1>1, <1>2, TimeUntouched, TellingKept, LinkKept DEF ServicesInv
<1> QED  BY <1>1, <1>2, <1>3, <1>4, <1>5, PromiseKept DEF ServicesInv

\* A request that has left its writer is no longer one that is being written.
LEMMA WrittenKept ==
    ASSUME RequestsAreNumbered, NEW t \in Writers, writing'[t] = NoWrite,
           \A u \in Writers : u # t => writing'[u] = writing[u],
           \A w \in wire' : w \in wire \/ w.owner # TimeSync
    PROVE  RequestsAreNumbered'
<1>1. \A u \in Writers : writing'[u] # NoWrite => writing'[u].sequence # 0
  BY DEF RequestsAreNumbered
<1>2. writing'["http"] # NoWrite => writing'["http"].owner \in Clients
  BY NamesFacts DEF RequestsAreNumbered
<1>3. writing'["mqtt"].owner = Mqtt
  BY NamesFacts, NothingFacts DEF RequestsAreNumbered
<1>4. \A w \in wire' : w.owner = TimeSync => w.request \in 1 .. MaxSample
  BY DEF RequestsAreNumbered
<1> QED  BY <1>1, <1>2, <1>3, <1>4 DEF RequestsAreNumbered

\* A request is written.
LEMMA WriteStep ==
    ASSUME ServicesInv, NEW t \in Writers, Write(t)
    PROVE  ServicesInv' /\ ServicesPromise
<1> DEFINE w == writing[t]
<1>1. /\ wire' = wire \cup {w} /\ writing' = [writing EXCEPT ![t] = NoWrite]
      /\ UNCHANGED <<slot, sequence, asked, reply, here, browser, loop, timeVars, clock>>
      /\ UNCHANGED <<healthy, telling>> /\ writing[t] # NoWrite
  BY DEF Write, slotVars, socketVars
<1>2. writing[t] \in [owner : Clients \cup {Mqtt}, browser : Browsers,
                      sequence : 1 .. MaxSequence, request : {0} \cup Requests]
  <2>1. writing[t] \in [owner : Clients \cup {Mqtt}, browser : Browsers,
                        sequence : 0 .. MaxSequence, request : {0} \cup Requests]
    BY DEF ServicesInv, RequestsHold, WriteTypes
  <2>2. writing[t].sequence # 0
    BY <1>1 DEF ServicesInv, RequestsHold, RequestsAreNumbered
  <2> QED  BY <2>1, <2>2, NamesFacts
<1>3. w \in Messages /\ w.owner # TimeSync
  BY <1>2, NamesFacts DEF Messages, Owners
<1>4. /\ writing'[t] = NoWrite
      /\ \A u \in Writers : u # t => writing'[u] = writing[u]
  BY <1>1 DEF ServicesInv, RequestsHold, WriteTypes
<1>5. RequestsHold'
  <2>1. SlotTypes' /\ WireTypes'
    BY <1>1, <1>3 DEF ServicesInv, RequestsHold, SlotTypes, WireTypes
  <2>2. WriteTypes'
    BY <1>1, NothingFacts DEF ServicesInv, RequestsHold, WriteTypes
  <2>3. RequestsAreNumbered'
    BY <1>1, <1>3, <1>4, WrittenKept DEF ServicesInv, RequestsHold
  <2>4. SlotIsOneRequest'
    <3>1. slot.busy => slot.sequence # 0
      BY DEF ServicesInv, RequestsHold, SlotIsOneRequest
    <3>2. RequestIsTheSlots(w)
      BY DEF ServicesInv, RequestsHold, SlotIsOneRequest, RequestIsTheSlots
    <3>3. \A u \in Writers : RequestIsTheSlots(writing[u])
      BY DEF ServicesInv, RequestsHold, SlotIsOneRequest
    <3>4. \A u \in Writers : RequestIsTheSlots(writing[u])'
      BY <1>1, <1>4, <3>1, <3>3, NothingFacts DEF RequestIsTheSlots
    <3>5. \A v \in wire' : RequestIsTheSlots(v)'
      BY <1>1, <3>2 DEF ServicesInv, RequestsHold, SlotIsOneRequest, RequestIsTheSlots
    <3> QED
      BY <1>1, <3>4, <3>5 DEF ServicesInv, RequestsHold, SlotIsOneRequest
  <2> QED  BY <2>1, <2>2, <2>3, <2>4 DEF RequestsHold
<1>6. BrowserTypes' /\ BrowsersHold' /\ TellingHolds' /\ TimeHolds' /\ LinkHolds'
  BY <1>1, BrowsersKept, TellingKept, TimeUntouched, LinkKept DEF ServicesInv
<1> QED  BY <1>1, <1>5, <1>6, PromiseKept DEF ServicesInv

\* A write is refused: whoever has the slot with the request's sequence is its owner.
LEMMA WriteFailsStep ==
    ASSUME ServicesInv, NEW t \in Writers, WriteFails(t)
    PROVE  ServicesInv' /\ ServicesPromise
<1>1. /\ writing[t] # NoWrite /\ writing' = [writing EXCEPT ![t] = NoWrite]
      /\ slot' = IF StillMine(t) THEN NoSlot ELSE slot
      /\ UNCHANGED <<sequence, here, browser, wire, loop, timeVars, clock>>
      /\ UNCHANGED <<healthy, telling>>
  BY DEF WriteFails, socketVars
<1>2. writing[t] \in [owner : Clients \cup {Mqtt}, browser : Browsers,
                      sequence : 0 .. MaxSequence, request : {0} \cup Requests]
  BY DEF ServicesInv, RequestsHold, WriteTypes
<1>3. /\ writing'[t] = NoWrite
      /\ \A u \in Writers : u # t => writing'[u] = writing[u]
  BY <1>1 DEF ServicesInv, RequestsHold, WriteTypes
<1>4. RequestsHold'
  <2>1. SlotTypes' /\ WireTypes'
    BY <1>1, NothingFacts DEF ServicesInv, RequestsHold, SlotTypes, WireTypes
  <2>2. WriteTypes'
    BY <1>1, NothingFacts DEF ServicesInv, RequestsHold, WriteTypes
  <2>3. RequestsAreNumbered'
    BY <1>1, <1>3, WrittenKept DEF ServicesInv, RequestsHold
  <2>4. SlotIsOneRequest'
    BY <1>1, <1>3, NothingFacts
       DEF ServicesInv, RequestsHold, SlotIsOneRequest, RequestIsTheSlots
  <2> QED  BY <2>1, <2>2, <2>3, <2>4 DEF RequestsHold
<1>5. StillMine(t) => IsTheSlots(writing[t]) /\ slot.busy
  BY DEF ServicesInv, RequestsHold, SlotIsOneRequest, RequestIsTheSlots, StillMine, IsTheSlots
<1>6. StillMine(t) => slot.owner # TimeSync
  BY <1>2, <1>5, NamesFacts DEF IsTheSlots
<1>7. TimeHolds' /\ TellingHolds' /\ LinkHolds'
  BY <1>1, <1>6, NothingFacts, TimeUntouched, TellingKept, LinkKept DEF ServicesInv
<1>8. /\ BrowserTypes' /\ BrowsersHold'
      /\ \A c \in Clients : reply'[c] # reply[c] => reply'[c].result # "ok"
  <2>1. BrowserTypes /\ BrowsersHold
    BY DEF ServicesInv
  <2>2. CASE StillMine(t) /\ t = "http"
    <3>1. /\ writing[t].owner \in Clients /\ writing[t].browser \in Browsers
          /\ writing[t].request \in {0} \cup Requests /\ "refused" \in {"ok", "refused"}
      BY <1>1, <1>2, <2>2 DEF ServicesInv, RequestsHold, RequestsAreNumbered
    <3>2. Answer(writing[t].owner, writing[t].browser, writing[t].request, "refused")
      BY <2>2 DEF WriteFails
    <3>3. UNCHANGED socketVars /\ (telling' = telling \/ telling' = NoTelling)
      BY <1>1 DEF socketVars
    <3>4. BrowserTypes' /\ AnswerTells(writing[t].owner, writing[t].browser,
                                      writing[t].request, "refused")
      BY <2>1, <3>1, <3>2, <3>3, AnswerFacts, Zenon
    <3>5. writing[t].owner = slot.owner /\ writing[t].browser = slot.browser /\ slot.busy
      BY <1>5, <2>2 DEF IsTheSlots
    <3>6. ~slot'.busy
      BY <1>1, <2>2, NothingFacts
    <3>7. BrowsersHold'
      BY <1>1, <2>1, <3>1, <3>4, <3>5, <3>6, FreedBrowsers DEF AnswerTells
    <3> QED  BY <3>4, <3>7 DEF AnswerTells
  <2>3. CASE StillMine(t) /\ t # "http"
    <3>1. slot.owner = Mqtt
      BY <1>5, <2>3, NamesFacts DEF ServicesInv, RequestsHold, RequestsAreNumbered, IsTheSlots
    <3>2. UNCHANGED <<asked, reply>> /\ ~slot'.busy
      BY <1>1, <2>3, NothingFacts DEF WriteFails
    <3>3. slot.owner \notin Clients
      BY <3>1, NamesFacts
    <3>4. BrowsersHold'
      BY <1>1, <2>1, <3>2, <3>3, NoBrowsersSlot
    <3> QED  BY <1>1, <2>1, <3>2, <3>4 DEF BrowserTypes
  <2>4. CASE ~StillMine(t)
    <3>1. UNCHANGED <<slot, asked, reply, telling, here, browser>>
      BY <1>1, <2>4 DEF WriteFails
    <3> QED  BY <2>1, <3>1, BrowsersKept
  <2> QED  BY <2>2, <2>3, <2>4
<1>9. SlotIsFreedByItsOwn
  BY <1>1, <1>3, <1>5 DEF SlotIsFreedByItsOwn
<1> QED  BY <1>1, <1>4, <1>7, <1>8, <1>9 DEF ServicesInv, ServicesPromise, OkMeansServed

-----------------------------------------------------------------------------
\* The callback of SNTP counts what it stores.
LEMMA SntpStep == ServicesInv /\ (OnSntpSync \/ RetryDue) => ServicesInv' /\ ServicesPromise
<1> SUFFICES ASSUME ServicesInv, OnSntpSync \/ RetryDue PROVE ServicesInv' /\ ServicesPromise
  OBVIOUS
<1>1. /\ UNCHANGED <<slot, sequence, writing, asked, reply, here, browser, wire, loop, clock>>
      /\ UNCHANGED <<healthy, telling, connected, taken, inFlight, lastSync>>
  BY DEF OnSntpSync, RetryDue, SntpTime, SntpGeneration, SntpPending, slotVars, browserVars,
         socketVars
<1>2. RequestsHold' /\ BrowserTypes' /\ BrowsersHold' /\ TellingHolds'
  BY <1>1, LeftTheLine, BrowsersKept, TellingKept DEF ServicesInv
<1>3. LinkHolds'
  BY <1>1 DEF ServicesInv, LinkHolds, SlotHasTheTime, SyncHasTheSlot, ReportedSyncIsReal
<1>4. /\ sample \in 0 .. MaxSample /\ sntp \in 0 .. 2 /\ MaxSample \in Nat
      /\ shown \in {"network", "ntp", "stm32", "synchronized"}
      /\ pending \in [time : 0 .. MaxSample, generation : 0 .. MaxSample,
                      is : BOOLEAN, due : BOOLEAN]
      /\ pending.time = sample
      /\ pending.generation = IF sntp = 1 THEN sample - 1 ELSE sample
      /\ sntp # 0 \/ pending.is => sample # 0
  BY NamesFacts DEF ServicesInv, TimeHolds, MainTypes, PendingTypes, SamplesAreCounted
<1>5. /\ sample' \in 0 .. MaxSample /\ sntp' \in 0 .. 2
      /\ shown' \in {"network", "ntp", "stm32", "synchronized"}
      /\ pending' \in [time : 0 .. MaxSample, generation : 0 .. MaxSample,
                       is : BOOLEAN, due : BOOLEAN]
      /\ SamplesAreCounted'
  <2>1. CASE OnSntpSync /\ SntpTime
    <3>1. /\ sntp = 0 /\ sample < MaxSample /\ sample' = sample + 1 /\ sntp' = 1
          /\ pending' = [pending EXCEPT !.time = sample'] /\ shown' = shown
      BY <2>1 DEF SntpTime
    <3>2. sample' \in 0 .. MaxSample /\ sample' # 0 /\ sample' - 1 = sample
      BY <1>4, <3>1
    <3> QED  BY <1>4, <3>1, <3>2 DEF SamplesAreCounted
  <2>2. CASE OnSntpSync /\ SntpGeneration
    <3>1. /\ sntp = 1 /\ sample' = sample /\ sntp' = 2 /\ shown' = shown
          /\ pending' = [pending EXCEPT !.generation = @ + 1]
      BY <2>2 DEF SntpGeneration
    <3>2. pending.generation + 1 = sample
      BY <1>4, <3>1
    <3> QED  BY <1>4, <3>1, <3>2 DEF SamplesAreCounted
  <2>3. CASE OnSntpSync /\ SntpPending
    <3>1. /\ sntp = 2 /\ sample' = sample /\ sntp' = 0 /\ shown' = "stm32"
          /\ pending' = [pending EXCEPT !.is = TRUE, !.due = TRUE]
      BY <2>3 DEF SntpPending
    <3>2. /\ pending'.time = pending.time /\ pending'.generation = pending.generation
          /\ pending' \in [time : 0 .. MaxSample, generation : 0 .. MaxSample,
                           is : BOOLEAN, due : BOOLEAN]
      BY <1>4, <3>1
    <3>3. SamplesAreCounted'
      BY <1>4, <3>1, <3>2 DEF SamplesAreCounted
    <3> QED  BY <1>4, <3>1, <3>2, <3>3
  <2>4. CASE RetryDue
    <3>1. UNCHANGED <<sntp, sample, shown>> /\ pending' = [pending EXCEPT !.due = TRUE]
      BY <2>4 DEF RetryDue
    <3> QED  BY <1>4, <3>1 DEF SamplesAreCounted
  <2> QED  BY <2>1, <2>2, <2>3, <2>4 DEF OnSntpSync
<1>6. TimeHolds'
  BY <1>1, <1>5 DEF ServicesInv, TimeHolds, MainTypes, PendingTypes, FlightTypes
<1> QED  BY <1>1, <1>2, <1>3, <1>6, PromiseKept DEF ServicesInv

\* The main task outside its own request.
LEMMA MainStep ==
    ASSUME ServicesInv, Settle \/ SetUartHealthy \/ SetStationConnected \/ SyncStarted \/ Poll
    PROVE  ServicesInv' /\ ServicesPromise
<1>1. /\ UNCHANGED <<slot, sequence, writing, asked, reply, telling, here, browser, wire>>
      /\ UNCHANGED <<sntp, sample, lastSync, clock>> /\ loop # "tell" /\ loop' # "tell"
  BY DEF Settle, SetUartHealthy, SetStationConnected, SyncStarted, Poll, slotVars,
         browserVars, socketVars, timeVars
<1>2. RequestsHold' /\ BrowserTypes' /\ BrowsersHold' /\ TellingHolds' /\ ServicesPromise
  BY <1>1, LeftTheLine, BrowsersKept, TellingKept, PromiseKept DEF ServicesInv
<1>3. MainTypes /\ PendingTypes /\ FlightTypes /\ SamplesAreCounted
      /\ SlotHasTheTime /\ SyncHasTheSlot /\ ReportedSyncIsReal
  BY DEF ServicesInv, TimeHolds, LinkHolds
<1>4. ReportedSyncIsReal'
  BY <1>1, <1>3 DEF ReportedSyncIsReal
<1>5. CASE Settle
  <2>1. /\ loop = "settle" /\ loop' = "frames" /\ shown' = "synchronized"
        /\ pending' = [pending EXCEPT !.is = FALSE]
        /\ UNCHANGED <<healthy, connected, taken, inFlight>>
    BY <1>5 DEF Settle
  <2>2. TimeHolds'
    BY <1>1, <1>3, <2>1
       DEF TimeHolds, MainTypes, PendingTypes, FlightTypes, SamplesAreCounted
  <2>3. LinkHolds'
    BY <1>1, <1>3, <1>4, <2>1 DEF LinkHolds, SlotHasTheTime, SyncHasTheSlot
  <2> QED  BY <1>1, <1>2, <2>2, <2>3 DEF ServicesInv
<1>6. CASE SetUartHealthy \/ Poll
  <2>1. /\ loop \in {"frames", "poll"} /\ loop' \in {"time", "frames"} /\ healthy' \in BOOLEAN
        /\ UNCHANGED <<connected, taken, inFlight, pending, shown>>
    BY <1>3, <1>6 DEF SetUartHealthy, Poll, timeVars, MainTypes
  <2>2. TimeHolds'
    BY <1>1, <1>3, <2>1
       DEF TimeHolds, MainTypes, PendingTypes, FlightTypes, SamplesAreCounted
  <2>3. LinkHolds'
    BY <1>1, <1>3, <1>4, <2>1 DEF LinkHolds, SlotHasTheTime, SyncHasTheSlot
  <2> QED  BY <1>1, <1>2, <2>2, <2>3 DEF ServicesInv
<1>7. CASE SetStationConnected
  <2>1. /\ loop = "time" /\ connected' \in BOOLEAN /\ UNCHANGED <<healthy, pending, inFlight>>
        /\ shown' \in {shown, "network", "stm32", "ntp"}
        /\ taken' = IF SyncPending THEN pending.time ELSE 0
        /\ loop' = IF SyncPending THEN "begin" ELSE "poll"
    BY <1>7 DEF SetStationConnected
  <2>2. taken' \in 0 .. MaxSample
    BY <1>3, <2>1, NamesFacts DEF PendingTypes
  <2>3. TimeHolds'
    BY <1>1, <1>3, <2>1, <2>2
       DEF TimeHolds, MainTypes, PendingTypes, FlightTypes, SamplesAreCounted
  <2>4. SyncPending => ~inFlight.is /\ pending.time # 0
    BY <1>3 DEF SyncPending, SamplesAreCounted
  <2>5. slot.busy /\ slot.owner = TimeSync => inFlight.is
    BY <1>3, <2>1 DEF SyncHasTheSlot
  <2>6. SlotHasTheTime' /\ SyncHasTheSlot'
    BY <1>1, <1>3, <2>1, <2>4, <2>5 DEF SlotHasTheTime, SyncHasTheSlot
  <2> QED  BY <1>1, <1>2, <1>4, <2>3, <2>6 DEF ServicesInv, LinkHolds
<1>8. CASE SyncStarted
  <2>1. /\ loop = "started" /\ loop' = "poll" /\ taken' = 0
        /\ inFlight' = [is |-> TRUE, time |-> taken, generation |-> pending.generation]
        /\ UNCHANGED <<healthy, connected, pending, shown>>
    BY <1>8 DEF SyncStarted
  <2>2. inFlight'.is /\ inFlight'.time = taken
        /\ inFlight' \in [is : BOOLEAN, time : 0 .. MaxSample, generation : 0 .. MaxSample]
    BY <1>3, <2>1 DEF PendingTypes, MainTypes
  <2>3. TimeHolds'
    BY <1>1, <1>3, <2>1, <2>2, NamesFacts
       DEF TimeHolds, MainTypes, PendingTypes, FlightTypes, SamplesAreCounted
  <2>4. SlotHasTheTime' /\ SyncHasTheSlot'
    BY <1>1, <1>3, <2>1, <2>2 DEF SlotHasTheTime, SyncHasTheSlot
  <2> QED  BY <1>1, <1>2, <1>4, <2>3, <2>4 DEF ServicesInv, LinkHolds
<1> QED  BY <1>5, <1>6, <1>7, <1>8

\* TimeSync's own request.
LEMMA BeginSyncStep == ServicesInv /\ BeginSync => ServicesInv' /\ ServicesPromise
<1> SUFFICES ASSUME ServicesInv, BeginSync PROVE ServicesInv' /\ ServicesPromise
  OBVIOUS
<1>1. /\ loop = "begin" /\ UNCHANGED <<healthy, writing, asked, reply, timeVars, clock>>
      /\ UNCHANGED <<telling, here, browser>> /\ loop' \in {"started", "poll"}
  BY DEF BeginSync, browserVars, socketVars
<1>2. BrowserTypes' /\ TellingHolds'
  BY <1>1, TellingKept DEF ServicesInv, BrowserTypes
<1>3. TimeHolds'
  BY <1>1 DEF ServicesInv, TimeHolds, MainTypes, PendingTypes, FlightTypes,
              SamplesAreCounted, timeVars
<1>4. SlotHasTheTime /\ SyncHasTheSlot /\ ReportedSyncIsReal /\ ReportedSyncIsReal'
  BY <1>1 DEF ServicesInv, LinkHolds, ReportedSyncIsReal, timeVars
<1>5. ~inFlight.is /\ taken # 0 /\ taken \in 0 .. MaxSample
  BY <1>1, <1>4 DEF SlotHasTheTime, ServicesInv, TimeHolds, MainTypes
<1>6. CASE loop' = "started"
  <2>1. /\ ~slot.busy /\ Reserve(TimeSync, 0, taken)
        /\ wire' = wire \cup {[sequence |-> sequence, owner |-> TimeSync, browser |-> 0,
                               request |-> taken]}
    BY <1>6 DEF BeginSync
  <2>2. TimeSync \in Owners /\ 0 \in Browsers /\ taken \in Tags /\ sequence \in 1 .. MaxSequence
        /\ taken \in 1 .. MaxSample
    BY <1>5, NamesFacts DEF ServicesInv, RequestsHold, SlotTypes
  <2>3. /\ SlotTypes' /\ slot'.busy /\ slot'.sequence = sequence /\ slot'.owner = TimeSync
        /\ slot'.browser = 0 /\ slot'.request = taken /\ sequence # 0
        /\ \A t \in Writers : writing[t].sequence # sequence
        /\ \A w \in wire : w.sequence # sequence
    BY <2>1, <2>2, ReserveFacts DEF ServicesInv, RequestsHold
  <2>4. WriteTypes' /\ WireTypes'
    BY <1>1, <2>1, <2>2 DEF ServicesInv, RequestsHold, WriteTypes, WireTypes, Messages
  <2>5. SlotIsOneRequest'
    BY <1>1, <2>1, <2>3, NamesFacts DEF SlotIsOneRequest, RequestIsTheSlots
  <2>6. RequestsAreNumbered'
    BY <1>1, <2>1, <2>2 DEF ServicesInv, RequestsHold, RequestsAreNumbered
  <2>7. SlotHasTheTime' /\ SyncHasTheSlot'
    BY <1>1, <1>5, <1>6, <2>3 DEF SlotHasTheTime, SyncHasTheSlot, timeVars
  <2>8. BrowsersHold'
    <3>1. ~slot'.busy \/ slot'.owner \notin Clients
      BY <2>3, NamesFacts
    <3> QED  BY <1>1, <2>1, <3>1, NoBrowsersSlot DEF ServicesInv
  <2> QED
    BY <1>1, <1>2, <1>3, <1>4, <2>1, <2>3, <2>4, <2>5, <2>6, <2>7, <2>8, PromiseKept
       DEF ServicesInv, RequestsHold, LinkHolds
<1>7. CASE loop' = "poll"
  <2>1. slot' = slot /\ wire' = wire /\ sequence' \in 1 .. MaxSequence
    BY <1>7, FollowingFacts DEF BeginSync, slotVars, ServicesInv, RequestsHold, SlotTypes
  <2>2. RequestsHold'
    BY <1>1, <2>1 DEF ServicesInv, RequestsHold, SlotTypes, WriteTypes, WireTypes,
                      RequestsAreNumbered, SlotIsOneRequest, RequestIsTheSlots
  <2>3. SlotHasTheTime' /\ SyncHasTheSlot'
    BY <1>1, <1>4, <1>7, <2>1 DEF SlotHasTheTime, SyncHasTheSlot, timeVars
  <2>4. BrowsersHold'
    BY <1>1, <2>1, BrowsersKept DEF ServicesInv
  <2> QED
    BY <1>1, <1>2, <1>3, <1>4, <2>1, <2>2, <2>3, <2>4, PromiseKept DEF ServicesInv, LinkHolds
<1> QED  BY <1>1, <1>6, <1>7

-----------------------------------------------------------------------------
\* An answer, or three seconds without one, frees the slot; its browser is to be told.
LEMMA ConcludeStep ==
    ASSUME ServicesInv, slot.busy, loop \in {"frames", "poll"},
           NEW result \in {"ok", "refused"}, Conclude(result),
           UNCHANGED <<healthy, sequence, writing, asked, reply, socketVars>>,
           wire' \subseteq wire, clock \subseteq clock', clock' \subseteq 1 .. MaxSample,
           slot.owner = TimeSync /\ result = "ok" => slot.request \in clock'
    PROVE  /\ ServicesInv' /\ loop' # "poll"
           /\ telling' # telling =>
                 telling' = [owner |-> slot.owner, browser |-> slot.browser,
                             request |-> slot.request, result |-> result]
<1>1. slot' = NoSlot /\ ~slot'.busy
  BY NothingFacts DEF Conclude
<1>2. RequestsHold'
  BY <1>1, FreedSlot DEF ServicesInv
<1>3. MainTypes /\ PendingTypes /\ FlightTypes /\ SamplesAreCounted
      /\ SlotHasTheTime /\ SyncHasTheSlot /\ ReportedSyncIsReal
  BY DEF ServicesInv, TimeHolds, LinkHolds
<1>4. CASE slot.owner = TimeSync
  <2>1. CompleteSync(result = "ok") /\ telling' = telling
    BY <1>4, NamesFacts DEF Conclude
  <2>2. inFlight.is /\ slot.request = inFlight.time
    BY <1>3, <1>4 DEF SyncHasTheSlot, SlotHasTheTime
  <2>3. /\ inFlight' = [inFlight EXCEPT !.is = FALSE]
        /\ UNCHANGED <<connected, sntp, sample, taken>>
        /\ pending' \in {pending, [pending EXCEPT !.due = FALSE]}
        /\ shown' \in {shown, "stm32", "network"}
        /\ loop' \in {"settle", "frames"}
        /\ lastSync' = lastSync \/ (result = "ok" /\ lastSync' = inFlight.time)
    BY <2>1 DEF CompleteSync, Waiting
  <2>4. inFlight' \in [is : BOOLEAN, time : 0 .. MaxSample, generation : 0 .. MaxSample]
        /\ ~inFlight'.is /\ inFlight.time \in 0 .. MaxSample
    BY <1>3, <2>3 DEF FlightTypes
  <2>5. /\ pending' \in [time : 0 .. MaxSample, generation : 0 .. MaxSample,
                         is : BOOLEAN, due : BOOLEAN]
        /\ pending'.time = pending.time /\ pending'.generation = pending.generation
        /\ pending'.is = pending.is
    BY <1>3, <2>3 DEF PendingTypes
  <2>6. TimeHolds'
    <3>1. MainTypes'
      BY <1>3, <2>3, <2>4 DEF MainTypes
    <3>2. SamplesAreCounted'
      BY <1>3, <2>3, <2>5 DEF SamplesAreCounted
    <3> QED  BY <2>4, <2>5, <3>1, <3>2 DEF TimeHolds, PendingTypes, FlightTypes
  <2>7. ReportedSyncIsReal'
    BY <1>3, <1>4, <2>2, <2>3 DEF ReportedSyncIsReal
  <2>8. SlotHasTheTime' /\ SyncHasTheSlot'
    BY <1>1, <2>3, <2>4 DEF SlotHasTheTime, SyncHasTheSlot
  <2>9. BrowserTypes'
    BY <2>1 DEF ServicesInv, BrowserTypes, socketVars
  <2>10. BrowsersHold'
    <3>1. UNCHANGED <<asked, telling, here, browser>> /\ slot.owner \notin Clients
      BY <1>4, <2>1, NamesFacts DEF socketVars
    <3> QED  BY <1>1, <3>1, NoBrowsersSlot DEF ServicesInv
  <2>11. TellingHolds'
    BY <2>1, <2>3, TellingKept DEF ServicesInv
  <2> QED
    BY <1>2, <2>1, <2>3, <2>6, <2>7, <2>8, <2>9, <2>10, <2>11 DEF ServicesInv, LinkHolds
<1>5. CASE slot.owner # TimeSync
  <2>1. loop' \in {"frames", "tell"} /\ UNCHANGED timeVars
    BY <1>5 DEF Conclude
  <2>2. TimeHolds'
    BY <1>3, <2>1
       DEF TimeHolds, MainTypes, PendingTypes, FlightTypes, SamplesAreCounted, timeVars
  <2>3. ~inFlight.is
    BY <1>3, <1>5 DEF SyncHasTheSlot
  <2>4. LinkHolds'
    BY <1>1, <1>3, <2>1, <2>3
       DEF LinkHolds, SlotHasTheTime, SyncHasTheSlot, ReportedSyncIsReal, timeVars
  <2>5. BrowserTypes /\ BrowsersHold /\ TellingHolds /\ UNCHANGED <<here, browser>>
    BY DEF ServicesInv, socketVars
  <2>6. CASE slot.owner = Mqtt
    <3>1. telling' = telling /\ loop' = "frames" /\ slot.owner \notin Clients
      BY <1>5, <2>6, NamesFacts DEF Conclude
    <3>2. BrowserTypes' /\ BrowsersHold' /\ TellingHolds'
      BY <1>1, <2>5, <3>1, NoBrowsersSlot, TellingKept DEF BrowserTypes
    <3> QED  BY <1>2, <2>1, <2>2, <2>4, <3>1, <3>2 DEF ServicesInv
  <2>7. CASE slot.owner # Mqtt
    <3>1. slot.owner \in Clients /\ slot.browser \in Browsers
          /\ slot.request \in Requests /\ slot.request # 0
      BY <1>5, <2>7, NamesFacts
         DEF ServicesInv, RequestsHold, SlotTypes, SlotIsOneRequest, Owners
    <3>2. /\ loop' = "tell"
          /\ telling' = [owner |-> slot.owner, browser |-> slot.browser,
                         request |-> slot.request, result |-> result]
      BY <1>5, <2>7 DEF Conclude
    <3>3. BrowserTypes'
      BY <2>5, <3>1, <3>2 DEF BrowserTypes
    <3>4. TellingHolds'
      BY <3>1, <3>2 DEF TellingHolds
    <3>5. \A c \in Clients : ~HasTheSlot(c)' /\ ~IsBeingTold(c)
      BY <1>1, <2>5, NothingFacts DEF HasTheSlot, IsBeingTold, TellingHolds
    <3>6. \A c \in Clients : IsBeingTold(c)' = HasTheSlot(c)
      BY <2>5, <3>2 DEF HasTheSlot, IsBeingTold
    <3>7. AcceptedHasTheSlot'
      BY <2>5, <3>2, <3>5, <3>6 DEF BrowsersHold, AcceptedHasTheSlot
    <3>8. slot.browser <= browser[slot.owner]
      BY <2>5, <3>1 DEF BrowsersHold
    <3>9. BrowsersHold'
      BY <1>1, <2>5, <3>1, <3>2, <3>5, <3>7, <3>8 DEF BrowsersHold
    <3> QED  BY <1>2, <2>1, <2>2, <2>4, <3>2, <3>3, <3>4, <3>9 DEF ServicesInv
  <2> QED  BY <2>6, <2>7
<1> QED  BY <1>4, <1>5

\* The browser on the slot's socket is told.
LEMMA TellStep == ServicesInv /\ Tell => ServicesInv' /\ ServicesPromise
<1> SUFFICES ASSUME ServicesInv, Tell PROVE ServicesInv' /\ ServicesPromise
  OBVIOUS
<1>1. /\ loop = "tell" /\ loop' = "frames" /\ telling' = NoTelling
      /\ UNCHANGED <<healthy, slot, sequence, writing, here, browser, wire, timeVars, clock>>
  BY DEF Tell, slotVars, socketVars
<1>2. BrowserTypes /\ BrowsersHold /\ telling.owner \in Clients
      /\ telling.result \in {"ok", "refused"}
  BY <1>1 DEF ServicesInv, TellingHolds
<1>3. /\ telling.browser \in Browsers /\ telling.request \in {0} \cup Requests
      /\ UNCHANGED socketVars /\ (telling' = telling \/ telling' = NoTelling)
  BY <1>1, <1>2 DEF BrowserTypes, socketVars
<1>4. Answer(telling.owner, telling.browser, telling.request, telling.result)
  BY DEF Tell
<1>5. BrowserTypes' /\ AnswerTells(telling.owner, telling.browser, telling.request,
                                  telling.result)
  BY <1>2, <1>3, <1>4, AnswerFacts, Zenon
<1>6. \A c \in Clients : HasTheSlot(c)' = HasTheSlot(c) /\ ~IsBeingTold(c)'
  BY <1>1, NothingFacts DEF HasTheSlot, IsBeingTold
<1>7. \A c \in Clients : asked'[c] = IF HasTheSlot(c) THEN slot.request ELSE 0
  <2> TAKE c \in Clients
  <2>1. asked[c] = IF HasTheSlot(c) THEN slot.request
                   ELSE IF IsBeingTold(c) THEN telling.request ELSE 0
    BY <1>2 DEF BrowsersHold, AcceptedHasTheSlot
  <2>2. asked'[c] = IF c = telling.owner /\ telling.browser = browser[c] THEN 0 ELSE asked[c]
    BY <1>5 DEF AnswerTells
  <2>3. CASE c = telling.owner /\ telling.browser = browser[c]
    <3>1. ~HasTheSlot(c)
      BY <1>2, <2>3 DEF BrowsersHold, HasTheSlot, IsBeingTold
    <3> QED  BY <2>2, <2>3, <3>1
  <2>4. CASE ~(c = telling.owner /\ telling.browser = browser[c])
    <3>1. ~IsBeingTold(c)
      BY <2>4 DEF IsBeingTold
    <3> QED  BY <2>1, <2>2, <2>4, <3>1
  <2> QED  BY <2>3, <2>4
<1>8. BrowsersHold'
  <2>1. AcceptedHasTheSlot'
    BY <1>1, <1>6, <1>7 DEF AcceptedHasTheSlot
  <2> QED  BY <1>1, <1>2, <1>6, <2>1, NothingFacts DEF BrowsersHold
<1>9. TellingHolds'
  BY <1>1 DEF TellingHolds
<1>10. RequestsHold'
  BY <1>1, LeftTheLine DEF ServicesInv
<1>11. TimeHolds' /\ LinkHolds'
  BY <1>1 DEF ServicesInv, TimeHolds, LinkHolds, MainTypes, PendingTypes, FlightTypes,
              SamplesAreCounted, SlotHasTheTime, SyncHasTheSlot, ReportedSyncIsReal, timeVars
<1>12. OkMeansServed
  <2>1. telling'.result # "ok"
    BY <1>1, NothingFacts
  <2>2. ASSUME NEW c \in Clients, reply'[c] # reply[c], reply'[c].result = "ok"
        PROVE  /\ telling = [owner |-> c, browser |-> reply'[c].browser,
                              request |-> reply'[c].request, result |-> "ok"]
               /\ telling.browser = browser[c] => asked[c] = telling.request
    <3>1. /\ c = telling.owner /\ c \in here
          /\ reply'[c] = [result |-> telling.result, browser |-> telling.browser,
                          request |-> telling.request]
      BY <1>5, <2>2 DEF AnswerTells
    <3>2. telling = [owner |-> c, browser |-> reply'[c].browser,
                     request |-> reply'[c].request, result |-> "ok"]
      BY <1>2, <2>2, <3>1 DEF BrowserTypes
    <3>3. telling.browser = browser[c] => asked[c] = telling.request
      BY <1>2, <3>1 DEF BrowsersHold, AcceptedHasTheSlot, HasTheSlot, IsBeingTold
    <3> QED  BY <3>2, <3>3
  <2> QED  BY <2>1, <2>2 DEF OkMeansServed
<1>13. SlotIsFreedByItsOwn
  BY <1>1 DEF SlotIsFreedByItsOwn
<1> QED
  BY <1>5, <1>8, <1>9, <1>10, <1>11, <1>12, <1>13 DEF ServicesInv, ServicesPromise

\* An answer arrives.  It concludes the request it was given to, or nothing.
LEMMA CompleteServiceStep ==
    ASSUME ServicesInv, NEW w \in wire, NEW result \in {"ok", "refused"},
           CompleteService(w, result)
    PROVE  ServicesInv' /\ ServicesPromise
<1>1. /\ loop = "frames" /\ wire' = wire \ {w}
      /\ UNCHANGED <<healthy, sequence, writing, asked, reply, socketVars>>
      /\ clock' = IF w.owner = TimeSync /\ result = "ok" THEN clock \cup {w.request} ELSE clock
  BY DEF CompleteService
<1>2. clock \subseteq clock' /\ clock' \subseteq 1 .. MaxSample
  BY <1>1 DEF ServicesInv, TimeHolds, MainTypes, RequestsHold, RequestsAreNumbered
<1>3. CASE Completes(w)
  <2>1. Conclude(result) /\ slot.busy
    BY <1>3 DEF CompleteService, Completes
  <2>2. IsTheSlots(w)
    BY <1>3 DEF Completes, IsTheSlots, ServicesInv, RequestsHold, SlotIsOneRequest,
                RequestIsTheSlots
  <2>3. slot.owner = TimeSync /\ result = "ok" => slot.request \in clock'
    BY <1>1, <2>2 DEF IsTheSlots
  <2>4. /\ ServicesInv'
        /\ telling' # telling =>
              telling' = [owner |-> slot.owner, browser |-> slot.browser,
                          request |-> slot.request, result |-> result]
    BY <1>1, <1>2, <2>1, <2>3, ConcludeStep
  <2>5. w \in wire \ wire'
    BY <1>1
  <2>6. OkMeansServed
    BY <1>1, <2>2, <2>4, <2>5 DEF OkMeansServed, IsTheSlots
  <2>7. SlotIsFreedByItsOwn
    BY <2>2, <2>5 DEF SlotIsFreedByItsOwn
  <2> QED  BY <2>4, <2>6, <2>7 DEF ServicesPromise
<1>4. CASE ~Completes(w)
  <2>1. UNCHANGED <<slot, asked, reply, telling, loop, timeVars, here, browser>>
    BY <1>1, <1>4 DEF CompleteService, socketVars
  <2>2. RequestsHold' /\ BrowserTypes' /\ BrowsersHold' /\ TellingHolds'
    BY <1>1, <2>1, LeftTheLine, BrowsersKept, TellingKept DEF ServicesInv
  <2>3. TimeHolds' /\ LinkHolds'
    BY <1>1, <1>2, <2>1
       DEF ServicesInv, TimeHolds, LinkHolds, MainTypes, PendingTypes, FlightTypes,
           SamplesAreCounted, SlotHasTheTime, SyncHasTheSlot, ReportedSyncIsReal, timeVars
  <2> QED  BY <2>1, <2>2, <2>3, PromiseKept DEF ServicesInv
<1> QED  BY <1>3, <1>4

\* Three seconds pass without an answer.
LEMMA ExpireStep == ServicesInv /\ Expire => ServicesInv' /\ ServicesPromise
<1> SUFFICES ASSUME ServicesInv, Expire PROVE ServicesInv' /\ ServicesPromise
  OBVIOUS
<1>1. /\ loop = "poll" /\ slot.busy /\ Conclude("refused")
      /\ UNCHANGED <<healthy, sequence, writing, asked, reply, socketVars, wire, clock>>
  BY DEF Expire
<1>2. clock \subseteq 1 .. MaxSample
  BY DEF ServicesInv, TimeHolds, MainTypes
<1>3. /\ ServicesInv' /\ loop' # "poll"
      /\ telling' # telling => telling'.result = "refused"
  <2>1. slot.owner = TimeSync /\ "refused" = "ok" => slot.request \in clock'
    OBVIOUS
  <2>2. /\ ServicesInv' /\ loop' # "poll"
        /\ telling' # telling =>
              telling' = [owner |-> slot.owner, browser |-> slot.browser,
                          request |-> slot.request, result |-> "refused"]
    BY <1>1, <1>2, <2>1, ConcludeStep
  <2> QED  BY <2>2
<1>4. OkMeansServed
  BY <1>1, <1>3 DEF OkMeansServed
<1>5. SlotIsFreedByItsOwn
  BY <1>1, <1>3 DEF SlotIsFreedByItsOwn
<1> QED  BY <1>3, <1>4, <1>5 DEF ServicesPromise

\* Every step of the services keeps the invariant and its promise.
LEMMA ServicesStep == ServicesInv /\ [Next]_vars => ServicesInv' /\ ServicesPromise
<1> SUFFICES ASSUME ServicesInv, [Next]_vars PROVE ServicesInv' /\ ServicesPromise
  OBVIOUS
<1>1. CASE \E c \in Clients, allowed \in BOOLEAN, request \in Requests :
              Ask(c, allowed, request)
  BY <1>1, AskStep
<1>2. CASE \E c \in Clients : Arrive(c) \/ Leave(c)
  BY <1>2, ArriveStep, LeaveStep
<1>3. CASE RunRequest
  BY <1>3, RunRequestStep
<1>4. CASE \E t \in Writers : Write(t) \/ WriteFails(t)
  BY <1>4, WriteStep, WriteFailsStep
<1>5. CASE OnSntpSync \/ RetryDue
  BY <1>5, SntpStep
<1>6. CASE \E w \in wire, result \in {"ok", "refused"} : CompleteService(w, result)
  BY <1>6, CompleteServiceStep
<1>7. CASE MainLoop
  BY <1>7, TellStep, MainStep, BeginSyncStep DEF MainLoop
<1>8. CASE Expire
  BY <1>8, ExpireStep
<1>9. CASE (\E w \in wire : Drop(w)) \/ UNCHANGED vars
  <2>1. /\ UNCHANGED <<healthy, slot, sequence, writing, asked, reply, loop, timeVars, clock>>
        /\ UNCHANGED <<telling, here, browser>> /\ wire' \subseteq wire
    BY <1>9 DEF Drop, vars, slotVars, browserVars, socketVars
  <2>2. /\ RequestsHold' /\ BrowserTypes' /\ BrowsersHold' /\ TellingHolds'
        /\ TimeHolds' /\ LinkHolds'
    BY <2>1, LeftTheLine, BrowsersKept, TellingKept, TimeUntouched, LinkKept DEF ServicesInv
  <2> QED  BY <2>1, <2>2, PromiseKept DEF ServicesInv
<1> QED  BY <1>1, <1>2, <1>3, <1>4, <1>5, <1>6, <1>7, <1>8, <1>9 DEF Next

\* Nothing has been asked yet.
LEMMA ServicesInit == Init => ServicesInv
<1> SUFFICES ASSUME Init PROVE ServicesInv
  OBVIOUS
<1>1. RequestsHold
  BY NamesFacts, NothingFacts
     DEF Init, RequestsHold, SlotTypes, WriteTypes, WireTypes, SlotIsOneRequest,
         RequestIsTheSlots, RequestsAreNumbered
<1>2. BrowserTypes /\ BrowsersHold /\ TellingHolds
  <2>1. BrowserTypes
    BY NamesFacts, NothingFacts DEF Init, BrowserTypes
  <2>2. BrowsersHold /\ TellingHolds
    BY NothingFacts
       DEF Init, BrowsersHold, TellingHolds, AcceptedHasTheSlot, HasTheSlot, IsBeingTold
  <2> QED  BY <2>1, <2>2
<1>3. TimeHolds
  <2>1. 0 \in 0 .. MaxSample
    BY NamesFacts
  <2>2. MainTypes
    <3>1. healthy \in BOOLEAN /\ connected \in BOOLEAN
      BY DEF Init
    <3>2. sntp \in 0 .. 2 /\ sample \in 0 .. MaxSample /\ taken \in 0 .. MaxSample
          /\ lastSync \in 0 .. MaxSample
      BY <2>1 DEF Init
    <3> QED  BY <3>1, <3>2 DEF Init, MainTypes
  <2>3. PendingTypes /\ FlightTypes
    BY <2>1 DEF Init, PendingTypes, FlightTypes
  <2>4. SamplesAreCounted
    BY DEF Init, SamplesAreCounted
  <2> QED  BY <2>2, <2>3, <2>4 DEF TimeHolds
<1>4. LinkHolds
  BY NothingFacts DEF Init, LinkHolds, SlotHasTheTime, SyncHasTheSlot, ReportedSyncIsReal
<1> QED  BY <1>1, <1>2, <1>3, <1>4 DEF ServicesInv

-----------------------------------------------------------------------------
(* A WebSocket's deliveries.  A send that is under way carries the         *)
(* generation of the delivery it was begun for, and no send was begun for  *)
(* a generation that is still to come: a new client finds none of its own. *)

\* A list of the server, whatever it holds.
IsList(s) == Len(s) \in Nat /\ s = [i \in 1 .. Len(s) |-> s[i]]

\* A send was begun for a delivery that has been, and a reply in it was numbered.
IsSend(r, latest) ==
    /\ r.generation \in 0 .. latest
    /\ r.item.reply => \E n \in 1 .. MaxReplies : r.item = Delivery!Reply(n)

DeliveryTypes ==
    /\ socket \in [used : BOOLEAN, generation : Nat, sendPending : BOOLEAN, retiring : BOOLEAN]
    /\ replies \in Seq(1 .. MaxReplies) /\ Len(replies) <= Capacity
    /\ accepted \in Nat /\ received \in Seq(1 .. MaxReplies)
    /\ IsList(work) /\ \A i \in DOMAIN work : IsSend(work[i], socket.generation)
    /\ task = [t \in Delivery!Tasks |-> task[t]]
    /\ \A t \in Delivery!Tasks : task[t].step = "send" => IsSend(task[t], socket.generation)

\* A socket without a delivery has nothing to send.
NothingIsKept == ~socket.used => ~socket.sendPending /\ ~socket.retiring /\ Delivery!Empty

\* OneSendUnderWay, also for a socket without a delivery.
OneIsSent ==
    /\ socket.sendPending <=> Delivery!Mine(work) # {} \/ Delivery!Held # {}
    /\ Delivery!Mine(work) = {} \/ Delivery!Held = {}
    /\ \A i, j \in Delivery!Mine(work) : i = j
    /\ \A t, u \in Delivery!Held : t = u

\* RepliesInOrder, reply by reply.
Passing == IF Delivery!OnTheWay = {} THEN 0 ELSE 1
RepliesAreCounted ==
    ~socket.retiring =>
        /\ Delivery!OnTheWay \subseteq {Len(received) + 1}
        /\ \A i \in 1 .. Len(received) : received[i] = i
        /\ \A i \in 1 .. Len(replies) : replies[i] = Len(received) + Passing + i
        /\ accepted = Len(received) + Passing + Len(replies)

\* The inductive invariant of the deliveries.
DeliveryInv == DeliveryTypes /\ NothingIsKept /\ OneIsSent /\ RepliesAreCounted

\* What may be said of a list of the server: it is a sequence of what it holds.
LEMMA ListIsSequence ==
    ASSUME NEW s, IsList(s), NEW e
    PROVE  \E T : s \in Seq(T) /\ e \in T
<1> DEFINE T == {s[i] : i \in 1 .. Len(s)} \cup {e}
<1>1. \A i \in 1 .. Len(s) : s[i] \in T
  OBVIOUS
<1>2. e \in T
  OBVIOUS
<1> HIDE DEF T
<1>3. s \in [1 .. Len(s) -> T]
  BY <1>1 DEF IsList
<1>4. s \in Seq(T)
  BY <1>3 DEF IsList
<1> QED  BY <1>2, <1>4

\* A sequence is a list.
LEMMA SequenceIsList ==
    ASSUME NEW T, NEW s \in Seq(T)
    PROVE  IsList(s) /\ DOMAIN s = 1 .. Len(s)
<1>1. s \in [1 .. Len(s) -> T] /\ Len(s) \in Nat
  OBVIOUS
<1> QED  BY <1>1 DEF IsList

\* What is added to a list is at its end.
LEMMA ListAppended ==
    ASSUME NEW s, IsList(s), NEW e
    PROVE  /\ IsList(Append(s, e)) /\ Len(Append(s, e)) = Len(s) + 1
           /\ DOMAIN Append(s, e) = 1 .. Len(s) + 1
           /\ \A i \in 1 .. Len(s) : Append(s, e)[i] = s[i]
           /\ Append(s, e)[Len(s) + 1] = e
<1>1. PICK T : s \in Seq(T) /\ e \in T
  BY ListIsSequence
<1>2. /\ Append(s, e) \in Seq(T) /\ Len(Append(s, e)) = Len(s) + 1
      /\ \A i \in 1 .. Len(s) : Append(s, e)[i] = s[i]
      /\ Append(s, e)[Len(s) + 1] = e
  BY <1>1
<1> QED  BY <1>2, SequenceIsList DEF IsList

\* What is taken from a list is its first element.
LEMMA ListShortened ==
    ASSUME NEW s, IsList(s), s # <<>>
    PROVE  /\ IsList(Tail(s)) /\ Len(Tail(s)) = Len(s) - 1 /\ Len(s) >= 1
           /\ DOMAIN Tail(s) = 1 .. Len(s) - 1 /\ DOMAIN s = 1 .. Len(s)
           /\ \A i \in 1 .. Len(s) - 1 : Tail(s)[i] = s[i + 1]
           /\ Head(s) = s[1]
<1>1. PICK T : s \in Seq(T)
  BY ListIsSequence
<1>2. /\ Tail(s) \in Seq(T) /\ Len(Tail(s)) = Len(s) - 1 /\ Len(s) >= 1
      /\ \A i \in 1 .. Len(s) - 1 : Tail(s)[i] = s[i + 1]
      /\ Head(s) = s[1] /\ DOMAIN s = 1 .. Len(s)
  BY <1>1
<1> QED  BY <1>2, SequenceIsList

\* What a reply and a state message are.
LEMMA ItemFacts ==
    /\ \A n : Delivery!Reply(n).reply /\ Delivery!Reply(n).number = n
    /\ \A n, m : Delivery!Reply(n) = Delivery!Reply(m) => n = m
    /\ \A u : ~Delivery!State(u).reply /\ Delivery!State(u).number = 0
    /\ \A u, n : Delivery!State(u) # Delivery!Reply(n)
  BY DEF Delivery!Reply, Delivery!State

\* What the parts of the invariant say.
LEMMA DeliveryFacts ==
    ASSUME DeliveryInv
    PROVE  /\ socket.used \in BOOLEAN /\ socket.generation \in Nat
           /\ socket.sendPending \in BOOLEAN /\ socket.retiring \in BOOLEAN
           /\ socket = [used |-> socket.used, generation |-> socket.generation,
                          sendPending |-> socket.sendPending,
                          retiring |-> socket.retiring]
           /\ Len(work) \in Nat /\ DOMAIN work = 1 .. Len(work)
           /\ \A i \in 1 .. Len(work) : work[i].generation \in 0 .. socket.generation
           /\ \A t \in Delivery!Tasks : task[t].step = "send" =>
                task[t].generation \in 0 .. socket.generation
           /\ Len(received) \in Nat /\ Len(replies) \in Nat
  BY DEF DeliveryInv, DeliveryTypes, IsList, IsSend

\* A delivery's fields put together.
LEMMA DeliveryRecord ==
    ASSUME NEW u \in BOOLEAN, NEW g \in Nat, NEW p \in BOOLEAN, NEW r \in BOOLEAN
    PROVE  [used |-> u, generation |-> g, sendPending |-> p, retiring |-> r]
             \in [used : BOOLEAN, generation : Nat, sendPending : BOOLEAN, retiring : BOOLEAN]
  OBVIOUS

\* What no task has to send and what is queued stay as they are: so does the invariant.
LEMMA NothingMoves ==
    ASSUME DeliveryInv, UNCHANGED <<socket, replies, state, work, accepted, received>>,
           task' = [t \in Delivery!Tasks |-> task'[t]],
           \A t \in Delivery!Tasks : task'[t].step = "send" <=> task[t].step = "send",
           \A t \in Delivery!Tasks : task[t].step = "send" => task'[t] = task[t]
    PROVE  DeliveryInv'
<1>1. DeliveryTypes'
  BY DEF DeliveryInv, DeliveryTypes, IsList, IsSend
<1>2. Delivery!Held' = Delivery!Held /\ Delivery!Mine(work)' = Delivery!Mine(work)
  BY DEF Delivery!Held, Delivery!Mine
<1>3. Delivery!OnTheWay' = Delivery!OnTheWay
  BY <1>2 DEF Delivery!OnTheWay, Delivery!Held
<1> QED
  BY <1>1, <1>2, <1>3
     DEF DeliveryInv, NothingIsKept, OneIsSent, RepliesAreCounted, Passing,
         Delivery!Empty

\* A task that was not sending and is not sends nothing.
LEMMA TaskMoves ==
    ASSUME DeliveryInv, NEW t \in Delivery!Tasks, task[t].step # "send",
           UNCHANGED <<socket, replies, state, work, accepted, received>>,
           NEW step, step # "send", NEW item, NEW generation,
           Delivery!Run(t, step, item, generation) \/ Delivery!Done(t)
    PROVE  DeliveryInv'
<1>1. task = [u \in Delivery!Tasks |-> task[u]]
  BY DEF DeliveryInv, DeliveryTypes
<1>2. task' = [u \in Delivery!Tasks |-> task'[u]] /\ task'[t].step # "send"
      /\ \A u \in Delivery!Tasks \ {t} : task'[u] = task[u]
  BY <1>1 DEF Delivery!Run, Delivery!Done, Delivery!Idle
<1> QED  BY <1>2, NothingMoves

\* A new delivery has nothing of the old one: no send was begun for it.
LEMMA ResetStep ==
    ASSUME DeliveryInv, Delivery!Reset, work' = work,
           task' = [t \in Delivery!Tasks |-> task'[t]],
           \A t \in Delivery!Tasks : task'[t].step = "send" =>
                task[t].step = "send" /\ task'[t] = task[t]
    PROVE  DeliveryInv'
<1> USE DeliveryFacts
<1>1. /\ socket' = [used |-> FALSE, generation |-> socket.generation + 1,
                      sendPending |-> FALSE, retiring |-> FALSE]
      /\ replies' = <<>> /\ state' = {} /\ accepted' = 0 /\ received' = <<>>
  BY DEF Delivery!Reset, Delivery!ClearQueue
<1>2. socket'.generation = socket.generation + 1 /\ socket'.used = FALSE
      /\ socket'.sendPending = FALSE /\ socket'.retiring = FALSE
  BY <1>1
<1>3. socket' \in [used : BOOLEAN, generation : Nat, sendPending : BOOLEAN, retiring : BOOLEAN]
  BY <1>1, DeliveryRecord
<1>4. ASSUME NEW r, IsSend(r, socket.generation)
      PROVE  IsSend(r, socket'.generation) /\ r.generation # socket'.generation
  BY <1>2, <1>4 DEF IsSend
<1>5. /\ Len(work') \in Nat /\ work' = [i \in 1 .. Len(work') |-> work'[i]]
      /\ DOMAIN work' = 1 .. Len(work')
      /\ \A i \in DOMAIN work' : IsSend(work'[i], socket.generation)
  BY DEF DeliveryInv, DeliveryTypes, IsList
<1>6. \A t \in Delivery!Tasks : task'[t].step = "send" => IsSend(task'[t], socket.generation)
  BY DEF DeliveryInv, DeliveryTypes
<1>7. DeliveryTypes'
  <2>1. replies' \in Seq(1 .. MaxReplies) /\ received' \in Seq(1 .. MaxReplies)
        /\ Len(replies') <= Capacity /\ accepted' \in Nat
    BY <1>1, DeliveryAssumption
  <2> QED  BY <1>3, <1>4, <1>5, <1>6, <2>1 DEF DeliveryTypes, IsList
<1>8. Delivery!Mine(work)' = {} /\ Delivery!Held' = {}
  BY <1>4, <1>5, <1>6 DEF Delivery!Mine, Delivery!Held
<1>9. Delivery!OnTheWay' = {}
  BY <1>8 DEF Delivery!OnTheWay
<1> QED
  BY <1>1, <1>2, <1>7, <1>8, <1>9
     DEF DeliveryInv, NothingIsKept, OneIsSent, RepliesAreCounted, Passing,
         Delivery!Empty

\* What a send that a task has begun does to the invariant, whatever is sent: it is the only
\* one of its delivery.
LEMMA SendBegins ==
    ASSUME DeliveryInv, ~socket.retiring, NEW t \in Delivery!Tasks, task[t].step # "send",
           NEW g \in Nat, g >= socket.generation,
           \A i \in DOMAIN work : work[i].generation # g,
           \A u \in Delivery!Tasks : task[u].step = "send" => task[u].generation # g,
           socket' = [used |-> TRUE, generation |-> g, sendPending |-> TRUE,
                        retiring |-> FALSE],
           NEW item, task' = [task EXCEPT ![t] =
                                [step |-> "send", item |-> item, generation |-> g]],
           UNCHANGED <<work, received>>,
           replies' \in Seq(1 .. MaxReplies), Len(replies') <= Capacity,
           NEW passing \in {0, 1},
           passing = 1 => item = Delivery!Reply(Len(received) + 1)
             /\ Len(received) + 1 <= MaxReplies,
           passing = 0 => ~item.reply,
           \A i \in 1 .. Len(received) : received[i] = i,
           \A i \in 1 .. Len(replies') : replies'[i] = Len(received) + passing + i,
           accepted' = Len(received) + passing + Len(replies')
    PROVE  DeliveryInv'
<1> USE DeliveryFacts
<1>1. task = [u \in Delivery!Tasks |-> task[u]]
  BY DEF DeliveryInv, DeliveryTypes
<1>2. /\ task' = [u \in Delivery!Tasks |-> task'[u]]
      /\ task'[t] = [step |-> "send", item |-> item, generation |-> g]
      /\ \A u \in Delivery!Tasks \ {t} : task'[u] = task[u]
  BY <1>1
<1>3. task'[t].step = "send" /\ task'[t].item = item /\ task'[t].generation = g
  BY <1>2
<1>4. socket'.generation = g /\ socket'.used = TRUE
      /\ socket'.sendPending = TRUE /\ socket'.retiring = FALSE
  OBVIOUS
<1>5. socket' \in [used : BOOLEAN, generation : Nat, sendPending : BOOLEAN, retiring : BOOLEAN]
  BY DeliveryRecord
<1>6. ASSUME NEW r, IsSend(r, socket.generation) PROVE IsSend(r, g)
  BY <1>6 DEF IsSend
<1>7. item.reply => \E n \in 1 .. MaxReplies : item = Delivery!Reply(n)
  BY ItemFacts, DeliveryAssumption
<1>8. IsSend(task'[t], g)
  BY <1>3, <1>7 DEF IsSend
<1>9. DeliveryTypes'
  <2>1. accepted' \in Nat /\ received' \in Seq(1 .. MaxReplies)
    BY DEF DeliveryInv, DeliveryTypes
  <2>2. IsList(work)' /\ \A i \in DOMAIN work' : IsSend(work'[i], g)
    BY <1>6 DEF DeliveryInv, DeliveryTypes, IsList
  <2>3. \A u \in Delivery!Tasks : task'[u].step = "send" => IsSend(task'[u], g)
    BY <1>2, <1>6, <1>8 DEF DeliveryInv, DeliveryTypes
  <2> QED  BY <1>2, <1>4, <1>5, <2>1, <2>2, <2>3 DEF DeliveryTypes
<1>10. Delivery!Mine(work)' = {}
  BY <1>4 DEF Delivery!Mine
<1>11. Delivery!Held' = {t}
  BY <1>2, <1>3, <1>4 DEF Delivery!Held
<1>12. NothingIsKept' /\ OneIsSent'
  BY <1>4, <1>10, <1>11 DEF NothingIsKept, OneIsSent
<1>13. Delivery!OnTheWay' = {n \in 1 .. MaxReplies : item = Delivery!Reply(n)}
  BY <1>3, <1>10, <1>11 DEF Delivery!OnTheWay
<1>14. CASE passing = 1
  <2>1. Len(received) + 1 \in 1 .. MaxReplies /\ item = Delivery!Reply(Len(received) + 1)
    BY <1>14, DeliveryAssumption
  <2>2. Delivery!OnTheWay' = {Len(received) + 1}
    BY <1>13, <2>1, ItemFacts
  <2> QED  BY <1>4, <1>9, <1>12, <1>14, <2>2 DEF DeliveryInv, RepliesAreCounted, Passing
<1>15. CASE passing = 0
  <2>1. Delivery!OnTheWay' = {}
    BY <1>13, <1>15, ItemFacts
  <2> QED  BY <1>4, <1>9, <1>12, <1>15, <2>1 DEF DeliveryInv, RepliesAreCounted, Passing
<1> QED  BY <1>14, <1>15

\* A delivery that sends nothing has no send of its own; nor has one that is new.
LEMMA FreeToSend ==
    ASSUME DeliveryInv, ~Delivery!Found.sendPending
    PROVE  /\ \A i \in DOMAIN work : work[i].generation # Delivery!Found.generation
           /\ \A u \in Delivery!Tasks : task[u].step = "send"
                => task[u].generation # Delivery!Found.generation
<1> USE DeliveryFacts
<1>1. CASE socket.used
  <2>1. Delivery!Found = socket
    BY <1>1 DEF Delivery!Found
  <2>2. Delivery!Mine(work) = {} /\ Delivery!Held = {}
    BY <2>1 DEF DeliveryInv, OneIsSent
  <2> QED  BY <2>1, <2>2 DEF Delivery!Mine, Delivery!Held
<1>2. CASE ~socket.used
  <2>1. Delivery!Found.generation = socket.generation + 1
    BY <1>2 DEF Delivery!Found
  <2> QED  BY <2>1
<1> QED  BY <1>1, <1>2

\* The delivery that queueWebSocketText finds.
LEMMA FoundFacts ==
    ASSUME DeliveryInv
    PROVE  /\ Delivery!Found = [used |-> TRUE, generation |-> Delivery!Found.generation,
                       sendPending |-> socket.sendPending, retiring |-> socket.retiring]
           /\ Delivery!Found.used = TRUE /\ Delivery!Found.sendPending = socket.sendPending
           /\ Delivery!Found.retiring = socket.retiring
           /\ Delivery!Found.generation \in Nat
                /\ Delivery!Found.generation >= socket.generation
           /\ socket.used => Delivery!Found = socket
           /\ ~socket.used => Delivery!Found.generation = socket.generation + 1
           /\ ~socket.used => ~socket.sendPending /\ ~socket.retiring /\ Delivery!Empty
<1>1. ~socket.used => ~socket.sendPending /\ ~socket.retiring /\ Delivery!Empty
  BY DEF DeliveryInv, NothingIsKept
<1>2. CASE socket.used
  <2>1. Delivery!Found = socket /\ socket.used = TRUE
    BY <1>2, DeliveryFacts DEF Delivery!Found
  <2> QED  BY <1>1, <2>1, DeliveryFacts
<1>3. CASE ~socket.used
  <2>1. Delivery!Found = [socket EXCEPT !.used = TRUE, !.generation = socket.generation + 1]
    BY <1>3 DEF Delivery!Found
  <2>2. Delivery!Found = [used |-> TRUE, generation |-> socket.generation + 1,
                 sendPending |-> socket.sendPending, retiring |-> socket.retiring]
    BY <2>1, DeliveryFacts
  <2>3. /\ Delivery!Found.used = TRUE /\ Delivery!Found.generation = socket.generation + 1
        /\ Delivery!Found.sendPending = socket.sendPending
             /\ Delivery!Found.retiring = socket.retiring
    BY <2>2
  <2>4. Delivery!Found.generation \in Nat /\ Delivery!Found.generation >= socket.generation
    BY <2>3, DeliveryFacts
  <2> QED  BY <1>1, <1>3, <2>2, <2>3, <2>4
<1> QED  BY <1>2, <1>3

\* While nothing is being sent, the replies queued follow those received.
LEMMA NothingPasses ==
    ASSUME DeliveryInv, ~socket.retiring, ~socket.sendPending
    PROVE  /\ \A i \in 1 .. Len(received) : received[i] = i
           /\ \A i \in 1 .. Len(replies) : replies[i] = Len(received) + i
           /\ accepted = Len(received) + Len(replies)
<1>1. Delivery!Mine(work) = {} /\ Delivery!Held = {}
  BY DEF DeliveryInv, OneIsSent
<1>2. Delivery!OnTheWay = {}
  BY <1>1 DEF Delivery!OnTheWay
<1>3. Passing = 0
  BY <1>2 DEF Passing
<1> QED  BY <1>3, DeliveryFacts DEF DeliveryInv, RepliesAreCounted

\* A task that is done sends nothing, and the other task is where it was.
LEMMA TaskLeaves ==
    ASSUME DeliveryInv, NEW t \in Delivery!Tasks, Delivery!Done(t)
    PROVE  /\ task' = [u \in Delivery!Tasks |-> task'[u]] /\ task'[t].step # "send"
           /\ \A u \in Delivery!Tasks \ {t} : task'[u] = task[u]
<1>1. task = [u \in Delivery!Tasks |-> task[u]]
  BY DEF DeliveryInv, DeliveryTypes
<1>2. Delivery!Idle.step # "send"
  BY DEF Delivery!Idle
<1> QED  BY <1>1, <1>2 DEF Delivery!Done

\* queueWebSocketText sends at once what nothing is before.
LEMMA QueueSends ==
    ASSUME DeliveryInv, NEW t \in Delivery!Tasks, Delivery!Queue(t), ~Delivery!Found.retiring,
           ~Delivery!BehindOthers(Delivery!Found)
    PROVE  DeliveryInv'
<1> DEFINE item == Delivery!Numbered(task[t].item)
<1> USE DeliveryFacts
<1>1. /\ task[t].step = "lock" /\ item.number <= MaxReplies
      /\ Delivery!Run(t, "send", item, Delivery!Found.generation)
      /\ socket' = [Delivery!Found EXCEPT !.sendPending = TRUE]
      /\ Delivery!Accept(item) /\ UNCHANGED <<replies, state, nextState, work, received>>
  BY DEF Delivery!Queue, Delivery!queueVars
<1>2. ~Delivery!Found.sendPending /\ Delivery!Empty /\ ~socket.sendPending /\ ~socket.retiring
  BY FoundFacts DEF Delivery!BehindOthers
<1>3. replies = <<>> /\ Len(replies) = 0
  BY <1>2 DEF Delivery!Empty
<1>4. /\ \A i \in 1 .. Len(received) : received[i] = i
      /\ accepted = Len(received)
  BY <1>2, <1>3, NothingPasses
<1>5. socket' = [used |-> TRUE, generation |-> Delivery!Found.generation, sendPending |-> TRUE,
                   retiring |-> FALSE]
  <2>1. Delivery!Found.retiring = FALSE
    BY FoundFacts
  <2> QED  BY <1>1, <2>1, FoundFacts
<1>6. Delivery!Found.generation \in Nat /\ Delivery!Found.generation >= socket.generation
  BY FoundFacts
<1>7. replies' \in Seq(1 .. MaxReplies) /\ Len(replies') <= Capacity
      /\ Len(replies') = 0
  BY <1>1, <1>3, DeliveryAssumption DEF DeliveryInv, DeliveryTypes
<1>8. task' = [task EXCEPT ![t] = [step |-> "send", item |-> item,
                                   generation |-> Delivery!Found.generation]]
  BY <1>1 DEF Delivery!Run
<1>9. /\ \A i \in DOMAIN work : work[i].generation # Delivery!Found.generation
      /\ \A u \in Delivery!Tasks : task[u].step = "send"
           => task[u].generation # Delivery!Found.generation
  BY <1>2, FreeToSend
<1>10. CASE task[t].item.reply
  <2>1. item = Delivery!Reply(accepted + 1)
    BY <1>10 DEF Delivery!Numbered
  <2>2. item.number = accepted + 1 /\ item.reply
    BY <2>1, ItemFacts
  <2>3. accepted' = accepted + 1
    BY <1>1, <2>2 DEF Delivery!Accept
  <2>4. item = Delivery!Reply(Len(received) + 1) /\ Len(received) + 1 <= MaxReplies
        /\ accepted' = Len(received) + 1 + Len(replies')
    BY <1>1, <1>4, <1>7, <2>1, <2>2, <2>3
  <2>5. task[t].step # "send" /\ work' = work /\ received' = received
    BY <1>1
  <2>6. \A i \in 1 .. Len(replies') : replies'[i] = Len(received) + 1 + i
    BY <1>7
  <2> HIDE DEF item
  <2>7. ASSUME NEW passing \in {0, 1}, passing = 1 PROVE DeliveryInv'
    <3>1. /\ passing = 1 => item = Delivery!Reply(Len(received) + 1)
               /\ Len(received) + 1 <= MaxReplies
          /\ passing = 0 => ~item.reply
      BY <2>4, <2>7
    <3>2. /\ \A i \in 1 .. Len(received) : received[i] = i
          /\ \A i \in 1 .. Len(replies') : replies'[i] = Len(received) + passing + i
          /\ accepted' = Len(received) + passing + Len(replies')
      BY <1>4, <2>4, <2>6, <2>7
    <3>3. /\ ~socket.retiring /\ task[t].step # "send" /\ work' = work /\ received' = received
          /\ replies' \in Seq(1 .. MaxReplies) /\ Len(replies') <= Capacity
      BY <1>2, <1>7, <2>5
    <3> QED  BY <1>5, <1>6, <1>8, <1>9, <3>1, <3>2, <3>3, SendBegins
  <2> QED  BY <2>7
<1>11. CASE ~task[t].item.reply
  <2>1. item = task[t].item /\ ~item.reply
    BY <1>11 DEF Delivery!Numbered
  <2>2. accepted' = accepted
    BY <1>1, <2>1 DEF Delivery!Accept
  <2>3. accepted' = Len(received) + 0 + Len(replies')
    BY <1>4, <1>7, <2>2
  <2>5. task[t].step # "send" /\ work' = work /\ received' = received
    BY <1>1
  <2>6. \A i \in 1 .. Len(replies') : replies'[i] = Len(received) + 0 + i
    BY <1>7
  <2> HIDE DEF item
  <2>7. ASSUME NEW passing \in {0, 1}, passing = 0 PROVE DeliveryInv'
    <3>1. /\ passing = 1 => item = Delivery!Reply(Len(received) + 1)
               /\ Len(received) + 1 <= MaxReplies
          /\ passing = 0 => ~item.reply
      BY <2>1, <2>7
    <3>2. /\ \A i \in 1 .. Len(received) : received[i] = i
          /\ \A i \in 1 .. Len(replies') : replies'[i] = Len(received) + passing + i
          /\ accepted' = Len(received) + passing + Len(replies')
      BY <1>4, <2>3, <2>6, <2>7
    <3>3. /\ ~socket.retiring /\ task[t].step # "send" /\ work' = work /\ received' = received
          /\ replies' \in Seq(1 .. MaxReplies) /\ Len(replies') <= Capacity
      BY <1>2, <1>7, <2>5
    <3> QED  BY <1>5, <1>6, <1>8, <1>9, <3>1, <3>2, <3>3, SendBegins
  <2> QED  BY <2>7
<1> QED  BY <1>10, <1>11

\* What waits behind others waits in the order it was accepted in; what the queue does not
\* hold gives the client up.
LEMMA QueueWaits ==
    ASSUME DeliveryInv, NEW t \in Delivery!Tasks, Delivery!Queue(t), ~Delivery!Found.retiring,
           Delivery!BehindOthers(Delivery!Found)
    PROVE  DeliveryInv'
<1> DEFINE item == Delivery!Numbered(task[t].item)
<1> USE DeliveryFacts
<1>1. /\ task[t].step = "lock" /\ item.number <= MaxReplies /\ Delivery!Done(t)
      /\ UNCHANGED <<work, received>>
      /\ IF Delivery!Full(item) THEN Delivery!Retire(Delivery!Found) /\ UNCHANGED accepted
         ELSE Delivery!Push(item) /\ Delivery!Accept(item) /\ socket' = Delivery!Found
  BY DEF Delivery!Queue
<1>2. socket.used /\ Delivery!Found = socket
  BY FoundFacts DEF Delivery!BehindOthers
<1>3. socket.used = TRUE
  BY <1>2
<1>4. ~socket.retiring
  BY <1>2
<1>6. task' = [u \in Delivery!Tasks |-> task'[u]] /\ task'[t].step # "send"
      /\ \A u \in Delivery!Tasks \ {t} : task'[u] = task[u]
  BY <1>1, TaskLeaves
<1>7. /\ socket'.generation = socket.generation
      /\ socket'.sendPending = socket.sendPending /\ socket'.used = TRUE
      /\ socket' \in [used : BOOLEAN, generation : Nat, sendPending : BOOLEAN,
                        retiring : BOOLEAN]
  <2>1. CASE Delivery!Full(item)
    <3>1. socket' = [socket EXCEPT !.retiring = TRUE]
      BY <1>1, <1>2, <2>1 DEF Delivery!Retire
    <3> QED  BY <1>3, <3>1
  <2>2. CASE ~Delivery!Full(item)
    <3>1. socket' = socket
      BY <1>1, <1>2, <2>2
    <3> QED  BY <1>3, <3>1
  <2> QED  BY <2>1, <2>2
<1>8. Delivery!Held' = Delivery!Held /\ Delivery!Mine(work)' = Delivery!Mine(work)
  BY <1>1, <1>6, <1>7 DEF Delivery!Held, Delivery!Mine
<1>9. Delivery!OnTheWay' = Delivery!OnTheWay
  BY <1>1, <1>6, <1>8 DEF Delivery!OnTheWay, Delivery!Held
<1>10. OneIsSent' /\ NothingIsKept'
  BY <1>7, <1>8 DEF DeliveryInv, OneIsSent, NothingIsKept
<1>11. accepted \in Nat /\ replies \in Seq(1 .. MaxReplies) /\ Len(replies) <= Capacity
  BY DEF DeliveryInv, DeliveryTypes
<1>12. ASSUME replies' \in Seq(1 .. MaxReplies), Len(replies') <= Capacity, accepted' \in Nat
       PROVE  DeliveryTypes'
  <2>1. /\ received' \in Seq(1 .. MaxReplies)
        /\ IsList(work)' /\ \A i \in DOMAIN work' : IsSend(work'[i], socket.generation)
    BY <1>1 DEF DeliveryInv, DeliveryTypes, IsList
  <2>2. \A u \in Delivery!Tasks : task'[u].step = "send" => IsSend(task'[u], socket.generation)
    BY <1>6 DEF DeliveryInv, DeliveryTypes
  <2> QED  BY <1>6, <1>7, <1>12, <2>1, <2>2 DEF DeliveryTypes
<1>13. CASE Delivery!Full(item)
  <2>1. socket' = [socket EXCEPT !.retiring = TRUE] /\ replies' = <<>>
        /\ accepted' = accepted
    BY <1>1, <1>2, <1>13 DEF Delivery!Retire, Delivery!ClearQueue
  <2>2. socket'.retiring = TRUE
    BY <2>1
  <2>3. replies' \in Seq(1 .. MaxReplies) /\ Len(replies') <= Capacity
    BY <2>1, DeliveryAssumption
  <2> QED
    BY <1>10, <1>11, <1>12, <2>1, <2>2, <2>3 DEF DeliveryInv, RepliesAreCounted
<1>14. CASE ~Delivery!Full(item) /\ task[t].item.reply
  <2>1. item = Delivery!Reply(accepted + 1)
    BY <1>14 DEF Delivery!Numbered
  <2>2. item.number = accepted + 1 /\ item.reply
    BY <2>1, ItemFacts
  <2>3. replies' = Append(replies, accepted + 1) /\ accepted' = accepted + 1
        /\ socket' = socket
    BY <1>1, <1>2, <1>14, <2>2 DEF Delivery!Push, Delivery!Accept
  <2>4. accepted + 1 \in 1 .. MaxReplies /\ Len(replies) < Capacity
    BY <1>1, <1>11, <1>14, <2>2, DeliveryAssumption DEF Delivery!Full
  <2>5. /\ replies' \in Seq(1 .. MaxReplies) /\ Len(replies') = Len(replies) + 1
        /\ \A i \in 1 .. Len(replies) : replies'[i] = replies[i]
        /\ replies'[Len(replies) + 1] = accepted + 1
    BY <1>11, <2>3, <2>4
  <2>6. Len(replies') <= Capacity /\ accepted' \in Nat
    BY <1>11, <2>3, <2>4, <2>5, DeliveryAssumption
  <2>7. Passing' = Passing /\ Passing \in Nat
    BY <1>9 DEF Passing
  <2>8. /\ Delivery!OnTheWay \subseteq {Len(received) + 1}
        /\ \A i \in 1 .. Len(received) : received[i] = i
        /\ \A i \in 1 .. Len(replies) : replies[i] = Len(received) + Passing + i
        /\ accepted = Len(received) + Passing + Len(replies)
    BY <1>4 DEF DeliveryInv, RepliesAreCounted
  <2>9. \A i \in 1 .. Len(replies') : replies'[i] = Len(received) + Passing + i
    <3> SUFFICES ASSUME NEW i \in 1 .. Len(replies')
                 PROVE  replies'[i] = Len(received) + Passing + i
      OBVIOUS
    <3>1. CASE i \in 1 .. Len(replies)
      BY <2>5, <2>8, <3>1
    <3>2. CASE i = Len(replies) + 1
      <4>1. replies'[i] = accepted + 1
        BY <2>5, <3>2
      <4> QED  BY <2>7, <2>8, <3>2, <4>1
    <3>3. i \in 1 .. Len(replies) \/ i = Len(replies) + 1
      BY <2>5
    <3> QED  BY <3>1, <3>2, <3>3
  <2>10. accepted' = Len(received) + Passing + Len(replies')
    BY <2>3, <2>5, <2>7, <2>8
  <2>11. RepliesAreCounted'
    BY <1>1, <1>9, <2>7, <2>8, <2>9, <2>10 DEF RepliesAreCounted
  <2> QED  BY <1>10, <1>12, <2>5, <2>6, <2>11 DEF DeliveryInv
<1>15. CASE ~Delivery!Full(item) /\ ~task[t].item.reply
  <2>1. item = task[t].item /\ ~item.reply
    BY <1>15 DEF Delivery!Numbered
  <2>2. replies' = replies /\ accepted' = accepted /\ socket' = socket
    BY <1>1, <1>2, <1>15, <2>1 DEF Delivery!Push, Delivery!Accept
  <2>3. Passing' = Passing
    BY <1>9 DEF Passing
  <2>4. RepliesAreCounted'
    BY <1>1, <1>4, <1>9, <2>2, <2>3 DEF DeliveryInv, RepliesAreCounted
  <2> QED  BY <1>10, <1>11, <1>12, <2>2, <2>4 DEF DeliveryInv
<1> QED  BY <1>13, <1>14, <1>15

\* queueWebSocketText.
LEMMA QueueStep ==
    ASSUME DeliveryInv, NEW t \in Delivery!Tasks, Delivery!Queue(t)
    PROVE  DeliveryInv'
<1>1. CASE Delivery!Found.retiring
  <2>1. task[t].step # "send" /\ Delivery!Done(t)
        /\ UNCHANGED <<socket, replies, state, work, accepted, received>>
    BY <1>1 DEF Delivery!Queue, Delivery!queueVars
  <2> QED  BY <2>1, TaskMoves
<1> QED  BY <1>1, QueueSends, QueueWaits

\* The HTTP server takes a send: it goes from the task's hands to the end of the server's
\* list.
LEMMA SendStep ==
    ASSUME DeliveryInv, NEW t \in Delivery!Tasks, Delivery!Send(t)
    PROVE  DeliveryInv'
<1> DEFINE send == [item |-> task[t].item, generation |-> task[t].generation]
<1> USE DeliveryFacts
<1>1. /\ task[t].step = "send" /\ Delivery!Done(t)
      /\ UNCHANGED <<socket, replies, state, accepted, received>>
      /\ work' = Append(work, send)
  BY DEF Delivery!Send, Delivery!queueVars
<1>2. task' = [u \in Delivery!Tasks |-> task'[u]] /\ task'[t].step # "send"
      /\ \A u \in Delivery!Tasks \ {t} : task'[u] = task[u]
  BY <1>1, TaskLeaves
<1>3. send.item = task[t].item /\ send.generation = task[t].generation
  OBVIOUS
<1> HIDE DEF send
<1>4. /\ Len(work') = Len(work) + 1 /\ DOMAIN work' = 1 .. Len(work')
      /\ work' = [i \in 1 .. Len(work') |-> work'[i]]
      /\ \A i \in 1 .. Len(work) : work'[i] = work[i]
      /\ work'[Len(work) + 1] = send
  <2>1. IsList(work)
    BY DEF DeliveryInv, DeliveryTypes
  <2>2. /\ IsList(Append(work, send)) /\ Len(Append(work, send)) = Len(work) + 1
        /\ DOMAIN Append(work, send) = 1 .. Len(work) + 1
        /\ \A i \in 1 .. Len(work) : Append(work, send)[i] = work[i]
        /\ Append(work, send)[Len(work) + 1] = send
    BY <2>1, ListAppended
  <2> QED  BY <1>1, <2>2 DEF IsList
<1>5. IsSend(send, socket.generation)
  BY <1>1, <1>3 DEF DeliveryInv, DeliveryTypes, IsSend
<1>6. DeliveryTypes'
  <2>1. \A u \in Delivery!Tasks : task'[u].step = "send" => IsSend(task'[u], socket.generation)
    BY <1>2 DEF DeliveryInv, DeliveryTypes
  <2>2. \A i \in 1 .. Len(work) : IsSend(work[i], socket.generation)
    BY DEF DeliveryInv, DeliveryTypes
  <2>3. \A i \in DOMAIN work' : IsSend(work'[i], socket.generation)
    <3> SUFFICES ASSUME NEW i \in DOMAIN work' PROVE IsSend(work'[i], socket.generation)
      OBVIOUS
    <3>1. i \in 1 .. Len(work) \/ i = Len(work) + 1
      BY <1>4
    <3> QED  BY <1>4, <1>5, <2>2, <3>1
  <2> QED  BY <1>1, <1>2, <1>4, <2>1, <2>3 DEF DeliveryInv, DeliveryTypes, IsList
<1>7. CASE task[t].generation = socket.generation
  <2>1. t \in Delivery!Held
    BY <1>1, <1>7 DEF Delivery!Held
  <2>2. Delivery!Held = {t} /\ Delivery!Mine(work) = {} /\ socket.sendPending
    BY <2>1 DEF DeliveryInv, OneIsSent
  <2>3. \A i \in 1 .. Len(work) : work[i].generation # socket.generation
    BY <2>2 DEF Delivery!Mine
  <2>4. Delivery!Mine(work)' = {Len(work) + 1}
    <3>1. \A i \in 1 .. Len(work) : work'[i].generation # socket.generation
      BY <1>4, <2>3
    <3>2. work'[Len(work) + 1].generation = socket.generation
      BY <1>3, <1>4, <1>7
    <3>3. DOMAIN work' = 1 .. Len(work) + 1 /\ Len(work) \in Nat
      BY <1>4
    <3> QED  BY <1>1, <3>1, <3>2, <3>3 DEF Delivery!Mine
  <2>5. Delivery!Held' = {}
    BY <1>1, <1>2, <2>2 DEF Delivery!Held
  <2>6. Delivery!OnTheWay' = Delivery!OnTheWay
    BY <1>3, <1>4, <2>2, <2>4, <2>5 DEF Delivery!OnTheWay
  <2>7. OneIsSent'
    BY <1>1, <2>2, <2>4, <2>5 DEF OneIsSent
  <2> QED
    BY <1>1, <1>6, <2>6, <2>7
       DEF DeliveryInv, NothingIsKept, RepliesAreCounted, Passing, Delivery!Empty
<1>8. CASE task[t].generation # socket.generation
  <2>1. Delivery!Held' = Delivery!Held
    BY <1>1, <1>2, <1>8 DEF Delivery!Held
  <2>2. Delivery!Mine(work)' = Delivery!Mine(work)
    <3>1. work'[Len(work) + 1].generation # socket.generation
      BY <1>3, <1>4, <1>8
    <3>2. DOMAIN work' = 1 .. Len(work) + 1 /\ Len(work) \in Nat
      BY <1>4
    <3> QED  BY <1>1, <1>4, <3>1, <3>2 DEF Delivery!Mine
  <2>3. \A i \in Delivery!Mine(work) : i \in 1 .. Len(work)
    BY DEF Delivery!Mine
  <2>4. \A u \in Delivery!Held : u # t
    BY <1>8 DEF Delivery!Held
  <2>5. \A u \in Delivery!Held : task'[u] = task[u]
    BY <1>2, <2>4 DEF Delivery!Held
  <2>6. Delivery!OnTheWay' = Delivery!OnTheWay
    BY <1>4, <2>1, <2>2, <2>3, <2>5 DEF Delivery!OnTheWay
  <2>7. OneIsSent'
    BY <1>1, <2>1, <2>2 DEF DeliveryInv, OneIsSent
  <2> QED
    BY <1>1, <1>6, <2>6, <2>7
       DEF DeliveryInv, NothingIsKept, RepliesAreCounted, Passing, Delivery!Empty
<1> QED  BY <1>7, <1>8

\* The delivery of a send that is over or refused.
LEMMA CurrentFacts ==
    ASSUME DeliveryInv, NEW g, Delivery!Mine(work) # {} \/ Delivery!Held # {}
             \/ g # socket.generation
    PROVE  Delivery!Current(g) <=> g = socket.generation
<1>1. CASE Delivery!Mine(work) # {} \/ Delivery!Held # {}
  <2>1. socket.sendPending
    BY <1>1 DEF DeliveryInv, OneIsSent
  <2> QED  BY <2>1 DEF DeliveryInv, NothingIsKept, Delivery!Current
<1>2. CASE g # socket.generation
  BY <1>2 DEF Delivery!Current
<1> QED  BY <1>1, <1>2

\* A client that is given up has nothing queued; what was sent to it is over.
LEMMA RetireStep ==
    ASSUME DeliveryInv, socket.used, Delivery!Retire([socket EXCEPT !.sendPending = FALSE]),
           UNCHANGED <<accepted, received>>,
           task' = [u \in Delivery!Tasks |-> task'[u]],
           \A u \in Delivery!Tasks : task'[u].step = "send" =>
                task[u].step = "send" /\ task'[u] = task[u],
           Len(work') \in Nat, work' = [i \in 1 .. Len(work') |-> work'[i]],
           \A i \in DOMAIN work' : \E j \in DOMAIN work : work'[i] = work[j],
           Delivery!Mine(work)' = {}, Delivery!Held' = {}
    PROVE  DeliveryInv'
<1>0. /\ socket.used = TRUE /\ socket.generation \in Nat
      /\ socket = [used |-> socket.used, generation |-> socket.generation,
                     sendPending |-> socket.sendPending, retiring |-> socket.retiring]
  BY DeliveryFacts
<1>1. /\ socket' = [used |-> TRUE, generation |-> socket.generation,
                      sendPending |-> FALSE, retiring |-> TRUE]
      /\ replies' = <<>>
  BY <1>0 DEF Delivery!Retire, Delivery!ClearQueue
<1>2. /\ socket'.used = TRUE /\ socket'.generation = socket.generation
      /\ socket'.sendPending = FALSE /\ socket'.retiring = TRUE
  BY <1>1
<1>3. socket' \in [used : BOOLEAN, generation : Nat, sendPending : BOOLEAN, retiring : BOOLEAN]
  BY <1>0, <1>1, DeliveryRecord
<1>4. /\ IsList(work)' /\ \A i \in DOMAIN work' : IsSend(work'[i], socket.generation)
      /\ \A u \in Delivery!Tasks : task'[u].step = "send"
           => IsSend(task'[u], socket.generation)
  BY DEF DeliveryInv, DeliveryTypes, IsList
<1>5. /\ replies' \in Seq(1 .. MaxReplies) /\ Len(replies') <= Capacity
      /\ accepted' \in Nat /\ received' \in Seq(1 .. MaxReplies)
  BY <1>1, DeliveryAssumption DEF DeliveryInv, DeliveryTypes
<1>6. DeliveryTypes'
  BY <1>2, <1>3, <1>4, <1>5 DEF DeliveryTypes
<1> QED
  BY <1>2, <1>6 DEF DeliveryInv, NothingIsKept, OneIsSent, RepliesAreCounted

\* The HTTP server refuses a send, and the client is given up, unless it has left.
LEMMA SendRefusedStep ==
    ASSUME DeliveryInv, NEW t \in Delivery!Tasks, Delivery!SendRefused(t)
    PROVE  DeliveryInv'
<1>1. /\ task[t].step = "send" /\ Delivery!Done(t) /\ UNCHANGED <<work, accepted, received>>
      /\ IF Delivery!Current(task[t].generation)
         THEN Delivery!Retire([socket EXCEPT !.sendPending = FALSE])
         ELSE UNCHANGED <<socket, replies, state>>
  BY DEF Delivery!SendRefused, Delivery!queueVars
<1>2. task' = [u \in Delivery!Tasks |-> task'[u]] /\ task'[t].step # "send"
      /\ \A u \in Delivery!Tasks \ {t} : task'[u] = task[u]
  BY <1>1, TaskLeaves
<1>3. CASE task[t].generation = socket.generation
  <2>1. t \in Delivery!Held
    BY <1>1, <1>3 DEF Delivery!Held
  <2>2. Delivery!Held = {t} /\ Delivery!Mine(work) = {}
    BY <2>1 DEF DeliveryInv, OneIsSent
  <2>3. Delivery!Current(task[t].generation) /\ socket.used
    BY <1>3, <2>2, CurrentFacts DEF Delivery!Current
  <2>4. Delivery!Retire([socket EXCEPT !.sendPending = FALSE])
    BY <1>1, <2>3
  <2>5. socket'.generation = socket.generation
    BY <2>4, DeliveryFacts DEF Delivery!Retire
  <2>6. Delivery!Mine(work)' = {} /\ Delivery!Held' = {}
    BY <1>1, <1>2, <2>2, <2>5 DEF Delivery!Mine, Delivery!Held
  <2>7. /\ \A u \in Delivery!Tasks : task'[u].step = "send"
             => task[u].step = "send" /\ task'[u] = task[u]
        /\ Len(work') \in Nat /\ work' = [i \in 1 .. Len(work') |-> work'[i]]
        /\ \A i \in DOMAIN work' : \E j \in DOMAIN work : work'[i] = work[j]
    BY <1>1, <1>2 DEF DeliveryInv, DeliveryTypes, IsList
  <2> QED  BY <1>1, <1>2, <2>3, <2>4, <2>6, <2>7, RetireStep
<1>4. CASE task[t].generation # socket.generation
  <2>1. UNCHANGED <<socket, replies, state>>
    BY <1>1, <1>4 DEF Delivery!Current
  <2>2. Delivery!Held' = Delivery!Held /\ Delivery!Mine(work)' = Delivery!Mine(work)
    BY <1>1, <1>2, <1>4, <2>1 DEF Delivery!Held, Delivery!Mine
  <2>3. \A u \in Delivery!Held : task'[u] = task[u]
    BY <1>2, <1>4 DEF Delivery!Held
  <2>4. Delivery!OnTheWay' = Delivery!OnTheWay
    BY <1>1, <2>2, <2>3 DEF Delivery!OnTheWay
  <2>5. DeliveryTypes'
    <3>1. \A u \in Delivery!Tasks : task'[u].step = "send"
            => IsSend(task'[u], socket.generation)
      BY <1>2 DEF DeliveryInv, DeliveryTypes
    <3> QED  BY <1>1, <1>2, <2>1, <3>1 DEF DeliveryInv, DeliveryTypes, IsList
  <2> QED
    BY <1>1, <2>1, <2>2, <2>4, <2>5
       DEF DeliveryInv, NothingIsKept, OneIsSent, RepliesAreCounted, Passing,
           Delivery!Empty
<1> QED  BY <1>3, <1>4

\* The server has run its oldest send: it was received, or the client is given up, or
\* another client has the socket.
LEMMA RunWorkStep ==
    ASSUME DeliveryInv, NEW ok \in BOOLEAN, Delivery!RunWork(ok)
    PROVE  DeliveryInv'
<1> DEFINE sent == Head(work)
<1> USE DeliveryFacts
<1>1. /\ work # <<>> /\ work' = Tail(work) /\ UNCHANGED <<task, accepted>>
      /\ received' = IF ok /\ sent.item.reply /\ Delivery!Current(sent.generation)
                     THEN Append(received, sent.item.number) ELSE received
      /\ IF Delivery!Current(sent.generation)
         THEN IF ok THEN socket' = [socket EXCEPT !.sendPending = FALSE]
                           /\ UNCHANGED <<replies, state>>
              ELSE Delivery!Retire([socket EXCEPT !.sendPending = FALSE])
         ELSE UNCHANGED <<socket, replies, state>>
  BY DEF Delivery!RunWork, Delivery!Releases, Delivery!queueVars
<1>2. IsList(work) /\ \A i \in DOMAIN work : IsSend(work[i], socket.generation)
  BY DEF DeliveryInv, DeliveryTypes
<1>3. /\ IsList(work') /\ Len(work') = Len(work) - 1 /\ Len(work) >= 1
      /\ DOMAIN work' = 1 .. Len(work) - 1
      /\ \A i \in 1 .. Len(work) - 1 : work'[i] = work[i + 1]
      /\ sent = work[1]
  BY <1>1, <1>2, ListShortened
<1> HIDE DEF sent
<1>4. \A i \in DOMAIN work' : i + 1 \in DOMAIN work /\ work'[i] = work[i + 1]
  BY <1>3
<1>5. IsList(work)' /\ \A i \in DOMAIN work' : IsSend(work'[i], socket.generation)
  BY <1>2, <1>3, <1>4 DEF IsList
<1>6. task' = [u \in Delivery!Tasks |-> task'[u]]
      /\ \A u \in Delivery!Tasks : task'[u].step = "send"
           => IsSend(task'[u], socket.generation)
  BY <1>1 DEF DeliveryInv, DeliveryTypes
<1>7. CASE sent.generation = socket.generation
  <2>1. 1 \in Delivery!Mine(work)
    BY <1>3, <1>7 DEF Delivery!Mine
  <2>2. Delivery!Mine(work) = {1} /\ Delivery!Held = {}
    BY <2>1 DEF DeliveryInv, OneIsSent
  <2>3. Delivery!Current(sent.generation) /\ socket.used = TRUE
    BY <1>7, <2>2, CurrentFacts DEF Delivery!Current
  <2>4. socket'.generation = socket.generation
    BY <1>1, <2>3 DEF Delivery!Retire
  <2>5. \A i \in DOMAIN work' : work'[i].generation # socket.generation
    <3> SUFFICES ASSUME NEW i \in DOMAIN work', work'[i].generation = socket.generation
                 PROVE  FALSE
      OBVIOUS
    <3>1. i + 1 \in Delivery!Mine(work)
      BY <1>4 DEF Delivery!Mine
    <3>2. i + 1 = 1 /\ i \in 1 .. Len(work) - 1
      BY <1>3, <2>2, <3>1
    <3> QED  BY <3>2
  <2>6. Delivery!Mine(work)' = {} /\ Delivery!Held' = {}
    BY <1>1, <2>2, <2>4, <2>5 DEF Delivery!Mine, Delivery!Held
  <2>7. CASE ~ok
    <3>1. Delivery!Retire([socket EXCEPT !.sendPending = FALSE]) /\ received' = received
      BY <1>1, <2>3, <2>7
    <3>2. Len(work') \in Nat /\ work' = [i \in 1 .. Len(work') |-> work'[i]]
          /\ \A i \in DOMAIN work' : \E j \in DOMAIN work : work'[i] = work[j]
          /\ \A u \in Delivery!Tasks : task'[u].step = "send" => task[u].step = "send"
                                                          /\ task'[u] = task[u]
      BY <1>1, <1>4, <1>5 DEF IsList
    <3> QED  BY <1>1, <1>6, <2>3, <2>6, <3>1, <3>2, RetireStep
  <2>8. CASE ok
    <3>1. /\ socket' = [socket EXCEPT !.sendPending = FALSE]
          /\ replies' = replies /\ state' = state
          /\ received' = IF sent.item.reply THEN Append(received, sent.item.number)
                         ELSE received
      BY <1>1, <2>3, <2>8
    <3>2. socket' = [used |-> TRUE, generation |-> socket.generation,
                       sendPending |-> FALSE, retiring |-> socket.retiring]
      BY <2>3, <3>1
    <3>3. /\ socket'.used = TRUE /\ socket'.generation = socket.generation
          /\ socket'.sendPending = FALSE /\ socket'.retiring = socket.retiring
          /\ socket' \in [used : BOOLEAN, generation : Nat, sendPending : BOOLEAN,
                            retiring : BOOLEAN]
      BY <3>2, DeliveryRecord
    <3>4. Delivery!OnTheWay = {n \in 1 .. MaxReplies : sent.item = Delivery!Reply(n)}
            /\ Delivery!OnTheWay' = {}
      BY <1>3, <2>2, <2>6 DEF Delivery!OnTheWay
    <3>5. /\ replies \in Seq(1 .. MaxReplies) /\ Len(replies) <= Capacity /\ accepted \in Nat
          /\ received \in Seq(1 .. MaxReplies)
      BY DEF DeliveryInv, DeliveryTypes
    <3>6. OneIsSent' /\ NothingIsKept'
      BY <2>6, <3>3 DEF OneIsSent, NothingIsKept
    <3>7. ASSUME received' \in Seq(1 .. MaxReplies) PROVE DeliveryTypes'
      BY <1>1, <1>5, <1>6, <3>1, <3>3, <3>5, <3>7 DEF DeliveryTypes
    <3>8. Passing' = 0
      BY <3>4 DEF Passing
    <3>9. CASE ~sent.item.reply
      <4>1. received' = received /\ Delivery!OnTheWay = {}
        BY <3>1, <3>4, <3>9, ItemFacts
      <4>2. RepliesAreCounted'
        BY <1>1, <3>1, <3>3, <3>4, <3>8, <4>1
           DEF DeliveryInv, RepliesAreCounted, Passing
      <4> QED  BY <3>5, <3>6, <3>7, <4>1, <4>2 DEF DeliveryInv
    <3>10. CASE sent.item.reply
      <4>1. PICK n \in 1 .. MaxReplies : sent.item = Delivery!Reply(n)
        BY <1>2, <1>3, <3>10 DEF IsSend
      <4>2. Delivery!OnTheWay = {n} /\ sent.item.number = n /\ received' = Append(received, n)
        BY <3>1, <3>4, <3>10, <4>1, ItemFacts
      <4>3. Passing = 1
        BY <4>2 DEF Passing
      <4>4. /\ received' \in Seq(1 .. MaxReplies) /\ Len(received') = Len(received) + 1
            /\ \A i \in 1 .. Len(received) : received'[i] = received[i]
            /\ received'[Len(received) + 1] = n
        BY <3>5, <4>2
      <4>5. RepliesAreCounted'
        <5> SUFFICES ASSUME ~socket.retiring
                     PROVE  /\ \A i \in 1 .. Len(received') : received'[i] = i
                            /\ \A i \in 1 .. Len(replies) :
                                 replies[i] = Len(received') + 0 + i
                            /\ accepted = Len(received') + 0 + Len(replies)
          BY <1>1, <3>1, <3>3, <3>4, <3>8 DEF RepliesAreCounted
        <5>1. /\ n = Len(received) + 1
              /\ \A i \in 1 .. Len(received) : received[i] = i
              /\ \A i \in 1 .. Len(replies) : replies[i] = Len(received) + 1 + i
              /\ accepted = Len(received) + 1 + Len(replies)
          BY <4>2, <4>3 DEF DeliveryInv, RepliesAreCounted
        <5>2. \A i \in 1 .. Len(received') : i \in 1 .. Len(received) \/ i = Len(received) + 1
          BY <4>4
        <5> QED  BY <4>4, <5>1, <5>2
      <4> QED  BY <3>6, <3>7, <4>4, <4>5 DEF DeliveryInv
    <3> QED  BY <3>9, <3>10
  <2> QED  BY <2>7, <2>8
<1>8. CASE sent.generation # socket.generation
  <2>1. UNCHANGED <<socket, replies, state, received>>
    BY <1>1, <1>8 DEF Delivery!Current
  <2>2. DeliveryTypes'
    BY <1>1, <1>5, <1>6, <2>1 DEF DeliveryInv, DeliveryTypes
  <2>3. \A i : i \in Delivery!Mine(work)'
          <=> i + 1 \in Delivery!Mine(work) /\ i \in 1 .. Len(work) - 1
    BY <1>3, <1>4, <2>1 DEF Delivery!Mine
  <2>4. \A j \in Delivery!Mine(work) : j - 1 \in Delivery!Mine(work)' /\ (j - 1) + 1 = j
          /\ j \in 1 .. Len(work)
    <3> SUFFICES ASSUME NEW j \in Delivery!Mine(work)
                 PROVE  j - 1 \in Delivery!Mine(work)' /\ (j - 1) + 1 = j
                          /\ j \in 1 .. Len(work)
      OBVIOUS
    <3>1. j \in 1 .. Len(work) /\ j # 1
      BY <1>3, <1>8 DEF Delivery!Mine
    <3>2. (j - 1) + 1 = j /\ j - 1 \in 1 .. Len(work) - 1
      BY <3>1
    <3> QED  BY <2>3, <3>1, <3>2
  <2>5. Delivery!Held' = Delivery!Held
    BY <1>1, <2>1 DEF Delivery!Held
  <2>6. Delivery!Mine(work)' = {} <=> Delivery!Mine(work) = {}
    BY <2>3, <2>4
  <2>7. \A i, j \in Delivery!Mine(work)' : i = j
    <3> SUFFICES ASSUME NEW i \in Delivery!Mine(work)', NEW j \in Delivery!Mine(work)'
                 PROVE i = j
      OBVIOUS
    <3>1. i + 1 = j + 1 /\ i \in Nat /\ j \in Nat
      BY <2>3 DEF DeliveryInv, OneIsSent
    <3> QED  BY <3>1
  <2>8. OneIsSent'
    BY <2>1, <2>5, <2>6, <2>7 DEF DeliveryInv, OneIsSent
  <2>9. Delivery!OnTheWay' = Delivery!OnTheWay
    <3>1. ASSUME NEW n
          PROVE  (\E i \in Delivery!Mine(work)' : work'[i].item = Delivery!Reply(n))
                    <=> (\E i \in Delivery!Mine(work) : work[i].item = Delivery!Reply(n))
      <4>1. ASSUME NEW i \in Delivery!Mine(work)', work'[i].item = Delivery!Reply(n)
            PROVE  \E j \in Delivery!Mine(work) : work[j].item = Delivery!Reply(n)
        <5>1. i + 1 \in Delivery!Mine(work) /\ work'[i] = work[i + 1]
          BY <1>3, <2>3, <4>1
        <5> QED  BY <4>1, <5>1
      <4>2. ASSUME NEW j \in Delivery!Mine(work), work[j].item = Delivery!Reply(n)
            PROVE  \E i \in Delivery!Mine(work)' : work'[i].item = Delivery!Reply(n)
        <5>1. j - 1 \in Delivery!Mine(work)' /\ work'[j - 1] = work[j]
          <6>1. j - 1 \in 1 .. Len(work) - 1 /\ (j - 1) + 1 = j
            BY <2>3, <2>4
          <6> QED  BY <1>3, <2>4, <6>1
        <5> QED  BY <4>2, <5>1
      <4> QED  BY <4>1, <4>2
    <3> QED  BY <1>1, <2>5, <3>1 DEF Delivery!OnTheWay
  <2> QED
    BY <1>1, <2>1, <2>2, <2>8, <2>9
       DEF DeliveryInv, NothingIsKept, RepliesAreCounted, Passing, Delivery!Empty
<1> QED  BY <1>7, <1>8

\* The main task sends what waited first: the oldest reply, or a state message.
LEMMA FlushStep ==
    ASSUME DeliveryInv, Delivery!Flush
    PROVE  DeliveryInv'
<1> USE DeliveryFacts
<1>1. /\ task["main"].step = "idle" /\ socket.used /\ ~socket.sendPending
      /\ ~socket.retiring
      /\ Delivery!Run("main", "send", Delivery!Popped, socket.generation) /\ Delivery!Pop
      /\ socket' = [socket EXCEPT !.sendPending = TRUE]
      /\ UNCHANGED <<work, accepted, received>>
  BY DEF Delivery!Flush, Delivery!MainIdle
<1>2. "main" \in Delivery!Tasks /\ task["main"].step # "send"
  BY <1>1 DEF Delivery!Tasks
<1>3. socket.used = TRUE /\ socket.retiring = FALSE
  BY <1>1
<1>4. socket' = [used |-> TRUE, generation |-> socket.generation, sendPending |-> TRUE,
                   retiring |-> FALSE]
  BY <1>1, <1>3
<1>5. Delivery!Found = socket
  BY <1>1 DEF Delivery!Found
<1>6. /\ \A i \in DOMAIN work : work[i].generation # socket.generation
      /\ \A u \in Delivery!Tasks : task[u].step = "send"
           => task[u].generation # socket.generation
  BY <1>1, <1>5, FreeToSend
<1>7. /\ \A i \in 1 .. Len(received) : received[i] = i
      /\ \A i \in 1 .. Len(replies) : replies[i] = Len(received) + i
      /\ accepted = Len(received) + Len(replies)
  BY <1>1, NothingPasses
<1>8. replies \in Seq(1 .. MaxReplies) /\ Len(replies) <= Capacity
  BY DEF DeliveryInv, DeliveryTypes
<1>9. task' = [task EXCEPT !["main"] = [step |-> "send", item |-> Delivery!Popped,
                                        generation |-> socket.generation]]
  BY <1>1 DEF Delivery!Run
<1>10. socket.generation \in Nat /\ socket.generation >= socket.generation
  OBVIOUS
<1>11. CASE replies # <<>>
  <2>1. replies' = Tail(replies) /\ Delivery!Popped = Delivery!Reply(Head(replies))
    BY <1>1, <1>11 DEF Delivery!Pop, Delivery!Popped
  <2>2. /\ replies' \in Seq(1 .. MaxReplies) /\ Len(replies') = Len(replies) - 1
        /\ Len(replies) >= 1 /\ Head(replies) = replies[1] /\ replies[1] \in 1 .. MaxReplies
        /\ \A i \in 1 .. Len(replies) - 1 : replies'[i] = replies[i + 1]
    <3>1. IsList(replies)
      BY <1>8, SequenceIsList
    <3>2. replies' \in Seq(1 .. MaxReplies) /\ replies[1] \in 1 .. MaxReplies
      BY <1>8, <1>11, <2>1, <3>1, ListShortened, HeadTailProperties
    <3> QED  BY <1>11, <2>1, <3>1, <3>2, ListShortened
  <2>3. replies[1] = Len(received) + 1
    BY <1>7, <2>2
  <2>4. Delivery!Popped = Delivery!Reply(Len(received) + 1) /\ Len(received) + 1 <= MaxReplies
    BY <2>1, <2>2, <2>3, DeliveryAssumption
  <2>5. Len(replies') <= Capacity
    BY <1>8, <2>2, DeliveryAssumption
  <2>6. \A i \in 1 .. Len(replies') : replies'[i] = Len(received) + 1 + i
    <3> SUFFICES ASSUME NEW i \in 1 .. Len(replies')
                 PROVE  replies'[i] = Len(received) + 1 + i
      OBVIOUS
    <3>1. i \in 1 .. Len(replies) - 1 /\ i + 1 \in 1 .. Len(replies)
      BY <2>2
    <3>2. replies[i + 1] = Len(received) + (i + 1)
      BY <1>7, <3>1
    <3> QED  BY <2>2, <3>1, <3>2
  <2>7. accepted' = Len(received) + 1 + Len(replies')
    BY <1>1, <1>7, <2>2
  <2>8. ASSUME NEW passing \in {0, 1}, passing = 1 PROVE DeliveryInv'
    <3>1. /\ passing = 1 => Delivery!Popped = Delivery!Reply(Len(received) + 1)
               /\ Len(received) + 1 <= MaxReplies
          /\ passing = 0 => ~Delivery!Popped.reply
          /\ \A i \in 1 .. Len(replies') : replies'[i] = Len(received) + passing + i
          /\ accepted' = Len(received) + passing + Len(replies')
      BY <2>4, <2>6, <2>7, <2>8
    <3>2. ~socket.retiring /\ work' = work /\ received' = received
      BY <1>1
    <3> QED
      BY <1>2, <1>4, <1>6, <1>7, <1>9, <1>10, <2>2, <2>5, <3>1, <3>2, SendBegins
  <2> QED  BY <2>8
<1>12. CASE replies = <<>>
  <2>1. replies' = replies /\ Delivery!Popped = Delivery!State(Delivery!NextTopic)
    BY <1>1, <1>12 DEF Delivery!Pop, Delivery!Popped
  <2>2. ASSUME NEW passing \in {0, 1}, passing = 0 PROVE DeliveryInv'
    <3>1. /\ passing = 1 => Delivery!Popped = Delivery!Reply(Len(received) + 1)
               /\ Len(received) + 1 <= MaxReplies
          /\ passing = 0 => ~Delivery!Popped.reply
          /\ \A i \in 1 .. Len(replies') : replies'[i] = Len(received) + passing + i
          /\ accepted' = Len(received) + passing + Len(replies')
      BY <1>1, <1>7, <2>1, <2>2, ItemFacts
    <3>2. ~socket.retiring /\ work' = work /\ received' = received
          /\ replies' \in Seq(1 .. MaxReplies) /\ Len(replies') <= Capacity
      BY <1>1, <1>8, <2>1
    <3> QED
      BY <1>2, <1>4, <1>6, <1>7, <1>9, <1>10, <3>1, <3>2, SendBegins
  <2> QED  BY <2>2
<1> QED  BY <1>11, <1>12

\* A client comes to the socket, with or without a delivery left by the one before.
LEMMA ConnectStep ==
    ASSUME DeliveryInv, Delivery!Connect
    PROVE  DeliveryInv'
<1>1. /\ task["http"].step = "idle" /\ Delivery!Run("http", "check", Delivery!State(1), 0)
           /\ work' = work
      /\ IF socket.used THEN Delivery!Reset
         ELSE UNCHANGED <<socket, replies, state, accepted, received>>
  BY DEF Delivery!Connect, Delivery!HttpIdle, Delivery!queueVars
<1>2. "http" \in Delivery!Tasks /\ task["http"].step # "send"
  BY <1>1 DEF Delivery!Tasks
<1>3. CASE socket.used
  <2>1. task = [u \in Delivery!Tasks |-> task[u]]
    BY DEF DeliveryInv, DeliveryTypes
  <2>2. task' = [u \in Delivery!Tasks |-> task'[u]] /\ task'["http"].step # "send"
        /\ \A u \in Delivery!Tasks \ {"http"} : task'[u] = task[u]
    BY <1>1, <1>2, <2>1 DEF Delivery!Run
  <2>3. \A u \in Delivery!Tasks : task'[u].step = "send"
          => task[u].step = "send" /\ task'[u] = task[u]
    BY <2>2
  <2>4. Delivery!Reset
    BY <1>1, <1>3
  <2> QED  BY <1>1, <2>2, <2>3, <2>4, ResetStep
<1>4. CASE ~socket.used
  <2>1. "check" # "send" /\ UNCHANGED <<socket, replies, state, work, accepted, received>>
    BY <1>1, <1>4
  <2> QED  BY <1>1, <1>2, <2>1, TaskMoves
<1> QED  BY <1>3, <1>4

\* Every step of the deliveries keeps their invariant.
LEMMA DeliveryStep == DeliveryInv /\ [Delivery!Next]_deliveryVars => DeliveryInv'
<1> SUFFICES ASSUME DeliveryInv, [Delivery!Next]_deliveryVars PROVE DeliveryInv'
  OBVIOUS
<1>1. ASSUME UNCHANGED <<socket, replies, state, work, accepted, received>>, UNCHANGED task
      PROVE  DeliveryInv'
  <2>1. task' = [t \in Delivery!Tasks |-> task'[t]]
        /\ (\A t \in Delivery!Tasks : task'[t].step = "send" <=> task[t].step = "send")
        /\ (\A t \in Delivery!Tasks : task[t].step = "send" => task'[t] = task[t])
    BY <1>1 DEF DeliveryInv, DeliveryTypes
  <2> QED  BY <1>1, <2>1, NothingMoves
<1>2. CASE Delivery!Connect
  BY <1>2, ConnectStep
<1>3. CASE Delivery!Close \/ Delivery!AskToClose \/ UNCHANGED deliveryVars
  BY <1>1, <1>3
     DEF Delivery!Close, Delivery!AskToClose, deliveryVars, Delivery!queueVars
<1>4. ASSUME NEW t \in Delivery!Tasks, NEW item, Delivery!Produce(t, item) PROVE DeliveryInv'
  <2>1. task[t].step # "send" /\ "check" # "send" /\ Delivery!Run(t, "check", item, 0)
        /\ UNCHANGED <<socket, replies, state, work, accepted, received>>
    BY <1>4 DEF Delivery!Produce, Delivery!queueVars
  <2> QED  BY <2>1, TaskMoves
<1>5. ASSUME NEW t \in Delivery!Tasks, Delivery!Check(t) PROVE DeliveryInv'
  <2>1. task[t].step # "send" /\ "lock" # "send"
        /\ (Delivery!Run(t, "lock", task[t].item, 0) \/ Delivery!Done(t))
        /\ UNCHANGED <<socket, replies, state, work, accepted, received>>
    BY <1>5 DEF Delivery!Check, Delivery!queueVars
  <2> QED  BY <2>1, TaskMoves
<1>6. ASSUME NEW t \in Delivery!Tasks, Delivery!NoMemory(t) PROVE DeliveryInv'
  <2>1. task[t].step # "send" /\ Delivery!Done(t)
        /\ UNCHANGED <<socket, replies, state, work, accepted, received>>
    BY <1>6 DEF Delivery!NoMemory, Delivery!queueVars
  <2> QED  BY <2>1, TaskMoves
<1>7. ASSUME NEW t \in Delivery!Tasks, Delivery!TaskStep(t) PROVE DeliveryInv'
  BY <1>5, <1>6, <1>7, QueueStep, SendStep, SendRefusedStep DEF Delivery!TaskStep
<1>8. CASE Delivery!Forget
  <2>1. Delivery!Reset /\ work' = work /\ task' = task
    BY <1>8 DEF Delivery!Forget
  <2>2. task' = [t \in Delivery!Tasks |-> task'[t]]
        /\ \A t \in Delivery!Tasks : task'[t].step = "send"
             => task[t].step = "send" /\ task'[t] = task[t]
    BY <2>1 DEF DeliveryInv, DeliveryTypes
  <2> QED  BY <2>1, <2>2, ResetStep
<1>9. CASE Delivery!Flush
  BY <1>9, FlushStep
<1>10. CASE \E ok \in BOOLEAN : Delivery!RunWork(ok)
  BY <1>10, RunWorkStep
<1> QED  BY <1>2, <1>3, <1>4, <1>7, <1>8, <1>9, <1>10 DEF Delivery!Next

\* A socket that no client has used has nothing of one.
LEMMA DeliveryInit == Delivery!Init => DeliveryInv
<1> SUFFICES ASSUME Delivery!Init PROVE DeliveryInv
  OBVIOUS
<1>1. /\ socket = [used |-> FALSE, generation |-> 0, sendPending |-> FALSE,
                     retiring |-> FALSE]
      /\ replies = <<>> /\ state = {} /\ work = <<>> /\ accepted = 0 /\ received = <<>>
      /\ task = [t \in Delivery!Tasks |-> Delivery!Idle]
  BY DEF Delivery!Init
<1>2. /\ socket.used = FALSE /\ socket.generation = 0 /\ socket.sendPending = FALSE
      /\ socket.retiring = FALSE
  BY <1>1
<1>3. socket \in [used : BOOLEAN, generation : Nat, sendPending : BOOLEAN, retiring : BOOLEAN]
  BY <1>1, DeliveryRecord
<1>4. \A t \in Delivery!Tasks : task[t].step # "send"
  BY <1>1 DEF Delivery!Idle
<1>5. /\ replies \in Seq(1 .. MaxReplies) /\ Len(replies) <= Capacity /\ Len(replies) = 0
      /\ received \in Seq(1 .. MaxReplies) /\ Len(received) = 0 /\ accepted \in Nat
  BY <1>1, DeliveryAssumption
<1>6. IsList(work) /\ DOMAIN work = {}
  <2>1. work \in Seq({}) /\ Len(work) = 0
    BY <1>1
  <2>2. IsList(work) /\ DOMAIN work = 1 .. Len(work)
    BY <2>1, SequenceIsList
  <2> QED  BY <2>1, <2>2
<1>7. task = [t \in Delivery!Tasks |-> task[t]]
  BY <1>1
<1>8. DeliveryTypes
  BY <1>3, <1>4, <1>5, <1>6, <1>7 DEF DeliveryTypes
<1>9. Delivery!Mine(work) = {} /\ Delivery!Held = {}
  BY <1>4, <1>6 DEF Delivery!Mine, Delivery!Held
<1>10. Delivery!OnTheWay = {}
  BY <1>9 DEF Delivery!OnTheWay
<1> QED
  BY <1>1, <1>2, <1>5, <1>8, <1>9, <1>10
     DEF DeliveryInv, NothingIsKept, OneIsSent, RepliesAreCounted, Passing,
         Delivery!Empty

\* What is received, on its way and queued is, in this order, what was accepted.
LEMMA CountedInOrder == DeliveryInv => Delivery!RepliesInOrder /\ Delivery!OneSendUnderWay
<1> SUFFICES ASSUME DeliveryInv PROVE Delivery!RepliesInOrder /\ Delivery!OneSendUnderWay
  OBVIOUS
<1>1. Delivery!OneSendUnderWay
  BY DEF DeliveryInv, OneIsSent, Delivery!OneSendUnderWay
<1>2. Delivery!RepliesInOrder
  <2> DEFINE passing == IF Delivery!OnTheWay = {} THEN <<>> ELSE <<Len(received) + 1>>
             whole == received \o passing \o replies
  <2> SUFFICES ASSUME ~socket.retiring
               PROVE  /\ Delivery!OnTheWay \subseteq {Len(received) + 1}
                      /\ whole = [i \in 1 .. accepted |-> i]
    BY DEF Delivery!RepliesInOrder
  <2>1. /\ Delivery!OnTheWay \subseteq {Len(received) + 1}
        /\ \A i \in 1 .. Len(received) : received[i] = i
        /\ \A i \in 1 .. Len(replies) : replies[i] = Len(received) + Passing + i
        /\ accepted = Len(received) + Passing + Len(replies)
    BY DEF DeliveryInv, RepliesAreCounted
  <2>2. received \in Seq(Nat) /\ replies \in Seq(Nat) /\ accepted \in Nat
        /\ Len(received) \in Nat /\ Len(replies) \in Nat
    <3>1. received \in Seq(1 .. MaxReplies) /\ replies \in Seq(1 .. MaxReplies)
          /\ accepted \in Nat
      BY DEF DeliveryInv, DeliveryTypes
    <3>2. 1 .. MaxReplies \subseteq Nat
      OBVIOUS
    <3> QED  BY <3>1, <3>2, SeqMonotonic, LenProperties
  <2>3. /\ passing \in Seq(Nat) /\ Len(passing) = Passing /\ Passing \in Nat
        /\ \A i \in 1 .. Len(passing) : passing[i] = Len(received) + i
    <3>1. CASE Delivery!OnTheWay = {}
      BY <3>1, <2>2 DEF Passing
    <3>2. CASE Delivery!OnTheWay # {}
      BY <3>2, <2>2 DEF Passing
    <3> QED  BY <3>1, <3>2
  <2> HIDE DEF passing
  <2>4. DEFINE front == received \o passing
  <2>5. /\ front \in Seq(Nat) /\ Len(front) = Len(received) + Passing
        /\ \A i \in 1 .. Len(front) : front[i] = i
    <3>1. front \in Seq(Nat) /\ Len(front) = Len(received) + Passing
      BY <2>2, <2>3, ConcatProperties
    <3>2. ASSUME NEW i \in 1 .. Len(front) PROVE front[i] = i
      <4>1. CASE i <= Len(received)
        BY <2>1, <2>2, <2>3, <3>1, <4>1
      <4>2. CASE i > Len(received)
        <5>1. front[i] = passing[i - Len(received)] /\ i - Len(received) \in 1 .. Len(passing)
          BY <2>2, <2>3, <3>1, <4>2
        <5>2. passing[i - Len(received)] = Len(received) + (i - Len(received))
          BY <2>3, <5>1
        <5> QED  BY <2>2, <3>1, <5>1, <5>2
      <4> QED  BY <2>2, <3>1, <4>1, <4>2
    <3> QED  BY <3>1, <3>2
  <2> HIDE DEF front
  <2>6. whole = front \o replies
    BY DEF front
  <2> HIDE DEF whole
  <2>7. whole \in Seq(Nat) /\ Len(whole) = accepted
    <3>1. whole \in Seq(Nat) /\ Len(whole) = Len(front) + Len(replies)
      BY <2>2, <2>5, <2>6, ConcatProperties
    <3>2. accepted = Len(front) + Len(replies)
      BY <2>1, <2>2, <2>5
    <3> QED  BY <3>1, <3>2
  <2>8. ASSUME NEW i \in 1 .. accepted PROVE whole[i] = i
    <3>1. CASE i <= Len(front)
      BY <2>2, <2>5, <2>6, <2>7, <3>1
    <3>2. CASE i > Len(front)
      <4>1. whole[i] = replies[i - Len(front)] /\ i - Len(front) \in 1 .. Len(replies)
        BY <2>1, <2>2, <2>3, <2>5, <2>6, <2>7, <3>2
      <4>2. replies[i - Len(front)] = Len(received) + Passing + (i - Len(front))
        BY <2>1, <4>1
      <4> QED  BY <2>2, <2>3, <2>5, <4>1, <4>2
    <3> QED  BY <2>2, <2>5, <3>1, <3>2
  <2>9. whole = [i \in 1 .. Len(whole) |-> whole[i]]
    BY <2>7, SequenceIsList DEF IsList
  <2> QED  BY <2>1, <2>7, <2>8, <2>9
<1> QED  BY <1>1, <1>2

\* What a task of the deliveries holds, and what the server has taken.
Jobs == [step : {"idle", "check", "lock", "send"}, item : Delivery!Items, generation : Nat]
Sends == [item : Delivery!Items, generation : Nat]

DeliveryRest ==
    /\ connections \in 0 .. MaxConnections /\ open \in BOOLEAN /\ closing \in BOOLEAN
    /\ state \subseteq Delivery!Topics /\ nextState \in Delivery!Topics
    /\ task \in [Delivery!Tasks -> Jobs]
    /\ \A t \in Delivery!Tasks : task[t].generation <= socket.generation
    /\ work \in Seq(Sends)
    /\ accepted <= MaxReplies

\* A client's socket gets one delivery: the one it has when it comes is put away, and the
\* one that is put away behind it does not come back before the next client.
DeliveriesAreCounted ==
    /\ socket.generation <= 2 * connections
    /\ socket.used => socket.generation + 1 <= 2 * connections
    /\ ~socket.used /\ (open \/ \E t \in Delivery!Tasks : task[t].step = "lock")
         => socket.generation + 2 <= 2 * connections
    /\ task["http"].step = "lock" => open

\* Replies and state messages are messages.
LEMMA ItemTypes ==
    /\ \A n \in 0 .. MaxReplies : Delivery!Reply(n) \in Delivery!Items
    /\ \A u \in Delivery!Topics : Delivery!State(u) \in Delivery!Items
    /\ 1 \in Delivery!Topics /\ 0 \in 0 .. MaxReplies
<1>1. 1 \in Delivery!Topics /\ 0 \in 0 .. MaxReplies
  BY DeliveryAssumption DEF Delivery!Topics
<1> QED  BY <1>1 DEF Delivery!Reply, Delivery!State, Delivery!Items

\* A job is what it is made of.
LEMMA JobFacts ==
    ASSUME NEW s \in {"idle", "check", "lock", "send"}, NEW i \in Delivery!Items, NEW g \in Nat
    PROVE  /\ [step |-> s, item |-> i, generation |-> g] \in Jobs
           /\ [step |-> s, item |-> i, generation |-> g].step = s
           /\ [step |-> s, item |-> i, generation |-> g].item = i
           /\ [step |-> s, item |-> i, generation |-> g].generation = g
  BY DEF Jobs

\* A task goes on to its next job, and the other stays where it is.
LEMMA JobChanges ==
    ASSUME task \in [Delivery!Tasks -> Jobs], NEW t \in Delivery!Tasks,
           NEW s \in {"idle", "check", "lock", "send"}, NEW i \in Delivery!Items, NEW g \in Nat,
           Delivery!Run(t, s, i, g)
    PROVE  /\ task' \in [Delivery!Tasks -> Jobs]
           /\ task'[t].step = s /\ task'[t].generation = g
           /\ \A u \in Delivery!Tasks \ {t} : task'[u] = task[u]
<1>1. task' = [task EXCEPT ![t] = [step |-> s, item |-> i, generation |-> g]]
  BY DEF Delivery!Run
<1> QED  BY <1>1, JobFacts

\* A task that is done is idle.
LEMMA JobDone ==
    ASSUME task \in [Delivery!Tasks -> Jobs], NEW t \in Delivery!Tasks, Delivery!Done(t)
    PROVE  /\ task' \in [Delivery!Tasks -> Jobs]
           /\ task'[t].step = "idle" /\ task'[t].generation = 0
           /\ \A u \in Delivery!Tasks \ {t} : task'[u] = task[u]
<1>1. Delivery!State(1) \in Delivery!Items
  BY ItemTypes
<1>2. Delivery!Idle = [step |-> "idle", item |-> Delivery!State(1), generation |-> 0]
  BY DEF Delivery!Idle
<1>3. Delivery!Run(t, "idle", Delivery!State(1), 0)
  BY <1>2 DEF Delivery!Done, Delivery!Run
<1> QED  BY <1>1, <1>3, JobChanges

CountedInv == DeliveryInv /\ DeliveryRest /\ DeliveriesAreCounted

\* What the tasks hold stays of a delivery that has been.
LEMMA JobsKept ==
    ASSUME DeliveryRest, NEW t \in Delivery!Tasks, task' \in [Delivery!Tasks -> Jobs],
           \A u \in Delivery!Tasks \ {t} : task'[u] = task[u],
           socket.generation \in Nat, socket'.generation \in Nat,
           socket.generation <= socket'.generation,
           task'[t].generation <= socket'.generation
    PROVE  \A u \in Delivery!Tasks : task'[u].generation <= socket'.generation
<1>1. ASSUME NEW u \in Delivery!Tasks PROVE task'[u].generation <= socket'.generation
  <2>1. task[u].generation \in Nat /\ task[u].generation <= socket.generation
    BY DEF DeliveryRest, Jobs
  <2>2. CASE u = t
    BY <2>2
  <2>3. CASE u # t
    BY <2>1, <2>3
  <2> QED  BY <2>2, <2>3
<1> QED  BY <1>1

\* A delivery that is put away: the next one is one further.
LEMMA ResetFacts ==
    ASSUME DeliveryInv, Delivery!Reset
    PROVE  /\ socket'.generation = socket.generation + 1 /\ socket'.used = FALSE
           /\ socket'.generation \in Nat
           /\ state' \subseteq Delivery!Topics /\ nextState' \in Delivery!Topics
           /\ accepted' <= MaxReplies
<1>1. /\ socket' = [used |-> FALSE, generation |-> socket.generation + 1,
                    sendPending |-> FALSE, retiring |-> FALSE]
      /\ state' = {} /\ nextState' = 1 /\ accepted' = 0
  BY DEF Delivery!Reset, Delivery!ClearQueue
<1> QED  BY <1>1, DeliveryFacts, DeliveryAssumption, ItemTypes

\* A new client brings the connection that its delivery is counted by.
LEMMA CountedConnect ==
    ASSUME CountedInv, Delivery!Connect PROVE (DeliveryRest /\ DeliveriesAreCounted)'
<1>1. DeliveryInv /\ DeliveryRest /\ DeliveriesAreCounted
  BY DEF CountedInv
<1>2. /\ task["http"].step = "idle" /\ connections < MaxConnections
      /\ connections' = connections + 1 /\ open' = TRUE /\ closing' = FALSE /\ work' = work
      /\ socket.used => Delivery!Reset
      /\ ~socket.used => UNCHANGED <<socket, replies, state, nextState, accepted, received>>
      /\ Delivery!Run("http", "check", Delivery!State(1), 0)
  BY DEF Delivery!Connect, Delivery!HttpIdle, Delivery!queueVars
<1>3. "http" \in Delivery!Tasks /\ Delivery!State(1) \in Delivery!Items
  BY ItemTypes DEF Delivery!Tasks
<1>4. /\ task' \in [Delivery!Tasks -> Jobs] /\ task'["http"].generation = 0
      /\ task'["http"].step = "check"
      /\ \A u \in Delivery!Tasks \ {"http"} : task'[u] = task[u]
  BY <1>1, <1>2, <1>3, JobChanges DEF DeliveryRest
<1>5. /\ state' \subseteq Delivery!Topics /\ nextState' \in Delivery!Topics
      /\ accepted' <= MaxReplies
      /\ socket.generation \in Nat /\ socket'.generation \in Nat
      /\ socket.used => socket'.generation = socket.generation + 1 /\ ~socket'.used
      /\ ~socket.used => socket' = socket
  BY <1>1, <1>2, ResetFacts, DeliveryFacts DEF DeliveryRest
<1>6. \A u \in Delivery!Tasks : task'[u].generation <= socket'.generation
  <2>1. /\ socket.generation <= socket'.generation
        /\ task'["http"].generation <= socket'.generation
    BY <1>4, <1>5
  <2> QED  BY <1>1, <1>3, <1>4, <1>5, <2>1, JobsKept
<1>7. connections \in 0 .. MaxConnections /\ work \in Seq(Sends)
  BY <1>1 DEF DeliveryRest
<1>8. DeliveryRest'
  <2>1. connections' \in 0 .. MaxConnections
    BY <1>2, <1>7, DeliveryAssumption
  <2>2. open' \in BOOLEAN /\ closing' \in BOOLEAN /\ work' \in Seq(Sends)
    BY <1>2, <1>7
  <2> QED  BY <1>4, <1>5, <1>6, <2>1, <2>2, Zenon DEF DeliveryRest
<1>9. /\ socket.generation <= 2 * connections
      /\ socket.used => socket.generation + 1 <= 2 * connections
  BY <1>1 DEF DeliveriesAreCounted
<1>10. /\ socket'.generation <= 2 * connections'
       /\ socket'.used => socket'.generation + 1 <= 2 * connections'
       /\ ~socket'.used => socket'.generation + 2 <= 2 * connections'
  BY <1>2, <1>5, <1>7, <1>9, DeliveryAssumption
<1> QED  BY <1>2, <1>4, <1>8, <1>10 DEF DeliveriesAreCounted

\* A delivery whose client is gone is put away when no task is about to look for it.
LEMMA CountedForget ==
    ASSUME CountedInv, Delivery!Forget PROVE (DeliveryRest /\ DeliveriesAreCounted)'
<1>1. DeliveryInv /\ DeliveryRest /\ DeliveriesAreCounted
  BY DEF CountedInv
<1>2. /\ task["main"].step = "idle" /\ socket.used /\ ~open /\ Delivery!Reset
      /\ UNCHANGED <<connections, open, closing, task, work>>
  BY DEF Delivery!Forget, Delivery!MainIdle
<1>3. /\ socket'.generation = socket.generation + 1 /\ socket'.used = FALSE
      /\ socket'.generation \in Nat /\ socket.generation \in Nat
      /\ state' \subseteq Delivery!Topics /\ nextState' \in Delivery!Topics
      /\ accepted' <= MaxReplies
  BY <1>1, <1>2, ResetFacts, DeliveryFacts
<1>4. \A u \in Delivery!Tasks : task'[u].generation <= socket'.generation
  BY <1>1, <1>2, <1>3, Z3 DEF DeliveryRest, Jobs
<1>5. DeliveryRest'
  BY <1>1, <1>2, <1>3, <1>4 DEF DeliveryRest
<1>6. \A u \in Delivery!Tasks : task[u].step # "lock"
  BY <1>1, <1>2 DEF DeliveriesAreCounted, Delivery!Tasks
<1>7. socket.generation + 1 <= 2 * connections
  BY <1>1, <1>2 DEF DeliveriesAreCounted
<1>8. \A u \in Delivery!Tasks : task'[u].step # "lock"
  BY <1>2, <1>6
<1>9. ~open' /\ task'["http"].step # "lock"
  BY <1>2, <1>8 DEF Delivery!Tasks
<1>10. socket'.generation <= 2 * connections' /\ ~socket'.used
  BY <1>2, <1>3, <1>7
<1> QED  BY <1>5, <1>8, <1>9, <1>10 DEF DeliveriesAreCounted

\* A task goes on to another job than taking the mutex, or takes it for an open session,
\* and the delivery stays the one it was.
LEMMA CountedMoves ==
    ASSUME CountedInv, NEW t \in Delivery!Tasks,
           UNCHANGED <<connections, open>>, closing' \in BOOLEAN,
           task' \in [Delivery!Tasks -> Jobs],
           \A u \in Delivery!Tasks \ {t} : task'[u] = task[u],
           task'[t].generation <= socket.generation,
           task'[t].step = "lock" => open,
           socket'.generation = socket.generation, socket'.used = socket.used,
           state' \subseteq Delivery!Topics, nextState' \in Delivery!Topics,
           work' \in Seq(Sends), accepted' <= MaxReplies
    PROVE  (DeliveryRest /\ DeliveriesAreCounted)'
<1>1. DeliveryInv /\ DeliveryRest /\ DeliveriesAreCounted
  BY DEF CountedInv
<1>2. socket.generation \in Nat
  BY <1>1, DeliveryFacts
<1>3. socket.generation <= socket'.generation /\ task'[t].generation <= socket'.generation
  BY <1>2
<1>4. \A u \in Delivery!Tasks : task'[u].generation <= socket'.generation
  BY <1>1, <1>2, <1>3, JobsKept
<1>5. DeliveryRest'
  BY <1>1, <1>4 DEF DeliveryRest
<1>6. \A u \in Delivery!Tasks : task'[u].step = "lock" => open \/ task[u].step = "lock"
  OBVIOUS
<1>7. "http" \in Delivery!Tasks
  BY DEF Delivery!Tasks
<1>8. task'["http"].step = "lock" => open'
  BY <1>1, <1>6, <1>7 DEF DeliveriesAreCounted
<1> QED  BY <1>1, <1>2, <1>5, <1>6, <1>8 DEF DeliveriesAreCounted

\* A set of numbers has a least one.
LEMMA Least ==
    ASSUME NEW T, T \subseteq Nat, T # {}
    PROVE  \E m \in T : \A n \in T : m <= n
<1> DEFINE R == OpToRel(<, Nat)
<1>1. IsWellFoundedOn(R, Nat)
  BY NatLessThanWellFounded
<1>2. \A x, y \in Nat : y < x => <<y, x>> \in R
  BY DEF OpToRel
<1> HIDE DEF R
<1>3. \E x \in T : \A y \in T : ~(<<y, x>> \in R)
  BY <1>1, WFMin
<1>4. PICK m \in T : \A y \in T : ~(<<y, m>> \in R)
  BY <1>3
<1>5. ASSUME NEW n \in T PROVE m <= n
  <2>1. m \in Nat /\ n \in Nat
    OBVIOUS
  <2>2. ~(n < m)
    BY <1>2, <1>4, <2>1, Zenon
  <2> QED  BY <2>1, <2>2
<1> QED  BY <1>5

\* The topic whose turn it is is one.
LEMMA TurnFacts ==
    ASSUME state \subseteq Delivery!Topics, state # {}, nextState \in Delivery!Topics
    PROVE  Delivery!NextTopic \in Delivery!Topics
             /\ Delivery!Turn(Delivery!NextTopic) \in Delivery!Topics
<1>1. state \subseteq Nat /\ nextState \in Nat
  BY DeliveryAssumption DEF Delivery!Topics
<1>2. ASSUME nextState \in state
      PROVE  Delivery!NextTopic \in Delivery!Topics
  <2>1. Delivery!NextTopic = nextState
    BY <1>2, Zenon DEF Delivery!NextTopic
  <2> QED  BY <1>2, <2>1
<1>3. ASSUME nextState \notin state /\ \A t \in state : t < nextState
      PROVE  Delivery!NextTopic \in Delivery!Topics
  <2>1. Delivery!NextTopic = CHOOSE t \in state : \A u \in state : t <= u
    BY <1>3, Zenon DEF Delivery!NextTopic
  <2>2. \E t \in state : \A u \in state : t <= u
    BY <1>1, Least
  <2>3. Delivery!NextTopic \in state
    BY <2>1, <2>2, Zenon
  <2> QED  BY <2>3
<1>4. ASSUME nextState \notin state /\ ~\A t \in state : t < nextState
      PROVE  Delivery!NextTopic \in Delivery!Topics
  <2> DEFINE T == {t \in state : t > nextState}
  <2>1. T \subseteq Nat
    BY <1>1
  <2>5. T # {}
    <3>1. PICK t \in state : ~(t < nextState)
      BY <1>4
    <3>2. t \in Nat /\ nextState \in Nat /\ t # nextState
      BY <1>1, <1>4
    <3>3. t > nextState
      BY <3>1, <3>2
    <3> QED  BY <3>3
  <2>2. PICK m \in T : \A n \in T : m <= n
    BY <2>1, <2>5, Least
  <2>3. m \in state /\ m > nextState /\ \A u \in state : u > nextState => m <= u
    BY <2>2
  <2>4. Delivery!NextTopic =
          CHOOSE t \in state : t > nextState /\ \A u \in state : u > nextState => t <= u
    BY <1>4, Zenon DEF Delivery!NextTopic
  <2>6. Delivery!NextTopic \in state
    <3> DEFINE P(t) == t > nextState /\ \A u \in state : u > nextState => t <= u
    <3>1. \E t \in state : P(t)
      BY <2>3
    <3>2. Delivery!NextTopic = CHOOSE t \in state : P(t)
      BY <2>4
    <3> HIDE DEF P
    <3> QED  BY <3>1, <3>2
  <2> QED  BY <2>6
<1>5. Delivery!NextTopic \in Delivery!Topics
  BY <1>2, <1>3, <1>4
<1> QED  BY <1>5, ItemTypes DEF Delivery!Turn

\* What a flush takes from the queue is a message.
LEMMA PopFacts ==
    ASSUME DeliveryInv, DeliveryRest, ~Delivery!Empty, Delivery!Pop
    PROVE  /\ Delivery!Popped \in Delivery!Items
           /\ state' \subseteq Delivery!Topics /\ nextState' \in Delivery!Topics
<1>1. state \subseteq Delivery!Topics /\ nextState \in Delivery!Topics
  BY DEF DeliveryRest
<1>2. CASE replies # <<>>
  <2>1. replies \in Seq(1 .. MaxReplies)
    BY DEF DeliveryInv, DeliveryTypes
  <2>2. Head(replies) \in 0 .. MaxReplies
    <3>1. Head(replies) \in 1 .. MaxReplies
      BY <1>2, <2>1, HeadTailProperties
    <3> QED  BY <3>1, DeliveryAssumption
  <2>3. Delivery!Popped = Delivery!Reply(Head(replies))
    BY <1>2 DEF Delivery!Popped
  <2> QED  BY <1>1, <1>2, <2>2, <2>3, ItemTypes DEF Delivery!Pop
<1>3. CASE replies = <<>>
  <2>1. state # {}
    BY <1>3 DEF Delivery!Empty
  <2>2. Delivery!NextTopic \in Delivery!Topics
          /\ Delivery!Turn(Delivery!NextTopic) \in Delivery!Topics
    BY <1>1, <2>1, TurnFacts
  <2>3. /\ Delivery!Popped = Delivery!State(Delivery!NextTopic)
        /\ state' = state \ {Delivery!NextTopic}
        /\ nextState' = Delivery!Turn(Delivery!NextTopic)
    BY <1>3 DEF Delivery!Popped, Delivery!Pop
  <2> QED  BY <1>1, <2>2, <2>3, ItemTypes
<1> QED  BY <1>2, <1>3

\* The message that is queued, its number given to it.
LEMMA NumberedFacts ==
    ASSUME DeliveryInv, DeliveryRest, NEW t \in Delivery!Tasks,
           Delivery!Numbered(task[t].item).number <= MaxReplies
    PROVE  /\ Delivery!Numbered(task[t].item) \in Delivery!Items
           /\ Delivery!Accept(Delivery!Numbered(task[t].item)) => accepted' <= MaxReplies
<1>1. task[t].item \in Delivery!Items
  BY DEF DeliveryRest, Jobs
<1>2. accepted \in Nat /\ accepted <= MaxReplies
  BY DEF DeliveryInv, DeliveryTypes, DeliveryRest
<1>3. CASE task[t].item.reply
  <2>1. Delivery!Numbered(task[t].item) = Delivery!Reply(accepted + 1)
    BY <1>3 DEF Delivery!Numbered
  <2>2. accepted + 1 <= MaxReplies /\ accepted + 1 \in 0 .. MaxReplies
    <3>1. accepted + 1 <= MaxReplies
      BY <2>1, ItemFacts
    <3> QED  BY <1>2, <3>1, DeliveryAssumption
  <2> QED  BY <2>1, <2>2, ItemTypes, ItemFacts DEF Delivery!Accept
<1>4. CASE ~task[t].item.reply
  <2>1. Delivery!Numbered(task[t].item) = task[t].item
    BY <1>4 DEF Delivery!Numbered
  <2> QED  BY <1>1, <1>2, <1>4, <2>1 DEF Delivery!Accept
<1> QED  BY <1>3, <1>4

\* What is pushed leaves topics in the queue.
LEMMA PushFacts ==
    ASSUME NEW i \in Delivery!Items, Delivery!Push(i), state \subseteq Delivery!Topics,
           nextState \in Delivery!Topics
    PROVE  state' \subseteq Delivery!Topics /\ nextState' \in Delivery!Topics
  BY DEF Delivery!Push, Delivery!Items

\* A message that a new delivery is found for was counted when its task came to the mutex.
LEMMA CountedQueue ==
    ASSUME CountedInv, NEW t \in Delivery!Tasks, Delivery!Queue(t)
    PROVE  (DeliveryRest /\ DeliveriesAreCounted)'
<1> DEFINE item == Delivery!Numbered(task[t].item)
<1>1. DeliveryInv /\ DeliveryRest /\ DeliveriesAreCounted
  BY DEF CountedInv
<1>2. /\ task[t].step = "lock" /\ item.number <= MaxReplies
      /\ UNCHANGED <<connections, open, closing, work, received>>
  BY DEF Delivery!Queue
<1>3. item \in Delivery!Items /\ (Delivery!Accept(item) => accepted' <= MaxReplies)
  BY <1>1, <1>2, NumberedFacts
<1>4. /\ state \subseteq Delivery!Topics /\ nextState \in Delivery!Topics
      /\ accepted <= MaxReplies /\ task \in [Delivery!Tasks -> Jobs]
      /\ closing' \in BOOLEAN /\ work' \in Seq(Sends)
  BY <1>1, <1>2 DEF DeliveryRest
<1>5. /\ Delivery!Found.generation \in Nat /\ Delivery!Found.used = TRUE
      /\ socket.generation \in Nat
      /\ socket.used => Delivery!Found = socket
      /\ ~socket.used => Delivery!Found.generation = socket.generation + 1
      /\ Delivery!Found = [used |-> TRUE, generation |-> Delivery!Found.generation,
                           sendPending |-> socket.sendPending, retiring |-> socket.retiring]
  BY <1>1, FoundFacts, DeliveryFacts
<1>6. ASSUME Delivery!Found.retiring, Delivery!Done(t),
             UNCHANGED <<socket, Delivery!queueVars, accepted>>
      PROVE  (DeliveryRest /\ DeliveriesAreCounted)'
  <2>1. /\ task' \in [Delivery!Tasks -> Jobs] /\ task'[t].step = "idle"
        /\ task'[t].generation = 0 /\ \A u \in Delivery!Tasks \ {t} : task'[u] = task[u]
    BY <1>4, <1>6, JobDone
  <2>2. /\ state' \subseteq Delivery!Topics /\ nextState' \in Delivery!Topics
        /\ accepted' <= MaxReplies /\ socket' = socket
    BY <1>4, <1>6 DEF Delivery!queueVars
  <2>3. task'[t].generation <= socket.generation /\ task'[t].step # "lock"
    BY <1>5, <2>1
  <2> QED  BY <1>2, <1>4, <2>1, <2>2, <2>3, CountedMoves
<1>7. ASSUME ~Delivery!Found.retiring, socket'.used = TRUE,
             socket'.generation = Delivery!Found.generation,
             task' \in [Delivery!Tasks -> Jobs], task'[t].step # "lock",
             task'[t].generation <= Delivery!Found.generation,
             \A u \in Delivery!Tasks \ {t} : task'[u] = task[u],
             state' \subseteq Delivery!Topics, nextState' \in Delivery!Topics,
             accepted' <= MaxReplies
      PROVE  (DeliveryRest /\ DeliveriesAreCounted)'
  <2>1. /\ socket'.generation \in Nat /\ socket.generation <= socket'.generation
        /\ task'[t].generation <= socket'.generation
    BY <1>5, <1>7
  <2>2. \A u \in Delivery!Tasks : task'[u].generation <= socket'.generation
    BY <1>1, <1>5, <1>7, <2>1, JobsKept
  <2>3. DeliveryRest'
    BY <1>1, <1>2, <1>4, <1>7, <2>2 DEF DeliveryRest
  <2>4. socket'.generation + 1 <= 2 * connections'
    <3>1. CASE socket.used
      BY <1>1, <1>2, <1>5, <1>7, <3>1 DEF DeliveriesAreCounted
    <3>2. CASE ~socket.used
      <4>1. socket.generation + 2 <= 2 * connections
        BY <1>1, <1>2, <3>2 DEF DeliveriesAreCounted
      <4> QED  BY <1>2, <1>5, <1>7, <3>2, <4>1
    <3> QED  BY <3>1, <3>2
  <2>5. connections' \in Nat
    BY <1>1, <1>2, DeliveryAssumption DEF DeliveryRest
  <2>6. task'["http"].step = "lock" => open'
    BY <1>1, <1>2, <1>7 DEF DeliveriesAreCounted, Delivery!Tasks
  <2>7. socket'.generation <= 2 * connections'
    BY <2>1, <2>4, <2>5
  <2> QED  BY <1>7, <2>3, <2>4, <2>6, <2>7 DEF DeliveriesAreCounted
<1>8. ASSUME ~Delivery!Found.retiring, Delivery!Done(t), Delivery!Retire(Delivery!Found),
             UNCHANGED accepted
      PROVE  (DeliveryRest /\ DeliveriesAreCounted)'
  <2>1. /\ task' \in [Delivery!Tasks -> Jobs] /\ task'[t].step = "idle"
        /\ task'[t].generation = 0 /\ \A u \in Delivery!Tasks \ {t} : task'[u] = task[u]
    BY <1>4, <1>8, JobDone
  <2>2. socket' = [Delivery!Found EXCEPT !.retiring = TRUE] /\ state' = {} /\ nextState' = 1
    BY <1>8 DEF Delivery!Retire, Delivery!ClearQueue
  <2>3. socket'.used = TRUE /\ socket'.generation = Delivery!Found.generation
    BY <1>5, <2>2
  <2>4. /\ state' \subseteq Delivery!Topics /\ nextState' \in Delivery!Topics
        /\ accepted' <= MaxReplies
    BY <1>4, <1>8, <2>2, ItemTypes
  <2>5. task'[t].step # "lock" /\ task'[t].generation <= Delivery!Found.generation
    BY <1>5, <2>1
  <2> QED  BY <1>7, <1>8, <2>1, <2>3, <2>4, <2>5
<1>9. ASSUME ~Delivery!Found.retiring, Delivery!Done(t), Delivery!Push(item),
             Delivery!Accept(item), socket' = Delivery!Found
      PROVE  (DeliveryRest /\ DeliveriesAreCounted)'
  <2>1. /\ task' \in [Delivery!Tasks -> Jobs] /\ task'[t].step = "idle"
        /\ task'[t].generation = 0 /\ \A u \in Delivery!Tasks \ {t} : task'[u] = task[u]
    BY <1>4, <1>9, JobDone
  <2>2. state' \subseteq Delivery!Topics /\ nextState' \in Delivery!Topics
    BY <1>3, <1>4, <1>9, PushFacts
  <2>3. task'[t].step # "lock" /\ task'[t].generation <= Delivery!Found.generation
    BY <1>5, <2>1
  <2>4. socket'.used = TRUE /\ socket'.generation = Delivery!Found.generation
    BY <1>5, <1>9
  <2> QED  BY <1>3, <1>7, <1>9, <2>1, <2>2, <2>3, <2>4
<1>10. ASSUME ~Delivery!Found.retiring,
              Delivery!Run(t, "send", item, Delivery!Found.generation),
              socket' = [Delivery!Found EXCEPT !.sendPending = TRUE], Delivery!Accept(item),
              UNCHANGED Delivery!queueVars
       PROVE  (DeliveryRest /\ DeliveriesAreCounted)'
  <2>1. /\ task' \in [Delivery!Tasks -> Jobs] /\ task'[t].step = "send"
        /\ task'[t].generation = Delivery!Found.generation
        /\ \A u \in Delivery!Tasks \ {t} : task'[u] = task[u]
    BY <1>3, <1>4, <1>5, <1>10, JobChanges
  <2>2. state' \subseteq Delivery!Topics /\ nextState' \in Delivery!Topics
    BY <1>4, <1>10 DEF Delivery!queueVars
  <2>3. socket'.used = TRUE /\ socket'.generation = Delivery!Found.generation
    BY <1>5, <1>10
  <2>4. task'[t].step # "lock" /\ task'[t].generation <= Delivery!Found.generation
    BY <1>5, <2>1
  <2> QED  BY <1>3, <1>7, <1>10, <2>1, <2>2, <2>3, <2>4
<1> QED
  BY <1>6, <1>8, <1>9, <1>10 DEF Delivery!Queue

\* What is queued or sent of a delivery is a message of it.
LEMMA CountedFlush ==
    ASSUME CountedInv, Delivery!Flush
    PROVE  (DeliveryRest /\ DeliveriesAreCounted)'
<1>1. DeliveryInv /\ DeliveryRest /\ DeliveriesAreCounted
  BY DEF CountedInv
<1>2. /\ ~Delivery!Empty /\ Delivery!Run("main", "send", Delivery!Popped, socket.generation)
      /\ Delivery!Pop /\ socket' = [socket EXCEPT !.sendPending = TRUE]
      /\ UNCHANGED <<connections, open, closing, work, accepted, received>>
  BY DEF Delivery!Flush
<1>3. "main" \in Delivery!Tasks /\ socket.generation \in Nat
  BY <1>1, DeliveryFacts DEF Delivery!Tasks
<1>4. /\ Delivery!Popped \in Delivery!Items
      /\ state' \subseteq Delivery!Topics /\ nextState' \in Delivery!Topics
  BY <1>1, <1>2, PopFacts
<1>5. /\ task' \in [Delivery!Tasks -> Jobs] /\ task'["main"].step = "send"
      /\ task'["main"].generation = socket.generation
      /\ \A u \in Delivery!Tasks \ {"main"} : task'[u] = task[u]
  BY <1>1, <1>2, <1>3, <1>4, JobChanges DEF DeliveryRest
<1>6. socket'.used = socket.used /\ socket'.generation = socket.generation
  BY <1>1, <1>2, DeliveryFacts
<1>7. closing' \in BOOLEAN /\ work' \in Seq(Sends) /\ accepted' <= MaxReplies
  BY <1>1, <1>2 DEF DeliveryRest
<1>8. task'["main"].step # "lock" /\ task'["main"].generation <= socket.generation
  BY <1>3, <1>5
<1> QED  BY <1>2, <1>3, <1>4, <1>5, <1>6, <1>7, <1>8, CountedMoves

\* A send that the server runs leaves its list, and the delivery stays the one it was.
LEMMA CountedWork ==
    ASSUME CountedInv, NEW ok \in BOOLEAN, Delivery!RunWork(ok)
    PROVE  (DeliveryRest /\ DeliveriesAreCounted)'
<1>1. DeliveryInv /\ DeliveryRest /\ DeliveriesAreCounted
  BY DEF CountedInv
<1>2. /\ work # <<>> /\ work' = Tail(work)
      /\ UNCHANGED <<connections, open, closing, task, accepted>>
      /\ \/ UNCHANGED <<socket, Delivery!queueVars>>
         \/ socket' = [socket EXCEPT !.sendPending = FALSE] /\ UNCHANGED Delivery!queueVars
         \/ Delivery!Retire([socket EXCEPT !.sendPending = FALSE])
  BY DEF Delivery!RunWork
<1>3. /\ state \subseteq Delivery!Topics /\ nextState \in Delivery!Topics
      /\ accepted <= MaxReplies /\ task \in [Delivery!Tasks -> Jobs] /\ work \in Seq(Sends)
      /\ closing \in BOOLEAN
  BY <1>1 DEF DeliveryRest
<1>4. work' \in Seq(Sends)
  BY <1>2, <1>3
<1>5. state' \subseteq Delivery!Topics /\ nextState' \in Delivery!Topics
  BY <1>2, <1>3, ItemTypes DEF Delivery!queueVars, Delivery!Retire, Delivery!ClearQueue
<1>6. socket'.used = socket.used /\ socket'.generation = socket.generation
  BY <1>1, <1>2, DeliveryFacts DEF Delivery!Retire
<1>7. DeliveryRest'
  <2>1. \A u \in Delivery!Tasks : task'[u].generation <= socket'.generation
    BY <1>1, <1>2, <1>6 DEF DeliveryRest
  <2> QED  BY <1>1, <1>2, <1>3, <1>4, <1>5, <2>1 DEF DeliveryRest
<1> QED  BY <1>1, <1>2, <1>6, <1>7 DEF DeliveriesAreCounted

\* A task goes on with its message: it comes to the mutex for an open session only.
LEMMA CountedTask ==
    ASSUME CountedInv, NEW t \in Delivery!Tasks,
           \/ Delivery!Check(t) \/ Delivery!NoMemory(t)
           \/ Delivery!Send(t) \/ Delivery!SendRefused(t)
    PROVE  (DeliveryRest /\ DeliveriesAreCounted)'
<1>1. DeliveryInv /\ DeliveryRest /\ DeliveriesAreCounted
  BY DEF CountedInv
<1>2. /\ state \subseteq Delivery!Topics /\ nextState \in Delivery!Topics
      /\ accepted <= MaxReplies /\ task \in [Delivery!Tasks -> Jobs] /\ work \in Seq(Sends)
      /\ closing \in BOOLEAN /\ socket.generation \in Nat
      /\ task[t].item \in Delivery!Items /\ task[t].generation \in Nat
      /\ task[t].generation <= socket.generation
  BY <1>1, DeliveryFacts DEF DeliveryRest, Jobs
<1>3. ASSUME UNCHANGED <<connections, open, closing, accepted>>,
             task' \in [Delivery!Tasks -> Jobs], task'[t].generation = 0,
             task'[t].step = "lock" => open,
             \A u \in Delivery!Tasks \ {t} : task'[u] = task[u],
             socket'.generation = socket.generation, socket'.used = socket.used,
             state' \subseteq Delivery!Topics, nextState' \in Delivery!Topics,
             work' \in Seq(Sends)
      PROVE  (DeliveryRest /\ DeliveriesAreCounted)'
  <2>1. task'[t].generation <= socket.generation /\ closing' \in BOOLEAN
        /\ accepted' <= MaxReplies
    BY <1>2, <1>3
  <2> QED  BY <1>3, <2>1, CountedMoves
<1>4. ASSUME Delivery!Done(t) PROVE /\ task' \in [Delivery!Tasks -> Jobs]
                                    /\ task'[t].generation = 0 /\ task'[t].step # "lock"
                                    /\ \A u \in Delivery!Tasks \ {t} : task'[u] = task[u]
  BY <1>2, <1>4, JobDone
<1>5. CASE Delivery!Check(t)
  <2>1. /\ UNCHANGED <<connections, open, closing, accepted, socket, state, nextState, work>>
        /\ IF open THEN Delivery!Run(t, "lock", task[t].item, 0) ELSE Delivery!Done(t)
    BY <1>5 DEF Delivery!Check, Delivery!queueVars
  <2>2. CASE open
    <3>1. Delivery!Run(t, "lock", task[t].item, 0)
      BY <2>1, <2>2
    <3>2. /\ task' \in [Delivery!Tasks -> Jobs] /\ task'[t].generation = 0
          /\ \A u \in Delivery!Tasks \ {t} : task'[u] = task[u]
      BY <1>2, <3>1, JobChanges
    <3> QED  BY <1>2, <1>3, <2>1, <2>2, <3>2
  <2>3. CASE ~open
    BY <1>2, <1>3, <1>4, <2>1, <2>3
  <2> QED  BY <2>2, <2>3
<1>6. CASE Delivery!NoMemory(t)
  <2>1. /\ UNCHANGED <<connections, open, closing, accepted, socket, state, nextState, work>>
        /\ Delivery!Done(t)
    BY <1>6 DEF Delivery!NoMemory, Delivery!queueVars
  <2> QED  BY <1>2, <1>3, <1>4, <2>1
<1>7. CASE Delivery!Send(t)
  <2> DEFINE send == [item |-> task[t].item, generation |-> task[t].generation]
  <2>1. /\ UNCHANGED <<connections, open, closing, accepted, socket, state, nextState>>
        /\ Delivery!Done(t) /\ work' = Append(work, send)
    BY <1>7 DEF Delivery!Send, Delivery!queueVars
  <2>2. send \in Sends
    BY <1>2 DEF Sends
  <2>3. work' \in Seq(Sends)
    BY <1>2, <2>1, <2>2
  <2> QED  BY <1>2, <1>3, <1>4, <2>1, <2>3
<1>8. CASE Delivery!SendRefused(t)
  <2>1. /\ UNCHANGED <<connections, open, closing, accepted, work>> /\ Delivery!Done(t)
        /\ \/ Delivery!Retire([socket EXCEPT !.sendPending = FALSE])
           \/ UNCHANGED <<socket, Delivery!queueVars>>
    BY <1>8 DEF Delivery!SendRefused
  <2>2. state' \subseteq Delivery!Topics /\ nextState' \in Delivery!Topics
    BY <1>2, <2>1, ItemTypes DEF Delivery!queueVars, Delivery!Retire, Delivery!ClearQueue
  <2>3. socket'.used = socket.used /\ socket'.generation = socket.generation
    BY <1>1, <2>1, DeliveryFacts DEF Delivery!Retire
  <2> QED  BY <1>2, <1>3, <1>4, <2>1, <2>2, <2>3
<1> QED  BY <1>5, <1>6, <1>7, <1>8

\* What no delivery and no message is changed by leaves their number as it is.
LEMMA CountedRest ==
    ASSUME CountedInv,
           UNCHANGED <<connections, task, accepted, socket, state, nextState, work>>,
           open' \in BOOLEAN, closing' \in BOOLEAN, open' => open,
           ~open' => ~open \/ Delivery!HttpIdle
    PROVE  (DeliveryRest /\ DeliveriesAreCounted)'
<1>1. DeliveryInv /\ DeliveryRest /\ DeliveriesAreCounted
  BY DEF CountedInv
<1>2. DeliveryRest'
  BY <1>1 DEF DeliveryRest
<1>3. task'["http"].step = "lock" => open'
  BY <1>1 DEF DeliveriesAreCounted, Delivery!HttpIdle
<1> QED  BY <1>1, <1>2, <1>3 DEF DeliveriesAreCounted

\* Every step of the deliveries keeps their count and their types.
LEMMA CountedStep == CountedInv /\ [Delivery!Next]_deliveryVars => CountedInv'
<1> SUFFICES ASSUME CountedInv, [Delivery!Next]_deliveryVars
             PROVE  (DeliveryRest /\ DeliveriesAreCounted)'
  BY DeliveryStep DEF CountedInv
<1>1. DeliveryInv /\ DeliveryRest /\ DeliveriesAreCounted
  BY DEF CountedInv
<1>2. open \in BOOLEAN /\ closing \in BOOLEAN
  BY <1>1 DEF DeliveryRest
<1>3. CASE Delivery!Close \/ Delivery!AskToClose \/ UNCHANGED deliveryVars
  <2>1. UNCHANGED <<connections, task, accepted, socket, state, nextState, work>>
    BY <1>3 DEF Delivery!Close, Delivery!AskToClose, deliveryVars, Delivery!queueVars
  <2>2. CASE Delivery!Close
    <3>1. open' = FALSE /\ closing' = FALSE /\ Delivery!HttpIdle
      BY <2>2 DEF Delivery!Close
    <3>2. open' \in BOOLEAN /\ closing' \in BOOLEAN
      BY <3>1
    <3>3. ~open'
      BY <3>1
    <3> QED  BY <2>1, <3>1, <3>2, <3>3, CountedRest
  <2>3. CASE Delivery!AskToClose \/ UNCHANGED deliveryVars
    <3>1. open' = open /\ (closing' = TRUE \/ closing' = closing)
      BY <2>3 DEF Delivery!AskToClose, deliveryVars
    <3>2. open' \in BOOLEAN /\ closing' \in BOOLEAN
      BY <1>2, <3>1
    <3>3. (open' => open) /\ (~open' => ~open)
      BY <3>1
    <3> QED  BY <2>1, <3>2, <3>3, CountedRest
  <2> QED  BY <1>3, <2>2, <2>3
<1>4. ASSUME NEW t \in Delivery!Tasks,
             NEW item \in {Delivery!Reply(0)} \cup {Delivery!State(u) : u \in Delivery!Topics},
             Delivery!Produce(t, item)
      PROVE  (DeliveryRest /\ DeliveriesAreCounted)'
  <2>1. item \in Delivery!Items
    BY ItemTypes
  <2>2. /\ Delivery!Run(t, "check", item, 0)
        /\ UNCHANGED <<connections, open, closing, accepted, socket, state, nextState, work>>
    BY <1>4 DEF Delivery!Produce, Delivery!queueVars
  <2>3. /\ task' \in [Delivery!Tasks -> Jobs] /\ task'[t].generation = 0
        /\ task'[t].step = "check" /\ \A u \in Delivery!Tasks \ {t} : task'[u] = task[u]
    BY <1>1, <2>1, <2>2, JobChanges DEF DeliveryRest
  <2>4. task'[t].generation <= socket.generation /\ (task'[t].step = "lock" => open)
    BY <1>1, <2>3, DeliveryFacts
  <2>5. /\ state' \subseteq Delivery!Topics /\ nextState' \in Delivery!Topics
        /\ work' \in Seq(Sends) /\ accepted' <= MaxReplies /\ closing' \in BOOLEAN
    BY <1>1, <2>2 DEF DeliveryRest
  <2> QED  BY <2>2, <2>3, <2>4, <2>5, CountedMoves
<1>5. ASSUME NEW t \in Delivery!Tasks, Delivery!TaskStep(t)
      PROVE  (DeliveryRest /\ DeliveriesAreCounted)'
  BY <1>5, CountedTask, CountedQueue DEF Delivery!TaskStep
<1> QED
  BY <1>3, <1>4, <1>5, CountedConnect, CountedForget, CountedFlush, CountedWork
     DEF Delivery!Next

\* The socket's first client finds none.
LEMMA CountedInit == Delivery!Init => CountedInv
<1> SUFFICES ASSUME Delivery!Init PROVE DeliveryRest /\ DeliveriesAreCounted
  BY DeliveryInit DEF CountedInv
<1>1. /\ connections = 0 /\ open = FALSE /\ closing = FALSE
      /\ socket.generation = 0 /\ socket.used = FALSE
      /\ state = {} /\ nextState = 1 /\ work = <<>> /\ accepted = 0
      /\ task = [t \in Delivery!Tasks |-> Delivery!Idle]
  BY DEF Delivery!Init
<1>2. Delivery!Idle \in Jobs /\ Delivery!Idle.step = "idle" /\ Delivery!Idle.generation = 0
  <2>1. Delivery!State(1) \in Delivery!Items
    BY ItemTypes
  <2> QED  BY <2>1, JobFacts DEF Delivery!Idle
<1>3. /\ task \in [Delivery!Tasks -> Jobs]
      /\ \A t \in Delivery!Tasks : task[t].generation = 0 /\ task[t].step = "idle"
  BY <1>1, <1>2
<1>4. "http" \in Delivery!Tasks
  BY DEF Delivery!Tasks
<1>5. DeliveryRest
  <2>1. /\ connections \in 0 .. MaxConnections /\ state \subseteq Delivery!Topics
        /\ nextState \in Delivery!Topics /\ accepted <= MaxReplies
    BY <1>1, ItemTypes, DeliveryAssumption
  <2>2. \A t \in Delivery!Tasks : task[t].generation <= socket.generation
    BY <1>1, <1>3
  <2>3. work \in Seq(Sends)
    BY <1>1
  <2>4. open \in BOOLEAN /\ closing \in BOOLEAN
    BY <1>1, Zenon
  <2> QED  BY <1>3, <2>1, <2>2, <2>3, <2>4 DEF DeliveryRest
<1>6. ~open /\ ~socket.used /\ ~(\E t \in Delivery!Tasks : task[t].step = "lock")
  BY <1>1, <1>3
<1> QED  BY <1>1, <1>3, <1>4, <1>5, <1>6 DEF DeliveriesAreCounted

\* The generations of a socket are bounded by its clients.
LEMMA DeliveryTyped == CountedInv => Delivery!TypeOK
<1> SUFFICES ASSUME CountedInv PROVE Delivery!TypeOK
  OBVIOUS
<1>1. DeliveryInv /\ DeliveryRest /\ DeliveriesAreCounted
  BY DEF CountedInv
<1>2. DeliveryTypes /\ connections \in 0 .. MaxConnections
  BY <1>1 DEF DeliveryInv, DeliveryRest
<1>3. \A g \in Nat : g <= socket.generation => g \in Delivery!Generations
  <2>1. socket.generation \in Nat /\ socket.generation <= 2 * MaxConnections
    <3>1. socket.generation <= 2 * connections /\ socket.generation \in Nat
      BY <1>1, DeliveryFacts DEF DeliveriesAreCounted
    <3> QED  BY <1>2, <3>1, DeliveryAssumption
  <2> QED  BY <2>1, DeliveryAssumption DEF Delivery!Generations
<1>4. socket \in [used : BOOLEAN, generation : Delivery!Generations,
                  sendPending : BOOLEAN, retiring : BOOLEAN]
  <2>1. socket.generation \in Delivery!Generations
    BY <1>1, <1>3, DeliveryFacts
  <2>2. \A u, p, r \in BOOLEAN, g \in Delivery!Generations :
          [used |-> u, generation |-> g, sendPending |-> p, retiring |-> r]
            \in [used : BOOLEAN, generation : Delivery!Generations,
                 sendPending : BOOLEAN, retiring : BOOLEAN]
    OBVIOUS
  <2> QED  BY <1>1, <2>1, <2>2, DeliveryFacts
<1>5. task \in [Delivery!Tasks -> [step : {"idle", "check", "lock", "send"},
                                   item : Delivery!Items, generation : Delivery!Generations]]
  <2> DEFINE Bounded == [step : {"idle", "check", "lock", "send"}, item : Delivery!Items,
                         generation : Delivery!Generations]
  <2>1. ASSUME NEW t \in Delivery!Tasks PROVE task[t] \in Bounded
    <3>1. task[t] \in Jobs /\ task[t].generation <= socket.generation
      BY <1>1 DEF DeliveryRest
    <3>2. task[t].generation \in Delivery!Generations
      BY <1>3, <3>1 DEF Jobs
    <3> QED  BY <3>1, <3>2 DEF Jobs
  <2> HIDE DEF Bounded
  <2>2. task \in [Delivery!Tasks -> Bounded]
    BY <1>1, <2>1 DEF DeliveryRest
  <2> QED  BY <2>2 DEF Bounded
<1>6. work \in Seq([item : Delivery!Items, generation : Delivery!Generations])
  <2> DEFINE Bounded == [item : Delivery!Items, generation : Delivery!Generations]
  <2>1. work \in Seq(Sends)
    BY <1>1 DEF DeliveryRest
  <2>2. ASSUME NEW i \in 1 .. Len(work) PROVE work[i] \in Bounded
    <3>1. work[i] \in Sends /\ work[i].generation \in 0 .. socket.generation
      BY <1>1, <2>1, DeliveryFacts
    <3>2. work[i].generation \in Delivery!Generations
      BY <1>1, <1>3, <3>1, DeliveryFacts
    <3> QED  BY <3>1, <3>2 DEF Sends
  <2> HIDE DEF Bounded
  <2>3. work \in Seq(Bounded)
    BY <2>1, <2>2, SeqDef
  <2> QED  BY <2>3 DEF Bounded
<1>7. accepted \in 0 .. MaxReplies
  BY <1>1, <1>2, DeliveryAssumption DEF DeliveryTypes, DeliveryRest
<1>8. /\ open \in BOOLEAN /\ closing \in BOOLEAN
      /\ state \subseteq Delivery!Topics /\ nextState \in Delivery!Topics
      /\ replies \in Seq(1 .. MaxReplies) /\ Len(replies) <= Capacity
      /\ received \in Seq(1 .. MaxReplies)
  BY <1>1, <1>2 DEF DeliveryTypes, DeliveryRest
<1> QED  BY <1>2, <1>4, <1>5, <1>6, <1>7, <1>8 DEF Delivery!TypeOK

-----------------------------------------------------------------------------
(* The MQTT client *)

\* Only a client that runs has a session, and the main task runs none before it is
\* registered, nor after it has stopped it.
SessionNeedsClient ==
    /\ session => mqttClient = "running"
    /\ mqttPlace \in {"register", "launch"} => mqttClient \in {"created", "none"}
    /\ mqttPlace = "stopped" => mqttClient \in {"destroyed", "none"}

\* What was sent does not wait to be sent.
SentIsDone == \A t \in Broker!Topics : publication[t].sent => ~publication[t].pending

\* What is being put together is due, and nothing was late when it was chosen.
ChosenIsDue ==
    mqttPlace = "send" =>
        /\ Broker!Due(publication[mqttTopic])
        /\ mqttTopic = "pack" => publication["status"].fresh /\ measured
        /\ \A t \in Broker!Topics : ~publication[t].late

BrokerInv ==
    Broker!TypeOK /\ SessionNeedsClient /\ SentIsDone /\ Broker!StateIsReal
        /\ Broker!NothingOldIsDue /\ Broker!LateAtMostOnce /\ ChosenIsDue

\* What an acquisition may become: nothing, a new one, or the same marked as old, no longer
\* fresh, or sent.
LEMMA SampleFacts ==
    /\ Broker!NoSample \in Broker!Acquisitions /\ Broker!NewSample \in Broker!Acquisitions
    /\ Broker!NoSample.sent = FALSE /\ Broker!NoSample.pending = FALSE
    /\ Broker!NewSample.sent = FALSE /\ Broker!NewSample.old = FALSE
    /\ Broker!NoSample.late = FALSE /\ Broker!NewSample.late = FALSE
    /\ \A a \in Broker!Acquisitions :
         /\ a.fresh \in BOOLEAN /\ a.pending \in BOOLEAN /\ a.old \in BOOLEAN
         /\ a.sent \in BOOLEAN /\ a.late \in BOOLEAN
         /\ [a EXCEPT !.old = TRUE] \in Broker!Acquisitions
         /\ [a EXCEPT !.old = TRUE].sent = a.sent
         /\ [a EXCEPT !.old = TRUE].pending = a.pending
         /\ [a EXCEPT !.old = TRUE].fresh = a.fresh
         /\ [a EXCEPT !.old = TRUE].late = a.late
         /\ [a EXCEPT !.fresh = FALSE] \in Broker!Acquisitions
         /\ [a EXCEPT !.fresh = FALSE].sent = a.sent
         /\ [a EXCEPT !.fresh = FALSE].pending = a.pending
         /\ [a EXCEPT !.fresh = FALSE].fresh = FALSE
         /\ [a EXCEPT !.fresh = FALSE].late = a.late
         /\ Broker!Published(a) \in Broker!Acquisitions
         /\ Broker!Published(a).pending = FALSE
         /\ Broker!Published(a).late = a.old
  BY DEF Broker!Acquisitions, Broker!NoSample, Broker!NewSample, Broker!Published

\* The samples' part of the invariant.
SamplesHold ==
    /\ publication \in [Broker!Topics -> Broker!Acquisitions]
    /\ resetRequested \in BOOLEAN /\ mqttTopic \in Broker!Topics
    /\ SentIsDone /\ Broker!NothingOldIsDue /\ Broker!LateAtMostOnce

\* What a step does to the samples keeps them in order.
LEMMA SamplesStep ==
    ASSUME SamplesHold, mqttTopic' \in Broker!Topics,
           \/ UNCHANGED <<resetRequested, publication>>
           \/ Broker!RequestReset
           \/ Broker!ApplyReset
           \/ /\ publication' = [t \in Broker!Topics |-> Broker!NoSample]
              /\ resetRequested' \in BOOLEAN
           \/ /\ resetRequested' = resetRequested
              /\ \E t \in Broker!Topics :
                    /\ publication' = [publication EXCEPT ![t] = publication'[t]]
                    /\ publication'[t] \in
                         {[publication[t] EXCEPT !.fresh = FALSE],
                          Broker!NewSample, Broker!NoSample}
           \/ /\ resetRequested' = resetRequested /\ mqttTopic \in Broker!Topics
              /\ publication' = [publication EXCEPT ![mqttTopic] =
                                     Broker!Published(publication[mqttTopic])]
              /\ Broker!Due(publication[mqttTopic])
              /\ \A t \in Broker!Topics : ~publication[t].late
           \/ /\ resetRequested' = resetRequested
              /\ publication' = [t \in Broker!Topics |->
                   IF t = "pack" THEN Broker!NoSample ELSE Broker!NewSample]
    PROVE  SamplesHold'
<1>1. publication \in [Broker!Topics -> Broker!Acquisitions] /\ resetRequested \in BOOLEAN
      /\ (\A t \in Broker!Topics : publication[t].sent => ~publication[t].pending)
      /\ (\A t \in Broker!Topics :
            publication[t].pending /\ publication[t].fresh /\ publication[t].old
              => resetRequested)
      /\ (\A t \in Broker!Topics : publication[t].late =>
            resetRequested /\ \A u \in Broker!Topics \ {t} : ~publication[u].late)
  BY DEF SamplesHold, SentIsDone, Broker!NothingOldIsDue, Broker!Due, Broker!LateAtMostOnce
<1>2. SUFFICES
        /\ publication' \in [Broker!Topics -> Broker!Acquisitions]
        /\ resetRequested' \in BOOLEAN
        /\ (\A t \in Broker!Topics : publication'[t].sent => ~publication'[t].pending)
        /\ (\A t \in Broker!Topics :
              publication'[t].pending /\ publication'[t].fresh /\ publication'[t].old
                => resetRequested')
        /\ (\A t \in Broker!Topics : publication'[t].late =>
              resetRequested' /\ \A u \in Broker!Topics \ {t} : ~publication'[u].late)
  BY DEF SamplesHold, SentIsDone, Broker!NothingOldIsDue, Broker!Due, Broker!LateAtMostOnce
<1>3. CASE UNCHANGED <<resetRequested, publication>>
  BY <1>1, <1>3
<1>4. CASE Broker!RequestReset
  BY <1>1, <1>4, SampleFacts DEF Broker!RequestReset
<1>5. CASE Broker!ApplyReset
  BY <1>1, <1>5, SampleFacts DEF Broker!ApplyReset
<1>6. CASE /\ publication' = [t \in Broker!Topics |-> Broker!NoSample]
           /\ resetRequested' \in BOOLEAN
  BY <1>6, SampleFacts
<1>7. CASE /\ resetRequested' = resetRequested
           /\ \E t \in Broker!Topics :
                 /\ publication' = [publication EXCEPT ![t] = publication'[t]]
                 /\ publication'[t] \in
                      {[publication[t] EXCEPT !.fresh = FALSE],
                       Broker!NewSample, Broker!NoSample}
  <2>1. PICK t \in Broker!Topics :
          /\ publication' = [publication EXCEPT ![t] = publication'[t]]
          /\ publication'[t] \in
               {[publication[t] EXCEPT !.fresh = FALSE],
                Broker!NewSample, Broker!NoSample}
    BY <1>7
  <2>2. /\ publication'[t] \in Broker!Acquisitions
        /\ publication'[t].sent => ~publication'[t].pending
        /\ publication'[t].pending /\ publication'[t].fresh => ~publication'[t].old
        /\ publication'[t].late => publication[t].late
    <3>1. publication[t] \in Broker!Acquisitions
          /\ (publication[t].sent => ~publication[t].pending)
      BY <1>1
    <3>2. CASE publication'[t] = [publication[t] EXCEPT !.fresh = FALSE]
      <4>1. /\ publication'[t] \in Broker!Acquisitions
            /\ publication'[t].sent = publication[t].sent
            /\ publication'[t].pending = publication[t].pending
            /\ publication'[t].fresh = FALSE
            /\ publication'[t].late = publication[t].late
        BY <3>1, <3>2, SampleFacts
      <4> QED  BY <3>1, <4>1
    <3>3. CASE publication'[t] \in {Broker!NewSample, Broker!NoSample}
      BY <3>3, SampleFacts
    <3> QED  BY <2>1, <3>2, <3>3
  <2>3. \A u \in Broker!Topics : u # t => publication'[u] = publication[u]
    BY <1>1, <2>1
  <2> QED  BY <1>1, <1>7, <2>1, <2>2, <2>3
<1>8. CASE /\ resetRequested' = resetRequested
           /\ publication' = [t \in Broker!Topics |->
                IF t = "pack" THEN Broker!NoSample ELSE Broker!NewSample]
  BY <1>1, <1>8, SampleFacts
<1>9. CASE /\ resetRequested' = resetRequested /\ mqttTopic \in Broker!Topics
           /\ publication' = [publication EXCEPT ![mqttTopic] =
                                  Broker!Published(publication[mqttTopic])]
           /\ Broker!Due(publication[mqttTopic])
           /\ \A t \in Broker!Topics : ~publication[t].late
  <2>1. /\ publication'[mqttTopic] = Broker!Published(publication[mqttTopic])
        /\ \A u \in Broker!Topics : u # mqttTopic => publication'[u] = publication[u]
    BY <1>1, <1>9
  <2>2. /\ publication'[mqttTopic] \in Broker!Acquisitions
        /\ ~publication'[mqttTopic].pending
        /\ publication'[mqttTopic].late = publication[mqttTopic].old
    BY <1>1, <1>9, <2>1, SampleFacts
  <2>3. publication[mqttTopic].old => resetRequested
    BY <1>1, <1>9 DEF Broker!Due
  <2>4. publication' \in [Broker!Topics -> Broker!Acquisitions]
    BY <1>1, <1>9, <2>1, <2>2
  <2>5. \A t \in Broker!Topics : publication'[t].late => t = mqttTopic /\ resetRequested
    BY <1>9, <2>1, <2>2, <2>3
  <2> QED  BY <1>1, <1>9, <2>1, <2>2, <2>4, <2>5
<1> QED  BY <1>3, <1>4, <1>5, <1>6, <1>7, <1>8, <1>9

\* A client that does not exist yet has nothing to publish.
LEMMA BrokerInit == Broker!Init => BrokerInv
<1> SUFFICES ASSUME Broker!Init PROVE BrokerInv
  OBVIOUS
<1>1. publication \in [Broker!Topics -> Broker!Acquisitions]
      /\ \A t \in Broker!Topics :
            ~publication[t].sent /\ ~publication[t].pending /\ ~publication[t].late
  BY SampleFacts DEF Broker!Init
<1>2. Broker!TypeOK
  BY <1>1 DEF Broker!Init, Broker!TypeOK, Broker!Topics
<1>3. SentIsDone /\ Broker!NothingOldIsDue /\ Broker!LateAtMostOnce
  BY <1>1 DEF SentIsDone, Broker!NothingOldIsDue, Broker!Due, Broker!LateAtMostOnce
<1>4. SessionNeedsClient /\ Broker!StateIsReal /\ ChosenIsDue
  BY DEF Broker!Init, SessionNeedsClient, Broker!StateIsReal, ChosenIsDue
<1> QED  BY <1>2, <1>3, <1>4 DEF BrokerInv

\* The rest of the invariant: where the client, its state and the main task are.
LifeHolds ==
    /\ mqttConfigured \in BOOLEAN /\ stationSeen \in BOOLEAN
    /\ mqttClient \in {"none", "created", "running", "destroyed"}
    /\ session \in BOOLEAN
    /\ mqtt \in {"unavailable", "connecting", "connected", "lost"}
    /\ holdOff \in BOOLEAN /\ measured \in BOOLEAN /\ discovery \in BOOLEAN
    /\ mqttPlace \in {"idle", "station", "stopping", "stopped", "start", "register",
                      "launch", "discovery", "announce", "announced", "check", "send",
                      "frame"}
    /\ configuring \in {"idle", "saved", "stopping"}
    /\ SessionNeedsClient /\ Broker!StateIsReal

\* The invariant is its two parts.
LEMMA BrokerParts ==
    /\ BrokerInv <=> LifeHolds /\ SamplesHold /\ ChosenIsDue
    /\ BrokerInv' <=> LifeHolds' /\ SamplesHold' /\ ChosenIsDue'
  BY DEF BrokerInv, LifeHolds, SamplesHold, Broker!TypeOK

\* The library's task and the HTTP task keep the client's life in order.
LEMMA CallbacksKeepLife ==
    ASSUME LifeHolds, Broker!LibraryTask \/ Broker!HttpTask \/ Broker!HoldOffEnds
                        \/ Broker!Crash
    PROVE  LifeHolds'
<1>1. CASE Broker!Connected
  BY <1>1 DEF LifeHolds, SessionNeedsClient, Broker!StateIsReal, Broker!Connected
<1>2. CASE Broker!Disconnected
  BY <1>2 DEF LifeHolds, SessionNeedsClient, Broker!StateIsReal, Broker!Disconnected
<1>3. CASE Broker!HomeAssistantOnline
  BY <1>3 DEF LifeHolds, SessionNeedsClient, Broker!StateIsReal, Broker!HomeAssistantOnline,
              Broker!lifeVars
<1>4. CASE Broker!Configure
  BY <1>4 DEF LifeHolds, SessionNeedsClient, Broker!StateIsReal, Broker!Configure,
              Broker!sampleVars
<1>5. CASE Broker!ConfigureStop
  BY <1>5 DEF LifeHolds, SessionNeedsClient, Broker!StateIsReal, Broker!ConfigureStop,
              Broker!lifeVars
<1>6. CASE Broker!ConfigureStopped
  BY <1>6 DEF LifeHolds, SessionNeedsClient, Broker!StateIsReal, Broker!ConfigureStopped,
              Broker!WithoutClient, Broker!sampleVars
<1>7. CASE Broker!HoldOffEnds
  <2>1. /\ holdOff' \in BOOLEAN
        /\ UNCHANGED <<mqttConfigured, stationSeen, mqttClient, session, mqtt, measured,
                       discovery, mqttPlace, configuring>>
    BY <1>7 DEF Broker!HoldOffEnds, Broker!sampleVars
  <2> QED  BY <2>1 DEF LifeHolds, SessionNeedsClient, Broker!StateIsReal
<1>8. CASE Broker!Crash
  <2>1. /\ mqtt' \in {"lost", "unavailable"} /\ mqttConfigured' = mqttConfigured
        /\ stationSeen' = FALSE /\ mqttClient' = "none" /\ session' = FALSE
        /\ holdOff' = FALSE /\ measured' = FALSE /\ discovery' = FALSE
        /\ mqttPlace' = "idle" /\ configuring' = "idle"
    BY <1>8 DEF Broker!Crash, Broker!WithoutClient
  <2> QED  BY <2>1 DEF LifeHolds, SessionNeedsClient, Broker!StateIsReal
<1> QED
  BY <1>1, <1>2, <1>3, <1>4, <1>5, <1>6, <1>7, <1>8
     DEF Broker!LibraryTask, Broker!HttpTask

\* So does the main task, through its start and its end of the client.
LEMMA LifecycleKeepsLife ==
    ASSUME LifeHolds, Broker!Lifecycle
    PROVE  LifeHolds'
<1> USE DEF LifeHolds, SessionNeedsClient, Broker!StateIsReal, Broker!At
<1>1. CASE Broker!Tick
  BY <1>1 DEF Broker!Tick, Broker!lifeVars
<1>2. CASE Broker!StationSame
  BY <1>2 DEF Broker!StationSame, Broker!lifeVars, Broker!sampleVars
<1>3. CASE Broker!StationFound
  BY <1>3 DEF Broker!StationFound, Broker!sampleVars
<1>4. CASE Broker!StationLost
  BY <1>4 DEF Broker!StationLost
<1>5. CASE Broker!Destroy
  BY <1>5 DEF Broker!Destroy, Broker!sampleVars
<1>6. CASE Broker!Stopped
  BY <1>6 DEF Broker!Stopped, Broker!sampleVars, Broker!WithoutClient
<1>7. CASE Broker!StartRefused
  BY <1>7 DEF Broker!StartRefused, Broker!lifeVars, Broker!sampleVars
<1>8. CASE Broker!NoMemory
  BY <1>8 DEF Broker!NoMemory, Broker!MayStart, Broker!Defer, Broker!sampleVars
<1>9. CASE Broker!Create
  BY <1>9 DEF Broker!Create, Broker!MayStart, Broker!sampleVars
<1>10. CASE Broker!Register
  BY <1>10 DEF Broker!Register, Broker!sampleVars
<1>11. CASE Broker!Launch
  BY <1>11 DEF Broker!Launch, Broker!sampleVars
<1>12. CASE Broker!LaunchFails
  BY <1>12 DEF Broker!LaunchFails, Broker!Defer, Broker!sampleVars
<1> QED
  BY <1>1, <1>2, <1>3, <1>4, <1>5, <1>6, <1>7, <1>8, <1>9, <1>10, <1>11, <1>12
     DEF Broker!Lifecycle

\* And what it publishes does not touch the client.
LEMMA PublicationKeepsLife ==
    ASSUME LifeHolds,
           \/ Broker!Publication \/ Broker!UartLost
           \/ \E t \in Broker!Topics : Broker!Ages(t) \/ Broker!PublishFrame(t)
    PROVE  LifeHolds'
<1>1. /\ UNCHANGED <<mqttConfigured, stationSeen, mqttClient, session, mqtt, holdOff,
                     configuring>>
      /\ measured' \in BOOLEAN /\ discovery' \in BOOLEAN
      /\ mqttPlace # "stopped"
      /\ mqttPlace' \in {"idle", "frame", "announce", "announced", "check", "send"}
  BY DEF LifeHolds, Broker!Publication, Broker!UartLost, Broker!Ages, Broker!PublishFrame,
         Broker!Discover, Broker!Announce, Broker!PublishState, Broker!Check, Broker!Send,
         Broker!SendFails, Broker!StatusFrame, Broker!PackFrame, Broker!At, Broker!NextTopic,
         Broker!lifeVars, Broker!sampleVars
<1> QED
  BY <1>1 DEF LifeHolds, SessionNeedsClient, Broker!StateIsReal

\* Every step does to the samples one of the things that keep them in order.
LEMMA BrokerKeepsSamples ==
    ASSUME LifeHolds, SamplesHold, ChosenIsDue, Broker!Next
    PROVE  SamplesHold'
<1>0. mqttTopic \in Broker!Topics /\ "status" \in Broker!Topics /\ "pack" \in Broker!Topics
      /\ publication \in [Broker!Topics -> Broker!Acquisitions]
      /\ resetRequested \in BOOLEAN
  BY DEF SamplesHold, Broker!Topics
<1>1. CASE Broker!LibraryTask \/ Broker!HttpTask \/ Broker!HoldOffEnds
  <2>1. /\ mqttTopic' = mqttTopic
        /\ UNCHANGED <<resetRequested, publication>> \/ Broker!RequestReset
    BY <1>1 DEF Broker!LibraryTask, Broker!HttpTask, Broker!HoldOffEnds, Broker!Connected,
                Broker!Disconnected, Broker!HomeAssistantOnline, Broker!Configure,
                Broker!ConfigureStop, Broker!ConfigureStopped, Broker!sampleVars
  <2> QED  BY <1>0, <2>1, SamplesStep
<1>2. CASE Broker!Lifecycle
  <2>1. /\ mqttTopic' = mqttTopic
        /\ \/ UNCHANGED <<resetRequested, publication>>
           \/ Broker!RequestReset
           \/ Broker!ApplyReset
    BY <1>2 DEF Broker!Lifecycle, Broker!Tick, Broker!StationSame, Broker!StationFound,
                Broker!StationLost, Broker!Destroy, Broker!Stopped, Broker!StartRefused,
                Broker!NoMemory, Broker!Create, Broker!Register, Broker!Launch,
                Broker!LaunchFails, Broker!sampleVars
  <2> QED  BY <1>0, <2>1, SamplesStep
<1>3. CASE \/ Broker!Discover \/ Broker!Announce \/ Broker!PublishState \/ Broker!Check
           \/ Broker!SendFails
  <2>1. mqttTopic' \in Broker!Topics /\ UNCHANGED <<resetRequested, publication>>
    BY <1>0, <1>3 DEF Broker!Discover, Broker!Announce, Broker!PublishState, Broker!Check,
                      Broker!SendFails, Broker!NextTopic, Broker!sampleVars
  <2> QED  BY <2>1, SamplesStep
<1>4. CASE Broker!Crash \/ Broker!UartLost
  <2>1. /\ mqttTopic' \in Broker!Topics /\ resetRequested' \in BOOLEAN
        /\ publication' = [t \in Broker!Topics |-> Broker!NoSample]
    BY <1>0, <1>4 DEF Broker!Crash, Broker!UartLost
  <2> QED  BY <2>1, SamplesStep
<1>5. CASE Broker!Send
  <2>1. /\ mqttTopic' \in Broker!Topics /\ resetRequested' = resetRequested
        /\ mqttPlace = "send"
        /\ publication' = [publication EXCEPT ![mqttTopic] =
                               Broker!Published(publication[mqttTopic])]
    BY <1>0, <1>5 DEF Broker!Send, Broker!NextTopic, Broker!At
  <2>2. /\ Broker!Due(publication[mqttTopic])
        /\ \A t \in Broker!Topics : ~publication[t].late
    BY <2>1 DEF ChosenIsDue
  <2> QED  BY <1>0, <2>1, <2>2, SamplesStep
<1>6. CASE \E t \in Broker!Topics : Broker!Ages(t)
  <2>1. PICK t \in Broker!Topics : Broker!Ages(t)
    BY <1>6
  <2>2. /\ mqttTopic' = mqttTopic /\ resetRequested' = resetRequested
        /\ publication' = [publication EXCEPT ![t].fresh = FALSE]
    BY <2>1 DEF Broker!Ages
  <2>3. publication'[t] = [publication[t] EXCEPT !.fresh = FALSE]
    BY <1>0, <2>2
  <2>4. publication' = [publication EXCEPT ![t] = publication'[t]]
    BY <1>0, <2>2, <2>3
  <2> QED  BY <1>0, <2>2, <2>3, <2>4, SamplesStep
<1>7. CASE \E t \in Broker!Topics : Broker!PublishFrame(t)
  <2>1. mqttTopic' \in Broker!Topics /\ Broker!ApplyReset
    BY <1>7 DEF Broker!PublishFrame
  <2> QED  BY <2>1, SamplesStep
<1>8. CASE Broker!PackFrame
  <2>1. /\ mqttTopic' = mqttTopic /\ resetRequested' = resetRequested
        /\ publication' \in {publication, [publication EXCEPT !["pack"] = Broker!NewSample]}
    BY <1>8 DEF Broker!PackFrame, Broker!Received
  <2>2. CASE publication' = publication
    BY <1>0, <2>1, <2>2, SamplesStep
  <2>3. CASE publication' = [publication EXCEPT !["pack"] = Broker!NewSample]
    <3>1. publication'["pack"] = Broker!NewSample
      BY <1>0, <2>3
    <3>2. publication' = [publication EXCEPT !["pack"] = publication'["pack"]]
      BY <2>3, <3>1
    <3> QED  BY <1>0, <2>1, <3>1, <3>2, SamplesStep
  <2> QED  BY <2>1, <2>2, <2>3
<1>9. CASE \E measures \in BOOLEAN : Broker!StatusFrame(measures)
  <2>1. /\ mqttTopic' = mqttTopic /\ resetRequested' = resetRequested
        /\ publication' \in
             {publication, [publication EXCEPT !["status"] = Broker!NewSample],
              [publication EXCEPT !["pack"] = Broker!NoSample],
              [[publication EXCEPT !["status"] = Broker!NewSample]
                  EXCEPT !["pack"] = Broker!NoSample]}
    BY <1>9 DEF Broker!StatusFrame, Broker!Received
  <2>2. CASE publication' = publication
    BY <1>0, <2>1, <2>2, SamplesStep
  <2>3. CASE publication' = [publication EXCEPT !["status"] = Broker!NewSample]
    <3>1. publication'["status"] = Broker!NewSample
      BY <1>0, <2>3
    <3>2. publication' = [publication EXCEPT !["status"] = publication'["status"]]
      BY <2>3, <3>1
    <3> QED  BY <1>0, <2>1, <3>1, <3>2, SamplesStep
  <2>4. CASE publication' = [publication EXCEPT !["pack"] = Broker!NoSample]
    <3>1. publication'["pack"] = Broker!NoSample
      BY <1>0, <2>4
    <3>2. publication' = [publication EXCEPT !["pack"] = publication'["pack"]]
      BY <2>4, <3>1
    <3> QED  BY <1>0, <2>1, <3>1, <3>2, SamplesStep
  <2>5. CASE publication' = [[publication EXCEPT !["status"] = Broker!NewSample]
                                EXCEPT !["pack"] = Broker!NoSample]
    <3>1. publication' = [t \in Broker!Topics |->
                            IF t = "pack" THEN Broker!NoSample ELSE Broker!NewSample]
      BY <1>0, <2>5 DEF Broker!Topics
    <3> QED  BY <1>0, <2>1, <3>1, SamplesStep
  <2> QED  BY <2>1, <2>2, <2>3, <2>4, <2>5
<1> QED
  BY <1>1, <1>2, <1>3, <1>4, <1>5, <1>6, <1>7, <1>8, <1>9
     DEF Broker!Next, Broker!MainTask, Broker!Publication

\* The main task comes to send from check alone, and leaves it at once.
LEMMA ComesToSend ==
    ASSUME Broker!Next, mqttPlace' = "send"
    PROVE  \/ Broker!Check
           \/ /\ mqttPlace = "send" /\ UNCHANGED <<mqttTopic, measured>>
              /\ UNCHANGED <<resetRequested, publication>> \/ Broker!RequestReset
<1>1. ASSUME Broker!LibraryTask \/ Broker!HttpTask \/ Broker!HoldOffEnds
      PROVE  /\ mqttPlace = "send" /\ UNCHANGED <<mqttTopic, measured>>
             /\ UNCHANGED <<resetRequested, publication>> \/ Broker!RequestReset
  BY <1>1 DEF Broker!LibraryTask, Broker!HttpTask, Broker!HoldOffEnds, Broker!Connected,
              Broker!Disconnected, Broker!HomeAssistantOnline, Broker!Configure,
              Broker!ConfigureStop, Broker!ConfigureStopped, Broker!sampleVars
<1>2. ~(Broker!Lifecycle \/ Broker!Crash)
  BY DEF Broker!Lifecycle, Broker!Tick, Broker!StationSame, Broker!StationFound,
         Broker!StationLost, Broker!Destroy, Broker!Stopped, Broker!StartRefused,
         Broker!NoMemory, Broker!Create, Broker!Register, Broker!Launch,
         Broker!LaunchFails, Broker!Crash, Broker!Defer
<1>3. ~Broker!UartLost /\ ~\E t \in Broker!Topics : Broker!Ages(t) \/ Broker!PublishFrame(t)
  BY DEF Broker!UartLost, Broker!Ages, Broker!PublishFrame, Broker!At
<1>4. Broker!Publication => Broker!Check
  BY DEF Broker!Publication, Broker!Discover, Broker!Announce, Broker!PublishState,
         Broker!Send, Broker!SendFails, Broker!StatusFrame, Broker!PackFrame,
         Broker!At, Broker!NextTopic
<1> QED  BY <1>1, <1>2, <1>3, <1>4 DEF Broker!Next, Broker!MainTask

\* What is chosen is due, and nothing that was sent late is kept.
LEMMA ChoiceIsNew ==
    ASSUME SamplesHold, Broker!Check, mqttPlace' = "send"
    PROVE  /\ mqttTopic \in Broker!Topics
           /\ UNCHANGED <<mqttTopic, measured, resetRequested, publication>>
           /\ Broker!Due(publication[mqttTopic])
           /\ ~publication[mqttTopic].old /\ ~publication[mqttTopic].sent
           /\ mqttTopic = "pack" => publication["status"].fresh /\ measured
           /\ \A t \in Broker!Topics : ~publication[t].late
<1>1. Broker!Acquired(mqttTopic) /\ mqttTopic \in Broker!Topics
      /\ UNCHANGED <<mqttTopic, measured, resetRequested, publication>>
  BY DEF Broker!Check, Broker!NextTopic, SamplesHold, Broker!sampleVars
<1>2. Broker!Due(publication[mqttTopic]) /\ ~resetRequested
      /\ (mqttTopic = "pack" => publication["status"].fresh /\ measured)
  BY <1>1 DEF Broker!Acquired
<1>3. ~publication[mqttTopic].old /\ ~publication[mqttTopic].sent
  BY <1>1, <1>2 DEF SamplesHold, Broker!NothingOldIsDue, SentIsDone, Broker!Due
<1>4. \A t \in Broker!Topics : ~publication[t].late
  BY <1>2 DEF SamplesHold, Broker!LateAtMostOnce
<1> QED  BY <1>1, <1>2, <1>3, <1>4

\* A reset that is asked for leaves what was chosen as it is.
LEMMA ChosenKept ==
    ASSUME SamplesHold, ChosenIsDue, Broker!Next
    PROVE  ChosenIsDue'
<1> SUFFICES ASSUME mqttPlace' = "send"
             PROVE  /\ Broker!Due(publication[mqttTopic])'
                    /\ mqttTopic' = "pack" => publication'["status"].fresh /\ measured'
                    /\ \A t \in Broker!Topics : ~publication'[t].late
  BY DEF ChosenIsDue
<1>1. CASE Broker!Check
  BY <1>1, ChoiceIsNew DEF Broker!Due
<1>2. CASE /\ mqttPlace = "send" /\ UNCHANGED <<mqttTopic, measured>>
           /\ UNCHANGED <<resetRequested, publication>> \/ Broker!RequestReset
  <2>1. /\ publication \in [Broker!Topics -> Broker!Acquisitions]
        /\ mqttTopic \in Broker!Topics /\ "status" \in Broker!Topics
    BY DEF SamplesHold, Broker!Topics
  <2>2. \A t \in Broker!Topics :
           /\ publication'[t].pending = publication[t].pending
           /\ publication'[t].fresh = publication[t].fresh
           /\ publication'[t].late = publication[t].late
    <3>1. CASE UNCHANGED <<resetRequested, publication>>
      BY <3>1
    <3>2. CASE Broker!RequestReset
      BY <2>1, <3>2, SampleFacts DEF Broker!RequestReset
    <3> QED  BY <1>2, <3>1, <3>2
  <2> QED  BY <1>2, <2>1, <2>2 DEF ChosenIsDue, Broker!Due
<1> QED  BY <1>1, <1>2, ComesToSend

\* Every step keeps the invariant of the client.
LEMMA BrokerStep ==
    ASSUME BrokerInv, [Broker!Next]_brokerVars
    PROVE  BrokerInv'
<1>1. LifeHolds /\ SamplesHold /\ ChosenIsDue
  BY BrokerParts
<1>2. CASE Broker!Next
  <2>1. LifeHolds'
    BY <1>1, <1>2, CallbacksKeepLife, LifecycleKeepsLife, PublicationKeepsLife
       DEF Broker!Next, Broker!MainTask
  <2> QED  BY <1>1, <1>2, <2>1, BrokerKeepsSamples, ChosenKept, BrokerParts
<1>3. CASE UNCHANGED brokerVars
  <2>1. LifeHolds'
    BY <1>1, <1>3 DEF brokerVars, LifeHolds, SessionNeedsClient, Broker!StateIsReal
  <2>2. SamplesHold'
    BY <1>1, <1>3, SamplesStep DEF brokerVars, SamplesHold
  <2>3. ChosenIsDue'
    BY <1>1, <1>3 DEF brokerVars, ChosenIsDue, Broker!Due
  <2> QED  BY <2>1, <2>2, <2>3, BrokerParts
<1> QED  BY <1>2, <1>3

\* Only Send publishes.
LEMMA OnlySendPublishes ==
    ASSUME SamplesHold, Broker!Next, NEW t \in Broker!Topics, publication[t].pending,
           ~publication'[t].pending, publication'[t].sent
    PROVE  Broker!Send /\ t = mqttTopic
<1>1. /\ publication \in [Broker!Topics -> Broker!Acquisitions]
      /\ publication[t] \in Broker!Acquisitions /\ mqttTopic \in Broker!Topics
      /\ "status" \in Broker!Topics /\ "pack" \in Broker!Topics
      /\ publication'[t] # publication[t] /\ publication'[t] # Broker!NoSample
      /\ publication'[t] # Broker!NewSample
      /\ publication'[t] # [publication[t] EXCEPT !.old = TRUE]
      /\ publication'[t] # [publication[t] EXCEPT !.fresh = FALSE]
  BY SampleFacts DEF SamplesHold, Broker!Topics
<1>2. ~(Broker!RequestReset \/ Broker!ApplyReset)
  BY <1>1 DEF Broker!RequestReset, Broker!ApplyReset
<1>3. ~(Broker!LibraryTask \/ Broker!HttpTask \/ Broker!HoldOffEnds)
  BY <1>1, <1>2 DEF Broker!LibraryTask, Broker!HttpTask, Broker!HoldOffEnds,
     Broker!Connected, Broker!Disconnected, Broker!HomeAssistantOnline, Broker!Configure,
     Broker!ConfigureStop, Broker!ConfigureStopped, Broker!sampleVars
<1>4. ~Broker!Lifecycle
  BY <1>1, <1>2 DEF Broker!Lifecycle, Broker!Tick, Broker!StationSame,
     Broker!StationFound, Broker!StationLost, Broker!Destroy, Broker!Stopped,
     Broker!StartRefused, Broker!NoMemory, Broker!Create, Broker!Register, Broker!Launch,
     Broker!LaunchFails, Broker!sampleVars
<1>5. ~(Broker!Crash \/ Broker!UartLost)
  BY <1>1 DEF Broker!Crash, Broker!UartLost
<1>6. ~\E u \in Broker!Topics : Broker!Ages(u) \/ Broker!PublishFrame(u)
  BY <1>1, <1>2 DEF Broker!Ages, Broker!PublishFrame
<1>7. ~(\/ Broker!Discover \/ Broker!Announce \/ Broker!PublishState \/ Broker!Check
        \/ Broker!SendFails)
  BY <1>1 DEF Broker!Discover, Broker!Announce, Broker!PublishState, Broker!Check,
              Broker!SendFails, Broker!sampleVars
<1>8. ~Broker!PackFrame
  BY <1>1 DEF Broker!PackFrame, Broker!Received
<1>9. ~\E measures \in BOOLEAN : Broker!StatusFrame(measures)
  BY <1>1 DEF Broker!StatusFrame, Broker!Received
<1>10. Broker!Send
  BY <1>3, <1>4, <1>5, <1>6, <1>7, <1>8, <1>9
     DEF Broker!Next, Broker!MainTask, Broker!Publication
<1>11. t = mqttTopic
  BY <1>1, <1>10 DEF Broker!Send
<1> QED  BY <1>10, <1>11

\* What it decides to send was received after the last reset; what it sends was not sent
\* before, and is fresh beside a fresh status.
LEMMA SendsAreNew ==
    ASSUME BrokerInv, [Broker!Next]_brokerVars
    PROVE  Broker!OnlyNewAcquisitions
<1>1. SamplesHold /\ ChosenIsDue
  BY BrokerParts
<1>2. ASSUME mqttPlace = "check", mqttPlace' = "send"
      PROVE  ~publication[mqttTopic].old
  <2>1. Broker!Next
    BY <1>2 DEF brokerVars
  <2>2. Broker!Check
    BY <1>2, <2>1, ComesToSend
  <2> QED  BY <1>1, <1>2, <2>2, ChoiceIsNew
<1>3. ASSUME NEW t \in Broker!Topics, Broker!Sends(t)
      PROVE  /\ ~publication[t].sent /\ publication[t].fresh
             /\ t = "pack" => publication["status"].fresh /\ measured
  <2>1. publication[t].pending /\ ~publication'[t].pending /\ publication'[t].sent
    BY <1>3 DEF Broker!Sends
  <2>2. Broker!Next
    BY <2>1 DEF brokerVars
  <2>3. Broker!Send /\ t = mqttTopic
    BY <1>1, <2>1, <2>2, OnlySendPublishes
  <2>4. mqttPlace = "send"
    BY <2>3 DEF Broker!Send, Broker!At
  <2> QED  BY <1>1, <2>1, <2>3, <2>4 DEF ChosenIsDue, Broker!Due, SamplesHold, SentIsDone
<1> QED  BY <1>2, <1>3 DEF Broker!OnlyNewAcquisitions

-----------------------------------------------------------------------------
(* The energy meters *)

\* A sample in hand is of the meter that the worker's copy has in the slot.
Belongs(r, c, s) ==
    /\ r.electrical # Meter!Invalid => r.electrical.of = c[s]
    /\ r.energy # Meter!Invalid => r.energy.of = c[s]

MeterTypes ==
    /\ configurationGeneration \in 1 .. MaxGeneration
    /\ DOMAIN readings = Slots
    /\ mine = [configuration |-> mine.configuration, generation |-> mine.generation]
    /\ mine.generation \in 0 .. configurationGeneration
    /\ published = [generation |-> published.generation, electrical |-> published.electrical,
                    online |-> published.online]
    /\ published.generation \in 0 .. configurationGeneration

\* The worker's copy of the present generation is the present configuration.
CopyIsTrue == mine.generation = configurationGeneration => mine.configuration = configuration

\* A reading in preparation is of the meter that had the slot when it was begun.
ReadingIsMine ==
    worker \in {"electrical", "measured", "energy", "counted"} /\ meterSlot \in Slots =>
        /\ reading = [electrical |-> reading.electrical, energy |-> reading.energy]
        /\ Belongs(reading, mine.configuration, meterSlot)

ReadingsAreRecords ==
    \A s \in Slots : readings[s] = [electrical |-> readings[s].electrical,
                                    energy |-> readings[s].energy]

\* Once everything is announced for a generation, it is for its meters.
AnnouncedIsConfigured ==
    published.generation = configurationGeneration =>
        \A s \in Slots : announced[s] = configuration[s]

MeterInv ==
    MeterTypes /\ CopyIsTrue /\ ReadingIsMine /\ ReadingsAreRecords /\ AnnouncedIsConfigured
        /\ Meter!ReadingsBelong

\* What the readings have to say for the slots: the first half of ReadingsBelong.
LEMMA ReadingsBelongIs ==
    /\ Meter!ReadingsBelong <=>
         /\ \A s \in Slots : Belongs(readings[s], configuration, s)
         /\ bus # 0 => bus = mine.generation
    /\ Meter!ReadingsBelong' <=>
         /\ \A s \in Slots : Belongs(readings'[s], configuration', s)
         /\ bus' # 0 => bus' = mine'.generation
  BY DEF Meter!ReadingsBelong, Belongs

\* Nothing has been read yet, and nothing announced.
LEMMA MeterInit == Meter!Init => MeterInv
<1> SUFFICES ASSUME Meter!Init PROVE MeterInv
  OBVIOUS
<1>1. MeterTypes /\ CopyIsTrue /\ ReadingIsMine
  BY MetersAssumption DEF Meter!Init, MeterTypes, CopyIsTrue, ReadingIsMine,
       Meter!NothingPublished, Meter!NoReadings
<1>2. ReadingsAreRecords /\ Meter!ReadingsBelong
  BY DEF Meter!Init, ReadingsAreRecords, Meter!ReadingsBelong, Meter!NoReadings,
         Meter!NoReading
<1>3. AnnouncedIsConfigured
  BY DEF Meter!Init, AnnouncedIsConfigured, Meter!NothingPublished
<1> QED  BY <1>1, <1>2, <1>3 DEF MeterInv

\* An empty reading belongs anywhere, and a sample that is taken to its slot.
LEMMA ReadingFacts ==
    /\ \A c, s : Belongs(Meter!NoReading, c, s)
    /\ Meter!NoReading = [electrical |-> Meter!NoReading.electrical,
                          energy |-> Meter!NoReading.energy]
    /\ Meter!Taken.of = mine.configuration[meterSlot]
  BY DEF Belongs, Meter!NoReading, Meter!Taken

\* A new configuration starts with no readings, and is of a generation nobody has.
LEMMA ConfigureStep ==
    ASSUME MeterInv, NEW c, Meter!Configure(c) \/ Meter!StoreFails(c)
    PROVE  MeterInv'
<1>1. CASE Meter!Configure(c)
  <2>1. /\ configurationGeneration \in Nat /\ configurationGeneration < MaxGeneration
        /\ configurationGeneration' = configurationGeneration + 1 /\ MaxGeneration \in Nat
        /\ readings' = Meter!NoReadings /\ mine' = mine /\ bus' = bus
        /\ meterSlot' = meterSlot /\ reading' = reading /\ published' = published
        /\ announced' = announced
        /\ worker' \in {"top", worker}
        /\ mine.generation \in 0 .. configurationGeneration
        /\ published.generation \in 0 .. configurationGeneration
    BY <1>1, MetersAssumption
       DEF Meter!Configure, Meter!Enlisted, Meter!mainVars, MeterInv, MeterTypes
  <2>2. MeterTypes'
    BY <2>1 DEF MeterInv, MeterTypes, Meter!NoReadings
  <2>3. CopyIsTrue' /\ AnnouncedIsConfigured'
    BY <2>1 DEF CopyIsTrue, AnnouncedIsConfigured
  <2>4. ReadingIsMine'
    BY <2>1 DEF MeterInv, ReadingIsMine
  <2>5. ReadingsAreRecords'
    BY <2>1, ReadingFacts DEF ReadingsAreRecords, Meter!NoReadings
  <2>6. Meter!ReadingsBelong'
    BY <2>1, ReadingFacts, ReadingsBelongIs DEF MeterInv, Meter!NoReadings
  <2> QED  BY <2>2, <2>3, <2>4, <2>5, <2>6 DEF MeterInv
<1>2. CASE Meter!StoreFails(c)
  <2>1. /\ UNCHANGED <<configuration, configurationGeneration, readings, mine, bus, meterSlot,
                       reading, published, announced>>
        /\ worker' \in {"top", worker}
    BY <1>2 DEF Meter!StoreFails, Meter!Enlisted, Meter!mainVars, Meter!sharedVars
  <2> QED
    BY <2>1 DEF MeterInv, MeterTypes, CopyIsTrue, ReadingIsMine, ReadingsAreRecords,
                AnnouncedIsConfigured, Meter!ReadingsBelong
<1> QED  BY <1>1, <1>2

\* What the worker does between two readings.
LEMMA PreparesStep ==
    ASSUME MeterInv,
           Meter!Top \/ Meter!Wake \/ Meter!NotYet \/ Meter!OpenBus \/ Meter!Opened
             \/ Meter!Rest
    PROVE  MeterInv'
<1>1. /\ UNCHANGED <<configuration, configurationGeneration, readings, reading, published,
                     announced>>
      /\ worker' \notin {"electrical", "measured", "energy", "counted"}
  BY DEF Meter!Top, Meter!Wake, Meter!NotYet, Meter!OpenBus, Meter!Opened, Meter!Rest,
         Meter!Goto, Meter!sharedVars, Meter!mainVars
<1>2. \/ mine' = mine /\ bus' \in {bus, 0, mine.generation}
      \/ /\ mine' = [configuration |-> configuration,
                     generation |-> configurationGeneration]
         /\ bus' = IF mine.generation # configurationGeneration THEN 0 ELSE bus
  BY DEF Meter!Top, Meter!Wake, Meter!NotYet, Meter!OpenBus, Meter!Opened, Meter!Rest
<1>3. MeterTypes' /\ CopyIsTrue'
  BY <1>1, <1>2, MetersAssumption DEF MeterInv, MeterTypes, CopyIsTrue
<1>4. ReadingIsMine' /\ ReadingsAreRecords' /\ AnnouncedIsConfigured'
  BY <1>1 DEF MeterInv, ReadingIsMine, ReadingsAreRecords, AnnouncedIsConfigured
<1>5. Meter!ReadingsBelong'
  BY <1>1, <1>2, ReadingsBelongIs DEF MeterInv
<1> QED  BY <1>3, <1>4, <1>5 DEF MeterInv

\* It begins a reading with what the slot has, if the copy is of the present generation.
LEMMA SlotStep ==
    ASSUME MeterInv, Meter!Slot \/ Meter!EnergyNotDue
    PROVE  MeterInv'
<1>1. /\ UNCHANGED <<configuration, configurationGeneration, readings, mine, bus, published,
                     announced>>
      /\ \/ worker' \in {"rest", "slot"}
         \/ /\ configurationGeneration = mine.generation /\ worker' = "electrical"
            /\ reading' = readings[meterSlot] /\ meterSlot' = meterSlot
  BY DEF Meter!Slot, Meter!EnergyNotDue, Meter!NextSlot, Meter!Goto, Meter!sharedVars,
         Meter!mainVars
<1>2. MeterTypes' /\ CopyIsTrue' /\ ReadingsAreRecords' /\ AnnouncedIsConfigured'
  BY <1>1 DEF MeterInv, MeterTypes, CopyIsTrue, ReadingsAreRecords, AnnouncedIsConfigured
<1>3. Meter!ReadingsBelong'
  BY <1>1, ReadingsBelongIs DEF MeterInv
<1>4. ReadingIsMine'
  <2>1. CASE worker' \in {"rest", "slot"}
    BY <2>1 DEF ReadingIsMine
  <2>2. CASE /\ configurationGeneration = mine.generation /\ worker' = "electrical"
             /\ reading' = readings[meterSlot] /\ meterSlot' = meterSlot
    <3>1. mine.configuration = configuration
      BY <2>2 DEF MeterInv, CopyIsTrue
    <3>2. meterSlot \in Slots => Belongs(readings[meterSlot], configuration, meterSlot)
      BY ReadingsBelongIs DEF MeterInv
    <3>3. meterSlot \in Slots =>
            readings[meterSlot] = [electrical |-> readings[meterSlot].electrical,
                                   energy |-> readings[meterSlot].energy]
      BY DEF MeterInv, ReadingsAreRecords
    <3> QED  BY <1>1, <2>2, <3>1, <3>2, <3>3 DEF ReadingIsMine
  <2> QED  BY <1>1, <2>1, <2>2
<1> QED  BY <1>2, <1>3, <1>4 DEF MeterInv

\* A sample is taken, or spoilt, in the reading it prepares.
LEMMA ReadStep ==
    ASSUME MeterInv, Meter!ReadElectrical \/ Meter!ReadEnergy
    PROVE  MeterInv'
<1>1. /\ UNCHANGED <<configuration, configurationGeneration, readings, mine, bus, published,
                     announced, meterSlot>>
      /\ worker \in {"electrical", "energy"}
      /\ reading' \in {[reading EXCEPT !.electrical = Meter!Taken],
                       [reading EXCEPT !.electrical = Meter!Invalid],
                       [reading EXCEPT !.energy = Meter!Taken],
                       [reading EXCEPT !.energy = Meter!Invalid]}
  BY DEF Meter!ReadElectrical, Meter!ReadEnergy, Meter!At, Meter!sharedVars, Meter!mainVars
<1>2. MeterTypes' /\ CopyIsTrue' /\ ReadingsAreRecords' /\ AnnouncedIsConfigured'
  BY <1>1 DEF MeterInv, MeterTypes, CopyIsTrue, ReadingsAreRecords, AnnouncedIsConfigured
<1>3. Meter!ReadingsBelong'
  BY <1>1, ReadingsBelongIs DEF MeterInv
<1>4. ReadingIsMine'
  <2>1. SUFFICES ASSUME meterSlot \in Slots
                 PROVE  /\ reading' = [electrical |-> reading'.electrical,
                                       energy |-> reading'.energy]
                        /\ Belongs(reading', mine.configuration, meterSlot)
    BY <1>1 DEF ReadingIsMine
  <2>2. /\ reading = [electrical |-> reading.electrical, energy |-> reading.energy]
        /\ Belongs(reading, mine.configuration, meterSlot)
    BY <1>1, <2>1 DEF MeterInv, ReadingIsMine
  <2>3. reading' \in {[electrical |-> Meter!Taken, energy |-> reading.energy],
                     [electrical |-> Meter!Invalid, energy |-> reading.energy],
                     [electrical |-> reading.electrical, energy |-> Meter!Taken],
                     [electrical |-> reading.electrical, energy |-> Meter!Invalid]}
    BY <1>1, <2>2
  <2> QED  BY <2>2, <2>3, ReadingFacts DEF Belongs
<1> QED  BY <1>2, <1>3, <1>4 DEF MeterInv

\* The slot gets the reading only if its meter is still the one that was read.
LEMMA CommitStep ==
    ASSUME MeterInv, Meter!CommitElectrical \/ Meter!CommitEnergy
    PROVE  MeterInv'
<1>1. /\ UNCHANGED <<configuration, configurationGeneration, mine, bus, published, announced>>
      /\ worker \in {"measured", "counted"}
      /\ readings' = IF configurationGeneration = mine.generation
                     THEN [readings EXCEPT ![meterSlot] = reading] ELSE readings
      /\ \/ worker' = "energy" /\ reading' = reading /\ meterSlot' = meterSlot
         \/ worker' \in {"rest", "slot"}
  BY DEF Meter!CommitElectrical, Meter!CommitEnergy, Meter!commitReading, Meter!NextSlot,
         Meter!Goto, Meter!At, Meter!mainVars
<1>2. DOMAIN readings = Slots
  BY DEF MeterInv, MeterTypes
<1>3. MeterTypes' /\ CopyIsTrue' /\ AnnouncedIsConfigured'
  BY <1>1, <1>2 DEF MeterInv, MeterTypes, CopyIsTrue, AnnouncedIsConfigured
<1>4. ReadingIsMine'
  BY <1>1 DEF MeterInv, ReadingIsMine
<1>5. \A s \in Slots :
        \/ readings'[s] = readings[s]
        \/ /\ readings'[s] = reading /\ s = meterSlot
           /\ configurationGeneration = mine.generation
  BY <1>1, <1>2
<1>6. meterSlot \in Slots =>
        /\ reading = [electrical |-> reading.electrical, energy |-> reading.energy]
        /\ Belongs(reading, mine.configuration, meterSlot)
  BY <1>1 DEF MeterInv, ReadingIsMine
<1>7. ReadingsAreRecords'
  BY <1>5, <1>6 DEF MeterInv, ReadingsAreRecords
<1>8. \A s \in Slots : Belongs(readings'[s], configuration, s)
  <2>1. configurationGeneration = mine.generation => mine.configuration = configuration
    BY DEF MeterInv, CopyIsTrue
  <2>2. \A s \in Slots : Belongs(readings[s], configuration, s)
    BY ReadingsBelongIs DEF MeterInv
  <2> QED  BY <1>5, <1>6, <2>1, <2>2
<1>9. Meter!ReadingsBelong'
  BY <1>1, <1>8, ReadingsBelongIs DEF MeterInv
<1> QED  BY <1>3, <1>4, <1>7, <1>9 DEF MeterInv

\* What Publisher::tick makes of what it published before: the same generation, and times
\* that are of the readings or were there.
LEMMA PublishedFacts ==
    ASSUME NEW before, NEW sent, NEW now,
           before = [generation |-> before.generation, electrical |-> before.electrical,
                     online |-> before.online],
           NEW after, after = Meter!Published(before, sent, now)
    PROVE  /\ after = [generation |-> after.generation, electrical |-> after.electrical,
                       online |-> after.online]
           /\ after.generation = before.generation
           /\ \A s \in Slots :
                 \/ after.electrical[s] = before.electrical[s]
                 \/ Meter!Online(s, now)
<1> DEFINE online == [s \in Slots |-> IF s \in sent
                        THEN IF Meter!Online(s, now) THEN "online" ELSE "offline"
                        ELSE before.online[s]]
           electrical == [s \in Slots |-> IF s \in sent /\ Meter!Online(s, now)
                            THEN readings[s].electrical.at ELSE before.electrical[s]]
<1>1. after = [generation |-> before.generation, electrical |-> electrical,
               online |-> online]
  BY DEF Meter!Published
<1> HIDE DEF online
<1>2. \A s \in Slots : electrical[s] = before.electrical[s] \/ Meter!Online(s, now)
  OBVIOUS
<1> HIDE DEF electrical
<1> QED  BY <1>1, <1>2

\* A meter that is online has a valid sample, and it is the configured meter's.
LEMMA OnlineFacts ==
    ASSUME MeterInv, NEW s \in Slots, NEW now, Meter!Online(s, now)
    PROVE  readings[s].electrical.of = configuration[s]
<1>1. readings[s].electrical # Meter!Invalid
  BY DEF Meter!Online, Meter!Fresh
<1>2. Belongs(readings[s], configuration, s)
  BY ReadingsBelongIs DEF MeterInv
<1> QED  BY <1>1, <1>2 DEF Belongs

Publishes ==
    \E sent \in SUBSET Slots, now \in 1 .. time :
      \/ Meter!Publish(sent, now)
      \/ Meter!Rediscover(Slots, sent, now)
      \/ \E announces \in SUBSET Slots : Meter!Rediscover(announces, {}, now)

\* A tick publishes under the present generation after all slots were announced for it, or
\* publishes nothing.
LEMMA PublishesFacts ==
    ASSUME MeterInv, Publishes
    PROVE  /\ UNCHANGED <<configuration, configurationGeneration, readings, worker, mine, bus,
                         meterSlot, reading>>
           /\ published' = [generation |-> published'.generation,
                            electrical |-> published'.electrical,
                            online |-> published'.online]
           /\ published'.generation \in {0, configurationGeneration}
           /\ published'.generation = configurationGeneration =>
                 \A s \in Slots : announced'[s] = configuration[s]
           /\ \A s \in Slots :
                 published'.electrical[s] \notin {0, published.electrical[s]} =>
                    /\ published'.generation = configurationGeneration
                    /\ \E now : Meter!Online(s, now)
<1>0. configurationGeneration # 0
  BY MetersAssumption DEF MeterInv, MeterTypes
<1>1. PICK sent \in SUBSET Slots, now \in 1 .. time :
        \/ Meter!Publish(sent, now)
        \/ Meter!Rediscover(Slots, sent, now)
        \/ \E announces \in SUBSET Slots : Meter!Rediscover(announces, {}, now)
  BY DEF Publishes
<1>2. UNCHANGED <<configuration, configurationGeneration, readings, worker, mine, bus,
                  meterSlot, reading>>
  BY <1>1 DEF Meter!Publish, Meter!Rediscover, Meter!sharedVars, Meter!workerVars
<1>3. CASE Meter!Publish(sent, now)
  <2>1. /\ published.generation = configurationGeneration
        /\ published' = Meter!Published(published, sent, now) /\ announced' = announced
    BY <1>3 DEF Meter!Publish
  <2>2. published = [generation |-> published.generation,
                     electrical |-> published.electrical, online |-> published.online]
    BY DEF MeterInv, MeterTypes
  <2>3. \A s \in Slots : announced[s] = configuration[s]
    BY <2>1 DEF MeterInv, AnnouncedIsConfigured
  <2> QED  BY <1>2, <2>1, <2>2, <2>3, PublishedFacts
<1>4. ASSUME NEW announces \in SUBSET Slots, NEW news \in SUBSET Slots,
             Meter!Rediscover(announces, news, now)
      PROVE  /\ published' = [generation |-> published'.generation,
                              electrical |-> published'.electrical,
                              online |-> published'.online]
             /\ published'.generation \in {0, configurationGeneration}
             /\ published'.generation = configurationGeneration =>
                   \A s \in Slots : announced'[s] = configuration[s]
             /\ \A s \in Slots :
                   published'.electrical[s] \notin {0, published.electrical[s]} =>
                      /\ published'.generation = configurationGeneration
                      /\ \E at : Meter!Online(s, at)
  <2> DEFINE nothing == Meter!NothingPublished
             fresh == [nothing EXCEPT !.generation = configurationGeneration]
  <2>1. /\ announced' = Meter!Announced(announces)
        /\ published' = IF announces = Slots THEN Meter!Published(fresh, news, now)
                        ELSE nothing
    BY <1>4 DEF Meter!Rediscover
  <2>2. /\ nothing = [generation |-> nothing.generation,
                      electrical |-> nothing.electrical, online |-> nothing.online]
        /\ nothing.generation = 0
        /\ \A s \in Slots : nothing.electrical[s] = 0
    BY DEF Meter!NothingPublished
  <2>3. /\ fresh = [generation |-> fresh.generation, electrical |-> fresh.electrical,
                    online |-> fresh.online]
        /\ fresh.generation = configurationGeneration
        /\ \A s \in Slots : fresh.electrical[s] = 0
    BY DEF Meter!NothingPublished
  <2> HIDE DEF nothing, fresh
  <2>4. CASE announces = Slots
    <3>1. \A s \in Slots : announced'[s] = configuration[s]
      BY <2>1, <2>4 DEF Meter!Announced
    <3>2. /\ published' = [generation |-> published'.generation,
                           electrical |-> published'.electrical,
                           online |-> published'.online]
          /\ published'.generation = configurationGeneration
          /\ \A s \in Slots : published'.electrical[s] = 0 \/ Meter!Online(s, now)
      BY <2>1, <2>3, <2>4, PublishedFacts
    <3> QED  BY <3>1, <3>2
  <2>5. CASE announces # Slots
    BY <1>0, <2>1, <2>2, <2>5
  <2> QED  BY <2>4, <2>5
<1> QED  BY <1>1, <1>2, <1>3, <1>4

\* Publishing keeps the invariant.
LEMMA PublishesStep ==
    ASSUME MeterInv, Publishes
    PROVE  MeterInv'
<1>1. /\ UNCHANGED <<configuration, configurationGeneration, readings, worker, mine, bus,
                     meterSlot, reading>>
      /\ published' = [generation |-> published'.generation,
                       electrical |-> published'.electrical, online |-> published'.online]
      /\ published'.generation \in {0, configurationGeneration}
      /\ published'.generation = configurationGeneration =>
            \A s \in Slots : announced'[s] = configuration[s]
  BY PublishesFacts
<1>2. MeterTypes'
  BY <1>1, MetersAssumption DEF MeterInv, MeterTypes
<1>3. CopyIsTrue' /\ ReadingIsMine' /\ ReadingsAreRecords' /\ AnnouncedIsConfigured'
  BY <1>1 DEF MeterInv, CopyIsTrue, ReadingIsMine, ReadingsAreRecords, AnnouncedIsConfigured
<1>4. Meter!ReadingsBelong'
  BY <1>1, ReadingsBelongIs DEF MeterInv
<1> QED  BY <1>2, <1>3, <1>4 DEF MeterInv

\* Every step keeps the invariant of the meters, and publishes a sample under its own meter.
LEMMA MeterStep ==
    ASSUME MeterInv, [Meter!Next]_meterVars
    PROVE  MeterInv' /\ Meter!PublishedBelong
<1>1. CASE Publishes
  <2>1. Meter!PublishedBelong
    <3>1. SUFFICES ASSUME NEW s \in Slots,
                          published'.electrical[s] \notin {0, published.electrical[s]}
                   PROVE  readings[s].electrical.of = announced'[s]
      BY DEF Meter!PublishedBelong
    <3>2. announced'[s] = configuration[s] /\ \E now : Meter!Online(s, now)
      BY <1>1, <3>1, PublishesFacts
    <3> QED  BY <3>2, OnlineFacts
  <2> QED  BY <1>1, <2>1, PublishesStep
<1>2. CASE \/ \E c \in Meter!Configurations : Meter!Configure(c) \/ Meter!StoreFails(c)
           \/ Meter!Worker \/ Meter!Elapse \/ UNCHANGED meterVars
  <2>1. MeterInv'
    <3>1. CASE \E c \in Meter!Configurations : Meter!Configure(c) \/ Meter!StoreFails(c)
      BY <3>1, ConfigureStep
    <3>2. CASE Meter!Worker
      BY <3>2, PreparesStep, SlotStep, ReadStep, CommitStep DEF Meter!Worker, Meter!Reads
    <3>3. CASE Meter!Elapse \/ UNCHANGED meterVars
      <4>1. UNCHANGED <<configuration, configurationGeneration, readings, worker, mine, bus,
                        meterSlot, reading, published, announced>>
        BY <3>3 DEF Meter!Elapse, meterVars, Meter!sharedVars, Meter!workerVars,
                    Meter!mainVars
      <4> QED
        BY <4>1 DEF MeterInv, MeterTypes, CopyIsTrue, ReadingIsMine, ReadingsAreRecords,
                    AnnouncedIsConfigured, Meter!ReadingsBelong
    <3> QED  BY <1>2, <3>1, <3>2, <3>3
  <2>2. published' = published
    BY <1>2 DEF Meter!Configure, Meter!StoreFails, Meter!Worker, Meter!Reads, Meter!Top,
                Meter!Wake, Meter!NotYet, Meter!OpenBus, Meter!Opened, Meter!Slot,
                Meter!ReadElectrical, Meter!CommitElectrical, Meter!EnergyNotDue,
                Meter!ReadEnergy, Meter!CommitEnergy, Meter!Rest, Meter!Elapse, meterVars,
                Meter!mainVars
  <2>3. Meter!PublishedBelong
    BY <2>2 DEF Meter!PublishedBelong
  <2> QED  BY <2>1, <2>3
<1> QED  BY <1>1, <1>2 DEF Meter!Next, Publishes

\* A reading is what it is made of.
LEMMA ReadingTypes ==
    /\ Meter!Invalid \in Meter!Sample /\ Meter!NoReading \in Meter!Reading
    /\ Meter!NoReadings \in [Slots -> Meter!Reading]
    /\ \A r \in Meter!Reading, m \in Meter!Sample :
          /\ [r EXCEPT !.electrical = m] \in Meter!Reading
          /\ [r EXCEPT !.energy = m] \in Meter!Reading
    /\ \A r \in Meter!Reading : r.electrical.at \in Meter!Times
<1>1. Meter!Invalid \in Meter!Sample
  <2>1. 0 \in Meter!Times
    BY MetersAssumption DEF Meter!Times
  <2> QED  BY <2>1 DEF Meter!Invalid, Meter!Sample
<1>2. Meter!NoReading \in Meter!Reading
  BY <1>1 DEF Meter!NoReading, Meter!Reading
<1>3. Meter!NoReadings \in [Slots -> Meter!Reading]
  BY <1>2 DEF Meter!NoReadings
<1>4. ASSUME NEW r \in Meter!Reading, NEW m \in Meter!Sample
      PROVE  /\ [r EXCEPT !.electrical = m] \in Meter!Reading
             /\ [r EXCEPT !.energy = m] \in Meter!Reading
  BY DEF Meter!Reading
<1>5. \A r \in Meter!Reading : r.electrical.at \in Meter!Times
  BY DEF Meter!Reading, Meter!Sample
<1> QED  BY <1>1, <1>2, <1>3, <1>4, <1>5

\* The worker goes to a slot, or has done with them.
LEMMA NextSlotTypes ==
    ASSUME Meter!NextSlot, meterSlot \in Slots
    PROVE  meterSlot' \in Slots /\ reading' \in Meter!Reading /\ worker' \in {"rest", "slot"}
<1>1. reading' \in Meter!Reading /\ worker' \in {"rest", "slot"}
  BY ReadingTypes DEF Meter!NextSlot, Meter!Goto
<1>2. CASE Meter!Later(meterSlot) = {}
  BY <1>1, <1>2 DEF Meter!NextSlot
<1>3. CASE Meter!Later(meterSlot) # {}
  <2> DEFINE T == Meter!Later(meterSlot)
             P(t) == \A u \in T : t <= u
  <2>1. T \subseteq Slots /\ T \subseteq Nat
    BY MetersAssumption DEF Meter!Later
  <2>2. meterSlot' = CHOOSE t \in T : P(t)
    BY <1>3 DEF Meter!NextSlot
  <2>3. \E t \in T : P(t)
    BY <1>3, <2>1, Least
  <2> HIDE DEF T, P
  <2>4. meterSlot' \in T
    BY <2>2, <2>3
  <2> QED  BY <1>1, <2>1, <2>4
<1> QED  BY <1>2, <1>3

Places == {"none", "top", "dormant", "open", "opened", "slot", "electrical", "measured",
           "energy", "counted", "rest"}

\* What the worker has.
WorkerTypes ==
    /\ worker \in Places /\ notified \in BOOLEAN
    /\ mine.configuration \in Meter!Configurations
    /\ meterSlot \in Slots /\ reading \in Meter!Reading
\* What it shares.
SharedTypes ==
    /\ configuration \in Meter!Configurations
    /\ readings \in [Slots -> Meter!Reading] /\ busReady \in BOOLEAN
\* What is published.
PublishedTypes ==
    /\ published.electrical \in [Slots -> Meter!Times]
    /\ published.online \in [Slots -> {"unknown", "online", "offline"}]
    /\ announced \in [Slots -> Meters \cup {Meter!Off}]
    /\ time \in Meter!Times
MetersAreTyped == WorkerTypes /\ SharedTypes /\ PublishedTypes

\* With the invariant, these are the types.
LEMMA MeterTyped == MeterInv /\ MetersAreTyped => Meter!TypeOK
<1> SUFFICES ASSUME MeterInv, MetersAreTyped PROVE Meter!TypeOK
  OBVIOUS
<1>1. WorkerTypes /\ SharedTypes /\ PublishedTypes /\ MeterTypes
  BY DEF MeterInv, MetersAreTyped
<1>2. /\ configurationGeneration \in 1 .. MaxGeneration
      /\ mine.generation \in 0 .. MaxGeneration
      /\ published.generation \in 0 .. MaxGeneration
  BY <1>1, MetersAssumption DEF MeterTypes
<1>3. bus \in 0 .. MaxGeneration
  <2>1. bus = 0 \/ bus = mine.generation
    BY DEF MeterInv, Meter!ReadingsBelong
  <2> QED  BY <1>2, <2>1, MetersAssumption
<1>4. mine \in [configuration : Meter!Configurations, generation : 0 .. MaxGeneration]
  <2>1. \A c \in Meter!Configurations, g \in 0 .. MaxGeneration :
          [configuration |-> c, generation |-> g]
            \in [configuration : Meter!Configurations, generation : 0 .. MaxGeneration]
    OBVIOUS
  <2>2. mine = [configuration |-> mine.configuration, generation |-> mine.generation]
    BY <1>1 DEF MeterTypes
  <2>3. mine.configuration \in Meter!Configurations
    BY <1>1 DEF WorkerTypes
  <2> QED  BY <1>2, <2>1, <2>2, <2>3
<1>5. published \in [generation : 0 .. MaxGeneration, electrical : [Slots -> Meter!Times],
                     online : [Slots -> {"unknown", "online", "offline"}]]
  <2> DEFINE E == [Slots -> Meter!Times]
             O == [Slots -> {"unknown", "online", "offline"}]
  <2>1. published.electrical \in E /\ published.online \in O
    BY <1>1 DEF PublishedTypes
  <2> HIDE DEF E, O
  <2>2. \A g \in 0 .. MaxGeneration, e \in E, o \in O :
          [generation |-> g, electrical |-> e, online |-> o]
            \in [generation : 0 .. MaxGeneration, electrical : E, online : O]
    OBVIOUS
  <2>3. published = [generation |-> published.generation, electrical |-> published.electrical,
                     online |-> published.online]
    BY <1>1 DEF MeterTypes
  <2>4. published \in [generation : 0 .. MaxGeneration, electrical : E, online : O]
    BY <1>2, <2>1, <2>2, <2>3
  <2> QED  BY <2>4 DEF E, O
<1> QED
  BY <1>1, <1>2, <1>3, <1>4, <1>5
     DEF WorkerTypes, SharedTypes, PublishedTypes, Places, Meter!TypeOK

\* The HTTP task replaces the configuration and the readings.
LEMMA ConfigureTypes ==
    ASSUME MetersAreTyped, NEW c \in Meter!Configurations,
           Meter!Configure(c) \/ Meter!StoreFails(c)
    PROVE  MetersAreTyped'
<1>1. WorkerTypes /\ SharedTypes /\ PublishedTypes
  BY DEF MetersAreTyped
<1>2. /\ worker' = Meter!Enlisted(c) /\ notified' = (worker' # "none")
      /\ UNCHANGED <<mine, bus, meterSlot, reading, published, announced, time>>
      /\ \/ configuration' = c /\ readings' = Meter!NoReadings /\ busReady' = FALSE
         \/ UNCHANGED <<configuration, readings, busReady>>
  BY DEF Meter!Configure, Meter!StoreFails, Meter!mainVars, Meter!sharedVars
<1>3. WorkerTypes'
  <2>1. worker' \in Places
    BY <1>1, <1>2 DEF WorkerTypes, Places, Meter!Enlisted
  <2>2. notified' \in BOOLEAN
    BY <1>2
  <2> QED  BY <1>1, <1>2, <2>1, <2>2 DEF WorkerTypes
<1>4. SharedTypes'
  <2>1. CASE configuration' = c /\ readings' = Meter!NoReadings /\ busReady' = FALSE
    BY <2>1, ReadingTypes DEF SharedTypes
  <2>2. CASE UNCHANGED <<configuration, readings, busReady>>
    BY <1>1, <2>2 DEF SharedTypes
  <2> QED  BY <1>2, <2>1, <2>2
<1>5. PublishedTypes'
  BY <1>1, <1>2 DEF PublishedTypes
<1> QED  BY <1>3, <1>4, <1>5 DEF MetersAreTyped

\* The worker prepares: it shares nothing but whether the bus is open.
LEMMA PrepareTypes ==
    ASSUME MetersAreTyped,
           \/ Meter!Top \/ Meter!Wake \/ Meter!NotYet \/ Meter!OpenBus \/ Meter!Opened
           \/ Meter!Rest
    PROVE  MetersAreTyped'
<1>1. WorkerTypes /\ SharedTypes /\ PublishedTypes
  BY DEF MetersAreTyped
<1>2. /\ UNCHANGED <<configuration, readings, published, announced, time, reading>>
      /\ worker' \in {"top", "dormant", "open", "opened", "slot"}
      /\ notified' = notified \/ notified' = FALSE
      /\ meterSlot' = meterSlot \/ meterSlot' = CHOOSE s \in Slots : TRUE
      /\ \/ mine' = mine
         \/ mine' = [configuration |-> configuration, generation |-> configurationGeneration]
      /\ busReady' = busReady \/ busReady' = (bus # 0)
  <2>1. CASE Meter!Top
    BY <2>1 DEF Meter!Top, Meter!Goto, Meter!sharedVars, Meter!mainVars
  <2>2. CASE Meter!Wake \/ Meter!NotYet \/ Meter!OpenBus \/ Meter!Rest
    BY <2>2 DEF Meter!Wake, Meter!NotYet, Meter!OpenBus, Meter!Rest, Meter!Goto,
                Meter!sharedVars, Meter!mainVars
  <2>3. CASE Meter!Opened
    BY <2>3 DEF Meter!Opened, Meter!Goto, Meter!mainVars
  <2> QED  BY <2>1, <2>2, <2>3
<1>3. WorkerTypes'
  <2>1. worker' \in Places
    BY <1>2 DEF Places
  <2>2. notified' \in BOOLEAN
    BY <1>1, <1>2 DEF WorkerTypes
  <2>3. mine'.configuration \in Meter!Configurations
    BY <1>1, <1>2 DEF WorkerTypes, SharedTypes
  <2>4. meterSlot' \in Slots
    BY <1>1, <1>2, MetersAssumption DEF WorkerTypes
  <2> QED  BY <1>1, <1>2, <2>1, <2>2, <2>3, <2>4 DEF WorkerTypes
<1>4. SharedTypes'
  <2>1. busReady' \in BOOLEAN
    BY <1>1, <1>2 DEF SharedTypes
  <2> QED  BY <1>1, <1>2, <2>1 DEF SharedTypes
<1>5. PublishedTypes'
  BY <1>1, <1>2 DEF PublishedTypes
<1> QED  BY <1>3, <1>4, <1>5 DEF MetersAreTyped

\* The worker reads: what it commits is the reading that it prepared.
LEMMA ReadTypes ==
    ASSUME MetersAreTyped, Meter!Slot \/ Meter!Reads
    PROVE  MetersAreTyped'
<1>1. WorkerTypes /\ SharedTypes /\ PublishedTypes
  BY DEF MetersAreTyped
<1>2. /\ UNCHANGED <<configuration, busReady, notified, mine, published, announced, time>>
      /\ \/ readings' = readings
         \/ readings' = [readings EXCEPT ![meterSlot] = reading]
  BY DEF Meter!Slot, Meter!Reads, Meter!ReadElectrical, Meter!CommitElectrical,
         Meter!EnergyNotDue, Meter!ReadEnergy, Meter!CommitEnergy, Meter!commitReading,
         Meter!sharedVars, Meter!mainVars
<1>3. Meter!Taken \in Meter!Sample
  <2>1. mine.configuration[meterSlot] \in Meters \cup {Meter!Off}
    BY <1>1 DEF WorkerTypes, Meter!Configurations
  <2> QED  BY <1>1, <2>1 DEF PublishedTypes, Meter!Taken, Meter!Sample
<1>4. /\ meterSlot' \in Slots /\ reading' \in Meter!Reading
      /\ worker' \in {"rest", "slot", "electrical", "measured", "energy", "counted"}
  <2>1. /\ meterSlot \in Slots /\ reading \in Meter!Reading
        /\ readings[meterSlot] \in Meter!Reading
    BY <1>1 DEF WorkerTypes, SharedTypes
  <2>2. CASE Meter!Slot
    BY <2>1, <2>2, NextSlotTypes DEF Meter!Slot, Meter!Goto
  <2>3. CASE Meter!ReadElectrical \/ Meter!ReadEnergy
    <3>1. /\ meterSlot' = meterSlot /\ worker' \in {"measured", "counted"}
          /\ reading' \in {[reading EXCEPT !.electrical = Meter!Taken],
                           [reading EXCEPT !.electrical = Meter!Invalid],
                           [reading EXCEPT !.energy = Meter!Taken],
                           [reading EXCEPT !.energy = Meter!Invalid]}
      BY <2>3 DEF Meter!ReadElectrical, Meter!ReadEnergy, Meter!Goto
    <3> QED  BY <1>3, <2>1, <3>1, ReadingTypes
  <2>4. CASE Meter!CommitElectrical \/ Meter!EnergyNotDue \/ Meter!CommitEnergy
    BY <2>1, <2>4, NextSlotTypes
       DEF Meter!CommitElectrical, Meter!EnergyNotDue, Meter!CommitEnergy, Meter!Goto
  <2> QED  BY <2>2, <2>3, <2>4 DEF Meter!Reads
<1>5. WorkerTypes'
  <2>1. worker' \in Places
    BY <1>4 DEF Places
  <2> QED  BY <1>1, <1>2, <1>4, <2>1 DEF WorkerTypes
<1>6. SharedTypes'
  BY <1>1, <1>2 DEF WorkerTypes, SharedTypes
<1>7. PublishedTypes'
  BY <1>1, <1>2 DEF PublishedTypes
<1> QED  BY <1>5, <1>6, <1>7 DEF MetersAreTyped

\* What Publisher::tick makes of what it published before.
LEMMA PublishedTyped ==
    ASSUME SharedTypes, NEW before, NEW sent, NEW now,
           before = [generation |-> before.generation, electrical |-> before.electrical,
                     online |-> before.online],
           before.electrical \in [Slots -> Meter!Times],
           before.online \in [Slots -> {"unknown", "online", "offline"}],
           published' = Meter!Published(before, sent, now)
    PROVE  /\ published'.electrical \in [Slots -> Meter!Times]
           /\ published'.online \in [Slots -> {"unknown", "online", "offline"}]
<1> DEFINE online == [s \in Slots |-> IF s \in sent
                        THEN IF Meter!Online(s, now) THEN "online" ELSE "offline"
                        ELSE before.online[s]]
           electrical == [s \in Slots |-> IF s \in sent /\ Meter!Online(s, now)
                            THEN readings[s].electrical.at ELSE before.electrical[s]]
<1>1. published' = [generation |-> before.generation, electrical |-> electrical,
                    online |-> online]
  BY DEF Meter!Published
<1>2. online \in [Slots -> {"unknown", "online", "offline"}]
  OBVIOUS
<1>3. electrical \in [Slots -> Meter!Times]
  <2>1. \A s \in Slots : readings[s].electrical.at \in Meter!Times
    BY ReadingTypes DEF SharedTypes
  <2> QED  BY <2>1
<1> HIDE DEF online, electrical
<1>4. published'.electrical = electrical /\ published'.online = online
  BY <1>1
<1> QED  BY <1>2, <1>3, <1>4

\* A tick publishes from the readings.
LEMMA PublishTypes == ASSUME MeterInv, MetersAreTyped, Publishes PROVE MetersAreTyped'
<1>1. WorkerTypes /\ SharedTypes /\ PublishedTypes /\ MeterTypes
  BY DEF MetersAreTyped, MeterInv
<1>2. PICK sent \in SUBSET Slots, now \in 1 .. time :
        \/ Meter!Publish(sent, now)
        \/ Meter!Rediscover(Slots, sent, now)
        \/ \E announces \in SUBSET Slots : Meter!Rediscover(announces, {}, now)
  BY DEF Publishes
<1>3. UNCHANGED <<configuration, configurationGeneration, readings, busReady, notified, worker,
                  mine, bus, meterSlot, reading, time>>
  BY <1>2 DEF Meter!Publish, Meter!Rediscover, Meter!sharedVars, Meter!workerVars
<1>4. WorkerTypes' /\ SharedTypes'
  BY <1>1, <1>3 DEF WorkerTypes, SharedTypes
<1>5. CASE Meter!Publish(sent, now)
  <2>1. published' = Meter!Published(published, sent, now) /\ announced' = announced
    BY <1>5 DEF Meter!Publish
  <2>2. published = [generation |-> published.generation,
                     electrical |-> published.electrical, online |-> published.online]
    BY <1>1 DEF MeterTypes
  <2>3. /\ published'.electrical \in [Slots -> Meter!Times]
        /\ published'.online \in [Slots -> {"unknown", "online", "offline"}]
    BY <1>1, <2>1, <2>2, PublishedTyped DEF PublishedTypes
  <2>4. PublishedTypes'
    BY <1>1, <1>3, <2>1, <2>3 DEF PublishedTypes
  <2> QED  BY <1>4, <2>4 DEF MetersAreTyped
<1>6. ASSUME NEW announces \in SUBSET Slots, NEW news \in SUBSET Slots,
             Meter!Rediscover(announces, news, now)
      PROVE  MetersAreTyped'
  <2> DEFINE nothing == Meter!NothingPublished
             fresh == [nothing EXCEPT !.generation = configurationGeneration]
  <2>1. /\ announced' = Meter!Announced(announces)
        /\ published' = IF announces = Slots THEN Meter!Published(fresh, news, now)
                        ELSE nothing
    BY <1>6 DEF Meter!Rediscover
  <2>2. /\ nothing.electrical \in [Slots -> Meter!Times]
        /\ nothing.online \in [Slots -> {"unknown", "online", "offline"}]
    BY MetersAssumption DEF Meter!NothingPublished, Meter!Times
  <2>3. /\ fresh = [generation |-> fresh.generation, electrical |-> fresh.electrical,
                    online |-> fresh.online]
        /\ fresh.electrical = nothing.electrical /\ fresh.online = nothing.online
    BY DEF Meter!NothingPublished
  <2> HIDE DEF nothing, fresh
  <2>4. /\ published'.electrical \in [Slots -> Meter!Times]
        /\ published'.online \in [Slots -> {"unknown", "online", "offline"}]
    <3>1. CASE announces = Slots
      <4>1. published' = Meter!Published(fresh, news, now)
        BY <2>1, <3>1
      <4> QED  BY <1>1, <2>2, <2>3, <4>1, PublishedTyped
    <3>2. CASE announces # Slots
      BY <2>1, <2>2, <3>2
    <3> QED  BY <3>1, <3>2
  <2>5. announced' \in [Slots -> Meters \cup {Meter!Off}]
    <3>1. /\ configuration \in [Slots -> Meters \cup {Meter!Off}]
          /\ announced \in [Slots -> Meters \cup {Meter!Off}]
      BY <1>1 DEF SharedTypes, PublishedTypes, Meter!Configurations
    <3> QED  BY <2>1, <3>1 DEF Meter!Announced
  <2>6. PublishedTypes'
    BY <1>1, <1>3, <2>4, <2>5 DEF PublishedTypes
  <2> QED  BY <1>4, <2>6 DEF MetersAreTyped
<1> QED  BY <1>2, <1>5, <1>6

\* Every step keeps the types of the meters.
LEMMA MetersTypedStep ==
    ASSUME MeterInv, MetersAreTyped, [Meter!Next]_meterVars
    PROVE  MetersAreTyped'
<1>1. WorkerTypes /\ SharedTypes /\ PublishedTypes
  BY DEF MetersAreTyped
<1>2. CASE Meter!Elapse \/ UNCHANGED meterVars
  <2>1. UNCHANGED <<configuration, configurationGeneration, readings, busReady, notified,
                    worker, mine, bus, meterSlot, reading, published, announced>>
    BY <1>2 DEF Meter!Elapse, meterVars, Meter!sharedVars, Meter!workerVars, Meter!mainVars
  <2>2. WorkerTypes' /\ SharedTypes'
    BY <1>1, <2>1 DEF WorkerTypes, SharedTypes
  <2>3. time' \in Meter!Times
    <3>1. time' = time \/ (time < MaxTime /\ time' = time + 1)
      BY <1>2 DEF Meter!Elapse, meterVars
    <3> QED  BY <1>1, <3>1, MetersAssumption DEF PublishedTypes, Meter!Times
  <2>4. PublishedTypes'
    BY <1>1, <2>1, <2>3 DEF PublishedTypes
  <2> QED  BY <2>2, <2>4 DEF MetersAreTyped
<1>3. CASE Meter!Worker
  BY <1>3, PrepareTypes, ReadTypes DEF Meter!Worker
<1> QED
  BY <1>2, <1>3, ConfigureTypes, PublishTypes DEF Meter!Next, Publishes

\* They are so at the start.
LEMMA MetersTypedInit == Meter!Init => MetersAreTyped
<1> SUFFICES ASSUME Meter!Init PROVE MetersAreTyped
  OBVIOUS
<1>1. WorkerTypes
  <2>1. worker \in Places
    BY DEF Meter!Init, Places
  <2>2. mine.configuration \in Meter!Configurations /\ notified \in BOOLEAN
    BY DEF Meter!Init
  <2>3. meterSlot \in Slots /\ reading \in Meter!Reading
    BY MetersAssumption, ReadingTypes DEF Meter!Init
  <2> QED  BY <2>1, <2>2, <2>3 DEF WorkerTypes
<1>2. SharedTypes
  BY ReadingTypes DEF Meter!Init, SharedTypes
<1>3. PublishedTypes
  <2>1. /\ published.electrical \in [Slots -> Meter!Times]
        /\ published.online \in [Slots -> {"unknown", "online", "offline"}]
    BY MetersAssumption DEF Meter!Init, Meter!NothingPublished, Meter!Times
  <2>2. announced \in [Slots -> Meters \cup {Meter!Off}] /\ time \in Meter!Times
    BY MetersAssumption DEF Meter!Init, Meter!Times
  <2> QED  BY <2>1, <2>2 DEF PublishedTypes
<1> QED  BY <1>1, <1>2, <1>3 DEF MetersAreTyped

-----------------------------------------------------------------------------
(* The Companion's end.  An identifier is given to one request, only a     *)
(* refused read comes to a second attempt, and the chain lists the         *)
(* services whose promise is open, in the order they were called in: only  *)
(* the first of them has been begun.                                       *)

CallRecords ==
    [kind : Tab!Kinds, socket : Nat, phase : Tab!Phases, id : Nat, attempt : Nat,
     result : Tab!Results \cup {"none"}]

CallTypes ==
    /\ calls \in Seq(CallRecords) /\ serviceTail \in Seq(Nat)
    /\ nextRequestId \in Nat \ {0} /\ sockets \in Nat
    /\ unanswered \subseteq Nat \X Nat

IdsMatch ==
    /\ \A a \in unanswered : a[1] < nextRequestId
    /\ \A c \in Tab!Calls : calls[c].id < nextRequestId
    /\ \A a \in unanswered, c \in Tab!Calls : Tab!Awaits(c, a[1]) => a[2] = c

RetriesAreReads ==
    \A c \in Tab!Calls : calls[c].attempt > 0 \/ calls[c].phase = "pause"
      => calls[c].kind = "read"

ConfigurationsAreSent ==
    \A c \in Tab!Calls : calls[c].kind = "configure"
      => calls[c].phase \in {"pending", "settled"}

\* The promise of a service that is not settled.
IsOpen(r) == r.kind \in Tab!Services /\ r.phase # "settled"

ChainInOrder ==
    /\ \A i \in 1 .. Len(serviceTail) :
         serviceTail[i] \in Tab!Calls /\ IsOpen(calls[serviceTail[i]])
    /\ \A i, j \in 1 .. Len(serviceTail) : i < j => serviceTail[i] < serviceTail[j]
    /\ \A c \in Tab!Calls : IsOpen(calls[c])
         => \E i \in 1 .. Len(serviceTail) : serviceTail[i] = c
    /\ \A i \in 1 .. Len(serviceTail) : calls[serviceTail[i]].phase = "chained" <=> i > 1

CallsInv == CallTypes /\ IdsMatch /\ RetriesAreReads /\ ConfigurationsAreSent /\ ChainInOrder

SocketTypes ==
    /\ tabSocket \in {"none", "connecting", "open", "closing"}
    /\ explicitlyDisconnected \in BOOLEAN /\ reconnectTimer \in BOOLEAN
    /\ foreign \in 0 .. MaxForeign

\* The inductive invariant of the Companion's end.
TabInv == CallsInv /\ SocketTypes /\ Tab!OneReconnectLoop

\* A function on an initial segment is a sequence.
LEMMA SegmentIsSequence ==
    ASSUME NEW S, NEW n \in Nat, NEW f \in [1 .. n -> S]
    PROVE  f \in Seq(S) /\ Len(f) = n
  OBVIOUS

\* The records of the calls.
LEMMA RecordFacts ==
    /\ \A result \in Tab!Results :
         /\ Tab!Settled(result) \in CallRecords
         /\ Tab!Settled(result).phase = "settled" /\ Tab!Settled(result).id = 0
         /\ Tab!Settled(result).kind = "command" /\ Tab!Settled(result).attempt = 0
         /\ Tab!Settled(result).result = result
    /\ \A r \in CallRecords :
         /\ [r EXCEPT !.phase = "due"] \in CallRecords
         /\ [r EXCEPT !.phase = "due"].phase = "due"
         /\ [r EXCEPT !.phase = "due"].kind = r.kind
         /\ [r EXCEPT !.phase = "due"].id = r.id
         /\ [r EXCEPT !.phase = "due"].attempt = r.attempt
         /\ [r EXCEPT !.phase = "due"].result = r.result
         /\ r.id \in Nat /\ r.attempt \in Nat /\ r.kind \in Tab!Kinds /\ r.phase \in Tab!Phases
<1>1. ASSUME NEW result \in Tab!Results
      PROVE  /\ Tab!Settled(result) \in CallRecords
             /\ Tab!Settled(result).phase = "settled" /\ Tab!Settled(result).id = 0
             /\ Tab!Settled(result).kind = "command" /\ Tab!Settled(result).attempt = 0
             /\ Tab!Settled(result).result = result
  <2>1. "command" \in Tab!Kinds /\ "settled" \in Tab!Phases /\ 0 \in Nat
        /\ result \in Tab!Results \cup {"none"}
    BY DEF Tab!Kinds, Tab!Phases
  <2> QED  BY <2>1 DEF Tab!Settled, CallRecords
<1>2. ASSUME NEW r \in CallRecords
      PROVE  /\ [r EXCEPT !.phase = "due"] \in CallRecords
             /\ [r EXCEPT !.phase = "due"].phase = "due"
             /\ [r EXCEPT !.phase = "due"].kind = r.kind
             /\ [r EXCEPT !.phase = "due"].id = r.id
             /\ [r EXCEPT !.phase = "due"].attempt = r.attempt
             /\ [r EXCEPT !.phase = "due"].result = r.result
             /\ r.id \in Nat /\ r.attempt \in Nat /\ r.kind \in Tab!Kinds
                  /\ r.phase \in Tab!Phases
  <2>1. "due" \in Tab!Phases
    BY DEF Tab!Phases
  <2> QED  BY <2>1 DEF CallRecords
<1> QED  BY <1>1, <1>2

\* What goes on behind a service that is done, in terms of the chain.
LEMMA BehindFacts ==
    ASSUME serviceTail \in Seq(Nat), NEW S
    PROVE  /\ Tab!Behind(S) \in Seq(Nat)
           /\ serviceTail # <<>> => Len(serviceTail) >= 1 /\ Head(serviceTail) = serviceTail[1]
           /\ \/ /\ serviceTail # <<>> /\ serviceTail[1] \in S
                 /\ Len(Tab!Behind(S)) = Len(serviceTail) - 1
                 /\ \A i \in 1 .. Len(serviceTail) - 1 : Tab!Behind(S)[i] = serviceTail[i + 1]
              \/ /\ serviceTail = <<>> \/ serviceTail[1] \notin S
                 /\ Tab!Behind(S) = serviceTail
<1>1. serviceTail # <<>> => /\ Len(serviceTail) >= 1 /\ Head(serviceTail) = serviceTail[1]
                            /\ Tail(serviceTail) \in Seq(Nat)
                            /\ Len(Tail(serviceTail)) = Len(serviceTail) - 1
                            /\ \A i \in 1 .. Len(serviceTail) - 1 :
                                 Tail(serviceTail)[i] = serviceTail[i + 1]
  OBVIOUS
<1> QED  BY <1>1 DEF Tab!Behind

\* Promises that have been begun are settled, and the chain goes on behind them.
LEMMA SettleStep ==
    ASSUME CallsInv, NEW S \in SUBSET Tab!Calls, NEW result \in Tab!Results,
           \A c \in S : calls[c].phase \in {"due", "pending"},
           serviceTail' = Tab!Behind(S),
           calls' = Tab!Advanced([c \in Tab!Calls |-> IF c \in S THEN Tab!Settled(result)
                                    ELSE calls[c]],
                             Tab!Behind(S)),
           nextRequestId' = nextRequestId, unanswered' \subseteq unanswered,
           sockets' = sockets
    PROVE  /\ CallsInv' /\ Len(calls') = Len(calls)
           /\ \A c \in S : calls'[c] = Tab!Settled(result)
           /\ \A c \in Tab!Calls \ S : calls'[c].phase = "settled"
                => calls[c].phase = "settled"
<1> DEFINE list == [c \in Tab!Calls |-> IF c \in S THEN Tab!Settled(result) ELSE calls[c]]
           rest == Tab!Behind(S)
           Moves(c) == rest # <<>> /\ c = Head(rest) /\ calls[c].phase = "chained"
             /\ c \notin S
<1>1. /\ calls \in Seq(CallRecords) /\ serviceTail \in Seq(Nat)
      /\ nextRequestId \in Nat \ {0} /\ sockets \in Nat /\ unanswered \subseteq Nat \X Nat
      /\ Len(calls) \in Nat /\ Len(serviceTail) \in Nat
      /\ \A c \in Tab!Calls : calls[c] \in CallRecords
  BY DEF CallsInv, CallTypes, Tab!Calls
<1>2. /\ Tab!Settled(result) \in CallRecords
      /\ Tab!Settled(result).phase = "settled" /\ Tab!Settled(result).id = 0
      /\ Tab!Settled(result).kind = "command" /\ Tab!Settled(result).attempt = 0
  BY RecordFacts
<1>3. calls' = [c \in Tab!Calls |-> IF rest # <<>> /\ c = Head(rest)
                  /\ list[c].phase = "chained"
                                THEN [list[c] EXCEPT !.phase = "due"] ELSE list[c]]
  BY DEF Tab!Advanced
<1>4. /\ \A c \in S : calls'[c] = Tab!Settled(result)
      /\ \A c \in Tab!Calls \ S : Moves(c) => calls'[c] = [calls[c] EXCEPT !.phase = "due"]
      /\ \A c \in Tab!Calls \ S : ~Moves(c) => calls'[c] = calls[c]
  <2>1. \A c \in S : list[c] = Tab!Settled(result) /\ list[c].phase # "chained"
    BY <1>2
  <2>2. \A c \in Tab!Calls \ S : list[c] = calls[c]
    OBVIOUS
  <2> HIDE DEF list, rest
  <2> QED  BY <1>3, <2>1, <2>2
<1> HIDE DEF list, Moves
<1>5. \A c \in Tab!Calls \ S : Moves(c) =>
        /\ calls'[c] \in CallRecords /\ calls'[c].phase = "due"
             /\ calls'[c].kind = calls[c].kind
        /\ calls'[c].id = calls[c].id /\ calls'[c].attempt = calls[c].attempt
        /\ calls[c].phase = "chained"
  <2> SUFFICES ASSUME NEW c \in Tab!Calls \ S, Moves(c)
               PROVE  /\ calls'[c] \in CallRecords /\ calls'[c].phase = "due"
                      /\ calls'[c].kind = calls[c].kind /\ calls'[c].id = calls[c].id
                      /\ calls'[c].attempt = calls[c].attempt /\ calls[c].phase = "chained"
    OBVIOUS
  <2>1. calls[c].phase = "chained"
    BY DEF Moves
  <2>2. calls[c] \in CallRecords /\ calls'[c] = [calls[c] EXCEPT !.phase = "due"]
    BY <1>1, <1>4
  <2>3. ASSUME NEW r \in CallRecords, r = calls[c]
        PROVE  /\ calls'[c] \in CallRecords /\ calls'[c].phase = "due"
               /\ calls'[c].kind = r.kind /\ calls'[c].id = r.id
               /\ calls'[c].attempt = r.attempt
    <3>1. calls'[c] = [r EXCEPT !.phase = "due"]
      BY <2>2, <2>3
    <3>2. "due" \in Tab!Phases
      BY DEF Tab!Phases
    <3> QED  BY <3>1, <3>2 DEF CallRecords
  <2> QED  BY <2>1, <2>2, <2>3
<1>6. /\ \A c \in Tab!Calls : calls'[c] \in CallRecords
      /\ \A c \in Tab!Calls \ S :
           /\ calls'[c].kind = calls[c].kind /\ calls'[c].id = calls[c].id
           /\ calls'[c].attempt = calls[c].attempt
           /\ \/ calls'[c].phase = calls[c].phase
              \/ calls[c].phase = "chained" /\ calls'[c].phase = "due" /\ Moves(c)
  BY <1>1, <1>2, <1>4, <1>5
<1>7. calls' \in Seq(CallRecords) /\ Len(calls') = Len(calls) /\ Tab!Calls' = Tab!Calls
  <2>1. calls' \in [1 .. Len(calls) -> CallRecords]
    <3>1. calls' = [c \in 1 .. Len(calls) |-> calls'[c]]
      BY <1>3 DEF Tab!Calls
    <3> QED  BY <1>6, <3>1 DEF Tab!Calls
  <2> QED  BY <1>1, <2>1, SegmentIsSequence DEF Tab!Calls
<1>8. serviceTail' \in Seq(Nat)
  BY <1>1, BehindFacts
<1>9. CallTypes'
  BY <1>1, <1>7, <1>8 DEF CallTypes
<1>10. IdsMatch'
  <2>1. /\ \A a \in unanswered : a[1] < nextRequestId
        /\ \A c \in Tab!Calls : calls[c].id < nextRequestId
        /\ \A a \in unanswered, c \in Tab!Calls :
             calls[c].phase = "pending" /\ calls[c].id = a[1] => a[2] = c
    BY DEF CallsInv, IdsMatch, Tab!Awaits
  <2>2. \A c \in Tab!Calls : calls'[c].id < nextRequestId
    <3>1. 0 < nextRequestId
      BY <1>1
    <3> QED  BY <1>2, <1>4, <1>6, <2>1, <3>1
  <2>3. \A c \in Tab!Calls : calls'[c].phase = "pending" =>
          calls[c].phase = "pending" /\ calls'[c].id = calls[c].id
    BY <1>2, <1>4, <1>6
  <2> QED  BY <1>7, <2>1, <2>2, <2>3 DEF IdsMatch, Tab!Awaits
<1>11. RetriesAreReads'
  <2>1. \A c \in Tab!Calls : calls'[c].attempt > 0 \/ calls'[c].phase = "pause" =>
          c \notin S /\ calls'[c].kind = calls[c].kind
          /\ (calls[c].attempt > 0 \/ calls[c].phase = "pause")
    BY <1>2, <1>4, <1>6
  <2> QED  BY <1>7, <2>1 DEF CallsInv, RetriesAreReads
<1>12. ConfigurationsAreSent'
  <2>1. \A c \in Tab!Calls : calls'[c].kind = "configure" =>
          c \notin S /\ calls[c].kind = "configure" /\ calls'[c].phase = calls[c].phase
    BY <1>2, <1>4, <1>6 DEF CallsInv, ConfigurationsAreSent
  <2> QED  BY <1>7, <2>1 DEF CallsInv, ConfigurationsAreSent
<1>13. /\ \A i \in 1 .. Len(serviceTail) :
             serviceTail[i] \in Tab!Calls /\ IsOpen(calls[serviceTail[i]])
       /\ \A i, j \in 1 .. Len(serviceTail) : i < j => serviceTail[i] < serviceTail[j]
       /\ \A c \in Tab!Calls : IsOpen(calls[c])
            => \E i \in 1 .. Len(serviceTail) : serviceTail[i] = c
       /\ \A i \in 1 .. Len(serviceTail) : calls[serviceTail[i]].phase = "chained" <=> i > 1
  BY DEF CallsInv, ChainInOrder
<1>14. \A c \in Tab!Calls : IsOpen(calls'[c]) <=> c \notin S /\ IsOpen(calls[c])
  BY <1>2, <1>4, <1>6 DEF IsOpen
<1>15. ChainInOrder'
  <2>1. CASE /\ serviceTail # <<>> /\ serviceTail[1] \in S
             /\ Len(rest) = Len(serviceTail) - 1
             /\ \A i \in 1 .. Len(serviceTail) - 1 : rest[i] = serviceTail[i + 1]
    <3>1. rest \in Seq(Nat) /\ Len(serviceTail) >= 1 /\ Len(rest) \in Nat
      BY <1>1, <2>1, BehindFacts
    <3>2. \A i \in 1 .. Len(rest) : i + 1 \in 1 .. Len(serviceTail)
            /\ rest[i] = serviceTail[i + 1]
      BY <1>1, <2>1, <3>1
    <3>3. \A i \in 1 .. Len(rest) :
            rest[i] \in Tab!Calls /\ IsOpen(calls[rest[i]]) /\ calls[rest[i]].phase = "chained"
            /\ rest[i] \notin S
      <4> SUFFICES ASSUME NEW i \in 1 .. Len(rest)
                   PROVE  rest[i] \in Tab!Calls /\ IsOpen(calls[rest[i]])
                            /\ calls[rest[i]].phase = "chained" /\ rest[i] \notin S
        OBVIOUS
      <4>1. i + 1 \in 1 .. Len(serviceTail) /\ rest[i] = serviceTail[i + 1] /\ i + 1 > 1
        BY <3>1, <3>2
      <4>2. rest[i] \in Tab!Calls /\ IsOpen(calls[rest[i]]) /\ calls[rest[i]].phase = "chained"
        BY <1>13, <4>1
      <4> QED  BY <4>2
    <3>4. \A i, j \in 1 .. Len(rest) : i < j => rest[i] < rest[j]
      <4> SUFFICES ASSUME NEW i \in 1 .. Len(rest), NEW j \in 1 .. Len(rest), i < j
                   PROVE  rest[i] < rest[j]
        OBVIOUS
      <4>1. /\ i + 1 \in 1 .. Len(serviceTail) /\ rest[i] = serviceTail[i + 1]
            /\ j + 1 \in 1 .. Len(serviceTail) /\ rest[j] = serviceTail[j + 1] /\ i + 1 < j + 1
        BY <3>1, <3>2
      <4> QED  BY <1>13, <4>1
    <3>5. \A c \in Tab!Calls : c \notin S /\ IsOpen(calls[c])
            => \E i \in 1 .. Len(rest) : rest[i] = c
      <4> SUFFICES ASSUME NEW c \in Tab!Calls, c \notin S, IsOpen(calls[c])
                   PROVE  \E i \in 1 .. Len(rest) : rest[i] = c
        OBVIOUS
      <4>1. PICK j \in 1 .. Len(serviceTail) : serviceTail[j] = c
        BY <1>13
      <4>2. j # 1
        BY <2>1, <4>1
      <4>3. j - 1 \in 1 .. Len(rest) /\ (j - 1) + 1 = j
        BY <1>1, <2>1, <4>2
      <4> QED  BY <3>2, <4>1, <4>3
    <3>6. \A i \in 1 .. Len(rest) : calls'[rest[i]].phase = "chained" <=> i > 1
      <4> SUFFICES ASSUME NEW i \in 1 .. Len(rest)
                   PROVE  calls'[rest[i]].phase = "chained" <=> i > 1
        OBVIOUS
      <4>1. rest # <<>> /\ Head(rest) = rest[1] /\ 1 \in 1 .. Len(rest)
        BY <3>1
      <4>2. rest[i] \in Tab!Calls \ S /\ calls[rest[i]].phase = "chained"
        BY <3>3
      <4>3. CASE i = 1
        <5>1. Moves(rest[i])
          BY <4>1, <4>2, <4>3 DEF Moves
        <5>2. calls'[rest[i]].phase = "due"
          BY <1>5, <4>2, <5>1
        <5> QED  BY <4>3, <5>2
      <4>4. CASE i > 1
        <5>1. rest[1] < rest[i] /\ rest[1] \in Nat /\ rest[i] \in Nat
          BY <3>1, <3>4, <4>1, <4>4
        <5>2. ~Moves(rest[i])
          BY <4>1, <5>1 DEF Moves
        <5> QED  BY <1>4, <4>2, <4>4, <5>2
      <4> QED  BY <3>1, <4>3, <4>4
    <3> HIDE DEF rest
    <3>7. serviceTail' = rest
      BY DEF rest
    <3>8. \A i \in 1 .. Len(rest) : rest[i] \in Tab!Calls /\ IsOpen(calls'[rest[i]])
      BY <1>14, <3>3
    <3>9. \A c \in Tab!Calls : IsOpen(calls'[c]) => \E i \in 1 .. Len(rest) : rest[i] = c
      BY <1>14, <3>5
    <3> QED  BY <1>7, <3>4, <3>6, <3>7, <3>8, <3>9 DEF ChainInOrder, IsOpen
  <2>2. CASE (serviceTail = <<>> \/ serviceTail[1] \notin S) /\ rest = serviceTail
    <3>1. \A c \in S : ~IsOpen(calls[c])
      <4> SUFFICES ASSUME NEW c \in S, IsOpen(calls[c]) PROVE FALSE
        OBVIOUS
      <4>1. PICK i \in 1 .. Len(serviceTail) : serviceTail[i] = c
        BY <1>13
      <4>2. i = 1
        <5>1. calls[serviceTail[i]].phase # "chained"
          BY <4>1
        <5>2. ~(i > 1)
          BY <1>13, <5>1
        <5> QED  BY <1>1, <5>2
      <4>3. serviceTail # <<>>
        BY <1>1, <4>1
      <4> QED  BY <2>2, <4>1, <4>2, <4>3
    <3>2. \A i \in 1 .. Len(serviceTail) : serviceTail[i] \in Tab!Calls \ S
      BY <1>13, <3>1
    <3>3. \A i \in 1 .. Len(serviceTail) : ~Moves(serviceTail[i])
      <4> SUFFICES ASSUME NEW i \in 1 .. Len(serviceTail), Moves(serviceTail[i]) PROVE FALSE
        OBVIOUS
      <4>1. serviceTail # <<>> /\ serviceTail[i] = Head(serviceTail)
            /\ calls[serviceTail[i]].phase = "chained"
        BY <2>2 DEF Moves
      <4>2. Head(serviceTail) = serviceTail[1] /\ 1 \in 1 .. Len(serviceTail)
        BY <1>1, <4>1, BehindFacts
      <4>3. calls[serviceTail[1]].phase # "chained"
        BY <1>13, <4>2
      <4> QED  BY <4>1, <4>2, <4>3
    <3>4. \A i \in 1 .. Len(serviceTail) : calls'[serviceTail[i]] = calls[serviceTail[i]]
      BY <1>4, <3>2, <3>3
    <3>5. serviceTail' = serviceTail
      BY <2>2
    <3>6. \A i \in 1 .. Len(serviceTail) :
            serviceTail[i] \in Tab!Calls /\ IsOpen(calls'[serviceTail[i]])
      BY <1>13, <3>4
    <3>7. \A c \in Tab!Calls : IsOpen(calls'[c]) =>
            \E i \in 1 .. Len(serviceTail) : serviceTail[i] = c
      BY <1>13, <1>14
    <3>8. \A i \in 1 .. Len(serviceTail) : calls'[serviceTail[i]].phase = "chained" <=> i > 1
      BY <1>13, <3>4
    <3>9. \A i, j \in 1 .. Len(serviceTail) : i < j => serviceTail[i] < serviceTail[j]
      BY <1>13
    <3>10. \A i \in 1 .. Len(serviceTail') :
             serviceTail'[i] \in Tab!Calls' /\ IsOpen(calls'[serviceTail'[i]])
      BY <1>7, <3>5, <3>6, <3>7, <3>8, <3>9
    <3>11. \A i, j \in 1 .. Len(serviceTail') : i < j => serviceTail'[i] < serviceTail'[j]
      BY <1>7, <3>5, <3>6, <3>7, <3>8, <3>9
    <3>12. \A c \in Tab!Calls' : IsOpen(calls'[c])
             => \E i \in 1 .. Len(serviceTail') : serviceTail'[i] = c
      BY <1>7, <3>5, <3>6, <3>7, <3>8, <3>9
    <3>13. \A i \in 1 .. Len(serviceTail') : calls'[serviceTail'[i]].phase = "chained"
             <=> i > 1
      BY <1>7, <3>5, <3>6, <3>7, <3>8, <3>9
    <3> QED  BY <3>10, <3>11, <3>12, <3>13 DEF ChainInOrder, IsOpen
  <2> QED  BY <1>1, <2>1, <2>2, BehindFacts
<1>16. \A c \in Tab!Calls \ S : calls'[c].phase = "settled" => calls[c].phase = "settled"
  BY <1>6
<1> QED
  BY <1>4, <1>7, <1>9, <1>10, <1>11, <1>12, <1>15, <1>16 DEF CallsInv

\* What the invariant says of each call.
LEMMA CallFacts ==
    ASSUME CallsInv
    PROVE  /\ calls \in Seq(CallRecords) /\ serviceTail \in Seq(Nat)
           /\ nextRequestId \in Nat /\ 0 < nextRequestId /\ nextRequestId # 0
           /\ sockets \in Nat /\ unanswered \subseteq Nat \X Nat
           /\ Len(calls) \in Nat /\ Len(serviceTail) \in Nat
           /\ \A c \in Tab!Calls : calls[c] \in CallRecords /\ c \in 1 .. Len(calls)
                /\ calls[c].id \in Nat /\ calls[c].id < nextRequestId
           /\ \A a \in unanswered : a[1] < nextRequestId /\ a[1] \in Nat
           /\ \A a \in unanswered, c \in Tab!Calls :
                calls[c].phase = "pending" /\ calls[c].id = a[1] => a[2] = c
<1>1. /\ calls \in Seq(CallRecords) /\ serviceTail \in Seq(Nat)
      /\ nextRequestId \in Nat /\ 0 < nextRequestId /\ nextRequestId # 0
      /\ sockets \in Nat /\ unanswered \subseteq Nat \X Nat
      /\ Len(calls) \in Nat /\ Len(serviceTail) \in Nat
  BY DEF CallsInv, CallTypes
<1>2. \A c \in Tab!Calls : calls[c] \in CallRecords /\ c \in 1 .. Len(calls)
  BY <1>1 DEF Tab!Calls
<1>3. \A c \in Tab!Calls : calls[c].id \in Nat
  BY <1>2, RecordFacts
<1>4. /\ \A a \in unanswered : a[1] < nextRequestId
      /\ \A c \in Tab!Calls : calls[c].id < nextRequestId
      /\ \A a \in unanswered, c \in Tab!Calls :
           calls[c].phase = "pending" /\ calls[c].id = a[1] => a[2] = c
  BY DEF CallsInv, IdsMatch, Tab!Awaits
<1>5. \A a \in unanswered : a[1] \in Nat
  BY <1>1
<1> QED  BY <1>1, <1>2, <1>3, <1>4, <1>5

\* The identifiers match when each is older than the next, and that of a promise that
\* waits is the one of its request.
LEMMA IdsKept ==
    ASSUME \A a \in unanswered' : a[1] < nextRequestId',
           \A c \in Tab!Calls' : calls'[c].id < nextRequestId',
           \A a \in unanswered', c \in Tab!Calls' :
             calls'[c].phase = "pending" /\ calls'[c].id = a[1] => a[2] = c
    PROVE  IdsMatch'
  BY DEF IdsMatch, Tab!Awaits

\* The attempts and the configurations, call by call.
LEMMA KindsKept ==
    ASSUME \A c \in Tab!Calls' :
             /\ calls'[c].attempt > 0 \/ calls'[c].phase = "pause" => calls'[c].kind = "read"
             /\ calls'[c].kind = "configure" => calls'[c].phase \in {"pending", "settled"}
    PROVE  RetriesAreReads' /\ ConfigurationsAreSent'
  BY DEF RetriesAreReads, ConfigurationsAreSent

\* The same of the present state.
LEMMA KindFacts ==
    ASSUME CallsInv
    PROVE  \A c \in Tab!Calls :
             /\ calls[c].attempt > 0 \/ calls[c].phase = "pause" => calls[c].kind = "read"
             /\ calls[c].kind = "configure" => calls[c].phase \in {"pending", "settled"}
  BY DEF CallsInv, RetriesAreReads, ConfigurationsAreSent

\* A call that is added has not been tried again.
LEMMA AddedKind ==
    ASSUME CallsInv, NEW r, NEW new, Tab!Calls' = Tab!Calls \cup {new}, calls'[new] = r,
           \A c \in Tab!Calls : calls'[c] = calls[c],
           r.phase # "pause", ~(r.attempt > 0),
           r.kind = "configure" => r.phase \in {"pending", "settled"}
    PROVE  RetriesAreReads' /\ ConfigurationsAreSent'
<1>1. ASSUME NEW c \in Tab!Calls'
      PROVE  /\ calls'[c].attempt > 0 \/ calls'[c].phase = "pause" => calls'[c].kind = "read"
             /\ calls'[c].kind = "configure" => calls'[c].phase \in {"pending", "settled"}
  <2>1. CASE c \in Tab!Calls
    <3>1. calls'[c] = calls[c]
      BY <2>1
    <3> QED  BY <2>1, <3>1, KindFacts
  <2>2. CASE c = new
    <3>1. calls'[c] = r
      BY <2>2
    <3> QED  BY <3>1
  <2> QED  BY <2>1, <2>2
<1> QED  BY <1>1, KindsKept

\* The chain, of the present state.
LEMMA ChainFacts ==
    ASSUME CallsInv
    PROVE  /\ \A i \in 1 .. Len(serviceTail) :
                serviceTail[i] \in Tab!Calls /\ IsOpen(calls[serviceTail[i]])
           /\ \A i, j \in 1 .. Len(serviceTail) : i < j => serviceTail[i] < serviceTail[j]
           /\ \A c \in Tab!Calls : IsOpen(calls[c]) =>
                \E i \in 1 .. Len(serviceTail) : serviceTail[i] = c
           /\ \A i \in 1 .. Len(serviceTail) : calls[serviceTail[i]].phase = "chained"
                <=> i > 1
  BY DEF CallsInv, ChainInOrder

\* The chain stays in order when it stays as it is and so do the services in it.
LEMMA ChainKept ==
    ASSUME CallsInv, serviceTail' = serviceTail, Tab!Calls \subseteq Tab!Calls',
           \A c \in Tab!Calls : IsOpen(calls'[c]) <=> IsOpen(calls[c]),
           \A c \in Tab!Calls : IsOpen(calls[c]) =>
                (calls'[c].phase = "chained" <=> calls[c].phase = "chained"),
           \A c \in Tab!Calls' \ Tab!Calls : ~IsOpen(calls'[c])
    PROVE  ChainInOrder'
<1> USE ChainFacts
<1>1. \A i \in 1 .. Len(serviceTail') :
        serviceTail'[i] \in Tab!Calls' /\ IsOpen(calls'[serviceTail'[i]])
  OBVIOUS
<1>2. \A i, j \in 1 .. Len(serviceTail') : i < j => serviceTail'[i] < serviceTail'[j]
  OBVIOUS
<1>3. \A c \in Tab!Calls' : IsOpen(calls'[c])
        => \E i \in 1 .. Len(serviceTail') : serviceTail'[i] = c
  OBVIOUS
<1>4. \A i \in 1 .. Len(serviceTail') : calls'[serviceTail'[i]].phase = "chained" <=> i > 1
  OBVIOUS
<1> QED  BY <1>1, <1>2, <1>3, <1>4 DEF ChainInOrder, IsOpen

\* A call that is added to those made.
LEMMA AddedCall ==
    ASSUME CallsInv, NEW r \in CallRecords, calls' = Append(calls, r)
    PROVE  /\ calls' \in Seq(CallRecords) /\ Len(calls') = Len(calls) + 1 /\ Len(calls) \in Nat
           /\ \A c \in Tab!Calls : calls'[c] = calls[c] /\ c \in Nat /\ c < Len(calls) + 1
           /\ calls'[Len(calls) + 1] = r
           /\ Tab!Calls' = Tab!Calls \cup {Len(calls) + 1}
<1>1. calls \in Seq(CallRecords)
  BY DEF CallsInv, CallTypes
<1>2. /\ calls' \in Seq(CallRecords) /\ Len(calls') = Len(calls) + 1 /\ Len(calls) \in Nat
      /\ \A c \in 1 .. Len(calls) : calls'[c] = calls[c]
      /\ calls'[Len(calls) + 1] = r
  BY <1>1
<1> QED  BY <1>2 DEF Tab!Calls

\* A call that is refused at once.
LEMMA RefusedStep ==
    ASSUME CallsInv, NEW result \in Tab!Results, calls' = Append(calls, Tab!Settled(result)),
           UNCHANGED <<serviceTail, nextRequestId, unanswered, sockets>>
    PROVE  CallsInv'
<1> DEFINE r == Tab!Settled(result)
           new == Len(calls) + 1
<1>1. r \in CallRecords /\ r.phase = "settled" /\ r.id = 0 /\ r.kind = "command"
        /\ r.attempt = 0
  BY RecordFacts
<1> HIDE DEF r
<1>2. /\ calls' \in Seq(CallRecords) /\ Len(calls') = new /\ Len(calls) \in Nat
      /\ \A c \in Tab!Calls : calls'[c] = calls[c] /\ c \in Nat /\ c < new
      /\ calls'[new] = r /\ Tab!Calls' = Tab!Calls \cup {new}
  BY <1>1, AddedCall DEF r
<1> HIDE DEF new
<1>3. serviceTail' = serviceTail /\ nextRequestId' = nextRequestId /\ sockets' = sockets
      /\ unanswered' = unanswered
  OBVIOUS
<1>4. CallTypes'
  BY <1>2, <1>3, CallFacts DEF CallTypes
<1>5. IdsMatch'
  BY <1>1, <1>2, <1>3, CallFacts, IdsKept
<1>6. RetriesAreReads' /\ ConfigurationsAreSent'
  <2>1. r.phase # "pause" /\ ~(r.attempt > 0) /\ r.kind # "configure"
    BY <1>1
  <2> QED  BY <1>2, <2>1, AddedKind
<1>7. ~IsOpen(r)
  BY <1>1 DEF IsOpen
<1>8. ChainInOrder'
  BY <1>2, <1>3, <1>7, ChainKept
<1> QED  BY <1>4, <1>5, <1>6, <1>8 DEF CallsInv

\* A service is chained behind those before it, or is due at once if there are none.
LEMMA ChainedStep ==
    ASSUME CallsInv, NEW kind \in Tab!Services,
           calls' = Append(calls,
                           Tab!New(kind, IF serviceTail = <<>> THEN "due" ELSE "chained", 0)),
           serviceTail' = Append(serviceTail, Len(calls) + 1),
           UNCHANGED <<nextRequestId, unanswered, sockets>>
    PROVE  CallsInv'
<1> DEFINE r == Tab!New(kind, IF serviceTail = <<>> THEN "due" ELSE "chained", 0)
           new == Len(calls) + 1
           last == Len(serviceTail) + 1
<1>1. /\ calls \in Seq(CallRecords) /\ serviceTail \in Seq(Nat)
      /\ nextRequestId \in Nat \ {0} /\ sockets \in Nat /\ unanswered \subseteq Nat \X Nat
      /\ Len(calls) \in Nat /\ Len(serviceTail) \in Nat
  BY DEF CallsInv, CallTypes
<1>2. /\ r.phase = IF serviceTail = <<>> THEN "due" ELSE "chained"
      /\ r.id = 0 /\ r.kind = kind /\ r.attempt = 0
  BY DEF Tab!New
<1>3. r \in CallRecords
  BY <1>1 DEF Tab!New, CallRecords, Tab!Kinds, Tab!Services, Tab!Phases
<1> HIDE DEF r
<1>4. /\ calls' \in Seq(CallRecords) /\ Len(calls') = new
      /\ \A c \in Tab!Calls : calls'[c] = calls[c] /\ c \in Nat /\ c < new
      /\ calls'[new] = r /\ Tab!Calls' = Tab!Calls \cup {new}
  BY <1>3, AddedCall DEF r
<1>5. /\ serviceTail' \in Seq(Nat) /\ Len(serviceTail') = last
      /\ \A i \in 1 .. Len(serviceTail) : serviceTail'[i] = serviceTail[i]
      /\ serviceTail'[last] = new
  BY <1>1
<1>6. new \in Nat
  BY <1>1
<1> HIDE DEF new
<1>7. CallTypes'
  BY <1>1, <1>4, <1>5 DEF CallTypes
<1>8. IdsMatch'
  <2>1. 0 < nextRequestId /\ r.phase # "pending"
    BY <1>1, <1>2
  <2>2. nextRequestId' = nextRequestId /\ unanswered' = unanswered
    OBVIOUS
  <2> QED  BY <1>2, <1>4, <2>1, <2>2, CallFacts, IdsKept
<1>9. RetriesAreReads' /\ ConfigurationsAreSent'
  <2>1. r.phase # "pause" /\ ~(r.attempt > 0) /\ r.kind # "configure"
    BY <1>2 DEF Tab!Services
  <2> QED  BY <1>4, <2>1, AddedKind
<1>10. /\ \A i \in 1 .. Len(serviceTail) :
             serviceTail[i] \in Tab!Calls /\ IsOpen(calls[serviceTail[i]])
       /\ \A i, j \in 1 .. Len(serviceTail) : i < j => serviceTail[i] < serviceTail[j]
       /\ \A c \in Tab!Calls : IsOpen(calls[c])
            => \E i \in 1 .. Len(serviceTail) : serviceTail[i] = c
       /\ \A i \in 1 .. Len(serviceTail) : calls[serviceTail[i]].phase = "chained" <=> i > 1
  BY ChainFacts
<1>11. \A i \in 1 .. last : i \in 1 .. Len(serviceTail) \/ i = last
  BY <1>1
<1>12. last \in Nat /\ last \in 1 .. last /\ 1 .. Len(serviceTail) \subseteq 1 .. last
       /\ \A i \in 1 .. Len(serviceTail) : i < last
  BY <1>1
<1> HIDE DEF last
<1>13. \A i \in 1 .. last : serviceTail'[i] \in Tab!Calls' /\ IsOpen(calls'[serviceTail'[i]])
  <2>1. IsOpen(r)
    BY <1>2 DEF IsOpen
  <2> SUFFICES ASSUME NEW i \in 1 .. last
               PROVE  serviceTail'[i] \in Tab!Calls' /\ IsOpen(calls'[serviceTail'[i]])
    OBVIOUS
  <2>2. CASE i \in 1 .. Len(serviceTail)
    <3>1. serviceTail'[i] = serviceTail[i] /\ serviceTail[i] \in Tab!Calls
          /\ IsOpen(calls[serviceTail[i]])
      BY <1>5, <1>10, <2>2
    <3>2. calls'[serviceTail[i]] = calls[serviceTail[i]]
      BY <1>4, <3>1
    <3> QED  BY <1>4, <3>1, <3>2
  <2>3. CASE i = last
    <3>1. serviceTail'[i] = new /\ calls'[new] = r
      BY <1>4, <1>5, <2>3
    <3> QED  BY <1>4, <2>1, <3>1
  <2> QED  BY <1>11, <2>2, <2>3
<1>14. \A i, j \in 1 .. last : i < j => serviceTail'[i] < serviceTail'[j]
  <2> SUFFICES ASSUME NEW i \in 1 .. last, NEW j \in 1 .. last, i < j
               PROVE  serviceTail'[i] < serviceTail'[j]
    OBVIOUS
  <2>1. i \in 1 .. Len(serviceTail)
    BY <1>11, <1>12
  <2>2. CASE j \in 1 .. Len(serviceTail)
    BY <1>5, <1>10, <2>1, <2>2
  <2>3. CASE j = last
    BY <1>4, <1>5, <1>10, <2>1, <2>3
  <2> QED  BY <1>11, <2>2, <2>3
<1>15. \A c \in Tab!Calls' : IsOpen(calls'[c]) => \E i \in 1 .. last : serviceTail'[i] = c
  <2> SUFFICES ASSUME NEW c \in Tab!Calls', IsOpen(calls'[c])
               PROVE  \E i \in 1 .. last : serviceTail'[i] = c
    OBVIOUS
  <2>1. CASE c \in Tab!Calls
    <3>1. PICK i \in 1 .. Len(serviceTail) : serviceTail[i] = c
      BY <1>4, <1>10, <2>1
    <3> QED  BY <1>5, <1>12, <3>1
  <2>2. CASE c = new
    BY <1>5, <1>12, <2>2
  <2> QED  BY <1>4, <2>1, <2>2
<1>16. \A i \in 1 .. last : calls'[serviceTail'[i]].phase = "chained" <=> i > 1
  <2> SUFFICES ASSUME NEW i \in 1 .. last
               PROVE  calls'[serviceTail'[i]].phase = "chained" <=> i > 1
    OBVIOUS
  <2>1. CASE i \in 1 .. Len(serviceTail)
    <3>1. serviceTail'[i] = serviceTail[i] /\ serviceTail[i] \in Tab!Calls
          /\ (calls[serviceTail[i]].phase = "chained" <=> i > 1)
      BY <1>5, <1>10, <2>1
    <3>2. calls'[serviceTail[i]] = calls[serviceTail[i]]
      BY <1>4, <3>1
    <3> QED  BY <3>1, <3>2
  <2>2. CASE i = last
    <3>1. serviceTail = <<>> <=> ~(last > 1)
      BY <1>1 DEF last
    <3>2. calls'[serviceTail'[i]] = r
      BY <1>4, <1>5, <2>2
    <3> QED  BY <1>2, <2>2, <3>1, <3>2
  <2> QED  BY <1>11, <2>1, <2>2
<1>17. ChainInOrder'
  BY <1>5, <1>13, <1>14, <1>15, <1>16 DEF ChainInOrder, IsOpen
<1> QED  BY <1>7, <1>8, <1>9, <1>17 DEF CallsInv

\* A configuration is sent at once, with the next identifier.
LEMMA ConfigurationSent ==
    ASSUME CallsInv, calls' = Append(calls, Tab!New("configure", "pending", nextRequestId)),
           nextRequestId' = nextRequestId + 1,
           unanswered' = unanswered \cup {<<nextRequestId, Len(calls) + 1>>},
           UNCHANGED <<serviceTail, sockets>>
    PROVE  CallsInv'
<1> DEFINE r == Tab!New("configure", "pending", nextRequestId)
           new == Len(calls) + 1
<1>1. /\ calls \in Seq(CallRecords) /\ serviceTail \in Seq(Nat)
      /\ nextRequestId \in Nat \ {0} /\ sockets \in Nat /\ unanswered \subseteq Nat \X Nat
      /\ Len(calls) \in Nat
  BY DEF CallsInv, CallTypes
<1>2. r.phase = "pending" /\ r.id = nextRequestId /\ r.kind = "configure" /\ r.attempt = 0
  BY DEF Tab!New
<1>3. r \in CallRecords
  BY <1>1 DEF Tab!New, CallRecords, Tab!Kinds, Tab!Phases
<1> HIDE DEF r
<1>4. /\ calls' \in Seq(CallRecords) /\ Len(calls') = new
      /\ \A c \in Tab!Calls : calls'[c] = calls[c] /\ c \in Nat /\ c < new
      /\ calls'[new] = r /\ Tab!Calls' = Tab!Calls \cup {new}
  BY <1>3, AddedCall DEF r
<1>5. new \in Nat
  BY <1>1
<1> HIDE DEF new
<1>6. unanswered' = unanswered \cup {<<nextRequestId, new>>}
  BY DEF new
<1>7. CallTypes'
  BY <1>1, <1>4, <1>5, <1>6 DEF CallTypes
<1>8. IdsMatch'
  <2>1. \A a \in unanswered' : a[1] < nextRequestId'
    BY <1>1, <1>6, CallFacts
  <2>2. ASSUME NEW c \in Tab!Calls' PROVE calls'[c].id < nextRequestId'
    <3>1. CASE c \in Tab!Calls
      <4>1. calls'[c] = calls[c] /\ calls[c].id \in Nat /\ calls[c].id < nextRequestId
        BY <1>4, <3>1, CallFacts
      <4>2. \A n \in Nat : n < nextRequestId => n < nextRequestId'
        BY <1>1
      <4> QED  BY <4>1, <4>2, Zenon
    <3>2. CASE c = new
      <4>1. calls'[c].id = nextRequestId
        BY <1>2, <1>4, <3>2
      <4>2. nextRequestId < nextRequestId'
        BY <1>1
      <4> QED  BY <4>1, <4>2, Zenon
    <3> QED  BY <1>4, <3>1, <3>2
  <2>3. ASSUME NEW a \in unanswered', NEW c \in Tab!Calls', calls'[c].phase = "pending",
               calls'[c].id = a[1]
        PROVE  a[2] = c
    <3>1. CASE a \in unanswered
      <4>1. a[1] < nextRequestId /\ a[1] \in Nat
        BY <3>1, CallFacts
      <4>2. c # new
        BY <1>1, <1>2, <1>4, <2>3, <4>1
      <4>3. c \in Tab!Calls /\ calls'[c] = calls[c]
        BY <1>4, <4>2
      <4> QED  BY <2>3, <3>1, <4>3, CallFacts
    <3>2. CASE a = <<nextRequestId, new>>
      <4>1. c \notin Tab!Calls
        <5> SUFFICES ASSUME c \in Tab!Calls PROVE FALSE
          OBVIOUS
        <5>1. calls'[c] = calls[c] /\ calls[c].id \in Nat /\ calls[c].id < nextRequestId
          BY <1>4, CallFacts
        <5>2. calls'[c].id = nextRequestId
          BY <2>3, <3>2
        <5> QED  BY <1>1, <5>1, <5>2
      <4> QED  BY <1>4, <3>2, <4>1
    <3> QED  BY <1>6, <3>1, <3>2
  <2> QED  BY <2>1, <2>2, <2>3, IdsKept
<1>9. RetriesAreReads' /\ ConfigurationsAreSent'
  <2>1. r.phase # "pause" /\ ~(r.attempt > 0) /\ r.phase \in {"pending", "settled"}
    BY <1>2
  <2> QED  BY <1>4, <2>1, AddedKind
<1>10. ~IsOpen(r)
  BY <1>2 DEF IsOpen, Tab!Services
<1>11. ChainInOrder'
  <2>1. serviceTail' = serviceTail
    OBVIOUS
  <2> QED  BY <1>4, <1>10, <2>1, ChainKept
<1> QED  BY <1>7, <1>8, <1>9, <1>11 DEF CallsInv

\* A promise that stays open changes its phase: the chain stays as it is.
LEMMA PhaseStep ==
    ASSUME CallsInv, NEW c \in Tab!Calls, NEW r \in CallRecords,
           calls' = [calls EXCEPT ![c] = r],
           UNCHANGED <<serviceTail, sockets>>,
           nextRequestId' \in Nat \ {0}, unanswered' \subseteq Nat \X Nat,
           calls[c].phase \in {"due", "pending", "pause"},
           r.kind = calls[c].kind, r.phase \in {"due", "pending", "pause"},
           r.attempt > 0 \/ r.phase = "pause" => r.kind = "read",
           r.kind = "configure" => r.phase = "pending",
           IdsMatch'
    PROVE  /\ CallsInv' /\ Len(calls') = Len(calls) /\ Tab!Calls' = Tab!Calls
           /\ calls'[c] = r /\ \A d \in Tab!Calls \ {c} : calls'[d] = calls[d]
<1>1. /\ calls' \in Seq(CallRecords) /\ Len(calls') = Len(calls) /\ calls'[c] = r
      /\ \A d \in Tab!Calls \ {c} : calls'[d] = calls[d]
  BY CallFacts
<1>2. Tab!Calls' = Tab!Calls
  BY <1>1 DEF Tab!Calls
<1>3. serviceTail' = serviceTail /\ sockets' = sockets
  OBVIOUS
<1>4. CallTypes'
  BY <1>1, <1>3, CallFacts DEF CallTypes
<1>5. RetriesAreReads' /\ ConfigurationsAreSent'
  <2>1. ASSUME NEW d \in Tab!Calls'
        PROVE  /\ calls'[d].attempt > 0 \/ calls'[d].phase = "pause" => calls'[d].kind = "read"
               /\ calls'[d].kind = "configure" => calls'[d].phase \in {"pending", "settled"}
    <3>1. CASE d = c
      <4>1. calls'[d] = r
        BY <1>1, <3>1
      <4> QED  BY <4>1
    <3>2. CASE d # c
      <4>1. calls'[d] = calls[d] /\ d \in Tab!Calls
        BY <1>1, <1>2, <3>2
      <4> QED  BY <4>1, KindFacts
    <3> QED  BY <3>1, <3>2
  <2> QED  BY <2>1, KindsKept
<1>6. ChainInOrder'
  <2>1. /\ \A d \in Tab!Calls : IsOpen(calls'[d]) <=> IsOpen(calls[d])
        /\ \A d \in Tab!Calls : IsOpen(calls[d]) =>
             (calls'[d].phase = "chained" <=> calls[d].phase = "chained")
    <3> SUFFICES ASSUME NEW d \in Tab!Calls
                 PROVE  /\ IsOpen(calls'[d]) <=> IsOpen(calls[d])
                        /\ calls'[d].phase = "chained" <=> calls[d].phase = "chained"
      OBVIOUS
    <3>1. CASE d = c
      <4>1. calls'[d] = r
        BY <1>1, <3>1
      <4> QED  BY <3>1, <4>1 DEF IsOpen
    <3>2. CASE d # c
      <4>1. calls'[d] = calls[d]
        BY <1>1, <3>2
      <4> QED  BY <4>1
    <3> QED  BY <3>1, <3>2
  <2> QED  BY <1>2, <1>3, <2>1, ChainKept
<1> QED  BY <1>1, <1>2, <1>4, <1>5, <1>6 DEF CallsInv

\* run sends a service that is due, with the next identifier.
LEMMA RunSends ==
    ASSUME CallsInv, NEW c \in Tab!Calls, calls[c].phase = "due", Tab!Usable(c), Tab!Run(c)
    PROVE  /\ CallsInv' /\ Len(calls') = Len(calls) /\ calls'[c].phase = "pending"
           /\ calls'[c].kind = calls[c].kind /\ calls'[c].attempt = calls[c].attempt
           /\ calls'[c].socket = sockets
           /\ \A d \in Tab!Calls \ {c} : calls'[d] = calls[d]
           /\ unanswered' = unanswered \cup {<<nextRequestId, c>>}
<1> DEFINE r == [calls[c] EXCEPT !.phase = "pending", !.id = nextRequestId]
<1>1. /\ calls' = [calls EXCEPT ![c].phase = "pending", ![c].id = nextRequestId]
      /\ nextRequestId' = nextRequestId + 1
      /\ unanswered' = unanswered \cup {<<nextRequestId, c>>}
      /\ serviceTail' = serviceTail /\ sockets' = sockets /\ calls[c].socket = sockets
  BY DEF Tab!Run, Tab!Usable, Tab!connectionVars
<1>2. /\ calls[c] \in CallRecords /\ nextRequestId \in Nat /\ 0 < nextRequestId
      /\ c \in Nat /\ unanswered \subseteq Nat \X Nat
  BY CallFacts
<1>3. /\ r \in CallRecords /\ r.phase = "pending" /\ r.id = nextRequestId
      /\ r.kind = calls[c].kind /\ r.attempt = calls[c].attempt /\ r.socket = calls[c].socket
  <2>1. "pending" \in Tab!Phases
    BY DEF Tab!Phases
  <2> QED  BY <1>2, <2>1 DEF CallRecords
<1>4. calls' = [calls EXCEPT ![c] = r]
  BY <1>1, CallFacts
<1> HIDE DEF r
<1>5. /\ Len(calls') = Len(calls) /\ calls'[c] = r
      /\ \A d \in Tab!Calls \ {c} : calls'[d] = calls[d]
      /\ Tab!Calls' = Tab!Calls
  BY <1>4, CallFacts DEF Tab!Calls
<1>6. nextRequestId' \in Nat \ {0} /\ unanswered' \subseteq Nat \X Nat
      /\ \A n \in Nat : n < nextRequestId => n < nextRequestId' /\ n # nextRequestId
  BY <1>1, <1>2
<1>7. nextRequestId < nextRequestId'
  BY <1>1, <1>2
<1>8. IdsMatch'
  <2>1. \A a \in unanswered' : a[1] < nextRequestId'
    BY <1>1, <1>6, <1>7, CallFacts
  <2>2. ASSUME NEW d \in Tab!Calls' PROVE calls'[d].id < nextRequestId'
    <3>1. CASE d = c
      <4>1. calls'[d].id = nextRequestId
        BY <1>3, <1>5, <3>1
      <4> QED  BY <1>7, <4>1, Zenon
    <3>2. CASE d # c
      <4>1. calls'[d] = calls[d] /\ calls[d].id \in Nat /\ calls[d].id < nextRequestId
        BY <1>5, <3>2, CallFacts
      <4> QED  BY <1>6, <4>1, Zenon
    <3> QED  BY <3>1, <3>2
  <2>3. ASSUME NEW a \in unanswered', NEW d \in Tab!Calls', calls'[d].phase = "pending",
               calls'[d].id = a[1]
        PROVE  a[2] = d
    <3>1. CASE a \in unanswered
      <4>1. a[1] # nextRequestId
        BY <1>6, <3>1, CallFacts
      <4>2. d # c
        BY <1>3, <1>5, <2>3, <4>1
      <4>3. d \in Tab!Calls /\ calls'[d] = calls[d]
        BY <1>5, <4>2
      <4> QED  BY <2>3, <3>1, <4>3, CallFacts
    <3>2. CASE a = <<nextRequestId, c>>
      <4>1. ASSUME d # c PROVE FALSE
        <5>1. calls'[d] = calls[d] /\ calls[d].id \in Nat /\ calls[d].id < nextRequestId
          BY <1>5, <4>1, CallFacts
        <5>2. calls'[d].id = nextRequestId
          BY <2>3, <3>2
        <5> QED  BY <1>6, <5>1, <5>2
      <4> QED  BY <3>2, <4>1
    <3> QED  BY <1>1, <3>1, <3>2
  <2> QED  BY <2>1, <2>2, <2>3, IdsKept
<1>9. r.attempt > 0 \/ r.phase = "pause" => r.kind = "read"
  BY <1>3, KindFacts
<1>10. r.kind = "configure" => r.phase = "pending"
  BY <1>3
<1>11. calls[c].phase \in {"due", "pending", "pause"}
         /\ r.phase \in {"due", "pending", "pause"}
       /\ r.kind = calls[c].kind /\ UNCHANGED <<serviceTail, sockets>>
  BY <1>1, <1>3
<1>12. CallsInv'
  BY <1>3, <1>4, <1>6, <1>8, <1>9, <1>10, <1>11, PhaseStep
<1> QED  BY <1>1, <1>3, <1>5, <1>12

\* A refused read waits before its next attempt, and makes it.
LEMMA PauseStep ==
    ASSUME CallsInv, NEW c \in Tab!Calls, unanswered' \subseteq unanswered,
           nextRequestId' = nextRequestId, serviceTail' = serviceTail, sockets' = sockets,
           \/ /\ calls[c].phase = "pending" /\ calls[c].kind = "read"
              /\ calls' = [calls EXCEPT ![c].phase = "pause", ![c].id = 0]
           \/ /\ calls[c].phase = "pause"
              /\ calls' = [calls EXCEPT ![c].phase = "due", ![c].attempt = @ + 1]
    PROVE  /\ CallsInv' /\ Len(calls') = Len(calls)
           /\ \A d \in Tab!Calls : calls'[d].phase = "settled" => calls[d].phase = "settled"
<1>1. /\ calls[c] \in CallRecords /\ nextRequestId \in Nat \ {0} /\ 0 < nextRequestId
      /\ unanswered \subseteq Nat \X Nat
  BY CallFacts
<1>2. PICK r \in CallRecords :
        /\ calls' = [calls EXCEPT ![c] = r]
        /\ r.kind = calls[c].kind /\ r.phase \in {"due", "pause"} /\ r.kind = "read"
        /\ r.id \in {0, calls[c].id}
  <2>1. CASE /\ calls[c].phase = "pending" /\ calls[c].kind = "read"
             /\ calls' = [calls EXCEPT ![c].phase = "pause", ![c].id = 0]
    <3> DEFINE r == [calls[c] EXCEPT !.phase = "pause", !.id = 0]
    <3>1. "pause" \in Tab!Phases
      BY DEF Tab!Phases
    <3>2. r \in CallRecords /\ r.kind = calls[c].kind /\ r.phase = "pause" /\ r.id = 0
      BY <1>1, <3>1 DEF CallRecords
    <3>3. calls' = [calls EXCEPT ![c] = r]
      BY <2>1, CallFacts
    <3> QED  BY <2>1, <3>2, <3>3
  <2>2. CASE /\ calls[c].phase = "pause"
             /\ calls' = [calls EXCEPT ![c].phase = "due", ![c].attempt = @ + 1]
    <3> DEFINE r == [calls[c] EXCEPT !.phase = "due", !.attempt = calls[c].attempt + 1]
    <3>1. "due" \in Tab!Phases
      BY DEF Tab!Phases
    <3>5. calls[c].attempt + 1 \in Nat
      <4>1. calls[c].attempt \in Nat
        BY <1>1 DEF CallRecords
      <4> QED  BY <4>1
    <3>2. r \in CallRecords /\ r.kind = calls[c].kind /\ r.phase = "due" /\ r.id = calls[c].id
      BY <1>1, <3>1, <3>5 DEF CallRecords
    <3>3. calls' = [calls EXCEPT ![c] = r]
      BY <2>2, CallFacts
    <3>4. calls[c].kind = "read"
      BY <2>2, KindFacts
    <3> QED  BY <3>2, <3>3, <3>4
  <2> QED  BY <2>1, <2>2
<1>3. /\ Len(calls') = Len(calls) /\ calls'[c] = r
      /\ \A d \in Tab!Calls \ {c} : calls'[d] = calls[d]
      /\ Tab!Calls' = Tab!Calls
  BY <1>2, CallFacts DEF Tab!Calls
<1>4. nextRequestId' \in Nat \ {0} /\ unanswered' \subseteq Nat \X Nat
  BY <1>1
<1>5. IdsMatch'
  <2>1. \A a \in unanswered' : a[1] < nextRequestId'
    BY CallFacts
  <2>2. ASSUME NEW d \in Tab!Calls' PROVE calls'[d].id < nextRequestId'
    <3>1. CASE d = c
      <4>1. calls'[d].id \in {0, calls[c].id}
        BY <1>2, <1>3, <3>1
      <4>2. 0 < nextRequestId /\ calls[c].id < nextRequestId
        BY CallFacts
      <4> QED  BY <4>1, <4>2, Zenon
    <3>2. CASE d # c
      <4>1. calls'[d] = calls[d] /\ calls[d].id < nextRequestId
        BY <1>3, <3>2, CallFacts
      <4> QED  BY <4>1, Zenon
    <3> QED  BY <3>1, <3>2
  <2>3. ASSUME NEW a \in unanswered', NEW d \in Tab!Calls', calls'[d].phase = "pending",
               calls'[d].id = a[1]
        PROVE  a[2] = d
    <3>1. d # c
      BY <1>2, <1>3, <2>3
    <3>2. d \in Tab!Calls /\ calls'[d] = calls[d] /\ a \in unanswered
      BY <1>3, <3>1
    <3> QED  BY <2>3, <3>2, CallFacts
  <2> QED  BY <2>1, <2>2, <2>3, IdsKept
<1>6. calls[c].phase \in {"due", "pending", "pause"} /\ r.phase \in {"due", "pending", "pause"}
      /\ r.kind = calls[c].kind /\ UNCHANGED <<serviceTail, sockets>>
      /\ (r.attempt > 0 \/ r.phase = "pause" => r.kind = "read")
      /\ (r.kind = "configure" => r.phase = "pending")
  BY <1>2
<1>7. CallsInv'
  BY <1>2, <1>4, <1>5, <1>6, PhaseStep
<1>8. \A d \in Tab!Calls : calls'[d].phase = "settled" => calls[d].phase = "settled"
  BY <1>2, <1>3
<1> QED  BY <1>3, <1>7, <1>8

\* A step that sends nothing replays nothing, and one that settles nothing answers nothing.
LEMMA NothingSent ==
    ASSUME unanswered' \subseteq unanswered
    PROVE  Tab!NeverReplayed
  BY DEF Tab!NeverReplayed, Tab!Sent

\* A step whose promises are settled with a transport error at most answers none of them.
LEMMA NothingAnswered ==
    ASSUME \A c \in Tab!Calls : calls'[c].phase = "settled" /\ calls[c].phase # "settled" =>
                              calls'[c].result = "transport_error"
    PROVE  Tab!AnswersAreOwn
  BY DEF Tab!AnswersAreOwn

\* One promise is settled.
LEMMA SettleOne ==
    ASSUME CallsInv, NEW c \in Tab!Calls, NEW result \in Tab!Results,
           calls[c].phase \in {"due", "pending"}, Tab!Settle(c, result),
           nextRequestId' = nextRequestId, unanswered' \subseteq unanswered, sockets' = sockets
    PROVE  /\ CallsInv' /\ calls'[c] = Tab!Settled(result)
           /\ \A d \in Tab!Calls \ {c} : calls'[d].phase = "settled"
                => calls[d].phase = "settled"
<1>1. {c} \in SUBSET Tab!Calls /\ \A d \in {c} : calls[d].phase \in {"due", "pending"}
  OBVIOUS
<1>2. [calls EXCEPT ![c] = Tab!Settled(result)]
        = [d \in Tab!Calls |-> IF d \in {c} THEN Tab!Settled(result) ELSE calls[d]]
  BY CallFacts DEF Tab!Calls
<1>3. serviceTail' = Tab!Behind({c})
      /\ calls' = Tab!Advanced([d \in Tab!Calls |-> IF d \in {c} THEN Tab!Settled(result)
                                  ELSE calls[d]],
                           Tab!Behind({c}))
  BY <1>2 DEF Tab!Settle
<1>4. CallsInv' /\ (\A d \in {c} : calls'[d] = Tab!Settled(result))
      /\ (\A d \in Tab!Calls \ {c} : calls'[d].phase = "settled" => calls[d].phase = "settled")
  BY <1>1, <1>3, SettleStep
<1> QED  BY <1>4

\* What a step keeps and what it says.
Keeps == CallsInv' /\ Tab!NeverReplayed /\ Tab!AnswersAreOwn

\* A call is only added.
LEMMA RequestStep ==
    ASSUME CallsInv, NEW kind \in Tab!Services, Tab!Request(kind)
    PROVE  Keeps
<1>1. sockets' = sockets /\ nextRequestId' = nextRequestId /\ unanswered' = unanswered
  BY DEF Tab!Request, Tab!connectionVars
<1>2. CASE tabSocket # "open" \/ Len(serviceTail) >= MaxQueued
  <2>1. PICK result \in Tab!Results : calls' = Append(calls, Tab!Settled(result))
    BY <1>2 DEF Tab!Request, Tab!Results
  <2>2. serviceTail' = serviceTail
    BY <1>2 DEF Tab!Request
  <2>3. CallsInv'
    BY <1>1, <2>1, <2>2, RefusedStep
  <2>4. \A c \in Tab!Calls : calls'[c] = calls[c]
    BY <2>1, AddedCall, RecordFacts
  <2> QED  BY <1>1, <2>3, <2>4, NothingSent, NothingAnswered DEF Keeps
<1>3. CASE ~(tabSocket # "open" \/ Len(serviceTail) >= MaxQueued)
  <2>1. /\ calls' = Append(calls,
                           Tab!New(kind, IF serviceTail = <<>> THEN "due" ELSE "chained", 0))
        /\ serviceTail' = Append(serviceTail, Len(calls) + 1)
    BY <1>3 DEF Tab!Request
  <2>2. CallsInv'
    BY <1>1, <2>1, ChainedStep
  <2>3. \A c \in Tab!Calls : calls'[c] = calls[c]
    BY <2>1, CallFacts DEF Tab!Calls
  <2> QED  BY <1>1, <2>2, <2>3, NothingSent, NothingAnswered DEF Keeps
<1> QED  BY <1>2, <1>3

\* A configuration is refused, or sent once.
LEMMA ConfigureKeeps ==
    ASSUME CallsInv, NEW offered \in BOOLEAN, Tab!Configure(offered)
    PROVE  Keeps
<1>1. sockets' = sockets /\ serviceTail' = serviceTail
  BY DEF Tab!Configure, Tab!connectionVars
<1>2. CASE tabSocket # "open" \/ ~offered
  <2>1. "transport_error" \in Tab!Results
          /\ calls' = Append(calls, Tab!Settled("transport_error"))
        /\ nextRequestId' = nextRequestId /\ unanswered' = unanswered
    BY <1>2 DEF Tab!Configure, Tab!Results
  <2>2. CallsInv'
    BY <1>1, <2>1, RefusedStep
  <2>3. \A c \in Tab!Calls : calls'[c] = calls[c]
    BY <2>1, AddedCall, RecordFacts
  <2> QED  BY <2>1, <2>2, <2>3, NothingSent, NothingAnswered DEF Keeps
<1>3. CASE ~(tabSocket # "open" \/ ~offered)
  <2> DEFINE r == Tab!New("configure", "pending", nextRequestId)
             new == Len(calls) + 1
  <2>1. /\ calls' = Append(calls, r)
        /\ nextRequestId' = nextRequestId + 1
        /\ unanswered' = unanswered \cup {<<nextRequestId, new>>}
    BY <1>3 DEF Tab!Configure
  <2>2. CallsInv'
    BY <1>1, <2>1, ConfigurationSent
  <2>3. r.kind = "configure" /\ r.attempt = 0 /\ r.socket = sockets
    BY DEF Tab!New
  <2> HIDE DEF r
  <2>4. /\ Len(calls') = new /\ calls'[new] = r
        /\ \A c \in Tab!Calls : calls'[c] = calls[c]
    BY <2>1, CallFacts DEF Tab!Calls
  <2> HIDE DEF new
  <2>5. \A c : Tab!Sent(c) # {} => c = new
    BY <2>1 DEF Tab!Sent
  <2>6. Tab!NeverReplayed
    <3>1. ~(calls'[new].attempt > 0) /\ calls'[new].kind \notin Tab!Services
          /\ calls'[new].socket = sockets
      BY <2>3, <2>4 DEF Tab!Services
    <3> QED  BY <2>5, <3>1 DEF Tab!NeverReplayed
  <2> QED  BY <2>2, <2>4, <2>6, NothingAnswered DEF Keeps
<1> QED  BY <1>2, <1>3

\* A service is sent when all before it are settled.
LEMMA RunStep ==
    ASSUME CallsInv, NEW c \in Tab!Calls, Tab!Run(c)
    PROVE  Keeps
<1>1. calls[c].phase = "due" /\ sockets' = sockets
  BY DEF Tab!Run, Tab!connectionVars
<1>2. CASE Tab!Usable(c)
  <2>1. /\ CallsInv' /\ Len(calls') = Len(calls) /\ calls'[c].phase = "pending"
        /\ calls'[c].kind = calls[c].kind /\ calls'[c].attempt = calls[c].attempt
        /\ calls'[c].socket = sockets
        /\ \A d \in Tab!Calls \ {c} : calls'[d] = calls[d]
        /\ unanswered' = unanswered \cup {<<nextRequestId, c>>}
    BY <1>1, <1>2, RunSends
  <2>2. \A d \in Tab!Calls : calls'[d].phase = "settled" => calls[d].phase = "settled"
    BY <2>1
  <2>3. \A d : Tab!Sent(d) # {} => d = c
    BY <2>1 DEF Tab!Sent
  <2>4. calls'[c].attempt > 0 => calls'[c].kind = "read"
    BY <2>1, KindFacts
  <2>5. ASSUME NEW d \in 1 .. c - 1, calls[d].kind \in Tab!Services
        PROVE  calls[d].phase = "settled"
    <3> SUFFICES ASSUME calls[d].phase # "settled" PROVE FALSE
      OBVIOUS
    <3>1. c \in 1 .. Len(calls) /\ calls[c] \in CallRecords /\ Len(calls) \in Nat
      BY CallFacts
    <3>2. d \in Tab!Calls /\ d < c
      BY <3>1 DEF Tab!Calls
    <3>3. calls[c].kind \in Tab!Services
      <4>1. calls[c].kind \in Tab!Kinds
        BY <3>1, RecordFacts
      <4>2. calls[c].kind # "configure"
        BY <1>1, KindFacts
      <4> QED  BY <4>1, <4>2 DEF Tab!Kinds, Tab!Services
    <3>4. IsOpen(calls[c]) /\ IsOpen(calls[d])
      BY <1>1, <2>5, <3>3 DEF IsOpen
    <3>5. PICK i \in 1 .. Len(serviceTail) : serviceTail[i] = c
      BY <3>4, ChainFacts
    <3>6. PICK j \in 1 .. Len(serviceTail) : serviceTail[j] = d
      BY <3>2, <3>4, ChainFacts
    <3>7. ~(i > 1)
      BY <1>1, <3>5, ChainFacts
    <3>8. i = 1 /\ Len(serviceTail) \in Nat
      BY <3>7, CallFacts
    <3>9. j # 1 /\ 1 < j
      BY <3>2, <3>5, <3>6, <3>8
    <3>10. c < d
      BY <3>5, <3>6, <3>8, <3>9, ChainFacts
    <3> QED  BY <3>1, <3>2, <3>10 DEF Tab!Calls
  <2>6. Tab!NeverReplayed
    BY <2>1, <2>3, <2>4, <2>5 DEF Tab!NeverReplayed
  <2> QED  BY <2>1, <2>2, <2>6, NothingAnswered DEF Keeps
<1>3. CASE ~Tab!Usable(c)
  <2>1. Tab!Settle(c, "transport_error") /\ nextRequestId' = nextRequestId
        /\ unanswered' = unanswered /\ unanswered' \subseteq unanswered
    BY <1>3 DEF Tab!Run
  <2>2. "transport_error" \in Tab!Results /\ calls[c].phase \in {"due", "pending"}
    BY <1>1 DEF Tab!Results
  <2>3. /\ CallsInv' /\ calls'[c] = Tab!Settled("transport_error")
        /\ \A d \in Tab!Calls \ {c} : calls'[d].phase = "settled" => calls[d].phase = "settled"
    BY <1>1, <2>1, <2>2, SettleOne
  <2>4. calls'[c].result = "transport_error"
    BY <2>2, <2>3, RecordFacts
  <2> QED  BY <2>1, <2>3, <2>4, NothingSent, NothingAnswered DEF Keeps
<1> QED  BY <1>2, <1>3

\* A time-out settles one promise, a refused read is tried again, and an answer settles the
\* promise of its own request.
LEMMA TimersStep ==
    ASSUME CallsInv, NEW c \in Tab!Calls, Tab!Paused(c) \/ Tab!Timeout(c)
    PROVE  Keeps
<1>1. sockets' = sockets /\ nextRequestId' = nextRequestId /\ unanswered' = unanswered
      /\ unanswered' \subseteq unanswered
  BY DEF Tab!Paused, Tab!Timeout, Tab!connectionVars
<1>2. CASE Tab!Paused(c)
  <2>1. calls[c].phase = "pause" /\ serviceTail' = serviceTail
        /\ calls' = [calls EXCEPT ![c].phase = "due", ![c].attempt = @ + 1]
    BY <1>2 DEF Tab!Paused
  <2>2. CallsInv' /\ \A d \in Tab!Calls : calls'[d].phase = "settled"
          => calls[d].phase = "settled"
    BY <1>1, <2>1, PauseStep
  <2> QED  BY <1>1, <2>2, NothingSent, NothingAnswered DEF Keeps
<1>3. CASE Tab!Timeout(c)
  <2>1. Tab!Settle(c, "transport_error") /\ calls[c].phase \in {"due", "pending"}
        /\ "transport_error" \in Tab!Results
    BY <1>3 DEF Tab!Timeout, Tab!Results
  <2>2. /\ CallsInv' /\ calls'[c] = Tab!Settled("transport_error")
        /\ \A d \in Tab!Calls \ {c} : calls'[d].phase = "settled" => calls[d].phase = "settled"
    BY <1>1, <2>1, SettleOne
  <2>3. calls'[c].result = "transport_error"
    BY <2>1, <2>2, RecordFacts
  <2> QED  BY <1>1, <2>2, <2>3, NothingSent, NothingAnswered DEF Keeps
<1> QED  BY <1>2, <1>3

\* A message settles the promise that waits for its identifier, or nothing.
LEMMA MessageStep ==
    ASSUME CallsInv, NEW answer \in unanswered, NEW result \in Tab!Results,
           Tab!Message(answer, result)
    PROVE  Keeps
<1>1. /\ sockets' = sockets /\ nextRequestId' = nextRequestId
      /\ unanswered' = unanswered \ {answer} /\ unanswered' \subseteq unanswered
  BY DEF Tab!Message, Tab!connectionVars
<1>2. CASE Tab!Owner(answer) = {}
  <2>1. calls' = calls /\ serviceTail' = serviceTail
    BY <1>2 DEF Tab!Message
  <2>2. CallsInv'
    BY <1>1, <2>1
       DEF CallsInv, CallTypes, IdsMatch, Tab!Awaits, RetriesAreReads,
           ConfigurationsAreSent, ChainInOrder, Tab!Calls
  <2> QED  BY <1>1, <2>1, <2>2, NothingSent, NothingAnswered DEF Keeps
<1>3. CASE Tab!Owner(answer) # {}
  <2>1. PICK c \in Tab!Owner(answer) : Tab!Respond(c, result)
    BY <1>3 DEF Tab!Message
  <2>2. c \in Tab!Calls /\ calls[c].phase = "pending" /\ calls[c].id = answer[1]
    BY DEF Tab!Owner, Tab!Awaits
  <2>3. answer[2] = c
    BY <2>2, CallFacts
  <2>4. CASE Tab!Retries(c, result)
    <3>1. /\ calls' = [calls EXCEPT ![c].phase = "pause", ![c].id = 0]
          /\ serviceTail' = serviceTail /\ calls[c].kind = "read"
      BY <2>1, <2>4 DEF Tab!Respond, Tab!Retries
    <3>2. CallsInv' /\ \A d \in Tab!Calls : calls'[d].phase = "settled"
            => calls[d].phase = "settled"
      BY <1>1, <2>2, <3>1, PauseStep
    <3> QED  BY <1>1, <3>2, NothingSent, NothingAnswered DEF Keeps
  <2>5. CASE ~Tab!Retries(c, result)
    <3>1. Tab!Settle(c, result) /\ calls[c].phase \in {"due", "pending"}
      BY <2>1, <2>2, <2>5 DEF Tab!Respond
    <3>2. /\ CallsInv'
          /\ \A d \in Tab!Calls \ {c} : calls'[d].phase = "settled"
               => calls[d].phase = "settled"
      BY <1>1, <2>2, <3>1, SettleOne
    <3>3. answer \in unanswered /\ answer \notin unanswered'
      BY <1>1
    <3>4. Tab!AnswersAreOwn
      BY <2>3, <3>2, <3>3 DEF Tab!AnswersAreOwn
    <3> QED  BY <1>1, <3>2, <3>4, NothingSent DEF Keeps
  <2> QED  BY <2>4, <2>5
<1> QED  BY <1>2, <1>3

\* An answer that was meant for an earlier browser is taken for that of a call that waits.
LEMMA ForeignStep ==
    ASSUME CallsInv, SocketTypes, NEW c \in Tab!Calls, NEW result \in Tab!Results,
           Tab!Foreign(c, result)
    PROVE  Keeps
<1>1. /\ sockets' = sockets /\ nextRequestId' = nextRequestId
      /\ unanswered' = unanswered /\ unanswered' \subseteq unanswered
      /\ calls[c].phase = "pending" /\ Tab!Respond(c, result)
  BY DEF Tab!Foreign
<1>2. foreign' < foreign
  BY TransportAssumption DEF Tab!Foreign, SocketTypes
<1>3. CASE Tab!Retries(c, result)
  <2>1. /\ calls' = [calls EXCEPT ![c].phase = "pause", ![c].id = 0]
        /\ serviceTail' = serviceTail /\ calls[c].kind = "read"
    BY <1>1, <1>3 DEF Tab!Respond, Tab!Retries
  <2>2. CallsInv' /\ \A d \in Tab!Calls : calls'[d].phase = "settled"
          => calls[d].phase = "settled"
    BY <1>1, <2>1, PauseStep
  <2> QED  BY <1>1, <2>2, NothingSent, NothingAnswered DEF Keeps
<1>4. CASE ~Tab!Retries(c, result)
  <2>1. Tab!Settle(c, result) /\ calls[c].phase \in {"due", "pending"}
    BY <1>1, <1>4 DEF Tab!Respond
  <2>2. CallsInv'
    BY <1>1, <2>1, SettleOne
  <2>3. Tab!AnswersAreOwn
    BY <1>1, <1>2 DEF Tab!AnswersAreOwn
  <2> QED  BY <1>1, <2>2, <2>3, NothingSent DEF Keeps
<1> QED  BY <1>3, <1>4

\* The socket's end settles every promise that waits.
LEMMA OnCloseStep ==
    ASSUME CallsInv, Tab!OnClose
    PROVE  Keeps
<1> DEFINE S == {c \in Tab!Calls : Tab!Drops(c)}
<1>1. /\ sockets' = sockets /\ nextRequestId' = nextRequestId
           /\ unanswered' \subseteq unanswered
      /\ serviceTail' = Tab!Behind(S)
      /\ calls' = Tab!Advanced([c \in Tab!Calls |-> IF Tab!Drops(c)
                              THEN Tab!Settled("transport_error") ELSE calls[c]],
                                Tab!Behind(S))
  BY DEF Tab!OnClose
<1>2. [c \in Tab!Calls |-> IF Tab!Drops(c) THEN Tab!Settled("transport_error") ELSE calls[c]]
        = [c \in Tab!Calls |-> IF c \in S THEN Tab!Settled("transport_error") ELSE calls[c]]
  OBVIOUS
<1>3. S \in SUBSET Tab!Calls /\ \A c \in S : calls[c].phase \in {"due", "pending"}
  BY DEF Tab!Drops
<1> HIDE DEF S
<1>4. "transport_error" \in Tab!Results
  BY DEF Tab!Results
<1>5. calls' = Tab!Advanced([c \in Tab!Calls |-> IF c \in S THEN Tab!Settled("transport_error")
                                         ELSE calls[c]], Tab!Behind(S))
  BY <1>1, <1>2
<1>6. /\ CallsInv' /\ \A c \in S : calls'[c] = Tab!Settled("transport_error")
      /\ \A c \in Tab!Calls \ S : calls'[c].phase = "settled" => calls[c].phase = "settled"
  BY <1>1, <1>3, <1>4, <1>5, SettleStep
<1>7. \A c \in S : calls'[c].result = "transport_error"
  BY <1>4, <1>6, RecordFacts
<1>8. Tab!AnswersAreOwn
  BY <1>6, <1>7, NothingAnswered
<1> QED  BY <1>1, <1>6, <1>8, NothingSent DEF Keeps

\* The socket's other steps leave the calls alone.
LEMMA CallsRest ==
    ASSUME CallsInv, UNCHANGED Tab!callVars, sockets' \in Nat
    PROVE  Keeps
<1>1. calls' = calls /\ serviceTail' = serviceTail /\ nextRequestId' = nextRequestId
      /\ unanswered' = unanswered
  BY DEF Tab!callVars
<1>2. CallsInv'
  BY <1>1
     DEF CallsInv, CallTypes, IdsMatch, Tab!Awaits, RetriesAreReads,
         ConfigurationsAreSent, ChainInOrder, Tab!Calls
<1> QED  BY <1>1, <1>2, NothingSent, NothingAnswered DEF Keeps

\* Every step keeps the calls in order, replays nothing and answers each request with its own
\* answer or with one of those an earlier browser left.
LEMMA CallsStep == CallsInv /\ SocketTypes /\ [Tab!Next]_tabVars => Keeps
<1> SUFFICES ASSUME CallsInv, SocketTypes, [Tab!Next]_tabVars PROVE Keeps
  OBVIOUS
<1>1. sockets \in Nat /\ sockets + 1 \in Nat
  BY CallFacts
<1>2. CASE Tab!Connect \/ Tab!Reconnect
  <2>1. UNCHANGED Tab!callVars /\ sockets' \in {sockets, sockets + 1}
    BY <1>2 DEF Tab!Connect, Tab!Reconnect, Tab!Open
  <2> QED  BY <1>1, <2>1, CallsRest
<1>3. CASE Tab!Disconnect \/ Tab!OnOpen \/ Tab!OnError \/ UNCHANGED tabVars
  <2>1. UNCHANGED Tab!callVars /\ sockets' = sockets
    BY <1>3 DEF Tab!Disconnect, Tab!OnOpen, Tab!OnError, tabVars, Tab!callVars
  <2> QED  BY <1>1, <2>1, CallsRest
<1>4. CASE \E offered \in BOOLEAN : Tab!Configure(offered)
  BY <1>4, ConfigureKeeps
<1>5. CASE \E kind \in Tab!Services : Tab!Request(kind)
  BY <1>5, RequestStep
<1>6. CASE \E c \in Tab!Calls : Tab!Run(c)
  BY <1>6, RunStep
<1>7. CASE Tab!Timers
  BY <1>7, TimersStep DEF Tab!Timers
<1>8. CASE \E answer \in unanswered, result \in Tab!Results : Tab!Message(answer, result)
  BY <1>8, MessageStep
<1>9. CASE Tab!OnClose
  BY <1>9, OnCloseStep
<1>10. CASE \E c \in Tab!Calls, result \in Tab!Results : Tab!Foreign(c, result)
  BY <1>10, ForeignStep
<1> QED  BY <1>2, <1>3, <1>4, <1>5, <1>6, <1>7, <1>8, <1>9, <1>10 DEF Tab!Next

\* A Companion that wants to be connected has a socket or a timer, never both.
LEMMA SocketStep ==
    SocketTypes /\ Tab!OneReconnectLoop /\ sockets \in Nat /\ [Tab!Next]_tabVars
        => SocketTypes' /\ Tab!OneReconnectLoop'
<1> SUFFICES ASSUME SocketTypes, Tab!OneReconnectLoop, sockets \in Nat, [Tab!Next]_tabVars
             PROVE  SocketTypes' /\ Tab!OneReconnectLoop'
  OBVIOUS
<1> USE DEF SocketTypes, Tab!OneReconnectLoop
<1>1. CASE Tab!Connect
  BY <1>1 DEF Tab!Connect, Tab!Open
<1>2. CASE Tab!Reconnect
  BY <1>2 DEF Tab!Reconnect, Tab!Open
<1>3. CASE Tab!Disconnect
  BY <1>3 DEF Tab!Disconnect
<1>4. CASE Tab!OnOpen
  BY <1>4 DEF Tab!OnOpen
<1>5. CASE Tab!OnError
  BY <1>5 DEF Tab!OnError
<1>6. CASE Tab!OnClose
  <2>1. /\ tabSocket' = "none" /\ shownState' = "disconnected"
        /\ reconnectTimer' = (reconnectTimer \/ ~explicitlyDisconnected)
        /\ foreign' = 0 /\ UNCHANGED <<sockets, explicitlyDisconnected>>
    BY <1>6, Zenon DEF Tab!OnClose
  <2>2. foreign' \in 0 .. MaxForeign
    BY <2>1, TransportAssumption
  <2> QED  BY <2>1, <2>2
<1>7. ASSUME UNCHANGED Tab!connectionVars PROVE SocketTypes' /\ Tab!OneReconnectLoop'
  BY <1>7 DEF Tab!connectionVars
<1>8. CASE \E offered \in BOOLEAN : Tab!Configure(offered)
  BY <1>7, <1>8 DEF Tab!Configure
<1>9. CASE \E kind \in Tab!Services : Tab!Request(kind)
  BY <1>7, <1>9 DEF Tab!Request
<1>10. CASE \E c \in Tab!Calls : Tab!Run(c)
  BY <1>7, <1>10 DEF Tab!Run
<1>11. CASE Tab!Timers
  BY <1>7, <1>11 DEF Tab!Timers, Tab!Paused, Tab!Timeout
<1>12. CASE \E answer \in unanswered, result \in Tab!Results : Tab!Message(answer, result)
  BY <1>7, <1>12 DEF Tab!Message
<1>13. CASE UNCHANGED tabVars
  BY <1>7, <1>13 DEF tabVars, Tab!connectionVars
<1>14. CASE \E c \in Tab!Calls, result \in Tab!Results : Tab!Foreign(c, result)
  BY <1>14, TransportAssumption DEF Tab!Foreign
<1> QED
  BY <1>1, <1>2, <1>3, <1>4, <1>5, <1>6, <1>8, <1>9, <1>10, <1>11, <1>12, <1>13, <1>14
     DEF Tab!Next

\* The invariant of the Companion's end, and what each of its steps says.
LEMMA TabStep == TabInv /\ [Tab!Next]_tabVars
                   => TabInv' /\ Tab!NeverReplayed /\ Tab!AnswersAreOwn
<1> SUFFICES ASSUME TabInv, [Tab!Next]_tabVars
             PROVE TabInv' /\ Tab!NeverReplayed /\ Tab!AnswersAreOwn
  OBVIOUS
<1>1. Keeps /\ sockets \in Nat
  BY CallsStep, CallFacts DEF TabInv
<1>2. SocketTypes' /\ Tab!OneReconnectLoop'
  BY <1>1, SocketStep DEF TabInv
<1> QED  BY <1>1, <1>2 DEF TabInv, Keeps

\* A page that has just been opened.
LEMMA TabInit == Tab!Init => TabInv
<1> SUFFICES ASSUME Tab!Init PROVE TabInv
  OBVIOUS
<1>1. calls = <<>> /\ serviceTail = <<>> /\ nextRequestId = 1 /\ unanswered = {} /\ sockets = 0
  BY DEF Tab!Init
<1>2. calls \in Seq(CallRecords) /\ serviceTail \in Seq(Nat) /\ Len(serviceTail) = 0
      /\ Tab!Calls = {}
  BY <1>1 DEF Tab!Calls
<1>3. CallsInv
  BY <1>1, <1>2
     DEF CallsInv, CallTypes, IdsMatch, RetriesAreReads, ConfigurationsAreSent,
         ChainInOrder
<1>4. SocketTypes /\ Tab!OneReconnectLoop
  <2>1. ~(sockets > 0)
    BY <1>1
  <2>2. /\ tabSocket = "none" /\ shownState = "disconnected"
        /\ explicitlyDisconnected = FALSE /\ reconnectTimer = FALSE
        /\ foreign \in 0 .. MaxForeign
    BY TransportAssumption DEF Tab!Init
  <2> QED  BY <2>1, <2>2 DEF SocketTypes, Tab!OneReconnectLoop
<1> QED  BY <1>3, <1>4 DEF TabInv

\* A call is made on a socket that has been, and tried again a bounded number of times.
IsBounded(r, latest) ==
    /\ r.socket <= latest /\ r.attempt <= MaxAttempts
    /\ r.phase = "pause" => r.attempt < MaxAttempts

Attempts == 0 .. MaxAttempts
\* The attempts of a call that have had, or will not have, their identifier.
Spent(r) ==
    {k \in Attempts : \/ r.phase = "settled" \/ k < r.attempt
                      \/ r.phase \in {"pending", "pause"} /\ k = r.attempt}
AllSpent == {p \in Tab!Calls \X Attempts : p[2] \in Spent(calls[p[1]])}

CallsAreBounded ==
    /\ Len(calls) <= MaxCalls /\ Len(serviceTail) <= MaxQueued
    /\ \A c \in Tab!Calls : IsBounded(calls[c], sockets)
    /\ \A a \in unanswered : a[2] \in Tab!Calls
SocketsAreBounded ==
    sockets <= MaxSockets /\ shownState \in {"disconnected", "connecting", "connected"}
\* An identifier is given to an attempt once.
IdsAreCounted == nextRequestId <= Cardinality(AllSpent) + 1

TabCounted == TabInv /\ CallsAreBounded /\ SocketsAreBounded /\ IdsAreCounted

\* What a step may do to a call.
Becomes(r, q) ==
    \/ q.phase = "settled" /\ q.attempt = 0 /\ q.socket = 0
    \/ /\ q.socket = r.socket /\ q.attempt = r.attempt
       /\ \/ q.phase = r.phase
          \/ r.phase = "chained" /\ q.phase = "due"
          \/ r.phase = "pending" /\ q.phase = "pause" /\ r.attempt < MaxAttempts
          \/ r.phase = "due" /\ q.phase = "pending"
    \/ q.socket = r.socket /\ q.attempt = r.attempt + 1 /\ r.phase = "pause" /\ q.phase = "due"

\* It stays bounded, and what it has spent is spent.
LEMMA BecomesFacts ==
    ASSUME NEW r \in CallRecords, NEW q \in CallRecords, Becomes(r, q), NEW n \in Nat,
           IsBounded(r, n)
    PROVE  IsBounded(q, n) /\ Spent(r) \subseteq Spent(q)
<1>1. /\ r.attempt \in Nat /\ q.attempt \in Nat /\ r.socket \in Nat /\ q.socket \in Nat
      /\ MaxAttempts \in Nat
  BY TransportAssumption DEF CallRecords
<1>2. CASE q.phase = "settled" /\ q.attempt = 0 /\ q.socket = 0
  BY <1>1, <1>2 DEF IsBounded, Spent
<1>3. CASE /\ q.socket = r.socket /\ q.attempt = r.attempt
           /\ \/ q.phase = r.phase
              \/ r.phase = "chained" /\ q.phase = "due"
              \/ r.phase = "pending" /\ q.phase = "pause" /\ r.attempt < MaxAttempts
              \/ r.phase = "due" /\ q.phase = "pending"
  BY <1>1, <1>3 DEF IsBounded, Spent
<1>4. CASE /\ q.socket = r.socket /\ q.attempt = r.attempt + 1 /\ r.phase = "pause"
           /\ q.phase = "due"
  <2>1. IsBounded(q, n)
    BY <1>1, <1>4 DEF IsBounded
  <2>2. ASSUME NEW k \in Spent(r) PROVE k \in Spent(q)
    <3>1. k \in Attempts /\ k \in Nat /\ k <= r.attempt
      BY <1>1, <1>4 DEF Spent, Attempts
    <3> QED  BY <1>1, <1>4, <3>1 DEF Spent
  <2> QED  BY <2>1, <2>2
<1> QED  BY <1>2, <1>3, <1>4 DEF Becomes

\* The attempts of the calls are finitely many.
LEMMA SpentFinite ==
    ASSUME CallsInv, Len(calls) <= MaxCalls
    PROVE  /\ IsFiniteSet(AllSpent) /\ Cardinality(AllSpent) \in Nat
           /\ Cardinality(AllSpent) <= MaxCalls * (MaxAttempts + 1)
<1> DEFINE Most == (1 .. MaxCalls) \X Attempts
<1>1. MaxCalls \in Nat /\ MaxAttempts \in Nat /\ MaxAttempts + 1 \in Nat
  BY TransportAssumption
<1>2. IsFiniteSet(1 .. MaxCalls) /\ Cardinality(1 .. MaxCalls) = MaxCalls
  <2>1. 1 \in Int /\ MaxCalls \in Int /\ MaxCalls >= 1
    BY TransportAssumption
  <2>2. /\ IsFiniteSet(1 .. MaxCalls)
        /\ Cardinality(1 .. MaxCalls) = IF 1 > MaxCalls THEN 0 ELSE MaxCalls - 1 + 1
    BY <2>1, FS_Interval
  <2> QED  BY <1>1, <2>1, <2>2
<1>3. IsFiniteSet(Attempts) /\ Cardinality(Attempts) = MaxAttempts + 1
  <2>1. 0 \in Int /\ MaxAttempts \in Int
    BY <1>1
  <2>2. /\ IsFiniteSet(0 .. MaxAttempts)
        /\ Cardinality(0 .. MaxAttempts)
             = IF 0 > MaxAttempts THEN 0 ELSE MaxAttempts - 0 + 1
    BY <2>1, FS_Interval
  <2> QED  BY <1>1, <2>2 DEF Attempts
<1>4. IsFiniteSet(Most) /\ Cardinality(Most) = MaxCalls * (MaxAttempts + 1)
  <2>1. /\ IsFiniteSet((1 .. MaxCalls) \X Attempts)
        /\ Cardinality((1 .. MaxCalls) \X Attempts)
             = Cardinality(1 .. MaxCalls) * Cardinality(Attempts)
    BY ONLY <1>2, <1>3, FS_Product
  <2> QED  BY ONLY <1>2, <1>3, <2>1 DEF Most
<1>5. AllSpent \subseteq Most
  <2>1. Tab!Calls \subseteq 1 .. MaxCalls
    BY <1>1, CallFacts DEF Tab!Calls
  <2> QED  BY <2>1 DEF AllSpent
<1>6. IsFiniteSet(AllSpent) /\ Cardinality(AllSpent) <= Cardinality(Most)
  BY <1>4, <1>5, FS_Subset
<1>7. Cardinality(AllSpent) \in Nat
  BY <1>6, FS_CardinalityType
<1> QED  BY <1>4, <1>6, <1>7

\* What a step does to the calls: they become something, another may be added, and an
\* identifier is given to an attempt that had none.
TabMoves ==
    /\ Len(calls) <= Len(calls') /\ Len(calls') <= MaxCalls
    /\ \A c \in Tab!Calls : Becomes(calls[c], calls'[c])
    /\ \A c \in Tab!Calls' \ Tab!Calls : IsBounded(calls'[c], sockets)
    /\ Len(serviceTail') <= MaxQueued
    /\ \A a \in unanswered' : a[2] \in Tab!Calls'
    /\ \/ nextRequestId' = nextRequestId
       \/ /\ nextRequestId' = nextRequestId + 1
          /\ \E c \in Tab!Calls', k \in Attempts :
                /\ k \in Spent(calls'[c])
                /\ c \in Tab!Calls => k \notin Spent(calls[c])

\* Such a step keeps the bounds.
LEMMA MovesKeepBounds ==
    ASSUME CallsInv, CallsInv', CallsAreBounded, IdsAreCounted, TabMoves, sockets <= sockets'
    PROVE  CallsAreBounded' /\ IdsAreCounted'
<1>1. /\ Len(calls) \in Nat /\ Len(calls') \in Nat /\ Len(calls) <= Len(calls')
      /\ sockets \in Nat /\ sockets' \in Nat
      /\ nextRequestId \in Nat
      /\ Tab!Calls = 1 .. Len(calls) /\ Tab!Calls' = 1 .. Len(calls')
      /\ calls \in Seq(CallRecords) /\ calls' \in Seq(CallRecords)
  BY DEF CallsInv, CallTypes, TabMoves, Tab!Calls
<1>2. Tab!Calls \subseteq Tab!Calls'
  BY <1>1
<1>3. /\ \A c \in Tab!Calls : calls[c] \in CallRecords
      /\ \A c \in Tab!Calls' : calls'[c] \in CallRecords
  BY <1>1
<1>4. ASSUME NEW c \in Tab!Calls
      PROVE  IsBounded(calls'[c], sockets) /\ Spent(calls[c]) \subseteq Spent(calls'[c])
  <2>1. Becomes(calls[c], calls'[c]) /\ IsBounded(calls[c], sockets)
    BY DEF TabMoves, CallsAreBounded
  <2>2. calls[c] \in CallRecords /\ calls'[c] \in CallRecords
    BY <1>2, <1>3
  <2> QED  BY <1>1, <2>1, <2>2, BecomesFacts
<1>5. ASSUME NEW c \in Tab!Calls' PROVE IsBounded(calls'[c], sockets')
  <2>1. IsBounded(calls'[c], sockets)
    BY <1>4 DEF TabMoves
  <2>2. calls'[c].socket \in Nat
    BY <1>3 DEF CallRecords
  <2> QED  BY <1>1, <2>1, <2>2 DEF IsBounded
<1>6. CallsAreBounded'
  BY <1>5 DEF TabMoves, CallsAreBounded
<1>7. AllSpent \subseteq AllSpent'
  BY <1>2, <1>4 DEF AllSpent
<1>8. /\ IsFiniteSet(AllSpent) /\ Cardinality(AllSpent) \in Nat
      /\ nextRequestId <= Cardinality(AllSpent) + 1
  BY SpentFinite DEF CallsAreBounded, IdsAreCounted
<1>9. IsFiniteSet(AllSpent') /\ Cardinality(AllSpent') \in Nat
  <2>1. AllSpent' \subseteq (1 .. Len(calls')) \X Attempts
    BY <1>1 DEF AllSpent
  <2>2. IsFiniteSet((1 .. Len(calls')) \X Attempts)
    <3>1. IsFiniteSet(1 .. Len(calls'))
      BY <1>1, FS_Interval
    <3>2. IsFiniteSet(Attempts)
      BY TransportAssumption, FS_Interval DEF Attempts
    <3> QED  BY <3>1, <3>2, FS_Product
  <2> QED  BY <2>1, <2>2, FS_Subset, FS_CardinalityType
<1>10. CASE nextRequestId' = nextRequestId
  <2>1. Cardinality(AllSpent) <= Cardinality(AllSpent')
    BY <1>7, <1>9, FS_Subset
  <2> QED  BY <1>1, <1>6, <1>8, <1>9, <1>10, <2>1 DEF IdsAreCounted
<1>11. CASE /\ nextRequestId' = nextRequestId + 1
            /\ \E c \in Tab!Calls', k \in Attempts :
                  /\ k \in Spent(calls'[c])
                  /\ c \in Tab!Calls => k \notin Spent(calls[c])
  <2>1. PICK c \in Tab!Calls', k \in Attempts :
            k \in Spent(calls'[c]) /\ (c \in Tab!Calls => k \notin Spent(calls[c]))
    BY <1>11
  <2>2. <<c, k>> \in AllSpent' /\ <<c, k>> \notin AllSpent
    BY <2>1 DEF AllSpent
  <2>3. Cardinality(AllSpent \cup {<<c, k>>}) = Cardinality(AllSpent) + 1
    BY <1>8, <2>2, FS_AddElement
  <2>4. Cardinality(AllSpent \cup {<<c, k>>}) <= Cardinality(AllSpent')
    BY <1>7, <1>9, <2>2, FS_Subset
  <2> QED  BY <1>1, <1>6, <1>8, <1>9, <1>11, <2>3, <2>4 DEF IdsAreCounted
<1> QED  BY <1>10, <1>11 DEF TabMoves

\* A promise that is settled, one whose turn comes, and one that nothing happens to.
LEMMA BecomesSettled ==
    /\ \A r, result : Becomes(r, Tab!Settled(result))
    /\ \A r : Becomes(r, r)
    /\ \A r \in CallRecords : r.phase = "chained" => Becomes(r, [r EXCEPT !.phase = "due"])
<1>1. \A r, result : Becomes(r, Tab!Settled(result))
  BY DEF Becomes, Tab!Settled
<1>2. \A r : Becomes(r, r)
  BY DEF Becomes
<1>3. ASSUME NEW r \in CallRecords, r.phase = "chained"
      PROVE  Becomes(r, [r EXCEPT !.phase = "due"])
  BY <1>3 DEF Becomes, CallRecords
<1> QED  BY <1>1, <1>2, <1>3

\* Promises that are settled, and the one whose turn comes behind them.
LEMMA SettleMoves ==
    ASSUME CallsInv, CallsAreBounded, NEW S \in SUBSET Tab!Calls, NEW result \in Tab!Results,
           \A c \in S : calls[c].phase \in {"due", "pending"},
           serviceTail' = Tab!Behind(S),
           calls' = Tab!Advanced([c \in Tab!Calls |-> IF c \in S THEN Tab!Settled(result)
                                    ELSE calls[c]],
                             Tab!Behind(S)),
           nextRequestId' = nextRequestId, unanswered' \subseteq unanswered,
           sockets' = sockets
    PROVE  TabMoves
<1> DEFINE list == [c \in Tab!Calls |-> IF c \in S THEN Tab!Settled(result) ELSE calls[c]]
           rest == Tab!Behind(S)
<1>1. Len(calls') = Len(calls) /\ Len(calls) \in Nat
  BY SettleStep, CallFacts
<1>2. calls' = [c \in Tab!Calls |-> IF rest # <<>> /\ c = Head(rest)
                  /\ list[c].phase = "chained"
                                THEN [list[c] EXCEPT !.phase = "due"] ELSE list[c]]
  BY DEF Tab!Advanced
<1>3. ASSUME NEW c \in Tab!Calls PROVE Becomes(calls[c], calls'[c])
  <2>1. CASE c \in S
    <3>1. list[c] = Tab!Settled(result) /\ list[c].phase # "chained"
      BY <2>1, RecordFacts
    <3> HIDE DEF list, rest
    <3>2. calls'[c] = Tab!Settled(result)
      BY <1>2, <3>1
    <3> QED  BY <3>2, BecomesSettled
  <2>2. CASE c \notin S
    <3>1. list[c] = calls[c]
      BY <2>2
    <3> HIDE DEF list, rest
    <3>2. \/ calls'[c] = calls[c]
          \/ calls[c].phase = "chained" /\ calls'[c] = [calls[c] EXCEPT !.phase = "due"]
      BY <1>2, <3>1
    <3>3. calls[c] \in CallRecords
      BY CallFacts
    <3> QED  BY <3>2, <3>3, BecomesSettled
  <2> QED  BY <2>1, <2>2
<1>4. Len(serviceTail') <= Len(serviceTail) /\ Len(serviceTail') \in Nat
  <2>1. serviceTail \in Seq(Nat) /\ Len(serviceTail) \in Nat
    BY CallFacts
  <2>2. Len(rest) = Len(serviceTail) \/ Len(rest) = Len(serviceTail) - 1
    BY <2>1, BehindFacts
  <2>3. rest \in Seq(Nat)
    BY <2>1, BehindFacts
  <2> HIDE DEF rest
  <2>4. Len(rest) \in Nat
    BY <2>3
  <2>5. serviceTail' = rest
    BY DEF rest
  <2> QED  BY <2>1, <2>2, <2>4, <2>5
<1>5. Tab!Calls' = Tab!Calls
  BY <1>1 DEF Tab!Calls
<1>6. Len(calls') <= MaxCalls /\ Len(serviceTail') <= MaxQueued
  <2>1. Len(serviceTail) <= MaxQueued /\ Len(calls) <= MaxCalls
    BY DEF CallsAreBounded
  <2>2. Len(calls') <= MaxCalls
    BY <1>1, <2>1
  <2>3. ASSUME NEW n \in Nat, n = Len(serviceTail), NEW m \in Nat, m = Len(serviceTail')
        PROVE  m <= MaxQueued
    BY <1>4, <2>1, <2>3, TransportAssumption
  <2>4. Len(serviceTail) \in Nat
    BY CallFacts
  <2> QED  BY <1>4, <2>2, <2>3, <2>4
<1>7. \A a \in unanswered' : a[2] \in Tab!Calls'
  BY <1>5 DEF CallsAreBounded
<1>8. \A c \in Tab!Calls' \ Tab!Calls : IsBounded(calls'[c], sockets)
  BY <1>5
<1>9. Len(calls) <= Len(calls')
  BY ONLY <1>1
<1> HIDE DEF list, rest
<1> QED  BY ONLY <1>3, <1>6, <1>7, <1>8, <1>9, nextRequestId' = nextRequestId DEF TabMoves

\* One promise is settled.
LEMMA SettleOneMoves ==
    ASSUME CallsInv, CallsAreBounded, NEW c \in Tab!Calls, NEW result \in Tab!Results,
           calls[c].phase \in {"due", "pending"}, Tab!Settle(c, result),
           nextRequestId' = nextRequestId, unanswered' \subseteq unanswered, sockets' = sockets
    PROVE  TabMoves
<1>1. {c} \in SUBSET Tab!Calls /\ \A d \in {c} : calls[d].phase \in {"due", "pending"}
  OBVIOUS
<1>2. [calls EXCEPT ![c] = Tab!Settled(result)]
        = [d \in Tab!Calls |-> IF d \in {c} THEN Tab!Settled(result) ELSE calls[d]]
  BY CallFacts DEF Tab!Calls
<1>3. serviceTail' = Tab!Behind({c})
      /\ calls' = Tab!Advanced([d \in Tab!Calls |-> IF d \in {c} THEN Tab!Settled(result)
                                  ELSE calls[d]],
                           Tab!Behind({c}))
  BY <1>2 DEF Tab!Settle
<1> QED  BY <1>1, <1>3, SettleMoves

\* One call becomes another.
LEMMA OneMoves ==
    ASSUME CallsInv, CallsAreBounded, NEW c \in Tab!Calls, NEW r, Becomes(calls[c], r),
           calls' = [calls EXCEPT ![c] = r], serviceTail' = serviceTail,
           \A a \in unanswered' : a[2] \in Tab!Calls,
           \/ nextRequestId' = nextRequestId
           \/ /\ nextRequestId' = nextRequestId + 1
              /\ \E k \in Attempts : k \in Spent(r) /\ k \notin Spent(calls[c])
    PROVE  TabMoves
<1>1. /\ Len(calls') = Len(calls) /\ Len(calls) \in Nat /\ calls'[c] = r
      /\ \A d \in Tab!Calls \ {c} : calls'[d] = calls[d]
      /\ Tab!Calls' = Tab!Calls
  BY CallFacts DEF Tab!Calls
<1>2. \A d \in Tab!Calls : Becomes(calls[d], calls'[d])
  BY <1>1, BecomesSettled
<1>3. /\ Len(calls) <= Len(calls') /\ Len(calls') <= MaxCalls
      /\ Len(serviceTail') <= MaxQueued
  BY <1>1 DEF CallsAreBounded
<1>4. \/ nextRequestId' = nextRequestId
      \/ /\ nextRequestId' = nextRequestId + 1
         /\ \E d \in Tab!Calls', k \in Attempts :
               k \in Spent(calls'[d]) /\ (d \in Tab!Calls => k \notin Spent(calls[d]))
  BY <1>1
<1> QED  BY <1>1, <1>2, <1>3, <1>4 DEF TabMoves

\* A call is added.
LEMMA AddMoves ==
    ASSUME CallsInv, CallsAreBounded, Len(calls) < MaxCalls, NEW r \in CallRecords,
           IsBounded(r, sockets), calls' = Append(calls, r), Len(serviceTail') <= MaxQueued,
           \A a \in unanswered' : a[2] \in Tab!Calls \cup {Len(calls) + 1},
           \/ nextRequestId' = nextRequestId
           \/ nextRequestId' = nextRequestId + 1 /\ 0 \in Spent(r)
    PROVE  TabMoves
<1>1. /\ Len(calls') = Len(calls) + 1 /\ Len(calls) \in Nat
      /\ \A c \in Tab!Calls : calls'[c] = calls[c] /\ c < Len(calls) + 1
      /\ calls'[Len(calls) + 1] = r
      /\ Tab!Calls' = Tab!Calls \cup {Len(calls) + 1}
  BY AddedCall
<1>2. \A c \in Tab!Calls : Becomes(calls[c], calls'[c])
  BY <1>1, BecomesSettled
<1>3. Len(calls) <= Len(calls') /\ Len(calls') <= MaxCalls
  BY <1>1, TransportAssumption
<1>4. \A c \in Tab!Calls' \ Tab!Calls : IsBounded(calls'[c], sockets)
  BY <1>1
<1>5. Len(calls) + 1 \notin Tab!Calls
  BY <1>1
<1>6. CASE nextRequestId' = nextRequestId
  BY <1>1, <1>2, <1>3, <1>4, <1>6 DEF TabMoves
<1>7. CASE nextRequestId' = nextRequestId + 1 /\ 0 \in Spent(r)
  <2>1. 0 \in Attempts /\ Len(calls) + 1 \in Tab!Calls'
    BY <1>1, TransportAssumption DEF Attempts
  <2>2. \E d \in Tab!Calls', k \in Attempts :
            k \in Spent(calls'[d]) /\ (d \in Tab!Calls => k \notin Spent(calls[d]))
    BY <1>1, <1>5, <1>7, <2>1
  <2> QED  BY <1>1, <1>2, <1>3, <1>4, <1>7, <2>2 DEF TabMoves
<1> QED  BY <1>6, <1>7

\* A service is refused at once, or joins the chain if it has room.
LEMMA RequestMoves ==
    ASSUME CallsInv, CallsAreBounded, NEW kind \in Tab!Services, Tab!Request(kind)
    PROVE  TabMoves
<1>1. /\ Len(calls) < MaxCalls /\ nextRequestId' = nextRequestId /\ unanswered' = unanswered
  BY DEF Tab!Request
<1>2. /\ \A a \in unanswered' : a[2] \in Tab!Calls \cup {Len(calls) + 1}
      /\ Len(serviceTail) <= MaxQueued
      /\ serviceTail \in Seq(Nat) /\ Len(serviceTail) \in Nat /\ Len(calls) \in Nat
      /\ sockets \in Nat /\ MaxAttempts \in Nat /\ MaxQueued \in Nat
  BY <1>1, CallFacts, TransportAssumption DEF CallsAreBounded
<1>3. CASE tabSocket # "open" \/ Len(serviceTail) >= MaxQueued
  <2>1. PICK result \in Tab!Results : calls' = Append(calls, Tab!Settled(result))
    BY <1>3 DEF Tab!Request, Tab!Results
  <2>2. serviceTail' = serviceTail
    BY <1>3 DEF Tab!Request
  <2>3. Tab!Settled(result) \in CallRecords
    BY RecordFacts
  <2>4. IsBounded(Tab!Settled(result), sockets)
    BY <1>2 DEF IsBounded, Tab!Settled
  <2> QED  BY <1>1, <1>2, <2>1, <2>2, <2>3, <2>4, AddMoves
<1>4. CASE ~(tabSocket # "open" \/ Len(serviceTail) >= MaxQueued)
  <2> DEFINE r == Tab!New(kind, IF serviceTail = <<>> THEN "due" ELSE "chained", 0)
  <2>1. calls' = Append(calls, r) /\ serviceTail' = Append(serviceTail, Len(calls) + 1)
    BY <1>4 DEF Tab!Request
  <2>2. PICK phase \in {"due", "chained"} : r = Tab!New(kind, phase, 0)
    OBVIOUS
  <2>3. r \in CallRecords /\ IsBounded(r, sockets)
    <3>1. kind \in Tab!Kinds /\ phase \in Tab!Phases /\ phase # "pause"
      BY DEF Tab!Kinds, Tab!Services, Tab!Phases
    <3>2. r \in CallRecords
      BY <1>2, <2>2, <3>1 DEF Tab!New, CallRecords
    <3>3. r.socket = sockets /\ r.attempt = 0 /\ r.phase = phase
      BY <2>2 DEF Tab!New
    <3> HIDE DEF r
    <3> QED  BY <1>2, <3>1, <3>2, <3>3 DEF IsBounded
  <2>4. Len(serviceTail') <= MaxQueued
    <3>1. Len(serviceTail') = Len(serviceTail) + 1
      BY <1>2, <2>1
    <3>2. Len(serviceTail) < MaxQueued
      BY <1>2, <1>4
    <3> QED  BY <1>2, <3>1, <3>2
  <2> HIDE DEF r
  <2> QED  BY <1>1, <1>2, <2>1, <2>3, <2>4, AddMoves
<1> QED  BY <1>3, <1>4

\* A configuration is refused, or sent with the next identifier.
LEMMA ConfigureMoves ==
    ASSUME CallsInv, CallsAreBounded, NEW offered \in BOOLEAN, Tab!Configure(offered)
    PROVE  TabMoves
<1>1. Len(calls) < MaxCalls /\ serviceTail' = serviceTail
  BY DEF Tab!Configure
<1>2. /\ \A a \in unanswered : a[2] \in Tab!Calls
      /\ Len(serviceTail) <= MaxQueued /\ Len(calls) \in Nat
      /\ sockets \in Nat /\ MaxAttempts \in Nat /\ nextRequestId \in Nat
  BY CallFacts, TransportAssumption DEF CallsAreBounded
<1>3. CASE tabSocket # "open" \/ ~offered
  <2>1. /\ calls' = Append(calls, Tab!Settled("transport_error"))
        /\ nextRequestId' = nextRequestId /\ unanswered' = unanswered
    BY <1>3 DEF Tab!Configure
  <2>2. Tab!Settled("transport_error") \in CallRecords
    BY RecordFacts DEF Tab!Results
  <2>3. IsBounded(Tab!Settled("transport_error"), sockets)
    BY <1>2 DEF IsBounded, Tab!Settled
  <2>4. /\ \A a \in unanswered' : a[2] \in Tab!Calls \cup {Len(calls) + 1}
        /\ Len(serviceTail') <= MaxQueued
    BY <1>1, <1>2, <2>1
  <2> QED  BY <1>1, <2>1, <2>2, <2>3, <2>4, AddMoves
<1>4. CASE ~(tabSocket # "open" \/ ~offered)
  <2> DEFINE r == Tab!New("configure", "pending", nextRequestId)
  <2>1. /\ calls' = Append(calls, r) /\ nextRequestId' = nextRequestId + 1
        /\ unanswered' = unanswered \cup {<<nextRequestId, Len(calls) + 1>>}
    BY <1>4 DEF Tab!Configure
  <2>2. r \in CallRecords /\ r.socket = sockets /\ r.attempt = 0 /\ r.phase = "pending"
    <3>1. "configure" \in Tab!Kinds /\ "pending" \in Tab!Phases
      BY DEF Tab!Kinds, Tab!Phases
    <3> QED  BY <1>2, <3>1 DEF Tab!New, CallRecords
  <2> HIDE DEF r
  <2>3. IsBounded(r, sockets) /\ 0 \in Spent(r)
    BY <1>2, <2>2 DEF IsBounded, Spent, Attempts
  <2>4. /\ \A a \in unanswered' : a[2] \in Tab!Calls \cup {Len(calls) + 1}
        /\ Len(serviceTail') <= MaxQueued
    BY <1>1, <1>2, <2>1
  <2> QED  BY <1>1, <2>1, <2>2, <2>3, <2>4, AddMoves
<1> QED  BY <1>3, <1>4

\* A service is sent: its attempt has had no identifier yet.
LEMMA RunMoves ==
    ASSUME CallsInv, CallsAreBounded, NEW c \in Tab!Calls, Tab!Run(c)
    PROVE  TabMoves
<1>1. calls[c].phase = "due" /\ sockets' = sockets
  BY DEF Tab!Run, Tab!connectionVars
<1>2. calls[c] \in CallRecords /\ IsBounded(calls[c], sockets)
  BY CallFacts DEF CallsAreBounded
<1>3. CASE Tab!Usable(c)
  <2> DEFINE r == [calls[c] EXCEPT !.phase = "pending", !.id = nextRequestId]
  <2>1. /\ calls' = [calls EXCEPT ![c].phase = "pending", ![c].id = nextRequestId]
        /\ nextRequestId' = nextRequestId + 1
        /\ unanswered' = unanswered \cup {<<nextRequestId, c>>}
        /\ serviceTail' = serviceTail
    BY <1>3 DEF Tab!Run
  <2>2. calls' = [calls EXCEPT ![c] = r]
    BY <2>1, CallFacts
  <2>3. r.socket = calls[c].socket /\ r.attempt = calls[c].attempt /\ r.phase = "pending"
    BY <1>2 DEF CallRecords
  <2> HIDE DEF r
  <2>4. Becomes(calls[c], r)
    BY <1>1, <2>3 DEF Becomes
  <2>5. calls[c].attempt \in Attempts
    BY <1>2, TransportAssumption DEF IsBounded, CallRecords, Attempts
  <2>6. calls[c].attempt \in Spent(r) /\ calls[c].attempt \notin Spent(calls[c])
    <3>1. ASSUME NEW n \in Nat, n = calls[c].attempt PROVE ~(n < n)
      OBVIOUS
    <3>2. calls[c].attempt \in Nat
      BY <1>2 DEF CallRecords
    <3> QED  BY <1>1, <2>3, <2>5, <3>1, <3>2 DEF Spent
  <2>7. \A a \in unanswered' : a[2] \in Tab!Calls
    BY <2>1 DEF CallsAreBounded
  <2> QED  BY <2>1, <2>2, <2>4, <2>5, <2>6, <2>7, OneMoves
<1>4. CASE ~Tab!Usable(c)
  <2>1. Tab!Settle(c, "transport_error") /\ nextRequestId' = nextRequestId
        /\ unanswered' \subseteq unanswered
    BY <1>4 DEF Tab!Run
  <2>2. "transport_error" \in Tab!Results /\ calls[c].phase \in {"due", "pending"}
    BY <1>1 DEF Tab!Results
  <2> QED  BY <1>1, <2>1, <2>2, SettleOneMoves
<1> QED  BY <1>3, <1>4

\* A pause ends, or a time-out.
LEMMA TimersMove ==
    ASSUME CallsInv, CallsAreBounded, NEW c \in Tab!Calls, Tab!Paused(c) \/ Tab!Timeout(c)
    PROVE  TabMoves
<1>1. sockets' = sockets /\ nextRequestId' = nextRequestId /\ unanswered' = unanswered
  BY DEF Tab!Paused, Tab!Timeout, Tab!connectionVars
<1>2. calls[c] \in CallRecords /\ \A a \in unanswered' : a[2] \in Tab!Calls
  BY <1>1, CallFacts DEF CallsAreBounded
<1>3. CASE Tab!Paused(c)
  <2> DEFINE r == [calls[c] EXCEPT !.phase = "due", !.attempt = calls[c].attempt + 1]
  <2>1. calls[c].phase = "pause" /\ serviceTail' = serviceTail
        /\ calls' = [calls EXCEPT ![c].phase = "due", ![c].attempt = @ + 1]
    BY <1>3 DEF Tab!Paused
  <2>2. calls' = [calls EXCEPT ![c] = r]
    BY <2>1, CallFacts
  <2>3. r.socket = calls[c].socket /\ r.attempt = calls[c].attempt + 1 /\ r.phase = "due"
    BY <1>2 DEF CallRecords
  <2> HIDE DEF r
  <2>4. Becomes(calls[c], r)
    BY <2>1, <2>3 DEF Becomes
  <2> QED  BY <1>1, <1>2, <2>1, <2>2, <2>4, OneMoves
<1>4. CASE Tab!Timeout(c)
  <2>1. Tab!Settle(c, "transport_error") /\ calls[c].phase \in {"due", "pending"}
        /\ "transport_error" \in Tab!Results /\ unanswered' \subseteq unanswered
    BY <1>1, <1>4 DEF Tab!Timeout, Tab!Results
  <2> QED  BY <1>1, <2>1, SettleOneMoves
<1> QED  BY <1>3, <1>4

\* A refused read is paused while it may be tried again.
LEMMA MessageMoves ==
    ASSUME CallsInv, CallsAreBounded, NEW answer \in unanswered, NEW result \in Tab!Results,
           Tab!Message(answer, result)
    PROVE  TabMoves
<1>1. /\ sockets' = sockets /\ nextRequestId' = nextRequestId
      /\ unanswered' \subseteq unanswered
      /\ \A a \in unanswered' : a[2] \in Tab!Calls
  BY DEF Tab!Message, Tab!connectionVars, CallsAreBounded
<1>2. CASE Tab!Owner(answer) = {}
  <2>1. calls' = calls /\ serviceTail' = serviceTail /\ Tab!Calls' = Tab!Calls
    BY <1>2 DEF Tab!Message, Tab!Calls
  <2>2. Len(calls) \in Nat
    BY CallFacts
  <2> QED  BY <1>1, <2>1, <2>2, BecomesSettled DEF TabMoves, CallsAreBounded
<1>3. CASE Tab!Owner(answer) # {}
  <2>1. PICK c \in Tab!Owner(answer) : Tab!Respond(c, result)
    BY <1>3 DEF Tab!Message
  <2>2. c \in Tab!Calls /\ calls[c].phase = "pending"
    BY DEF Tab!Owner, Tab!Awaits
  <2>3. CASE Tab!Retries(c, result)
    <3> DEFINE r == [calls[c] EXCEPT !.phase = "pause", !.id = 0]
    <3>1. /\ calls' = [calls EXCEPT ![c].phase = "pause", ![c].id = 0]
          /\ serviceTail' = serviceTail /\ calls[c].attempt < MaxAttempts
      BY <2>1, <2>3 DEF Tab!Respond, Tab!Retries
    <3>2. calls' = [calls EXCEPT ![c] = r] /\ calls[c] \in CallRecords
      BY <2>2, <3>1, CallFacts
    <3>3. r.socket = calls[c].socket /\ r.attempt = calls[c].attempt /\ r.phase = "pause"
      BY <3>2 DEF CallRecords
    <3> HIDE DEF r
    <3>4. Becomes(calls[c], r)
      BY <2>2, <3>1, <3>3 DEF Becomes
    <3> QED  BY <1>1, <2>2, <3>1, <3>2, <3>4, OneMoves
  <2>4. CASE ~Tab!Retries(c, result)
    <3>1. Tab!Settle(c, result) /\ calls[c].phase \in {"due", "pending"}
      BY <2>1, <2>2, <2>4 DEF Tab!Respond
    <3> QED  BY <1>1, <2>2, <3>1, SettleOneMoves
  <2> QED  BY <2>3, <2>4
<1> QED  BY <1>2, <1>3

\* So is one that an earlier browser's answer is taken for.
LEMMA ForeignMoves ==
    ASSUME CallsInv, CallsAreBounded, NEW c \in Tab!Calls, NEW result \in Tab!Results,
           Tab!Foreign(c, result)
    PROVE  TabMoves
<1>1. /\ sockets' = sockets /\ nextRequestId' = nextRequestId
      /\ unanswered' \subseteq unanswered
      /\ \A a \in unanswered' : a[2] \in Tab!Calls
      /\ calls[c].phase = "pending" /\ Tab!Respond(c, result)
  BY DEF Tab!Foreign, CallsAreBounded
<1>2. CASE Tab!Retries(c, result)
  <2> DEFINE r == [calls[c] EXCEPT !.phase = "pause", !.id = 0]
  <2>1. /\ calls' = [calls EXCEPT ![c].phase = "pause", ![c].id = 0]
        /\ serviceTail' = serviceTail /\ calls[c].attempt < MaxAttempts
    BY <1>1, <1>2 DEF Tab!Respond, Tab!Retries
  <2>2. calls' = [calls EXCEPT ![c] = r] /\ calls[c] \in CallRecords
    BY <2>1, CallFacts
  <2>3. r.socket = calls[c].socket /\ r.attempt = calls[c].attempt /\ r.phase = "pause"
    BY <2>2 DEF CallRecords
  <2> HIDE DEF r
  <2>4. Becomes(calls[c], r)
    BY <1>1, <2>1, <2>3 DEF Becomes
  <2> QED  BY <1>1, <2>1, <2>2, <2>4, OneMoves
<1>3. CASE ~Tab!Retries(c, result)
  <2>1. Tab!Settle(c, result) /\ calls[c].phase \in {"due", "pending"}
    BY <1>1, <1>3 DEF Tab!Respond
  <2> QED  BY <1>1, <2>1, SettleOneMoves
<1> QED  BY <1>2, <1>3

\* The socket's end settles every promise that waits.
LEMMA OnCloseMoves ==
    ASSUME CallsInv, CallsAreBounded, Tab!OnClose
    PROVE  TabMoves
<1> DEFINE S == {c \in Tab!Calls : Tab!Drops(c)}
<1>1. /\ sockets' = sockets /\ nextRequestId' = nextRequestId
           /\ unanswered' \subseteq unanswered
      /\ serviceTail' = Tab!Behind(S)
      /\ calls' = Tab!Advanced([c \in Tab!Calls |-> IF Tab!Drops(c)
                              THEN Tab!Settled("transport_error") ELSE calls[c]],
                                Tab!Behind(S))
  BY DEF Tab!OnClose
<1>2. [c \in Tab!Calls |-> IF Tab!Drops(c) THEN Tab!Settled("transport_error") ELSE calls[c]]
        = [c \in Tab!Calls |-> IF c \in S THEN Tab!Settled("transport_error") ELSE calls[c]]
  OBVIOUS
<1>3. S \in SUBSET Tab!Calls /\ \A c \in S : calls[c].phase \in {"due", "pending"}
  BY DEF Tab!Drops
<1> HIDE DEF S
<1>4. "transport_error" \in Tab!Results
  BY DEF Tab!Results
<1>5. calls' = Tab!Advanced([c \in Tab!Calls |-> IF c \in S THEN Tab!Settled("transport_error")
                                         ELSE calls[c]], Tab!Behind(S))
  BY <1>1, <1>2
<1> QED  BY <1>1, <1>3, <1>4, <1>5, SettleMoves

\* The bound on the sockets, and what the views are shown.
LEMMA SocketsStep ==
    ASSUME SocketsAreBounded, sockets \in Nat, [Tab!Next]_tabVars
    PROVE  SocketsAreBounded' /\ sockets <= sockets'
<1> USE DEF SocketsAreBounded
<1>1. CASE Tab!Connect
  BY <1>1, TransportAssumption DEF Tab!Connect, Tab!Open
<1>2. CASE Tab!Reconnect
  BY <1>2, TransportAssumption DEF Tab!Reconnect, Tab!Open
<1>3. CASE Tab!Disconnect
  BY <1>3 DEF Tab!Disconnect
<1>4. CASE Tab!OnOpen
  BY <1>4 DEF Tab!OnOpen
<1>5. CASE Tab!OnError
  BY <1>5 DEF Tab!OnError
<1>6. CASE Tab!OnClose
  BY <1>6 DEF Tab!OnClose
<1>7. ASSUME UNCHANGED Tab!connectionVars PROVE SocketsAreBounded' /\ sockets <= sockets'
  BY <1>7 DEF Tab!connectionVars
<1>8. CASE \E offered \in BOOLEAN : Tab!Configure(offered)
  BY <1>7, <1>8 DEF Tab!Configure
<1>9. CASE \E kind \in Tab!Services : Tab!Request(kind)
  BY <1>7, <1>9 DEF Tab!Request
<1>10. CASE \E c \in Tab!Calls : Tab!Run(c)
  BY <1>7, <1>10 DEF Tab!Run
<1>11. CASE Tab!Timers
  BY <1>7, <1>11 DEF Tab!Timers, Tab!Paused, Tab!Timeout
<1>12. CASE \E answer \in unanswered, result \in Tab!Results : Tab!Message(answer, result)
  BY <1>7, <1>12 DEF Tab!Message
<1>13. CASE UNCHANGED tabVars
  BY <1>7, <1>13 DEF tabVars, Tab!connectionVars
<1>14. CASE \E c \in Tab!Calls, result \in Tab!Results : Tab!Foreign(c, result)
  BY <1>14 DEF Tab!Foreign
<1> QED
  BY <1>1, <1>2, <1>3, <1>4, <1>5, <1>6, <1>8, <1>9, <1>10, <1>11, <1>12, <1>13, <1>14
     DEF Tab!Next

\* A step that leaves the calls alone.
LEMMA RestMoves ==
    ASSUME CallsInv, CallsAreBounded, UNCHANGED Tab!callVars
    PROVE  TabMoves
<1>1. UNCHANGED <<calls, serviceTail, nextRequestId, unanswered>> /\ Tab!Calls' = Tab!Calls
  BY DEF Tab!callVars, Tab!Calls
<1>2. Len(calls) \in Nat
  BY CallFacts
<1> QED  BY <1>1, <1>2, BecomesSettled DEF TabMoves, CallsAreBounded

\* Every step of the Companion's end keeps its bounds.
LEMMA TabCountedStep == TabCounted /\ [Tab!Next]_tabVars => TabCounted'
<1> SUFFICES ASSUME TabCounted, [Tab!Next]_tabVars PROVE TabCounted'
  OBVIOUS
<1>1. /\ TabInv /\ TabInv' /\ CallsInv /\ CallsInv' /\ sockets \in Nat
      /\ CallsAreBounded /\ SocketsAreBounded /\ IdsAreCounted
  BY TabStep, CallFacts DEF TabCounted, TabInv
<1>2. TabMoves
  <2>1. CASE \/ Tab!Connect \/ Tab!Reconnect \/ Tab!Disconnect \/ Tab!OnOpen \/ Tab!OnError
             \/ UNCHANGED tabVars
    <3>1. UNCHANGED Tab!callVars
      BY <2>1 DEF Tab!Connect, Tab!Reconnect, Tab!Disconnect, Tab!OnOpen, Tab!OnError,
                  tabVars, Tab!callVars
    <3> QED  BY <1>1, <3>1, RestMoves
  <2>2. CASE \E offered \in BOOLEAN : Tab!Configure(offered)
    BY <1>1, <2>2, ConfigureMoves
  <2>3. CASE \E kind \in Tab!Services : Tab!Request(kind)
    BY <1>1, <2>3, RequestMoves
  <2>4. CASE \E c \in Tab!Calls : Tab!Run(c)
    BY <1>1, <2>4, RunMoves
  <2>5. CASE Tab!Timers
    BY <1>1, <2>5, TimersMove DEF Tab!Timers
  <2>6. CASE \E answer \in unanswered, result \in Tab!Results : Tab!Message(answer, result)
    BY <1>1, <2>6, MessageMoves
  <2>7. CASE Tab!OnClose
    BY <1>1, <2>7, OnCloseMoves
  <2>8. CASE \E c \in Tab!Calls, result \in Tab!Results : Tab!Foreign(c, result)
    BY <1>1, <2>8, ForeignMoves
  <2> QED  BY <2>1, <2>2, <2>3, <2>4, <2>5, <2>6, <2>7, <2>8 DEF Tab!Next
<1>3. SocketsAreBounded' /\ sockets <= sockets'
  BY <1>1, SocketsStep
<1> QED  BY <1>1, <1>2, <1>3, MovesKeepBounds DEF TabCounted

\* A page that has just been opened has made no calls.
LEMMA TabCountedInit == Tab!Init => TabCounted
<1> SUFFICES ASSUME Tab!Init PROVE TabCounted
  OBVIOUS
<1>1. /\ TabInv /\ CallsInv /\ sockets = 0 /\ shownState = "disconnected" /\ calls = <<>>
      /\ serviceTail = <<>> /\ nextRequestId = 1 /\ unanswered = {}
  BY TabInit DEF Tab!Init, TabInv
<1>2. Len(calls) = 0 /\ Len(serviceTail) = 0 /\ Tab!Calls = {}
  BY <1>1 DEF Tab!Calls
<1>3. CallsAreBounded /\ SocketsAreBounded
  BY <1>1, <1>2, TransportAssumption DEF CallsAreBounded, SocketsAreBounded
<1>4. IdsAreCounted
  <2>1. Cardinality(AllSpent) \in Nat
    BY <1>1, <1>3, SpentFinite DEF CallsAreBounded
  <2> QED  BY <1>1, <2>1 DEF IdsAreCounted
<1> QED  BY <1>1, <1>3, <1>4 DEF TabCounted

\* With the bounds, the types follow: an identifier is one of those the attempts have.
LEMMA TabTyped == TabCounted => Tab!TypeOK
<1> SUFFICES ASSUME TabCounted PROVE Tab!TypeOK
  OBVIOUS
<1> DEFINE most == MaxCalls * (MaxAttempts + 1)
<1>1. /\ TabInv /\ CallsInv /\ SocketTypes /\ CallsAreBounded /\ SocketsAreBounded
      /\ IdsAreCounted
  BY DEF TabCounted, TabInv
<1>2. /\ sockets \in Nat /\ sockets \in 0 .. MaxSockets
      /\ nextRequestId \in Nat /\ 0 < nextRequestId
      /\ Len(calls) \in Nat /\ serviceTail \in Seq(Nat)
  BY <1>1, CallFacts, TransportAssumption DEF SocketsAreBounded
<1>3. most \in Nat
  BY TransportAssumption
<1>4. nextRequestId <= most + 1
  <2>1. /\ Cardinality(AllSpent) \in Nat /\ Cardinality(AllSpent) <= most
        /\ nextRequestId <= Cardinality(AllSpent) + 1
    BY <1>1, SpentFinite DEF CallsAreBounded, IdsAreCounted
  <2> QED  BY <1>2, <1>3, <2>1
<1>5. Tab!Ids = 0 .. most
  BY DEF Tab!Ids
<1> HIDE DEF most
<1>6. \A n \in Nat : n < nextRequestId => n \in Tab!Ids
  BY <1>2, <1>3, <1>4, <1>5
<1>7. nextRequestId \in Tab!Ids \cup {most + 1}
  BY <1>2, <1>3, <1>4, <1>5
<1>8. ASSUME NEW c \in Tab!Calls
      PROVE  calls[c] \in [kind : Tab!Kinds, socket : 0 .. MaxSockets, phase : Tab!Phases,
                           id : Tab!Ids, attempt : 0 .. MaxAttempts,
                           result : Tab!Results \cup {"none"}]
  <2>1. calls[c] \in CallRecords /\ calls[c].id < nextRequestId /\ calls[c].id \in Nat
    BY <1>1, CallFacts
  <2>2. calls[c].id \in Tab!Ids
    BY <1>6, <2>1
  <2>3. calls[c].socket <= sockets /\ calls[c].attempt <= MaxAttempts
    BY <1>1 DEF CallsAreBounded, IsBounded
  <2>4. calls[c].socket \in 0 .. MaxSockets /\ calls[c].attempt \in 0 .. MaxAttempts
    BY <1>2, <2>1, <2>3, TransportAssumption DEF CallRecords
  <2> QED  BY <2>1, <2>2, <2>4 DEF CallRecords
<1>9. \A i \in 1 .. Len(serviceTail) : serviceTail[i] \in Tab!Calls
  BY <1>1 DEF CallsInv, ChainInOrder
<1>10. unanswered \subseteq Tab!Ids \X Tab!Calls
  <2>1. ASSUME NEW a \in unanswered PROVE a \in Tab!Ids \X Tab!Calls
    <3>1. a \in Nat \X Nat /\ a[1] < nextRequestId /\ a[1] \in Nat
      BY <1>1, CallFacts
    <3>2. a[1] \in Tab!Ids /\ a[2] \in Tab!Calls
      BY <1>1, <1>6, <3>1 DEF CallsAreBounded
    <3>3. a = <<a[1], a[2]>>
      BY <3>1
    <3> QED  BY <3>2, <3>3
  <2> QED  BY <2>1
<1>11. /\ tabSocket \in {"none", "connecting", "open", "closing"}
       /\ explicitlyDisconnected \in BOOLEAN /\ reconnectTimer \in BOOLEAN
       /\ shownState \in {"disconnected", "connecting", "connected"}
       /\ foreign \in 0 .. MaxForeign
  BY <1>1 DEF SocketTypes, SocketsAreBounded
<1>12. Len(calls) <= MaxCalls /\ Len(serviceTail) <= MaxQueued
  BY <1>1 DEF CallsAreBounded
<1> QED
  BY <1>2, <1>7, <1>8, <1>9, <1>10, <1>11, <1>12 DEF Tab!TypeOK, most

-----------------------------------------------------------------------------
(* The master's receiver *)

\* The receiver's ages stay within their bounds.
LEMMA LinkStep == Link!TypeOK /\ [Link!Next]_linkVars => Link!TypeOK'
<1> SUFFICES ASSUME Link!TypeOK, [Link!Next]_linkVars PROVE Link!TypeOK'
  OBVIOUS
<1> USE DEF Link!TypeOK, Link!MaxAge, Link!MinUntil, Link!MaxPreempted, Link!GATEWAY_LOSS_MS,
            Link!RX_RECOVERY_RETRY_MS
<1>1. CASE Link!Tick
  BY <1>1 DEF Link!Tick, Link!AtMost, Link!AtLeast
<1>2. CASE Link!Task
  BY <1>2 DEF Link!Task, Link!Sample, Link!Check, Link!Clear, Link!Abort, Link!Arm,
              Link!NextAttempt
<1>3. CASE \/ Link!onError \/ UNCHANGED linkVars
           \/ \E complete, good \in BOOLEAN : Link!onHalRxEvent(complete, good)
  BY <1>3 DEF Link!onError, Link!onHalRxEvent, linkVars
<1> QED  BY <1>1, <1>2, <1>3 DEF Link!Next

\* They start at zero.
LEMMA LinkInit == Link!Init => Link!TypeOK
  BY DEF Link!Init, Link!TypeOK, Link!MaxAge, Link!MinUntil, Link!MaxPreempted,
         Link!GATEWAY_LOSS_MS, Link!RX_RECOVERY_RETRY_MS

-----------------------------------------------------------------------------
(* The theorems *)

\* A step of the gateway is, for each part, a step of it or none.
LEMMA StepOfAPart ==
    [AllNext]_allVars =>
        /\ [Next]_vars /\ [Delivery!Next]_deliveryVars /\ [Broker!Next]_brokerVars
        /\ [Meter!Next]_meterVars /\ [Tab!Next]_tabVars
  BY DEF AllNext, OthersRest, allVars

\* The inductive invariants of the services, of the deliveries and of the Companion's end
\* hold in every reachable state.
THEOREM AnswersInvariance == AllSpec => [](ServicesInv /\ DeliveryInv /\ TabInv)
<1>1. AllInit => ServicesInv /\ DeliveryInv /\ TabInv
  BY ServicesInit, DeliveryInit, TabInit DEF AllInit
<1>2. (ServicesInv /\ DeliveryInv /\ TabInv) /\ [AllNext]_allVars
        => (ServicesInv /\ DeliveryInv /\ TabInv)'
  BY StepOfAPart, ServicesStep, DeliveryStep, TabStep
<1> QED  BY <1>1, <1>2, PTL DEF AllSpec

\* An answer goes where the code can send it: a browser waits exactly for its request that
\* has the slot or whose answer is on its way; no "ok" without the service it stands for,
\* to the browser that asked or, when that one has left, to whoever is on its socket; every
\* reply once and in order; no request repeated but a refused read; and every promise
\* settled with the answer to its own request, or by one that an earlier browser left on
\* the socket.
THEOREM AnswersReachBrowsers == AllSpec => AnswersReachTheirBrowser
<1>1. ServicesInv /\ DeliveryInv /\ TabInv =>
        /\ explored = "services" =>
              AcceptedHasTheSlot /\ SyncHasTheSlot /\ ReportedSyncIsReal
        /\ explored = "delivery" => Delivery!RepliesInOrder /\ Delivery!OneSendUnderWay
        /\ explored = "tab" => Tab!OneReconnectLoop
  BY CountedInOrder DEF ServicesInv, BrowsersHold, LinkHolds, TabInv
<1>2. (ServicesInv /\ DeliveryInv /\ TabInv) /\ [AllNext]_allVars =>
        /\ [explored = "services" => OkMeansServed /\ SlotIsFreedByItsOwn]_allVars
        /\ [explored = "tab" => Tab!NeverReplayed /\ Tab!AnswersAreOwn]_allVars
  BY StepOfAPart, ServicesStep, TabStep DEF ServicesPromise
<1> QED
  BY <1>1, <1>2, AnswersInvariance, PTL DEF AllSpec, AnswersReachTheirBrowser

\* The inductive invariants of the client and of the meters hold in every reachable state.
THEOREM PublicationInvariance == AllSpec => [](BrokerInv /\ MeterInv)
<1>1. AllInit => BrokerInv /\ MeterInv
  BY BrokerInit, MeterInit DEF AllInit
<1>2. (BrokerInv /\ MeterInv) /\ [AllNext]_allVars => (BrokerInv /\ MeterInv)'
  BY StepOfAPart, BrokerStep, MeterStep
<1> QED  BY <1>1, <1>2, PTL DEF AllSpec

\* What the broker gets is true: nothing that a reset made old is chosen, and at most the one
\* message that was chosen before is sent in spite of the reset; no sample twice; a state that
\* is the session's; and no reading under another meter than the one it was taken of.
THEOREM PublishedTruly == AllSpec => PublishedIsTrue
<1>1. BrokerInv /\ MeterInv =>
        /\ explored = "mqtt" =>
              Broker!StateIsReal /\ Broker!NothingOldIsDue /\ Broker!LateAtMostOnce
        /\ explored = "meters" => Meter!ReadingsBelong
  BY DEF BrokerInv, MeterInv
<1>2. (BrokerInv /\ MeterInv) /\ [AllNext]_allVars =>
        /\ [explored = "mqtt" => Broker!OnlyNewAcquisitions]_allVars
        /\ [explored = "meters" => Meter!PublishedBelong]_allVars
  BY StepOfAPart, SendsAreNew, MeterStep
<1> QED  BY <1>1, <1>2, PublicationInvariance, PTL DEF AllSpec, PublishedIsTrue

\* The types of the parts, with the bounds that they follow from.
PartsAreTyped ==
    /\ explored \in {"services", "link", "delivery", "mqtt", "meters", "tab"}
    /\ Link!TypeOK /\ CountedInv /\ MetersAreTyped /\ TabCounted

\* In every reachable state each part is of its types, and its counters are within the
\* bounds that its clients, attempts and acquisitions set.
THEOREM TypesInvariance == AllSpec => []PartsAreTyped
<1>1. AllInit => PartsAreTyped
  BY LinkInit, CountedInit, MetersTypedInit, TabCountedInit DEF AllInit, PartsAreTyped
<1>2. MeterInv /\ PartsAreTyped /\ [AllNext]_allVars => PartsAreTyped'
  <2> SUFFICES ASSUME MeterInv, PartsAreTyped, [AllNext]_allVars PROVE PartsAreTyped'
    OBVIOUS
  <2>1. [Link!Next]_linkVars /\ explored' = explored
    BY DEF AllNext, OthersRest, allVars
  <2>2. Link!TypeOK'
    BY <2>1, LinkStep DEF PartsAreTyped
  <2>3. CountedInv' /\ MetersAreTyped' /\ TabCounted'
    BY StepOfAPart, CountedStep, MetersTypedStep, TabCountedStep DEF PartsAreTyped
  <2> QED  BY <2>1, <2>2, <2>3 DEF PartsAreTyped
<1> QED  BY <1>1, <1>2, PublicationInvariance, PTL DEF AllSpec

\* Type correctness of the gateway: the part that is explored is of its types, its send
\* generations, request identifiers and queue lengths included.
THEOREM GatewayTypeCorrect == AllSpec => []AllTypeOK
<1>1. ServicesInv /\ BrokerInv /\ MeterInv /\ PartsAreTyped => AllTypeOK
  <2> SUFFICES ASSUME ServicesInv, BrokerInv, MeterInv, PartsAreTyped PROVE AllTypeOK
    OBVIOUS
  <2>1. /\ TypeOK /\ Link!TypeOK /\ Delivery!TypeOK /\ Broker!TypeOK /\ Meter!TypeOK
        /\ Tab!TypeOK
    BY ServicesTyped, DeliveryTyped, MeterTyped, TabTyped DEF BrokerInv, PartsAreTyped
  <2> QED  BY <2>1 DEF PartsAreTyped, AllTypeOK
<1> QED  BY <1>1, AnswersInvariance, PublicationInvariance, TypesInvariance, PTL

=============================================================================
