--------------------------- MODULE GatewayDelivery ---------------------------
(***************************************************************************)
(* Text for one WebSocket client: what GatewayApi keeps for its socket     *)
(* (WebSocketDelivery), the queue behind a send that is under way          *)
(* (DeliveryQueue), and the two tasks that fill it.  The main task         *)
(* broadcasts, answers services, flushes queues and closes clients that do *)
(* not follow; the HTTP task answers requests at once and runs the sends.  *)
(* The mutex is given back before a send is handed over, so connections    *)
(* come and go, on the same socket number, between any two steps.          *)
(*                                                                         *)
(* External: the HTTP server runs the sends handed to it in order, between *)
(* requests, and calls back with their results; it may refuse to take one. *)
(***************************************************************************)
EXTENDS Naturals, Sequences

CONSTANTS TopicCount,      \* 4 in the code: hello, gateway and BMS status, snapshot
          Capacity,        \* the replies the queue holds, 16 in the code
          MaxReplies,      \* bound: the replies to one client
          MaxConnections   \* bound: the clients that use the socket

VARIABLES
    connections,  \* the clients the socket has had
    open,         \* the socket is a WebSocket session of the server
    closing,      \* httpd_sess_trigger_close was called for it
    delivery,     \* socket (used), generation, sendPending, retiring
    replies,      \* the queue's replies, first in, first out
    state,        \* the topics with a state message in the queue
    nextState,    \* the topic whose turn it is
    task,         \* for each task, the message it is about to queue or send
    work,         \* the sends the server has taken
    accepted,     \* the replies queueWebSocketText accepted for this client
    received      \* the replies this client received

queueVars == <<replies, state, nextState>>
vars == <<connections, open, closing, delivery, queueVars, task, work, accepted, received>>

Topics == 1 .. TopicCount
Tasks == {"main", "http"}
Items == [reply : BOOLEAN, topic : Topics, number : 0 .. MaxReplies]
Reply(n) == [reply |-> TRUE, topic |-> 1, number |-> n]
State(t) == [reply |-> FALSE, topic |-> t, number |-> 0]
Generations == 0 .. 2 * MaxConnections
Idle == [step |-> "idle", item |-> State(1), generation |-> 0]

TypeOK ==
    /\ connections \in 0 .. MaxConnections
    /\ open \in BOOLEAN /\ closing \in BOOLEAN
    /\ delivery \in [used : BOOLEAN, generation : Generations,
                     sendPending : BOOLEAN, retiring : BOOLEAN]
    /\ replies \in Seq(1 .. MaxReplies) /\ Len(replies) <= Capacity
    /\ state \subseteq Topics /\ nextState \in Topics
    /\ task \in [Tasks -> [step : {"idle", "check", "lock", "send"}, item : Items,
                           generation : Generations]]
    /\ work \in Seq([item : Items, generation : Generations])
    /\ accepted \in 0 .. MaxReplies
    /\ received \in Seq(1 .. MaxReplies)

-----------------------------------------------------------------------------
(* DeliveryQueue.                                                          *)

Empty == replies = <<>> /\ state = {}

ClearQueue == replies' = <<>> /\ state' = {} /\ nextState' = 1

Turn(t) == IF t + 1 \in Topics THEN t + 1 ELSE 1

\* Replies go before state; the topics take turns.
NextTopic == IF nextState \in state \/ \A t \in state : t < nextState
             THEN IF nextState \in state THEN nextState
                  ELSE CHOOSE t \in state : \A u \in state : t <= u
             ELSE CHOOSE t \in state : t > nextState /\ \A u \in state : u > nextState => t <= u

Pop ==
    IF replies # <<>>
    THEN replies' = Tail(replies) /\ UNCHANGED <<state, nextState>>
    ELSE /\ state' = state \ {NextTopic}
         /\ nextState' = Turn(NextTopic)
         /\ UNCHANGED replies

Popped == IF replies # <<>> THEN Reply(Head(replies)) ELSE State(NextTopic)

-----------------------------------------------------------------------------
(* The delivery of the socket.                                             *)

\* resetWebSocketDelivery.
Reset ==
    /\ delivery' = [used |-> FALSE, generation |-> delivery.generation + 1,
                    sendPending |-> FALSE, retiring |-> FALSE]
    /\ ClearQueue
    /\ accepted' = 0 /\ received' = <<>>

Retire(found) ==
    /\ delivery' = [found EXCEPT !.retiring = TRUE]
    /\ ClearQueue

\* findWebSocketDelivery: a socket without a delivery gets one.
Found == IF delivery.used THEN delivery
         ELSE [delivery EXCEPT !.used = TRUE, !.generation = @ + 1]

Run(t, step, item, generation) ==
    task' = [task EXCEPT ![t] = [step |-> step, item |-> item, generation |-> generation]]
Done(t) == task' = [task EXCEPT ![t] = Idle]

-----------------------------------------------------------------------------
(* The HTTP task: one request, one send, one connection at a time.         *)

HttpIdle == task["http"].step = "idle"

(* A new client: prepareWebSocketConnection, then the hello.  The status   *)
(* and the snapshot follow as any later message.                           *)
Connect ==
    /\ HttpIdle /\ ~open /\ connections < MaxConnections
    /\ connections' = connections + 1
    /\ open' = TRUE /\ closing' = FALSE
    /\ IF delivery.used THEN Reset
       ELSE UNCHANGED <<delivery, queueVars, accepted, received>>
    /\ Run("http", "check", State(1), 0)
    /\ UNCHANGED work

\* The client leaves, is purged, or is closed as it was asked to be.
Close ==
    /\ HttpIdle /\ open
    /\ open' = FALSE /\ closing' = FALSE
    /\ UNCHANGED <<connections, delivery, queueVars, task, work, accepted, received>>

\* A task has a reply, or a new state of a topic, for the client.
Produce(t, item) ==
    /\ task[t].step = "idle"
    /\ t = "http" => open
    /\ Run(t, "check", item, 0)
    /\ UNCHANGED <<connections, open, closing, delivery, queueVars, work, accepted, received>>

-----------------------------------------------------------------------------
(* queueWebSocketText.                                                     *)

\* httpd_ws_get_fd_info, before the mutex is taken.
Check(t) ==
    /\ task[t].step = "check"
    /\ IF open THEN Run(t, "lock", task[t].item, 0) ELSE Done(t)
    /\ UNCHANGED <<connections, open, closing, delivery, queueVars, work, accepted, received>>

Accept(item) == accepted' = IF item.reply THEN accepted + 1 ELSE accepted

\* A reply is numbered when it is accepted.
Numbered(item) == IF item.reply THEN Reply(accepted + 1) ELSE item

\* A message waits behind a send under way and behind what is queued.
BehindOthers(found) == found.sendPending \/ ~Empty

Push(item) ==
    IF item.reply
    THEN replies' = Append(replies, item.number) /\ UNCHANGED <<state, nextState>>
    ELSE state' = state \cup {item.topic} /\ UNCHANGED <<replies, nextState>>

Full(item) == item.reply /\ Len(replies) = Capacity

\* Memory for the message or for its copy may be short: it is dropped.
NoMemory(t) ==
    /\ task[t].step = "lock"
    /\ Done(t)
    /\ UNCHANGED <<connections, open, closing, delivery, queueVars, work, accepted, received>>

Queue(t) ==
    LET item == Numbered(task[t].item)
    IN  /\ task[t].step = "lock"
        /\ item.number <= MaxReplies
        /\ IF Found.retiring
           THEN Done(t) /\ UNCHANGED <<delivery, queueVars, accepted>>
           ELSE IF BehindOthers(Found)
           THEN /\ Done(t)
                /\ IF Full(item) THEN Retire(Found) /\ UNCHANGED accepted
                   ELSE Push(item) /\ Accept(item) /\ delivery' = Found
           ELSE /\ Run(t, "send", item, Found.generation)
                /\ delivery' = [Found EXCEPT !.sendPending = TRUE]
                /\ Accept(item)
                /\ UNCHANGED queueVars
        /\ UNCHANGED <<connections, open, closing, work, received>>

\* httpd_ws_send_data_async takes the message ...
Send(t) ==
    /\ task[t].step = "send"
    /\ work' = Append(work, [item |-> task[t].item, generation |-> task[t].generation])
    /\ Done(t)
    /\ UNCHANGED <<connections, open, closing, delivery, queueVars, accepted, received>>

Current(generation) == delivery.used /\ delivery.generation = generation

\* ... or refuses it, and the client is given up.
SendRefused(t) ==
    /\ task[t].step = "send"
    /\ Done(t)
    /\ IF Current(task[t].generation)
       THEN Retire([delivery EXCEPT !.sendPending = FALSE])
       ELSE UNCHANGED <<delivery, queueVars>>
    /\ UNCHANGED <<connections, open, closing, work, accepted, received>>

-----------------------------------------------------------------------------

Releases(generation) == Current(generation)

(* The server runs the oldest send, then releaseQueuedWebSocketText.       *)
RunWork(ok) ==
    LET sent == Head(work)
    IN  /\ HttpIdle /\ work # <<>>
        /\ ok => open
        /\ work' = Tail(work)
        /\ received' = IF ok /\ sent.item.reply /\ Current(sent.generation)
                       THEN Append(received, sent.item.number) ELSE received
        /\ IF Releases(sent.generation)
           THEN IF ok THEN delivery' = [delivery EXCEPT !.sendPending = FALSE] /\ UNCHANGED queueVars
                ELSE Retire([delivery EXCEPT !.sendPending = FALSE])
           ELSE UNCHANGED <<delivery, queueVars>>
        /\ UNCHANGED <<connections, open, closing, task, accepted>>

-----------------------------------------------------------------------------
(* The main task: retireUnresponsiveWebSockets and flushQueuedWebSockets.  *)

MainIdle == task["main"].step = "idle"

Forget ==
    /\ MainIdle /\ delivery.used /\ ~open
    /\ Reset
    /\ UNCHANGED <<connections, open, closing, task, work>>

AskToClose ==
    /\ MainIdle /\ delivery.used /\ open /\ delivery.retiring /\ ~closing
    /\ closing' = TRUE
    /\ UNCHANGED <<connections, open, delivery, queueVars, task, work, accepted, received>>

Flush ==
    /\ MainIdle /\ delivery.used /\ ~delivery.sendPending /\ ~delivery.retiring /\ ~Empty
    /\ open
    /\ Run("main", "send", Popped, delivery.generation)
    /\ Pop
    /\ delivery' = [delivery EXCEPT !.sendPending = TRUE]
    /\ UNCHANGED <<connections, open, closing, work, accepted, received>>

-----------------------------------------------------------------------------
Init ==
    /\ connections = 0 /\ open = FALSE /\ closing = FALSE
    /\ delivery = [used |-> FALSE, generation |-> 0, sendPending |-> FALSE, retiring |-> FALSE]
    /\ replies = <<>> /\ state = {} /\ nextState = 1
    /\ task = [t \in Tasks |-> Idle]
    /\ work = <<>> /\ accepted = 0 /\ received = <<>>

TaskStep(t) == Check(t) \/ NoMemory(t) \/ Queue(t) \/ Send(t) \/ SendRefused(t)

Next ==
    \/ Connect \/ Close
    \/ \E t \in Tasks, item \in {Reply(0)} \cup {State(u) : u \in Topics} : Produce(t, item)
    \/ \E t \in Tasks : TaskStep(t)
    \/ \E ok \in BOOLEAN : RunWork(ok)
    \/ Forget \/ AskToClose \/ Flush

Spec == Init /\ [][Next]_vars

-----------------------------------------------------------------------------
\* The sends of this connection, in the hands of the server or of a task.
Mine(sends) == {i \in DOMAIN sends : sends[i].generation = delivery.generation}
Held == {t \in Tasks : task[t].step = "send" /\ task[t].generation = delivery.generation}
\* The replies among them.
OnTheWay ==
    {n \in 1 .. MaxReplies :
        \/ \E i \in Mine(work) : work[i].item = Reply(n)
        \/ \E t \in Held : task[t].item = Reply(n)}

(* Until a client is given up, every reply accepted for it has reached it, *)
(* is on its way or is queued, each once and in the order of acceptance,   *)
(* whatever the client that had the socket before it left behind.  (A      *)
(* service's answer may be accepted for it that the client before asked    *)
(* for: GatewayServices.)                                                  *)
RepliesInOrder ==
    delivery.used /\ ~delivery.retiring =>
        /\ OnTheWay \subseteq {Len(received) + 1}
        /\ received \o (IF OnTheWay = {} THEN <<>> ELSE <<Len(received) + 1>>) \o replies
             = [i \in 1 .. accepted |-> i]

(* At most one send of a connection is under way, and sendPending says so. *)
OneSendUnderWay ==
    delivery.used =>
        /\ delivery.sendPending <=> Mine(work) # {} \/ Held # {}
        /\ Mine(work) = {} \/ Held = {}
        /\ \A i, j \in Mine(work) : i = j
        /\ \A t, u \in Held : t = u
=============================================================================
