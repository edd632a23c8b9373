-------------------------- MODULE GatewayTransport --------------------------
(***************************************************************************)
(* The Companion's end of the WebSocket (GatewayTransport.ts): one socket  *)
(* at a time and the timer that opens the next, the chain of promises that *)
(* sends one service after another, and the promises that wait for an      *)
(* answer.  Everything runs in the browser's one thread: a callback runs   *)
(* to its end and the continuations it made runnable run before the next   *)
(* callback; views call between any two of them.                           *)
(*                                                                         *)
(* External: the browser fires open, message and close events, close once  *)
(* and nothing after it; the gateway answers a request at most once, at    *)
(* any time or never.  A new socket may still get answers meant for the    *)
(* browser that had the gateway's socket number before (GatewayServices,   *)
(* GatewayDelivery): to its service, to its scan, and a last reply that    *)
(* was on its way.  Every browser numbers its requests from one.           *)
(***************************************************************************)
EXTENDS Naturals, Sequences

CONSTANTS MaxQueued,    \* 16 in the code
          MaxAttempts,  \* 3 in the code: the retries of a refused read
          MaxCalls,     \* bound: the requests of the views
          MaxSockets,   \* bound: the sockets opened
          MaxForeign    \* bound: the answers a socket gets of an earlier browser

VARIABLES
    sockets,     \* the number of the latest socket
    socket,      \* this.socket: "none", or its readyState
    state,       \* what the views are told
    explicitlyDisconnected,
    reconnectTimer,
    calls,       \* the requests made, in their order
    serviceTail, \* the services whose promise is not settled, in the chain's order
    nextRequestId,
    unanswered,  \* what the gateway has received on this socket: <<identifier, call>>
    foreign      \* the answers to an earlier browser that this socket will still get

vars == <<sockets, socket, state, explicitlyDisconnected, reconnectTimer,
          calls, serviceTail, nextRequestId, unanswered, foreign>>

Kinds == {"read", "command", "configure"}
Results == {"answered", "busy", "transport_error"}   \* answered: ok, denied or invalid
\* chained: its turn has not come; due: its continuation is runnable.
Phases == {"chained", "due", "pending", "pause", "settled"}
Ids == 0 .. MaxCalls * (MaxAttempts + 1)

Calls == 1 .. Len(calls)
Services == {"read", "command"}

TypeOK ==
    /\ sockets \in 0 .. MaxSockets
    /\ socket \in {"none", "connecting", "open", "closing"}
    /\ state \in {"disconnected", "connecting", "connected"}
    /\ explicitlyDisconnected \in BOOLEAN /\ reconnectTimer \in BOOLEAN
    /\ Len(calls) <= MaxCalls /\ Len(serviceTail) <= MaxQueued
    /\ \A c \in Calls :
        calls[c] \in [kind : Kinds, socket : 0 .. MaxSockets, phase : Phases, id : Ids,
                      attempt : 0 .. MaxAttempts, result : Results \cup {"none"}]
    /\ \A i \in 1 .. Len(serviceTail) : serviceTail[i] \in Calls
    /\ nextRequestId \in Ids \cup {MaxCalls * (MaxAttempts + 1) + 1}
    /\ unanswered \subseteq Ids \X Calls
    /\ foreign \in 0 .. MaxForeign

-----------------------------------------------------------------------------
connectionVars == <<sockets, socket, state, explicitlyDisconnected, reconnectTimer, foreign>>
callVars == <<calls, serviceTail, nextRequestId, unanswered>>

\* Of a settled promise only the result is kept.
Settled(result) ==
    [kind |-> "command", socket |-> 0, phase |-> "settled", id |-> 0, attempt |-> 0,
     result |-> result]

\* The next service of the chain, if any, becomes runnable.
Advanced(list, tail) ==
    [c \in DOMAIN list |->
        IF tail # <<>> /\ c = Head(tail) /\ list[c].phase = "chained"
        THEN [list[c] EXCEPT !.phase = "due"] ELSE list[c]]

\* The chain goes on behind a service that is done: only the first has been begun.
Behind(done) ==
    IF serviceTail # <<>> /\ Head(serviceTail) \in done THEN Tail(serviceTail) ELSE serviceTail

\* A promise is settled: a service leaves the chain.
Settle(c, result) ==
    /\ serviceTail' = Behind({c})
    /\ calls' = Advanced([calls EXCEPT ![c] = Settled(result)], Behind({c}))

\* No continuation is runnable: the browser may run the next callback.
Quiet == \A c \in Calls : calls[c].phase # "due"

\* Whichever socket is open now (for mutation).
UsableNow(c) == socket = "open" /\ ~explicitlyDisconnected

\* What run looks at; a socket of before is never the open one again.
Usable(c) ==
    socket = "open" /\ calls[c].socket = sockets /\ ~explicitlyDisconnected

-----------------------------------------------------------------------------
(* The views' calls.                                                       *)

Open ==
    /\ sockets < MaxSockets
    /\ sockets' = sockets + 1 /\ socket' = "connecting" /\ state' = "connecting"

\* A socket that is still closing is taken for one.
Connect ==
    /\ explicitlyDisconnected' = FALSE /\ reconnectTimer' = FALSE
    /\ IF socket = "none" THEN Open ELSE UNCHANGED <<sockets, socket, state>>
    /\ UNCHANGED <<foreign, callVars>>

Disconnect ==
    /\ explicitlyDisconnected' = TRUE /\ reconnectTimer' = FALSE
    /\ socket' = IF socket = "none" THEN socket ELSE "closing"
    /\ state' = "disconnected"
    /\ UNCHANGED <<sockets, foreign, callVars>>

New(kind, phase, id) ==
    [kind |-> kind, socket |-> sockets, phase |-> phase, id |-> id, attempt |-> 0,
     result |-> "none"]

\* request: refused at once, or chained behind the services before it.
Request(kind) ==
    /\ Len(calls) < MaxCalls
    /\ IF socket # "open" \/ Len(serviceTail) >= MaxQueued
       THEN /\ calls' = Append(calls, Settled(IF socket # "open" THEN "transport_error" ELSE "busy"))
            /\ UNCHANGED serviceTail
       ELSE /\ serviceTail' = Append(serviceTail, Len(calls) + 1)
            /\ calls' = Append(calls, New(kind, IF serviceTail = <<>> THEN "due" ELSE "chained", 0))
    /\ UNCHANGED <<connectionVars, nextRequestId, unanswered>>

\* configureWifi, configureMqtt, scanWifi, and configureEnergyMeters, which asks
\* whether the gateway offers it.
Configure(offered) ==
    /\ Len(calls) < MaxCalls
    /\ IF socket # "open" \/ ~offered
       THEN /\ calls' = Append(calls, Settled("transport_error"))
            /\ UNCHANGED <<nextRequestId, unanswered>>
       ELSE /\ calls' = Append(calls, New("configure", "pending", nextRequestId))
            /\ nextRequestId' = nextRequestId + 1
            /\ unanswered' = unanswered \cup {<<nextRequestId, Len(calls) + 1>>}
    /\ UNCHANGED <<connectionVars, serviceTail>>

-----------------------------------------------------------------------------
(* The chain.                                                              *)

(* run, at its start or after a pause, and requestOnce.                    *)
Run(c) ==
    /\ calls[c].phase = "due"
    /\ IF Usable(c)
       THEN /\ calls' = [calls EXCEPT ![c].phase = "pending", ![c].id = nextRequestId]
            /\ nextRequestId' = nextRequestId + 1
            /\ unanswered' = unanswered \cup {<<nextRequestId, c>>}
            /\ UNCHANGED serviceTail
       ELSE Settle(c, "transport_error") /\ UNCHANGED <<nextRequestId, unanswered>>
    /\ UNCHANGED connectionVars

Retries(c, result) ==
    result = "busy" /\ calls[c].kind = "read" /\ calls[c].attempt < MaxAttempts

\* What a service or a configuration does with its response.
Respond(c, result) ==
    IF Retries(c, result)
    THEN /\ calls' = [calls EXCEPT ![c].phase = "pause", ![c].id = 0]
         /\ UNCHANGED serviceTail
    ELSE Settle(c, result)

Paused(c) ==
    /\ Quiet /\ calls[c].phase = "pause"
    /\ calls' = [calls EXCEPT ![c].phase = "due", ![c].attempt = @ + 1]
    /\ UNCHANGED <<connectionVars, serviceTail, nextRequestId, unanswered>>

\* Nothing came for 5 s (3 s, 15 s for the others).
Timeout(c) ==
    /\ Quiet /\ calls[c].phase = "pending"
    /\ Settle(c, "transport_error")
    /\ UNCHANGED <<connectionVars, nextRequestId, unanswered>>

Awaits(c, id) == calls[c].phase = "pending" /\ calls[c].id = id

\* The oldest that waits (for mutation).
OldestWaiting(answer) ==
    {c \in Calls : calls[c].phase = "pending"
                     /\ \A d \in 1 .. c - 1 : calls[d].phase # "pending"}

\* The promise an answer settles, found by the identifier it carries.
Owner(answer) == {c \in Calls : Awaits(c, answer[1])}

(* handleMessage: an answer; one that nobody waits for is ignored.         *)
Message(answer, result) ==
    /\ Quiet /\ socket = "open"
    /\ unanswered' = unanswered \ {answer}
    /\ IF Owner(answer) = {} THEN UNCHANGED <<calls, serviceTail>>
       ELSE \E c \in Owner(answer) : Respond(c, result)
    /\ UNCHANGED <<connectionVars, nextRequestId>>

\* An answer of an earlier browser's, with an identifier that is waited for here; any
\* other is ignored.
Foreign(c, result) ==
    /\ Quiet /\ socket = "open" /\ foreign > 0
    /\ foreign' = foreign - 1
    /\ calls[c].phase = "pending" /\ Respond(c, result)
    /\ UNCHANGED <<sockets, socket, state, explicitlyDisconnected, reconnectTimer,
                   nextRequestId, unanswered>>

-----------------------------------------------------------------------------
(* The socket's events.                                                    *)

OnOpen ==
    /\ Quiet /\ socket = "connecting"
    /\ socket' = "open" /\ state' = "connected"
    /\ foreign' \in 0 .. MaxForeign
    /\ UNCHANGED <<sockets, explicitlyDisconnected, reconnectTimer, callVars>>

\* onerror closes the socket; so may the gateway.
OnError ==
    /\ Quiet /\ socket \in {"connecting", "open"}
    /\ socket' = "closing"
    /\ UNCHANGED <<sockets, state, explicitlyDisconnected, reconnectTimer, foreign, callVars>>

Drops(c) == calls[c].phase = "pending"

(* onclose: every promise that waits is settled, and unless the views left *)
(* a timer is set for the next socket.                                     *)
OnClose ==
    /\ Quiet /\ socket # "none"
    /\ socket' = "none" /\ state' = "disconnected"
    /\ reconnectTimer' = (reconnectTimer \/ ~explicitlyDisconnected)
    /\ LET rest == Behind({c \in Calls : Drops(c)})
       IN  /\ serviceTail' = rest
           /\ calls' = Advanced([c \in Calls |-> IF Drops(c)
                                    THEN Settled("transport_error") ELSE calls[c]], rest)
    /\ unanswered' = {} /\ foreign' = 0
    /\ UNCHANGED <<sockets, explicitlyDisconnected, nextRequestId>>

Reconnect ==
    /\ Quiet /\ reconnectTimer
    /\ reconnectTimer' = FALSE
    /\ IF socket = "none" THEN Open ELSE UNCHANGED <<sockets, socket, state>>
    /\ UNCHANGED <<explicitlyDisconnected, foreign, callVars>>

-----------------------------------------------------------------------------
Init ==
    /\ sockets = 0 /\ socket = "none" /\ state = "disconnected"
    /\ explicitlyDisconnected = FALSE /\ reconnectTimer = FALSE
    /\ calls = <<>> /\ serviceTail = <<>> /\ nextRequestId = 1 /\ unanswered = {}
    /\ foreign = 0

Timers == \E c \in Calls : Paused(c) \/ Timeout(c)

Next ==
    \/ Connect \/ Disconnect
    \/ \E offered \in BOOLEAN : Configure(offered)
    \/ \E kind \in Services : Request(kind)
    \/ \E c \in Calls : Run(c)
    \/ Timers
    \/ \E answer \in unanswered, result \in Results : Message(answer, result)
    \/ \E c \in Calls, result \in Results : Foreign(c, result)
    \/ OnOpen \/ OnError \/ OnClose \/ Reconnect

Spec == Init /\ [][Next]_vars

\* Continuations run, timers fire, a socket that is closing gets its close event.
Running == \E c \in Calls : Run(c)
Closing == socket = "closing" /\ OnClose

-----------------------------------------------------------------------------
Sent(c) == {a \in unanswered' \ unanswered : a[2] = c}

(* A request is sent again only if it is a read that was answered "busy",  *)
(* never after a silence; on no other socket than the one it was made on;  *)
(* and never overtakes an earlier service or runs beside it.               *)
NeverReplayed ==
    \A c \in 1 .. Len(calls') : Sent(c) # {} =>
        /\ calls'[c].socket = sockets
        /\ calls'[c].attempt > 0 => calls'[c].kind = "read"
        /\ calls'[c].kind \in Services =>
            \A d \in 1 .. c - 1 : calls[d].kind \in Services => calls[d].phase = "settled"

(* A promise is settled with what the gateway said of its own request, or  *)
(* by one of the few answers that an earlier browser left on the socket.   *)
AnswersAreOwn ==
    \A c \in Calls :
        calls'[c].phase = "settled" /\ calls[c].phase # "settled"
            /\ calls'[c].result # "transport_error" =>
        \/ \E a \in unanswered : a \notin unanswered' /\ a[2] = c
        \/ foreign' < foreign /\ UNCHANGED unanswered

(* A Companion that wants to be connected has a socket or a timer that     *)
(* opens one, never both, and shows a connection only while it has one.    *)
OneReconnectLoop ==
    /\ sockets > 0 /\ ~explicitlyDisconnected => socket # "none" \/ reconnectTimer
    /\ socket = "none" \/ ~reconnectTimer
    /\ state = "connected" => socket \in {"open", "closing"}

(* Every promise is settled, and a wish to be connected is not forgotten.  *)
Settles ==
    /\ \A c \in Calls : calls[c].phase = "settled"
    /\ sockets > 0 /\ ~explicitlyDisconnected /\ sockets < MaxSockets => socket # "none"
=============================================================================
