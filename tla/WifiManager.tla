----------------------------- MODULE WifiManager -----------------------------
(***************************************************************************)
(* The gateway's Wi-Fi: the station's attempts, the scans that choose a    *)
(* network, and the setup and recovery access point.  ESP-IDF's event task *)
(* (onWifiEvent) preempts the main task (tick) between any two of its      *)
(* accesses; the HTTP task starts scans for browsers (requestScan).        *)
(*                                                                         *)
(* External: the Wi-Fi driver.  It may refuse any call; a connection       *)
(* attempt ends with an address or a disconnection, which may be for its   *)
(* credentials; one scan runs at a time.  A station that has an address    *)
(* refuses to connect.  Time is a set of elapsed deadlines.                *)
(***************************************************************************)
EXTENDS Naturals, Sequences

CONSTANTS Fallbacks,   \* the fallback networks compiled in, at most four
          MaxEvents,   \* bound: the events the event task has not handled
          MaxScans     \* bound: the scans browsers ask for

Primary == "primary"
None == "none"
Networks == {Primary} \cup Fallbacks

VARIABLES
    configured,   \* primaryConfigured: credentials are stored
    state,        \* State
    accessPoint,  \* accessPointActive
    retry,        \* nextStationRetryUs: none, waiting, due
    failed,       \* primary- and fallbackAuthenticationFailed
    resetFailed,  \* resetAuthenticationFailuresBeforeRetry
    candidate,    \* activeCandidate and activeFallbackNetwork
    scan,         \* scanPending, scanPurpose, scanReady
    elapsed,      \* the deadlines that have passed: window, ap, scan
    mdns,         \* mdnsStarted
    refresh,      \* mdnsRefreshRequested
    main,         \* the place of the main task in tick
    http,         \* the place of the HTTP task in requestScan, and the scans so far
    station,      \* external: the driver's station
    driverScan,   \* external: the driver is scanning
    events        \* external: the events not yet handled

programVars == <<configured, state, accessPoint, retry, failed, resetFailed, candidate, scan,
                 elapsed, mdns, refresh>>
driverVars == <<station, driverScan, events>>
vars == <<programVars, main, http, driverVars>>

Events == {"start", "scan_done", "lost", "lost_auth", "ip"}
MainSteps == {"mdns", "timeout", "retry", "select", "mark", "scan",
              "window", "ap_mode", "ap_flag", "ap_state", "stop"}

TypeOK ==
    /\ configured \in BOOLEAN
    /\ state \in {"provisioning", "connecting", "connected", "recovery"}
    /\ accessPoint \in BOOLEAN
    /\ retry \in {None, "waiting", "due"}
    /\ failed \subseteq Networks /\ resetFailed \in BOOLEAN
    /\ candidate \in Networks \cup {None}
    /\ scan \in [pending : BOOLEAN, purpose : {None, "user", "selection"}, ready : BOOLEAN]
    /\ elapsed \subseteq {"window", "ap", "scan"}
    /\ mdns \in BOOLEAN /\ refresh \in BOOLEAN
    /\ main \in [step : MainSteps, then : MainSteps]
    /\ http \in [started : BOOLEAN, scans : 0 .. MaxScans]
    /\ station \in {"idle", "connecting", "ip"} /\ driverScan \in BOOLEAN
    /\ events \in Seq(Events) /\ Len(events) <= MaxEvents

-----------------------------------------------------------------------------
(* scheduleStationRetry: one retry is scheduled at a time.  The delays of  *)
(* 2, 5, 10, 20 and 30 seconds are one deadline.                           *)
Scheduled(now) == IF retry # None \/ now = "connected" THEN retry ELSE "waiting"

Purposeless == [scan EXCEPT !.pending = FALSE, !.purpose = None]

Finished == [pending |-> FALSE, purpose |-> None, ready |-> TRUE]

(* selectVisibleNetwork: the stored network if it is seen, else a fallback *)
(* that is seen, else the stored network all the same.  Networks whose     *)
(* credentials were refused in this round are passed over.                 *)
Choice(visible) ==
    LET usable == ((IF configured THEN {Primary} ELSE {}) \cup Fallbacks) \ failed
    IN  IF Primary \in usable \cap visible THEN {Primary}
        ELSE IF usable \cap visible # {} THEN usable \cap visible
        ELSE usable \cap {Primary}

\* startAccessPoint(false), called where nothing is stored.
SetUp ==
    \/ /\ accessPoint' = TRUE /\ state' = "provisioning"
       /\ elapsed' = elapsed \ {"ap"}
    \/ UNCHANGED <<accessPoint, state, elapsed>>

\* startCandidate, when the driver takes it: only an idle station does.
Connects(network) ==
    /\ station = "idle" /\ station' = "connecting"
    /\ candidate' = network
    /\ state' = IF accessPoint THEN state ELSE "connecting"
    /\ UNCHANGED retry

\* It does not: the candidate is forgotten and a retry scheduled.
ConnectRefused ==
    /\ candidate' = None
    /\ state' \in {state, IF accessPoint THEN state ELSE "connecting"}
    /\ retry' = Scheduled(state')
    /\ UNCHANGED station

-----------------------------------------------------------------------------
(* The event task.                                                         *)

OnStart ==
    /\ state' = IF accessPoint THEN "recovery" ELSE "connecting"
    /\ UNCHANGED <<accessPoint, retry, failed, resetFailed, candidate, scan, elapsed, refresh,
                   station>>

\* A lost link always means a new attempt to connect (for mutation).
StateWithoutLinkConnecting == "connecting"

\* While the recovery access point is up, a lost link changes nothing about it.
StateWithoutLink == IF accessPoint THEN "recovery" ELSE "connecting"

OnDisconnected(authentication) ==
    LET wasConnected == state = "connected"
        refused == IF authentication /\ candidate # None THEN {candidate} ELSE {}
    IN  /\ failed' = IF wasConnected THEN {} ELSE failed \cup refused
        /\ resetFailed' = IF wasConnected THEN FALSE ELSE resetFailed
        /\ elapsed' = IF wasConnected THEN elapsed \ {"window"} ELSE elapsed
        /\ candidate' = None
        /\ refresh' = TRUE
        /\ state' = StateWithoutLink
        /\ retry' = IF retry = None \/ wasConnected THEN "waiting" ELSE retry
        /\ UNCHANGED <<accessPoint, scan, station>>

\* finishNetworkSelection.
OnSelectionDone(visible) ==
    /\ scan' = Purposeless
    /\ \/ \E network \in Choice(visible) :
             /\ Connects(network)
             /\ UNCHANGED <<accessPoint, resetFailed, elapsed>>
       \/ /\ configured \/ accessPoint
          /\ resetFailed' = TRUE
          /\ ConnectRefused
          /\ UNCHANGED <<accessPoint, elapsed>>
       \/ /\ ~configured /\ ~accessPoint
          /\ candidate' = None
          /\ SetUp
          /\ retry' \in {retry, Scheduled(state)}
          /\ UNCHANGED <<resetFailed, station>>
    /\ UNCHANGED <<failed, refresh>>

\* storeScanResults.
OnUserScanDone ==
    /\ scan' = IF scan.pending THEN Finished ELSE scan
    /\ UNCHANGED <<state, accessPoint, retry, failed, resetFailed, candidate, elapsed, refresh,
                   station>>

\* The access point stops at once, unless the driver refuses.
OnGotIp ==
    /\ accessPoint' \in {FALSE, accessPoint}
    /\ state' = "connected"
    /\ retry' = None /\ resetFailed' = FALSE /\ failed' = {}
    /\ refresh' = TRUE
    /\ UNCHANGED <<candidate, scan, elapsed, station>>

HandleEvent(visible) ==
    /\ events # <<>>
    /\ events' = Tail(events)
    /\ CASE Head(events) = "start" -> OnStart
         [] Head(events) = "lost" -> OnDisconnected(FALSE)
         [] Head(events) = "lost_auth" -> OnDisconnected(TRUE)
         [] Head(events) = "ip" -> OnGotIp
         [] OTHER -> IF scan.purpose = "selection" THEN OnSelectionDone(visible) ELSE OnUserScanDone
    /\ UNCHANGED <<configured, mdns, main, http, driverScan>>

-----------------------------------------------------------------------------
(* The main task: tick.                                                    *)

At(step) == main.step = step
Goto(step) == main' = [step |-> step, then |-> "mdns"]
Return == Goto(main.then)
\* startNetworkSelection, and where tick goes on after it.
Select(then) == main' = [step |-> "select", then |-> then]

\* refreshMdns: the responder is withdrawn when an event asked for it, and
\* started on a connected station; starting it may fail.
RefreshMdns ==
    /\ At("mdns") /\ Goto("timeout")
    /\ refresh' = FALSE
    /\ mdns' \in {mdns /\ ~refresh, (mdns /\ ~refresh) \/ state = "connected"}
    /\ UNCHANGED <<configured, state, accessPoint, retry, failed, resetFailed, candidate, scan,
                   elapsed, http, driverVars>>

NoNetwork ==
    IF ~configured /\ ~accessPoint
    THEN SetUp /\ UNCHANGED retry
    ELSE retry' = Scheduled(state) /\ UNCHANGED <<accessPoint, state, elapsed>>

ScanTimeout ==
    /\ At("timeout") /\ Goto("retry")
    /\ IF scan.pending /\ "scan" \in elapsed
       THEN IF scan.purpose = "selection"
            THEN scan' = Purposeless /\ NoNetwork
            ELSE scan' = Finished /\ UNCHANGED <<accessPoint, state, retry, elapsed>>
       ELSE UNCHANGED <<scan, accessPoint, state, retry, elapsed>>
    /\ driverScan' = IF scan.pending /\ "scan" \in elapsed THEN FALSE ELSE driverScan
    /\ UNCHANGED <<configured, failed, resetFailed, candidate, mdns, refresh, http, station, events>>

Retry ==
    /\ At("retry")
    /\ IF state # "connected" /\ retry = "due" /\ ~scan.pending
       THEN /\ retry' = None
            /\ failed' = IF resetFailed THEN {} ELSE failed
            /\ resetFailed' = FALSE
            /\ Select("window")
       ELSE Goto("window") /\ UNCHANGED <<retry, failed, resetFailed>>
    /\ UNCHANGED <<configured, state, accessPoint, candidate, scan, elapsed, mdns, refresh, http,
                   driverVars>>

(* startNetworkSelection: a check, the marks, the scan.                    *)
SelectCheck ==
    /\ At("select")
    /\ IF state = "connected" \/ scan.pending
       THEN Return
       ELSE main' = [main EXCEPT !.step = "mark"]
    /\ UNCHANGED <<programVars, http, driverVars>>

SelectMark ==
    /\ At("mark")
    /\ main' = [main EXCEPT !.step = "scan"]
    /\ scan' = [scan EXCEPT !.pending = TRUE, !.purpose = "selection"]
    /\ elapsed' = elapsed \ {"scan"}
    /\ UNCHANGED <<configured, state, accessPoint, retry, failed, resetFailed, candidate, mdns,
                   refresh, http, driverVars>>

SelectScan ==
    /\ At("scan") /\ ~driverScan
    /\ Return
    /\ driverScan' = TRUE
    /\ state' = IF accessPoint THEN state ELSE "connecting"
    /\ UNCHANGED <<configured, accessPoint, retry, failed, resetFailed, candidate, scan, elapsed,
                   mdns, refresh, http, station, events>>

SelectRefused ==
    /\ At("scan")
    /\ Return
    /\ scan' = Purposeless
    /\ NoNetwork
    /\ UNCHANGED <<configured, failed, resetFailed, candidate, mdns, refresh, http, driverVars>>

(* The last part of tick, on the state read here once.                     *)
Window ==
    /\ At("window")
    /\ Goto(IF state = "connecting" /\ "window" \in elapsed THEN "ap_mode"
            ELSE IF state = "recovery" /\ "ap" \in elapsed THEN "stop"
            ELSE "mdns")
    /\ UNCHANGED <<programVars, http, driverVars>>

\* startAccessPoint(true): the mode changes, then the flag, then the state.
ApMode ==
    /\ At("ap_mode")
    /\ Goto("ap_flag") \/ Goto("mdns")
    /\ UNCHANGED <<programVars, http, driverVars>>

ApFlag ==
    /\ At("ap_flag") /\ Goto("ap_state")
    /\ accessPoint' = TRUE
    /\ elapsed' = elapsed \ {"ap"}
    /\ UNCHANGED <<configured, state, retry, failed, resetFailed, candidate, scan, mdns, refresh,
                   http, driverVars>>

ApState ==
    /\ At("ap_state") /\ Goto("mdns")
    /\ state' = "recovery"
    /\ retry' = Scheduled("recovery")
    /\ UNCHANGED <<configured, accessPoint, failed, resetFailed, candidate, scan, elapsed, mdns,
                   refresh, http, driverVars>>

\* The recovery access point has had its ten minutes.
Stop ==
    /\ At("stop")
    /\ failed' = {}
    /\ accessPoint' = FALSE
    /\ elapsed' = elapsed \ {"window"}
    /\ retry' = None
    /\ Select("mdns")
    /\ UNCHANGED <<configured, state, resetFailed, candidate, scan, mdns, refresh, http, driverVars>>

StopRefused ==
    /\ At("stop") /\ Goto("mdns")
    /\ failed' = {}
    /\ UNCHANGED <<configured, state, accessPoint, retry, resetFailed, candidate, scan, elapsed,
                   mdns, refresh, http, driverVars>>

Tick ==
    \/ RefreshMdns \/ ScanTimeout \/ Retry
    \/ SelectCheck \/ SelectMark \/ SelectScan \/ SelectRefused
    \/ Window \/ ApMode \/ ApFlag \/ ApState \/ Stop \/ StopRefused

-----------------------------------------------------------------------------
(* The HTTP task: requestScan starts the scan, then writes its marks.      *)
RequestScan ==
    /\ ~http.started /\ http.scans < MaxScans /\ ~scan.pending /\ ~scan.ready
    /\ ~driverScan /\ driverScan' = TRUE
    /\ http' = [started |-> TRUE, scans |-> http.scans + 1]
    /\ UNCHANGED <<programVars, main, station, events>>

RequestMarks ==
    /\ http.started /\ http' = [http EXCEPT !.started = FALSE]
    /\ scan' = [pending |-> TRUE, purpose |-> "user", ready |-> FALSE]
    /\ elapsed' = elapsed \ {"scan"}
    /\ UNCHANGED <<configured, state, accessPoint, retry, failed, resetFailed, candidate, mdns,
                   refresh, main, driverVars>>

\* consumeScanResults, in the main task's poll.
ConsumeResults ==
    /\ At("mdns") /\ scan.ready
    /\ scan' = [scan EXCEPT !.ready = FALSE]
    /\ UNCHANGED <<configured, state, accessPoint, retry, failed, resetFailed, candidate, elapsed,
                   mdns, refresh, main, http, driverVars>>

-----------------------------------------------------------------------------
(* start, at power-on and after configure has stored new credentials.      *)
Start(stored, connects) ==
    /\ configured' = stored
    /\ state' = "connecting" /\ accessPoint' = FALSE
    /\ failed' = {} /\ resetFailed' = FALSE /\ elapsed' = {}
    /\ mdns' = FALSE /\ refresh' = FALSE
    /\ http' = [http EXCEPT !.started = FALSE]
    /\ events' = <<"start">>
    /\ candidate' = IF stored /\ connects THEN Primary ELSE None
    /\ station' = IF stored /\ connects THEN "connecting" ELSE "idle"
    /\ retry' = IF stored /\ ~connects THEN "waiting" ELSE None
    /\ scan' = [pending |-> FALSE, purpose |-> None, ready |-> FALSE]
    /\ driverScan' = FALSE
    /\ main' = IF stored THEN [step |-> "mdns", then |-> "mdns"]
               ELSE [step |-> "select", then |-> "mdns"]

\* configure: the credentials are committed, and the gateway restarts; the 1.5 seconds
\* until it does are left out.  A gateway that is configured already restarts into an
\* initial state.
Configure == ~configured /\ \E connects \in BOOLEAN : Start(TRUE, connects)

-----------------------------------------------------------------------------
(* The driver and the clock.                                               *)

Post(event) == Len(events) < MaxEvents /\ events' = Append(events, event)

GotIp ==
    /\ station = "connecting" /\ station' = "ip"
    /\ Post("ip")
    /\ UNCHANGED <<programVars, main, http, driverScan>>

Lost ==
    /\ station # "idle" /\ station' = "idle"
    /\ \/ Post("lost")
       \/ station = "connecting" /\ Post("lost_auth")
    /\ UNCHANGED <<programVars, main, http, driverScan>>

ScanDone ==
    /\ driverScan /\ driverScan' = FALSE
    /\ Post("scan_done")
    /\ UNCHANGED <<programVars, main, http, station>>

RetryDue ==
    /\ retry = "waiting" /\ retry' = "due"
    /\ UNCHANGED <<configured, state, accessPoint, failed, resetFailed, candidate, scan, elapsed,
                   mdns, refresh, main, http, driverVars>>

Elapse(deadline) ==
    /\ elapsed' = elapsed \cup {deadline}
    /\ UNCHANGED <<configured, state, accessPoint, retry, failed, resetFailed, candidate, scan,
                   mdns, refresh, main, http, driverVars>>

ElapseAny ==
    \/ state = "connecting" /\ Elapse("window")
    \/ state = "recovery" /\ Elapse("ap")
    \/ scan.pending /\ Elapse("scan")

Init ==
    /\ configured \in BOOLEAN
    /\ state = "connecting" /\ accessPoint = FALSE
    /\ failed = {} /\ resetFailed = FALSE /\ elapsed = {}
    /\ mdns = FALSE /\ refresh = FALSE
    /\ http = [started |-> FALSE, scans |-> 0]
    /\ events = <<"start">>
    /\ \E connects \in BOOLEAN :
          /\ candidate = IF configured /\ connects THEN Primary ELSE None
          /\ station = IF configured /\ connects THEN "connecting" ELSE "idle"
          /\ retry = IF configured /\ ~connects THEN "waiting" ELSE None
    /\ scan = [pending |-> FALSE, purpose |-> None, ready |-> FALSE]
    /\ driverScan = FALSE
    /\ main = IF configured THEN [step |-> "mdns", then |-> "mdns"]
              ELSE [step |-> "select", then |-> "mdns"]

Next ==
    \/ \E visible \in SUBSET Networks : HandleEvent(visible)
    \/ Tick
    \/ RequestScan \/ RequestMarks \/ ConsumeResults \/ Configure
    \/ GotIp \/ Lost \/ ScanDone \/ RetryDue \/ ElapseAny

Spec == Init /\ [][Next]_vars

-----------------------------------------------------------------------------
Handled == events = <<>>

(* Services for the BMS are allowed (state "connected") only over a        *)
(* station that has an address, or whose loss is about to be handled: no   *)
(* scan, retry or access point makes the gateway believe in a link.        *)
ConnectedHasAddress ==
    state = "connected" => station = "ip" \/ \E i \in 1 .. Len(events) : events[i] = "lost"

(* The mDNS responder is withdrawn when the link goes, as soon as the main *)
(* task comes to it.                                                       *)
MdnsFollowsTheLink ==
    mdns /\ ~refresh =>
        station = "ip" \/ \E i \in 1 .. Len(events) : events[i] \in {"lost", "lost_auth"}

(* A gateway with stored credentials and no address always has its next    *)
(* attempt under way: a connection, a scan or a scheduled retry, with the  *)
(* access point up or not, whatever was refused and in whatever order the  *)
(* events came.  (A browser's scan between tick's check and                *)
(* startNetworkSelection's can put the next attempt off until the recovery *)
(* access point stops.)                                                    *)
AttemptsGoOn ==
    configured /\ http.scans = 0 /\ Handled /\ main.step = "mdns" =>
        state = "connected" \/ station # "idle" \/ scan.pending \/ retry # None

(* The ten minutes of the recovery access point are counted once: tick     *)
(* never finds the access point up and the gateway "connecting", which     *)
(* would start both anew.                                                  *)
RecoveryIsNotRestarted ==
    accessPoint /\ main.step = "window" => state # "connecting"

(* Gateway README: "A station IP stops the AP immediately", and            *)
(* companion-restructure-and-gateway-api.md: it "restores normal station   *)
(* mode".                                                                  *)
AddressEndsRecovery ==
    Handled /\ station = "ip" /\ main.step = "mdns" =>
        state = "connected"
=============================================================================
