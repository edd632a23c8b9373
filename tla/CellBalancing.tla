---------------------------- MODULE CellBalancing ----------------------------
(***************************************************************************)
(* Passive balancing of the cells (SlaveController.cpp): what the BMS      *)
(* task believes about the bleed switches of the monitors, and what they   *)
(* really do, when any exchange with a monitor may fail before or after    *)
(* the monitor has obeyed.                                                 *)
(*                                                                         *)
(* The exchanges that move a switch are steps of their own; a measurement, *)
(* which only pauses the switches, is one step over all monitors.  Which   *)
(* cells are worth balancing (voltages, current qualification) and whether *)
(* a failed cycle is the third in a row are free choices here.             *)
(***************************************************************************)
EXTENDS Integers, FiniteSets

CONSTANTS
    SlaveCount,
    Cells,
    MaxCells     \* MAX_SIMULTANEOUS_BALANCING_CELLS_PER_SLAVE

ASSUME BalancingAssumption ==
    /\ SlaveCount \in Nat \ {0} /\ MaxCells \in Nat \ {0}
    /\ IsFiniteSet(Cells)

Slaves == 1..SlaveCount

VARIABLES
    \* the monitors
    driver,      \* CB_DRVEN: switches driven
    chan,        \* cells whose CBx_CFG is enabled
    paused,      \* CB_MANUAL_PAUSE
    expired,     \* the timers of the present selection have run out
    \* the BMS task
    running,     \* currentState == RUNNING
    known,       \* balancingHardwareStateKnown
    active,      \* balancingCycleActive
    masks,       \* activeBalancingMasks
    line,        \* balancingAccountingTimelines
    pc,          \* where the task is
    at,          \* monitor addressed next
    clearing,    \* argument of disableCellBalancing
    after,       \* what follows the disabling
    ok,          \* successful so far
    desired,     \* masks being configured
    \* the rest of the system
    permitted,   \* enabled, measured and free of other faults
    cbActive, cbLatched  \* CELL_BALANCING_FAULT

chips  == <<driver, chan, paused, expired>>
belief == <<running, known, active, masks, line>>
call   == <<at, clearing, after, ok>>
faults == <<cbActive, cbLatched>>
vars   == <<driver, chan, paused, expired, running, known, active, masks,
            line, pc, at, clearing, after, ok, desired, permitted,
            cbActive, cbLatched>>

NoMasks == [s \in Slaves |-> {}]
Selections == {m \in SUBSET Cells : Cardinality(m) <= MaxCells}
Lines == [active : BOOLEAN, paused : BOOLEAN, known : BOOLEAN]
Reset == [active |-> FALSE, paused |-> TRUE, known |-> FALSE]

\* Bleeding cells, and cells whose charge is being counted.
Discharging(s) == IF driver[s] /\ ~paused[s] /\ ~expired THEN chan[s] ELSE {}
Counted(s) == IF line[s].active /\ ~line[s].paused /\ line[s].known /\ ~expired
              THEN masks[s] ELSE {}

isBalancingAllowed == permitted /\ running /\ ~cbActive /\ ~cbLatched

\* An exchange that is not confirmed may have happened or not.
Exchange(old, new, outcome) ==
    IF outcome THEN {new} ELSE {old, new}

-----------------------------------------------------------------------------
\* Measurement.  Every failure ends the cycle with an unsuccessful return.

Stop(l)       == [l EXCEPT !.active = FALSE, !.paused = TRUE]
Invalidate(l) == [l EXCEPT !.known = FALSE, !.paused = TRUE]
Resume(l)     == [l EXCEPT !.paused = FALSE]
Pause(l)      == [l EXCEPT !.paused = TRUE]

\* One monitor that does not confirm its resumption costs all their accounts.
ResumeLines(answers) ==
    IF \A s \in Slaves : answers[s]
    THEN [s \in Slaves |-> Resume(line[s])]
    ELSE [s \in Slaves |-> Invalidate(line[s])]

\* The accounts are kept (for mutation).
PauseFailsCounting == paused' \in [Slaves -> BOOLEAN] /\ line' = line

\* CB_Pause(true) fails for somebody: everybody is told to resume, unchecked.
PauseFails ==
    /\ paused' \in [Slaves -> BOOLEAN]
    /\ line' = [s \in Slaves |-> Invalidate(line[s])]

\* All paused; then the conversion fails, or succeeds, and all are resumed.
ResumeAfter(answers) ==
    /\ paused' \in [Slaves -> BOOLEAN]
    /\ \A s \in Slaves : paused'[s] \in Exchange(TRUE, FALSE, answers[s])
    /\ line' = ResumeLines(answers)

Fails(result) == pc' = IF result THEN "idle" ELSE "failed"

Measure ==
    /\ pc = "idle" /\ running
    /\ \/ PauseFails /\ Fails(FALSE)
       \/ \E answers \in [Slaves -> BOOLEAN] :
            /\ ResumeAfter(answers)
            /\ \/ Fails(FALSE)
               \/ (\A s \in Slaves : answers[s]) /\ pc' = "decide"
    /\ UNCHANGED <<driver, chan, expired, running, known, active, masks,
                   call, desired, permitted, faults>>

-----------------------------------------------------------------------------
\* disableCellBalancing(clearChannelConfiguration), monitor by monitor.

Disable(clear, next) ==
    /\ pc' = "off"
    /\ at' = 1
    /\ clearing' = clear
    /\ after' = next
    /\ ok' = TRUE

\* One monitor too many (for mutation).
NextSlavePast(stay, done) ==
    IF at > SlaveCount THEN pc' = done /\ at' = at
                       ELSE pc' = stay /\ at' = at + 1

NextSlave(stay, done) ==
    IF at = SlaveCount THEN pc' = done /\ at' = at
                       ELSE pc' = stay /\ at' = at + 1

\* The channels are cleared under a driver that may be on (for mutation).
MayClearAlways(answer) == clearing

MayClear(answer) == answer /\ clearing

DriverOff ==
    /\ pc = "off"
    /\ \E answer \in BOOLEAN :
        /\ \E d \in Exchange(driver[at], FALSE, answer) :
             driver' = [driver EXCEPT ![at] = d]
        /\ line' = [line EXCEPT ![at] = IF answer THEN Stop(@) ELSE Invalidate(@)]
        /\ ok' = (ok /\ answer)
        /\ IF MayClear(answer) THEN pc' = "clear" /\ at' = at
                              ELSE NextSlave("off", "disabled")
    /\ UNCHANGED <<chan, paused, expired, running, known, active, masks,
                   clearing, after, desired, permitted, faults>>

\* Earlier selections stay in the monitor (for mutation).
ClearNoChannel ==
    /\ pc = "clear"
    /\ NextSlave("off", "disabled")
    /\ UNCHANGED <<chips, belief, clearing, after, ok, desired, permitted,
                   faults>>

\* The channels are cleared one by one, up to the first that fails.
ClearChannels ==
    /\ pc = "clear"
    /\ \/ chan' = [chan EXCEPT ![at] = {}] /\ ok' = ok
       \/ /\ \E c \in SUBSET chan[at] : chan' = [chan EXCEPT ![at] = c]
          /\ ok' = FALSE
    /\ NextSlave("off", "disabled")
    /\ UNCHANGED <<driver, paused, expired, belief, clearing, after,
                   desired, permitted, faults>>

\* Confirmed drivers are enough to call the switches known (for mutation).
KnownWithoutClearing == ok

KnownAfterDisable == ok /\ clearing

Disabled ==
    /\ pc = "disabled"
    /\ masks' = NoMasks
    /\ active' = FALSE
    /\ known' = KnownAfterDisable
    /\ CASE after = "configure" -> pc' = IF ok THEN "set" ELSE "failed"
         [] after = "error"     -> pc' = "failed"
         [] after = "restart"   -> pc' = "idle"
         [] after = "mismatch"  -> pc' = "idle"
         [] OTHER               -> Fails(ok)
    /\ running' = IF after = "restart" THEN FALSE ELSE running
    /\ cbActive' = IF after = "forbidden" /\ ok THEN FALSE ELSE cbActive
    /\ at' = 1
    /\ UNCHANGED <<chips, line, clearing, after, ok, desired, permitted,
                   cbLatched>>

-----------------------------------------------------------------------------
\* performCellBalancing() and configureBalancingCycle().

Done == pc' = "idle" /\ UNCHANGED call

\* After this cycle's measurement and fault status are known.
Decide ==
    /\ pc = "decide"
    /\ \/ /\ ~isBalancingAllowed /\ known /\ ~active
          /\ Done /\ cbActive' = FALSE /\ UNCHANGED desired
       \/ /\ ~isBalancingAllowed /\ (~known \/ active)
          /\ Disable(TRUE, "forbidden") /\ UNCHANGED <<cbActive, desired>>
       \* The pulse goes on: the task's clock is not ahead of the monitors'.
       \/ /\ isBalancingAllowed /\ active
          /\ Done /\ UNCHANGED <<cbActive, desired>>
       \/ /\ isBalancingAllowed /\ (~active \/ expired)
          /\ \/ known /\ ~active /\ Done \* current not qualified
             \/ (~known \/ active) /\ Disable(TRUE, "unqualified")
          /\ UNCHANGED <<cbActive, desired>>
       \/ /\ isBalancingAllowed /\ (~active \/ expired)
          /\ known /\ ~active
          /\ Done /\ cbActive' = FALSE /\ UNCHANGED desired
       \/ /\ isBalancingAllowed /\ (~active \/ expired)
          /\ desired' \in [Slaves -> Selections]
          /\ desired' # NoMasks \/ ~known \/ active
          /\ Disable(TRUE, "configure") /\ UNCHANGED cbActive
    /\ UNCHANGED <<chips, belief, permitted, cbLatched>>

SetChannels ==
    /\ pc = "set"
    /\ expired' = (expired /\ desired[at] = {})
    /\ \/ /\ chan' = [chan EXCEPT ![at] = @ \cup desired[at]]
          /\ NextSlave("set", "selected")
          /\ UNCHANGED <<clearing, after, ok>>
       \/ /\ \E c \in SUBSET desired[at] : chan' = [chan EXCEPT ![at] = @ \cup c]
          /\ desired[at] # {}
          /\ Disable(FALSE, "error")
    /\ UNCHANGED <<driver, paused, belief, desired, permitted, faults>>

Selected ==
    /\ pc = "selected"
    /\ IF desired = NoMasks
       THEN pc' = "idle" /\ cbActive' = FALSE
       ELSE pc' = "enable" /\ UNCHANGED cbActive
    /\ at' = 1
    /\ UNCHANGED <<chips, belief, clearing, after, ok, desired, permitted,
                   cbLatched>>

DriverOn ==
    /\ pc = "enable"
    /\ \/ /\ driver' = [driver EXCEPT ![at] = TRUE]
          /\ NextSlave("enable", "check")
          /\ UNCHANGED <<clearing, after, ok>>
       \/ /\ \E d \in Exchange(driver[at], TRUE, FALSE) :
               driver' = [driver EXCEPT ![at] = d]
          /\ Disable(FALSE, "error")
    /\ UNCHANGED <<chan, paused, expired, belief, desired, permitted, faults>>

Start == [active |-> TRUE, paused |-> FALSE, known |-> TRUE]

\* CB_DRV_STS shows the switches as they are.
StatusMatches == \A s \in Slaves : driver[s] /\ chan[s] = desired[s]

CheckStatus ==
    /\ pc = "check"
    /\ \/ /\ Disable(FALSE, "error")
          /\ UNCHANGED <<belief, faults>>
       \/ /\ Disable(TRUE, "mismatch")
          /\ cbActive' = TRUE /\ cbLatched' = TRUE
          /\ UNCHANGED belief
       \/ /\ StatusMatches
          /\ masks' = desired
          /\ known' = TRUE /\ active' = TRUE
          /\ line' = [s \in Slaves |-> Start]
          /\ cbActive' = FALSE
          /\ Done
          /\ UNCHANGED <<running, cbLatched>>
    /\ UNCHANGED <<chips, desired, permitted>>

\* doCommunicationCheck(false): the third failure in a row restarts the chain.
FailedCycle ==
    /\ pc = "failed"
    /\ Done \/ Disable(FALSE, "restart")
    /\ UNCHANGED <<chips, belief, desired, permitted, faults>>

\* Initialization, diagnostics and the first measurement.  Entering the
\* diagnostics disables the drivers; the diagnostics may leave them enabled,
\* with no channel enabled (BccDiagnostics, CleanWhenRunning).
BringUp ==
    /\ pc = "idle" /\ ~running
    /\ running' = TRUE
    /\ \E on \in BOOLEAN : driver' = [s \in Slaves |-> on]
    /\ chan' = NoMasks
    /\ paused' \in [Slaves -> BOOLEAN]
    /\ line' = [s \in Slaves |-> Reset]
    /\ known' = FALSE
    /\ UNCHANGED <<expired, active, masks, pc, call, desired, permitted, faults>>

\* After 1024 ms without an exchange a monitor resets itself.
MonitorResets ==
    /\ pc = "idle" /\ ~running
    /\ \E s \in Slaves :
        /\ driver' = [driver EXCEPT ![s] = FALSE]
        /\ chan' = [chan EXCEPT ![s] = {}]
        /\ paused' = [paused EXCEPT ![s] = FALSE]
    /\ UNCHANGED <<expired, belief, pc, call, desired, permitted, faults>>

\* The timers of all enabled channels run out together (ShortPulseMs).
PulseEnds ==
    /\ pc = "idle" /\ ~expired
    /\ expired' = TRUE
    /\ UNCHANGED <<driver, chan, paused, belief, pc, call, desired, permitted,
                   faults>>

\* Another task, or this one elsewhere, moves a condition of balancing.
ConditionsChange ==
    /\ permitted' = ~permitted
    /\ UNCHANGED <<chips, belief, pc, call, desired, faults>>

\* FaultManager::acknowledge() is refused while a fault is active.
Acknowledge ==
    /\ ~cbActive /\ cbLatched
    /\ cbLatched' = FALSE
    /\ UNCHANGED <<chips, belief, pc, call, desired, permitted, cbActive>>

Init ==
    /\ driver \in [Slaves -> BOOLEAN] /\ chan \in [Slaves -> SUBSET Cells]
    /\ paused \in [Slaves -> BOOLEAN] /\ expired \in BOOLEAN
    /\ running = FALSE /\ known = FALSE /\ active = FALSE
    /\ masks = NoMasks /\ line = [s \in Slaves |-> Reset]
    /\ pc = "idle" /\ at = 1 /\ clearing = FALSE /\ after = "restart"
    /\ ok = TRUE /\ desired = NoMasks
    /\ permitted \in BOOLEAN /\ cbActive = FALSE /\ cbLatched = FALSE

Next ==
    \/ Measure
    \/ Decide
    \/ DriverOff
    \/ ClearChannels
    \/ Disabled
    \/ SetChannels
    \/ Selected
    \/ DriverOn
    \/ CheckStatus
    \/ FailedCycle
    \/ BringUp
    \/ MonitorResets
    \/ PulseEnds
    \/ ConditionsChange
    \/ Acknowledge

Spec == Init /\ [][Next]_vars

-----------------------------------------------------------------------------
\* Type correctness of the monitors and of the task's beliefs.
TypeOK ==
    /\ driver \in [Slaves -> BOOLEAN]
    /\ chan \in [Slaves -> SUBSET Cells]
    /\ paused \in [Slaves -> BOOLEAN]
    /\ expired \in BOOLEAN /\ running \in BOOLEAN
    /\ known \in BOOLEAN /\ active \in BOOLEAN
    /\ masks \in [Slaves -> Selections]
    /\ line \in [Slaves -> Lines]
    /\ pc \in {"idle", "decide", "off", "clear", "disabled", "set", "selected",
               "enable", "check", "failed"}
    /\ at \in Slaves
    /\ clearing \in BOOLEAN /\ ok \in BOOLEAN
    /\ after \in {"forbidden", "unqualified", "configure", "error",
                  "mismatch", "restart"}
    /\ desired \in [Slaves -> Selections]
    /\ permitted \in BOOLEAN /\ cbActive \in BOOLEAN /\ cbLatched \in BOOLEAN

\* When the BMS relies on the switches being off (balancingHardwareStateKnown
\* without a cycle: it then skips disabling them) no driver of a running chain
\* is on and no channel is left enabled.
BelievedOff ==
    known /\ ~active /\ running /\ pc \in {"idle", "decide", "failed"}
        => \A s \in Slaves : ~driver[s] /\ chan[s] = {}

\* A driver is only ever on over channels of one selection, so that no more
\* cells bleed at once than the monitor's package may dissipate.
BleedingIsBounded ==
    running => \A s \in Slaves : Cardinality(Discharging(s)) <= MaxCells

\* The two together: no switch bleeds unknown to the BMS, and never too many do.
BalancingIsContained == BelievedOff /\ BleedingIsBounded

\* Charge is counted only while, and only for the cells where, the switch is
\* confirmed to be closed (uart-v1.md, BALANCING_CHARGE).
CountedIsDischarging ==
    \A s \in Slaves : Counted(s) \subseteq Discharging(s)

\* CBx_CFG is only programmed while CB_DRVEN is off in that monitor (the
\* requirement of NXP quoted in configureBalancingCycle()).
ProgrammedWhileOff ==
    [][\A s \in Slaves : chan'[s] # chan[s] /\ running => ~driver[s]]_vars
=============================================================================
