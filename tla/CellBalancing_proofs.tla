------------------------ MODULE CellBalancing_proofs ------------------------
(***************************************************************************)
(* Proofs about CellBalancing for any number of monitors, cells and        *)
(* simultaneous channels: the switches are what the BMS believes them to   *)
(* be, no monitor bleeds more cells than it may, charge is counted only    *)
(* for closed switches, and channels are programmed only with the driver   *)
(* off.                                                                    *)
(*                                                                         *)
(* Each of them rests on a loop over the monitors.  The invariant says     *)
(* what a loop has achieved for the monitors it has passed, and what the   *)
(* step after the loop may therefore rely on.                              *)
(***************************************************************************)
EXTENDS CellBalancing, FiniteSetTheorems, TLAPS

\* The account of monitor s is open and trusted.
IsRated(s) == line[s].active /\ line[s].known

\* Outside the start-up loop the chain is running.
StepsWhileRunning == pc # "idle" => running

\* disableCellBalancing: what holds for monitor s once the loop has passed it.
IsDisabled(s) ==
    /\ ~IsRated(s)
    /\ ok => ~driver[s]
    /\ ok /\ clearing => chan[s] = {}

DisablingProgress ==
    /\ pc \in {"off", "clear"} => \A s \in Slaves : s < at => IsDisabled(s)
    /\ pc = "clear" => clearing /\ ~driver[at] /\ ~IsRated(at)
    /\ pc = "disabled" => \A s \in Slaves : IsDisabled(s)
    /\ pc \in {"off", "clear", "disabled"} /\ after = "configure" => clearing

\* configureBalancingCycle: the selection is programmed monitor by monitor, all off.
ProgrammingProgress ==
    /\ pc = "set" => \A s \in Slaves : /\ ~driver[s]
                                       /\ chan[s] = IF s < at THEN desired[s] ELSE {}
    /\ pc = "selected" => \A s \in Slaves : ~driver[s] /\ chan[s] = desired[s]

\* From a complete measurement to the start of a pulse no monitor is paused.
Configuring ==
    \/ pc \in {"decide", "set", "selected", "enable", "check"}
    \/ pc \in {"off", "clear", "disabled"} /\ after = "configure"
ConfiguredUnpaused == Configuring => \A s \in Slaves : ~paused[s]

\* The channels of a monitor that runs are those of one selection.
ChannelsAreSelected == running => chan \in [Slaves -> Selections]

\* An account that is rated belongs to a switch that is closed.
RatedIsClosed ==
    \A s \in Slaves : IsRated(s) =>
        /\ running /\ driver[s] /\ masks[s] \subseteq chan[s]
        /\ ~line[s].paused => ~paused[s]

BalancingInv ==
    /\ TypeOK
    /\ StepsWhileRunning
    /\ DisablingProgress
    /\ ProgrammingProgress
    /\ ConfiguredUnpaused
    /\ ChannelsAreSelected
    /\ RatedIsClosed
    /\ BelievedOff

-----------------------------------------------------------------------------
(* The operators *)

\* The chain begins with monitor 1.
LEMMA SlavesFact == 1 \in Slaves /\ SlaveCount \in Slaves /\ Slaves \subseteq Nat
  BY BalancingAssumption DEF Slaves

\* A set of cells below a selection is one: fewer channels never dissipate more.
LEMMA PartOfSelection ==
    ASSUME NEW m \in Selections, NEW c \in SUBSET m
    PROVE  c \in Selections
<1>1. m \in SUBSET Cells /\ Cardinality(m) <= MaxCells
  BY DEF Selections
<1>2. IsFiniteSet(m)
  BY <1>1, FS_Subset, BalancingAssumption
<1>3. Cardinality(c) <= Cardinality(m) /\ IsFiniteSet(c)
  BY <1>2, FS_Subset
<1>4. Cardinality(c) \in Nat /\ Cardinality(m) \in Nat
  BY <1>2, <1>3, FS_CardinalityType
<1>5. Cardinality(c) <= MaxCells
  BY <1>1, <1>3, <1>4, BalancingAssumption
<1> QED  BY <1>1, <1>5 DEF Selections

\* No cell at all is a selection.
LEMMA NothingSelected == {} \in Selections /\ NoMasks \in [Slaves -> Selections]
<1>1. Cardinality({}) = 0
  BY FS_EmptySet
<1>2. {} \in Selections
  BY <1>1, BalancingAssumption DEF Selections
<1> QED  BY <1>2 DEF NoMasks

\* A selection is a set of cells.
LEMMA SelectionsAreCells == \A m \in Selections : m \in SUBSET Cells
  BY DEF Selections

\* What a step of measuring or disabling makes of an account.
LEMMA LineFacts ==
    ASSUME NEW l \in Lines
    PROVE  /\ Stop(l) \in Lines /\ ~Stop(l).active
           /\ Invalidate(l) \in Lines /\ ~Invalidate(l).known
           /\ Resume(l) \in Lines
           /\ Resume(l).active = l.active /\ Resume(l).known = l.known
  BY DEF Lines, Stop, Invalidate, Resume

\* The two constant accounting lines are lines.
LEMMA ConstantLines ==
    /\ Reset \in Lines /\ ~Reset.active
    /\ Start \in Lines /\ ~Start.paused
  BY DEF Lines, Reset, Start

\* The loop over the monitors ends after the last.
LEMMA NextSlaveFacts ==
    ASSUME NEW stay, NEW done, at \in Slaves, NextSlave(stay, done)
    PROVE  /\ at' \in Slaves
           /\ \/ pc' = done /\ at' = at /\ \A s \in Slaves : s < at \/ s = at
              \/ pc' = stay /\ at' = at + 1
                 /\ \A s \in Slaves : s < at' => s < at \/ s = at
  BY BalancingAssumption DEF NextSlave, Slaves

\* Disabling starts at the first monitor, with none done.
LEMMA DisableFacts ==
    ASSUME NEW clear, NEW next, Disable(clear, next)
    PROVE  /\ pc' = "off" /\ at' = 1 /\ clearing' = clear /\ after' = next /\ ok' = TRUE
           /\ \A s \in Slaves : ~(s < at')
  BY DEF Disable, Slaves

-----------------------------------------------------------------------------
(* Type correctness *)

Places == {"idle", "decide", "off", "clear", "disabled", "set", "selected", "enable",
           "check", "failed"}
Ends   == {"forbidden", "unqualified", "configure", "error", "mismatch", "restart"}

\* The monitors, what the task believes of them, and where it is.
ChipTypes ==
    /\ driver \in [Slaves -> BOOLEAN] /\ chan \in [Slaves -> SUBSET Cells]
    /\ paused \in [Slaves -> BOOLEAN] /\ expired \in BOOLEAN
BeliefTypes ==
    /\ running \in BOOLEAN /\ known \in BOOLEAN /\ active \in BOOLEAN
    /\ masks \in [Slaves -> Selections] /\ line \in [Slaves -> Lines]
CallTypes ==
    /\ pc \in Places /\ at \in Slaves /\ clearing \in BOOLEAN
    /\ after \in Ends /\ ok \in BOOLEAN
OtherTypes ==
    /\ desired \in [Slaves -> Selections] /\ permitted \in BOOLEAN
    /\ cbActive \in BOOLEAN /\ cbLatched \in BOOLEAN

\* The type invariant in the parts the proofs of it use.
LEMMA TypeParts ==
    /\ TypeOK <=> ChipTypes /\ BeliefTypes /\ CallTypes /\ OtherTypes
    /\ TypeOK' <=> ChipTypes' /\ BeliefTypes' /\ CallTypes' /\ OtherTypes'
  BY DEF TypeOK, ChipTypes, BeliefTypes, CallTypes, OtherTypes, Places, Ends

\* Resumed and invalidated lines are lines.
LEMMA LineTypes ==
    ASSUME BeliefTypes, NEW answers \in [Slaves -> BOOLEAN]
    PROVE  /\ ResumeLines(answers) \in [Slaves -> Lines]
           /\ [s \in Slaves |-> Invalidate(line[s])] \in [Slaves -> Lines]
  BY LineFacts DEF ResumeLines, BeliefTypes

\* A measurement keeps the types.
LEMMA MeasureTypes ==
    ASSUME TypeOK, Measure PROVE TypeOK'
<1> USE TypeParts
<1>1. paused' \in [Slaves -> BOOLEAN] /\ line' \in [Slaves -> Lines]
  BY LineTypes DEF Measure, PauseFails, ResumeAfter, TypeOK
<1>2. pc' \in Places
  BY DEF Measure, Fails, Places
<1> QED
  BY <1>1, <1>2 DEF Measure, call, faults, ChipTypes, BeliefTypes, CallTypes, OtherTypes

\* The steps that disable balancing keep the types.
LEMMA DisablingTypes ==
    ASSUME TypeOK, DriverOff \/ ClearChannels \/ Disabled PROVE TypeOK'
<1> USE TypeParts
<1>1. CASE DriverOff
  <2>1. PICK answer \in BOOLEAN :
          /\ \E d \in Exchange(driver[at], FALSE, answer) :
               driver' = [driver EXCEPT ![at] = d]
          /\ line' = [line EXCEPT ![at] = IF answer THEN Stop(@) ELSE Invalidate(@)]
          /\ ok' = (ok /\ answer)
          /\ IF MayClear(answer) THEN pc' = "clear" /\ at' = at
                                ELSE NextSlave("off", "disabled")
    BY <1>1 DEF DriverOff
  <2>2. at \in Slaves /\ driver[at] \in BOOLEAN /\ line[at] \in Lines
    BY DEF CallTypes, ChipTypes, BeliefTypes
  <2>3. driver' \in [Slaves -> BOOLEAN]
    BY <2>1, <2>2 DEF ChipTypes, Exchange
  <2>4. line' \in [Slaves -> Lines]
    BY <2>1, <2>2, LineFacts DEF BeliefTypes
  <2>5. CallTypes'
    BY <1>1, <2>1, <2>2, NextSlaveFacts DEF DriverOff, CallTypes, Places
  <2> QED
    BY <1>1, <2>3, <2>4, <2>5 DEF DriverOff, faults, ChipTypes, BeliefTypes, OtherTypes
<1>2. CASE ClearChannels
  <2>1. at \in Slaves /\ chan[at] \in SUBSET Cells
    BY DEF CallTypes, ChipTypes
  <2>2. chan' \in [Slaves -> SUBSET Cells]
    BY <1>2, <2>1 DEF ClearChannels, ChipTypes
  <2>3. CallTypes'
    BY <1>2, <2>1, NextSlaveFacts DEF ClearChannels, CallTypes, Places
  <2> QED
    BY <1>2, <2>2, <2>3
       DEF ClearChannels, belief, faults, ChipTypes, BeliefTypes, OtherTypes
<1>3. CASE Disabled
  <2>1. pc' \in Places
    BY <1>3 DEF Disabled, Fails, Places
  <2>2. known' \in BOOLEAN
    BY <1>3 DEF Disabled, KnownAfterDisable
  <2>3. running' \in BOOLEAN /\ cbActive' \in BOOLEAN
    BY <1>3 DEF Disabled, BeliefTypes, OtherTypes
  <2> QED
    BY <1>3, <2>1, <2>2, <2>3, NothingSelected, SlavesFact
       DEF Disabled, chips, ChipTypes, BeliefTypes, CallTypes, OtherTypes
<1> QED
  BY <1>1, <1>2, <1>3

\* The decision what to balance keeps the types.
LEMMA DecideTypes ==
    ASSUME TypeOK, Decide PROVE TypeOK'
<1> USE TypeParts
<1>1. ChipTypes' /\ BeliefTypes'
  BY DEF Decide, chips, belief, ChipTypes, BeliefTypes
<1>2. CallTypes'
  <2>1. CASE Done
    BY <2>1 DEF Done, call, CallTypes, Places
  <2>2. CASE \E next \in Ends : Disable(TRUE, next)
    BY <2>2, SlavesFact DEF Disable, CallTypes, Places
  <2> QED  BY <2>1, <2>2 DEF Decide, Ends
<1>3. desired' \in [Slaves -> Selections] /\ cbActive' \in BOOLEAN
  BY DEF Decide, OtherTypes
<1> QED  BY <1>1, <1>2, <1>3 DEF Decide, OtherTypes

\* The steps that configure balancing keep the types.
LEMMA ConfiguringTypes ==
    ASSUME TypeOK, SetChannels \/ Selected \/ DriverOn \/ CheckStatus PROVE TypeOK'
<1> USE TypeParts
<1>0. at \in Slaves
  BY DEF CallTypes
<1>1. CASE SetChannels
  <2>1. desired[at] \in SUBSET Cells /\ chan[at] \in SUBSET Cells
    BY <1>0, SelectionsAreCells DEF OtherTypes, ChipTypes
  <2>2. chan' \in [Slaves -> SUBSET Cells]
    BY <1>0, <1>1, <2>1 DEF SetChannels, ChipTypes
  <2>3. CallTypes'
    BY <1>0, <1>1, NextSlaveFacts, DisableFacts, SlavesFact
       DEF SetChannels, CallTypes, Places, Ends
  <2>4. expired' \in BOOLEAN
    BY <1>1 DEF SetChannels
  <2> QED
    BY <1>1, <2>2, <2>3, <2>4
       DEF SetChannels, belief, faults, ChipTypes, BeliefTypes, OtherTypes
<1>2. CASE Selected
  BY <1>2, SlavesFact
     DEF Selected, chips, belief, ChipTypes, BeliefTypes, CallTypes, OtherTypes, Places
<1>3. CASE DriverOn
  <2>1. driver' \in [Slaves -> BOOLEAN]
    BY <1>0, <1>3 DEF DriverOn, ChipTypes, Exchange
  <2>2. CallTypes'
    BY <1>0, <1>3, NextSlaveFacts, DisableFacts, SlavesFact
       DEF DriverOn, CallTypes, Places, Ends
  <2> QED
    BY <1>3, <2>1, <2>2
       DEF DriverOn, belief, faults, ChipTypes, BeliefTypes, OtherTypes
<1>4. CASE CheckStatus
  <2>1. CallTypes'
    BY <1>4, DisableFacts, SlavesFact
       DEF CheckStatus, Done, call, CallTypes, Places, Ends
  <2>2. BeliefTypes'
    BY <1>4, ConstantLines DEF CheckStatus, belief, BeliefTypes, OtherTypes
  <2>3. cbActive' \in BOOLEAN /\ cbLatched' \in BOOLEAN
    BY <1>4 DEF CheckStatus, faults, OtherTypes
  <2> QED
    BY <1>4, <2>1, <2>2, <2>3 DEF CheckStatus, chips, ChipTypes, OtherTypes
<1> QED
  BY <1>1, <1>2, <1>3, <1>4

\* The end of a failed cycle, the bring-up, the monitors' timers and the other tasks.
Surroundings ==
    FailedCycle \/ BringUp \/ MonitorResets \/ PulseEnds \/ ConditionsChange \/ Acknowledge

\* Bring-up, failed cycles, resets, timers and faults keep the types.
LEMMA SurroundingTypes ==
    ASSUME TypeOK, Surroundings PROVE TypeOK'
<1> USE TypeParts
<1>1. CASE FailedCycle
  <2>1. CallTypes'
    BY <1>1, DisableFacts, SlavesFact
       DEF FailedCycle, Done, call, CallTypes, Places, Ends
  <2> QED
    BY <1>1, <2>1
       DEF FailedCycle, chips, belief, faults, ChipTypes, BeliefTypes, OtherTypes
<1>2. CASE BringUp
  BY <1>2, ConstantLines, NothingSelected, SelectionsAreCells
     DEF BringUp, call, faults, ChipTypes, BeliefTypes, CallTypes, OtherTypes
<1>3. CASE MonitorResets
  BY <1>3 DEF MonitorResets, belief, call, faults, ChipTypes, BeliefTypes, CallTypes,
              OtherTypes
<1>4. CASE PulseEnds \/ ConditionsChange \/ Acknowledge
  BY <1>4 DEF PulseEnds, ConditionsChange, Acknowledge, chips, belief, call, faults,
              ChipTypes, BeliefTypes, CallTypes, OtherTypes
<1> QED
  BY <1>1, <1>2, <1>3, <1>4 DEF Surroundings

-----------------------------------------------------------------------------
(* The invariant, one lemma per action or group of actions *)

\* The parts of the invariant besides the types.
Parts ==
    /\ StepsWhileRunning /\ DisablingProgress /\ ProgrammingProgress
    /\ ConfiguredUnpaused /\ ChannelsAreSelected /\ RatedIsClosed /\ BelievedOff

\* A measurement ends with every monitor resumed, or with no account rated.
LEMMA MeasureKeeps ==
    ASSUME BalancingInv, Measure PROVE Parts'
<1>1. pc = "idle" /\ running /\ pc' \in {"idle", "failed", "decide"}
  BY DEF Measure, Fails
<1>2. UNCHANGED <<driver, chan, running, known, active, masks>>
  BY DEF Measure
<1>3. pc' = "decide" => \A s \in Slaves : ~paused'[s]
  BY DEF Measure, Fails, ResumeAfter, Exchange
<1>4. RatedIsClosed'
  <2> SUFFICES ASSUME NEW s \in Slaves, IsRated(s)'
               PROVE  IsRated(s) /\ ~paused'[s]
    BY <1>2 DEF BalancingInv, RatedIsClosed
  <2>0. line[s] \in Lines
    BY DEF BalancingInv, TypeOK
  <2>1. CASE line' = [t \in Slaves |-> Invalidate(line[t])]
    BY <2>0, <2>1, LineFacts DEF IsRated
  <2>2. CASE \E answers \in [Slaves -> BOOLEAN] :
               ResumeAfter(answers) /\ \A t \in Slaves : answers[t]
    <3>1. line'[s] = Resume(line[s]) /\ paused'[s] = FALSE
      BY <2>2 DEF ResumeAfter, ResumeLines, Exchange
    <3> QED  BY <2>0, <3>1, LineFacts DEF IsRated
  <2>3. CASE \E answers \in [Slaves -> BOOLEAN] :
               ResumeAfter(answers) /\ ~(\A t \in Slaves : answers[t])
    BY <2>1, <2>3 DEF ResumeAfter, ResumeLines
  <2> QED
    BY <2>1, <2>2, <2>3 DEF Measure, PauseFails
<1> QED
  BY <1>1, <1>2, <1>3, <1>4
     DEF BalancingInv, Parts, StepsWhileRunning, DisablingProgress, ProgrammingProgress,
         Configuring, ConfiguredUnpaused, ChannelsAreSelected, BelievedOff

\* A loop that starts has passed nobody.
LEMMA DisableKeeps ==
    ASSUME BalancingInv, NEW clear \in BOOLEAN, NEW next \in Ends, Disable(clear, next),
           next = "configure" => clear
    PROVE  DisablingProgress' /\ ProgrammingProgress'
<1>1. /\ pc' = "off" /\ clearing' = clear /\ after' = next
      /\ \A s \in Slaves : ~(s < at')
  BY DisableFacts
<1> QED  BY <1>1 DEF DisablingProgress, ProgrammingProgress

\* The decision keeps the parts: it starts a configuration, or disables.
LEMMA DecideKeeps ==
    ASSUME BalancingInv, Decide PROVE Parts'
<1>1. pc = "decide" /\ running /\ UNCHANGED <<driver, chan, paused, belief>>
  BY DEF Decide, chips, belief, BalancingInv, StepsWhileRunning
<1>2. \A s \in Slaves : ~paused[s]
  BY <1>1 DEF BalancingInv, ConfiguredUnpaused, Configuring
<1>3. pc' = "idle" \/ \E next \in Ends : Disable(TRUE, next)
  BY DEF Decide, Done, Ends
<1>4. DisablingProgress' /\ ProgrammingProgress' /\ pc' \in {"idle", "off"}
  BY <1>3, DisableKeeps, DisableFacts DEF DisablingProgress, ProgrammingProgress
<1>5. RatedIsClosed'
  BY <1>1 DEF BalancingInv, RatedIsClosed, IsRated, belief
<1> QED
  BY <1>1, <1>2, <1>4, <1>5
     DEF BalancingInv, Parts, StepsWhileRunning, ConfiguredUnpaused, ChannelsAreSelected,
         BelievedOff, belief

\* A confirmed monitor is off and its account closed; an unconfirmed one spoils ok.
LEMMA DriverOffKeeps ==
    ASSUME BalancingInv, DriverOff PROVE Parts'
<1>1. PICK answer \in BOOLEAN :
        /\ \E d \in Exchange(driver[at], FALSE, answer) :
             driver' = [driver EXCEPT ![at] = d]
        /\ line' = [line EXCEPT ![at] = IF answer THEN Stop(@) ELSE Invalidate(@)]
        /\ ok' = (ok /\ answer)
        /\ IF MayClear(answer) THEN pc' = "clear" /\ at' = at
                              ELSE NextSlave("off", "disabled")
  BY DEF DriverOff
<1>2. at \in Slaves /\ driver \in [Slaves -> BOOLEAN] /\ line \in [Slaves -> Lines]
      /\ ok \in BOOLEAN /\ clearing \in BOOLEAN
  BY DEF BalancingInv, TypeOK
<1>3. /\ pc = "off" /\ running
      /\ UNCHANGED <<chan, paused, running, known, active, masks, clearing, after, desired>>
  BY DEF DriverOff, BalancingInv, StepsWhileRunning
<1>4. /\ \A s \in Slaves : s = at => ~IsRated(s)' /\ (answer => ~driver'[s])
      /\ \A s \in Slaves \ {at} : line'[s] = line[s] /\ driver'[s] = driver[s]
  <2>1. line'[at] = IF answer THEN Stop(line[at]) ELSE Invalidate(line[at])
    BY <1>1, <1>2
  <2>2. ~line'[at].active \/ ~line'[at].known
    BY <1>2, <2>1, LineFacts
  <2>3. answer => driver'[at] = FALSE
    BY <1>1, <1>2 DEF Exchange
  <2>4. \A s \in Slaves \ {at} : line'[s] = line[s] /\ driver'[s] = driver[s]
    BY <1>1, <1>2
  <2> QED  BY <2>2, <2>3, <2>4 DEF IsRated
<1>5. \A s \in Slaves : s < at => IsDisabled(s)
  BY <1>3 DEF BalancingInv, DisablingProgress
<1>6. \A s \in Slaves : s < at => IsDisabled(s)'
  BY <1>1, <1>2, <1>3, <1>4, <1>5 DEF IsDisabled, IsRated, Slaves
<1>7. DisablingProgress'
  <2>0. after' = "configure" => clearing'
    BY <1>3 DEF BalancingInv, DisablingProgress
  <2>1. CASE MayClear(answer)
    <3>1. pc' = "clear" /\ at' = at /\ answer /\ clearing
      BY <1>1, <2>1 DEF MayClear
    <3>2. ~driver'[at'] /\ ~IsRated(at)'
      BY <1>2, <1>4, <3>1 DEF IsRated
    <3> QED  BY <1>3, <1>6, <2>0, <3>1, <3>2 DEF DisablingProgress
  <2>2. CASE ~MayClear(answer)
    <3>1. \A s \in Slaves : s = at => IsDisabled(s)'
      <4>1. ok' => answer
        BY <1>1
      <4>2. ok' /\ clearing' => FALSE
        BY <1>3, <2>2, <4>1 DEF MayClear
      <4> QED  BY <1>4, <4>1, <4>2 DEF IsDisabled
    <3>2. NextSlave("off", "disabled")
      BY <1>1, <2>2
    <3>3. \/ pc' = "disabled" /\ \A s \in Slaves : s < at \/ s = at
          \/ pc' = "off" /\ \A s \in Slaves : s < at' => s < at \/ s = at
      BY <1>2, <3>2, NextSlaveFacts
    <3> QED  BY <1>6, <2>0, <3>1, <3>3 DEF DisablingProgress
  <2> QED  BY <2>1, <2>2
<1>8. pc' \in {"off", "clear", "disabled"}
  BY <1>1, <1>2, NextSlaveFacts
<1>9. RatedIsClosed'
  <2> SUFFICES ASSUME NEW s \in Slaves, IsRated(s)'
               PROVE  s # at /\ IsRated(s)
    BY <1>3, <1>4 DEF BalancingInv, RatedIsClosed
  <2> QED  BY <1>4 DEF IsRated
<1> QED
  BY <1>3, <1>7, <1>8, <1>9
     DEF BalancingInv, Parts, StepsWhileRunning, ProgrammingProgress, Configuring,
         ConfiguredUnpaused, ChannelsAreSelected, BelievedOff

\* Channels are cleared where the driver is off; a channel that stays set spoils ok.
LEMMA ClearChannelsKeeps ==
    ASSUME BalancingInv, ClearChannels PROVE Parts'
<1>1. /\ pc = "clear" /\ running /\ clearing
      /\ NextSlave("off", "disabled")
      /\ UNCHANGED <<driver, paused, running, known, active, masks, line, clearing, after,
                     desired>>
  BY DEF ClearChannels, belief, BalancingInv, StepsWhileRunning, DisablingProgress
<1>2. at \in Slaves /\ chan \in [Slaves -> SUBSET Cells] /\ ok \in BOOLEAN
  BY DEF BalancingInv, TypeOK
<1>3. PICK c \in SUBSET chan[at] :
        /\ chan' = [chan EXCEPT ![at] = c]
        /\ (ok' = ok /\ c = {}) \/ ok' = FALSE
  BY DEF ClearChannels
<1>4. chan'[at] = c /\ \A s \in Slaves \ {at} : chan'[s] = chan[s]
  BY <1>2, <1>3
<1>5. ~driver[at] /\ ~IsRated(at)
  BY <1>1 DEF BalancingInv, DisablingProgress
<1>6. \A s \in Slaves : s < at \/ s = at => IsDisabled(s)'
  <2>1. \A s \in Slaves : s < at => IsDisabled(s)
    BY <1>1 DEF BalancingInv, DisablingProgress
  <2> QED  BY <1>1, <1>2, <1>3, <1>4, <1>5, <2>1 DEF IsDisabled, IsRated, Slaves
<1>7. \/ pc' = "disabled" /\ \A s \in Slaves : s < at \/ s = at
      \/ pc' = "off" /\ \A s \in Slaves : s < at' => s < at \/ s = at
  BY <1>1, <1>2, NextSlaveFacts
<1>8. DisablingProgress'
  BY <1>1, <1>6, <1>7 DEF DisablingProgress
<1>9. ChannelsAreSelected'
  <2>1. chan \in [Slaves -> Selections]
    BY <1>1 DEF BalancingInv, ChannelsAreSelected
  <2>2. c \in Selections
    BY <1>2, <2>1, PartOfSelection
  <2> QED  BY <1>2, <1>3, <2>1, <2>2 DEF ChannelsAreSelected
<1>10. RatedIsClosed'
  BY <1>1, <1>4, <1>5 DEF BalancingInv, RatedIsClosed, IsRated
<1> QED
  BY <1>1, <1>7, <1>8, <1>9, <1>10
     DEF BalancingInv, Parts, StepsWhileRunning, ProgrammingProgress, Configuring,
         ConfiguredUnpaused, BelievedOff

\* The end of the loop: what the step that comes next may rely on.
LEMMA DisabledKeeps ==
    ASSUME BalancingInv, Disabled PROVE Parts'
<1>1. /\ pc = "disabled" /\ running /\ at' = 1
      /\ masks' = NoMasks /\ active' = FALSE /\ known' = (ok /\ clearing)
      /\ UNCHANGED <<driver, chan, paused, expired, line, desired>>
      /\ pc' \in {"idle", "set", "failed"}
      /\ pc' = "set" => ok /\ after = "configure"
      /\ running' \in {running, FALSE} /\ (running' = FALSE => pc' = "idle")
  BY DEF Disabled, chips, Fails, KnownAfterDisable, BalancingInv, StepsWhileRunning
<1>2. \A s \in Slaves : IsDisabled(s)
  BY <1>1 DEF BalancingInv, DisablingProgress
<1>3. ProgrammingProgress'
  <2>1. pc' = "set" => clearing /\ ok
    BY <1>1 DEF BalancingInv, DisablingProgress
  <2>2. \A s \in Slaves : ~(s < at')
    BY <1>1 DEF Slaves
  <2> QED  BY <1>1, <1>2, <2>1, <2>2 DEF IsDisabled, ProgrammingProgress
<1>4. ConfiguredUnpaused'
  BY <1>1 DEF BalancingInv, ConfiguredUnpaused, Configuring
<1>5. RatedIsClosed'
  BY <1>1, <1>2 DEF IsDisabled, IsRated, RatedIsClosed
<1>6. BelievedOff'
  BY <1>1, <1>2 DEF IsDisabled, BelievedOff
<1>7. ChannelsAreSelected'
  BY <1>1 DEF BalancingInv, ChannelsAreSelected
<1> QED
  BY <1>1, <1>3, <1>4, <1>5, <1>6, <1>7
     DEF Parts, StepsWhileRunning, DisablingProgress

\* The channels of one monitor, all of them or those before the first that fails.
LEMMA SetChannelsKeeps ==
    ASSUME BalancingInv, SetChannels PROVE Parts'
<1>1. /\ pc = "set" /\ running
      /\ UNCHANGED <<driver, paused, belief, desired>>
  BY DEF SetChannels, BalancingInv, StepsWhileRunning
<1>2. /\ at \in Slaves /\ chan \in [Slaves -> SUBSET Cells]
      /\ desired \in [Slaves -> Selections]
  BY DEF BalancingInv, TypeOK
<1>3. \A s \in Slaves : ~driver[s] /\ chan[s] = IF s < at THEN desired[s] ELSE {}
  BY <1>1 DEF BalancingInv, ProgrammingProgress
<1>4. chan[at] = {}
  BY <1>2, <1>3 DEF Slaves
<1>5. PICK c \in SUBSET desired[at] :
        /\ chan' = [chan EXCEPT ![at] = c]
        /\ \/ c = desired[at] /\ NextSlave("set", "selected")
           \/ Disable(FALSE, "error")
  BY <1>2, <1>4 DEF SetChannels
<1>6. pc' \in {"set", "selected", "off"}
  BY <1>2, <1>5, NextSlaveFacts, DisableFacts
<1>7. DisablingProgress' /\ ProgrammingProgress'
  <2>1. CASE Disable(FALSE, "error")
    BY <2>1, DisableKeeps DEF Ends
  <2>2. CASE c = desired[at] /\ NextSlave("set", "selected")
    <3>1. \/ pc' = "selected" /\ \A s \in Slaves : s < at \/ s = at
          \/ pc' = "set" /\ at' = at + 1 /\ \A s \in Slaves : s < at' => s < at \/ s = at
      BY <1>2, <2>2, NextSlaveFacts
    <3>2. \A s \in Slaves : ~driver'[s] /\ (s < at \/ s = at => chan'[s] = desired'[s])
      BY <1>1, <1>2, <1>3, <1>5, <2>2
    <3>3. pc' = "set" => \A s \in Slaves : ~(s < at') => chan'[s] = {}
      BY <1>2, <1>3, <1>5, <3>1 DEF Slaves
    <3>4. ProgrammingProgress'
      BY <3>1, <3>2, <3>3 DEF ProgrammingProgress
    <3> QED  BY <3>1, <3>4 DEF DisablingProgress
  <2> QED  BY <1>5, <2>1, <2>2
<1>8. ConfiguredUnpaused'
  BY <1>1 DEF BalancingInv, ConfiguredUnpaused, Configuring
<1>9. ChannelsAreSelected'
  <2>1. c \in Selections
    BY <1>2, PartOfSelection
  <2>2. chan \in [Slaves -> Selections]
    BY <1>1 DEF BalancingInv, ChannelsAreSelected
  <2> QED  BY <1>5, <2>1, <2>2 DEF ChannelsAreSelected
<1>10. RatedIsClosed'
  BY <1>1, <1>3 DEF BalancingInv, RatedIsClosed, IsRated, belief
<1> QED
  BY <1>1, <1>6, <1>7, <1>8, <1>9, <1>10
     DEF BalancingInv, Parts, StepsWhileRunning, BelievedOff, belief

\* When the channels of every monitor are set, the drivers come next.
LEMMA SelectedKeeps ==
    ASSUME BalancingInv, Selected PROVE Parts'
<1>1. /\ pc = "selected" /\ running
      /\ UNCHANGED <<driver, chan, paused, belief, desired>>
      /\ (pc' = "idle" /\ desired = NoMasks) \/ pc' = "enable"
  BY DEF Selected, chips, BalancingInv, StepsWhileRunning
<1>2. \A s \in Slaves : ~driver[s] /\ chan[s] = desired[s]
  BY <1>1 DEF BalancingInv, ProgrammingProgress
<1>3. BelievedOff'
  BY <1>1, <1>2 DEF BelievedOff, NoMasks
<1>4. ConfiguredUnpaused'
  BY <1>1 DEF BalancingInv, ConfiguredUnpaused, Configuring
<1>5. RatedIsClosed' /\ ChannelsAreSelected'
  BY <1>1 DEF BalancingInv, RatedIsClosed, IsRated, ChannelsAreSelected, belief
<1> QED
  BY <1>1, <1>3, <1>4, <1>5
     DEF Parts, StepsWhileRunning, DisablingProgress, ProgrammingProgress, belief

\* A driver goes on behind the channels of its monitor.
LEMMA DriverOnKeeps ==
    ASSUME BalancingInv, DriverOn PROVE Parts'
<1>1. /\ pc = "enable" /\ running /\ UNCHANGED <<chan, paused, belief>>
      /\ NextSlave("enable", "check") \/ Disable(FALSE, "error")
  BY DEF DriverOn, BalancingInv, StepsWhileRunning
<1>2. at \in Slaves /\ driver \in [Slaves -> BOOLEAN]
  BY DEF BalancingInv, TypeOK
<1>3. pc' \in {"enable", "check", "off"} /\ DisablingProgress' /\ ProgrammingProgress'
  <2>1. CASE NextSlave("enable", "check")
    <3>1. pc' \in {"enable", "check"}
      BY <1>2, <2>1, NextSlaveFacts
    <3> QED  BY <3>1 DEF DisablingProgress, ProgrammingProgress
  <2>2. CASE Disable(FALSE, "error")
    BY <2>2, DisableKeeps, DisableFacts DEF Ends
  <2> QED  BY <1>1, <2>1, <2>2
<1>4. \A s \in Slaves : driver[s] => driver'[s]
  BY <1>2 DEF DriverOn, Exchange
<1>5. RatedIsClosed' /\ ChannelsAreSelected'
  BY <1>1, <1>4 DEF BalancingInv, RatedIsClosed, IsRated, ChannelsAreSelected, belief
<1>6. ConfiguredUnpaused'
  BY <1>1 DEF BalancingInv, ConfiguredUnpaused, Configuring
<1> QED
  BY <1>1, <1>3, <1>5, <1>6 DEF Parts, StepsWhileRunning, BelievedOff, belief

\* Accounts open only on switches that were read back closed.
LEMMA CheckStatusKeeps ==
    ASSUME BalancingInv, CheckStatus PROVE Parts'
<1>1. /\ pc = "check" /\ running /\ UNCHANGED <<driver, chan, paused, desired>>
      /\ running' = running
  BY DEF CheckStatus, chips, belief, BalancingInv, StepsWhileRunning
<1>2. \A s \in Slaves : ~paused[s]
  BY <1>1 DEF BalancingInv, ConfiguredUnpaused, Configuring
<1>3. ConfiguredUnpaused' /\ ChannelsAreSelected'
  BY <1>1, <1>2 DEF BalancingInv, ConfiguredUnpaused, ChannelsAreSelected
<1>4. CASE Disable(FALSE, "error") /\ UNCHANGED belief
  <2>1. RatedIsClosed'
    BY <1>1, <1>4 DEF BalancingInv, RatedIsClosed, IsRated, belief
  <2> QED
    BY <1>1, <1>3, <1>4, <2>1, DisableKeeps, DisableFacts
       DEF Parts, StepsWhileRunning, BelievedOff, Ends
<1>5. CASE Disable(TRUE, "mismatch") /\ UNCHANGED belief
  <2>1. RatedIsClosed'
    BY <1>1, <1>5 DEF BalancingInv, RatedIsClosed, IsRated, belief
  <2> QED
    BY <1>1, <1>3, <1>5, <2>1, DisableKeeps, DisableFacts
       DEF Parts, StepsWhileRunning, BelievedOff, Ends
<1>6. CASE StatusMatches /\ masks' = desired /\ active' = TRUE /\ pc' = "idle"
  <2>1. RatedIsClosed'
    BY <1>1, <1>2, <1>6 DEF StatusMatches, RatedIsClosed, IsRated
  <2> QED
    BY <1>1, <1>3, <1>6, <2>1
       DEF Parts, StepsWhileRunning, DisablingProgress, ProgrammingProgress, BelievedOff
<1> QED
  BY <1>4, <1>5, <1>6 DEF CheckStatus, Done

\* Bring-up, failed cycles, resets, timers and faults keep the parts.
LEMMA SurroundingsKeep ==
    ASSUME BalancingInv, Surroundings PROVE Parts'
<1>1. CASE FailedCycle
  <2>1. pc = "failed" /\ running /\ UNCHANGED <<driver, chan, paused, belief>>
    BY <1>1 DEF FailedCycle, chips, BalancingInv, StepsWhileRunning
  <2>2. RatedIsClosed' /\ ChannelsAreSelected'
    BY <2>1 DEF BalancingInv, RatedIsClosed, IsRated, ChannelsAreSelected, belief
  <2>3. CASE Done
    BY <2>1, <2>2, <2>3
       DEF Done, BalancingInv, Parts, StepsWhileRunning, DisablingProgress,
           ProgrammingProgress, ConfiguredUnpaused, Configuring, BelievedOff, belief
  <2>4. CASE Disable(FALSE, "restart")
    <3>1. pc' = "off" /\ after' = "restart"
      BY <2>4, DisableFacts
    <3> QED
      BY <2>1, <2>2, <2>4, <3>1, DisableKeeps
         DEF Parts, StepsWhileRunning, ConfiguredUnpaused, Configuring, BelievedOff, belief,
             Ends
  <2> QED  BY <1>1, <2>3, <2>4 DEF FailedCycle
<1>2. CASE BringUp
  <2>1. /\ pc' = "idle" /\ running' = TRUE /\ known' = FALSE /\ chan' = NoMasks
        /\ line' = [s \in Slaves |-> Reset]
    BY <1>2 DEF BringUp
  <2>2. RatedIsClosed'
    BY <2>1, ConstantLines DEF RatedIsClosed, IsRated
  <2>3. ChannelsAreSelected'
    BY <2>1, NothingSelected DEF ChannelsAreSelected
  <2> QED
    BY <2>1, <2>2, <2>3
       DEF Parts, StepsWhileRunning, DisablingProgress, ProgrammingProgress,
           ConfiguredUnpaused, Configuring, BelievedOff
<1>3. CASE MonitorResets
  <2>1. pc' = "idle" /\ ~running /\ ~running' /\ line' = line
    BY <1>3 DEF MonitorResets, belief
  <2>2. RatedIsClosed'
    BY <2>1 DEF BalancingInv, RatedIsClosed, IsRated
  <2> QED
    BY <2>1, <2>2
       DEF Parts, StepsWhileRunning, DisablingProgress, ProgrammingProgress,
           ConfiguredUnpaused, Configuring, ChannelsAreSelected, BelievedOff
<1>4. CASE PulseEnds \/ ConditionsChange \/ Acknowledge
  <2>1. UNCHANGED <<driver, chan, paused, running, known, active, masks, line, pc, at,
                    clearing, after, ok, desired>>
    BY <1>4 DEF PulseEnds, ConditionsChange, Acknowledge, chips, belief, call
  <2>2. StepsWhileRunning' /\ DisablingProgress' /\ ProgrammingProgress'
    BY <2>1 DEF BalancingInv, StepsWhileRunning, DisablingProgress, IsDisabled, IsRated,
                ProgrammingProgress
  <2>3. ConfiguredUnpaused' /\ ChannelsAreSelected' /\ RatedIsClosed' /\ BelievedOff'
    BY <2>1 DEF BalancingInv, ConfiguredUnpaused, Configuring, ChannelsAreSelected,
                RatedIsClosed, IsRated, BelievedOff
  <2> QED  BY <2>2, <2>3 DEF Parts
<1> QED
  BY <1>1, <1>2, <1>3, <1>4 DEF Surroundings

-----------------------------------------------------------------------------
(* The theorems *)

\* Nothing is closed when the task starts.
LEMMA InitiallyContained ==
    ASSUME Init PROVE BalancingInv
<1>1. TypeOK
  BY ConstantLines, NothingSelected, SlavesFact DEF Init, TypeOK
<1>2. RatedIsClosed
  BY ConstantLines DEF Init, RatedIsClosed, IsRated
<1> QED
  BY <1>1, <1>2
     DEF Init, BalancingInv, StepsWhileRunning, DisablingProgress, ProgrammingProgress,
         ConfiguredUnpaused, Configuring, ChannelsAreSelected, BelievedOff

\* A step of nothing changes none of the parts.
LEMMA StutteringKeeps ==
    ASSUME BalancingInv, UNCHANGED vars PROVE BalancingInv'
<1>1. TypeOK'
  BY DEF vars, BalancingInv, TypeOK
<1>2. StepsWhileRunning' /\ DisablingProgress' /\ ProgrammingProgress'
  BY DEF vars, BalancingInv, StepsWhileRunning, DisablingProgress, IsDisabled, IsRated,
         ProgrammingProgress
<1>3. ConfiguredUnpaused' /\ ChannelsAreSelected' /\ RatedIsClosed' /\ BelievedOff'
  BY DEF vars, BalancingInv, ConfiguredUnpaused, Configuring, ChannelsAreSelected,
         RatedIsClosed, IsRated, BelievedOff
<1> QED  BY <1>1, <1>2, <1>3 DEF BalancingInv

\* The invariant holds whichever exchange with a monitor fails, before or after the
\* monitor has obeyed (performCellBalancing, disableCellBalancing,
\* configureBalancingCycle).
THEOREM BalancingInvariance == Spec => []BalancingInv
<1>1. BalancingInv /\ [Next]_vars => BalancingInv'
  <2> SUFFICES ASSUME BalancingInv, Next PROVE BalancingInv'
    BY StutteringKeeps
  <2>1. TypeOK'
    BY MeasureTypes, DisablingTypes, DecideTypes, ConfiguringTypes, SurroundingTypes
       DEF BalancingInv, Next, Surroundings
  <2>2. Parts'
    BY MeasureKeeps, DecideKeeps, DriverOffKeeps, ClearChannelsKeeps, DisabledKeeps,
       SetChannelsKeeps, SelectedKeeps, DriverOnKeeps, CheckStatusKeeps, SurroundingsKeep
       DEF Next, Surroundings
  <2> QED  BY <2>1, <2>2 DEF BalancingInv, Parts
<1> QED  BY <1>1, InitiallyContained, PTL DEF Spec

\* No switch of a running chain bleeds unknown to the BMS, and no monitor ever bleeds
\* more cells than its package may dissipate.
THEOREM BalancingContained == Spec => []BalancingIsContained
<1>1. BalancingInv => BalancingIsContained
  <2> SUFFICES ASSUME BalancingInv, running, NEW s \in Slaves
               PROVE  Cardinality(Discharging(s)) <= MaxCells
    BY DEF BalancingInv, BalancingIsContained, BleedingIsBounded
  <2>1. chan[s] \in Selections /\ {} \in Selections
    BY NothingSelected DEF BalancingInv, ChannelsAreSelected
  <2> QED  BY <2>1 DEF Discharging, Selections
<1> QED  BY <1>1, BalancingInvariance, PTL

\* Charge is counted only for switches confirmed to be closed (BALANCING_CHARGE).
THEOREM CountedDischarges == Spec => []CountedIsDischarging
<1>1. BalancingInv => CountedIsDischarging
  BY DEF BalancingInv, RatedIsClosed, IsRated, CountedIsDischarging, Counted, Discharging
<1> QED  BY <1>1, BalancingInvariance, PTL

\* A channel of a running monitor is switched only while its driver is off (the order of
\* disableCellBalancing and configureBalancingCycle).
THEOREM ProgrammingNeedsDriverOff == Spec => ProgrammedWhileOff
<1> DEFINE Safe == \A s \in Slaves : chan'[s] # chan[s] /\ running => ~driver[s]
<1>1. BalancingInv /\ [Next]_vars => [Safe]_vars
  <2> SUFFICES ASSUME BalancingInv, Next,
                      NEW s \in Slaves, chan'[s] # chan[s], running
               PROVE  ~driver[s]
    OBVIOUS
  <2>1. CASE ClearChannels
    <3>1. s = at
      BY <2>1 DEF ClearChannels, BalancingInv, TypeOK
    <3> QED  BY <2>1, <3>1 DEF ClearChannels, BalancingInv, DisablingProgress
  <2>2. CASE SetChannels
    BY <2>2 DEF SetChannels, BalancingInv, ProgrammingProgress
  <2>3. CASE BringUp \/ MonitorResets
    BY <2>3 DEF BringUp, MonitorResets
  <2>4. CASE UNCHANGED chan
    BY <2>4
  <2>5. ClearChannels \/ SetChannels \/ BringUp \/ MonitorResets \/ UNCHANGED chan
    BY DEF Next, Measure, Decide, DriverOff, Disabled, Selected, DriverOn, CheckStatus,
           FailedCycle, PulseEnds, ConditionsChange, Acknowledge, chips
  <2> QED  BY <2>1, <2>2, <2>3, <2>4, <2>5
<1> QED  BY <1>1, BalancingInvariance, PTL DEF Spec, ProgrammedWhileOff

=============================================================================
