------------------------------- MODULE AdcScan -------------------------------
(***************************************************************************)
(* The high-voltage samples of BoardIO.cpp.  The interrupt that ends a     *)
(* scan copies it into adcValues under a version count; a task copies the  *)
(* samples out one by one, and takes them for one scan when the version    *)
(* did not move meanwhile.  The age of the scan is judged from a time the  *)
(* task read before it looks at the time of the last scan.                 *)
(*                                                                         *)
(* An interrupt is not interrupted by a task, so it is one action; every   *)
(* load of a task is one.  Time is counted in checks of 20 ms.             *)
(***************************************************************************)
EXTENDS Naturals

Channels == 1..3          \* load side, battery side, VREFINT
Stale == 5                \* ADC_DMA_STALE_TIMEOUT_MS
CheckPeriod == 1          \* ADC_HEALTH_CHECK_PERIOD_MS
FailureLimit == 3         \* ADC_HEALTH_FAILURE_LIMIT
Attempts == 3
LongAgo == Stale + 10     \* bound: an age is not counted further
Slack == 1                \* bound: the main task comes round that often

\* A scan: a name that differs from the scans next to it, and whether its
\* VREFINT sample puts the reference within 2.8 to 3.0 V.
Scans == [id : 0..1, ok : BOOLEAN]

VARIABLES
    stopped,      \* no scan completes any more
    samples,      \* adcValues
    sinceScan,    \* age of lastAdcDmaCompletionAt
    pc,           \* where the main task is
    sampled,      \* age of the time it read
    fresh,        \* it found the last scan recent enough
    attempt,      \* passes of the copying loop left
    moves,        \* by how much adcSnapshotVersion moved since it was loaded
    copied,       \* channels copied in this pass
    values,       \* the copy
    result,       \* HVVoltages of the last getHVVoltages
    sinceCheck,   \* age of lastAdcHealthCheckAt
    failures,     \* adcHealthFailureCount
    fault         \* BmsFault::AdcFault is active

scan == <<stopped, samples, sinceScan>>
task == <<pc, sampled, fresh, attempt, moves, copied, values>>
health == <<sinceCheck, failures, fault>>
vars == <<scan, task, health, result>>

None == [valid |-> FALSE, broken |-> FALSE]

TypeOK ==
    /\ stopped \in BOOLEAN /\ samples \in [Channels -> Scans]
    /\ sinceScan \in 0..LongAgo /\ sampled \in 0..LongAgo
    /\ sinceCheck \in 0..LongAgo
    /\ pc \in {"Delay", "Loop", "Age", "Begin", "Copy", "End", "Done",
               "CheckDue", "CheckAge", "CheckBegin", "CheckCopy", "CheckEnd",
               "Verdict", "Unavailable"}
    /\ fresh \in BOOLEAN /\ attempt \in 0..Attempts /\ moves \in 0..4
    /\ copied \subseteq Channels /\ values \in [Channels -> Scans]
    /\ failures \in 0..FailureLimit /\ fault \in BOOLEAN
    /\ result \in [valid : BOOLEAN, broken : BOOLEAN]

\* What the task no longer needs is forgotten, to keep the states few.
NoValues == [c \in Channels |-> [id |-> 0, ok |-> FALSE]]
Forget == attempt' = 0 /\ moves' = 0 /\ copied' = {} /\ values' = NoValues

Older(age) == IF age < LongAgo THEN age + 1 ELSE age

\* An unsigned difference of two times: the time of the scan taken from the
\* time read.  A scan that ended after the time was read makes it wrap to
\* nearly 2^32.
Recent == sampled <= sinceScan /\ sinceScan - sampled <= Stale

-----------------------------------------------------------------------------
(* reportAdcDmaCompletion: the version moves once before and once after    *)
(* the samples are stored.                                                 *)
Versions == 2

reportAdcDmaCompletion ==
    /\ ~stopped
    /\ \E ok \in BOOLEAN :
          samples' = [c \in Channels |-> [id |-> 1 - samples[1].id, ok |-> ok]]
    /\ sinceScan' = 0
    /\ moves' = IF pc \in {"Copy", "CheckCopy", "End", "CheckEnd"}
                THEN IF moves + Versions > 4 THEN 4 ELSE moves + Versions
                ELSE moves
    /\ UNCHANGED <<stopped, pc, sampled, fresh, attempt, copied, values,
                   health, result>>

\* The converter, its DMA or its trigger stops.
Stop ==
    /\ ~stopped
    /\ stopped' = TRUE
    /\ UNCHANGED <<samples, sinceScan, task, health, result>>

\* Time passes; the main task is not kept from its round for ever, and a
\* converter that runs ends a scan every 20 ms.  Only where a time has been
\* read, and between rounds, does it matter that time passes.
Tick ==
    /\ pc \in {"Delay", "Age", "CheckAge"}
    /\ sinceCheck <= Slack
    /\ stopped \/ sinceScan <= Slack
    /\ sinceScan' = Older(sinceScan)
    /\ sampled' = IF pc = "Delay" THEN 0 ELSE Older(sampled)
    /\ sinceCheck' = Older(sinceCheck)
    /\ UNCHANGED <<stopped, samples, pc, fresh, attempt, moves, copied, values,
                   failures, fault, result>>

-----------------------------------------------------------------------------
Goto(label) == pc' = label

\* getHVVoltages and isAdcHealthy read the time first.
Now(from, to) ==
    /\ pc = from
    /\ sampled' = 0
    /\ Goto(to)
    /\ UNCHANGED <<scan, fresh, attempt, moves, copied, values, health, result>>

\* getHVVoltages gives up at once on an old scan; isAdcHealthy goes on and
\* remembers.
Age(from, old, to) ==
    /\ pc = from
    /\ fresh' = Recent
    /\ attempt' = Attempts
    /\ Goto(IF Recent THEN to ELSE old)
    /\ sampled' = 0
    /\ UNCHANGED <<scan, moves, copied, values, health, result>>

\* readAdcSnapshot: load the version; the interrupt has left it even.
Begin(from, to, none) ==
    /\ pc = from
    /\ IF attempt = 0
       THEN Goto(none) /\ UNCHANGED <<attempt, moves, copied>>
       ELSE /\ attempt' = attempt - 1
            /\ moves' = 0
            /\ copied' = {}
            /\ Goto(to)
    /\ values' = NoValues
    /\ UNCHANGED <<scan, sampled, fresh, health, result>>

\* The samples are loaded in the order of their channels.
Copy(from, to) ==
    /\ pc = from
    /\ \E c \in Channels \ copied :
          /\ \A d \in Channels \ copied : c <= d
          /\ values' = [values EXCEPT ![c] = samples[c]]
          /\ copied' = copied \cup {c}
          /\ IF copied' = Channels THEN Goto(to) ELSE UNCHANGED pc
    /\ UNCHANGED <<scan, sampled, fresh, attempt, moves, health, result>>

\* Has another scan come in since the version was loaded?
SameScanMoved == FALSE  \* the comparison of the versions left out (for mutation)
Moved == moves # 0

End(from, again, done) ==
    /\ pc = from
    /\ Goto(IF Moved THEN again ELSE done)
    /\ UNCHANGED <<scan, sampled, fresh, attempt, moves, copied, values, health,
                   result>>

\* The values as the caller gets them, and whether they are of several scans.
Return(valid) ==
    /\ result' = [valid |-> valid,
                  broken |-> valid /\ \E c, d \in Channels : values[c] # values[d]]
    /\ Goto("CheckDue")

getHVVoltages ==
    /\ pc = "Done"
    /\ Return(values[3].ok)
    /\ Forget /\ fresh' = FALSE
    /\ UNCHANGED <<scan, sampled, health>>

\* An old scan, or three passes in a row interrupted.
Refused ==
    /\ \/ pc = "Age" /\ ~Recent
       \/ pc = "Begin" /\ attempt = 0
    /\ Return(FALSE)
    /\ Forget /\ fresh' = FALSE /\ sampled' = 0
    /\ UNCHANGED <<scan, health>>

-----------------------------------------------------------------------------
(* updateAdcHealth, at most every 20 ms                                    *)
CheckDue ==
    /\ pc = "CheckDue"
    /\ IF sinceCheck < CheckPeriod
       THEN Goto("Delay") /\ UNCHANGED <<sampled, sinceCheck>>
       ELSE Goto("CheckAge") /\ sampled' = 0 /\ sinceCheck' = 0
    /\ UNCHANGED <<scan, fresh, attempt, moves, copied, values, failures, fault,
                   result>>

LimitReached(count) == count >= FailureLimit

updateAdcHealth ==
    /\ pc \in {"Verdict", "Unavailable"}
    /\ LET healthy == fresh /\ pc = "Verdict" /\ values[3].ok
           count == IF healthy THEN 0
                    ELSE IF failures < FailureLimit THEN failures + 1 ELSE failures
       IN  /\ failures' = count
           /\ fault' = (~healthy /\ LimitReached(count))
    /\ Goto("Delay")
    /\ Forget /\ fresh' = FALSE
    /\ UNCHANGED <<scan, sampled, sinceCheck, result>>

Loop == pc = "Delay" /\ Goto("Loop")
        /\ UNCHANGED <<scan, sampled, fresh, attempt, moves, copied, values,
                       health, result>>

Init ==
    /\ stopped = FALSE
    /\ samples \in {[c \in Channels |-> [id |-> 0, ok |-> b]] : b \in BOOLEAN}
    /\ sinceScan = 0
    /\ pc = "Loop" /\ sampled = 0 /\ fresh = FALSE /\ attempt = 0 /\ moves = 0
    /\ copied = {} /\ values = NoValues
    /\ result = None
    /\ sinceCheck = 0 /\ failures = 0 /\ fault = FALSE

Next ==
    \/ reportAdcDmaCompletion \/ Stop \/ Tick \/ Loop
    \/ Now("Loop", "Age") \/ Refused
    \/ Recent /\ Age("Age", "CheckDue", "Begin")
    \/ attempt > 0 /\ Begin("Begin", "Copy", "CheckDue")
    \/ Copy("Copy", "End") \/ End("End", "Begin", "Done") \/ getHVVoltages
    \/ CheckDue \/ Age("CheckAge", "CheckBegin", "CheckBegin")
    \/ Begin("CheckBegin", "CheckCopy", "Unavailable")
    \/ Copy("CheckCopy", "CheckEnd") \/ End("CheckEnd", "CheckBegin", "Verdict")
    \/ updateAdcHealth

Spec == Init /\ [][Next]_vars

-----------------------------------------------------------------------------
(* The measured voltages are of one scan, however the interrupt falls into *)
(* the copying: a battery side of one scan beside a load side of another   *)
(* would let precharge end on a difference that never was.                 *)
SamplesOfOneScan == ~result.broken

(* A converter that stopped is reported, and HV is shut off for it, within *)
(* its three checks: no interrupted copy and no health counter puts it off.*)
StoppedScanIsReported == sinceScan = LongAgo => fault

(* protocol/uart-v1.md, "DMA progress is stale only after no completed     *)
(* scan for 100 ms": PCC::loop is refused the voltages for their age only  *)
(* when the last scan is that old.                                         *)
RefusedWhenOld ==
    [][pc = "Age" /\ pc' = "CheckDue" => sinceScan > Stale]_vars
=============================================================================
