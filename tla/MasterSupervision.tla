--------------------------- MODULE MasterSupervision ---------------------------
(***************************************************************************)
(* The independent watchdog of the master (Watchdog.cpp) and the records   *)
(* that outlive its reset (BccBreadcrumb.cpp).  The main task refreshes    *)
(* the watchdog when it and the BCC task have reported progress since the  *)
(* last refresh; each task names the other when it sees it stand still;    *)
(* what they saw is kept in a backup register, and a transfer on the chain *)
(* keeps a mark in another.                                                *)
(*                                                                         *)
(* One fault is injected between two resets: a task that runs no more,     *)
(* from where it works or waits, or a transfer that never returns, during  *)
(* which the kernel is locked and no task runs.  Time is counted in        *)
(* refresh periods of 100 ms.                                              *)
(***************************************************************************)
EXTENDS Naturals

REFRESH_PERIOD == 1
PCC_STALL_CLASSIFICATION == 2
Expiry == 5              \* the watchdog's 500 ms (32 kHz / 64 / 250)
MainPeriod == 1          \* bound: a running main task comes round in 100 ms
BccPeriod == 1           \* bound: a running BCC task reports every 100 ms

Long == 10               \* bound: a task's idle time is counted no further

PCC_STALLED == "pcc"
BCC_STALLED == "bcc"

VARIABLES
    hung,            \* "no", "main", "bcc" or "transfer"
    main, bcc,       \* where the tasks are
    mainIdle, bccIdle,          \* time since they last came round
    pccNew, bccNew,  \* the counters moved since lastPccProgress, lastBccProgress
    pccZero, bccZero,           \* the progress counters are still 0
    seen, later,     \* bccNew as Watchdog::loop read it; a report since then
    sincePcc,        \* age of lastPccReportAt
    overtaken,       \* the main task reported since the BCC task read the time
    stalledSources, monitoringStarted,
    sinceRefresh,    \* the hardware's counter, and age of lastRefreshAt
    watchdogRecord,  \* backup register
    breadcrumb,      \* backup register: a transfer is pending
    report,          \* what captureOnBoot found after a watchdog reset
    culprit          \* what was hung then

tasks == <<main, bcc, mainIdle, bccIdle>>
counts == <<pccNew, bccNew, pccZero, bccZero, seen, later>>
times == <<sincePcc, overtaken, sinceRefresh>>
flags == <<stalledSources, monitoringStarted>>
backup == <<watchdogRecord, breadcrumb>>
past == <<report, culprit>>
vars == <<hung, tasks, counts, times, flags, backup, past>>

Sources == {PCC_STALLED, BCC_STALLED}
NoReport == [stalled |-> {}, monitoring |-> FALSE, pending |-> FALSE]

TypeOK ==
    /\ hung \in {"no", "main", "bcc", "transfer"}
    /\ main \in {"Boot", "Setup", "SetupPersist", "Report", "ReportPersist",
                 "Due", "Read", "Judge", "StallPersist", "ClearPersist",
                 "Refresh", "Delay"}
    /\ bcc \in {"Off", "Report", "Classify", "Persist", "Work", "Transfer"}
    /\ mainIdle \in 0..Long /\ bccIdle \in 0..Long
    /\ pccNew \in BOOLEAN /\ bccNew \in BOOLEAN /\ seen \in BOOLEAN
    /\ later \in BOOLEAN
    /\ pccZero \in BOOLEAN /\ bccZero \in BOOLEAN
    /\ sincePcc \in 0..Expiry /\ overtaken \in BOOLEAN
    /\ sinceRefresh \in 0..Expiry
    /\ stalledSources \subseteq Sources /\ monitoringStarted \in BOOLEAN
    /\ watchdogRecord \in [stalled : SUBSET Sources, monitoring : BOOLEAN]
    /\ breadcrumb \in BOOLEAN
    /\ report \in [stalled : SUBSET Sources, monitoring : BOOLEAN, pending : BOOLEAN]
    /\ culprit \in {"no", "main", "bcc", "transfer"}

-----------------------------------------------------------------------------
\* Who can take a step: the transfer locks the kernel.
MainRuns == hung \notin {"main", "transfer"} /\ bcc # "Transfer"
BccRuns == hung \notin {"bcc", "transfer"}

persistState ==
    watchdogRecord' = [stalled |-> stalledSources, monitoring |-> monitoringStarted]

(* Watchdog::setup, after the BCC task was started                         *)
Setup ==
    /\ MainRuns /\ main = "Setup"
    /\ main' = "SetupPersist"
    /\ pccNew' = FALSE /\ bccNew' = FALSE /\ pccZero' = TRUE /\ bccZero' = TRUE
    /\ sincePcc' = 0 /\ overtaken' = TRUE
    /\ stalledSources' = {} /\ monitoringStarted' = FALSE
    /\ UNCHANGED <<hung, bcc, mainIdle, bccIdle, seen, later, sinceRefresh,
                   backup, past>>

SetupPersist ==
    /\ MainRuns /\ main = "SetupPersist"
    /\ main' = "Report"
    /\ persistState
    /\ sinceRefresh' = 0
    /\ UNCHANGED <<hung, bcc, mainIdle, bccIdle, counts, sincePcc, overtaken,
                   flags, breadcrumb, past>>

(* reportPccProgress, at the head of PCC::loop                             *)
reportPccProgress ==
    /\ MainRuns /\ main = "Report"
    /\ main' = "ReportPersist"
    /\ pccNew' = TRUE /\ pccZero' = FALSE
    /\ sincePcc' = 0 /\ overtaken' = TRUE
    /\ mainIdle' = 0
    /\ UNCHANGED <<hung, bcc, bccIdle, bccNew, bccZero, seen, later,
                   sinceRefresh, flags, backup, past>>

ReportPersist ==
    /\ MainRuns /\ main = "ReportPersist"
    /\ main' = "Due"
    /\ persistState
    /\ UNCHANGED <<hung, bcc, mainIdle, bccIdle, counts, times, flags,
                   breadcrumb, past>>

-----------------------------------------------------------------------------
(* Watchdog::loop                                                          *)
Due ==
    /\ MainRuns /\ main = "Due"
    /\ main' = IF sinceRefresh < REFRESH_PERIOD THEN "Delay" ELSE "Read"
    /\ UNCHANGED <<hung, bcc, mainIdle, bccIdle, counts, times, flags, backup,
                   past>>

Read ==
    /\ MainRuns /\ main = "Read"
    /\ seen' = bccNew /\ later' = FALSE
    /\ main' = IF pccZero \/ bccZero THEN "Delay" ELSE "Judge"
    /\ UNCHANGED <<hung, bcc, mainIdle, bccIdle, pccNew, bccNew, pccZero,
                   bccZero, times, flags, backup, past>>

Stopped == {s \in Sources : \/ s = PCC_STALLED /\ ~pccNew
                            \/ s = BCC_STALLED /\ ~seen}

Stall ==
    /\ MainRuns /\ main = "Judge"
    /\ monitoringStarted /\ Stopped # {}
    /\ stalledSources' = stalledSources \cup Stopped
    /\ seen' = FALSE /\ later' = FALSE
    /\ main' = "StallPersist"
    /\ UNCHANGED <<hung, bcc, mainIdle, bccIdle, pccNew, bccNew, pccZero,
                   bccZero, times, monitoringStarted, backup, past>>

StallPersist ==
    /\ MainRuns /\ main = "StallPersist"
    /\ persistState
    /\ main' = "Delay"
    /\ UNCHANGED <<hung, bcc, mainIdle, bccIdle, counts, times, flags,
                   breadcrumb, past>>

\* Remember the counts as they were read: a report since then still counts.
Progress ==
    /\ MainRuns /\ main = "Judge"
    /\ ~(monitoringStarted /\ Stopped # {})
    /\ stalledSources' = {}
    /\ monitoringStarted' = TRUE
    /\ pccNew' = FALSE
    /\ bccNew' = later
    /\ seen' = FALSE /\ later' = FALSE
    /\ main' = "ClearPersist"
    /\ UNCHANGED <<hung, bcc, mainIdle, bccIdle, pccZero, bccZero, times,
                   backup, past>>

ClearPersist ==
    /\ MainRuns /\ main = "ClearPersist"
    /\ persistState
    /\ main' = "Refresh"
    /\ UNCHANGED <<hung, bcc, mainIdle, bccIdle, counts, times, flags,
                   breadcrumb, past>>

Refresh ==
    /\ MainRuns /\ main = "Refresh"
    /\ sinceRefresh' = 0
    /\ main' = "Delay"
    /\ UNCHANGED <<hung, bcc, mainIdle, bccIdle, counts, sincePcc, overtaken,
                   flags, backup, past>>

\* The main task comes round.
Loop ==
    /\ MainRuns /\ main = "Delay"
    /\ main' = "Report"
    /\ UNCHANGED <<hung, bcc, mainIdle, bccIdle, counts, times, flags, backup,
                   past>>

-----------------------------------------------------------------------------
(* reportBccProgress: count, read the time, compare it with the main       *)
(* task's last report, persist.  A report of the main task between reading *)
(* the time and the comparison can make the unsigned difference wrap.      *)
BccReport ==
    /\ BccRuns /\ bcc = "Report"
    /\ bccNew' = TRUE /\ bccZero' = FALSE
    /\ later' = (main = "Judge")
    /\ bccIdle' = 0
    /\ overtaken' = FALSE
    /\ bcc' = "Classify"
    /\ UNCHANGED <<hung, main, mainIdle, pccNew, pccZero, seen, sincePcc,
                   sinceRefresh, flags, backup, past>>

PccStandsStill == sincePcc >= PCC_STALL_CLASSIFICATION

BccClassify ==
    /\ BccRuns /\ bcc = "Classify"
    /\ \/ /\ monitoringStarted
          /\ PccStandsStill \/ overtaken
          /\ stalledSources' = stalledSources \cup {PCC_STALLED}
       \/ /\ ~(monitoringStarted /\ PccStandsStill)
          /\ UNCHANGED stalledSources
    /\ overtaken' = FALSE
    /\ bcc' = "Persist"
    /\ UNCHANGED <<hung, main, mainIdle, bccIdle, counts, sincePcc,
                   sinceRefresh, monitoringStarted, backup, past>>

BccPersist ==
    /\ BccRuns /\ bcc = "Persist"
    /\ persistState
    /\ bcc' = "Work"
    /\ UNCHANGED <<hung, main, mainIdle, bccIdle, counts, times, flags,
                   breadcrumb, past>>

\* BCC_Communication::transfer: the kernel is locked from the mark to its
\* removal.
recordTransferStart ==
    /\ BccRuns /\ bcc = "Work"
    /\ breadcrumb' = TRUE
    /\ bcc' = "Transfer"
    /\ UNCHANGED <<hung, main, mainIdle, bccIdle, counts, times, flags,
                   watchdogRecord, past>>

recordTransferComplete ==
    /\ BccRuns /\ bcc = "Transfer"
    /\ breadcrumb' = FALSE
    /\ bcc' = "Work"
    /\ UNCHANGED <<hung, main, mainIdle, bccIdle, counts, times, flags,
                   watchdogRecord, past>>

BccLoop ==
    /\ BccRuns /\ bcc = "Work"
    /\ bcc' = "Report"
    /\ UNCHANGED <<hung, main, mainIdle, bccIdle, counts, times, flags, backup,
                   past>>

-----------------------------------------------------------------------------
Hang(where) ==
    /\ hung = "no" /\ main # "Boot"
    /\ CASE where = "main" -> main = "Delay" /\ bcc # "Transfer"
         [] where = "bcc" -> bcc = "Work"
         [] where = "transfer" -> bcc = "Transfer"
    /\ hung' = where
    /\ UNCHANGED <<tasks, counts, times, flags, backup, past>>

\* A running task is not kept from coming round for longer than its bound;
\* no transfer that returns takes that long, and no report.
Tick ==
    /\ sinceRefresh < Expiry
    /\ hung = "no" => bcc # "Transfer"
    /\ bcc \notin {"Classify", "Persist"}
    /\ hung \in {"main", "transfer"} \/ mainIdle < MainPeriod
    /\ bcc = "Off" \/ hung \in {"bcc", "transfer"} \/ bccIdle < BccPeriod
    /\ sinceRefresh' = sinceRefresh + 1
    /\ mainIdle' = IF mainIdle < Long THEN mainIdle + 1 ELSE mainIdle
    /\ bccIdle' = IF bccIdle < Long THEN bccIdle + 1 ELSE bccIdle
    /\ sincePcc' = IF sincePcc < Expiry THEN sincePcc + 1 ELSE sincePcc
    /\ UNCHANGED <<hung, main, bcc, counts, overtaken, flags, backup, past>>

\* The watchdog resets the processor; the backup registers keep their values.
Reset ==
    /\ sinceRefresh = Expiry
    /\ culprit' = hung
    /\ hung' = "no"
    /\ main' = "Boot" /\ bcc' = "Off" /\ mainIdle' = 0 /\ bccIdle' = 0
    /\ pccNew' = FALSE /\ bccNew' = FALSE /\ pccZero' = TRUE /\ bccZero' = TRUE
    /\ seen' = FALSE /\ later' = FALSE /\ sincePcc' = 0 /\ overtaken' = FALSE
    /\ stalledSources' = {} /\ monitoringStarted' = FALSE
    /\ sinceRefresh' = 0
    /\ UNCHANGED <<backup, report>>

(* captureOnBoot, the first call of FaultManager::setup, before the BCC    *)
(* task is started and Watchdog::setup writes its record                   *)
captureNothing == [NoReport EXCEPT !.monitoring = watchdogRecord.monitoring]  \* (for mutation)
captured == [stalled |-> watchdogRecord.stalled,
             monitoring |-> watchdogRecord.monitoring, pending |-> breadcrumb]

captureOnBoot ==
    /\ main = "Boot"
    /\ report' = IF culprit = "no" THEN NoReport ELSE captured
    /\ main' = "Setup" /\ bcc' = "Report"
    /\ UNCHANGED <<hung, mainIdle, bccIdle, counts, times, flags, backup, culprit>>

Init ==
    /\ hung = "no" /\ main = "Boot" /\ bcc = "Off" /\ mainIdle = 0 /\ bccIdle = 0
    /\ pccNew = FALSE /\ bccNew = FALSE /\ pccZero = TRUE /\ bccZero = TRUE
    /\ seen = FALSE /\ later = FALSE
    /\ sincePcc = 0 /\ overtaken = FALSE /\ sinceRefresh = 0
    /\ stalledSources = {} /\ monitoringStarted = FALSE
    /\ watchdogRecord = [stalled |-> {}, monitoring |-> FALSE]
    /\ breadcrumb = FALSE
    /\ report = NoReport /\ culprit = "no"

Next ==
    \/ Setup \/ SetupPersist \/ reportPccProgress \/ ReportPersist
    \/ Due \/ Read \/ Stall \/ StallPersist \/ Progress \/ ClearPersist
    \/ Refresh \/ Loop
    \/ BccReport \/ BccClassify \/ BccPersist \/ recordTransferStart
    \/ recordTransferComplete \/ BccLoop
    \/ \E where \in {"main", "bcc", "transfer"} : Hang(where)
    \/ Tick \/ Reset \/ captureOnBoot

Spec == Init /\ [][Next]_vars

-----------------------------------------------------------------------------
(* The watchdog never resets a processor whose tasks both run, however     *)
(* their reports fall between the reading and the remembering of the       *)
(* progress counters.                                                      *)
RunningIsNotReset == sinceRefresh = Expiry => hung # "no"

(* A task that stands still, or a transfer that never returns, ends in a   *)
(* reset: the watchdog is refreshed for it at most once more, for the      *)
(* progress it reported before.                                            *)
HungIsReset ==
    /\ hung = "bcc" => bccIdle <= Expiry + 2 * MainPeriod + REFRESH_PERIOD
    /\ hung \in {"main", "transfer"} => mainIdle <= Expiry + MainPeriod

(* After a watchdog reset the master reports who stood still: the task is  *)
(* among the sources it kept once monitoring had begun, and a transfer     *)
(* that never returned is still marked pending.                            *)
ReportNamesTheCulprit ==
    main = "Setup" /\ report.monitoring =>
        /\ culprit = "main" => PCC_STALLED \in report.stalled
        /\ culprit = "bcc" => BCC_STALLED \in report.stalled
        /\ culprit = "transfer" => report.pending
=============================================================================
