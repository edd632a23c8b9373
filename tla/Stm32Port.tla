------------------------------ MODULE Stm32Port ------------------------------
(***************************************************************************)
(* The master as the gateway meets it on the UART: the two services of a   *)
(* firmware hand-off (BmsUart.cpp, pcc.cpp), the heartbeat, the ROM loader *)
(* of the chip and the application flash.  That HV is off from PREPARE on  *)
(* is the subject of HvControl; here HV is one of the reasons for which    *)
(* PREPARE may be refused.                                                 *)
(*                                                                         *)
(* The line in each direction is a queue of frames that may lose any       *)
(* frame.  UART v1 neither duplicates nor reorders.                        *)
(***************************************************************************)
EXTENDS Naturals, Sequences

CONSTANTS
    Images,     \* firmware images that exist
    Blocks,     \* blocks of one image (256 bytes each in the code)
    LineCap     \* bound: frames under way in one direction

ASSUME PortAssumption ==
    /\ Images # {} /\ Images \cap {"none", "blank", "damaged"} = {}
    /\ Blocks \in Nat \ {0}
    /\ LineCap \in Nat \ {0}

VARIABLES
    stm,        \* what the STM32 executes: application, ROM loader, nothing
    prepared,   \* firmwareUpdatePrepared, not yet past its deadline
    flash,      \* content of each block of the application area
    toStm,      \* framed bytes from the gateway
    toGw        \* framed bytes to the gateway, its receive buffer included

portVars == <<stm, prepared, flash, toStm, toGw>>

Block == 1..Blocks

Holds(f, i) == \A b \in Block : f[b] = i

\* A block is blank when it is erased or half written, and damaged when it was
\* written but not as sent.  A damaged image may run all the same.
Bootable(f) == \E i \in Images : \A b \in Block : f[b] \in {i, "damaged"}

\* What the chip may come to execute when it starts its application.
Starts(f) ==
    {s \in {"App", "None"} :
        IF s = "App" THEN Bootable(f) ELSE \A i \in Images : ~Holds(f, i)}

PortTypeOK ==
    /\ stm \in {"App", "Rom", "None"}
    /\ prepared \in BOOLEAN
    /\ flash \in [Block -> Images \cup {"blank", "damaged"}]
    /\ toStm \in Seq({"PREPARE", "COMMIT"})
    /\ toGw \in Seq({"OK", "REFUSED", "COMMIT_DENIED", "HEARTBEAT"})

PortInit ==
    /\ stm = "App"
    /\ prepared = FALSE
    /\ \E i \in Images : flash = [b \in Block |-> i]
    /\ toStm = <<>>
    /\ toGw = <<>>

\* What may become of a line when a frame is sent: noise can destroy the frame
\* (its CRC fails), and a full line drops it.
PutAnyway(line, frame) ==
    {line, Append(line, frame)}
Put(line, frame) ==
    {line} \cup {l \in {Append(line, frame)} : Len(l) <= LineCap}

-----------------------------------------------------------------------------
(* The application's UART task and PCC loop.                               *)

\* PREPARE may be refused for reasons that are not kept here: HV in use, an
\* enumerated USB host, a register read under way, a prepared state whose deadline
\* has passed but which PCC has yet to clear.
ServePrepare ==
    /\ stm = "App"
    /\ toStm # <<>> /\ Head(toStm) = "PREPARE"
    /\ toStm' = Tail(toStm)
    /\ \/ /\ ~prepared
          /\ prepared' = TRUE
          /\ toGw' \in Put(toGw, "OK")
       \/ /\ toGw' \in Put(toGw, "REFUSED")
          /\ UNCHANGED prepared
    /\ UNCHANGED <<stm, flash>>

\* COMMIT within the prepared window enters the ROM loader without an answer;
\* outside it, it is denied and the master stays in normal operation.
ServeCommit ==
    /\ stm = "App"
    /\ toStm # <<>> /\ Head(toStm) = "COMMIT"
    /\ toStm' = Tail(toStm)
    /\ prepared' = FALSE
    /\ stm' = IF prepared THEN "Rom" ELSE "App"
    /\ toGw' \in IF prepared THEN {toGw} ELSE Put(toGw, "COMMIT_DENIED")
    /\ UNCHANGED <<flash>>

\* The prepared state runs out, in the PCC loop or at a late COMMIT.
ExpirePrepared ==
    /\ stm = "App" /\ prepared
    /\ prepared' = FALSE
    /\ UNCHANGED <<stm, flash, toStm, toGw>>

SendHeartbeat ==
    /\ stm = "App"
    /\ Len(toGw) < LineCap
    /\ toGw' = Append(toGw, "HEARTBEAT")
    /\ UNCHANGED <<stm, prepared, flash, toStm>>

\* The loader, or a chip without an application, takes no frames.
IgnoreFrame ==
    /\ stm # "App" /\ toStm # <<>>
    /\ toStm' = Tail(toStm)
    /\ UNCHANGED <<stm, prepared, flash, toGw>>

Stm32 == ServePrepare \/ ServeCommit \/ ExpirePrepared
            \/ SendHeartbeat \/ IgnoreFrame

-----------------------------------------------------------------------------
(* External: power and the wire.  What the gateway has buffered stays.     *)

PowerCycleStm32 ==
    /\ stm' \in Starts(flash)
    /\ prepared' = FALSE
    /\ toStm' = <<>>
    /\ UNCHANGED <<flash, toGw>>

WiredRecovery ==
    /\ \E i \in Images : flash' = [b \in Block |-> i]
    /\ stm' = "App"
    /\ prepared' = FALSE
    /\ toStm' = <<>>
    /\ UNCHANGED toGw

=============================================================================
